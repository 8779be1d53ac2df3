------------------------------ MODULE Outline ------------------------------
(***************************************************************************)
(* The structure of the record, as a reader may page through it, and the    *)
(* addresses it hands out (packages/content/src/lib/read.ts, and           *)
(* outlineDocuments of service.ts).  A node is known by its path, the slugs *)
(* from the top, and its kind; "at" has the positions along the path, which *)
(* are ranks in the whole record.  Each page is a read of its own, so a     *)
(* release, an undo or a takedown may come between two of them.             *)
(***************************************************************************)
EXTENDS Integers, FiniteSetsExt, SequencesExt

CONSTANTS
    Slugs, Bundle, \* of paths; the bundle's is the first segment of every stable id
    Trees,    \* what a generation may hold: sets of nodes, slugs unique among siblings
    Viewers,  \* sets of audiences
    Depths, Limits,   \* that a caller asks for
    MaxChanges        \* bounds releases and takedowns

Parent(n) == Front(n.path)

\* In a release the slugs of siblings differ, as do their positions; what a node holds
\* is placed beneath it, and siblings beneath the same.  A page has a row at least.
ASSUME OutlineAssumption ==
    /\ Bundle \in Slugs /\ Depths \subseteq Nat /\ Limits \subseteq Nat \ {0}
    /\ \A t \in Trees :
         /\ IsFiniteSet(t)
         /\ \A n \in t :
              /\ n.path \in Seq(Slugs) \ {<<>>} /\ n.kind \in {"section", "document"}
              /\ n.at \in Seq(Nat) \ {<<>>}
         /\ \A m, n \in t :
              /\ (m.path = n.path \/ m.at = n.at) => m = n
              /\ IsStrictPrefix(m.path, n.path) => IsStrictPrefix(m.at, n.at)
              /\ Parent(m) = Parent(n) => Front(m.at) = Front(n.at)

VARIABLES
    tree,     \* the nodes of the generation served
    barred,   \* the nodes named by the denials in force
    asked,    \* an outline under way: who asks, from where, how deep, how many rows
    shelf,    \* the rows it has so far
    next,     \* the next_offset it was told; 0 when there is no more
    steady,   \* whether the record stood still since its first page
    changes

outlineVars == <<tree, barred, asked, shelf, next, steady, changes>>

Ident(n) == [path |-> n.path, kind |-> n.kind]

\* What a read finds.
AsServed == [nodes |-> tree, barred |-> barred]

-----------------------------------------------------------------------------
\* deniedCte: a denial of a section is of all that is filed beneath.
Denied(r, n) ==
    \E b \in r.barred : b = Ident(n) \/ (b.kind = "section" /\ IsStrictPrefix(b.path, n.path))

\* admittedCte: what the viewer may read, and the sections above it.
Documents(r, viewer) ==
    {n \in r.nodes : n.kind = "document" /\ n.aud \cap viewer # {} /\ ~Denied(r, n)}
Holds(s, documents) == \E d \in documents : IsStrictPrefix(s.path, d.path)
Admitted(r, viewer) ==
    LET documents == Documents(r, viewer)
    IN  documents
        \cup {s \in r.nodes : s.kind = "section" /\ ~Denied(r, s) /\ Holds(s, documents)}

-----------------------------------------------------------------------------
(* Addresses: what an address stands for, which is unknown when nothing and    *)
(* ambiguous when several.                                                     *)
LeafSlug(address) == Last(address)
SlugCandidates(r, viewer, slug) == {n \in Admitted(r, viewer) : Last(n.path) = slug}

ResolveDocumentNode(candidates, want) == {c \in candidates : IsSuffix(want, c.path)}

\* outline's anchor.
FindAnchor(r, viewer, address) ==
    ResolveDocumentNode(SlugCandidates(r, viewer, LeafSlug(address)), address)

\* findDocument: a stable id, else as the outline does.  (No code writes an alias.)
FindDocument(r, viewer, address) ==
    LET exact == {n \in Admitted(r, viewer) :
                    n.kind = "document" /\ <<Bundle>> \o n.path = address}
    IN  IF exact # {} THEN exact ELSE FindAnchor(r, viewer, address)

-----------------------------------------------------------------------------
\* The order of arrays: a prefix first, else by the first that differs.
Before(m, n) ==
    \/ IsStrictPrefix(m.at, n.at)
    \/ \E k \in DOMAIN m.at \cap DOMAIN n.at :
         m.at[k] < n.at[k] /\ \A i \in 1..(k - 1) : m.at[i] = n.at[i]

\* Variant: the stored rank.
StoredRank(rows, n) == Last(n.at)

\* row_number() over the rows a parent has in the answer.
Position(rows, n) == Cardinality({m \in rows : Parent(m) = Parent(n) /\ ~Before(n, m)})

\* The rows in that order.
Nth(rows, i) == CHOOSE n \in rows : Cardinality({m \in rows : Before(m, n)}) = i - 1

\* OUTLINE_SQL: the walk goes through what the viewer may not see, and each row is
\* gated on its own; an anchor is not among its rows.
Top(anchor) == Max({1, Len(anchor)})
RowsUnder(visible, anchor, depth) ==
    {n \in visible : IsStrictPrefix(anchor, n.path) /\ Len(n.path) - Top(anchor) <= depth}
OutlineQuery(r, viewer, anchor, depth) ==
    LET visible == Admitted(r, viewer)
        rows == RowsUnder(visible, anchor, depth)
        Row(n) == [path |-> SubSeq(n.path, Top(anchor), Len(n.path)), kind |-> n.kind,
                   depth |-> Len(n.path) - Top(anchor), position |-> Position(rows, n),
                   childCount |-> Cardinality({c \in visible : Parent(c) = n.path})]
    IN  [i \in 1..Cardinality(rows) |-> Row(Nth(rows, i))]

\* rebaseOutlineRows, with the anchor's path from UP_WALK_SQL.
Rebase(rows, anchor) ==
    IF anchor = <<>> THEN rows
    ELSE [i \in DOMAIN rows |->
            [rows[i] EXCEPT !.path = Front(anchor) \o rows[i].path,
                            !.depth = Len(anchor) - 1 + rows[i].depth]]

\* A drill-down is of the children at least.
DepthOf(anchor, depth) == IF anchor = <<>> THEN depth ELSE Max({1, depth})

\* What the caller named: the whole record, or a node.
Named(r, a) == a.root # <<>> => Cardinality(FindAnchor(r, a.viewer, a.root)) = 1
AnchorOf(r, a) ==
    IF a.root = <<>> THEN <<>> ELSE (CHOOSE n \in FindAnchor(r, a.viewer, a.root) : TRUE).path

\* outlineDocuments: one row more than the page is asked for.
Outlined(r, a) ==
    LET anchor == AnchorOf(r, a)
    IN  Rebase(OutlineQuery(r, a.viewer, anchor, DepthOf(anchor, a.depth)), anchor)
Page(r, a, offset) ==
    LET found == Outlined(r, a)
        rows == SubSeq(found, offset + 1, Min({offset + a.limit + 1, Len(found)}))
        hasMore == Len(rows) > a.limit
        kept == IF hasMore THEN Front(rows) ELSE rows
    IN  [rows |-> kept, next |-> IF hasMore THEN offset + Len(kept) ELSE 0]

-----------------------------------------------------------------------------
Nothing == [viewer |-> {}, root |-> <<>>, depth |-> 0, limit |-> 0]

OutlineInit ==
    /\ tree \in Trees
    /\ barred = {} /\ asked = Nothing /\ shelf = <<>> /\ next = 0 /\ steady = TRUE /\ changes = 0

\* The record's outline, or that of a node by any end of its path.
Outline(viewer, depth, limit) ==
    /\ asked = Nothing
    /\ \E root \in {<<>>} \cup UNION {Suffixes(n.path) : n \in tree} :
         /\ asked' = [viewer |-> viewer, root |-> root, depth |-> depth, limit |-> limit]
         /\ Named(AsServed, asked')
         /\ LET page == Page(AsServed, asked', 0) IN shelf' = page.rows /\ next' = page.next
    /\ steady' = TRUE /\ UNCHANGED <<tree, barred, changes>>

\* The next page; a node that is no longer found ends the outline.
More ==
    /\ next # 0
    /\ \/ /\ Named(AsServed, asked)
          /\ LET page == Page(AsServed, asked, next) IN shelf' = shelf \o page.rows /\ next' = page.next
          /\ UNCHANGED asked
       \/ ~Named(AsServed, asked) /\ asked' = Nothing /\ shelf' = <<>> /\ next' = 0
    /\ UNCHANGED <<tree, barred, steady, changes>>

\* The caller is done with it.
Done ==
    /\ asked # Nothing /\ asked' = Nothing /\ shelf' = <<>> /\ next' = 0 /\ steady' = TRUE
    /\ UNCHANGED <<tree, barred, changes>>

Change == changes < MaxChanges /\ changes' = changes + 1 /\ steady' = (asked = Nothing)

Release ==
    /\ Change /\ tree' \in Trees \ {tree}
    /\ UNCHANGED <<barred, asked, shelf, next>>

TakeDown(n) ==
    /\ Change /\ barred' = IF Ident(n) \in barred THEN barred \ {Ident(n)} ELSE barred \cup {Ident(n)}
    /\ UNCHANGED <<tree, asked, shelf, next>>

OutlineNext ==
    \/ \E viewer \in Viewers, depth \in Depths, limit \in Limits : Outline(viewer, depth, limit)
    \/ More \/ Done \/ Release \/ \E n \in tree : TakeDown(n)

OutlineSpec == OutlineInit /\ [][OutlineNext]_outlineVars

-----------------------------------------------------------------------------
\* Paged to its end over a record that stood still, an outline has every node that
\* the caller may read and the sections above them, to the depth asked for, each
\* once, a section before what it holds and siblings in the record's order and
\* numbered from 1 without a gap; and how many rows are beneath each is right.
RowsAreTheRecord ==
    LET anchor == AnchorOf(AsServed, asked)
        deepest == Len(anchor) + IF anchor = <<>> THEN asked.depth + 1 ELSE Max({1, asked.depth})
        Beneath(path) == {m \in Admitted(AsServed, asked.viewer) : Parent(m) = path}
        rows == {n \in Admitted(AsServed, asked.viewer) :
                   IsStrictPrefix(anchor, n.path) /\ Len(n.path) <= deepest}
        RowOf(n) == CHOOSE i \in DOMAIN shelf : shelf[i].path = n.path
    IN  /\ {Ident(shelf[i]) : i \in DOMAIN shelf} = {Ident(n) : n \in rows}
        /\ Len(shelf) = Cardinality(rows)
        /\ \A m, n \in rows :
             IsStrictPrefix(m.path, n.path) \/ (Parent(m) = Parent(n) /\ Last(m.at) < Last(n.at))
               => RowOf(m) < RowOf(n)
        /\ \A n \in rows :
             LET siblings == Beneath(Parent(n))
             IN  /\ {shelf[RowOf(m)].position : m \in siblings} = 1..Cardinality(siblings)
                 /\ shelf[RowOf(n)].depth = Len(n.path) - 1
                 /\ shelf[RowOf(n)].childCount = Cardinality(Beneath(n.path))

\* What a caller may not see leaves no trace in what an outline or an address
\* says; and an address taken from an outline leads to that very node, or also ends
\* the path of another and is refused.  Save that one which starts as a stable id
\* does may be a stable id.
AddressesLeadBack ==
    \A viewer \in Viewers :
      LET seen == Admitted(AsServed, viewer)
          Seen == [nodes |-> seen, barred |-> barred]
      IN  \A n \in seen :
            LET documents == FindDocument(AsServed, viewer, n.path)
                anchors == FindAnchor(AsServed, viewer, n.path)
                Drilled(r) == OutlineQuery(r, viewer, n.path, Max(Depths))
            IN  /\ documents = FindDocument(Seen, viewer, n.path)
                /\ anchors = FindAnchor(Seen, viewer, n.path)
                /\ Drilled(AsServed) = Drilled(Seen)
                /\ n \in anchors
                /\ n.path[1] # Bundle => documents = anchors
                /\ \A m \in anchors \ {n} :
                     Len(m.path) > Len(n.path) /\ n.path \in Suffixes(m.path)

\* The record that a caller pages through is the one it may read, and what it is
\* told there can be followed (OUTLINE_SQL, rebaseOutlineRows, outlineDocuments,
\* findDocument).
OutlineIsTheRecord ==
    /\ asked = Nothing => AddressesLeadBack
    /\ asked # Nothing /\ next = 0 /\ steady => RowsAreTheRecord
=============================================================================
