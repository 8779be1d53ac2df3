------------------------------ MODULE Surfaces ------------------------------
(***************************************************************************)
(* One record, three surfaces.  `ksor build` checks the record and locks   *)
(* it, with a bundle for each canonical viewer (ksor/src/build); the site  *)
(* stages what its viewer may read (site/lib); an ingest fills the tables  *)
(* the door answers from (content/src/ingest).  Each surface decides for   *)
(* itself what it shows, by audience, lifecycle and takedown, and in which *)
(* order.  The record is edited, its policy changes, documents are taken   *)
(* down and time passes between any two of these.                          *)
(* An id is the sequence of its names, a name a number in code point order.*)
(***************************************************************************)
EXTENDS Integers, SequencesExt

CONSTANTS
    Ids,        \* the documents there may be
    Dirs,       \* the directories under knowledge/
    Assets,     \* the images there are
    Slug,       \* the slug of a name
    Trees,      \* the records a behaviour starts from: a document for each id
    Rewrites,   \* what an author may write: an id and its document
    Charters,   \* the policies the record may have, the first at the start
    Targets,    \* what may be taken down: an id or a directory, and a scope
    Readers,    \* the viewers a site or a door may be built for
    Unordered,  \* the order of a document that declares none
    Unsaid,     \* of an actor or a badge there is not
    MaxClock, MaxEdits

\* What may be written: numbers where order and life cycle have them, and links
\* to the companions of documents.
Legible(d) ==
    /\ d.here \in BOOLEAN /\ d.status \in {"draft", "stable", "deprecated"}
    /\ {d.order, d.from, d.until, d.tier} \subseteq Nat
    /\ \A x \in d.links \cup d.summary :
         /\ x.at \in Seq(Nat)
         /\ x.is = "companion" => x.at \in Ids
         /\ x.is = "asset" => x.at # <<>>

\* An id has a name, each above it is a directory's, and there are finitely many.
ASSUME SurfacesAssumption ==
    /\ Ids \subseteq Seq(Nat) \ {<<>>} /\ IsFiniteSet(Ids) /\ Assets \subseteq Seq(Nat) \ {<<>>}
    /\ Dirs \subseteq Seq(Nat)
    /\ \A i \in Ids : \A n \in 1..Len(i) : n # Len(i) => SubSeq(i, 1, n) \in Dirs
    /\ \A t \in Trees : t = [i \in Ids |-> t[i]] /\ \A i \in Ids : Legible(t[i])
    /\ \A r \in Rewrites : r.at \in Ids /\ Legible(r.doc)
    /\ Targets \subseteq [at : Seq(Nat), scope : {"node", "subtree"}]
    /\ Unsaid \notin {"draft", "stable", "deprecated", "effective-from", "stale"}
    /\ Unordered \in Nat

VARIABLES
    docs,       \* the documents of the record
    charter,    \* .ksor/governance.yaml
    withdrawn,  \* the denials in force in .ksor/takedowns.yaml
    lockfile,   \* build.lock.json, with the bundles it has the digests of
    site,       \* the site last built
    served,     \* the documents of the generation the door serves
    deniedRows, \* takedown_denylist
    hour,       \* the instant, at most MaxClock
    edits       \* edits made, at most MaxEdits

surfaceVars == <<docs, charter, withdrawn, lockfile, site, served, deniedRows, hour, edits>>

NotBuilt == [is |-> "none"]
To(is, at) == [is |-> is, at |-> at]

-----------------------------------------------------------------------------
\* Who may read.
Overlaps(viewer, audience) == viewer \cap audience # {}
MayReach(source, target) == "public" \in target \/ source \subseteq target
CanonicalViewers(c) == [v \in {"public"} \cup c.audiences |-> {"public", v}]

\* What its life cycle admits.
Current(d, at) == d.status = "stable" /\ d.from <= at /\ at < d.until
AdmitsLifecycle(d, surface, at, drafts) ==
    IF d.status = "draft" THEN surface = "human" /\ drafts
    ELSE surface = "human" \/ Current(d, at)
Badge(d, at) ==
    IF d.status # "stable" THEN d.status
    ELSE IF at < d.from THEN "effective-from"
    ELSE IF d.until <= at THEN "stale"
    ELSE Unsaid

\* What is taken down.
TakenDown(ds, i) ==
    \E e \in ds : i = e.at \/ (e.scope = "subtree" /\ IsPrefix(e.at, i))

-----------------------------------------------------------------------------
\* The checker.
Concepts(t) == {i \in Ids : t[i].here}
Inside(t, dir) == {i \in Concepts(t) : IsPrefix(dir, i)}

\* A concept the profile reads: what it says of itself, and the acts its status
\* rests on.
Shaped(d) == ~d.flaw /\ d.aud # {}
Attested(d) ==
    /\ d.status = "stable" => 0 < d.generated /\ 0 < d.approved /\ d.generated <= d.approved
    /\ d.status = "deprecated" => d.withdrawer # Unsaid
Sound(d) == Shaped(d) /\ Attested(d)

\* The rules of the policy that bind a concept: the deepest path, then the type.
Covers(r, i, type) ==
    /\ r.paths = {} \/ \E p \in r.paths : IsPrefix(p, i)
    /\ r.types = {} \/ type \in r.types
Sharpness(r, i) ==
    LET depth == Max({0} \cup {Len(p) : p \in {q \in r.paths : IsPrefix(q, i)}})
    IN  2 * depth + (IF r.types = {} THEN 0 ELSE 1)
MostSpecific(rules, i, type) ==
    LET bind == {r \in rules : Covers(r, i, type)}
    IN  {r \in bind : \A s \in bind : Sharpness(s, i) <= Sharpness(r, i)}
Approvers(c, i, type) ==
    LET bind == MostSpecific(c.approvals, i, type)
    IN  {a \in UNION {r.actors : r \in bind} : \A r \in bind : a \in r.actors}
Owners(c, i, type) == {r.owner : r \in MostSpecific(c.owners, i, type)}
AgainstPolicy(t, c, i) ==
    \/ ~(t[i].aud \subseteq {"public"} \cup c.audiences)
    \/ (t[i].approver # Unsaid /\ t[i].approver \notin Approvers(c, i, t[i].type))
    \/ /\ t[i].withdrawer # Unsaid
       /\ \/ Cardinality(Owners(c, i, t[i].type)) > 1
          \/ t[i].withdrawer \notin Owners(c, i, t[i].type) \cup c.takers

\* A directory none of whose concepts a reader of aud may open, by the nearest
\* directory that holds a concept at all.
ClosedHere(t, aud, dir) ==
    Inside(t, dir) # {} /\ \A i \in Inside(t, dir) : ~MayReach(aud, t[i].aud)
Closed(t, aud, dir) ==
    LET held == {n \in 1..Len(dir) : Inside(t, SubSeq(dir, 1, n)) # {}}
    IN  /\ held # {}
        /\ \A i \in Inside(t, SubSeq(dir, 1, Max(held))) : ~MayReach(aud, t[i].aud)
Populated(S, dir) == \E i \in S : IsStrictPrefix(dir, i)
Exists(t, x) ==
    CASE x.is = "document" -> x.at \in Concepts(t)
      [] x.is = "companion" -> t[x.at].with # {}
      [] x.is = "asset" -> x.at \in Assets
      [] x.is = "directory" -> x.at \in Dirs \cup {<<>>}
      [] x.is = "index" -> Populated(Concepts(t), x.at)
      [] OTHER -> FALSE
Widens(t, aud, x) ==
    CASE x.is \in {"document", "companion"} -> x.at \in Concepts(t) /\ ~MayReach(aud, t[x.at].aud)
      [] x.is = "asset" -> Closed(t, aud, Front(x.at))
      [] OTHER -> Closed(t, aud, x.at)
BadLink(t, i, x) == ~Exists(t, x) \/ Widens(t, t[i].aud, x)
Strands(t, i) ==
    LET next == t[i].sup
    IN  /\ next # <<>>
        /\ \/ t[i].status # "deprecated"
           \/ next \notin Concepts(t)
           \/ t[next].status # "stable"
           \/ ~MayReach(t[i].aud, t[next].aud)

\* A companion with no document, a document named as a directory, no document.
Untidy(t) ==
    \/ Concepts(t) = {}
    \/ \E i \in Ids \ Concepts(t) : t[i].with # {}
    \/ Concepts(t) \cap Dirs # {}
Standing(t, e) ==
    IF (e.scope = "node" /\ e.at \in Concepts(t)) \/ (e.scope = "subtree" /\ e.at \in Dirs)
    THEN "present" ELSE "removed"
Dangles(t, ds) == \E e \in ds : e.expected # Standing(t, e)
AtFault(t, c, i) ==
    \/ ~Sound(t[i]) \/ Strands(t, i) \/ AgainstPolicy(t, c, i)
    \/ \E x \in t[i].links \cup t[i].summary : BadLink(t, i, x)
Refused(t, c, ds) ==
    Untidy(t) \/ Dangles(t, ds) \/ \E i \in Concepts(t) : AtFault(t, c, i)

-----------------------------------------------------------------------------
\* Reading order: siblings by order, then by name, a folder by its lowest order.
FolderOrder(t, S, dir) ==
    Min({Unordered} \cup {t[i].order : i \in {j \in S : IsStrictPrefix(dir, j)}})
OrderOf(t, S, x) == IF x \in S THEN t[x].order ELSE FolderOrder(t, S, x)
Siblings(t, S, x, y) ==
    LET a == OrderOf(t, S, x)
        b == OrderOf(t, S, y)
    IN  a < b \/ (a = b /\ Last(x) < Last(y))
Children(S, dir) == {SubSeq(i, 1, Len(dir) + 1) : i \in {j \in S : IsStrictPrefix(dir, j)}}
\* S in the order R puts it in: each after those that come before it.
InOrder(S, R) ==
    [n \in 1..Cardinality(S) |->
       CHOOSE x \in S : Cardinality({y \in S : <<y, x>> \in R}) + 1 = n]
Listing(t, S, dir) ==
    LET held == Children(S, dir)
    IN  InOrder(held, {xy \in held \X held : Siblings(t, S, xy[1], xy[2])})
Indexes(t, S) == [dir \in {d \in Dirs : Populated(S, d)} \cup {<<>>} |-> Listing(t, S, dir)]

\* Which of two documents comes first, where the folders are ordered by all of S.
Precedes(t, S, i, j) ==
    LET n == Min({m \in 1..Len(i) : m > Len(j) \/ i[m] # j[m]})
    IN  i # j /\ Siblings(t, S, SubSeq(i, 1, n), SubSeq(j, 1, n))

-----------------------------------------------------------------------------
\* `ksor build`: the bundle of each canonical viewer.
AssetsOf(t, S) ==
    {x.at : x \in {y \in UNION {t[i].links \cup t[i].summary \cup t[i].deck : i \in S} :
                     y.is = "asset" /\ y.at \in Assets}}
AdmittedTo(viewer, t, ds, at) ==
    {i \in Concepts(t) :
       /\ AdmitsLifecycle(t[i], "machine", at, FALSE)
       /\ ~TakenDown(ds, i) /\ Overlaps(viewer, t[i].aud)}
Bundle(viewer, t, ds, at) ==
    LET held == AdmittedTo(viewer, t, ds, at)
    IN  [held |-> held, assets |-> AssetsOf(t, held), indexes |-> Indexes(t, held)]
Bundles(t, c, ds, at) ==
    [v \in DOMAIN CanonicalViewers(c) |-> Bundle(CanonicalViewers(c)[v], t, ds, at)]

\* The site: what planStage copies, and what a page says of itself.
Page(d, at, drafts) ==
    [machine |-> AdmitsLifecycle(d, "machine", at, drafts), badge |-> Badge(d, at),
     successor |-> IF d.status = "deprecated" THEN d.sup ELSE <<>>]
Staged(t, ds, at, drafts, viewer) ==
    {i \in Concepts(t) :
       ~TakenDown(ds, i) /\ Overlaps(viewer, t[i].aud) /\ AdmitsLifecycle(t[i], "human", at, drafts)}
PlanStage(t, ds, at, drafts, viewer, stamped) ==
    LET kept == Staged(t, ds, at, drafts, viewer)
    IN  [is |-> "site", viewer |-> viewer, stamped |-> stamped, of |-> t, under |-> ds, asOf |-> at,
         pages |-> [i \in kept |-> Page(t[i], at, drafts)],
         assets |-> AssetsOf(t, kept), indexes |-> Indexes(t, kept)]
Predecessors(s, i) == {j \in DOMAIN s.pages : s.of[j].sup = i /\ j # i}
MachinePages(s) == {i \in DOMAIN s.pages : s.pages[i].machine}
RootTwin(s) == Listing(s.of, MachinePages(s), <<>>)

\* The door: the nodes no row denies, a denied section's with it.
DeniedAlone(i) == \E r \in deniedRows : r.at = i
DeniedNode(i) ==
    \E r \in deniedRows : r.at = i \/ (r.scope = "subtree" /\ r.at \in Prefixes(Front(i)))
AdmittedAtDoor(viewer, floor) ==
    {i \in Concepts(served.of) :
       /\ ~DeniedNode(i) /\ Overlaps(viewer, served.of[i].aud)
       /\ Current(served.of[i], hour) /\ floor <= served.of[i].tier}
Sections(S) == (UNION {Prefixes(Front(i)) : i \in S}) \ {<<>>}
Outline(S) ==
    InOrder(S, {ij \in S \X S : Precedes(served.of, Concepts(served.of), ij[1], ij[2])})
SlugsCollide(t) ==
    \E x, y \in UNION {Children(Concepts(t), d) : d \in Dirs \cup {<<>>}} :
       x # y /\ Front(x) = Front(y) /\ Slug[Last(x)] = Slug[Last(y)]

-----------------------------------------------------------------------------
SurfacesInit ==
    /\ docs \in Trees /\ charter = Charters[1] /\ withdrawn = {} /\ deniedRows = {}
    /\ lockfile = NotBuilt /\ site = NotBuilt /\ served = NotBuilt
    /\ hour = 0 /\ edits = 0

Edited == edits < MaxEdits /\ edits' = edits + 1

\* An author writes, adds or deletes a document, or changes the policy.
Write(r) ==
    /\ Edited /\ docs' = [docs EXCEPT ![r.at] = r.doc]
    /\ UNCHANGED <<charter, withdrawn, lockfile, site, served, deniedRows, hour>>
Recharter(c) ==
    /\ Edited /\ charter' = c
    /\ UNCHANGED <<docs, withdrawn, lockfile, site, served, deniedRows, hour>>

\* `ksor takedown`: an entry, and the row while there is a database.
TakeDown(e) ==
    /\ Edited /\ ~\E f \in withdrawn : f.at = e.at /\ f.scope = e.scope
    /\ withdrawn' = withdrawn \cup {[at |-> e.at, scope |-> e.scope, expected |-> Standing(docs, e)]}
    /\ deniedRows' = IF served = NotBuilt THEN deniedRows ELSE deniedRows \cup {e}
    /\ UNCHANGED <<docs, charter, lockfile, site, served, hour>>
Lift(f) ==
    /\ withdrawn' = withdrawn \ {f}
    /\ deniedRows' = IF served = NotBuilt THEN deniedRows
                     ELSE deniedRows \ {[at |-> f.at, scope |-> f.scope]}
    /\ UNCHANGED <<docs, charter, lockfile, site, served, hour, edits>>
Removed(f) ==
    /\ f.expected = "present" /\ Standing(docs, f) = "removed"
    /\ withdrawn' = (withdrawn \ {f}) \cup {[f EXCEPT !.expected = "removed"]}
    /\ UNCHANGED <<docs, charter, lockfile, site, served, deniedRows, hour, edits>>

Tick ==
    /\ hour < MaxClock /\ hour' = hour + 1
    /\ UNCHANGED <<docs, charter, withdrawn, lockfile, site, served, deniedRows, edits>>

KsorBuild ==
    /\ ~Refused(docs, charter, withdrawn)
    /\ LET bundles == Bundles(docs, charter, withdrawn, hour)
       IN  \E drafts \in BOOLEAN :
             lockfile' = [is |-> "lock", of |-> docs, charter |-> charter,
                          denied |-> withdrawn, asOf |-> hour,
                          drafts |-> drafts, bundles |-> bundles]
    /\ UNCHANGED <<docs, charter, withdrawn, site, served, deniedRows, hour, edits>>

\* The lock is of this record, under these control files.
Fresh ==
    /\ lockfile # NotBuilt
    /\ lockfile.of = docs /\ lockfile.charter = charter /\ lockfile.denied = withdrawn

\* readViewer(): the audiences a deployment names are the record's.
Viewers == {v \in Readers : "public" \in v /\ v \subseteq {"public"} \cup charter.audiences}

SiteBuild ==
    /\ Fresh /\ ~Refused(docs, charter, withdrawn)
    /\ \E viewer \in Viewers :
          /\ \/ Staged(docs, withdrawn, lockfile.asOf, lockfile.drafts, viewer) # {}
             \/ \A i \in Concepts(docs) : docs[i].status # "stable"
          /\ site' = PlanStage(docs, withdrawn, lockfile.asOf, lockfile.drafts, viewer, TRUE)
    /\ UNCHANGED <<docs, charter, withdrawn, lockfile, served, deniedRows, hour, edits>>

\* `pnpm dev`: no lock, the clock's instant, drafts shown.
Preview ==
    /\ ~Refused(docs, charter, withdrawn)
    /\ \E viewer \in Viewers : site' = PlanStage(docs, withdrawn, hour, TRUE, viewer, FALSE)
    /\ UNCHANGED <<docs, charter, withdrawn, lockfile, served, deniedRows, hour, edits>>

Ingest ==
    /\ Fresh /\ ~Refused(docs, charter, withdrawn) /\ ~SlugsCollide(docs)
    /\ served' = [is |-> "door", of |-> docs]
    /\ deniedRows' = {[at |-> e.at, scope |-> e.scope] : e \in withdrawn}
    /\ UNCHANGED <<docs, charter, withdrawn, lockfile, site, hour, edits>>

SurfacesNext ==
    \/ \E r \in Rewrites : Write(r)
    \/ \E c \in Range(Charters) : Recharter(c)
    \/ \E e \in Targets : TakeDown(e)
    \/ \E f \in withdrawn : Lift(f) \/ Removed(f)
    \/ KsorBuild \/ SiteBuild \/ Preview \/ Ingest \/ Tick

SurfacesSpec == SurfacesInit /\ [][SurfacesNext]_surfaceVars

-----------------------------------------------------------------------------
(* Properties.                                                             *)

\* Whatever x is, a reader may open it or something around it.
OpenTo(viewer, t, x) ==
    IF x.is \in {"document", "companion"} THEN Overlaps(viewer, t[x.at].aud)
    ELSE \A dir \in Prefixes(IF x.is = "asset" THEN Front(x.at) ELSE x.at) \ {<<>>} :
           Inside(t, dir) # {} => \E i \in Inside(t, dir) : Overlaps(viewer, t[i].aud)

\* What is shipped to a viewer: the links of its documents, and its listings.
StaysInside(viewer, t, kept, indexes) ==
    /\ \A i \in kept : \A x \in t[i].links \cup t[i].summary : OpenTo(viewer, t, x)
    /\ \A x \in UNION {Range(indexes[dir]) : dir \in DOMAIN indexes} :
          \E i \in kept : IsPrefix(x, i) /\ Overlaps(viewer, t[i].aud)

(* Nothing a site or a bundle names is closed to the readers it is for: not a
   page, a page's links or its summary's, an image these show, a folder of a
   listing, nor the document a notice names as the successor or as replaced.
   checkLinks and nonConceptWidens judge each link by the audience of the
   document it is in, planStage and planBundles select for a viewer.          *)
ReadersStayInside ==
    /\ lockfile # NotBuilt =>
         \A v \in DOMAIN lockfile.bundles :
           StaysInside({"public", v}, lockfile.of, lockfile.bundles[v].held, lockfile.bundles[v].indexes)
    /\ site # NotBuilt =>
         /\ StaysInside(site.viewer, site.of, DOMAIN site.pages, site.indexes)
         /\ \A i \in DOMAIN site.pages :
              \A j \in ({site.pages[i].successor} \ {<<>>}) \cup Predecessors(site, i) :
                Overlaps(site.viewer, site.of[j].aud)

(* "The checker's link set and the stage's copy set are the same set"
   (stage-knowledge.ts:295): whatever a page or its companions show, an image
   that is shipped stands in a directory whose readers are those it ships to. *)
ImagesStayInside ==
    /\ lockfile # NotBuilt =>
         \A v \in DOMAIN lockfile.bundles : \A a \in lockfile.bundles[v].assets :
           OpenTo({"public", v}, lockfile.of, To("asset", a))
    /\ site # NotBuilt =>
         \A a \in site.assets : OpenTo(site.viewer, site.of, To("asset", a))

SameRecord == site # NotBuilt /\ served # NotBuilt /\ site.of = served.of

(* The three surfaces have one answer.  Of one record under the same denials,
   the door admits the site's pages whose badge would be none by now, and the
   site's machine pages are those whose badge was none at the lock's instant,
   which is also the bundle of that viewer; the door's sections are the folders
   of its documents, and documents of one folder come in the site's order.    *)
OneVoice ==
    /\ site # NotBuilt =>
         MachinePages(site) = {i \in DOMAIN site.pages : site.pages[i].badge = Unsaid}
    /\ (site # NotBuilt /\ lockfile # NotBuilt) =>
         \A v \in DOMAIN lockfile.bundles :
           /\ site.stamped /\ site.of = lockfile.of /\ site.under = lockfile.denied
           /\ site.asOf = lockfile.asOf /\ site.viewer = {"public", v}
           => /\ lockfile.bundles[v].held = MachinePages(site)
              /\ lockfile.bundles[v].indexes[<<>>] = RootTwin(site)
    /\ (SameRecord /\ deniedRows = {[at |-> e.at, scope |-> e.scope] : e \in site.under}) =>
         LET said == AdmittedAtDoor(site.viewer, 0)
             told == Outline(said)
         IN  /\ said = {i \in DOMAIN site.pages : Badge(site.of[i], hour) = Unsaid}
             /\ Sections(said) \subseteq DOMAIN site.indexes
             /\ \A a, b \in 1..Len(told) :
                  (a < b /\ Front(told[a]) = Front(told[b])) =>
                    Siblings(site.of, DOMAIN site.pages, told[a], told[b])
=============================================================================
