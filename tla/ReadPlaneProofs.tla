--------------------------- MODULE ReadPlaneProofs ---------------------------
(***************************************************************************)
(* What the door answers, for any agents, generations, documents, budgets  *)
(* and denials: the windowing, the one search or read that an agent has    *)
(* under way while the record moves, and the pages that it puts together.  *)
(***************************************************************************)
EXTENDS ReadPlane, FiniteSetTheorems, SequenceTheorems, TLAPS

-----------------------------------------------------------------------------
(* Places in a document. *)

\* Whatever set of places there is has a first one.
LEMMA LeastExists ==
    ASSUME NEW n \in Nat, NEW S, S \subseteq 0..n, S # {}
    PROVE  \E m \in S : \A k \in S : m <= k
<1> DEFINE UpTo(k) == {i \in S : i <= k}
           T == {UpTo(k) : k \in S}
<1>1. IsFiniteSet(S)
  <2>1. IsFiniteSet(0..n) BY FS_Interval
  <2> QED BY <2>1, FS_Subset
<1>2. T \subseteq FiniteSubsetsOf(S) /\ T # {}
  <2>1. SUBSET S = FiniteSubsetsOf(S) BY <1>1, FS_FiniteSubsetsOfFinite
  <2>2. \A k \in S : UpTo(k) \in SUBSET S OBVIOUS
  <2> HIDE DEF UpTo
  <2>3. \A B \in T : B \in SUBSET S BY <2>2
  <2>4. T # {} OBVIOUS
  <2> QED BY <2>1, <2>3, <2>4
<1>3. IsWellFoundedOn(StrictSubsetOrdering(S), FiniteSubsetsOf(S))
  BY FS_StrictSubsetOrderingWellFounded
<1> HIDE DEF T
<1>4. PICK B \in T : \A C \in T : <<C, B>> \notin StrictSubsetOrdering(S)
  BY <1>2, <1>3, WFMin
<1>5. PICK m \in S : B = UpTo(m) BY DEF T
<1>6. ASSUME NEW k \in S, k < m PROVE FALSE
  <2>1. UpTo(k) \in T BY DEF T
  <2>2. m \in Int /\ k \in Int /\ S \subseteq Int OBVIOUS
  <2>3. m \in UpTo(m) /\ m \notin UpTo(k) BY <1>6, <2>2
  <2>4. ASSUME NEW j \in UpTo(k) PROVE j \in UpTo(m)
    <3>1. j \in S /\ j \in Int /\ j <= k BY <2>2
    <3>2. j <= m BY <1>6, <2>2, <3>1
    <3> QED BY <3>1, <3>2
  <2>5. UpTo(k) \in SUBSET S /\ UpTo(m) \in SUBSET S /\ UpTo(k) # UpTo(m) BY <2>3
  <2> HIDE DEF UpTo
  <2>6. <<UpTo(k), B>> \in StrictSubsetOrdering(S) BY <1>5, <2>4, <2>5 DEF StrictSubsetOrdering
  <2> QED BY <1>4, <2>1, <2>6
<1>7. \A k \in S : m <= k
  <2>1. S \subseteq Int OBVIOUS
  <2> QED BY <1>6, <2>1
<1> QED BY <1>7

\* Least and Greatest are what their names say.
LEMMA LeastIs ==
    ASSUME NEW n \in Nat, NEW S, S \subseteq 0..n, S # {}
    PROVE  Least(S) \in S /\ \A k \in S : Least(S) <= k
BY LeastExists DEF Least

\* And the greatest one.
LEMMA GreatestIs ==
    ASSUME NEW n \in Nat, NEW S, S \subseteq 0..n, S # {}
    PROVE  Greatest(S) \in S /\ \A k \in S : k <= Greatest(S)
<1> DEFINE R == {n - k : k \in S}
<1>1. R \subseteq 0..n /\ R # {}
  <2>1. \A k \in S : k \in 0..n /\ n - k \in 0..n OBVIOUS
  <2> QED BY <2>1
<1> HIDE DEF R
<1>2. PICK r \in R : \A k \in R : r <= k BY <1>1, LeastExists
<1>3. PICK m \in S : r = n - m BY DEF R
<1>4. \A k \in S : n - k \in R BY DEF R
<1>5. \A k \in S : k <= m
  <2>1. S \subseteq Int OBVIOUS
  <2> QED BY <1>2, <1>3, <1>4, <2>1
<1> QED BY <1>5 DEF Greatest

\* A set of n places has an n-th one.
LEMMA NthIs ==
    ASSUME NEW n \in Nat, NEW S, S \subseteq 1..n, NEW k \in 1..Cardinality(S)
    PROVE  Nth(S, k) \in S
<1> DEFINE Before(i) == {j \in S : j < i}
           Missing == {m \in 1..Cardinality(S) : \A i \in S : Cardinality(Before(i)) # m - 1}
<1>1. IsFiniteSet(S) /\ \A T \in SUBSET S : IsFiniteSet(T)
  <2>1. IsFiniteSet(1..n) BY FS_Interval
  <2> QED BY <2>1, FS_Subset
<1>2. Cardinality(S) \in Nat BY <1>1, FS_CardinalityType
<1>3. \A i \in S : Before(i) \in SUBSET S OBVIOUS
<1>4. ASSUME Missing # {} PROVE FALSE
  <2>1. Missing \subseteq 0..Cardinality(S) BY <1>2
  <2> HIDE DEF Missing
  <2>2. PICK m \in Missing : \A k2 \in Missing : m <= k2 BY <1>2, <1>4, <2>1, LeastExists
  <2>3. m \in 1..Cardinality(S) /\ \A i \in S : Cardinality(Before(i)) # m - 1 BY DEF Missing
  <2>4. CASE m = 1
    <3>1. S # {} BY <1>2, <2>3, FS_EmptySet
    <3>2. PICK i \in S : \A j \in S : i <= j
      <4>1. S \subseteq 0..n OBVIOUS
      <4> QED BY <3>1, <4>1, LeastExists
    <3>3. Before(i) = {}
      <4>1. \A j \in S : j \in Int /\ i <= j /\ i \in Int BY <3>2
      <4>2. \A j \in S : ~(j < i) BY <4>1
      <4> QED BY <4>2
    <3> QED BY <2>3, <2>4, <3>3, FS_EmptySet
  <2>5. CASE m # 1
    <3>1. m - 1 \in 1..Cardinality(S) /\ m - 1 \notin Missing BY <1>2, <2>2, <2>3, <2>5
    <3>2. PICK i \in S : Cardinality(Before(i)) = (m - 1) - 1 BY <3>1 DEF Missing
    <3> DEFINE Later == {j \in S : j > i}
    <3>3. i \in Int /\ S \subseteq Int OBVIOUS
    <3>4. i \notin Before(i) /\ IsFiniteSet(Before(i)) BY <1>1, <1>3, <3>3
    <3>5. Cardinality(Before(i) \cup {i}) = m - 1
      <4>1. Cardinality(Before(i) \cup {i}) = Cardinality(Before(i)) + 1 BY <3>4, FS_AddElement
      <4> QED BY <1>2, <2>3, <3>2, <4>1
    <3>6. CASE Later = {}
      <4>1. \A j \in S : j < i \/ j = i BY <3>3, <3>6
      <4>2. S = Before(i) \cup {i} BY <4>1
      <4> QED BY <1>2, <2>3, <3>5, <4>2
    <3>7. CASE Later # {}
      <4>1. Later \subseteq 0..n
        <5>1. \A j \in S : j \in 0..n OBVIOUS
        <5> QED BY <5>1
      <4> HIDE DEF Later
      <4>2. PICK r \in Later : \A j \in Later : r <= j BY <3>7, <4>1, LeastExists
      <4>3. r \in S /\ r \in Int /\ i < r BY <3>3 DEF Later
      <4>4. \A j \in S : j < r <=> j < i \/ j = i BY <3>3, <4>2, <4>3 DEF Later
      <4>5. Before(r) = Before(i) \cup {i} BY <4>4
      <4> QED BY <2>3, <3>5, <4>3, <4>5
    <3> QED BY <3>6, <3>7
  <2> QED BY <2>4, <2>5
<1>5. \E i \in S : Cardinality(Before(i)) = k - 1 BY <1>4
<1> QED BY <1>5 DEF Nth

\* A section is a sequence of the document's chunks, all of them its own.
LEMMA ScopedIs ==
    ASSUME NEW chunks \in Seq(StoredChunk), NEW path
    PROVE  /\ Scoped(chunks, path) \in Seq(StoredChunk)
           /\ Len(Scoped(chunks, path)) = Cardinality(Within(chunks, path))
           /\ Within(chunks, path) # {} => Len(Scoped(chunks, path)) > 0
           /\ \A k \in 1..Len(Scoped(chunks, path)) : Contains(chunks, Scoped(chunks, path)[k])
<1> DEFINE S == Within(chunks, path)
           c == Cardinality(S)
<1>1. DOMAIN chunks = 1..Len(chunks) /\ Len(chunks) \in Nat OBVIOUS
<1>2. S \subseteq 1..Len(chunks) BY <1>1 DEF Within
<1>3. IsFiniteSet(S) /\ c \in Nat /\ (S # {} => c > 0)
  <2>1. IsFiniteSet(1..Len(chunks)) BY <1>1, FS_Interval
  <2>2. IsFiniteSet(S) BY <1>2, <2>1, FS_Subset
  <2> QED BY <2>2, FS_CardinalityType, FS_EmptySet
<1>4. \A k \in 1..c : Nth(S, k) \in 1..Len(chunks) BY <1>1, <1>2, NthIs
<1>5. Scoped(chunks, path) = [k \in 1..c |-> chunks[Nth(S, k)]] BY DEF Scoped
<1>6. \A k \in 1..c : chunks[Nth(S, k)] \in StoredChunk BY <1>4
<1> HIDE DEF S, c
<1>7. Scoped(chunks, path) \in [1..c -> StoredChunk] BY <1>5, <1>6
<1>8. Scoped(chunks, path) \in Seq(StoredChunk) /\ Len(Scoped(chunks, path)) = c BY <1>3, <1>7
<1>9. \A k \in 1..c : Scoped(chunks, path)[k] = chunks[Nth(S, k)] BY <1>5
<1> QED BY <1>3, <1>4, <1>8, <1>9 DEF Contains, S, c

\* The cursor of a chunk leads to that very chunk.
LEMMA CursorLeadsThere ==
    ASSUME NEW chunks \in Seq(StoredChunk), NEW n \in 1..Len(chunks)
    PROVE  StartIndex(chunks, NextCursor(chunks, n)) = n
<1> DEFINE c == NextCursor(chunks, n)
<1>1. DOMAIN chunks = 1..Len(chunks) /\ Len(chunks) \in Nat OBVIOUS
<1>2. CASE chunks[n].hp # <<>> /\ FirstUnder(chunks, chunks[n].hp) = n
  <2>1. c = [hp |-> chunks[n].hp, index |-> 0] BY <1>2 DEF NextCursor
  <2>2. c # Start BY <1>2, <2>1 DEF Start
  <2> QED BY <1>2, <2>1, <2>2 DEF StartIndex
<1>3. CASE ~(chunks[n].hp # <<>> /\ FirstUnder(chunks, chunks[n].hp) = n)
  <2>1. c = [hp |-> chunks[n].hp, index |-> n] BY <1>3 DEF NextCursor
  <2>2. c # Start BY <2>1 DEF Start
  <2> QED BY <1>1, <2>1, <2>2 DEF StartIndex
<1> QED BY <1>2, <1>3

\* A cursor that names a place names one of this document's.
LEMMA StartInside ==
    ASSUME NEW chunks \in Seq(StoredChunk), NEW c, Len(chunks) > 0, StartIndex(chunks, c) # 0
    PROVE  StartIndex(chunks, c) \in 1..Len(chunks)
<1>1. DOMAIN chunks = 1..Len(chunks) /\ Len(chunks) \in Nat OBVIOUS
<1>2. ASSUME NEW path, FirstUnder(chunks, path) # 0 PROVE FirstUnder(chunks, path) \in 1..Len(chunks)
  <2>1. Within(chunks, path) \subseteq 0..Len(chunks) BY <1>1 DEF Within
  <2>2. Within(chunks, path) # {} /\ FirstUnder(chunks, path) = Least(Within(chunks, path))
    BY <1>2 DEF FirstUnder
  <2>3. FirstUnder(chunks, path) \in Within(chunks, path) BY <1>1, <2>1, <2>2, LeastIs
  <2> QED BY <1>1, <2>3 DEF Within
<1> QED BY <1>1, <1>2 DEF StartIndex

\* A page ends in the document, and has a chunk at least.
LEMMA WindowInside ==
    ASSUME NEW chunks \in Seq(StoredChunk), NEW start \in 1..Len(chunks), NEW budget
    PROVE  WindowEnd(chunks, start, budget) \in start..Len(chunks)
<1>1. Len(chunks) \in Nat OBVIOUS
<1>2. ASSUME NEW ends, ends \subseteq start..Len(chunks), Fits(chunks, start, ends, budget) # {}
      PROVE  Greatest(Fits(chunks, start, ends, budget)) \in start..Len(chunks)
  <2>1. Fits(chunks, start, ends, budget) \subseteq start..Len(chunks) BY <1>2 DEF Fits
  <2>2. Fits(chunks, start, ends, budget) \subseteq 0..Len(chunks) BY <1>1, <2>1
  <2> QED BY <1>1, <1>2, <2>1, <2>2, GreatestIs
<1>3. \A levels : RunEnds(chunks, start, levels) \subseteq start..Len(chunks) BY DEF RunEnds
<1> QED BY <1>1, <1>2, <1>3 DEF WindowEnd

\* A section that was found by its last segment is found by its path, and a
\* section that is found has a chunk.
LEMMA ScopeSettles ==
    ASSUME NEW chunks \in Seq(StoredChunk), chunks # <<>>, NEW heading \in Seq(STRING),
           NEW p \in ResolvedScope(chunks, heading)
    PROVE  p \in Seq(STRING) /\ ResolvedScope(chunks, p) = {p} /\ Within(chunks, p) # {}
<1>1. DOMAIN chunks = 1..Len(chunks) /\ Len(chunks) \in Nat \ {0} OBVIOUS
<1>2. \A i \in DOMAIN chunks : chunks[i].hp \in Seq(STRING)
  <2>1. \A i \in DOMAIN chunks : chunks[i] \in StoredChunk BY <1>1
  <2>2. \A c \in StoredChunk : c.hp \in Seq(STRING) BY DEF StoredChunk
  <2> QED BY <2>1, <2>2
<1>3. ASSUME NEW q \in Seq(STRING) PROVE Under(q, q) /\ Under(<<>>, q)
  BY DEF Under, IsPrefix
<1>4. ASSUME NEW q, FirstUnder(chunks, q) # 0 PROVE Within(chunks, q) # {} BY <1>4 DEF FirstUnder
<1>5. ASSUME NEW q, Within(chunks, q) # {} PROVE FirstUnder(chunks, q) # 0
  <2>1. Within(chunks, q) \subseteq 1..Len(chunks) /\ Within(chunks, q) \subseteq 0..Len(chunks)
    BY <1>1 DEF Within
  <2>2. Least(Within(chunks, q)) \in Within(chunks, q) BY <1>1, <1>5, <2>1, LeastIs
  <2> QED BY <1>5, <2>1, <2>2 DEF FirstUnder
<1>6. CASE heading = <<>> \/ FirstUnder(chunks, heading) # 0
  <2>1. p = heading BY <1>6 DEF ResolvedScope
  <2>2. ResolvedScope(chunks, p) = {p} BY <1>6, <2>1 DEF ResolvedScope
  <2>3. heading = <<>> => 1 \in Within(chunks, heading) BY <1>1, <1>2, <1>3 DEF Within
  <2> QED BY <1>4, <1>6, <2>1, <2>2, <2>3
<1>7. CASE ~(heading = <<>> \/ FirstUnder(chunks, heading) # 0)
  <2>1. \E i \in DOMAIN chunks : p = chunks[i].hp BY <1>7 DEF ResolvedScope
  <2>2. PICK i \in DOMAIN chunks : p = chunks[i].hp BY <2>1
  <2>3. p \in Seq(STRING) /\ i \in Within(chunks, p) BY <1>2, <1>3, <2>2 DEF Within
  <2>4. FirstUnder(chunks, p) # 0 BY <1>5, <2>3
  <2> QED BY <2>3, <2>4 DEF ResolvedScope
<1> QED BY <1>6, <1>7

-----------------------------------------------------------------------------
(* What holds of an agent's call, of its book and of its last answer. *)

UnderWay(c) == c.at \notin {"idle", "answered"}
Reading == {"pin", "find", "chunks", "frontmatter", "page"}

\* A page was cut where the book ends, out of the generation that was found.
Cut(c, b) ==
    LET all == Chunks[c.gen][b.doc]
        chunks == Scoped(all, c.path)
        from == StartIndex(chunks, b.next)
        to == WindowEnd(chunks, from, Budget)
    IN  /\ c.gen \in Gens /\ b.doc \in DOMAIN Chunks[c.gen] /\ all # <<>>
        /\ c.path \in ResolvedScope(all, b.path)
        /\ from # 0
        /\ c.w = [from |-> from, to |-> to, last |-> to = Len(chunks),
                  next |-> IF to = Len(chunks) THEN Start ELSE NextCursor(chunks, to + 1)]
        /\ c.text = [i \in 1..(to - from + 1) |-> chunks[from + i - 1]]

\* What a call may have taken from the record since it began: sv and ba are its
\* history, live and now what the record serves and points to at present.
CallOK(c, b, sv, ba, live, now) ==
    /\ UnderWay(c) => ba \cap live = {} /\ now \subseteq sv /\ sv \subseteq Gens
    /\ c.at = "ranked" =>
          c.hits \cap ba = {} /\ (c.hits # {} => c.gen \in sv) /\ (c.served => c.hits # {})
    /\ c.at = "find" => c.pin = 0 \/ c.pin \in sv
    /\ c.at \in {"chunks", "frontmatter", "page"} => b.doc \notin ba /\ c.gen \in sv
    /\ c.at \in Reading => b.gen = 0 \/ b.next # Start
    /\ c.at \in {"frontmatter", "page"} => Cut(c, b)
    /\ c.at = "page" => c.fm = c.gen

\* The pages so far are the beginning of the section, and the cursor names the
\* chunk after them.
Assembled(b) ==
    LET all == Chunks[b.gen][b.doc]
        whole == Scoped(all, b.path)
    IN  /\ b.gen \in Gens /\ b.doc \in DOMAIN Chunks[b.gen]
        /\ ResolvedScope(all, b.path) = {b.path}
        /\ \E n \in 1..Len(whole) :
              /\ b.pages = SubSeq(whole, 1, n)
              /\ b.whole = (n = Len(whole))
              /\ b.next = IF n = Len(whole) THEN Start ELSE NextCursor(whole, n + 1)

BookOK(b) ==
    /\ b.path \in Seq(STRING)
    /\ b.gen = 0 => b.pages = <<>> /\ b.next = Start
    /\ b.gen # 0 /\ b.steady => Assembled(b)

ReplyOK(r, c, tok, row, sv, ba) ==
    /\ r.kind \in {"page", "hits"} => c.at = "answered" /\ r.gen \in sv
    /\ r.kind = "page" =>
          /\ r.doc \notin ba /\ r.fm = r.gen
          /\ \A i \in DOMAIN r.text : Contains(Chunks[r.gen][r.doc], r.text[i])
    /\ r.kind = "hits" => r.docs \cap ba = {} /\ tok \in {0, r.gen}
    /\ r.kind \in {"page", "hits"} /\ ~r.degraded =>
          row = [action |-> IF r.kind = "page" THEN "content_served" ELSE "similarity_searched",
                 gen |-> r.gen]

OfAgents(f) == f = [a \in Agents |-> f[a]]

ReadInv ==
    /\ active \in Gens \cup {0} /\ rollbackGen \in Gens \cup {0} /\ gated \in Gens \cup {0}
    /\ OfAgents(trail) /\ OfAgents(call) /\ OfAgents(token) /\ OfAgents(book) /\ OfAgents(reply)
    /\ OfAgents(servable) /\ OfAgents(barred)
    /\ \A a \in Agents :
          /\ CallOK(call[a], book[a], servable[a], barred[a], Live, Servable)
          /\ BookOK(book[a])
          /\ ReplyOK(reply[a], call[a], token[a], trail[a], servable[a], barred[a])

\* A step of agent a leaves the other agents' entries alone.
Keeps(f, g, a) == OfAgents(g) /\ \A b \in Agents \ {a} : g[b] = f[b]

Only(a) ==
    /\ Keeps(trail, trail', a) /\ Keeps(call, call', a) /\ Keeps(token, token', a)
    /\ Keeps(book, book', a) /\ Keeps(reply, reply', a)
    /\ Keeps(servable, servable', a) /\ Keeps(barred, barred', a)

-----------------------------------------------------------------------------
\* The chunks that a page is cut from.
LEMMA CutIs ==
    ASSUME NEW c, NEW b, Cut(c, b), BookOK(b)
    PROVE  LET all == Chunks[c.gen][b.doc]
               chunks == Scoped(all, c.path)
           IN  /\ all \in Seq(StoredChunk) /\ chunks \in Seq(StoredChunk)
               /\ c.path \in Seq(STRING) /\ ResolvedScope(all, c.path) = {c.path}
               /\ c.w.from = StartIndex(chunks, b.next)
               /\ c.w.from \in 1..Len(chunks) /\ c.w.to \in c.w.from..Len(chunks)
               /\ c.w.last = (c.w.to = Len(chunks))
               /\ c.w.next = IF c.w.to = Len(chunks) THEN Start ELSE NextCursor(chunks, c.w.to + 1)
               /\ c.text = [i \in 1..(c.w.to - c.w.from + 1) |-> chunks[c.w.from + i - 1]]
               /\ \A k \in 1..Len(chunks) : Contains(all, chunks[k])
<1> DEFINE all == Chunks[c.gen][b.doc]
           chunks == Scoped(all, c.path)
           from == StartIndex(chunks, b.next)
           to == WindowEnd(chunks, from, Budget)
<1>1. /\ c.gen \in Gens /\ b.doc \in DOMAIN Chunks[c.gen] /\ all # <<>>
      /\ c.path \in ResolvedScope(all, b.path)
      /\ from # 0
      /\ c.w = [from |-> from, to |-> to, last |-> to = Len(chunks),
                next |-> IF to = Len(chunks) THEN Start ELSE NextCursor(chunks, to + 1)]
      /\ c.text = [i \in 1..(to - from + 1) |-> chunks[from + i - 1]]
  BY DEF Cut
<1>2. all \in Seq(StoredChunk) BY <1>1, ReadAssumption
<1>3. b.path \in Seq(STRING) BY DEF BookOK
<1> HIDE DEF all
<1>4. c.path \in Seq(STRING) /\ ResolvedScope(all, c.path) = {c.path} /\ Within(all, c.path) # {}
  BY <1>1, <1>2, <1>3, ScopeSettles
<1>5. /\ chunks \in Seq(StoredChunk) /\ Len(chunks) > 0
      /\ \A k \in 1..Len(chunks) : Contains(all, chunks[k])
  BY <1>2, <1>4, ScopedIs
<1> HIDE DEF chunks
<1>6. from \in 1..Len(chunks) BY <1>1, <1>5, StartInside
<1> HIDE DEF from
<1>7. to \in from..Len(chunks) BY <1>5, <1>6, WindowInside
<1> HIDE DEF to
<1>8. c.w.from = from /\ c.w.to = to /\ c.w.last = (to = Len(chunks))
  BY <1>1
<1>9. c.w.next = IF to = Len(chunks) THEN Start ELSE NextCursor(chunks, to + 1) BY <1>1
<1>10. c.text = [i \in 1..(c.w.to - c.w.from + 1) |-> chunks[c.w.from + i - 1]] BY <1>1, <1>8
<1> QED BY <1>2, <1>4, <1>5, <1>6, <1>7, <1>8, <1>9, <1>10 DEF all, chunks, from

\* What stands on a page stands in the document.
LEMMA TextIsOfTheDocument ==
    ASSUME NEW c, NEW b, Cut(c, b), BookOK(b)
    PROVE  \A i \in DOMAIN c.text : Contains(Chunks[c.gen][b.doc], c.text[i])
<1> DEFINE all == Chunks[c.gen][b.doc]
           chunks == Scoped(all, c.path)
<1>1. /\ chunks \in Seq(StoredChunk)
      /\ c.w.from \in 1..Len(chunks) /\ c.w.to \in c.w.from..Len(chunks)
      /\ c.text = [i \in 1..(c.w.to - c.w.from + 1) |-> chunks[c.w.from + i - 1]]
      /\ \A k \in 1..Len(chunks) : Contains(all, chunks[k])
  BY CutIs, Zenon
<1> HIDE DEF all, chunks
<1>2. Len(chunks) \in Nat BY <1>1
<1>3. ASSUME NEW i \in DOMAIN c.text PROVE Contains(all, c.text[i])
  <2>1. i \in 1..(c.w.to - c.w.from + 1) /\ c.text[i] = chunks[c.w.from + i - 1] BY <1>1
  <2>2. c.w.from + i - 1 \in 1..Len(chunks) BY <1>1, <1>2, <2>1
  <2> QED BY <1>1, <2>1, <2>2
<1> QED BY <1>3 DEF all

\* A page put after the pages there are: the book is still the beginning of its
\* section, and the cursor names what follows.
LEMMA PageAdds ==
    ASSUME NEW c, NEW b, Cut(c, b), BookOK(b), b.gen = 0 \/ b.next # Start, NEW st,
           st => b.gen \in {0, c.gen} /\ b.steady
    PROVE  BookOK([doc |-> b.doc, path |-> c.path, gen |-> c.gen, pages |-> b.pages \o c.text,
                   next |-> c.w.next, whole |-> c.w.last, steady |-> st])
<1> DEFINE all == Chunks[c.gen][b.doc]
           chunks == Scoped(all, c.path)
           n == c.w.to
           new == [doc |-> b.doc, path |-> c.path, gen |-> c.gen, pages |-> b.pages \o c.text,
                   next |-> c.w.next, whole |-> c.w.last, steady |-> st]
<1>1. /\ chunks \in Seq(StoredChunk)
      /\ c.path \in Seq(STRING) /\ ResolvedScope(all, c.path) = {c.path}
      /\ c.w.from = StartIndex(chunks, b.next)
      /\ c.w.from \in 1..Len(chunks) /\ n \in c.w.from..Len(chunks)
      /\ c.w.last = (n = Len(chunks))
      /\ c.w.next = IF n = Len(chunks) THEN Start ELSE NextCursor(chunks, n + 1)
      /\ c.text = [i \in 1..(n - c.w.from + 1) |-> chunks[c.w.from + i - 1]]
  BY CutIs, ZenonT(60)
<1>2. c.gen \in Gens /\ c.gen # 0 /\ b.doc \in DOMAIN Chunks[c.gen] BY ReadAssumption DEF Cut
<1>3. c.path \in ResolvedScope(all, b.path) BY DEF Cut
<1> HIDE DEF all, chunks, n
<1>4. Len(chunks) \in Nat BY <1>1
<1>5. c.text = SubSeq(chunks, c.w.from, n) BY <1>1, <1>4
<1>6. ASSUME st PROVE b.pages \o c.text = SubSeq(chunks, 1, n)
  <2>1. CASE b.gen = 0
    <3>1. b.pages = <<>> /\ b.next = Start BY <2>1 DEF BookOK
    <3>2. c.w.from = 1 BY <1>1, <3>1 DEF StartIndex
    <3>3. SubSeq(chunks, 1, n) \in Seq(StoredChunk) BY <1>1, <1>4
    <3> QED BY <1>5, <3>1, <3>2, <3>3
  <2>2. CASE b.gen # 0
    <3>1. b.gen = c.gen /\ Assembled(b) BY <1>6, <2>2 DEF BookOK
    <3>2. /\ ResolvedScope(all, b.path) = {b.path}
          /\ \E k \in 1..Len(Scoped(all, b.path)) :
                /\ b.pages = SubSeq(Scoped(all, b.path), 1, k)
                /\ b.next = IF k = Len(Scoped(all, b.path)) THEN Start
                            ELSE NextCursor(Scoped(all, b.path), k + 1)
      BY <3>1 DEF Assembled, all
    <3>3. b.path = c.path BY <1>3, <3>2
    <3>4. PICK k \in 1..Len(chunks) :
            /\ b.pages = SubSeq(chunks, 1, k)
            /\ b.next = IF k = Len(chunks) THEN Start ELSE NextCursor(chunks, k + 1)
      BY <3>2, <3>3 DEF chunks
    <3>5. k # Len(chunks) /\ b.next = NextCursor(chunks, k + 1) BY <2>2, <3>4
    <3>6. k + 1 \in 1..Len(chunks) BY <1>4, <3>4, <3>5
    <3>7. c.w.from = k + 1 BY <1>1, <3>5, <3>6, CursorLeadsThere
    <3>8. b.pages \o c.text = SubSeq(chunks, 1, k) \o SubSeq(chunks, k + 1, n)
      BY <1>5, <3>4, <3>7
    <3>9. 1 \in 1..Len(chunks)+1 /\ k \in 1-1..Len(chunks) /\ n \in k..Len(chunks)
      BY <1>1, <1>4, <3>4, <3>7
    <3>10. SubSeq(chunks, 1, k) \o SubSeq(chunks, k + 1, n) = SubSeq(chunks, 1, n)
      <4>1. chunks \in Seq(StoredChunk) BY <1>1
      <4> QED BY <3>9, <4>1, ConcatAdjacentSubSeq
    <3> QED BY <3>8, <3>10
  <2> QED BY <2>1, <2>2
<1>7. n \in 1..Len(chunks) BY <1>1, <1>4
<1>8. ASSUME st PROVE Assembled(new)
  <2>1. new.pages = SubSeq(chunks, 1, n) /\ new.whole = (n = Len(chunks))
    BY <1>1, <1>6, <1>8
  <2>2. new.next = IF n = Len(chunks) THEN Start ELSE NextCursor(chunks, n + 1) BY <1>1
  <2>3. new.gen = c.gen /\ new.doc = b.doc /\ new.path = c.path OBVIOUS
  <2>4. chunks = Scoped(Chunks[new.gen][new.doc], new.path) /\ all = Chunks[new.gen][new.doc]
    BY <2>3 DEF chunks, all
  <2> HIDE DEF new
  <2> QED BY <1>1, <1>2, <1>7, <2>1, <2>2, <2>3, <2>4 DEF Assembled
<1>9. new.path = c.path /\ new.gen = c.gen /\ new.steady = st OBVIOUS
<1> HIDE DEF new
<1>10. BookOK(new) BY <1>1, <1>2, <1>8, <1>9 DEF BookOK
<1> QED BY <1>10 DEF new

-----------------------------------------------------------------------------
\* The record moves: what a call has seen grows, what was barred throughout
\* shrinks.
LEMMA CallSeesMore ==
    ASSUME NEW c, NEW b, NEW sv, NEW ba, NEW live, NEW now, CallOK(c, b, sv, ba, live, now),
           NEW sv2, NEW ba2, NEW live2, NEW now2, sv \subseteq sv2, ba2 \subseteq ba,
           UnderWay(c) => ba2 \cap live2 = {} /\ now2 \subseteq sv2 /\ sv2 \subseteq Gens
    PROVE  CallOK(c, b, sv2, ba2, live2, now2)
<1>1. c.at = "ranked" => c.hits \cap ba2 = {} /\ (c.hits # {} => c.gen \in sv2) BY DEF CallOK
<1> QED BY <1>1 DEF CallOK

\* A reply that was right stays right.
LEMMA ReplyStands ==
    ASSUME NEW r, NEW c, NEW tok, NEW row, NEW sv, NEW ba, ReplyOK(r, c, tok, row, sv, ba),
           NEW sv2, NEW ba2, sv \subseteq sv2, ba2 \subseteq ba
    PROVE  ReplyOK(r, c, tok, row, sv2, ba2)
<1>1. r.kind = "hits" => r.docs \cap ba2 = {} BY DEF ReplyOK
<1> QED BY <1>1 DEF ReplyOK

\* An agent that has not been answered: nothing is said of its reply.
LEMMA NotYetAnswered ==
    ASSUME NEW r, r.kind \notin {"page", "hits"}, NEW c, NEW tok, NEW row, NEW sv, NEW ba
    PROVE  ReplyOK(r, c, tok, row, sv, ba)
BY DEF ReplyOK

\* What has become of the record leaves what was heard of it right.
LEMMA RecordMoved ==
    ASSUME ReadInv, UNCHANGED <<trail, call, token, book, reply>>,
           active' \in Gens \cup {0}, rollbackGen' \in Gens \cup {0}, gated' \in Gens \cup {0},
           OfAgents(servable'), OfAgents(barred'),
           \A a \in Agents :
              /\ servable[a] \subseteq servable'[a] /\ barred'[a] \subseteq barred[a]
              /\ UnderWay(call[a]) =>
                    barred'[a] \cap Live' = {} /\ Servable' \subseteq servable'[a] /\ servable'[a] \subseteq Gens
    PROVE  ReadInv'
<1>1. ASSUME NEW a \in Agents
      PROVE  /\ CallOK(call'[a], book'[a], servable'[a], barred'[a], Live', Servable')
             /\ BookOK(book'[a])
             /\ ReplyOK(reply'[a], call'[a], token'[a], trail'[a], servable'[a], barred'[a])
  <2>1. /\ CallOK(call[a], book[a], servable[a], barred[a], Live, Servable)
        /\ BookOK(book[a])
        /\ ReplyOK(reply[a], call[a], token[a], trail[a], servable[a], barred[a])
    BY DEF ReadInv
  <2>2. /\ servable[a] \subseteq servable'[a] /\ barred'[a] \subseteq barred[a]
        /\ UnderWay(call[a]) =>
              barred'[a] \cap Live' = {} /\ Servable' \subseteq servable'[a] /\ servable'[a] \subseteq Gens
    OBVIOUS
  <2>3. CallOK(call[a], book[a], servable'[a], barred'[a], Live', Servable')
    BY <2>1, <2>2, CallSeesMore
  <2>4. ReplyOK(reply[a], call[a], token[a], trail[a], servable'[a], barred'[a])
    BY <2>1, <2>2, ReplyStands
  <2> QED BY <2>1, <2>3, <2>4
<1>2. OfAgents(trail') /\ OfAgents(call') /\ OfAgents(token') /\ OfAgents(book') /\ OfAgents(reply')
  BY DEF ReadInv
<1> QED BY <1>1, <1>2 DEF ReadInv

\* ... when every statement that moves it tells the calls under way.
LEMMA SeenMoves ==
    ASSUME ReadInv, Seen, UNCHANGED <<trail, call, token, book, reply>>,
           active' \in Gens \cup {0}, rollbackGen' \in Gens \cup {0}, gated' \in Gens \cup {0}
    PROVE  ReadInv'
<1>1. Live' = Admitted(active', denylist') BY DEF Live
<1>2. Servable' = {active', rollbackGen'} \ {0} BY DEF Servable
<1>3. servable' = [a \in Agents |-> servable[a] \cup (IF a \in Calling THEN Servable' ELSE {})]
  BY <1>2 DEF Seen
<1>4. barred' = [a \in Agents |-> IF a \in Calling THEN barred[a] \ Live' ELSE barred[a]]
  BY <1>1 DEF Seen
<1>5. OfAgents(servable') /\ OfAgents(barred') BY <1>3, <1>4 DEF OfAgents
<1>6. ASSUME NEW a \in Agents
      PROVE  /\ servable[a] \subseteq servable'[a] /\ barred'[a] \subseteq barred[a]
             /\ UnderWay(call[a]) =>
                   barred'[a] \cap Live' = {} /\ Servable' \subseteq servable'[a] /\ servable'[a] \subseteq Gens
  <2>1. UnderWay(call[a]) => a \in Calling BY DEF UnderWay, Calling, Idle, Heard
  <2>2. UnderWay(call[a]) => servable[a] \subseteq Gens BY DEF ReadInv, CallOK
  <2>3. Servable' \subseteq Gens BY <1>2
  <2>4. servable'[a] = servable[a] \cup (IF a \in Calling THEN Servable' ELSE {}) BY <1>3
  <2>5. barred'[a] = IF a \in Calling THEN barred[a] \ Live' ELSE barred[a] BY <1>4
  <2> QED BY <2>1, <2>2, <2>3, <2>4, <2>5
<1> QED BY <1>5, <1>6, RecordMoved

\* An agent moves: what must be shown of it.
LEMMA AgentMoves ==
    ASSUME ReadInv, UNCHANGED record, NEW a \in Agents, Only(a),
           CallOK(call'[a], book'[a], servable'[a], barred'[a], Live, Servable),
           BookOK(book'[a]),
           ReplyOK(reply'[a], call'[a], token'[a], trail'[a], servable'[a], barred'[a])
    PROVE  ReadInv'
<1>1. Live' = Live /\ Servable' = Servable BY DEF record, Live, Servable
<1>2. ASSUME NEW b \in Agents
      PROVE  /\ CallOK(call'[b], book'[b], servable'[b], barred'[b], Live', Servable')
             /\ BookOK(book'[b])
             /\ ReplyOK(reply'[b], call'[b], token'[b], trail'[b], servable'[b], barred'[b])
  <2>1. CASE b = a BY <1>1, <2>1
  <2>2. CASE b # a
    <3>1. /\ trail'[b] = trail[b] /\ call'[b] = call[b] /\ token'[b] = token[b] /\ book'[b] = book[b]
          /\ reply'[b] = reply[b] /\ servable'[b] = servable[b] /\ barred'[b] = barred[b]
      BY <2>2 DEF Only, Keeps
    <3>2. /\ CallOK(call[b], book[b], servable[b], barred[b], Live, Servable)
          /\ BookOK(book[b])
          /\ ReplyOK(reply[b], call[b], token[b], trail[b], servable[b], barred[b])
      BY DEF ReadInv
    <3> QED BY <1>1, <3>1, <3>2
  <2> QED BY <2>1, <2>2
<1>3. /\ OfAgents(trail') /\ OfAgents(call') /\ OfAgents(token') /\ OfAgents(book') /\ OfAgents(reply')
      /\ OfAgents(servable') /\ OfAgents(barred')
  BY DEF Only, Keeps
<1>4. active' \in Gens \cup {0} /\ rollbackGen' \in Gens \cup {0} /\ gated' \in Gens \cup {0}
  BY DEF ReadInv, record
<1> QED BY <1>2, <1>3, <1>4 DEF ReadInv

-----------------------------------------------------------------------------
\* Nobody has asked anything.
LEMMA ReadInvInit ==
    ASSUME ReadInit
    PROVE  ReadInv
<1>1. active \in Gens \cup {0} /\ rollbackGen \in Gens \cup {0} /\ gated \in Gens \cup {0}
  BY ReadAssumption DEF ReadInit
<1>2. /\ OfAgents(trail) /\ OfAgents(call) /\ OfAgents(token) /\ OfAgents(book) /\ OfAgents(reply)
      /\ OfAgents(servable) /\ OfAgents(barred)
  BY DEF ReadInit, OfAgents
<1>3. ASSUME NEW a \in Agents
      PROVE  /\ CallOK(call[a], book[a], servable[a], barred[a], Live, Servable)
             /\ BookOK(book[a])
             /\ ReplyOK(reply[a], call[a], token[a], trail[a], servable[a], barred[a])
  <2>1. call[a] = Idle /\ book[a] = NoBook /\ reply[a] = Unanswered BY DEF ReadInit
  <2>2. CallOK(call[a], book[a], servable[a], barred[a], Live, Servable)
    BY <2>1 DEF CallOK, UnderWay, Idle, Reading
  <2>3. BookOK(book[a]) BY <2>1 DEF BookOK, NoBook, Opened
  <2>4. reply[a].kind = "none" BY <2>1 DEF Unanswered
  <2> QED BY <2>2, <2>3, <2>4, NotYetAnswered
<1> QED BY <1>1, <1>2, <1>3 DEF ReadInv

\* Ingests, an undo, takedowns and the collector.
LEMMA RecordMovesInv ==
    ASSUME ReadInv, RecordMoves
    PROVE  ReadInv'
<1>1. active \in Gens \cup {0} /\ rollbackGen \in Gens \cup {0} /\ gated \in Gens \cup {0}
  BY DEF ReadInv
<1>2. CASE Flip BY <1>1, <1>2, SeenMoves DEF Flip
<1>3. CASE Rollback BY <1>1, <1>3, SeenMoves DEF Rollback
<1>4. CASE Revoke BY <1>1, <1>4, SeenMoves DEF Revoke
<1>5. ASSUME NEW id, NEW scope, Deny(id, scope) PROVE ReadInv' BY <1>1, <1>5, SeenMoves DEF Deny
<1>6. ASSUME UNCHANGED <<active, rollbackGen, denylist, trail, call, token, book, reply, servable, barred>>,
             gated' \in Gens \cup {0}
      PROVE  ReadInv'
  <2>1. Live' = Live /\ Servable' = Servable BY <1>6 DEF Live, Servable
  <2>2. OfAgents(servable') /\ OfAgents(barred') BY <1>6 DEF ReadInv
  <2>3. ASSUME NEW a \in Agents
        PROVE  /\ servable[a] \subseteq servable'[a] /\ barred'[a] \subseteq barred[a]
               /\ UnderWay(call[a]) =>
                     barred'[a] \cap Live' = {} /\ Servable' \subseteq servable'[a] /\ servable'[a] \subseteq Gens
    <3>1. CallOK(call[a], book[a], servable[a], barred[a], Live, Servable) BY DEF ReadInv
    <3>2. servable'[a] = servable[a] /\ barred'[a] = barred[a] BY <1>6
    <3> QED BY <2>1, <3>1, <3>2 DEF CallOK
  <2> QED BY <1>1, <1>6, <2>2, <2>3, RecordMoved
<1>7. CASE Gate BY <1>6, <1>7 DEF Gate
<1>8. ASSUME NEW g \in Gens, Collect(g) PROVE ReadInv' BY <1>1, <1>6, <1>8 DEF Collect
<1> QED BY <1>2, <1>3, <1>4, <1>5, <1>7, <1>8 DEF RecordMoves

-----------------------------------------------------------------------------
\* The entry of one agent is written, or no entry.
LEMMA Written ==
    ASSUME NEW f, OfAgents(f), NEW a \in Agents
    PROVE  /\ Keeps(f, f, a)
           /\ \A v : Keeps(f, [f EXCEPT ![a] = v], a) /\ [f EXCEPT ![a] = v][a] = v
<1>1. f = [b \in Agents |-> f[b]] BY DEF OfAgents
<1>2. ASSUME NEW v
      PROVE  Keeps(f, [f EXCEPT ![a] = v], a) /\ [f EXCEPT ![a] = v][a] = v
  <2> DEFINE g == [f EXCEPT ![a] = v]
  <2>1. g = [b \in Agents |-> IF b = a THEN v ELSE f[b]] BY <1>1
  <2> HIDE DEF g
  <2>2. OfAgents(g) /\ g[a] = v /\ \A b \in Agents \ {a} : g[b] = f[b] BY <2>1 DEF OfAgents
  <2> QED BY <2>2 DEF Keeps, g
<1> QED BY <1>2 DEF Keeps

\* A call begins.
LEMMA BeginsInv ==
    ASSUME ReadInv, NEW a \in Agents, NEW c, Begins(a, c), UNCHANGED <<record, trail, token, reply>>,
           Keeps(book, book', a), BookOK(book'[a]),
           \/ c.at \in {"unpublished", "embed"}
           \/ c.at = "pin" /\ (book'[a].gen = 0 \/ book'[a].next # Start)
           \/ c.at = "find" /\ c.pin = 0 /\ (book'[a].gen = 0 \/ book'[a].next # Start)
    PROVE  ReadInv'
<1>1. /\ call[a].at = "idle" /\ call' = [call EXCEPT ![a] = c]
      /\ servable' = [servable EXCEPT ![a] = Servable]
      /\ barred' = [barred EXCEPT ![a] = Documents \ Live]
  BY DEF Begins
<1>2. /\ OfAgents(trail) /\ OfAgents(call) /\ OfAgents(token) /\ OfAgents(reply)
      /\ OfAgents(servable) /\ OfAgents(barred)
  BY DEF ReadInv
<1>3. Keeps(call, call', a) /\ call'[a] = c BY <1>1, <1>2, Written
<1>4. Keeps(servable, servable', a) /\ servable'[a] = Servable BY <1>1, <1>2, Written
<1>5. Keeps(barred, barred', a) /\ barred'[a] = Documents \ Live BY <1>1, <1>2, Written
<1>6. Keeps(trail, trail, a) /\ Keeps(token, token, a) /\ Keeps(reply, reply, a) BY <1>2, Written
<1>7. Only(a) BY <1>3, <1>4, <1>5, <1>6 DEF Only
<1>8. Servable \subseteq Gens BY DEF Servable, ReadInv
<1>9. CallOK(c, book'[a], Servable, Documents \ Live, Live, Servable) BY <1>8 DEF CallOK, Reading
<1>10. reply[a].kind \notin {"page", "hits"} BY <1>1 DEF ReadInv, ReplyOK
<1>11. ReplyOK(reply'[a], call'[a], token'[a], trail'[a], servable'[a], barred'[a])
  BY <1>10, NotYetAnswered
<1> QED BY <1>3, <1>4, <1>5, <1>7, <1>9, <1>11, AgentMoves

\* A call goes on: nothing but how far it is changes.
LEMMA GoesOnInv ==
    ASSUME ReadInv, NEW a \in Agents, NEW c, call' = [call EXCEPT ![a] = c], UnderWay(call[a]),
           UNCHANGED <<record, trail, token, book, reply, servable, barred>>,
           CallOK(c, book[a], servable[a], barred[a], Live, Servable)
    PROVE  ReadInv'
<1>1. /\ OfAgents(trail) /\ OfAgents(call) /\ OfAgents(token) /\ OfAgents(book) /\ OfAgents(reply)
      /\ OfAgents(servable) /\ OfAgents(barred)
  BY DEF ReadInv
<1>2. Keeps(call, call', a) /\ call'[a] = c BY <1>1, Written
<1>3. /\ Keeps(trail, trail, a) /\ Keeps(token, token, a) /\ Keeps(book, book, a)
      /\ Keeps(reply, reply, a) /\ Keeps(servable, servable, a) /\ Keeps(barred, barred, a)
  BY <1>1, Written
<1>4. Only(a) BY <1>2, <1>3 DEF Only
<1>5. reply[a].kind \notin {"page", "hits"} BY DEF ReadInv, ReplyOK, UnderWay
<1>6. ReplyOK(reply'[a], call'[a], token'[a], trail'[a], servable'[a], barred'[a])
  BY <1>5, NotYetAnswered
<1>7. BookOK(book[a]) BY DEF ReadInv
<1> QED BY <1>2, <1>4, <1>6, <1>7, AgentMoves

\* A call is answered.
LEMMA AnsweredInv ==
    ASSUME ReadInv, NEW a \in Agents, call' = [call EXCEPT ![a] = Heard],
           UNCHANGED <<record, servable, barred>>,
           Keeps(trail, trail', a), Keeps(token, token', a), Keeps(book, book', a), Keeps(reply, reply', a),
           BookOK(book'[a]),
           ReplyOK(reply'[a], Heard, token'[a], trail'[a], servable[a], barred[a])
    PROVE  ReadInv'
<1>1. OfAgents(call) /\ OfAgents(servable) /\ OfAgents(barred) BY DEF ReadInv
<1>2. Keeps(call, call', a) /\ call'[a] = Heard BY <1>1, Written
<1>3. Keeps(servable, servable, a) /\ Keeps(barred, barred, a) BY <1>1, Written
<1>4. Only(a) BY <1>2, <1>3 DEF Only
<1>5. CallOK(Heard, book'[a], servable[a], barred[a], Live, Servable)
  BY DEF CallOK, Heard, UnderWay, Reading
<1> QED BY <1>2, <1>4, <1>5, AgentMoves

\* What the trail and the reply are when a call is answered.
LEMMA AnswersIs ==
    ASSUME ReadInv, NEW a \in Agents, NEW action, NEW gen, NEW r, Answers(a, action, gen, r)
    PROVE  \E audited \in BOOLEAN :
              /\ Keeps(trail, trail', a) /\ Keeps(reply, reply', a)
              /\ call' = [call EXCEPT ![a] = Heard]
              /\ trail'[a] = IF audited THEN [action |-> action, gen |-> gen] ELSE NoRow
              /\ reply'[a] = [r EXCEPT !.degraded = ~audited]
<1>1. OfAgents(trail) /\ OfAgents(reply) BY DEF ReadInv
<1>2. PICK audited \in BOOLEAN :
        /\ trail' = [trail EXCEPT ![a] = IF audited THEN [action |-> action, gen |-> gen] ELSE NoRow]
        /\ reply' = [reply EXCEPT ![a] = [r EXCEPT !.degraded = ~audited]]
  BY DEF Answers
<1> DEFINE row == IF audited THEN [action |-> action, gen |-> gen] ELSE NoRow
           said == [r EXCEPT !.degraded = ~audited]
<1>3. trail' = [trail EXCEPT ![a] = row] /\ reply' = [reply EXCEPT ![a] = said] BY <1>2
<1>4. call' = [call EXCEPT ![a] = Heard] BY DEF Answers
<1>5. Keeps(trail, trail', a) /\ trail'[a] = row
  <2> HIDE DEF row
  <2> QED BY <1>1, <1>3, Written
<1>6. Keeps(reply, reply', a) /\ reply'[a] = said
  <2> HIDE DEF said
  <2> QED BY <1>1, <1>3, Written
<1> QED BY <1>4, <1>5, <1>6
-----------------------------------------------------------------------------
\* An answer that shows no document.
LEMMA SaysNothing ==
    ASSUME ReadInv, NEW a \in Agents, NEW action, NEW gen, NEW r, Answers(a, action, gen, r),
           \A e \in BOOLEAN : [r EXCEPT !.degraded = e].kind \notin {"page", "hits"},
           UNCHANGED <<record, book, servable, barred>>, Keeps(token, token', a)
    PROVE  ReadInv'
<1>1. PICK audited \in BOOLEAN :
        /\ Keeps(trail, trail', a) /\ Keeps(reply, reply', a)
        /\ call' = [call EXCEPT ![a] = Heard]
        /\ trail'[a] = IF audited THEN [action |-> action, gen |-> gen] ELSE NoRow
        /\ reply'[a] = [r EXCEPT !.degraded = ~audited]
  BY AnswersIs
<1>2. reply'[a].kind \notin {"page", "hits"} BY <1>1
<1>3. ReplyOK(reply'[a], Heard, token'[a], trail'[a], servable[a], barred[a]) BY <1>2, NotYetAnswered
<1>4. OfAgents(book) /\ BookOK(book[a]) BY DEF ReadInv
<1>5. Keeps(book, book, a) BY <1>4, Written
<1> QED BY <1>1, <1>3, <1>4, <1>5, AnsweredInv

\* Nothing that an unpinned read may serve is of no generation.
LEMMA LiveIsServable ==
    ASSUME ReadInv, Live # {}
    PROVE  active # 0 /\ active \in Servable
<1>1. active # 0 BY DEF Live, Admitted
<1> QED BY <1>1 DEF Servable

\* The statements of a search.
LEMMA SearchesInv ==
    ASSUME ReadInv, NEW a \in Agents,
           Search(a) \/ Unpublished(a) \/ Embed(a) \/ Rank(a) \/ SearchAnswer(a) \/ BlindAnswer(a)
    PROVE  ReadInv'
<1>1. /\ OfAgents(trail) /\ OfAgents(call) /\ OfAgents(token) /\ OfAgents(book) /\ OfAgents(reply)
      /\ OfAgents(servable) /\ OfAgents(barred)
      /\ CallOK(call[a], book[a], servable[a], barred[a], Live, Servable)
      /\ BookOK(book[a])
  BY DEF ReadInv
<1>2. Keeps(book, book, a) /\ Keeps(token, token, a) BY <1>1, Written
<1>3. CASE Search(a)
  <2> DEFINE c == [at |-> IF active = 0 THEN "unpublished" ELSE "embed"]
  <2>1. Begins(a, c) /\ UNCHANGED <<record, trail, token, book, reply>> BY <1>3 DEF Search
  <2>2. c.at \in {"unpublished", "embed"} OBVIOUS
  <2> HIDE DEF c
  <2> QED BY <1>1, <1>2, <2>1, <2>2, BeginsInv
<1>4. CASE Unpublished(a) BY <1>2, <1>4, SaysNothing DEF Unpublished
<1>5. CASE BlindAnswer(a) BY <1>2, <1>5, SaysNothing DEF BlindAnswer
<1>6. CASE Embed(a)
  <2>1. PICK st \in {"vector", "keyword", "blind"} : call' = [call EXCEPT ![a] = [at |-> st]]
    BY <1>6 DEF Embed
  <2>2. call[a].at = "embed" /\ UNCHANGED <<record, trail, token, book, reply, servable, barred>>
    BY <1>6 DEF Embed
  <2>3. UnderWay(call[a]) BY <2>2 DEF UnderWay
  <2>4. CallOK([at |-> st], book[a], servable[a], barred[a], Live, Servable)
    BY <1>1, <2>3 DEF CallOK, Reading
  <2> QED BY <2>1, <2>2, <2>3, <2>4, GoesOnInv
<1>7. CASE Rank(a)
  <2>1. PICK hits \in SUBSET Live, above \in BOOLEAN :
          call' = [call EXCEPT ![a] =
              [at |-> "ranked", how |-> call[a].at, hits |-> hits, served |-> above /\ hits # {},
               gen |-> IF hits = {} THEN 0 ELSE active]]
    BY <1>7 DEF Rank
  <2>2. UNCHANGED <<record, trail, token, book, reply, servable, barred>> BY <1>7 DEF Rank
  <2>3. UnderWay(call[a]) BY <1>7 DEF Rank, UnderWay
  <2> DEFINE c == [at |-> "ranked", how |-> call[a].at, hits |-> hits, served |-> above /\ hits # {},
                   gen |-> IF hits = {} THEN 0 ELSE active]
  <2>4. hits # {} => active \in Servable BY LiveIsServable
  <2>5. c.at = "ranked" /\ c.hits = hits /\ (c.served => hits # {}) /\ (hits # {} => c.gen = active)
    OBVIOUS
  <2>6. barred[a] \cap Live = {} /\ Servable \subseteq servable[a] /\ servable[a] \subseteq Gens
    BY <1>1, <2>3 DEF CallOK
  <2>7. hits \cap barred[a] = {} BY <2>6
  <2> HIDE DEF c
  <2>8. CallOK(c, book[a], servable[a], barred[a], Live, Servable)
    BY <2>4, <2>5, <2>6, <2>7 DEF CallOK, Reading
  <2> QED BY <2>1, <2>2, <2>3, <2>8, GoesOnInv DEF c
<1>8. CASE SearchAnswer(a)
  <2> DEFINE action == IF call[a].served THEN "similarity_searched" ELSE "search_abstained"
             r == [kind |-> IF call[a].served THEN "hits"
                            ELSE IF call[a].how = "vector" THEN "abstained" ELSE "unavailable",
                   docs |-> IF call[a].served THEN call[a].hits ELSE {}, gen |-> call[a].gen,
                   degraded |-> FALSE]
  <2>1. /\ call[a].at = "ranked" /\ Answers(a, action, call[a].gen, r)
        /\ token' = [token EXCEPT ![a] = call[a].gen] /\ UNCHANGED <<record, book, servable, barred>>
    BY <1>8 DEF SearchAnswer, Pins
  <2>2. PICK audited \in BOOLEAN :
          /\ Keeps(trail, trail', a) /\ Keeps(reply, reply', a)
          /\ call' = [call EXCEPT ![a] = Heard]
          /\ trail'[a] = IF audited THEN [action |-> action, gen |-> call[a].gen] ELSE NoRow
          /\ reply'[a] = [r EXCEPT !.degraded = ~audited]
    <3> HIDE DEF action, r
    <3> QED BY <2>1, AnswersIs
  <2>3. Keeps(token, token', a) /\ token'[a] = call[a].gen BY <1>1, <2>1, Written
  <2>4. /\ reply'[a].kind = r.kind /\ reply'[a].docs = r.docs /\ reply'[a].gen = call[a].gen
        /\ reply'[a].degraded = ~audited
    BY <2>2
  <2>5. /\ call[a].hits \cap barred[a] = {} /\ (call[a].hits # {} => call[a].gen \in servable[a])
        /\ (call[a].served => call[a].hits # {})
    BY <1>1, <2>1 DEF CallOK
  <2>6. /\ reply'[a].kind # "page" /\ (reply'[a].kind = "hits" => call[a].served /\ reply'[a].docs = call[a].hits)
    BY <2>4
  <2>7. call[a].served => action = "similarity_searched" OBVIOUS
  <2> HIDE DEF action, r
  <2>8. ReplyOK(reply'[a], Heard, token'[a], trail'[a], servable[a], barred[a])
    BY <2>2, <2>3, <2>4, <2>5, <2>6, <2>7 DEF ReplyOK, Heard
  <2> QED BY <1>1, <1>2, <2>1, <2>2, <2>3, <2>8, AnsweredInv
<1> QED BY <1>3, <1>4, <1>5, <1>6, <1>7, <1>8
-----------------------------------------------------------------------------
\* A refusal, or an answer heard: the agent's last reply shows nothing.
LEMMA RefusesInv ==
    ASSUME ReadInv, NEW a \in Agents, Refuses(a),
           UNCHANGED <<record, trail, token, book, servable, barred>>
    PROVE  ReadInv'
<1>1. /\ OfAgents(trail) /\ OfAgents(token) /\ OfAgents(book) /\ OfAgents(reply) /\ BookOK(book[a])
  BY DEF ReadInv
<1>2. call' = [call EXCEPT ![a] = Heard] /\ reply' = [reply EXCEPT ![a] = [kind |-> "refused"]]
  BY DEF Refuses
<1>3. Keeps(reply, reply', a) /\ reply'[a] = [kind |-> "refused"] BY <1>1, <1>2, Written
<1>4. Keeps(trail, trail, a) /\ Keeps(token, token, a) /\ Keeps(book, book, a) BY <1>1, Written
<1>5. ReplyOK(reply'[a], Heard, token'[a], trail'[a], servable[a], barred[a])
  BY <1>3, NotYetAnswered
<1> QED BY <1>1, <1>2, <1>3, <1>4, <1>5, AnsweredInv

\* A caller hears its answer.
LEMMA HearInv ==
    ASSUME ReadInv, NEW a \in Agents, Hear(a)
    PROVE  ReadInv'
<1>1. /\ OfAgents(trail) /\ OfAgents(call) /\ OfAgents(token) /\ OfAgents(book) /\ OfAgents(reply)
      /\ OfAgents(servable) /\ OfAgents(barred) /\ BookOK(book[a])
  BY DEF ReadInv
<1>2. /\ call' = [call EXCEPT ![a] = Idle] /\ reply' = [reply EXCEPT ![a] = Unanswered]
      /\ trail' = [trail EXCEPT ![a] = NoRow]
      /\ servable' = [servable EXCEPT ![a] = {}] /\ barred' = [barred EXCEPT ![a] = {}]
      /\ UNCHANGED <<record, token, book>>
  BY DEF Hear
<1>3. Keeps(call, call', a) /\ call'[a] = Idle BY <1>1, <1>2, Written
<1>4. Keeps(reply, reply', a) /\ reply'[a] = Unanswered BY <1>1, <1>2, Written
<1>5. Keeps(trail, trail', a) /\ Keeps(servable, servable', a) /\ Keeps(barred, barred', a)
  BY <1>1, <1>2, Written
<1>6. Keeps(token, token, a) /\ Keeps(book, book, a) BY <1>1, Written
<1>7. Only(a) BY <1>2, <1>3, <1>4, <1>5, <1>6 DEF Only
<1>8. CallOK(Idle, book[a], servable'[a], barred'[a], Live, Servable)
  BY DEF CallOK, UnderWay, Idle, Reading
<1>9. reply'[a].kind \notin {"page", "hits"} BY <1>4 DEF Unanswered
<1>10. ReplyOK(reply'[a], call'[a], token'[a], trail'[a], servable'[a], barred'[a])
  BY <1>9, NotYetAnswered
<1> QED BY <1>1, <1>2, <1>3, <1>7, <1>8, <1>10, AgentMoves

\* A token that is no longer good pins nothing.
LEMMA ExpireInv ==
    ASSUME ReadInv, NEW a \in Agents, Expire(a)
    PROVE  ReadInv'
<1>1. /\ OfAgents(trail) /\ OfAgents(call) /\ OfAgents(token) /\ OfAgents(book) /\ OfAgents(reply)
      /\ OfAgents(servable) /\ OfAgents(barred)
      /\ CallOK(call[a], book[a], servable[a], barred[a], Live, Servable) /\ BookOK(book[a])
      /\ ReplyOK(reply[a], call[a], token[a], trail[a], servable[a], barred[a])
  BY DEF ReadInv
<1>2. token' = [token EXCEPT ![a] = 0] /\ UNCHANGED <<record, trail, call, book, reply, servable, barred>>
  BY DEF Expire
<1>3. Keeps(token, token', a) /\ token'[a] = 0 BY <1>1, <1>2, Written
<1>4. /\ Keeps(trail, trail, a) /\ Keeps(call, call, a) /\ Keeps(book, book, a)
      /\ Keeps(reply, reply, a) /\ Keeps(servable, servable, a) /\ Keeps(barred, barred, a)
  BY <1>1, Written
<1>5. Only(a) BY <1>2, <1>3, <1>4 DEF Only
<1>6. ReplyOK(reply[a], call[a], 0, trail[a], servable[a], barred[a]) BY <1>1 DEF ReplyOK
<1> QED BY <1>1, <1>2, <1>3, <1>5, <1>6, AgentMoves

\* A read begins, of a document anew or of the page that its book ends before.
LEMMA ReadBeginsInv ==
    ASSUME ReadInv, NEW a \in Agents,
           (\E d \in Documents, path \in Headings : ReadFirst(a, d, path)) \/ ReadOn(a)
    PROVE  ReadInv'
<1> DEFINE c == [at |-> IF token[a] = 0 THEN "find" ELSE "pin", pin |-> token[a]]
<1>1. OfAgents(book) /\ BookOK(book[a]) BY DEF ReadInv
<1>2. c.at = "pin" \/ (c.at = "find" /\ c.pin = 0) OBVIOUS
<1> HIDE DEF c
<1>3. CASE ReadOn(a)
  <2>1. book[a].next # Start /\ Begins(a, c) /\ UNCHANGED <<record, trail, token, book, reply>>
    BY <1>3 DEF ReadOn, c
  <2>2. Keeps(book, book, a) BY <1>1, Written
  <2> QED BY <1>1, <1>2, <2>1, <2>2, BeginsInv
<1>4. ASSUME NEW d \in Documents, NEW path \in Headings, ReadFirst(a, d, path) PROVE ReadInv'
  <2>1. book' = [book EXCEPT ![a] = Opened(d, path)] /\ Begins(a, c) /\ UNCHANGED <<record, trail, token, reply>>
    BY <1>4 DEF ReadFirst, c
  <2>2. Keeps(book, book', a) /\ book'[a] = Opened(d, path) BY <1>1, <2>1, Written
  <2>3. path \in Seq(STRING) BY ReadAssumption
  <2>4. BookOK(book'[a]) /\ book'[a].gen = 0 BY <2>2, <2>3 DEF BookOK, Opened
  <2> QED BY <1>2, <2>1, <2>2, <2>4, BeginsInv
<1> QED BY <1>3, <1>4

\* The statements of a read before its answer.
LEMMA ReadsInv ==
    ASSUME ReadInv, NEW a \in Agents,
           CheckPin(a) \/ Find(a) \/ ReadChunks(a) \/ ReadFrontmatter(a)
    PROVE  ReadInv'
<1>1. /\ CallOK(call[a], book[a], servable[a], barred[a], Live, Servable) /\ BookOK(book[a])
      /\ OfAgents(call)
  BY DEF ReadInv
<1>2. CASE CheckPin(a)
  <2> DEFINE c == [at |-> "find", pin |-> IF Pinnable(call[a].pin) THEN call[a].pin ELSE 0]
  <2>1. /\ call[a].at = "pin" /\ call' = [call EXCEPT ![a] = c]
        /\ UNCHANGED <<record, trail, token, book, reply, servable, barred>>
    BY <1>1, <1>2 DEF CheckPin, OfAgents
  <2>2. UnderWay(call[a]) BY <2>1 DEF UnderWay
  <2>3. c.at = "find" /\ (c.pin = 0 \/ c.pin \in Servable) BY DEF Pinnable
  <2> HIDE DEF c
  <2>4. CallOK(c, book[a], servable[a], barred[a], Live, Servable)
    BY <1>1, <2>1, <2>2, <2>3 DEF CallOK, Reading
  <2> QED BY <2>1, <2>2, <2>4, GoesOnInv
<1>3. CASE Find(a)
  <2> DEFINE g == IF call[a].pin = 0 THEN active ELSE call[a].pin
             c == [at |-> "chunks", pin |-> call[a].pin, gen |-> g]
  <2>1. call[a].at = "find" BY <1>3 DEF Find
  <2>2. CASE Readable(book[a].doc, g)
    <3>1. call' = [call EXCEPT ![a] = c] /\ UNCHANGED <<record, trail, token, book, reply, servable, barred>>
      BY <1>1, <1>3, <2>2 DEF Find, OfAgents
    <3>2. UnderWay(call[a]) BY <2>1 DEF UnderWay
    <3>3. c.at = "chunks" /\ c.gen = g OBVIOUS
    <3>4. book[a].doc \in Live /\ Live # {} BY <2>2 DEF Readable
    <3>5. active \in Servable BY <3>4, LiveIsServable
    <3>6. /\ barred[a] \cap Live = {} /\ Servable \subseteq servable[a] /\ servable[a] \subseteq Gens
          /\ (call[a].pin = 0 \/ call[a].pin \in servable[a])
          /\ (book[a].gen = 0 \/ book[a].next # Start)
      BY <1>1, <2>1, <3>2 DEF CallOK, Reading
    <3>7. book[a].doc \notin barred[a] /\ g \in servable[a] BY <3>4, <3>5, <3>6
    <3> HIDE DEF c, g
    <3>8. CallOK(c, book[a], servable[a], barred[a], Live, Servable)
      BY <3>3, <3>6, <3>7 DEF CallOK, Reading
    <3> QED BY <3>1, <3>2, <3>8, GoesOnInv
  <2>3. CASE ~Readable(book[a].doc, g)
    <3>1. Refuses(a) /\ UNCHANGED <<record, trail, token, book, servable, barred>>
      BY <1>3, <2>3 DEF Find
    <3> QED BY <3>1, RefusesInv
  <2> QED BY <2>2, <2>3
<1>4. CASE ReadFrontmatter(a)
  <2> DEFINE c == [at |-> "page", pin |-> call[a].pin, gen |-> call[a].gen, path |-> call[a].path,
                   w |-> call[a].w, text |-> call[a].text, fm |-> call[a].gen]
  <2>1. /\ call[a].at = "frontmatter" /\ call' = [call EXCEPT ![a] = c]
        /\ UNCHANGED <<record, trail, token, book, reply, servable, barred>>
    BY <1>1, <1>4 DEF ReadFrontmatter, FoundIn, OfAgents
  <2>2. UnderWay(call[a]) BY <2>1 DEF UnderWay
  <2>3. /\ c.at = "page" /\ c.fm = c.gen /\ c.gen = call[a].gen /\ c.path = call[a].path
        /\ c.w = call[a].w /\ c.text = call[a].text
    OBVIOUS
  <2> HIDE DEF c
  <2>4. Cut(c, book[a]) BY <1>1, <2>1, <2>3 DEF CallOK, Cut
  <2>5. CallOK(c, book[a], servable[a], barred[a], Live, Servable)
    BY <1>1, <2>1, <2>2, <2>3, <2>4 DEF CallOK, Reading
  <2> QED BY <2>1, <2>2, <2>5, GoesOnInv
<1>5. CASE ReadChunks(a)
  <2> DEFINE g == call[a].gen
             all == IF g \in reaped \/ book[a].doc \notin DOMAIN Chunks[g] THEN <<>>
                    ELSE Chunks[g][book[a].doc]
             c(p) == LET chunks == Scoped(all, p)
                         w == WindowDocument(chunks, Budget, book[a].next)
                     IN  [at |-> "frontmatter", pin |-> call[a].pin, gen |-> call[a].gen, path |-> p,
                          w |-> w, text |-> [i \in 1..(w.to - w.from + 1) |-> chunks[w.from + i - 1]]]
  <2>1. call[a].at = "chunks" /\ UNCHANGED <<record, trail, token, book, servable, barred>>
    BY <1>5 DEF ReadChunks
  <2>2. CASE Refuses(a) BY <2>1, <2>2, RefusesInv
  <2>3. CASE ~Refuses(a)
    <3>1. /\ all # <<>> /\ UNCHANGED reply
          /\ \E p \in ResolvedScope(all, book[a].path) :
                /\ StartIndex(Scoped(all, p), book[a].next) # 0
                /\ call' = [call EXCEPT ![a] = c(p)]
      BY <1>1, <1>5, <2>3 DEF ReadChunks, FoundIn, OfAgents
    <3>2. PICK p \in ResolvedScope(all, book[a].path) :
                /\ StartIndex(Scoped(all, p), book[a].next) # 0
                /\ call' = [call EXCEPT ![a] = c(p)]
      BY <3>1
    <3>3. all = Chunks[g][book[a].doc] /\ book[a].doc \in DOMAIN Chunks[g] BY <3>1
    <3> DEFINE from == StartIndex(Scoped(all, p), book[a].next)
               to == WindowEnd(Scoped(all, p), from, Budget)
    <3>4. /\ c(p).at = "frontmatter" /\ c(p).gen = g /\ c(p).path = p
          /\ c(p).w = [from |-> from, to |-> to, last |-> to = Len(Scoped(all, p)),
                       next |-> IF to = Len(Scoped(all, p)) THEN Start
                                ELSE NextCursor(Scoped(all, p), to + 1)]
          /\ c(p).text = [i \in 1..(to - from + 1) |-> Scoped(all, p)[from + i - 1]]
      BY DEF WindowDocument
    <3>5. UnderWay(call[a]) BY <2>1 DEF UnderWay
    <3>6. /\ book[a].doc \notin barred[a] /\ g \in servable[a] /\ servable[a] \subseteq Gens
      BY <1>1, <2>1, <3>5 DEF CallOK
    <3> HIDE DEF c, all, g
    <3>7. Cut(c(p), book[a])
      <4> DEFINE d == c(p)  b == book[a]
      <4>1. d.gen = g /\ d.path = p /\ all = Chunks[d.gen][b.doc] BY <3>3, <3>4
      <4>2. d.gen \in Gens /\ b.doc \in DOMAIN Chunks[d.gen] /\ all # <<>>
        BY <3>1, <3>3, <3>6, <4>1
      <4>3. d.path \in ResolvedScope(all, b.path) /\ from # 0 BY <3>2, <4>1
      <4> HIDE DEF d, b
      <4>4. Scoped(all, p) = Scoped(Chunks[d.gen][b.doc], d.path) BY <4>1
      <4>5. /\ from = StartIndex(Scoped(Chunks[d.gen][b.doc], d.path), b.next)
            /\ to = WindowEnd(Scoped(Chunks[d.gen][b.doc], d.path), from, Budget)
        BY <4>4 DEF b
      <4>6. /\ d.w = [from |-> from, to |-> to, last |-> to = Len(Scoped(all, p)),
                       next |-> IF to = Len(Scoped(all, p)) THEN Start
                                ELSE NextCursor(Scoped(all, p), to + 1)]
            /\ d.text = [i \in 1..(to - from + 1) |-> Scoped(all, p)[from + i - 1]]
        BY <3>4 DEF d
      <4> HIDE DEF from, to
      <4>7. Cut(d, b) BY <4>1, <4>2, <4>3, <4>4, <4>5, <4>6, Zenon DEF Cut
      <4> QED BY <4>7 DEF d, b
    <3>8. CallOK(c(p), book[a], servable[a], barred[a], Live, Servable)
      BY <1>1, <2>1, <3>4, <3>5, <3>6, <3>7 DEF CallOK, Reading
    <3> QED BY <2>1, <3>1, <3>2, <3>5, <3>8, GoesOnInv
  <2> QED BY <2>2, <2>3
<1> QED BY <1>2, <1>3, <1>4, <1>5

\* A page is handed over, and put after the pages there are.
LEMMA ReadAnswerInv ==
    ASSUME ReadInv, NEW a \in Agents, ReadAnswer(a)
    PROVE  ReadInv'
<1> DEFINE c == call[a]
           b == book[a]
           r == [kind |-> "page", doc |-> b.doc, gen |-> c.gen, fm |-> c.fm,
                 text |-> c.text, pinned |-> c.pin # 0, degraded |-> FALSE]
           st == b.steady /\ c.pin # 0 /\ b.gen \in {0, c.gen}
           new == [doc |-> b.doc, path |-> c.path, gen |-> c.gen, pages |-> b.pages \o c.text,
                   next |-> c.w.next, whole |-> c.w.last, steady |-> st]
<1>1. /\ CallOK(c, b, servable[a], barred[a], Live, Servable) /\ BookOK(b)
      /\ OfAgents(token) /\ OfAgents(book)
  BY DEF ReadInv
<1>2. /\ c.at = "page" /\ Answers(a, "content_served", c.gen, r)
      /\ book' = [book EXCEPT ![a] = new]
      /\ UNCHANGED <<record, token, servable, barred>>
  BY <1>1 DEF ReadAnswer, OfAgents
<1>3. PICK audited \in BOOLEAN :
        /\ Keeps(trail, trail', a) /\ Keeps(reply, reply', a)
        /\ call' = [call EXCEPT ![a] = Heard]
        /\ trail'[a] = IF audited THEN [action |-> "content_served", gen |-> c.gen] ELSE NoRow
        /\ reply'[a] = [r EXCEPT !.degraded = ~audited]
  <2> HIDE DEF r, c
  <2> QED BY <1>2, AnswersIs
<1>4. /\ reply'[a].kind = "page" /\ reply'[a].doc = b.doc /\ reply'[a].gen = c.gen
      /\ reply'[a].fm = c.fm /\ reply'[a].text = c.text /\ reply'[a].degraded = ~audited
  BY <1>3
<1>5. /\ b.doc \notin barred[a] /\ c.gen \in servable[a] /\ c.fm = c.gen
      /\ Cut(c, b) /\ (b.gen = 0 \/ b.next # Start)
  BY <1>1, <1>2 DEF CallOK, Reading
<1>6. st => b.gen \in {0, c.gen} /\ b.steady OBVIOUS
<1>7. Keeps(book, book', a) /\ book'[a] = new BY <1>1, <1>2, Written
<1>8. Keeps(token, token, a) BY <1>1, Written
<1> HIDE DEF c, b, r, st
<1>9. BookOK(new) BY <1>1, <1>5, <1>6, PageAdds
<1>10. \A i \in DOMAIN c.text : Contains(Chunks[c.gen][b.doc], c.text[i])
  BY <1>1, <1>5, TextIsOfTheDocument
<1> HIDE DEF new
<1>11. ReplyOK(reply'[a], Heard, token'[a], trail'[a], servable[a], barred[a])
  BY <1>3, <1>4, <1>5, <1>10 DEF ReplyOK, Heard
<1> QED BY <1>2, <1>3, <1>7, <1>8, <1>9, <1>11, AnsweredInv

-----------------------------------------------------------------------------
\* The invariant holds of every behaviour: the record and the agents in any
\* order, every statement of theirs a step.
THEOREM ReadInvHolds == ReadSpec => []ReadInv
<1>1. ReadInit => ReadInv BY ReadInvInit
<1>2. ReadInv /\ [ReadNext]_readVars => ReadInv'
  <2> SUFFICES ASSUME ReadInv, [ReadNext]_readVars PROVE ReadInv' OBVIOUS
  <2>1. CASE RecordMoves BY <2>1, RecordMovesInv
  <2>2. ASSUME NEW a \in Agents, Agent(a) PROVE ReadInv'
    <3>1. \/ Search(a) \/ Unpublished(a) \/ Embed(a) \/ Rank(a) \/ SearchAnswer(a) \/ BlindAnswer(a)
          \/ Expire(a) \/ Hear(a)
          \/ (\E d \in Documents, path \in Headings : ReadFirst(a, d, path)) \/ ReadOn(a)
          \/ CheckPin(a) \/ Find(a) \/ ReadChunks(a) \/ ReadFrontmatter(a) \/ ReadAnswer(a)
      BY <2>2 DEF Agent
    <3> QED BY <3>1, SearchesInv, ExpireInv, HearInv, ReadBeginsInv, ReadsInv, ReadAnswerInv
  <2>3. CASE UNCHANGED readVars
    <3>1. Live' = Live /\ Servable' = Servable BY <2>3 DEF readVars, Live, Servable
    <3> QED BY <2>3, <3>1 DEF ReadInv, readVars
  <2> QED BY <2>1, <2>2, <2>3 DEF ReadNext
<1> QED BY <1>1, <1>2, PTL DEF ReadSpec

\* Nothing that was denied, or closed to the viewer, throughout a search or a
\* read is shown by it, with a token that pins a generation or without
\* (service.ts, search and readDocument; lib/admit.ts, lib/takedown.ts).
THEOREM NothingBarredServedHolds == ReadSpec => []NothingBarredServed
<1>1. ReadInv => NothingBarredServed BY DEF ReadInv, ReplyOK, NothingBarredServed
<1> QED BY <1>1, ReadInvHolds, PTL

\* An answer is all of one generation, text, frontmatter, citation, token and
\* trail, and that generation was servable at some moment of the call.
THEOREM OneServableGenerationHolds == ReadSpec => []OneServableGeneration
<1>1. ReadInv => ServedWhileServable BY DEF ReadInv, ReplyOK, ServedWhileServable
<1>2. ReadInv => AnswersAreOfOneGeneration BY DEF ReadInv, ReplyOK, AnswersAreOfOneGeneration
<1> QED BY <1>1, <1>2, ReadInvHolds, PTL DEF OneServableGeneration

\* The pages of a read that was pinned throughout, put one after the other, are
\* the document or the section from its first chunk on, and all of it when
\* there is no next page (lib/windowing.ts, service.ts, readDocument).
THEOREM PagesRebuildHolds == ReadSpec => []PagesRebuild
<1>1. ASSUME NEW b, BookOK(b), b.steady, b.gen # 0
      PROVE  LET whole == Scoped(Chunks[b.gen][b.doc], b.path)
             IN  IsPrefix(b.pages, whole) /\ (b.whole => b.pages = whole)
  <2> DEFINE all == Chunks[b.gen][b.doc]
             whole == Scoped(all, b.path)
  <2>1. Assembled(b) BY <1>1 DEF BookOK
  <2>2. all \in Seq(StoredChunk) BY <2>1, ReadAssumption DEF Assembled
  <2>3. PICK n \in 1..Len(whole) : b.pages = SubSeq(whole, 1, n) /\ b.whole = (n = Len(whole))
    BY <2>1 DEF Assembled
  <2> HIDE DEF all
  <2>4. whole \in Seq(StoredChunk) BY <2>2, ScopedIs
  <2> HIDE DEF whole
  <2>5. Len(whole) \in Nat BY <2>4
  <2>6. /\ b.pages \in Seq(StoredChunk) /\ Len(b.pages) = n
        /\ \A i \in 1..n : b.pages[i] = whole[i]
    BY <2>3, <2>4, <2>5
  <2>7. IsPrefix(b.pages, whole)
    <3>1. SubSeq(whole, 1, Len(b.pages)) = b.pages BY <2>3, <2>6
    <3> QED BY <2>3, <2>5, <2>6, <3>1 DEF IsPrefix
  <2>8. ASSUME b.whole PROVE b.pages = whole
    <3>1. n = Len(whole) BY <2>3, <2>8
    <3> QED BY <2>4, <2>5, <2>6, <3>1
  <2> QED BY <2>7, <2>8 DEF whole, all
<1>2. ReadInv => PagesRebuild BY <1>1 DEF ReadInv, PagesRebuild
<1> QED BY <1>2, ReadInvHolds, PTL

=============================================================================
