---------------------------- MODULE TakedownProofs ----------------------------
(***************************************************************************)
(* The ledger and the rows it is folded into, for any processes, checkouts *)
(* and stable ids, and any number of entries and runs: the two loops, over *)
(* the entries of a file (foldLedger) and of another branch's (git), and   *)
(* what holds of every file, row and trail whatever folds what and when;   *)
(* and the verbs that write them, whatever is under them (Console).        *)
(***************************************************************************)
EXTENDS Takedown, Console, Loops

-----------------------------------------------------------------------------
(* What a ledger says. *)

\* What an entry is made of.
LEMMA EntryIs ==
    ASSUME NEW e \in Entries
    PROVE  /\ e.id \in EntryIds /\ e.id # 0 /\ e.id # -1
           /\ e.kind = "denial" => e.of \in StableIds /\ e.expected \in Expected
           /\ e.kind # "denial" => e.of \in EntryIds
<1>1. e.id \in EntryIds /\ (e.kind = "denial" => e.of \in StableIds /\ e.expected \in Expected)
      /\ (e.kind # "denial" => e.of \in EntryIds)
  <2>1. CASE e \in [kind : {"denial"}, id : EntryIds, of : StableIds, expected : Expected] BY <2>1
  <2>2. CASE e \in [kind : {"revocation", "amendment"}, id : EntryIds, of : EntryIds] BY <2>2
  <2> QED BY <2>1, <2>2 DEF Entries
<1>2. \A i \in EntryIds : i # 0 /\ i # -1 BY TakedownAssumption DEF EntryIds
<1> QED BY <1>1, <1>2

\* The loop's choice for a stable id is a denial of it, and one that is in force
\* exactly when any is.
LEMMA ChosenIs ==
    ASSUME NEW L \in Seq(Entries), NEW x, Denials(L, x) # {}
    PROVE  /\ Chosen(L, x) \in Denials(L, x)
           /\ Chosen(L, x) \in InForce(L) <=> Denials(L, x) \cap InForce(L) # {}
<1> DEFINE n == Len(L)
           D == Denials(L, x)
           st == InForce(L)
           turn == [i \in 1..n |-> [c \in 0..n |-> IF i \in D /\ Overwrites(st, c, i) THEN i ELSE c]]
           Is(f) == f = [i \in 0..n |-> IF i = 0 THEN 0
                                        ELSE IF i \in D /\ Overwrites(st, f[i - 1], i) THEN i ELSE f[i - 1]]
           Good(c, i) ==
              /\ c \in 0..n
              /\ c # 0 => c \in D
              /\ (\E j \in 1..i : j \in D) => c # 0
              /\ c \in st <=> \E j \in 1..i : j \in D \cap st
<1>1. n \in Nat /\ D \subseteq 1..n /\ st \subseteq 1..n BY DEF Denials, InForce
<1> HIDE DEF D, st, n
<1>2. \E f : Is(f)
  <2>1. turn \in [1..n -> [0..n -> 0..n]] BY <1>1
  <2> HIDE DEF turn
  <2>2. \E f : Ran(f, n, 0..n, 0, turn)
    <3> DEFINE X == 0..n
    <3>1. 0 \in X /\ turn \in [1..n -> [X -> X]] BY <1>1, <2>1
    <3> HIDE DEF X
    <3>2. \E f : Ran(f, n, X, 0, turn) BY <1>1, <3>1, LoopRuns
    <3> QED BY <3>2 DEF X
  <2>3. PICK f : f \in [0..n -> 0..n] /\ f[0] = 0 /\ \A i \in 1..n : f[i] = turn[i][f[i - 1]]
    BY <2>2 DEF Ran
  <2>4. ASSUME NEW i \in 0..n
        PROVE  f[i] = IF i = 0 THEN 0
                      ELSE IF i \in D /\ Overwrites(st, f[i - 1], i) THEN i ELSE f[i - 1]
    <3>1. CASE i = 0 BY <2>3, <3>1
    <3>2. CASE i # 0
      <4>1. i \in 1..n /\ i - 1 \in 0..n BY <1>1, <3>2
      <4>2. f[i - 1] \in 0..n /\ f[i] = turn[i][f[i - 1]] BY <2>3, <4>1
      <4> QED BY <3>2, <4>1, <4>2 DEF turn
    <3> QED BY <3>1, <3>2
  <2>5. Is(f) BY <2>3, <2>4
  <2> QED BY <2>5
<1> DEFINE choice == CHOOSE f : Is(f)
<1>3. Chosen(L, x) = choice[n] BY DEF Chosen, D, st, n
<1>4. Is(choice) BY <1>2
<1> HIDE DEF choice
<1>5. choice[0] = 0 BY <1>1, <1>4
<1>6. ASSUME NEW i \in 1..n
      PROVE  choice[i] = IF i \in D /\ Overwrites(st, choice[i - 1], i) THEN i ELSE choice[i - 1]
  BY <1>1, <1>4
<1> DEFINE S == {i \in 0..n : Good(choice[i], i)}
<1>7. 0 \in S BY <1>1, <1>5
<1>8. ASSUME NEW i \in 1..n, i - 1 \in S PROVE i \in S
  <2>1. Good(choice[i - 1], i - 1) BY <1>8
  <2>2. \A j \in 1..i : j \in 1..(i - 1) \/ j = i BY <1>1
  <2>3. \A j \in 1..(i - 1) : j \in 1..i BY <1>1
  <2>4. i \in 1..i /\ i \in 0..n /\ i # 0 BY <1>1
  <2>5. CASE i \in D /\ Overwrites(st, choice[i - 1], i)
    <3>1. choice[i] = i BY <1>6, <2>5
    <3>2. ~(choice[i - 1] \in st /\ i \notin st) BY <2>5 DEF Overwrites
    <3>3. i \in st <=> \E j \in 1..i : j \in D \cap st BY <2>1, <2>2, <2>4, <2>5, <3>2
    <3>4. Good(choice[i], i) BY <2>4, <2>5, <3>1, <3>3
    <3> QED BY <2>4, <3>4
  <2>6. CASE ~(i \in D /\ Overwrites(st, choice[i - 1], i))
    <3>1. choice[i] = choice[i - 1] BY <1>6, <2>6
    <3>2. i \in D => choice[i - 1] \in st /\ i \notin st BY <2>6 DEF Overwrites
    <3>3. 0 \notin st BY <1>1
    <3>4. (\E j \in 1..i : j \in D) => choice[i] # 0 BY <2>1, <2>2, <3>1, <3>2, <3>3
    <3>5. choice[i] \in st <=> \E j \in 1..i : j \in D \cap st BY <2>1, <2>2, <2>3, <3>1, <3>2
    <3>6. Good(choice[i], i) BY <2>1, <3>1, <3>4, <3>5
    <3> QED BY <2>4, <3>6
  <2> QED BY <2>5, <2>6
<1> HIDE DEF S
<1>9. 0..n \subseteq S BY <1>1, <1>7, <1>8, LoopKeeps
<1>10. Good(choice[n], n) BY <1>1, <1>9 DEF S
<1>11. D # {} BY DEF D
<1>12. \E j \in 1..n : j \in D BY <1>1, <1>11
<1>13. choice[n] \in D /\ (choice[n] \in st <=> D \cap st # {}) BY <1>1, <1>10, <1>12
<1> QED BY <1>3, <1>13 DEF D, st

\* The row it gives has an entry, and denies exactly what the site withdraws.
LEMMA FoldedIs ==
    ASSUME NEW L \in Seq(Entries), NEW x \in StableIds, Denials(L, x) # {}
    PROVE  /\ Folded(L, x) \in Row
           /\ Folded(L, x) # Unledgered
           /\ Denying(Folded(L, x)) <=> SiteDenies(L, x)
<1> DEFINE i == Chosen(L, x)
           R == Naming(L, "revocation", i)
<1>1. i \in Denials(L, x) /\ (i \in InForce(L) <=> SiteDenies(L, x)) BY ChosenIs DEF SiteDenies
<1> HIDE DEF i
<1>2. Len(L) \in Nat /\ DOMAIN L = 1..Len(L) /\ i \in 1..Len(L) /\ L[i].kind = "denial"
  BY <1>1 DEF Denials
<1>3. \A j \in 1..Len(L) : L[j] \in Entries OBVIOUS
<1>4. L[i].id \in EntryIds /\ L[i].id # 0 /\ L[i].id # -1 /\ L[i].expected \in Expected
  BY <1>2, <1>3, EntryIs
<1>5. i \notin InForce(L) => Max(R) \in 1..Len(L)
  <2>1. R \subseteq 1..Len(L) BY <1>2 DEF Naming
  <2>2. i \notin InForce(L) => R # {} BY <1>2 DEF InForce
  <2> DEFINE b == Len(L)
  <2>3. 1 \in Int /\ b \in Int /\ R \subseteq 1..b BY <1>2, <2>1
  <2> HIDE DEF R, b
  <2>4. R # {} => Max(R) \in R BY ONLY <2>3, GreatestIs
  <2> QED BY <2>2, <2>3, <2>4 DEF b
<1>6. i \notin InForce(L) => L[Max(R)].id \in EntryIds /\ L[Max(R)].id # 0 BY <1>3, <1>5, EntryIs
<1> DEFINE r == FoldedRow(L, i)
<1>7. /\ r = [entry |-> r.entry, revoked |-> r.revoked, expected |-> r.expected]
      /\ r.entry = L[i].id
      /\ r.revoked = IF i \in InForce(L) THEN 0 ELSE L[Max(R)].id
      /\ r.expected \in Expected
  <2>1. "removed" \in Expected BY DEF Expected
  <2> QED BY <1>4, <2>1 DEF FoldedRow
<1> HIDE DEF r, R
<1>8. r \in Row BY <1>4, <1>6, <1>7 DEF Row
<1>9. r # Unledgered /\ r # NoRow BY <1>4, <1>7 DEF Unledgered, NoRow
<1>10. r.revoked = 0 <=> i \in InForce(L) BY <1>6, <1>7
<1>11. Folded(L, x) = r BY DEF Folded, r, i
<1> QED BY <1>1, <1>8, <1>9, <1>10, <1>11 DEF Denying
-----------------------------------------------------------------------------
(* Entries that are put after those there are. *)

\* A file that parses, and is given an entry it did not have, still parses.
LEMMA AppendParses ==
    ASSUME NEW L \in Seq(Entries), Parses(L), NEW e \in Entries, e.id \notin IdsOf(L),
           e.kind # "denial" => \E f \in Range(L) : f.kind = "denial" /\ f.id = e.of
    PROVE  /\ Append(L, e) \in Seq(Entries) /\ Parses(Append(L, e))
           /\ Range(Append(L, e)) = Range(L) \cup {e}
<1> DEFINE M == Append(L, e)
<1>1. /\ M \in Seq(Entries) /\ Len(M) = Len(L) + 1 /\ Len(L) \in Nat
      /\ DOMAIN L = 1..Len(L) /\ DOMAIN M = 1..(Len(L) + 1)
      /\ M[Len(L) + 1] = e /\ \A i \in 1..Len(L) : M[i] = L[i]
  OBVIOUS
<1> HIDE DEF M
<1>2. \A i \in DOMAIN M : i \in DOMAIN L \/ i = Len(L) + 1 BY <1>1
<1>3. \A i \in DOMAIN L : i \in DOMAIN M BY <1>1
<1>4. Range(M) = Range(L) \cup {e} BY <1>1, <1>2, <1>3 DEF Range
<1>5. ASSUME NEW i \in DOMAIN M
      PROVE  /\ \A j \in 1..(i - 1) : M[j].id # M[i].id
             /\ M[i].kind # "denial" => \E j \in 1..(i - 1) : M[j].kind = "denial" /\ M[j].id = M[i].of
  <2>1. CASE i \in DOMAIN L
    <3>1. \A j \in 1..(i - 1) : j \in DOMAIN L BY <1>1, <2>1
    <3>2. /\ \A j \in 1..(i - 1) : L[j].id # L[i].id
          /\ L[i].kind # "denial" => \E j \in 1..(i - 1) : L[j].kind = "denial" /\ L[j].id = L[i].of
      BY <2>1 DEF Parses
    <3>3. M[i] = L[i] /\ \A j \in 1..(i - 1) : M[j] = L[j] BY <1>1, <2>1, <3>1
    <3> QED BY <3>2, <3>3
  <2>2. CASE i = Len(L) + 1
    <3>1. 1..(i - 1) = DOMAIN L /\ M[i] = e BY <1>1, <2>2
    <3>2. \A j \in DOMAIN L : M[j] = L[j] BY <1>1
    <3>3. \A j \in DOMAIN L : L[j].id # e.id BY DEF IdsOf
    <3>4. e.kind # "denial" => \E j \in DOMAIN L : L[j].kind = "denial" /\ L[j].id = e.of BY DEF Range
    <3> QED BY <3>1, <3>2, <3>3, <3>4
  <2> QED BY <1>2, <2>1, <2>2
<1>6. Parses(M) BY <1>5 DEF Parses
<1> QED BY <1>1, <1>4, <1>6 DEF M

\* Two branches whose entries agree merge into a file that parses, and that has
\* the entries of both.
LEMMA MergedIs ==
    ASSUME NEW mine \in Seq(Entries), NEW theirs \in Seq(Entries), Parses(mine), Parses(theirs),
           \A e \in Range(mine), f \in Range(theirs) : e.id = f.id => e = f
    PROVE  /\ Merged(mine, theirs) \in Seq(Entries) /\ Parses(Merged(mine, theirs))
           /\ Range(Merged(mine, theirs)) = Range(mine) \cup Range(theirs)
<1> DEFINE n == Len(theirs)
           X == Seq(Entries)
           turn == [i \in 1..n |-> [m \in X |-> IF theirs[i].id \in IdsOf(mine) THEN m
                                                ELSE Append(m, theirs[i])]]
           Is(f) == f = [i \in 0..n |-> IF i = 0 THEN mine
                                        ELSE IF theirs[i].id \in IdsOf(mine) THEN f[i - 1]
                                        ELSE Append(f[i - 1], theirs[i])]
           Upto(i) == {theirs[j] : j \in 1..i}
           Good(m, i) == m \in X /\ Parses(m) /\ Range(m) = Range(mine) \cup Upto(i)
<1>1. n \in Nat /\ DOMAIN theirs = 1..n /\ \A i \in 1..n : theirs[i] \in Entries OBVIOUS
<1> HIDE DEF n
<1>2. \E f : Is(f)
  <2>1. turn \in [1..n -> [X -> X]] /\ mine \in X
    <3>1. \A i \in 1..n, m \in X : Append(m, theirs[i]) \in X BY <1>1
    <3> HIDE DEF X
    <3>2. mine \in X BY DEF X
    <3> QED BY <3>1, <3>2
  <2> HIDE DEF turn, X
  <2>2. \E f : Ran(f, n, X, mine, turn) BY <1>1, <2>1, LoopRuns
  <2>3. PICK f : f \in [0..n -> X] /\ f[0] = mine /\ \A i \in 1..n : f[i] = turn[i][f[i - 1]]
    BY <2>2 DEF Ran
  <2>4. ASSUME NEW i \in 0..n
        PROVE  f[i] = IF i = 0 THEN mine
                      ELSE IF theirs[i].id \in IdsOf(mine) THEN f[i - 1] ELSE Append(f[i - 1], theirs[i])
    <3>1. CASE i = 0 BY <2>3, <3>1
    <3>2. CASE i # 0
      <4>1. i \in 1..n /\ i - 1 \in 0..n BY <1>1, <3>2
      <4>2. f[i - 1] \in X /\ f[i] = turn[i][f[i - 1]] BY <2>3, <4>1
      <4> QED BY <3>2, <4>1, <4>2 DEF turn
    <3> QED BY <3>1, <3>2
  <2>5. Is(f) BY <2>3, <2>4
  <2> QED BY <2>5
<1> DEFINE merged == CHOOSE f : Is(f)
<1>3. Merged(mine, theirs) = merged[n] BY DEF Merged, n
<1>4. Is(merged) BY <1>2
<1> HIDE DEF merged
<1>5. merged[0] = mine BY <1>1, <1>4
<1>6. ASSUME NEW i \in 1..n
      PROVE  merged[i] = IF theirs[i].id \in IdsOf(mine) THEN merged[i - 1]
                         ELSE Append(merged[i - 1], theirs[i])
  <2> DEFINE F(j) == IF j = 0 THEN mine
                     ELSE IF theirs[j].id \in IdsOf(mine) THEN merged[j - 1]
                     ELSE Append(merged[j - 1], theirs[j])
  <2>1. merged = [j \in 0..n |-> F(j)] BY <1>4
  <2>2. i \in 0..n /\ i # 0 BY <1>1
  <2>3. F(i) = IF theirs[i].id \in IdsOf(mine) THEN merged[i - 1] ELSE Append(merged[i - 1], theirs[i])
    BY <2>2
  <2> HIDE DEF F
  <2>4. merged[i] = F(i) BY <2>1, <2>2
  <2> QED BY <2>3, <2>4
<1> DEFINE S == {i \in 0..n : Good(merged[i], i)}
<1>7. 0 \in S
  <2>1. Upto(0) = {} OBVIOUS
  <2> QED BY <1>1, <1>5, <2>1
<1>8. ASSUME NEW i \in 1..n, i - 1 \in S PROVE i \in S
  <2> DEFINE m == merged[i - 1]
             e == theirs[i]
  <2>1. m \in X /\ Parses(m) /\ Range(m) = Range(mine) \cup Upto(i - 1) BY <1>8
  <2>2. Upto(i) = Upto(i - 1) \cup {e}
    <3>1. \A j : j \in 1..i <=> j \in 1..(i - 1) \/ j = i BY <1>1
    <3> QED BY <3>1
  <2>3. i \in 0..n /\ i \in DOMAIN theirs /\ e \in Entries /\ e \in Range(theirs)
    BY <1>1 DEF Range
  <2>4. CASE e.id \in IdsOf(mine)
    <3>1. merged[i] = m BY <1>6, <2>4
    <3>2. \E f \in Range(mine) : f.id = e.id BY <2>4 DEF IdsOf, Range
    <3>3. e \in Range(mine) BY <2>3, <3>2
    <3> HIDE DEF m, e
    <3>4. Range(m) = Range(mine) \cup Upto(i) BY <2>1, <2>2, <3>3
    <3> QED BY <2>1, <2>3, <3>1, <3>4
  <2>5. CASE e.id \notin IdsOf(mine)
    <3>1. merged[i] = Append(m, e) BY <1>6, <2>5
    <3>2. \A j \in 1..(i - 1) : theirs[j].id # e.id BY <2>3 DEF Parses
    <3>3. \A f \in Range(mine) : f.id # e.id BY <2>5 DEF IdsOf, Range
    <3>4. \A f \in Range(m) : f.id # e.id BY <2>1, <3>2, <3>3
    <3>5. e.id \notin IdsOf(m) BY <3>4 DEF IdsOf, Range
    <3>6. e.kind # "denial" => \E j \in 1..(i - 1) : theirs[j].kind = "denial" /\ theirs[j].id = e.of
      BY <2>3 DEF Parses
    <3>7. e.kind # "denial" => \E f \in Range(m) : f.kind = "denial" /\ f.id = e.of BY <2>1, <3>6
    <3> HIDE DEF m, e
    <3>8. /\ Append(m, e) \in Seq(Entries) /\ Parses(Append(m, e))
          /\ Range(Append(m, e)) = Range(m) \cup {e}
      BY <2>1, <2>3, <3>5, <3>7, AppendParses
    <3>9. Range(Append(m, e)) = Range(mine) \cup Upto(i) BY <2>1, <2>2, <3>8
    <3> HIDE DEF Upto
    <3> QED BY <2>3, <3>1, <3>8, <3>9
  <2> QED BY <2>4, <2>5
<1> HIDE DEF S
<1>9. 0..n \subseteq S BY <1>1, <1>7, <1>8, LoopKeeps
<1>10. Good(merged[n], n)
  <2> HIDE DEF Good
  <2> QED BY <1>1, <1>9 DEF S
<1>11. Upto(n) = Range(theirs) BY <1>1 DEF Range
<1> QED BY <1>3, <1>10, <1>11
-----------------------------------------------------------------------------
(* What holds of every file, row and trail. *)

\* Every entry that some checkout has.
Written == UNION {Range(ledger[c]) : c \in Checkouts}

\* An id is minted once, whatever branch it is on, and the ids are the first
\* ones; a run was allocated, or is about to be, when every row had an entry.
TakedownInv ==
    /\ TypeOK
    /\ \A e, f \in Written : e.id = f.id => e = f
    /\ \E n \in 0..MaxEntries : Minted = 1..n
    /\ TrailTellsTheRow
    /\ runs # <<>> \/ (\E p \in Procs : pc[p] = "allocate") => \A x \in StableIds : rows[x] # Unledgered

\* The id that is minted next is none that was.
LEMMA MintIsFresh ==
    ASSUME TakedownInv, Mint \in EntryIds
    PROVE  /\ \A e \in Written : e.id # Mint
           /\ \A D : D = Minted \cup {Mint} => \E n \in 0..MaxEntries : D = 1..n
<1>1. PICK n \in 0..MaxEntries : Minted = 1..n BY DEF TakedownInv
<1>2. n \in Nat BY <1>1, TakedownAssumption
<1>3. Cardinality(1..n) = n BY <1>2, FS_Interval
<1>4. Mint = n + 1 BY <1>1, <1>2, <1>3 DEF Mint
<1>5. n + 1 \notin 1..n /\ n + 1 \in 0..MaxEntries BY <1>2, <1>4, TakedownAssumption DEF EntryIds
<1>6. \A e \in Written : e.id \in Minted BY DEF Written, Minted
<1>7. Minted \cup {Mint} = 1..(n + 1) BY <1>1, <1>2, <1>4
<1> QED BY <1>1, <1>4, <1>5, <1>6, <1>7

\* An act: the entry is appended under the lock, and the file read again.
LEMMA RecordKeeps ==
    ASSUME TakedownInv, NEW p \in Procs, NEW c \in Checkouts, NEW e, c = at[p], e.id = Mint, e \in Entries,
           e.kind # "denial" => \E f \in Range(ledger[c]) : f.kind = "denial" /\ f.id = e.of,
           Mint \in EntryIds,
           ledger' = [ledger EXCEPT ![c] = Append(@, e)],
           held' = [held EXCEPT ![p] = ledger'[c]],
           pc' = [pc EXCEPT ![p] = "row"],
           UNCHANGED <<rows, trail, runs, at>>
    PROVE  TakedownInv'
<1>1. TypeOK BY DEF TakedownInv
<1>2. ledger \in [Checkouts -> Seq(Entries)] /\ held \in [Procs -> Seq(Entries)] BY <1>1 DEF TypeOK
<1>3. \A f \in Range(ledger[c]) : f \in Written BY DEF Written
<1>4. \A f \in Range(ledger[c]) : f.id # e.id BY <1>3, MintIsFresh
<1>5. e.id \notin IdsOf(ledger[c]) BY <1>4 DEF IdsOf, Range
<1>6. Parses(ledger[c]) /\ ledger[c] \in Seq(Entries) BY <1>1, <1>2 DEF TypeOK
<1>7. /\ Append(ledger[c], e) \in Seq(Entries) /\ Parses(Append(ledger[c], e))
      /\ Range(Append(ledger[c], e)) = Range(ledger[c]) \cup {e}
  BY <1>5, <1>6, AppendParses
<1>8. ledger'[c] = Append(ledger[c], e) /\ \A d \in Checkouts \ {c} : ledger'[d] = ledger[d] BY <1>2
<1>9. ledger' \in [Checkouts -> Seq(Entries)] BY <1>2, <1>7
<1>10. \A d \in Checkouts : Parses(ledger'[d]) BY <1>1, <1>7, <1>8 DEF TypeOK
<1>11. held' \in [Procs -> Seq(Entries)] BY <1>2, <1>7, <1>8
<1>12. pc' \in [Procs -> {"idle", "row", "ledger", "allocate"}] BY <1>1 DEF TypeOK
<1>13. TypeOK' BY <1>1, <1>9, <1>10, <1>11, <1>12 DEF TypeOK
<1>14. Written' = Written \cup {e}
  <2>1. ASSUME NEW f \in Written' PROVE f \in Written \cup {e}
    <3>1. PICK d \in Checkouts : f \in Range(ledger'[d]) BY DEF Written
    <3>2. f \in Range(ledger[d]) \cup {e} BY <1>7, <1>8, <3>1
    <3> QED BY <3>2 DEF Written
  <2>2. ASSUME NEW f \in Written PROVE f \in Written'
    <3>1. PICK d \in Checkouts : f \in Range(ledger[d]) BY DEF Written
    <3>2. f \in Range(ledger'[d]) BY <1>7, <1>8, <3>1
    <3> QED BY <3>2 DEF Written
  <2>3. e \in Range(ledger'[c]) BY <1>7, <1>8
  <2>4. e \in Written' BY <2>3 DEF Written
  <2> QED BY <2>1, <2>2, <2>4
<1>15. \A g, f \in Written' : g.id = f.id => g = f
  <2>1. \A g, f \in Written : g.id = f.id => g = f BY DEF TakedownInv
  <2>2. \A g \in Written : g.id # e.id BY MintIsFresh
  <2> QED BY <1>14, <2>1, <2>2
<1>16. Minted' = Minted \cup {Mint}
  <2>1. Minted = {f.id : f \in Written} /\ Minted' = {f.id : f \in Written'} BY DEF Minted, Written
  <2> QED BY <1>14, <2>1
<1>17. \E n \in 0..MaxEntries : Minted' = 1..n BY <1>16, MintIsFresh
<1>18. TrailTellsTheRow' BY DEF TakedownInv, TrailTellsTheRow
<1>19. (runs' # <<>> \/ \E q \in Procs : pc'[q] = "allocate") => \A x \in StableIds : rows'[x] # Unledgered
  <2>1. \A q \in Procs : pc'[q] = "allocate" => pc[q] = "allocate" BY <1>1 DEF TypeOK
  <2> QED BY <2>1 DEF TakedownInv
<1> QED BY <1>13, <1>15, <1>17, <1>18, <1>19 DEF TakedownInv

\* A merge writes no entry that was not written.
LEMMA MergeKeeps ==
    ASSUME TakedownInv, NEW c \in Checkouts, NEW d \in Checkouts, Merge(c, d)
    PROVE  TakedownInv'
<1> DEFINE L == Merged(ledger[d], ledger[c])
<1>1. TypeOK BY DEF TakedownInv
<1>2. /\ ledger \in [Checkouts -> Seq(Entries)]
      /\ ledger[c] \in Seq(Entries) /\ ledger[d] \in Seq(Entries)
      /\ Parses(ledger[c]) /\ Parses(ledger[d])
  BY <1>1 DEF TypeOK
<1>3. \A e \in Range(ledger[d]), f \in Range(ledger[c]) : e.id = f.id => e = f
  <2>1. \A e \in Range(ledger[d]), f \in Range(ledger[c]) : e \in Written /\ f \in Written
    BY DEF Written
  <2> QED BY <2>1 DEF TakedownInv
<1>4. L \in Seq(Entries) /\ Parses(L) /\ Range(L) = Range(ledger[d]) \cup Range(ledger[c])
  BY <1>2, <1>3, MergedIs
<1>5. /\ ledger' = [ledger EXCEPT ![d] = L] /\ UNCHANGED <<rows, trail, runs, pc, at, held>>
  BY <1>2 DEF Merge
<1> HIDE DEF L
<1>6. ledger'[d] = L /\ \A b \in Checkouts \ {d} : ledger'[b] = ledger[b] BY <1>2, <1>5
<1>7. ledger' \in [Checkouts -> Seq(Entries)] BY <1>2, <1>4, <1>5
<1>8. \A b \in Checkouts : Parses(ledger'[b]) BY <1>1, <1>4, <1>6 DEF TypeOK
<1>9. TypeOK' BY <1>1, <1>5, <1>7, <1>8 DEF TypeOK
<1>10. Written' = Written
  <2>1. ASSUME NEW f \in Written' PROVE f \in Written
    <3>1. PICK b \in Checkouts : f \in Range(ledger'[b]) BY DEF Written
    <3>2. f \in Range(ledger[b]) \/ f \in Range(ledger[c]) BY <1>4, <1>6, <3>1
    <3> QED BY <3>2 DEF Written
  <2>2. ASSUME NEW f \in Written PROVE f \in Written'
    <3>1. PICK b \in Checkouts : f \in Range(ledger[b]) BY DEF Written
    <3>2. f \in Range(ledger'[b]) BY <1>4, <1>6, <3>1
    <3> QED BY <3>2 DEF Written
  <2> QED BY <2>1, <2>2
<1>11. Minted' = Minted
  <2>1. Minted = {f.id : f \in Written} /\ Minted' = {f.id : f \in Written'} BY DEF Minted, Written
  <2> QED BY <1>10, <2>1
<1>12. TrailTellsTheRow' BY <1>5 DEF TakedownInv, TrailTellsTheRow
<1> QED BY <1>5, <1>9, <1>10, <1>11, <1>12 DEF TakedownInv

\* The fold of a file into the rows: each stable id that the file names gets
\* the file's row, and the trail what was done; no row loses its entry.
LEMMA FoldIs ==
    ASSUME TypeOK, TrailTellsTheRow, NEW L \in Seq(Entries), ApplyLedger(L)
    PROVE  /\ rows' \in [StableIds -> Row \cup {NoRow}]
           /\ trail' \in [StableIds -> {Act(row) : row \in Row \cup {NoRow}}]
           /\ TrailTellsTheRow'
           /\ \A x \in StableIds : rows'[x] = Unledgered => rows[x] = Unledgered
           /\ \A x \in StableIds : Denials(L, x) # {} => rows'[x] = Folded(L, x)
<1>1. ASSUME NEW x \in StableIds
      PROVE  /\ rows'[x] = IF Denials(L, x) # {} THEN Folded(L, x) ELSE rows[x]
             /\ trail'[x] = Act(rows'[x])
  <2>1. rows'[x] = IF Denials(L, x) # {} /\ Changed(rows[x], Folded(L, x)) THEN Folded(L, x) ELSE rows[x]
    BY DEF ApplyLedger
  <2>2. rows'[x] = IF Denials(L, x) # {} THEN Folded(L, x) ELSE rows[x] BY <2>1 DEF Changed
  <2>3. trail'[x] = IF Denials(L, x) # {} /\ Logged(rows[x], rows'[x]) THEN Act(rows'[x]) ELSE trail[x]
    BY <2>1 DEF ApplyLedger
  <2>4. trail[x] = Act(rows[x]) BY DEF TrailTellsTheRow
  <2> QED BY <2>2, <2>3, <2>4 DEF Logged, Changed
<1>2. \A x \in StableIds : Denials(L, x) # {} => Folded(L, x) \in Row /\ Folded(L, x) # Unledgered
  BY FoldedIs
<1>3. rows \in [StableIds -> Row \cup {NoRow}] BY DEF TypeOK
<1>4. \A x \in StableIds : rows'[x] \in Row \cup {NoRow} BY <1>1, <1>2, <1>3
<1>5. rows' = [x \in StableIds |-> rows'[x]] /\ trail' = [x \in StableIds |-> trail'[x]]
  BY DEF ApplyLedger
<1>6. rows' \in [StableIds -> Row \cup {NoRow}] BY <1>4, <1>5
<1>7. \A x \in StableIds : trail'[x] \in {Act(row) : row \in Row \cup {NoRow}} BY <1>1, <1>4
<1>8. trail' \in [StableIds -> {Act(row) : row \in Row \cup {NoRow}}] BY <1>5, <1>7
<1> QED BY <1>1, <1>2, <1>6, <1>8 DEF TrailTellsTheRow

\* A step that writes no entry.
LEMMA LedgerStands ==
    ASSUME TakedownInv, UNCHANGED ledger, TypeOK', TrailTellsTheRow',
           runs' # <<>> \/ (\E p \in Procs : pc'[p] = "allocate") =>
              \A x \in StableIds : rows'[x] # Unledgered
    PROVE  TakedownInv'
<1>1. Written' = Written /\ Minted' = Minted BY DEF Written, Minted
<1> QED BY <1>1 DEF TakedownInv

\* A process goes on to another step, or gives up; the rows are not touched.
LEMMA Moves ==
    ASSUME TakedownInv, NEW p \in Procs, NEW next \in {"idle", "row", "ledger"}, NEW L \in Seq(Entries),
           pc' = [pc EXCEPT ![p] = next], held' = [held EXCEPT ![p] = L],
           UNCHANGED <<ledger, rows, trail, runs, at>>
    PROVE  TakedownInv'
<1>1. TypeOK BY DEF TakedownInv
<1>2. TypeOK' BY <1>1 DEF TypeOK
<1>3. TrailTellsTheRow' BY DEF TakedownInv, TrailTellsTheRow
<1>4. \A q \in Procs : pc'[q] = "allocate" => pc[q] = "allocate" BY <1>1 DEF TypeOK
<1> QED BY <1>2, <1>3, <1>4, LedgerStands DEF TakedownInv

\* A fold, by the verb or by an ingest; the ingest goes on when every row has
\* an entry.
LEMMA FoldKeeps ==
    ASSUME TakedownInv, NEW p \in Procs, Apply(p) \/ IngestLedger(p)
    PROVE  TakedownInv'
<1>1. TypeOK /\ TrailTellsTheRow BY DEF TakedownInv
<1>2. held[p] \in Seq(Entries) /\ ApplyLedger(held[p]) BY <1>1 DEF TypeOK, Apply, IngestLedger
<1>3. /\ rows' \in [StableIds -> Row \cup {NoRow}]
      /\ trail' \in [StableIds -> {Act(row) : row \in Row \cup {NoRow}}]
      /\ TrailTellsTheRow'
      /\ \A x \in StableIds : rows'[x] = Unledgered => rows[x] = Unledgered
  BY <1>1, <1>2, FoldIs
<1>4. UNCHANGED <<ledger, runs, at>> BY DEF Apply, IngestLedger
<1>5. /\ pc' \in [Procs -> {"idle", "row", "ledger", "allocate"}]
      /\ held' \in [Procs -> Seq(Entries)]
      /\ (\E q \in Procs : pc'[q] = "allocate") => (\E q \in Procs : pc[q] = "allocate") \/ MayAllocate(rows')
  <2>1. pc \in [Procs -> {"idle", "row", "ledger", "allocate"}] /\ held \in [Procs -> Seq(Entries)]
    BY <1>1 DEF TypeOK
  <2>2. CASE MayAllocate(rows') /\ pc' = [pc EXCEPT ![p] = "allocate"] /\ UNCHANGED held
    BY <2>1, <2>2
  <2>3. CASE pc' = [pc EXCEPT ![p] = "idle"] /\ held' = [held EXCEPT ![p] = <<>>]
    BY <2>1, <2>3
  <2> QED BY <2>2, <2>3 DEF Apply, IngestLedger
<1>6. TypeOK' BY <1>1, <1>3, <1>4, <1>5 DEF TypeOK
<1>7. MayAllocate(rows') => \A x \in StableIds : rows'[x] # Unledgered
  BY <1>3 DEF MayAllocate, Range
<1>8. runs' # <<>> \/ (\E q \in Procs : pc'[q] = "allocate") => \A x \in StableIds : rows'[x] # Unledgered
  BY <1>3, <1>4, <1>5, <1>7 DEF TakedownInv
<1> QED BY <1>3, <1>4, <1>6, <1>8, LedgerStands

\* A run records the ids of the file that it was given.
LEMMA AllocateKeeps ==
    ASSUME TakedownInv, NEW p \in Procs, Allocate(p)
    PROVE  TakedownInv'
<1>1. TypeOK /\ TrailTellsTheRow BY DEF TakedownInv
<1>2. /\ pc[p] = "allocate" /\ Len(runs) < MaxRuns /\ runs' = Append(runs, IdsOf(held[p]))
      /\ pc' = [pc EXCEPT ![p] = "idle"] /\ held' = [held EXCEPT ![p] = <<>>]
      /\ UNCHANGED <<ledger, rows, trail, at>>
  BY DEF Allocate
<1>3. runs \in Seq(SUBSET EntryIds) /\ held[p] \in Seq(Entries) BY <1>1 DEF TypeOK
<1>4. IdsOf(held[p]) \in SUBSET EntryIds
  <2>1. \A i \in DOMAIN held[p] : held[p][i] \in Entries BY <1>3
  <2>2. \A i \in DOMAIN held[p] : held[p][i].id \in EntryIds BY <2>1, EntryIs
  <2> QED BY <2>2 DEF IdsOf
<1>5. runs' \in Seq(SUBSET EntryIds) /\ Len(runs') <= MaxRuns
  BY <1>2, <1>3, <1>4, TakedownAssumption
<1>6. /\ pc' \in [Procs -> {"idle", "row", "ledger", "allocate"}]
      /\ held' \in [Procs -> Seq(Entries)]
  BY <1>1, <1>2 DEF TypeOK
<1>7. TypeOK' BY <1>1, <1>2, <1>5, <1>6 DEF TypeOK
<1>8. TrailTellsTheRow' BY <1>1, <1>2 DEF TrailTellsTheRow
<1>9. \A x \in StableIds : rows'[x] # Unledgered BY <1>2 DEF TakedownInv
<1> QED BY <1>2, <1>7, <1>8, <1>9, LedgerStands

\* Nothing is written yet; rows from before the ledger may be there.
LEMMA TakedownInvInit ==
    ASSUME Init
    PROVE  TakedownInv
<1>1. <<>> \in Seq(Entries) /\ Parses(<<>>) /\ Range(<<>>) = {} BY DEF Parses, Range
<1>2. Unledgered \in Row
  <2>1. 0 \in EntryIds \cup {0} /\ Present \in Expected BY DEF Present, Expected
  <2> QED BY <2>1 DEF Unledgered, Row
<1>3. rows \in [StableIds -> Row \cup {NoRow}] /\ \A x \in StableIds : trail[x] = Act(rows[x])
  BY <1>2 DEF Init
<1>4. trail \in [StableIds -> {Act(row) : row \in Row \cup {NoRow}}]
  <2>1. trail = [x \in StableIds |-> Act(rows[x])] BY DEF Init
  <2>2. \A x \in StableIds : Act(rows[x]) \in {Act(row) : row \in Row \cup {NoRow}} BY <1>3
  <2> QED BY <2>1, <2>2
<1>5. runs \in Seq(SUBSET EntryIds) /\ Len(runs) <= MaxRuns BY TakedownAssumption DEF Init
<1>6. TypeOK BY <1>1, <1>3, <1>4, <1>5 DEF TypeOK, Init
<1>7. Written = {} BY <1>1 DEF Written, Init
<1>8. Minted = {} BY <1>7 DEF Minted, Written
<1>9. \E n \in 0..MaxEntries : Minted = 1..n
  <2>1. 0 \in 0..MaxEntries /\ 1..0 = {} BY TakedownAssumption
  <2> QED BY <1>8, <2>1
<1>10. runs = <<>> /\ \A p \in Procs : pc[p] = "idle" BY DEF Init
<1> QED BY <1>3, <1>6, <1>7, <1>9, <1>10 DEF TakedownInv, TrailTellsTheRow

-----------------------------------------------------------------------------
\* The invariant holds of every behaviour: acts, folds, ingests, crashes and
\* merges in any order.
THEOREM TakedownInvHolds == Spec => []TakedownInv
<1>1. Init => TakedownInv BY TakedownInvInit
<1>2. TakedownInv /\ [Next]_vars => TakedownInv'
  <2> SUFFICES ASSUME TakedownInv, [Next]_vars PROVE TakedownInv' OBVIOUS
  <2>1. TypeOK /\ \A p \in Procs : at[p] \in Checkouts BY DEF TakedownInv, TypeOK
  <2>2. ASSUME NEW p \in Procs, Deny(p) PROVE TakedownInv'
    <3> DEFINE c == at[p]
    <3>1. PICK x \in StableIds, ex \in Asked : Record(p, "denial", x, ex) BY <2>2 DEF Deny
    <3> DEFINE e == [kind |-> "denial", id |-> Mint, of |-> x, expected |-> ex]
    <3>2. /\ Mint \in EntryIds /\ ledger' = [ledger EXCEPT ![c] = Append(@, e)]
          /\ held' = [held EXCEPT ![p] = ledger'[c]] /\ pc' = [pc EXCEPT ![p] = "row"]
          /\ UNCHANGED <<rows, trail, runs, at>>
      BY <3>1 DEF Record
    <3>3. e \in Entries /\ e.id = Mint /\ e.kind = "denial"
      <4>1. ex \in Expected BY TakedownAssumption DEF Expected
      <4> QED BY <3>2, <4>1 DEF Entries
    <3>4. c \in Checkouts BY <2>1
    <3> HIDE DEF e
    <3> QED BY <3>2, <3>3, <3>4, RecordKeeps
  <2>3. ASSUME NEW p \in Procs, Amend(p) PROVE TakedownInv'
    <3> DEFINE c == at[p]
    <3>1. PICK id \in DenialIds(ledger[c]), kind \in {"revocation", "amendment"} :
            Record(p, kind, id, Present)
      BY <2>3 DEF Amend
    <3> DEFINE e == [kind |-> kind, id |-> Mint, of |-> id]
    <3>2. /\ Mint \in EntryIds /\ ledger' = [ledger EXCEPT ![c] = Append(@, e)]
          /\ held' = [held EXCEPT ![p] = ledger'[c]] /\ pc' = [pc EXCEPT ![p] = "row"]
          /\ UNCHANGED <<rows, trail, runs, at>>
      BY <3>1 DEF Record
    <3>3. c \in Checkouts /\ ledger[c] \in Seq(Entries) BY <2>1 DEF TypeOK
    <3>4. PICK j \in DOMAIN ledger[c] : ledger[c][j].kind = "denial" /\ ledger[c][j].id = id
      BY DEF DenialIds
    <3>5. ledger[c][j] \in Entries /\ ledger[c][j] \in Range(ledger[c]) BY <3>3 DEF Range
    <3>6. id \in EntryIds BY <3>4, <3>5, EntryIs
    <3>7. e \in Entries /\ e.id = Mint /\ e.of = id BY <3>2, <3>6 DEF Entries
    <3>8. \E f \in Range(ledger[c]) : f.kind = "denial" /\ f.id = e.of BY <3>4, <3>5, <3>7
    <3> HIDE DEF e
    <3> QED BY <3>2, <3>3, <3>7, <3>8, RecordKeeps
  <2>4. ASSUME NEW p \in Procs, Leave(p) PROVE TakedownInv'
    <3>1. <<>> \in Seq(Entries) OBVIOUS
    <3> QED BY <2>4, <3>1, Moves DEF Leave
  <2>5. ASSUME NEW p \in Procs, ReadLedger(p, "row") \/ ReadLedger(p, "ledger") PROVE TakedownInv'
    <3>1. ledger[at[p]] \in Seq(Entries) BY <2>1 DEF TypeOK
    <3> QED BY <2>5, <3>1, Moves DEF ReadLedger
  <2>6. ASSUME NEW p \in Procs, Apply(p) \/ IngestLedger(p) PROVE TakedownInv' BY <2>6, FoldKeeps
  <2>7. ASSUME NEW p \in Procs, Allocate(p) PROVE TakedownInv' BY <2>7, AllocateKeeps
  <2>8. ASSUME NEW c \in Checkouts, NEW d \in Checkouts, Merge(c, d) PROVE TakedownInv'
    BY <2>8, MergeKeeps
  <2>9. CASE UNCHANGED vars
    <3>1. TypeOK' BY <2>1, <2>9 DEF TypeOK, vars
    <3>2. TrailTellsTheRow' BY <2>9 DEF TakedownInv, TrailTellsTheRow, vars
    <3> QED BY <2>9, <3>1, <3>2, LedgerStands DEF TakedownInv, vars
  <2> QED BY <2>2, <2>3, <2>4, <2>5, <2>6, <2>7, <2>8, <2>9 DEF Next
<1> QED BY <1>1, <1>2, PTL DEF Spec

\* Types, and: no act and no merge of branches ever leaves a ledger that
\* parseLedger would refuse (record/ledger.ts).
THEOREM TypeCorrect == Spec => []TypeOK
<1>1. TakedownInv => TypeOK BY DEF TakedownInv
<1> QED BY <1>1, TakedownInvHolds, PTL

\* The fold denies exactly what the site withdraws (ledger-apply.ts:18-24),
\* whatever file it is and however many denials, revocations and amendments of
\* one stable id follow one another.
THEOREM OneAnswerHolds == Spec => []OneAnswer
<1>1. TakedownInv => OneAnswer
  <2> SUFFICES ASSUME TakedownInv, NEW c \in Checkouts, NEW x \in StableIds, Denials(ledger[c], x) # {}
               PROVE  Denying(Folded(ledger[c], x)) <=> SiteDenies(ledger[c], x)
    BY DEF OneAnswer
  <2>1. ledger[c] \in Seq(Entries) BY DEF TakedownInv, TypeOK
  <2> QED BY <2>1, FoldedIs
<1> QED BY <1>1, TakedownInvHolds, PTL

\* The trail's last word is the row that is there, and a generation is only
\* allocated beside rows that all have their entries (ledger-apply.ts:244-268,
\* ingest/build.ts:809-818).
THEOREM RowsAreAccountedHolds == Spec => []RowsAreAccounted
<1>1. TakedownInv => RowsAreAccounted
  <2> SUFFICES ASSUME TakedownInv PROVE RowsAreAccounted OBVIOUS
  <2>1. rows \in [StableIds -> Row \cup {NoRow}] BY DEF TakedownInv, TypeOK
  <2>2. RunsAreLedgered BY <2>1 DEF TakedownInv, RunsAreLedgered, Range
  <2> QED BY <2>2 DEF TakedownInv, RowsAreAccounted
<1> QED BY <1>1, TakedownInvHolds, PTL

\* A fold of the file as it stands heals whatever stale folds, crashes and
\* other branches left: door and site then agree on all that the file names.
THEOREM FreshFoldAgreesHolds == Spec => FreshFoldAgrees
<1> DEFINE A == \A p \in Procs :
                  (Apply(p) \/ IngestLedger(p)) /\ held[p] = ledger[at[p]] =>
                     \A x \in StableIds : Denials(held[p], x) # {} =>
                        (Denying(rows'[x]) <=> SiteDenies(held[p], x))
<1>1. TakedownInv /\ [Next]_vars => [A]_vars
  <2> SUFFICES ASSUME TakedownInv, NEW p \in Procs, Apply(p) \/ IngestLedger(p),
                      NEW x \in StableIds, Denials(held[p], x) # {}
               PROVE  Denying(rows'[x]) <=> SiteDenies(held[p], x)
    OBVIOUS
  <2>1. TypeOK /\ TrailTellsTheRow BY DEF TakedownInv
  <2>2. held[p] \in Seq(Entries) /\ ApplyLedger(held[p]) BY <2>1 DEF TypeOK, Apply, IngestLedger
  <2>3. rows'[x] = Folded(held[p], x) BY <2>1, <2>2, FoldIs
  <2> QED BY <2>2, <2>3, FoldedIs
<1> QED BY <1>1, TakedownInvHolds, PTL DEF Spec, FreshFoldAgrees

-----------------------------------------------------------------------------
(* The verbs of the write plane. *)

\* A verb goes on only when each of its checks passed.
LEMMA FirstIsNone ==
    ASSUME NEW checks, NEW n \in Nat, DOMAIN checks = 1..n,
           \A i \in 1..n : checks[i].exits # 0,
           First(checks) = 0
    PROVE  \A i \in 1..n : ~checks[i].fails
<1> DEFINE failed == {i \in DOMAIN checks : checks[i].fails}
<1>1. CASE failed = {} BY <1>1
<1>2. CASE failed # {}
  <2>1. failed \subseteq Nat OBVIOUS
  <2>2. First(checks) = checks[Min(failed)].exits BY <1>2 DEF First
  <2> HIDE DEF failed
  <2>3. Min(failed) \in failed BY <1>2, <2>1, LeastIs
  <2>4. Min(failed) \in 1..n BY <2>3 DEF failed
  <2> QED BY <2>2, <2>4
<1> QED BY <1>1, <1>2

\* A path as it is typed is cleaned to the parts that it does have.
LEMMA CleanedIs ==
    ASSUME NEW c \in Calls
    PROVE  \E n \in 0..Len(c.id.path) :
              /\ Said(c.id.path) = 1..n
              /\ Cleaned(c.id) \in Seq(Segments) /\ Len(Cleaned(c.id)) = n
              /\ \A i \in 1..n : Cleaned(c.id)[i] = c.id.path[i]
<1> DEFINE p == c.id.path
<1>1. p \in Seq(Segments \cup {NoSegment}) BY ConsoleAssumption
<1>2. PICK n \in 0..Len(p) : Said(p) = 1..n BY ConsoleAssumption
<1>3. Len(p) \in Nat /\ n \in Nat BY <1>1
<1>4. Max({0} \cup (1..n)) = n
  <2> DEFINE S == {0} \cup (1..n)
  <2>1. S \subseteq 0..n /\ n \in S /\ 0 \in Int /\ n \in Int BY <1>3
  <2> HIDE DEF S
  <2>2. Max(S) \in S /\ \A k \in S : k <= Max(S) BY <2>1, GreatestIs
  <2>3. Max(S) <= n /\ n <= Max(S) /\ Max(S) \in Int
    <3>1. Max(S) \in 0..n /\ n <= Max(S) BY <2>1, <2>2
    <3> QED BY <3>1, <1>3
  <2>4. Max(S) = n BY <2>3, <1>3
  <2> QED BY <2>4 DEF S
<1>5. Cleaned(c.id) = SubSeq(p, 1, n) BY <1>2, <1>4 DEF Cleaned
<1>6. \A i \in 1..n : p[i] \in Segments
  <2> SUFFICES ASSUME NEW i \in 1..n PROVE p[i] \in Segments OBVIOUS
  <2>1. i \in Said(p) BY <1>2
  <2>2. i \in DOMAIN p /\ p[i] # NoSegment BY <2>1 DEF Said
  <2> QED BY <1>1, <2>2
<1> HIDE DEF p
<1>7. SubSeq(p, 1, n) = [i \in 1..n |-> p[i]] BY <1>1, <1>2, <1>3
<1>8. [i \in 1..n |-> p[i]] \in Seq(Segments) /\ Len([i \in 1..n |-> p[i]]) = n BY <1>3, <1>6
<1> QED BY <1>2, <1>5, <1>7, <1>8 DEF p

\* What the operator pointed at is what the planned denial covers.
LEMMA MeantIsCovered ==
    ASSUME NEW c \in Calls, record.docs \subseteq Seq(Segments)
    PROVE  \A d \in Meant(c) : Covers(Target(c), d)
<1> SUFFICES ASSUME NEW d \in Meant(c) PROVE Covers(Target(c), d) OBVIOUS
<1> DEFINE s == Cleaned(c.id)
<1>1. PICK n \in 0..Len(c.id.path) :
              /\ Said(c.id.path) = 1..n
              /\ s \in Seq(Segments) /\ Len(s) = n
              /\ \A i \in 1..n : s[i] = c.id.path[i]
  BY CleanedIs
<1>2. d \in Seq(Segments) /\ (\A i \in 1..n : i \in DOMAIN d /\ d[i] = s[i])
      /\ ((DOMAIN d = 1..n) = (ScopeOf(c) = "node"))
  BY <1>1 DEF Meant
<1>3. Target(c).path = s /\ Target(c).scope = ScopeOf(c) BY DEF Target
<1> HIDE DEF s
<1>4. n \in Nat BY <1>1
<1>5. CASE ScopeOf(c) = "node"
  <2>1. DOMAIN d = 1..n BY <1>2, <1>5
  <2>2. d = s BY <1>1, <1>2, <1>4, <2>1
  <2> QED BY <1>3, <1>5, <2>2 DEF Covers
<1>6. CASE ScopeOf(c) # "node"
  <2>1. Len(d) \in Nat /\ DOMAIN d = 1..Len(d) BY <1>2
  <2>2. n <= Len(d)
    <3>1. CASE n = 0 BY <3>1, <2>1
    <3>2. CASE n # 0 
      <4>1. n \in 1..n BY <3>2, <1>4
      <4>2. n \in DOMAIN d BY <4>1, <1>2
      <4> QED BY <4>2, <2>1
    <3> QED BY <3>1, <3>2
  <2>3. SubSeq(s, 1, n) = SubSeq(d, 1, n)
    <3>1. SubSeq(s, 1, n) = [i \in 1..n |-> s[i]] BY <1>1, <1>4
    <3>2. SubSeq(d, 1, n) = [i \in 1..n |-> d[i]] BY <1>2, <1>4, <2>2
    <3> QED BY <1>2, <3>1, <3>2
  <2>4. s # d BY <1>1, <1>2, <1>4, <1>6, <2>1
  <2>5. IsStrictPrefix(s, d) BY <1>1, <2>2, <2>3, <2>4 DEF IsStrictPrefix, IsPrefix
  <2> QED BY <1>3, <1>6, <2>5 DEF Covers
<1> QED BY <1>5, <1>6

\* What is in force was denied, and all of it is of the kind that can be.
LEMMA DeniedAre ==
    ASSUME NEW L \in Seq(LedgerActs)
    PROVE  EverDenied(L) \subseteq Deniable /\ StillDenied(L) \subseteq EverDenied(L)
<1>1. \A i \in DOMAIN L : L[i].of \in Deniable
  <2>1. \A i \in DOMAIN L : L[i] \in LedgerActs OBVIOUS
  <2>2. \A e \in LedgerActs : e.of \in Deniable BY DEF LedgerActs
  <2> QED BY <2>1, <2>2
<1>2. EverDenied(L) \subseteq Deniable BY <1>1 DEF EverDenied
<1>3. StillDenied(L) \subseteq EverDenied(L) BY DEF EverDenied, StillDenied
<1> QED BY <1>2, <1>3

\* The rows a fold leaves.
LEMMA RowsAfter ==
    ASSUME NEW L \in Seq(LedgerActs), NEW live \in SUBSET Deniable
    PROVE  /\ Fold(live, L) \in SUBSET Deniable
           /\ StillDenied(L) \subseteq Fold(live, L)
           /\ Fold(live, L) \cap EverDenied(L) = StillDenied(L)
<1>1. EverDenied(L) \subseteq Deniable /\ StillDenied(L) \subseteq EverDenied(L) BY DeniedAre
<1> QED BY <1>1 DEF Fold

\* A ledger's revocations and amendments name what came before them.
NamesBefore(L) == \A k \in DOMAIN L : L[k].kind # "deny" => L[k].names < k

\* A denial that is appended is in force: nothing before it can have lifted it.
LEMMA DenialStands ==
    ASSUME NEW L \in Seq(LedgerActs), NamesBefore(L), NEW e \in LedgerActs, e.kind = "deny"
    PROVE  e.of \in StillDenied(Append(L, e))
<1> DEFINE M == Append(L, e)
           j == Len(L) + 1
<1>1. Len(L) \in Nat /\ DOMAIN M = 1..j /\ M[j] = e /\ \A k \in 1..Len(L) : M[k] = L[k] OBVIOUS
<1>2. DOMAIN L = 1..Len(L) OBVIOUS
<1> HIDE DEF M
<1>3. \A k \in DOMAIN M : M[k].kind = "revoke" => M[k].names # j
  <2> SUFFICES ASSUME NEW k \in DOMAIN M, M[k].kind = "revoke" PROVE M[k].names # j OBVIOUS
  <2>1. k # j BY <1>1
  <2>2. k \in 1..Len(L) BY <1>1, <2>1
  <2>3. L[k].kind = "revoke" /\ L[k] \in LedgerActs BY <1>1, <1>2, <2>2
  <2>4. L[k].names < k /\ L[k].names \in Nat BY <1>2, <2>2, <2>3 DEF NamesBefore, LedgerActs
  <2> QED BY <1>1, <2>2, <2>4
<1>4. j \in DOMAIN M BY <1>1
<1>5. M[j].of \in StillDenied(M) BY <1>1, <1>3, <1>4 DEF StillDenied
<1> QED BY <1>1, <1>5 DEF M

-----------------------------------------------------------------------------
\* What a verb has left as it found it, by how far it has come.
Entered == {"asked", "planned", "allowed", "read", "decided", "ready", "building", "ended"}
Steps == Entered \cup {"idle", "row", "built", "done"}
Served(s) == <<s.granted, s.active>>

Stores == [up : BOOLEAN, schema : BOOLEAN, whole : {TRUE}, granted : BOOLEAN,
           live : SUBSET Deniable, built : Nat, active : Nat]

\* The record and the store a verb is run on.
DeskOK ==
    /\ record \in Instances /\ NamesBefore(record.ledger)
    /\ store \in Stores
    /\ step \in Steps
    /\ step # "idle" => call \in Calls

\* Up to its first write a verb has changed nothing; an ingest folds the ledger, and
\* an act of takedown that comes to the rows has its entry, which says what was meant.
StepInv ==
    /\ step \in Entered \cup {"row"} =>
          /\ Served(store) = Served(was.store) /\ store.live = was.store.live
    /\ step \in Entered \cup {"built"} => record = was.record
    /\ step = "built" => Served(store) = Served(was.store) /\ call.verb = "ingest"
    /\ step \in {"planned", "allowed", "read", "decided"} => Planned(call)
    /\ step = "decided" => Writes /\ RowStep(call) # "refused"
    /\ step = "row" => /\ call.verb = "takedown"
                       /\ ~Writes => record = was.record
                       /\ Asks("deny") => Meant(call) \subseteq Withheld(StillDenied(record.ledger))

ConsoleInv == DeskOK /\ StepInv /\ ExitTellsWhatStands

\* What the first call finds.
LEMMA ConsoleInvInit == ConsoleInit => ConsoleInv
<1> SUFFICES ASSUME ConsoleInit PROVE ConsoleInv OBVIOUS
<1> USE DEF ConsoleInit
<1>1. record \in Instances /\ NamesBefore(record.ledger)
  BY ConsoleAssumption DEF NamesBefore
<1>2. store \in Stores
  <2> DEFINE First0 == [up : {TRUE}, schema : BOOLEAN, whole : {TRUE}, granted : BOOLEAN,
                  live : {{}}, built : {0}, active : {0}]
  <2>1. ASSUME NEW x \in First0 PROVE x \in Stores
    <3>1. {TRUE} \subseteq BOOLEAN /\ {{}} \subseteq SUBSET Deniable /\ {0} \subseteq Nat OBVIOUS
    <3> QED BY ONLY <3>1, x \in First0 DEF Stores
  <2> QED BY <2>1
<1>3. DeskOK BY <1>1, <1>2 DEF DeskOK, Steps
<1>4. StepInv BY DEF StepInv, Entered
<1>5. ExitTellsWhatStands BY DEF ExitTellsWhatStands
<1> QED BY <1>3, <1>4, <1>5 DEF ConsoleInv

\* A verb that ends having changed nothing has told the truth, if it has nothing
\* to tell of what is denied.
LEMMA NothingChanged ==
    ASSUME DeskOK, step' = "done", record' = was.record,
           UNCHANGED <<record, shell, store, call, was>>,
           Served(store) = Served(was.store), store.live = was.store.live,
           code' # 0 \/ call.verb # "takedown" \/ (~Asks("deny") /\ ~Writes /\ ~Asks("apply"))
    PROVE  ExitTellsWhatStands'
<1>1. Asks("deny")' = Asks("deny") /\ Writes' = Writes /\ Asks("apply")' = Asks("apply")
  BY DEF Asks, Writes
<1>2. store.granted = was.store.granted /\ store.active = was.store.active BY DEF Served
<1> QED BY <1>1, <1>2 DEF ExitTellsWhatStands

\* A check that passes has the verb go on, and one that fails ends it.
LEMMA CheckedKeeps ==
    ASSUME ConsoleInv, NEW from \in Entered, NEW result, NEW next \in Entered \ {"decided"},
           Checked(from, result, next),
           result = 0 /\ next \in {"planned", "allowed", "read"} => Planned(call)
    PROVE  ConsoleInv'
<1> USE DEF ConsoleInv
<1>1. UNCHANGED <<record, shell, store, call, was>> /\ step = from BY DEF Checked, Still
<1>2. Planned(call)' = Planned(call) /\ Served(store)' = Served(store) BY <1>1 DEF Planned, Served, Misnamed
<1>3. record = was.record /\ Served(store) = Served(was.store) /\ store.live = was.store.live
  BY <1>1 DEF StepInv
<1>4. from # "idle" BY DEF Entered
<1>5. CASE result = 0
  <2>1. step' = next BY <1>5 DEF Checked, Goes
  <2>2. DeskOK' BY <1>1, <1>4, <2>1 DEF DeskOK, Steps, Instances, Stores
  <2>3. StepInv' BY <1>1, <1>2, <1>3, <1>5, <2>1 DEF StepInv, Entered
  <2>4. ExitTellsWhatStands' BY <2>1 DEF ExitTellsWhatStands, Entered
  <2> QED BY <2>2, <2>3, <2>4
<1>6. CASE result # 0
  <2>1. step' = "done" /\ code' = result BY <1>6 DEF Checked, Exit
  <2>2. DeskOK' BY <1>1, <1>4, <2>1 DEF DeskOK, Steps, Instances, Stores
  <2>3. StepInv' BY <2>1 DEF StepInv, Entered
  <2>4. ExitTellsWhatStands' BY <1>1, <1>3, <1>6, <2>1, NothingChanged
  <2> QED BY <2>2, <2>3, <2>4
<1> QED BY <1>5, <1>6

\* What ends a verb before it has written anything keeps the invariant.
LEMMA EndsKeep ==
    ASSUME ConsoleInv, step \in Entered, step' = "done",
           UNCHANGED <<record, shell, store, call, was>>,
           code' # 0 \/ call.verb # "takedown" \/ (~Asks("deny") /\ ~Writes /\ ~Asks("apply"))
    PROVE  ConsoleInv'
<1> USE DEF ConsoleInv
<1>1. record = was.record /\ Served(store) = Served(was.store) /\ store.live = was.store.live
  BY DEF StepInv
<1>2. step # "idle" BY DEF Entered
<1>3. DeskOK' BY <1>2 DEF DeskOK, Steps, Instances, Stores
<1>4. StepInv' BY DEF StepInv, Entered
<1>5. ExitTellsWhatStands' BY <1>1, NothingChanged
<1> QED BY <1>3, <1>4, <1>5

\* A verb that is asked for, or that is none.
LEMMA AskKeeps == ConsoleInv /\ Ask => ConsoleInv'
<1> SUFFICES ASSUME ConsoleInv, Ask PROVE ConsoleInv' OBVIOUS
<1>1. PICK c \in Calls : call' = c /\ IF Dispatch(c) = GoesOn THEN Goes("asked") ELSE Exit(Dispatch(c))
  BY DEF Ask
<1>2. UNCHANGED <<record, store>> /\ was' = [record |-> record, store |-> store] BY DEF Ask
<1>3. was'.record = record' /\ was'.store = store' BY <1>2
<1>4. step' \in {"asked", "done"} BY <1>1 DEF Goes, Exit
<1>5. DeskOK' BY <1>1, <1>2, <1>4 DEF ConsoleInv, DeskOK, Steps, Entered, Instances, Stores
<1>6. StepInv' BY <1>3, <1>4 DEF StepInv, Entered
<1>7. ExitTellsWhatStands'
  <2>1. CASE Dispatch(c) = GoesOn BY <1>1, <2>1 DEF ExitTellsWhatStands, Goes
  <2>2. CASE Dispatch(c) # GoesOn BY <1>1, <2>2 DEF ExitTellsWhatStands
  <2> QED BY <2>1, <2>2
<1> QED BY <1>5, <1>6, <1>7 DEF ConsoleInv

\* An act of takedown, up to where it is decided.
LEMMA ActKeeps == ConsoleInv /\ (Takedown \/ Look \/ MayApply \/ Decide \/ Locked) => ConsoleInv'
<1> SUFFICES ASSUME ConsoleInv, Takedown \/ Look \/ MayApply \/ Decide \/ Locked PROVE ConsoleInv'
  OBVIOUS
<1>1. CASE Takedown
  <2>1. CASE Checked("asked", First(<<Check(~Planned(call), 1), Check(~Given(call), 1)>>), "planned")
    <3> DEFINE checks == <<Check(~Planned(call), 1), Check(~Given(call), 1)>>
    <3>1. ASSUME First(checks) = 0 PROVE Planned(call)
      <4>1. DOMAIN checks = 1..2 /\ \A i \in 1..2 : checks[i].exits # 0 BY DEF Check
      <4>2. checks[1].fails = ~Planned(call) BY DEF Check
      <4> HIDE DEF checks
      <4>3. 2 \in Nat /\ 1 \in 1..2 OBVIOUS
      <4> DEFINE n == 2
      <4>4. n \in Nat /\ DOMAIN checks = 1..n /\ (\A i \in 1..n : checks[i].exits # 0) /\ First(checks) = 0
        BY <3>1, <4>1, <4>3
      <4> HIDE DEF n
      <4>5. \A i \in 1..n : ~checks[i].fails BY ONLY <4>4, FirstIsNone
      <4> QED BY <4>2, <4>3, <4>5 DEF n
    <3>2. "asked" \in Entered /\ "planned" \in Entered \ {"decided"} BY DEF Entered
    <3> HIDE DEF checks
    <3>3. Checked("asked", First(checks), "planned") BY <2>1 DEF checks
    <3> QED BY <3>1, <3>2, <3>3, CheckedKeeps
  <2>2. CASE Checked("planned", IF Writes THEN Authority(call) ELSE 0, "allowed")
    <3>1. Planned(call) BY <2>2 DEF ConsoleInv, StepInv, Checked
    <3>2. "planned" \in Entered /\ "allowed" \in Entered \ {"decided"} BY DEF Entered
    <3> QED BY <2>2, <3>1, <3>2, CheckedKeeps
  <2>3. CASE Checked("allowed", Readable(call), "read")
    <3>1. Planned(call) BY <2>3 DEF ConsoleInv, StepInv, Checked
    <3>2. "allowed" \in Entered /\ "read" \in Entered \ {"decided"} BY DEF Entered
    <3> QED BY <2>3, <3>1, <3>2, CheckedKeeps
  <2> QED BY <1>1, <2>1, <2>2, <2>3 DEF Takedown
<1>2. CASE Look
  <2>1. step = "read" /\ (Asks("list") \/ Asks("ledger")) /\ step' = "done"
        /\ UNCHANGED <<record, shell, store, call, was>>
    BY <1>2 DEF Look, Exit, Still
  <2>2. ~Asks("deny") /\ ~Writes /\ ~Asks("apply") BY <2>1 DEF Asks, Writes, Acts
  <2> QED BY <2>1, <2>2, EndsKeep DEF Entered
<1>3. CASE MayApply
  <2>0. step = "read" /\ Asks("apply") /\ UNCHANGED <<record, shell, store, call, was>> /\ call.verb = "takedown"
    BY <1>3 DEF MayApply, Still
  <2>1. ~Asks("deny") /\ ~Writes BY <2>0 DEF Asks, Writes, Acts
  <2>2. record = was.record /\ Served(store) = Served(was.store) /\ store.live = was.store.live
    BY <2>0 DEF ConsoleInv, StepInv, Entered
  <2>3. step' \in {"row", "done"} BY <1>3 DEF MayApply, Exit, Goes
  <2>4. DeskOK' BY <2>0, <2>3 DEF ConsoleInv, DeskOK, Steps, Entered, Instances, Stores
  <2>5. Asks("deny")' = Asks("deny") /\ Writes' = Writes /\ Asks("apply")' = Asks("apply")
        /\ Served(store)' = Served(store)
    BY <2>0 DEF Asks, Writes, Served
  <2>6. StepInv' BY <2>0, <2>1, <2>2, <2>3, <2>5 DEF StepInv, Entered
  <2>7. ExitTellsWhatStands'
    <3>1. CASE record.declares = "nothing"
      <4>1. record'.declares = "nothing" /\ code' = 0 BY <1>3, <2>0, <3>1 DEF MayApply, Exit
      <4> QED BY <2>0, <2>1, <2>5, <4>1 DEF ExitTellsWhatStands
    <3>2. CASE record.declares # "nothing"
      <4>1. step' = "done" => code' = 3 BY <1>3, <3>2 DEF MayApply, Exit, Goes
      <4>2. store'.active = was'.store.active BY <2>0, <2>2 DEF Served
      <4> QED BY <4>1, <4>2 DEF ExitTellsWhatStands
    <3> QED BY <3>1, <3>2
  <2> QED BY <2>4, <2>6, <2>7 DEF ConsoleInv
<1>4. CASE Decide
  <2>1. step = "read" /\ Writes /\ UNCHANGED <<record, shell, store, call, was>> BY <1>4 DEF Decide, Still
  <2>2. CASE RowStep(call) = "refused"
    <3>1. step' = "done" /\ code' = 1 BY <1>4, <2>2 DEF Decide, Exit
    <3> QED BY <2>1, <3>1, EndsKeep DEF Entered
  <2>3. CASE RowStep(call) # "refused"
    <3>1. step' = "decided" BY <1>4, <2>3 DEF Decide, Goes
    <3>2. record = was.record /\ Served(store) = Served(was.store) /\ store.live = was.store.live
          /\ Planned(call)
      BY <2>1 DEF ConsoleInv, StepInv, Entered
    <3>3. DeskOK' BY <2>1, <3>1 DEF ConsoleInv, DeskOK, Steps, Entered, Instances, Stores
    <3>4. Planned(call)' = Planned(call) /\ Writes' = Writes /\ RowStep(call)' = RowStep(call)
          /\ Served(store)' = Served(store)
      BY <2>1 DEF Planned, Misnamed, Writes, RowStep, Served
    <3>5. StepInv' BY <2>1, <2>3, <3>1, <3>2, <3>4 DEF StepInv, Entered
    <3>6. ExitTellsWhatStands' BY <3>1 DEF ExitTellsWhatStands
    <3> QED BY <3>3, <3>5, <3>6 DEF ConsoleInv
  <2> QED BY <2>2, <2>3
<1>5. CASE Locked
  <2>1. step = "decided" /\ step' = "done" /\ code' = 3
        /\ UNCHANGED <<record, shell, store, call, was>>
    BY <1>5 DEF Locked, Exit, Still
  <2> QED BY <2>1, EndsKeep DEF Entered
<1> QED BY <1>1, <1>2, <1>3, <1>4, <1>5

\* The entry an act would add is one, and what is denied by it is what was meant.
LEMMA EntryIsOne ==
    ASSUME ConsoleInv, step = "decided",
           Asks("deny") \/ NamesDenial(record.ledger, call)
    PROVE  /\ Entry(call) \in LedgerActs
           /\ Entry(call).kind # "deny" => Entry(call).names <= Len(record.ledger)
           /\ Asks("deny") => Entry(call).kind = "deny" /\ Entry(call).of = Target(call)
<1>1. Planned(call) /\ Writes /\ call \in Calls /\ record.ledger \in Seq(LedgerActs)
  BY DEF ConsoleInv, StepInv, DeskOK, Instances
<1>2. Target(call) \in Deniable
  <2>1. Cleaned(call.id) \in Seq(Segments) BY <1>1, CleanedIs
  <2> QED BY <2>1 DEF Target, Deniable, ScopeOf
<1>3. call.names \in Nat BY <1>1, ConsoleAssumption
<1>4. call.acts # {} /\ call.acts \subseteq Acts
  <2>1. Cardinality(call.acts) = 1 BY <1>1 DEF Planned
  <2>2. Cardinality({}) = 0 BY FS_EmptySet
  <2>3. call.acts # {}
    <3> SUFFICES ASSUME call.acts = {} PROVE FALSE OBVIOUS
    <3>1. Cardinality(call.acts) = Cardinality({}) OBVIOUS
    <3> QED BY <2>1, <2>2, <3>1
  <2> QED BY <1>1, <2>3 DEF Writes
<1>5. CASE Asks("deny")
  <2>1. Entry(call) = [kind |-> "deny", of |-> Target(call), names |-> 0, expected |-> ExpectedOf(Target(call))]
    BY <1>5 DEF Entry
  <2>2. ExpectedOf(Target(call)) \in {"present", "removed"} BY DEF ExpectedOf
  <2>3. "deny" \in Acts /\ 0 \in Nat BY DEF Acts
  <2> DEFINE X == ExpectedOf(Target(call))
  <2> HIDE DEF X
  <2>4. Entry(call) \in LedgerActs BY <1>2, <2>1, <2>2, <2>3 DEF LedgerActs, X
  <2> QED BY <2>1, <2>4
<1>6. CASE ~Asks("deny")
  <2> DEFINE a == CHOOSE x \in call.acts : TRUE
  <2>1. a \in Acts BY <1>4
  <2>2. Entry(call) = [kind |-> a, of |-> Target(call), names |-> call.names, expected |-> "removed"]
    BY <1>6 DEF Entry
  <2> HIDE DEF a
  <2>3. Entry(call) \in LedgerActs BY <1>2, <1>3, <2>1, <2>2 DEF LedgerActs
  <2>4. call.names \in DOMAIN record.ledger BY <1>6 DEF NamesDenial
  <2>5. call.names <= Len(record.ledger) BY <1>1, <2>4
  <2> QED BY <1>6, <2>2, <2>3, <2>5
<1> QED BY <1>5, <1>6

\* The entry, that is there for good.
LEMMA WriteKeeps == ConsoleInv /\ Write => ConsoleInv'
<1> SUFFICES ASSUME ConsoleInv, Write PROVE ConsoleInv' OBVIOUS
<1>1. step = "decided" /\ UNCHANGED <<store, shell, call, was>> BY DEF Write
<1>2. record = was.record /\ Served(store) = Served(was.store) /\ store.live = was.store.live
      /\ Planned(call) /\ Writes /\ RowStep(call) # "refused" /\ call \in Calls
  BY <1>1 DEF ConsoleInv, StepInv, Entered, DeskOK
<1>3. CASE ~Asks("deny") /\ ~NamesDenial(record.ledger, call)
  <2>1. step' = "done" /\ code' = 1 /\ record' = record BY <1>3 DEF Write, Exit
  <2> QED BY <1>1, <2>1, EndsKeep DEF Entered
<1>4. CASE Asks("deny") \/ NamesDenial(record.ledger, call)
  <2> DEFINE L == record.ledger
             e == Entry(call)
  <2>1. record' = [record EXCEPT !.ledger = Append(L, e)]
        /\ IF RowStep(call) = "row" THEN Goes("row") ELSE Exit(0)
    BY <1>4 DEF Write
  <2>2. record \in Instances /\ L \in Seq(LedgerActs) /\ NamesBefore(L)
    BY DEF ConsoleInv, DeskOK, Instances
  <2>3. e \in LedgerActs /\ (e.kind # "deny" => e.names <= Len(L))
        /\ (Asks("deny") => e.kind = "deny" /\ e.of = Target(call))
    BY <1>1, <1>4, EntryIsOne
  <2> HIDE DEF e
  <2>4. record' \in Instances /\ record'.ledger = Append(L, e) /\ record'.docs = record.docs
        /\ record'.declares = record.declares
    <3> DEFINE M == Append(L, e)
    <3>1. M \in Seq(LedgerActs) BY <2>2, <2>3
    <3>2. record' = [record EXCEPT !.ledger = M] BY <2>1
    <3> HIDE DEF M
    <3>3. record' \in Instances /\ record'.ledger = M /\ record'.docs = record.docs
          /\ record'.declares = record.declares
      BY <2>2, <3>1, <3>2 DEF Instances
    <3> QED BY <3>3 DEF M
  <2>5. NamesBefore(Append(L, e))
    <3> SUFFICES ASSUME NEW k \in DOMAIN Append(L, e), Append(L, e)[k].kind # "deny"
                 PROVE  Append(L, e)[k].names < k
      BY DEF NamesBefore
    <3>1. Len(L) \in Nat /\ DOMAIN Append(L, e) = 1..(Len(L) + 1) /\ Append(L, e)[Len(L) + 1] = e
          /\ DOMAIN L = 1..Len(L) /\ \A i \in 1..Len(L) : Append(L, e)[i] = L[i]
      BY <2>2, <2>3
    <3>2. CASE k = Len(L) + 1
      <4>1. e.names \in Nat BY <2>3 DEF LedgerActs
      <4>2. e.names <= Len(L) BY <2>3, <3>1, <3>2
      <4> QED BY <3>1, <3>2, <4>1, <4>2
    <3>3. CASE k # Len(L) + 1
      <4>1. k \in 1..Len(L) BY <3>1, <3>3
      <4> QED BY <2>2, <3>1, <4>1 DEF NamesBefore
    <3> QED BY <3>2, <3>3
  <2>6. step' \in {"row", "done"} BY <2>1 DEF Goes, Exit
  <2>7. DeskOK' BY <1>1, <1>2, <2>4, <2>5, <2>6 DEF ConsoleInv, DeskOK, Steps, Entered
  <2>8. Asks("deny")' = Asks("deny") /\ Writes' = Writes /\ Asks("apply")' = Asks("apply")
        /\ Served(store)' = Served(store) /\ call.verb = "takedown"
    BY <1>1 DEF Asks, Writes, Served, Write
  <2>9. ASSUME Asks("deny") PROVE (Meant(call) \subseteq Withheld(StillDenied(record.ledger)))'
    <3>1. Target(call) \in StillDenied(Append(L, e))
      BY <2>2, <2>3, <2>9, DenialStands
    <3>2. record.docs \subseteq Seq(Segments) BY <2>2 DEF Instances
    <3>3. \A d \in Meant(call) : d \in record.docs /\ Covers(Target(call), d)
      BY <1>2, <3>2, MeantIsCovered DEF Meant
    <3>4. Meant(call)' = Meant(call) BY <1>1, <2>4 DEF Meant
    <3>5. StillDenied(record.ledger)' = StillDenied(Append(L, e)) BY <2>4
    <3> DEFINE S == StillDenied(Append(L, e))
    <3> HIDE DEF L, S
    <3>6. Withheld(StillDenied(record.ledger))' = {d \in record.docs : \E t \in S : Covers(t, d)}
      BY <2>4, <3>5 DEF Withheld, S
    <3>7. Target(call) \in S BY <3>1 DEF S
    <3> QED BY <3>3, <3>4, <3>6, <3>7
  <2>10. StepInv' BY <1>1, <1>2, <2>6, <2>8, <2>9 DEF StepInv, Entered
  <2>11. ExitTellsWhatStands'
    <3>1. ASSUME step' = "done" PROVE code' = 0 /\ (record.declares # "database" \/ call.fileOnly)
      <4>1. RowStep(call) # "row" /\ code' = 0 BY <2>1, <3>1 DEF Goes, Exit
      <4>2. RowStep(call) = "entry" BY <1>2, <4>1 DEF RowStep
      <4>3. record.declares = "nothing" \/ call.fileOnly BY <4>2 DEF RowStep
      <4> QED BY <4>1, <4>3
    <3> QED BY <1>1, <2>4, <2>8, <2>9, <3>1 DEF ExitTellsWhatStands
  <2> QED BY <2>7, <2>10, <2>11 DEF ConsoleInv
<1> QED BY <1>3, <1>4

\* The rows, as the ledger has them.
LEMMA ApplyKeeps == ConsoleInv /\ ApplyRows => ConsoleInv'
<1> SUFFICES ASSUME ConsoleInv, ApplyRows PROVE ConsoleInv' OBVIOUS
<1> DEFINE L == record.ledger
<1>1. step = "row" /\ UNCHANGED <<record, shell, call, was>> /\ step' = "done"
  BY DEF ApplyRows, Still, Exit
<1>2. Served(store) = Served(was.store) /\ store.live = was.store.live /\ call \in Calls
      /\ (~Writes => record = was.record)
      /\ (Asks("deny") => Meant(call) \subseteq Withheld(StillDenied(L)))
  BY <1>1 DEF ConsoleInv, StepInv, DeskOK
<1>3. L \in Seq(LedgerActs) /\ store \in Stores /\ store.live \in SUBSET Deniable
  BY DEF ConsoleInv, DeskOK, Instances, Stores
<1>4. StepInv' BY <1>1 DEF StepInv, Entered
<1>5. CASE store' = [store EXCEPT !.live = Fold(store.live, L)] /\ code' \in {0, 3}
  <2>1. Fold(store.live, L) \in SUBSET Deniable /\ StillDenied(L) \subseteq Fold(store.live, L)
        /\ Fold(store.live, L) \cap EverDenied(L) = StillDenied(L)
    BY <1>3, RowsAfter
  <2> DEFINE F == Fold(store.live, L)
  <2> HIDE DEF F, L
  <2>2. store' \in Stores /\ store'.live = F /\ store'.active = store.active
    BY <1>3, <1>5, <2>1 DEF Stores, F
  <2>3. DeskOK' BY <1>1, <2>2 DEF ConsoleInv, DeskOK, Steps, Entered
  <2>4. store'.active = was'.store.active BY <1>1, <1>2, <2>2 DEF Served
  <2>5. Asks("deny")' = Asks("deny") /\ Meant(call)' = Meant(call)
        /\ StillDenied(record.ledger)' = StillDenied(L) /\ EverDenied(record.ledger)' = EverDenied(L)
        /\ Withheld(StillDenied(record.ledger))' = Withheld(StillDenied(L))
    BY <1>1 DEF Asks, Meant, Withheld, L
  <2>6. Withheld(store.live)' = {d \in record.docs : \E t \in F : Covers(t, d)}
    BY <1>1, <2>2 DEF Withheld
  <2>7. Withheld(StillDenied(L)) \subseteq Withheld(store.live)'
    BY <2>1, <2>6 DEF Withheld, F
  <2>8. store'.live \cap EverDenied(L) = StillDenied(L) BY <2>1, <2>2 DEF F
  <2>9. ExitTellsWhatStands' BY <1>1, <1>2, <1>5, <2>4, <2>5, <2>7, <2>8 DEF ExitTellsWhatStands
  <2> QED BY <1>4, <2>3, <2>9 DEF ConsoleInv
<1>6. CASE UNCHANGED store /\ code' = IF Writes \/ ~store.up THEN 3 ELSE 1
  <2>1. DeskOK' BY <1>1, <1>6 DEF ConsoleInv, DeskOK, Steps, Entered, Instances, Stores
  <2>2. store'.active = was'.store.active /\ store'.granted = was'.store.granted
    BY <1>1, <1>2, <1>6 DEF Served
  <2>3. code' = 1 => record = was.record BY <1>2, <1>6
  <2>4. code' # 0 BY <1>6
  <2>5. ExitTellsWhatStands' BY <1>1, <1>2, <1>6, <2>2, <2>3, <2>4 DEF ExitTellsWhatStands
  <2> QED BY <1>4, <2>1, <2>5 DEF ConsoleInv
<1>7. \/ store' = [store EXCEPT !.live = Fold(store.live, L)] /\ code' \in {0, 3}
      \/ UNCHANGED store /\ code' = IF Writes \/ ~store.up THEN 3 ELSE 1
  BY DEF ApplyRows, Exit
<1> QED BY <1>5, <1>6, <1>7

\* Who may ingest, and what is collected.
LEMMA GrantKeeps == ConsoleInv /\ (Grant \/ Collect) => ConsoleInv'
<1> SUFFICES ASSUME ConsoleInv, Grant \/ Collect PROVE ConsoleInv' OBVIOUS
<1>0. {"asked", "ready", "ended"} \subseteq Entered
      /\ {"ready", "ended"} \cap {"planned", "allowed", "read", "decided"} = {}
  BY DEF Entered
<1>1. CASE Checked("asked", Preflight(call, FALSE), "ready")
  BY <1>0, <1>1, CheckedKeeps
<1>2. CASE Checked("ready", First(<<Check(~store.up, 3), Check(~store.schema, 1)>>), "ended")
  BY <1>0, <1>2, CheckedKeeps
<1>3. CASE /\ call.verb = "gc" /\ step = "ended" /\ Exit(0) /\ UNCHANGED store /\ Still
  BY <1>0, <1>3, EndsKeep DEF Exit, Still
<1>4. CASE /\ Grant /\ step = "ready"
           /\ IF store.up /\ store.schema
                THEN store' = Authorized(call.verb) /\ Exit(0)
                ELSE UNCHANGED store /\ Exit(IF store.up THEN 1 ELSE 3)
           /\ Still
  <2>1. call.verb \in {"grant", "withdraw"} /\ step' = "done" /\ UNCHANGED <<record, shell, call, was>>
    BY <1>4 DEF Grant, Exit, Still
  <2>2. CASE store' = Authorized(call.verb) /\ code' = 0
    <3>1. store' \in Stores BY <2>2 DEF ConsoleInv, DeskOK, Stores, Authorized
    <3>2. DeskOK' BY <1>4, <2>1, <3>1 DEF ConsoleInv, DeskOK, Steps, Entered
    <3>3. StepInv' BY <2>1 DEF StepInv, Entered
    <3>4. ExitTellsWhatStands' BY <2>1, <2>2 DEF ExitTellsWhatStands
    <3> QED BY <3>2, <3>3, <3>4 DEF ConsoleInv
  <2>3. CASE UNCHANGED store /\ code' \in {1, 3}
    BY <1>0, <1>4, <2>1, <2>3, EndsKeep
  <2> QED BY <1>4, <2>2, <2>3 DEF Exit
<1> QED BY <1>1, <1>2, <1>3, <1>4 DEF Grant, Collect

\* An ingest: what it builds, and what it then serves.
LEMMA IngestKeeps == ConsoleInv /\ (Space \/ Build \/ GoLive) => ConsoleInv'
<1> SUFFICES ASSUME ConsoleInv, Space \/ Build \/ GoLive PROVE ConsoleInv' OBVIOUS
<1>0. {"asked", "ready", "building"} \subseteq Entered
      /\ {"ready", "building"} \cap {"planned", "allowed", "read", "decided"} = {}
  BY DEF Entered
<1>1. CASE Checked("asked", Preflight(call, TRUE), "ready")
  BY <1>0, <1>1, CheckedKeeps
<1>2. CASE Checked("ready", First(<<Check(~store.up, 3), Check(~store.whole \/ ~store.schema, 1)>>), "building")
  BY <1>0, <1>2, CheckedKeeps
<1>3. CASE Build
  <2>1. call.verb = "ingest" /\ step = "building" /\ step' \in {"done", "built"}
        /\ UNCHANGED <<record, shell, call, was>>
    BY <1>3 DEF Build, Exit, Goes, Still
  <2>2. record = was.record /\ Served(store) = Served(was.store)
    BY <1>0, <2>1 DEF ConsoleInv, StepInv
  <2>3. store' \in Stores /\ Served(store') = Served(store)
    <3>1. Fold(store.live, record.ledger) \in SUBSET Deniable
      BY RowsAfter DEF ConsoleInv, DeskOK, Instances, Stores
    <3> DEFINE F == Fold(store.live, record.ledger)
    <3> HIDE DEF F
    <3>2. store \in Stores BY DEF ConsoleInv, DeskOK
    <3>3. CASE UNCHANGED store BY <3>2, <3>3 DEF Served
    <3>4. CASE store' = [store EXCEPT !.live = F] BY <3>1, <3>2, <3>4 DEF Served, Stores, F
    <3>5. CASE store' = [store EXCEPT !.live = F, !.built = store.built + 1]
      <4> DEFINE b == store.built + 1
      <4>1. b \in Nat BY <3>2 DEF Stores
      <4>2. store' = [store EXCEPT !.live = F, !.built = b] BY <3>5
      <4> HIDE DEF b
      <4> QED BY <3>1, <3>2, <4>1, <4>2 DEF Served, Stores, F
    <3> QED BY <1>3, <3>3, <3>4, <3>5 DEF Build, F
  <2>4. DeskOK' BY <2>1, <2>3 DEF ConsoleInv, DeskOK, Steps, Entered
  <2>5. StepInv' BY <2>1, <2>2, <2>3 DEF StepInv, Entered, Served
  <2>6. ExitTellsWhatStands' BY <2>1, <2>2, <2>3 DEF ExitTellsWhatStands, Served
  <2> QED BY <2>4, <2>5, <2>6 DEF ConsoleInv
<1>4. CASE GoLive
  <2>1. call.verb = "ingest" /\ step = "built" /\ step' = "done"
        /\ UNCHANGED <<record, shell, call, was>>
    BY <1>4 DEF GoLive, Exit, Still
  <2>2. record = was.record /\ Served(store) = Served(was.store)
    BY <2>1 DEF ConsoleInv, StepInv
  <2>3. store' \in Stores
    <3>1. CASE UNCHANGED store BY <3>1 DEF ConsoleInv, DeskOK
    <3>2. CASE store' = [store EXCEPT !.active = store.built] BY <3>2 DEF ConsoleInv, DeskOK, Stores
    <3> QED BY <1>4, <3>1, <3>2 DEF GoLive
  <2>4. DeskOK' BY <2>1, <2>3 DEF ConsoleInv, DeskOK, Steps, Entered
  <2>5. StepInv' BY <2>1 DEF StepInv, Entered
  <2>6. code' = 0 \/ UNCHANGED store BY <1>4 DEF GoLive, Exit
  <2>7. ExitTellsWhatStands' BY <2>1, <2>2, <2>6 DEF ExitTellsWhatStands, Served
  <2> QED BY <2>4, <2>5, <2>7 DEF ConsoleInv
<1> QED BY <1>1, <1>2, <1>3, <1>4 DEF Space

\* The world: the store goes and comes back, a document is removed.
LEMMA WorldKeeps == ConsoleInv /\ (Outage \/ Between) => ConsoleInv'
<1> SUFFICES ASSUME ConsoleInv, Outage \/ Between PROVE ConsoleInv' OBVIOUS
<1>1. record \in Instances /\ NamesBefore(record.ledger) /\ store \in Stores
  BY DEF ConsoleInv, DeskOK
<1>2. CASE Outage
  <2>1. step \notin {"idle", "done"} /\ UNCHANGED <<record, shell, call, step, code, was>>
        /\ store' = [store EXCEPT !.up = ~store.up]
    BY <1>2 DEF Outage
  <2>2. store' \in Stores /\ Served(store') = Served(store) /\ store'.live = store.live
    BY <1>1, <2>1 DEF Stores, Served
  <2>3. DeskOK' BY <2>1, <2>2 DEF ConsoleInv, DeskOK
  <2>4. Asks("deny")' = Asks("deny") /\ Writes' = Writes /\ Planned(call)' = Planned(call)
        /\ RowStep(call)' = RowStep(call) /\ Meant(call)' = Meant(call)
        /\ Withheld(StillDenied(record.ledger))' = Withheld(StillDenied(record.ledger))
        /\ Served(store)' = Served(store')
    BY <2>1 DEF Asks, Writes, Planned, Misnamed, RowStep, Meant, Withheld, Served
  <2>5. StepInv' BY <2>1, <2>2, <2>4 DEF ConsoleInv, StepInv
  <2>6. ExitTellsWhatStands' BY <2>1 DEF ExitTellsWhatStands
  <2> QED BY <2>3, <2>5, <2>6 DEF ConsoleInv
<1>3. CASE Between
  <2>1. PICK schema \in {store.schema, TRUE}, gone \in {{}} \cup {{d} : d \in Loose} :
            /\ store' = [store EXCEPT !.up = TRUE, !.schema = schema]
            /\ record' = [record EXCEPT !.docs = record.docs \ gone]
    BY <1>3 DEF Between
  <2>2. step' = "idle" BY <1>3 DEF Between
  <2>3. schema \in BOOLEAN BY <1>1 DEF Stores
  <2>4. store' \in Stores BY <1>1, <2>1, <2>3 DEF Stores
  <2>5. record' \in Instances /\ record'.ledger = record.ledger BY <1>1, <2>1 DEF Instances
  <2>6. DeskOK' BY <1>1, <2>2, <2>4, <2>5 DEF DeskOK, Steps
  <2>7. StepInv' BY <2>2 DEF StepInv, Entered
  <2>8. ExitTellsWhatStands' BY <2>2 DEF ExitTellsWhatStands
  <2> QED BY <2>6, <2>7, <2>8 DEF ConsoleInv
<1> QED BY <1>2, <1>3

\* The code a verb ends with is what it left behind, for any records and invocations,
\* whatever happens to the store under it.
THEOREM ExitTellsWhatStandsHolds == ConsoleSpec => []ExitTellsWhatStands
<1>1. ConsoleInv /\ [ConsoleNext]_consoleVars => ConsoleInv'
  <2> SUFFICES ASSUME ConsoleInv, [ConsoleNext]_consoleVars PROVE ConsoleInv' OBVIOUS
  <2>1. CASE UNCHANGED consoleVars
    <3>1. UNCHANGED <<record, shell, store, call, step, code, was>> BY <2>1 DEF consoleVars
    <3>2. DeskOK' BY <3>1 DEF ConsoleInv, DeskOK
    <3>3. Asks("deny")' = Asks("deny") /\ Writes' = Writes /\ Planned(call)' = Planned(call)
          /\ Asks("apply")' = Asks("apply")
          /\ RowStep(call)' = RowStep(call) /\ Meant(call)' = Meant(call)
          /\ Withheld(StillDenied(record.ledger))' = Withheld(StillDenied(record.ledger))
          /\ Withheld(store.live)' = Withheld(store.live)
          /\ Served(store)' = Served(store)
      BY <3>1 DEF Asks, Writes, Planned, Misnamed, RowStep, Meant, Withheld, Served
    <3>4. StepInv' BY <3>1, <3>3 DEF ConsoleInv, StepInv
    <3>5. ExitTellsWhatStands' BY <3>1, <3>3 DEF ConsoleInv, ExitTellsWhatStands
    <3> QED BY <3>2, <3>4, <3>5 DEF ConsoleInv
  <2>2. CASE ConsoleNext
    BY <2>2, AskKeeps, ActKeeps, WriteKeeps, ApplyKeeps, GrantKeeps, IngestKeeps, WorldKeeps
    DEF ConsoleNext
  <2> QED BY <2>1, <2>2
<1>2. ConsoleInv => ExitTellsWhatStands BY DEF ConsoleInv
<1> QED BY <1>1, <1>2, ConsoleInvInit, PTL DEF ConsoleSpec
=============================================================================
