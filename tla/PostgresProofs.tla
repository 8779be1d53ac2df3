---------------------------- MODULE PostgresProofs ----------------------------
(***************************************************************************)
(* Two results about the Postgres plane.                                   *)
(*                                                                         *)
(* SchemaLadder: the version a door reads is the shape the database has,   *)
(* for any number of operators and doors of any builds, although rows are  *)
(* stamped when their transactions began and read back by the latest       *)
(* stamp.                                                                  *)
(*                                                                         *)
(* PgPool: the slots, the queue and what every caller is doing agree, for  *)
(* any slots, callers, timeouts and faults; a caller is shed only by a     *)
(* busy pool, told of an outage only when something failed, and nobody is  *)
(* lent a connection that is in a transaction or dead.                     *)
(***************************************************************************)
EXTENDS SchemaLadder, PgPool, FiniteSetTheorems, SequenceTheorems, TLAPS

-----------------------------------------------------------------------------
(* SchemaLadder. *)

\* Versions are positive.
Versions == Nat \ {0}

\* Where an operator's command may be.
Progress ==
    [at : {"idle", "fresh", "done", "failed"}] \cup [at : {"creating"}, stamp : Nat]
      \cup [at : {"step"}, from : Versions] \cup [at : {"begun", "locked"}, from : Versions, stamp : Nat]

Typed ==
    /\ clock \in Nat
    /\ shape \in Seq(Versions)
    /\ \A r \in rows : r.version \in Versions /\ r.at \in Nat /\ r.at <= clock
    /\ op \in [Operators -> Progress]

\* The row that was stamped last, strictly, is of the shape there is.
Newest(r) == r \in rows /\ \A q \in rows : q = r \/ q.at < r.at

RowsAreOfTheShape ==
    /\ rows = {} <=> shape = <<>>
    /\ shape # <<>> => \E r \in rows : Newest(r) /\ r.version = shape[Len(shape)]

\* Every step right after the one before it.
NoGap == \A i \in 2..Len(shape) : shape[i] = shape[i - 1] + 1

\* A step that is under way starts where the database is or has been, and one
\* that starts where the database still is was begun after every row there is.
Behind(n, now) ==
    /\ n.at \in {"creating", "begun", "locked"} => n.stamp <= now
    /\ n.at \in {"step", "begun", "locked"} => shape # <<>> /\ n.from <= shape[Len(shape)]
    /\ n.at \in {"begun", "locked"} /\ n.from = shape[Len(shape)] =>
          \A r \in rows : r.at < n.stamp

StepsAreBehind == \A o \in Operators : Behind(op[o], clock)

LadderInv == Typed /\ RowsAreOfTheShape /\ NoGap /\ StepsAreBehind

-----------------------------------------------------------------------------
\* ORDER BY applied_at DESC LIMIT 1 finds the row of the shape.
LEMMA VersionIsLast ==
    ASSUME LadderInv
    PROVE  Version = IF shape = <<>> THEN 0 ELSE shape[Len(shape)]
<1>1. CASE shape = <<>> BY <1>1 DEF LadderInv, RowsAreOfTheShape, Version
<1>2. CASE shape # <<>>
  <2>1. PICK r \in rows : Newest(r) /\ r.version = shape[Len(shape)]
    BY <1>2 DEF LadderInv, RowsAreOfTheShape
  <2>2. \A q \in rows : q.at \in Nat BY DEF LadderInv, Typed
  <2>3. \A q \in rows : q.at <= r.at BY <2>1, <2>2 DEF Newest
  <2>4. \A q \in rows : (\A s \in rows : s.at <= q.at) => q = r BY <2>1, <2>2 DEF Newest
  <2>5. Latest = r BY <2>1, <2>3, <2>4 DEF Latest
  <2>6. rows # {} BY <2>1
  <2> QED BY <1>2, <2>1, <2>5, <2>6 DEF Version
<1> QED BY <1>1, <1>2

\* A shape that is not empty ends in a version.
LEMMA LastIsVersion ==
    ASSUME LadderInv, shape # <<>>
    PROVE  Len(shape) \in Nat \ {0} /\ shape[Len(shape)] \in Versions
BY DEF LadderInv, Typed

\* A step that writes no row: what it must show of the operator that takes it.
LEMMA OneOperatorMoves ==
    ASSUME LadderInv, rows' = rows, shape' = shape, clock' \in {clock, clock + 1},
           NEW o \in Operators, NEW n \in Progress, op' = [op EXCEPT ![o] = n], Behind(n, clock')
    PROVE  LadderInv'
<1>1. op' \in [Operators -> Progress] /\ op'[o] = n /\ \A q \in Operators \ {o} : op'[q] = op[q]
  BY DEF LadderInv, Typed
<1>2. clock' \in Nat /\ clock <= clock' /\ \A r \in rows : r.at <= clock' BY DEF LadderInv, Typed
<1>3. Typed' BY <1>1, <1>2 DEF LadderInv, Typed
<1>4. RowsAreOfTheShape' /\ NoGap' BY DEF LadderInv, RowsAreOfTheShape, Newest, NoGap
<1>5. ASSUME NEW q \in Operators \ {o} PROVE Behind(op[q], clock)'
  <2>1. op'[q] = op[q] /\ op[q] \in Progress /\ Behind(op[q], clock) /\ clock \in Nat
    BY <1>1 DEF LadderInv, Typed, StepsAreBehind
  <2>2. op[q].at \in {"creating", "begun", "locked"} => op[q].stamp \in Nat BY <2>1 DEF Progress
  <2> QED BY <1>2, <2>1, <2>2 DEF Behind
<1>6. StepsAreBehind' BY <1>1, <1>5 DEF StepsAreBehind, Behind
<1> QED BY <1>3, <1>4, <1>6 DEF LadderInv

\* A committed step: one more row, stamped after every other, for one more
\* version of the shape; the other operators are further behind.
LEMMA RowAdded ==
    ASSUME LadderInv, NEW to \in Versions, NEW c, NEW t \in Nat,
           rows' = rows \cup {[version |-> to, compatible |-> c, at |-> t]},
           shape' = Append(shape, to), clock' = clock, t <= clock,
           \A r \in rows : r.at < t,
           shape # <<>> => to = shape[Len(shape)] + 1,
           NEW o \in Operators, NEW n \in Progress, op' = [op EXCEPT ![o] = n],
           n.at \in {"idle", "done", "step"}, n.at = "step" => n.from = to
    PROVE  LadderInv'
<1> DEFINE new == [version |-> to, compatible |-> c, at |-> t]
<1>1. shape \in Seq(Versions) /\ clock \in Nat BY DEF LadderInv, Typed
<1>2. /\ shape' \in Seq(Versions) /\ shape' # <<>> /\ Len(shape') = Len(shape) + 1
      /\ Len(shape) \in Nat /\ shape'[Len(shape')] = to
      /\ \A i \in 1..Len(shape) : shape'[i] = shape[i]
  BY <1>1
<1>3. op' \in [Operators -> Progress] /\ op'[o] = n /\ \A q \in Operators \ {o} : op'[q] = op[q]
  BY DEF LadderInv, Typed
<1>5. Typed' BY <1>1, <1>2, <1>3 DEF LadderInv, Typed
<1>6. RowsAreOfTheShape'
  <2>1. Newest(new)' BY DEF LadderInv, Typed, Newest
  <2>2. new \in rows' /\ new.version = to OBVIOUS
  <2> QED BY <1>2, <2>1, <2>2 DEF RowsAreOfTheShape
<1>7. NoGap'
  <2> SUFFICES ASSUME NEW i \in 2..Len(shape') PROVE shape'[i] = shape'[i - 1] + 1
    BY DEF NoGap
  <2>1. CASE i <= Len(shape)
    <3>1. i \in 2..Len(shape) /\ i \in 1..Len(shape) /\ i - 1 \in 1..Len(shape) BY <1>2, <2>1
    <3> QED BY <1>2, <3>1 DEF LadderInv, NoGap
  <2>2. CASE i > Len(shape)
    <3>1. i = Len(shape) + 1 /\ Len(shape) \in 1..Len(shape) /\ shape # <<>> BY <1>1, <1>2, <2>2
    <3> QED BY <1>2, <3>1
  <2> QED BY <1>2, <2>1, <2>2
<1>8. StepsAreBehind'
  <2>1. Behind(op[o], clock)' BY <1>2, <1>3 DEF Behind, Versions
  <2>2. ASSUME NEW q \in Operators \ {o} PROVE Behind(op[q], clock)'
    <3>1. op'[q] = op[q] /\ op[q] \in Progress /\ Behind(op[q], clock)
      BY <1>3 DEF LadderInv, StepsAreBehind, Typed
    <3>2. CASE op[q].at \in {"step", "begun", "locked"}
      <4>1. shape # <<>> /\ op[q].from <= shape[Len(shape)] BY <3>1, <3>2 DEF Behind
      <4>2. op[q].from \in Versions BY <3>1, <3>2 DEF Progress
      <4>3. shape[Len(shape)] \in Versions BY <4>1, LastIsVersion
      <4>4. op[q].from < to BY <4>1, <4>2, <4>3 DEF Versions
      <4> QED BY <1>2, <3>1, <4>2, <4>4 DEF Behind, Versions
    <3>3. CASE op[q].at \notin {"step", "begun", "locked"} BY <3>1, <3>3 DEF Behind
    <3> QED BY <3>2, <3>3
  <2> QED BY <1>3, <2>1, <2>2 DEF StepsAreBehind
<1> QED BY <1>5, <1>6, <1>7, <1>8 DEF LadderInv

-----------------------------------------------------------------------------
\* The database as it may be found: one row for its version, or nothing.
LEMMA LadderInvInit ==
    ASSUME SchemaInit
    PROVE  LadderInv
<1>1. PICK v \in Applied0 :
        /\ rows = IF v = 0 THEN {} ELSE {[version |-> v, compatible |-> Oldest, at |-> 0]}
        /\ shape = IF v = 0 THEN <<>> ELSE <<v>>
  BY DEF SchemaInit
<1>2. clock = 0 /\ op = [o \in Operators |-> AtRest] BY DEF SchemaInit
<1>3. v \in Nat BY LadderAssumption
<1>4. \A o \in Operators : op[o] \in Progress /\ op[o].at = "idle" BY <1>2 DEF AtRest, Progress
<1>5. op \in [Operators -> Progress] BY <1>2, <1>4
<1>6. CASE v = 0
  <2>1. rows = {} /\ shape = <<>> BY <1>1, <1>6
  <2> QED BY <1>2, <1>4, <1>5, <2>1 DEF LadderInv, Typed, RowsAreOfTheShape, NoGap, StepsAreBehind, Behind
<1>7. CASE v # 0
  <2> DEFINE row == [version |-> v, compatible |-> Oldest, at |-> 0]
  <2>1. rows = {row} /\ shape = <<v>> /\ v \in Versions BY <1>1, <1>3, <1>7 DEF Versions
  <2>2. shape # <<>> /\ Len(shape) = 1 /\ shape[1] = v /\ shape \in Seq(Versions) BY <2>1
  <2>3. Typed BY <1>2, <1>4, <1>5, <2>1, <2>2 DEF Typed
  <2>4. Newest(row) BY <2>1 DEF Newest
  <2>5. RowsAreOfTheShape BY <2>1, <2>2, <2>4 DEF RowsAreOfTheShape
  <2>6. NoGap BY <2>2 DEF NoGap
  <2> QED BY <1>4, <2>3, <2>5, <2>6 DEF LadderInv, StepsAreBehind, Behind
<1> QED BY <1>6, <1>7

\* Every step of every operator, and the doors, which only read.
LEMMA LadderInvStep ==
    ASSUME LadderInv, [SchemaNext]_schemaVars
    PROVE  LadderInv'
<1>1. op \in [Operators -> Progress] /\ clock \in Nat BY DEF LadderInv, Typed
<1>2. ASSUME UNCHANGED <<rows, shape, clock, op>> PROVE LadderInv'
  BY <1>2 DEF LadderInv, Typed, RowsAreOfTheShape, Newest, NoGap, StepsAreBehind, Behind
<1>3. ASSUME NEW o \in Operators, ReadState(o) PROVE LadderInv'
  <2> DEFINE n == IF Version = 0 THEN [at |-> "fresh"]
                  ELSE IF Version >= BuiltFor[o] THEN [at |-> "done"]
                  ELSE [at |-> "step", from |-> Version]
  <2>1. rows' = rows /\ shape' = shape /\ clock' = clock /\ op' = [op EXCEPT ![o] = n]
    BY <1>3 DEF ReadState
  <2>2. n \in Progress /\ Behind(n, clock')
    <3>1. CASE Version = 0 \/ Version >= BuiltFor[o] BY <3>1 DEF Progress, Behind
    <3>2. CASE ~(Version = 0 \/ Version >= BuiltFor[o])
      <4>1. shape # <<>> /\ Version = shape[Len(shape)] BY <3>2, VersionIsLast
      <4>2. Version \in Versions BY <4>1, LastIsVersion
      <4>3. n = [at |-> "step", from |-> Version] BY <3>2
      <4> QED BY <2>1, <4>1, <4>2, <4>3 DEF Progress, Behind, Versions
    <3> QED BY <3>1, <3>2
  <2> HIDE DEF n
  <2> QED BY <1>1, <2>1, <2>2, OneOperatorMoves, Zenon
<1>4. ASSUME NEW o \in Operators, BeginFresh(o) PROVE LadderInv'
  <2> DEFINE n == [at |-> "creating", stamp |-> clock + 1]
  <2>1. rows' = rows /\ shape' = shape /\ clock' = clock + 1 /\ op' = [op EXCEPT ![o] = n]
    BY <1>4 DEF BeginFresh
  <2>2. n \in Progress /\ Behind(n, clock') BY <1>1, <2>1 DEF Progress, Behind
  <2> HIDE DEF n
  <2> QED BY <1>1, <2>1, <2>2, OneOperatorMoves, Zenon
<1>5. ASSUME NEW o \in Operators, CommitFresh(o) PROVE LadderInv'
  <2> DEFINE n == [at |-> IF shape = <<>> THEN "done" ELSE "failed"]
  <2>1. n \in Progress /\ n.at \in {"done", "failed"} /\ op' = [op EXCEPT ![o] = n] /\ clock' = clock
    BY <1>5 DEF CommitFresh, Progress
  <2>2. CASE shape # <<>>
    <3>1. rows' = rows /\ shape' = shape BY <1>5, <2>2 DEF CommitFresh
    <3>2. Behind(n, clock') BY <2>1 DEF Behind
    <3> HIDE DEF n
    <3> QED BY <1>1, <2>1, <3>1, <3>2, OneOperatorMoves, Zenon
  <2>3. CASE shape = <<>>
    <3> DEFINE c == IF BuiltFor[o] \in Breaks THEN BuiltFor[o] ELSE Oldest
    <3>1. op[o] \in Progress /\ op[o].at = "creating" /\ op[o].stamp <= clock
      BY <1>1, <1>5 DEF CommitFresh, LadderInv, StepsAreBehind, Behind
    <3>2. op[o].stamp \in Nat BY <3>1 DEF Progress
    <3>3. rows = {} BY <2>3 DEF LadderInv, RowsAreOfTheShape
    <3>4. /\ rows' = rows \cup {[version |-> BuiltFor[o], compatible |-> c, at |-> op[o].stamp]}
          /\ shape' = Append(shape, BuiltFor[o])
      BY <1>5, <2>3, <3>3 DEF CommitFresh
    <3>5. BuiltFor[o] \in Versions BY LadderAssumption DEF Versions
    <3>6. n.at = "done" BY <2>3
    <3> HIDE DEF n, c
    <3> QED BY <2>1, <2>3, <3>1, <3>2, <3>3, <3>4, <3>5, <3>6, RowAdded
  <2> QED BY <2>2, <2>3
<1>6. ASSUME NEW o \in Operators, Begin(o) PROVE LadderInv'
  <2> DEFINE n == [at |-> "begun", from |-> op[o].from, stamp |-> clock + 1]
  <2>1. rows' = rows /\ shape' = shape /\ clock' = clock + 1 /\ op' = [op EXCEPT ![o] = n]
    BY <1>6 DEF Begin
  <2>2. op[o] \in Progress /\ op[o].at = "step" /\ Behind(op[o], clock)
    BY <1>1, <1>6 DEF Begin, LadderInv, StepsAreBehind
  <2>3. op[o].from \in Versions BY <2>2 DEF Progress
  <2>4. \A r \in rows : r.at < clock + 1 BY <1>1 DEF LadderInv, Typed
  <2>5. n \in Progress BY <1>1, <2>3 DEF Progress
  <2>6. Behind(n, clock') BY <1>1, <2>1, <2>2, <2>4 DEF Behind
  <2> HIDE DEF n
  <2> QED BY <1>1, <2>1, <2>5, <2>6, OneOperatorMoves, Zenon
<1>7. ASSUME NEW o \in Operators, Lock(o) PROVE LadderInv'
  <2> DEFINE n == [at |-> "locked", from |-> op[o].from, stamp |-> op[o].stamp]
  <2>1. rows' = rows /\ shape' = shape /\ clock' = clock /\ op' = [op EXCEPT ![o] = n]
    BY <1>7 DEF Lock
  <2>2. op[o] \in Progress /\ op[o].at = "begun" /\ Behind(op[o], clock)
    BY <1>1, <1>7 DEF Lock, LadderInv, StepsAreBehind
  <2>3. n \in Progress BY <2>2 DEF Progress
  <2>4. Behind(n, clock') BY <2>1, <2>2 DEF Behind
  <2> HIDE DEF n
  <2> QED BY <1>1, <2>1, <2>3, <2>4, OneOperatorMoves, Zenon
<1>8. ASSUME NEW o \in Operators, Commit(o) PROVE LadderInv'
  <2> DEFINE to == op[o].from + 1
             n == NextStep(o)
  <2>1. op[o] \in Progress /\ op[o].at = "locked" /\ Behind(op[o], clock)
    BY <1>1, <1>8 DEF Commit, LadderInv, StepsAreBehind
  <2>2. op[o].from \in Versions /\ op[o].stamp \in Nat BY <2>1 DEF Progress
  <2>3. /\ shape # <<>> /\ op[o].from <= shape[Len(shape)] /\ op[o].stamp <= clock
        /\ op[o].from = shape[Len(shape)] => \A r \in rows : r.at < op[o].stamp
    BY <2>1 DEF Behind
  <2>4. Version = shape[Len(shape)] /\ Version \in Versions BY <2>3, VersionIsLast, LastIsVersion
  <2>5. to \in Versions BY <2>2 DEF Versions
  <2>6. n \in Progress /\ n.at \in {"step", "done"} /\ (n.at = "step" => n.from = to)
    BY <2>5 DEF NextStep, Progress
  <2>7. op' = [op EXCEPT ![o] = n] /\ clock' = clock BY <1>8 DEF Commit
  <2>8. CASE Version = op[o].from
    <3>1. /\ rows' = rows \cup {[version |-> to, compatible |-> CompatibleAfter(to), at |-> op[o].stamp]}
          /\ shape' = Append(shape, to)
      BY <1>8, <2>8 DEF Commit, StillThere
    <3>2. to = shape[Len(shape)] + 1 /\ \A r \in rows : r.at < op[o].stamp BY <2>3, <2>4, <2>8
    <3> HIDE DEF to, n
    <3> QED BY <2>2, <2>3, <2>5, <2>6, <2>7, <3>1, <3>2, RowAdded
  <2>9. CASE Version # op[o].from
    <3>1. rows' = rows /\ shape' = shape BY <1>8, <2>9 DEF Commit, StillThere
    <3>2. to <= shape[Len(shape)] BY <2>2, <2>3, <2>4, <2>9 DEF Versions
    <3>3. Behind(n, clock') BY <2>3, <2>6, <3>1, <3>2 DEF Behind
    <3> HIDE DEF to, n
    <3> QED BY <1>1, <2>6, <2>7, <3>1, <3>3, OneOperatorMoves, Zenon
  <2> QED BY <2>8, <2>9
<1>9. ASSUME NEW o \in Operators, Crash(o) PROVE LadderInv'
  <2> DEFINE n == [at |-> "failed"]
  <2>1. n \in Progress /\ Behind(n, clock') BY DEF Progress, Behind
  <2>2. rows' = rows /\ shape' = shape /\ clock' = clock /\ op' = [op EXCEPT ![o] = n]
    BY <1>9 DEF Crash
  <2> HIDE DEF n
  <2> QED BY <1>1, <2>1, <2>2, OneOperatorMoves, Zenon
<1>10. ASSUME NEW o \in Operators, Again(o) PROVE LadderInv'
  <2>1. AtRest \in Progress /\ Behind(AtRest, clock') BY DEF Progress, AtRest, Behind
  <2>2. rows' = rows /\ shape' = shape /\ clock' = clock /\ op' = [op EXCEPT ![o] = AtRest]
    BY <1>10 DEF Again
  <2> QED BY <1>1, <2>1, <2>2, OneOperatorMoves, Zenon
<1>11. ASSUME NEW d \in Doors, Boot(d) \/ Stop(d) PROVE LadderInv'
  BY <1>2, <1>11 DEF Boot, Stop
<1>12. CASE UNCHANGED schemaVars BY <1>2, <1>12 DEF schemaVars
<1> QED
  BY <1>3, <1>4, <1>5, <1>6, <1>7, <1>8, <1>9, <1>10, <1>11, <1>12 DEF SchemaNext

\* The row a door or an operator reads names the shape the database has, and
\* every step was applied once, right after the one before it, whatever operators
\* of whatever builds ran `ksor schema --apply` at once (migrate.ts, schema.ts).
THEOREM VersionIsAlwaysTrue == SchemaSpec => []VersionIsTrue
<1>1. SchemaInit => LadderInv BY LadderInvInit
<1>2. LadderInv /\ [SchemaNext]_schemaVars => LadderInv' BY LadderInvStep
<1>3. LadderInv => VersionIsTrue
  BY VersionIsLast DEF LadderInv, NoGap, VersionIsTrue, Last
<1> QED BY <1>1, <1>2, <1>3, PTL DEF SchemaSpec
-----------------------------------------------------------------------------
(* PgPool. *)

\* A caller with a connection at work, and one whose connection is being made.
Works == InTxn \cup {"held"}
Opens == {"opening", "handed"}
Over == {"sleep", "done", "failed"}

RestTyped ==
    /\ storeUp \in BOOLEAN /\ sick \subseteq Conns /\ open \subseteq Conns
    /\ left \in [Borrowers -> Nat] /\ tries \in [Borrowers -> Nat]
    /\ DOMAIN result = Borrowers

PoolTypeOK ==
    /\ RestTyped
    /\ conn \in [Conns -> {"none", "connecting", "idle", "lent"}]
    /\ who \in [Conns -> Borrowers \cup {None}]
    /\ waiting \in Seq(Borrowers)
    /\ pc \in [Borrowers -> {"new", "queued"} \cup Works \cup Opens \cup Over]

\* A slot is of one caller, which is doing what the slot is doing.
SlotsInv ==
    /\ \A i, j \in Conns : who[i] = who[j] /\ who[i] # None => i = j
    /\ \A i \in Conns : conn[i] \in {"none", "idle"} => who[i] = None
    /\ \A i \in Conns : conn[i] = "lent" => who[i] # None /\ pc[who[i]] \in Works
    /\ \A i \in Conns : conn[i] = "connecting" /\ who[i] # None => pc[who[i]] \in Opens
    /\ \A c \in Borrowers : pc[c] \in Works \cup Opens => \E i \in Conns : who[i] = c

\* Whoever waits is in the queue once, and nobody waits beside a free slot.
QueueInv ==
    /\ \A k, l \in DOMAIN waiting : waiting[k] = waiting[l] => k = l
    /\ \A c \in Borrowers : pc[c] = "queued" <=> \E k \in DOMAIN waiting : waiting[k] = c
    /\ waiting # <<>> => \A i \in Conns : conn[i] \in {"connecting", "lent"}

\* The prewarm never queues, is over when somebody calls, and begins with an
\* empty pool.
WarmInv ==
    /\ \A c \in Prewarms : pc[c] \in {"new", "opening", "held", "failed", "done"}
    /\ \A c \in Prewarms : pc[c] \in {"opening", "held", "failed"} => c \in Warmed
    /\ \A c \in Borrowers \ Prewarms : pc[c] # "held"
    /\ (\E c \in Borrowers \ Prewarms : pc[c] # "new") =>
           \A w \in Warmed : pc[w] \in {"done", "failed"}
    /\ (\E w \in Warmed : pc[w] = "new") =>
           /\ \A c \in Borrowers : pc[c] \in {"new", "opening"}
           /\ \A i \in Conns : conn[i] = "none" \/ who[i] # None

\* A connection that is gone has no transaction, and a store that is away has
\* dropped them all.
SickInv ==
    /\ open \cap sick = {}
    /\ ~storeUp => \A i \in Conns : conn[i] \in {"idle", "lent"} => i \in sick

\* A caller that has waited for longer than an instant, and saw nothing fail,
\* has waited for a busy pool.
AwayInv ==
    \A c \in Borrowers : c \notin away =>
        /\ pc[c] \in Waits => storeUp
        /\ pc[c] \in Opens => left[c] = Timeout
        /\ pc[c] = "queued" => left[c] = Timeout \/ \A i \in Conns : conn[i] = "lent"

Shape == PoolTypeOK /\ SlotsInv /\ QueueInv /\ WarmInv

PoolInv == Shape /\ SickInv /\ (~PerRequest => AwayInv)

-----------------------------------------------------------------------------
\* A set has a part of every smaller size: the prewarm has as many members as
\* there are slots for.
LEMMA WarmedIs ==
    /\ Warmed \subseteq Prewarms
    /\ IsFiniteSet(Warmed) /\ Cardinality(Warmed) <= Cardinality(Conns)
<1> DEFINE n == Cardinality(Prewarms)  m == Cardinality(Conns)
<1>1. n \in Nat /\ m \in Nat /\ ExistsBijection(1..n, Prewarms)
  BY PoolAssumption, FS_CardinalityType
<1>2. \E S \in SUBSET Prewarms : Cardinality(S) = IF n < m THEN n ELSE m
  <2>1. CASE n < m BY <2>1
  <2>2. CASE ~(n < m)
    <3>1. PICK f \in Bijection(1..n, Prewarms) : TRUE BY <1>1 DEF ExistsBijection
    <3> DEFINE S == {f[k] : k \in 1..m}  g == [k \in 1..m |-> f[k]]
    <3>2. f \in [1..n -> Prewarms] /\ \A a, b \in 1..n : f[a] = f[b] => a = b
      BY <3>1 DEF Bijection, Injection, IsInjective
    <3>3. 1..m \subseteq 1..n BY <1>1, <2>2
    <3>4. S \subseteq Prewarms BY <3>2, <3>3
    <3>5. g \in Bijection(1..m, S)
      BY <3>2, <3>3 DEF Bijection, Injection, Surjection, IsInjective
    <3>6. Cardinality(S) = m BY <1>1, <3>5, FS_CountingElements DEF ExistsBijection
    <3> QED BY <2>2, <3>4, <3>6
  <2> QED BY <2>1, <2>2
<1>3. Warmed \in SUBSET Prewarms /\ Cardinality(Warmed) = IF n < m THEN n ELSE m
  BY <1>2 DEF Warmed
<1> QED BY <1>1, <1>3, FS_Subset, PoolAssumption

\* The slot of a caller that has one.
LEMMA OfIs ==
    ASSUME Shape, NEW c \in Borrowers
    PROVE  /\ pc[c] \in Works \cup Opens =>
                  /\ Of(c) \in Conns /\ who[Of(c)] = c
                  /\ conn[Of(c)] = IF pc[c] \in Works THEN "lent" ELSE "connecting"
           /\ \A i \in Conns : who[i] = c => pc[c] \in Works \cup Opens /\ i = Of(c)
<1>1. c # None BY PoolAssumption DEF Borrowers
<1>2. \A i \in Conns : who[i] = c => i = Of(c) BY <1>1 DEF Of, Shape, SlotsInv
<1>3. \A i \in Conns : who[i] = c => conn[i] \in {"lent", "connecting"}
  BY <1>1 DEF Shape, SlotsInv, PoolTypeOK
<1>4. \A i \in Conns : who[i] = c =>
        /\ conn[i] = "lent" => pc[c] \in Works
        /\ conn[i] = "connecting" => pc[c] \in Opens
  BY <1>1 DEF Shape, SlotsInv
<1>5. Works \cap Opens = {} BY DEF Works, Opens, InTxn
<1>6. pc[c] \in Works \cup Opens => \E i \in Conns : who[i] = c BY DEF Shape, SlotsInv
<1> QED BY <1>2, <1>3, <1>4, <1>5, <1>6

\* One connection comes back: to whoever waited longest, or to the idle ones.
LEMMA ReturnOne ==
    ASSUME NEW i \in Conns, NEW Phases, NEW callers \in [Borrowers -> Phases], Return({i}, callers),
           waiting \in Seq(Borrowers), NEW States, conn \in [Conns -> States],
           who \in [Conns -> Borrowers \cup {None}]
    PROVE  IF waiting = <<>>
           THEN /\ conn' = [conn EXCEPT ![i] = "idle"] /\ who' = [who EXCEPT ![i] = None]
                /\ pc' = callers /\ waiting' = <<>>
           ELSE /\ conn' = [conn EXCEPT ![i] = "lent"] /\ who' = [who EXCEPT ![i] = Head(waiting)]
                /\ pc' = [callers EXCEPT ![Head(waiting)] = Got(Head(waiting))]
                /\ waiting' = Tail(waiting)
<1> DEFINE ord == SetToSeq({i})
<1>1. IsFiniteSet({i}) /\ Cardinality({i}) = 1 BY FS_Singleton
<1>2. ord \in [1..1 -> {i}]
  <2>1. [k \in 1..1 |-> i] \in [1..1 -> {i}] /\ IsInjective([k \in 1..1 |-> i])
    BY DEF IsInjective
  <2>2. \E f \in [1..1 -> {i}] : IsInjective(f) BY <2>1
  <2> QED BY <1>1, <2>2 DEF SetToSeq
<1> HIDE DEF ord
<1>3. ord = <<i>>
  <2>1. ord \in Seq({i})
    <3>1. ord \in UNION {[1..n -> {i}] : n \in Nat} BY <1>2
    <3> QED BY <3>1, SeqDef, Zenon
  <2>2. Len(ord) = 1 /\ ord[1] = i BY <1>2, <2>1, LenProperties
  <2> QED BY <2>1, <2>2
<1> DEFINE n == IF Len(waiting) < Len(ord) THEN Len(waiting) ELSE Len(ord)
           To(j) == waiting[CHOOSE k \in 1..Len(ord) : ord[k] = j]
           Lent == {ord[k] : k \in 1..n}
<1>4. /\ conn' = [j \in Conns |-> IF j \in Lent THEN "lent"
                                  ELSE IF j \in {i} THEN "idle" ELSE conn[j]]
      /\ who' = [j \in Conns |-> IF j \in Lent THEN To(j) ELSE IF j \in {i} THEN None ELSE who[j]]
      /\ pc' = [c \in Borrowers |-> IF \E j \in Lent : To(j) = c THEN Got(c) ELSE callers[c]]
      /\ waiting' = SubSeq(waiting, n + 1, Len(waiting))
  BY DEF Return, ord
<1>5. CASE waiting = <<>>
  <2>1. n = 0 BY <1>3, <1>5
  <2>2. Lent = {} BY <2>1
  <2>3. waiting' = <<>> BY <1>4, <1>5, <2>1
  <2> HIDE DEF n, Lent
  <2> QED BY <1>4, <1>5, <2>2, <2>3
<1>6. CASE waiting # <<>>
  <2> DEFINE len == Len(waiting)
  <2>0. len \in Nat \ {0} /\ waiting[1] \in Borrowers /\ Head(waiting) = waiting[1]
    BY <1>6, EmptySeq, ElementOfSeq
  <2>1. n = 1
    <3>1. Len(ord) = 1 BY <1>3
    <3> HIDE DEF len
    <3> QED BY <2>0, <3>1 DEF len
  <2>2. Lent = {i}
    <3>1. ord[1] = i BY <1>3
    <3> HIDE DEF n
    <3> QED BY <2>1, <3>1
  <2>3. (CHOOSE k \in 1..Len(ord) : ord[k] = i) = 1 BY <1>3
  <2>4. To(i) = Head(waiting) /\ Head(waiting) \in Borrowers BY <2>0, <2>3
  <2>5. waiting' = Tail(waiting)
    <3>1. Tail(waiting) = SubSeq(waiting, 2, Len(waiting)) BY <1>6, TailIsSubSeq
    <3>2. waiting' = SubSeq(waiting, n + 1, Len(waiting)) BY <1>4
    <3> HIDE DEF n
    <3> QED BY <2>1, <3>1, <3>2
  <2> HIDE DEF n, Lent, To
  <2>6. conn' = [conn EXCEPT ![i] = "lent"] BY <1>4, <2>2
  <2>7. who' = [who EXCEPT ![i] = Head(waiting)] BY <1>4, <2>2, <2>4
  <2>8. pc' = [callers EXCEPT ![Head(waiting)] = Got(Head(waiting))] BY <1>4, <2>2, <2>4
  <2> QED BY <1>6, <2>5, <2>6, <2>7, <2>8
<1> QED BY <1>5, <1>6

\* Whoever waited longest, and who waits behind.
LEMMA QueueHead ==
    ASSUME Shape, waiting # <<>>
    PROVE  /\ Head(waiting) \in Borrowers \ Prewarms /\ pc[Head(waiting)] = "queued"
           /\ Tail(waiting) \in Seq(Borrowers)
           /\ \A k, l \in DOMAIN Tail(waiting) : Tail(waiting)[k] = Tail(waiting)[l] => k = l
           /\ \A c \in Borrowers : (\E k \in DOMAIN Tail(waiting) : Tail(waiting)[k] = c)
                                   <=> pc[c] = "queued" /\ c # Head(waiting)
<1> DEFINE h == Head(waiting)  t == Tail(waiting)  n == Len(waiting)
<1>1. waiting \in Seq(Borrowers) BY DEF Shape, PoolTypeOK
<1>2. n \in Nat \ {0} /\ DOMAIN waiting = 1..n BY <1>1, EmptySeq, LenProperties
<1>3. h = waiting[1] /\ t \in Seq(Borrowers) /\ Len(t) = n - 1
      /\ \A k \in 1..Len(t) : t[k] = waiting[k + 1]
  BY <1>1, HeadTailProperties
<1>4. DOMAIN t = 1..(n - 1) BY <1>3, LenProperties
<1>5. \A k \in DOMAIN t : k + 1 \in DOMAIN waiting /\ t[k] = waiting[k + 1] BY <1>2, <1>3, <1>4
<1>6. \A k \in DOMAIN waiting : k = 1 \/ (k - 1 \in DOMAIN t /\ t[k - 1] = waiting[k])
  BY <1>2, <1>3, <1>4
<1>7. 1 \in DOMAIN waiting /\ h \in Borrowers BY <1>1, <1>2, <1>3, ElementOfSeq
<1>8. \A k \in DOMAIN t : k \in Nat /\ k # 0 BY <1>2, <1>4
<1> HIDE DEF h, t, n
<1>9. /\ \A k, l \in DOMAIN waiting : waiting[k] = waiting[l] => k = l
      /\ \A c \in Borrowers : pc[c] = "queued" <=> \E k \in DOMAIN waiting : waiting[k] = c
  BY DEF Shape, QueueInv
<1>10. pc[h] = "queued" BY <1>3, <1>7, <1>9
<1>11. h \notin Prewarms BY <1>10 DEF Shape, WarmInv
<1>12. \A k, l \in DOMAIN t : t[k] = t[l] => k = l
  <2> SUFFICES ASSUME NEW k \in DOMAIN t, NEW l \in DOMAIN t, t[k] = t[l] PROVE k = l OBVIOUS
  <2>1. k + 1 = l + 1 BY <1>5, <1>9
  <2> QED BY <1>8, <2>1
<1>13. ASSUME NEW c \in Borrowers
       PROVE  (\E k \in DOMAIN t : t[k] = c) <=> pc[c] = "queued" /\ c # h
  <2>1. ASSUME NEW k \in DOMAIN t, t[k] = c PROVE pc[c] = "queued" /\ c # h
    <3>1. k + 1 \in DOMAIN waiting /\ waiting[k + 1] = c BY <1>5, <2>1
    <3>2. k + 1 # 1 BY <1>8
    <3> QED BY <1>3, <1>7, <1>9, <3>1, <3>2
  <2>2. ASSUME pc[c] = "queued", c # h PROVE \E k \in DOMAIN t : t[k] = c
    <3>1. PICK k \in DOMAIN waiting : waiting[k] = c BY <1>9, <2>2
    <3> QED BY <1>3, <1>6, <2>2, <3>1
  <2> QED BY <2>1, <2>2
<1> QED BY <1>3, <1>7, <1>10, <1>11, <1>12, <1>13 DEF h, t

\* Nothing has happened before the prewarm asks.
LEMMA Cold ==
    ASSUME Shape, ~Warming, NEW w \in Warmed, pc[w] = "new"
    PROVE  (\A c \in Borrowers : pc[c] = "new") /\ (\A i \in Conns : conn[i] = "none")
<1>1. \A v \in Warmed : pc[v] = "new" BY DEF Warming
<1>2. Warmed \subseteq Prewarms /\ Prewarms \subseteq Borrowers BY WarmedIs DEF Borrowers
<1>3. \A c \in Borrowers \ Prewarms : pc[c] = "new"
  BY <1>1 DEF Shape, WarmInv
<1>4. /\ \A c \in Borrowers : pc[c] \in {"new", "opening"}
      /\ \A i \in Conns : conn[i] = "none" \/ who[i] # None
  BY DEF Shape, WarmInv
<1>5. \A c \in Prewarms : pc[c] = "opening" => c \in Warmed BY DEF Shape, WarmInv
<1>6. \A c \in Borrowers : pc[c] = "new" BY <1>1, <1>3, <1>4, <1>5
<1>7. ASSUME NEW i \in Conns, conn[i] # "none" PROVE FALSE
  <2>1. who[i] \in Borrowers BY <1>4, <1>7 DEF Shape, PoolTypeOK
  <2>2. pc[who[i]] \in Works \cup Opens BY <2>1, OfIs
  <2> QED BY <1>6, <2>1, <2>2 DEF Works, Opens, InTxn
<1> QED BY <1>6, <1>7

-----------------------------------------------------------------------------
\* A slot is let go of: by nobody, or by a caller that is through with it.
LetsGo(i, callers) ==
    /\ conn[i] \in {"connecting", "lent"}
    /\ \/ who[i] = None /\ callers = pc
       \/ /\ who[i] \in Borrowers
          /\ \E v \in (IF who[i] \in Prewarms THEN {"failed"} ELSE {"sleep", "done"}) :
                callers = [pc EXCEPT ![who[i]] = v]

\* It is free then, or whoever waited longest takes it.
HandsOver(i, callers, free, taken, at) ==
    IF waiting = <<>>
    THEN /\ conn' = [conn EXCEPT ![i] = free] /\ who' = [who EXCEPT ![i] = None]
         /\ pc' = callers /\ waiting' = <<>>
    ELSE /\ conn' = [conn EXCEPT ![i] = taken] /\ who' = [who EXCEPT ![i] = Head(waiting)]
         /\ pc' = [callers EXCEPT ![Head(waiting)] = at] /\ waiting' = Tail(waiting)

Ways == {<<"idle", "lent", "begin">>, <<"none", "connecting", "handed">>}

\* What the callers do while a slot is handed over.
LEMMA LetsGoIs ==
    ASSUME Shape, NEW i \in Conns, NEW callers, LetsGo(i, callers)
    PROVE  /\ callers \in [Borrowers -> {"new", "queued"} \cup Works \cup Opens \cup Over]
           /\ \A c \in Borrowers : c # who[i] => callers[c] = pc[c]
           /\ \A c \in Borrowers : c = who[i] =>
                 /\ callers[c] \in Over /\ pc[c] \in Works \cup Opens
                 /\ callers[c] \in (IF c \in Prewarms THEN {"failed"} ELSE {"sleep", "done"})
<1>1. pc \in [Borrowers -> {"new", "queued"} \cup Works \cup Opens \cup Over]
      /\ who[i] \in Borrowers \cup {None}
  BY DEF Shape, PoolTypeOK
<1>2. None \notin Borrowers BY PoolAssumption DEF Borrowers
<1>3. \A c \in Borrowers : c = who[i] => pc[c] \in Works \cup Opens BY OfIs
<1>4. CASE who[i] = None /\ callers = pc BY <1>1, <1>2, <1>4
<1>5. CASE who[i] \in Borrowers
  <2>1. PICK v \in (IF who[i] \in Prewarms THEN {"failed"} ELSE {"sleep", "done"}) :
            callers = [pc EXCEPT ![who[i]] = v]
    BY <1>2, <1>5 DEF LetsGo
  <2>2. v \in Over BY <2>1 DEF Over
  <2> QED BY <1>1, <1>3, <1>5, <2>1, <2>2
<1> QED BY <1>1, <1>4, <1>5 DEF LetsGo

\* A slot handed over leaves slots, queue and callers in agreement.
LEMMA HandOverKeeps ==
    ASSUME Shape, ~Warming, NEW i \in Conns, NEW callers, LetsGo(i, callers),
           NEW free, NEW taken, NEW at, <<free, taken, at>> \in Ways,
           HandsOver(i, callers, free, taken, at), RestTyped'
    PROVE  Shape'
<1> DEFINE h == Head(waiting)  Phase == {"new", "queued"} \cup Works \cup Opens \cup Over
<1>1. /\ conn \in [Conns -> {"none", "connecting", "idle", "lent"}]
      /\ who \in [Conns -> Borrowers \cup {None}] /\ None \notin Borrowers
      /\ pc \in [Borrowers -> Phase] /\ waiting \in Seq(Borrowers)
  BY PoolAssumption DEF Shape, PoolTypeOK, Borrowers
<1>2. /\ callers \in [Borrowers -> Phase]
      /\ \A c \in Borrowers : c # who[i] => callers[c] = pc[c]
      /\ \A c \in Borrowers : c = who[i] =>
            /\ callers[c] \in Over /\ pc[c] \in Works \cup Opens
            /\ callers[c] \in (IF c \in Prewarms THEN {"failed"} ELSE {"sleep", "done"})
  BY LetsGoIs
<1>3. conn[i] \in {"connecting", "lent"} BY DEF LetsGo
<1>4. \A w \in Warmed : pc[w] # "new" BY <1>3, Cold
<1>5. Warmed \subseteq Prewarms /\ Prewarms \subseteq Borrowers BY WarmedIs DEF Borrowers
<1>6. /\ "new" \notin Over \cup Works \cup Opens /\ "queued" \notin Over \cup Works \cup Opens
      /\ Over \cap (Works \cup Opens) = {} /\ Works \cap Opens = {}
      /\ "failed" \in Over /\ "done" \in Over /\ "held" \in Works /\ "opening" \in Opens
      /\ "held" \notin Over \cup Opens /\ "opening" \notin Over \cup Works
  BY DEF Over, Works, Opens, InTxn
<1>7. \/ free = "idle" /\ taken = "lent" /\ at = "begin" /\ at \in Works
      \/ free = "none" /\ taken = "connecting" /\ at = "handed" /\ at \in Opens
  BY DEF Ways, Works, Opens, InTxn
<1>s. /\ \A k, l \in Conns : who[k] = who[l] /\ who[k] # None => k = l
      /\ \A k \in Conns : conn[k] \in {"none", "idle"} => who[k] = None
      /\ \A k \in Conns : conn[k] = "lent" => who[k] # None /\ pc[who[k]] \in Works
      /\ \A k \in Conns : conn[k] = "connecting" /\ who[k] # None => pc[who[k]] \in Opens
      /\ \A c \in Borrowers : pc[c] \in Works \cup Opens => \E k \in Conns : who[k] = c
  BY DEF Shape, SlotsInv
<1>q. /\ \A k, l \in DOMAIN waiting : waiting[k] = waiting[l] => k = l
      /\ \A c \in Borrowers : pc[c] = "queued" <=> \E k \in DOMAIN waiting : waiting[k] = c
      /\ waiting # <<>> => \A k \in Conns : conn[k] \in {"connecting", "lent"}
  BY DEF Shape, QueueInv
<1>w. /\ \A c \in Prewarms : pc[c] \in {"new", "opening", "held", "failed", "done"}
      /\ \A c \in Prewarms : pc[c] \in {"opening", "held", "failed"} => c \in Warmed
      /\ \A c \in Borrowers \ Prewarms : pc[c] # "held"
      /\ (\E c \in Borrowers \ Prewarms : pc[c] # "new") =>
             \A w \in Warmed : pc[w] \in {"done", "failed"}
  BY DEF Shape, WarmInv
<1>8. CASE waiting = <<>>
  <2>1. conn' = [conn EXCEPT ![i] = free] /\ who' = [who EXCEPT ![i] = None]
        /\ pc' = callers /\ waiting' = <<>>
    BY <1>8 DEF HandsOver
  <2>2. PoolTypeOK' BY <1>1, <1>2, <1>7, <2>1, EmptySeq DEF PoolTypeOK
  <2>3. SlotsInv' BY <1>1, <1>2, <1>3, <1>6, <1>7, <1>s, <2>1 DEF SlotsInv
  <2>4. QueueInv'
    <3>1. DOMAIN waiting = {} BY <1>8
    <3>2. \A c \in Borrowers : pc[c] # "queued" BY <1>q, <3>1
    <3>3. \A c \in Borrowers : pc'[c] # "queued" BY <1>2, <1>6, <2>1, <3>2
    <3>4. DOMAIN waiting' = {} BY <2>1
    <3> QED BY <2>1, <3>3, <3>4 DEF QueueInv
  <2>5. WarmInv' BY <1>1, <1>2, <1>4, <1>5, <1>6, <1>w, <2>1 DEF WarmInv
  <2> QED BY <2>2, <2>3, <2>4, <2>5 DEF Shape
<1>9. CASE waiting # <<>>
  <2>1. conn' = [conn EXCEPT ![i] = taken] /\ who' = [who EXCEPT ![i] = h]
        /\ pc' = [callers EXCEPT ![h] = at] /\ waiting' = Tail(waiting)
    BY <1>9 DEF HandsOver
  <2>2. /\ h \in Borrowers \ Prewarms /\ pc[h] = "queued"
        /\ Tail(waiting) \in Seq(Borrowers)
        /\ \A k, l \in DOMAIN Tail(waiting) : Tail(waiting)[k] = Tail(waiting)[l] => k = l
        /\ \A c \in Borrowers : (\E k \in DOMAIN Tail(waiting) : Tail(waiting)[k] = c)
                                <=> pc[c] = "queued" /\ c # h
    BY <1>9, QueueHead
  <2> HIDE DEF h
  <2>3. h # who[i] /\ \A k \in Conns : who[k] # h
    BY <1>6, <2>2, OfIs
  <2>4. PoolTypeOK' BY <1>1, <1>2, <1>7, <2>1, <2>2 DEF PoolTypeOK
  <2>5. SlotsInv' BY <1>1, <1>2, <1>3, <1>6, <1>7, <1>s, <2>1, <2>2, <2>3 DEF SlotsInv
  <2>6. QueueInv'
    <3>1. \A c \in Borrowers : pc'[c] = "queued" <=> pc[c] = "queued" /\ c # h
      BY <1>1, <1>2, <1>6, <1>7, <2>1, <2>2
    <3>2. \A k \in Conns : conn'[k] \in {"connecting", "lent"} BY <1>1, <1>7, <1>9, <1>q, <2>1
    <3> QED BY <2>1, <2>2, <3>1, <3>2 DEF QueueInv
  <2>7. WarmInv' BY <1>1, <1>2, <1>4, <1>5, <1>6, <1>7, <1>w, <2>1, <2>2 DEF WarmInv
  <2> QED BY <2>4, <2>5, <2>6, <2>7 DEF Shape
<1> QED BY <1>8, <1>9

\* A checkout that a call or a retry makes, or the prewarm.
Asks(c) ==
    \/ c \in Borrowers \ Prewarms /\ pc[c] \in {"new", "sleep"}
       /\ \A w \in Warmed : pc[w] \in {"done", "failed"}
    \/ c \in Warmed /\ pc[c] = "new"

\* The prewarm asks for no more than there is.
LEMMA RoomToWarm ==
    ASSUME Shape, NEW c \in Warmed, pc[c] = "new"
    PROVE  /\ \A i \in Conns : conn[i] # "idle"
           /\ \E i \in Conns : conn[i] = "none"
           /\ \A b \in Borrowers \ Prewarms : pc[b] = "new"
<1>1. /\ \A b \in Borrowers : pc[b] \in {"new", "opening"}
      /\ \A i \in Conns : conn[i] = "none" \/ who[i] # None
  BY DEF Shape, WarmInv
<1>2. \A b \in Borrowers \ Prewarms : pc[b] = "new" BY DEF Shape, WarmInv
<1>3. \A b \in Prewarms : pc[b] = "opening" => b \in Warmed BY DEF Shape, WarmInv
<1>4. /\ who \in [Conns -> Borrowers \cup {None}]
      /\ \A i, j \in Conns : who[i] = who[j] /\ who[i] # None => i = j
      /\ \A i \in Conns : conn[i] \in {"none", "idle"} => who[i] = None
  BY DEF Shape, PoolTypeOK, SlotsInv
<1>5. ASSUME \A i \in Conns : conn[i] # "none" PROVE FALSE
  <2> DEFINE T == Warmed \ {c}
  <2>1. \A i \in Conns : who[i] \in T
    <3> SUFFICES ASSUME NEW i \in Conns PROVE who[i] \in T OBVIOUS
    <3>1. who[i] \in Borrowers BY <1>1, <1>4, <1>5
    <3>2. pc[who[i]] = "opening" BY <1>1, <3>1, OfIs DEF Works, Opens, InTxn
    <3> QED BY <1>2, <1>3, <3>1, <3>2 DEF Borrowers
  <2>2. IsFiniteSet(Warmed) /\ Cardinality(Warmed) <= Cardinality(Conns) BY WarmedIs
  <2>3. IsFiniteSet(T) /\ Cardinality(T) = Cardinality(Warmed) - 1 BY <2>2, FS_RemoveElement
  <2>4. IsFiniteSet(Conns) BY PoolAssumption
  <2>5. Cardinality(Warmed) \in Nat /\ Cardinality(Conns) \in Nat BY <2>2, <2>4, FS_CardinalityType
  <2>6. Cardinality(T) < Cardinality(Conns) BY <2>2, <2>3, <2>5
  <2>7. who \in [Conns -> T] BY <1>4, <2>1
  <2> HIDE DEF T
  <2>8. \E x, y \in Conns : x # y /\ who[x] = who[y] BY <2>3, <2>4, <2>6, <2>7, FS_PigeonHole
  <2>9. None \notin T BY PoolAssumption, WarmedIs DEF T
  <2> QED BY <1>4, <2>7, <2>8, <2>9
<1>6. \A i \in Conns : conn[i] # "idle" BY <1>1, <1>4
<1> QED BY <1>2, <1>5, <1>6

\* A caller that has no slot yet gets one, or joins the queue.
LEMMA CheckoutKeeps ==
    ASSUME Shape, NEW c \in Borrowers, Asks(c), Checkout(c), RestTyped'
    PROVE  Shape'
<1> DEFINE Phase == {"new", "queued"} \cup Works \cup Opens \cup Over
<1>1. /\ conn \in [Conns -> {"none", "connecting", "idle", "lent"}]
      /\ who \in [Conns -> Borrowers \cup {None}] /\ None \notin Borrowers
      /\ pc \in [Borrowers -> Phase] /\ waiting \in Seq(Borrowers)
  BY PoolAssumption DEF Shape, PoolTypeOK, Borrowers
<1>2. Warmed \subseteq Prewarms /\ Prewarms \subseteq Borrowers BY WarmedIs DEF Borrowers
<1>3. pc[c] \in {"new", "sleep"} /\ (c \in Prewarms => c \in Warmed /\ pc[c] = "new")
  BY <1>2 DEF Asks
<1>4. c \in Warmed => /\ \A i \in Conns : conn[i] # "idle"
                      /\ \E i \in Conns : conn[i] = "none"
                      /\ \A b \in Borrowers \ Prewarms : pc[b] = "new"
  BY <1>2, <1>3, RoomToWarm
<1>5. c \notin Warmed => c \notin Prewarms /\ \A w \in Warmed : pc[w] \in {"done", "failed"}
  BY <1>2, <1>3 DEF Asks
<1>6. \A i \in Conns : who[i] # c BY <1>3, OfIs DEF Works, Opens, InTxn
<1>s. /\ \A k, l \in Conns : who[k] = who[l] /\ who[k] # None => k = l
      /\ \A k \in Conns : conn[k] \in {"none", "idle"} => who[k] = None
      /\ \A k \in Conns : conn[k] = "lent" => who[k] # None /\ pc[who[k]] \in Works
      /\ \A k \in Conns : conn[k] = "connecting" /\ who[k] # None => pc[who[k]] \in Opens
      /\ \A b \in Borrowers : pc[b] \in Works \cup Opens => \E k \in Conns : who[k] = b
  BY DEF Shape, SlotsInv
<1>q. /\ \A k, l \in DOMAIN waiting : waiting[k] = waiting[l] => k = l
      /\ \A b \in Borrowers : pc[b] = "queued" <=> \E k \in DOMAIN waiting : waiting[k] = b
      /\ waiting # <<>> => \A k \in Conns : conn[k] \in {"connecting", "lent"}
  BY DEF Shape, QueueInv
<1>w. /\ \A b \in Prewarms : pc[b] \in {"new", "opening", "held", "failed", "done"}
      /\ \A b \in Prewarms : pc[b] \in {"opening", "held", "failed"} => b \in Warmed
      /\ \A b \in Borrowers \ Prewarms : pc[b] # "held"
      /\ (\E b \in Borrowers \ Prewarms : pc[b] # "new") =>
             \A w \in Warmed : pc[w] \in {"done", "failed"}
      /\ (\E w \in Warmed : pc[w] = "new") =>
             /\ \A b \in Borrowers : pc[b] \in {"new", "opening"}
             /\ \A i \in Conns : conn[i] = "none" \/ who[i] # None
  BY DEF Shape, WarmInv
<1>7. /\ "held" \in Works /\ "begin" \in Works /\ "opening" \in Opens
      /\ "queued" \notin Works \cup Opens /\ "new" \notin Works \cup Opens
      /\ "sleep" \notin Works \cup Opens
  BY DEF Works, Opens, InTxn
<1>8. CASE \E i \in In("idle") : Taken(i, "lent", c, Got(c))
  <2>1. PICK i \in Conns : conn[i] = "idle" /\ Taken(i, "lent", c, Got(c)) BY <1>8 DEF In
  <2>2. c \notin Warmed /\ c \notin Prewarms BY <1>4, <1>5, <2>1
  <2>3. conn' = [conn EXCEPT ![i] = "lent"] /\ who' = [who EXCEPT ![i] = c]
        /\ pc' = [pc EXCEPT ![c] = "begin"] /\ waiting' = waiting
    BY <2>1, <2>2 DEF Taken, Got
  <2>4. PoolTypeOK' BY <1>1, <1>7, <2>3 DEF PoolTypeOK
  <2>5. SlotsInv' BY <1>1, <1>3, <1>6, <1>7, <1>s, <2>1, <2>3 DEF SlotsInv
  <2>6. QueueInv' BY <1>1, <1>3, <1>7, <1>q, <2>1, <2>3 DEF QueueInv
  <2>7. WarmInv' BY <1>1, <1>2, <1>5, <1>w, <2>2, <2>3 DEF WarmInv
  <2> QED BY <2>4, <2>5, <2>6, <2>7 DEF Shape
<1>9. CASE In("idle") \cup In("none") = {} /\ waiting' = Append(waiting, c)
           /\ pc' = [pc EXCEPT ![c] = "queued"] /\ UNCHANGED <<conn, who>>
  <2>1. \A i \in Conns : conn[i] \in {"connecting", "lent"} BY <1>1, <1>9 DEF In
  <2>2. c \notin Warmed /\ c \notin Prewarms BY <1>4, <1>5, <2>1
  <2>3. /\ DOMAIN waiting = 1..Len(waiting) /\ DOMAIN waiting' = 1..(Len(waiting) + 1)
        /\ Len(waiting) \in Nat /\ waiting' \in Seq(Borrowers)
        /\ waiting'[Len(waiting) + 1] = c
        /\ \A k \in DOMAIN waiting : waiting'[k] = waiting[k]
    BY <1>1, <1>9
  <2>4. PoolTypeOK' BY <1>1, <1>9, <2>3 DEF PoolTypeOK
  <2>5. SlotsInv' BY <1>1, <1>3, <1>6, <1>7, <1>9, <1>s DEF SlotsInv
  <2>6. \A k \in DOMAIN waiting : waiting[k] # c BY <1>3, <1>q
  <2>7. \A b \in Borrowers : pc'[b] = "queued" <=> b = c \/ pc[b] = "queued" BY <1>1, <1>9
  <2>8. QueueInv'
    <3>1. \A k, l \in DOMAIN waiting' : waiting'[k] = waiting'[l] => k = l
      BY <1>q, <2>3, <2>6
    <3>2. \A b \in Borrowers : pc'[b] = "queued" <=> \E k \in DOMAIN waiting' : waiting'[k] = b
      BY <1>q, <2>3, <2>7
    <3> QED BY <1>9, <2>1, <3>1, <3>2 DEF QueueInv
  <2>9. WarmInv' BY <1>1, <1>2, <1>5, <1>9, <1>w, <2>2 DEF WarmInv
  <2> QED BY <2>4, <2>5, <2>8, <2>9 DEF Shape
<1>10. CASE /\ In("idle") = {} /\ In("none") # {}
            /\ Taken(CHOOSE i \in In("none") : TRUE, "connecting", c, "opening")
  <2>1. PICK i \in Conns : conn[i] = "none" /\ Taken(i, "connecting", c, "opening")
    BY <1>10 DEF In
  <2>2. conn' = [conn EXCEPT ![i] = "connecting"] /\ who' = [who EXCEPT ![i] = c]
        /\ pc' = [pc EXCEPT ![c] = "opening"] /\ waiting' = waiting
    BY <2>1 DEF Taken
  <2>3. PoolTypeOK' BY <1>1, <1>7, <2>2 DEF PoolTypeOK
  <2>4. SlotsInv' BY <1>1, <1>3, <1>6, <1>7, <1>s, <2>1, <2>2 DEF SlotsInv
  <2>5. QueueInv' BY <1>1, <1>3, <1>7, <1>q, <2>1, <2>2 DEF QueueInv
  <2>6. WarmInv' BY <1>1, <1>2, <1>3, <1>4, <1>5, <1>w, <2>2 DEF WarmInv
  <2> QED BY <2>3, <2>4, <2>5, <2>6 DEF Shape
<1> QED BY <1>8, <1>9, <1>10 DEF Checkout

-----------------------------------------------------------------------------
(* One lemma per action. *)

\* An attempt begins: every record still agrees.
LEMMA AskKeeps ==
    ASSUME PoolInv, NEW c \in Borrowers, Asks(c), Checkout(c), UNCHANGED <<store, sick, open, told>>
    PROVE  PoolInv'
<1>1. Shape /\ PoolTypeOK /\ RestTyped BY DEF PoolInv, Shape, PoolTypeOK
<1>2. left' = [left EXCEPT ![c] = IF pc'[c] \in Waits THEN Timeout ELSE 0] BY DEF Checkout
<1>3. RestTyped' BY <1>1, <1>2, PoolAssumption DEF RestTyped, store, told
<1>4. Shape' BY <1>1, <1>3, CheckoutKeeps
<1>5. /\ conn \in [Conns -> {"none", "connecting", "idle", "lent"}]
      /\ pc \in [Borrowers -> {"new", "queued"} \cup Works \cup Opens \cup Over]
      /\ left \in [Borrowers -> Nat]
  BY <1>1 DEF PoolTypeOK, RestTyped
<1>6. /\ \A b \in Borrowers : b # c => pc'[b] = pc[b]
      /\ \A i \in Conns : conn'[i] \in {"idle", "lent"} => conn[i] \in {"idle", "lent"}
      /\ (\A i \in Conns : conn[i] = "lent") => \A i \in Conns : conn'[i] = "lent"
  <2>1. ASSUME NEW i \in Conns, conn[i] \in {"idle", "none"}, NEW st, NEW at, Taken(i, st, c, at),
               conn[i] = "none" => st \notin {"idle", "lent"}
        PROVE  <1>6!:
    BY <1>5, <2>1 DEF Taken
  <2>2. CASE \E i \in In("idle") : Taken(i, "lent", c, Got(c)) BY <2>1, <2>2 DEF In
  <2>3. CASE pc' = [pc EXCEPT ![c] = "queued"] /\ UNCHANGED <<conn, who>> BY <1>5, <2>3
  <2>4. CASE /\ In("idle") = {} /\ In("none") # {}
             /\ Taken(CHOOSE i \in In("none") : TRUE, "connecting", c, "opening")
    BY <2>1, <2>4 DEF In
  <2> QED BY <2>2, <2>3, <2>4 DEF Checkout
<1>7. SickInv' BY <1>6 DEF SickInv, PoolInv, store
<1>8. ASSUME ~PerRequest PROVE AwayInv'
  <2>1. away' = IF storeUp THEN away \ {c} ELSE away \cup {c} BY DEF Checkout
  <2>2. AwayInv BY <1>8 DEF PoolInv
  <2>3. storeUp' = storeUp BY DEF store
  <2>4. pc'[c] \in Waits => left'[c] = Timeout BY <1>2, <1>5
  <2>5. \A b \in Borrowers : b # c => left'[b] = left[b] BY <1>2, <1>5
  <2>6. "queued" \in Waits /\ Opens \subseteq Waits BY DEF Waits, Opens
  <2> SUFFICES ASSUME NEW b \in Borrowers, b \notin away'
               PROVE  /\ pc'[b] \in Waits => storeUp'
                      /\ pc'[b] \in Opens => left'[b] = Timeout
                      /\ pc'[b] = "queued" => left'[b] = Timeout \/ \A i \in Conns : conn'[i] = "lent"
    BY DEF AwayInv
  <2>7. CASE b = c BY <2>1, <2>3, <2>4, <2>6, <2>7
  <2>8. CASE b # c
    <3>1. b \notin away /\ pc'[b] = pc[b] /\ left'[b] = left[b] BY <1>6, <2>1, <2>5, <2>8
    <3> QED BY <1>6, <2>2, <2>3, <3>1 DEF AwayInv
  <2> QED BY <2>7, <2>8
<1> QED BY <1>4, <1>7, <1>8 DEF PoolInv

\* The caller's first attempt.
LEMMA CallInv == ASSUME PoolInv, NEW c \in Borrowers, Call(c) PROVE PoolInv'
<1>1. Asks(c) BY DEF Asks, Call
<1> QED BY <1>1, AskKeeps DEF Call

\* A later attempt, after the backoff.
LEMMA RetryInv == ASSUME PoolInv, NEW c \in Borrowers, Retry(c) PROVE PoolInv'
<1>1. pc[c] = "sleep" BY DEF Retry
<1>2. c \notin Prewarms BY <1>1 DEF PoolInv, Shape, WarmInv
<1>3. \A w \in Warmed : pc[w] \in {"done", "failed"} BY <1>1, <1>2 DEF PoolInv, Shape, WarmInv
<1>4. Asks(c) BY <1>1, <1>2, <1>3 DEF Asks
<1> QED BY <1>4, AskKeeps DEF Retry

\* The prewarm asks for all its connections at once.
LEMMA PrewarmConnectInv == ASSUME PoolInv, PrewarmConnect PROVE PoolInv'
<1> DEFINE c == CHOOSE c \in Warmed : pc[c] = "new"
<1>1. c \in Warmed /\ pc[c] = "new" BY DEF PrewarmConnect
<1>2. c \in Borrowers BY <1>1, WarmedIs DEF Borrowers
<1>3. Checkout(c) /\ UNCHANGED <<store, sick, open, told>> BY DEF PrewarmConnect
<1> HIDE DEF c
<1>4. Asks(c) BY <1>1 DEF Asks
<1> QED BY <1>2, <1>3, <1>4, AskKeeps

\* A failed attempt leaves every caller somewhere a caller may be.
LEMMA FailedTyped ==
    ASSUME PoolTypeOK, NEW c \in Borrowers, NEW err, FailedTry(c, err),
           storeUp' \in BOOLEAN, sick' \subseteq Conns, open' \subseteq Conns
    PROVE  RestTyped' /\ \A b \in Borrowers : b # c => left'[b] = left[b]
<1>1. tries[c] \in Nat /\ Backoff \in Nat BY PoolAssumption DEF PoolTypeOK, RestTyped
<1>2. Backoff * (tries[c] + 1) \in Nat BY <1>1
<1>3. left' \in [Borrowers -> Nat] /\ \A b \in Borrowers : b # c => left'[b] = left[b]
  BY <1>2 DEF FailedTry, PoolTypeOK, RestTyped
<1>4. tries' \in [Borrowers -> Nat]
  BY <1>1 DEF FailedTry, PoolTypeOK, RestTyped
<1>5. DOMAIN result' = Borrowers BY DEF FailedTry, PoolTypeOK, RestTyped
<1> QED BY <1>3, <1>4, <1>5 DEF RestTyped

\* A caller whose attempt fails has nothing any more.
LEMMA AfterLetsGo ==
    ASSUME NEW i \in Conns, who[i] \in Borrowers, conn[i] \in {"connecting", "lent"}, NEW err
    PROVE  LetsGo(i, After(who[i], err))
BY DEF LetsGo, After

\* A connection that is thrown away: its slot is handed over.
LEMMA DiscardHands ==
    ASSUME NEW i \in Conns, NEW callers, Discard(i, callers)
    PROVE  HandsOver(i, callers, "none", "connecting", "handed")
BY DEF Discard, HandsOver

\* A connection that is given back: its slot is handed over, or is idle.
LEMMA ReturnHands ==
    ASSUME Shape, NEW i \in Conns, NEW callers, LetsGo(i, callers), Return({i}, callers)
    PROVE  HandsOver(i, callers, "idle", "lent", "begin")
<1>1. callers \in [Borrowers -> {"new", "queued"} \cup Works \cup Opens \cup Over] BY LetsGoIs
<1>2. /\ waiting \in Seq(Borrowers) /\ who \in [Conns -> Borrowers \cup {None}]
      /\ conn \in [Conns -> {"none", "connecting", "idle", "lent"}]
  BY DEF Shape, PoolTypeOK
<1>3. waiting # <<>> => Head(waiting) \notin Prewarms BY QueueHead
<1> QED BY <1>1, <1>2, <1>3, ReturnOne DEF HandsOver, Got

\* A connection that is being made is let go of, or one that is good: nobody who
\* waits is the worse for it.
LEMMA HandOverFair ==
    ASSUME Shape, AwayInv, NEW i \in Conns, NEW callers, LetsGo(i, callers),
           NEW free, NEW taken, NEW at, <<free, taken, at>> \in Ways,
           HandsOver(i, callers, free, taken, at), storeUp' = storeUp, away' = away,
           \A b \in Borrowers : b # who[i] => left'[b] = left[b],
           conn[i] = "lent" => taken = "lent"
    PROVE  AwayInv'
<1> DEFINE h == Head(waiting)  Phase == {"new", "queued"} \cup Works \cup Opens \cup Over
<1>1. /\ conn \in [Conns -> {"none", "connecting", "idle", "lent"}]
      /\ pc \in [Borrowers -> Phase] /\ waiting \in Seq(Borrowers)
  BY DEF Shape, PoolTypeOK
<1>2. /\ callers \in [Borrowers -> Phase]
      /\ \A c \in Borrowers : c # who[i] => callers[c] = pc[c]
      /\ \A c \in Borrowers : c = who[i] => callers[c] \in Over /\ pc[c] \in Works \cup Opens
  BY LetsGoIs
<1>3. Over \cap Waits = {} /\ Opens \subseteq Waits /\ "queued" \in Waits
      /\ "begin" \notin Waits /\ "handed" \in Opens /\ "queued" \notin Opens
      /\ "queued" \notin Works
  BY DEF Over, Waits, Opens, Works, InTxn
<1> SUFFICES ASSUME NEW b \in Borrowers, b \notin away'
             PROVE  /\ pc'[b] \in Waits => storeUp'
                    /\ pc'[b] \in Opens => left'[b] = Timeout
                    /\ pc'[b] = "queued" => left'[b] = Timeout \/ \A k \in Conns : conn'[k] = "lent"
  BY DEF AwayInv
<1>4. /\ pc[b] \in Waits => storeUp
      /\ pc[b] \in Opens => left[b] = Timeout
      /\ pc[b] = "queued" => left[b] = Timeout \/ \A k \in Conns : conn[k] = "lent"
  BY DEF AwayInv
<1>5. CASE waiting = <<>>
  <2>1. pc' = callers BY <1>5 DEF HandsOver
  <2>2. DOMAIN waiting = {} BY <1>5
  <2>3. pc[b] # "queued" BY <2>2 DEF Shape, QueueInv
  <2>4. CASE b = who[i] BY <1>2, <1>3, <2>1, <2>4
  <2>5. CASE b # who[i] BY <1>2, <1>4, <2>1, <2>3, <2>5
  <2> QED BY <2>4, <2>5
<1>6. CASE waiting # <<>>
  <2>1. conn' = [conn EXCEPT ![i] = taken] /\ pc' = [callers EXCEPT ![h] = at]
    BY <1>6 DEF HandsOver
  <2>2. h \in Borrowers /\ pc[h] = "queued" BY <1>6, QueueHead
  <2>3. h # who[i] BY <1>2, <1>3, <2>2
  <2>4. (\A k \in Conns : conn[k] = "lent") => taken = "lent" /\ \A k \in Conns : conn'[k] = "lent"
    BY <1>1, <2>1
  <2>5. taken = "lent" => at = "begin" BY DEF Ways
  <2> HIDE DEF h
  <2>6. CASE b = who[i] BY <1>2, <1>3, <2>1, <2>2, <2>3, <2>6
  <2>7. CASE b = h
    <3>1. pc'[b] = at /\ left'[b] = left[b] BY <1>2, <2>1, <2>2, <2>3, <2>7
    <3>2. at \in {"begin", "handed"} BY DEF Ways
    <3>3. at = "handed" => left[b] = Timeout BY <1>4, <2>2, <2>4, <2>5, <2>7
    <3> QED BY <1>3, <1>4, <2>2, <2>7, <3>1, <3>2, <3>3
  <2>8. CASE b # who[i] /\ b # h
    <3>1. pc'[b] = pc[b] /\ left'[b] = left[b] BY <1>2, <2>1, <2>2, <2>8
    <3> QED BY <1>4, <2>4, <3>1
  <2> QED BY <2>6, <2>7, <2>8
<1> QED BY <1>5, <1>6

\* A slot that is handed over is good, or becomes a new connection.
LEMMA HandOverSick ==
    ASSUME PoolTypeOK, SickInv, NEW i \in Conns, NEW callers,
           NEW free, NEW taken, NEW at, <<free, taken, at>> \in Ways,
           HandsOver(i, callers, free, taken, at), storeUp' = storeUp,
           sick' = sick \/ (sick' = sick \ {i} /\ free = "none"), open' \subseteq open,
           free = "idle" => storeUp
    PROVE  SickInv'
<1>1. conn \in [Conns -> {"none", "connecting", "idle", "lent"}] BY DEF PoolTypeOK
<1>2. free = "none" => taken = "connecting" BY DEF Ways
<1>3. conn' = [conn EXCEPT ![i] = free] \/ conn' = [conn EXCEPT ![i] = taken] BY DEF HandsOver
<1>4. free \in {"idle", "none"} BY DEF Ways
<1>5. \A k \in Conns : k # i => conn'[k] = conn[k] BY <1>1, <1>3
<1>6. free = "none" => conn'[i] \notin {"idle", "lent"} BY <1>1, <1>2, <1>3
<1> QED BY <1>4, <1>5, <1>6 DEF SickInv

\* A new connection is up: its caller has it, or it is given back.
LEMMA ConnectOkInv == ASSUME PoolInv, ~Warming, NEW i \in Conns, ConnectOk(i) PROVE PoolInv'
<1>1. /\ Shape /\ PoolTypeOK /\ RestTyped /\ SickInv /\ (~PerRequest => AwayInv)
      /\ storeUp /\ conn[i] = "connecting"
      /\ UNCHANGED <<store, sick, open, left, told, away>>
  BY DEF PoolInv, Shape, PoolTypeOK, ConnectOk
<1>2. RestTyped' BY <1>1 DEF RestTyped, store, told
<1>3. CASE who[i] = None
  <2>1. LetsGo(i, pc) BY <1>1, <1>3 DEF LetsGo
  <2>2. HandsOver(i, pc, "idle", "lent", "begin")
    BY <1>1, <1>3, <2>1, ReturnHands DEF ConnectOk
  <2>3. <<"idle", "lent", "begin">> \in Ways BY DEF Ways
  <2>4. Shape' BY <1>1, <1>2, <2>1, <2>2, <2>3, HandOverKeeps
  <2>5. SickInv' BY <1>1, <2>2, <2>3, HandOverSick DEF store
  <2>6. ~PerRequest => AwayInv' BY <1>1, <2>1, <2>2, <2>3, HandOverFair DEF store
  <2> QED BY <2>4, <2>5, <2>6 DEF PoolInv
<1>4. CASE who[i] # None
  <2> DEFINE c == who[i]
  <2>1. /\ conn \in [Conns -> {"none", "connecting", "idle", "lent"}]
        /\ who \in [Conns -> Borrowers \cup {None}] /\ waiting \in Seq(Borrowers)
        /\ pc \in [Borrowers -> {"new", "queued"} \cup Works \cup Opens \cup Over]
    BY <1>1 DEF PoolTypeOK
  <2>2. c \in Borrowers /\ pc[c] \in Opens BY <1>1, <1>4, <2>1 DEF Shape, SlotsInv
  <2>3. /\ conn' = [conn EXCEPT ![i] = "lent"] /\ pc' = [pc EXCEPT ![c] = Got(c)]
        /\ who' = who /\ waiting' = waiting
    BY <1>4 DEF ConnectOk
  <2>4. /\ Got(c) = IF c \in Prewarms THEN "held" ELSE "begin"
        /\ "held" \in Works /\ "begin" \in Works /\ "queued" \notin Works \cup Opens
        /\ "new" \notin Works \cup Opens /\ Works \cap Waits = {} /\ Opens \subseteq Waits
        /\ Works \cap Opens = {} /\ "opening" \notin Works /\ "done" \notin Opens /\ "failed" \notin Opens
        /\ "queued" \in Waits
    BY DEF Got, Works, Opens, InTxn, Waits
  <2>5. \A b \in Borrowers : b # c => pc'[b] = pc[b] BY <2>1, <2>3
  <2>6. pc'[c] = Got(c) BY <2>1, <2>2, <2>3
  <2>7. \A k \in Conns : k # i => who[k] # c BY <1>1, <1>4 DEF Shape, SlotsInv
  <2> HIDE DEF c
  <2>8. PoolTypeOK' BY <1>2, <2>1, <2>2, <2>3, <2>4 DEF PoolTypeOK
  <2>9. SlotsInv'
    <3>1. /\ \A k, l \in Conns : who[k] = who[l] /\ who[k] # None => k = l
          /\ \A k \in Conns : conn[k] \in {"none", "idle"} => who[k] = None
          /\ \A k \in Conns : conn[k] = "lent" => who[k] # None /\ pc[who[k]] \in Works
          /\ \A k \in Conns : conn[k] = "connecting" /\ who[k] # None => pc[who[k]] \in Opens
          /\ \A b \in Borrowers : pc[b] \in Works \cup Opens => \E k \in Conns : who[k] = b
      BY <1>1 DEF Shape, SlotsInv
    <3>2. \A k \in Conns : k # i /\ who[k] # None => who[k] \in Borrowers /\ pc'[who[k]] = pc[who[k]]
      BY <2>1, <2>5, <2>7
    <3>3. who[i] = c BY DEF c
    <3>4. \A b \in Borrowers : pc'[b] \in Works \cup Opens => \E k \in Conns : who[k] = b
      BY <2>5, <3>1, <3>3
    <3> QED BY <1>4, <2>1, <2>3, <2>4, <2>6, <3>1, <3>2, <3>3, <3>4 DEF SlotsInv
  <2>10. QueueInv'
    <3>1. \A b \in Borrowers : pc'[b] = "queued" <=> pc[b] = "queued" BY <2>2, <2>4, <2>5, <2>6
    <3> QED BY <1>1, <2>1, <2>3, <3>1 DEF QueueInv, Shape
  <2>11. \A w \in Warmed : pc[w] # "new" BY <1>1, Cold
  <2>12. WarmInv'
    <3>1. Warmed \subseteq Prewarms /\ Prewarms \subseteq Borrowers BY WarmedIs DEF Borrowers
    <3>2. pc[c] = "opening" \/ pc[c] = "handed" BY <2>2 DEF Opens
    <3>3. c \in Prewarms => pc[c] = "opening" /\ c \in Warmed BY <1>1, <3>2 DEF Shape, WarmInv
    <3> QED BY <1>1, <2>2, <2>4, <2>5, <2>6, <2>11, <3>1, <3>2, <3>3 DEF Shape, WarmInv
  <2>13. SickInv' BY <1>1, <2>1, <2>3 DEF SickInv, store
  <2>14. ASSUME ~PerRequest PROVE AwayInv'
    <3>1. \A b \in Borrowers : pc'[b] \in Waits => pc'[b] = pc[b] BY <2>4, <2>5, <2>6
    <3>2. (\A k \in Conns : conn[k] = "lent") => \A k \in Conns : conn'[k] = "lent" BY <2>1, <2>3
    <3> QED BY <1>1, <2>4, <2>14, <3>1, <3>2 DEF AwayInv, store
  <2> QED BY <2>8, <2>9, <2>10, <2>12, <2>13, <2>14 DEF PoolInv, Shape
<1> QED BY <1>3, <1>4

\* The store refuses a new connection.
LEMMA ConnectRefusedInv ==
    ASSUME PoolInv, ~Warming, NEW i \in Conns, NEW err, ConnectRefused(i, err)
    PROVE  PoolInv'
<1> DEFINE c == who[i]
<1>1. /\ Shape /\ PoolTypeOK /\ RestTyped /\ SickInv /\ (~PerRequest => AwayInv)
      /\ conn[i] = "connecting" /\ who[i] # None
      /\ Discard(i, After(who[i], err)) /\ FailedTry(who[i], err)
      /\ UNCHANGED <<store, sick, open, away>>
  BY DEF PoolInv, Shape, PoolTypeOK, ConnectRefused
<1>2. who[i] \in Borrowers BY <1>1 DEF PoolTypeOK
<1>3. RestTyped' /\ \A b \in Borrowers : b # who[i] => left'[b] = left[b]
  BY <1>1, <1>2, FailedTyped DEF RestTyped, store
<1>4. LetsGo(i, After(who[i], err)) BY <1>1, <1>2, AfterLetsGo
<1>5. HandsOver(i, After(who[i], err), "none", "connecting", "handed") BY <1>1, DiscardHands
<1>6. <<"none", "connecting", "handed">> \in Ways BY DEF Ways
<1>7. Shape' BY <1>1, <1>3, <1>4, <1>5, <1>6, HandOverKeeps
<1>8. SickInv' BY <1>1, <1>5, <1>6, HandOverSick DEF store
<1>9. ~PerRequest => AwayInv' BY <1>1, <1>3, <1>4, <1>5, <1>6, HandOverFair DEF store
<1> QED BY <1>7, <1>8, <1>9 DEF PoolInv

\* A connection is dropped whose caller has given up.
LEMMA AbandonInv == ASSUME PoolInv, ~Warming, NEW i \in Conns, Abandon(i) PROVE PoolInv'
<1>1. /\ Shape /\ PoolTypeOK /\ RestTyped /\ SickInv /\ (~PerRequest => AwayInv)
      /\ conn[i] = "connecting" /\ who[i] = None /\ Discard(i, pc)
      /\ UNCHANGED <<store, sick, open, left, told, away>>
  BY DEF PoolInv, Shape, PoolTypeOK, Abandon
<1>2. RestTyped' BY <1>1 DEF RestTyped, store, told
<1>3. LetsGo(i, pc) BY <1>1 DEF LetsGo
<1>4. HandsOver(i, pc, "none", "connecting", "handed") BY <1>1, DiscardHands
<1>5. <<"none", "connecting", "handed">> \in Ways BY DEF Ways
<1>6. Shape' BY <1>1, <1>2, <1>3, <1>4, <1>5, HandOverKeeps
<1>7. SickInv' BY <1>1, <1>4, <1>5, HandOverSick DEF store
<1>8. ~PerRequest => AwayInv' BY <1>1, <1>3, <1>4, <1>5, HandOverFair DEF store
<1> QED BY <1>6, <1>7, <1>8 DEF PoolInv

\* Of a queue without c, the others wait on, in their order.
LEMMA LeavesQueueIs ==
    ASSUME Shape, NEW c \in Borrowers, pc[c] = "queued"
    PROVE  /\ LeavesQueue(c) \in Seq(Borrowers)
           /\ \A k, l \in DOMAIN LeavesQueue(c) : LeavesQueue(c)[k] = LeavesQueue(c)[l] => k = l
           /\ \A b \in Borrowers : (\E k \in DOMAIN LeavesQueue(c) : LeavesQueue(c)[k] = b)
                                   <=> pc[b] = "queued" /\ b # c
<1> DEFINE at == CHOOSE k \in DOMAIN waiting : waiting[k] = c
           n == Len(waiting)
           pre == SubSeq(waiting, 1, at - 1)  post == SubSeq(waiting, at + 1, n)
           q == LeavesQueue(c)
<1>1. /\ waiting \in Seq(Borrowers)
      /\ \A k, l \in DOMAIN waiting : waiting[k] = waiting[l] => k = l
      /\ \A b \in Borrowers : pc[b] = "queued" <=> \E k \in DOMAIN waiting : waiting[k] = b
  BY DEF Shape, PoolTypeOK, QueueInv
<1>2. n \in Nat /\ DOMAIN waiting = 1..n BY <1>1, LenProperties
<1>3. at \in DOMAIN waiting /\ waiting[at] = c BY <1>1
<1>4. q = pre \o post BY DEF LeavesQueue, RemoveAt
<1> HIDE DEF at, n, q
<1>5. at \in Nat /\ 1 <= at /\ at <= n BY <1>2, <1>3
<1>6. \A k \in 1..n : waiting[k] \in Borrowers BY <1>1, <1>2, ElementOfSeq DEF n
<1>7. /\ pre \in Seq(Borrowers) /\ Len(pre) = at - 1
      /\ \A k \in 1..(at - 1) : pre[k] = waiting[k]
  <2>1. \A k \in 1..(at - 1) : waiting[k] \in Borrowers BY <1>2, <1>5, <1>6
  <2>2. Len(pre) = IF 1 <= at - 1 THEN (at - 1) - 1 + 1 ELSE 0 BY <1>5, <2>1, SubSeqProperties
  <2>3. Len(pre) = at - 1 BY <1>5, <2>2
  <2>4. pre \in Seq(Borrowers) BY <1>5, <2>1, SubSeqProperties
  <2>5. \A k \in 1..((at - 1) - 1 + 1) : pre[k] = waiting[1 + k - 1]
    BY <1>5, <2>1, SubSeqProperties
  <2> HIDE DEF pre
  <2>6. ASSUME NEW k \in 1..(at - 1) PROVE pre[k] = waiting[k]
    <3>1. 1 + k - 1 = k /\ k \in 1..((at - 1) - 1 + 1) BY <1>5
    <3> QED BY <2>5, <3>1
  <2> QED BY <2>3, <2>4, <2>6
<1>8. /\ post \in Seq(Borrowers) /\ Len(post) = n - at
      /\ \A k \in 1..(n - at) : post[k] = waiting[k + at]
  <2>1. \A k \in (at + 1)..n : waiting[k] \in Borrowers BY <1>2, <1>5, <1>6
  <2>2. Len(post) = IF at + 1 <= n THEN n - (at + 1) + 1 ELSE 0 BY <1>2, <1>5, <2>1, SubSeqProperties
  <2>3. Len(post) = n - at BY <1>2, <1>5, <2>2
  <2>4. post \in Seq(Borrowers) BY <1>2, <1>5, <2>1, SubSeqProperties
  <2>5. \A k \in 1..(n - (at + 1) + 1) : post[k] = waiting[at + 1 + k - 1]
    BY <1>2, <1>5, <2>1, SubSeqProperties
  <2> HIDE DEF post
  <2>6. ASSUME NEW k \in 1..(n - at) PROVE post[k] = waiting[k + at]
    <3>1. at + 1 + k - 1 = k + at /\ k \in 1..(n - (at + 1) + 1) BY <1>2, <1>5
    <3> QED BY <2>5, <3>1
  <2> QED BY <2>3, <2>4, <2>6
<1> HIDE DEF pre, post
<1>9. /\ q \in Seq(Borrowers) /\ Len(q) = n - 1
      /\ \A k \in 1..(n - 1) : q[k] = IF k < at THEN waiting[k] ELSE waiting[k + 1]
  <2>1. q \in Seq(Borrowers) /\ Len(q) = Len(pre) + Len(post)
        /\ \A k \in 1..(Len(pre) + Len(post)) :
              q[k] = IF k <= Len(pre) THEN pre[k] ELSE post[k - Len(pre)]
    BY <1>4, <1>7, <1>8, ConcatProperties
  <2>2. Len(pre) + Len(post) = n - 1 BY <1>2, <1>5, <1>7, <1>8
  <2>3. ASSUME NEW k \in 1..(n - 1) PROVE q[k] = IF k < at THEN waiting[k] ELSE waiting[k + 1]
    <3>1. CASE k < at
      <4>1. k <= Len(pre) /\ k \in 1..(at - 1) BY <1>5, <1>7, <3>1
      <4> QED BY <1>7, <2>1, <2>2, <3>1, <4>1
    <3>2. CASE ~(k < at)
      <4>1. ~(k <= Len(pre)) /\ k - Len(pre) \in 1..(n - at) /\ (k - Len(pre)) + at = k + 1
        BY <1>2, <1>5, <1>7, <3>2
      <4> QED BY <1>8, <2>1, <2>2, <3>2, <4>1
    <3> QED BY <3>1, <3>2
  <2> QED BY <2>1, <2>2, <2>3
<1>10. DOMAIN q = 1..(n - 1) BY <1>9, LenProperties
<1>11. \A k, l \in DOMAIN q : q[k] = q[l] => k = l
  <2> SUFFICES ASSUME NEW k \in 1..(n - 1), NEW l \in 1..(n - 1), q[k] = q[l] PROVE k = l BY <1>10
  <2> DEFINE K == IF k < at THEN k ELSE k + 1  L == IF l < at THEN l ELSE l + 1
  <2>1. K \in DOMAIN waiting /\ L \in DOMAIN waiting BY <1>2, <1>5
  <2>2. waiting[K] = waiting[L] BY <1>9
  <2>3. K = L BY <1>1, <2>1, <2>2
  <2> QED BY <1>2, <1>5, <2>3
<1>12. ASSUME NEW b \in Borrowers
       PROVE  (\E k \in DOMAIN q : q[k] = b) <=> pc[b] = "queued" /\ b # c
  <2>1. ASSUME NEW k \in 1..(n - 1), q[k] = b PROVE pc[b] = "queued" /\ b # c
    <3> DEFINE K == IF k < at THEN k ELSE k + 1
    <3>1. K \in DOMAIN waiting /\ K # at BY <1>2, <1>5
    <3>2. waiting[K] = b BY <1>9, <2>1
    <3> QED BY <1>1, <1>3, <3>1, <3>2
  <2>2. ASSUME pc[b] = "queued", b # c PROVE \E k \in 1..(n - 1) : q[k] = b
    <3>1. PICK K \in DOMAIN waiting : waiting[K] = b BY <1>1, <2>2
    <3> DEFINE k == IF K < at THEN K ELSE K - 1
    <3>2. K # at BY <1>3, <2>2, <3>1
    <3>3. k \in 1..(n - 1) /\ (IF k < at THEN k ELSE k + 1) = K BY <1>2, <1>5, <3>1, <3>2
    <3>4. q[k] = waiting[K] BY <1>9, <3>3
    <3> QED BY <3>1, <3>3, <3>4
  <2> QED BY <1>10, <2>1, <2>2
<1> QED BY <1>9, <1>11, <1>12 DEF q

\* Where a caller's timer may fire.
LEMMA TimesOutInv == ASSUME PoolInv, ~Warming, NEW c \in Borrowers, TimesOut(c) PROVE PoolInv'
<1> DEFINE err == TimeoutError(c)  i == Of(c)
<1>1. /\ Shape /\ PoolTypeOK /\ RestTyped /\ SickInv /\ (~PerRequest => AwayInv)
      /\ pc[c] \in Waits /\ left[c] = 0 /\ FailedTry(c, err)
      /\ UNCHANGED <<store, sick, open, effects, away>>
  BY DEF PoolInv, Shape, PoolTypeOK, TimesOut
<1>2. /\ conn \in [Conns -> {"none", "connecting", "idle", "lent"}]
      /\ who \in [Conns -> Borrowers \cup {None}] /\ waiting \in Seq(Borrowers) /\ None \notin Borrowers
      /\ pc \in [Borrowers -> {"new", "queued"} \cup Works \cup Opens \cup Over]
  BY <1>1, PoolAssumption DEF PoolTypeOK, Borrowers
<1>3. RestTyped' /\ \A b \in Borrowers : b # c => left'[b] = left[b]
  BY <1>1, FailedTyped DEF RestTyped, store
<1>4. pc[c] \in Opens => i \in Conns /\ who[i] = c /\ conn[i] = "connecting"
  BY <1>1, OfIs DEF Works, Opens, InTxn
<1> HIDE DEF i, err
<1>5. CASE pc[c] = "opening"
  <2>1. pc[c] \in Opens /\ Discard(i, After(c, err)) BY <1>5 DEF TimesOut, Opens, i, err
  <2>2. LetsGo(i, After(c, err)) BY <1>4, <2>1, AfterLetsGo
  <2>3. HandsOver(i, After(c, err), "none", "connecting", "handed") BY <1>4, <2>1, DiscardHands
  <2>4. <<"none", "connecting", "handed">> \in Ways BY DEF Ways
  <2>5. Shape' BY <1>1, <1>3, <1>4, <2>1, <2>2, <2>3, <2>4, HandOverKeeps
  <2>6. SickInv' BY <1>1, <1>4, <2>1, <2>3, <2>4, HandOverSick DEF store
  <2>7. ~PerRequest => AwayInv'
    BY <1>1, <1>3, <1>4, <2>1, <2>2, <2>3, <2>4, HandOverFair DEF store
  <2> QED BY <2>5, <2>6, <2>7 DEF PoolInv
<1>s. /\ \A k, l \in Conns : who[k] = who[l] /\ who[k] # None => k = l
      /\ \A k \in Conns : conn[k] \in {"none", "idle"} => who[k] = None
      /\ \A k \in Conns : conn[k] = "lent" => who[k] # None /\ pc[who[k]] \in Works
      /\ \A k \in Conns : conn[k] = "connecting" /\ who[k] # None => pc[who[k]] \in Opens
      /\ \A b \in Borrowers : pc[b] \in Works \cup Opens => \E k \in Conns : who[k] = b
  BY <1>1 DEF Shape, SlotsInv
<1>w. /\ \A b \in Prewarms : pc[b] \in {"new", "opening", "held", "failed", "done"}
      /\ \A b \in Prewarms : pc[b] \in {"opening", "held", "failed"} => b \in Warmed
      /\ \A b \in Borrowers \ Prewarms : pc[b] # "held"
      /\ (\E b \in Borrowers \ Prewarms : pc[b] # "new") =>
             \A w \in Warmed : pc[w] \in {"done", "failed"}
  BY <1>1 DEF Shape, WarmInv
<1>6. /\ Over \cap (Works \cup Opens) = {} /\ Works \cap Opens = {} /\ Waits = {"queued"} \cup Opens
      /\ "new" \notin Over \cup Works \cup Opens /\ "queued" \notin Over \cup Works \cup Opens
      /\ {"sleep", "done"} \subseteq Over /\ "held" \notin Over /\ "new" # "queued"
      /\ Opens = {"opening", "handed"} /\ "held" \in Works
  BY DEF Over, Works, Opens, InTxn, Waits
<1>7. CASE pc[c] # "opening"
  <2>1. c \notin Prewarms BY <1>1, <1>6, <1>7, <1>w
  <2>2. \E v \in {"sleep", "done"} : After(c, err) = [pc EXCEPT ![c] = v] BY <2>1 DEF After
  <2>3. PICK v \in {"sleep", "done"} : After(c, err) = [pc EXCEPT ![c] = v] BY <2>2
  <2>4. pc' = [pc EXCEPT ![c] = v] /\ conn' = conn
    BY <1>7, <2>3 DEF TimesOut, err
  <2>5. v \in Over /\ (\A b \in Borrowers : b # c => pc'[b] = pc[b]) /\ pc'[c] = v
    BY <1>2, <1>6, <2>3, <2>4
  <2>6. \A w \in Warmed : pc[w] # "new" /\ w # c
    <3>1. \A w \in Warmed : pc[w] \in {"done", "failed"} BY <1>1, <1>6, <2>1, <1>w
    <3> QED BY <1>1, <1>6, <3>1
  <2>7. WarmInv'
    <3>1. Warmed \subseteq Prewarms /\ Prewarms \subseteq Borrowers BY WarmedIs DEF Borrowers
    <3> QED BY <1>1, <1>6, <1>w, <2>1, <2>5, <2>6, <3>1 DEF WarmInv
  <2>8. SickInv' BY <1>1, <2>4 DEF SickInv, store
  <2>9. ASSUME ~PerRequest PROVE AwayInv'
    <3>1. \A b \in Borrowers : pc'[b] \in Waits => b # c /\ pc'[b] = pc[b] /\ left'[b] = left[b]
      BY <1>3, <1>6, <2>5
    <3>2. storeUp' = storeUp /\ away' = away BY <1>1 DEF store
    <3> QED BY <1>1, <1>6, <2>4, <2>9, <3>1, <3>2 DEF AwayInv
  <2>10. CASE pc[c] = "handed"
    <3>1. pc[c] \in Opens /\ who' = [who EXCEPT ![i] = None] /\ waiting' = waiting
      BY <1>6, <2>10 DEF TimesOut, i
    <3>2. PoolTypeOK' BY <1>2, <1>3, <2>4, <2>5, <3>1 DEF PoolTypeOK
    <3>3. SlotsInv'
      <4>1. \A k \in Conns : k # i => who[k] # c BY <1>2, <1>4, <1>s, <3>1
      <4>2. who'[i] = None /\ \A k \in Conns : k # i => who'[k] = who[k] BY <1>2, <1>4, <3>1
      <4> QED BY <1>2, <1>4, <1>6, <1>s, <2>4, <2>5, <3>1, <4>1, <4>2 DEF SlotsInv
    <3>4. QueueInv'
      <4>1. \A b \in Borrowers : pc'[b] = "queued" <=> pc[b] = "queued"
        BY <1>6, <2>5, <2>10
      <4> QED BY <1>1, <2>4, <3>1, <4>1 DEF Shape, QueueInv
    <3> QED BY <2>7, <2>8, <2>9, <3>2, <3>3, <3>4 DEF PoolInv, Shape
  <2>11. CASE pc[c] = "queued"
    <3>1. who' = who /\ waiting' = LeavesQueue(c) BY <2>11 DEF TimesOut
    <3>2. /\ waiting' \in Seq(Borrowers)
          /\ \A k, l \in DOMAIN waiting' : waiting'[k] = waiting'[l] => k = l
          /\ \A b \in Borrowers : (\E k \in DOMAIN waiting' : waiting'[k] = b)
                                  <=> pc[b] = "queued" /\ b # c
      BY <1>1, <2>11, <3>1, LeavesQueueIs
    <3>3. PoolTypeOK' BY <1>2, <1>3, <2>4, <2>5, <3>1, <3>2 DEF PoolTypeOK
    <3>4. SlotsInv'
      <4>1. \A k \in Conns : who[k] # c BY <1>1, <1>6, <2>11, OfIs
      <4> QED BY <1>2, <1>6, <1>s, <2>4, <2>5, <3>1, <4>1 DEF SlotsInv
    <3>5. QueueInv'
      <4>1. \A b \in Borrowers : pc'[b] = "queued" <=> pc[b] = "queued" /\ b # c
        BY <1>6, <2>5
      <4>2. waiting # <<>>
        <5>1. \E k \in DOMAIN waiting : waiting[k] = c BY <1>1, <2>11 DEF Shape, QueueInv
        <5>2. waiting = <<>> => DOMAIN waiting = {} OBVIOUS
        <5> QED BY <5>1, <5>2
      <4>3. \A k \in Conns : conn[k] \in {"connecting", "lent"}
        BY <1>1, <4>2 DEF Shape, QueueInv
      <4> QED BY <2>4, <3>2, <4>1, <4>3 DEF QueueInv
    <3> QED BY <2>7, <2>8, <2>9, <3>3, <3>4, <3>5 DEF PoolInv, Shape
  <2> QED BY <1>1, <1>6, <1>7, <2>10, <2>11
<1> QED BY <1>5, <1>7

\* A caller in a transaction has a connection, and is no prewarm.
LEMMA AtWork ==
    ASSUME Shape, NEW c \in Borrowers, pc[c] \in InTxn
    PROVE  /\ c \notin Prewarms /\ Of(c) \in Conns /\ who[Of(c)] = c /\ conn[Of(c)] = "lent"
           /\ \A v \in {"sleep", "done"} : LetsGo(Of(c), [pc EXCEPT ![c] = v])
           /\ \A err : LetsGo(Of(c), After(c, err))
<1>1. pc[c] \in Works BY DEF Works
<1>2. c \notin Prewarms BY DEF Shape, WarmInv, InTxn
<1>3. Of(c) \in Conns /\ who[Of(c)] = c /\ conn[Of(c)] = "lent" BY <1>1, OfIs
<1> QED BY <1>2, <1>3, AfterLetsGo DEF LetsGo

\* A statement of a transaction.
LEMMA StatementInv == ASSUME PoolInv, ~Warming, NEW c \in Borrowers, Statement(c) PROVE PoolInv'
<1>1. /\ Shape /\ PoolTypeOK /\ RestTyped /\ SickInv /\ (~PerRequest => AwayInv)
      /\ pc[c] \in {"begin", "op"} /\ Of(c) \notin sick
      /\ pc' = [pc EXCEPT ![c] = IF @ = "begin" THEN "op" ELSE "commit"]
      /\ open' = open \cup {Of(c)}
      /\ UNCHANGED <<store, conn, who, sick, waiting, left, told, away>>
  BY DEF PoolInv, Shape, PoolTypeOK, Statement
<1>2. /\ conn \in [Conns -> {"none", "connecting", "idle", "lent"}]
      /\ who \in [Conns -> Borrowers \cup {None}] /\ waiting \in Seq(Borrowers)
      /\ pc \in [Borrowers -> {"new", "queued"} \cup Works \cup Opens \cup Over]
  BY <1>1 DEF PoolTypeOK
<1>3. pc[c] \in InTxn /\ c \notin Prewarms /\ Of(c) \in Conns BY <1>1, AtWork DEF InTxn
<1>4. /\ InTxn \subseteq Works /\ InTxn \cap (Opens \cup Waits \cup {"new", "queued", "held"}) = {}
      /\ Opens \cap Works = {} /\ "queued" \in Waits /\ Opens \subseteq Waits
      /\ "done" \notin InTxn /\ "failed" \notin InTxn
  BY DEF InTxn, Works, Opens, Waits
<1>5. pc'[c] \in InTxn /\ \A b \in Borrowers : b # c => pc'[b] = pc[b] BY <1>1, <1>2 DEF InTxn
<1>6. PoolTypeOK' BY <1>1, <1>2, <1>3, <1>4, <1>5 DEF PoolTypeOK, RestTyped, store, told
<1>7. SlotsInv' BY <1>1, <1>2, <1>3, <1>4, <1>5 DEF Shape, SlotsInv
<1>8. QueueInv' BY <1>1, <1>3, <1>4, <1>5 DEF Shape, QueueInv
<1>9. WarmInv'
  <2>1. Warmed \subseteq Prewarms /\ Prewarms \subseteq Borrowers BY WarmedIs DEF Borrowers
  <2>2. \A w \in Warmed : pc[w] # "new" BY <1>1, <1>3, <1>4, Cold
  <2> QED BY <1>1, <1>3, <1>4, <1>5, <2>1, <2>2 DEF Shape, WarmInv
<1>10. SickInv' BY <1>1 DEF SickInv, store
<1>11. ~PerRequest => AwayInv' BY <1>1, <1>4, <1>5 DEF AwayInv, store
<1> QED BY <1>6, <1>7, <1>8, <1>9, <1>10, <1>11 DEF PoolInv, Shape

\* A good connection that its caller is through with: kept, or given up when
\* every request has a connection of its own.
LEMMA GivesBack ==
    ASSUME PoolInv, ~Warming, NEW c \in Borrowers, pc[c] \in InTxn, Of(c) \notin sick,
           NEW callers, LetsGo(Of(c), callers), RestTyped',
           IF PerRequest THEN Discard(Of(c), callers) ELSE Return({Of(c)}, callers),
           open' = open \ {Of(c)}, sick' = sick, storeUp' = storeUp, away' = away,
           \A b \in Borrowers : b # c => left'[b] = left[b]
    PROVE  PoolInv'
<1>1. Shape /\ PoolTypeOK /\ SickInv /\ (~PerRequest => AwayInv) BY DEF PoolInv, Shape
<1>2. Of(c) \in Conns /\ who[Of(c)] = c /\ conn[Of(c)] = "lent" BY <1>1, AtWork
<1>3. storeUp BY <1>1, <1>2 DEF SickInv, PoolTypeOK, RestTyped
<1>4. CASE PerRequest
  <2>1. HandsOver(Of(c), callers, "none", "connecting", "handed") BY <1>2, <1>4, DiscardHands
  <2>2. <<"none", "connecting", "handed">> \in Ways BY DEF Ways
  <2>3. Shape' BY <1>1, <1>2, <2>1, <2>2, HandOverKeeps
  <2>4. SickInv' BY <1>1, <1>2, <2>1, <2>2, HandOverSick
  <2> QED BY <1>4, <2>3, <2>4 DEF PoolInv
<1>5. CASE ~PerRequest
  <2>1. HandsOver(Of(c), callers, "idle", "lent", "begin") BY <1>1, <1>2, <1>5, ReturnHands
  <2>2. <<"idle", "lent", "begin">> \in Ways BY DEF Ways
  <2>3. Shape' BY <1>1, <1>2, <2>1, <2>2, HandOverKeeps
  <2>4. SickInv' BY <1>1, <1>2, <1>3, <2>1, <2>2, HandOverSick
  <2>5. AwayInv' BY <1>1, <1>2, <1>5, <2>1, <2>2, HandOverFair
  <2> QED BY <1>5, <2>3, <2>4, <2>5 DEF PoolInv
<1> QED BY <1>4, <1>5

\* A transaction commits.
LEMMA CommitInv == ASSUME PoolInv, ~Warming, NEW c \in Borrowers, CommitTxn(c) PROVE PoolInv'
<1>1. /\ Shape /\ PoolTypeOK /\ RestTyped /\ pc[c] \in InTxn /\ Of(c) \notin sick
      /\ open' = open \ {Of(c)} /\ result' = [result EXCEPT ![c] = "ok"]
      /\ IF PerRequest THEN Discard(Of(c), [pc EXCEPT ![c] = "done"])
                       ELSE Return({Of(c)}, [pc EXCEPT ![c] = "done"])
      /\ UNCHANGED <<store, sick, left, tries, away>>
  BY DEF PoolInv, Shape, PoolTypeOK, CommitTxn, InTxn
<1>2. RestTyped' BY <1>1 DEF RestTyped, store
<1>3. LetsGo(Of(c), [pc EXCEPT ![c] = "done"]) BY <1>1, AtWork
<1> QED BY <1>1, <1>2, <1>3, GivesBack DEF store

\* The store refuses a statement.
LEMMA RefusedInv == ASSUME PoolInv, ~Warming, NEW c \in Borrowers, Refused(c) PROVE PoolInv'
<1>1. /\ Shape /\ PoolTypeOK /\ RestTyped /\ pc[c] \in InTxn /\ Of(c) \notin sick
      /\ open' = open \ {Of(c)} /\ FailedTry(c, "refused")
      /\ IF PerRequest THEN Discard(Of(c), After(c, "refused"))
                       ELSE Return({Of(c)}, After(c, "refused"))
      /\ UNCHANGED <<store, sick, away>>
  BY DEF PoolInv, Shape, PoolTypeOK, Refused, InTxn
<1>2. RestTyped' /\ \A b \in Borrowers : b # c => left'[b] = left[b]
  BY <1>1, FailedTyped DEF RestTyped, store
<1>3. LetsGo(Of(c), After(c, "refused")) BY <1>1, AtWork
<1> QED BY <1>1, <1>2, <1>3, GivesBack DEF store

\* A connection ends under its caller.
LEMMA LostInv == ASSUME PoolInv, ~Warming, NEW c \in Borrowers, Lost(c) PROVE PoolInv'
<1>1. /\ Shape /\ PoolTypeOK /\ RestTyped /\ SickInv /\ (~PerRequest => AwayInv)
      /\ pc[c] \in InTxn /\ Of(c) \in sick /\ FailedTry(c, "lost")
      /\ Discard(Of(c), After(c, "lost")) /\ sick' = sick \ {Of(c)}
      /\ away' = Timed /\ UNCHANGED <<store, open>>
  BY DEF PoolInv, Shape, PoolTypeOK, Lost, Destroyed
<1>2. RestTyped' BY <1>1, FailedTyped DEF RestTyped, store
<1>3. Of(c) \in Conns /\ who[Of(c)] = c /\ LetsGo(Of(c), After(c, "lost")) BY <1>1, AtWork
<1>4. HandsOver(Of(c), After(c, "lost"), "none", "connecting", "handed") BY <1>1, <1>3, DiscardHands
<1>5. <<"none", "connecting", "handed">> \in Ways BY DEF Ways
<1>6. Shape' BY <1>1, <1>2, <1>3, <1>4, <1>5, HandOverKeeps
<1>7. SickInv' BY <1>1, <1>3, <1>4, <1>5, HandOverSick DEF store
<1>8. AwayInv'
  <2> DEFINE callers == After(c, "lost")  h == Head(waiting)
  <2>1. /\ callers \in [Borrowers -> {"new", "queued"} \cup Works \cup Opens \cup Over]
        /\ \A b \in Borrowers : b # c => callers[b] = pc[b]
        /\ callers[c] \in Over
    BY <1>1, <1>3, LetsGoIs
  <2>2. Over \cap Waits = {} /\ "queued" \in Waits /\ Opens \subseteq Waits BY DEF Over, Waits, Opens
  <2> HIDE DEF callers
  <2>3. \A b \in Borrowers : callers[b] \in Waits => pc[b] \in Waits BY <2>1, <2>2
  <2>4. \A b \in Borrowers : pc'[b] \in Waits => pc[b] \in Waits
    <3>1. CASE waiting = <<>> BY <1>4, <2>3, <3>1 DEF HandsOver, callers
    <3>2. CASE waiting # <<>>
      <4>1. h \in Borrowers /\ pc[h] = "queued" BY <1>1, <3>2, QueueHead
      <4>2. pc' = [callers EXCEPT ![h] = "handed"] BY <1>4, <3>2 DEF HandsOver, callers
      <4> HIDE DEF h
      <4> QED BY <2>1, <2>2, <2>3, <4>1, <4>2
    <3> QED BY <3>1, <3>2
  <2>5. \A b \in Borrowers : pc'[b] \in Waits => b \in away' BY <1>1, <2>4 DEF Timed
  <2> QED BY <2>2, <2>5 DEF AwayInv
<1> QED BY <1>6, <1>7, <1>8 DEF PoolInv

\* Steps that move no caller.
LEMMA StillInv ==
    ASSUME PoolInv, RestTyped',
           conn' = conn \/ \E i \in Conns : conn[i] = "idle" /\ conn' = [conn EXCEPT ![i] = "none"],
           UNCHANGED <<who, waiting, pc>>, SickInv', ~PerRequest => AwayInv'
    PROVE  PoolInv'
<1>1. Shape /\ PoolTypeOK BY DEF PoolInv, Shape
<1>2. conn \in [Conns -> {"none", "connecting", "idle", "lent"}] BY <1>1 DEF PoolTypeOK
<1>3. /\ conn' \in [Conns -> {"none", "connecting", "idle", "lent"}]
      /\ \A i \in Conns : conn'[i] = conn[i] \/ (conn[i] = "idle" /\ conn'[i] = "none")
  BY <1>2
<1>4. PoolTypeOK' BY <1>1, <1>3 DEF PoolTypeOK
<1>5. SlotsInv' BY <1>1, <1>3 DEF Shape, SlotsInv
<1>6. QueueInv' BY <1>1, <1>3 DEF Shape, QueueInv
<1>7. WarmInv'
  <2>1. \A i \in Conns : conn[i] = "none" \/ who[i] # None => conn'[i] = "none" \/ who[i] # None
    BY <1>3
  <2> QED BY <1>1, <2>1 DEF Shape, WarmInv
<1> QED BY <1>4, <1>5, <1>6, <1>7 DEF PoolInv, Shape

\* A connection ends that nobody has.
LEMMA IdleEndsInv == ASSUME PoolInv, NEW i \in Conns, IdleEnds(i) PROVE PoolInv'
<1>1. /\ PoolTypeOK /\ RestTyped /\ SickInv /\ (~PerRequest => AwayInv)
      /\ conn[i] = "idle" /\ conn' = [conn EXCEPT ![i] = "none"] /\ sick' = sick \ {i}
      /\ UNCHANGED <<store, who, open, waiting, pc, left, told, away>>
  BY DEF PoolInv, Shape, PoolTypeOK, IdleEnds
<1>2. RestTyped' BY <1>1 DEF RestTyped, store, told
<1>3. SickInv' BY <1>1 DEF SickInv, PoolTypeOK, store
<1>4. ~PerRequest => AwayInv' BY <1>1 DEF AwayInv, PoolTypeOK, store
<1> QED BY <1>1, <1>2, <1>3, <1>4, StillInv

\* A prewarmed connection ends with nobody listening.
LEMMA UncaughtInv == ASSUME PoolInv, Uncaught PROVE PoolInv'
<1>1. /\ RestTyped /\ SickInv /\ (~PerRequest => AwayInv)
      /\ UNCHANGED <<storeUp, conn, who, sick, open, waiting, pc, left, told, away>>
  BY DEF PoolInv, Shape, PoolTypeOK, Uncaught
<1>2. RestTyped' BY <1>1 DEF RestTyped, told
<1>3. SickInv' BY <1>1 DEF SickInv
<1>4. ~PerRequest => AwayInv' BY <1>1 DEF AwayInv
<1> QED BY <1>1, <1>2, <1>3, <1>4, StillInv

\* The store goes away or comes back.
LEMMA StoreTurnsInv == ASSUME PoolInv, StoreTurns PROVE PoolInv'
<1> DEFINE lost == IF storeUp THEN {i \in Conns : conn[i] \in {"idle", "lent"}} ELSE {}
<1>1. /\ RestTyped /\ SickInv /\ (~PerRequest => AwayInv)
      /\ storeUp' = ~storeUp /\ sick' = sick \cup lost /\ open' = open \ lost
      /\ away' = IF storeUp THEN Timed ELSE away
      /\ UNCHANGED <<conn, who, waiting, pc, left, told>>
  BY DEF PoolInv, Shape, PoolTypeOK, StoreTurns
<1>2. RestTyped' BY <1>1 DEF RestTyped, told
<1>3. SickInv' BY <1>1 DEF SickInv
<1>4. ~PerRequest => AwayInv'
  <2>1. Opens \subseteq Waits /\ "queued" \in Waits BY DEF Waits, Opens
  <2>2. CASE storeUp BY <1>1, <2>1, <2>2 DEF AwayInv, Timed
  <2>3. CASE ~storeUp BY <1>1, <2>1, <2>3 DEF AwayInv
  <2> QED BY <2>2, <2>3
<1> QED BY <1>1, <1>2, <1>3, <1>4, StillInv

\* One connection's socket ends.
LEMMA BreakInv == ASSUME PoolInv, NEW i \in Conns, Break(i) PROVE PoolInv'
<1>1. /\ RestTyped /\ SickInv /\ (~PerRequest => AwayInv)
      /\ conn[i] \in {"idle", "lent"} /\ i \notin sick
      /\ sick' = sick \cup {i} /\ open' = open \ {i} /\ away' = Timed
      /\ UNCHANGED <<storeUp, conn, who, waiting, pc, left, told>>
  BY DEF PoolInv, Shape, PoolTypeOK, Break
<1>2. RestTyped' BY <1>1 DEF RestTyped, told
<1>3. SickInv' BY <1>1 DEF SickInv
<1>4. AwayInv'
  <2>1. Opens \subseteq Waits /\ "queued" \in Waits BY DEF Waits, Opens
  <2> QED BY <1>1, <2>1 DEF AwayInv, Timed
<1> QED BY <1>1, <1>2, <1>3, <1>4, StillInv

\* Time passes.
LEMMA TickInv == ASSUME PoolInv, PoolTick PROVE PoolInv'
<1>1. /\ Shape /\ PoolTypeOK /\ RestTyped /\ SickInv /\ (~PerRequest => AwayInv)
      /\ \A c \in Timed : left[c] > 0
      /\ storeUp => \A i \in Conns : conn[i] # "connecting"
      /\ left' = [c \in Borrowers |-> IF c \in Timed THEN left[c] - 1 ELSE 0]
      /\ away' = away \cap Timed
      /\ UNCHANGED <<store, conn, who, sick, open, waiting, pc, tries, result>>
  BY DEF PoolInv, Shape, PoolTypeOK, PoolTick
<1>2. left' \in [Borrowers -> Nat] BY <1>1 DEF RestTyped, Timed
<1>3. RestTyped' BY <1>1, <1>2 DEF RestTyped, store
<1>4. SickInv' BY <1>1 DEF SickInv, store
<1>5. ASSUME ~PerRequest PROVE AwayInv'
  <2>1. Opens \subseteq Waits /\ "queued" \in Waits BY DEF Waits, Opens
  <2> SUFFICES ASSUME NEW c \in Borrowers, c \notin away', pc[c] \in Waits
               PROVE  storeUp /\ pc[c] \notin Opens
                      /\ (pc[c] = "queued" => \A i \in Conns : conn[i] = "lent")
    BY <1>1, <2>1 DEF AwayInv, store
  <2>2. c \in Timed BY DEF Timed
  <2>3. c \notin away BY <1>1, <2>2
  <2>4. storeUp BY <1>1, <1>5, <2>3 DEF AwayInv
  <2>5. \A i \in Conns : conn[i] # "connecting" BY <1>1, <2>4
  <2>6. ASSUME pc[c] \in Opens PROVE FALSE
    <3>1. pc[c] \notin Works BY <2>6 DEF Opens, Works, InTxn
    <3>2. Of(c) \in Conns /\ conn[Of(c)] = "connecting" BY <1>1, <2>6, <3>1, OfIs
    <3> QED BY <2>5, <3>2
  <2>7. ASSUME pc[c] = "queued" PROVE \A i \in Conns : conn[i] = "lent"
    <3>1. \E k \in DOMAIN waiting : waiting[k] = c BY <1>1, <2>7 DEF Shape, QueueInv
    <3>2. waiting # <<>> BY <3>1
    <3>3. \A i \in Conns : conn[i] \in {"connecting", "lent"} BY <1>1, <3>2 DEF Shape, QueueInv
    <3> QED BY <2>5, <3>3
  <2> QED BY <2>4, <2>6, <2>7
<1> QED BY <1>1, <1>3, <1>4, <1>5, StillInv

\* When the prewarm lets go nobody else has begun, so all it held is idle.
LEMMA PrewarmReleaseInv == ASSUME PoolInv, PrewarmRelease PROVE PoolInv'
<1> DEFINE S == {i \in Conns : conn[i] = "lent" /\ who[i] \in Prewarms}
           callers == [c \in Borrowers |-> IF c \in Prewarms THEN "done" ELSE pc[c]]
<1>1. /\ Shape /\ PoolTypeOK /\ RestTyped /\ SickInv /\ PrewarmSettled /\ Return(S, callers)
      /\ UNCHANGED <<store, sick, open, left, told, away>>
  BY DEF PoolInv, Shape, PoolTypeOK, PrewarmRelease
<1>2. /\ conn \in [Conns -> {"none", "connecting", "idle", "lent"}]
      /\ who \in [Conns -> Borrowers \cup {None}] /\ waiting \in Seq(Borrowers)
      /\ pc \in [Borrowers -> {"new", "queued"} \cup Works \cup Opens \cup Over]
  BY <1>1 DEF PoolTypeOK
<1>3. Warmed \subseteq Prewarms /\ Prewarms \subseteq Borrowers BY WarmedIs DEF Borrowers
<1>4. \A c \in Borrowers \ Prewarms : pc[c] = "new"
  <2>1. PICK w \in Warmed : pc[w] = "held" BY <1>1 DEF PrewarmSettled
  <2> QED BY <1>1, <2>1 DEF Shape, WarmInv
<1>5. \A c \in Prewarms : pc[c] \in {"new", "held", "failed", "done"}
  BY <1>1, <1>3 DEF Shape, WarmInv, PrewarmSettled
<1>6. waiting = <<>>
  <2>1. \A c \in Borrowers : pc[c] # "queued" BY <1>4, <1>5
  <2>2. ~\E c \in Borrowers : \E k \in DOMAIN waiting : waiting[k] = c
    BY <1>1, <2>1 DEF Shape, QueueInv
  <2>3. \A k \in 1..Len(waiting) : waiting[k] \in Borrowers BY <1>2, ElementOfSeq
  <2>4. DOMAIN waiting = 1..Len(waiting) /\ Len(waiting) \in Nat BY <1>2, LenProperties
  <2>5. ASSUME waiting # <<>> PROVE FALSE
    <3>1. Len(waiting) \in Nat \ {0} BY <1>2, <2>5, EmptySeq
    <3>2. 1 \in 1..Len(waiting) BY <3>1
    <3> QED BY <2>2, <2>3, <2>4, <3>2
  <2> QED BY <2>5
<1>7. \A i \in Conns : conn[i] = "lent" => i \in S
  <2> SUFFICES ASSUME NEW i \in Conns, conn[i] = "lent" PROVE who[i] \in Prewarms OBVIOUS
  <2>1. who[i] \in Borrowers /\ pc[who[i]] \in Works BY <1>1, <1>2 DEF Shape, SlotsInv
  <2>2. "new" \notin Works BY DEF Works, InTxn
  <2> QED BY <1>4, <2>1, <2>2
<1>8. /\ conn' = [i \in Conns |-> IF i \in S THEN "idle" ELSE conn[i]]
      /\ who' = [i \in Conns |-> IF i \in S THEN None ELSE who[i]]
      /\ pc' = callers /\ waiting' = <<>>
  <2> DEFINE ord == SetToSeq(S)
             n == IF Len(waiting) < Len(ord) THEN Len(waiting) ELSE Len(ord)
             To(j) == waiting[CHOOSE k \in 1..Len(ord) : ord[k] = j]
             Lent == {ord[k] : k \in 1..n}
  <2>1. IsFiniteSet(S) BY FS_Subset, PoolAssumption
  <2>2. Cardinality(S) \in Nat /\ ExistsBijection(1..Cardinality(S), S) BY <2>1, FS_CardinalityType
  <2>3. \E f \in [1..Cardinality(S) -> S] : IsInjective(f)
    BY <2>2 DEF ExistsBijection, Bijection, Injection
  <2>4. ord \in [1..Cardinality(S) -> S] BY <2>3 DEF SetToSeq
  <2> HIDE DEF ord, S, callers
  <2>5. ord \in Seq(S)
    <3>1. ord \in UNION {[1..m -> S] : m \in Nat} BY <2>2, <2>4
    <3> QED BY <3>1, SeqDef, Zenon
  <2>6. Len(ord) \in Nat BY <2>5, LenProperties
  <2>7. Len(waiting) = 0 BY <1>6
  <2>8. n = 0 BY <2>6, <2>7
  <2>9. /\ conn' = [j \in Conns |-> IF j \in Lent THEN "lent" ELSE IF j \in S THEN "idle" ELSE conn[j]]
        /\ who' = [j \in Conns |-> IF j \in Lent THEN To(j) ELSE IF j \in S THEN None ELSE who[j]]
        /\ pc' = [c \in Borrowers |-> IF \E j \in Lent : To(j) = c THEN Got(c) ELSE callers[c]]
        /\ waiting' = SubSeq(waiting, n + 1, Len(waiting))
    BY <1>1 DEF Return, ord
  <2> HIDE DEF n
  <2>10. Lent = {} BY <2>8
  <2> HIDE DEF Lent
  <2>11. waiting' = <<>>
    <3>1. waiting' = SubSeq(waiting, 1, 0) BY <2>7, <2>8, <2>9
    <3> QED BY <3>1, SubSeqEmpty
  <2>12. callers = [c \in Borrowers |-> callers[c]] BY DEF callers
  <2> QED BY <2>9, <2>10, <2>11, <2>12
<1> HIDE DEF S
<1>9. S \subseteq Conns /\ \A i \in S : conn[i] = "lent" BY DEF S
<1>10. /\ \A c \in Borrowers : pc'[c] = IF c \in Prewarms THEN "done" ELSE pc[c]
       /\ \A i \in Conns : i \in S => conn'[i] = "idle" /\ who'[i] = None
       /\ \A i \in Conns : i \notin S => conn'[i] = conn[i] /\ who'[i] = who[i] /\ conn[i] # "lent"
  BY <1>2, <1>7, <1>8
<1>11. RestTyped' BY <1>1 DEF RestTyped, store, told
<1>12. \A i \in Conns : conn[i] = "connecting" => who[i] = None
  <2> SUFFICES ASSUME NEW i \in Conns, conn[i] = "connecting", who[i] # None PROVE FALSE OBVIOUS
  <2>1. who[i] \in Borrowers /\ pc[who[i]] \in Opens BY <1>1, <1>2 DEF Shape, SlotsInv
  <2> QED BY <1>4, <1>5, <2>1 DEF Opens
<1>13. PoolTypeOK'
  <2>1. "done" \in Over BY DEF Over
  <2> QED BY <1>2, <1>8, <1>11, <2>1, EmptySeq DEF PoolTypeOK
<1>14. \A c \in Borrowers : pc'[c] \in {"new", "done"} BY <1>4, <1>10
<1>15. {"new", "done", "queued"} \cap (Works \cup Opens) = {} /\ {"new", "done"} \cap Waits = {}
       /\ "queued" \in Waits /\ Opens \subseteq Waits
  BY DEF Works, Opens, InTxn, Waits
<1>16. SlotsInv'
  <2>1. \A i \in Conns : who'[i] = None BY <1>1, <1>2, <1>10, <1>12 DEF Shape, SlotsInv
  <2>2. \A i \in Conns : conn'[i] # "lent" BY <1>10
  <2> QED BY <1>14, <1>15, <2>1, <2>2 DEF SlotsInv
<1>17. QueueInv'
  <2>1. DOMAIN waiting' = {} BY <1>8
  <2> QED BY <1>8, <1>14, <2>1 DEF QueueInv
<1>18. WarmInv' BY <1>3, <1>4, <1>10 DEF WarmInv
<1>19. SickInv' BY <1>1, <1>9, <1>10 DEF SickInv, store
<1>20. AwayInv' BY <1>14, <1>15 DEF AwayInv
<1> QED BY <1>13, <1>16, <1>17, <1>18, <1>19, <1>20 DEF PoolInv, Shape

\* An empty pool.
LEMMA PoolInvInit == PoolInit => PoolInv
<1> SUFFICES ASSUME PoolInit PROVE PoolInv OBVIOUS
<1>1. /\ storeUp \in BOOLEAN /\ sick = {} /\ open = {} /\ waiting = <<>>
      /\ conn = [i \in Conns |-> "none"] /\ who = [i \in Conns |-> None]
      /\ pc = [c \in Borrowers |-> "new"] /\ left = [c \in Borrowers |-> 0]
      /\ tries = [c \in Borrowers |-> 0] /\ result = [c \in Borrowers |-> "none"]
  BY DEF PoolInit
<1>2. PoolTypeOK BY <1>1, EmptySeq DEF PoolTypeOK, RestTyped
<1>3. Warmed \subseteq Prewarms /\ Prewarms \subseteq Borrowers BY WarmedIs DEF Borrowers
<1>4. "new" \notin Works \cup Opens \cup Waits BY DEF Works, Opens, InTxn, Waits
<1>5. SlotsInv BY <1>1, <1>4 DEF SlotsInv
<1>6. QueueInv
  <2>1. DOMAIN waiting = {} BY <1>1
  <2> QED BY <1>1, <2>1 DEF QueueInv
<1>7. WarmInv BY <1>1, <1>3 DEF WarmInv
<1>8. SickInv BY <1>1 DEF SickInv
<1>9. AwayInv
  <2>1. "queued" \in Waits /\ Opens \subseteq Waits BY DEF Waits, Opens
  <2> QED BY <1>1, <1>4, <2>1 DEF AwayInv
<1> QED BY <1>2, <1>5, <1>6, <1>7, <1>8, <1>9 DEF PoolInv, Shape

\* Every step keeps slots, queue and callers in agreement.
LEMMA PoolInvStep == PoolInv /\ [PoolNext]_poolVars => PoolInv'
<1> SUFFICES ASSUME PoolInv, [PoolNext]_poolVars PROVE PoolInv' OBVIOUS
<1>1. CASE PrewarmConnect BY <1>1, PrewarmConnectInv
<1>2. ASSUME ~Warming, NEW c \in Borrowers, Call(c) \/ Work(c) PROVE PoolInv'
  BY <1>2, CallInv, RetryInv, StatementInv, CommitInv, RefusedInv, LostInv, TimesOutInv DEF Work
<1>3. ASSUME ~Warming, NEW i \in Conns, Pool(i) PROVE PoolInv'
  BY <1>3, ConnectOkInv, AbandonInv, IdleEndsInv, BreakInv, ConnectRefusedInv DEF Pool
<1>4. CASE PrewarmRelease BY <1>4, PrewarmReleaseInv
<1>5. CASE Uncaught BY <1>5, UncaughtInv
<1>6. CASE StoreTurns BY <1>6, StoreTurnsInv
<1>7. CASE PoolTick BY <1>7, TickInv
<1>8. CASE UNCHANGED poolVars
  <2>1. UNCHANGED <<storeUp, conn, who, sick, open, waiting, pc, left, tries, result, away>>
    BY <1>8 DEF poolVars
  <2>2. RestTyped' /\ SickInv' /\ (~PerRequest => AwayInv')
    BY <2>1 DEF PoolInv, Shape, PoolTypeOK, RestTyped, SickInv, AwayInv
  <2> QED BY <2>1, <2>2, StillInv
<1> QED BY <1>1, <1>2, <1>3, <1>4, <1>5, <1>6, <1>7, <1>8 DEF PoolNext

\* The slots, the queue and the callers agree, for any pool.
THEOREM PoolInvHolds == PoolSpec => []PoolInv
BY PoolInvInit, PoolInvStep, PTL DEF PoolSpec

-----------------------------------------------------------------------------
\* Every connection is at work when the pool counts as many of them as it has slots.
LEMMA SaturatedIs ==
    ASSUME PoolInv, Saturated
    PROVE  \A i \in Conns : conn[i] = "lent"
<1> DEFINE T == {i \in Conns : conn[i] \in {"idle", "lent"}}
<1>1. IsFiniteSet(Conns) /\ T \in SUBSET Conns BY PoolAssumption
<1>2. Cardinality(T) <= Cardinality(Conns) /\ (Cardinality(Conns) = Cardinality(T) => Conns = T)
  BY <1>1, FS_Subset
<1>3. Cardinality(T) >= Cardinality(Conns) BY DEF Saturated, ConnectedCount
<1>4. Cardinality(T) \in Nat /\ Cardinality(Conns) \in Nat BY <1>1, FS_Subset, FS_CardinalityType
<1>5. Conns = T BY <1>2, <1>3, <1>4
<1> QED BY <1>5 DEF Saturated

\* What a caller is told of a failed attempt, when it is told at all.
LEMMA Told ==
    ASSUME PoolTypeOK, NEW c \in Borrowers, NEW err, FailedTry(c, err), NEW b \in Borrowers,
           result'[b] # result[b]
    PROVE  b = c /\ result'[b] = err
BY DEF FailedTry, PoolTypeOK, RestTyped

\* A caller is shed only by a pool all of whose slots are in transactions.
LEMMA ShedStep ==
    ASSUME PoolInv, PoolNext, NEW c \in Borrowers, result[c] # "shed", result'[c] = "shed"
    PROVE  \A i \in Conns : conn[i] = "lent" /\ pc[who[i]] \in InTxn
<1>1. Shape /\ PoolTypeOK BY DEF PoolInv, Shape
<1>2. ASSUME NEW b \in Borrowers, NEW err, FailedTry(b, err) PROVE b = c /\ err = "shed"
  BY <1>1, <1>2, Told
<1>3. result' # result OBVIOUS
<1>4. TimesOut(c) /\ TimeoutError(c) = "shed"
  <2>1. ~PrewarmConnect BY <1>3 DEF PrewarmConnect, told
  <2>2. ~PrewarmRelease /\ ~Uncaught /\ ~StoreTurns /\ ~PoolTick
    BY <1>3 DEF PrewarmRelease, Uncaught, StoreTurns, PoolTick, told
  <2>3. ASSUME NEW i \in Conns, Pool(i) PROVE FALSE
    <3>1. ~ConnectOk(i) /\ ~Abandon(i) /\ ~IdleEnds(i) /\ ~Break(i)
      BY <1>3 DEF ConnectOk, Abandon, IdleEnds, Break, told
    <3>2. PICK err \in {"connect", "refused"} : ConnectRefused(i, err) BY <2>3, <3>1 DEF Pool
    <3>3. who[i] \in Borrowers /\ FailedTry(who[i], err)
      BY <1>1, <3>2 DEF ConnectRefused, PoolTypeOK
    <3> QED BY <1>2, <3>3
  <2>4. ASSUME NEW b \in Borrowers, Call(b) \/ Work(b) PROVE TimesOut(c) /\ TimeoutError(c) = "shed"
    <3>1. ~Call(b) /\ ~Retry(b) /\ ~Statement(b) BY <1>3 DEF Call, Retry, Statement, told
    <3>2. ~CommitTxn(b)
      <4>1. ASSUME CommitTxn(b) PROVE FALSE
        <5>1. result' = [result EXCEPT ![b] = "ok"] BY <4>1 DEF CommitTxn
        <5> QED BY <1>1, <5>1 DEF PoolTypeOK, RestTyped
      <4> QED BY <4>1
    <3>3. ~Refused(b) BY <1>2 DEF Refused
    <3>4. ~Lost(b) BY <1>2 DEF Lost
    <3>5. TimesOut(b) BY <2>4, <3>1, <3>2, <3>3, <3>4 DEF Work
    <3>6. FailedTry(b, TimeoutError(b)) BY <3>5 DEF TimesOut
    <3> QED BY <1>2, <3>5, <3>6
  <2> QED BY <2>1, <2>2, <2>3, <2>4 DEF PoolNext
<1>5. Saturated /\ c \notin Prewarms BY <1>4 DEF TimeoutError
<1>6. \A i \in Conns : conn[i] = "lent" BY <1>5, SaturatedIs
<1>7. pc[c] # "new" BY <1>4 DEF TimesOut, Waits
<1>8. \A w \in Warmed : pc[w] \in {"done", "failed"} BY <1>1, <1>5, <1>7 DEF Shape, WarmInv
<1>9. ASSUME NEW i \in Conns PROVE pc[who[i]] \in InTxn
  <2>1. who[i] \in Borrowers /\ pc[who[i]] \in Works
    BY <1>1, <1>6 DEF Shape, PoolTypeOK, SlotsInv
  <2>2. pc[who[i]] # "held" BY <1>1, <1>8, <2>1 DEF Shape, WarmInv
  <2> QED BY <2>1, <2>2 DEF Works
<1> QED BY <1>6, <1>9

\* A caller is told of an outage only after something failed while it waited.
LEMMA DownStep ==
    ASSUME PoolInv, ~PerRequest, PoolNext, NEW c \in Borrowers,
           result[c] # "connect", result'[c] = "connect"
    PROVE  c \in away
<1>1. Shape /\ PoolTypeOK /\ AwayInv BY DEF PoolInv, Shape
<1>2. ASSUME NEW b \in Borrowers, NEW err, FailedTry(b, err) PROVE b = c /\ err = "connect"
  BY <1>1, <1>2, Told
<1>3. result' # result OBVIOUS
<1>4. ~PrewarmConnect BY <1>3 DEF PrewarmConnect, told
<1>5. ~PrewarmRelease /\ ~Uncaught /\ ~StoreTurns /\ ~PoolTick
  BY <1>3 DEF PrewarmRelease, Uncaught, StoreTurns, PoolTick, told
<1>6. ASSUME NEW i \in Conns, Pool(i) PROVE c \in away
  <2>1. ~ConnectOk(i) /\ ~Abandon(i) /\ ~IdleEnds(i) /\ ~Break(i)
    BY <1>3 DEF ConnectOk, Abandon, IdleEnds, Break, told
  <2>2. PICK err \in {"connect", "refused"} : ConnectRefused(i, err) BY <1>6, <2>1 DEF Pool
  <2>3. who[i] \in Borrowers /\ FailedTry(who[i], err) /\ conn[i] = "connecting" /\ who[i] # None
        /\ (err = "connect" => ~storeUp)
    BY <1>1, <2>2 DEF ConnectRefused, PoolTypeOK
  <2>4. c = who[i] /\ ~storeUp BY <1>2, <2>3
  <2>5. pc[c] \in Waits BY <1>1, <2>3, <2>4 DEF Shape, SlotsInv, Opens, Waits
  <2> QED BY <1>1, <2>4, <2>5 DEF AwayInv
<1>7. ASSUME NEW b \in Borrowers, Call(b) \/ Work(b) PROVE c \in away
  <2>1. ~Call(b) /\ ~Retry(b) /\ ~Statement(b) BY <1>3 DEF Call, Retry, Statement, told
  <2>2. ~CommitTxn(b)
    <3>1. ASSUME CommitTxn(b) PROVE FALSE
      <4>1. result' = [result EXCEPT ![b] = "ok"] BY <3>1 DEF CommitTxn
      <4> QED BY <1>1, <4>1 DEF PoolTypeOK, RestTyped
    <3> QED BY <3>1
  <2>3. ~Refused(b) BY <1>2 DEF Refused
  <2>4. ~Lost(b) BY <1>2 DEF Lost
  <2>5. TimesOut(b) BY <1>7, <2>1, <2>2, <2>3, <2>4 DEF Work
  <2>6. c = b /\ TimeoutError(c) = "connect" /\ pc[c] \in Waits /\ left[c] = 0
    BY <1>2, <2>5 DEF TimesOut
  <2>7. Timeout # 0 BY PoolAssumption
  <2>8. CASE pc[c] \in Opens BY <1>1, <2>6, <2>7, <2>8 DEF AwayInv
  <2>9. CASE pc[c] = "queued"
    <3>1. c \notin Prewarms BY <1>1, <2>9 DEF Shape, WarmInv
    <3>2. ~Saturated BY <2>6, <3>1 DEF TimeoutError
    <3>3. ASSUME \A i \in Conns : conn[i] = "lent" PROVE FALSE
      <4>1. {i \in Conns : conn[i] \in {"idle", "lent"}} = Conns BY <3>3
      <4>2. Cardinality(Conns) \in Nat BY PoolAssumption, FS_CardinalityType
      <4>3. ConnectedCount >= Cardinality(Conns) BY <4>1, <4>2 DEF ConnectedCount
      <4> QED BY <3>2, <3>3, <4>3 DEF Saturated
    <3> QED BY <1>1, <2>6, <2>7, <2>9, <3>3 DEF AwayInv
  <2> QED BY <2>6, <2>8, <2>9 DEF Waits, Opens
<1> QED BY <1>4, <1>5, <1>6, <1>7 DEF PoolNext

\* A connection that leaves a transaction has none open, and is no dead one.
LEMMA HandedStep ==
    ASSUME PoolInv, PoolNext, NEW i \in Conns, conn[i] = "lent",
           who[i] \in Readers \cup Writers, who'[i] # who[i]
    PROVE  i \notin open' /\ i \notin sick'
<1>1. Shape /\ PoolTypeOK /\ SickInv BY DEF PoolInv, Shape
<1>2. who \in [Conns -> Borrowers \cup {None}] BY <1>1 DEF PoolTypeOK
<1>3. ASSUME NEW k \in Conns, NEW callers, NEW free, NEW taken, NEW at,
             HandsOver(k, callers, free, taken, at)
      PROVE  k = i
  BY <1>2, <1>3 DEF HandsOver
<1>4. ASSUME NEW c \in Borrowers, Asks(c), Checkout(c) PROVE FALSE
  BY <1>2, <1>4 DEF Checkout, Taken, In
<1>5. ~PrewarmConnect
  <2>1. ASSUME PrewarmConnect PROVE FALSE
    <3> DEFINE c == CHOOSE c \in Warmed : pc[c] = "new"
    <3>1. c \in Warmed /\ pc[c] = "new" /\ Checkout(c) BY <2>1 DEF PrewarmConnect
    <3>2. c \in Borrowers BY <3>1, WarmedIs DEF Borrowers
    <3> HIDE DEF c
    <3> QED BY <1>4, <3>1, <3>2 DEF Asks
  <2> QED BY <2>1
<1>6. ~Uncaught /\ ~StoreTurns /\ ~PoolTick BY DEF Uncaught, StoreTurns, PoolTick
<1>7. ~PrewarmRelease
  <2>1. ASSUME PrewarmRelease PROVE FALSE
    <3>1. PICK w \in Warmed : pc[w] = "held" BY <2>1 DEF PrewarmRelease, PrewarmSettled
    <3>2. who[i] \in Borrowers \ Prewarms BY PoolAssumption DEF Borrowers
    <3>3. pc[who[i]] = "new" BY <1>1, <3>1, <3>2 DEF Shape, WarmInv
    <3>4. pc[who[i]] \in Works BY <1>1 DEF Shape, SlotsInv
    <3> QED BY <3>3, <3>4 DEF Works, InTxn
  <2> QED BY <2>1
<1>8. ASSUME NEW k \in Conns, Pool(k) PROVE FALSE
  <2>1. ASSUME conn[k] = "connecting", NEW callers, Discard(k, callers) PROVE FALSE
    BY <1>3, <2>1, DiscardHands
  <2>2. ~Abandon(k) BY <2>1 DEF Abandon
  <2>3. ~\E err \in {"connect", "refused"} : ConnectRefused(k, err) BY <2>1 DEF ConnectRefused
  <2>4. ~IdleEnds(k) /\ ~Break(k) BY DEF IdleEnds, Break
  <2>5. ConnectOk(k) BY <1>8, <2>2, <2>3, <2>4 DEF Pool
  <2>6. conn[k] = "connecting" /\ who[k] = None /\ Return({k}, pc) BY <2>5 DEF ConnectOk
  <2>7. LetsGo(k, pc) BY <2>6 DEF LetsGo
  <2>8. HandsOver(k, pc, "idle", "lent", "begin") BY <1>1, <2>6, <2>7, ReturnHands
  <2> QED BY <1>3, <2>6, <2>8
<1>9. ASSUME NEW c \in Borrowers, Call(c) \/ Work(c), ~Warming PROVE i \notin open' /\ i \notin sick'
  <2>1. ASSUME pc[c] \in InTxn, Of(c) \notin sick, open' = open \ {Of(c)}, sick' = sick,
               NEW callers, LetsGo(Of(c), callers),
               IF PerRequest THEN Discard(Of(c), callers) ELSE Return({Of(c)}, callers)
        PROVE  i \notin open' /\ i \notin sick'
    <3>1. Of(c) \in Conns BY <1>1, <2>1, AtWork
    <3>2. i = Of(c) BY <1>1, <1>3, <2>1, <3>1, DiscardHands, ReturnHands
    <3> QED BY <2>1, <3>2
  <2>2. ~Call(c)
    <3>1. ASSUME Call(c) PROVE FALSE
      <4>1. Asks(c) /\ Checkout(c) BY <3>1 DEF Asks, Call
      <4> QED BY <1>4, <4>1
    <3> QED BY <3>1
  <2>3. ~Retry(c)
    <3>1. ASSUME Retry(c) PROVE FALSE
      <4>1. pc[c] = "sleep" /\ Checkout(c) BY <3>1 DEF Retry
      <4>2. c \notin Prewarms BY <1>1, <4>1 DEF Shape, WarmInv
      <4>3. \A w \in Warmed : pc[w] \in {"done", "failed"} BY <1>1, <4>1, <4>2 DEF Shape, WarmInv
      <4> QED BY <1>4, <4>1, <4>2, <4>3 DEF Asks
    <3> QED BY <3>1
  <2>4. ~Statement(c) BY DEF Statement
  <2>5. CASE CommitTxn(c)
    <3>1. pc[c] \in InTxn BY <2>5 DEF CommitTxn, InTxn
    <3>2. LetsGo(Of(c), [pc EXCEPT ![c] = "done"]) BY <1>1, <3>1, AtWork
    <3> QED BY <2>1, <2>5, <3>1, <3>2 DEF CommitTxn
  <2>6. CASE Refused(c)
    <3>1. pc[c] \in InTxn BY <2>6 DEF Refused, InTxn
    <3>2. LetsGo(Of(c), After(c, "refused")) BY <1>1, <3>1, AtWork
    <3> QED BY <2>1, <2>6, <3>1, <3>2 DEF Refused
  <2>7. CASE Lost(c)
    <3>1. pc[c] \in InTxn /\ Of(c) \in sick /\ Discard(Of(c), After(c, "lost"))
          /\ sick' = sick \ {Of(c)} /\ open' = open
      BY <2>7 DEF Lost, Destroyed
    <3>2. Of(c) \in Conns BY <1>1, <3>1, AtWork
    <3>3. i = Of(c) BY <1>3, <3>1, <3>2, DiscardHands
    <3> QED BY <1>1, <3>1, <3>3 DEF SickInv
  <2>8. CASE TimesOut(c)
    <3>1. pc[c] \in Opens => Of(c) \in Conns /\ conn[Of(c)] = "connecting"
      BY <1>1, OfIs DEF Works, Opens, InTxn
    <3>2. CASE pc[c] = "opening"
      <4>1. Discard(Of(c), After(c, TimeoutError(c))) BY <2>8, <3>2 DEF TimesOut
      <4>2. Of(c) = i BY <1>3, <3>1, <3>2, <4>1, DiscardHands DEF Opens
      <4> QED BY <3>1, <3>2, <4>2 DEF Opens
    <3>3. CASE pc[c] = "handed"
      <4>1. who' = [who EXCEPT ![Of(c)] = None] BY <2>8, <3>3 DEF TimesOut
      <4>2. Of(c) # i BY <3>1, <3>3 DEF Opens
      <4> QED BY <1>2, <4>1, <4>2
    <3>4. CASE pc[c] = "queued" BY <2>8, <3>4 DEF TimesOut
    <3> QED BY <2>8, <3>2, <3>3, <3>4 DEF TimesOut, Waits
  <2> QED BY <1>9, <2>2, <2>3, <2>4, <2>5, <2>6, <2>7, <2>8 DEF Work
<1> QED BY <1>5, <1>6, <1>7, <1>8, <1>9 DEF PoolNext

\* A caller is shed only while every slot is at work in a transaction, and a
\* connection goes from hand to hand without a transaction and alive, in every
\* mode: runs check both with a connection kept between requests.
THEOREM CheckoutsAreSafe == PoolSpec => ShedOnlyWhenBusy /\ HandedBackClean
<1>1. PoolInv /\ [PoolNext]_poolVars =>
        [\A c \in Borrowers : result[c] # "shed" /\ result'[c] = "shed" =>
            \A i \in Conns : conn[i] = "lent" /\ pc[who[i]] \in InTxn]_poolVars
  BY ShedStep
<1>2. PoolInv /\ [PoolNext]_poolVars =>
        [\A i \in Conns : conn[i] = "lent" /\ who[i] \in Readers \cup Writers /\ who'[i] # who[i]
                          => i \notin open' /\ i \notin sick']_poolVars
  BY HandedStep
<1> QED BY <1>1, <1>2, PoolInvHolds, PTL DEF PoolSpec, ShedOnlyWhenBusy, HandedBackClean

\* What a caller is told of its checkout is what happened, and what it hands back
\* can be lent again, for any slots, callers, timeouts and faults, where
\* connections are kept between requests.
THEOREM CheckoutsAreHonestHolds == ~PerRequest => (PoolSpec => CheckoutsAreHonest)
<1>1. ASSUME ~PerRequest
      PROVE  PoolInv /\ [PoolNext]_poolVars =>
               [\A c \in Borrowers : result[c] # "connect" /\ result'[c] = "connect"
                                     => c \in away]_poolVars
  BY <1>1, DownStep
<1>2. ASSUME ~PerRequest PROVE PoolSpec => DownMeansAway
  <2>1. PoolInv /\ [PoolNext]_poolVars =>
          [\A c \in Borrowers : result[c] # "connect" /\ result'[c] = "connect" => c \in away]_poolVars
    BY <1>1, <1>2
  <2> QED BY <2>1, PoolInvHolds, PTL DEF PoolSpec, DownMeansAway
<1> QED BY <1>2, CheckoutsAreSafe DEF CheckoutsAreHonest
=============================================================================
