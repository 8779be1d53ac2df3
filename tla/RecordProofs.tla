----------------------------- MODULE RecordProofs -----------------------------
(***************************************************************************)
(* The takedown ledger as a file and as history, and what is shown of a    *)
(* record.                                                                 *)
(*                                                                         *)
(* LedgerLock: it keeps every act for any number of takedown processes,    *)
(* kills and recycled pids, although the lock does not always exclude: the *)
(* file is only ever appended to, each process appends once, and a process *)
(* that refuses has not appended.                                          *)
(*                                                                         *)
(* Staging: for any plan and any number of evaluations, or two that may be *)
(* killed, a build has one stage.  The lock excludes until the first       *)
(* answer; after it every evaluation finds the stage full and leaves it.   *)
(*                                                                         *)
(* Publish: for any documents, people, entries and commits, what builds    *)
(* publish has every act that was ever committed, with its first text.     *)
(* The walk over the committed ledgers is a loop (HistoricIs); the rest is *)
(* one invariant over the tree, the commits, the runs and what they        *)
(* published, each of which may be older than the next.                    *)
(*                                                                         *)
(* Surfaces: for any documents, directories, policies, instants and        *)
(* readers, what a site, a bundle and the door show of one record.  What   *)
(* was built is a function of a record that the check passed: the proofs   *)
(* follow each surface's own selection back to that record.                *)
(*                                                                         *)
(* Migrate: for any directory, instance, ledger and rows, what runs of the *)
(* rewriting leave of a record.  The invariant follows each text from the  *)
(* name it had to the name it has, and says of a run that is on its way    *)
(* what it loaded and which of its writes are left.                        *)
(***************************************************************************)
EXTENDS LedgerLock, Staging, Publish, Surfaces, Migrate, Loops

-----------------------------------------------------------------------------
(* LedgerLock. *)

\* Where a process has not written yet.
Before == {"try", "stamp", "look", "look again", "probe", "break", "wait", "enter", "append",
           "refused"}
After == {"release", "exit", "done"}

\* What of the types the argument needs.
Typed ==
    /\ ledger \in Seq(Procs)
    /\ text \in [Procs -> Seq(Procs)]
    /\ pc \in [Procs -> Before \cup After \cup {"killed"}]

\* A process that has not written is not in the file; one that has is there once.
ActsInv ==
    /\ Typed
    /\ \A p \in Procs : pc[p] \in Before => ~Recorded(p)
    /\ \A p \in Procs : pc[p] \in After => Recorded(p)
    /\ \A p \in Procs : Once(p)

\* Any step that leaves the file alone and does not move a process over the
\* append keeps the invariant.
LEMMA QuietStep ==
    ASSUME ActsInv, UNCHANGED <<ledger, text>>, NEW p \in Procs,
           NEW s \in Before \cup After \cup {"killed"}, pc' = [pc EXCEPT ![p] = s],
           s \in Before => pc[p] \in Before,
           s \in After => pc[p] \in After
    PROVE  ActsInv'
<1>1. Typed' BY DEF ActsInv, Typed
<1>2. \A q \in Procs : (Recorded(q) <=> Recorded(q)') /\ (Once(q) <=> Once(q)')
  BY DEF Recorded, Once
<1>3. \A q \in Procs : q # p => pc'[q] = pc[q] BY DEF ActsInv, Typed
<1>4. pc'[p] = s BY DEF ActsInv, Typed
<1> QED BY <1>1, <1>2, <1>3, <1>4 DEF ActsInv

\* The append: one process more, which was not in the file.
LEMMA AppendStep ==
    ASSUME ActsInv, NEW p \in Procs, AppendEntry(p)
    PROVE  ActsInv'
<1>1. pc[p] = "append" /\ pc' = [pc EXCEPT ![p] = "release"] /\ text' = text
      /\ ledger' = Append(ledger, p)
  BY DEF AppendEntry, Work, Goto, Written
<1>2. Typed' BY <1>1 DEF ActsInv, Typed, After
<1>3. ~Recorded(p) BY <1>1 DEF ActsInv, Before
<1>4. DOMAIN ledger' = 1..(Len(ledger) + 1) /\ Len(ledger) \in Nat
      /\ DOMAIN ledger = 1..Len(ledger)
      /\ ledger'[Len(ledger) + 1] = p
      /\ \A i \in DOMAIN ledger : ledger'[i] = ledger[i]
  BY <1>1 DEF ActsInv, Typed
<1>5. Recorded(p)' BY <1>4 DEF Recorded
<1>6. \A q \in Procs : q # p => (Recorded(q) <=> Recorded(q)') BY <1>4 DEF Recorded
<1>7. \A q \in Procs : Once(q)' BY <1>3, <1>4 DEF Once, Recorded, ActsInv
<1>8. \A q \in Procs : q # p => pc'[q] = pc[q] BY <1>1 DEF ActsInv, Typed
<1>9. pc'[p] = "release" BY <1>1 DEF ActsInv, Typed
<1> QED BY <1>2, <1>5, <1>6, <1>7, <1>8, <1>9 DEF ActsInv, Before

\* An empty ledger and nobody at work.
LEMMA ActsInvInit == Init => ActsInv
<1> SUFFICES ASSUME Init PROVE ActsInv OBVIOUS
<1>1. pc = [p \in Procs |-> "try"] /\ ledger = <<>> /\ text = [p \in Procs |-> <<>>]
  BY DEF Init, LockInit
<1>2. Typed BY <1>1 DEF Typed, Before
<1> QED BY <1>1, <1>2 DEF ActsInv, Recorded, Once, After

\* All steps: only the append writes, and only at its end.
LEMMA ActsInvStep == ActsInv /\ [Next]_vars => ActsInv'
<1> SUFFICES ASSUME ActsInv, [Next]_vars PROVE ActsInv' OBVIOUS
<1> DEFINE Moves(p, s) == /\ pc' = [pc EXCEPT ![p] = s] /\ UNCHANGED <<ledger, text>>
<1>1. CASE UNCHANGED vars
  <2>1. UNCHANGED <<ledger, text, pc>> BY <1>1 DEF vars, lockVars
  <2> QED BY <2>1 DEF ActsInv, Typed, Recorded, Once
<1>2. ASSUME NEW p \in Procs, Step(p) PROVE ActsInv'
  <2> USE DEF Goto
  <2>1. CASE TryCreate(p) /\ UNCHANGED <<ledger, text>>
    <3>1. pc[p] = "try" /\ \E s \in {"stamp", "look"} : Moves(p, s) BY <2>1 DEF TryCreate
    <3> QED BY <3>1, QuietStep DEF Before, After
  <2>2. CASE Stamp(p) /\ UNCHANGED <<ledger, text>>
    <3>1. pc[p] = "stamp" /\ Moves(p, "enter") BY <2>2 DEF Stamp
    <3> QED BY <3>1, QuietStep DEF Before, After
  <2>3. CASE Look(p) /\ UNCHANGED <<ledger, text>>
    <3>1. pc[p] \in {"look", "look again"}
          /\ \E s \in {"wait", "probe", "look again", "break"} : Moves(p, s)
      BY <2>3 DEF Look, AfterBlank
    <3> QED BY <3>1, QuietStep DEF Before, After
  <2>4. CASE Probe(p) /\ UNCHANGED <<ledger, text>>
    <3>1. pc[p] = "probe" /\ \E s \in {"break", "wait"} : Moves(p, s)
      BY <2>4 DEF Probe, AfterProbe
    <3> QED BY <3>1, QuietStep DEF Before, After
  <2>5. CASE Break(p) /\ UNCHANGED <<ledger, text>>
    <3>1. pc[p] = "break" /\ Moves(p, "try") BY <2>5 DEF Break
    <3> QED BY <3>1, QuietStep DEF Before, After
  <2>6. CASE Release(p) /\ UNCHANGED <<ledger, text>>
    <3>1. pc[p] = "release" /\ Moves(p, "exit") BY <2>6 DEF Release
    <3> QED BY <3>1, QuietStep DEF Before, After
  <2>7. CASE Wait(p, MayWait(p)) /\ UNCHANGED <<ledger, text>>
    <3>1. pc[p] = "wait" /\ \E s \in {"try", "refused"} : Moves(p, s) BY <2>7 DEF Wait
    <3> QED BY <3>1, QuietStep DEF Before, After
  <2>8. CASE Read(p)
    <3>1. pc[p] = "enter" /\ pc' = [pc EXCEPT ![p] = "append"] /\ ledger' = ledger
          /\ text' = [text EXCEPT ![p] = ledger]
      BY <2>8 DEF Read, Work
    <3>2. Typed' BY <3>1 DEF ActsInv, Typed, Before
    <3>3. \A q \in Procs : pc'[q] = pc[q] \/ (q = p /\ pc'[q] = "append")
      BY <3>1 DEF ActsInv, Typed
    <3> QED BY <3>1, <3>2, <3>3 DEF ActsInv, Recorded, Once, Before, After
  <2>9. CASE AppendEntry(p) BY <2>9, AppendStep
  <2>10. CASE Exit(p)
    <3>1. pc[p] = "exit" /\ Moves(p, "done") BY <2>10 DEF Exit, Work
    <3> QED BY <3>1, QuietStep DEF Before, After
  <2> QED BY <1>2, <2>1, <2>2, <2>3, <2>4, <2>5, <2>6, <2>7, <2>8, <2>9, <2>10 DEF Step, Locking
<1>3. ASSUME NEW p \in Procs, Kill(p), UNCHANGED <<ledger, text>> PROVE ActsInv'
  <2>1. Moves(p, "killed") BY <1>3 DEF Kill, Goto
  <2> QED BY <2>1, QuietStep DEF Before, After
<1> QED BY <1>1, <1>2, <1>3 DEF Next

\* Every act a takedown claimed is in the ledger exactly once and no refused
\* one left any (ledger-file.ts:20-26), for any number of processes, any polls,
\* any kills and recycled pids: O_APPEND carries it, not the lock.
THEOREM ActsAlwaysKept == Spec => []ActsKept
<1>1. Init => ActsInv BY ActsInvInit
<1>2. ActsInv /\ [Next]_vars => ActsInv' BY ActsInvStep
<1>3. ActsInv => ActsKept BY DEF ActsInv, ActsKept, Before, After
<1> QED BY <1>1, <1>2, <1>3, PTL DEF Spec

-----------------------------------------------------------------------------
(* Staging. *)

\* Of evaluations that may be killed there are at most two.
FewAreMortal == Mortal => \A p, q, r \in Evaluations : p = q \/ p = r \/ q = r

\* An evaluation has answered.
Settled == \E p \in Evaluations : result[p] # "none"

\* Before the lock, with it, and after it.
Queued == {"try", "look", "look again", "probe", "break", "wait", "refused"}
Holding == {"stamp", "enter", "wipe", "unlist", "fill", "list", "publish", "prune"}
Through == {"release", "exit", "done"}

\* Until the first answer the lock excludes: who is inside owns it, and whoever
\* breaks it is the only one that lives.
OneHolds ==
    /\ \A p \in Evaluations : stagePc[p] \notin Through /\ (stagePc[p] = "killed" => Mortal)
    /\ \A p \in Evaluations : stagePc[p] \in Holding =>
          stageLock.owner = p /\ (stageLock.stamped <=> stagePc[p] # "stamp")
    /\ stageLock.owner # Unowned => stagePc[stageLock.owner] \in Holding \cup {"killed"}
    /\ stageLock.owner = Unowned => ~stageLock.stamped
    /\ \A p \in Evaluations : stagePc[p] \in {"look again", "probe"} =>
          stageSeen[p] = stageLock.owner /\ stageLock.owner # Unowned
    /\ \A p, q \in Evaluations : stagePc[p] = "break" /\ q # p => stagePc[q] = "killed"

\* What an evaluation has done to the stage by the time it is where it is.
Filling(n) == [f \in Files |-> IF \E i \in 1..(n - 1) : Plan[i] = f THEN "now" ELSE "absent"]

DoneSoFar(p) ==
    /\ stagePc[p] \in Queued \cup {"stamp", "enter", "wipe", "unlist"} => next[p] = 1
    /\ stagePc[p] = "unlist" => stage = Unstaged
    /\ stagePc[p] = "fill" => ~refusal /\ manifest = "absent" /\ stage = Filling(next[p])
    /\ stagePc[p] \in {"list", "publish", "prune"} => ~refusal /\ stage = Wanted
    /\ stagePc[p] \in {"publish", "prune"} => manifest = "now"
    /\ stagePc[p] = "prune" => SimsOfStage \subseteq sims

\* From then on nobody changes what the answer was about.
Stands ==
    /\ ~refusal =>
         /\ stage = Wanted /\ manifest = "now" /\ sims = Sims \cap Planned
         /\ \A p \in Evaluations :
               stagePc[p] \notin {"wipe", "unlist", "fill"} /\ result[p] # "refused"
    /\ refusal =>
         /\ stage = Unstaged /\ manifest = "absent"
         /\ \A p \in Evaluations : result[p] # "staged"

StagingInv ==
    /\ StagingTypeOK
    /\ Settled => Stands
    /\ ~Settled => OneHolds
    /\ \A p \in Evaluations : DoneSoFar(p)

\* Where an evaluation can be.
Places == Queued \cup Holding \cup Through \cup {"killed"}

LEMMA StagingTypes ==
    ASSUME StagingTypeOK
    PROVE  /\ stageLock \in [owner : Evaluations \cup {Unowned}, stamped : BOOLEAN]
           /\ stagePc \in [Evaluations -> Places]
           /\ stageWaited \in [Evaluations -> 0..MaxPolls]
           /\ stageSeen \in [Evaluations -> Evaluations \cup {Unowned}]
           /\ stageRecycled \subseteq Evaluations
BY DEF StagingTypeOK, Mutex!LockTypeOK, Mutex!Ends, Places, Queued, Holding, Through

\* Where each step of the lock leads.
LEMMA LockMoves ==
    ASSUME StagingTypeOK, NEW p \in Evaluations,
           Mutex!Locking(p) \/ GiveOrWait(p) \/ Mutex!Kill(p)
    PROVE  /\ \/ /\ stagePc[p] \in Queued \cup {"stamp"}
                 /\ \E s \in Queued \cup {"stamp", "enter"} : stagePc' = [stagePc EXCEPT ![p] = s]
              \/ stagePc[p] = "release" /\ stagePc' = [stagePc EXCEPT ![p] = "exit"]
              \/ stagePc' = [stagePc EXCEPT ![p] = "killed"]
           /\ stageLock' \in [owner : Evaluations \cup {Unowned}, stamped : BOOLEAN]
           /\ stageWaited' \in [Evaluations -> 0..MaxPolls]
           /\ stageSeen' \in [Evaluations -> Evaluations \cup {Unowned}]
           /\ stageRecycled' \subseteq Evaluations
<1>0. /\ stageLock \in [owner : Evaluations \cup {Unowned}, stamped : BOOLEAN]
      /\ stageWaited \in [Evaluations -> 0..MaxPolls]
      /\ stageSeen \in [Evaluations -> Evaluations \cup {Unowned}]
      /\ stageRecycled \subseteq Evaluations
  BY StagingTypes
<1>f. /\ Mutex!Free \in [owner : Evaluations \cup {Unowned}, stamped : BOOLEAN]
      /\ [owner |-> p, stamped |-> FALSE]
           \in [owner : Evaluations \cup {Unowned}, stamped : BOOLEAN]
  BY DEF Mutex!Free
<1>1. CASE Mutex!TryCreate(p)
  <2>1. /\ stagePc[p] = "try"
        /\ \E s \in {"stamp", "look"} : stagePc' = [stagePc EXCEPT ![p] = s]
        /\ stageLock' \in {stageLock, [owner |-> p, stamped |-> FALSE]}
        /\ UNCHANGED <<stageWaited, stageSeen, stageRecycled>>
    BY <1>1 DEF Mutex!TryCreate, Mutex!Goto
  <2> QED BY <1>0, <1>f, <2>1 DEF Queued
<1>2. CASE Mutex!Stamp(p)
  BY <1>0, <1>2 DEF Mutex!Stamp, Mutex!Goto
<1>3. CASE Mutex!Look(p)
  <2>1. /\ stagePc[p] \in {"look", "look again"}
        /\ \E s \in {"wait", "probe", "look again", "break"} :
              stagePc' = [stagePc EXCEPT ![p] = s]
        /\ stageSeen' = [stageSeen EXCEPT ![p] = stageLock.owner]
        /\ UNCHANGED <<stageLock, stageWaited, stageRecycled>>
    BY <1>3 DEF Mutex!Look, Mutex!AfterBlank, Mutex!Goto
  <2> QED BY <1>0, <2>1 DEF Queued
<1>4. CASE Mutex!Probe(p)
  BY <1>0, <1>4 DEF Mutex!Probe, Mutex!AfterProbe, Mutex!Goto, Queued
<1>5. CASE Mutex!Break(p)
  BY <1>0, <1>f, <1>5 DEF Mutex!Break, Mutex!Goto, Queued
<1>6. CASE Mutex!Release(p)
  BY <1>0, <1>f, <1>6 DEF Mutex!Release, Mutex!Goto
<1>7. CASE GiveOrWait(p)
  <2>1. /\ stagePc[p] = "wait"
        /\ \E s \in {"try", "refused"} : stagePc' = [stagePc EXCEPT ![p] = s]
        /\ UNCHANGED <<stageLock, stageSeen, stageRecycled>>
    BY <1>7 DEF GiveOrWait, Mutex!Wait, Mutex!Goto
  <2>2. \/ stageWaited' = stageWaited
        \/ stageWaited[p] < MaxPolls /\ stageWaited' = [stageWaited EXCEPT ![p] = @ + 1]
    BY <1>7 DEF GiveOrWait, Mutex!Wait, MayPoll
  <2>3. MaxPolls \in Nat /\ stageWaited[p] \in 0..MaxPolls BY <1>0, StagingAssumption
  <2>4. stageWaited[p] < MaxPolls => stageWaited[p] + 1 \in 0..MaxPolls BY <2>3
  <2>5. stageWaited' \in [Evaluations -> 0..MaxPolls] BY <1>0, <2>2, <2>4
  <2> QED BY <1>0, <2>1, <2>5 DEF Queued
<1>8. CASE Mutex!Kill(p) BY <1>0, <1>8 DEF Mutex!Kill, Mutex!Goto
<1> QED BY <1>1, <1>2, <1>3, <1>4, <1>5, <1>6, <1>7, <1>8 DEF Mutex!Locking

\* Until the first answer, whoever sees a dead owner's lock is alone.
LEMMA LoneBreaker ==
    ASSUME FewAreMortal, OneHolds, NEW p \in Evaluations,
           stageLock.owner \in Evaluations,
           stagePc[stageLock.owner] = "killed", stagePc[p] # "killed",
           NEW q \in Evaluations, q # p
    PROVE  stagePc[q] = "killed"
<1>1. Mortal BY DEF OneHolds
<1>2. q = stageLock.owner BY <1>1 DEF FewAreMortal
<1> QED BY <1>2

\* An evaluation that is and stays outside excludes and admits nobody.
LEMMA StaysQueued ==
    ASSUME StagingTypeOK, OneHolds, NEW p \in Evaluations, NEW s \in Queued,
           stagePc[p] \in Queued, stagePc' = [stagePc EXCEPT ![p] = s], stageLock' = stageLock,
           \A q \in Evaluations : q # p => stageSeen'[q] = stageSeen[q],
           s \in {"look again", "probe"} =>
             stageSeen'[p] = stageLock.owner /\ stageLock.owner # Unowned,
           s = "break" => \A q \in Evaluations : q # p => stagePc[q] = "killed"
    PROVE  OneHolds'
<1>1. /\ stageLock \in [owner : Evaluations \cup {Unowned}, stamped : BOOLEAN]
      /\ stagePc \in [Evaluations -> Places]
  BY StagingTypes
<1>2. stagePc'[p] = s /\ \A q \in Evaluations : q # p => stagePc'[q] = stagePc[q] BY <1>1
<1>3. /\ s \notin Through \cup Holding \cup {"killed"}
      /\ stagePc[p] \notin Through \cup Holding \cup {"killed"}
  BY DEF Queued, Holding, Through
<1>4. stageLock.owner # p
  <2>1. Unowned # p BY StagingAssumption
  <2> QED BY <1>3, <2>1 DEF OneHolds
<1>5. \A q \in Evaluations : stagePc'[q] \notin Through /\ (stagePc'[q] = "killed" => Mortal)
  BY <1>2, <1>3 DEF OneHolds
<1>6. \A q \in Evaluations : stagePc'[q] \in Holding =>
          stageLock.owner = q /\ (stageLock.stamped <=> stagePc'[q] # "stamp")
  BY <1>1, <1>2, <1>3 DEF OneHolds
<1>7. stageLock.owner # Unowned => stagePc'[stageLock.owner] \in Holding \cup {"killed"}
  BY <1>1, <1>2, <1>4 DEF OneHolds
<1>8. \A q \in Evaluations : stagePc'[q] \in {"look again", "probe"} =>
          stageSeen'[q] = stageLock.owner /\ stageLock.owner # Unowned
  BY <1>2 DEF OneHolds
<1>9. \A q, r \in Evaluations : stagePc'[q] = "break" /\ r # q => stagePc'[r] = "killed"
  <2> SUFFICES ASSUME NEW q \in Evaluations, NEW r \in Evaluations, stagePc'[q] = "break", r # q
               PROVE  stagePc'[r] = "killed"
    OBVIOUS
  <2>1. CASE q = p
    <3>1. stagePc[r] = "killed" BY <1>2, <2>1
    <3> QED BY <1>2, <2>1, <3>1
  <2>2. CASE q # p
    <3>1. stagePc[q] = "break" BY <1>2, <2>2
    <3>2. \A o \in Evaluations : o # q => stagePc[o] = "killed" BY <3>1 DEF OneHolds
    <3>3. stagePc[p] = "killed" BY <2>2, <3>2
    <3> QED BY <1>3, <3>3
  <2> QED BY <2>1, <2>2
<1> QED BY <1>5, <1>6, <1>7, <1>8, <1>9 DEF OneHolds

\* Every step of the lock keeps it so.
LEMMA LockExcludes ==
    ASSUME StagingTypeOK, FewAreMortal, OneHolds, NEW p \in Evaluations,
           Mutex!Locking(p) \/ GiveOrWait(p) \/ Mutex!Kill(p)
    PROVE  OneHolds'
<1>0. /\ stageLock \in [owner : Evaluations \cup {Unowned}, stamped : BOOLEAN]
      /\ stagePc \in [Evaluations -> Places]
      /\ stageSeen \in [Evaluations -> Evaluations \cup {Unowned}]
      /\ Unowned \notin Evaluations
  BY StagingTypes, StagingAssumption
<1>f. stageLock = Mutex!Free <=> stageLock.owner = Unowned
  <2>1. /\ stageLock = [owner |-> stageLock.owner, stamped |-> stageLock.stamped]
        /\ stageLock.stamped \in BOOLEAN
    BY <1>0
  <2>2. stageLock.owner = Unowned => stageLock.stamped = FALSE BY <2>1 DEF OneHolds
  <2> QED BY <2>1, <2>2 DEF Mutex!Free
<1> USE <1>0 DEF Mutex!Goto
<1>1. CASE Mutex!TryCreate(p)
  <2>1. CASE stageLock.owner = Unowned
    <3>1. \A q \in Evaluations : stagePc[q] \notin Holding \cup {"look again", "probe"}
      BY <2>1 DEF OneHolds
    <3>2. /\ stagePc[p] = "try" /\ stagePc' = [stagePc EXCEPT ![p] = "stamp"]
          /\ stageLock' = [owner |-> p, stamped |-> FALSE]
      BY <1>1, <1>f, <2>1 DEF Mutex!TryCreate
    <3>3. \A q \in Evaluations : stagePc[q] # "break" BY <3>2 DEF OneHolds
    <3> QED BY <3>1, <3>2, <3>3 DEF OneHolds, Holding, Through
  <2>2. CASE stageLock.owner # Unowned
    <3>1. /\ stagePc[p] = "try" /\ stagePc' = [stagePc EXCEPT ![p] = "look"]
          /\ UNCHANGED <<stageLock, stageSeen>>
      BY <1>1, <1>f, <2>2 DEF Mutex!TryCreate
    <3>2. "try" \in Queued /\ "look" \in Queued BY DEF Queued
    <3> QED BY <3>1, <3>2, StaysQueued
  <2> QED BY <2>1, <2>2
<1>2. CASE Mutex!Stamp(p)
  <2>1. stageLock.owner = p BY <1>2 DEF Mutex!Stamp, OneHolds, Holding
  <2>2. /\ stagePc[p] = "stamp" /\ stagePc' = [stagePc EXCEPT ![p] = "enter"]
        /\ stageSeen' = stageSeen
        /\ stageLock' = [owner |-> p, stamped |-> TRUE]
    BY <1>2, <2>1 DEF Mutex!Stamp
  <2> QED BY <2>1, <2>2 DEF OneHolds, Holding, Through
<1>3. CASE Mutex!Look(p)
  <2>1. /\ stagePc[p] \in {"look", "look again"} /\ stageLock' = stageLock
        /\ stageSeen' = [stageSeen EXCEPT ![p] = stageLock.owner]
        /\ \E s \in {"wait", "probe", "look again", "break"} :
              /\ stagePc' = [stagePc EXCEPT ![p] = s]
              /\ s \in {"probe", "look again"} => stageLock.owner # Unowned
              /\ s = "break" => stagePc[p] = "look again" /\ ~stageLock.stamped
    BY <1>3, <1>f DEF Mutex!Look, Mutex!AfterBlank
  <2>2. ASSUME stagePc[p] = "look again", ~stageLock.stamped
        PROVE  stageLock.owner \in Evaluations /\ stagePc[stageLock.owner] = "killed"
    <3>1. stageLock.owner = stageSeen[p] /\ stageLock.owner \in Evaluations BY <2>2 DEF OneHolds
    <3>2. stagePc[stageLock.owner] # "stamp" BY <1>3, <2>2, <3>1 DEF Mutex!Look
    <3> QED BY <2>2, <3>1, <3>2 DEF OneHolds
  <2>3. PICK s \in {"wait", "probe", "look again", "break"} :
           /\ stagePc' = [stagePc EXCEPT ![p] = s]
           /\ s \in {"probe", "look again"} => stageLock.owner # Unowned
           /\ s = "break" => stagePc[p] = "look again" /\ ~stageLock.stamped
    BY <2>1
  <2>4. s = "break" => \A q \in Evaluations : q # p => stagePc[q] = "killed"
    BY <2>1, <2>2, <2>3, LoneBreaker
  <2>5. /\ stageSeen'[p] = stageLock.owner
        /\ \A q \in Evaluations : q # p => stageSeen'[q] = stageSeen[q]
        /\ s \in Queued /\ stagePc[p] \in Queued /\ stageLock' = stageLock
    BY <2>1 DEF Queued
  <2>6. s \in {"look again", "probe"} =>
          stageSeen'[p] = stageLock.owner /\ stageLock.owner # Unowned
    BY <2>3, <2>5
  <2> HIDE <1>0
  <2> QED BY <2>3, <2>4, <2>5, <2>6, StaysQueued
<1>4. CASE Mutex!Probe(p)
  <2>1. /\ stagePc[p] = "probe" /\ UNCHANGED <<stageLock, stageSeen>>
        /\ \E s \in {"wait", "break"} :
              /\ stagePc' = [stagePc EXCEPT ![p] = s]
              /\ s = "break" => stagePc[stageSeen[p]] \in Mutex!Ends
    BY <1>4 DEF Mutex!Probe, Mutex!AfterProbe, Mutex!Gone
  <2>2. stageSeen[p] = stageLock.owner /\ stageLock.owner \in Evaluations BY <2>1 DEF OneHolds
  <2>3. stagePc[stageLock.owner] \in Mutex!Ends => stagePc[stageLock.owner] = "killed"
    BY <2>2 DEF OneHolds, Mutex!Ends, Holding
  <2>4. PICK s \in {"wait", "break"} :
           /\ stagePc' = [stagePc EXCEPT ![p] = s]
           /\ s = "break" => stagePc[stageSeen[p]] \in Mutex!Ends
    BY <2>1
  <2>5. s = "break" => \A q \in Evaluations : q # p => stagePc[q] = "killed"
    BY <2>1, <2>2, <2>3, <2>4, LoneBreaker
  <2>6. /\ s \in Queued /\ stagePc[p] \in Queued
        /\ s \in {"look again", "probe"} =>
             stageSeen'[p] = stageLock.owner /\ stageLock.owner # Unowned
        /\ stageLock' = stageLock /\ \A q \in Evaluations : stageSeen'[q] = stageSeen[q]
    BY <2>1, <2>4 DEF Queued
  <2> HIDE <1>0
  <2> QED BY <2>4, <2>5, <2>6, StaysQueued
<1>5. CASE Mutex!Break(p)
  <2>1. \A q \in Evaluations : q # p => stagePc[q] = "killed" BY <1>5 DEF Mutex!Break, OneHolds
  <2>2. /\ stagePc' = [stagePc EXCEPT ![p] = "try"]
        /\ stageLock' = [owner |-> Unowned, stamped |-> FALSE]
    BY <1>5 DEF Mutex!Break, Mutex!Free
  <2> QED BY <2>1, <2>2 DEF OneHolds, Holding, Through
<1>6. CASE Mutex!Release(p) BY <1>6 DEF Mutex!Release, OneHolds, Through
<1>7. CASE GiveOrWait(p)
  <2>1. /\ stagePc[p] = "wait" /\ UNCHANGED <<stageLock, stageSeen>>
        /\ \E s \in {"try", "refused"} : stagePc' = [stagePc EXCEPT ![p] = s]
    BY <1>7 DEF GiveOrWait, Mutex!Wait
  <2>2. PICK s \in {"try", "refused"} : stagePc' = [stagePc EXCEPT ![p] = s] BY <2>1
  <2>3. /\ s \in Queued /\ stagePc[p] \in Queued /\ s # "break"
        /\ s \in {"look again", "probe"} =>
             stageSeen'[p] = stageLock.owner /\ stageLock.owner # Unowned
        /\ stageLock' = stageLock /\ \A q \in Evaluations : stageSeen'[q] = stageSeen[q]
    BY <2>1, <2>2 DEF Queued
  <2> HIDE <1>0
  <2> QED BY <2>2, <2>3, StaysQueued
<1>8. CASE Mutex!Kill(p)
  <2>1. /\ Mortal /\ stagePc' = [stagePc EXCEPT ![p] = "killed"] /\ UNCHANGED <<stageLock, stageSeen>>
    BY <1>8 DEF Mutex!Kill
  <2> QED BY <2>1 DEF OneHolds, Holding, Through
<1> QED BY <1>1, <1>2, <1>3, <1>4, <1>5, <1>6, <1>7, <1>8 DEF Mutex!Locking

\* ... and leaves the work alone.
LEMMA LockKeeps ==
    ASSUME FewAreMortal, StagingInv, NEW p \in Evaluations, UNCHANGED work,
           Mutex!Locking(p) \/ GiveOrWait(p) \/ Mutex!Kill(p)
    PROVE  StagingInv'
<1>1. StagingTypeOK /\ stagePc \in [Evaluations -> Places]
  BY StagingTypes DEF StagingInv
<1>2. PICK s \in Queued \cup {"stamp", "enter", "exit", "killed"} :
         /\ stagePc' = [stagePc EXCEPT ![p] = s]
         /\ s \in Queued \cup {"stamp", "enter"} => stagePc[p] \in Queued \cup {"stamp"}
  <2>1. /\ "exit" \notin Queued \cup {"stamp", "enter"}
        /\ "killed" \notin Queued \cup {"stamp", "enter"}
    BY DEF Queued
  <2> QED BY <1>1, <2>1, LockMoves
<1>3. StagingTypeOK'
  BY <1>1, <1>2, LockMoves
     DEF work, StagingTypeOK, Mutex!LockTypeOK, Mutex!Ends, Queued
<1>4. Settled' <=> Settled BY DEF Settled, work
<1>5. Stands => Stands' BY <1>1, <1>2 DEF Stands, work, Queued
<1>6. ~Settled => OneHolds' BY <1>1, LockExcludes DEF StagingInv
<1>7. \A q \in Evaluations : DoneSoFar(q)'
  BY <1>1, <1>2 DEF StagingInv, DoneSoFar, work, Queued, SimsOfStage
<1> QED BY <1>3, <1>4, <1>5, <1>6, <1>7 DEF StagingInv

\* A full stage holds the plan's simulations, and a filled one is full.
LEMMA SimsOfPlan == stage = Wanted => SimsOfStage = Sims \cap Planned
<1>1. Sims \subseteq Files BY StagingAssumption
<1> QED BY <1>1 DEF Wanted, SimsOfStage

LEMMA FillingIs ==
    /\ Filling(1) = Unstaged
    /\ Filling(Len(Plan) + 1) = Wanted
    /\ \A n \in 1..Len(Plan) :
          /\ Plan[n] \in Files
          /\ [Filling(n) EXCEPT ![Plan[n]] = "now"] = Filling(n + 1)
<1>1. /\ Plan \in Seq(Files) /\ Len(Plan) \in Nat /\ DOMAIN Plan = 1..Len(Plan)
      /\ \A i \in 1..Len(Plan) : Plan[i] \in Files
  BY StagingAssumption
<1>2. Filling(1) = Unstaged
  <2>1. 1..(1 - 1) = {} OBVIOUS
  <2> QED BY <2>1 DEF Filling, Unstaged
<1>3. Filling(Len(Plan) + 1) = Wanted
  <2>1. (Len(Plan) + 1) - 1 = Len(Plan) BY <1>1
  <2>2. \A f \in Files : f \in Planned <=> \E i \in 1..Len(Plan) : Plan[i] = f
    BY <1>1 DEF Planned, Range
  <2> QED BY <2>1, <2>2 DEF Filling, Wanted
<1>4. ASSUME NEW n \in 1..Len(Plan)
      PROVE  [Filling(n) EXCEPT ![Plan[n]] = "now"] = Filling(n + 1)
  <2>1. \A f \in Files : (\E i \in 1..((n + 1) - 1) : Plan[i] = f)
                            <=> Plan[n] = f \/ \E i \in 1..(n - 1) : Plan[i] = f
    BY <1>1, <1>4
  <2> QED BY <2>1 DEF Filling
<1> QED BY <1>1, <1>2, <1>3, <1>4

\* A step of the work before the first answer leaves one inside.
LEMMA WorkExcludes ==
    ASSUME StagingTypeOK, OneHolds, NEW p \in Evaluations,
           NEW from, NEW to \in Holding \ {"stamp"},
           Mutex!Work(p, from, to), from \in Holding \ {"stamp"}
    PROVE  OneHolds'
<1>1. /\ stageLock \in [owner : Evaluations \cup {Unowned}, stamped : BOOLEAN]
      /\ stagePc \in [Evaluations -> Places]
  BY StagingTypes
<1>2. /\ stagePc[p] = from /\ stageLock' = stageLock /\ stageSeen' = stageSeen
      /\ stagePc'[p] = to /\ \A q \in Evaluations : q # p => stagePc'[q] = stagePc[q]
  BY <1>1 DEF Mutex!Work, Mutex!Goto
<1>3. stageLock.owner = p /\ stageLock.stamped BY <1>2 DEF OneHolds
<1>4. /\ to \in Holding /\ to # "stamp"
      /\ to \notin Through \cup {"killed", "look again", "probe", "break"}
      /\ from \notin {"killed", "break"}
  BY DEF Holding, Through
<1>5. \A q \in Evaluations : stagePc'[q] \notin Through /\ (stagePc'[q] = "killed" => Mortal)
  BY <1>2, <1>4 DEF OneHolds
<1>6. \A q \in Evaluations : stagePc'[q] \in Holding =>
          stageLock.owner = q /\ (stageLock.stamped <=> stagePc'[q] # "stamp")
  BY <1>2, <1>3, <1>4 DEF OneHolds
<1>7. \A q \in Evaluations : stagePc'[q] \in {"look again", "probe"} =>
          stageSeen'[q] = stageLock.owner /\ stageLock.owner # Unowned
  BY <1>2, <1>4 DEF OneHolds
<1>8. \A q, r \in Evaluations : stagePc'[q] = "break" /\ r # q => stagePc'[r] = "killed"
  <2> SUFFICES ASSUME NEW q \in Evaluations, NEW r \in Evaluations, stagePc'[q] = "break", r # q
               PROVE  FALSE
    OBVIOUS
  <2>1. q # p BY <1>2, <1>4
  <2>2. stagePc[q] = "break" BY <1>2, <2>1
  <2>3. \A o \in Evaluations : o # q => stagePc[o] = "killed" BY <2>2 DEF OneHolds
  <2>4. stagePc[p] = "killed" BY <2>1, <2>3
  <2> QED BY <1>2, <1>4, <2>4
<1> QED BY <1>2, <1>3, <1>4, <1>5, <1>6, <1>7, <1>8 DEF OneHolds

\* ... and nobody else is inside.
LEMMA NobodyElse ==
    ASSUME OneHolds, NEW p \in Evaluations, stagePc[p] \in Holding, NEW q \in Evaluations, q # p
    PROVE  stagePc[q] \notin Holding
BY DEF OneHolds

\* What a step of the work leaves of the lock.
LEMMA WorkTypes ==
    ASSUME StagingTypeOK, NEW p \in Evaluations, NEW from, NEW to \in Places,
           Mutex!Work(p, from, to)
    PROVE  /\ Mutex!LockTypeOK({"enter", "wipe", "unlist", "fill", "list", "publish", "prune"})'
           /\ stagePc[p] = from /\ stagePc'[p] = to
           /\ \A q \in Evaluations : q # p => stagePc'[q] = stagePc[q]
<1>1. stagePc \in [Evaluations -> Places] BY StagingTypes
<1>2. /\ stagePc' = [stagePc EXCEPT ![p] = to] /\ stagePc[p] = from
      /\ UNCHANGED <<stageLock, stageWaited, stageSeen, stageRecycled>>
  BY DEF Mutex!Work, Mutex!Goto
<1>3. stagePc' \in [Evaluations -> Places] BY <1>1, <1>2
<1> QED BY <1>1, <1>2, <1>3
        DEF StagingTypeOK, Mutex!LockTypeOK, Mutex!Ends, Places, Queued, Holding, Through

\* What the actions need of the invariant: before the first answer nobody else
\* is inside, after it the stage is what it was answered about.
LEMMA Where ==
    ASSUME StagingInv, NEW p \in Evaluations, stagePc[p] \in Holding
    PROVE  /\ DoneSoFar(p) /\ StagingTypeOK
           /\ \/ /\ ~Settled /\ OneHolds
                 /\ \A q \in Evaluations : result[q] = "none"
                 /\ \A q \in Evaluations : q # p => stagePc[q] \notin Holding
              \/ Settled /\ Stands
<1>1. CASE Settled BY <1>1 DEF StagingInv
<1>2. CASE ~Settled
  <2>1. OneHolds BY <1>2 DEF StagingInv
  <2>2. \A q \in Evaluations : q # p => stagePc[q] \notin Holding BY <2>1, NobodyElse
  <2> QED BY <1>2, <2>1, <2>2 DEF StagingInv, Settled
<1> QED BY <1>1, <1>2

\* A step of the work that answers nothing, changes nothing after an answer, and
\* leaves the evaluation's own part true.
LEMMA WorkKeeps ==
    ASSUME StagingInv, NEW p \in Evaluations,
           NEW from \in Holding \ {"stamp"}, NEW to \in Holding \ {"stamp"},
           Mutex!Work(p, from, to), UNCHANGED <<refusal, result>>,
           stage' \in [Files -> Bytes], manifest' \in Bytes, sims' \subseteq Sims,
           next' \in [Evaluations -> 1..(Len(Plan) + 1)],
           \A q \in Evaluations : q # p => next'[q] = next[q],
           Settled => UNCHANGED <<stage, manifest, sims>>,
           Settled /\ ~refusal => to \notin {"wipe", "unlist", "fill"},
           DoneSoFar(p)'
    PROVE  StagingInv'
<1>1. to \in Places /\ stagePc[p] = from BY DEF Places, Mutex!Work
<1>2. /\ StagingTypeOK
      /\ \/ /\ ~Settled /\ OneHolds
            /\ \A q \in Evaluations : q # p => stagePc[q] \notin Holding
         \/ Settled /\ Stands
  BY <1>1, Where
<1>3. StagingTypeOK' BY <1>1, <1>2, WorkTypes DEF StagingTypeOK
<1>4. stagePc'[p] = to /\ \A q \in Evaluations : q # p => stagePc'[q] = stagePc[q]
  BY <1>1, <1>2, WorkTypes
<1>5. Settled' <=> Settled BY DEF Settled
<1>6. ~Settled => OneHolds' BY <1>2, WorkExcludes
<1>7. Settled => Stands' BY <1>2, <1>4 DEF Stands
<1>8. ASSUME NEW q \in Evaluations, q # p PROVE DoneSoFar(q)'
  <2>1. DoneSoFar(q) /\ stagePc'[q] = stagePc[q] /\ next'[q] = next[q]
    BY <1>4, <1>8 DEF StagingInv
  <2>2. CASE Settled BY <2>1, <2>2 DEF DoneSoFar, SimsOfStage
  <2>3. CASE ~Settled
    <3>1. stagePc[q] \notin Holding BY <1>2, <1>8, <2>3
    <3> QED BY <2>1, <3>1 DEF DoneSoFar, Holding
  <2> QED BY <2>2, <2>3
<1> QED BY <1>3, <1>5, <1>6, <1>7, <1>8 DEF StagingInv

LEMMA EnterKeeps == ASSUME StagingInv, NEW p \in Evaluations, Enter(p) PROVE StagingInv'
<1>1. PICK to \in {"wipe", "list"} :
         /\ Mutex!Work(p, "enter", to)
         /\ to = "list" => ~refusal /\ StageHolds
         /\ to = "wipe" => refusal \/ ~StageHolds
  BY DEF Enter
<1>2. UNCHANGED work /\ stagePc[p] = "enter" BY <1>1 DEF Enter, Mutex!Work
<1>3. to \in Holding \ {"stamp"} /\ "enter" \in Holding \ {"stamp"} BY DEF Holding
<1>4. StagingTypeOK /\ DoneSoFar(p) /\ (Settled => Stands) BY <1>2, <1>3, Where
<1>5. stagePc'[p] = to BY <1>1, <1>3, <1>4, WorkTypes DEF Places
<1>6. DoneSoFar(p)' BY <1>1, <1>2, <1>4, <1>5 DEF DoneSoFar, work, StageHolds, Queued
<1>7. Settled /\ ~refusal => to \notin {"wipe", "unlist", "fill"}
  BY <1>1, <1>4 DEF Stands, StageHolds
<1> QED BY <1>1, <1>2, <1>3, <1>4, <1>6, <1>7, WorkKeeps DEF StagingTypeOK, work

LEMMA WipeKeeps ==
    ASSUME StagingInv, NEW p \in Evaluations, WipeOne(p) \/ Wiped(p) PROVE StagingInv'
<1>1. UNCHANGED <<refusal, manifest, sims, next, result>> /\ stagePc[p] = "wipe"
  BY DEF WipeOne, Wiped, work, Mutex!Work
<1>2. PICK to \in {"wipe", "unlist"} :
         /\ Mutex!Work(p, "wipe", to)
         /\ to = "unlist" => stage' = stage /\ stage = Unstaged
         /\ to = "wipe" =>
              \E f \in Files : stage[f] # "absent" /\ stage' = [stage EXCEPT ![f] = "absent"]
  BY DEF WipeOne, Wiped, Emptied, work
<1>3. to \in Holding \ {"stamp"} /\ "wipe" \in Holding \ {"stamp"} BY DEF Holding
<1>4. StagingTypeOK /\ DoneSoFar(p) /\ (Settled => Stands) BY <1>1, <1>3, Where
<1>5. stagePc'[p] = to BY <1>2, <1>3, <1>4, WorkTypes DEF Places
<1>6. stage' \in [Files -> Bytes] BY <1>2, <1>4 DEF StagingTypeOK, Bytes
<1>7. DoneSoFar(p)' BY <1>1, <1>2, <1>4, <1>5 DEF DoneSoFar, Queued
<1>8. Settled => refusal /\ stage' = stage
  <2>1. Settled => refusal /\ stage = Unstaged BY <1>1, <1>4 DEF Stands
  <2>2. stage = Unstaged => \A f \in Files : stage[f] = "absent" BY DEF Unstaged
  <2> QED BY <1>2, <2>1, <2>2
<1> QED BY <1>1, <1>2, <1>3, <1>4, <1>6, <1>7, <1>8, WorkKeeps DEF StagingTypeOK

LEMMA FillKeeps ==
    ASSUME StagingInv, NEW p \in Evaluations, FillOne(p) \/ Filled(p) PROVE StagingInv'
<1>1. stagePc[p] = "fill" /\ UNCHANGED <<refusal, manifest, sims, result>>
  BY DEF FillOne, Filled, work, Mutex!Work
<1>2. {"fill", "list"} \subseteq Holding \ {"stamp"} BY DEF Holding
<1>3. StagingTypeOK /\ DoneSoFar(p) /\ ~Settled
  <2>1. StagingTypeOK /\ DoneSoFar(p) /\ (Settled => Stands) BY <1>1, <1>2, Where
  <2> QED BY <1>1, <2>1 DEF Stands, DoneSoFar
<1>4. /\ ~refusal /\ manifest = "absent"
      /\ stage = Filling(next[p]) /\ next[p] \in 1..(Len(Plan) + 1)
      /\ Len(Plan) \in Nat
  BY <1>1, <1>3, StagingAssumption DEF DoneSoFar, StagingTypeOK
<1>5. CASE FillOne(p)
  <2>1. /\ next[p] <= Len(Plan) /\ Mutex!Work(p, "fill", "fill")
        /\ stage' = [stage EXCEPT ![Plan[next[p]]] = "now"]
        /\ next' = [next EXCEPT ![p] = @ + 1]
    BY <1>5 DEF FillOne
  <2>2. next[p] \in 1..Len(Plan) /\ next[p] + 1 \in 1..(Len(Plan) + 1) BY <1>4, <2>1
  <2>3. stage' \in [Files -> Bytes] /\ next' \in [Evaluations -> 1..(Len(Plan) + 1)]
        /\ next'[p] = next[p] + 1
    BY <1>3, <2>1, <2>2, FillingIs DEF StagingTypeOK, Bytes
  <2>4. stage' = Filling(next'[p]) BY <1>4, <2>1, <2>2, <2>3, FillingIs
  <2>5. stagePc'[p] = "fill" BY <1>2, <1>3, <2>1, WorkTypes DEF Places
  <2>6. DoneSoFar(p)' BY <1>1, <1>4, <2>4, <2>5 DEF DoneSoFar, Queued, Filling
  <2>7. \A q \in Evaluations : q # p => next'[q] = next[q] BY <1>3, <2>1 DEF StagingTypeOK
  <2> QED BY <1>1, <1>2, <1>3, <2>1, <2>3, <2>6, <2>7, WorkKeeps DEF StagingTypeOK
<1>6. CASE Filled(p)
  <2>1. next[p] > Len(Plan) /\ Mutex!Work(p, "fill", "list") /\ UNCHANGED <<stage, next>>
    BY <1>6 DEF Filled, work
  <2>2. next[p] = Len(Plan) + 1 BY <1>4, <2>1
  <2>3. stage = Wanted BY <1>4, <2>2, FillingIs
  <2>4. stagePc'[p] = "list" BY <1>2, <1>3, <2>1, WorkTypes DEF Places
  <2>5. DoneSoFar(p)' BY <1>1, <1>4, <2>1, <2>3, <2>4 DEF DoneSoFar, Queued, Wanted
  <2> QED BY <1>1, <1>2, <1>3, <2>1, <2>5, WorkKeeps DEF StagingTypeOK
<1> QED BY <1>5, <1>6

LEMMA ListKeeps == ASSUME StagingInv, NEW p \in Evaluations, ListPlan(p) PROVE StagingInv'
<1>1. /\ stagePc[p] = "list" /\ UNCHANGED <<refusal, stage, sims, next, result>>
      /\ manifest' = "now" /\ Mutex!Work(p, "list", "publish")
  BY DEF ListPlan, Mutex!Work
<1>2. {"list", "publish"} \subseteq Holding \ {"stamp"} BY DEF Holding
<1>3. StagingTypeOK /\ DoneSoFar(p) /\ (Settled => Stands) BY <1>1, <1>2, Where
<1>4. ~refusal /\ stage = Wanted BY <1>1, <1>3 DEF DoneSoFar
<1>5. stagePc'[p] = "publish" BY <1>1, <1>2, <1>3, WorkTypes DEF Places
<1>6. DoneSoFar(p)' BY <1>1, <1>4, <1>5 DEF DoneSoFar, Queued
<1>7. Settled => manifest' = manifest BY <1>1, <1>3, <1>4 DEF Stands
<1> QED BY <1>1, <1>2, <1>3, <1>6, <1>7, WorkKeeps DEF StagingTypeOK, Bytes

LEMMA PublishKeeps == ASSUME StagingInv, NEW p \in Evaluations, PublishSims(p) PROVE StagingInv'
<1>1. /\ stagePc[p] = "publish" /\ UNCHANGED <<refusal, stage, manifest, next, result>>
      /\ sims' = sims \cup SimsOfStage /\ Mutex!Work(p, "publish", "prune")
  BY DEF PublishSims, Mutex!Work
<1>2. {"publish", "prune"} \subseteq Holding \ {"stamp"} BY DEF Holding
<1>3. StagingTypeOK /\ DoneSoFar(p) /\ (Settled => Stands) BY <1>1, <1>2, Where
<1>4. ~refusal /\ stage = Wanted /\ manifest = "now" BY <1>1, <1>3 DEF DoneSoFar
<1>5. stagePc'[p] = "prune" BY <1>1, <1>2, <1>3, WorkTypes DEF Places
<1>6. DoneSoFar(p)' BY <1>1, <1>4, <1>5 DEF DoneSoFar, Queued, SimsOfStage
<1>7. Settled => sims' = sims BY <1>1, <1>3, <1>4, SimsOfPlan DEF Stands
<1>8. sims' \subseteq Sims BY <1>1, <1>3 DEF StagingTypeOK, SimsOfStage
<1> QED BY <1>1, <1>2, <1>3, <1>6, <1>7, <1>8, WorkKeeps DEF StagingTypeOK

\* A step to the release that answers: what it leaves is what the answer says.
LEMMA AnswerKeeps ==
    ASSUME StagingInv, NEW p \in Evaluations, NEW from \in Holding \ {"stamp"},
           Mutex!Work(p, from, "release"), UNCHANGED <<refusal, stage, next>>,
           NEW answer \in {"staged", "refused"}, result' = [result EXCEPT ![p] = answer],
           IF refusal THEN /\ answer = "refused" /\ stage = Unstaged /\ manifest' = "absent"
                           /\ sims' = sims
                      ELSE /\ answer = "staged" /\ stage = Wanted /\ manifest' = "now"
                           /\ sims' = Sims \cap Planned
    PROVE  StagingInv'
<1>1. "release" \in Places /\ stagePc[p] = from BY DEF Places, Through, Mutex!Work
<1>2. /\ StagingTypeOK
      /\ \/ /\ ~Settled
            /\ \A q \in Evaluations : result[q] = "none"
            /\ \A q \in Evaluations : q # p => stagePc[q] \notin Holding
         \/ Settled /\ Stands
  BY <1>1, Where
<1>3. StagingTypeOK' BY <1>1, <1>2, WorkTypes DEF StagingTypeOK, Bytes
<1>4. stagePc'[p] = "release" /\ \A q \in Evaluations : q # p => stagePc'[q] = stagePc[q]
  BY <1>1, <1>2, WorkTypes
<1>5. result'[p] = answer /\ \A q \in Evaluations : q # p => result'[q] = result[q]
  BY <1>2 DEF StagingTypeOK
<1>6. Settled' BY <1>5 DEF Settled
<1>7. \A q \in Evaluations :
         /\ ~refusal => stagePc'[q] \notin {"wipe", "unlist", "fill"} /\ result'[q] # "refused"
         /\ refusal => result'[q] # "staged"
  BY <1>2, <1>4, <1>5 DEF Stands, Holding
<1>8. Stands' BY <1>7 DEF Stands
<1>9. ASSUME NEW q \in Evaluations PROVE DoneSoFar(q)'
  <2>1. CASE q = p BY <1>4, <2>1 DEF DoneSoFar, Queued
  <2>2. CASE q # p
    <3>1. DoneSoFar(q) /\ stagePc'[q] = stagePc[q] BY <1>4, <2>2 DEF StagingInv
    <3>2. ~refusal => SimsOfStage = Sims \cap Planned BY SimsOfPlan
    <3>3. ~refusal => stagePc[q] # "fill" BY <1>4, <1>7, <2>2
    <3> QED BY <3>1, <3>2, <3>3 DEF DoneSoFar, SimsOfStage
  <2> QED BY <2>1, <2>2
<1> QED BY <1>3, <1>6, <1>8, <1>9 DEF StagingInv

LEMMA UnlistKeeps == ASSUME StagingInv, NEW p \in Evaluations, Unlist(p) PROVE StagingInv'
<1>1. stagePc[p] = "unlist" /\ UNCHANGED <<refusal, stage, sims, next>> /\ manifest' = "absent"
  BY DEF Unlist, Mutex!Work
<1>2. {"unlist", "fill"} \subseteq Holding \ {"stamp"} BY DEF Holding
<1>3. StagingTypeOK /\ DoneSoFar(p) /\ (Settled => Stands) BY <1>1, <1>2, Where
<1>4. stage = Unstaged /\ next[p] = 1 BY <1>1, <1>3 DEF DoneSoFar
<1>5. CASE refusal
  <2>1. Mutex!Work(p, "unlist", "release") /\ result' = [result EXCEPT ![p] = "refused"]
    BY <1>5 DEF Unlist
  <2> QED BY <1>1, <1>2, <1>4, <1>5, <2>1, AnswerKeeps
<1>6. CASE ~refusal
  <2>1. Mutex!Work(p, "unlist", "fill") /\ result' = result BY <1>6 DEF Unlist
  <2>2. ~Settled BY <1>1, <1>3, <1>6 DEF Stands
  <2>3. stagePc'[p] = "fill" BY <1>2, <1>3, <2>1, WorkTypes DEF Places
  <2>4. DoneSoFar(p)'
    BY <1>1, <1>4, <1>6, <2>3, FillingIs DEF DoneSoFar, Queued, Filling, Unstaged
  <2> QED BY <1>1, <1>2, <1>3, <2>1, <2>2, <2>4, WorkKeeps DEF StagingTypeOK, Bytes
<1> QED BY <1>5, <1>6

LEMMA PruneKeeps == ASSUME StagingInv, NEW p \in Evaluations, PruneSims(p) PROVE StagingInv'
<1>1. /\ stagePc[p] = "prune" /\ UNCHANGED <<refusal, stage, manifest, next>>
      /\ sims' = sims \cap SimsOfStage /\ Mutex!Work(p, "prune", "release")
      /\ result' = [result EXCEPT ![p] = "staged"]
  BY DEF PruneSims, StillStaged, Mutex!Work
<1>2. "prune" \in Holding \ {"stamp"} BY DEF Holding
<1>3. DoneSoFar(p) BY DEF StagingInv
<1>4. ~refusal /\ stage = Wanted /\ manifest = "now" /\ SimsOfStage \subseteq sims
  BY <1>1, <1>3 DEF DoneSoFar
<1>5. sims' = Sims \cap Planned BY <1>1, <1>4, SimsOfPlan
<1> QED BY <1>1, <1>2, <1>4, <1>5, AnswerKeeps

LEMMA LeaveKeeps == ASSUME StagingInv, NEW p \in Evaluations, Leave(p) PROVE StagingInv'
<1>1. Mutex!Work(p, "exit", "done") /\ stagePc[p] = "exit" /\ UNCHANGED work
  BY DEF Leave, Mutex!Work
<1>2. "done" \in Places /\ "exit" \in Through BY DEF Places, Through
<1>3. StagingTypeOK' BY <1>1, <1>2, WorkTypes DEF StagingInv, StagingTypeOK, work
<1>4. stagePc'[p] = "done" /\ \A q \in Evaluations : q # p => stagePc'[q] = stagePc[q]
  BY <1>1, <1>2, WorkTypes DEF StagingInv
<1>5. Settled /\ Stands BY <1>1, <1>2 DEF StagingInv, OneHolds
<1>6. Settled' /\ Stands' BY <1>1, <1>4, <1>5 DEF Settled, Stands, work
<1>7. \A q \in Evaluations : DoneSoFar(q)'
  BY <1>1, <1>4 DEF StagingInv, DoneSoFar, work, SimsOfStage, Queued
<1> QED BY <1>3, <1>6, <1>7 DEF StagingInv

LEMMA StagingBegins == StagingInit => StagingInv
<1> SUFFICES ASSUME StagingInit PROVE StagingInv OBVIOUS
<1>1. /\ stageLock = [owner |-> Unowned, stamped |-> FALSE]
      /\ stagePc = [p \in Evaluations |-> "try"]
      /\ stageSeen = [p \in Evaluations |-> Unowned]
      /\ next = [p \in Evaluations |-> 1] /\ result = [p \in Evaluations |-> "none"]
  BY DEF StagingInit, Mutex!LockInit, Mutex!Free
<1>2. StagingTypeOK
  <2>1. MaxPolls \in Nat /\ Len(Plan) \in Nat BY StagingAssumption
  <2>2. 1 \in 1..(Len(Plan) + 1) /\ 0 \in 0..MaxPolls BY <2>1
  <2> QED BY <1>1, <2>2
          DEF StagingTypeOK, StagingInit, Mutex!LockTypeOK, Mutex!LockInit, Bytes
<1>3. ~Settled BY <1>1 DEF Settled
<1>4. OneHolds BY <1>1 DEF OneHolds, Holding, Through
<1>5. \A p \in Evaluations : DoneSoFar(p) BY <1>1 DEF DoneSoFar
<1> QED BY <1>2, <1>3, <1>4, <1>5 DEF StagingInv

LEMMA StagingMoves ==
    ASSUME FewAreMortal, StagingInv, [StagingNext]_stagingVars
    PROVE  StagingInv'
<1>1. CASE UNCHANGED stagingVars
  BY <1>1 DEF stagingVars, work, StagingInv, StagingTypeOK, Mutex!LockTypeOK, Settled, Stands,
              OneHolds, DoneSoFar, SimsOfStage
<1>2. CASE StagingNext
  <2>1. PICK p \in Evaluations :
           \/ (Mutex!Locking(p) \/ GiveOrWait(p) \/ Mutex!Kill(p)) /\ UNCHANGED work
           \/ Enter(p) \/ WipeOne(p) \/ Wiped(p) \/ Unlist(p) \/ FillOne(p) \/ Filled(p)
           \/ ListPlan(p) \/ PublishSims(p) \/ PruneSims(p) \/ Leave(p)
    BY <1>2 DEF StagingNext, StagingStep
  <2> QED BY <2>1, LockKeeps, EnterKeeps, WipeKeeps, UnlistKeeps, FillKeeps, ListKeeps,
             PublishKeeps, PruneKeeps, LeaveKeeps
<1> QED BY <1>1, <1>2

\* One stage a build: any number of evaluations that are not killed, or two that may
\* be, at any point.
THEOREM StageIsThisBuildsHolds == FewAreMortal => (StagingSpec => []StageIsThisBuilds)
<1> SUFFICES ASSUME FewAreMortal PROVE StagingSpec => []StageIsThisBuilds OBVIOUS
<1>1. StagingInit => StagingInv BY StagingBegins
<1>2. StagingInv /\ [StagingNext]_stagingVars => StagingInv' BY StagingMoves
<1>3. StagingInv => StageIsThisBuilds
  <2> SUFFICES ASSUME StagingInv PROVE StageIsThisBuilds OBVIOUS
  <2>1. \A p \in Evaluations : result[p] # "none" => Stands BY DEF StagingInv, Settled
  <2> QED BY <2>1 DEF StageIsThisBuilds, ReaderSeesThePlan, RefusalLeavesNothing,
             SimsAreThisBuilds, Reading, Stands
<1> QED BY <1>1, <1>2, <1>3, PTL DEF StagingSpec

-----------------------------------------------------------------------------
(* Publish: what is of the right kind.                                       *)
ActIds == {e.id : e \in Texts}
Lines == [id : ActIds, text : Texts \cup {NoText}]
Readings ==
    [doc : Docs \cup {NoDoc}, ledger : Seq(Texts), roster : SUBSET Actors, index : SUBSET {DocPath}]
Locks ==
    {NoLock, Torn} \cup
    [state : {"read"}, inputs : Readings, dirty : BOOLEAN, head : Nat, entries : SUBSET Lines]
WorkTrees ==
    [doc : Docs \cup {NoDoc}, ledger : Seq(Texts), roster : SUBSET Actors, index : SUBSET {DocPath},
     lock : Locks]
Begun ==
    [pc : {"facts"}, shallow : BOOLEAN, strict : BOOLEAN, dirty : BOOLEAN, head : Nat,
     baselines : SUBSET [entries : SUBSET Lines, accepted : BOOLEAN]]
Judged ==
    [pc : {"planned", "indexed"}, shallow : BOOLEAN, head : Nat, dirty : BOOLEAN, inputs : Readings]
Gates == {NoRun} \cup [pc : {"gated"}, inputs : Readings]
Publications == [inputs : Readings, dirty : BOOLEAN, head : Nat, verified : BOOLEAN]

Kinds ==
    /\ tree \in WorkTrees /\ log \in Seq(WorkTrees) /\ Len(log) \in 0..MaxCommits
    /\ build \in {NoRun} \cup Begun \cup Judged
    /\ ingest \in Gates
    /\ published \subseteq Publications
    /\ budget \in [{"text", "acts", "undo", "runs"} -> Nat]

-----------------------------------------------------------------------------
(* Publish: what makes its promises last.                                    *)
LinesOf(said) == {[id |-> e.id, text |-> e] : e \in Entries(said)}

Authorised(e, pubs) == \E q \in pubs : e \in Entries(q.inputs.ledger) /\ e.by \in q.inputs.roster

\* The oldest of some places.
EarliestOf(S) == CHOOSE i \in S : \A j \in S : i <= j

\* Among v[a] to v[n], where an id can be read.
ReadAt(v, n, a, id) == {i \in a..n : LedgerReads(v[i]) /\ id \in EntryIds(v[i])}

\* H is what v[a] to v[n] amount to: every id there, with the oldest text of it.
Recalls(H, v, n, a) ==
    /\ \A i \in a..n : \A id \in EntryIds(v[i]) : \E s \in H : s.id = id
    /\ \A s \in H :
        /\ \E i \in a..n : s.id \in EntryIds(v[i])
        /\ IF ReadAt(v, n, a, s.id) = {} THEN s.text = NoText
           ELSE s.text \in Entries(v[EarliestOf(ReadAt(v, n, a, s.id))]) /\ s.text.id = s.id

\* KeepsCommitted, of any history.
NoneLost(h, said, n) ==
    /\ \A i \in 1..n : EntryIds(h[i].ledger) \subseteq EntryIds(said)
    /\ \A e \in Entries(said) :
           LET with == ReadAt(LedgersOf(h), n, 1, e.id)
           IN  with # {} => e \in Entries(h[EarliestOf(with)].ledger)

\* A document dates what the n oldest commits say otherwise.
Dates(h, doc, n) ==
    IsStable(doc) => \A i \in 1..n : IsStable(h[i].doc) =>
        h[i].doc.body = doc.body \/ h[i].doc.gen < doc.gen

Committed(h, said, n) == n > 0 /\ Inputs(h[n]) = said

\* A lock, wherever it has been since, is one that some build published.
LockStands(l, pubs) ==
    l.state = "read" => l.entries = LinesOf(l.inputs.ledger) /\ \E p \in pubs : p.inputs = l.inputs

\* A build that has read what git and the last lock say.
FactsStand(b, t, h, pubs) ==
    /\ b.head <= Len(h)
    /\ ~b.shallow => \E base \in b.baselines : Recalls(base.entries, LedgersOf(h), b.head, 1)
    /\ \A base \in b.baselines : base.accepted =>
           \A s \in base.entries : s.text # NoText => Authorised(s.text, pubs)
    /\ ~EditsDuring /\ ~b.dirty => Committed(h, Inputs(t), b.head)

\* A build that has judged the tree.
JudgementStands(b, h, pubs) ==
    /\ b.head <= Len(h)
    /\ ~b.shallow => NoneLost(h, b.inputs.ledger, b.head) /\ Dates(h, b.inputs.doc, b.head)
    /\ \A e \in Entries(b.inputs.ledger) : e.by \in b.inputs.roster \/ Authorised(e, pubs)
    /\ ~EditsDuring /\ ~b.dirty => Committed(h, b.inputs, b.head)

\* What a build published.
PublicationStands(p, h, pubs) ==
    /\ p.head <= Len(h)
    /\ p.verified => NoneLost(h, p.inputs.ledger, p.head) /\ Dates(h, p.inputs.doc, p.head)
    /\ \A e \in Entries(p.inputs.ledger) : Authorised(e, pubs)
    /\ ~EditsDuring /\ ~p.dirty => Committed(h, p.inputs, p.head)

\* What an ingest let through.
GateStands(g, pubs) == g # NoRun => \E p \in pubs : p.inputs = g.inputs

PublishInv ==
    /\ Kinds
    /\ LockStands(tree.lock, published)
    /\ \A i \in 1..Len(log) : LockStands(log[i].lock, published)
    /\ build \in Begun => FactsStand(build, tree, log, published)
    /\ build \in Judged => JudgementStands(build, log, published)
    /\ \A p \in published : PublicationStands(p, log, published)
    /\ GateStands(ingest, published)

-----------------------------------------------------------------------------
(* What the walk over the committed ledgers amounts to. *)

\* The oldest is what its name says.
LEMMA EarliestIs ==
    ASSUME NEW n \in Nat, NEW S, S \subseteq 1..n
    PROVE  /\ S # {} => EarliestOf(S) \in S /\ \A j \in S : EarliestOf(S) <= j
           /\ \A i \in S : (\A j \in S : i <= j) => EarliestOf(S) = i
<1>1. S # {} => EarliestOf(S) \in S /\ \A j \in S : EarliestOf(S) <= j
  <2>1. S \subseteq 0..n OBVIOUS
  <2> QED BY <2>1, FirstExists DEF EarliestOf
<1>2. ASSUME NEW i \in S, \A j \in S : i <= j PROVE EarliestOf(S) = i
  <2> DEFINE k == EarliestOf(S)
  <2>1. k \in S /\ k <= i /\ i <= k BY <1>1, <1>2
  <2> HIDE DEF k
  <2>2. k \in Int /\ i \in Int BY <2>1
  <2>3. k = i BY <2>1, <2>2
  <2> QED BY <2>3 DEF k
<1> QED BY <1>1, <1>2

\* One version more, older than those walked so far.
LEMMA WalkRecalls ==
    ASSUME NEW n \in Nat, NEW v, NEW a \in 1..n, NEW H, Recalls(H, v, n, a + 1)
    PROVE  Recalls(WalkVersion(H, v[a]), v, n, a)
<1> DEFINE W == WalkVersion(H, v[a])
<1>1. a \in a..n /\ \A i \in a..n : i = a \/ i \in (a + 1)..n OBVIOUS
<1>2. \A i \in (a + 1)..n : i \in a..n /\ a <= i OBVIOUS
<1>3. \A i \in (a + 1)..n : \A id \in EntryIds(v[i]) : \E s \in H : s.id = id BY DEF Recalls
<1>4. ASSUME NEW s \in H
      PROVE  /\ \E i \in (a + 1)..n : s.id \in EntryIds(v[i])
             /\ IF ReadAt(v, n, a + 1, s.id) = {} THEN s.text = NoText
                ELSE s.text \in Entries(v[EarliestOf(ReadAt(v, n, a + 1, s.id))]) /\ s.text.id = s.id
  BY DEF Recalls
<1>5. ASSUME NEW id, ~(LedgerReads(v[a]) /\ id \in EntryIds(v[a]))
      PROVE  ReadAt(v, n, a, id) = ReadAt(v, n, a + 1, id)
  BY <1>1, <1>2, <1>5 DEF ReadAt
<1>6. ASSUME NEW id \in EntryIds(v[a]), LedgerReads(v[a])
      PROVE  ReadAt(v, n, a, id) # {} /\ EarliestOf(ReadAt(v, n, a, id)) = a
  <2> DEFINE S == ReadAt(v, n, a, id)
  <2>1. a \in S BY <1>1, <1>6 DEF ReadAt
  <2>2. S \subseteq 1..n /\ \A j \in S : a <= j BY <1>1, <1>2 DEF ReadAt
  <2> HIDE DEF S
  <2>3. EarliestOf(S) = a BY <2>1, <2>2, EarliestIs
  <2> QED BY <2>1, <2>3 DEF S
<1>7. CASE LedgerReads(v[a])
  <2>1. W = {s \in H : s.id \notin EntryIds(v[a])} \cup {[id |-> e.id, text |-> e] : e \in Entries(v[a])}
    BY <1>7 DEF WalkVersion
  <2> HIDE DEF W
  <2>2. ASSUME NEW i \in a..n, NEW id \in EntryIds(v[i]) PROVE \E s \in W : s.id = id
    <3>1. CASE id \in EntryIds(v[a])
      <4>1. PICK e \in Entries(v[a]) : id = e.id BY <3>1 DEF EntryIds
      <4>2. [id |-> e.id, text |-> e] \in W BY <2>1
      <4> QED BY <4>1, <4>2
    <3>2. CASE id \notin EntryIds(v[a])
      <4>1. PICK s \in H : s.id = id BY <1>1, <1>3, <3>2
      <4> QED BY <2>1, <3>2, <4>1
    <3> QED BY <3>1, <3>2
  <2>3. ASSUME NEW s \in W
        PROVE  /\ \E i \in a..n : s.id \in EntryIds(v[i])
               /\ IF ReadAt(v, n, a, s.id) = {} THEN s.text = NoText
                  ELSE s.text \in Entries(v[EarliestOf(ReadAt(v, n, a, s.id))]) /\ s.text.id = s.id
    <3>1. CASE s \in H /\ s.id \notin EntryIds(v[a]) BY <1>2, <1>4, <1>5, <3>1
    <3>2. ASSUME NEW e \in Entries(v[a]), s = [id |-> e.id, text |-> e] PROVE <2>3!2
      <4>1. s.id = e.id /\ s.text = e BY <3>2
      <4>2. s.id \in EntryIds(v[a]) BY <4>1 DEF EntryIds
      <4> QED BY <1>1, <1>6, <1>7, <4>1, <4>2
    <3> QED BY <2>1, <3>1, <3>2
  <2> QED BY <2>2, <2>3 DEF Recalls, W
<1>8. CASE ~LedgerReads(v[a])
  <2>1. W = H \cup {[id |-> i, text |-> NoText] :
                        i \in {j \in EntryIds(v[a]) : ~\E s \in H : s.id = j}}
    BY <1>8 DEF WalkVersion
  <2> HIDE DEF W
  <2>2. ASSUME NEW i \in a..n, NEW id \in EntryIds(v[i]) PROVE \E s \in W : s.id = id
    <3>1. CASE \E s \in H : s.id = id BY <2>1, <3>1
    <3>2. CASE ~\E s \in H : s.id = id
      <4>1. id \in EntryIds(v[a]) BY <1>1, <1>3, <3>2
      <4>2. [id |-> id, text |-> NoText] \in W BY <2>1, <3>2, <4>1
      <4> QED BY <4>2
    <3> QED BY <3>1, <3>2
  <2>3. ASSUME NEW s \in W
        PROVE  /\ \E i \in a..n : s.id \in EntryIds(v[i])
               /\ IF ReadAt(v, n, a, s.id) = {} THEN s.text = NoText
                  ELSE s.text \in Entries(v[EarliestOf(ReadAt(v, n, a, s.id))]) /\ s.text.id = s.id
    <3>1. ReadAt(v, n, a, s.id) = ReadAt(v, n, a + 1, s.id) BY <1>5, <1>8
    <3>2. CASE s \in H BY <1>2, <1>4, <3>1, <3>2
    <3>3. ASSUME NEW j \in EntryIds(v[a]), ~\E t \in H : t.id = j, s = [id |-> j, text |-> NoText]
          PROVE  <2>3!2
      <4>1. s.id = j /\ s.text = NoText BY <3>3
      <4>2. ReadAt(v, n, a + 1, j) = {} BY <1>3, <3>3 DEF ReadAt
      <4> QED BY <1>1, <3>1, <4>1, <4>2
    <3> QED BY <2>1, <3>2, <3>3
  <2> QED BY <2>2, <2>3 DEF Recalls, W
<1> QED BY <1>7, <1>8

\* git-ledger.ts: the walk over all of them.
LEMMA HistoricIs ==
    ASSUME NEW E, NEW v \in Seq(Seq(E))
    PROVE  /\ HistoricEntries(v) \subseteq [id : {e.id : e \in E}, text : E \cup {NoText}]
           /\ Recalls(HistoricEntries(v), v, Len(v), 1)
<1> DEFINE n == Len(v)
           X == SUBSET [id : {e.id : e \in E}, text : E \cup {NoText}]
           step == [k \in 1..n |-> [H \in X |-> WalkVersion(H, v[n - k + 1])]]
           Is(f) == f = [k \in 0..n |-> IF k = 0 THEN {} ELSE WalkVersion(f[k - 1], v[n - k + 1])]
<1>1. n \in Nat /\ DOMAIN v = 1..n /\ \A i \in 1..n : v[i] \in Seq(E) OBVIOUS
<1> HIDE DEF n
<1>2. ASSUME NEW i \in 1..n, NEW H \in X PROVE WalkVersion(H, v[i]) \in X
  <2>1. Entries(v[i]) \subseteq E
    <3>1. v[i] \in Seq(E) BY <1>1
    <3> QED BY <3>1 DEF Entries, ToSet
  <2>2. EntryIds(v[i]) \subseteq {e.id : e \in E} BY <2>1 DEF EntryIds
  <2>3. \A e \in Entries(v[i]) : [id |-> e.id, text |-> e] \in [id : {f.id : f \in E}, text : E \cup {NoText}]
    BY <2>1
  <2>4. \A j \in EntryIds(v[i]) :
          [id |-> j, text |-> NoText] \in [id : {f.id : f \in E}, text : E \cup {NoText}]
    BY <2>2
  <2> QED BY <2>3, <2>4 DEF WalkVersion
<1>3. \A k \in 1..n : n - k + 1 \in 1..n BY <1>1
<1>4. \E f : Is(f)
  <2>1. step \in [1..n -> [X -> X]] /\ {} \in X
    <3>1. \A k \in 1..n, H \in X : WalkVersion(H, v[n - k + 1]) \in X BY <1>2, <1>3
    <3>2. {} \in X OBVIOUS
    <3> HIDE DEF X
    <3> QED BY <3>1, <3>2
  <2> HIDE DEF step, X
  <2>2. \E f : Ran(f, n, X, {}, step) BY <1>1, <2>1, LoopRuns
  <2>3. PICK f : f \in [0..n -> X] /\ f[0] = {} /\ \A k \in 1..n : f[k] = step[k][f[k - 1]]
    BY <2>2 DEF Ran
  <2>4. ASSUME NEW k \in 0..n
        PROVE  f[k] = IF k = 0 THEN {} ELSE WalkVersion(f[k - 1], v[n - k + 1])
    <3>1. CASE k = 0 BY <2>3, <3>1
    <3>2. CASE k # 0
      <4>1. k \in 1..n /\ k - 1 \in 0..n BY <1>1, <3>2
      <4>2. f[k - 1] \in X /\ f[k] = step[k][f[k - 1]] BY <2>3, <4>1
      <4> QED BY <3>2, <4>1, <4>2 DEF step
    <3> QED BY <3>1, <3>2
  <2>5. Is(f) BY <2>3, <2>4
  <2> QED BY <2>5
<1> DEFINE walked == CHOOSE f : Is(f)
<1>5. HistoricEntries(v) = walked[n] BY DEF HistoricEntries, n
<1>6. Is(walked) BY <1>4
<1> HIDE DEF walked
<1>7. walked[0] = {} BY <1>1, <1>6
<1>8. ASSUME NEW k \in 1..n PROVE walked[k] = WalkVersion(walked[k - 1], v[n - k + 1])
  <2>1. k \in 0..n /\ k # 0 BY <1>1
  <2>2. walked[k] = IF k = 0 THEN {} ELSE WalkVersion(walked[k - 1], v[n - k + 1]) BY <1>6, <2>1
  <2> QED BY <2>1, <2>2
<1> DEFINE S == {k \in 0..n : walked[k] \in X /\ Recalls(walked[k], v, n, n - k + 1)}
<1>9. 0 \in S
  <2> DEFINE a == n - 0 + 1
  <2>1. a..n = {} BY <1>1
  <2>2. Recalls({}, v, n, a) BY <2>1 DEF Recalls
  <2>3. 0 \in 0..n /\ {} \in X BY <1>1
  <2> HIDE DEF a, X
  <2>4. walked[0] \in X /\ Recalls(walked[0], v, n, a) BY <1>7, <2>2, <2>3
  <2> QED BY <2>3, <2>4 DEF a
<1>10. ASSUME NEW k \in 1..n, k - 1 \in S PROVE k \in S
  <2> DEFINE a == n - k + 1
             H == walked[k - 1]
  <2>1. a \in 1..n /\ a + 1 = n - (k - 1) + 1 /\ k \in 0..n BY <1>1
  <2>2. H \in X /\ Recalls(H, v, n, a + 1) BY <1>10, <2>1
  <2> HIDE DEF H, X
  <2>3. walked[k] = WalkVersion(H, v[a]) BY <1>8 DEF H
  <2> HIDE DEF a
  <2>4. WalkVersion(H, v[a]) \in X BY <1>2, <2>1, <2>2
  <2>5. Recalls(WalkVersion(H, v[a]), v, n, a) BY <1>1, <2>1, <2>2, WalkRecalls
  <2> QED BY <2>1, <2>3, <2>4, <2>5 DEF a
<1> HIDE DEF S
<1>11. 0..n \subseteq S BY <1>1, <1>9, <1>10, LoopKeeps
<1>12. n \in S /\ n - n + 1 = 1 BY <1>1, <1>11
<1> QED BY <1>5, <1>12 DEF S, n
-----------------------------------------------------------------------------
(* What the rules of a ledger amount to. *)

\* A ledger that reads has one text for an id.
LEMMA OneTextAnId ==
    ASSUME NEW l, LedgerReads(l), NEW e \in Entries(l)
    PROVE  /\ \A f \in Entries(l) : f.id = e.id => f = e
           /\ ById(l, e.id) = e
<1>1. ASSUME NEW f \in Entries(l), f.id = e.id PROVE f = e
  <2>1. PICK i, j \in DOMAIN l : l[i] = e /\ l[j] = f BY DEF Entries, ToSet
  <2>2. i = j BY <1>1, <2>1 DEF LedgerReads
  <2> QED BY <2>1, <2>2
<1>2. ById(l, e.id) \in Entries(l) /\ ById(l, e.id).id = e.id BY DEF ById
<1> QED BY <1>1, <1>2

\* What is not refused has broken none of the rules.
LEMMA NothingRefused ==
    ASSUME NEW l, NEW actors, NEW documents, NEW dirs, NEW bs,
           LedgerRefusals(l, actors, documents, dirs, bs) = {}
    PROVE  LedgerReads(l) /\ Unauthorised(l, actors, bs) = {} /\ Lost(l, bs) = {} /\ Rewritten(l, bs) = {}
<1>1. LedgerReads(l) BY DEF LedgerRefusals
<1>2. \A slug \in {"ksor-takedown-unauthorised", "ksor-takedown-dangling",
                   "ksor-ledger-shrank", "ksor-ledger-amended"} :
        ~ CASE slug = "ksor-takedown-unauthorised" -> Unauthorised(l, actors, bs) # {}
            [] slug = "ksor-takedown-dangling" -> OutOfStep(l, documents, dirs) # {}
            [] slug = "ksor-ledger-shrank" -> Lost(l, bs) # {}
            [] slug = "ksor-ledger-amended" -> Rewritten(l, bs) # {}
  BY <1>1 DEF LedgerRefusals
<1>3. Unauthorised(l, actors, bs) = {} BY <1>2
<1>4. Lost(l, bs) = {} BY <1>2
<1>5. Rewritten(l, bs) = {} BY <1>2
<1> QED BY <1>1, <1>3, <1>4, <1>5

\* The ledgers of a history, one by one.
LEMMA LedgersAre ==
    ASSUME NEW h \in Seq(WorkTrees)
    PROVE  /\ LedgersOf(h) \in Seq(Seq(Texts)) /\ Len(LedgersOf(h)) = Len(h)
           /\ \A i \in 1..Len(h) : LedgersOf(h)[i] = h[i].ledger
           /\ \A i \in 1..Len(h) : Entries(h[i].ledger) \subseteq Texts
<1>1. DOMAIN h = 1..Len(h) /\ Len(h) \in Nat /\ \A i \in 1..Len(h) : h[i] \in WorkTrees OBVIOUS
<1>2. \A i \in 1..Len(h) : h[i].ledger \in Seq(Texts) BY <1>1 DEF WorkTrees
<1>3. \A i \in 1..Len(h) : Entries(h[i].ledger) \subseteq Texts BY <1>2 DEF Entries, ToSet
<1>4. LedgersOf(h) = [i \in 1..Len(h) |-> h[i].ledger] BY <1>1 DEF LedgersOf
<1> QED BY <1>1, <1>2, <1>3, <1>4

\* A baseline out of history, held against a ledger: what is neither lost nor
\* rewritten keeps what was committed.
LEMMA BaselineKeeps ==
    ASSUME NEW h \in Seq(WorkTrees), NEW n \in 0..Len(h), NEW l, LedgerReads(l), NEW bs, NEW b \in bs,
           Recalls(b.entries, LedgersOf(h), n, 1), Lost(l, bs) = {}, Rewritten(l, bs) = {}
    PROVE  NoneLost(h, l, n)
<1> DEFINE v == LedgersOf(h)
           H == b.entries
           All == UNION {c.entries : c \in bs}
<1>1. \A i \in 1..n : v[i] = h[i].ledger /\ Entries(h[i].ledger) \subseteq Texts
  <2>1. \A i \in 1..n : i \in 1..Len(h) OBVIOUS
  <2> QED BY <2>1, LedgersAre
<1>2. \A s \in H : s \in All OBVIOUS
<1>3. Recalls(H, v, n, 1) OBVIOUS
<1> HIDE DEF v, H
<1>4. \A s \in H : s.id \in EntryIds(l) BY <1>2 DEF Lost
<1>5. \A s \in H : s.text # NoText => s.text = ById(l, s.id)
  BY <1>2, <1>4 DEF Rewritten
<1>6. \A i \in 1..n : EntryIds(h[i].ledger) \subseteq EntryIds(l)
  BY <1>1, <1>3, <1>4 DEF Recalls
<1>7. ASSUME NEW e \in Entries(l), NEW i \in ReadAt(v, n, 1, e.id)
      PROVE  e \in Entries(h[EarliestOf(ReadAt(v, n, 1, e.id))].ledger)
  <2> DEFINE with == ReadAt(v, n, 1, e.id)
  <2>1. with \subseteq 1..n /\ e.id \in EntryIds(v[i]) BY <1>7 DEF ReadAt
  <2>2. i \in with OBVIOUS
  <2>3. i \in 1..n BY <2>1
  <2>4. PICK s \in H : s.id = e.id BY <1>3, <2>1, <2>3 DEF Recalls
  <2>5. s.text \in Entries(v[EarliestOf(with)]) BY <1>3, <2>2, <2>4 DEF Recalls
  <2> HIDE DEF with
  <2>6. EarliestOf(with) \in 1..n
    <3>1. n \in Nat /\ with # {} BY <2>2
    <3> QED BY <2>1, <3>1, EarliestIs
  <2>7. s.text \in Entries(h[EarliestOf(with)].ledger) /\ s.text # NoText
    BY <1>1, <2>5, <2>6, PublishAssumption
  <2>8. s.text = e BY <1>5, <2>4, <2>7, OneTextAnId
  <2> QED BY <2>7, <2>8 DEF with
<1> QED BY <1>6, <1>7 DEF NoneLost, v

\* ... and a ledger that keeps all that was committed is not refused for it.
LEMMA KeptIsNotRefused ==
    ASSUME NEW h \in Seq(WorkTrees), NEW l, LedgerReads(l), NoneLost(h, l, Len(h)),
           NEW H, Recalls(H, LedgersOf(h), Len(h), 1)
    PROVE  \A s \in H : s.id \in EntryIds(l) /\ (s.text # NoText => s.text = ById(l, s.id))
<1> DEFINE v == LedgersOf(h)
           n == Len(h)
<1>1. n \in Nat /\ \A i \in 1..n : v[i] = h[i].ledger BY LedgersAre
<1>2. Recalls(H, v, n, 1) OBVIOUS
<1>3. ASSUME NEW s \in H PROVE s.id \in EntryIds(l)
  <2>1. PICK i \in 1..n : s.id \in EntryIds(v[i]) BY <1>2 DEF Recalls
  <2> QED BY <1>1, <2>1 DEF NoneLost
<1>4. ASSUME NEW s \in H, s.text # NoText PROVE s.text = ById(l, s.id)
  <2> DEFINE with == ReadAt(v, n, 1, s.id)
             k == EarliestOf(with)
  <2>1. with # {} /\ s.text \in Entries(v[k]) /\ s.text.id = s.id BY <1>2, <1>4 DEF Recalls
  <2>2. with \subseteq 1..n BY DEF ReadAt
  <2>3. k \in with
    <3> HIDE DEF with
    <3> QED BY <1>1, <2>1, <2>2, EarliestIs
  <2>4. LedgerReads(v[k]) /\ v[k] = h[k].ledger BY <1>1, <2>2, <2>3 DEF ReadAt
  <2>5. PICK e \in Entries(l) : e.id = s.id BY <1>3 DEF EntryIds
  <2>6. e \in Entries(h[k].ledger) BY <2>1, <2>5 DEF NoneLost
  <2> HIDE DEF k, with
  <2>7. e = s.text BY <2>1, <2>4, <2>5, <2>6, OneTextAnId
  <2> QED BY <2>5, <2>7, OneTextAnId
<1> QED BY <1>3, <1>4

\* What was committed, as the property says it.
LEMMA KeptIs ==
    ASSUME log \in Seq(WorkTrees), NEW l, NEW n \in 0..Len(log)
    PROVE  KeepsCommitted(l, n) <=> NoneLost(log, l, n)
<1>1. \A i \in 1..n : LedgersOf(log)[i] = log[i].ledger
  <2>1. \A i \in 1..n : i \in 1..Len(log) OBVIOUS
  <2> QED BY <2>1, LedgersAre
<1>2. ASSUME NEW e
      PROVE  ReadAt(LedgersOf(log), n, 1, e.id) =
                 {i \in 1..n : LedgerReads(log[i].ledger) /\ e.id \in EntryIds(log[i].ledger)}
  BY <1>1 DEF ReadAt
<1> QED BY <1>2 DEF KeepsCommitted, NoneLost, EarliestOf
-----------------------------------------------------------------------------
(* What lasts while commits and publications are added. *)

Prefix(h, k) == Len(h) <= Len(k) /\ \A i \in 1..Len(h) : k[i] = h[i]

\* What was said of the oldest commits is said of them still.
LEMMA HistoryLasts ==
    ASSUME NEW h \in Seq(WorkTrees), NEW k \in Seq(WorkTrees), Prefix(h, k), NEW n \in 0..Len(h)
    PROVE  /\ n <= Len(k)
           /\ \A said : NoneLost(h, said, n) => NoneLost(k, said, n)
           /\ \A doc : Dates(h, doc, n) => Dates(k, doc, n)
           /\ \A said : Committed(h, said, n) => Committed(k, said, n)
           /\ \A H : Recalls(H, LedgersOf(h), n, 1) => Recalls(H, LedgersOf(k), n, 1)
<1> DEFINE v == LedgersOf(h)
           w == LedgersOf(k)
<1>1. Len(h) \in Nat /\ Len(k) \in Nat /\ Len(h) <= Len(k) BY DEF Prefix
<1>2. \A i \in 1..n : i \in 1..Len(h) /\ i \in 1..Len(k) /\ k[i] = h[i] BY <1>1 DEF Prefix
<1>3. \A i \in 1..n : w[i] = v[i] BY <1>2, LedgersAre
<1> HIDE DEF v, w
<1>4. \A id : ReadAt(w, n, 1, id) = ReadAt(v, n, 1, id) BY <1>3 DEF ReadAt
<1>5. ASSUME NEW id, ReadAt(v, n, 1, id) # {} PROVE EarliestOf(ReadAt(v, n, 1, id)) \in 1..n
  <2>1. ReadAt(v, n, 1, id) \subseteq 1..n BY DEF ReadAt
  <2>2. n \in Nat BY <1>1
  <2> QED BY <1>5, <2>1, <2>2, EarliestIs
<1>6. ASSUME NEW said, NoneLost(h, said, n) PROVE NoneLost(k, said, n)
  <2>1. \A i \in 1..n : EntryIds(k[i].ledger) \subseteq EntryIds(said) BY <1>2, <1>6 DEF NoneLost
  <2>2. ASSUME NEW e \in Entries(said), ReadAt(w, n, 1, e.id) # {}
        PROVE  e \in Entries(k[EarliestOf(ReadAt(w, n, 1, e.id))].ledger)
    <3>1. e \in Entries(h[EarliestOf(ReadAt(v, n, 1, e.id))].ledger) BY <1>4, <1>6, <2>2 DEF NoneLost, v
    <3>2. EarliestOf(ReadAt(v, n, 1, e.id)) \in 1..n BY <1>4, <1>5, <2>2
    <3> QED BY <1>2, <1>4, <3>1, <3>2
  <2> QED BY <2>1, <2>2 DEF NoneLost, w
<1>7. ASSUME NEW doc, Dates(h, doc, n) PROVE Dates(k, doc, n) BY <1>2, <1>7 DEF Dates
<1>8. ASSUME NEW said, Committed(h, said, n) PROVE Committed(k, said, n)
  <2>1. n \in 1..n BY <1>8 DEF Committed
  <2> QED BY <1>2, <1>8, <2>1 DEF Committed
<1>9. ASSUME NEW H, Recalls(H, v, n, 1) PROVE Recalls(H, w, n, 1)
  <2>1. \A i \in 1..n : \A id \in EntryIds(w[i]) : \E s \in H : s.id = id BY <1>3, <1>9 DEF Recalls
  <2>2. ASSUME NEW s \in H
        PROVE  /\ \E i \in 1..n : s.id \in EntryIds(w[i])
               /\ IF ReadAt(w, n, 1, s.id) = {} THEN s.text = NoText
                  ELSE s.text \in Entries(w[EarliestOf(ReadAt(w, n, 1, s.id))]) /\ s.text.id = s.id
    <3>1. /\ \E i \in 1..n : s.id \in EntryIds(v[i])
          /\ IF ReadAt(v, n, 1, s.id) = {} THEN s.text = NoText
             ELSE s.text \in Entries(v[EarliestOf(ReadAt(v, n, 1, s.id))]) /\ s.text.id = s.id
      BY <1>9 DEF Recalls
    <3>2. \E i \in 1..n : s.id \in EntryIds(w[i]) BY <1>3, <3>1
    <3>3. CASE ReadAt(v, n, 1, s.id) = {} BY <1>4, <3>1, <3>2, <3>3
    <3>4. CASE ReadAt(v, n, 1, s.id) # {}
      <4>1. w[EarliestOf(ReadAt(v, n, 1, s.id))] = v[EarliestOf(ReadAt(v, n, 1, s.id))]
        BY <1>3, <1>5, <3>4
      <4> QED BY <1>4, <3>1, <3>2, <3>4, <4>1
    <3> QED BY <3>3, <3>4
  <2> QED BY <2>1, <2>2 DEF Recalls
<1> QED BY <1>1, <1>6, <1>7, <1>8, <1>9 DEF v, w

\* So is what was said of locks, builds, publications and gates.
LEMMA StandsLasts ==
    ASSUME NEW h \in Seq(WorkTrees), NEW k \in Seq(WorkTrees), Prefix(h, k), NEW pubs, NEW qs, pubs \subseteq qs
    PROVE  /\ \A l : LockStands(l, pubs) => LockStands(l, qs)
           /\ \A g : GateStands(g, pubs) => GateStands(g, qs)
           /\ \A b \in Begun : \A t, u : FactsStand(b, t, h, pubs) /\ (~EditsDuring => Inputs(u) = Inputs(t))
                                      => FactsStand(b, u, k, qs)
           /\ \A b \in Judged : JudgementStands(b, h, pubs) => JudgementStands(b, k, qs)
           /\ \A p \in Publications : PublicationStands(p, h, pubs) => PublicationStands(p, k, qs)
<1>1. \A e : Authorised(e, pubs) => Authorised(e, qs) BY DEF Authorised
<1>2. ASSUME NEW n \in Nat, n <= Len(h)
      PROVE  /\ n <= Len(k)
             /\ \A said : NoneLost(h, said, n) => NoneLost(k, said, n)
             /\ \A doc : Dates(h, doc, n) => Dates(k, doc, n)
             /\ \A said : Committed(h, said, n) => Committed(k, said, n)
             /\ \A H : Recalls(H, LedgersOf(h), n, 1) => Recalls(H, LedgersOf(k), n, 1)
  <2>1. n \in 0..Len(h) BY <1>2
  <2> QED BY <2>1, HistoryLasts
<1>3. \A l : LockStands(l, pubs) => LockStands(l, qs) BY DEF LockStands
<1>4. \A g : GateStands(g, pubs) => GateStands(g, qs) BY DEF GateStands
<1>5. ASSUME NEW b \in Begun, NEW t, NEW u, FactsStand(b, t, h, pubs), ~EditsDuring => Inputs(u) = Inputs(t)
      PROVE  FactsStand(b, u, k, qs)
  <2>1. b.head \in Nat /\ b.head <= Len(h) BY <1>5 DEF Begun, FactsStand
  <2> QED BY <1>1, <1>2, <1>5, <2>1 DEF FactsStand
<1>6. ASSUME NEW b \in Judged, JudgementStands(b, h, pubs) PROVE JudgementStands(b, k, qs)
  <2>1. b.head \in Nat /\ b.head <= Len(h) BY <1>6 DEF Judged, JudgementStands
  <2> QED BY <1>1, <1>2, <1>6, <2>1 DEF JudgementStands
<1>7. ASSUME NEW p \in Publications, PublicationStands(p, h, pubs) PROVE PublicationStands(p, k, qs)
  <2>1. p.head \in Nat /\ p.head <= Len(h) BY <1>7 DEF Publications, PublicationStands
  <2> QED BY <1>1, <1>2, <1>7, <2>1 DEF PublicationStands
<1> QED BY <1>3, <1>4, <1>5, <1>6, <1>7

\* A step that adds commits of the tree and publications, and leaves the rest in order.
LEMMA StepKeeps ==
    ASSUME PublishInv, Kinds', Prefix(log, log'), published \subseteq published',
           LockStands(tree'.lock, published'),
           \A i \in 1..Len(log') : i \in 1..Len(log) \/ log'[i] = tree,
           build' \in Begun => FactsStand(build', tree', log', published'),
           build' \in Judged => JudgementStands(build', log', published'),
           \A p \in published' : p \in published \/ PublicationStands(p, log', published'),
           GateStands(ingest', published')
    PROVE  PublishInv'
<1>1. log \in Seq(WorkTrees) /\ log' \in Seq(WorkTrees) /\ published \subseteq Publications
  BY DEF PublishInv, Kinds
<1>2. \A l : LockStands(l, published) => LockStands(l, published') BY <1>1, StandsLasts
<1>3. \A p \in Publications : PublicationStands(p, log, published) => PublicationStands(p, log', published')
  BY <1>1, StandsLasts
<1>4. \A i \in 1..Len(log') : LockStands(log'[i].lock, published')
  <2>1. \A i \in 1..Len(log) : log'[i] = log[i] BY DEF Prefix
  <2> QED BY <1>2, <2>1 DEF PublishInv
<1>5. \A p \in published' : PublicationStands(p, log', published') BY <1>1, <1>3 DEF PublishInv
<1> QED BY <1>4, <1>5 DEF PublishInv
-----------------------------------------------------------------------------
(* The authors keep the invariant. *)

\* A history is a beginning of itself.
LEMMA PrefixOfSelf == ASSUME NEW h \in Seq(WorkTrees) PROVE Prefix(h, h)
BY DEF Prefix

\* A bound that is used once more.
LEMMA Spent ==
    ASSUME budget \in [{"text", "acts", "undo", "runs"} -> Nat],
           NEW what \in {"text", "acts", "undo", "runs"}, budget[what] > 0,
           budget' = [budget EXCEPT ![what] = @ - 1]
    PROVE  budget' \in [{"text", "acts", "undo", "runs"} -> Nat]
<1>1. budget[what] \in Nat /\ budget[what] - 1 \in Nat OBVIOUS
<1> QED BY <1>1

\* An edit leaves another tree, with a lock that stands.
LEMMA EditsInv ==
    ASSUME PublishInv, NEW what \in {"text", "acts", "undo"}, NEW t \in WorkTrees,
           LockStands(t.lock, published), Edits(what, t)
    PROVE  PublishInv'
<1>1. tree' = t /\ UNCHANGED <<log, build, ingest, published>> BY DEF Edits
<1>2. budget' \in [{"text", "acts", "undo", "runs"} -> Nat]
  BY Spent DEF Edits, PublishInv, Kinds
<1>3. Kinds' BY <1>1, <1>2 DEF PublishInv, Kinds
<1>4. log \in Seq(WorkTrees) /\ Prefix(log, log) BY PrefixOfSelf DEF PublishInv, Kinds
<1>5. ASSUME build \in Begun PROVE FactsStand(build, t, log, published)
  <2>1. build.pc = "facts" BY <1>5 DEF Begun
  <2>2. EditsDuring BY <2>1 DEF Edits
  <2> QED BY <1>4, <1>5, <2>2, StandsLasts DEF PublishInv
<1> QED BY <1>1, <1>3, <1>4, <1>5, StepKeeps DEF PublishInv

\* The ledger, edited.
LEMMA LedgerEdits ==
    ASSUME NEW l \in Seq(Texts)
    PROVE  /\ \A e \in Texts : Append(l, e) \in Seq(Texts)
           /\ \A i \in DOMAIN l, e \in Texts : [l EXCEPT ![i] = e] \in Seq(Texts)
           /\ \A i \in DOMAIN l : RemoveAt(l, i) \in Seq(Texts)
<1>1. \A e \in Texts : Append(l, e) \in Seq(Texts) OBVIOUS
<1>2. \A i \in DOMAIN l, e \in Texts : [l EXCEPT ![i] = e] \in Seq(Texts) OBVIOUS
<1>3. ASSUME NEW i \in DOMAIN l PROVE RemoveAt(l, i) \in Seq(Texts)
  <2>1. Len(l) \in Nat /\ i \in 1..Len(l) OBVIOUS
  <2>2. SubSeq(l, 1, i - 1) \in Seq(Texts) BY <2>1
  <2>3. SubSeq(l, i + 1, Len(l)) \in Seq(Texts) BY <2>1
  <2> QED BY <2>2, <2>3 DEF RemoveAt
<1> QED BY <1>1, <1>2, <1>3

\* Every edit, of the document, the ledger, the policy or the lock, and every checkout.
LEMMA AuthorsInv ==
    ASSUME PublishInv,
           \/ EditDocument \/ RemoveDocument \/ EditPolicy \/ AddEntry \/ EditEntry \/ DropEntry
           \/ DeleteLock \/ Checkout
    PROVE  PublishInv'
<1>1. tree \in WorkTrees /\ LockStands(tree.lock, published) BY DEF PublishInv, Kinds
<1>2. tree = [doc |-> tree.doc, ledger |-> tree.ledger, roster |-> tree.roster, index |-> tree.index,
              lock |-> tree.lock] /\ tree.ledger \in Seq(Texts)
  BY <1>1 DEF WorkTrees
<1>3. ASSUME NEW t \in WorkTrees, t.lock = tree.lock, NEW what \in {"text", "acts", "undo"}, Edits(what, t)
      PROVE  PublishInv'
  BY <1>1, <1>3, EditsInv
<1>4. CASE EditDocument
  <2>1. PICK d \in Docs : Edits("text", [tree EXCEPT !.doc = d]) BY <1>4 DEF EditDocument
  <2> DEFINE t == [tree EXCEPT !.doc = d]
  <2>2. t \in WorkTrees /\ t.lock = tree.lock BY <1>1, <1>2 DEF WorkTrees
  <2> QED BY <1>3, <2>1, <2>2
<1>5. CASE RemoveDocument
  <2> DEFINE t == [tree EXCEPT !.doc = NoDoc]
  <2>1. t \in WorkTrees /\ t.lock = tree.lock BY <1>1, <1>2 DEF WorkTrees
  <2>2. Edits("text", t) BY <1>5 DEF RemoveDocument
  <2> QED BY <1>3, <2>1, <2>2
<1>6. CASE EditPolicy
  <2>1. PICK r \in SUBSET Actors : Edits("acts", [tree EXCEPT !.roster = r]) BY <1>6 DEF EditPolicy
  <2> DEFINE t == [tree EXCEPT !.roster = r]
  <2>2. t \in WorkTrees /\ t.lock = tree.lock BY <1>1, <1>2 DEF WorkTrees
  <2> QED BY <1>3, <2>1, <2>2
<1>7. ASSUME NEW l \in Seq(Texts), NEW what \in {"acts", "undo"}, Edits(what, [tree EXCEPT !.ledger = l])
      PROVE  PublishInv'
  <2> DEFINE t == [tree EXCEPT !.ledger = l]
  <2>1. t \in WorkTrees /\ t.lock = tree.lock BY <1>1, <1>2 DEF WorkTrees
  <2> QED BY <1>3, <1>7, <2>1
<1>8. CASE AddEntry
  <2>1. PICK e \in Appendable : Edits("acts", [tree EXCEPT !.ledger = Append(tree.ledger, e)])
    BY <1>8 DEF AddEntry
  <2>2. Append(tree.ledger, e) \in Seq(Texts) BY <1>2, LedgerEdits DEF Texts
  <2> QED BY <1>7, <2>1, <2>2
<1>9. CASE EditEntry
  <2>1. PICK i \in DOMAIN tree.ledger, e \in Handwritten :
          Edits("acts", [tree EXCEPT !.ledger = [tree.ledger EXCEPT ![i] = e]])
    BY <1>1, <1>2, <1>9 DEF EditEntry
  <2>2. [tree.ledger EXCEPT ![i] = e] \in Seq(Texts) BY <1>2, LedgerEdits DEF Texts
  <2> QED BY <1>7, <2>1, <2>2
<1>10. CASE DropEntry
  <2>1. PICK i \in DOMAIN tree.ledger : Edits("acts", [tree EXCEPT !.ledger = RemoveAt(tree.ledger, i)])
    BY <1>10 DEF DropEntry
  <2>2. RemoveAt(tree.ledger, i) \in Seq(Texts) BY <1>2, LedgerEdits
  <2> QED BY <1>7, <2>1, <2>2
<1>11. CASE DeleteLock
  <2> DEFINE t == [tree EXCEPT !.lock = NoLock]
  <2>1. t \in WorkTrees /\ t.lock = NoLock BY <1>1, <1>2 DEF WorkTrees, Locks
  <2>2. Edits("undo", t) BY <1>11 DEF DeleteLock
  <2>3. LockStands(t.lock, published) BY <2>1 DEF LockStands, NoLock
  <2> QED BY <2>1, <2>2, <2>3, EditsInv
<1>12. CASE Checkout
  <2>1. PICK i \in DOMAIN log :
          Edits("undo", log[i]) \/ Edits("undo", [tree EXCEPT !.ledger = log[i].ledger])
    BY <1>12 DEF Checkout
  <2>2. log[i] \in WorkTrees /\ LockStands(log[i].lock, published) BY <2>1 DEF PublishInv, Kinds
  <2>3. log[i].ledger \in Seq(Texts) BY <2>2 DEF WorkTrees
  <2>4. CASE Edits("undo", log[i]) BY <2>2, <2>4, EditsInv
  <2>5. CASE Edits("undo", [tree EXCEPT !.ledger = log[i].ledger]) BY <1>7, <2>3, <2>5
  <2> QED BY <2>1, <2>4, <2>5
<1> QED BY <1>4, <1>5, <1>6, <1>8, <1>9, <1>10, <1>11, <1>12

\* A commit adds the tree, lock and all, to the history.
LEMMA CommitInv ==
    ASSUME PublishInv, CommitTree
    PROVE  PublishInv'
<1>1. log \in Seq(WorkTrees) /\ tree \in WorkTrees /\ Len(log) \in 0..MaxCommits BY DEF PublishInv, Kinds
<1>2. log' = Append(log, tree) /\ Len(log) < MaxCommits
      /\ UNCHANGED <<tree, build, ingest, published, budget>>
  BY DEF CommitTree
<1>3. /\ log' \in Seq(WorkTrees) /\ Len(log') = Len(log) + 1 /\ Len(log) \in Nat
      /\ \A i \in 1..Len(log) : log'[i] = log[i]
      /\ log'[Len(log) + 1] = tree
  BY <1>1, <1>2
<1>4. Prefix(log, log') BY <1>3 DEF Prefix
<1>5. \A i \in 1..Len(log') : i \in 1..Len(log) \/ log'[i] = tree BY <1>3
<1>6. Len(log') \in 0..MaxCommits BY <1>1, <1>2, <1>3, PublishAssumption
<1>7. Kinds' BY <1>2, <1>3, <1>6 DEF PublishInv, Kinds
<1>8. build \in Begun => FactsStand(build, tree, log', published)
  BY <1>1, <1>3, <1>4, StandsLasts DEF PublishInv
<1>9. build \in Judged => JudgementStands(build, log', published)
  BY <1>1, <1>3, <1>4, StandsLasts DEF PublishInv
<1> QED BY <1>2, <1>4, <1>5, <1>7, <1>8, <1>9, StepKeeps DEF PublishInv
-----------------------------------------------------------------------------
(* The build keeps the invariant. *)

\* What a build reads is of the right kind.
LEMMA BaselinesAre ==
    ASSUME PublishInv
    PROVE  /\ LockBaseline(tree.lock) \in [entries : SUBSET Lines, accepted : BOOLEAN]
           /\ GitBaseline(log) \in [entries : SUBSET Lines, accepted : BOOLEAN]
           /\ Recalls(GitBaseline(log).entries, LedgersOf(log), Len(log), 1)
           /\ ~GitBaseline(log).accepted
           /\ \A s \in LockBaseline(tree.lock).entries :
                 s.id = s.text.id /\ s.text \in Texts /\ Authorised(s.text, published)
<1>1. tree.lock \in Locks /\ log \in Seq(WorkTrees) /\ published \subseteq Publications
  BY DEF PublishInv, Kinds, WorkTrees
<1>2. GitBaseline(log) = [entries |-> HistoricEntries(LedgersOf(log)), accepted |-> FALSE]
  BY DEF GitBaseline
<1>3. /\ HistoricEntries(LedgersOf(log)) \subseteq Lines
      /\ Recalls(HistoricEntries(LedgersOf(log)), LedgersOf(log), Len(log), 1)
  <2>1. LedgersOf(log) \in Seq(Seq(Texts)) /\ Len(LedgersOf(log)) = Len(log) BY <1>1, LedgersAre
  <2> QED BY <2>1, HistoricIs DEF Lines, ActIds
<1>4. CASE tree.lock.state = "read"
  <2>1. /\ tree.lock \in [state : {"read"}, inputs : Readings, dirty : BOOLEAN, head : Nat, entries : SUBSET Lines]
        /\ tree.lock.inputs \in Readings /\ tree.lock.entries \subseteq Lines
    BY <1>1, <1>4 DEF Locks, NoLock, Torn
  <2>2. LockBaseline(tree.lock) = [entries |-> tree.lock.entries, accepted |-> TRUE]
    BY <1>4 DEF LockBaseline
  <2>3. PICK p \in published : p.inputs = tree.lock.inputs
    BY <1>4 DEF PublishInv, LockStands
  <2>4. tree.lock.entries = LinesOf(p.inputs.ledger) BY <1>4, <2>3 DEF PublishInv, LockStands
  <2>5. Entries(p.inputs.ledger) \subseteq Texts
    <3>1. p.inputs.ledger \in Seq(Texts) BY <1>1 DEF Publications, Readings
    <3> QED BY <3>1 DEF Entries, ToSet
  <2>6. \A e \in Entries(p.inputs.ledger) : Authorised(e, published)
    BY DEF PublishInv, PublicationStands
  <2>7. \A s \in tree.lock.entries : s.id = s.text.id /\ s.text \in Texts /\ Authorised(s.text, published)
    BY <2>4, <2>5, <2>6 DEF LinesOf
  <2> QED BY <1>2, <1>3, <2>1, <2>2, <2>7
<1>5. CASE tree.lock.state # "read"
  <2>1. LockBaseline(tree.lock) = [entries |-> {}, accepted |-> TRUE] BY <1>5 DEF LockBaseline
  <2> QED BY <1>2, <1>3, <2>1
<1> QED BY <1>4, <1>5

\* What the lock digests is of the right kind.
LEMMA InputsAre ==
    ASSUME NEW t \in WorkTrees
    PROVE  Inputs(t) \in Readings /\ t.lock \in Locks
BY DEF Inputs, WorkTrees, Readings

\* gitFacts: the build takes the head, and the baselines in history and in the lock.
LEMMA FactsInv ==
    ASSUME PublishInv, BuildFacts
    PROVE  PublishInv'
<1>1. log \in Seq(WorkTrees) /\ tree \in WorkTrees /\ UNCHANGED <<tree, log, ingest, published>>
  BY DEF BuildFacts, PublishInv, Kinds
<1>2. PICK shallow \in BOOLEAN, strict \in BOOLEAN :
        build' = [pc |-> "facts", shallow |-> shallow, strict |-> strict,
                  dirty |-> log = <<>> \/ Inputs(tree) # LastCommit, head |-> Len(log),
                  baselines |-> {LockBaseline(tree.lock)}
                                    \cup (IF shallow THEN {} ELSE {GitBaseline(log)})]
  BY DEF BuildFacts
<1> DEFINE b == build'
<1>3. /\ b.pc = "facts" /\ b.shallow = shallow /\ b.head = Len(log)
      /\ b.dirty <=> log = <<>> \/ Inputs(tree) # LastCommit
      /\ b.baselines = {LockBaseline(tree.lock)} \cup (IF shallow THEN {} ELSE {GitBaseline(log)})
  BY <1>2
<1>4. b.baselines \subseteq [entries : SUBSET Lines, accepted : BOOLEAN] BY <1>3, BaselinesAre
<1>5. b \in Begun
  <2>1. Len(log) \in Nat BY <1>1
  <2>2. (log = <<>> \/ Inputs(tree) # LastCommit) \in BOOLEAN OBVIOUS
  <2> QED BY <1>2, <1>3, <1>4, <2>1, <2>2 DEF Begun
<1>6. FactsStand(b, tree, log, published)
  <2>1. ~b.shallow => \E base \in b.baselines : Recalls(base.entries, LedgersOf(log), b.head, 1)
    <3> HIDE DEF b
    <3> QED BY <1>3, BaselinesAre
  <2>2. \A base \in b.baselines : base.accepted =>
           \A s \in base.entries : s.text # NoText => Authorised(s.text, published)
    <3> HIDE DEF b
    <3> QED BY <1>3, BaselinesAre
  <2>3. ~b.dirty => Committed(log, Inputs(tree), b.head)
    <3>1. log # <<>> => Len(log) > 0 BY <1>1
    <3> QED BY <1>3, <3>1 DEF Committed, LastCommit
  <2>4. b.head <= Len(log) BY <1>1, <1>3
  <2> HIDE DEF b
  <2> QED BY <2>1, <2>2, <2>3, <2>4 DEF FactsStand
<1>7. budget' \in [{"text", "acts", "undo", "runs"} -> Nat]
  <2>1. budget["runs"] > 0 /\ budget' = [budget EXCEPT !["runs"] = @ - 1] BY DEF BuildFacts
  <2> QED BY <2>1, Spent DEF PublishInv, Kinds
<1>8. Kinds' BY <1>1, <1>5, <1>7 DEF PublishInv, Kinds
<1>9. build' \notin Judged BY <1>3 DEF Judged
<1>10. Prefix(log, log') BY <1>1, PrefixOfSelf
<1> QED BY <1>1, <1>6, <1>8, <1>9, <1>10, StepKeeps DEF PublishInv

\* What a build that refuses nothing has judged.
LEMMA JudgedWell ==
    ASSUME PublishInv, build \in Begun, RecordRefusals(tree, build.baselines) = {},
           ~GeneratedStale(tree.doc, HistoryRead(build.shallow))
    PROVE  /\ ~build.shallow => NoneLost(log, tree.ledger, build.head) /\ Dates(log, tree.doc, build.head)
           /\ \A e \in Entries(tree.ledger) : e.by \in tree.roster \/ Authorised(e, published)
<1>1. log \in Seq(WorkTrees) /\ tree \in WorkTrees BY DEF PublishInv, Kinds
<1>2. FactsStand(build, tree, log, published) /\ build.head \in Nat /\ build.head <= Len(log)
  BY DEF PublishInv, FactsStand, Begun
<1>3. /\ LedgerReads(tree.ledger) /\ Unauthorised(tree.ledger, tree.roster, build.baselines) = {}
      /\ Lost(tree.ledger, build.baselines) = {} /\ Rewritten(tree.ledger, build.baselines) = {}
  BY NothingRefused DEF RecordRefusals
<1>4. ASSUME ~build.shallow PROVE NoneLost(log, tree.ledger, build.head)
  <2>1. PICK base \in build.baselines : Recalls(base.entries, LedgersOf(log), build.head, 1)
    BY <1>2, <1>4 DEF FactsStand
  <2>2. build.head \in 0..Len(log) BY <1>1, <1>2
  <2> QED BY <1>1, <1>3, <2>1, <2>2, BaselineKeeps
<1>5. ASSUME ~build.shallow PROVE Dates(log, tree.doc, build.head)
  <2>1. HistoryRead(build.shallow) = log BY <1>5 DEF HistoryRead
  <2>2. SUFFICES ASSUME IsStable(tree.doc), NEW i \in 1..build.head, IsStable(log[i].doc)
                 PROVE  log[i].doc.body = tree.doc.body \/ log[i].doc.gen < tree.doc.gen
    BY DEF Dates
  <2>3. i \in DOMAIN log /\ log[i] \in WorkTrees BY <1>1, <1>2
  <2>4. log[i].doc \in StableVersions(log) BY <2>2, <2>3 DEF StableVersions
  <2>5. ~(log[i].doc.gen >= tree.doc.gen /\ log[i].doc.body # tree.doc.body)
    BY <2>1, <2>2, <2>4 DEF GeneratedStale
  <2>6. log[i].doc \in Docs /\ tree.doc \in Docs
    BY <1>1, <2>2, <2>3 DEF WorkTrees, IsStable, Here
  <2>7. log[i].doc.gen \in Nat /\ tree.doc.gen \in Nat BY <2>6, PublishAssumption
  <2> QED BY <2>5, <2>7
<1>6. ASSUME NEW e \in Entries(tree.ledger), e.by \notin tree.roster PROVE Authorised(e, published)
  <2>1. [id |-> e.id, text |-> e] \in AcceptedIn(build.baselines) BY <1>3, <1>6 DEF Unauthorised
  <2>2. PICK base \in build.baselines :
          /\ base.accepted
          /\ [id |-> e.id, text |-> e] \in {s \in base.entries : s.text # NoText}
    BY <2>1 DEF AcceptedIn
  <2> QED BY <1>2, <2>2 DEF FactsStand
<1> QED BY <1>4, <1>5, <1>6

\* The build judges the tree it reads, or stops.
LEMMA ChecksInv ==
    ASSUME PublishInv, BuildChecks
    PROVE  PublishInv'
<1> DEFINE pending == tree.index # IndexOf(tree.doc)
           refused == \/ RecordRefusals(tree, build.baselines) # {}
                      \/ GeneratedStale(tree.doc, HistoryRead(build.shallow))
                      \/ build.strict /\ pending
           said == [Inputs(tree) EXCEPT !.index = IndexOf(tree.doc)]
<1>1. log \in Seq(WorkTrees) /\ tree \in WorkTrees /\ UNCHANGED <<tree, log, ingest, published, budget>>
  BY DEF BuildChecks, PublishInv, Kinds
<1>2. build.pc = "facts" /\ build \in Begun
  BY DEF BuildChecks, PublishInv, Kinds, Begun, Judged, NoRun
<1>3. build' = IF refused THEN NoRun
               ELSE [pc |-> "planned", shallow |-> build.shallow, head |-> build.head,
                     dirty |-> build.dirty \/ pending, inputs |-> said]
  BY DEF BuildChecks
<1>4. Prefix(log, log') BY <1>1, PrefixOfSelf
<1>5. CASE refused
  <2>1. build' = NoRun BY <1>3, <1>5
  <2>2. Kinds' BY <1>1, <2>1 DEF PublishInv, Kinds
  <2>3. build' \notin Begun /\ build' \notin Judged BY <2>1 DEF NoRun, Begun, Judged
  <2> QED BY <1>1, <1>4, <2>2, <2>3, StepKeeps DEF PublishInv
<1>6. CASE ~refused
  <2> DEFINE b == build'
  <2>1. said \in Readings /\ said.ledger = tree.ledger /\ said.roster = tree.roster
        /\ said.doc = tree.doc /\ (~pending => said = Inputs(tree))
    <3>1. Inputs(tree) \in Readings BY <1>1, InputsAre
    <3>2. IndexOf(tree.doc) \in SUBSET {DocPath} BY DEF IndexOf
    <3>3. Inputs(tree) = [doc |-> tree.doc, ledger |-> tree.ledger, roster |-> tree.roster,
                          index |-> tree.index]
      BY DEF Inputs
    <3> QED BY <3>1, <3>2, <3>3 DEF Readings
  <2> HIDE DEF said
  <2>2. /\ b.pc = "planned" /\ b.shallow = build.shallow /\ b.head = build.head /\ b.inputs = said
        /\ b.dirty <=> build.dirty \/ pending
    BY <1>3, <1>6
  <2>3. b \in Judged
    <3>1. build.shallow \in BOOLEAN /\ build.head \in Nat BY <1>2 DEF Begun
    <3>2. (build.dirty \/ pending) \in BOOLEAN OBVIOUS
    <3> QED BY <1>3, <1>6, <2>1, <3>1, <3>2 DEF Judged
  <2>4. /\ ~build.shallow => NoneLost(log, tree.ledger, build.head) /\ Dates(log, tree.doc, build.head)
        /\ \A e \in Entries(tree.ledger) : e.by \in tree.roster \/ Authorised(e, published)
    BY <1>2, <1>6, JudgedWell
  <2>5. FactsStand(build, tree, log, published) BY <1>2 DEF PublishInv
  <2> HIDE DEF b
  <2>6. JudgementStands(b, log, published) BY <2>1, <2>2, <2>4, <2>5 DEF JudgementStands, FactsStand
  <2>7. Kinds' BY <1>1, <2>3 DEF PublishInv, Kinds, b
  <2>8. b \notin Begun BY <2>2 DEF Begun
  <2> QED BY <1>1, <1>4, <2>6, <2>7, <2>8, StepKeeps DEF PublishInv, b
<1> QED BY <1>5, <1>6

\* Writing the indexes changes nothing that was judged.
LEMMA IndexesInv ==
    ASSUME PublishInv, BuildIndexes
    PROVE  PublishInv'
<1>1. log \in Seq(WorkTrees) /\ tree \in WorkTrees /\ UNCHANGED <<log, ingest, published, budget>>
  BY DEF BuildIndexes, PublishInv, Kinds
<1>2. build.pc = "planned" /\ build \in Judged
  BY DEF BuildIndexes, PublishInv, Kinds, Begun, Judged, NoRun
<1>3. tree' = [tree EXCEPT !.index = build.inputs.index] /\ build' = [build EXCEPT !.pc = "indexed"]
  BY DEF BuildIndexes
<1>4. tree' \in WorkTrees /\ tree'.lock = tree.lock
  <2>1. build.inputs.index \in SUBSET {DocPath} BY <1>2 DEF Judged, Readings
  <2> QED BY <1>1, <1>3, <2>1 DEF WorkTrees
<1>5. /\ build' \in Judged /\ build'.shallow = build.shallow /\ build'.head = build.head
      /\ build'.inputs = build.inputs /\ build'.dirty = build.dirty /\ build'.pc = "indexed"
  BY <1>2, <1>3 DEF Judged
<1>6. JudgementStands(build', log, published)
  <2>1. JudgementStands(build, log, published) BY <1>2 DEF PublishInv
  <2> QED BY <1>5, <2>1 DEF JudgementStands
<1>7. Kinds' BY <1>1, <1>4, <1>5 DEF PublishInv, Kinds
<1>8. build' \notin Begun BY <1>5 DEF Begun
<1>9. Prefix(log, log') BY <1>1, PrefixOfSelf
<1> QED BY <1>1, <1>4, <1>6, <1>7, <1>8, <1>9, StepKeeps DEF PublishInv

\* The lock a build writes is of what it published.
LEMMA LockInv ==
    ASSUME PublishInv, BuildLock
    PROVE  PublishInv'
<1> DEFINE p == [inputs |-> build.inputs, dirty |-> build.dirty, head |-> build.head,
                 verified |-> ~build.shallow]
<1>1. log \in Seq(WorkTrees) /\ tree \in WorkTrees /\ published \subseteq Publications
      /\ UNCHANGED <<log, ingest, budget>>
  BY DEF BuildLock, PublishInv, Kinds
<1>2. build.pc = "indexed" /\ build \in Judged
  BY DEF BuildLock, PublishInv, Kinds, Begun, Judged, NoRun
<1>3. tree' = [tree EXCEPT !.lock = LockOf(build)] /\ build' = NoRun /\ published' = published \cup {p}
  BY DEF BuildLock
<1>4. /\ p \in Publications /\ p.inputs = build.inputs /\ p.head = build.head /\ p.dirty = build.dirty
      /\ p.verified <=> ~build.shallow
  BY <1>2 DEF Judged, Publications
<1>5. p \in published' /\ published \subseteq published' BY <1>3
<1> HIDE DEF p
<1>6. Entries(build.inputs.ledger) \subseteq Texts
  <2>1. build.inputs.ledger \in Seq(Texts) BY <1>2 DEF Judged, Readings
  <2> QED BY <2>1 DEF Entries, ToSet
<1>7. LockOf(build) \in Locks /\ LockOf(build).inputs = build.inputs
      /\ LockOf(build).entries = LinesOf(build.inputs.ledger)
  <2>1. LinesOf(build.inputs.ledger) \subseteq Lines BY <1>6 DEF LinesOf, Lines, ActIds
  <2>2. LockOf(build) = [state |-> "read", inputs |-> build.inputs, dirty |-> build.dirty,
                         head |-> build.head, entries |-> LinesOf(build.inputs.ledger)]
    BY DEF LockOf, LinesOf
  <2>3. build.inputs \in Readings /\ build.dirty \in BOOLEAN /\ build.head \in Nat BY <1>2 DEF Judged
  <2> QED BY <2>1, <2>2, <2>3 DEF Locks
<1>8. tree' \in WorkTrees /\ tree'.lock = LockOf(build) BY <1>1, <1>3, <1>7 DEF WorkTrees
<1>9. LockStands(tree'.lock, published') BY <1>4, <1>5, <1>7, <1>8 DEF LockStands
<1>10. PublicationStands(p, log, published')
  <2>1. JudgementStands(build, log, published) BY <1>2 DEF PublishInv
  <2>2. \A e \in Entries(p.inputs.ledger) : Authorised(e, published')
    BY <1>4, <1>5, <2>1 DEF JudgementStands, Authorised
  <2> QED BY <1>4, <2>1, <2>2 DEF JudgementStands, PublicationStands
<1>11. Kinds' BY <1>1, <1>3, <1>4, <1>8 DEF PublishInv, Kinds
<1>12. build' \notin Begun /\ build' \notin Judged BY <1>3 DEF NoRun, Begun, Judged
<1>13. Prefix(log, log') BY <1>1, PrefixOfSelf
<1>14. GateStands(ingest', published') BY <1>1, <1>5, PrefixOfSelf, StandsLasts DEF PublishInv
<1> QED BY <1>1, <1>3, <1>5, <1>9, <1>10, <1>11, <1>12, <1>13, <1>14, StepKeeps

\* A build that dies leaves the last lock, or a torn one.
LEMMA CrashInv ==
    ASSUME PublishInv, BuildCrash
    PROVE  PublishInv'
<1>1. log \in Seq(WorkTrees) /\ tree \in WorkTrees /\ build' = NoRun
      /\ UNCHANGED <<log, ingest, published, budget>>
  BY DEF BuildCrash, PublishInv, Kinds
<1>2. tree' = tree \/ tree' = [tree EXCEPT !.lock = Torn] BY DEF BuildCrash
<1>3. tree' \in WorkTrees /\ (tree'.lock = tree.lock \/ tree'.lock = Torn)
  <2>1. Torn \in Locks BY DEF Locks
  <2> QED BY <1>1, <1>2, <2>1 DEF WorkTrees
<1>4. LockStands(tree'.lock, published) BY <1>3 DEF PublishInv, LockStands, Torn
<1>5. Kinds' BY <1>1, <1>3 DEF PublishInv, Kinds
<1>6. build' \notin Begun /\ build' \notin Judged BY <1>1 DEF NoRun, Begun, Judged
<1>7. Prefix(log, log') BY <1>1, PrefixOfSelf
<1> QED BY <1>1, <1>4, <1>5, <1>6, <1>7, StepKeeps DEF PublishInv
-----------------------------------------------------------------------------
(* The ingest keeps the invariant. *)

\* A step of an ingest moves nothing that a build or an author writes.
LEMMA IngestMoves ==
    ASSUME PublishInv, UNCHANGED <<tree, log, build, published>>,
           ingest' \in Gates, GateStands(ingest', published),
           budget' \in [{"text", "acts", "undo", "runs"} -> Nat]
    PROVE  PublishInv'
<1>1. log \in Seq(WorkTrees) /\ Kinds' BY DEF PublishInv, Kinds
<1>2. Prefix(log, log') BY <1>1, PrefixOfSelf
<1> QED BY <1>1, <1>2, StepKeeps DEF PublishInv

\* An ingest lets through what its lock matches, which some build published.
LEMMA IngestInv ==
    ASSUME PublishInv, IngestChecks \/ IngestStructure \/ IngestFails
    PROVE  PublishInv'
<1>1. budget \in [{"text", "acts", "undo", "runs"} -> Nat] /\ tree \in WorkTrees BY DEF PublishInv, Kinds
<1>2. CASE IngestChecks
  <2>1. budget' \in [{"text", "acts", "undo", "runs"} -> Nat]
    <3>1. budget["runs"] > 0 /\ budget' = [budget EXCEPT !["runs"] = @ - 1] BY <1>2 DEF IngestChecks
    <3> QED BY <1>1, <3>1, Spent
  <2>2. ingest' = [pc |-> "gated", inputs |-> Inputs(tree)] /\ LockMatches(tree)
        /\ UNCHANGED <<tree, log, build, published>>
    BY <1>2 DEF IngestChecks
  <2>3. ingest' \in Gates /\ ingest'.inputs = Inputs(tree) BY <1>1, <2>2, InputsAre DEF Gates
  <2>4. \E p \in published : p.inputs = Inputs(tree) BY <2>2 DEF LockMatches, PublishInv, LockStands
  <2>5. GateStands(ingest', published) BY <2>3, <2>4 DEF GateStands
  <2> QED BY <2>1, <2>2, <2>3, <2>5, IngestMoves
<1>3. CASE IngestStructure \/ IngestFails
  <2>1. ingest' = NoRun /\ UNCHANGED <<tree, log, build, published, budget>>
    BY <1>3 DEF IngestStructure, IngestFails
  <2>2. NoRun \in Gates /\ GateStands(NoRun, published) BY DEF Gates, GateStands
  <2> QED BY <1>1, <2>1, <2>2, IngestMoves
<1> QED BY <1>2, <1>3
-----------------------------------------------------------------------------
(* What a record is published as. *)

\* A record begins with nothing published.
LEMMA PublishBegins == PublishInit => PublishInv
<1> SUFFICES ASSUME PublishInit PROVE PublishInv OBVIOUS
<1>1. (CHOOSE d \in Docs : d.stable /\ d.gen <= d.appr) \in Docs BY PublishAssumption
<1>2. tree \in WorkTrees /\ tree.lock = NoLock
  <2>1. NoLock \in Locks BY DEF Locks
  <2>2. <<>> \in Seq(Texts) OBVIOUS
  <2> QED BY <1>1, <2>1, <2>2 DEF PublishInit, WorkTrees
<1>3. log = <<>> /\ log \in Seq(WorkTrees) /\ Len(log) = 0 /\ 0 \in 0..MaxCommits
  BY PublishAssumption DEF PublishInit
<1>4. budget \in [{"text", "acts", "undo", "runs"} -> Nat] BY PublishAssumption DEF PublishInit
<1>5. Kinds BY <1>2, <1>3, <1>4 DEF PublishInit, Kinds, Gates
<1>6. LockStands(tree.lock, published) BY <1>2 DEF LockStands, NoLock
<1>7. build \notin Begun /\ build \notin Judged BY DEF PublishInit, NoRun, Begun, Judged
<1>8. GateStands(ingest, published) BY DEF PublishInit, GateStands
<1>9. published = {} /\ 1..Len(log) = {} BY <1>3 DEF PublishInit
<1> QED BY <1>5, <1>6, <1>7, <1>8, <1>9 DEF PublishInv

\* Every step keeps the invariant.
LEMMA PublishStep == PublishInv /\ [PublishNext]_publishVars => PublishInv'
<1> SUFFICES ASSUME PublishInv, [PublishNext]_publishVars PROVE PublishInv' OBVIOUS
<1>1. CASE \/ EditDocument \/ RemoveDocument \/ EditPolicy \/ AddEntry \/ EditEntry \/ DropEntry
           \/ DeleteLock \/ Checkout
  BY <1>1, AuthorsInv
<1>2. CASE CommitTree BY <1>2, CommitInv
<1>3. CASE BuildFacts BY <1>3, FactsInv
<1>4. CASE BuildChecks BY <1>4, ChecksInv
<1>5. CASE BuildIndexes BY <1>5, IndexesInv
<1>6. CASE BuildLock BY <1>6, LockInv
<1>7. CASE BuildCrash BY <1>7, CrashInv
<1>8. CASE IngestChecks \/ IngestStructure \/ IngestFails BY <1>8, IngestInv
<1>9. CASE UNCHANGED publishVars
  <2>1. budget \in [{"text", "acts", "undo", "runs"} -> Nat] /\ ingest \in Gates
        /\ GateStands(ingest, published)
    BY DEF PublishInv, Kinds
  <2> QED BY <1>9, <2>1, IngestMoves DEF publishVars
<1> QED BY <1>1, <1>2, <1>3, <1>4, <1>5, <1>6, <1>7, <1>8, <1>9 DEF PublishNext

\* For any documents, people, entries and length of history, whatever is edited,
\* committed, checked out or killed, also under a verb that runs.
THEOREM PublishInvHolds == PublishSpec => []PublishInv
BY PublishBegins, PublishStep, PTL DEF PublishSpec

\* What the verbs take for granted of each other's states is of the right kind.
THEOREM PublishTypeCorrect == PublishSpec => []PublishTypeOK
<1>1. ASSUME PublishInv PROVE PublishTypeOK
  <2>1. Kinds BY <1>1 DEF PublishInv
  <2>2. tree.ledger \in Seq(Texts) /\ tree.doc \in Docs \cup {NoDoc} /\ tree.roster \subseteq Actors
        /\ tree.index \in SUBSET {DocPath}
    BY <2>1 DEF Kinds, WorkTrees
  <2>3. Entries(tree.ledger) \subseteq Texts BY <2>2 DEF Entries, ToSet
  <2>4. build.pc \in {"idle", "facts", "planned", "indexed"}
    BY <2>1 DEF Kinds, NoRun, Begun, Judged
  <2>5. ingest.pc \in {"idle", "gated"} BY <2>1 DEF Kinds, Gates, NoRun
  <2>6. Len(log) \in 0..MaxCommits /\ \A what \in DOMAIN budget : budget[what] \in Nat
    BY <2>1 DEF Kinds
  <2>7. tree.index \in {{}, {DocPath}} BY <2>2
  <2> QED BY <2>2, <2>3, <2>4, <2>5, <2>6, <2>7 DEF PublishTypeOK
<1> QED BY <1>1, PublishInvHolds, PTL

\* ledger.ts, git-ledger.ts: no act that was ever committed or published is lost or
\* rewritten in what a build publishes, whoever edits what and when, and the
\* remedy a refusal prints is accepted.
THEOREM LedgerIsHistoryHolds == PublishSpec => []LedgerIsHistory
<1>1. ASSUME PublishInv PROVE LedgerIsHistory
  <2>1. log \in Seq(WorkTrees) /\ tree \in WorkTrees /\ published \subseteq Publications
    BY <1>1 DEF PublishInv, Kinds
  <2>2. ActsOutlive
    <3>1. ASSUME NEW p \in published, p.verified PROVE KeepsCommitted(p.inputs.ledger, p.head)
      <4>1. NoneLost(log, p.inputs.ledger, p.head) /\ p.head <= Len(log)
        BY <1>1, <3>1 DEF PublishInv, PublicationStands
      <4>2. p.head \in Nat BY <2>1 DEF Publications
      <4>3. p.head \in 0..Len(log) BY <2>1, <4>1, <4>2
      <4> QED BY <2>1, <4>1, <4>3, KeptIs
    <3> QED BY <3>1 DEF ActsOutlive
  <2>3. ActsWereAuthorised
    BY <1>1 DEF PublishInv, PublicationStands, Authorised, ActsWereAuthorised
  <2>4. RestoringClears
    <3> DEFINE l == tree.ledger
               H == GitBaseline(log).entries
               K == LockBaseline(tree.lock).entries
               bs == {GitBaseline(log), LockBaseline(tree.lock)}
    <3> SUFFICES ASSUME LedgerReads(l), KeepsCommitted(l, Len(log)),
                        \A s \in K : s.text \in Entries(l)
                 PROVE  Lost(l, bs) = {} /\ Rewritten(l, bs) = {}
      BY DEF RestoringClears
    <3>1. Recalls(H, LedgersOf(log), Len(log), 1) /\ \A s \in K : s.id = s.text.id
      BY <1>1, BaselinesAre
    <3>2. NoneLost(log, l, Len(log))
      <4>1. Len(log) \in 0..Len(log) BY <2>1
      <4> QED BY <2>1, <4>1, KeptIs
    <3>3. \A s \in H : s.id \in EntryIds(l) /\ (s.text # NoText => s.text = ById(l, s.id))
      BY <2>1, <3>1, <3>2, KeptIsNotRefused
    <3>4. ASSUME NEW s \in K PROVE s.id \in EntryIds(l) /\ s.text = ById(l, s.id)
      <4>1. s.text \in Entries(l) /\ s.id = s.text.id BY <3>1
      <4>2. ById(l, s.text.id) = s.text BY <4>1, OneTextAnId
      <4> QED BY <4>1, <4>2 DEF EntryIds
    <3>5. ASSUME NEW s \in UNION {b.entries : b \in bs}
          PROVE  s.id \in EntryIds(l) /\ (s.text # NoText => s.text = ById(l, s.id))
      <4>1. s \in H \/ s \in K OBVIOUS
      <4> QED BY <3>3, <3>4, <4>1
    <3> HIDE DEF bs
    <3>6. Lost(l, bs) = {} BY <3>5 DEF Lost
    <3>7. Rewritten(l, bs) = {} BY <3>5 DEF Rewritten
    <3> QED BY <3>6, <3>7
  <2> QED BY <2>2, <2>3, <2>4 DEF LedgerIsHistory
<1> QED BY <1>1, PublishInvHolds, PTL

\* What the invariant says of published documents and of what an ingest lets through.
LEMMA GatesStand == PublishInv => StampDatesText /\ GatedWasPublished
<1> SUFFICES ASSUME PublishInv PROVE StampDatesText /\ GatedWasPublished OBVIOUS
<1>1. ASSUME NEW p \in published, p.verified, IsStable(p.inputs.doc),
             NEW v \in {log[i].doc : i \in 1..p.head}, IsStable(v)
      PROVE  v.body = p.inputs.doc.body \/ v.gen < p.inputs.doc.gen
  <2>1. Dates(log, p.inputs.doc, p.head) BY <1>1 DEF PublishInv, PublicationStands
  <2> QED BY <1>1, <2>1 DEF Dates
<1>2. GatedWasPublished
  <2>1. ASSUME ingest.pc = "gated" PROVE \E p \in published : p.inputs = ingest.inputs
    BY <2>1 DEF PublishInv, GateStands, NoRun
  <2> QED BY <2>1 DEF GatedWasPublished
<1> QED BY <1>1, <1>2 DEF StampDatesText

\* change-control.ts, lock-gate.ts: also while the tree is edited under the verbs,
\* one stamp dates one text, and an ingest lets through only what was published.
THEOREM GatesHold == PublishSpec => [](StampDatesText /\ GatedWasPublished)
BY PublishInvHolds, GatesStand, PTL

\* lock.ts: where nobody edits under a verb that runs, a lock that says "not dirty"
\* is of the commit it names as well.
THEOREM LockIsHonestHolds == ~EditsDuring => (PublishSpec => []LockIsHonest)
<1>1. ASSUME ~EditsDuring, PublishInv PROVE LockIsHonest
  <2>1. CleanIsCommitted
    BY <1>1 DEF PublishInv, PublicationStands, Committed, CleanIsCommitted
  <2> QED BY <1>1, <2>1, GatesStand DEF LockIsHonest
<1>2. ~EditsDuring => []~EditsDuring OBVIOUS
<1> QED BY <1>1, <1>2, PublishInvHolds, PTL

-----------------------------------------------------------------------------
(* Surfaces: sequences, and the numbers of a set. *)

\* A record as it may be written, and a prefix letter by letter.
LegibleRecord(t) == t = [i \in Ids |-> t[i]] /\ \A i \in Ids : Legible(t[i])

\* What a sequence begins with.
LEMMA BeginningIs ==
    ASSUME NEW s \in Seq(Nat), NEW n \in 0..Len(s)
    PROVE  /\ SubSeq(s, 1, n) \in Seq(Nat) /\ Len(SubSeq(s, 1, n)) = n
           /\ \A k \in 1..n : SubSeq(s, 1, n)[k] = s[k]
OBVIOUS

\* Sequences of the same length and the same elements are one.
LEMMA SameSequence ==
    ASSUME NEW s \in Seq(Nat), NEW r \in Seq(Nat), Len(s) = Len(r), \A k \in 1..Len(s) : s[k] = r[k]
    PROVE  s = r
OBVIOUS

\* A prefix, element by element.
LEMMA PrefixIs ==
    ASSUME NEW p \in Seq(Nat), NEW s \in Seq(Nat)
    PROVE  IsPrefix(p, s) <=> Len(p) <= Len(s) /\ \A k \in 1..Len(p) : p[k] = s[k]
<1>1. Len(p) \in Nat /\ Len(s) \in Nat OBVIOUS
<1>2. CASE Len(p) <= Len(s)
  <2> DEFINE a == SubSeq(p, 1, Len(p))  b == SubSeq(s, 1, Len(p))
  <2>1. a \in Seq(Nat) /\ Len(a) = Len(p) /\ \A k \in 1..Len(p) : a[k] = p[k] BY <1>1, BeginningIs
  <2>2. b \in Seq(Nat) /\ Len(b) = Len(p) /\ \A k \in 1..Len(p) : b[k] = s[k]
    BY <1>1, <1>2, BeginningIs
  <2>3. IsPrefix(p, s) <=> a = b BY <1>2 DEF IsPrefix
  <2> HIDE DEF a, b
  <2>4. a = b <=> \A k \in 1..Len(p) : a[k] = b[k] BY <2>1, <2>2, SameSequence
  <2> QED BY <1>2, <2>1, <2>2, <2>3, <2>4
<1>3. CASE ~(Len(p) <= Len(s)) BY <1>3 DEF IsPrefix
<1> QED BY <1>2, <1>3

\* Front is all but the last.
LEMMA FrontIs ==
    ASSUME NEW s \in Seq(Nat), s # <<>>
    PROVE  /\ Len(s) \in Nat \ {0} /\ Front(s) = SubSeq(s, 1, Len(s) - 1) /\ Front(s) \in Seq(Nat)
           /\ Len(Front(s)) = Len(s) - 1 /\ \A k \in 1..(Len(s) - 1) : Front(s)[k] = s[k]
           /\ Last(s) = s[Len(s)]
<1>1. Len(s) \in Nat \ {0} OBVIOUS
<1>2. Len(s) - 1 \in 0..Len(s) BY <1>1
<1>3. Front(s) = SubSeq(s, 1, Len(s) - 1) BY DEF Front
<1>4. Last(s) = s[Len(s)] BY DEF Last
<1> DEFINE n == Len(s) - 1
           q == SubSeq(s, 1, n)
<1>5. n \in 0..Len(s) BY <1>2
<1> HIDE DEF n
<1>6. q \in Seq(Nat) /\ Len(q) = n /\ \A k \in 1..n : q[k] = s[k] BY <1>5, BeginningIs
<1>7. Front(s) = q BY <1>3 DEF n
<1> HIDE DEF q
<1>8. Front(s) \in Seq(Nat) /\ Len(Front(s)) = Len(s) - 1
      /\ \A k \in 1..(Len(s) - 1) : Front(s)[k] = s[k]
  BY <1>6, <1>7 DEF n
<1> QED BY <1>1, <1>3, <1>4, <1>8

-----------------------------------------------------------------------------
\* Who may read what is said, may read what it names.
LEMMA Reaches ==
    ASSUME NEW viewer, "public" \in viewer, NEW a, NEW b, Overlaps(viewer, a), MayReach(a, b)
    PROVE  Overlaps(viewer, b)
BY DEF Overlaps, MayReach

\* If a directory is not closed to those a document is for, its readers may open
\* something in each directory above.
LEMMA OpenAbove ==
    ASSUME NEW t, NEW aud, NEW p \in Seq(Nat), ~Closed(t, aud, p),
           NEW viewer, "public" \in viewer, Overlaps(viewer, aud)
    PROVE  \A dir \in Prefixes(p) \ {<<>>} :
             Inside(t, dir) # {} => \E i \in Inside(t, dir) : Overlaps(viewer, t[i].aud)
<1> SUFFICES ASSUME NEW dir \in Prefixes(p) \ {<<>>}, Inside(t, dir) # {}
             PROVE  \E i \in Inside(t, dir) : Overlaps(viewer, t[i].aud)
  OBVIOUS
<1> DEFINE held == {n \in 1..Len(p) : Inside(t, SubSeq(p, 1, n)) # {}}
<1>1. PICK n \in 0..Len(p) : dir = SubSeq(p, 1, n) BY DEF Prefixes
<1>2. n # 0 BY <1>1
<1>3. n \in held /\ held \subseteq 1..Len(p) BY <1>1, <1>2
<1> DEFINE m == Max(held)
<1>4. Closed(t, aud, p) <=>
        held # {} /\ \A i \in Inside(t, SubSeq(p, 1, m)) : ~MayReach(aud, t[i].aud)
  BY Zenon DEF Closed
<1> HIDE DEF held
<1>5. m \in held /\ n <= m
  <2>1. Len(p) \in Nat OBVIOUS
  <2>2. 1 \in Int /\ Len(p) \in Int /\ held \subseteq 1..Len(p) /\ held # {} BY <1>3, <2>1
  <2>3. Max(held) \in held /\ \A k \in held : k <= Max(held) BY ONLY <2>2, GreatestIs
  <2> QED BY <1>3, <2>3
<1>6. m \in 1..Len(p) BY <1>3, <1>5
<1> HIDE DEF m
<1>7. PICK i \in Inside(t, SubSeq(p, 1, m)) : MayReach(aud, t[i].aud) BY <1>3, <1>4
<1>8. i \in Ids /\ i \in Seq(Nat) BY SurfacesAssumption DEF Inside, Concepts
<1>9. IsPrefix(dir, i)
  <2> DEFINE q == SubSeq(p, 1, m)
  <2>1. q \in Seq(Nat) /\ Len(q) = m /\ \A k \in 1..m : q[k] = p[k] BY <1>6, BeginningIs
  <2>2. dir \in Seq(Nat) /\ Len(dir) = n /\ \A k \in 1..n : dir[k] = p[k] BY <1>1, BeginningIs
  <2>3. IsPrefix(q, i) BY <1>7 DEF Inside
  <2> HIDE DEF q
  <2>4. m <= Len(i) /\ \A k \in 1..m : q[k] = i[k] BY <1>8, <2>1, <2>3, PrefixIs
  <2>5. n <= Len(i) /\ \A k \in 1..n : dir[k] = i[k] 
    <3>1. Len(i) \in Nat /\ m \in Nat /\ n \in Nat /\ n <= m /\ m <= Len(i) BY <1>5, <1>6, <1>8, <2>4
    <3>2. n <= Len(i) /\ \A k \in 1..n : k \in 1..m BY <3>1
    <3> HIDE DEF m
    <3> QED BY <2>1, <2>2, <2>4, <3>2
  <2> QED BY <1>8, <2>2, <2>5, PrefixIs
<1>10. i \in Inside(t, dir) BY <1>7, <1>9 DEF Inside
<1>11. Overlaps(viewer, t[i].aud) BY <1>7, Reaches
<1> QED BY <1>10, <1>11

\* A link the checker passed opens for every reader of the document it is in.
LEMMA LinksStayInside ==
    ASSUME NEW t, LegibleRecord(t), NEW c, NEW ds, ~Refused(t, c, ds), NEW i \in Concepts(t),
           NEW viewer, "public" \in viewer, Overlaps(viewer, t[i].aud),
           NEW x \in t[i].links \cup t[i].summary
    PROVE  OpenTo(viewer, t, x)
<1> DEFINE aud == t[i].aud
<1>1. Exists(t, x) /\ ~Widens(t, aud, x) BY DEF Refused, AtFault, BadLink
<1>2. i \in Ids /\ x.at \in Seq(Nat) /\ (x.is = "companion" => x.at \in Ids)
      /\ (x.is = "asset" => x.at # <<>>)
  <2>1. i \in Ids BY DEF Concepts
  <2> QED BY <2>1 DEF LegibleRecord, Legible
<1> HIDE DEF aud
<1>3. Overlaps(viewer, aud) BY DEF aud
<1>4. CASE x.is \in {"document", "companion"}
  <2>1. x.at \in Concepts(t)
    <3>1. CASE x.is = "document" BY <1>1, <3>1 DEF Exists
    <3>2. CASE x.is = "companion" BY <1>1, <1>2, <3>2 DEF Exists, Refused, Untidy
    <3> QED BY <1>4, <3>1, <3>2
  <2>2. MayReach(aud, t[x.at].aud) BY <1>1, <1>4, <2>1 DEF Widens
  <2>3. Overlaps(viewer, t[x.at].aud) BY <1>3, <2>2, Reaches
  <2> QED BY <1>4, <2>3 DEF OpenTo
<1>5. CASE x.is \notin {"document", "companion"}
  <2> DEFINE p == IF x.is = "asset" THEN Front(x.at) ELSE x.at
  <2>1. p \in Seq(Nat)
    <3>1. CASE x.is = "asset"
      <4>1. Front(x.at) \in Seq(Nat) BY <1>2, <3>1, FrontIs
      <4> QED BY <3>1, <4>1
    <3>2. CASE x.is # "asset" BY <1>2, <3>2
    <3> QED BY <3>1, <3>2
  <2>2. ~Closed(t, aud, p) BY <1>1, <1>5 DEF Widens
  <2>3. OpenTo(viewer, t, x) <=>
          \A dir \in Prefixes(p) \ {<<>>} :
            Inside(t, dir) # {} => \E j \in Inside(t, dir) : Overlaps(viewer, t[j].aud)
    BY <1>5 DEF OpenTo
  <2> HIDE DEF p
  <2> QED BY <1>3, <2>1, <2>2, <2>3, OpenAbove
<1> QED BY <1>4, <1>5

-----------------------------------------------------------------------------
\* To choose who has each number of predecessors is to list, in order.
LEMMA Lists ==
    ASSUME NEW S, IsFiniteSet(S), NEW R, Orders(R, S)
    PROVE  LET q == InOrder(S, R)
           IN  /\ q \in Seq(S) /\ Range(q) = S
               /\ \A a, b \in 1..Len(q) : a < b => <<q[a], q[b]>> \in R
<1> DEFINE n == Cardinality(S)
           r == Rank(R, S)
           q == InOrder(S, R)
<1>1. /\ n \in Nat /\ \A i \in S : r[i] \in 1..n
      /\ \A k \in 1..n : \E i \in S : r[i] = k
      /\ \A i, j \in S : r[i] = r[j] => i = j
      /\ \A i, j \in S : <<i, j>> \in R => r[i] < r[j]
  BY RanksSort
<1>2. \A i \in S : Cardinality({y \in S : <<y, i>> \in R}) + 1 = r[i] BY DEF Rank, Preceding
<1> DEFINE C(k) == CHOOSE i \in S : Cardinality({y \in S : <<y, i>> \in R}) + 1 = k
<1>3. q = [k \in 1..n |-> C(k)] BY DEF InOrder
<1>8. \A k : (\E i \in S : Cardinality({y \in S : <<y, i>> \in R}) + 1 = k) =>
             C(k) \in S /\ Cardinality({y \in S : <<y, C(k)>> \in R}) + 1 = k
  BY Zenon
<1> HIDE DEF C
<1> HIDE DEF n, q, r
<1>4. ASSUME NEW k \in 1..n PROVE q[k] \in S /\ r[q[k]] = k
  <2>1. \E i \in S : Cardinality({y \in S : <<y, i>> \in R}) + 1 = k BY <1>1, <1>2
  <2>2. q[k] = C(k) BY <1>3
  <2>3. q[k] \in S /\ Cardinality({y \in S : <<y, q[k]>> \in R}) + 1 = k BY <1>8, <2>1, <2>2, Zenon
  <2> QED BY <1>2, <2>3
<1>5. q \in Seq(S) /\ Len(q) = n /\ DOMAIN q = 1..n
  <2>1. q = [k \in 1..n |-> q[k]] BY <1>3
  <2> QED BY <1>1, <1>4, <2>1
<1>6. Range(q) = S
  <2>1. \A i \in S : r[i] \in 1..n /\ q[r[i]] = i BY <1>1, <1>4
  <2>2. \A i \in S : \E k \in DOMAIN q : q[k] = i BY <1>5, <2>1
  <2>3. \A k \in DOMAIN q : q[k] \in S BY <1>4, <1>5
  <2> QED BY <2>2, <2>3 DEF Range
<1>7. ASSUME NEW a \in 1..n, NEW b \in 1..n, a < b PROVE <<q[a], q[b]>> \in R
  <2>1. q[a] \in S /\ q[b] \in S /\ r[q[a]] = a /\ r[q[b]] = b BY <1>4
  <2>2. q[a] # q[b] /\ ~(b < a) BY <1>1, <1>7, <2>1
  <2>3. <<q[a], q[b]>> \in R \/ <<q[b], q[a]>> \in R BY <2>1, <2>2 DEF Orders
  <2> QED BY <1>1, <2>1, <2>2, <2>3
<1> QED BY <1>5, <1>6, <1>7 DEF q

\* What a directory lists: a name more than its own, of what is below it.
LEMMA ChildrenAre ==
    ASSUME NEW S \in SUBSET Ids, NEW dir \in Seq(Nat), NEW x \in Children(S, dir)
    PROVE  /\ x \in Seq(Nat) /\ Len(x) = Len(dir) + 1 /\ \A k \in 1..Len(dir) : x[k] = dir[k]
           /\ Last(x) = x[Len(x)] /\ Last(x) \in Nat
           /\ \E i \in S : IsPrefix(x, i)
<1>1. PICK i \in S : IsStrictPrefix(dir, i) /\ x = SubSeq(i, 1, Len(dir) + 1) BY DEF Children
<1> DEFINE n == Len(dir) + 1
<1>2. i \in Seq(Nat) /\ Len(i) \in Nat /\ n \in Nat /\ Len(dir) \in Nat BY SurfacesAssumption
<1>3. Len(dir) <= Len(i) /\ (\A k \in 1..Len(dir) : dir[k] = i[k]) /\ dir # i
  BY <1>1, <1>2, PrefixIs DEF IsStrictPrefix
<1>4. Len(dir) # Len(i) BY <1>2, <1>3, SameSequence
<1>5. n \in 0..Len(i) BY <1>2, <1>3, <1>4
<1>6. x \in Seq(Nat) /\ Len(x) = n /\ \A k \in 1..n : x[k] = i[k]
  <2>1. x = SubSeq(i, 1, n) BY <1>1
  <2> HIDE DEF n
  <2> QED BY <1>2, <1>5, <2>1, BeginningIs
<1>7. \A k \in 1..Len(dir) : x[k] = dir[k]
  <2>1. \A k \in 1..Len(dir) : k \in 1..n BY <1>2
  <2> HIDE DEF n
  <2> SUFFICES ASSUME NEW k \in 1..Len(dir) PROVE x[k] = dir[k] OBVIOUS
  <2>2. dir[k] = i[k] BY <1>3
  <2>3. x[k] = i[k] BY <1>6, <2>1
  <2> QED BY <2>2, <2>3
<1>8. IsPrefix(x, i)
  <2>1. Len(x) <= Len(i) BY <1>2, <1>5, <1>6
  <2> QED BY <1>2, <1>6, <2>1, PrefixIs
<1>9. Last(x) = x[Len(x)] /\ Last(x) \in Nat
  <2>1. Len(x) \in 1..Len(x) BY <1>2, <1>6
  <2> QED BY <1>6, <2>1 DEF Last
<1> QED BY <1>6, <1>7, <1>8, <1>9

\* There are finitely many.
LEMMA ChildrenFinite ==
    ASSUME NEW S \in SUBSET Ids, NEW dir
    PROVE  IsFiniteSet(Children(S, dir))
<1> DEFINE T == {j \in S : IsStrictPrefix(dir, j)}
           X == Children(S, dir)
           f == [i \in T |-> SubSeq(i, 1, Len(dir) + 1)]
<1>1. IsFiniteSet(T)
  <2>1. T \in SUBSET Ids OBVIOUS
  <2> HIDE DEF T
  <2> QED BY <2>1, SurfacesAssumption, FS_Subset
<1>2. X = {f[i] : i \in T} BY DEF Children
<1>3. f \in Surjection(T, X)
  <2>1. f \in [T -> X] BY <1>2
  <2> HIDE DEF f, X
  <2> QED BY <1>2, <2>1 DEF Surjection
<1> HIDE DEF T, X, f
<1>4. IsFiniteSet(X) BY <1>1, <1>3, FS_Surjection
<1> QED BY <1>4 DEF X

\* An order is a number.
LEMMA OrderIs ==
    ASSUME NEW t, LegibleRecord(t), NEW S \in SUBSET Ids, NEW x
    PROVE  OrderOf(t, S, x) \in Nat
<1>1. \A i \in Ids : t[i].order \in Nat BY DEF LegibleRecord, Legible
<1> DEFINE N == {Unordered} \cup {t[i].order : i \in {j \in S : IsStrictPrefix(x, j)}}
<1>2. N \subseteq Nat /\ N # {} BY <1>1, SurfacesAssumption
<1>3. FolderOrder(t, S, x) = Min(N) BY DEF FolderOrder
<1> HIDE DEF N
<1>4. FolderOrder(t, S, x) \in Nat BY <1>2, <1>3, LeastIs
<1> QED BY <1>1, <1>4 DEF OrderOf

\* A listing is of all the children, each once.
LEMMA ListingIs ==
    ASSUME NEW t, LegibleRecord(t), NEW S \in SUBSET Ids, NEW dir \in Seq(Nat)
    PROVE  Range(Listing(t, S, dir)) = Children(S, dir)
<1> DEFINE X == Children(S, dir)
           R == {xy \in X \X X : Siblings(t, S, xy[1], xy[2])}
           o(x) == OrderOf(t, S, x)
<1>1. Listing(t, S, dir) = InOrder(X, R) BY DEF Listing
<1>2. \A x \in X : o(x) \in Nat /\ Last(x) \in Nat BY OrderIs, ChildrenAre
<1>3. \A x, y \in X : <<x, y>> \in R <=> o(x) < o(y) \/ (o(x) = o(y) /\ Last(x) < Last(y))
  BY DEF Siblings
<1>4. ASSUME NEW x \in X, NEW y \in X, Last(x) = Last(y) PROVE x = y
  <2>1. /\ x \in Seq(Nat) /\ Len(x) = Len(dir) + 1 /\ \A k \in 1..Len(dir) : x[k] = dir[k]
        /\ Last(x) = x[Len(x)]
    BY ChildrenAre
  <2>2. /\ y \in Seq(Nat) /\ Len(y) = Len(dir) + 1 /\ \A k \in 1..Len(dir) : y[k] = dir[k]
        /\ Last(y) = y[Len(y)]
    BY ChildrenAre
  <2>3. Len(dir) \in Nat OBVIOUS
  <2>4. \A k \in 1..Len(x) : k = Len(x) \/ k \in 1..Len(dir) BY <2>1, <2>3
  <2>5. \A k \in 1..Len(x) : x[k] = y[k] BY <1>4, <2>1, <2>2, <2>4
  <2> QED BY <2>1, <2>2, <2>5, SameSequence
<1>5. IsFiniteSet(X) BY ChildrenFinite
<1> HIDE DEF X, R, o
<1>6. Orders(R, X)
  <2> SUFFICES ASSUME NEW i \in X, NEW j \in X, NEW k \in X
               PROVE  /\ <<i, i>> \notin R
                      /\ i # j => <<i, j>> \in R \/ <<j, i>> \in R
                      /\ <<i, j>> \in R /\ <<j, k>> \in R => <<i, k>> \in R
    BY DEF Orders
  <2>1. o(i) \in Nat /\ o(j) \in Nat /\ o(k) \in Nat
        /\ Last(i) \in Nat /\ Last(j) \in Nat /\ Last(k) \in Nat
    BY <1>2
  <2>2. i # j => Last(i) # Last(j) BY <1>4
  <2> QED BY <1>3, <2>1, <2>2
<1>7. Range(InOrder(X, R)) = X BY <1>5, <1>6, Lists
<1> QED BY <1>1, <1>7 DEF X

-----------------------------------------------------------------------------
(* What was built, was built of a record that the check passed.               *)
LockfileInv(l) ==
    l # NotBuilt =>
      /\ LegibleRecord(l.of) /\ ~Refused(l.of, l.charter, l.denied) /\ l.asOf \in Nat
      /\ l.drafts \in BOOLEAN
      /\ l.bundles = Bundles(l.of, l.charter, l.denied, l.asOf)
Withdrawals == [at : Seq(Nat), scope : {"node", "subtree"}, expected : {"present", "removed"}]
SiteInv(s) ==
    s # NotBuilt =>
      /\ s.under \subseteq Withdrawals
      /\ LegibleRecord(s.of) /\ (\E c : ~Refused(s.of, c, s.under)) /\ s.asOf \in Nat
      /\ "public" \in s.viewer
      /\ \E drafts \in BOOLEAN :
           s.pages = [i \in Staged(s.of, s.under, s.asOf, drafts, s.viewer) |->
                        Page(s.of[i], s.asOf, drafts)]
      /\ s.indexes = Indexes(s.of, DOMAIN s.pages)
DoorInv(d) == d # NotBuilt => LegibleRecord(d.of) /\ ~Untidy(d.of)
SurfacesInv ==
    /\ LegibleRecord(docs) /\ hour \in Nat /\ withdrawn \subseteq Withdrawals
    /\ LockfileInv(lockfile) /\ SiteInv(site) /\ DoorInv(served)

\* Nothing is built at first.
LEMMA SurfacesInvInit == SurfacesInit => SurfacesInv
BY SurfacesAssumption DEF SurfacesInit, SurfacesInv, LegibleRecord, LockfileInv, SiteInv, DoorInv

\* What a site build and a preview leave.
LEMMA SiteBuilt ==
    ASSUME NEW t, LegibleRecord(t), NEW c, NEW ds, ds \subseteq Withdrawals,
           ~Refused(t, c, ds), NEW at \in Nat, NEW drafts \in BOOLEAN, NEW viewer, "public" \in viewer, NEW stamped
    PROVE  SiteInv(PlanStage(t, ds, at, drafts, viewer, stamped))
<1> DEFINE s == PlanStage(t, ds, at, drafts, viewer, stamped)
           kept == Staged(t, ds, at, drafts, viewer)
<1>1. /\ s.of = t /\ s.under = ds /\ s.asOf = at /\ s.viewer = viewer
      /\ s.pages = [i \in kept |-> Page(t[i], at, drafts)]
      /\ s.indexes = Indexes(t, kept)
  BY DEF PlanStage
<1>2. DOMAIN s.pages = kept BY <1>1
<1> HIDE DEF s
<1>3. \E d \in BOOLEAN :
        s.pages = [i \in Staged(s.of, s.under, s.asOf, d, s.viewer) |-> Page(s.of[i], s.asOf, d)]
  BY <1>1
<1>4. s.indexes = Indexes(s.of, DOMAIN s.pages) BY <1>1, <1>2
<1>5. \E d : ~Refused(s.of, d, s.under) BY <1>1
<1>6. SiteInv(s) BY <1>1, <1>3, <1>4, <1>5 DEF SiteInv
<1> QED BY <1>6 DEF s

\* Each step of the record's, the operator's and the builders'.
LEMMA SurfacesInvStep == SurfacesInv /\ [SurfacesNext]_surfaceVars => SurfacesInv'
<1> SUFFICES ASSUME SurfacesInv, [SurfacesNext]_surfaceVars PROVE SurfacesInv'
  OBVIOUS
<1>0. LegibleRecord(docs) /\ hour \in Nat /\ withdrawn \subseteq Withdrawals /\ LockfileInv(lockfile) /\ SiteInv(site) /\ DoorInv(served)
  BY DEF SurfacesInv
<1> DEFINE Kept(v) == v' = v
<1>1. LegibleRecord(docs') /\ hour' \in Nat
  <2>1. ASSUME NEW r \in Rewrites, Write(r) PROVE LegibleRecord(docs') /\ hour' \in Nat
    <3>1. r.at \in Ids /\ Legible(r.doc) BY SurfacesAssumption
    <3>2. docs = [i \in Ids |-> docs[i]] /\ (\A i \in Ids : Legible(docs[i])) BY <1>0 DEF LegibleRecord
    <3>3. docs' = [docs EXCEPT ![r.at] = r.doc] /\ hour' = hour BY <2>1 DEF Write
    <3>4. docs' = [i \in Ids |-> IF i = r.at THEN r.doc ELSE docs[i]] BY <3>1, <3>2, <3>3
    <3>5. docs' = [i \in Ids |-> docs'[i]] /\ \A i \in Ids : docs'[i] = IF i = r.at THEN r.doc ELSE docs[i]
      BY <3>4
    <3> QED BY <1>0, <3>1, <3>2, <3>3, <3>5 DEF LegibleRecord
  <2>2. CASE UNCHANGED <<docs, hour>> BY <1>0, <2>2
  <2>3. CASE Tick BY <1>0, <2>3 DEF Tick
  <2> QED
    BY <2>1, <2>2, <2>3
    DEF SurfacesNext, surfaceVars, Recharter, TakeDown, Lift, Removed, KsorBuild, SiteBuild,
        Preview, Ingest
<1>5. withdrawn' \subseteq Withdrawals
  <2>1. CASE withdrawn' = withdrawn BY <1>0, <2>1
  <2>2. ASSUME NEW e \in Targets, TakeDown(e) PROVE withdrawn' \subseteq Withdrawals
    <3>1. e.at \in Seq(Nat) /\ e.scope \in {"node", "subtree"} BY SurfacesAssumption
    <3>2. Standing(docs, e) \in {"present", "removed"} BY DEF Standing
    <3>3. [at |-> e.at, scope |-> e.scope, expected |-> Standing(docs, e)] \in Withdrawals
      BY <3>1, <3>2 DEF Withdrawals
    <3> QED BY <1>0, <2>2, <3>3 DEF TakeDown
  <2>3. ASSUME NEW f \in withdrawn, Lift(f) PROVE withdrawn' \subseteq Withdrawals
    BY <1>0, <2>3 DEF Lift
  <2>4. ASSUME NEW f \in withdrawn, Removed(f) PROVE withdrawn' \subseteq Withdrawals
    <3>1. f \in Withdrawals BY <1>0
    <3>2. [f EXCEPT !.expected = "removed"] \in Withdrawals BY <3>1 DEF Withdrawals
    <3> QED BY <1>0, <2>4, <3>2 DEF Removed
  <2> QED
    BY <2>1, <2>2, <2>3, <2>4
    DEF SurfacesNext, surfaceVars, Write, Recharter, Tick, KsorBuild, SiteBuild, Preview, Ingest
<1>2. LockfileInv(lockfile')
  <2>1. CASE lockfile' = lockfile BY <1>0, <2>1
  <2>2. CASE KsorBuild
    <3>1. ~Refused(docs, charter, withdrawn) BY <2>2 DEF KsorBuild
    <3>2. PICK drafts \in BOOLEAN :
            lockfile' = [is |-> "lock", of |-> docs, charter |-> charter, denied |-> withdrawn,
                         asOf |-> hour, drafts |-> drafts,
                         bundles |-> Bundles(docs, charter, withdrawn, hour)]
      BY <2>2 DEF KsorBuild
    <3>3. /\ lockfile'.of = docs /\ lockfile'.charter = charter /\ lockfile'.denied = withdrawn
          /\ lockfile'.asOf = hour /\ lockfile'.drafts = drafts
          /\ lockfile'.bundles = Bundles(docs, charter, withdrawn, hour)
      BY <3>2
    <3> QED BY <1>0, <3>1, <3>3 DEF LockfileInv
  <2> QED
    BY <2>1, <2>2
    DEF SurfacesNext, surfaceVars, Write, Recharter, TakeDown, Lift, Removed, Tick, SiteBuild,
        Preview, Ingest
<1>3. SiteInv(site')
  <2>1. CASE site' = site BY <1>0, <2>1
  <2>2. CASE SiteBuild
    <3>1. PICK viewer \in Viewers :
            site' = PlanStage(docs, withdrawn, lockfile.asOf, lockfile.drafts, viewer, TRUE)
      BY <2>2 DEF SiteBuild
    <3>2. ~Refused(docs, charter, withdrawn) /\ lockfile # NotBuilt BY <2>2 DEF SiteBuild, Fresh
    <3>3. lockfile.asOf \in Nat /\ lockfile.drafts \in BOOLEAN BY <1>0, <3>2 DEF LockfileInv
    <3>4. "public" \in viewer BY DEF Viewers
    <3> QED BY <1>0, <3>1, <3>2, <3>3, <3>4, SiteBuilt
  <2>3. CASE Preview
    <3>1. PICK viewer \in Viewers : site' = PlanStage(docs, withdrawn, hour, TRUE, viewer, FALSE)
      BY <2>3 DEF Preview
    <3>2. ~Refused(docs, charter, withdrawn) /\ "public" \in viewer BY <2>3 DEF Preview, Viewers
    <3> QED BY <1>0, <3>1, <3>2, SiteBuilt
  <2> QED
    BY <2>1, <2>2, <2>3
    DEF SurfacesNext, surfaceVars, Write, Recharter, TakeDown, Lift, Removed, Tick, KsorBuild,
        Ingest
<1>4. DoorInv(served')
  <2>1. CASE served' = served BY <1>0, <2>1
  <2>2. CASE Ingest
    <3>1. served'.of = docs BY <2>2 DEF Ingest
    <3>2. ~Untidy(docs) BY <2>2 DEF Ingest, Refused
    <3> QED BY <1>0, <3>1, <3>2 DEF DoorInv
  <2> QED
    BY <2>1, <2>2
    DEF SurfacesNext, surfaceVars, Write, Recharter, TakeDown, Lift, Removed, Tick, KsorBuild,
        SiteBuild, Preview
<1> QED
  <2> HIDE DEF Kept
  <2> QED BY <1>1, <1>2, <1>3, <1>4, <1>5, Zenon DEF SurfacesInv

-----------------------------------------------------------------------------
\* What is selected for a viewer stays inside.
LEMMA ShippedStaysInside ==
    ASSUME NEW t, LegibleRecord(t), NEW c, NEW ds, ~Refused(t, c, ds), NEW viewer, "public" \in viewer,
           NEW kept \in SUBSET Concepts(t), \A i \in kept : Overlaps(viewer, t[i].aud)
    PROVE  StaysInside(viewer, t, kept, Indexes(t, kept))
<1>1. kept \in SUBSET Ids BY DEF Concepts
<1>2. \A i \in kept : \A x \in t[i].links \cup t[i].summary : OpenTo(viewer, t, x)
  BY LinksStayInside
<1> DEFINE index == Indexes(t, kept)
<1>3. ASSUME NEW dir \in DOMAIN index, NEW x \in Range(index[dir])
      PROVE  \E i \in kept : IsPrefix(x, i) /\ Overlaps(viewer, t[i].aud)
  <2>1. dir \in Dirs \cup {<<>>} BY DEF Indexes
  <2>4. dir \in Seq(Nat)
    <3>1. CASE dir = <<>> BY <3>1
    <3>2. CASE dir \in Dirs BY <3>2, SurfacesAssumption
    <3> QED BY <2>1, <3>1, <3>2
  <2>2. index[dir] = Listing(t, kept, dir) BY DEF Indexes
  <2> HIDE DEF index
  <2>3. x \in Children(kept, dir) BY <1>1, <1>3, <2>2, <2>4, ListingIs
  <2>5. PICK i \in kept : IsPrefix(x, i) BY <1>1, <2>3, <2>4, ChildrenAre
  <2> QED BY <2>5
<1> HIDE DEF index
<1>4. \A x \in UNION {Range(index[dir]) : dir \in DOMAIN index} :
        \E i \in kept : IsPrefix(x, i) /\ Overlaps(viewer, t[i].aud)
  BY <1>3
<1> QED BY <1>2, <1>4 DEF StaysInside, index

\* From what was built to what its readers may open.
LEMMA StaysInsideHolds == SurfacesInv => ReadersStayInside
<1> SUFFICES ASSUME SurfacesInv PROVE ReadersStayInside
  OBVIOUS
<1>1. ASSUME lockfile # NotBuilt, NEW v \in DOMAIN lockfile.bundles
      PROVE  StaysInside({"public", v}, lockfile.of, lockfile.bundles[v].held, lockfile.bundles[v].indexes)
  <2> DEFINE t == lockfile.of
             viewer == {"public", v}
             held == AdmittedTo(viewer, t, lockfile.denied, lockfile.asOf)
  <2>1. /\ LegibleRecord(t) /\ ~Refused(t, lockfile.charter, lockfile.denied)
        /\ lockfile.bundles = Bundles(t, lockfile.charter, lockfile.denied, lockfile.asOf)
    BY <1>1 DEF SurfacesInv, LockfileInv
  <2>2. v \in DOMAIN CanonicalViewers(lockfile.charter) BY <1>1, <2>1 DEF Bundles
  <2>3. CanonicalViewers(lockfile.charter)[v] = viewer BY <2>2 DEF CanonicalViewers
  <2>4. lockfile.bundles[v] = Bundle(viewer, t, lockfile.denied, lockfile.asOf)
    BY <2>1, <2>2, <2>3 DEF Bundles
  <2>5. lockfile.bundles[v].held = held /\ lockfile.bundles[v].indexes = Indexes(t, held)
    BY <2>4 DEF Bundle
  <2>6. held \in SUBSET Concepts(t) /\ \A i \in held : Overlaps(viewer, t[i].aud) BY DEF AdmittedTo
  <2>7. "public" \in viewer OBVIOUS
  <2> HIDE DEF t, viewer, held
  <2>8. StaysInside(viewer, t, held, Indexes(t, held)) BY <2>1, <2>6, <2>7, ShippedStaysInside
  <2> QED BY <2>5, <2>8 DEF t, viewer
<1>2. ASSUME site # NotBuilt
      PROVE  /\ StaysInside(site.viewer, site.of, DOMAIN site.pages, site.indexes)
             /\ \A i \in DOMAIN site.pages :
                  \A j \in ({site.pages[i].successor} \ {<<>>}) \cup Predecessors(site, i) :
                    Overlaps(site.viewer, site.of[j].aud)
  <2> DEFINE t == site.of
  <2>1. PICK c : ~Refused(t, c, site.under) BY <1>2 DEF SurfacesInv, SiteInv
  <2>2. LegibleRecord(t) /\ "public" \in site.viewer /\ site.indexes = Indexes(t, DOMAIN site.pages)
    BY <1>2 DEF SurfacesInv, SiteInv
  <2>3. PICK drafts \in BOOLEAN :
          site.pages = [i \in Staged(t, site.under, site.asOf, drafts, site.viewer) |->
                          Page(t[i], site.asOf, drafts)]
    BY <1>2 DEF SurfacesInv, SiteInv
  <2>4. \A i \in DOMAIN site.pages :
          i \in Concepts(t) /\ Overlaps(site.viewer, t[i].aud) /\ site.pages[i] = Page(t[i], site.asOf, drafts)
    BY <2>3 DEF Staged
  <2> HIDE DEF t
  <2>5. StaysInside(site.viewer, t, DOMAIN site.pages, site.indexes)
    <3>1. DOMAIN site.pages \in SUBSET Concepts(t) BY <2>4
    <3> QED BY <2>1, <2>2, <2>4, <3>1, ShippedStaysInside
  <2>6. ASSUME NEW i \in DOMAIN site.pages, NEW j \in {site.pages[i].successor} \ {<<>>}
        PROVE  Overlaps(site.viewer, t[j].aud)
    <3>1. site.pages[i] = Page(t[i], site.asOf, drafts) /\ j = site.pages[i].successor /\ j # <<>>
      BY <2>4
    <3>2. t[i].sup = j
      <4>1. Page(t[i], site.asOf, drafts).successor = (IF t[i].status = "deprecated" THEN t[i].sup ELSE <<>>)
        BY DEF Page
      <4> QED BY <3>1, <4>1
    <3>3. ~Strands(t, i) BY <2>1, <2>4 DEF Refused, AtFault
    <3>4. MayReach(t[i].aud, t[j].aud) BY <3>1, <3>2, <3>3 DEF Strands
    <3> QED BY <2>2, <2>4, <3>4, Reaches
  <2>7. ASSUME NEW i \in DOMAIN site.pages, NEW j \in Predecessors(site, i)
        PROVE  Overlaps(site.viewer, t[j].aud)
    <3>1. j \in DOMAIN site.pages BY DEF Predecessors
    <3> QED BY <2>4, <3>1
  <2> QED BY <2>5, <2>6, <2>7 DEF t
<1> QED BY <1>1, <1>2 DEF ReadersStayInside

\* Nothing that is shipped names what its readers may not open: every link was
\* judged by the audience of the document it is in, which they share.
THEOREM ReadersStayInsideHolds == SurfacesSpec => []ReadersStayInside
<1>1. SurfacesInv /\ [SurfacesNext]_surfaceVars => SurfacesInv' BY SurfacesInvStep
<1> QED BY <1>1, SurfacesInvInit, StaysInsideHolds, PTL DEF SurfacesSpec

-----------------------------------------------------------------------------
(* One answer.                                                                *)

\* A badge is none, a machine is admitted, and a document is current, all at once.
LEMMA BadgeIs ==
    ASSUME NEW d, Legible(d), NEW at \in Nat, NEW drafts \in BOOLEAN
    PROVE  /\ AdmitsLifecycle(d, "machine", at, drafts) <=> Current(d, at)
           /\ (Badge(d, at) = Unsaid) <=> Current(d, at)
           /\ Current(d, at) => \A then : AdmitsLifecycle(d, "human", then, drafts)
<1>1. d.from \in Nat /\ d.until \in Nat /\ d.status \in {"draft", "stable", "deprecated"} BY DEF Legible
<1> QED BY <1>1, SurfacesAssumption DEF AdmitsLifecycle, Current, Badge

\* The pages of a site, and what they say.
LEMMA PagesAre ==
    ASSUME NEW s, s # NotBuilt, SiteInv(s)
    PROVE  /\ DOMAIN s.pages \in SUBSET Concepts(s.of)
           /\ MachinePages(s) = {i \in DOMAIN s.pages : Current(s.of[i], s.asOf)}
           /\ MachinePages(s) = {i \in DOMAIN s.pages : s.pages[i].badge = Unsaid}
           /\ \A at \in Nat :
                {i \in DOMAIN s.pages : Current(s.of[i], at)} =
                  {i \in Concepts(s.of) : /\ ~TakenDown(s.under, i) /\ Overlaps(s.viewer, s.of[i].aud)
                                          /\ Current(s.of[i], at)}
<1> DEFINE t == s.of
<1>1. LegibleRecord(t) /\ s.asOf \in Nat BY DEF SiteInv
<1>2. PICK drafts \in BOOLEAN :
        s.pages = [i \in Staged(t, s.under, s.asOf, drafts, s.viewer) |-> Page(t[i], s.asOf, drafts)]
  BY DEF SiteInv
<1> DEFINE kept == Staged(t, s.under, s.asOf, drafts, s.viewer)
<1>3. DOMAIN s.pages = kept BY <1>2
<1>4. kept \in SUBSET Concepts(t) BY DEF Staged
<1>5. \A i \in Concepts(t) : Legible(t[i]) BY <1>1 DEF LegibleRecord, Concepts
<1>6. ASSUME NEW i \in kept
      PROVE  /\ s.pages[i].machine <=> Current(t[i], s.asOf)
             /\ (s.pages[i].badge = Unsaid) <=> Current(t[i], s.asOf)
  <2>1. s.pages[i] = Page(t[i], s.asOf, drafts) BY <1>2
  <2>2. Legible(t[i]) BY <1>4, <1>5
  <2>3. /\ s.pages[i].machine = AdmitsLifecycle(t[i], "machine", s.asOf, drafts)
        /\ s.pages[i].badge = Badge(t[i], s.asOf)
    BY <2>1 DEF Page
  <2> HIDE DEF t
  <2> QED BY <1>1, <2>2, <2>3, BadgeIs
<1>7. ASSUME NEW at \in Nat, NEW i \in Concepts(t), Current(t[i], at)
      PROVE  i \in kept <=> ~TakenDown(s.under, i) /\ Overlaps(s.viewer, t[i].aud)
  <2>1. AdmitsLifecycle(t[i], "human", s.asOf, drafts) BY <1>5, <1>7, BadgeIs
  <2> QED BY <2>1 DEF Staged
<1>8. \A i \in kept : ~TakenDown(s.under, i) /\ Overlaps(s.viewer, t[i].aud) BY DEF Staged
<1> HIDE DEF t, kept
<1>9. MachinePages(s) = {i \in kept : s.pages[i].machine} BY <1>3 DEF MachinePages
<1>10. \A at \in Nat :
         {i \in kept : Current(t[i], at)} =
           {i \in Concepts(t) : ~TakenDown(s.under, i) /\ Overlaps(s.viewer, t[i].aud) /\ Current(t[i], at)}
  BY <1>4, <1>7
<1> QED BY <1>3, <1>4, <1>6, <1>9, <1>10 DEF t

\* A row denies what the ledger denies.
LEMMA RowsDeny ==
    ASSUME NEW ds, ds \subseteq Withdrawals, deniedRows = {[at |-> e.at, scope |-> e.scope] : e \in ds}, NEW i \in Ids
    PROVE  DeniedNode(i) <=> TakenDown(ds, i)
<1>1. i \in Seq(Nat) /\ i # <<>> BY SurfacesAssumption
<1>2. Len(i) \in Nat \ {0} /\ Front(i) \in Seq(Nat) /\ Len(Front(i)) = Len(i) - 1
      /\ \A k \in 1..(Len(i) - 1) : Front(i)[k] = i[k]
  BY <1>1, FrontIs
<1>3. ASSUME NEW p \in Seq(Nat) PROVE (p \in Prefixes(Front(i)) \/ p = i) <=> IsPrefix(p, i)
  <2>0. Len(p) \in Nat OBVIOUS
  <2>1. ASSUME p \in Prefixes(Front(i)) PROVE IsPrefix(p, i)
    <3>1. PICK n \in 0..Len(Front(i)) : p = SubSeq(Front(i), 1, n) BY <2>1 DEF Prefixes
    <3>2. Len(p) = n /\ \A k \in 1..n : p[k] = Front(i)[k] BY <1>2, <3>1, BeginningIs
    <3>3. n \in Nat /\ n <= Len(i) - 1 BY <1>2
    <3>4. n <= Len(i) /\ \A k \in 1..n : k \in 1..(Len(i) - 1) BY <1>2, <3>3
    <3>5. \A k \in 1..n : p[k] = i[k] BY <1>2, <3>2, <3>4
    <3> QED BY <1>1, <3>2, <3>4, <3>5, PrefixIs
  <2>2. IsPrefix(i, i) BY <1>1, <1>2, PrefixIs
  <2>3. ASSUME IsPrefix(p, i), p # i PROVE p \in Prefixes(Front(i))
    <3> DEFINE n == Len(p)
               q == SubSeq(Front(i), 1, n)
    <3>1. n <= Len(i) /\ \A k \in 1..n : p[k] = i[k] BY <1>1, <2>3, PrefixIs
    <3>2. n # Len(i) BY <1>1, <2>3, <3>1, SameSequence
    <3>3. n \in 0..Len(Front(i)) /\ \A k \in 1..n : k \in 1..(Len(i) - 1) BY <1>2, <2>0, <3>1, <3>2
    <3>4. q \in Seq(Nat) /\ Len(q) = n /\ \A k \in 1..n : q[k] = Front(i)[k]
      <4> HIDE DEF n
      <4> QED BY <1>2, <3>3, BeginningIs
    <3> HIDE DEF q
    <3>5. \A k \in 1..Len(p) : p[k] = q[k] BY <1>2, <3>1, <3>3, <3>4
    <3>6. p = q BY <3>4, <3>5, SameSequence
    <3> QED BY <3>3, <3>6 DEF Prefixes, q
  <2> QED BY <2>1, <2>2, <2>3
<1>4. \A e \in ds : e.at \in Seq(Nat) BY DEF Withdrawals
<1>5. DeniedNode(i) <=> \E e \in ds : e.at = i \/ (e.scope = "subtree" /\ e.at \in Prefixes(Front(i)))
  <2> DEFINE row(e) == [at |-> e.at, scope |-> e.scope]
  <2>1. DeniedNode(i) <=>
          \E e \in ds : row(e).at = i \/ (row(e).scope = "subtree" /\ row(e).at \in Prefixes(Front(i)))
    BY Zenon DEF DeniedNode
  <2> QED BY <2>1
<1> QED BY <1>3, <1>4, <1>5 DEF TakenDown

-----------------------------------------------------------------------------
\* i and j agree up to their nth names.
Parts(i, j, n) ==
    /\ n \in 1..Len(i) /\ n \in 1..Len(j) /\ i[n] # j[n]
    /\ \A k \in 1..(n - 1) : i[k] = j[k]

\* In a listed order the earlier come first.
LEMMA Comes ==
    ASSUME NEW i \in Seq(Nat), NEW j \in Seq(Nat), NEW n \in Nat, Parts(i, j, n)
    PROVE  n = Min({m \in 1..Len(i) : m > Len(j) \/ i[m] # j[m]}) /\ i # j
<1> DEFINE D == {m \in 1..Len(i) : m > Len(j) \/ i[m] # j[m]}
<1>1. Len(i) \in Nat /\ Len(j) \in Nat OBVIOUS
<1>2. n \in D /\ D \subseteq Nat BY <1>1 DEF Parts
<1>3. ASSUME NEW m \in D PROVE n <= m
  <2>1. m \in Nat /\ 1 <= m /\ (m > Len(j) \/ i[m] # j[m]) BY <1>1
  <2>2. n <= Len(j) /\ n \in Nat BY <1>1 DEF Parts
  <2>3. SUFFICES ASSUME ~(n <= m) PROVE FALSE OBVIOUS
  <2>4. m \in 1..(n - 1) /\ ~(m > Len(j)) BY <1>1, <2>1, <2>2, <2>3
  <2> QED BY <2>1, <2>4 DEF Parts
<1> HIDE DEF D
<1>4. Min(D) \in D /\ \A k \in D : Min(D) <= k BY <1>2, LeastIs
<1>5. Min(D) <= n /\ n <= Min(D) /\ Min(D) \in Nat BY <1>2, <1>3, <1>4
<1>6. n = Min(D) BY <1>5
<1>7. i # j BY DEF Parts
<1> QED BY <1>6, <1>7 DEF D

\* No document is a directory: two of them part somewhere.
LEMMA PartSomewhere ==
    ASSUME NEW t, ~Untidy(t), NEW i \in Concepts(t), NEW j \in Concepts(t), i # j
    PROVE  \E n \in Nat : Parts(i, j, n)
<1>1. /\ i \in Ids /\ j \in Ids /\ i \in Seq(Nat) /\ j \in Seq(Nat)
      /\ Len(i) \in Nat \ {0} /\ Len(j) \in Nat \ {0}
  BY SurfacesAssumption DEF Concepts
<1>2. ASSUME NEW x \in Concepts(t), NEW y \in Concepts(t), x # y, IsPrefix(x, y) PROVE FALSE
  <2>1. x \in Ids /\ y \in Ids /\ x \in Seq(Nat) /\ y \in Seq(Nat) /\ Len(x) \in Nat \ {0} /\ Len(y) \in Nat
    BY SurfacesAssumption DEF Concepts
  <2>2. Len(x) <= Len(y) /\ \A k \in 1..Len(x) : x[k] = y[k] BY <1>2, <2>1, PrefixIs
  <2>3. Len(x) # Len(y) BY <1>2, <2>1, <2>2, SameSequence
  <2> DEFINE n == Len(x)
             q == SubSeq(y, 1, n)
  <2>4. n \in 1..Len(y) /\ n # Len(y) /\ n \in 0..Len(y) BY <2>1, <2>2, <2>3
  <2>5. q \in Dirs BY <2>1, <2>4, SurfacesAssumption
  <2>6. q \in Seq(Nat) /\ Len(q) = n /\ \A k \in 1..n : q[k] = y[k]
    <3> HIDE DEF n
    <3> QED BY <2>1, <2>4, BeginningIs
  <2> HIDE DEF q
  <2>7. \A k \in 1..Len(x) : x[k] = q[k] BY <2>2, <2>6
  <2>8. x = q BY <2>1, <2>6, <2>7, SameSequence
  <2> QED BY <2>5, <2>8 DEF Untidy
<1> DEFINE D == {m \in 1..Len(i) : m > Len(j) \/ i[m] # j[m]}
<1>3. D # {} /\ D \subseteq Nat
  <2>1. SUFFICES ASSUME D = {} PROVE FALSE BY <1>1
  <2>2. \A m \in 1..Len(i) : ~(m > Len(j)) /\ i[m] = j[m] BY <2>1
  <2>3. Len(i) <= Len(j)
    <3>1. Len(i) \in 1..Len(i) BY <1>1
    <3> QED BY <1>1, <2>2, <3>1
  <2>4. IsPrefix(i, j) BY <1>1, <2>2, <2>3, PrefixIs
  <2> QED BY <1>2, <2>4
<1> DEFINE n == Min(D)
<1>4. n \in D /\ \A k \in D : n <= k
  <2> HIDE DEF D
  <2> QED BY <1>3, LeastIs
<1> HIDE DEF n
<1>5. n \in 1..Len(i) /\ n \in Nat BY <1>1, <1>4
<1>6. \A k \in 1..(n - 1) : ~(k > Len(j)) /\ i[k] = j[k]
  <2> SUFFICES ASSUME NEW k \in 1..(n - 1) PROVE ~(k > Len(j)) /\ i[k] = j[k]
    OBVIOUS
  <2>1. k \in 1..Len(i) /\ ~(n <= k) BY <1>1, <1>5
  <2>2. k \notin D BY <1>4, <2>1
  <2> QED BY <2>1, <2>2
<1>7. n <= Len(j)
  <2>1. SUFFICES ASSUME n > Len(j) PROVE FALSE BY <1>1, <1>5
  <2>2. n = Len(j) + 1
    <3>1. SUFFICES ASSUME n # Len(j) + 1 PROVE FALSE OBVIOUS
    <3>2. n - 1 \in 1..(n - 1) /\ n - 1 > Len(j) BY <1>1, <1>5, <2>1, <3>1
    <3> QED BY <1>6, <3>2
  <2>3. Len(j) <= Len(i) /\ \A k \in 1..Len(j) : j[k] = i[k] BY <1>1, <1>5, <1>6, <2>2
  <2>4. IsPrefix(j, i) BY <1>1, <2>3, PrefixIs
  <2> QED BY <1>2, <2>4
<1>8. i[n] # j[n] BY <1>1, <1>4, <1>5, <1>7
<1>9. n \in 1..Len(j) BY <1>1, <1>5, <1>7
<1>10. Parts(i, j, n) BY <1>5, <1>6, <1>8, <1>9 DEF Parts
<1> QED BY <1>5, <1>10

\* The order of a sequence of names up to each: where they part.
LEMMA PrecedesIs ==
    ASSUME NEW t, NEW S, NEW i \in Seq(Nat), NEW j \in Seq(Nat), NEW n \in Nat, Parts(i, j, n)
    PROVE  /\ Precedes(t, S, i, j) <=> Siblings(t, S, SubSeq(i, 1, n), SubSeq(j, 1, n))
           /\ SubSeq(i, 1, n) \in Seq(Nat) /\ SubSeq(j, 1, n) \in Seq(Nat)
           /\ Last(SubSeq(i, 1, n)) = i[n] /\ Last(SubSeq(j, 1, n)) = j[n]
<1>1. n = Min({m \in 1..Len(i) : m > Len(j) \/ i[m] # j[m]}) /\ i # j BY Comes
<1>2. Precedes(t, S, i, j) <=> Siblings(t, S, SubSeq(i, 1, n), SubSeq(j, 1, n))
  BY <1>1, Zenon DEF Precedes
<1>3. n \in 0..Len(i) /\ n \in 0..Len(j) /\ n \in 1..n BY DEF Parts
<1>4. ASSUME NEW x \in Seq(Nat), n \in 0..Len(x) PROVE SubSeq(x, 1, n) \in Seq(Nat) /\ Last(SubSeq(x, 1, n)) = x[n]
  <2> DEFINE q == SubSeq(x, 1, n)
  <2>1. q \in Seq(Nat) /\ Len(q) = n /\ \A k \in 1..n : q[k] = x[k] BY <1>4, BeginningIs
  <2> HIDE DEF q
  <2>2. Last(q) = x[n] BY <1>3, <2>1 DEF Last
  <2> QED BY <2>1, <2>2 DEF q
<1> QED BY <1>2, <1>3, <1>4

\* Two that agree up to n are one up to n.
LEMMA SameBeginning ==
    ASSUME NEW i \in Seq(Nat), NEW j \in Seq(Nat), NEW n \in Nat, n <= Len(i), n <= Len(j),
           \A k \in 1..n : i[k] = j[k]
    PROVE  SubSeq(i, 1, n) = SubSeq(j, 1, n)
<1>1. n \in 0..Len(i) /\ n \in 0..Len(j) OBVIOUS
<1> DEFINE a == SubSeq(i, 1, n)  b == SubSeq(j, 1, n)
<1>2. a \in Seq(Nat) /\ Len(a) = n /\ \A k \in 1..n : a[k] = i[k] BY <1>1, BeginningIs
<1>3. b \in Seq(Nat) /\ Len(b) = n /\ \A k \in 1..n : b[k] = j[k] BY <1>1, BeginningIs
<1> HIDE DEF a, b
<1>4. a = b BY <1>2, <1>3, SameSequence
<1> QED BY <1>4 DEF a, b

\* Precedes is a total order of the documents of a record.
LEMMA PrecedesOrders ==
    ASSUME NEW t, LegibleRecord(t), ~Untidy(t), NEW S \in SUBSET Concepts(t)
    PROVE  Orders({ij \in S \X S : Precedes(t, Concepts(t), ij[1], ij[2])}, S)
<1> DEFINE C == Concepts(t)
           P(i, j) == Precedes(t, C, i, j)
           R == {ij \in S \X S : P(ij[1], ij[2])}
           o(x) == OrderOf(t, C, x)
<1>1. \A i \in S : i \in C /\ i \in Ids /\ i \in Seq(Nat) BY SurfacesAssumption DEF Concepts
<1>2. \A i, j \in S : <<i, j>> \in R <=> P(i, j) OBVIOUS
<1>3. \A x : o(x) \in Nat
  <2>1. C \in SUBSET Ids BY DEF Concepts
  <2> QED BY <2>1, OrderIs
<1>4. \A x, y : Siblings(t, C, x, y) <=> o(x) < o(y) \/ (o(x) = o(y) /\ Last(x) < Last(y)) BY DEF Siblings
<1>5. \A i \in S : ~P(i, i) BY DEF Precedes
<1> HIDE DEF o, P
<1>6. ASSUME NEW i \in S, NEW j \in S, NEW n \in Nat, Parts(i, j, n)
      PROVE  LET a == SubSeq(i, 1, n)  b == SubSeq(j, 1, n)
             IN  P(i, j) <=> o(a) < o(b) \/ (o(a) = o(b) /\ i[n] < j[n])
  <2> DEFINE a == SubSeq(i, 1, n)  b == SubSeq(j, 1, n)
  <2> HIDE DEF C
  <2>1. i \in Seq(Nat) /\ j \in Seq(Nat) BY <1>1
  <2>2. P(i, j) <=> Siblings(t, C, a, b) BY <1>6, <2>1, PrecedesIs DEF P
  <2>3. Last(a) = i[n] /\ Last(b) = j[n] BY <1>6, <2>1, PrecedesIs
  <2> HIDE DEF a, b
  <2>4. Siblings(t, C, a, b) <=> o(a) < o(b) \/ (o(a) = o(b) /\ Last(a) < Last(b)) BY <1>4
  <2> QED BY <2>2, <2>3, <2>4 DEF a, b
<1>7. ASSUME NEW i \in S, NEW j \in S, i # j PROVE P(i, j) \/ P(j, i)
  <2>1. PICK n \in Nat : Parts(i, j, n) BY <1>1, <1>7, PartSomewhere
  <2>2. Parts(j, i, n) BY <2>1 DEF Parts
  <2>3. i[n] \in Nat /\ j[n] \in Nat /\ i[n] # j[n] BY <1>1, <2>1 DEF Parts
  <2> DEFINE a == SubSeq(i, 1, n)  b == SubSeq(j, 1, n)
  <2>4. P(i, j) <=> o(a) < o(b) \/ (o(a) = o(b) /\ i[n] < j[n]) BY <1>6, <2>1
  <2>5. P(j, i) <=> o(b) < o(a) \/ (o(b) = o(a) /\ j[n] < i[n]) BY <1>6, <2>2
  <2>6. o(a) \in Nat /\ o(b) \in Nat BY <1>3
  <2> HIDE DEF a, b
  <2> QED BY <2>3, <2>4, <2>5, <2>6
<1>8. ASSUME NEW i \in S, NEW j \in S, NEW k \in S, P(i, j), P(j, k) PROVE P(i, k)
  <2>1. i # j /\ j # k BY <1>5, <1>8
  <2>2. PICK n \in Nat : Parts(i, j, n) BY <1>1, <2>1, PartSomewhere
  <2>3. PICK m \in Nat : Parts(j, k, m) BY <1>1, <2>1, PartSomewhere
  <2>4. i \in Seq(Nat) /\ j \in Seq(Nat) /\ k \in Seq(Nat) /\ Len(i) \in Nat /\ Len(j) \in Nat /\ Len(k) \in Nat
    BY <1>1
  <2>5. CASE n < m
    <3>1. Parts(i, k, n)
      <4>1. n \in 1..(m - 1) BY <2>2, <2>4, <2>5 DEF Parts
      <4>2. n <= Len(k) /\ k[n] = j[n] BY <2>3, <2>4, <4>1 DEF Parts
      <4>3. \A l \in 1..(n - 1) : l \in 1..(m - 1) BY <2>5
      <4> QED BY <2>2, <2>3, <2>4, <4>1, <4>2, <4>3 DEF Parts
    <3>2. SubSeq(j, 1, n) = SubSeq(k, 1, n)
      <4>1. n <= Len(j) /\ n <= Len(k) BY <2>2, <2>4, <3>1 DEF Parts
      <4>2. \A l \in 1..n : l \in 1..(m - 1) BY <2>5
      <4>3. \A l \in 1..n : j[l] = k[l] BY <2>3, <4>2 DEF Parts
      <4> QED BY <2>4, <4>1, <4>3, SameBeginning
    <3>3. j[n] = k[n]
      <4>1. n \in 1..(m - 1) BY <2>2, <2>4, <2>5 DEF Parts
      <4> QED BY <2>3, <4>1 DEF Parts
    <3> DEFINE a == SubSeq(i, 1, n)  b == SubSeq(j, 1, n)  c == SubSeq(k, 1, n)
    <3>4. P(i, j) <=> o(a) < o(b) \/ (o(a) = o(b) /\ i[n] < j[n]) BY <1>6, <2>2
    <3>5. P(i, k) <=> o(a) < o(c) \/ (o(a) = o(c) /\ i[n] < k[n]) BY <1>6, <3>1
    <3> HIDE DEF a, b, c
    <3> QED BY <1>8, <3>2, <3>3, <3>4, <3>5 DEF b, c
  <2>6. CASE m < n
    <3>1. Parts(i, k, m)
      <4>1. m \in 1..(n - 1) BY <2>3, <2>4, <2>6 DEF Parts
      <4>2. m <= Len(i) /\ i[m] = j[m] BY <2>2, <2>4, <4>1 DEF Parts
      <4>3. \A l \in 1..(m - 1) : l \in 1..(n - 1) BY <2>6
      <4> QED BY <2>2, <2>3, <2>4, <4>1, <4>2, <4>3 DEF Parts
    <3>2. SubSeq(i, 1, m) = SubSeq(j, 1, m)
      <4>1. m <= Len(i) /\ m <= Len(j) BY <2>3, <2>4, <3>1 DEF Parts
      <4>2. \A l \in 1..m : l \in 1..(n - 1) BY <2>6
      <4>3. \A l \in 1..m : i[l] = j[l] BY <2>2, <4>2 DEF Parts
      <4> QED BY <2>4, <4>1, <4>3, SameBeginning
    <3>3. i[m] = j[m]
      <4>1. m \in 1..(n - 1) BY <2>3, <2>4, <2>6 DEF Parts
      <4> QED BY <2>2, <4>1 DEF Parts
    <3> DEFINE a == SubSeq(i, 1, m)  b == SubSeq(j, 1, m)  c == SubSeq(k, 1, m)
    <3>4. P(j, k) <=> o(b) < o(c) \/ (o(b) = o(c) /\ j[m] < k[m]) BY <1>6, <2>3
    <3>5. P(i, k) <=> o(a) < o(c) \/ (o(a) = o(c) /\ i[m] < k[m]) BY <1>6, <3>1
    <3> HIDE DEF a, b, c
    <3> QED BY <1>8, <3>2, <3>3, <3>4, <3>5 DEF a, b
  <2>7. CASE n = m
    <3> DEFINE a == SubSeq(i, 1, n)  b == SubSeq(j, 1, n)  c == SubSeq(k, 1, n)
    <3>1. P(i, j) <=> o(a) < o(b) \/ (o(a) = o(b) /\ i[n] < j[n]) BY <1>6, <2>2
    <3>2. P(j, k) <=> o(b) < o(c) \/ (o(b) = o(c) /\ j[n] < k[n]) BY <1>6, <2>3, <2>7
    <3>3. o(a) \in Nat /\ o(b) \in Nat /\ o(c) \in Nat BY <1>3
    <3>4. /\ n \in 1..Len(i) /\ n \in 1..Len(j) /\ n \in 1..Len(k)
          /\ i[n] \in Nat /\ j[n] \in Nat /\ k[n] \in Nat
      <4>1. n \in 1..Len(i) /\ n \in 1..Len(j) BY <2>2 DEF Parts
      <4>2. n \in 1..Len(k) BY <2>3, <2>7 DEF Parts
      <4>3. \A x \in Seq(Nat) : n \in 1..Len(x) => x[n] \in Nat OBVIOUS
      <4> QED BY <2>4, <4>1, <4>2, <4>3
    <3>5. \A l \in 1..(n - 1) : i[l] = k[l] BY <2>2, <2>3, <2>7 DEF Parts
    <3>6. i[n] # k[n]
      <4>1. SUFFICES ASSUME i[n] = k[n] PROVE FALSE OBVIOUS
      <4>2. n <= Len(i) /\ n <= Len(k) /\ \A l \in 1..n : l = n \/ l \in 1..(n - 1) BY <2>4, <3>4
      <4>3. \A l \in 1..n : i[l] = k[l] BY <3>5, <4>1, <4>2
      <4>4. a = c BY <2>4, <4>2, <4>3, SameBeginning
      <4> HIDE DEF a, b, c
      <4> QED BY <1>8, <3>1, <3>2, <3>3, <3>4, <4>1, <4>4
    <3>7. Parts(i, k, n) BY <3>4, <3>5, <3>6 DEF Parts
    <3>8. P(i, k) <=> o(a) < o(c) \/ (o(a) = o(c) /\ i[n] < k[n]) BY <1>6, <3>7
    <3> HIDE DEF a, b, c
    <3> QED BY <1>8, <3>1, <3>2, <3>3, <3>4, <3>8
  <2>8. n < m \/ m < n \/ n = m OBVIOUS
  <2> QED BY <2>5, <2>6, <2>7, <2>8
<1> HIDE DEF R
<1>9. Orders(R, S) BY <1>2, <1>5, <1>7, <1>8 DEF Orders
<1> QED BY <1>9 DEF R, P

\* What is listed for an agent is listed as the site lists it.
LEMMA OutlineFollows ==
    ASSUME SurfacesInv, served # NotBuilt, NEW S \in SUBSET Concepts(served.of), NEW kept, S \subseteq kept,
           kept \subseteq Concepts(served.of)
    PROVE  LET told == Outline(S)
           IN  \A a, b \in 1..Len(told) :
                 (a < b /\ Front(told[a]) = Front(told[b])) =>
                   Siblings(served.of, kept, told[a], told[b])
<1> DEFINE t == served.of
           C == Concepts(t)
           R == {ij \in S \X S : Precedes(t, C, ij[1], ij[2])}
           told == Outline(S)
<1>1. LegibleRecord(t) /\ ~Untidy(t) BY DEF SurfacesInv, DoorInv
<1>2. told = InOrder(S, R) BY DEF Outline
<1>3. \A i, j : <<i, j>> \in R => Precedes(t, C, i, j) OBVIOUS
<1>4. Orders(R, S) BY <1>1, PrecedesOrders
<1>5. IsFiniteSet(S)
  <2>1. S \in SUBSET Ids BY DEF Concepts
  <2> QED BY <2>1, SurfacesAssumption, FS_Subset
<1>6. \A i \in S : i \in C /\ i \in kept /\ i \in Ids BY DEF Concepts
<1> HIDE DEF t, C, R, told
<1>7. /\ told \in Seq(S)
      /\ \A a, b \in 1..Len(told) : a < b => <<told[a], told[b]>> \in R
  BY <1>2, <1>4, <1>5, Lists
<1>8. ASSUME NEW a \in 1..Len(told), NEW b \in 1..Len(told), a < b, Front(told[a]) = Front(told[b])
      PROVE  Siblings(t, kept, told[a], told[b])
  <2> DEFINE i == told[a]
             j == told[b]
  <2>1. i \in S /\ j \in S /\ Precedes(t, C, i, j)
    <3>1. \A k \in 1..Len(told) : told[k] \in S BY <1>7
    <3>2. <<told[a], told[b]>> \in R BY <1>7, <1>8
    <3> QED BY <1>3, <3>1, <3>2
  <2>2. Front(i) = Front(j) BY <1>8
  <2> HIDE DEF i, j
  <2>3. i \in Seq(Nat) /\ i # <<>> /\ j \in Seq(Nat) /\ j # <<>> BY <1>6, <2>1, SurfacesAssumption
  <2>4. i # j BY <2>1 DEF Precedes
  <2>5. PICK n \in Nat : Parts(i, j, n) BY <1>1, <1>6, <2>1, <2>4, PartSomewhere DEF C
  <2>6. /\ Len(i) \in Nat \ {0} /\ Len(Front(i)) = Len(i) - 1
        /\ \A k \in 1..(Len(i) - 1) : Front(i)[k] = i[k]
    BY <2>3, FrontIs
  <2>7. /\ Len(j) \in Nat \ {0} /\ Len(Front(j)) = Len(j) - 1
        /\ \A k \in 1..(Len(j) - 1) : Front(j)[k] = j[k]
    BY <2>3, FrontIs
  <2>8. Len(i) = Len(j) BY <2>2, <2>6, <2>7
  <2>9. n = Len(i)
    <3>1. SUFFICES ASSUME n # Len(i) PROVE FALSE OBVIOUS
    <3>2. n \in 1..(Len(i) - 1) BY <2>5, <2>6, <3>1 DEF Parts
    <3>3. i[n] = j[n] BY <2>2, <2>6, <2>7, <2>8, <3>2
    <3> QED BY <2>5, <3>3 DEF Parts
  <2>10. ASSUME NEW x \in Seq(Nat), Len(x) = n PROVE SubSeq(x, 1, n) = x
    <3> DEFINE q == SubSeq(x, 1, n)
    <3>1. n \in 0..Len(x) BY <2>10
    <3>2. q \in Seq(Nat) /\ Len(q) = n /\ \A k \in 1..n : q[k] = x[k] BY <3>1, BeginningIs
    <3> HIDE DEF q
    <3>3. q = x BY <2>10, <3>2, SameSequence
    <3> QED BY <3>3 DEF q
  <2>11. SubSeq(i, 1, n) = i /\ SubSeq(j, 1, n) = j BY <2>3, <2>8, <2>9, <2>10
  <2>12. Siblings(t, C, i, j)
    <3>1. Precedes(t, C, i, j) <=> Siblings(t, C, SubSeq(i, 1, n), SubSeq(j, 1, n))
      BY <2>3, <2>5, PrecedesIs
    <3>2. Precedes(t, C, i, j) BY <2>1
    <3> QED BY <2>11, <3>1, <3>2
  <2>13. OrderOf(t, C, i) = OrderOf(t, kept, i) /\ OrderOf(t, C, j) = OrderOf(t, kept, j)
    BY <1>6, <2>1 DEF OrderOf
  <2>14. Siblings(t, kept, i, j) BY <2>12, <2>13 DEF Siblings
  <2> QED BY <2>14 DEF i, j
<1> QED BY <1>8 DEF t, told

\* From what was built to what the surfaces say.
LEMMA OneVoiceFollows == SurfacesInv => OneVoice
<1> SUFFICES ASSUME SurfacesInv PROVE OneVoice
  OBVIOUS
<1>1. ASSUME site # NotBuilt
      PROVE  /\ MachinePages(site) = {i \in DOMAIN site.pages : site.pages[i].badge = Unsaid}
             /\ DOMAIN site.pages \in SUBSET Concepts(site.of)
             /\ MachinePages(site) = {i \in DOMAIN site.pages : Current(site.of[i], site.asOf)}
             /\ \A at \in Nat :
                  {i \in DOMAIN site.pages : Current(site.of[i], at)} =
                    {i \in Concepts(site.of) :
                       /\ ~TakenDown(site.under, i) /\ Overlaps(site.viewer, site.of[i].aud)
                       /\ Current(site.of[i], at)}
  <2>1. SiteInv(site) BY DEF SurfacesInv
  <2> QED BY <1>1, <2>1, PagesAre
<1>2. ASSUME site # NotBuilt, lockfile # NotBuilt, NEW v \in DOMAIN lockfile.bundles,
             site.of = lockfile.of, site.under = lockfile.denied, site.asOf = lockfile.asOf,
             site.viewer = {"public", v}
      PROVE  /\ lockfile.bundles[v].held = MachinePages(site)
             /\ lockfile.bundles[v].indexes[<<>>] = RootTwin(site)
  <2> DEFINE t == lockfile.of
             viewer == {"public", v}
             held == AdmittedTo(viewer, t, lockfile.denied, lockfile.asOf)
  <2>1. /\ LegibleRecord(t) /\ lockfile.asOf \in Nat
        /\ lockfile.bundles = Bundles(t, lockfile.charter, lockfile.denied, lockfile.asOf)
    BY <1>2 DEF SurfacesInv, LockfileInv
  <2>2. v \in DOMAIN CanonicalViewers(lockfile.charter) BY <1>2, <2>1 DEF Bundles
  <2>3. CanonicalViewers(lockfile.charter)[v] = viewer BY <2>2 DEF CanonicalViewers
  <2>4. lockfile.bundles[v] = Bundle(viewer, t, lockfile.denied, lockfile.asOf)
    BY <2>1, <2>2, <2>3 DEF Bundles
  <2>5. lockfile.bundles[v].held = held /\ lockfile.bundles[v].indexes = Indexes(t, held)
    BY <2>4 DEF Bundle
  <2>6. \A i \in Concepts(t) :
          AdmitsLifecycle(t[i], "machine", lockfile.asOf, FALSE) <=> Current(t[i], lockfile.asOf)
    <3>1. \A i \in Concepts(t) : Legible(t[i]) BY <2>1 DEF LegibleRecord, Concepts
    <3> QED BY <2>1, <3>1, BadgeIs
  <2>7. held = {i \in Concepts(t) : /\ ~TakenDown(lockfile.denied, i) /\ Overlaps(viewer, t[i].aud)
                                    /\ Current(t[i], lockfile.asOf)}
    BY <2>6 DEF AdmittedTo
  <2> HIDE DEF held
  <2>8. MachinePages(site) = {i \in Concepts(t) : /\ ~TakenDown(lockfile.denied, i)
                                                  /\ Overlaps(viewer, t[i].aud)
                                                  /\ Current(t[i], lockfile.asOf)}
    
    <3>1. MachinePages(site) = {i \in DOMAIN site.pages : Current(t[i], lockfile.asOf)} BY <1>1, <1>2
    <3>2. {i \in DOMAIN site.pages : Current(site.of[i], site.asOf)} =
            {i \in Concepts(site.of) : /\ ~TakenDown(site.under, i) /\ Overlaps(site.viewer, site.of[i].aud)
                                       /\ Current(site.of[i], site.asOf)}
      BY <1>1, <1>2, <2>1
    <3> HIDE DEF t, viewer
    <3>3. site.of = t /\ site.viewer = viewer /\ site.under = lockfile.denied /\ site.asOf = lockfile.asOf
      BY <1>2 DEF t, viewer
    <3> QED BY <3>1, <3>2, <3>3
  <2>9. held = MachinePages(site) BY <2>7, <2>8
  <2>10. Indexes(t, held)[<<>>] = Listing(t, held, <<>>) BY DEF Indexes
  <2> QED BY <1>2, <2>5, <2>9, <2>10 DEF RootTwin
<1>3. ASSUME SameRecord, deniedRows = {[at |-> e.at, scope |-> e.scope] : e \in site.under}
      PROVE  LET said == AdmittedAtDoor(site.viewer, 0)
                 told == Outline(said)
             IN  /\ said = {i \in DOMAIN site.pages : Badge(site.of[i], hour) = Unsaid}
                 /\ Sections(said) \subseteq DOMAIN site.indexes
                 /\ \A a, b \in 1..Len(told) :
                      (a < b /\ Front(told[a]) = Front(told[b])) =>
                        Siblings(site.of, DOMAIN site.pages, told[a], told[b])
  <2> DEFINE t == site.of
             kept == DOMAIN site.pages
             said == AdmittedAtDoor(site.viewer, 0)
  <2>1. site # NotBuilt /\ served # NotBuilt /\ served.of = t BY <1>3 DEF SameRecord
  <2>2. LegibleRecord(t) /\ hour \in Nat /\ site.under \subseteq Withdrawals /\ site.indexes = Indexes(t, kept)
    BY <2>1 DEF SurfacesInv, SiteInv
  <2>3. kept \in SUBSET Concepts(t) /\ Concepts(t) \in SUBSET Ids BY <1>1, <2>1 DEF Concepts
  <2>4. \A i \in Concepts(t) : Legible(t[i]) /\ 0 <= t[i].tier
    <3>1. \A i \in Concepts(t) : Legible(t[i]) BY <2>2, <2>3 DEF LegibleRecord
    <3> QED BY <3>1 DEF Legible
  <2>5. \A i \in Ids : DeniedNode(i) <=> TakenDown(site.under, i) BY <1>3, <2>2, RowsDeny
  <2> HIDE DEF t, kept
  <2>6. said = {i \in Concepts(t) : ~TakenDown(site.under, i) /\ Overlaps(site.viewer, t[i].aud)
                                    /\ Current(t[i], hour)}
    BY <2>1, <2>3, <2>4, <2>5 DEF AdmittedAtDoor
  <2>7. said = {i \in kept : Current(t[i], hour)} BY <1>1, <2>1, <2>2, <2>6 DEF t, kept
  <2>8. \A i \in kept : (Badge(t[i], hour) = Unsaid) <=> Current(t[i], hour)
    BY <2>2, <2>3, <2>4, BadgeIs
  <2>9. said = {i \in kept : Badge(t[i], hour) = Unsaid} BY <2>7, <2>8
  <2> HIDE DEF said
  <2>10. Sections(said) \subseteq DOMAIN site.indexes
    <3>1. SUFFICES ASSUME NEW i \in said, NEW dir \in Prefixes(Front(i)), dir # <<>>
                   PROVE  dir \in DOMAIN site.indexes
      BY DEF Sections
    <3>2. i \in kept /\ i \in Ids /\ i \in Seq(Nat) /\ i # <<>> BY <2>3, <2>7, SurfacesAssumption
    <3>3. Len(i) \in Nat \ {0} /\ Front(i) \in Seq(Nat) /\ Len(Front(i)) = Len(i) - 1
          /\ \A k \in 1..(Len(i) - 1) : Front(i)[k] = i[k]
      BY <3>2, FrontIs
    <3>4. PICK n \in 0..Len(Front(i)) : dir = SubSeq(Front(i), 1, n) BY DEF Prefixes
    <3>5. dir \in Seq(Nat) /\ Len(dir) = n /\ \A k \in 1..n : dir[k] = Front(i)[k]
      BY <3>3, <3>4, BeginningIs
    <3>6. n \in Nat /\ n <= Len(i) - 1 /\ n # 0 /\ n \in 1..Len(i) /\ n # Len(i) BY <3>1, <3>3, <3>4
    <3>7. \A k \in 1..n : k \in 1..(Len(i) - 1) BY <3>3, <3>6
    <3>8. \A k \in 1..n : dir[k] = i[k] BY <3>3, <3>5, <3>7
    <3>9. dir = SubSeq(i, 1, n)
      <4> DEFINE q == SubSeq(i, 1, n)
      <4>1. n \in 0..Len(i) BY <3>6
      <4>2. q \in Seq(Nat) /\ Len(q) = n /\ \A k \in 1..n : q[k] = i[k] BY <3>2, <4>1, BeginningIs
      <4> HIDE DEF q
      <4>3. dir = q BY <3>5, <3>8, <4>2, SameSequence
      <4> QED BY <4>3 DEF q
    <3>10. dir \in Dirs BY <3>2, <3>6, <3>9, SurfacesAssumption
    <3>11. IsPrefix(dir, i) /\ dir # i
      <4>1. Len(dir) <= Len(i) BY <3>3, <3>5, <3>6
      <4>2. IsPrefix(dir, i) BY <3>2, <3>5, <3>8, <4>1, PrefixIs
      <4> QED BY <3>3, <3>5, <3>6, <4>2
    <3>12. Populated(kept, dir) BY <3>2, <3>11 DEF Populated, IsStrictPrefix
    <3> QED BY <2>2, <3>10, <3>12 DEF Indexes
  <2>11. said \in SUBSET Concepts(served.of) /\ said \subseteq kept /\ kept \subseteq Concepts(served.of)
    BY <2>1, <2>3, <2>7
  <2>12. LET told == Outline(said)
         IN  \A a, b \in 1..Len(told) :
               (a < b /\ Front(told[a]) = Front(told[b])) =>
                 Siblings(served.of, kept, told[a], told[b])
    BY <2>1, <2>11, OutlineFollows
  <2> QED BY <2>1, <2>9, <2>10, <2>12 DEF t, kept, said
<1> QED BY <1>1, <1>2, <1>3 DEF OneVoice

\* One record under the same denials has one answer, whoever gives it: the site's
\* pages without a badge are what the door admits and a machine is shown, in one
\* order, within the folders that are listed.
THEOREM OneVoiceHolds == SurfacesSpec => []OneVoice
<1>1. SurfacesInv /\ [SurfacesNext]_surfaceVars => SurfacesInv' BY SurfacesInvStep
<1> QED BY <1>1, SurfacesInvInit, OneVoiceFollows, PTL DEF SurfacesSpec

-----------------------------------------------------------------------------
(* Migrate. *)

\* The directory as it was, and where its documents are to be.
Origin == first.papers
AtLast == {Target(Origin, r) : r \in Walked(Origin)}

\* What a run makes of a document.
Made(d, x) == \E o \in Options : x = Concept(d, first.inst, o)

\* A name has the document it had, or nothing any more because the overview has its
\* text, or what a run made of the document that belongs there.
PapersInv(t) ==
    /\ t = [s \in DOMAIN Origin |-> t[s]]
    /\ \A s \in DOMAIN Origin :
         \/ t[s] = Origin[s]
         \/ /\ s \in Reserved /\ t[s] \in {Missing, GeneratedIndex}
            /\ Prose(Origin, s) => t["overview"].text = Origin[s].text
         \/ \E r \in Walked(Origin) :
              /\ Target(Origin, r) = s /\ Made(Origin[r], t[s])
              /\ r # s => ~Present(Origin[s])

\* An instance is what it was, or of the profile's format.
InstInv(i) == i = first.inst \/ (i.format = 2 /\ i.database = first.inst.database)

\* Something in the ledger holds what is at a name.
Holds(l, s) == \E e \in l.entries : e.sid = s \/ (e.sid = Section /\ e.scope = "subtree")

\* The acts are there, what was transcribed agrees with where the documents are to be, and
\* where a name that loses its prose is accounted for, the overview is held.
LedgerInv(l) ==
    /\ acts \subseteq l.entries
    /\ \A e \in l.entries : e.sid = Section => e.scope = "subtree"
    /\ \A e \in l.entries \ acts :
         e.expected = "present" <=> (e.sid = Section \/ e.sid \in AtLast)

RowsAreRead == \A o \in Options : o.dsn # "unset"
HoldInv(t, l) ==
    RowsAreRead =>
      /\ \A s \in Reserved : Prose(Origin, s) /\ s \in Accounted(l) => Holds(l, "overview")
      /\ \A r \in denyRows :
           r.sid \in Reserved /\ Prose(Origin, r.sid) /\ t[r.sid] # Origin[r.sid] =>
             r.sid \in Accounted(l)

RootInv(w) == w = [f \in RootFiles |-> w[f]]

CheckoutInv(c) ==
    /\ PapersInv(c.papers) /\ InstInv(c.inst) /\ LedgerInv(c.takedowns) /\ RootInv(c.root)
    /\ HoldInv(c.papers, c.takedowns)

\* Where a run is that loaded c and has these files left to write: it was not declined, each
\* file is as it was or as it was planned, the instance is the last to change, and no
\* reserved name is emptied before the ledger and the overview are written.
Midway(c, left) ==
    /\ CheckoutInv(c) /\ opts \in Options /\ ~Declined(c, opts) /\ plan = PlanFor(c, opts)
    /\ papers = [s \in DOMAIN Origin |-> IF s \in left THEN c.papers[s] ELSE plan.papers[s]]
    /\ inst = IF "instance" \in left THEN c.inst ELSE plan.inst
    /\ takedowns = IF "ledger" \in left THEN c.takedowns ELSE plan.takedowns
    /\ policy = IF "policy" \in left THEN c.policy ELSE plan.policy
    /\ root = [f \in RootFiles |-> IF f \in left THEN c.root[f] ELSE plan.root[f]]
    /\ left # {} => inst = c.inst
    /\ \A s \in Reserved : papers[s] # c.papers[s] =>
         takedowns = plan.takedowns /\ papers["overview"] = plan.papers["overview"]

Started ==
    /\ first.papers \in Directories /\ first.inst \in Insts /\ denyRows \in Denied
    /\ denyRows # {} => first.inst.database

MigrateInv ==
    /\ Started /\ CheckoutInv(WorkingCopy)
    /\ todo # {} => outcome = "writing" /\ \E c : Midway(c, todo)
    /\ outcome = "writing" => todo # {}
    /\ outcome = "stopped" => todo = {} /\ \E c, left : left # {} /\ Midway(c, left)
    /\ outcome = "done" => todo = {} /\ \E c : Midway(c, {})

-----------------------------------------------------------------------------
\* The directory a record begins with.
LEMMA OriginIs ==
    ASSUME Started
    PROVE  /\ Origin = [s \in DOMAIN Origin |-> Origin[s]]
           /\ \A s \in DOMAIN Origin : Document(Origin[s])
           /\ "index" \in DOMAIN Origin /\ "README" \in DOMAIN Origin
           /\ "overview" \in DOMAIN Origin
           /\ \A s \in DOMAIN Origin : s \notin RootFiles /\ s # "instance" /\ s # "ledger"
                                       /\ s # "policy" /\ s # Section
           /\ \A r, s \in Walked(Origin) : Origin[r].text = Origin[s].text => r = s
           /\ \A s \in Reserved : ~Profile(Origin[s])
BY MigrateAssumption DEF Started, Origin, Reserved

\* Somebody can read whatever is expanded.
LEMMA ExpandIsSome ==
    ASSUME NEW i \in Insts, NEW vis
    PROVE  Expand(i, vis) # {}
<1> DEFINE declared == IF vis # NoValue THEN vis ELSE i.default
           tier == IF declared = NoValue THEN i.tiers[1] ELSE declared
           at == {k \in DOMAIN i.tiers : i.tiers[k] = tier}
           up == {i.tiers[j] : j \in {k \in DOMAIN i.tiers : \E a \in at : a <= k}}
<1>1. CASE i.tiers = <<>> BY <1>1 DEF Expand
<1>2. CASE i.tiers # <<>>
  <2>1. Expand(i, vis) = IF at = {} THEN {tier} ELSE up BY <1>2 DEF Expand
  <2>2. at # {} => up # {}
    <3>1. SUFFICES ASSUME NEW a \in at PROVE i.tiers[a] \in up
      OBVIOUS
    <3>2. a \in DOMAIN i.tiers /\ a <= a BY MigrateAssumption
    <3> QED BY <3>2
  <2> QED BY <2>1, <2>2
<1> QED BY <1>1, <1>2

\* What is made of a document: the text stays, its readers are those it had, an approval
\* stays, and it is of the profile.
LEMMA ConceptIs ==
    ASSUME NEW d, Document(d), NEW i \in Insts, NEW o
    PROVE  LET x == Concept(d, i, o)
           IN  /\ Profile(x) /\ x.text = d.text
               /\ x.aud = (IF d.aud # {} THEN d.aud ELSE Expand(i, d.vis))
               /\ x.ksup \in {d.sup, d.ksup}
               /\ d.appr # NoValue => x.appr = d.appr
<1>1. CASE Profile(d) BY <1>1 DEF Concept, Profile
<1>2. CASE ~Profile(d)
  <2> DEFINE x == Concept(d, i, o)
             aud == IF d.aud # {} THEN d.aud ELSE Expand(i, d.vis)
             ksup == IF d.sup # NoValue THEN d.sup ELSE d.ksup
             appr == IF NewStatus(d, o) = "stable" /\ d.appr = NoValue THEN o.approve ELSE d.appr
  <2>1. x = [d EXCEPT !.aud = aud, !.status = NewStatus(d, o), !.vis = NoValue,
                      !.sup = NoValue, !.legacy = FALSE, !.ksup = ksup, !.appr = appr]
    BY <1>2 DEF Concept
  <2>2. aud # {} BY ExpandIsSome
  <2> HIDE DEF aud, appr, ksup
  <2>3. /\ x.text = d.text /\ x.aud = aud /\ x.vis = NoValue /\ x.sup = NoValue
        /\ x.legacy = FALSE /\ x.ksup = ksup /\ x.appr = appr
    <3> HIDE DEF x
    <3> QED BY <2>1 DEF Document
  <2>4. Profile(x) BY <2>2, <2>3 DEF Profile
  <2>5. ksup \in {d.sup, d.ksup} BY DEF ksup
  <2>6. d.appr # NoValue => appr = d.appr BY DEF appr
  <2> HIDE DEF x
  <2> QED BY <2>3, <2>4, <2>5, <2>6 DEF x, aud
<1> QED BY <1>1, <1>2

\* A document of the profile is left as it is.
LEMMA ProfileStays ==
    ASSUME NEW d, Profile(d), NEW i, NEW o
    PROVE  Concept(d, i, o) = d /\ ~Underivable(d, i, o) /\ ~Demoted(d, o)
BY DEF Concept, Underivable, Demoted

\* A run that is not declined makes of a document what the first instance says.
LEMMA ConceptMade ==
    ASSUME Started, NEW d, NEW i, InstInv(i), NEW o \in Options, ~Underivable(d, i, o)
    PROVE  Concept(d, i, o) = Concept(d, first.inst, o)
<1>1. CASE Profile(d) BY <1>1, ProfileStays
<1>2. CASE ~Profile(d) /\ d.aud # {} BY <1>2 DEF Concept
<1>3. CASE ~Profile(d) /\ d.aud = {}
  <2>1. i.format # 2 BY <1>3 DEF Underivable, Forgotten
  <2> QED BY <2>1 DEF InstInv
<1> QED BY <1>1, <1>2, <1>3

-----------------------------------------------------------------------------
(* What a name has. *)

\* A reserved name has what it had, or nothing that counts once the overview has its text.
LEMMA ReservedIs ==
    ASSUME Started, NEW t, PapersInv(t), NEW s \in Reserved
    PROVE  /\ t[s] = Origin[s] \/ t[s] \in {Missing, GeneratedIndex}
           /\ ~Profile(t[s])
           /\ Prose(t, s) => t[s] = Origin[s] /\ Prose(Origin, s)
           /\ Prose(Origin, s) /\ t[s] # Origin[s] =>
                t["overview"].text = Origin[s].text /\ ~Prose(t, s)
<1>1. s \in DOMAIN Origin BY OriginIs DEF Reserved
<1>2. \A r \in Walked(Origin) : Target(Origin, r) # s
  <2> SUFFICES ASSUME NEW r \in Walked(Origin), Target(Origin, r) = s PROVE FALSE
    OBVIOUS
  <2>1. CASE Prose(Origin, r) BY <2>1 DEF Target, Reserved
  <2>2. CASE ~Prose(Origin, r) BY <2>2 DEF Target, Walked, Prose
  <2> QED BY <2>1, <2>2
<1>3. \/ t[s] = Origin[s]
      \/ t[s] \in {Missing, GeneratedIndex}
           /\ (Prose(Origin, s) => t["overview"].text = Origin[s].text)
  BY <1>1, <1>2 DEF PapersInv
<1>4. Missing.text = NoValue /\ Missing.aud = {} /\ GeneratedIndex.text = Generated
      /\ GeneratedIndex.aud = {}
  BY DEF Missing, GeneratedIndex
<1>5. \A x \in {Missing, GeneratedIndex} : ~Profile(x) /\ (t[s] = x => ~Prose(t, s))
  BY <1>4 DEF Profile, Prose, Present
<1>6. ~Profile(Origin[s]) BY OriginIs
<1> QED BY <1>3, <1>5, <1>6 DEF Prose

\* The name whose document is at s, where it counts.
ComesFrom(t, s, r) ==
    /\ r \in Walked(Origin) /\ Target(Origin, r) = Target(t, s) /\ t[s].text = Origin[r].text
    /\ \/ r = s /\ t[s] = Origin[s]
       \/ /\ Profile(t[s]) /\ Made(Origin[r], t[s]) /\ s \notin Reserved /\ Target(Origin, r) = s
          /\ r # s => ~Present(Origin[s])

\* Whatever is at a name comes from some name of the record.
LEMMA WalkedIs ==
    ASSUME Started, NEW t, PapersInv(t), NEW s \in Walked(t)
    PROVE  \E r \in Walked(Origin) : ComesFrom(t, s, r)
<1>1. s \in DOMAIN Origin /\ Present(t[s]) /\ t[s].text # Generated BY DEF Walked, PapersInv
<1>2. CASE t[s] = Origin[s]
  <2>1. s \in Walked(Origin) BY <1>1, <1>2 DEF Walked
  <2>2. Target(Origin, s) = Target(t, s) BY <1>2 DEF Target, Prose
  <2> QED BY <1>2, <2>1, <2>2 DEF ComesFrom
<1>3. CASE s \in Reserved /\ t[s] \in {Missing, GeneratedIndex}
  BY <1>1, <1>3 DEF Missing, GeneratedIndex, Present
<1>4. ASSUME NEW r \in Walked(Origin), Target(Origin, r) = s, Made(Origin[r], t[s]),
             r # s => ~Present(Origin[s])
      PROVE  ComesFrom(t, s, r)
  <2>1. r \in DOMAIN Origin /\ Document(Origin[r]) BY OriginIs DEF Walked
  <2>2. PICK o \in Options : t[s] = Concept(Origin[r], first.inst, o) BY <1>4 DEF Made
  <2>3. Profile(t[s]) /\ t[s].text = Origin[r].text BY <2>1, <2>2, ConceptIs DEF Started
  <2>4. s \notin Reserved BY <2>3, ReservedIs
  <2>5. Target(t, s) = s BY <2>4 DEF Target, Prose
  <2> QED BY <1>4, <2>3, <2>4, <2>5 DEF ComesFrom
<1> QED BY <1>1, <1>2, <1>3, <1>4 DEF PapersInv

\* Whatever has been moved by now, the documents are on their way to the same names.
LEMMA Landing ==
    ASSUME Started, NEW t, PapersInv(t)
    PROVE  {Target(t, s) : s \in Walked(t)} = AtLast
<1>1. ASSUME NEW s \in Walked(t) PROVE Target(t, s) \in AtLast
  BY WalkedIs DEF ComesFrom, AtLast
<1>2. ASSUME NEW r \in Walked(Origin) PROVE \E s \in Walked(t) : Target(t, s) = Target(Origin, r)
  <2>1. r \in DOMAIN Origin /\ Present(Origin[r]) /\ Origin[r].text # Generated
        /\ r \in DOMAIN t /\ "overview" \in DOMAIN t /\ "overview" \notin Reserved
    BY OriginIs DEF Walked, PapersInv, Reserved
  <2>2. CASE t[r] = Origin[r]
    <3>1. r \in Walked(t) BY <2>1, <2>2 DEF Walked
    <3>2. Target(Origin, r) = Target(t, r) BY <2>2 DEF Target, Prose
    <3> QED BY <3>1, <3>2
  <2>3. CASE r \in Reserved /\ t[r] # Origin[r]
    <3>1. Prose(Origin, r) BY <2>1, <2>3 DEF Prose
    <3>2. t["overview"].text = Origin[r].text BY <2>3, <3>1, ReservedIs
    <3>3. "overview" \in Walked(t) BY <2>1, <3>2 DEF Walked, Present
    <3>4. Target(t, "overview") = "overview" BY <2>1 DEF Target, Prose
    <3> QED BY <3>1, <3>3, <3>4 DEF Target
  <2>4. CASE r \notin Reserved /\ t[r] # Origin[r]
    <3>1. PICK q \in Walked(Origin) : Target(Origin, q) = r /\ Made(Origin[q], t[r])
      BY <2>1, <2>4 DEF PapersInv
    <3>2. PICK o \in Options : t[r] = Concept(Origin[q], first.inst, o) BY <3>1 DEF Made
    <3>3. q \in DOMAIN Origin /\ Document(Origin[q]) /\ Present(Origin[q])
          /\ Origin[q].text # Generated
      BY OriginIs DEF Walked
    <3>4. t[r].text = Origin[q].text BY <3>2, <3>3, ConceptIs DEF Started
    <3>5. r \in Walked(t) BY <2>1, <3>3, <3>4 DEF Walked, Present
    <3>6. Target(t, r) = r /\ Target(Origin, r) = r BY <2>4 DEF Target, Prose
    <3> QED BY <3>5, <3>6
  <2> QED BY <2>2, <2>3, <2>4
<1> QED BY <1>1, <1>2 DEF AtLast

\* One document at the most moves.
LEMMA OneMoves ==
    ASSUME NEW t, ~TwoGovern(t)
    PROVE  /\ \A r, s \in Movers(t) : r = s
           /\ Movers(t) # {} => ~Present(t["overview"])
<1>1. Movers(t) \subseteq Reserved BY DEF Movers, Prose
<1>2. ASSUME NEW r \in Movers(t), NEW s \in Movers(t), r # s PROVE FALSE
  <2>1. {r, s} = {"index", "README"} BY <1>1, <1>2 DEF Reserved
  <2>2. Movers(t) = {"index", "README"} BY <1>1, <2>1 DEF Reserved
  <2>3. Cardinality({"index", "README"}) = 2
    <3>1. IsFiniteSet({"README"}) /\ Cardinality({"README"}) = 1 BY FS_Singleton
    <3>2. Cardinality({"README"} \cup {"index"}) = Cardinality({"README"}) + 1
      BY <3>1, FS_AddElement
    <3>3. {"README"} \cup {"index"} = {"index", "README"} OBVIOUS
    <3> QED BY <3>1, <3>2, <3>3
  <2> QED BY <1>2, <2>2, <2>3 DEF TwoGovern
<1> QED BY <1>2 DEF TwoGovern

\* Where fewer move, fewer govern.
LEMMA FewerGovern ==
    ASSUME NEW t, NEW u, ~TwoGovern(t), Movers(u) \subseteq Movers(t),
           Movers(u) # {} => ~Present(u["overview"])
    PROVE  ~TwoGovern(u)
<1>1. Movers(t) \subseteq {"index", "README"} BY DEF Movers, Prose, Reserved
<1>2. IsFiniteSet({"index", "README"})
  <2>1. IsFiniteSet({"README"}) BY FS_Singleton
  <2>2. IsFiniteSet({"README"} \cup {"index"}) BY <2>1, FS_AddElement
  <2>3. {"README"} \cup {"index"} = {"index", "README"} OBVIOUS
  <2> QED BY <2>2, <2>3
<1>3. IsFiniteSet(Movers(t)) BY <1>1, <1>2, FS_Subset
<1>4. /\ Cardinality(Movers(u)) <= Cardinality(Movers(t)) BY <1>3, FS_Subset
<1>5. Cardinality(Movers(t)) \in Nat /\ Cardinality(Movers(u)) \in Nat
  BY <1>3, FS_Subset, FS_CardinalityType
<1>6. Movers(u) # {} => ~(Cardinality(Movers(t)) > 1) BY DEF TwoGovern
<1> QED BY <1>4, <1>5, <1>6 DEF TwoGovern

\* A run may go on with a directory that it derives everything of.
Derives(t, i, o) ==
    /\ PapersInv(t) /\ InstInv(i) /\ o \in Options /\ ~TwoGovern(t)
    /\ \A s \in Walked(t) : ~Underivable(t[s], i, o)

\* A document that is made is of the profile, and as if it were made at first.
LEMMA MadeOf ==
    ASSUME Started, NEW t, NEW i, NEW o, Derives(t, i, o), NEW s \in Walked(t),
           NEW r \in Walked(Origin), ComesFrom(t, s, r)
    PROVE  /\ Profile(Concept(t[s], i, o)) /\ Concept(t[s], i, o).text = t[s].text
           /\ Made(Origin[r], Concept(t[s], i, o))
<1>1. CASE t[s] = Origin[r]
  <2>1. Document(Origin[r]) BY OriginIs DEF Walked
  <2>2. Concept(t[s], i, o) = Concept(Origin[r], first.inst, o)
    BY <1>1, ConceptMade DEF Derives
  <2> QED BY <1>1, <2>1, <2>2, ConceptIs DEF Made, Derives, Started
<1>2. CASE Profile(t[s]) /\ Made(Origin[r], t[s]) BY <1>2, ProfileStays
<1> QED BY <1>1, <1>2 DEF ComesFrom

\* What is planned for a name: nothing where prose leaves, the prose where it comes, what is
\* made of the document there, or what is there.
LEMMA PlannedIs ==
    ASSUME Started, NEW t, NEW i, NEW o, Derives(t, i, o)
    PROVE  LET x == Migrated(t, i, o)
           IN  /\ x = [s \in DOMAIN Origin |-> x[s]]
               /\ \A s \in DOMAIN Origin :
                    \/ Prose(t, s) /\ x[s] = Missing
                    \/ /\ s = "overview" /\ ~Present(t[s])
                       /\ \E m \in Movers(t) : x[s] = Concept(t[m], i, o)
                    \/ /\ s \in Walked(t) /\ s \notin Reserved /\ x[s] = Concept(t[s], i, o)
                       /\ s = "overview" => Movers(t) = {}
                    \/ s \notin Walked(t) /\ x[s] = t[s]
               /\ Movers(t) # {} => \E m \in Movers(t) : x["overview"] = Concept(t[m], i, o)
<1> DEFINE x == Migrated(t, i, o)
           m == CHOOSE r \in Movers(t) : TRUE
<1>1. DOMAIN t = DOMAIN Origin BY DEF Derives, PapersInv
<1>2. x = [s \in DOMAIN Origin |->
             IF Prose(t, s) THEN Missing
             ELSE IF s = "overview" /\ \E r \in Movers(t) : TRUE THEN Concept(t[m], i, o)
             ELSE IF s \in Walked(t) THEN Concept(t[s], i, o) ELSE t[s]]
  BY <1>1 DEF Migrated
<1>3. Movers(t) # {} => m \in Movers(t) OBVIOUS
<1>4. Movers(t) # {} => ~Present(t["overview"]) BY OneMoves DEF Derives
<1>5. "overview" \in DOMAIN Origin /\ ~Prose(t, "overview") BY OriginIs DEF Prose, Reserved
<1>6. \A s \in DOMAIN Origin : s \in Reserved /\ s \in Walked(t) => Prose(t, s)
  BY DEF Walked, Prose
<1>7. \A s \in DOMAIN Origin : s = "overview" /\ Movers(t) # {} => x[s] = Concept(t[m], i, o)
  BY <1>2, <1>5
<1>8. \A s \in DOMAIN Origin : ~(s = "overview" /\ Movers(t) # {}) =>
        x[s] = IF Prose(t, s) THEN Missing
               ELSE IF s \in Walked(t) THEN Concept(t[s], i, o) ELSE t[s]
  BY <1>2
<1>9. x = [s \in DOMAIN Origin |-> x[s]] BY <1>2
<1> HIDE DEF x, m
<1>10. Movers(t) # {} => \E r \in Movers(t) : x["overview"] = Concept(t[r], i, o)
  BY <1>3, <1>5, <1>7
<1>11. ASSUME NEW s \in DOMAIN Origin
       PROVE  \/ Prose(t, s) /\ x[s] = Missing
              \/ /\ s = "overview" /\ ~Present(t[s])
                 /\ \E r \in Movers(t) : x[s] = Concept(t[r], i, o)
              \/ /\ s \in Walked(t) /\ s \notin Reserved /\ x[s] = Concept(t[s], i, o)
                 /\ s = "overview" => Movers(t) = {}
              \/ s \notin Walked(t) /\ x[s] = t[s]
  BY <1>3, <1>4, <1>6, <1>7, <1>8
<1> QED BY <1>9, <1>10, <1>11 DEF x

\* A name that loses its prose loses it to the overview.
LEMMA MoverIs ==
    ASSUME Started, NEW t, NEW i, NEW o, Derives(t, i, o), NEW m \in Movers(t)
    PROVE  /\ m \in Walked(t) /\ m \in Walked(Origin) /\ m \in Reserved /\ ComesFrom(t, m, m)
           /\ Target(Origin, m) = "overview" /\ t[m] = Origin[m]
           /\ Migrated(t, i, o)["overview"] = Concept(t[m], i, o)
<1>1. m \in Reserved /\ Prose(t, m) /\ m \in DOMAIN Origin /\ DOMAIN t = DOMAIN Origin
  BY DEF Movers, Prose, Derives, PapersInv
<1>2. t[m] = Origin[m] /\ Prose(Origin, m) BY <1>1, ReservedIs DEF Derives
<1>3. m \in Walked(t) /\ m \in Walked(Origin) BY <1>1, <1>2 DEF Walked, Prose
<1>4. Target(Origin, m) = "overview" /\ Target(t, m) = "overview" BY <1>1, <1>2 DEF Target
<1>5. \A r \in Movers(t) : r = m BY OneMoves DEF Derives
<1>6. PICK r \in Movers(t) : Migrated(t, i, o)["overview"] = Concept(t[r], i, o) BY PlannedIs
<1> QED BY <1>1, <1>2, <1>3, <1>4, <1>5, <1>6 DEF ComesFrom

\* Between a directory and what is planned for it: every name has the one or the other, and
\* none has lost its prose before the overview has it.
Partway(t, x, y) ==
    /\ y = [s \in DOMAIN Origin |-> y[s]]
    /\ \A s \in DOMAIN Origin : y[s] = t[s] \/ y[s] = x[s]
    /\ \A s \in Reserved : y[s] # t[s] => y["overview"] = x["overview"]

\* Where a name has a document then, it comes from a name of the directory.
LEMMA MixWalked ==
    ASSUME Started, NEW t, NEW i, NEW o, Derives(t, i, o),
           NEW y, Partway(t, Migrated(t, i, o), y), NEW s \in Walked(y)
    PROVE  \E r \in Walked(t) :
             /\ y[s].text = t[r].text
             /\ \/ r = s /\ y[s] = t[s]
                \/ /\ y[s] = Concept(t[r], i, o) /\ Profile(y[s]) /\ s \notin Reserved
                   /\ r = s \/ (s = "overview" /\ r \in Movers(t) /\ ~Present(t[s]))
<1> DEFINE x == Migrated(t, i, o)
<1>1. s \in DOMAIN Origin /\ Present(y[s]) /\ y[s].text # Generated
  BY DEF Walked, Partway
<1>2. CASE y[s] = t[s]
  <2>1. s \in Walked(t) BY <1>1, <1>2 DEF Walked, Derives, PapersInv
  <2> QED BY <1>2, <2>1
<1>3. CASE y[s] = x[s] /\ y[s] # t[s]
  <2>1. x[s] # Missing BY <1>1, <1>3 DEF Present, Missing
  <2>2. CASE s = "overview" /\ ~Present(t[s]) /\ \E m \in Movers(t) : x[s] = Concept(t[m], i, o)
    <3>1. PICK m \in Movers(t) : x[s] = Concept(t[m], i, o) BY <2>2
    <3>2. m \in Walked(t) /\ m \in Walked(Origin) /\ ComesFrom(t, m, m) BY MoverIs
    <3>3. Profile(Concept(t[m], i, o)) /\ Concept(t[m], i, o).text = t[m].text BY <3>2, MadeOf
    <3>4. "overview" \notin Reserved BY DEF Reserved
    <3> QED BY <1>3, <2>2, <3>1, <3>2, <3>3, <3>4
  <2>3. CASE s \in Walked(t) /\ s \notin Reserved /\ x[s] = Concept(t[s], i, o)
    <3>1. PICK r \in Walked(Origin) : ComesFrom(t, s, r) BY <2>3, WalkedIs DEF Derives
    <3>2. Profile(Concept(t[s], i, o)) /\ Concept(t[s], i, o).text = t[s].text
      BY <2>3, <3>1, MadeOf
    <3> QED BY <1>3, <2>3, <3>2
  <2> QED BY <1>1, <1>3, <2>1, <2>2, <2>3, PlannedIs
<1> QED BY <1>1, <1>2, <1>3 DEF Partway

\* The directory is sound all the way.
LEMMA MixedIsSound ==
    ASSUME Started, NEW t, NEW i, NEW o, Derives(t, i, o),
           NEW y, Partway(t, Migrated(t, i, o), y)
    PROVE  PapersInv(y)
<1> DEFINE x == Migrated(t, i, o)
<1>1. SUFFICES ASSUME NEW s \in DOMAIN Origin
               PROVE  \/ y[s] = Origin[s]
                      \/ /\ s \in Reserved /\ y[s] \in {Missing, GeneratedIndex}
                         /\ Prose(Origin, s) => y["overview"].text = Origin[s].text
                      \/ \E r \in Walked(Origin) :
                           /\ Target(Origin, r) = s /\ Made(Origin[r], y[s])
                           /\ r # s => ~Present(Origin[s])
  BY DEF PapersInv, Partway
<1>2. "overview" \in DOMAIN Origin /\ "overview" \notin Reserved BY OriginIs DEF Reserved
\* Prose that the overview had, it still has.
<1>3. CASE s \in Reserved /\ y[s] = t[s]
  <2>1. CASE Prose(Origin, s) /\ t[s] # Origin[s]
    <3>1. t["overview"].text = Origin[s].text BY <1>3, <2>1, ReservedIs DEF Derives
    <3>2. "overview" \in Walked(t)
      BY <1>2, <2>1, <3>1 DEF Walked, Present, Prose, Derives, PapersInv
    <3>3. PICK r \in Walked(Origin) : ComesFrom(t, "overview", r) BY <3>2, WalkedIs DEF Derives
    <3>4. Concept(t["overview"], i, o).text = t["overview"].text BY <3>2, <3>3, MadeOf
    <3>5. x["overview"] = Concept(t["overview"], i, o)
      BY <1>2, <3>2, PlannedIs DEF Prose, Walked, Reserved
    <3>6. y["overview"].text = Origin[s].text BY <1>2, <3>1, <3>4, <3>5 DEF Partway
    <3> QED BY <1>3, <2>1, <3>6, ReservedIs DEF Derives
  <2>2. CASE ~(Prose(Origin, s) /\ t[s] # Origin[s])
    BY <1>3, <2>2, ReservedIs DEF Derives
  <2> QED BY <2>1, <2>2
\* Prose that leaves, the overview has.
<1>4. CASE s \in Reserved /\ y[s] # t[s]
  <2>1. y[s] = x[s] /\ y["overview"] = x["overview"] BY <1>4 DEF Partway
  <2>2. Prose(t, s) /\ x[s] = Missing BY <1>2, <1>4, <2>1, PlannedIs
  <2>3. s \in Movers(t) BY <2>2 DEF Movers, Derives, PapersInv
  <2>4. s \in Walked(t) /\ s \in Walked(Origin) /\ ComesFrom(t, s, s) /\ t[s] = Origin[s]
        /\ x["overview"] = Concept(t[s], i, o)
    BY <2>3, MoverIs
  <2>5. x["overview"].text = Origin[s].text BY <2>4, MadeOf
  <2> QED BY <1>4, <2>1, <2>2, <2>5
<1>5. CASE s \notin Reserved /\ y[s] = t[s] BY <1>5 DEF Derives, PapersInv
<1>6. CASE s \notin Reserved /\ y[s] = x[s] /\ y[s] # t[s]
  <2>1. CASE s = "overview" /\ ~Present(t[s]) /\ \E m \in Movers(t) : x[s] = Concept(t[m], i, o)
    <3>1. PICK m \in Movers(t) : x[s] = Concept(t[m], i, o) BY <2>1
    <3>2. m \in Walked(t) /\ m \in Walked(Origin) /\ ComesFrom(t, m, m) /\ Target(Origin, m) = s
      BY <2>1, MoverIs
    <3>3. Made(Origin[m], Concept(t[m], i, o)) BY <3>2, MadeOf
    <3>4. ~Present(Origin[s])
      <4>1. CASE t[s] = Origin[s] BY <2>1, <4>1
      <4>2. ASSUME NEW r \in Walked(Origin), Made(Origin[r], t[s]) PROVE FALSE
        <5>1. Document(Origin[r]) /\ Present(Origin[r]) BY OriginIs DEF Walked
        <5>2. t[s].text = Origin[r].text BY <4>2, <5>1, ConceptIs DEF Made, Started
        <5> QED BY <2>1, <5>1, <5>2 DEF Present
      <4> QED BY <1>6, <4>1, <4>2 DEF Derives, PapersInv
    <3> QED BY <1>6, <3>1, <3>2, <3>3, <3>4
  <2>2. CASE s \in Walked(t) /\ x[s] = Concept(t[s], i, o)
    <3>1. PICK r \in Walked(Origin) : ComesFrom(t, s, r) BY <2>2, WalkedIs DEF Derives
    <3>2. Made(Origin[r], x[s]) BY <2>2, <3>1, MadeOf
    <3>3. Target(Origin, r) = s BY <1>6, <3>1 DEF ComesFrom, Target, Prose
    <3>4. r # s => ~Present(Origin[s]) BY <3>1 DEF ComesFrom
    <3> QED BY <1>6, <3>2, <3>3, <3>4
  <2>3. ~Prose(t, s) BY <1>6 DEF Prose
  <2> QED BY <1>6, <2>1, <2>2, <2>3, PlannedIs
<1> QED BY <1>3, <1>4, <1>5, <1>6 DEF Partway

-----------------------------------------------------------------------------
(* The ledger. *)

\* Who a transcription names depends on the rows alone, and every row is accounted for by it.
LEMMA TranscribedIs ==
    ASSUME NEW t, NEW l, NEW o
    PROVE  /\ \A r \in Unaccounted(l) :
                \E e \in Transcribed(t, l, o) : e.sid = r.sid /\ e.by = ActorOf(r, o)
           /\ \A e \in Transcribed(t, l, o) :
                /\ e.expected = Expected(t, e.sid)
                /\ \E r \in Unaccounted(l) :
                     /\ e.by = ActorOf(r, o)
                     /\ \/ e.sid = r.sid /\ e.scope \in {"node", r.scope}
                        \/ e.sid = Repoint(t, r) /\ e.scope = r.scope
<1> DEFINE Entry(sid, scope, r) ==
             [sid |-> sid, scope |-> scope, by |-> ActorOf(r, o), expected |-> Expected(t, sid)]
           Own(r) == {Entry(r.sid, "node", r)}
           Hold(r) == {Entry(Repoint(t, r), r.scope, r)}
           Of(r) == IF HeldElsewhere(l, r) THEN Own(r)
                    ELSE (IF Repoint(t, r) # r.sid THEN Own(r) ELSE {})
                           \cup (IF Repoint(t, r) \in Accounted(l) THEN {} ELSE Hold(r))
<1>1. Transcribed(t, l, o) = UNION {Of(r) : r \in Unaccounted(l)} BY DEF Transcribed
<1>2. ASSUME NEW r \in Unaccounted(l)
      PROVE  /\ Of(r) \subseteq Own(r) \cup Hold(r)
             /\ \E e \in Of(r) : e.sid = r.sid
  <2>1. r.sid \notin Accounted(l) BY DEF Unaccounted
  <2>2. ~HeldElsewhere(l, r) /\ Repoint(t, r) = r.sid => Of(r) = {} \cup Hold(r) BY <2>1
  <2>3. \/ Of(r) = Own(r)
        \/ Of(r) = Own(r) \cup Hold(r)
        \/ Of(r) = Hold(r) /\ Repoint(t, r) = r.sid
    BY <2>2
  <2>4. (\E e \in Own(r) : e.sid = r.sid)
        /\ (Repoint(t, r) = r.sid => \E e \in Hold(r) : e.sid = r.sid)
    OBVIOUS
  <2> HIDE DEF Of, Own, Hold
  <2> QED BY <2>3, <2>4
<1>3. \A r \in Unaccounted(l) : \A e \in Own(r) \cup Hold(r) :
        /\ e.by = ActorOf(r, o) /\ e.expected = Expected(t, e.sid)
        /\ \/ e.sid = r.sid /\ e.scope \in {"node", r.scope}
           \/ e.sid = Repoint(t, r) /\ e.scope = r.scope
  OBVIOUS
<1> HIDE DEF Of, Own, Hold
<1> QED BY <1>1, <1>2, <1>3

\* Whom a run names as having denied.
LEMMA TakersAre ==
    ASSUME NEW t, NEW i, NEW l, NEW o
    PROVE  Takers(t, i, l, o) =
             IF i.database /\ o.dsn = "up" THEN {ActorOf(r, o) : r \in Unaccounted(l)} ELSE {}
<1> DEFINE A == {e.by : e \in Transcribed(t, l, o)}
           B == {ActorOf(r, o) : r \in Unaccounted(l)}
<1>1. A = B
  <2>1. ASSUME NEW b \in A PROVE b \in B BY TranscribedIs
  <2>2. ASSUME NEW b \in B PROVE b \in A
    <3>1. PICK r \in Unaccounted(l) : b = ActorOf(r, o) OBVIOUS
    <3> QED BY <3>1, TranscribedIs
  <2> QED BY <2>1, <2>2
<1>2. CASE i.database /\ o.dsn = "up"
  <2>1. Denials(t, i, l, o) = Transcribed(t, l, o) BY <1>2 DEF Denials
  <2> QED BY <1>1, <1>2, <2>1 DEF Takers
<1>3. CASE ~(i.database /\ o.dsn = "up")
  <2>1. Denials(t, i, l, o) = {} BY <1>3 DEF Denials
  <2> QED BY <1>3, <2>1 DEF Takers
<1> QED BY <1>2, <1>3

\* A run that read the rows leaves none unaccounted.
LEMMA NoneLeft ==
    ASSUME NEW t, NEW i, i.database, NEW l, NEW o, o.dsn = "up"
    PROVE  /\ \A r \in denyRows : r.sid \in Accounted(NewLedger(t, i, l, o))
           /\ Unaccounted(NewLedger(t, i, l, o)) = {}
<1> DEFINE n == NewLedger(t, i, l, o)
<1>1. Denials(t, i, l, o) = Transcribed(t, l, o) BY DEF Denials
<1>2. ASSUME NEW r \in denyRows PROVE r.sid \in Accounted(n)
  <2>1. CASE r.sid \in Accounted(l)
    <3>1. PICK e \in l.entries : e.sid = r.sid BY <2>1 DEF Accounted
    <3>2. e \in n.entries BY <3>1 DEF NewLedger
    <3> QED BY <3>1, <3>2 DEF Accounted
  <2>2. CASE r.sid \notin Accounted(l)
    <3>1. r \in Unaccounted(l) BY <2>2 DEF Unaccounted
    <3>2. PICK e \in Transcribed(t, l, o) : e.sid = r.sid BY <3>1, TranscribedIs
    <3>3. e \in n.entries BY <1>1, <3>2 DEF NewLedger
    <3> QED BY <3>2, <3>3 DEF Accounted
  <2> QED BY <2>1, <2>2
<1> HIDE DEF n
<1>3. Unaccounted(n) = {} BY <1>2 DEF Unaccounted
<1> QED BY <1>2, <1>3 DEF n

\* Without rows that are not accounted for, the ledger stays as it is.
LEMMA LedgerStays ==
    ASSUME NEW t, NEW i, NEW l, NEW o,
           i.database /\ o.dsn = "up" => Unaccounted(l) = {}
    PROVE  NewLedger(t, i, l, o) = l
<1>1. Denials(t, i, l, o) = {}
  <2>1. CASE i.database /\ o.dsn = "up" BY <2>1 DEF Denials, Transcribed
  <2>2. CASE ~(i.database /\ o.dsn = "up") BY <2>2 DEF Denials
  <2> QED BY <2>1, <2>2
<1> QED BY <1>1 DEF NewLedger

\* A ledger has what it had and what was transcribed.
LEMMA NewLedgerIs ==
    ASSUME NEW t, NEW i, NEW l, NEW o
    PROVE  LET n == NewLedger(t, i, l, o)
           IN  /\ l.entries \subseteq n.entries
               /\ n.entries \subseteq l.entries \cup Transcribed(t, l, o)
               /\ n # l => n.state = "read" /\ i.database /\ o.dsn = "up"
               /\ n # l => n.entries = l.entries \cup Transcribed(t, l, o)
BY DEF NewLedger, Denials

\* What a run writes in the ledger keeps the ledger sound.
LEMMA NewLedgerIsSound ==
    ASSUME Started, NEW t, PapersInv(t), NEW i, NEW l, LedgerInv(l), NEW o
    PROVE  LedgerInv(NewLedger(t, i, l, o))
<1> DEFINE n == NewLedger(t, i, l, o)
<1>1. acts \subseteq n.entries BY NewLedgerIs DEF LedgerInv
<1>2. ASSUME NEW e \in Transcribed(t, l, o)
      PROVE  /\ e.sid = Section => e.scope = "subtree"
             /\ e.expected = "present" <=> (e.sid = Section \/ e.sid \in AtLast)
  <2>1. PICK r \in Unaccounted(l) :
          \/ e.sid = r.sid /\ e.scope \in {"node", r.scope}
          \/ e.sid = Repoint(t, r) /\ e.scope = r.scope
    BY TranscribedIs
  <2>2. r.scope \in {"node", "subtree"} /\ r.sid # Section
    BY MigrateAssumption DEF Unaccounted, Started
  <2>3. Repoint(t, r) = Section => r.scope = "subtree"
    BY <2>2 DEF Repoint, Section
  <2>4. e.expected = Expected(t, e.sid) BY TranscribedIs
  <2>5. e.expected = "present" <=> (e.sid = Section \/ e.sid \in AtLast)
    BY <2>4, Landing DEF Expected
  <2> QED BY <2>1, <2>2, <2>3, <2>5
<1>3. \A e \in n.entries : e \in l.entries \/ e \in Transcribed(t, l, o) BY NewLedgerIs
<1> HIDE DEF n
<1> QED BY <1>1, <1>2, <1>3 DEF LedgerInv, n

\* What a run writes in the ledger holds the overview, if it accounts for a name whose prose
\* goes there.
LEMMA NewLedgerHolds ==
    ASSUME Started, RowsAreRead, NEW t, PapersInv(t), NEW i, NEW l, HoldInv(t, l), LedgerInv(l),
           NEW o, NEW s \in Reserved, Prose(Origin, s), s \in Accounted(NewLedger(t, i, l, o))
    PROVE  Holds(NewLedger(t, i, l, o), "overview")
<1> DEFINE n == NewLedger(t, i, l, o)
<1>1. ASSUME Holds(l, "overview") PROVE Holds(n, "overview")
  BY <1>1, NewLedgerIs DEF Holds
<1>2. CASE s \in Accounted(l) BY <1>1, <1>2 DEF HoldInv
<1>3. CASE s \notin Accounted(l)
  <2>1. PICK e \in n.entries : e.sid = s BY DEF Accounted
  <2>2. e \notin l.entries BY <1>3, <2>1 DEF Accounted
  <2>3. e \in Transcribed(t, l, o) /\ n # l BY <2>1, <2>2, NewLedgerIs
  <2>4. i.database /\ o.dsn = "up" /\ n.entries = l.entries \cup Transcribed(t, l, o)
    BY <2>3, NewLedgerIs
  <2>5. PICK r \in Unaccounted(l) : e.sid = r.sid \/ e.sid = Repoint(t, r) BY <2>3, TranscribedIs
  <2>6. r.sid = s
    <3>1. Section \notin Reserved /\ "overview" \notin Reserved BY DEF Section, Reserved
    <3> QED BY <2>1, <2>5, <3>1 DEF Repoint
  <2>7. r \in denyRows /\ r.sid \notin Accounted(l) BY DEF Unaccounted
  <2>8. t[s] = Origin[s] /\ Prose(t, s) BY <2>6, <2>7 DEF HoldInv, Prose
  <2>9. CASE HeldElsewhere(l, r)
    <3>1. Holds(l, "overview") BY <2>9 DEF HeldElsewhere, Accounted, Holds
    <3> QED BY <1>1, <3>1
  <2>10. CASE ~HeldElsewhere(l, r)
    <3>1. Repoint(t, r) \in {Section, "overview"} /\ Repoint(t, r) # r.sid
          /\ (Repoint(t, r) = Section => r.scope = "subtree")
      BY <2>6, <2>8 DEF Repoint, Fate, Section, Reserved, Prose
    <3>2. CASE Repoint(t, r) \in Accounted(l)
      <4>1. PICK f \in l.entries : f.sid = Repoint(t, r) BY <3>2 DEF Accounted
      <4>2. f.sid = Section => f.scope = "subtree" BY <4>1 DEF LedgerInv
      <4>3. Holds(l, "overview") BY <3>1, <4>1, <4>2 DEF Holds
      <4> QED BY <1>1, <4>3
    <3>3. CASE Repoint(t, r) \notin Accounted(l)
      <4> DEFINE f == [sid |-> Repoint(t, r), scope |-> r.scope, by |-> ActorOf(r, o),
                       expected |-> Expected(t, Repoint(t, r))]
      <4>1. f \in Transcribed(t, l, o) BY <2>10, <3>3 DEF Transcribed
      <4>2. f \in n.entries /\ f.sid = Repoint(t, r) /\ f.scope = r.scope BY <2>4, <4>1
      <4> HIDE DEF f, n
      <4>3. Holds(n, "overview") BY <3>1, <4>2 DEF Holds
      <4> QED BY <4>3 DEF n
    <3> QED BY <3>2, <3>3
  <2> QED BY <2>9, <2>10
<1> QED BY <1>2, <1>3

-----------------------------------------------------------------------------
(* A run on its way. *)

\* What was loaded can be derived, and the directory is partway to what was planned.
LEMMA OnItsWay ==
    ASSUME Started, NEW c, NEW left, Midway(c, left)
    PROVE  /\ Derives(c.papers, c.inst, opts)
           /\ plan.papers = Migrated(c.papers, c.inst, opts) /\ plan.inst = NewInst(c.inst)
           /\ plan.takedowns = NewLedger(c.papers, c.inst, c.takedowns, opts)
           /\ plan.policy = (IF c.policy.here THEN c.policy
                             ELSE NewPolicy(c.papers, c.inst, c.takedowns, opts))
           /\ plan.root = NewRoot(c.root, opts)
           /\ Partway(c.papers, plan.papers, papers)
           /\ \A s \in DOMAIN Origin : papers[s] # plan.papers[s] => s \in left
           /\ takedowns \in {c.takedowns, plan.takedowns}
           /\ inst \in {c.inst, plan.inst} /\ policy \in {c.policy, plan.policy}
           /\ inst.database = c.inst.database /\ c.inst.database = first.inst.database
<1>1. Derives(c.papers, c.inst, opts) BY DEF Midway, CheckoutInv, Derives, Declined
<1>2. /\ plan.papers = Migrated(c.papers, c.inst, opts) /\ plan.inst = NewInst(c.inst)
      /\ plan.takedowns = NewLedger(c.papers, c.inst, c.takedowns, opts)
      /\ plan.policy = (IF c.policy.here THEN c.policy
                        ELSE NewPolicy(c.papers, c.inst, c.takedowns, opts))
      /\ plan.root = NewRoot(c.root, opts)
  BY DEF Midway, PlanFor
<1>3. papers = [s \in DOMAIN Origin |-> IF s \in left THEN c.papers[s] ELSE plan.papers[s]]
  BY DEF Midway
<1>4. Partway(c.papers, plan.papers, papers)
  <2>1. papers = [s \in DOMAIN Origin |-> papers[s]] BY <1>3
  <2>2. \A s \in DOMAIN Origin : papers[s] = c.papers[s] \/ papers[s] = plan.papers[s] BY <1>3
  <2> QED BY <2>1, <2>2 DEF Midway, Partway
<1>5. \A s \in DOMAIN Origin : papers[s] # plan.papers[s] => s \in left BY <1>3
<1>6. takedowns \in {c.takedowns, plan.takedowns} /\ inst \in {c.inst, plan.inst}
      /\ policy \in {c.policy, plan.policy}
  BY DEF Midway
<1>7. c.inst.database = first.inst.database BY DEF Midway, CheckoutInv, InstInv
<1>8. InstInv(c.inst) BY DEF Midway, CheckoutInv
<1>9. NewInst(c.inst).database = c.inst.database
  <2>1. CASE c.inst.format = 2 BY <2>1 DEF NewInst
  <2>2. CASE c.inst.format # 2
    <3>1. c.inst \in Insts BY <1>8, <2>2 DEF InstInv, Started
    <3>2. c.inst = [format |-> c.inst.format, tiers |-> c.inst.tiers, default |-> c.inst.default,
                    database |-> c.inst.database, flaw |-> c.inst.flaw]
      BY <3>1, MigrateAssumption
    <3> QED BY <2>2, <3>2 DEF NewInst
  <2> QED BY <2>1, <2>2
<1>10. inst.database = c.inst.database BY <1>2, <1>6, <1>9
<1> QED BY <1>1, <1>2, <1>4, <1>5, <1>6, <1>7, <1>10

\* The instance that is written is of the profile, and is not written again.
LEMMA NewInstIs ==
    ASSUME Started, NEW i, InstInv(i)
    PROVE  /\ InstInv(NewInst(i)) /\ NewInst(i).format = 2 /\ NewInst(NewInst(i)) = NewInst(i)
<1>1. CASE i.format = 2 BY <1>1 DEF NewInst
<1>2. CASE i.format # 2
  <2>1. i \in Insts /\ i = first.inst BY <1>2 DEF InstInv, Started
  <2>2. i = [format |-> i.format, tiers |-> i.tiers, default |-> i.default,
             database |-> i.database, flaw |-> i.flaw]
    BY <2>1, MigrateAssumption
  <2> DEFINE n == NewInst(i)
  <2>3. n = [i EXCEPT !.format = 2, !.tiers = <<>>, !.default = NoValue] BY <1>2 DEF NewInst
  <2>4. n.format = 2 /\ n.database = i.database BY <2>2, <2>3
  <2> HIDE DEF n
  <2>5. InstInv(n) BY <2>1, <2>4 DEF InstInv
  <2>6. NewInst(n) = n BY <2>4 DEF NewInst
  <2> QED BY <2>4, <2>5, <2>6 DEF n
<1> QED BY <1>1, <1>2

\* Whatever was written by now, the checkout is sound.
LEMMA MidwayIsSound ==
    ASSUME Started, NEW c, NEW left, Midway(c, left)
    PROVE  CheckoutInv(WorkingCopy)
<1>1. Derives(c.papers, c.inst, opts) /\ Partway(c.papers, plan.papers, papers)
      /\ plan.papers = Migrated(c.papers, c.inst, opts)
      /\ plan.takedowns = NewLedger(c.papers, c.inst, c.takedowns, opts)
  BY OnItsWay
<1>2. CheckoutInv(c) /\ ~Declined(c, opts) /\ opts \in Options BY DEF Midway
<1>3. PapersInv(papers) BY <1>1, MixedIsSound
<1>4. InstInv(inst) BY <1>2, OnItsWay, NewInstIs DEF CheckoutInv
<1>5. PapersInv(c.papers) /\ LedgerInv(c.takedowns) /\ HoldInv(c.papers, c.takedowns)
  BY <1>2 DEF CheckoutInv
<1>6. LedgerInv(takedowns) BY <1>1, <1>5, OnItsWay, NewLedgerIsSound
<1>7. HoldInv(papers, takedowns)
  <2>1. SUFFICES ASSUME RowsAreRead
                 PROVE  /\ \A s \in Reserved :
                             Prose(Origin, s) /\ s \in Accounted(takedowns)
                               => Holds(takedowns, "overview")
                        /\ \A r \in denyRows :
                             r.sid \in Reserved /\ Prose(Origin, r.sid)
                               /\ papers[r.sid] # Origin[r.sid] =>
                                 r.sid \in Accounted(takedowns)
    BY DEF HoldInv
  <2>2. ASSUME NEW s \in Reserved, Prose(Origin, s), s \in Accounted(takedowns)
        PROVE  Holds(takedowns, "overview")
    <3>1. CASE takedowns = c.takedowns BY <1>5, <2>1, <2>2, <3>1 DEF HoldInv
    <3>2. CASE takedowns = plan.takedowns BY <1>1, <1>5, <2>1, <2>2, <3>2, NewLedgerHolds
    <3> QED BY <3>1, <3>2, OnItsWay
  <2>3. ASSUME NEW r \in denyRows, r.sid \in Reserved, Prose(Origin, r.sid),
               papers[r.sid] # Origin[r.sid]
        PROVE  r.sid \in Accounted(takedowns)
    <3>1. CASE papers[r.sid] = c.papers[r.sid]
      <4>1. r.sid \in Accounted(c.takedowns) BY <1>5, <2>1, <2>3, <3>1 DEF HoldInv
      <4>2. Accounted(c.takedowns) \subseteq Accounted(plan.takedowns)
        BY <1>1, NewLedgerIs DEF Accounted
      <4> QED BY <4>1, <4>2, OnItsWay
    <3>2. CASE papers[r.sid] # c.papers[r.sid]
      <4>1. takedowns = plan.takedowns BY <2>3, <3>2 DEF Midway
      <4>2. c.inst.database BY OnItsWay DEF Started
      <4>3. opts.dsn = "up"
        <5>1. ~Unread(c.inst, c.takedowns, opts) BY <1>2 DEF Declined
        <5>2. opts.dsn \in {"up", "down", "unset"} /\ opts.dsn # "unset"
          BY <1>2, <2>1, MigrateAssumption DEF RowsAreRead
        <5> QED BY <4>2, <5>1, <5>2 DEF Unread
      <4> QED BY <1>1, <4>1, <4>2, <4>3, NoneLeft
    <3> QED BY <3>1, <3>2
  <2> QED BY <2>2, <2>3
<1>8. RootInv(root) BY DEF Midway, RootInv
<1> QED BY <1>3, <1>4, <1>6, <1>7, <1>8 DEF CheckoutInv, WorkingCopy

\* What the run would make of a document now, it would have made of one it loaded.
LEMMA MadeAgain ==
    ASSUME Started, NEW c, NEW left, Midway(c, left), NEW s \in Walked(papers)
    PROVE  \E r \in Walked(c.papers) :
             /\ Concept(papers[s], inst, opts) = Concept(c.papers[r], c.inst, opts)
             /\ ~Underivable(papers[s], inst, opts)
             /\ ~Profile(papers[s]) => r = s /\ papers[s] = c.papers[s]
<1>1. Derives(c.papers, c.inst, opts) /\ Partway(c.papers, plan.papers, papers)
      /\ plan.papers = Migrated(c.papers, c.inst, opts)
  BY OnItsWay
<1>2. PICK r \in Walked(c.papers) :
        \/ r = s /\ papers[s] = c.papers[s]
        \/ papers[s] = Concept(c.papers[r], c.inst, opts) /\ Profile(papers[s])
  BY <1>1, MixWalked
<1>3. CASE Profile(papers[s]) BY <1>2, <1>3, ProfileStays
<1>4. CASE ~Profile(papers[s])
  <2>1. r = s /\ papers[s] = c.papers[s] BY <1>2, <1>4
  <2>2. papers[s] # plan.papers[s]
    <3>1. SUFFICES ASSUME papers[s] = plan.papers[s] PROVE FALSE
      OBVIOUS
    <3>2. s \in DOMAIN Origin /\ Present(papers[s]) BY <1>1 DEF Partway, Walked
    <3>3. plan.papers[s] # Missing BY <3>1, <3>2 DEF Present, Missing
    <3>4. plan.papers[s] = Concept(c.papers[s], c.inst, opts)
      BY <1>1, <2>1, <3>2, <3>3, PlannedIs
    <3>5. PICK q \in Walked(Origin) : ComesFrom(c.papers, s, q) BY <1>1, <2>1, WalkedIs DEF Derives
    <3>6. Profile(Concept(c.papers[s], c.inst, opts)) BY <1>1, <2>1, <3>5, MadeOf
    <3> QED BY <1>4, <3>1, <3>4, <3>6
  <2>3. s \in DOMAIN Origin BY <1>1 DEF Partway, Walked
  <2>4. inst = c.inst BY <2>2, <2>3, OnItsWay DEF Midway
  <2>5. ~Underivable(papers[s], inst, opts) BY <1>1, <2>1, <2>4 DEF Derives
  <2> QED BY <2>1, <2>4, <2>5
<1> QED BY <1>3, <1>4

\* No document points at a reserved name.
PointersStay ==
    \A t \in Directories : \A s \in Walked(t) :
        t[s].sup \notin Reserved /\ t[s].ksup \notin Reserved

\* Nor does anything that is made of one.
LEMMA PointersAre ==
    ASSUME Started, PointersStay, NEW t, PapersInv(t), NEW i, InstInv(i), NEW o \in Options,
           NEW s \in Walked(t), ~Underivable(t[s], i, o)
    PROVE  Concept(t[s], i, o).ksup \notin Reserved
<1>1. PICK r \in Walked(Origin) : ComesFrom(t, s, r) BY WalkedIs
<1>2. Document(Origin[r]) /\ Origin[r].sup \notin Reserved /\ Origin[r].ksup \notin Reserved
  BY OriginIs DEF PointersStay, Started, Origin, Walked
<1>3. \A a \in Options : Concept(Origin[r], first.inst, a).ksup \notin Reserved
  BY <1>2, ConceptIs DEF Started
<1>4. CASE t[s] = Origin[r] BY <1>3, <1>4, ConceptMade
<1>5. CASE Profile(t[s]) /\ Made(Origin[r], t[s]) BY <1>3, <1>5, ProfileStays DEF Made
<1> QED BY <1>1, <1>4, <1>5 DEF ComesFrom

\* Nothing strands that did not.
LEMMA StrandsNoMore ==
    ASSUME Started, PointersStay, NEW c, NEW left, Midway(c, left)
    PROVE  ~Stranding(papers, inst, opts)
<1>1. Derives(c.papers, c.inst, opts) /\ Partway(c.papers, plan.papers, papers)
      /\ plan.papers = Migrated(c.papers, c.inst, opts)
  BY OnItsWay
<1>2. ~Stranding(c.papers, c.inst, opts) /\ opts \in Options BY DEF Midway, Declined
<1>3. PapersInv(c.papers) /\ InstInv(c.inst) BY <1>1 DEF Derives
<1>4. PapersInv(papers) /\ InstInv(inst) BY MidwayIsSound DEF CheckoutInv, WorkingCopy
<1>5. SUFFICES ASSUME NEW s \in Walked(papers),
                      Concept(papers[s], inst, opts).ksup # NoValue,
                      \/ \E r \in Walked(papers) :
                           Target(papers, r) = Concept(papers[s], inst, opts).ksup
                             /\ Demoted(papers[r], opts)
                      \/ /\ Concept(papers[s], inst, opts).ksup
                              \notin {Target(papers, r) : r \in Walked(papers)}
                         /\ Concept(papers[s], inst, opts).ksup \in DOMAIN papers
                              => ~Present(papers[Concept(papers[s], inst, opts).ksup])
               PROVE  FALSE
  BY DEF Stranding
<1> DEFINE to == Concept(papers[s], inst, opts).ksup
<1>6. PICK q \in Walked(c.papers) :
        Concept(papers[s], inst, opts) = Concept(c.papers[q], c.inst, opts)
  BY MadeAgain
<1>7. to = Concept(c.papers[q], c.inst, opts).ksup BY <1>6
<1>8. to \notin Reserved BY <1>1, <1>2, <1>3, <1>7, PointersAre DEF Derives
<1>9. {Target(papers, r) : r \in Walked(papers)} = {Target(c.papers, r) : r \in Walked(c.papers)}
  BY <1>3, <1>4, Landing
<1>10. /\ to # NoValue
       /\ \A r \in Walked(c.papers) : ~(Target(c.papers, r) = to /\ Demoted(c.papers[r], opts))
       /\ \/ to \in {Target(c.papers, r) : r \in Walked(c.papers)}
          \/ to \in DOMAIN c.papers /\ Present(c.papers[to])
  BY <1>2, <1>5, <1>7 DEF Stranding
<1> HIDE DEF to
<1>11. ASSUME NEW r \in Walked(papers), Target(papers, r) = to, Demoted(papers[r], opts)
       PROVE  FALSE
  <2>1. ~Profile(papers[r]) BY <1>11 DEF Demoted
  <2>2. r \in Walked(c.papers) /\ papers[r] = c.papers[r] BY <2>1, MadeAgain
  <2>3. Target(c.papers, r) = to BY <1>11, <2>2 DEF Target, Prose
  <2> QED BY <1>10, <1>11, <2>2, <2>3
<1>12. ASSUME to \in DOMAIN c.papers, Present(c.papers[to])
       PROVE  to \in DOMAIN papers /\ Present(papers[to])
  <2>1. to \in DOMAIN Origin /\ to \in DOMAIN papers BY <1>1, <1>12 DEF Partway, Derives, PapersInv
  <2>2. CASE papers[to] = c.papers[to] BY <1>12, <2>1, <2>2
  <2>3. CASE papers[to] = plan.papers[to] /\ papers[to] # c.papers[to]
    <3>1. ~Prose(c.papers, to) BY <1>8 DEF Prose
    <3>2. to \in Walked(c.papers) /\ plan.papers[to] = Concept(c.papers[to], c.inst, opts)
      BY <1>1, <1>12, <2>1, <2>3, <3>1, PlannedIs
    <3>3. PICK p \in Walked(Origin) : ComesFrom(c.papers, to, p) BY <1>3, <3>2, WalkedIs
    <3>4. plan.papers[to].text = c.papers[to].text BY <1>1, <3>2, <3>3, MadeOf
    <3> QED BY <1>12, <2>1, <2>3, <3>4 DEF Present
  <2> QED BY <1>1, <2>1, <2>2, <2>3 DEF Partway
<1> QED BY <1>5, <1>9, <1>10, <1>11, <1>12 DEF to

\* A run that could be begun can be begun again, unless prose is in two places.
LEMMA NotDeclined ==
    ASSUME Started, PointersStay, NEW c, NEW left, Midway(c, left), ~HalfMoved
    PROVE  ~Declined(WorkingCopy, opts)
<1>1. Derives(c.papers, c.inst, opts) /\ Partway(c.papers, plan.papers, papers)
      /\ plan.papers = Migrated(c.papers, c.inst, opts)
      /\ plan.takedowns = NewLedger(c.papers, c.inst, c.takedowns, opts)
      /\ plan.inst = NewInst(c.inst)
  BY OnItsWay
<1>2. ~Declined(c, opts) /\ opts \in Options /\ CheckoutInv(c) BY DEF Midway
<1>3. ~(inst.flaw /\ inst.format = 1)
  <2>1. inst = c.inst \/ inst.format = 2 BY <1>1, <1>2, OnItsWay, NewInstIs DEF CheckoutInv
  <2> QED BY <1>2, <2>1 DEF Declined
<1>4. PapersInv(papers) /\ DOMAIN papers = DOMAIN Origin
  BY MidwayIsSound DEF CheckoutInv, WorkingCopy, PapersInv
\* Prose that is there was there.
<1>5. \A s \in Reserved : Prose(papers, s) => papers[s] = c.papers[s] /\ Prose(c.papers, s)
  <2> SUFFICES ASSUME NEW s \in Reserved, Prose(papers, s)
               PROVE  papers[s] = c.papers[s] /\ Prose(c.papers, s)
    OBVIOUS
  <2>1. s \in DOMAIN Origin /\ s \in Walked(papers)
    BY <1>4, OriginIs DEF Reserved, Walked, Prose
  <2>2. ~Profile(papers[s]) BY <1>4, ReservedIs
  <2>3. papers[s] = c.papers[s] BY <2>1, <2>2, MadeAgain
  <2> QED BY <2>3 DEF Prose
<1>6. ~TwoGovern(papers)
  <2>1. Movers(papers) \subseteq Movers(c.papers)
    BY <1>1, <1>4, <1>5 DEF Movers, Prose, Derives, PapersInv
  <2>2. Movers(papers) # {} => ~Present(papers["overview"]) BY DEF HalfMoved
  <2> QED BY <1>1, <2>1, <2>2, FewerGovern DEF Derives
<1>7. \A s \in Walked(papers) : ~Underivable(papers[s], inst, opts) BY MadeAgain
<1>8. ~Stranding(papers, inst, opts) BY StrandsNoMore
<1>9. takedowns.state # "torn" BY <1>1, <1>2, OnItsWay, NewLedgerIs DEF Declined
<1>10. ~Unread(inst, takedowns, opts)
  <2>1. takedowns.state = "absent" => c.takedowns.state = "absent"
    BY <1>1, OnItsWay, NewLedgerIs
  <2>2. ~Unread(c.inst, c.takedowns, opts) BY <1>2 DEF Declined
  <2> QED BY <2>1, <2>2, OnItsWay DEF Unread
\* A ledger that was written leaves nothing to say.
<1>11. c.inst.database /\ opts.dsn = "up" /\ takedowns # c.takedowns => Unaccounted(takedowns) = {}
  <2>1. c.inst.database /\ opts.dsn = "up" =>
          Unaccounted(NewLedger(c.papers, c.inst, c.takedowns, opts)) = {}
    BY NoneLeft
  <2> QED BY <1>1, <2>1, OnItsWay
<1>12. ~(inst.database /\ opts.dsn = "up" /\ Undeniable(papers, takedowns, opts))
  <2>1. SUFFICES ASSUME inst.database, opts.dsn = "up", Undeniable(papers, takedowns, opts)
                 PROVE  FALSE
    OBVIOUS
  <2>2. c.inst.database BY <2>1, OnItsWay
  <2>3. Unaccounted(takedowns) # {} BY <2>1 DEF Undeniable
  <2>4. takedowns = c.takedowns /\ takedowns # plan.takedowns
    <3>1. takedowns = c.takedowns BY <1>11, <2>1, <2>2, <2>3
    <3>2. Unaccounted(NewLedger(c.papers, c.inst, c.takedowns, opts)) = {} BY <2>1, <2>2, NoneLeft
    <3>3. plan.takedowns = NewLedger(c.papers, c.inst, c.takedowns, opts) BY <1>1
    <3>4. Unaccounted(plan.takedowns) = {} BY <3>2, <3>3
    <3>5. takedowns # plan.takedowns BY <2>3, <3>4
    <3> QED BY <3>1, <3>5
  <2>5. \A s \in Reserved : papers[s] = c.papers[s] BY <2>4 DEF Midway
  <2>6. \A s : Fate(papers, s) = Fate(c.papers, s)
    BY <2>5 DEF Fate, Prose
  <2>7. \A r : Repoint(papers, r) = Repoint(c.papers, r) BY <2>6 DEF Repoint
  <2>8. Undeniable(c.papers, c.takedowns, opts) BY <2>1, <2>4, <2>6, <2>7 DEF Undeniable
  <2> QED BY <1>2, <2>1, <2>2, <2>8 DEF Declined
<1>13. ~Overreaches(papers, inst, takedowns, policy, opts)
  <2>1. Registry(papers, inst, opts) \subseteq Registry(c.papers, c.inst, opts)
    <3>1. \A s \in Walked(papers) : \E r \in Walked(c.papers) :
            Concept(papers[s], inst, opts).aud = Concept(c.papers[r], c.inst, opts).aud
      BY MadeAgain
    <3> QED BY <3>1 DEF Registry
  <2>2. Takers(papers, inst, takedowns, opts) \subseteq Takers(c.papers, c.inst, c.takedowns, opts)
    <3>1. CASE ~(inst.database /\ opts.dsn = "up") BY <3>1, TakersAre
    <3>2. CASE inst.database /\ opts.dsn = "up" /\ takedowns = c.takedowns
      BY <3>2, TakersAre, OnItsWay
    <3>3. CASE inst.database /\ opts.dsn = "up" /\ takedowns # c.takedowns
      <4>1. Unaccounted(takedowns) = {} BY <1>11, <3>3, OnItsWay
      <4> QED BY <4>1, TakersAre
    <3> QED BY <3>1, <3>2, <3>3
  <2>3. ~Overreaches(c.papers, c.inst, c.takedowns, c.policy, opts) BY <1>2 DEF Declined
  <2>4. CASE policy = c.policy BY <2>1, <2>2, <2>3, <2>4 DEF Overreaches
  <2>5. CASE policy = plan.policy /\ ~c.policy.here
    <3>1. policy = NewPolicy(c.papers, c.inst, c.takedowns, opts) BY <2>5, OnItsWay
    <3>2. policy.aud = Registry(c.papers, c.inst, opts)
          /\ Takers(c.papers, c.inst, c.takedowns, opts) \subseteq policy.take
      BY <3>1 DEF NewPolicy
    <3> QED BY <2>1, <2>2, <3>2 DEF Overreaches
  <2> QED BY <2>4, <2>5, OnItsWay
<1> QED BY <1>3, <1>6, <1>7, <1>8, <1>9, <1>10, <1>12, <1>13 DEF Declined, WorkingCopy

\* What a run leaves at its end, another finds as it would have it.
LEMMA NothingToDo ==
    ASSUME Started, NEW c, Midway(c, {})
    PROVE  /\ Movers(papers) = {} /\ Changes(PlanFor(WorkingCopy, opts)) = {}
           /\ papers = plan.papers /\ takedowns = plan.takedowns
<1>1. Derives(c.papers, c.inst, opts) /\ Partway(c.papers, plan.papers, papers)
      /\ plan.papers = Migrated(c.papers, c.inst, opts)
      /\ plan.takedowns = NewLedger(c.papers, c.inst, c.takedowns, opts)
      /\ plan.inst = NewInst(c.inst) /\ plan.root = NewRoot(c.root, opts)
  BY OnItsWay
<1>2. /\ papers = [s \in DOMAIN Origin |-> plan.papers[s]] /\ inst = plan.inst
      /\ takedowns = plan.takedowns /\ policy = plan.policy
      /\ root = [f \in RootFiles |-> plan.root[f]]
  BY DEF Midway
<1>3. papers = plan.papers BY <1>1, <1>2, PlannedIs
<1>4. CheckoutInv(c) BY DEF Midway
<1>5. \A s \in Walked(papers) : Profile(papers[s])
  <2> SUFFICES ASSUME NEW s \in Walked(papers) PROVE Profile(papers[s])
    OBVIOUS
  <2>1. s \in DOMAIN Origin /\ Present(papers[s]) BY <1>1 DEF Partway, Walked
  <2>2. PICK r \in Walked(c.papers) :
          \/ r = s /\ papers[s] = c.papers[s]
          \/ papers[s] = Concept(c.papers[r], c.inst, opts) /\ Profile(papers[s])
    BY <1>1, MixWalked
  <2>3. CASE r = s
    <3>1. papers[s] # Missing BY <2>1 DEF Present, Missing
    <3>2. papers[s] = Concept(c.papers[s], c.inst, opts)
      BY <1>1, <1>3, <2>1, <2>2, <2>3, <3>1, PlannedIs DEF Walked
    <3>3. PICK q \in Walked(Origin) : ComesFrom(c.papers, s, q)
      BY <1>1, <2>2, <2>3, WalkedIs DEF Derives
    <3> QED BY <1>1, <2>2, <2>3, <3>2, <3>3, MadeOf
  <2> QED BY <2>2, <2>3
<1>6. PapersInv(papers) BY MidwayIsSound DEF CheckoutInv, WorkingCopy
<1>7. \A s \in DOMAIN papers : ~Prose(papers, s)
  <2> SUFFICES ASSUME NEW s \in DOMAIN papers, Prose(papers, s) PROVE FALSE
    OBVIOUS
  <2>1. s \in Walked(papers) /\ s \in Reserved BY DEF Walked, Prose
  <2> QED BY <1>5, <1>6, <2>1, ReservedIs
<1>8. Movers(papers) = {} BY <1>7 DEF Movers
<1>9. Migrated(papers, inst, opts) = papers
  <2>1. papers = [s \in DOMAIN papers |-> papers[s]] BY <1>6 DEF PapersInv
  <2>2. Migrated(papers, inst, opts)
          = [s \in DOMAIN papers |->
               IF s \in Walked(papers) THEN Concept(papers[s], inst, opts) ELSE papers[s]]
    BY <1>7, <1>8 DEF Migrated
  <2>3. \A s \in Walked(papers) : Concept(papers[s], inst, opts) = papers[s]
    BY <1>5, ProfileStays
  <2> QED BY <2>1, <2>2, <2>3
<1>10. NewInst(inst) = inst BY <1>1, <1>2, <1>4, NewInstIs DEF CheckoutInv
<1>11. NewLedger(papers, inst, takedowns, opts) = takedowns
  <2>1. c.inst.database /\ opts.dsn = "up" =>
          Unaccounted(NewLedger(c.papers, c.inst, c.takedowns, opts)) = {}
    BY NoneLeft
  <2>2. inst.database /\ opts.dsn = "up" => Unaccounted(takedowns) = {}
    BY <1>1, <1>2, <2>1, OnItsWay
  <2> QED BY <2>2, LedgerStays
<1>12. policy.here
  <2>1. CASE c.policy.here BY <1>2, <2>1, OnItsWay
  <2>2. CASE ~c.policy.here
    <3>1. policy = NewPolicy(c.papers, c.inst, c.takedowns, opts) BY <1>2, <2>2, OnItsWay
    <3> QED BY <3>1 DEF NewPolicy
  <2> QED BY <2>1, <2>2
<1>13. NewRoot(root, opts) = root
  <2>1. c.root = [f \in RootFiles |-> c.root[f]] BY <1>4 DEF CheckoutInv, RootInv
  <2>2. \A f \in RootFiles :
          root[f] = IF c.root[f] # "old" \/ (f = "site" /\ ~opts.site) THEN c.root[f]
                    ELSE IF f = "lock" THEN "absent" ELSE "new"
    BY <1>1, <1>2, <2>1 DEF NewRoot
  <2>3. DOMAIN root = RootFiles /\ root = [f \in RootFiles |-> root[f]] BY <1>2
  <2>4. NewRoot(root, opts)
          = [f \in RootFiles |->
               IF root[f] # "old" \/ (f = "site" /\ ~opts.site) THEN root[f]
               ELSE IF f = "lock" THEN "absent" ELSE "new"]
    BY <2>3 DEF NewRoot
  <2>5. \A f \in RootFiles : root[f] # "old" \/ (f = "site" /\ ~opts.site)
    BY <2>2
  <2> QED BY <2>3, <2>4, <2>5
<1> DEFINE p == PlanFor(WorkingCopy, opts)
<1>14. p.papers = papers /\ p.inst = inst /\ p.takedowns = takedowns /\ p.policy = policy
       /\ p.root = root
  BY <1>9, <1>10, <1>11, <1>12, <1>13 DEF PlanFor, WorkingCopy
<1> HIDE DEF p
<1>15. \A f \in AllFiles : ~Differs(p, f) BY <1>14 DEF Differs, AllFiles
<1>16. Changes(p) = {} BY <1>15 DEF Changes
<1> QED BY <1>2, <1>3, <1>8, <1>16 DEF p

-----------------------------------------------------------------------------
(* The invariant. *)

\* A record begins as it is.
LEMMA MigrateBegins == MigrateInit => MigrateInv
<1> SUFFICES ASSUME MigrateInit PROVE MigrateInv
  OBVIOUS
<1>1. Started BY DEF MigrateInit, Started
<1>2. Origin = papers BY DEF MigrateInit, Origin
<1>3. PapersInv(papers) BY <1>1, <1>2, OriginIs DEF PapersInv
<1>4. InstInv(inst) BY DEF MigrateInit, InstInv
<1>5. takedowns \in Ledgers /\ acts = takedowns.entries BY DEF MigrateInit
<1>6. LedgerInv(takedowns) BY <1>5, MigrateAssumption DEF LedgerInv
<1>7. HoldInv(papers, takedowns)
  <2>1. \A s \in Reserved : s \notin Accounted(takedowns)
    BY <1>5, MigrateAssumption DEF Accounted
  <2> QED BY <1>2, <2>1 DEF HoldInv
<1>8. RootInv(root) BY DEF MigrateInit, RootInv
<1>9. CheckoutInv(WorkingCopy) BY <1>3, <1>4, <1>6, <1>7, <1>8 DEF CheckoutInv, WorkingCopy
<1> QED BY <1>1, <1>9 DEF MigrateInit, MigrateInv

-----------------------------------------------------------------------------
(* The steps. *)

\* What is known of a record's beginning, and whether a checkout is sound, does not depend on
\* where a run is.
LEMMA SoundAlike ==
    ASSUME first' = first, acts' = acts, denyRows' = denyRows, NEW c, NEW o
    PROVE  /\ Started' = Started /\ CheckoutInv(c)' = CheckoutInv(c)
           /\ PlanFor(c, o)' = PlanFor(c, o) /\ Declined(c, o)' = Declined(c, o)
<1>1. Started' = Started BY DEF Started
<1>2. Origin' = Origin BY DEF Origin
<1>3. \A d, x : Made(d, x)' = Made(d, x) BY DEF Made
<1>4. PapersInv(c.papers)' = PapersInv(c.papers) BY <1>2, <1>3 DEF PapersInv
<1>5. AtLast' = AtLast BY <1>2 DEF AtLast
<1>6. LedgerInv(c.takedowns)' = LedgerInv(c.takedowns) BY <1>5 DEF LedgerInv
<1>7. HoldInv(c.papers, c.takedowns)' = HoldInv(c.papers, c.takedowns) BY <1>2 DEF HoldInv
<1>8. InstInv(c.inst)' = InstInv(c.inst) BY DEF InstInv
<1>9. CheckoutInv(c)' = CheckoutInv(c) BY <1>4, <1>6, <1>7, <1>8 DEF CheckoutInv
<1>10. \A l : Unaccounted(l)' = Unaccounted(l) BY DEF Unaccounted
<1>11. \A t, l : Transcribed(t, l, o)' = Transcribed(t, l, o) BY <1>10 DEF Transcribed
<1>12. \A t, i, l : Denials(t, i, l, o)' = Denials(t, i, l, o) BY <1>11 DEF Denials
<1>13. \A t, i, l : /\ NewLedger(t, i, l, o)' = NewLedger(t, i, l, o)
                    /\ Takers(t, i, l, o)' = Takers(t, i, l, o)
  BY <1>12 DEF NewLedger, Takers
<1>14. \A t, i, l : NewPolicy(t, i, l, o)' = NewPolicy(t, i, l, o) BY <1>13 DEF NewPolicy
<1>15. PlanFor(c, o)' = PlanFor(c, o) BY <1>13, <1>14 DEF PlanFor
<1>16. Undeniable(c.papers, c.takedowns, o)' = Undeniable(c.papers, c.takedowns, o)
  BY <1>10 DEF Undeniable
<1>17. Overreaches(c.papers, c.inst, c.takedowns, c.policy, o)'
         = Overreaches(c.papers, c.inst, c.takedowns, c.policy, o)
  BY <1>13 DEF Overreaches
<1>18. Declined(c, o)' = Declined(c, o) BY <1>16, <1>17 DEF Declined
<1> QED BY <1>1, <1>9, <1>15, <1>18
\* So the checkout is sound after a step that leaves a run on its way.
LEMMA MidwayIsSoundThen ==
    ASSUME NEW c, NEW left
    PROVE  (Started /\ Midway(c, left) => CheckoutInv(WorkingCopy))'
<1>1. Started /\ Midway(c, left) => CheckoutInv(WorkingCopy) BY MidwayIsSound
<1> QED BY <1>1, PTL

\* A run that has loaded the record and found something to write has all of it to write.
LEMMA LoadKeeps ==
    ASSUME MigrateInv, NEW o \in Options, Load(o)
    PROVE  MigrateInv'
<1> DEFINE p == PlanFor(WorkingCopy, o)
<1>1. /\ plan' = p /\ opts' = o
      /\ outcome' = IF Nameless(o) \/ Declined(WorkingCopy, o) THEN "refused"
                    ELSE IF Changes(p) = {} THEN "idle"
                    ELSE IF ~o.write THEN "diff" ELSE "writing"
      /\ todo' = IF outcome' = "writing" THEN Changes(p) ELSE {}
      /\ papers' = papers /\ inst' = inst /\ takedowns' = takedowns /\ policy' = policy
      /\ root' = root /\ denyRows' = denyRows /\ acts' = acts /\ first' = first
  BY DEF Load
<1>2. Started /\ CheckoutInv(WorkingCopy) BY DEF MigrateInv
<1>3. PICK c, left : c = WorkingCopy /\ left = todo' OBVIOUS
<1>4. c = WorkingCopy' BY <1>1, <1>3 DEF WorkingCopy
<1>5. Started' /\ CheckoutInv(c)' BY <1>1, <1>2, <1>3, SoundAlike
<1>6. CheckoutInv(WorkingCopy)' BY <1>4, <1>5
<1>7. outcome' \notin {"stopped", "done"} BY <1>1
<1>8. outcome' # "writing" => todo' = {} BY <1>1
<1>9. ASSUME outcome' = "writing" PROVE todo' # {} /\ Midway(c, left)'
  <2>1. ~Declined(WorkingCopy, o) /\ Changes(p) # {} /\ todo' = Changes(p) BY <1>1, <1>9
  <2>2. ~Declined(c, opts)' /\ plan' = PlanFor(c, opts)' /\ opts' \in Options
    BY <1>1, <1>3, <2>1, SoundAlike
  <2>3. papers = [s \in DOMAIN Origin |-> papers[s]] /\ root = [f \in RootFiles |-> root[f]]
        /\ DOMAIN papers = DOMAIN Origin /\ DOMAIN root = RootFiles
    BY <1>2 DEF CheckoutInv, WorkingCopy, PapersInv, RootInv
  <2> HIDE DEF p
  <2>4. ASSUME NEW s \in DOMAIN Origin, s \notin Changes(p) PROVE p.papers[s] = papers[s]
    <3>1. s \in AllFiles /\ s \in DOMAIN papers /\ s \notin DOMAIN root
          /\ s \notin {"instance", "ledger", "policy"}
      BY <1>2, <2>3, OriginIs DEF AllFiles, Slots
    <3>2. ~Differs(p, s) BY <2>4, <3>1 DEF Changes
    <3> QED BY <3>1, <3>2 DEF Differs, Slots
  <2>5. ASSUME NEW f \in RootFiles, f \notin Changes(p) PROVE p.root[f] = root[f]
    <3>1. f \in AllFiles /\ f \in DOMAIN root /\ f \notin DOMAIN papers
          /\ f \notin {"instance", "ledger", "policy"}
      BY <1>2, <2>3, OriginIs DEF AllFiles, Slots, RootFiles
    <3>2. ~Differs(p, f) BY <2>5, <3>1 DEF Changes
    <3> QED BY <3>1, <3>2 DEF Differs, Slots
  <2>6. /\ "instance" \notin Changes(p) => p.inst = inst
        /\ "ledger" \notin Changes(p) => p.takedowns = takedowns
        /\ "policy" \notin Changes(p) => p.policy = policy
    <3>1. \A f \in {"instance", "ledger", "policy"} :
            f \notin DOMAIN papers /\ f \notin DOMAIN root /\ f \in AllFiles
      BY <1>2, <2>3, OriginIs DEF AllFiles, RootFiles, Slots
    <3> QED BY <3>1 DEF Changes, Differs, Slots
  <2>7. c.papers = papers /\ c.inst = inst /\ c.takedowns = takedowns /\ c.policy = policy
        /\ c.root = root
    BY <1>3 DEF WorkingCopy
  <2>8. Origin' = Origin BY <1>1 DEF Origin
  <2>9. papers' = [s \in DOMAIN Origin |-> IF s \in left THEN c.papers[s] ELSE plan'.papers[s]]
    BY <1>1, <1>3, <2>1, <2>3, <2>4, <2>7
  <2>10. root' = [f \in RootFiles |-> IF f \in left THEN c.root[f] ELSE plan'.root[f]]
    BY <1>1, <1>3, <2>1, <2>3, <2>5, <2>7
  <2>11. /\ inst' = IF "instance" \in left THEN c.inst ELSE plan'.inst
         /\ takedowns' = IF "ledger" \in left THEN c.takedowns ELSE plan'.takedowns
         /\ policy' = IF "policy" \in left THEN c.policy ELSE plan'.policy
    BY <1>1, <1>3, <2>1, <2>6, <2>7
  <2> QED BY <1>1, <1>5, <2>1, <2>2, <2>7, <2>8, <2>9, <2>10, <2>11 DEF Midway
<1>10. outcome' = "writing" => \E d : Midway(d, todo)'
  <2>1. SUFFICES ASSUME outcome' = "writing" PROVE Midway(c, todo)'
    OBVIOUS
  <2> QED BY <1>3, <1>9, <2>1 DEF Midway
<1> QED BY <1>5, <1>6, <1>7, <1>8, <1>9, <1>10 DEF MigrateInv
\* In which turn a file is written.
LEMMA TurnIs ==
    ASSUME Started, NEW p, DOMAIN papers = DOMAIN Origin, DOMAIN root = RootFiles
    PROVE  /\ Turn(p, "instance") = 9
           /\ \A f : f # "instance" => Turn(p, f) \in 1..8
           /\ Turn(p, "ledger") = 2
           /\ \A s \in DOMAIN Origin : Turn(p, s) = IF Present(p.papers[s]) THEN 1 ELSE 8
<1>1. \A f \in {"instance", "ledger"} : f \notin DOMAIN Origin /\ f \notin RootFiles
  BY OriginIs DEF RootFiles
<1>2. \A s \in DOMAIN Origin : s # "instance" /\ s \notin RootFiles BY OriginIs
<1>3. Turn(p, "instance") = 9 BY DEF Turn
<1>4. ASSUME NEW f, f # "instance" PROVE Turn(p, f) \in 1..8
  <2>1. CASE Deletes(p, f) BY <1>4, <2>1 DEF Turn
  <2>2. CASE ~Deletes(p, f)
    <3>1. CASE f \in Slots
      <4>1. f \notin RootFiles /\ f \notin {"ledger", "policy"}
        BY <3>1, OriginIs DEF Slots
      <4> QED BY <1>4, <2>2, <3>1, <4>1 DEF Turn, RootFiles
    <3>2. CASE f \notin Slots BY <1>4, <2>2, <3>2 DEF Turn
    <3> QED BY <3>1, <3>2
  <2> QED BY <2>1, <2>2
<1>5. Turn(p, "ledger") = 2 BY <1>1 DEF Turn, Deletes, Slots
<1>6. ASSUME NEW s \in DOMAIN Origin PROVE Turn(p, s) = IF Present(p.papers[s]) THEN 1 ELSE 8
  <2>1. s \notin RootFiles /\ s \notin {"instance", "ledger", "policy"} BY OriginIs
  <2>2. Deletes(p, s) <=> ~Present(p.papers[s]) BY <2>1 DEF Deletes, Slots
  <2> QED BY <2>1, <2>2 DEF Turn, Slots, RootFiles
<1> QED BY <1>3, <1>4, <1>5, <1>6

\* A file that is written leaves the run on its way: no reserved name loses its prose before
\* the overview and the ledger have it, and the instance is the last to be written.
LEMMA WriteKeeps ==
    ASSUME MigrateInv, WriteNext
    PROVE  MigrateInv'
<1>1. PICK f \in todo :
        /\ \A g \in todo : Turn(plan, f) <= Turn(plan, g)
        /\ papers' = IF f \in Slots THEN [papers EXCEPT ![f] = plan.papers[f]] ELSE papers
        /\ root' = IF f \in DOMAIN root THEN [root EXCEPT ![f] = plan.root[f]] ELSE root
        /\ inst' = IF f = "instance" THEN plan.inst ELSE inst
        /\ takedowns' = IF f = "ledger" THEN plan.takedowns ELSE takedowns
        /\ policy' = IF f = "policy" THEN plan.policy ELSE policy
        /\ todo' = todo \ {f}
        /\ outcome' = IF todo = {f} THEN "done" ELSE outcome
        /\ UNCHANGED <<plan, opts, runs, denyRows, acts, first>>
  BY DEF WriteNext
<1>2. PICK c, left : Midway(c, todo) /\ left = todo \ {f} BY <1>1 DEF MigrateInv
<1>3. Started /\ outcome = "writing" BY <1>1 DEF MigrateInv
<1>4. Started' /\ CheckoutInv(c)' /\ ~Declined(c, opts)' /\ plan' = PlanFor(c, opts)'
      /\ opts' \in Options
  <2>1. CheckoutInv(c) /\ ~Declined(c, opts) /\ plan = PlanFor(c, opts) /\ opts \in Options
    BY <1>2 DEF Midway
  <2> QED BY <1>1, <1>3, <2>1, SoundAlike
<1>5. Origin' = Origin BY <1>1 DEF Origin
<1>6. /\ papers = [s \in DOMAIN Origin |-> IF s \in todo THEN c.papers[s] ELSE plan.papers[s]]
      /\ root = [g \in RootFiles |-> IF g \in todo THEN c.root[g] ELSE plan.root[g]]
      /\ inst = IF "instance" \in todo THEN c.inst ELSE plan.inst
      /\ takedowns = IF "ledger" \in todo THEN c.takedowns ELSE plan.takedowns
      /\ policy = IF "policy" \in todo THEN c.policy ELSE plan.policy
      /\ inst = c.inst
      /\ \A s \in Reserved : papers[s] # c.papers[s] =>
           takedowns = plan.takedowns /\ papers["overview"] = plan.papers["overview"]
  BY <1>1, <1>2 DEF Midway
<1>7. DOMAIN papers = DOMAIN Origin /\ DOMAIN root = RootFiles BY <1>6
<1>8. papers' = [s \in DOMAIN Origin |-> IF s \in left THEN c.papers[s] ELSE plan'.papers[s]]
  <2>1. \A s \in DOMAIN Origin :
          papers'[s] = IF s = f THEN plan.papers[s] ELSE papers[s]
    BY <1>1, <1>7 DEF Slots
  <2>2. papers' = [s \in DOMAIN Origin |-> papers'[s]]
    BY <1>1, <1>6, <1>7 DEF Slots
  <2>3. \A s \in DOMAIN Origin : s \in left <=> s \in todo /\ s # f BY <1>2
  <2>4. \A s \in DOMAIN Origin :
          papers'[s] = IF s \in left THEN c.papers[s] ELSE plan.papers[s]
    BY <1>6, <2>1, <2>3
  <2> QED BY <1>1, <2>2, <2>4
<1>9. root' = [g \in RootFiles |-> IF g \in left THEN c.root[g] ELSE plan'.root[g]]
  <2>1. \A g \in RootFiles : root'[g] = IF g = f THEN plan.root[g] ELSE root[g]
    BY <1>1, <1>7
  <2>2. root' = [g \in RootFiles |-> root'[g]] BY <1>1, <1>6, <1>7
  <2>3. \A g \in RootFiles : g \in left <=> g \in todo /\ g # f BY <1>2
  <2>4. \A g \in RootFiles : root'[g] = IF g \in left THEN c.root[g] ELSE plan.root[g]
    BY <1>6, <2>1, <2>3
  <2> QED BY <1>1, <2>2, <2>4
<1>10. /\ inst' = IF "instance" \in left THEN c.inst ELSE plan'.inst
       /\ takedowns' = IF "ledger" \in left THEN c.takedowns ELSE plan'.takedowns
       /\ policy' = IF "policy" \in left THEN c.policy ELSE plan'.policy
  BY <1>1, <1>2, <1>6
<1>11. left # {} => inst' = c.inst
  <2>1. f = "instance" => left = {}
    <3>1. \A g \in todo : f = "instance" => ~(Turn(plan, g) \in 1..8)
      BY <1>1, <1>3, <1>7, TurnIs
    <3>2. \A g \in todo : f = "instance" => g = "instance" BY <1>3, <1>7, <3>1, TurnIs
    <3> QED BY <1>2, <3>2
  <2> QED BY <1>1, <1>6, <2>1
<1>12. ASSUME NEW s \in Reserved, papers'[s] # c.papers[s]
       PROVE  takedowns' = plan'.takedowns /\ papers'["overview"] = plan'.papers["overview"]
  <2>1. s \in DOMAIN Origin /\ "overview" \in DOMAIN Origin /\ s # "overview"
    BY <1>3, OriginIs DEF Reserved
  <2>2. CASE papers[s] # c.papers[s]
    <3>1. takedowns = plan.takedowns /\ papers["overview"] = plan.papers["overview"]
      BY <1>6, <2>2
    <3>2. papers'["overview"] = plan.papers["overview"]
      BY <1>1, <1>7, <2>1, <3>1 DEF Slots
    <3> QED BY <1>1, <3>1, <3>2
  <2>3. CASE papers[s] = c.papers[s]
    <3>1. f = s /\ papers'[s] = plan.papers[s] BY <1>1, <1>7, <1>12, <2>1, <2>3 DEF Slots
    <3>2. Derives(c.papers, c.inst, opts) /\ plan.papers = Migrated(c.papers, c.inst, opts)
      BY <1>2, <1>3, OnItsWay
    <3>3. Prose(c.papers, s) /\ plan.papers[s] = Missing
      BY <1>3, <1>12, <2>1, <3>1, <3>2, PlannedIs
    <3>4. s \in Movers(c.papers) BY <2>1, <3>2, <3>3 DEF Movers, Derives, PapersInv
    <3>5. s \in Walked(c.papers) /\ s \in Walked(Origin) /\ ComesFrom(c.papers, s, s)
          /\ plan.papers["overview"] = Concept(c.papers[s], c.inst, opts)
      BY <1>3, <3>2, <3>4, MoverIs
    <3>6. Present(plan.papers["overview"])
      <4>1. plan.papers["overview"].text = c.papers[s].text BY <1>3, <3>2, <3>5, MadeOf
      <4> QED BY <3>5, <4>1 DEF Present, Walked
    <3>7. Turn(plan, s) = 8 /\ Turn(plan, "ledger") = 2 /\ Turn(plan, "overview") = 1
      BY <1>3, <1>7, <2>1, <3>3, <3>6, TurnIs DEF Missing, Present
    <3>8. "ledger" \notin todo /\ "overview" \notin todo BY <1>1, <3>1, <3>7
    <3>9. takedowns' = plan.takedowns BY <1>1, <1>6, <3>8
    <3>10. papers'["overview"] = plan.papers["overview"]
      BY <1>1, <1>6, <1>7, <2>1, <3>8 DEF Slots
    <3> QED BY <1>1, <3>9, <3>10
  <2> QED BY <2>2, <2>3
<1>13. Midway(c, left)' BY <1>4, <1>5, <1>8, <1>9, <1>10, <1>11, <1>12 DEF Midway
<1>14. CheckoutInv(WorkingCopy)' BY <1>4, <1>13, MidwayIsSoundThen
<1>15. Midway(c, todo)' BY <1>1, <1>2, <1>13 DEF Midway
<1>16. todo = {f} => left = {} BY <1>2
<1>17. outcome' = "done" => todo' = {} /\ Midway(c, {})'
  <2>1. outcome' = "done" => left = {} BY <1>1, <1>3, <1>16
  <2> QED BY <1>1, <1>2, <1>13, <2>1
<1>18. outcome' = "writing" => todo' # {} BY <1>1
<1>19. todo' # {} => outcome' = "writing" BY <1>1, <1>3
<1>20. outcome' # "stopped" BY <1>1, <1>3
<1> QED BY <1>4, <1>14, <1>15, <1>17, <1>18, <1>19, <1>20 DEF MigrateInv
\* A run that is stopped stays where it was.
LEMMA InterruptKeeps ==
    ASSUME MigrateInv, Interrupt
    PROVE  MigrateInv'
<1>1. /\ todo # {} /\ todo' = {} /\ outcome' = "stopped"
      /\ papers' = papers /\ inst' = inst /\ takedowns' = takedowns /\ policy' = policy
      /\ root' = root /\ plan' = plan /\ opts' = opts
      /\ denyRows' = denyRows /\ acts' = acts /\ first' = first
  BY DEF Interrupt
<1>2. PICK c, left : Midway(c, todo) /\ left = todo BY <1>1 DEF MigrateInv
<1>3. Started BY DEF MigrateInv
<1>4. Started' /\ CheckoutInv(c)' /\ ~Declined(c, opts)' /\ plan' = PlanFor(c, opts)'
      /\ opts' \in Options
  <2>1. CheckoutInv(c) /\ ~Declined(c, opts) /\ plan = PlanFor(c, opts) /\ opts \in Options
    BY <1>2 DEF Midway
  <2> QED BY <1>1, <1>3, <2>1, SoundAlike
<1>5. Origin' = Origin BY <1>1 DEF Origin
<1>6. Midway(c, left)
  BY <1>2 DEF Midway
<1>7. Midway(c, left)' BY <1>1, <1>4, <1>5, <1>6 DEF Midway
<1>8. CheckoutInv(WorkingCopy)' BY <1>4, <1>7, MidwayIsSoundThen
<1> QED BY <1>1, <1>2, <1>4, <1>7, <1>8 DEF MigrateInv

\* Between two runs a sound checkout is all that is asked for.
LEMMA BetweenKeeps ==
    ASSUME MigrateInv, Between, CheckoutInv(WorkingCopy)'
    PROVE  MigrateInv'
<1>1. todo' = {} /\ outcome' = "none" /\ first' = first /\ denyRows' = denyRows
  BY DEF Between
<1>2. Started' BY <1>1 DEF MigrateInv, Started
<1> QED BY <1>1, <1>2 DEF MigrateInv

\* A build writes the index where there was none that anybody wrote.
LEMMA BuildKeeps ==
    ASSUME MigrateInv, Build
    PROVE  MigrateInv'
<1>1. /\ Between /\ papers' = [papers EXCEPT !["index"] = GeneratedIndex]
      /\ inst' = inst /\ takedowns' = takedowns /\ root' = root /\ acts' = acts
      /\ first' = first /\ denyRows' = denyRows
      /\ \A s \in Walked(papers) : s \notin Reserved
  BY DEF Build, Between
<1>2. Started /\ PapersInv(papers) /\ InstInv(inst) /\ LedgerInv(takedowns) /\ RootInv(root)
      /\ HoldInv(papers, takedowns)
  BY DEF MigrateInv, CheckoutInv, WorkingCopy
<1>3. DOMAIN papers = DOMAIN Origin /\ "index" \in DOMAIN Origin /\ "overview" # "index"
      /\ "index" \in Reserved
  BY <1>2, OriginIs DEF PapersInv, Reserved
<1>4. ~Prose(papers, "index") BY <1>1, <1>3 DEF Prose, Walked
<1>5. /\ papers'["index"] = GeneratedIndex
      /\ \A s \in DOMAIN Origin : s # "index" => papers'[s] = papers[s]
  BY <1>1, <1>3
<1>6. "overview" \in DOMAIN Origin /\ papers'["overview"] = papers["overview"]
  BY <1>2, <1>3, <1>5, OriginIs
<1>7. Prose(Origin, "index") =>
        papers["index"] # Origin["index"] /\ papers["overview"].text = Origin["index"].text
  <2>1. Prose(Origin, "index") => papers["index"] # Origin["index"] BY <1>4 DEF Prose
  <2> QED BY <1>2, <1>3, <2>1, ReservedIs
<1>8. PICK t : t = papers' OBVIOUS
<1>9. PapersInv(t)
  <2>1. t = [s \in DOMAIN Origin |-> t[s]] BY <1>1, <1>2, <1>3, <1>8 DEF PapersInv
  <2>2. t["index"] = GeneratedIndex
        /\ (Prose(Origin, "index") => t["overview"].text = Origin["index"].text)
    BY <1>5, <1>6, <1>7, <1>8
  <2>3. ASSUME NEW s \in DOMAIN Origin, s # "index"
        PROVE  \/ t[s] = Origin[s]
               \/ /\ s \in Reserved /\ t[s] \in {Missing, GeneratedIndex}
                  /\ Prose(Origin, s) => t["overview"].text = Origin[s].text
               \/ \E r \in Walked(Origin) :
                    /\ Target(Origin, r) = s /\ Made(Origin[r], t[s])
                    /\ r # s => ~Present(Origin[s])
    <3>1. t[s] = papers[s] /\ t["overview"] = papers["overview"] BY <1>5, <1>6, <1>8, <2>3
    <3> QED BY <1>2, <3>1 DEF PapersInv
  <2> QED BY <1>3, <2>1, <2>2, <2>3 DEF PapersInv
<1>10. HoldInv(t, takedowns)
  <2>1. \A r \in denyRows :
          r.sid \in Reserved /\ Prose(Origin, r.sid) /\ t[r.sid] # Origin[r.sid]
            => papers[r.sid] # Origin[r.sid]
    <3>1. \A s \in Reserved : s \in DOMAIN Origin BY <1>2, OriginIs DEF Reserved
    <3> QED BY <1>5, <1>7, <1>8, <3>1
  <2> QED BY <1>2, <2>1 DEF HoldInv
<1>11. PICK c : c = [papers |-> t, inst |-> inst, takedowns |-> takedowns, policy |-> policy',
                     root |-> root]
  OBVIOUS
<1>12. CheckoutInv(c) BY <1>2, <1>9, <1>10, <1>11 DEF CheckoutInv
<1>13. CheckoutInv(c)' BY <1>1, <1>12, SoundAlike
<1>14. c = WorkingCopy' BY <1>1, <1>8, <1>11 DEF WorkingCopy
<1> QED BY <1>1, <1>13, <1>14, BetweenKeeps

\* Nobody can deny a reserved name, which has nothing of the profile.
LEMMA ForbidKeeps ==
    ASSUME MigrateInv, NEW s \in Slots, Forbid(s)
    PROVE  MigrateInv'
<1> DEFINE e == [sid |-> s, scope |-> "node", by |-> "taker", expected |-> "present"]
<1>1. /\ Between /\ Profile(papers[s])
      /\ takedowns' = [state |-> "read", entries |-> takedowns.entries \cup {e}]
      /\ acts' = acts \cup {e}
      /\ papers' = papers /\ inst' = inst /\ root' = root /\ policy' = policy
      /\ first' = first /\ denyRows' = denyRows
  BY DEF Forbid, Between
<1>2. Started /\ PapersInv(papers) /\ InstInv(inst) /\ LedgerInv(takedowns) /\ RootInv(root)
      /\ HoldInv(papers, takedowns)
  BY DEF MigrateInv, CheckoutInv, WorkingCopy
<1>3. s \in DOMAIN Origin BY <1>2 DEF Slots, PapersInv
<1>4. s \notin Reserved BY <1>1, <1>2, ReservedIs
<1>5. s # Section BY <1>2, <1>3, OriginIs
<1>6. takedowns'.entries = takedowns.entries \cup {e} /\ e.sid = s BY <1>1
<1> HIDE DEF e
<1>7. Origin' = Origin BY <1>1 DEF Origin
<1>8. AtLast' = AtLast BY <1>7 DEF AtLast
<1>9. LedgerInv(takedowns)'
  <2>1. acts' \subseteq takedowns'.entries BY <1>1, <1>2, <1>6 DEF LedgerInv
  <2>2. \A x \in takedowns'.entries : x.sid = Section => x.scope = "subtree"
    BY <1>2, <1>5, <1>6 DEF LedgerInv
  <2>3. takedowns'.entries \ acts' \subseteq takedowns.entries \ acts BY <1>1, <1>6
  <2>4. \A x \in takedowns'.entries \ acts' :
          x.expected = "present" <=> (x.sid = Section \/ x.sid \in AtLast')
    BY <1>2, <1>8, <2>3 DEF LedgerInv
  <2> QED BY <2>1, <2>2, <2>4 DEF LedgerInv
<1>10. HoldInv(papers, takedowns)'
  <2>1. \A x : x \in Accounted(takedowns) => x \in Accounted(takedowns)'
    BY <1>6 DEF Accounted
  <2>2. \A x \in Reserved : x \in Accounted(takedowns)' => x \in Accounted(takedowns)
    BY <1>4, <1>6 DEF Accounted
  <2>3. \A x : Holds(takedowns, x) => Holds(takedowns, x)' BY <1>6 DEF Holds
  <2>4. HoldInv(papers, takedowns) => HoldInv(papers, takedowns)'
    BY <1>1, <1>7, <2>1, <2>2, <2>3 DEF HoldInv
  <2> QED BY <1>2, <2>4
<1>11. PapersInv(papers)'
  <2>1. \A d, x : Made(d, x)' = Made(d, x) BY <1>1 DEF Made
  <2> QED BY <1>1, <1>2, <1>7, <2>1 DEF PapersInv
<1>12. InstInv(inst)' /\ RootInv(root)' BY <1>1, <1>2 DEF InstInv, RootInv
<1>13. CheckoutInv(WorkingCopy)' BY <1>9, <1>10, <1>11, <1>12 DEF CheckoutInv, WorkingCopy
<1> QED BY <1>1, <1>13, BetweenKeeps

\* What is restored is what the record began with.
LEMMA RestoreKeeps ==
    ASSUME MigrateInv, Restore
    PROVE  MigrateInv'
<1>1. /\ Between /\ papers' = Origin /\ inst' \in {inst, first.inst}
      /\ takedowns' = takedowns /\ root' = root /\ acts' = acts
      /\ first' = first /\ denyRows' = denyRows
  BY DEF Restore, Between, Origin
<1>2. Started /\ InstInv(inst) /\ LedgerInv(takedowns) /\ RootInv(root)
      /\ HoldInv(papers, takedowns)
  BY DEF MigrateInv, CheckoutInv, WorkingCopy
<1>3. PICK c : c = [papers |-> Origin, inst |-> inst', takedowns |-> takedowns,
                    policy |-> policy', root |-> root]
  OBVIOUS
<1>4. PapersInv(Origin) BY <1>2, OriginIs DEF PapersInv
<1>5. InstInv(c.inst)
  <2>1. c.inst \in {inst, first.inst} BY <1>1, <1>3
  <2> QED BY <1>2, <2>1 DEF InstInv
<1>6. HoldInv(Origin, takedowns) BY <1>2 DEF HoldInv
<1>7. CheckoutInv(c) BY <1>2, <1>3, <1>4, <1>5, <1>6 DEF CheckoutInv
<1>8. CheckoutInv(c)' BY <1>1, <1>7, SoundAlike
<1>9. c = WorkingCopy' BY <1>1, <1>3 DEF WorkingCopy
<1> QED BY <1>1, <1>8, <1>9, BetweenKeeps

\* A step of the record, its runs or the people between them.
LEMMA MigrateInvStep == MigrateInv /\ [MigrateNext]_migrateVars => MigrateInv'
<1> SUFFICES ASSUME MigrateInv, [MigrateNext]_migrateVars PROVE MigrateInv'
  OBVIOUS
<1>1. CASE \E o \in Options : Load(o) BY <1>1, LoadKeeps
<1>2. CASE WriteNext BY <1>2, WriteKeeps
<1>3. CASE Interrupt BY <1>3, InterruptKeeps
<1>4. CASE Build BY <1>4, BuildKeeps
<1>5. CASE Restore BY <1>5, RestoreKeeps
<1>6. CASE \E s \in Slots : Forbid(s) BY <1>6, ForbidKeeps
<1>7. CASE UNCHANGED migrateVars
  <2>1. /\ papers' = papers /\ inst' = inst /\ takedowns' = takedowns /\ policy' = policy
        /\ root' = root /\ todo' = todo /\ plan' = plan /\ opts' = opts /\ outcome' = outcome
        /\ denyRows' = denyRows /\ acts' = acts /\ first' = first
    BY <1>7 DEF migrateVars
  <2>2. WorkingCopy' = WorkingCopy BY <2>1 DEF WorkingCopy
  <2>3. Started' /\ CheckoutInv(WorkingCopy)'
    <3>1. PICK c : c = WorkingCopy OBVIOUS
    <3> QED BY <2>1, <2>2, <3>1, SoundAlike DEF MigrateInv
  <2>4. ASSUME NEW c, NEW left, Midway(c, left) PROVE Midway(c, left)'
    <3>1. CheckoutInv(c) /\ ~Declined(c, opts) /\ plan = PlanFor(c, opts) /\ opts \in Options
      BY <2>4 DEF Midway
    <3>2. CheckoutInv(c)' /\ ~Declined(c, opts)' /\ plan' = PlanFor(c, opts)' /\ opts' \in Options
      BY <2>1, <3>1, SoundAlike
    <3>3. Origin' = Origin BY <2>1 DEF Origin
    <3> QED BY <2>1, <2>4, <3>2, <3>3 DEF Midway
  <2>5. ASSUME NEW c, Midway(c, todo) PROVE Midway(c, todo)'
    <3>1. PICK left : left = todo OBVIOUS
    <3>2. Midway(c, left) BY <2>5, <3>1 DEF Midway
    <3>3. Midway(c, left)' BY <2>4, <3>2
    <3> QED BY <2>1, <3>1, <3>3 DEF Midway
  <2> QED BY <2>1, <2>3, <2>4, <2>5 DEF MigrateInv
<1> QED BY <1>1, <1>2, <1>3, <1>4, <1>5, <1>6, <1>7 DEF MigrateNext
\* The checkout is sound, and a run that is on its way, stopped or done is where it should be.
THEOREM MigrateInvHolds == MigrateSpec => []MigrateInv
<1>1. MigrateInit => MigrateInv BY MigrateBegins
<1>2. MigrateInv /\ [MigrateNext]_migrateVars => MigrateInv' BY MigrateInvStep
<1> QED BY <1>1, <1>2, PTL DEF MigrateSpec

-----------------------------------------------------------------------------
(* Who may have denied what a run transcribed. *)

\* The entries of a ledger that a run put there and a policy is to vouch for.
Owed(l) == l.entries \ (acts \cup unvouched)

\* A policy vouches for what the ledger owes; where there is none, either nothing is owed or
\* the run that is to write it plans one that vouches for all it leaves in the ledger.
AuthorityInv ==
    /\ policy.here => \A e \in Owed(takedowns) : e.by \in policy.take
    /\ ~policy.here /\ todo = {} => Owed(takedowns) = {}
    /\ todo # {} =>
         /\ plan.policy.here /\ (policy.here => plan.policy = policy)
         /\ \A e \in Owed(plan.takedowns) : e.by \in plan.policy.take
         /\ takedowns.entries \subseteq plan.takedowns.entries
         /\ ~policy.here => "policy" \in todo

\* The policy a run plans vouches for the entries it adds.
LEMMA PlanVouches ==
    ASSUME NEW o \in Options, ~Overreaches(papers, inst, takedowns, policy, o),
           policy.here => \A e \in Owed(takedowns) : e.by \in policy.take,
           ~policy.here => Owed(takedowns) = {}
    PROVE  LET p == PlanFor(WorkingCopy, o) IN
           /\ p.policy.here /\ (policy.here => p.policy = policy)
           /\ \A e \in Owed(p.takedowns) : e.by \in p.policy.take
           /\ takedowns.entries \subseteq p.takedowns.entries
<1> DEFINE p == PlanFor(WorkingCopy, o)
           new == Denials(papers, inst, takedowns, o)
           who == Takers(papers, inst, takedowns, o)
<1>1. p.takedowns.entries = takedowns.entries \cup new
  <2>1. p.takedowns = NewLedger(papers, inst, takedowns, o) BY DEF PlanFor, WorkingCopy
  <2> HIDE DEF p
  <2> QED BY <2>1 DEF NewLedger
<1>2. p.policy = IF policy.here THEN policy ELSE NewPolicy(papers, inst, takedowns, o)
  BY DEF PlanFor, WorkingCopy
<1>3. \A e \in new : e.by \in who BY DEF Takers
<1>4. policy.here => who \subseteq policy.take BY DEF Overreaches
<1>5. ~policy.here => p.policy.here /\ who \subseteq p.policy.take BY <1>2 DEF NewPolicy
<1> HIDE DEF p, new, who
<1>6. \A e \in Owed(p.takedowns) : e \in Owed(takedowns) \/ e \in new BY <1>1 DEF Owed
<1>7. \A e \in Owed(p.takedowns) : e.by \in p.policy.take
  <2>1. CASE policy.here BY <1>2, <1>3, <1>4, <1>6, <2>1
  <2>2. CASE ~policy.here BY <1>3, <1>5, <1>6, <2>2
  <2> QED BY <2>1, <2>2
<1> QED BY <1>1, <1>2, <1>5, <1>7 DEF p

\* A run that starts to write has to write a policy where there is none.
LEMMA LoadVouches ==
    ASSUME MigrateInv, AuthorityInv, NEW o \in Options, Load(o)
    PROVE  AuthorityInv'
<1>1. /\ todo = {} /\ plan' = PlanFor(WorkingCopy, o)
      /\ policy' = policy /\ takedowns' = takedowns /\ acts' = acts /\ unvouched' = unvouched
  BY DEF Load
<1>2. Owed(takedowns)' = Owed(takedowns) BY <1>1 DEF Owed
<1>3. CASE todo' = {} BY <1>1, <1>2, <1>3 DEF AuthorityInv
<1>4. CASE todo' # {}
  <2>1. ~Declined(WorkingCopy, o) /\ todo' = Changes(plan') BY <1>4, <1>1 DEF Load
  <2>2. ~Overreaches(papers, inst, takedowns, policy, o) BY <2>1 DEF Declined, WorkingCopy
  <2>3. /\ plan'.policy.here /\ (policy.here => plan'.policy = policy)
        /\ \A e \in Owed(plan'.takedowns) : e.by \in plan'.policy.take
        /\ takedowns.entries \subseteq plan'.takedowns.entries
    BY <1>1, <2>2, PlanVouches DEF AuthorityInv
  <2>4. "policy" \notin Slots /\ "policy" \notin DOMAIN root
    <3>1. Started /\ PapersInv(papers) /\ RootInv(root)
      BY DEF MigrateInv, CheckoutInv, WorkingCopy
    <3>2. "policy" \notin DOMAIN Origin BY <3>1, OriginIs
    <3> QED BY <3>1, <3>2 DEF PapersInv, Slots, RootInv, RootFiles
  <2>5. Differs(plan', "policy") <=> plan'.policy # policy BY <2>4 DEF Differs
  <2>6. ~policy.here => "policy" \in todo' BY <2>1, <2>3, <2>5 DEF Changes, AllFiles
  <2>7. Owed(plan.takedowns)' = Owed(plan'.takedowns) BY <1>1 DEF Owed
  <2> QED BY <1>1, <1>2, <1>4, <2>3, <2>6, <2>7 DEF AuthorityInv
<1> QED BY <1>3, <1>4

\* Whichever file is written, the policy vouches for what is in the ledger by then.
LEMMA WriteVouches ==
    ASSUME AuthorityInv, WriteNext
    PROVE  AuthorityInv'
<1>1. PICK f \in todo :
        /\ takedowns' = IF f = "ledger" THEN plan.takedowns ELSE takedowns
        /\ policy' = IF f = "policy" THEN plan.policy ELSE policy
        /\ todo' = todo \ {f}
        /\ plan' = plan /\ acts' = acts /\ unvouched' = unvouched
  BY DEF WriteNext
<1>2. /\ plan.policy.here /\ (policy.here => plan.policy = policy)
      /\ \A e \in Owed(plan.takedowns) : e.by \in plan.policy.take
      /\ takedowns.entries \subseteq plan.takedowns.entries
      /\ ~policy.here => "policy" \in todo
  BY <1>1 DEF AuthorityInv
<1>3. takedowns'.entries \subseteq plan.takedowns.entries BY <1>1, <1>2
<1>4. policy'.here => plan.policy = policy' BY <1>1, <1>2
<1>5. ~policy'.here => "policy" \in todo' BY <1>1, <1>2
<1>6. \A e \in Owed(takedowns)' : e \in Owed(plan.takedowns) BY <1>1, <1>3 DEF Owed
<1>7. Owed(plan.takedowns)' = Owed(plan.takedowns) BY <1>1 DEF Owed
<1>8. policy'.here => \A e \in Owed(takedowns)' : e.by \in policy'.take BY <1>2, <1>4, <1>6
<1> QED BY <1>1, <1>2, <1>3, <1>4, <1>5, <1>7, <1>8 DEF AuthorityInv

\* Every step: a run that is stopped owes nothing more, and people add acts of their own.
LEMMA AuthorityStep ==
    ASSUME MigrateInv, AuthorityInv, [MigrateNext]_migrateVars
    PROVE  AuthorityInv'
<1>1. CASE \E o \in Options : Load(o) BY <1>1, LoadVouches
<1>2. CASE WriteNext BY <1>2, WriteVouches
<1>3. CASE Interrupt
  <2>1. /\ todo' = {} /\ policy' = policy /\ takedowns' = takedowns /\ acts' = acts
        /\ unvouched' = IF policy.here THEN unvouched
                        ELSE unvouched \cup (takedowns.entries \ acts)
    BY <1>3 DEF Interrupt
  <2>2. Owed(takedowns)' \subseteq Owed(takedowns) BY <2>1 DEF Owed
  <2>3. ~policy.here => Owed(takedowns)' = {} BY <2>1 DEF Owed
  <2> QED BY <2>1, <2>2, <2>3 DEF AuthorityInv
<1>4. CASE Build \/ Restore \/ \E s \in Slots : Forbid(s)
  <2>1. todo = {} /\ todo' = {} /\ policy' = policy /\ unvouched' = unvouched
    BY <1>4 DEF Build, Restore, Forbid, Between
  <2>2. takedowns'.entries \ acts' \subseteq takedowns.entries \ acts
    BY <1>4 DEF Build, Restore, Forbid
  <2>3. Owed(takedowns)' \subseteq Owed(takedowns) BY <2>1, <2>2 DEF Owed
  <2> QED BY <2>1, <2>3 DEF AuthorityInv
<1>5. CASE UNCHANGED migrateVars
  <2>1. /\ takedowns' = takedowns /\ policy' = policy /\ todo' = todo /\ plan' = plan
        /\ acts' = acts /\ unvouched' = unvouched
    BY <1>5 DEF migrateVars
  <2> QED BY <2>1 DEF AuthorityInv, Owed
<1> QED BY <1>1, <1>2, <1>3, <1>4, <1>5 DEF MigrateNext

\* migrate/index.ts:477, 703-744: whoever denied what a run put in the ledger may deny under
\* the policy, for every record, ledger, rows and options, except where a run was stopped
\* between the two files.
THEOREM DeniersMayDenyHolds == MigrateSpec => []DeniersMayDeny
<1>1. MigrateInit => AuthorityInv BY DEF MigrateInit, AuthorityInv, Owed
<1>2. MigrateInv /\ AuthorityInv /\ [MigrateNext]_migrateVars => AuthorityInv' BY AuthorityStep
<1>3. AuthorityInv => DeniersMayDeny BY DEF AuthorityInv, DeniersMayDeny, Owed
<1> QED BY <1>1, <1>2, <1>3, MigrateInvHolds, PTL DEF MigrateSpec

-----------------------------------------------------------------------------
(* What the invariant says of the texts. *)

\* Every document's text is somewhere.
LEMMA TextsStay ==
    ASSUME Started, NEW t, PapersInv(t), NEW r \in Walked(Origin)
    PROVE  \E s \in DOMAIN Origin : t[s].text = Origin[r].text
<1>1. r \in DOMAIN Origin /\ Present(Origin[r]) /\ Origin[r].text # Generated
  BY DEF Walked
<1>2. CASE t[r] = Origin[r] BY <1>1, <1>2
<1>3. CASE r \in Reserved /\ t[r] # Origin[r]
  <2>1. Prose(Origin, r) BY <1>1, <1>3 DEF Prose
  <2> QED BY <1>3, <2>1, OriginIs, ReservedIs
<1>4. CASE r \notin Reserved /\ t[r] # Origin[r]
  <2>1. PICK q \in Walked(Origin) : Made(Origin[q], t[r]) /\ (q # r => ~Present(Origin[r]))
    BY <1>1, <1>4 DEF PapersInv
  <2>2. Made(Origin[r], t[r]) /\ Document(Origin[r]) BY <1>1, <2>1, OriginIs
  <2>3. t[r].text = Origin[r].text BY <2>2, ConceptIs DEF Made, Started
  <2> QED BY <1>1, <2>3
<1> QED BY <1>2, <1>3, <1>4

\* A text comes from the one document that had it.
LEMMA WhereItWas ==
    ASSUME Started, PapersInv(papers), NEW q \in Walked(Origin), NEW s \in SlotsOf(Origin[q].text)
    PROVE  s \in Walked(papers) /\ ComesFrom(papers, s, q)
<1>1. s \in DOMAIN papers /\ papers[s].text = Origin[q].text BY DEF SlotsOf, Slots
<1>2. s \in Walked(papers) BY <1>1 DEF Walked, Present
<1>3. PICK r \in Walked(Origin) : ComesFrom(papers, s, r) BY <1>2, WalkedIs
<1>4. r = q BY <1>1, <1>3, OriginIs DEF ComesFrom
<1> QED BY <1>2, <1>3, <1>4

\* In a sound checkout every text is kept, from the readers it was kept from, with its approval.
LEMMA NothingLostFollows == MigrateInv => NothingLostOrWidened
<1> SUFFICES ASSUME MigrateInv PROVE NothingLostOrWidened
  OBVIOUS
<1>1. Started /\ PapersInv(papers) /\ LedgerInv(takedowns)
  BY DEF MigrateInv, CheckoutInv, WorkingCopy
<1>2. DOMAIN papers = DOMAIN Origin BY <1>1 DEF PapersInv
<1>3. ASSUME NEW w \in TextsThen
      PROVE  /\ SlotsOf(w) # {}
             /\ \A s \in SlotsOf(w) :
                  /\ Profile(papers[s]) => papers[s].aud \subseteq ReadersOf(Was(w))
                  /\ Approval(w) # NoValue => papers[s].appr = Approval(w)
  <2> DEFINE q == CHOOSE s \in Slots : first.papers[s].text = w
  <2>1. q \in DOMAIN Origin /\ Origin[q].text = w /\ Was(w) = Origin[q]
    BY <1>2 DEF TextsThen, Slots, Origin, Was
  <2>2. q \in Walked(Origin) BY <2>1 DEF TextsThen, Walked, Present
  <2> HIDE DEF q
  <2>3. SlotsOf(w) # {} BY <1>1, <1>2, <2>1, <2>2, TextsStay DEF SlotsOf, Slots
  <2>4. ASSUME NEW s \in SlotsOf(w)
        PROVE  /\ Profile(papers[s]) => papers[s].aud \subseteq ReadersOf(Origin[q])
               /\ Origin[q].appr # NoValue => papers[s].appr = Origin[q].appr
    <3>1. ComesFrom(papers, s, q) BY <1>1, <2>1, <2>2, <2>4, WhereItWas
    <3>2. CASE papers[s] = Origin[q] BY <3>2 DEF Profile, ReadersOf
    <3>3. CASE Made(Origin[q], papers[s])
      <4>1. PICK o \in Options : papers[s] = Concept(Origin[q], first.inst, o)
        BY <3>3 DEF Made
      <4>2. Document(Origin[q]) /\ first.inst \in Insts BY <1>1, <2>1, OriginIs DEF Started
      <4> QED BY <4>1, <4>2, ConceptIs DEF ReadersOf
    <3> QED BY <3>1, <3>2, <3>3 DEF ComesFrom
  <2> QED BY <2>1, <2>3, <2>4 DEF Approval
<1> QED BY <1>1, <1>3 DEF NothingLostOrWidened, LedgerInv

\* A run that is done has accounted for the rows, and holds what they deny where it went.
LEMMA DenialsFollow == RowsAreRead /\ MigrateInv => DenialsFollowTheText
<1> SUFFICES ASSUME RowsAreRead, MigrateInv, outcome = "done", inst.database, opts.dsn = "up"
             PROVE  /\ \A r \in denyRows :
                         /\ r.sid \in Accounted(takedowns)
                         /\ r.sid \in Walked(first.papers) =>
                              \A s \in SlotsOf(first.papers[r.sid].text) : HeldAt(s)
                    /\ \A e \in takedowns.entries \ acts :
                         e.expected = "present" <=> e.sid = Section \/ e.sid \in Walked(papers)
  BY DEF DenialsFollowTheText
<1>1. Started /\ PapersInv(papers) /\ LedgerInv(takedowns) /\ HoldInv(papers, takedowns)
  BY DEF MigrateInv, CheckoutInv, WorkingCopy
<1>2. PICK c : Midway(c, {}) BY DEF MigrateInv
<1>3. \A s \in Walked(papers) : Target(papers, s) = s
  BY <1>1, <1>2, NothingToDo DEF Movers, Walked, Target
<1>4. \A r \in denyRows : r.sid \in Accounted(takedowns)
  <2>1. \A r \in denyRows : r.sid \in Accounted(NewLedger(c.papers, c.inst, c.takedowns, opts))
    BY <1>1, <1>2, OnItsWay, NoneLeft
  <2>2. takedowns = NewLedger(c.papers, c.inst, c.takedowns, opts)
    BY <1>1, <1>2, OnItsWay, NothingToDo
  <2> QED BY <2>1, <2>2
<1>5. ASSUME NEW r \in denyRows, r.sid \in Walked(Origin), NEW s \in SlotsOf(Origin[r.sid].text)
      PROVE  HeldAt(s)
  <2>1. s \in Walked(papers) /\ ComesFrom(papers, s, r.sid) BY <1>1, <1>5, WhereItWas
  <2>2. s = Target(Origin, r.sid) BY <1>3, <2>1 DEF ComesFrom
  <2>3. CASE Prose(Origin, r.sid)
    <3>1. s = "overview" /\ r.sid \in Reserved BY <2>2, <2>3 DEF Target, Prose
    <3>2. Holds(takedowns, "overview") BY <1>1, <1>4, <2>3, <3>1 DEF HoldInv
    <3> QED BY <3>1, <3>2 DEF Holds, HeldAt
  <2>4. CASE ~Prose(Origin, r.sid)
    <3>1. s = r.sid BY <2>2, <2>4 DEF Target
    <3> QED BY <1>4, <3>1 DEF Accounted, HeldAt
  <2> QED BY <2>3, <2>4
<1>6. AtLast = Walked(papers)
  <2>1. AtLast = {Target(papers, s) : s \in Walked(papers)} BY <1>1, Landing
  <2> QED BY <1>3, <2>1
<1> QED BY <1>1, <1>4, <1>5, <1>6 DEF Origin, LedgerInv
\* Whatever directories, ledgers and rows there are, and whatever is run, stopped, restored,
\* built and denied between: no text is in no file, none has more readers than its author's
\* record gave it, no approval is replaced and no act is gone from the ledger; those who denied
\* what a run transcribed may deny, unless it was stopped between the ledger and the policy; and
\* when every run reads the database, a run that finished holds every denied text where it went.
THEOREM RecordSurvivesHolds == RowsAreRead => (MigrateSpec => []RecordSurvives)
<1>1. RowsAreRead /\ MigrateInv => NothingLostOrWidened /\ DenialsFollowTheText
  BY NothingLostFollows, DenialsFollow
<1>2. RowsAreRead => [](MigrateInv => NothingLostOrWidened /\ DenialsFollowTheText)
  <2> SUFFICES ASSUME RowsAreRead
               PROVE  [](MigrateInv => NothingLostOrWidened /\ DenialsFollowTheText)
    OBVIOUS
  <2>1. MigrateInv => NothingLostOrWidened /\ DenialsFollowTheText BY <1>1
  <2> QED BY <2>1, PTL
<1>3. NothingLostOrWidened /\ DenialsFollowTheText /\ DeniersMayDeny => RecordSurvives
  BY DEF RecordSurvives
<1> QED BY <1>2, <1>3, MigrateInvHolds, DeniersMayDenyHolds, PTL

\* A run that finished finds nothing left to do, and one that was stopped can be run again
\* unless it has copied a reserved name's text and not deleted it, as long as no document
\* points at a reserved name.
THEOREM RerunsSettleHolds == PointersStay => (MigrateSpec => []RerunsSettle)
<1>1. PointersStay /\ MigrateInv => RerunsSettle
  <2> SUFFICES ASSUME PointersStay, MigrateInv PROVE RerunsSettle
    OBVIOUS
  <2>1. Started BY DEF MigrateInv
  <2>2. ASSUME outcome = "done"
        PROVE  ~Declined(WorkingCopy, opts) /\ Changes(PlanFor(WorkingCopy, opts)) = {}
    <3>1. PICK c : Midway(c, {}) BY <2>2 DEF MigrateInv
    <3>2. Movers(papers) = {} /\ Changes(PlanFor(WorkingCopy, opts)) = {} BY <2>1, <3>1, NothingToDo
    <3>3. ~HalfMoved BY <3>2 DEF HalfMoved
    <3> QED BY <2>1, <3>1, <3>2, <3>3, NotDeclined
  <2>3. ASSUME outcome = "stopped", ~HalfMoved PROVE ~Declined(WorkingCopy, opts)
    <3>1. PICK c, left : Midway(c, left) BY <2>3 DEF MigrateInv
    <3> QED BY <2>1, <2>3, <3>1, NotDeclined
  <2> QED BY <2>2, <2>3 DEF RerunsSettle
<1>2. PointersStay => [](MigrateInv => RerunsSettle)
  <2> SUFFICES ASSUME PointersStay PROVE [](MigrateInv => RerunsSettle)
    OBVIOUS
  <2>1. MigrateInv => RerunsSettle BY <1>1
  <2> QED BY <2>1, PTL
<1> QED BY <1>2, MigrateInvHolds, PTL

=============================================================================
