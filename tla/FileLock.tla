------------------------------ MODULE FileLock ------------------------------
(***************************************************************************)
(* The advisory lock file of `ksor takedown` (ledger-file.ts) and of the   *)
(* site's staging (stage-knowledge.ts), one primitive written twice.       *)
(*                                                                         *)
(* The file is created with `wx`, stamped with the holder's pid in a       *)
(* second system call, judged abandoned by a waiter that reads a pid and   *)
(* then finds no such process, or finds the file blank twice, and removed  *)
(* by name by whoever breaks or releases it.  Each action is one system    *)
(* call; a process may be killed between any two, and its pid recycled.    *)
(* A module that EXTENDS this one does its work between Stamp and Release. *)
(***************************************************************************)
EXTENDS Integers, FiniteSets, SequencesExt

CONSTANTS
    Procs,      \* processes, each takes the lock once
    GiveUp,     \* bound: polls before a waiter refuses (GIVE_UP_MS / POLL_MS)
    Kills,      \* TRUE: processes may be killed
    Nobody      \* owner of no lock

ASSUME LockAssumption == GiveUp \in Nat /\ Kills \in BOOLEAN /\ Nobody \notin Procs

VARIABLES
    lock,       \* who created the lock file there is, and whether it is stamped
    pc, waited, \* control of a process; polls it has waited
    seen,       \* whose lock a process found when it last read the lock file
    recycled    \* ended processes whose pid is somebody else's now

lockVars == <<lock, pc, waited, seen, recycled>>

Free == [owner |-> Nobody, stamped |-> FALSE]
Ends == {"done", "refused", "killed"}

LockTypeOK(steps) ==
    /\ lock \in [owner : Procs \cup {Nobody}, stamped : BOOLEAN]
    /\ pc \in [Procs -> steps \cup Ends
                 \cup {"try", "stamp", "release", "exit", "look", "look again", "probe", "break", "wait"}]
    /\ waited \in [Procs -> 0..GiveUp]
    /\ seen \in [Procs -> Procs \cup {Nobody}]
    /\ recycled \subseteq Procs

LockInit ==
    /\ lock = Free
    /\ pc = [p \in Procs |-> "try"] /\ waited = [p \in Procs |-> 0]
    /\ seen = [p \in Procs |-> Nobody] /\ recycled = {}

Goto(p, s) == pc' = [pc EXCEPT ![p] = s]

\* A step of the work done inside the lock.
Work(p, from, to) ==
    /\ pc[p] = from /\ Goto(p, to)
    /\ UNCHANGED <<lock, waited, seen, recycled>>

\* A signal-0 probe of the pid in the lock finds no process.
Gone(q) == pc[q] \in Ends /\ q \notin recycled

-----------------------------------------------------------------------------
\* writeFileSync(lockFile, pid, wx): create-if-absent ...
TryCreate(p) ==
    /\ pc[p] = "try"
    /\ IF lock = Free
         THEN lock' = [owner |-> p, stamped |-> FALSE] /\ Goto(p, "stamp")
         ELSE Goto(p, "look") /\ UNCHANGED lock
    /\ UNCHANGED <<waited, seen, recycled>>

\* ... and the pid, written through the handle: a lock file that was removed
\* meanwhile, or replaced by another process's, is not touched.
Stamp(p) ==
    /\ pc[p] = "stamp"
    /\ lock' = IF lock.owner = p THEN [lock EXCEPT !.stamped = TRUE] ELSE lock
    /\ Goto(p, "enter")
    /\ UNCHANGED <<waited, seen, recycled>>

\* A blank lock gets a second look; blank again, it is broken.
AfterBlank(p) == IF pc[p] = "look" THEN "look again" ELSE "break"

\* abandoned(): read the stamp.  The two polls between the looks are longer
\* than a live holder takes to stamp the lock found blank at the first.
Look(p) ==
    /\ pc[p] \in {"look", "look again"}
    /\ pc[p] = "look again" =>
         ~(lock.owner = seen[p] /\ pc[seen[p]] = "stamp")
    /\ seen' = [seen EXCEPT ![p] = lock.owner]
    /\ Goto(p, IF lock = Free THEN "wait"
               ELSE IF lock.stamped THEN "probe" ELSE AfterBlank(p))
    /\ UNCHANGED <<lock, waited, recycled>>

\* Variant: a dead pid is waited for, and the polls are not counted.
ProbeForever(p) == IF Gone(seen[p]) THEN "try" ELSE "wait"

\* Signal 0 to the pid that was read: only "gone" breaks the lock.
AfterProbe(p) == IF Gone(seen[p]) THEN "break" ELSE "wait"

Probe(p) ==
    /\ pc[p] = "probe"
    /\ Goto(p, AfterProbe(p))
    /\ UNCHANGED <<lock, waited, seen, recycled>>

\* rmSync by name: whatever lock is there by now.
Break(p) ==
    /\ pc[p] = "break"
    /\ lock' = Free
    /\ Goto(p, "try")
    /\ UNCHANGED <<waited, seen, recycled>>

\* One poll, while the process may wait; else the refusal.
Wait(p, may) ==
    /\ pc[p] = "wait"
    /\ IF may
         THEN Goto(p, "try") /\ waited' = [waited EXCEPT ![p] = @ + 1]
         ELSE Goto(p, "refused") /\ UNCHANGED waited
    /\ UNCHANGED <<lock, seen, recycled>>

\* The finally: rmSync by name again.
Release(p) ==
    /\ pc[p] = "release"
    /\ lock' = Free
    /\ Goto(p, "exit")
    /\ UNCHANGED <<waited, seen, recycled>>

\* Ctrl-C, a cancelled job, an OOM: nothing runs after it.
Kill(p) ==
    /\ Kills /\ pc[p] \notin Ends
    /\ Goto(p, "killed")
    /\ recycled' \in {recycled, recycled \cup {p}}
    /\ UNCHANGED <<lock, waited, seen>>

\* Everything that takes and gives back the lock, but Wait.
Locking(p) ==
    TryCreate(p) \/ Stamp(p) \/ Look(p) \/ Probe(p) \/ Break(p) \/ Release(p)
=============================================================================
