----------------------------- MODULE LedgerLock -----------------------------
(***************************************************************************)
(* Several `ksor takedown` processes writing one ledger file               *)
(* (packages/content/src/ledger-file.ts): the text is read inside the      *)
(* lock, the entry decided from it and appended with O_APPEND.             *)
(***************************************************************************)
EXTENDS FileLock

VARIABLES
    ledger,     \* the acts in the file, in order
    text        \* the ledger a process read

vars == <<lockVars, ledger, text>>

TypeOK ==
    /\ LockTypeOK({"enter", "append"})
    /\ ledger \in Seq(Procs)
    /\ text \in [Procs -> Seq(Procs)]

Init ==
    /\ LockInit
    /\ ledger = <<>> /\ text = [p \in Procs |-> <<>>]

-----------------------------------------------------------------------------
\* A process refuses on its own wait alone: nothing is recorded or claimed.
MayWait(p) == waited[p] < GiveUp

\* The text is read inside the lock ...
Read(p) ==
    /\ Work(p, "enter", "append")
    /\ text' = [text EXCEPT ![p] = ledger]
    /\ UNCHANGED ledger

\* Variant: the file rewritten whole from the text that was read.
WriteWhole(p) == Append(text[p], p)

\* writeLedgerEntry: O_APPEND, after whatever is there.
Written(p) == Append(ledger, p)

AppendEntry(p) ==
    /\ Work(p, "append", "release")
    /\ ledger' = Written(p)
    /\ UNCHANGED text

\* The rest of the verb needs no lock; then the process is gone.
Exit(p) == Work(p, "exit", "done") /\ UNCHANGED <<ledger, text>>

Step(p) ==
    \/ (Locking(p) \/ Wait(p, MayWait(p))) /\ UNCHANGED <<ledger, text>>
    \/ Read(p) \/ AppendEntry(p) \/ Exit(p)

Next == \E p \in Procs : Step(p) \/ (Kill(p) /\ UNCHANGED <<ledger, text>>)

\* A process that is not killed keeps running.
Spec == Init /\ [][Next]_vars /\ \A p \in Procs : WF_vars(Step(p))

-----------------------------------------------------------------------------
\* The process has an act in the file; it has not two.
Recorded(p) == \E i \in DOMAIN ledger : ledger[i] = p
Once(p) == \A i, j \in DOMAIN ledger : ledger[i] = p /\ ledger[j] = p => i = j

\* Every act that was claimed is in the file once and no refused run left one,
\* whoever broke or ignored whose lock (ledger-file.ts:20-26).
ActsKept ==
    \A p \in Procs :
        /\ pc[p] \in {"release", "exit", "done"} => Recorded(p) /\ Once(p)
        /\ pc[p] = "refused" => ~Recorded(p)

\* One `ksor takedown` writes the ledger at a time (ledger-file.ts:71).
OneWriter ==
    \A p, q \in Procs :
        {pc[p], pc[q]} \subseteq {"stamp", "enter", "append", "release"} => p = q

\* Nobody waits for ever on a corpse, not even one that died before stamping
\* or whose pid is in use again: every run that lives ends.
EveryRunEnds == \A p \in Procs : <>(pc[p] \in Ends)
=============================================================================
