------------------------------ MODULE Staging ------------------------------
(***************************************************************************)
(* The evaluations of one site build staging the record                    *)
(* (templates/scaffold/system/site/lib/stage-knowledge.ts).                *)
(*                                                                         *)
(* A build evaluates source.config.ts in several processes.  Each plans    *)
(* the files this viewer may read, holds the stage lock, and unless the    *)
(* stage holds the plan already, removes the stage and refills it in       *)
(* place, one file at a time; then it reads the stage for as long as it    *)
(* lives.  The plan is a function of the record, so one build has one.     *)
(***************************************************************************)
EXTENDS Integers, FiniteSets, SequencesExt

CONSTANTS
    Evaluations, \* the processes that evaluate source.config.ts
    MaxPolls,    \* bound: polls before an evaluation refuses
    Mortal,      \* TRUE: evaluations may be killed
    Unowned,     \* owner of no lock
    Plan,        \* the files of this build's plan, in order
    Files,       \* every file a stage may hold, an earlier build's included
    Sims         \* the files that are simulations, served from public/sims

ASSUME StagingAssumption ==
    /\ MaxPolls \in Nat /\ Mortal \in BOOLEAN /\ Unowned \notin Evaluations
    /\ Plan \in Seq(Files) /\ Sims \subseteq Files

VARIABLES
    stageLock,  \* the lock file: this and the next four are FileLock's
    stagePc, stageWaited, stageSeen, stageRecycled,
    refusal,    \* the record is refused: planStage throws
    stage,      \* the bytes of each staged file
    manifest,   \* the bytes of the stage's manifest
    sims,       \* the simulations under public/sims
    next,       \* the plan entry a process writes next
    result      \* what an evaluation answered

Mutex == INSTANCE FileLock WITH
    Procs <- Evaluations, GiveUp <- MaxPolls, Kills <- Mortal, Nobody <- Unowned,
    lock <- stageLock, pc <- stagePc, waited <- stageWaited, seen <- stageSeen,
    recycled <- stageRecycled

work == <<refusal, stage, manifest, sims, next, result>>
stagingVars == <<stageLock, stagePc, stageWaited, stageSeen, stageRecycled, work>>

Planned == Range(Plan)
Bytes == {"absent", "old", "now"}
Wanted == [f \in Files |-> IF f \in Planned THEN "now" ELSE "absent"]
Unstaged == [f \in Files |-> "absent"]

StagingTypeOK ==
    /\ Mutex!LockTypeOK({"enter", "wipe", "unlist", "fill", "list", "publish", "prune"})
    /\ refusal \in BOOLEAN /\ stage \in [Files -> Bytes] /\ manifest \in Bytes
    /\ sims \subseteq Sims
    /\ next \in [Evaluations -> 1..(Len(Plan) + 1)]
    /\ result \in [Evaluations -> {"none", "staged", "refused"}]

\* Whatever earlier builds, for whatever viewers, finished or not, left there.
StagingInit ==
    /\ Mutex!LockInit
    /\ refusal \in BOOLEAN
    /\ stage \in [Files -> Bytes] /\ manifest \in {"absent", "old"}
    /\ sims \in SUBSET Sims
    /\ next = [p \in Evaluations |-> 1] /\ result = [p \in Evaluations |-> "none"]

-----------------------------------------------------------------------------
MayPoll(p) == stageWaited[p] < MaxPolls

\* The process has waited too long, or the lock is too old to believe in.
GiveOrWait(p) ==
    Mutex!Wait(p, MayPoll(p)) \/ (stageLock # Mutex!Free /\ Mutex!Wait(p, FALSE))

\* stageHolds: byte for byte, and not a file more.
StageHolds == stage = Wanted

\* planStage and the comparison: wipe, keep, or refuse.
Enter(p) ==
    /\ \/ refusal /\ Mutex!Work(p, "enter", "wipe")
       \/ ~refusal /\ StageHolds /\ Mutex!Work(p, "enter", "list")
       \/ ~refusal /\ ~StageHolds /\ Mutex!Work(p, "enter", "wipe")
    /\ UNCHANGED work

\* removeStage: the files one after another ...
WipeOne(p) ==
    /\ \E f \in Files :
          /\ stage[f] # "absent"
          /\ stage' = [stage EXCEPT ![f] = "absent"]
    /\ Mutex!Work(p, "wipe", "wipe")
    /\ UNCHANGED <<refusal, manifest, sims, next, result>>

\* Variant: only what the plan names is removed.
EmptiedOfPlan == \A f \in Planned : stage[f] = "absent"

Emptied == stage = Unstaged

\* ... the directory once it is empty ...
Wiped(p) ==
    /\ Emptied /\ Mutex!Work(p, "wipe", "unlist")
    /\ UNCHANGED work

\* ... and the manifest.  A refusal is thrown after it.
Unlist(p) ==
    /\ manifest' = "absent"
    /\ \/ refusal /\ Mutex!Work(p, "unlist", "release")
                  /\ result' = [result EXCEPT ![p] = "refused"]
       \/ ~refusal /\ Mutex!Work(p, "unlist", "fill") /\ UNCHANGED result
    /\ UNCHANGED <<refusal, stage, sims, next>>

\* One entry of the plan.
FillOne(p) ==
    /\ next[p] <= Len(Plan)
    /\ stage' = [stage EXCEPT ![Plan[next[p]]] = "now"]
    /\ next' = [next EXCEPT ![p] = @ + 1]
    /\ Mutex!Work(p, "fill", "fill")
    /\ UNCHANGED <<refusal, manifest, sims, result>>

Filled(p) ==
    /\ next[p] > Len(Plan) /\ Mutex!Work(p, "fill", "list")
    /\ UNCHANGED work

\* writeManifest, on every evaluation.
ListPlan(p) ==
    /\ Mutex!Work(p, "list", "publish")
    /\ manifest' = "now"
    /\ UNCHANGED <<refusal, stage, sims, next, result>>

SimsOfStage == {f \in Sims : stage[f] # "absent"}

\* publishSims: copy what the stage holds ...
PublishSims(p) ==
    /\ Mutex!Work(p, "publish", "prune")
    /\ sims' = sims \cup SimsOfStage
    /\ UNCHANGED <<refusal, stage, manifest, next, result>>

\* ... and remove what it did not publish.
StillStaged == sims \cap SimsOfStage

PruneSims(p) ==
    /\ Mutex!Work(p, "prune", "release")
    /\ sims' = StillStaged
    /\ result' = [result EXCEPT ![p] = "staged"]
    /\ UNCHANGED <<refusal, stage, manifest, next>>

\* The evaluation has read what it needs; a refused one stops at once.
Leave(p) == Mutex!Work(p, "exit", "done") /\ UNCHANGED work

StagingStep(p) ==
    \/ (Mutex!Locking(p) \/ GiveOrWait(p)) /\ UNCHANGED work
    \/ Enter(p) \/ WipeOne(p) \/ Wiped(p) \/ Unlist(p) \/ FillOne(p) \/ Filled(p)
    \/ ListPlan(p) \/ PublishSims(p) \/ PruneSims(p) \/ Leave(p)

StagingNext == \E p \in Evaluations : StagingStep(p) \/ (Mutex!Kill(p) /\ UNCHANGED work)

StagingSpec ==
    StagingInit /\ [][StagingNext]_stagingVars
    /\ \A p \in Evaluations : WF_stagingVars(StagingStep(p))

-----------------------------------------------------------------------------
Reading(p) == stagePc[p] = "exit" /\ result[p] = "staged"

\* An evaluation that staged the record reads exactly the record, for as long
\* as it reads: never a stage another one is refilling, never a short one
\* (stage-knowledge.ts:505-521, 606-619).
ReaderSeesThePlan ==
    \A p \in Evaluations : Reading(p) => stage = Wanted /\ manifest = "now"

\* No refusal leaves an earlier, more permissive stage on disk (:651-653).
RefusalLeavesNothing ==
    \A p \in Evaluations : result[p] = "refused" => stage = Unstaged /\ manifest = "absent"

\* Unstaged under public/sims is another viewer's or a withdrawn document's
\* (:867-883), and nothing of this build's is missing.
SimsAreThisBuilds == \A p \in Evaluations : Reading(p) => sims = Sims \cap Planned

\* The stage is this build's: whoever reads it reads the plan and the plan's
\* simulations, and a refusal leaves nothing to read.
StageIsThisBuilds == ReaderSeesThePlan /\ RefusalLeavesNothing /\ SimsAreThisBuilds

=============================================================================
