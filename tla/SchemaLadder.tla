---------------------------- MODULE SchemaLadder ----------------------------
(***************************************************************************)
(* `ksor schema --apply` run by several operators, of several builds, on   *)
(* one database, beside doors that boot on it (packages/content/src        *)
(* schema.ts, migrate.ts, commands.ts and schema/migrations).              *)
(*                                                                         *)
(* A version is a number; the step out of v leads to v + 1.  now() is the  *)
(* start of a transaction, so a row is stamped when its transaction began, *)
(* not when it committed.                                                  *)
(***************************************************************************)
EXTENDS Integers, FiniteSets, SequencesExt

CONSTANTS
    Operators, Doors,
    BuiltFor,   \* BuiltFor[p]: the version that an operator's or a door's build writes and needs
    Breaks,     \* the versions whose step declares compatible_from
    Oldest,     \* compatible_from of the first version
    Applied0,   \* the versions at which the database may be found; 0: no schema
    MaxBegins   \* bounds the transactions begun

ASSUME LadderAssumption ==
    /\ BuiltFor \in [Operators \cup Doors -> Nat \ {0}]
    /\ Applied0 \subseteq Nat /\ MaxBegins \in Nat
    /\ "free" \notin Operators

VARIABLES
    rows,       \* schema_meta: version, compatible, at
    shape,      \* the DDL that the database has: the steps applied, in order
    advisory,   \* the advisory lock: an operator, or "free"
    clock,      \* transactions begun so far
    op,         \* how far an operator's command is
    door        \* what a door's boot check said: "down", "serving", "refused"

schemaVars == <<rows, shape, advisory, clock, op, door>>

AtRest == [at |-> "idle"]

\* ORDER BY applied_at DESC LIMIT 1.
Latest == CHOOSE r \in rows : \A q \in rows : q.at <= r.at
Version == IF rows = {} THEN 0 ELSE Latest.version

SchemaInit ==
    /\ \E v \in Applied0 :
        /\ rows = IF v = 0 THEN {} ELSE {[version |-> v, compatible |-> Oldest, at |-> 0]}
        /\ shape = IF v = 0 THEN <<>> ELSE <<v>>
    /\ advisory = "free" /\ clock = 0
    /\ op = [o \in Operators |-> AtRest] /\ door = [d \in Doors |-> "down"]

-----------------------------------------------------------------------------
\* readSchemaState and what schemaCommand makes of it: apply the DDL, plan the
\* steps, or nothing to do.  planMigrations walks the chain from the version
\* read to the build's own.
ReadState(o) ==
    /\ op[o] = AtRest /\ clock < MaxBegins
    /\ op' = [op EXCEPT ![o] =
            IF Version = 0 THEN [at |-> "fresh"]
            ELSE IF Version >= BuiltFor[o] THEN [at |-> "done"]
            ELSE [at |-> "step", from |-> Version]]
    /\ UNCHANGED <<rows, shape, advisory, clock, door>>

\* applySchema: one multi-statement query, so one transaction, under no lock;
\* the CREATE TABLE of the second fails when the first has committed.
BeginFresh(o) ==
    /\ op[o].at = "fresh" /\ clock < MaxBegins /\ clock' = clock + 1
    /\ op' = [op EXCEPT ![o] = [at |-> "creating", stamp |-> clock + 1]]
    /\ UNCHANGED <<rows, shape, advisory, door>>

CommitFresh(o) ==
    /\ op[o].at = "creating"
    /\ IF shape = <<>>
       THEN /\ rows' = {[version |-> BuiltFor[o], compatible |->
                            IF BuiltFor[o] \in Breaks THEN BuiltFor[o] ELSE Oldest, at |-> op[o].stamp]}
            /\ shape' = <<BuiltFor[o]>>
       ELSE UNCHANGED <<rows, shape>>
    /\ op' = [op EXCEPT ![o] = [at |-> IF shape = <<>> THEN "done" ELSE "failed"]]
    /\ UNCHANGED <<advisory, clock, door>>

\* runMigrations, one step: BEGIN, which stamps the row; the lock; the re-read.
Begin(o) ==
    /\ op[o].at = "step" /\ clock < MaxBegins /\ clock' = clock + 1
    /\ op' = [op EXCEPT ![o] = [at |-> "begun", from |-> op[o].from, stamp |-> clock + 1]]
    /\ UNCHANGED <<rows, shape, advisory, door>>

Lock(o) ==
    /\ op[o].at = "begun" /\ advisory = "free" /\ advisory' = o
    /\ op' = [op EXCEPT ![o] = [at |-> "locked", from |-> op[o].from, stamp |-> op[o].stamp]]
    /\ UNCHANGED <<rows, shape, clock, door>>

\* Variant: the plan made before the lock is believed.
AsPlanned(o) == TRUE

\* The database is still where the step starts.
StillThere(o) == Version = op[o].from

\* compatible_from: what the step declares, else the lowest recorded.
CompatibleAfter(to) ==
    IF to \in Breaks THEN to ELSE Min({r.compatible : r \in rows} \cup {to - 1})

NextStep(o) == IF op[o].from + 1 < BuiltFor[o] THEN [at |-> "step", from |-> op[o].from + 1] ELSE [at |-> "done"]

Commit(o) ==
    LET to == op[o].from + 1
    IN  /\ op[o].at = "locked"
        /\ IF StillThere(o)
           THEN /\ rows' = rows \cup {[version |-> to, compatible |-> CompatibleAfter(to), at |-> op[o].stamp]}
                /\ shape' = Append(shape, to)
           ELSE UNCHANGED <<rows, shape>>
        /\ op' = [op EXCEPT ![o] = NextStep(o)] /\ advisory' = "free"
        /\ UNCHANGED <<clock, door>>

\* The operator's process or its session dies: the server rolls back, and the
\* lock goes with the transaction.  A commit may have been heard or not.
Crash(o) ==
    /\ op[o].at \in {"fresh", "creating", "step", "begun", "locked"}
    /\ op' = [op EXCEPT ![o] = [at |-> "failed"]]
    /\ advisory' = IF advisory = o THEN "free" ELSE advisory
    /\ UNCHANGED <<rows, shape, clock, door>>

\* The command is run again.
Again(o) ==
    /\ op[o].at \in {"done", "failed"} /\ clock < MaxBegins /\ op' = [op EXCEPT ![o] = AtRest]
    /\ UNCHANGED <<rows, shape, advisory, clock, door>>

-----------------------------------------------------------------------------
\* assertSchemaCompatible.
SchemaWillDo(d) == rows # {} /\ Version >= BuiltFor[d]

Boot(d) ==
    /\ door[d] # "serving"
    /\ door' = [door EXCEPT ![d] = IF SchemaWillDo(d) THEN "serving" ELSE "refused"]
    /\ UNCHANGED <<rows, shape, advisory, clock, op>>

Stop(d) ==
    /\ door[d] # "down" /\ door' = [door EXCEPT ![d] = "down"]
    /\ UNCHANGED <<rows, shape, advisory, clock, op>>

SchemaNext ==
    \/ \E o \in Operators :
        \/ ReadState(o) \/ BeginFresh(o) \/ CommitFresh(o) \/ Begin(o) \/ Lock(o) \/ Commit(o)
        \/ Crash(o) \/ Again(o)
    \/ \E d \in Doors : Boot(d) \/ Stop(d)

SchemaSpec == SchemaInit /\ [][SchemaNext]_schemaVars

-----------------------------------------------------------------------------
\* Whatever the operators run at once, in whatever order their transactions
\* began: the row read last names the shape the database has, and every step
\* was applied once, right after the one before it.
VersionIsTrue ==
    /\ Version = IF shape = <<>> THEN 0 ELSE Last(shape)
    /\ \A i \in 2..Len(shape) : shape[i] = shape[i - 1] + 1

=============================================================================
