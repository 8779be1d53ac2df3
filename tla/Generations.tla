---------------------------- MODULE Generations ----------------------------
(***************************************************************************)
(* The generational publication lifecycle of the content kernel            *)
(* (packages/content/src/ingest/generation.ts, build.ts, gc.ts and the     *)
(* ingest verb of commands.ts).                                            *)
(*                                                                         *)
(* `ksor ingest` processes build generations next to the one being served, *)
(* finalize them, run the governance gate and the shrink guard, and flip   *)
(* the corpus pointer; an operator may roll back; `ksor gc` collects old   *)
(* generations; readers hold snapshot tokens that pin a generation.        *)
(*                                                                         *)
(* Atomicity.  Every transaction is READ COMMITTED.  Allocation and        *)
(* rollback hold the tenant advisory lock from their first statement       *)
(* (generation.ts:71, 447) and are one action each.  flip takes the lock   *)
(* only after flipRefusal has read its counts, and gc never takes it, so   *)
(* those transactions are split at the reads they later rely on; writes    *)
(* become visible at the commit.                                           *)
(*                                                                         *)
(* Time.  `clock` counts units of the database clock; the gc process and   *)
(* the serving door read clocks that may be ahead of it by at most Skew.   *)
(***************************************************************************)
EXTENDS Integers, FiniteSets

CONSTANTS
    Ingests,        \* `ksor ingest` processes
    Collectors,     \* `ksor gc` processes
    Sizes,          \* node counts a record version may have
    ChunkCount,     \* chunks per version
    MaxGen,         \* bound: generations ever allocated
    MaxClock,       \* bound: the horizon of the clock
    Ttl,            \* TOKEN_TTL_S
    Grace,          \* GC_GRACE_MS
    AbandonedAfter, \* ABANDONED_AFTER_MS
    MinComplete,    \* MIN_COMPLETE_GENERATIONS
    MaxFailedPct,   \* MAX_FAILED_FRACTION, in percent
    MaxShrinkPct,   \* KSOR_MAX_SHRINK, in percent
    AllowShrink,    \* KSOR_ALLOW_SHRINK=1 is set for the ingest processes
    Skew,           \* how far a process clock may run ahead of the database's
    MaxBeat,        \* environment: longest pause of a build between heartbeats
    MaxPause,       \* environment: longest pause between finalize and flip
    MaxLatency      \* environment: longest a search takes from query to mint

Gens == 1..MaxGen
Never == -1                  \* a NULL timestamp
None == 0                    \* generation 0: nothing; also a NULL rollback

ASSUME BoundsAssumption ==
    /\ MaxGen \in Nat /\ MaxClock \in Nat /\ ChunkCount \in Nat \ {0}
    /\ Sizes \subseteq Nat \ {0}
    /\ \A t \in {Ttl, Grace, AbandonedAfter, Skew, MaxBeat, MaxPause, MaxLatency} : t \in Nat
    /\ MinComplete \in Nat /\ MaxFailedPct \in Nat /\ MaxShrinkPct \in Nat
    /\ AllowShrink \in BOOLEAN

VARIABLES
    clock,
    active, rollbackGen,     \* the corpora row
    state,                   \* ingestion_runs.state, "none" before allocation
    nodes,                   \* content_nodes rows a generation holds
    chunks,                  \* its chunks rows, by embedding_status
    finishedAt, heartbeatAt, \* ingestion_runs timestamps
    pc, gen, todo,           \* an ingest process: control, its run, its queue
    gc,                      \* a gc process: control and what it has read
    asked, token             \* a search in flight; a snapshot token held

corpusVars == <<active, rollbackGen>>
runVars == <<state, nodes, chunks, finishedAt, heartbeatAt>>
readerVars == <<asked, token>>
vars == <<clock, corpusVars, runVars, pc, gen, todo, gc, readerVars>>

RunStates == {"none", "building", "ready", "active", "retired", "reaped"}
CompleteStates == {"ready", "active", "retired"}
NoChunks == [pending |-> 0, embedded |-> 0, failed |-> 0]
Stations == {"idle", "drain", "finalize", "gate", "guard", "flip"}
IdleGc == [at |-> "idle", ts |-> 0, active |-> None, rollback |-> None, picked |-> {}]
NoSearch == [gen |-> None, at |-> 0]
NoToken == [gen |-> None, exp |-> 0]

TypeOK ==
    /\ clock \in 0..MaxClock
    /\ active \in 0..MaxGen /\ rollbackGen \in 0..MaxGen
    /\ state \in [Gens -> RunStates]
    /\ nodes \in [Gens -> Sizes \cup {0}]
    /\ chunks \in [Gens -> [pending : 0..ChunkCount, embedded : 0..ChunkCount,
                            failed : 0..ChunkCount]]
    /\ finishedAt \in [Gens -> 0..MaxClock \cup {Never}]
    /\ heartbeatAt \in [Gens -> 0..MaxClock \cup {Never}]
    /\ pc \in [Ingests -> Stations]
    /\ gen \in [Ingests -> 0..MaxGen]
    /\ todo \in [Ingests -> 0..ChunkCount]
    /\ gc \in [Collectors -> [at : {"idle", "runs", "reap"}, ts : 0..(MaxClock + Skew),
                              active : 0..MaxGen, rollback : 0..MaxGen,
                              picked : SUBSET Gens]]
    /\ asked \in [gen : 0..MaxGen, at : 0..MaxClock]
    /\ token \in [gen : 0..MaxGen, exp : 0..(MaxClock + Skew + Ttl)]

Init ==
    /\ clock = 0
    /\ active = None /\ rollbackGen = None
    /\ state = [g \in Gens |-> "none"]
    /\ nodes = [g \in Gens |-> 0]
    /\ chunks = [g \in Gens |-> NoChunks]
    /\ finishedAt = [g \in Gens |-> Never]
    /\ heartbeatAt = [g \in Gens |-> Never]
    /\ pc = [p \in Ingests |-> "idle"]
    /\ gen = [p \in Ingests |-> None]
    /\ todo = [p \in Ingests |-> 0]
    /\ gc = [c \in Collectors |-> IdleGc]
    /\ asked = NoSearch /\ token = NoToken

-----------------------------------------------------------------------------
(* What the code reads.                                                    *)

Complete == {g \in Gens : state[g] \in CompleteStates}

\* content_nodes rows of a generation; generation 0 holds none (generation.ts:380).
NodesOf(g) == IF g = None THEN 0 ELSE nodes[g]

\* The ready gate: the queue drained, something embedded, failures tolerable.
GenerationReady(h) ==
    /\ h.pending = 0
    /\ h.embedded # 0
    /\ h.failed * 100 <= MaxFailedPct * (h.embedded + h.failed)

\* More than the tolerated fraction of the prior generation's nodes vanished.
ShrinkUnsafe(prior, new) ==
    /\ prior > 0
    /\ (prior - new) * 100 > MaxShrinkPct * prior

\* A generation some complete or building run can lend vectors from.
CarrySources == {g \in Gens : state[g] \in CompleteStates \cup {"building"}
                              /\ chunks[g].embedded > 0}

\* Variants a check must reject (see PROJECT.json): both pointers forgotten;
\* the rollback pointer forgotten.
PastGraceOfAny(ts, seenActive, seenRollback) ==
    {g \in Complete : finishedAt[g] # Never /\ ts - finishedAt[g] >= Grace}
PastGraceButActive(ts, seenActive, seenRollback) ==
    {g \in Complete : g # seenActive /\ finishedAt[g] # Never /\ ts - finishedAt[g] >= Grace}

\* Complete runs past the grace since they finished, the pointers excepted.
PastGrace(ts, seenActive, seenRollback) ==
    {g \in Complete : /\ g \notin {seenActive, seenRollback}
                      /\ finishedAt[g] # Never
                      /\ ts - finishedAt[g] >= Grace}

\* Builds whose heartbeat is stale.
Abandoned(ts) ==
    {g \in Gens : state[g] = "building" /\ heartbeatAt[g] # Never
                  /\ ts - heartbeatAt[g] > AbandonedAfter}

\* In generation order, as many as leave MinComplete complete ones behind.
CollectableGenerations(ts, seenActive, seenRollback) ==
    LET old == PastGrace(ts, seenActive, seenRollback)
    IN  Abandoned(ts) \cup
        {g \in old : Cardinality({h \in old : h <= g}) + MinComplete <= Cardinality(Complete)}

-----------------------------------------------------------------------------
(* `ksor ingest --flip`, one process.                                      *)

Exit(p) ==
    /\ pc' = [pc EXCEPT ![p] = "idle"]
    /\ gen' = [gen EXCEPT ![p] = None]
    /\ todo' = [todo EXCEPT ![p] = 0]

\* allocateRun, buildStructure and the carry, one transaction under the lock.
\* The number is max+1 over every run of the corpus, reaped ones included.
\* Carrying fills some of the pending chunks, and only when a source exists.
\* (An unchanged corpus rolls all of this back, which is no step at all.)
AllocateRun(p) ==
    /\ pc[p] = "idle"
    /\ \E g \in Gens, n \in Sizes, left \in 0..ChunkCount :
        /\ state[g] = "none" /\ \A h \in Gens : state[h] = "none" => g <= h
        /\ left < ChunkCount => CarrySources # {}
        /\ state' = [state EXCEPT ![g] = "building"]
        /\ nodes' = [nodes EXCEPT ![g] = n]
        /\ chunks' = [chunks EXCEPT
                        ![g] = [pending |-> left, embedded |-> ChunkCount - left, failed |-> 0]]
        /\ heartbeatAt' = [heartbeatAt EXCEPT ![g] = clock]
        /\ gen' = [gen EXCEPT ![p] = g]
        /\ todo' = [todo EXCEPT ![p] = left]
        /\ pc' = [pc EXCEPT ![p] = "drain"]
    /\ UNCHANGED <<clock, corpusVars, finishedAt, gc, readerVars>>

\* One batch is embedded and committed with the heartbeat.  The writes name
\* chunk ids: against a generation gc has emptied they match no row.
EmbedBatch(p) ==
    /\ pc[p] = "drain"
    /\ \E n \in 1..todo[p] :
        LET g == gen[p] IN
        /\ todo' = [todo EXCEPT ![p] = @ - n]
        /\ chunks' = IF nodes[g] = 0 THEN chunks
                     ELSE [chunks EXCEPT ![g].pending = @ - n, ![g].embedded = @ + n]
        /\ heartbeatAt' = [heartbeatAt EXCEPT ![g] = clock]
    /\ UNCHANGED <<clock, corpusVars, state, nodes, finishedAt, pc, gen, gc, readerVars>>

\* The loop over the embed queue has something left.
Undrained(p) == pc[p] = "drain" /\ todo[p] > 0

\* A chunk the provider keeps refusing is quarantined; no heartbeat.
MarkFailed(p) ==
    /\ Undrained(p)
    /\ todo' = [todo EXCEPT ![p] = @ - 1]
    /\ chunks' = IF nodes[gen[p]] = 0 THEN chunks
                 ELSE [chunks EXCEPT ![gen[p]].pending = @ - 1, ![gen[p]].failed = @ + 1]
    /\ UNCHANGED <<clock, corpusVars, state, nodes, finishedAt, heartbeatAt, pc, gen, gc,
                   readerVars>>

\* Variant: an empty queue is enough.
MayFinalizeDrained(p) == chunks[gen[p]].pending = 0

\* The health gate finalize starts with.
MayFinalize(p) == GenerationReady(chunks[gen[p]])

\* finalize reads the health; a build that is not ready ends here, unflipped.
FinalizeRead(p) ==
    /\ pc[p] = "drain" /\ todo[p] = 0
    /\ IF MayFinalize(p)
         THEN pc' = [pc EXCEPT ![p] = "finalize"] /\ UNCHANGED <<gen, todo>>
         ELSE Exit(p)
    /\ UNCHANGED <<clock, corpusVars, runVars, gc, readerVars>>

\* Its UPDATE matches a building run only, and nothing checks that it matched.
FinalizeCommit(p) ==
    /\ pc[p] = "finalize"
    /\ LET g == gen[p] IN
        IF state[g] = "building"
          THEN /\ state' = [state EXCEPT ![g] = "ready"]
               /\ finishedAt' = [finishedAt EXCEPT ![g] = clock]
          ELSE UNCHANGED <<state, finishedAt>>
    /\ pc' = [pc EXCEPT ![p] = "gate"]
    /\ UNCHANGED <<clock, corpusVars, nodes, chunks, heartbeatAt, gen, todo, gc, readerVars>>

\* The governance gate judges the new generation in its own transaction.  A
\* refusal, and an ingest without --flip, take Stop instead.
Gate(p) ==
    /\ pc[p] = "gate"
    /\ pc' = [pc EXCEPT ![p] = "guard"]
    /\ UNCHANGED <<clock, corpusVars, runVars, gen, todo, gc, readerVars>>

\* flipRefusal: the node counts of the active generation and the candidate,
\* read before flip takes the lock.
FlipRefusal(p) ==
    /\ pc[p] = "guard"
    /\ IF ShrinkUnsafe(NodesOf(active), NodesOf(gen[p])) /\ ~AllowShrink
         THEN Exit(p)
         ELSE pc' = [pc EXCEPT ![p] = "flip"] /\ UNCHANGED <<gen, todo>>
    /\ UNCHANGED <<clock, corpusVars, runVars, gc, readerVars>>

\* Variants: retirement keeps the stamp of the build; the pointer may move to
\* any generation.
FlipKeepsStamps(to) ==
    [g \in Gens |-> IF g = to /\ finishedAt[g] = Never THEN clock ELSE finishedAt[g]]

\* Exactly one run is active afterwards; whatever was is retired.
ActivatedStates(to) ==
    [g \in Gens |-> IF g = to THEN "active"
                   ELSE IF state[g] = "active" THEN "retired" ELSE state[g]]

\* Retirement stamps finished_at anew: the token grace is measured from it.
FlipStamps(to) ==
    [g \in Gens |-> IF state[g] = "active" THEN clock
                   ELSE IF g = to /\ finishedAt[g] = Never THEN clock
                   ELSE finishedAt[g]]

\* The monotonic guard of flip's UPDATE.
Advances(to) == active < to

\* flip, under the lock: it activates its own generation whatever state that
\* run is in.  Out of order it throws, which is Stop.
Flip(p) ==
    /\ pc[p] = "flip" /\ Advances(gen[p])
    /\ rollbackGen' = active
    /\ active' = gen[p]
    /\ state' = ActivatedStates(gen[p])
    /\ finishedAt' = FlipStamps(gen[p])
    /\ Exit(p)
    /\ UNCHANGED <<clock, nodes, chunks, heartbeatAt, gc, readerVars>>

\* The process ends early and leaves its run as it is: a retryable or fatal
\* embed error, the gate's refusal, flip withheld, flip out of order, a crash.
Stop(p) ==
    /\ pc[p] # "idle"
    /\ Exit(p)
    /\ UNCHANGED <<clock, corpusVars, runVars, gc, readerVars>>

-----------------------------------------------------------------------------
(* The operator's undo, and gc.                                            *)

\* rollback: goes backward by design; the rollback pointer stays.
Rollback ==
    /\ rollbackGen > 0
    /\ active' = rollbackGen
    /\ state' = ActivatedStates(rollbackGen)
    /\ finishedAt' = [g \in Gens |-> IF state[g] = "active" /\ g # rollbackGen
                                     THEN clock ELSE finishedAt[g]]
    /\ UNCHANGED <<clock, rollbackGen, nodes, chunks, heartbeatAt, pc, gen, todo, gc,
                   readerVars>>

\* collectableGenerations: the clock and the pointers ...
GcReadPointer(c) ==
    /\ gc[c].at = "idle"
    /\ \E s \in 0..Skew :
        gc' = [gc EXCEPT ![c] = [at |-> "runs", ts |-> clock + s, active |-> active,
                                 rollback |-> rollbackGen, picked |-> {}]]
    /\ UNCHANGED <<clock, corpusVars, runVars, pc, gen, todo, readerVars>>

\* ... then the runs, in a later statement.  Nothing collectable ends the run.
GcReadRuns(c) ==
    /\ gc[c].at = "runs"
    /\ LET picked == CollectableGenerations(gc[c].ts, gc[c].active, gc[c].rollback) IN
        gc' = [gc EXCEPT ![c] = IF picked = {} THEN IdleGc
                                ELSE [@ EXCEPT !.at = "reap", !.picked = picked]]
    /\ UNCHANGED <<clock, corpusVars, runVars, pc, gen, todo, readerVars>>

\* reap every generation found, visible at the commit.
GcReap(c) ==
    /\ gc[c].at = "reap"
    /\ LET picked == gc[c].picked IN
        /\ nodes' = [g \in Gens |-> IF g \in picked THEN 0 ELSE nodes[g]]
        /\ chunks' = [g \in Gens |-> IF g \in picked THEN NoChunks ELSE chunks[g]]
        /\ state' = [g \in Gens |-> IF g \in picked THEN "reaped" ELSE state[g]]
    /\ gc' = [gc EXCEPT ![c] = IdleGc]
    /\ UNCHANGED <<clock, corpusVars, finishedAt, heartbeatAt, pc, gen, todo, readerVars>>

\* A dry run, a crash or a lost connection: the transaction rolls back.
GcAbort(c) ==
    /\ gc[c].at # "idle"
    /\ gc' = [gc EXCEPT ![c] = IdleGc]
    /\ UNCHANGED <<clock, corpusVars, runVars, pc, gen, todo, readerVars>>

-----------------------------------------------------------------------------
(* Readers: only what pins a generation.                                   *)

\* A search statement answers from whatever is active when it runs ...
SearchQuery ==
    /\ asked = NoSearch /\ active > 0
    /\ asked' = [gen |-> active, at |-> clock]
    /\ UNCHANGED <<clock, corpusVars, runVars, pc, gen, todo, gc, token>>

\* ... and the door mints the token for that generation afterwards.
SearchMint ==
    /\ asked # NoSearch
    /\ \E s \in 0..Skew : token' = [gen |-> asked.gen, exp |-> clock + s + Ttl]
    /\ asked' = NoSearch
    /\ UNCHANGED <<clock, corpusVars, runVars, pc, gen, todo, gc>>

-----------------------------------------------------------------------------
(* Time passes; the environment's assumptions are its guards.              *)

BuildsBeat ==
    \A p \in Ingests : pc[p] \in {"drain", "finalize"} => clock < heartbeatAt[gen[p]] + MaxBeat
FlipsFollow ==
    \A p \in Ingests : pc[p] \in {"gate", "guard", "flip"} => clock < finishedAt[gen[p]] + MaxPause
SearchesEnd == asked # NoSearch => clock < asked.at + MaxLatency

Tick ==
    /\ clock < MaxClock
    /\ BuildsBeat /\ FlipsFollow /\ SearchesEnd
    /\ clock' = clock + 1
    /\ UNCHANGED <<corpusVars, runVars, pc, gen, todo, gc, readerVars>>

IngestStep(p) ==
    \/ AllocateRun(p) \/ EmbedBatch(p) \/ MarkFailed(p) \/ FinalizeRead(p)
    \/ FinalizeCommit(p) \/ Gate(p) \/ FlipRefusal(p) \/ Flip(p) \/ Stop(p)

GcStep(c) == GcReadPointer(c) \/ GcReadRuns(c) \/ GcReap(c) \/ GcAbort(c)

Next ==
    \/ \E p \in Ingests : IngestStep(p)
    \/ \E c \in Collectors : GcStep(c)
    \/ Rollback \/ SearchQuery \/ SearchMint \/ Tick

Spec == Init /\ [][Next]_vars

-----------------------------------------------------------------------------
(* Properties.                                                             *)

\* The corpus pointer and the run states agree: the active generation is the
\* one run in state 'active', and there is no such run before the first flip
\* (flip and rollback write the two in separate statements, generation.ts:406).
PointerAgrees == \A g \in Gens : state[g] = "active" <=> g = active

\* What is served is whole: its rows exist and its vectors passed the ready gate,
\* whatever gc, a crashed build or a late finalize did meanwhile.
ServedIsReady == active # None => nodes[active] > 0 /\ GenerationReady(chunks[active])

\* An undo lands on content: the generation rollback would restore was served
\* before and still has its rows.
RollbackIsServable ==
    rollbackGen # None => nodes[rollbackGen] > 0 /\ GenerationReady(chunks[rollbackGen])

\* gc.ts:7-10: a generation an unexpired snapshot token pins is never collected,
\* although the token is minted after the search and by another host's clock.
TokenPinHolds == token.gen # None /\ clock < token.exp => nodes[token.gen] > 0

\* The pointer goes backward only to the recorded rollback generation, so two
\* ingests finishing out of order never regress the served corpus.
OnlyRollbackRegresses == [][active' < active => active' = rollbackGen]_corpusVars

\* generation.ts:326: a catastrophic content drop is caught before the flip
\* serves it.
DropCaughtBeforeFlip ==
    [][active' > active /\ ~AllowShrink
         => ~ShrinkUnsafe(NodesOf(active), NodesOf(active'))]_corpusVars

\* gc.ts:7-9: the active and rollback generations are never collected.
PointersNeverCollected ==
    /\ active # None => state[active] # "reaped"
    /\ rollbackGen # None => state[rollbackGen] # "reaped"

\* Publication is implemented: builds, crashes, gc and late processes are
\* invisible but for snapshots appearing, being published, undone or discarded.
Servable == {g \in Complete : nodes[g] > 0 /\ GenerationReady(chunks[g])}
Pub == INSTANCE Publication WITH Snapshots <- Gens, current <- active,
                                 previous <- rollbackGen, available <- Servable
ImplementsPublication == Pub!PubSpec
=============================================================================
