-------------------------- MODULE GenerationsProofs --------------------------
(***************************************************************************)
(* Theorems about Generations, for every number of processes, generations  *)
(* and clock units, under the assumption Prompt of GenerationsInv.         *)
(***************************************************************************)
EXTENDS GenerationsInv, TLAPS

\* A pointer, and what a reader pins, is a generation or nothing.
LEMMA Pointers ==
  ASSUME TypeOK
  PROVE  /\ active = None \/ active \in Gens
         /\ rollbackGen = None \/ rollbackGen \in Gens
         /\ asked.gen = None \/ asked.gen \in Gens
         /\ token.gen = None \/ token.gen \in Gens
         /\ None \notin Gens
<1>1. ASSUME NEW x \in 0..MaxGen PROVE x = None \/ x \in Gens
  BY BoundsAssumption DEF None, Gens
<1>2. {active, rollbackGen, asked.gen, token.gen} \subseteq 0..MaxGen
  BY DEF TypeOK
<1>3. None \notin Gens
  BY BoundsAssumption DEF None, Gens
<1> QED
  BY <1>1, <1>2, <1>3

\* The first generation is served.
LEMMA InitInductive == Init => Inductive
<1> SUFFICES ASSUME Init PROVE Inductive
  OBVIOUS
<1>1. TypeOK
  BY BoundsAssumption DEF Init, TypeOK, Gens, None, Never, NoChunks, Stations, RunStates, IdleGc,
     NoSearch, NoToken
<1>2. OwnInv
  BY DEF Init, OwnInv, Owns
<1>3. RunInv
  BY BoundsAssumption DEF Init, RunInv, Complete, CompleteStates, NoChunks
<1>4. PointerInv
  BY DEF Init, PointerInv, PointerAgrees, Gens, None
<1>5. GcInv
  BY DEF Init, GcInv, IdleGc
<1>6. ReadInv
  BY DEF Init, ReadInv, NoSearch, NoToken, None
<1> QED
  BY <1>1, <1>2, <1>3, <1>4, <1>5, <1>6 DEF Inductive

-----------------------------------------------------------------------------
(* Steps of an ingest process.                                             *)

\* A process keeps its run when neither it nor the run is touched.
LEMMA OwnsKept ==
  ASSUME NEW q \in Ingests, Owns(q), clock' = clock,
         pc'[q] = pc[q], gen'[q] = gen[q], todo'[q] = todo[q],
         pc[q] # "idle" =>
            /\ state'[gen[q]] = state[gen[q]] /\ chunks'[gen[q]] = chunks[gen[q]]
            /\ heartbeatAt'[gen[q]] = heartbeatAt[gen[q]]
            /\ finishedAt'[gen[q]] = finishedAt[gen[q]]
  PROVE  Owns(q)'
BY DEF Owns, Building, Flipping

\* A step of one process that moves only its control.
LEMMA ControlStep ==
  ASSUME Inductive, NEW p \in Ingests, pc[p] # "idle",
         UNCHANGED <<clock, corpusVars, runVars, gc, readerVars>>,
         NEW s \in Stations, pc' = [pc EXCEPT ![p] = s],
         \/ s = "idle" /\ gen' = [gen EXCEPT ![p] = None] /\ todo' = [todo EXCEPT ![p] = 0]
         \/ s # "idle" /\ UNCHANGED <<gen, todo>> /\ Owns(p)'
  PROVE  Inductive'
<1> /\ TypeOK /\ OwnInv /\ RunInv /\ PointerInv /\ GcInv /\ ReadInv
    /\ UNCHANGED <<clock, active, rollbackGen, state, nodes, chunks, finishedAt, heartbeatAt,
                   gc, asked, token>>
  BY DEF Inductive, corpusVars, runVars, readerVars
<1>d. /\ pc \in [Ingests -> Stations] /\ gen \in [Ingests -> 0..MaxGen]
      /\ todo \in [Ingests -> 0..ChunkCount] /\ MaxGen \in Nat /\ ChunkCount \in Nat
  BY BoundsAssumption DEF TypeOK
<1>q. ASSUME NEW q \in Ingests, q # p
      PROVE  pc'[q] = pc[q] /\ gen'[q] = gen[q] /\ todo'[q] = todo[q]
  BY <1>q, <1>d
<1>p. pc'[p] = s /\ (s # "idle" => gen'[p] = gen[p])
  BY <1>d
<1>g. \A q \in Ingests : pc'[q] # "idle" => pc[q] # "idle" /\ gen'[q] = gen[q]
  BY <1>q, <1>p
<1>1. TypeOK'
  <2>1. /\ pc' \in [Ingests -> Stations] /\ gen' \in [Ingests -> 0..MaxGen]
        /\ todo' \in [Ingests -> 0..ChunkCount]
    BY <1>d DEF None
  <2> QED
    BY <2>1 DEF TypeOK
<1>2. OwnInv'
  <2>1. ASSUME NEW q \in Ingests, q # p PROVE Owns(q)'
    BY <2>1, <1>q, OwnsKept DEF OwnInv
  <2>2. Owns(p)'
    BY <1>p DEF Owns
  <2>3. ASSUME NEW q \in Ingests, NEW r \in Ingests, q # r, pc'[q] # "idle", pc'[r] # "idle"
        PROVE  gen'[q] # gen'[r]
    BY <2>3, <1>g DEF OwnInv
  <2> QED
    BY <2>1, <2>2, <2>3 DEF OwnInv
<1>3. RunInv' /\ PointerInv' /\ ReadInv'
  BY DEF RunInv, Complete, PointerInv, PointerAgrees, ReadInv
<1>4. GcInv'
  BY <1>g DEF GcInv, Spared
<1> QED
  BY <1>1, <1>2, <1>3, <1>4 DEF Inductive

\* A refusal, an error or a crash.
LEMMA StopInductive ==
  ASSUME Inductive, NEW p \in Ingests, Stop(p)
  PROVE  Inductive'
BY ControlStep DEF Stop, Exit, Stations

\* The gates write nothing.
LEMMA GateInductive ==
  ASSUME Inductive, NEW p \in Ingests, Gate(p)
  PROVE  Inductive'
<1>1. Owns(p)'
  BY DEF Gate, Inductive, OwnInv, Owns, Building, Flipping, TypeOK, runVars
<1> QED
  BY <1>1, ControlStep DEF Gate, Stations

\* The reads before the flip.
LEMMA FlipRefusalInductive ==
  ASSUME Inductive, NEW p \in Ingests, FlipRefusal(p)
  PROVE  Inductive'
<1>1. CASE Exit(p)
  BY <1>1, ControlStep DEF FlipRefusal, Exit, Stations
<1>2. CASE pc' = [pc EXCEPT ![p] = "flip"] /\ UNCHANGED <<gen, todo>>
  <2>1. Owns(p)'
    BY <1>2 DEF FlipRefusal, Inductive, OwnInv, Owns, Building, Flipping, TypeOK, runVars
  <2> QED
    BY <1>2, <2>1, ControlStep DEF FlipRefusal, Stations
<1> QED
  BY <1>1, <1>2 DEF FlipRefusal

\* The read before finalize.
LEMMA FinalizeReadInductive ==
  ASSUME Inductive, NEW p \in Ingests, FinalizeRead(p)
  PROVE  Inductive'
<1>1. CASE Exit(p)
  BY <1>1, ControlStep DEF FinalizeRead, Exit, Stations
<1>2. CASE MayFinalize(p) /\ pc' = [pc EXCEPT ![p] = "finalize"] /\ UNCHANGED <<gen, todo>>
  <2>1. Owns(p)'
    BY <1>2 DEF FinalizeRead, MayFinalize, Inductive, OwnInv, Owns, Building, Flipping, TypeOK, runVars
  <2> QED
    BY <1>2, <2>1, ControlStep DEF FinalizeRead, Stations
<1> QED
  BY <1>1, <1>2 DEF FinalizeRead

\* FinalizeCommit: the build it owns becomes ready, stamped now.
LEMMA FinalizeCommitInductive ==
  ASSUME Inductive, NEW p \in Ingests, FinalizeCommit(p)
  PROVE  Inductive'
<1> DEFINE g == gen[p]
<1> /\ TypeOK /\ OwnInv /\ RunInv /\ PointerInv /\ GcInv /\ ReadInv
    /\ UNCHANGED <<clock, active, rollbackGen, nodes, chunks, heartbeatAt, gen, todo, gc,
                   asked, token>>
    /\ pc[p] = "finalize" /\ pc' = [pc EXCEPT ![p] = "gate"]
  BY DEF Inductive, FinalizeCommit, corpusVars, readerVars
<1>d. /\ pc \in [Ingests -> Stations] /\ state \in [Gens -> RunStates]
      /\ finishedAt \in [Gens -> 0..MaxClock \cup {Never}] /\ clock \in 0..MaxClock
      /\ MaxPause \in Nat /\ MaxClock \in Nat
  BY BoundsAssumption DEF TypeOK
<1>o. g \in Gens /\ state[g] = "building" /\ GenerationReady(chunks[g])
  BY DEF OwnInv, Owns, Building
<1>s. state' = [state EXCEPT ![g] = "ready"] /\ finishedAt' = [finishedAt EXCEPT ![g] = clock]
  BY <1>o DEF FinalizeCommit
<1>h. ASSUME NEW h \in Gens, h # g
      PROVE  state'[h] = state[h] /\ finishedAt'[h] = finishedAt[h]
  BY <1>h, <1>s, <1>d
<1>g. state'[g] = "ready" /\ finishedAt'[g] = clock
  BY <1>o, <1>s, <1>d
<1>q. /\ pc'[p] = "gate"
      /\ \A q \in Ingests : q # p => pc'[q] = pc[q]
      /\ \A q \in Ingests : pc'[q] # "idle" => pc[q] # "idle"
  BY <1>d
<1>1. TypeOK'
  <2>1. pc' \in [Ingests -> Stations] /\ state' \in [Gens -> RunStates]
    BY <1>d, <1>s, <1>o DEF Stations, RunStates
  <2>2. finishedAt' \in [Gens -> 0..MaxClock \cup {Never}]
    BY <1>d, <1>s, <1>o
  <2> QED
    BY <2>1, <2>2 DEF TypeOK
<1>2. OwnInv'
  <2>1. ASSUME NEW q \in Ingests, q # p PROVE Owns(q)'
    <3>1. Owns(q) /\ (pc[q] # "idle" => gen[q] # g /\ gen[q] \in Gens)
      BY <2>1 DEF OwnInv, Owns
    <3>2. pc[q] # "idle" => state'[gen[q]] = state[gen[q]] /\ finishedAt'[gen[q]] = finishedAt[gen[q]]
      BY <3>1, <1>h
    <3> QED
      BY <2>1, <3>1, <3>2, <1>q, OwnsKept
  <2>2. Owns(p)'
    BY <1>q, <1>g, <1>d, <1>o DEF Owns, Building, Flipping, Never
  <2> QED
    BY <2>1, <2>2, <1>q DEF OwnInv
<1>3. RunInv'
  <2>1. \A h \in Gens : state'[h] \notin {"none", "reaped"} => nodes'[h] > 0
    BY <1>h, <1>o DEF RunInv
  <2>2. ASSUME NEW h \in Complete' PROVE GenerationReady(chunks'[h])
    BY <1>h, <1>o DEF RunInv, Complete
  <2> QED
    BY <2>1, <2>2 DEF RunInv
<1>4. PointerInv'
  <2>1. active # g /\ rollbackGen # g
    BY <1>o DEF PointerInv, PointerAgrees, Served, Gens, None
  <2>2. rollbackGen # None => rollbackGen \in Gens
    BY Pointers
  <2> QED
    BY <2>1, <2>2, <1>h, <1>g DEF PointerInv, PointerAgrees
<1>5. GcInv'
  <2>1. active # g /\ rollbackGen # g
    BY <1>o DEF PointerInv, PointerAgrees, Served, Gens, None
  <2>2. ASSUME NEW c \in Collectors, NEW x \in {active, rollbackGen}, Spared(c, x)
        PROVE  Spared(c, x)'
    <3>1. x \in Gens \/ x = None
      BY Pointers
    <3> QED
      BY <2>1, <2>2, <3>1, <1>h DEF Spared
  <2>3. ASSUME NEW c \in Collectors, gc[c].at = "reap", NEW h \in gc[c].picked
        PROVE  state'[h] # "none"
    BY <2>3, <1>h, <1>g DEF GcInv, TypeOK
  <2> QED
    BY <2>2, <2>3, <1>q DEF GcInv
<1>6. ReadInv'
  <2>1. asked.gen # g /\ token.gen # g
    BY <1>o DEF ReadInv, Served, Gens, None
  <2>2. /\ asked.gen # None => asked.gen \in Gens
        /\ token.gen # None => token.gen \in Gens
    BY Pointers
  <2> QED
    BY <2>1, <2>2, <1>h DEF ReadInv
<1> QED
  BY <1>1, <1>2, <1>3, <1>4, <1>5, <1>6 DEF Inductive

\* A step of the drain: n chunks leave the queue, embedded or failed.
LEMMA QueueStep ==
  ASSUME Inductive, NEW p \in Ingests, pc[p] = "drain",
         UNCHANGED <<clock, corpusVars, state, nodes, finishedAt, pc, gen, gc, readerVars>>,
         NEW n \in 1..todo[p], todo' = [todo EXCEPT ![p] = @ - n],
         \/ chunks' = [chunks EXCEPT ![gen[p]].pending = @ - n, ![gen[p]].embedded = @ + n]
         \/ chunks' = [chunks EXCEPT ![gen[p]].pending = @ - n, ![gen[p]].failed = @ + n],
         heartbeatAt' \in {heartbeatAt, [heartbeatAt EXCEPT ![gen[p]] = clock]}
  PROVE  Inductive'
<1> DEFINE g == gen[p]
<1> /\ TypeOK /\ OwnInv /\ RunInv /\ PointerInv /\ GcInv /\ ReadInv
    /\ UNCHANGED <<clock, active, rollbackGen, state, nodes, finishedAt, pc, gen, gc,
                   asked, token>>
  BY DEF Inductive, corpusVars, readerVars
<1> DEFINE Rows == [pending : 0..ChunkCount, embedded : 0..ChunkCount, failed : 0..ChunkCount]
<1>d. /\ todo \in [Ingests -> 0..ChunkCount] /\ chunks \in [Gens -> Rows]
      /\ heartbeatAt \in [Gens -> 0..MaxClock \cup {Never}] /\ clock \in 0..MaxClock
      /\ MaxBeat \in Nat /\ MaxClock \in Nat /\ ChunkCount \in Nat
  BY BoundsAssumption DEF TypeOK
<1>o. g \in Gens /\ state[g] = "building" /\ chunks[g].pending = todo[p]
  BY DEF OwnInv, Owns, Building
<1>q. \A q \in Ingests : q # p => todo'[q] = todo[q]
  BY <1>d
<1>h. \A h \in Gens : h # g => chunks'[h] = chunks[h] /\ heartbeatAt'[h] = heartbeatAt[h]
  BY <1>d
<1>n. n \in Nat /\ n <= todo[p] /\ todo[p] \in Nat /\ todo'[p] = todo[p] - n
  BY <1>d
<1>r. /\ chunks[g].pending \in Nat /\ chunks[g].embedded \in Nat /\ chunks[g].failed \in Nat
      /\ chunks[g].pending + chunks[g].embedded + chunks[g].failed <= ChunkCount
  BY <1>o, <1>d DEF RunInv
<1>c. /\ chunks'[g].pending = chunks[g].pending - n
      /\ \/ /\ chunks'[g].embedded = chunks[g].embedded + n
            /\ chunks'[g].failed = chunks[g].failed
         \/ /\ chunks'[g].embedded = chunks[g].embedded
            /\ chunks'[g].failed = chunks[g].failed + n
      /\ chunks'[g] = [pending |-> chunks'[g].pending, embedded |-> chunks'[g].embedded,
                       failed |-> chunks'[g].failed]
      /\ DOMAIN chunks' = Gens /\ chunks' = [h \in Gens |-> chunks'[h]]
  BY <1>o, <1>d
<1>1. TypeOK'
  <2>1. todo' \in [Ingests -> 0..ChunkCount]
    BY <1>d, <1>n
  <2>2. heartbeatAt' \in [Gens -> 0..MaxClock \cup {Never}]
    BY <1>d, <1>o
  <2>3. chunks'[g] \in Rows
    BY <1>n, <1>r, <1>c, <1>o, <1>d
  <2>4. \A h \in Gens : chunks'[h] \in Rows
    BY <2>3, <1>h, <1>d
  <2>5. chunks' \in [Gens -> Rows]
    BY <2>4, <1>c
  <2> QED
    BY <2>1, <2>2, <2>5 DEF TypeOK
<1>2. OwnInv'
  <2>1. ASSUME NEW q \in Ingests, q # p PROVE Owns(q)'
    <3>1. Owns(q) /\ (pc[q] # "idle" => gen[q] # g /\ gen[q] \in Gens)
      BY <2>1 DEF OwnInv, Owns
    <3> QED
      BY <2>1, <3>1, <1>h, <1>q, OwnsKept
  <2>2. heartbeatAt'[g] # Never /\ clock <= heartbeatAt'[g] + MaxBeat
    BY <1>o, <1>d DEF OwnInv, Owns, Building, Never
  <2>3. Owns(p)'
    BY <2>2, <1>o, <1>c, <1>n DEF Owns, Building, Flipping
  <2> QED
    BY <2>1, <2>3 DEF OwnInv
<1>3. RunInv'
  <2>1. ASSUME NEW h \in Gens
        PROVE  chunks'[h].pending + chunks'[h].embedded + chunks'[h].failed <= ChunkCount
    <3>1. CASE h = g
      BY <3>1, <1>c, <1>r, <1>n
    <3>2. CASE h # g
      BY <3>2, <1>h DEF RunInv
    <3> QED
      BY <3>1, <3>2
  <2>2. ASSUME NEW h \in Complete' PROVE GenerationReady(chunks'[h])
    BY <1>h, <1>o DEF RunInv, Complete, CompleteStates
  <2> QED
    BY <2>1, <2>2 DEF RunInv
<1>4. PointerInv' /\ ReadInv'
  BY DEF PointerInv, PointerAgrees, ReadInv
<1>5. GcInv'
  BY DEF GcInv, Spared
<1> QED
  BY <1>1, <1>2, <1>3, <1>4, <1>5 DEF Inductive

\* While a process drains, the rows of its run are there.
LEMMA DrainHasRows ==
  ASSUME Inductive, NEW p \in Ingests, pc[p] = "drain"
  PROVE  nodes[gen[p]] # 0
<1>1. gen[p] \in Gens /\ state[gen[p]] = "building"
  BY DEF Inductive, OwnInv, Owns, Building
<1> QED
  BY <1>1 DEF Inductive, RunInv

\* A batch of vectors.
LEMMA EmbedBatchInductive ==
  ASSUME Inductive, NEW p \in Ingests, EmbedBatch(p)
  PROVE  Inductive'
<1>1. PICK n \in 1..todo[p] :
        /\ todo' = [todo EXCEPT ![p] = @ - n]
        /\ chunks' = IF nodes[gen[p]] = 0 THEN chunks
                     ELSE [chunks EXCEPT ![gen[p]].pending = @ - n, ![gen[p]].embedded = @ + n]
        /\ heartbeatAt' = [heartbeatAt EXCEPT ![gen[p]] = clock]
  BY DEF EmbedBatch
<1>2. pc[p] = "drain"
  BY DEF EmbedBatch
<1>3. chunks' = [chunks EXCEPT ![gen[p]].pending = @ - n, ![gen[p]].embedded = @ + n]
  BY <1>1, <1>2, DrainHasRows
<1>4. UNCHANGED <<clock, corpusVars, state, nodes, finishedAt, pc, gen, gc, readerVars>>
  BY DEF EmbedBatch
<1> QED
  BY <1>1, <1>2, <1>3, <1>4, QueueStep

\* The run is marked failed.
LEMMA MarkFailedInductive ==
  ASSUME Inductive, NEW p \in Ingests, MarkFailed(p)
  PROVE  Inductive'
<1>1. pc[p] = "drain" /\ 1 \in 1..todo[p]
  BY BoundsAssumption DEF MarkFailed, Undrained, Inductive, TypeOK
<1>2. /\ todo' = [todo EXCEPT ![p] = @ - 1]
      /\ chunks' = [chunks EXCEPT ![gen[p]].pending = @ - 1, ![gen[p]].failed = @ + 1]
      /\ UNCHANGED <<clock, corpusVars, state, nodes, finishedAt, heartbeatAt, pc, gen, gc,
                     readerVars>>
  BY <1>1, DrainHasRows DEF MarkFailed
<1> QED
  BY <1>1, <1>2, QueueStep

\* A new run under the corpus lock.
LEMMA AllocateRunInductive ==
  ASSUME Inductive, NEW p \in Ingests, AllocateRun(p)
  PROVE  Inductive'
<1> /\ TypeOK /\ OwnInv /\ RunInv /\ PointerInv /\ GcInv /\ ReadInv
  BY DEF Inductive
<1> PICK g \in Gens, n \in Sizes, left \in 0..ChunkCount :
      /\ state[g] = "none"
      /\ state' = [state EXCEPT ![g] = "building"]
      /\ nodes' = [nodes EXCEPT ![g] = n]
      /\ chunks' = [chunks EXCEPT
                      ![g] = [pending |-> left, embedded |-> ChunkCount - left, failed |-> 0]]
      /\ heartbeatAt' = [heartbeatAt EXCEPT ![g] = clock]
      /\ gen' = [gen EXCEPT ![p] = g]
      /\ todo' = [todo EXCEPT ![p] = left]
      /\ pc' = [pc EXCEPT ![p] = "drain"]
  BY DEF AllocateRun
<1> /\ pc[p] = "idle"
    /\ UNCHANGED <<clock, active, rollbackGen, finishedAt, gc, asked, token>>
  BY DEF AllocateRun, corpusVars, readerVars
<1>d. /\ pc \in [Ingests -> Stations] /\ gen \in [Ingests -> 0..MaxGen]
      /\ todo \in [Ingests -> 0..ChunkCount] /\ state \in [Gens -> RunStates]
      /\ heartbeatAt \in [Gens -> 0..MaxClock \cup {Never}] /\ DOMAIN chunks = Gens
      /\ clock \in Nat /\ MaxBeat \in Nat
  BY BoundsAssumption DEF TypeOK
<1>n. n \in Nat /\ n > 0 /\ left \in Nat /\ ChunkCount \in Nat
  BY BoundsAssumption
<1>g. g \in 0..MaxGen /\ g # None
  BY BoundsAssumption DEF Gens, None
<1>o. \A q \in Ingests : pc[q] # "idle" => gen[q] # g
  BY <1>d DEF OwnInv, Owns, Building, Flipping, Stations
<1>p. pc'[p] = "drain" /\ gen'[p] = g /\ todo'[p] = left
  BY <1>d
<1>q. \A q \in Ingests : q # p => pc'[q] = pc[q] /\ gen'[q] = gen[q] /\ todo'[q] = todo[q]
  BY <1>d
<1>r. state'[g] = "building" /\ heartbeatAt'[g] = clock /\ chunks'[g].pending = left
  BY <1>d
<1>h. \A h \in Gens : h # g => /\ state'[h] = state[h] /\ heartbeatAt'[h] = heartbeatAt[h]
                              /\ chunks'[h] = chunks[h]
  BY <1>d
<1>1. TypeOK'
  <2>0. [pending |-> left, embedded |-> ChunkCount - left, failed |-> 0]
          \in [pending : 0..ChunkCount, embedded : 0..ChunkCount, failed : 0..ChunkCount]
    BY <1>n
  <2>1. chunks' \in [Gens -> [pending : 0..ChunkCount, embedded : 0..ChunkCount,
                             failed : 0..ChunkCount]]
    BY <2>0 DEF TypeOK
  <2>2. state' \in [Gens -> RunStates] /\ pc' \in [Ingests -> Stations]
    BY <1>d DEF RunStates, Stations
  <2>3. /\ nodes' \in [Gens -> Sizes \cup {0}]
        /\ heartbeatAt' \in [Gens -> 0..MaxClock \cup {Never}]
        /\ gen' \in [Ingests -> 0..MaxGen]
        /\ todo' \in [Ingests -> 0..ChunkCount]
    BY <1>g DEF TypeOK
  <2> QED
    BY <2>1, <2>2, <2>3 DEF TypeOK
<1>2. OwnInv'
  <2>1. ASSUME NEW q \in Ingests, q # p PROVE Owns(q)'
    <3>1. Owns(q) /\ (pc[q] # "idle" => gen[q] # g /\ gen[q] \in Gens)
      BY <1>o DEF OwnInv, Owns
    <3> QED
      BY <2>1, <3>1, <1>h, <1>q, OwnsKept
  <2>2. Owns(p)'
    BY <1>p, <1>r, <1>d DEF Owns, Building, Flipping, Never
  <2>3. ASSUME NEW q \in Ingests, NEW r \in Ingests, q # r, pc'[q] # "idle", pc'[r] # "idle"
        PROVE  gen'[q] # gen'[r]
    BY <2>3, <1>p, <1>q, <1>o DEF OwnInv
  <2> QED
    BY <2>1, <2>2, <2>3 DEF OwnInv
<1>3. RunInv'
  <2>1. ASSUME NEW h \in Gens
        PROVE  chunks'[h].pending + chunks'[h].embedded + chunks'[h].failed <= ChunkCount
    BY <1>n DEF TypeOK, RunInv
  <2>2. \A h \in Gens : state'[h] \notin {"none", "reaped"} => nodes'[h] > 0
    BY <1>n DEF TypeOK, RunInv
  <2>3. ASSUME NEW h \in Complete' PROVE GenerationReady(chunks'[h])
    BY <1>h, <1>r DEF RunInv, Complete, CompleteStates
  <2> QED
    BY <2>1, <2>2, <2>3 DEF RunInv
<1>4. PointerInv'
  <2>1. active # g /\ rollbackGen # g
    BY <1>g DEF PointerInv, PointerAgrees, Served
  <2> QED
    BY <2>1, <1>h, <1>r, Pointers DEF PointerInv, PointerAgrees
<1>5. GcInv'
  <2>1. ASSUME NEW c \in Collectors, gc[c].at = "reap", NEW h \in gc[c].picked
        PROVE  state'[h] # "none" /\ h # g
    BY <2>1, <1>h DEF GcInv, TypeOK
  <2> QED
    BY <2>1, <1>p, <1>q DEF GcInv, Spared
<1>6. ReadInv'
  <2>1. asked.gen # g /\ token.gen # g
    BY <1>g DEF ReadInv, Served
  <2> QED
    BY <2>1, <1>h, Pointers DEF ReadInv
<1> QED
  BY <1>1, <1>2, <1>3, <1>4, <1>5, <1>6 DEF Inductive

-----------------------------------------------------------------------------
(* Moving the pointer.                                                     *)

\* The types arithmetic needs.
LEMMA Times ==
  ASSUME TypeOK
  PROVE  /\ clock \in Nat
         /\ \A g \in Gens : finishedAt[g] \in Int /\ heartbeatAt[g] \in Int
         /\ \A c \in Collectors : gc[c].ts \in Nat
         /\ asked.at \in Nat /\ token.exp \in Nat
         /\ Ttl \in Nat /\ Grace \in Nat /\ Skew \in Nat /\ AbandonedAfter \in Nat
         /\ MaxBeat \in Nat /\ MaxPause \in Nat /\ MaxLatency \in Nat
<1>0. /\ Ttl \in Nat /\ Grace \in Nat /\ Skew \in Nat /\ AbandonedAfter \in Nat
      /\ MaxBeat \in Nat /\ MaxPause \in Nat /\ MaxLatency \in Nat
  BY BoundsAssumption
<1>1. clock \in Nat /\ asked.at \in Nat /\ token.exp \in Nat
  BY DEF TypeOK
<1>2. \A g \in Gens : finishedAt[g] \in Int /\ heartbeatAt[g] \in Int
  BY DEF TypeOK, Never
<1>3. \A c \in Collectors : gc[c].ts \in Nat
  BY DEF TypeOK
<1> QED
  BY <1>0, <1>1, <1>2, <1>3

\* What every activation of `to` does to the runs: it is active, whatever was
\* is retired and stamped now, and the others are as they were.
LEMMA Activation ==
  ASSUME Inductive, NEW to \in Gens, state' = ActivatedStates(to),
         finishedAt' = [g \in Gens |-> IF g = active /\ g # to THEN clock ELSE finishedAt[g]],
         active' = to, rollbackGen' \in {active, rollbackGen},
         UNCHANGED <<clock, nodes, chunks, heartbeatAt, gc, asked, token>>,
         state[to] \in {"ready", "active", "retired"},
         \A p \in Ingests : pc'[p] # "idle" =>
            /\ gen[p] # to
            /\ pc'[p] = pc[p] /\ gen'[p] = gen[p] /\ todo'[p] = todo[p],
         pc' \in [Ingests -> Stations] /\ gen' \in [Ingests -> 0..MaxGen]
           /\ todo' \in [Ingests -> 0..ChunkCount],
         \A c \in Collectors : gc[c].at = "runs" => Spared(c, active)' /\ Spared(c, rollbackGen)',
         \A c \in Collectors : gc[c].at = "reap" => to \notin gc[c].picked
  PROVE  Inductive'
<1> /\ TypeOK /\ OwnInv /\ RunInv /\ PointerInv /\ GcInv /\ ReadInv
  BY DEF Inductive
<1>d. state \in [Gens -> RunStates] /\ finishedAt \in [Gens -> 0..MaxClock \cup {Never}]
      /\ clock \in 0..MaxClock /\ active \in 0..MaxGen /\ rollbackGen \in 0..MaxGen
  BY DEF TypeOK
<1>a. \A g \in Gens : state[g] = "active" <=> g = active
  BY DEF PointerInv, PointerAgrees
<1>t. state'[to] = "active" /\ finishedAt'[to] = finishedAt[to]
  BY DEF ActivatedStates
<1>b. \A g \in Gens : g = active /\ g # to => state'[g] = "retired" /\ finishedAt'[g] = clock
  BY <1>a DEF ActivatedStates
<1>h. \A g \in Gens : g # active /\ g # to
        => state'[g] = state[g] /\ finishedAt'[g] = finishedAt[g]
  BY <1>a DEF ActivatedStates
<1>1. TypeOK'
  <2>1. to \in 0..MaxGen
    BY BoundsAssumption DEF Gens
  <2>2. state' \in [Gens -> RunStates]
    BY <1>d DEF ActivatedStates, RunStates
  <2>3. finishedAt' \in [Gens -> 0..MaxClock \cup {Never}]
    BY <1>d
  <2>4. active' \in 0..MaxGen /\ rollbackGen' \in 0..MaxGen
    BY <1>d, <2>1
  <2> QED
    BY <2>2, <2>3, <2>4 DEF TypeOK
<1>2. OwnInv'
  <2>1. ASSUME NEW q \in Ingests PROVE Owns(q)'
    <3>1. CASE pc'[q] = "idle"
      BY <3>1 DEF Owns
    <3>2. CASE pc'[q] # "idle"
      <4>1. Owns(q) /\ pc[q] # "idle" /\ gen[q] # to /\ gen[q] \in Gens
        BY <3>2 DEF OwnInv, Owns
      <4>2. gen[q] # active
        BY <4>1, <1>a, <1>d, Pointers DEF Owns, Building, Flipping, TypeOK, Stations
      <4> QED
        BY <4>1, <4>2, <3>2, <1>h, OwnsKept
    <3> QED
      BY <3>1, <3>2
  <2>2. ASSUME NEW q \in Ingests, NEW r \in Ingests, q # r, pc'[q] # "idle", pc'[r] # "idle"
        PROVE  gen'[q] # gen'[r]
    BY <2>2 DEF OwnInv
  <2> QED
    BY <2>1, <2>2 DEF OwnInv
<1>3. RunInv'
  <2>1. \A g \in Gens : state'[g] \notin {"none", "reaped"} => nodes'[g] > 0
    BY <1>t, <1>b, <1>h, <1>a DEF RunInv
  <2>2. ASSUME NEW g \in Complete' PROVE GenerationReady(chunks'[g])
    BY <1>t, <1>b, <1>h, <1>a DEF RunInv, Complete, CompleteStates
  <2> QED
    BY <2>1, <2>2 DEF RunInv
<1>4. PointerInv'
  <2>1. \A g \in Gens : state'[g] = "active" <=> g = to
    BY <1>t, <1>b, <1>h, <1>a
  <2>2. rollbackGen' # None => state'[rollbackGen'] \in Served
    <3>1. rollbackGen' = to \/ rollbackGen' = active \/ rollbackGen' = rollbackGen
      OBVIOUS
    <3> QED
      BY <3>1, <1>t, <1>b, <1>h, Pointers DEF PointerInv, Served
  <2> QED
    BY <2>1, <2>2 DEF PointerInv, PointerAgrees
<1>5. GcInv'
  <2>1. ASSUME NEW c \in Collectors, gc[c].at = "runs"
        PROVE  gc'[c].ts <= clock' + Skew /\ Spared(c, active)' /\ Spared(c, rollbackGen)'
    BY <2>1 DEF GcInv
  <2>2. ASSUME NEW c \in Collectors, gc[c].at = "reap", NEW g \in gc[c].picked
        PROVE  /\ state'[g] # "none"
               /\ g \notin {active', rollbackGen', asked.gen}
               /\ \A p \in Ingests : pc'[p] # "idle" => gen'[p] # g
               /\ g = token.gen => token.exp <= clock
    <3>1. g \in Gens
      BY <2>2 DEF TypeOK
    <3> QED
      BY <2>2, <3>1, <1>t, <1>b, <1>h DEF GcInv
  <2> QED
    BY <2>1, <2>2 DEF GcInv
<1>6. ReadInv'
  <2>1. asked.gen # None => state'[asked.gen] \in Served
    BY <1>t, <1>b, <1>h, Pointers DEF ReadInv, Served
  <2>2. asked.gen # None => asked.gen = to \/ asked.at <= finishedAt'[asked.gen]
    BY <1>b, <1>h, Pointers DEF ReadInv
  <2>3. token.gen # None => /\ state'[token.gen] \in Served \cup {"reaped"}
                            /\ state'[token.gen] = "reaped" => token.exp <= clock
    BY <1>t, <1>b, <1>h, Pointers DEF ReadInv, Served
  <2>4. token.gen # None =>
          \/ token.gen = to
          \/ token.exp <= finishedAt'[token.gen] + MaxLatency + Skew + Ttl
    BY <1>b, <1>h, Pointers, Times DEF ReadInv
  <2> QED
    BY <2>1, <2>2, <2>3, <2>4 DEF ReadInv
<1> QED
  BY <1>1, <1>2, <1>3, <1>4, <1>5, <1>6 DEF Inductive

\* The flip retires the active generation.
LEMMA FlipInductive ==
  ASSUME Inductive, Prompt, NEW p \in Ingests, Flip(p)
  PROVE  Inductive'
<1> DEFINE g == gen[p]
<1> /\ TypeOK /\ OwnInv /\ RunInv /\ PointerInv /\ GcInv /\ ReadInv
  BY DEF Inductive
<1>0. /\ pc[p] = "flip" /\ rollbackGen' = active /\ active' = g
      /\ state' = ActivatedStates(g)
      /\ UNCHANGED <<clock, nodes, chunks, heartbeatAt, gc, asked, token>>
  BY DEF Flip, readerVars
<1>1. /\ g \in Gens /\ state[g] = "ready"
      /\ finishedAt[g] # Never /\ clock <= finishedAt[g] + MaxPause
  BY <1>0 DEF OwnInv, Owns, Flipping
<1>2. g # active /\ \A h \in Gens : state[h] = "active" <=> h = active
  BY <1>1 DEF PointerInv, PointerAgrees
<1>3. finishedAt' = [h \in Gens |-> IF h = active /\ h # g THEN clock ELSE finishedAt[h]]
  BY <1>1, <1>2 DEF Flip, FlipStamps
<1>4. \A q \in Ingests : pc'[q] # "idle" =>
        /\ gen[q] # g
        /\ pc'[q] = pc[q] /\ gen'[q] = gen[q] /\ todo'[q] = todo[q]
  BY <1>0 DEF Flip, Exit, OwnInv, TypeOK
<1>5. pc' \in [Ingests -> Stations] /\ gen' \in [Ingests -> 0..MaxGen]
        /\ todo' \in [Ingests -> 0..ChunkCount]
  <2>1. 0 \in 0..MaxGen /\ 0 \in 0..ChunkCount /\ "idle" \in Stations
    BY BoundsAssumption DEF Stations
  <2>2. pc \in [Ingests -> Stations] /\ gen \in [Ingests -> 0..MaxGen]
          /\ todo \in [Ingests -> 0..ChunkCount]
    BY DEF TypeOK
  <2> QED
    BY <2>1, <2>2 DEF Flip, Exit, None
<1>6. ASSUME NEW c \in Collectors, gc[c].at = "runs"
      PROVE  Spared(c, active)' /\ Spared(c, rollbackGen)'
  <2>1. gc[c].ts <= clock + Skew
    BY <1>6 DEF GcInv
  <2>2. gc[c].ts - finishedAt'[g] < Grace
    BY <2>1, <1>1, <1>3, Times DEF Prompt
  <2>3. active = None \/ gc[c].ts - finishedAt'[active] < Grace
    BY <2>1, <1>2, <1>3, Times, Pointers DEF Prompt
  <2> QED
    BY <2>2, <2>3, <1>0 DEF Spared
<1>7. \A c \in Collectors : gc[c].at = "reap" => g \notin gc[c].picked
  BY <1>0 DEF GcInv
<1> HIDE DEF g
<1> QED
  BY <1>0, <1>1, <1>3, <1>4, <1>5, <1>6, <1>7, Activation

\* The undo exchanges the pointers.
LEMMA RollbackInductive ==
  ASSUME Inductive, Rollback
  PROVE  Inductive'
<1> /\ TypeOK /\ OwnInv /\ RunInv /\ PointerInv /\ GcInv /\ ReadInv
  BY DEF Inductive
<1>0. /\ rollbackGen > 0 /\ active' = rollbackGen /\ rollbackGen' = rollbackGen
      /\ state' = ActivatedStates(rollbackGen)
      /\ UNCHANGED <<clock, nodes, chunks, heartbeatAt, pc, gen, todo, gc, asked, token>>
  BY DEF Rollback, readerVars
<1>1. rollbackGen \in Gens /\ state[rollbackGen] \in Served
  BY <1>0, Pointers DEF PointerInv, None
<1>2. \A h \in Gens : state[h] = "active" <=> h = active
  BY DEF PointerInv, PointerAgrees
<1>3. finishedAt' = [h \in Gens |-> IF h = active /\ h # rollbackGen THEN clock
                                    ELSE finishedAt[h]]
  BY <1>2 DEF Rollback
<1>4. \A q \in Ingests : pc'[q] # "idle" => gen[q] # rollbackGen
  BY <1>0, <1>1 DEF OwnInv, Owns, Building, Flipping, TypeOK, Stations, Served
<1>5. pc \in [Ingests -> Stations] /\ gen \in [Ingests -> 0..MaxGen]
        /\ todo \in [Ingests -> 0..ChunkCount]
  BY DEF TypeOK
<1>6. ASSUME NEW c \in Collectors, gc[c].at = "runs"
      PROVE  Spared(c, active)' /\ Spared(c, rollbackGen)'
  <2>1. Spared(c, rollbackGen)
    BY <1>6 DEF GcInv
  <2>2. finishedAt'[rollbackGen] = finishedAt[rollbackGen]
    BY <1>1, <1>3
  <2> QED
    BY <2>1, <2>2, <1>0 DEF Spared
<1>7. \A c \in Collectors : gc[c].at = "reap" => rollbackGen \notin gc[c].picked
  BY DEF GcInv
<1> QED
  BY <1>0, <1>1, <1>3, <1>4, <1>5, <1>6, <1>7, Activation DEF Served

-----------------------------------------------------------------------------
(* gc.                                                                     *)

\* A step of one gc process that moves only its control.
LEMMA GcControl ==
  ASSUME Inductive, NEW c \in Collectors,
         UNCHANGED <<clock, corpusVars, runVars, pc, gen, todo, readerVars>>,
         NEW r \in [at : {"idle", "runs", "reap"}, ts : 0..(MaxClock + Skew),
                    active : 0..MaxGen, rollback : 0..MaxGen, picked : SUBSET Gens],
         gc' = [gc EXCEPT ![c] = r],
         r.at = "runs" => r.ts <= clock + Skew /\ r.active = active /\ r.rollback = rollbackGen,
         r.at = "reap" => \A g \in r.picked :
            /\ state[g] # "none"
            /\ g \notin {active, rollbackGen, asked.gen}
            /\ \A p \in Ingests : pc[p] # "idle" => gen[p] # g
            /\ g = token.gen => token.exp <= clock
  PROVE  Inductive'
<1> /\ TypeOK /\ OwnInv /\ RunInv /\ PointerInv /\ GcInv /\ ReadInv
    /\ UNCHANGED <<clock, active, rollbackGen, state, nodes, chunks, finishedAt, heartbeatAt,
                   pc, gen, todo, asked, token>>
  BY DEF Inductive, corpusVars, runVars, readerVars
<1>d. gc'[c] = r /\ \A d \in Collectors : d # c => gc'[d] = gc[d]
  BY DEF TypeOK
<1>1. TypeOK'
  <2>1. gc' \in [Collectors -> [at : {"idle", "runs", "reap"}, ts : 0..(MaxClock + Skew),
                              active : 0..MaxGen, rollback : 0..MaxGen, picked : SUBSET Gens]]
    BY DEF TypeOK
  <2> QED
    BY <2>1 DEF TypeOK
<1>2. OwnInv' /\ RunInv' /\ PointerInv' /\ ReadInv'
  BY DEF OwnInv, Owns, RunInv, Complete, PointerInv, PointerAgrees, ReadInv
<1>3. GcInv'
  BY <1>d DEF GcInv, Spared
<1> QED
  BY <1>1, <1>2, <1>3 DEF Inductive

\* A collector at rest has picked nothing.
LEMMA IdleGcType ==
  IdleGc \in [at : {"idle", "runs", "reap"}, ts : 0..(MaxClock + Skew),
              active : 0..MaxGen, rollback : 0..MaxGen, picked : SUBSET Gens]
BY BoundsAssumption DEF IdleGc, None

\* A collector that stops.
LEMMA GcAbortInductive ==
  ASSUME Inductive, NEW c \in Collectors, GcAbort(c)
  PROVE  Inductive'
<1>1. IdleGc.at = "idle"
  BY DEF IdleGc
<1> QED
  BY <1>1, IdleGcType, GcControl DEF GcAbort

\* The first statement of gc.
LEMMA GcReadPointerInductive ==
  ASSUME Inductive, NEW c \in Collectors, GcReadPointer(c)
  PROVE  Inductive'
<1>1. PICK s \in 0..Skew :
        gc' = [gc EXCEPT ![c] = [at |-> "runs", ts |-> clock + s, active |-> active,
                                 rollback |-> rollbackGen, picked |-> {}]]
  BY DEF GcReadPointer
<1> DEFINE r == [at |-> "runs", ts |-> clock + s, active |-> active,
                 rollback |-> rollbackGen, picked |-> {}]
<1>2. clock \in 0..MaxClock /\ active \in 0..MaxGen /\ rollbackGen \in 0..MaxGen
  BY DEF Inductive, TypeOK
<1>3. clock + s <= clock + Skew /\ clock + s \in 0..(MaxClock + Skew)
  BY <1>2, BoundsAssumption
<1>4. r \in [at : {"idle", "runs", "reap"}, ts : 0..(MaxClock + Skew),
             active : 0..MaxGen, rollback : 0..MaxGen, picked : SUBSET Gens]
  BY <1>2, <1>3
<1>5. UNCHANGED <<clock, corpusVars, runVars, pc, gen, todo, readerVars>>
  BY DEF GcReadPointer
<1>6. r.at = "runs" /\ r.ts = clock + s /\ r.active = active /\ r.rollback = rollbackGen
  OBVIOUS
<1> HIDE DEF r
<1> QED
  BY <1>1, <1>3, <1>4, <1>5, <1>6, GcControl DEF r

\* What collectableGenerations returns is nobody's: neither a pointer, nor a
\* running build, nor what a search or an unexpired token pins.
LEMMA PickedAreFree ==
  ASSUME Inductive, Prompt, NEW c \in Collectors, gc[c].at = "runs",
         NEW g \in CollectableGenerations(gc[c].ts, gc[c].active, gc[c].rollback)
  PROVE  /\ g \in Gens /\ state[g] # "none"
         /\ g \notin {active, rollbackGen, asked.gen}
         /\ \A p \in Ingests : pc[p] # "idle" => gen[p] # g
         /\ g = token.gen => token.exp <= clock
<1> /\ TypeOK /\ OwnInv /\ RunInv /\ PointerInv /\ GcInv /\ ReadInv
  BY DEF Inductive
<1>t. gc[c].ts <= clock + Skew /\ Spared(c, active) /\ Spared(c, rollbackGen)
  BY DEF GcInv
<1>1. CASE g \in Abandoned(gc[c].ts)
  <2>1. g \in Gens /\ state[g] = "building" /\ gc[c].ts - heartbeatAt[g] > AbandonedAfter
    BY <1>1 DEF Abandoned
  <2>2. ASSUME NEW p \in Ingests, pc[p] # "idle" PROVE gen[p] # g
    <3>1. pc[p] \in Building => clock <= heartbeatAt[gen[p]] + MaxBeat
      BY <2>2 DEF OwnInv, Owns
    <3>2. pc[p] \in Building \/ state[gen[p]] = "ready"
      BY <2>2 DEF OwnInv, Owns, Building, Flipping, TypeOK, Stations
    <3> QED
      BY <3>1, <3>2, <2>1, <1>t, Times DEF Prompt
  <2> QED
    BY <2>1, <2>2, Pointers DEF PointerInv, PointerAgrees, ReadInv, Served
<1>2. CASE g \in PastGrace(gc[c].ts, gc[c].active, gc[c].rollback)
  <2>1. /\ g \in Gens /\ state[g] \in CompleteStates
        /\ g \notin {gc[c].active, gc[c].rollback}
        /\ gc[c].ts - finishedAt[g] >= Grace
    BY <1>2 DEF PastGrace, Complete
  <2>2. g # active /\ g # rollbackGen
    BY <2>1, <1>t, Pointers, Times DEF Spared
  <2>3. g # asked.gen
    BY <2>1, <2>2, <1>t, Times, Pointers DEF ReadInv, Prompt
  <2>4. g = token.gen => token.exp <= clock
    BY <2>1, <2>2, <1>t, Times, Pointers DEF ReadInv, Prompt
  <2>5. ASSUME NEW p \in Ingests, pc[p] # "idle" PROVE gen[p] # g
    <3>1. pc[p] \in Building => state[gen[p]] = "building"
      BY <2>5 DEF OwnInv, Owns
    <3>2. pc[p] \in Flipping => clock <= finishedAt[gen[p]] + MaxPause
      BY <2>5 DEF OwnInv, Owns
    <3>3. pc[p] \in Building \/ pc[p] \in Flipping
      BY <2>5 DEF Building, Flipping, TypeOK, Stations
    <3> QED
      BY <3>1, <3>2, <3>3, <2>1, <1>t, Times DEF Prompt, CompleteStates
  <2> QED
    BY <2>1, <2>2, <2>3, <2>4, <2>5 DEF CompleteStates
<1> QED
  BY <1>1, <1>2 DEF CollectableGenerations

\* The second statement of gc.
LEMMA GcReadRunsInductive ==
  ASSUME Inductive, Prompt, NEW c \in Collectors, GcReadRuns(c)
  PROVE  Inductive'
<1> DEFINE picked == CollectableGenerations(gc[c].ts, gc[c].active, gc[c].rollback)
           r == [gc[c] EXCEPT !.at = "reap", !.picked = picked]
<1>0. gc[c].at = "runs" /\ UNCHANGED <<clock, corpusVars, runVars, pc, gen, todo, readerVars>>
  BY DEF GcReadRuns
<1>1. CASE gc' = [gc EXCEPT ![c] = IdleGc]
  <2>1. IdleGc.at = "idle"
    BY DEF IdleGc
  <2> QED
    BY <1>0, <1>1, <2>1, IdleGcType, GcControl
<1>2. CASE gc' = [gc EXCEPT ![c] = r]
  <2>1. picked \subseteq Gens
    BY <1>0, PickedAreFree, BoundsAssumption DEF CollectableGenerations, PastGrace, Abandoned, Complete
  <2>2. gc[c] \in [at : {"idle", "runs", "reap"}, ts : 0..(MaxClock + Skew),
                   active : 0..MaxGen, rollback : 0..MaxGen, picked : SUBSET Gens]
    BY DEF Inductive, TypeOK
  <2> HIDE DEF picked
  <2>3. r \in [at : {"idle", "runs", "reap"}, ts : 0..(MaxClock + Skew),
               active : 0..MaxGen, rollback : 0..MaxGen, picked : SUBSET Gens]
        /\ r.at = "reap" /\ r.picked = picked
    BY <2>1, <2>2
  <2>4. \A g \in picked :
            /\ state[g] # "none"
            /\ g \notin {active, rollbackGen, asked.gen}
            /\ \A p \in Ingests : pc[p] # "idle" => gen[p] # g
            /\ g = token.gen => token.exp <= clock
    BY <1>0, PickedAreFree DEF picked
  <2> HIDE DEF r
  <2> QED
    BY <1>0, <1>2, <2>3, <2>4, GcControl
<1> QED
  BY <1>1, <1>2 DEF GcReadRuns

\* The deletion, of what was picked two statements ago.
LEMMA GcReapInductive ==
  ASSUME Inductive, NEW c \in Collectors, GcReap(c)
  PROVE  Inductive'
<1> DEFINE picked == gc[c].picked
<1> /\ TypeOK /\ OwnInv /\ RunInv /\ PointerInv /\ GcInv /\ ReadInv
    /\ UNCHANGED <<clock, active, rollbackGen, finishedAt, heartbeatAt, pc, gen, todo,
                   asked, token>>
  BY DEF Inductive, GcReap, corpusVars, readerVars
<1>0. /\ gc[c].at = "reap" /\ gc' = [gc EXCEPT ![c] = IdleGc]
      /\ nodes' = [g \in Gens |-> IF g \in picked THEN 0 ELSE nodes[g]]
      /\ chunks' = [g \in Gens |-> IF g \in picked THEN NoChunks ELSE chunks[g]]
      /\ state' = [g \in Gens |-> IF g \in picked THEN "reaped" ELSE state[g]]
  BY DEF GcReap
<1>h. \A g \in Gens : g \notin picked
        => state'[g] = state[g] /\ nodes'[g] = nodes[g] /\ chunks'[g] = chunks[g]
  BY <1>0
<1>r. \A g \in Gens : g \in picked => state'[g] = "reaped"
  BY <1>0
<1>f. \A g \in picked : /\ g \notin {active, rollbackGen, asked.gen}
                        /\ \A p \in Ingests : pc[p] # "idle" => gen[p] # g
                        /\ g = token.gen => token.exp <= clock
  BY <1>0 DEF GcInv
<1> HIDE DEF picked
<1>1. TypeOK'
  <2>1. gc' \in [Collectors -> [at : {"idle", "runs", "reap"}, ts : 0..(MaxClock + Skew),
                              active : 0..MaxGen, rollback : 0..MaxGen, picked : SUBSET Gens]]
    BY <1>0, IdleGcType DEF TypeOK
  <2>2. state' \in [Gens -> RunStates] /\ nodes' \in [Gens -> Sizes \cup {0}]
    BY <1>0 DEF TypeOK, RunStates
  <2>3. NoChunks \in [pending : 0..ChunkCount, embedded : 0..ChunkCount, failed : 0..ChunkCount]
    BY BoundsAssumption DEF NoChunks
  <2>4. chunks' \in [Gens -> [pending : 0..ChunkCount, embedded : 0..ChunkCount,
                            failed : 0..ChunkCount]]
    BY <1>0, <2>3 DEF TypeOK
  <2> QED
    BY <2>1, <2>2, <2>4 DEF TypeOK
<1>2. OwnInv'
  <2>1. ASSUME NEW q \in Ingests PROVE Owns(q)'
    <3>1. Owns(q) /\ (pc[q] # "idle" => gen[q] \notin picked /\ gen[q] \in Gens)
      BY <1>f DEF OwnInv, Owns
    <3> QED
      BY <3>1, <1>h, OwnsKept
  <2> QED
    BY <2>1 DEF OwnInv
<1>3. RunInv'
  <2>1. ASSUME NEW g \in Gens
        PROVE  chunks'[g].pending + chunks'[g].embedded + chunks'[g].failed <= ChunkCount
    <3>1. CASE g \in picked
      BY <3>1, <1>0, BoundsAssumption DEF NoChunks
    <3>2. CASE g \notin picked
      BY <3>2, <1>h DEF RunInv
    <3> QED
      BY <3>1, <3>2
  <2>2. \A g \in Gens : state'[g] \notin {"none", "reaped"} => nodes'[g] > 0
    BY <1>h, <1>r DEF RunInv
  <2>3. ASSUME NEW g \in Complete' PROVE GenerationReady(chunks'[g])
    BY <1>h, <1>r DEF RunInv, Complete, CompleteStates
  <2> QED
    BY <2>1, <2>2, <2>3 DEF RunInv
<1>4. PointerInv'
  <2>1. \A g \in Gens : state'[g] = "active" <=> g = active
    BY <1>h, <1>r, <1>f DEF PointerInv, PointerAgrees
  <2>2. rollbackGen # None => state'[rollbackGen] \in Served
    BY <1>h, <1>f, Pointers DEF PointerInv
  <2> QED
    BY <2>1, <2>2 DEF PointerInv, PointerAgrees
<1>5. GcInv'
  <2>1. gc'[c].at = "idle" /\ \A d \in Collectors : d # c => gc'[d] = gc[d]
    BY <1>0 DEF TypeOK, IdleGc
  <2>2. ASSUME NEW d \in Collectors, d # c, gc[d].at = "reap", NEW g \in gc[d].picked
        PROVE  state'[g] # "none"
    BY <2>2, <1>0 DEF GcInv, TypeOK
  <2> QED
    BY <2>1, <2>2 DEF GcInv, Spared
<1>6. ReadInv'
  <2>1. asked.gen # None => state'[asked.gen] = state[asked.gen]
    BY <1>h, <1>f, Pointers
  <2>2. token.gen # None => \/ state'[token.gen] = state[token.gen]
                            \/ state'[token.gen] = "reaped" /\ token.exp <= clock
    BY <1>h, <1>r, <1>f, Pointers
  <2> QED
    BY <2>1, <2>2 DEF ReadInv
<1> QED
  BY <1>1, <1>2, <1>3, <1>4, <1>5, <1>6 DEF Inductive

-----------------------------------------------------------------------------
(* Readers and time.                                                       *)

\* A search pins the active generation.
LEMMA SearchQueryInductive ==
  ASSUME Inductive, SearchQuery
  PROVE  Inductive'
<1> /\ TypeOK /\ OwnInv /\ RunInv /\ PointerInv /\ GcInv /\ ReadInv
    /\ UNCHANGED <<clock, active, rollbackGen, state, nodes, chunks, finishedAt, heartbeatAt,
                   pc, gen, todo, gc, token>>
    /\ active > 0 /\ asked' = [gen |-> active, at |-> clock]
  BY DEF Inductive, SearchQuery, corpusVars, runVars
<1>1. TypeOK'
  <2>1. asked' \in [gen : 0..MaxGen, at : 0..MaxClock]
    BY DEF TypeOK
  <2> QED
    BY <2>1 DEF TypeOK
<1>2. OwnInv' /\ RunInv' /\ PointerInv'
  BY DEF OwnInv, Owns, RunInv, Complete, PointerInv, PointerAgrees
<1>3. GcInv'
  BY DEF GcInv, Spared
<1>4. ReadInv'
  <2>1. state[active] = "active"
    BY Pointers DEF PointerInv, PointerAgrees, None
  <2>2. clock <= clock /\ clock <= clock + MaxLatency
    BY Times
  <2>3. asked'.gen = active /\ asked'.at = clock
    OBVIOUS
  <2> QED
    BY <2>1, <2>2, <2>3 DEF ReadInv, Served
<1> QED
  BY <1>1, <1>2, <1>3, <1>4 DEF Inductive

\* The token of that search.
LEMMA SearchMintInductive ==
  ASSUME Inductive, SearchMint
  PROVE  Inductive'
<1> /\ TypeOK /\ OwnInv /\ RunInv /\ PointerInv /\ GcInv /\ ReadInv
    /\ UNCHANGED <<clock, active, rollbackGen, state, nodes, chunks, finishedAt, heartbeatAt,
                   pc, gen, todo, gc>>
    /\ asked # NoSearch /\ asked' = NoSearch
  BY DEF Inductive, SearchMint, corpusVars, runVars
<1> PICK s \in 0..Skew : token' = [gen |-> asked.gen, exp |-> clock + s + Ttl]
  BY DEF SearchMint
<1>t. asked.gen \in 0..MaxGen /\ clock \in 0..MaxClock /\ MaxClock \in Nat /\ MaxGen \in Nat
  BY BoundsAssumption DEF TypeOK
<1>1. TypeOK'
  <2>1. clock + s + Ttl \in 0..(MaxClock + Skew + Ttl)
    BY <1>t, BoundsAssumption
  <2>2. token' \in [gen : 0..MaxGen, exp : 0..(MaxClock + Skew + Ttl)]
    BY <1>t, <2>1
  <2>3. asked' \in [gen : 0..MaxGen, at : 0..MaxClock]
    BY <1>t DEF NoSearch, None
  <2> QED
    BY <2>2, <2>3 DEF TypeOK
<1>2. OwnInv' /\ RunInv' /\ PointerInv'
  BY DEF OwnInv, Owns, RunInv, Complete, PointerInv, PointerAgrees
<1>3. GcInv'
  <2>1. asked'.gen = None /\ token'.gen = asked.gen
    BY DEF NoSearch
  <2>2. ASSUME NEW c \in Collectors, gc[c].at = "reap", NEW g \in gc[c].picked
        PROVE  g # None /\ g # asked.gen
    BY <2>2, Pointers DEF GcInv, TypeOK
  <2> QED
    BY <2>1, <2>2 DEF GcInv, Spared
<1>4. ReadInv'
  <2>1. token'.gen = asked.gen /\ token'.exp = clock + s + Ttl /\ asked'.gen = None
    BY DEF NoSearch
  <2>2. clock + s + Ttl <= clock + Skew + Ttl
    BY <1>t, BoundsAssumption
  <2>3. asked.gen # None =>
            \/ asked.gen = active
            \/ clock + s + Ttl <= finishedAt[asked.gen] + MaxLatency + Skew + Ttl
    BY Times, Pointers DEF ReadInv
  <2>4. asked.gen # None => state[asked.gen] \in Served
    BY DEF ReadInv
  <2> QED
    BY <2>1, <2>2, <2>3, <2>4 DEF ReadInv, Served
<1> QED
  BY <1>1, <1>2, <1>3, <1>4 DEF Inductive

\* Time passes within the bounds of Prompt.
LEMMA TickInductive ==
  ASSUME Inductive, Tick
  PROVE  Inductive'
<1> /\ TypeOK /\ OwnInv /\ RunInv /\ PointerInv /\ GcInv /\ ReadInv
    /\ UNCHANGED <<active, rollbackGen, state, nodes, chunks, finishedAt, heartbeatAt,
                   pc, gen, todo, gc, asked, token>>
    /\ clock < MaxClock /\ clock' = clock + 1
    /\ BuildsBeat /\ FlipsFollow /\ SearchesEnd
  BY DEF Inductive, Tick, corpusVars, runVars, readerVars
<1>1. TypeOK'
  <2>1. clock' \in 0..MaxClock
    BY BoundsAssumption DEF TypeOK
  <2> QED
    BY <2>1 DEF TypeOK
<1>2. OwnInv'
  <2>1. ASSUME NEW q \in Ingests PROVE Owns(q)'
    <3>1. pc[q] \in Building /\ gen[q] \in Gens => clock + 1 <= heartbeatAt[gen[q]] + MaxBeat
      BY Times DEF BuildsBeat, Building
    <3>2. pc[q] \in Flipping /\ gen[q] \in Gens => clock + 1 <= finishedAt[gen[q]] + MaxPause
      BY Times DEF FlipsFollow, Flipping
    <3> QED
      BY <3>1, <3>2 DEF OwnInv, Owns
  <2> QED
    BY <2>1 DEF OwnInv
<1>3. RunInv' /\ PointerInv'
  BY DEF RunInv, Complete, PointerInv, PointerAgrees
<1>4. GcInv'
  <2>1. \A c \in Collectors : gc[c].ts <= clock + Skew => gc[c].ts <= clock' + Skew
    BY Times
  <2>2. token.exp <= clock => token.exp <= clock'
    BY Times
  <2> QED
    BY <2>1, <2>2 DEF GcInv, Spared
<1>5. ReadInv'
  <2>1. asked.gen # None => asked.at <= clock' /\ clock' <= asked.at + MaxLatency
    <3>1. asked.gen # None => asked # NoSearch
      BY DEF NoSearch
    <3> QED
      BY <3>1, Times DEF ReadInv, SearchesEnd
  <2>2. /\ token.exp <= clock => token.exp <= clock'
        /\ token.exp <= clock + Skew + Ttl => token.exp <= clock' + Skew + Ttl
    BY Times
  <2> QED
    BY <2>1, <2>2 DEF ReadInv
<1> QED
  BY <1>1, <1>2, <1>3, <1>4, <1>5 DEF Inductive

-----------------------------------------------------------------------------
(* The theorems.                                                           *)

\* All steps.
LEMMA StepInductive ==
  ASSUME Inductive, Prompt, [Next]_vars
  PROVE  Inductive'
<1>1. CASE \E p \in Ingests : IngestStep(p)
  BY <1>1, AllocateRunInductive, EmbedBatchInductive, MarkFailedInductive,
     FinalizeReadInductive, FinalizeCommitInductive, GateInductive, FlipRefusalInductive,
     FlipInductive, StopInductive DEF IngestStep
<1>2. CASE \E c \in Collectors : GcStep(c)
  BY <1>2, GcReadPointerInductive, GcReadRunsInductive, GcReapInductive, GcAbortInductive
     DEF GcStep
<1>3. CASE Rollback \/ SearchQuery \/ SearchMint \/ Tick
  BY <1>3, RollbackInductive, SearchQueryInductive, SearchMintInductive, TickInductive
<1>4. CASE UNCHANGED vars
  BY <1>4 DEF vars, corpusVars, runVars, readerVars, Inductive, TypeOK, OwnInv, Owns, RunInv,
     Complete, PointerInv, PointerAgrees, GcInv, Spared, ReadInv
<1> QED
  BY <1>1, <1>2, <1>3, <1>4 DEF Next

\* Every reachable state satisfies the inductive invariant: ownership of runs,
\* freedom of what gc picked and the pins of readers hold together, whatever
\* the numbers of ingests, collectors, generations and clock units
\* (generation.ts, build.ts and gc.ts as one system).
THEOREM InductiveInvariant == ASSUME Prompt PROVE Spec => []Inductive
<1>1. Init => Inductive
  BY InitInductive
<1>2. Inductive /\ [Next]_vars => Inductive'
  BY StepInductive
<1> QED
  BY <1>1, <1>2, PTL DEF Spec

\* Type correctness: in particular no chunk is counted twice, whatever the
\* interleaving of the drain's batches with gc (worker.ts:108, build.ts:934).
THEOREM TypeCorrect == ASSUME Prompt PROVE Spec => []TypeOK
<1>1. Inductive => TypeOK
  BY DEF Inductive
<1> QED
  BY <1>1, InductiveInvariant, PTL

\* The pointer and the run states always agree (generation.ts:401-480).
THEOREM PointerAlwaysAgrees == ASSUME Prompt PROVE Spec => []PointerAgrees
<1>1. Inductive => PointerAgrees
  BY DEF Inductive, PointerInv
<1> QED
  BY <1>1, InductiveInvariant, PTL

\* A complete run has its rows and its vectors.
LEMMA ServedRunIsWhole ==
  ASSUME Inductive, NEW g \in Gens, state[g] \in Served
  PROVE  nodes[g] > 0 /\ GenerationReady(chunks[g])
BY DEF Inductive, RunInv, Complete, CompleteStates, Served

\* What is served always has its rows and passed the ready gate, although gc
\* takes no lock and flip checks no state (generation.ts:401-435, 488-561).
THEOREM ServedAlwaysReady == ASSUME Prompt PROVE Spec => []ServedIsReady
<1>1. Inductive => ServedIsReady
  <2> SUFFICES ASSUME Inductive, active # None
               PROVE  nodes[active] > 0 /\ GenerationReady(chunks[active])
    BY DEF ServedIsReady
  <2>1. active \in Gens /\ state[active] \in Served
    BY Pointers DEF Inductive, PointerInv, PointerAgrees, Served
  <2> QED
    BY <2>1, ServedRunIsWhole
<1> QED
  BY <1>1, InductiveInvariant, PTL

\* An undo always lands on whole content (generation.ts:443-480).
THEOREM RollbackAlwaysServable == ASSUME Prompt PROVE Spec => []RollbackIsServable
<1>1. Inductive => RollbackIsServable
  <2> SUFFICES ASSUME Inductive, rollbackGen # None
               PROVE  nodes[rollbackGen] > 0 /\ GenerationReady(chunks[rollbackGen])
    BY DEF RollbackIsServable
  <2>1. rollbackGen \in Gens /\ state[rollbackGen] \in Served
    BY Pointers DEF Inductive, PointerInv
  <2> QED
    BY <2>1, ServedRunIsWhole
<1> QED
  BY <1>1, InductiveInvariant, PTL

\* A generation an unexpired token pins is never collected, with clocks apart
\* by up to Skew and searches that take up to MaxLatency, as long as the grace
\* covers a token, a search and twice the skew (gc.ts:7-10, snapshot.ts:127).
THEOREM TokenPinAlwaysHolds == ASSUME Prompt PROVE Spec => []TokenPinHolds
<1>1. Inductive => TokenPinHolds
  <2> SUFFICES ASSUME Inductive, token.gen # None, clock < token.exp
               PROVE  nodes[token.gen] > 0
    BY DEF TokenPinHolds
  <2>1. token.gen \in Gens /\ (token.exp <= clock => FALSE)
    BY Pointers, Times DEF Inductive
  <2>2. state[token.gen] \in Served
    BY <2>1 DEF Inductive, ReadInv
  <2> QED
    BY <2>1, <2>2, ServedRunIsWhole
<1> QED
  BY <1>1, InductiveInvariant, PTL

\* With flips that follow their finalize within the grace, gc never reaps what
\* the pointers name; the run gc_late_flip shows the hypothesis is needed
\* (gc.ts:7-9, generation.ts:493).
THEOREM PointersStay == ASSUME Prompt PROVE Spec => []PointersNeverCollected
<1>1. Inductive => PointersNeverCollected
  BY Pointers DEF Inductive, PointerInv, PointerAgrees, PointersNeverCollected, Served
<1> QED
  BY <1>1, InductiveInvariant, PTL

\* Ingests that finish out of order never move the pointer backward; only an
\* undo does, and only to the recorded generation (generation.ts:406-416).
THEOREM RegressOnlyByRollback == ASSUME Prompt PROVE Spec => OnlyRollbackRegresses
<1> DEFINE A == active' < active => active' = rollbackGen
<1>1. Inductive /\ [Next]_vars => [A]_corpusVars
  <2> SUFFICES ASSUME Inductive, [Next]_vars, active' < active, corpusVars' # corpusVars
               PROVE  active' = rollbackGen
    OBVIOUS
  <2>1. CASE Rollback
    BY <2>1 DEF Rollback
  <2>2. ASSUME NEW p \in Ingests, Flip(p) PROVE FALSE
    <3>1. active \in Nat /\ gen[p] \in Nat /\ active < gen[p] /\ active' = gen[p]
      BY <2>2, BoundsAssumption DEF Flip, Advances, Inductive, TypeOK
    <3> QED
      BY <3>1
  <2>3. CASE UNCHANGED corpusVars
    BY <2>3
  <2>4. ASSUME NEW p \in Ingests, IngestStep(p), ~Flip(p) PROVE UNCHANGED corpusVars
    BY <2>4 DEF IngestStep, AllocateRun, EmbedBatch, MarkFailed, FinalizeRead, FinalizeCommit,
       Gate, FlipRefusal, Stop
  <2>5. ASSUME NEW c \in Collectors, GcStep(c) PROVE UNCHANGED corpusVars
    BY <2>5 DEF GcStep, GcReadPointer, GcReadRuns, GcReap, GcAbort
  <2>6. SearchQuery \/ SearchMint \/ Tick \/ UNCHANGED vars => UNCHANGED corpusVars
    BY DEF SearchQuery, SearchMint, Tick, vars
  <2> QED
    BY <2>1, <2>2, <2>3, <2>4, <2>5, <2>6 DEF Next
<1> QED
  BY <1>1, InductiveInvariant, PTL DEF Spec, OnlyRollbackRegresses

-----------------------------------------------------------------------------
(* Refinement.                                                             *)

\* What the abstract module calls servable.
LEMMA ServableIsComplete == ASSUME Inductive PROVE Servable = Complete
BY DEF Inductive, RunInv, Servable, Complete, CompleteStates

\* Every step is a step of Publication or a stutter.
LEMMA StepPublishes ==
  ASSUME Inductive, Prompt, [Next]_vars
  PROVE  [Pub!PubNext]_(Pub!pubVars)
<1>s. Servable = Complete /\ Servable' = Complete'
  <2>1. Inductive'
    BY StepInductive
  <2>2. Servable' = Complete'
    BY <2>1 DEF Inductive, RunInv, Servable, Complete, CompleteStates
  <2> QED
    BY <2>2, ServableIsComplete
<1>t. TypeOK /\ OwnInv /\ RunInv /\ PointerInv /\ GcInv
  BY DEF Inductive
<1>u. ASSUME UNCHANGED corpusVars, Complete' = Complete
      PROVE  [Pub!PubNext]_(Pub!pubVars)
  BY <1>u, <1>s DEF corpusVars, Pub!pubVars
<1>1. ASSUME NEW p \in Ingests, AllocateRun(p) PROVE [Pub!PubNext]_(Pub!pubVars)
  <2>1. PICK g \in Gens : state[g] = "none" /\ state' = [state EXCEPT ![g] = "building"]
    BY <1>1 DEF AllocateRun
  <2>2. Complete' = Complete
    BY <2>1, <1>t DEF Complete, CompleteStates, TypeOK
  <2> QED
    BY <2>2, <1>1, <1>u DEF AllocateRun
<1>2. ASSUME NEW p \in Ingests, FinalizeCommit(p) PROVE [Pub!PubNext]_(Pub!pubVars)
  <2> DEFINE g == gen[p]
  <2>1. g \in Gens /\ state[g] = "building"
    BY <1>2, <1>t DEF FinalizeCommit, OwnInv, Owns, Building
  <2>2. state' = [state EXCEPT ![g] = "ready"] /\ UNCHANGED corpusVars
    BY <1>2, <2>1 DEF FinalizeCommit
  <2>3. g \notin Complete /\ Complete' = Complete \cup {g}
    BY <2>1, <2>2, <1>t DEF Complete, CompleteStates, TypeOK
  <2>4. Pub!Prepare(g)
    BY <2>2, <2>3, <1>s DEF Pub!Prepare, corpusVars
  <2> QED
    BY <2>1, <2>4 DEF Pub!PubNext
<1>3. ASSUME NEW p \in Ingests, Flip(p) PROVE [Pub!PubNext]_(Pub!pubVars)
  <2> DEFINE g == gen[p]
  <2>1. g \in Gens /\ state[g] = "ready"
    BY <1>3, <1>t DEF Flip, OwnInv, Owns, Flipping
  <2>2. /\ active' = g /\ rollbackGen' = active /\ active < g
        /\ state' = ActivatedStates(g)
    BY <1>3 DEF Flip, Advances
  <2>3. g \in Complete /\ Complete' = Complete
    BY <2>1, <2>2, <1>t DEF Complete, CompleteStates, ActivatedStates
  <2>4. g > active
    BY <2>2, <2>1, <1>t, BoundsAssumption DEF TypeOK, Gens
  <2>5. Pub!Publish(g)
    BY <2>2, <2>3, <2>4, <1>s DEF Pub!Publish
  <2> QED
    BY <2>1, <2>5 DEF Pub!PubNext
<1>4. CASE Rollback
  <2>1. rollbackGen \in Gens /\ state[rollbackGen] \in Served
    BY <1>4, <1>t, Pointers DEF Rollback, PointerInv, None
  <2>2. rollbackGen \in Complete /\ Complete' = Complete
    BY <1>4, <2>1 DEF Rollback, Complete, CompleteStates, Served, ActivatedStates
  <2>3. Pub!Undo
    BY <1>4, <2>2, <1>s DEF Rollback, Pub!Undo
  <2> QED
    BY <2>3 DEF Pub!PubNext
<1>5. ASSUME NEW c \in Collectors, GcReap(c) PROVE [Pub!PubNext]_(Pub!pubVars)
  <2>1. gc[c].picked \cap {active, rollbackGen} = {}
    BY <1>5, <1>t DEF GcReap, GcInv
  <2>2. Complete' = Complete \ gc[c].picked
    BY <1>5 DEF GcReap, Complete, CompleteStates
  <2>3. Pub!Discard
    BY <1>5, <2>1, <2>2, <1>s DEF GcReap, Pub!Discard, corpusVars
  <2> QED
    BY <2>3 DEF Pub!PubNext
<1>6. ASSUME NEW p \in Ingests,
             EmbedBatch(p) \/ MarkFailed(p) \/ FinalizeRead(p) \/ Gate(p) \/ FlipRefusal(p) \/ Stop(p)
      PROVE  UNCHANGED <<state, corpusVars>>
  BY <1>6 DEF EmbedBatch, MarkFailed, FinalizeRead, Gate, FlipRefusal, Stop, runVars
<1>7. ASSUME NEW c \in Collectors, GcReadPointer(c) \/ GcReadRuns(c) \/ GcAbort(c)
      PROVE  UNCHANGED <<state, corpusVars>>
  BY <1>7 DEF GcReadPointer, GcReadRuns, GcAbort, runVars
<1>8. SearchQuery \/ SearchMint \/ Tick \/ UNCHANGED vars => UNCHANGED <<state, corpusVars>>
  BY DEF SearchQuery, SearchMint, Tick, vars, runVars
<1>9. UNCHANGED <<state, corpusVars>> => [Pub!PubNext]_(Pub!pubVars)
  BY <1>u DEF Complete
<1> QED
  BY <1>1, <1>2, <1>3, <1>4, <1>5, <1>6, <1>7, <1>8, <1>9 DEF Next, IngestStep, GcStep

\* The lifecycle implements Publication: builds, crashes, collections, late
\* processes and quarantined chunks are invisible to who follows the pointer
\* (generation.ts and gc.ts against what their headers promise).
THEOREM LifecycleImplementsPublication ==
  ASSUME Prompt PROVE Spec => ImplementsPublication
<1>1. Init => Pub!PubInit
  BY DEF Init, Pub!PubInit, Servable, Complete, CompleteStates, None
<1>2. Inductive /\ [Next]_vars => [Pub!PubNext]_(Pub!pubVars)
  BY StepPublishes
<1> QED
  BY <1>1, <1>2, InductiveInvariant, PTL DEF Spec, ImplementsPublication, Pub!PubSpec

\* What Publication promises whoever implements it: the pointer and the one an
\* undo would restore are always of snapshots that are there.
LEMMA PublicationPromises == Pub!PubSpec => []Pub!AlwaysServable
<1>1. Pub!PubInit => Pub!AlwaysServable
  BY DEF Pub!PubInit, Pub!AlwaysServable
<1>2. Pub!AlwaysServable /\ [Pub!PubNext]_(Pub!pubVars) => Pub!AlwaysServable'
  <2> SUFFICES ASSUME Pub!AlwaysServable, [Pub!PubNext]_(Pub!pubVars) PROVE Pub!AlwaysServable'
    OBVIOUS
  <2>1. ASSUME NEW s \in Gens, Pub!Prepare(s) PROVE Pub!AlwaysServable'
    BY <2>1 DEF Pub!Prepare, Pub!AlwaysServable
  <2>2. ASSUME NEW s \in Gens, Pub!Publish(s) PROVE Pub!AlwaysServable'
    BY <2>2 DEF Pub!Publish, Pub!AlwaysServable
  <2>3. CASE Pub!Undo
    BY <2>3 DEF Pub!Undo, Pub!AlwaysServable
  <2>4. CASE Pub!Discard
    BY <2>4 DEF Pub!Discard, Pub!AlwaysServable
  <2>5. CASE UNCHANGED Pub!pubVars
    BY <2>5 DEF Pub!pubVars, Pub!AlwaysServable
  <2> QED
    BY <2>1, <2>2, <2>3, <2>4, <2>5 DEF Pub!PubNext
<1> QED
  BY <1>1, <1>2, PTL DEF Pub!PubSpec

\* So builds, flips, undos, gc and crashes in any order never leave whoever
\* follows the pointer, or undoes the last flip, without a generation that can
\* be served: the promise gc.ts:7-10 makes, inherited by the refinement.
THEOREM AlwaysServableHolds ==
  ASSUME Prompt PROVE Spec => []Pub!AlwaysServable
BY LifecycleImplementsPublication, PublicationPromises DEF ImplementsPublication
=============================================================================
