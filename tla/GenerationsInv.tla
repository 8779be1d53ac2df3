--------------------------- MODULE GenerationsInv ---------------------------
(***************************************************************************)
(* The inductive invariant of Generations: what holds between any two      *)
(* steps because of which the safety properties do.  It needs the          *)
(* environment to be prompt: a gc grace must outlast a token and the two   *)
(* clock errors, and the pause between a finalize and its flip.            *)
(***************************************************************************)
EXTENDS Generations

\* What the intervals of generation.ts:22-35 leave room for.
Prompt ==
    /\ Ttl + MaxLatency + 2 * Skew <= Grace
    /\ MaxLatency + Skew < Grace
    /\ MaxPause + Skew < Grace
    /\ MaxBeat + Skew <= AbandonedAfter

Building == {"drain", "finalize"}
Flipping == {"gate", "guard", "flip"}

\* A process at work has a run in the state its control location implies,
\* recently stamped.
Owns(p) == pc[p] # "idle" =>
    /\ gen[p] \in Gens
    /\ pc[p] \in Building =>
        /\ state[gen[p]] = "building"
        /\ heartbeatAt[gen[p]] # Never
        /\ clock <= heartbeatAt[gen[p]] + MaxBeat
    /\ pc[p] = "drain" => chunks[gen[p]].pending = todo[p]
    /\ pc[p] = "finalize" => GenerationReady(chunks[gen[p]])
    /\ pc[p] \in Flipping =>
        /\ state[gen[p]] = "ready"
        /\ finishedAt[gen[p]] # Never
        /\ clock <= finishedAt[gen[p]] + MaxPause

\* ... that nobody else works on.
OwnInv ==
    /\ \A p \in Ingests : Owns(p)
    /\ \A p, q \in Ingests :
        p # q /\ pc[p] # "idle" /\ pc[q] # "idle" => gen[p] # gen[q]

\* A run that was neither reaped nor is still to come has its rows, and a
\* complete one passed the ready gate.
RunInv ==
    /\ \A g \in Gens : chunks[g].pending + chunks[g].embedded + chunks[g].failed <= ChunkCount
    /\ \A g \in Gens : state[g] \notin {"none", "reaped"} => nodes[g] > 0
    /\ \A g \in Complete : GenerationReady(chunks[g])

Served == {"active", "retired"}

PointerInv ==
    /\ PointerAgrees
    /\ rollbackGen # None => state[rollbackGen] \in Served

\* g is one of the pointers gc read, or it finished within the grace of its clock.
Spared(c, g) ==
    \/ g \in {None, gc[c].active, gc[c].rollback}
    \/ gc[c].ts - finishedAt[g] < Grace

\* What gc collects is nobody's: no pointer, no running build, no search in
\* flight, no token that has not expired.
GcInv ==
    \A c \in Collectors :
        /\ gc[c].at = "runs" =>
            /\ gc[c].ts <= clock + Skew
            /\ Spared(c, active) /\ Spared(c, rollbackGen)
        /\ gc[c].at = "reap" => \A g \in gc[c].picked :
            /\ state[g] # "none"
            /\ g \notin {active, rollbackGen, asked.gen}
            /\ \A p \in Ingests : pc[p] # "idle" => gen[p] # g
            /\ g = token.gen => token.exp <= clock

\* A pinned generation is served, or was until a retirement stamped it after
\* the search began.
ReadInv ==
    /\ asked.gen # None =>
        /\ state[asked.gen] \in Served
        /\ asked.at <= clock /\ clock <= asked.at + MaxLatency
        /\ asked.gen = active \/ asked.at <= finishedAt[asked.gen]
    /\ token.gen # None =>
        /\ state[token.gen] \in Served \cup {"reaped"}
        /\ state[token.gen] = "reaped" => token.exp <= clock
        /\ token.exp <= clock + Skew + Ttl
        /\ \/ token.gen = active
           \/ token.exp <= finishedAt[token.gen] + MaxLatency + Skew + Ttl

\* The inductive invariant: who owns which run, what gc may have picked, and
\* what readers pin, as the code keeps them consistent (generation.ts:401-561).
Inductive == TypeOK /\ OwnInv /\ RunInv /\ PointerInv /\ GcInv /\ ReadInv
=============================================================================
