----------------------------- MODULE MCServices ------------------------------
(***************************************************************************)
(* Who waits in ksor's processes, and for what, in small instances: the    *)
(* callers of a serving door (Door), searches and ingests for an embedding *)
(* provider (QueryEmbed, Embedding), everybody for the Postgres pool, and  *)
(* for the authorization server (BearerGate), takedown verbs for the       *)
(* ledger's lock (LedgerLock).  They share no state, so each behaviour is  *)
(* of one of them, and the others stay as they begin.                      *)
(***************************************************************************)
EXTENDS Door, QueryEmbed, Embedding, PgPool, BearerGate, TLC

VARIABLES
    lane,   \* the component that this behaviour is of
    guard, turn, waited, seen, recycled, ledger, text

\* Two processes, either of which may be killed, and its pid taken.
Verbs == INSTANCE LedgerLock WITH
    Procs <- {"p1", "p2"}, GiveUp <- 2, Kills <- TRUE, Nobody <- "nobody", pc <- turn, lock <- guard

MCKeys == {"j", "k", "l"}
MCSpace == [x \in MCKeys |-> IF x = "l" THEN "B" ELSE "A"]

MCSource == [c \in Passages |-> IF c = N THEN 2 ELSE 1]

\* Two inputs share a text under different headings; one is poison.
MCInputs == {"plain", "retitled", "toxic"}
MCText == [i \in MCInputs |-> IF i = "toxic" THEN 2 ELSE 1]
MCPoison == {"toxic"}
MCDrafts == {<<"plain", "retitled", "toxic", "plain">>,
             <<"retitled", "toxic", "plain", "plain">>}

\* The account's key may be revoked, which no provider's isFatal tells.  It
\* stands for every error that is in neither class: they take one path.
MCErrors == {"blip", "quota", "key"}
MCRetryable == {"blip"}
MCFatal == {"quota"}

\* A caller's bearer and one that ends, on two keys.
MCTokens == {"t1", "t2"}
MCKind == [t \in MCTokens |-> "good"]
MCKeyOf == "t1" :> "k1" @@ "t2" :> "k2"
MCLife == "t1" :> Long @@ "t2" :> 2

lockVars == <<guard, turn, waited, seen, recycled, ledger, text>>
all == <<lane, vars, embedVars, poolVars, gateVars, doorVars, lockVars>>

Start ==
    /\ lane \in {"search", "embed", "pool", "bearer", "door", "lock"}
    /\ Init /\ EmbedInit /\ PoolInit /\ GateInit /\ DoorInit /\ Verbs!Init
    /\ lane # "embed" => tree = CHOOSE d \in Drafts : TRUE
    /\ lane # "pool" => storeUp
    /\ lane # "bearer" => up
    /\ lane # "door" => ~awake /\ wrong = {}

\* Bound: of each generation's passages, those that such an error quarantined.
KeyErrors == 1
FewErrors == \A g \in Gens : Cardinality({c \in Failed(g) : rows[g][c].vec = "key"}) <= KeyErrors

Lane ==
    \/ lane = "search" /\ Next /\ UNCHANGED <<embedVars, poolVars, gateVars, doorVars, lockVars>>
    \/ lane = "embed" /\ EmbedNext /\ FewErrors' /\ UNCHANGED <<vars, poolVars, gateVars, doorVars, lockVars>>
    \/ lane = "pool" /\ PoolNext /\ UNCHANGED <<vars, embedVars, gateVars, doorVars, lockVars>>
    \/ lane = "bearer" /\ GateNext /\ UNCHANGED <<vars, embedVars, poolVars, doorVars, lockVars>>
    \/ lane = "door" /\ DoorNext /\ UNCHANGED <<vars, embedVars, poolVars, gateVars, lockVars>>
    \/ lane = "lock" /\ Verbs!Next /\ UNCHANGED <<vars, embedVars, poolVars, gateVars, doorVars>>

Run == Lane /\ UNCHANGED lane

\* The fairness of each component, in its own lane.
Services ==
    /\ Start /\ [][Run]_all
    /\ WF_vars(lane = "search" /\ Tick)
    /\ WF_vars(lane = "search" /\ \E e \in embeds : TimeOut(e))
    /\ WF_embedVars(lane = "embed" /\ (Drain \/ Finalize))
    /\ WF_poolVars(lane = "pool" /\ alive /\ PoolTick)
    /\ WF_poolVars(lane = "pool" /\ alive /\ PrewarmRelease)
    /\ WF_poolVars(lane = "pool" /\ alive /\ PrewarmConnect)
    /\ \A i \in Conns : WF_poolVars(lane = "pool" /\ alive /\ ConnectOk(i))
    /\ \A i \in Conns : WF_poolVars(lane = "pool" /\ alive /\ Abandon(i))
    /\ \A c \in Borrowers : WF_poolVars(lane = "pool" /\ alive /\ Work(c))
    /\ WF_gateVars(lane = "bearer" /\ GateTick)
    /\ WF_gateVars(lane = "bearer" /\ Resolve)
    /\ \A c \in Bearers : WF_gateVars(lane = "bearer" /\ (Recall(c) \/ KnownKey(c) \/ Fetch(c)))
    /\ WF_doorVars(lane = "door" /\ DoorTick)
    /\ WF_doorVars(lane = "door" /\ Exit75)
    /\ WF_doorVars(lane = "door" /\ \E k \in Chains : ProbeGivesUp(k))
    /\ WF_doorVars(lane = "door" /\ \E x \in Askers : CheckPasses(x))
    /\ WF_doorVars(lane = "door" /\ \E k \in Chains : awake /\ ProbeEnds(k))
    /\ WF_doorVars(lane = "door" /\ \E c \in Clients : Ask(c))
    /\ \A p \in {"p1", "p2"} : WF_lockVars(lane = "lock" /\ Verbs!Step(p))

\* What LedgerLock says of itself (see there).
EveryActEnds == lane = "lock" => Verbs!EveryRunEnds
=============================================================================
