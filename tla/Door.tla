-------------------------------- MODULE Door --------------------------------
(***************************************************************************)
(* The reading door's process (packages/content-gateway/src): boot checks  *)
(* deferred over a sleeping store and retried by whoever needs them, the   *)
(* readiness probe shared by /ready and /health, the cap on requests in    *)
(* flight, and the drain.                                                  *)
(*                                                                         *)
(* The process is one event loop: an action is a task with the microtasks  *)
(* that follow it.  A chain is the work behind one readiness verdict; its  *)
(* verdict may be given up on while the work runs on.                      *)
(***************************************************************************)
EXTENDS Integers, FiniteSets, Sequences

CONSTANTS
    Clients,        \* connections
    Chains,         \* bounds the readiness work under way
    MaxInflight,    \* KSOR_MAX_INFLIGHT
    ProbeDeadline,  \* ticks of PROBE_DEADLINE_MS
    TTL,            \* ticks of READY_TTL_MS
    DrainTime,      \* ticks of KSOR_DRAIN_TIMEOUT_MS
    NoOne

ASSUME DoorAssumption ==
    /\ MaxInflight \in Nat \ {0} /\ ProbeDeadline \in Nat \ {0}
    /\ TTL \in Nat \ {0} /\ DrainTime \in Nat \ {0}
    /\ NoOne \notin Clients \cup Chains /\ Clients \cap Chains = {}

VARIABLES
    awake,      \* the store answers
    wrong,      \* the boot checks its rows refuse
    verified,   \* the boot checks have passed
    attempt,    \* whose call runs which boot check; 0: none
    memo,       \* whose attempt verifyBoot hands out
    awaits,     \* the attempt, or the chain, somebody awaits
    client,     \* a client's connection
    busy,       \* slots taken
    chain,      \* st: how far the work is; open: its verdict is pending
    entry,      \* the verdict handed out: of a chain, or settled
    phase,      \* of the process
    drainLeft   \* ticks on the drain deadline

doorVars == <<awake, wrong, verified, attempt, memo, awaits, client, busy, chain, entry,
              phase, drainLeft>>

boot == <<verified, attempt, memo>>
probes == <<chain, entry>>
doorStore == <<awake, wrong>>
drain == <<phase, drainLeft>>

\* The checks a row decides, in the order they run.
BootChecks == <<"schema", "governance", "audience", "space">>

\* Variant: the retry is of the schema check alone.
SchemaOnly == <<"schema">>

\* Every fail-closed check is retried.
Retried == BootChecks

Askers == Clients \cup Chains
NoChain == [st |-> "off", open |-> FALSE, left |-> 0]
Nothing == [of |-> NoOne, ok |-> FALSE, age |-> TTL]

DoorTypeOK ==
    /\ awake \in BOOLEAN /\ verified \in BOOLEAN
    /\ wrong \in SUBSET {BootChecks[i] : i \in 1..Len(BootChecks)}
    /\ attempt \in [Askers -> 0..Len(BootChecks)]
    /\ memo \in Askers \cup {NoOne}
    /\ awaits \in [Askers -> Askers \cup {NoOne}]
    /\ client \in [Clients -> {"away", "idle", "gate", "work", "ready"}]
    /\ busy \in 0..MaxInflight
    /\ chain \in [Chains ->
           [st : {"off", "boot", "probe"}, open : BOOLEAN, left : 0..ProbeDeadline]]
    /\ entry \in [of : Chains \cup {NoOne}, ok : BOOLEAN, age : 0..TTL]
    /\ phase \in {"serving", "draining", "closing", "stopped", "killed"}
    /\ drainLeft \in 0..DrainTime

\* A boot whose checks passed, or one that deferred them; a refusal does not
\* open the door.
DoorInit ==
    /\ awake \in BOOLEAN
    /\ wrong \in {{}} \cup {{BootChecks[i]} : i \in 1..Len(BootChecks)}
    /\ verified \in BOOLEAN /\ (verified => awake /\ wrong = {})
    /\ attempt = [x \in Askers |-> 0] /\ memo = NoOne
    /\ awaits = [x \in Askers |-> NoOne]
    /\ client = [c \in Clients |-> "away"] /\ busy = 0
    /\ chain = [k \in Chains |-> NoChain] /\ entry = Nothing
    /\ phase = "serving" /\ drainLeft = DrainTime

Running == phase \in {"serving", "draining", "closing"}

-----------------------------------------------------------------------------
(* verifyBoot. *)

UnderWay == memo # NoOne

StartAttempt(x) ==
    /\ ~UnderWay
    /\ attempt' = [attempt EXCEPT ![x] = 1]
    /\ memo' = x
    /\ awaits' = [awaits EXCEPT ![x] = x]

ShareAttempt(x) ==
    /\ UnderWay
    /\ awaits' = [awaits EXCEPT ![x] = memo]
    /\ UNCHANGED <<attempt, memo>>

VerifyBoot(x) == ~verified /\ (StartAttempt(x) \/ ShareAttempt(x)) /\ UNCHANGED verified

\* Those in the middle of awaiting the attempt that x's call started.
AwaitsBoot(x) ==
    {c \in Clients : client[c] = "gate" /\ awaits[c] = x}
        \cup {k \in Chains : chain[k].st = "boot" /\ awaits[k] = x}

\* The verdicts of ks that are still pending, and who awaits one of them.
Unsettled(ks) == {k \in Chains \cap ks : chain[k].open}
Told(ks) == {c \in Clients : client[c] = "ready" /\ awaits[c] \in Unsettled(ks)}

\* What readiness() hands out once the chains ks have answered ok.
Settled(ks, ok) ==
    IF entry.of \in Unsettled(ks) THEN [of |-> NoOne, ok |-> ok, age |-> 0] ELSE entry

Freed(x, told) == [y \in Askers |-> IF y \in AwaitsBoot(x) \cup told THEN NoOne ELSE awaits[y]]

NextCheck(x) ==
    /\ attempt[x] < Len(Retried)
    /\ attempt' = [attempt EXCEPT ![x] = @ + 1]
    /\ UNCHANGED <<verified, memo, awaits, client, busy, chain, entry>>

\* The last check passed: requests go to work, chains to their probe.
Verify(x) ==
    /\ attempt[x] = Len(Retried)
    /\ attempt' = [attempt EXCEPT ![x] = 0] /\ memo' = NoOne /\ verified' = TRUE
    /\ awaits' = Freed(x, {})
    /\ client' = [c \in Clients |-> IF c \in AwaitsBoot(x) THEN "work" ELSE client[c]]
    /\ chain' = [k \in Chains |-> IF k \in AwaitsBoot(x) THEN [chain[k] EXCEPT !.st = "probe"]
                                                       ELSE chain[k]]
    /\ UNCHANGED <<busy, entry>>

CheckPasses(x) ==
    /\ Running /\ attempt[x] # 0
    /\ awake /\ Retried[attempt[x]] \notin wrong /\ phase # "closing"
    /\ NextCheck(x) \/ Verify(x)
    /\ UNCHANGED <<doorStore, drain>>

\* Variant: a failed attempt stays memoised.
MemoStays == memo

AfterCheck == NoOne

\* A row refuses, the store does not answer, or the pool has ended: requests
\* that wait are refused, and the next caller tries again.
CheckFails(x) ==
    LET told == Told(AwaitsBoot(x))
        refused == AwaitsBoot(x) \cap Clients
    IN  /\ Running /\ attempt[x] # 0
        /\ ~awake \/ Retried[attempt[x]] \in wrong \/ phase = "closing"
        /\ attempt' = [attempt EXCEPT ![x] = 0] /\ memo' = AfterCheck
        /\ awaits' = Freed(x, told)
        /\ client' = [c \in Clients |-> IF c \in refused \cup told THEN "idle" ELSE client[c]]
        /\ busy' = busy - Cardinality(refused)
        /\ entry' = Settled(AwaitsBoot(x), FALSE)
        /\ chain' = [k \in Chains |-> IF k \in AwaitsBoot(x) THEN NoChain ELSE chain[k]]
        /\ UNCHANGED <<doorStore, verified, drain>>

-----------------------------------------------------------------------------
(* POST /mcp. *)

\* A new connection while the listener is open, or one that is kept alive.
CanAsk(c) ==
    \/ client[c] = "away" /\ phase = "serving"
    \/ client[c] = "idle" /\ phase \in {"serving", "draining"}

Full == busy >= MaxInflight

Busy(c) ==
    /\ CanAsk(c) /\ Full
    /\ client' = [client EXCEPT ![c] = "idle"]
    /\ UNCHANGED <<doorStore, boot, awaits, busy, probes, drain>>

\* The slot is taken before the boot checks are awaited.
Request(c) ==
    /\ CanAsk(c) /\ ~Full
    /\ busy' = busy + 1
    /\ \/ verified /\ client' = [client EXCEPT ![c] = "work"] /\ UNCHANGED <<boot, awaits>>
       \/ client' = [client EXCEPT ![c] = "gate"] /\ VerifyBoot(c)
    /\ UNCHANGED <<doorStore, probes, drain>>

\* The whole body is buffered before the slot is released.
Answer(c) ==
    /\ Running /\ client[c] = "work"
    /\ client' = [client EXCEPT ![c] = "idle"]
    /\ busy' = busy - 1
    /\ UNCHANGED <<doorStore, boot, awaits, probes, drain>>

Disconnect(c) ==
    /\ client[c] = "idle"
    /\ client' = [client EXCEPT ![c] = "away"]
    /\ UNCHANGED <<doorStore, boot, awaits, busy, probes, drain>>

-----------------------------------------------------------------------------
(* GET /ready and GET /health: readiness(). *)

\* A probe in flight is shared, however long it takes.
InFlight == entry.of # NoOne

Cached == entry.of = NoOne /\ entry.age < TTL

AskCached(c) ==
    /\ CanAsk(c) /\ Cached
    /\ client' = [client EXCEPT ![c] = "idle"]
    /\ UNCHANGED <<doorStore, boot, awaits, busy, probes, drain>>

AskShared(c) ==
    /\ CanAsk(c) /\ InFlight
    /\ client' = [client EXCEPT ![c] = "ready"] /\ awaits' = [awaits EXCEPT ![c] = entry.of]
    /\ UNCHANGED <<doorStore, boot, busy, probes, drain>>

ProbeStraightOn == verified

AskNew(c) ==
    /\ CanAsk(c) /\ ~Cached /\ ~InFlight
    /\ \E k \in Chains :
          /\ chain[k].st = "off"
          /\ entry' = [of |-> k, ok |-> FALSE, age |-> 0]
          /\ client' = [client EXCEPT ![c] = "ready"]
          /\ \/ /\ ProbeStraightOn
                /\ chain' = [chain EXCEPT ![k] = [st |-> "probe", open |-> TRUE, left |-> ProbeDeadline]]
                /\ awaits' = [awaits EXCEPT ![c] = k]
                /\ UNCHANGED boot
             \/ /\ ~ProbeStraightOn
                /\ chain' = [chain EXCEPT ![k] = [st |-> "boot", open |-> TRUE, left |-> ProbeDeadline]]
                /\ UNCHANGED verified
                /\ \/ /\ ~UnderWay
                      /\ attempt' = [attempt EXCEPT ![k] = 1] /\ memo' = k
                      /\ awaits' = [awaits EXCEPT ![c] = k, ![k] = k]
                   \/ /\ UnderWay
                      /\ awaits' = [awaits EXCEPT ![c] = k, ![k] = memo]
                      /\ UNCHANGED <<attempt, memo>>
    /\ UNCHANGED <<doorStore, busy, drain>>

Ask(c) == AskCached(c) \/ AskShared(c) \/ AskNew(c)

\* The probe answers, or fails over a store that does not.
ProbeEnds(k) ==
    LET told == Told({k})
    IN  /\ Running /\ chain[k].st = "probe"
        /\ entry' = Settled({k}, awake)
        /\ chain' = [chain EXCEPT ![k] = NoChain]
        /\ client' = [c \in Clients |-> IF c \in told THEN "idle" ELSE client[c]]
        /\ awaits' = [y \in Askers |-> IF y \in told THEN NoOne ELSE awaits[y]]
        /\ UNCHANGED <<doorStore, boot, busy, drain>>

Overdue(k) == chain[k].open /\ chain[k].left = 0

\* withProbeDeadline: the verdict is not ready, and the work runs on.
ProbeGivesUp(k) ==
    LET told == Told({k})
    IN  /\ Running /\ Overdue(k)
        /\ entry' = Settled({k}, FALSE)
        /\ chain' = [chain EXCEPT ![k].open = FALSE]
        /\ client' = [c \in Clients |-> IF c \in told THEN "idle" ELSE client[c]]
        /\ awaits' = [y \in Askers |-> IF y \in told THEN NoOne ELSE awaits[y]]
        /\ UNCHANGED <<doorStore, boot, busy, drain>>

-----------------------------------------------------------------------------
(* The drain. *)

\* The first SIGTERM or SIGINT: the listener and the idle connections close.
Signal ==
    /\ phase = "serving"
    /\ phase' = "draining" /\ drainLeft' = DrainTime
    /\ client' = [c \in Clients |-> IF client[c] = "idle" THEN "away" ELSE client[c]]
    /\ UNCHANGED <<doorStore, boot, awaits, busy, probes>>

NoConnection == \A c \in Clients : client[c] = "away"

\* server.close calls back: the handler and the pool close.
ListenerClosed ==
    /\ phase = "draining" /\ NoConnection
    /\ phase' = "closing"
    /\ UNCHANGED <<doorStore, boot, awaits, client, busy, probes, drainLeft>>

CheckedOut == {x \in Askers : attempt[x] # 0} \cup {k \in Chains : chain[k].st = "probe"}

\* pool.end resolves once every checkout has come back.
Stop ==
    /\ phase = "closing" /\ CheckedOut = {}
    /\ phase' = "stopped"
    /\ UNCHANGED <<doorStore, boot, awaits, client, busy, probes, drainLeft>>

\* Variant: no deadline on the drain.
Patient == FALSE

DrainOverdue == phase \in {"draining", "closing"} /\ drainLeft = 0

\* exit 75: what is under way is dropped.
Exit75 ==
    /\ DrainOverdue
    /\ phase' = "killed"
    /\ client' = [c \in Clients |-> "away"]
    /\ UNCHANGED <<doorStore, boot, awaits, busy, probes, drainLeft>>

\* Timers fire when they are due.
DoorTick ==
    /\ Running /\ ~DrainOverdue /\ \A k \in Chains : ~Overdue(k)
    /\ entry' = IF entry.of = NoOne /\ entry.age < TTL THEN [entry EXCEPT !.age = @ + 1] ELSE entry
    /\ chain' = [k \in Chains |-> IF chain[k].left > 0 THEN [chain[k] EXCEPT !.left = @ - 1]
                                                        ELSE chain[k]]
    /\ drainLeft' = IF phase # "serving" /\ drainLeft > 0 THEN drainLeft - 1 ELSE drainLeft
    /\ UNCHANGED <<doorStore, boot, awaits, client, busy, phase>>

\* The store wakes or sleeps; the operator repairs a row.
StoreSleeps == awake' = ~awake /\ UNCHANGED <<wrong, boot, awaits, client, busy, probes, drain>>

Repair ==
    /\ awake /\ wrong # {} /\ wrong' = {}
    /\ UNCHANGED <<awake, boot, awaits, client, busy, probes, drain>>

Client(c) == Busy(c) \/ Request(c) \/ Answer(c) \/ Disconnect(c) \/ Ask(c)
Boot == \E x \in Askers : CheckPasses(x) \/ CheckFails(x)
Probing == \E k \in Chains : ProbeEnds(k) \/ ProbeGivesUp(k)

DoorNext ==
    \/ \E c \in Clients : Client(c)
    \/ Boot \/ Probing \/ Signal \/ ListenerClosed \/ Stop \/ Exit75 \/ DoorTick
    \/ Running /\ (StoreSleeps \/ Repair)

\* Time passes, timers fire, a store that answers lets work end, and something
\* polls /ready.  A connection into the void may hang for as long as the store
\* is away, a request may take for ever.
DoorSpec ==
    /\ DoorInit /\ [][DoorNext]_doorVars
    /\ WF_doorVars(DoorTick) /\ WF_doorVars(Exit75)
    /\ WF_doorVars(\E k \in Chains : ProbeGivesUp(k))
    /\ WF_doorVars(\E x \in Askers : CheckPasses(x))
    /\ WF_doorVars(\E k \in Chains : awake /\ ProbeEnds(k))
    /\ WF_doorVars(\E c \in Clients : Ask(c))

-----------------------------------------------------------------------------
\* However many requests and probes meet a waking store, one chain of boot
\* checks runs at a time, and everybody at the gate awaits it.
OneAttempt ==
    /\ \A x \in Askers : attempt[x] # 0 <=> memo = x
    /\ \A c \in Clients : client[c] = "gate" => awaits[c] = memo /\ memo # NoOne
    /\ \A k \in Chains : chain[k].st = "boot" => awaits[k] = memo /\ memo # NoOne

\* Nothing is served from a store whose schema, governance, audience or
\* embedding space the boot checks refuse: the door that started cold checks
\* all of them before its first answer.
ServedWhenRight == wrong # {} => \A c \in Clients : client[c] # "work"

\* /ready never reports green before the deferred boot checks have passed.
GreenMeansVerified == entry.ok => verified

\* The cap counts work, not answers begun: no more requests than slots are ever
\* at work, and once the connections are gone every slot is free.
SlotsAreWork ==
    phase # "killed" => busy = Cardinality({c \in Clients : client[c] \in {"gate", "work"}})

\* At most one readiness probe is within its deadline, and whoever waits on
\* /ready waits for that one.
OneFreshProbe ==
    /\ Cardinality(Unsettled(Chains)) <= 1
    /\ \A c \in Clients : client[c] = "ready" => chain[awaits[c]].open

\* The pool is not torn down under a request, and a clean exit leaves no
\* statement running.
CleanStop ==
    /\ phase \in {"closing", "stopped"} => \A c \in Clients : client[c] = "away"
    /\ phase = "stopped" => CheckedOut = {}

\* /ready answers, however long the store says nothing.
ProbesHear == \A c \in Clients : client[c] = "ready" ~> client[c] # "ready"

\* A drain ends, whatever hangs.
DoorDrains == phase = "draining" ~> phase \in {"stopped", "killed"}

\* A door that started cold opens by itself once the store is back and right.
Recovers == <>[](awake /\ wrong = {} /\ phase = "serving") => <>[]verified

\* What the door bounds stays bounded: the slots it counts are the requests at
\* work, and however many poll an unhealthy store, one probe of it is fresh.
Bounded == SlotsAreWork /\ OneFreshProbe

\* Once the store answers, and answers right, the door serves; and whoever
\* polls its readiness hears, whatever the store does.
AnswersComeBack == ProbesHear /\ Recovers

=============================================================================
