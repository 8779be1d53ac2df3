------------------------------- MODULE PgPool -------------------------------
(***************************************************************************)
(* The Postgres plane (packages/postgres/src/db.ts and its callers in      *)
(* packages/content/src/db.ts): a pool of at most Max connections, callers *)
(* that wait for one under a timeout, a transaction in three statements,   *)
(* the guard on a borrowed connection, the retry policy, and the prewarm.  *)
(*                                                                         *)
(* The store sleeps, wakes and drops connections; a dropped connection is  *)
(* noticed by the next statement on it.  A store that is up accepts a      *)
(* connection within a tick; a statement may take any time.                *)
(***************************************************************************)
EXTENDS Integers, FiniteSets, SequencesExt

CONSTANTS
    Conns,       \* the slots of the pool (max)
    Readers,     \* callers of runRead and runProbe: retried
    Writers,     \* callers of runAudit and runIngest: retry: false
    Prewarms,    \* the connections KSOR_CONTENT_POOL_MIN asks for
    Attempts,    \* KSOR_READ_RETRY_ATTEMPTS
    Timeout,     \* ticks of connectionTimeoutMillis
    Backoff,     \* ticks of backoffS
    Deadline,    \* ticks of READ_DEADLINE_MS
    PerRequest,  \* KSOR_DB_CONNECT_PER_REQUEST
    Faults,      \* bounds the outages and lost connections
    None

ASSUME PoolAssumption ==
    /\ IsFiniteSet(Conns) /\ IsFiniteSet(Prewarms)
    /\ Prewarms \cap (Readers \cup Writers) = {}
    /\ None \notin Readers \cup Writers \cup Prewarms
    /\ {Attempts, Timeout, Backoff, Deadline, Faults} \subseteq Nat /\ Timeout # 0
    /\ PerRequest \in BOOLEAN

VARIABLES
    alive,    \* the process has not died of an uncaught error
    storeUp,  \* the store answers
    faults,   \* outages and lost connections so far
    conn,     \* a slot: none, connecting, idle or lent
    who,      \* the caller a slot connects for, or is lent to
    sick,     \* connections whose socket is gone, unnoticed
    open,     \* connections with a transaction open
    waiting,  \* callers waiting for a slot, first come first
    pc,       \* a caller
    left,     \* ticks on a caller's timer: of the checkout or of the backoff
    spent,    \* ticks since a caller's first attempt, up to the deadline
    tries,    \* attempts that failed
    result,   \* what a caller was told
    effects,  \* how often a write took effect
    away      \* waiting callers since whose attempt the store, or a connection, failed

poolVars == <<alive, storeUp, faults, conn, who, sick, open, waiting, pc, left, spent, tries,
              result, effects, away>>

store == <<alive, storeUp, faults>>
told == <<spent, tries, result>>

Borrowers == Readers \cup Writers \cup Prewarms
\* Variant: the timer is dropped with the place in the queue.
WaitsInQueue == {"queued", "opening"}

\* connectionTimeoutMillis bounds the wait for a slot and for its connect alike.
Waits == {"queued", "opening", "handed"}
InTxn == {"begin", "op", "commit"}

PoolInit ==
    /\ alive = TRUE /\ storeUp \in BOOLEAN /\ faults = 0
    /\ conn = [i \in Conns |-> "none"] /\ who = [i \in Conns |-> None]
    /\ sick = {} /\ open = {} /\ waiting = <<>>
    /\ pc = [c \in Borrowers |-> "new"] /\ left = [c \in Borrowers |-> 0]
    /\ spent = [c \in Readers |-> 0] /\ tries = [c \in Borrowers |-> 0]
    /\ result = [c \in Borrowers |-> "none"] /\ effects = [c \in Writers |-> 0]
    /\ away = {}

\* Borrowers with a timer under way.
Timed == {c \in Borrowers : pc[c] \in Waits \cup {"sleep"}}

-----------------------------------------------------------------------------
\* pool.connect(): an idle connection, else the queue of a full pool, else a
\* connection of the caller's own.
Got(c) == IF c \in Prewarms THEN "held" ELSE "begin"

Of(c) == CHOOSE i \in Conns : who[i] = c

In(st) == {i \in Conns : conn[i] = st}

\* Which of several equal slots is taken does not matter.
Taken(i, st, c, at) ==
    /\ conn' = [conn EXCEPT ![i] = st] /\ who' = [who EXCEPT ![i] = c]
    /\ pc' = [pc EXCEPT ![c] = at] /\ UNCHANGED waiting

Checkout(c) ==
    /\ \/ \E i \in In("idle") : Taken(i, "lent", c, Got(c))
       \/ In("idle") \cup In("none") = {} /\ waiting' = Append(waiting, c)
          /\ pc' = [pc EXCEPT ![c] = "queued"] /\ UNCHANGED <<conn, who>>
       \/ /\ In("idle") = {} /\ In("none") # {}
          /\ Taken(CHOOSE i \in In("none") : TRUE, "connecting", c, "opening")
    /\ left' = [left EXCEPT ![c] = IF pc'[c] \in Waits THEN Timeout ELSE 0]
    /\ away' = IF storeUp THEN away \ {c} ELSE away \cup {c}

\* _pulseQueue: connections S come back and go to those who waited longest.
\* callers: pc after what made them come back.
Return(S, callers) ==
    LET ord == SetToSeq(S)
        n == IF Len(waiting) < Len(ord) THEN Len(waiting) ELSE Len(ord)
        To(i) == waiting[CHOOSE k \in 1..Len(ord) : ord[k] = i]
        Lent == {ord[k] : k \in 1..n}
    IN  /\ conn' = [i \in Conns |-> IF i \in Lent THEN "lent"
                                    ELSE IF i \in S THEN "idle" ELSE conn[i]]
        /\ who' = [i \in Conns |-> IF i \in Lent THEN To(i) ELSE IF i \in S THEN None ELSE who[i]]
        /\ pc' = [c \in Borrowers |-> IF \E i \in Lent : To(i) = c THEN Got(c) ELSE callers[c]]
        /\ waiting' = SubSeq(waiting, n + 1, Len(waiting))

\* A slot is given up: whoever waited longest opens a connection in it, under
\* the timer it waits with.
Discard(i, callers) ==
    IF waiting = <<>>
    THEN /\ conn' = [conn EXCEPT ![i] = "none"] /\ who' = [who EXCEPT ![i] = None]
         /\ pc' = callers /\ UNCHANGED waiting
    ELSE /\ conn' = [conn EXCEPT ![i] = "connecting"]
         /\ who' = [who EXCEPT ![i] = Head(waiting)]
         /\ pc' = [callers EXCEPT ![Head(waiting)] = "handed"] /\ waiting' = Tail(waiting)

-----------------------------------------------------------------------------
\* Established connections: idle, or lent (ksorBusy).
ConnectedCount == Cardinality({i \in Conns : conn[i] \in {"idle", "lent"}})

Saturated == ConnectedCount >= Cardinality(Conns) /\ \A i \in Conns : conn[i] # "idle"

\* The two timeouts pg words alike, told apart by the pool's state; the prewarm
\* does not ask which it was.
TimeoutError(c) == IF Saturated /\ c \notin Prewarms THEN "shed" ELSE "connect"

AttemptsOf(c) == IF c \in Readers THEN Attempts ELSE 1

\* A refusal is the server's: of the statement (22xxx: malformed, 57014: it ran
\* too long), or of one connection too many (53300).
NeverRetried == {"shed", "refused"}

PastDeadline(c) == c \in Readers /\ spent[c] >= Deadline

\* withPgRetry, in the catch: give up, or sleep and try again.
GivesUp(c, err) == err \in NeverRetried \/ tries[c] + 1 = AttemptsOf(c) \/ PastDeadline(c)

\* The caller's program counter after a failed attempt.
After(c, err) ==
    [pc EXCEPT ![c] = IF c \in Prewarms THEN "failed" ELSE IF GivesUp(c, err) THEN "done" ELSE "sleep"]

FailedTry(c, err) ==
    /\ tries' = [tries EXCEPT ![c] = IF GivesUp(c, err) THEN 0 ELSE @ + 1]
    /\ result' = IF GivesUp(c, err) THEN [result EXCEPT ![c] = err] ELSE result
    /\ left' = [left EXCEPT ![c] = IF GivesUp(c, err) THEN 0 ELSE Backoff * (tries[c] + 1)]
    /\ spent' = [r \in Readers |-> IF r = c /\ GivesUp(c, err) THEN 0 ELSE spent[r]]

-----------------------------------------------------------------------------
\* min(count, max).
Warmed == CHOOSE S \in SUBSET Prewarms :
    Cardinality(S) = IF Cardinality(Prewarms) < Cardinality(Conns) THEN Cardinality(Prewarms)
                                                                   ELSE Cardinality(Conns)

\* Nobody calls before the prewarm has ended: compose awaits it.
Call(c) ==
    /\ c \notin Prewarms /\ pc[c] = "new" /\ Checkout(c)
    /\ \A w \in Warmed : pc[w] \in {"done", "failed"}
    /\ UNCHANGED <<store, sick, open, told, effects>>

Retry(c) ==
    /\ pc[c] = "sleep" /\ left[c] = 0 /\ Checkout(c)
    /\ UNCHANGED <<store, sick, open, told, effects>>

\* The connection is there; one its caller no longer waits for turns idle.
ConnectOk(i) ==
    /\ storeUp /\ conn[i] = "connecting"
    /\ IF who[i] = None THEN Return({i}, pc)
       ELSE /\ conn' = [conn EXCEPT ![i] = "lent"]
            /\ pc' = [pc EXCEPT ![who[i]] = Got(who[i])] /\ UNCHANGED <<who, waiting>>
    /\ UNCHANGED <<store, sick, open, left, told, effects, away>>

\* Nobody listens, or the server has no slot left.
ConnectRefused(i, err) ==
    /\ conn[i] = "connecting" /\ who[i] # None
    /\ err = "connect" => ~storeUp
    /\ Discard(i, After(who[i], err)) /\ FailedTry(who[i], err)
    /\ UNCHANGED <<store, sick, open, effects, away>>

\* What the wait of a caller leaves: the others, in their order.
LeavesQueue(c) == RemoveAt(waiting, CHOOSE k \in DOMAIN waiting : waiting[k] = c)

\* The checkout's timer fires.  A connection somebody queued for goes on.
TimesOut(c) ==
    /\ pc[c] \in Waits /\ left[c] = 0 /\ FailedTry(c, TimeoutError(c))
    /\ CASE pc[c] = "opening" -> Discard(Of(c), After(c, TimeoutError(c)))
         [] pc[c] = "handed" -> /\ who' = [who EXCEPT ![Of(c)] = None]
                                /\ pc' = After(c, TimeoutError(c)) /\ UNCHANGED <<conn, waiting>>
         [] OTHER -> /\ waiting' = LeavesQueue(c) /\ pc' = After(c, TimeoutError(c))
                     /\ UNCHANGED <<conn, who>>
    /\ UNCHANGED <<store, sick, open, effects, away>>

\* A connection nobody waits for is given up.
Abandon(i) ==
    /\ conn[i] = "connecting" /\ who[i] = None /\ Discard(i, pc)
    /\ UNCHANGED <<store, sick, open, left, told, effects, away>>

\* BEGIN and set_config, then the caller's own statements.
Statement(c) ==
    /\ pc[c] \in {"begin", "op"} /\ Of(c) \notin sick
    /\ pc' = [pc EXCEPT ![c] = IF @ = "begin" THEN "op" ELSE "commit"]
    /\ open' = open \cup {Of(c)}
    /\ UNCHANGED <<store, conn, who, sick, waiting, left, told, effects, away>>

Applied(c) == [w \in Writers |-> IF w = c THEN effects[w] + 1 ELSE effects[w]]

CommitTxn(c) ==
    /\ pc[c] = "commit" /\ Of(c) \notin sick
    /\ open' = open \ {Of(c)} /\ effects' = Applied(c)
    /\ result' = [result EXCEPT ![c] = "ok"]
    /\ LET done == [pc EXCEPT ![c] = "done"]
       IN IF PerRequest THEN Discard(Of(c), done) ELSE Return({Of(c)}, done)
    /\ UNCHANGED <<store, sick, left, spent, tries, away>>

\* The server refuses one of the caller's statements.
Refused(c) ==
    /\ pc[c] = "op" /\ Of(c) \notin sick /\ open' = open \ {Of(c)} /\ FailedTry(c, "refused")
    /\ IF PerRequest THEN Discard(Of(c), After(c, "refused"))
                     ELSE Return({Of(c)}, After(c, "refused"))
    /\ UNCHANGED <<store, sick, effects, away>>

\* Variant: released as if nothing had happened.
KeptAnyway(c) == Return({Of(c)}, After(c, "lost")) /\ UNCHANGED sick

\* The guard saw the socket fail: the connection is destroyed.
Destroyed(c) == Discard(Of(c), After(c, "lost")) /\ sick' = sick \ {Of(c)}

\* A statement on a lost connection fails, and so does its ROLLBACK.  A COMMIT
\* may have been carried out.
Lost(c) ==
    /\ pc[c] \in InTxn /\ Of(c) \in sick
    /\ Destroyed(c) /\ FailedTry(c, "lost")
    /\ effects' \in IF pc[c] = "commit" THEN {effects, Applied(c)} ELSE {effects}
    /\ away' = Timed /\ UNCHANGED <<store, open>>

\* idleTimeoutMillis, maxLifetimeSeconds, or the pool's own error listener.
IdleEnds(i) ==
    /\ conn[i] = "idle" /\ conn' = [conn EXCEPT ![i] = "none"] /\ sick' = sick \ {i}
    /\ UNCHANGED <<store, who, open, waiting, pc, left, told, effects, away>>

-----------------------------------------------------------------------------
\* All the checkouts are asked for before any connection is given back.
PrewarmConnect ==
    /\ \E c \in Warmed : pc[c] = "new"
    /\ Checkout(CHOOSE c \in Warmed : pc[c] = "new")
    /\ UNCHANGED <<store, sick, open, told, effects>>

PrewarmSettled ==
    /\ \E c \in Warmed : pc[c] = "held"
    /\ \A c \in Warmed : pc[c] \in {"held", "failed"}

\* allSettled, then one loop of releases.
PrewarmRelease ==
    /\ PrewarmSettled
    /\ Return({i \in Conns : conn[i] = "lent" /\ who[i] \in Prewarms},
              [c \in Borrowers |-> IF c \in Prewarms THEN "done" ELSE pc[c]])
    /\ UNCHANGED <<store, sick, open, left, told, effects, away>>

\* A connection of the prewarm has no error listener between its checkout and
\* its release: one that is seen to fail there is an uncaught exception.
Uncaught ==
    /\ \E i \in sick : conn[i] = "lent" /\ who[i] \in Prewarms
    /\ alive' = FALSE
    /\ UNCHANGED <<storeUp, faults, conn, who, sick, open, waiting, pc, left, told, effects, away>>

\* The prewarm is one task up to its checkouts.
Warming == \E c \in Warmed : pc[c] = "new" /\ \E d \in Warmed : pc[d] # "new"

-----------------------------------------------------------------------------
\* A suspend or a restart ends every session.
StoreTurns ==
    /\ storeUp => faults < Faults
    /\ storeUp' = ~storeUp /\ faults' = IF storeUp THEN faults + 1 ELSE faults
    /\ LET lost == IF storeUp THEN {i \in Conns : conn[i] \in {"idle", "lent"}} ELSE {}
       IN sick' = sick \cup lost /\ open' = open \ lost
    /\ away' = IF storeUp THEN Timed ELSE away
    /\ UNCHANGED <<alive, conn, who, waiting, pc, left, told, effects>>

\* One session ends: an administrator, a proxy, a network.
Break(i) ==
    /\ faults < Faults /\ conn[i] \in {"idle", "lent"} /\ i \notin sick
    /\ faults' = faults + 1 /\ sick' = sick \cup {i} /\ open' = open \ {i} /\ away' = Timed
    /\ UNCHANGED <<alive, storeUp, conn, who, waiting, pc, left, told, effects>>

PoolTick ==
    /\ \A c \in Timed : left[c] > 0
    /\ storeUp => \A i \in Conns : conn[i] # "connecting"
    /\ \E c \in Borrowers : pc[c] \notin {"new", "done", "failed"}
    /\ ~PrewarmSettled
    /\ left' = [c \in Borrowers |-> IF c \in Timed THEN left[c] - 1 ELSE 0]
    /\ spent' = [c \in Readers |-> IF pc[c] \notin {"new", "done"} /\ spent[c] < Deadline
                                   THEN spent[c] + 1 ELSE spent[c]]
    /\ away' = away \cap Timed
    /\ UNCHANGED <<store, conn, who, sick, open, waiting, pc, tries, result, effects>>

Work(c) ==
    Statement(c) \/ CommitTxn(c) \/ Refused(c) \/ Lost(c) \/ TimesOut(c) \/ Retry(c)

Pool(i) ==
    ConnectOk(i) \/ Abandon(i) \/ IdleEnds(i) \/ Break(i)
    \/ \E err \in {"connect", "refused"} : ConnectRefused(i, err)

PoolNext ==
    /\ alive
    /\ \/ PrewarmConnect
       \/ /\ ~Warming
          /\ \/ \E c \in Borrowers : Call(c) \/ Work(c)
             \/ \E i \in Conns : Pool(i)
             \/ PrewarmRelease \/ Uncaught \/ StoreTurns \/ PoolTick

\* Time passes and timers fire, statements end, a store that is up accepts.
PoolSpec ==
    /\ PoolInit /\ [][PoolNext]_poolVars /\ WF_poolVars(alive /\ PoolTick)
    /\ WF_poolVars(alive /\ PrewarmRelease) /\ WF_poolVars(alive /\ PrewarmConnect)
    /\ \A i \in Conns : WF_poolVars(alive /\ ConnectOk(i)) /\ WF_poolVars(alive /\ Abandon(i))
    /\ \A c \in Borrowers : WF_poolVars(alive /\ Work(c))

-----------------------------------------------------------------------------
\* "retrying it is not [the recovery]": a caller is shed only while every slot
\* is at work in somebody's transaction: a cold burst
\* sheds nobody.
ShedOnlyWhenBusy ==
    [][\A c \in Borrowers : result[c] # "shed" /\ result'[c] = "shed" =>
           \A i \in Conns : conn[i] = "lent" /\ pc[who[i]] \in InTxn]_poolVars

\* When a caller is told the store is away, it, or a connection, failed in that
\* caller's last attempt:
\* a pool that is merely busy is never reported as an outage, and a prewarm gets
\* every connection it asks for unless the store is away.
DownMeansAway ==
    [][\A c \in Borrowers : result[c] # "connect" /\ result'[c] = "connect" => c \in away]_poolVars

\* A connection that leaves a transaction is closed over: it is not returned
\* inside the transaction, and not at all once its borrower saw it fail.
HandedBackClean ==
    [][\A i \in Conns : conn[i] = "lent" /\ who[i] \in Readers \cup Writers /\ who'[i] # who[i]
                         => i \notin open' /\ i \notin sick']_poolVars

\* Whoever asks for a connection ends: no timeout is unbounded, and a prewarm
\* does not wait for itself.
EveryCallerEnds == \A c \in Borrowers : pc[c] \in Waits \cup InTxn \cup {"held", "sleep"}
                                        ~> pc[c] \in {"done", "failed"} \/ ~alive

\* "Failures are warnings, never fatal".
NeverFatal == alive

\* What a caller is told of its checkout is what happened, "busy" of a pool at work
\* and "away" of a store that was; and what it hands back can be lent again.
CheckoutsAreHonest == ShedOnlyWhenBusy /\ DownMeansAway /\ HandedBackClean
=============================================================================
