----------------------------- MODULE QueryEmbed -----------------------------
(***************************************************************************)
(* The query-embedding cache of the reading door                           *)
(* (packages/content/src/lib/query-embed.ts): an LRU of embedded queries,  *)
(* one paid embed shared by all who ask for the same key, a wall clock on  *)
(* each embed and a breaker per embedding space.                           *)
(*                                                                         *)
(* The process is one event loop: an action is a task with the microtasks  *)
(* that follow it.  A timed-out embed cannot be cancelled; its request     *)
(* runs on and nobody hears its answer.                                    *)
(***************************************************************************)
EXTENDS Integers, FiniteSets, SequencesExt

CONSTANTS
    Callers,    \* concurrent searches
    Keys,       \* (query, model, task, dim)
    Space,      \* the embedding space (model, dim) of a key
    CacheMax,   \* KSOR_EMBED_CACHE_MAX
    Wall,       \* ticks of KSOR_QUERY_EMBED_TIMEOUT_S
    Cooldown,   \* ticks of BREAKER_COOLDOWN_S
    NoKey

ASSUME QueryEmbedAssumption ==
    /\ CacheMax \in Nat \ {0} /\ Wall \in Nat \ {0} /\ Cooldown \in Nat \ {0}
    /\ NoKey \notin Keys

VARIABLES
    cache,      \* the cached keys, least recently used first
    inflight,   \* keys with an entry in the in-flight map
    breaker,    \* ticks until a space's breaker closes
    embeds,     \* embeds somebody awaits: owner, key and ticks on the wall clock
    asked,      \* the key a caller awaits
    answer      \* what the caller got last

vars == <<cache, inflight, breaker, embeds, asked, answer>>

Spaces == {Space[k] : k \in Keys}
Closed == [s \in Spaces |-> 0]

TypeOK ==
    /\ cache \in Seq(Keys) /\ IsInjective(cache) /\ Len(cache) <= CacheMax
    /\ inflight \subseteq Keys
    /\ breaker \in [Spaces -> 0..Cooldown]
    /\ embeds \subseteq [owner : Callers, key : Keys, left : 0..Wall]
    /\ asked \in [Callers -> Keys \cup {NoKey}]
    /\ answer \in [Callers -> {"none", "vector", "degrade"}]

Init ==
    /\ cache = <<>> /\ inflight = {} /\ breaker = Closed /\ embeds = {}
    /\ asked = [c \in Callers |-> NoKey] /\ answer = [c \in Callers |-> "none"]

-----------------------------------------------------------------------------
\* cache.delete(key), cache.set(key, literal).
ToTail(s, k) == Append(Remove(s, k), k)

\* One entry is inserted at a time, so one at most is over the cap.
Evict(s) == IF Len(s) > CacheMax THEN Tail(s) ELSE s

Trip(s) == [breaker EXCEPT ![s] = Cooldown]

\* A cached query costs nothing, breaker or no breaker.
Hit(c, k) ==
    /\ asked[c] = NoKey /\ k \in Range(cache)
    /\ cache' = ToTail(cache, k)
    /\ answer' = [answer EXCEPT ![c] = "vector"]
    /\ UNCHANGED <<inflight, breaker, embeds, asked>>

\* Variant: the in-flight map is not consulted.
SharesNothing(k) == FALSE

\* Somebody is paying for this key already.
Pending(k) == k \in inflight

Share(c, k) ==
    /\ asked[c] = NoKey /\ k \notin Range(cache) /\ Pending(k)
    /\ asked' = [asked EXCEPT ![c] = k]
    /\ UNCHANGED <<cache, inflight, breaker, embeds, answer>>

\* embedMiss, up to the request: this caller pays.
Pay(c, k) ==
    /\ asked[c] = NoKey /\ k \notin Range(cache) /\ ~Pending(k)
    /\ breaker[Space[k]] = 0
    /\ inflight' = inflight \cup {k}
    /\ embeds' = embeds \cup {[owner |-> c, key |-> k, left |-> Wall]}
    /\ asked' = [asked EXCEPT ![c] = k]
    /\ UNCHANGED <<cache, breaker, answer>>

\* Variant: the rejection trips the breaker like any other exception.
RejectTrips(s) == Trip(s)

\* A rejection is no failure of the provider.
AfterReject(s) == breaker

\* embedMiss behind an open breaker: the caller degrades at once.
Reject(c, k) ==
    /\ asked[c] = NoKey /\ k \notin Range(cache) /\ ~Pending(k)
    /\ breaker[Space[k]] > 0
    /\ breaker' = AfterReject(Space[k])
    /\ answer' = [answer EXCEPT ![c] = "degrade"]
    /\ UNCHANGED <<cache, inflight, embeds, asked>>

\* The promise of an embed settles: its owner and all who share it go on.
Settle(e, outcome) ==
    LET heard == {c \in Callers : asked[c] = e.key}
    IN  /\ embeds' = embeds \ {e}
        /\ inflight' = inflight \ {e.key}
        /\ asked' = [c \in Callers |-> IF c \in heard THEN NoKey ELSE asked[c]]
        /\ answer' = [c \in Callers |-> IF c \in heard THEN outcome ELSE answer[c]]

Succeed(e) ==
    /\ Settle(e, "vector")
    /\ cache' = Evict(ToTail(cache, e.key))
    /\ UNCHANGED breaker

\* Variant: one breaker for the process.
TripAll(k) == [s \in Spaces |-> Cooldown]

AfterFailure(k) == Trip(Space[k])

\* The provider raises; or, with the wall clock run out, it has not answered.
Fail(e) ==
    /\ Settle(e, "degrade")
    /\ breaker' = AfterFailure(e.key)
    /\ UNCHANGED cache

Late(e) == e.left = 0

TimeOut(e) == Late(e) /\ Fail(e)

\* Timers fire when they are due.
Tick ==
    /\ \A e \in embeds : ~Late(e)
    /\ \E s \in Spaces : breaker[s] > 0 \/ embeds # {}
    /\ breaker' = [s \in Spaces |-> IF breaker[s] > 0 THEN breaker[s] - 1 ELSE 0]
    /\ embeds' = {[e EXCEPT !.left = IF @ > 0 THEN @ - 1 ELSE 0] : e \in embeds}
    /\ UNCHANGED <<cache, inflight, asked, answer>>

Search == \E c \in Callers, k \in Keys : Hit(c, k) \/ Share(c, k) \/ Pay(c, k) \/ Reject(c, k)

Next ==
    \/ Search \/ Tick
    \/ \E e \in embeds : Succeed(e) \/ Fail(e) \/ TimeOut(e)

\* Time passes and due timers fire; the provider may never answer, and who
\* asks and for what is anybody's choice.
Spec ==
    /\ Init /\ [][Next]_vars
    /\ WF_vars(Tick) /\ WF_vars(\E e \in embeds : TimeOut(e))

-----------------------------------------------------------------------------
\* Concurrent identical misses share one paid embed, and who awaits a key
\* awaits an embed that will settle.
SingleFlight ==
    /\ \A e, f \in embeds : e.key = f.key => e = f
    /\ \A c \in Callers : asked[c] # NoKey => \E e \in embeds : e.key = asked[c]
    /\ inflight = {e.key : e \in embeds}

\* Only an embed of the space itself, settling without a vector, opens or
\* holds open its breaker: not another space's, and not a rejected caller.
TrippedByItsOwn ==
    [][\A s \in Spaces : breaker'[s] > breaker[s] =>
          \E e \in embeds : Space[e.key] = s /\ e \notin embeds']_vars

\* A provider that hangs leaves no search waiting.
EveryCallerHears == \A c \in Callers : asked[c] # NoKey ~> asked[c] = NoKey

\* However many searches come, and however the provider fails, an open breaker
\* closes and somebody may try again.
BreakerCloses == \A s \in Spaces : []<>(breaker[s] = 0)

\* A provider that hangs or fails neither keeps a search waiting nor shuts the
\* door on the ones to come.
SearchesRecover == EveryCallerHears /\ BreakerCloses

=============================================================================
