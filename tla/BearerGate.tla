----------------------------- MODULE BearerGate -----------------------------
(***************************************************************************)
(* The bearer gate of the door (packages/gateway-kit/src/auth.ts and       *)
(* jwks-discovery.ts): where the authorization server publishes its keys   *)
(* is found out once; a token is verified against a key set that jose      *)
(* keeps for JwksTtl, and the verdict is remembered, an acceptance for a   *)
(* while, a refusal for a while, an outage never.                          *)
(*                                                                         *)
(* Time is what is left: every lease, age and life counts down.            *)
(***************************************************************************)
EXTENDS Integers, FiniteSets, SequencesExt

CONSTANTS
    Bearers, Tokens, KeyIds,
    Kind,       \* Kind[t]: "good", "forged", "audience", "foreign", "shapeless"
    KeyOf,      \* KeyOf[t]: the key a token names
    Life,       \* Life[t]: what is left of the token; Long: it outlives the run
    Long,
    PosTtl, NegTtl, JwksTtl, KeysCooldown, TokenCacheMax,
    Explicit,   \* KSOR_JWKS_URL is set
    VendorPath, \* the keys are where Better Auth has them
    Issuer      \* KSOR_SSO_ISSUER is set

\* A cache has room for a token; the tokens name keys and have an end, or none.
ASSUME GateAssumption ==
    /\ {PosTtl, NegTtl, JwksTtl, KeysCooldown} \subseteq Nat
    /\ TokenCacheMax \in Nat \ {0} /\ Long \in Nat \ {0}
    /\ KeyOf \in [Tokens -> KeyIds] /\ Life \in [Tokens -> Nat]

VARIABLES
    up, published,  \* the authorization server: reachable; the keys it publishes
    gone,           \* how long ago a key was pulled (0: it is published)
    where,          \* the resolution: "unknown", "right" or "guess"
    keyset,         \* jose's: the keys, how long they are fresh, the cooldown
    accepted, rejected,  \* the two caches, oldest first
    life,           \* what is left of each token
    calls,          \* the calls of verify
    answers         \* the last answer a caller had

gateVars == <<up, published, gone, where, keyset, accepted, rejected, life, calls, answers>>

Down1(n) == IF n > 0 THEN n - 1 ELSE 0
Idle == [at |-> "idle"]
NoAnswer == [verdict |-> "none"]

GateInit ==
    /\ up \in BOOLEAN /\ published = {CHOOSE k \in KeyIds : TRUE}
    /\ gone = [k \in KeyIds |-> IF k \in published THEN 0 ELSE JwksTtl + PosTtl + 1]
    /\ where = "unknown" /\ keyset = [keys |-> {}, fresh |-> 0, cooling |-> 0]
    /\ accepted = <<>> /\ rejected = <<>> /\ life = Life
    /\ calls = [c \in Bearers |-> Idle] /\ answers = [c \in Bearers |-> NoAnswer]

-----------------------------------------------------------------------------
\* The authorization server comes and goes, publishes keys and pulls them.
Outage ==
    /\ up' = ~up
    /\ UNCHANGED <<published, gone, where, keyset, accepted, rejected, life, calls, answers>>

Rotate(k) ==
    /\ published' = IF k \in published THEN published \ {k} ELSE published \cup {k}
    /\ gone' = [gone EXCEPT ![k] = 0]
    /\ UNCHANGED <<up, where, keyset, accepted, rejected, life, calls, answers>>

GateTick ==
    LET older(cache) == [i \in DOMAIN cache |-> [cache[i] EXCEPT !.left = Down1(@)]]
    IN  /\ accepted' = older(accepted) /\ rejected' = older(rejected)
        /\ keyset' = [keyset EXCEPT !.fresh = Down1(@), !.cooling = Down1(@)]
        /\ gone' = [k \in KeyIds |-> IF k \in published THEN 0
                                   ELSE Min({gone[k] + 1, JwksTtl + PosTtl + 1})]
        /\ life' = [t \in Tokens |-> IF life[t] = Long THEN Long ELSE Down1(life[t])]
        /\ UNCHANGED <<up, published, where, calls, answers>>

-----------------------------------------------------------------------------
\* Variant: the base itself is taken for the key set.
BareBase == "guess"

\* The layout of one vendor, when no metadata document answered.
Fallback == IF VendorPath THEN "right" ELSE "guess"

\* resolveJwks, awaited at boot and memoized: nobody is served before it.
Resolve ==
    /\ where = "unknown" /\ where' = IF Explicit \/ up THEN "right" ELSE Fallback
    /\ UNCHANGED <<up, published, gone, keyset, accepted, rejected, life, calls, answers>>

-----------------------------------------------------------------------------
Remembered(cache, t) == \E i \in DOMAIN cache : cache[i].token = t /\ cache[i].left > 0

Unexpired(cache) ==
    LET kept[i \in 0..Len(cache)] ==
          IF i = 0 THEN <<>>
          ELSE IF cache[i].left > 0 THEN Append(kept[i - 1], cache[i]) ELSE kept[i - 1]
    IN  kept[Len(cache)]

\* prune, then Map.set: expired entries go when the cache is full, then the
\* oldest ones; a token already there keeps its place.
Remember(cache, t, ttl) ==
    LET swept == IF Len(cache) < TokenCacheMax THEN cache ELSE Unexpired(cache)
        kept == IF Len(swept) < TokenCacheMax THEN swept
                ELSE SubSeq(swept, Len(swept) - TokenCacheMax + 2, Len(swept))
        entry == [token |-> t, left |-> ttl]
    IN  IF \E i \in DOMAIN kept : kept[i].token = t
        THEN [i \in DOMAIN kept |-> IF kept[i].token = t THEN entry ELSE kept[i]]
        ELSE Append(kept, entry)

Answered(c, verdict) ==
    /\ calls' = [calls EXCEPT ![c] = Idle]
    /\ answers' = [answers EXCEPT ![c] = [verdict |-> verdict, token |-> calls[c].token]]

Rejects(c, t) ==
    /\ Answered(c, "rejected") /\ rejected' = Remember(rejected, t, NegTtl) /\ UNCHANGED accepted

\* Variant: the flat minute.
FlatTtl(t) == PosTtl

\* An acceptance outlives neither the key set's time nor the token.
AcceptTtl(t) == LET ttl == Min({PosTtl, JwksTtl}) IN IF life[t] = Long THEN ttl ELSE Min({ttl, life[t]})

Accepts(c, t) ==
    /\ Answered(c, "accepted") /\ UNCHANGED rejected
    /\ accepted' = IF AcceptTtl(t) > 0 THEN Remember(accepted, t, AcceptTtl(t)) ELSE accepted

\* TokenVerifyError, transient: nothing is remembered.
Unavailable(c, t) == Answered(c, "unavailable") /\ UNCHANGED <<accepted, rejected>>

-----------------------------------------------------------------------------
\* A bearer arrives.
Present(c, t) ==
    /\ where # "unknown" /\ calls[c] = Idle
    /\ calls' = [calls EXCEPT ![c] = [at |-> "verify", token |-> t]]
    /\ answers' = [answers EXCEPT ![c] = NoAnswer]
    /\ UNCHANGED <<up, published, gone, where, keyset, accepted, rejected, life>>

\* What verify decides before it looks for a key: the caches, the shape, the
\* issuer the token claims.
Recall(c) ==
    LET t == calls[c].token
    IN  /\ calls[c].at = "verify"
        /\ \/ Remembered(rejected, t) /\ Answered(c, "rejected") /\ UNCHANGED <<accepted, rejected>>
           \/ ~Remembered(rejected, t) /\ Remembered(accepted, t)
              /\ Answered(c, "accepted") /\ UNCHANGED <<accepted, rejected>>
           \/ /\ ~Remembered(rejected, t) /\ ~Remembered(accepted, t)
              /\ IF Kind[t] = "shapeless" \/ (Issuer /\ Kind[t] = "foreign") THEN Rejects(c, t)
                 ELSE /\ calls' = [calls EXCEPT ![c].at = "key"]
                      /\ UNCHANGED <<answers, accepted, rejected>>
        /\ UNCHANGED <<up, published, gone, where, keyset, life>>

\* The key is known: the signature, the token's end, the audience.
Judge(c, t) ==
    IF Kind[t] = "good" /\ life[t] > 0 THEN Accepts(c, t) ELSE Rejects(c, t)

\* jose: the key set is fetched when it is stale, or once more when it lacks
\* the key and no fetch was lately.
NeedsFetch(t) == keyset.fresh = 0 \/ (KeyOf[t] \notin keyset.keys /\ keyset.cooling = 0)

KnownKey(c) ==
    LET t == calls[c].token
    IN  /\ calls[c].at = "key" /\ ~NeedsFetch(t)
        /\ IF KeyOf[t] \in keyset.keys THEN Judge(c, t) ELSE Unavailable(c, t)
        /\ UNCHANGED <<up, published, gone, where, keyset, life>>

Fetch(c) ==
    LET t == calls[c].token
    IN  /\ calls[c].at = "key" /\ NeedsFetch(t)
        /\ IF up /\ where = "right"
           THEN /\ keyset' = [keys |-> published, fresh |-> JwksTtl, cooling |-> KeysCooldown]
                /\ IF KeyOf[t] \in published THEN Judge(c, t) ELSE Unavailable(c, t)
           ELSE UNCHANGED keyset /\ Unavailable(c, t)
        /\ UNCHANGED <<up, published, gone, where, life>>

-----------------------------------------------------------------------------
GateNext ==
    \/ Outage \/ GateTick \/ Resolve \/ \E k \in KeyIds : Rotate(k)
    \/ \E c \in Bearers : Recall(c) \/ KnownKey(c) \/ Fetch(c) \/ \E t \in Tokens : Present(c, t)

\* Time passes, boot ends, and every verification is bounded by its timeouts.
GateFairness ==
    /\ WF_gateVars(GateTick) /\ WF_gateVars(Resolve)
    /\ \A c \in Bearers : WF_gateVars(Recall(c) \/ KnownKey(c) \/ Fetch(c))

GateSpec == GateInit /\ [][GateNext]_gateVars /\ GateFairness

-----------------------------------------------------------------------------
\* Whoever is let in holds a good token that has not ended, signed with a key
\* that was still published within the time of the key set and of one
\* acceptance: pulling a key shuts its tokens out, whatever was cached.
PulledKeysLapse ==
    [][\A c \in Bearers : answers[c] = NoAnswer /\ answers'[c].verdict = "accepted" =>
          LET t == calls[c].token
          IN  /\ Kind[t] = "good" /\ life[t] > 0
              /\ gone[KeyOf[t]] <= JwksTtl + Min({PosTtl, JwksTtl})]_gateVars

Steady(t) == up /\ KeyOf[t] \in published /\ Kind[t] = "good" /\ life[t] = Long

\* A good token that its caller keeps presenting is let in again and again,
\* once the authorization server stays up with its key published ("a VALID
\* bearer must be re-admitted the instant JWKS recovers", auth.ts:474).
HeardAgain ==
    \A t \in Tokens, c \in Bearers :
        <>[]Steady(t) /\ []<>(calls[c].at = "verify" /\ calls[c].token = t)
            => []<>(answers[c] = [verdict |-> "accepted", token |-> t])
=============================================================================
