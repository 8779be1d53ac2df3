--------------------------- MODULE ServicesProofs ---------------------------
(***************************************************************************)
(* Embedding: vectors stay with the input they were computed from, and no  *)
(* passage is quarantined for a blip, a balance known to be spent or the   *)
(* text of another, for any record, provider, failures, edits, builds,     *)
(* kills and collections.  The induction is over steps, not over the       *)
(* builds a vector travelled through: each lends only what is its own.     *)
(* QueryEmbed, the searches' side of the provider, comes after, then       *)
(* BearerGate: what a door remembers of a token ends in time.  Last, Door: *)
(* it serves nothing, and reports nothing ready, before every boot check   *)
(* has passed, and runs one chain of checks at a time, for any number of   *)
(* connections, any cap, deadlines and store.                              *)
(***************************************************************************)
EXTENDS Door, QueryEmbed, Embedding, BearerGate, Loops, SequenceTheorems

Typed ==
    /\ tree \in [Passages -> Inputs]
    /\ rows \in [Gens -> {<<>>} \cup [Passages -> Row]]
    /\ run \in 0..MaxGen
    /\ run # 0 => rows[run] \in [Passages -> Row]

\* Why a passage that says i may have been quarantined.
Just(why, i) == why \notin Retryable \cup Fatal /\ (why = "refused" => i \in Poison)

\* What one generation holds: its own vectors, and just quarantines.
Sound(r) ==
    \A c \in DOMAIN r :
        /\ r[c].vec \in Inputs => r[c].vec = r[c].says
        /\ r[c].vec \in Reasons => Just(r[c].vec, r[c].says)

VecInv == Typed /\ \A g \in Gens : Sound(rows[g])

\* Sound rows are what the two properties ask for.
LEMMA SoundMeans == (\A g \in Gens : Sound(rows[g])) => VectorsAreTheirOwn /\ QuarantineIsJust
BY DEF Sound, Just, VectorsAreTheirOwn, QuarantineIsJust, Embedded, Failed, Held

\* A step that replaces the rows of one generation.
LEMMA OneGeneration ==
    ASSUME \A g \in Gens : Sound(rows[g]), rows \in [Gens -> {<<>>} \cup [Passages -> Row]],
           NEW g \in Gens, NEW r, rows' = [rows EXCEPT ![g] = r], Sound(r)
    PROVE  \A h \in Gens : Sound(rows'[h])
OBVIOUS

\* What a pass copies onto a passage was computed from what the passage says.
LEMMA InheritedIsOwn ==
    ASSUME VecInv, NEW c \in Passages, NEW v \in Inherited(c)
    PROVE  v \in Status /\ v \notin Reasons /\ (v \in Inputs => v = tree[c])
<1>1. CASE Lendable(c, tree[c]) = {}
  <2>1. v = "pending" BY <1>1 DEF Inherited
  <2> QED BY <2>1, EmbeddingAssumption DEF Status
<1>2. CASE Lendable(c, tree[c]) # {}
  <2>1. v \in Lendable(c, tree[c]) BY <1>2 DEF Inherited
  <2>2. PICK h \in CarrySources : \E d \in Embedded(h) :
          rows[h][d].says = tree[c] /\ v = rows[h][d].vec
    BY <2>1 DEF Lendable, CarryKeyMatches
  <2>3. PICK d \in Embedded(h) : rows[h][d].says = tree[c] /\ v = rows[h][d].vec BY <2>2
  <2>4. h \in Gens BY <2>2 DEF CarrySources
  <2>5. rows[h][d].vec \in Inputs /\ d \in DOMAIN rows[h] BY <2>3 DEF Embedded, Held
  <2>6. v = tree[c] BY <2>3, <2>4, <2>5 DEF VecInv, Sound
  <2> QED BY <2>3, <2>5, <2>6, EmbeddingAssumption DEF Status
<1> QED BY <1>1, <1>2

\* A build inherits from sound rows only.
LEMMA BuildKeeps ==
    ASSUME VecInv, NEW g \in Gens, BuildStructure(g)
    PROVE  VecInv'
<1>1. PICK vec \in [Passages -> Status] :
        /\ \A c \in Passages : vec[c] \in Inherited(c)
        /\ rows' = [rows EXCEPT ![g] = [c \in Passages |-> [says |-> tree[c], vec |-> vec[c]]]]
  BY DEF BuildStructure
<1> DEFINE r == [c \in Passages |-> [says |-> tree[c], vec |-> vec[c]]]
<1>2. r \in [Passages -> Row] BY DEF VecInv, Typed, Row
<1>3. \A c \in Passages : vec[c] \notin Reasons /\ (vec[c] \in Inputs => vec[c] = tree[c])
  BY <1>1, InheritedIsOwn
<1>4. Sound(r) BY <1>3 DEF Sound
<1>5. \A h \in Gens : Sound(rows'[h])
  <2> HIDE DEF r
  <2> QED BY <1>1, <1>4, OneGeneration DEF VecInv, Typed, r
<1>6. rows' \in [Gens -> {<<>>} \cup [Passages -> Row]] /\ rows'[g] = r
  BY <1>1, <1>2 DEF VecInv, Typed
<1>7. run' = g /\ tree' = tree /\ g \in 1..MaxGen BY DEF BuildStructure, Gens
<1>8. Typed' BY <1>2, <1>6, <1>7 DEF VecInv, Typed
<1> QED BY <1>5, <1>8 DEF VecInv

\* A batch writes each passage its own vector.
LEMMA WriteKeeps ==
    ASSUME VecInv, WriteBatch
    PROVE  VecInv'
<1> DEFINE r == [c \in Passages |-> IF c \in InBatch
                                      THEN [rows[run][c] EXCEPT !.vec = rows[run][c].says]
                                      ELSE rows[run][c]]
<1>1. run \in Gens /\ run # 0 BY DEF WriteBatch, Draining, VecInv, Typed, Gens
<1>2. rows' = [rows EXCEPT ![run] = r] /\ run' = run /\ tree' = tree BY DEF WriteBatch
<1>3. rows[run] \in [Passages -> Row] BY <1>1 DEF VecInv, Typed
<1>4. \A c \in Passages : rows[run][c] \in Row BY <1>3
<1>5. \A c \in Passages : r[c] \in Row /\ r[c].says = rows[run][c].says
                          /\ r[c].vec \in {rows[run][c].says, rows[run][c].vec}
  BY <1>4 DEF Row, Status
<1>6. r \in [Passages -> Row] BY <1>5
<1>7. Sound(rows[run]) BY <1>1 DEF VecInv
<1>8. Sound(r)
  <2> SUFFICES ASSUME NEW c \in Passages
               PROVE  /\ r[c].vec \in Inputs => r[c].vec = r[c].says
                      /\ r[c].vec \in Reasons => Just(r[c].vec, r[c].says)
    BY DEF Sound
  <2>1. c \in DOMAIN rows[run] /\ rows[run][c].says \in Inputs BY <1>3, <1>4 DEF Row
  <2> HIDE DEF r
  <2> QED BY <2>1, <1>5, <1>7, EmbeddingAssumption DEF Sound
<1>9. \A h \in Gens : Sound(rows'[h])
  <2> HIDE DEF r
  <2> QED BY <1>1, <1>2, <1>8, OneGeneration DEF VecInv, Typed
<1>10. Typed'
  <2> HIDE DEF r
  <2> QED BY <1>1, <1>2, <1>6 DEF VecInv, Typed
<1> QED BY <1>9, <1>10 DEF VecInv

\* Only the passage of a batch of one is marked, and with what its batch met.
LEMMA MarkKeeps ==
    ASSUME VecInv, NEW kind \in Reasons, MarkFailed(kind)
    PROVE  VecInv'
<1> DEFINE p == Head(queue)[1]
           r == [rows[run] EXCEPT ![p].vec = kind]
<1>1. run \in Gens /\ run # 0 BY DEF MarkFailed, Draining, VecInv, Typed, Gens
<1>2. rows' = [rows EXCEPT ![run] = r] /\ run' = run /\ tree' = tree BY DEF MarkFailed
<1>3. rows[run] \in [Passages -> Row] BY <1>1 DEF VecInv, Typed
<1>4. Just(kind, rows[run][p].says)
  <2>1. kind \notin Retryable \cup Fatal BY DEF MarkFailed, Aborting
  <2>2. ASSUME kind = "refused" PROVE rows[run][p].says \in Poison
    <3>1. Len(Head(queue)) = 1 BY DEF MarkFailed
    <3>2. InBatch = {p} BY <3>1 DEF InBatch
    <3>3. Poisoned # {} BY <2>2, EmbeddingAssumption DEF MarkFailed, Raises
    <3> QED BY <3>2, <3>3 DEF Poisoned
  <2> QED BY <2>1, <2>2 DEF Just
<1>5. \A c \in Passages : rows[run][c] \in Row BY <1>3
<1>6. DOMAIN r = Passages
      /\ \A c \in Passages : IF c = p THEN r[c] = [rows[run][c] EXCEPT !.vec = kind]
                                      ELSE r[c] = rows[run][c]
  BY <1>3
<1>7. \A c \in Passages : r[c] \in Row /\ r[c].says = rows[run][c].says
                          /\ (c = p => r[c].vec = kind)
  <2> HIDE DEF r
  <2> QED BY <1>5, <1>6 DEF Row, Status
<1>8. r \in [Passages -> Row] BY <1>6, <1>7
<1>9. Sound(r)
  <2>1. Sound(rows[run]) BY <1>1 DEF VecInv
  <2> SUFFICES ASSUME NEW c \in Passages
               PROVE  /\ r[c].vec \in Inputs => r[c].vec = r[c].says
                      /\ r[c].vec \in Reasons => Just(r[c].vec, r[c].says)
    BY <1>6 DEF Sound
  <2> HIDE DEF r, p
  <2>2. CASE c = p BY <2>2, <1>4, <1>7, EmbeddingAssumption
  <2>3. CASE c # p
    <3>1. c \in DOMAIN rows[run] BY <1>3
    <3> QED BY <2>1, <2>3, <3>1, <1>6 DEF Sound
  <2> QED BY <2>2, <2>3
<1>10. \A h \in Gens : Sound(rows'[h])
  <2> HIDE DEF r
  <2> QED BY <1>1, <1>2, <1>9, OneGeneration DEF VecInv, Typed
<1>11. Typed'
  <2> HIDE DEF r
  <2> QED BY <1>1, <1>2, <1>8 DEF VecInv, Typed
<1> QED BY <1>10, <1>11 DEF VecInv

\* Collection empties a generation.
LEMMA ReapKeeps ==
    ASSUME VecInv, NEW g \in Gens, Reap(g)
    PROVE  VecInv'
<1>1. rows' = [rows EXCEPT ![g] = <<>>] /\ run' = run /\ tree' = tree /\ g # run BY DEF Reap
<1>2. Sound(<<>>) BY DEF Sound
<1>3. \A h \in Gens : Sound(rows'[h]) BY <1>1, <1>2, OneGeneration DEF VecInv, Typed
<1>4. Typed' BY <1>1 DEF VecInv, Typed
<1> QED BY <1>3, <1>4 DEF VecInv

\* No rows at the start.
LEMMA VecInvInit == EmbedInit => VecInv
<1> SUFFICES ASSUME EmbedInit PROVE VecInv OBVIOUS
<1>1. Typed BY EmbeddingAssumption DEF EmbedInit, Typed
<1>2. \A g \in Gens : Sound(rows[g]) BY DEF EmbedInit, Sound
<1> QED BY <1>1, <1>2 DEF VecInv

\* All steps.
LEMMA VecInvStep == VecInv /\ [EmbedNext]_embedVars => VecInv'
<1> SUFFICES ASSUME VecInv, [EmbedNext]_embedVars PROVE VecInv' OBVIOUS
<1>1. CASE UNCHANGED rows /\ tree' \in [Passages -> Inputs] /\ run' \in {0, run}
  <2>1. Typed' BY <1>1, EmbeddingAssumption DEF VecInv, Typed
  <2> QED BY <1>1, <2>1 DEF VecInv
<1>2. CASE UNCHANGED embedVars BY <1>1, <1>2 DEF embedVars, VecInv, Typed
<1>3. CASE EmbedNext
  <2>1. ASSUME NEW g \in Gens, BuildStructure(g) PROVE VecInv' BY <2>1, BuildKeeps
  <2>2. ASSUME NEW g \in Gens, Reap(g) PROVE VecInv' BY <2>2, ReapKeeps
  <2>3. CASE WriteBatch BY <2>3, WriteKeeps
  <2>4. ASSUME NEW kind \in Reasons, Abort(kind) PROVE VecInv'
    BY <1>1, <2>4 DEF Abort, VecInv, Typed
  <2>5. ASSUME NEW kind \in Reasons, MarkFailed(kind) PROVE VecInv'
    BY <2>5, MarkKeeps
  <2>6. ASSUME NEW kind \in Reasons, Split(kind) PROVE VecInv'
    BY <1>1, <2>6 DEF Split, VecInv, Typed
  <2>7. CASE Finalize BY <1>1, <2>7 DEF Finalize, VecInv, Typed
  <2>8. CASE Kill BY <1>1, <2>8 DEF Kill, VecInv, Typed
  <2>9. CASE Edit BY <1>1, <2>9, EmbeddingAssumption DEF Edit, VecInv, Typed
  <2> QED BY <1>3, <2>1, <2>2, <2>3, <2>4, <2>5, <2>6, <2>7, <2>8, <2>9 DEF EmbedNext, Drain
<1> QED BY <1>2, <1>3

\* Every generation that carry-forward may lend from is sound.
THEOREM VecInvAlways == EmbedSpec => []VecInv
BY VecInvInit, VecInvStep, PTL DEF EmbedSpec

\* carryForward (generation.ts:147-320): however many builds, edits, kills and
\* collections a vector has come through, it is of its passage's own input.
THEOREM VectorsAlwaysTheirOwn == EmbedSpec => []VectorsAreTheirOwn
<1>1. VecInv => VectorsAreTheirOwn BY SoundMeans DEF VecInv
<1> QED BY <1>1, VecInvAlways, PTL

\* worker.ts:108-144: whatever the provider tells apart and however batches were
\* split, nobody is quarantined for a blip or a balance known to be spent, nor
\* for a text that is refused but is another's.  Of the errors that the provider
\* cannot tell, a revoked key among them, it says nothing.
THEOREM QuarantineIsAlwaysJust == EmbedSpec => []QuarantineIsJust
<1>1. VecInv => QuarantineIsJust BY SoundMeans DEF VecInv
<1> QED BY <1>1, VecInvAlways, PTL

-----------------------------------------------------------------------------
(* QueryEmbed: for any callers, keys, spaces, cache size, wall clock and    *)
(* cooldown, misses of one key share one paid embed and a breaker is        *)
(* tripped by its own space alone.                                          *)

\* The part of the state the two properties rest on.
Kinds ==
    /\ breaker \in [Spaces -> 0..Cooldown]
    /\ embeds \subseteq [owner : Callers, key : Keys, left : 0..Wall]
    /\ asked \in [Callers -> Keys \cup {NoKey}]

Inv == Kinds /\ SingleFlight

\* Tripping a breaker keeps the breakers what they are.
LEMMA TripKinds ==
    ASSUME NEW s \in Spaces, breaker \in [Spaces -> 0..Cooldown]
    PROVE  Trip(s) \in [Spaces -> 0..Cooldown]
  BY QueryEmbedAssumption, SMT DEF Trip

\* A settling embed takes its key and its listeners with it.
LEMMA SettleKeeps ==
    ASSUME Inv, NEW e \in embeds, NEW out, Settle(e, out)
    PROVE  /\ embeds' \subseteq [owner : Callers, key : Keys, left : 0..Wall]
           /\ asked' \in [Callers -> Keys \cup {NoKey}]
           /\ SingleFlight'
  <1>1. embeds' = embeds \ {e} /\ inflight' = inflight \ {e.key}
    BY DEF Settle
  <1>2. asked' = [c \in Callers |-> IF asked[c] = e.key THEN NoKey ELSE asked[c]]
    BY SMT DEF Settle
  <1>3. embeds' \subseteq [owner : Callers, key : Keys, left : 0..Wall]
    BY <1>1 DEF Inv, Kinds
  <1>4. asked' \in [Callers -> Keys \cup {NoKey}]
    BY <1>2 DEF Inv, Kinds
  <1>5. \A f, g \in embeds' : f.key = g.key => f = g
    BY <1>1 DEF Inv, SingleFlight
  <1>6. \A c \in Callers : asked'[c] # NoKey => \E f \in embeds' : f.key = asked'[c]
    <2>1. SUFFICES ASSUME NEW c \in Callers, asked'[c] # NoKey
                   PROVE  \E f \in embeds' : f.key = asked'[c]
      OBVIOUS
    <2>2. asked'[c] = asked[c] /\ asked[c] # e.key
      BY <1>2, <2>1
    <2>3. PICK f \in embeds : f.key = asked[c]
      BY <2>1, <2>2 DEF Inv, SingleFlight
    <2>4. QED BY <1>1, <2>2, <2>3
  <1>7. inflight' = {f.key : f \in embeds'}
    <2>1. \A f \in embeds : f.key = e.key => f = e
      BY DEF Inv, SingleFlight
    <2>2. QED BY <1>1, <2>1 DEF Inv, SingleFlight
  <1>8. QED BY <1>3, <1>4, <1>5, <1>6, <1>7 DEF SingleFlight

\* The initial states satisfy the invariant.
LEMMA InitInv == Init => Inv
  BY QueryEmbedAssumption, SMT DEF Init, Inv, Kinds, SingleFlight, Closed

\* Every step keeps it: one step of the proof per action.
LEMMA StepInv == Inv /\ [Next]_vars => Inv'
  <1> SUFFICES ASSUME Inv, [Next]_vars PROVE Inv'
    OBVIOUS
  <1> USE DEF Inv, Kinds
  <1>1. ASSUME NEW c \in Callers, NEW k \in Keys, Hit(c, k) PROVE Inv'
    BY <1>1 DEF Hit, SingleFlight
  <1>2. ASSUME NEW c \in Callers, NEW k \in Keys, Share(c, k) PROVE Inv'
    <2>1. \E e \in embeds : e.key = k
      BY <1>2 DEF Share, Pending, SingleFlight
    <2>2. \A d \in Callers : asked'[d] = IF d = c THEN k ELSE asked[d]
      BY <1>2 DEF Share
    <2>3. Kinds'
      BY <1>2 DEF Share
    <2>4. SingleFlight'
      BY <1>2, <2>1, <2>2 DEF Share, SingleFlight
    <2>5. QED BY <2>3, <2>4
  <1>3. ASSUME NEW c \in Callers, NEW k \in Keys, Pay(c, k) PROVE Inv'
    <2> DEFINE new == [owner |-> c, key |-> k, left |-> Wall]
    <2>1. embeds' = embeds \cup {new} /\ inflight' = inflight \cup {k}
      BY <1>3 DEF Pay
    <2>2. \A e \in embeds : e.key # k
      BY <1>3 DEF Pay, Pending, SingleFlight
    <2>3. new \in [owner : Callers, key : Keys, left : 0..Wall] /\ new.key = k
      BY QueryEmbedAssumption
    <2>4. Kinds'
      BY <1>3, <2>1, <2>3 DEF Pay
    <2>5. \A e, f \in embeds' : e.key = f.key => e = f
      BY <2>1, <2>2, <2>3 DEF SingleFlight
    <2>6. \A d \in Callers : asked'[d] # NoKey => \E e \in embeds' : e.key = asked'[d]
      <3>1. SUFFICES ASSUME NEW d \in Callers, asked'[d] # NoKey
                     PROVE  \E e \in embeds' : e.key = asked'[d]
        OBVIOUS
      <3>2. CASE d = c
        BY <1>3, <2>1, <2>3, <3>2 DEF Pay
      <3>3. CASE d # c
        <4>1. asked'[d] = asked[d]
          BY <1>3, <3>3 DEF Pay
        <4>2. PICK e \in embeds : e.key = asked[d]
          BY <3>1, <4>1 DEF SingleFlight
        <4>3. QED BY <2>1, <4>1, <4>2
      <3>4. QED BY <3>2, <3>3
    <2>7. inflight' = {e.key : e \in embeds'}
      BY <2>1, <2>3 DEF SingleFlight
    <2>8. QED BY <2>4, <2>5, <2>6, <2>7 DEF SingleFlight
  <1>4. ASSUME NEW c \in Callers, NEW k \in Keys, Reject(c, k) PROVE Inv'
    BY <1>4 DEF Reject, AfterReject, SingleFlight
  <1>5. ASSUME NEW e \in embeds, Succeed(e) PROVE Inv'
    <2>1. Settle(e, "vector") /\ breaker' = breaker
      BY <1>5 DEF Succeed
    <2>2. QED BY <2>1, SettleKeeps
  <1>6. ASSUME NEW e \in embeds, Fail(e) PROVE Inv'
    <2>1. Settle(e, "degrade") /\ breaker' = Trip(Space[e.key])
      BY <1>6 DEF Fail, AfterFailure
    <2>2. Space[e.key] \in Spaces
      BY DEF Spaces
    <2>3. breaker' \in [Spaces -> 0..Cooldown]
      BY <2>1, <2>2, TripKinds
    <2>4. QED BY <2>1, <2>3, SettleKeeps
  <1>7. ASSUME Tick PROVE Inv'
    <2> DEFINE later(e) == [e EXCEPT !.left = IF @ > 0 THEN @ - 1 ELSE 0]
    <2>1. embeds' = {later(e) : e \in embeds}
      BY <1>7 DEF Tick
    <2>2. \A e \in embeds : /\ later(e) \in [owner : Callers, key : Keys, left : 0..Wall]
                            /\ later(e).key = e.key
      BY QueryEmbedAssumption, SMT
    <2>3. asked' = asked /\ inflight' = inflight
      BY <1>7 DEF Tick
    <2>4. breaker' \in [Spaces -> 0..Cooldown]
      BY <1>7, QueryEmbedAssumption, SMT DEF Tick
    <2>5. embeds' \subseteq [owner : Callers, key : Keys, left : 0..Wall]
      BY <2>1, <2>2
    <2>6. Kinds'
      BY <2>3, <2>4, <2>5
    <2>7. \A e, f \in embeds' : e.key = f.key => e = f
      <3>1. SUFFICES ASSUME NEW e \in embeds, NEW f \in embeds, later(e).key = later(f).key
                     PROVE  later(e) = later(f)
        BY <2>1
      <3>2. e = f
        BY <2>2, <3>1 DEF SingleFlight
      <3>3. QED BY <3>2
    <2>8. \A d \in Callers : asked'[d] # NoKey => \E e \in embeds' : e.key = asked'[d]
      <3>1. SUFFICES ASSUME NEW d \in Callers, asked[d] # NoKey
                     PROVE  \E e \in embeds' : e.key = asked[d]
        BY <2>3
      <3>2. PICK e \in embeds : e.key = asked[d]
        BY <3>1 DEF SingleFlight
      <3>3. later(e) \in embeds' /\ later(e).key = asked[d]
        BY <2>1, <2>2, <3>2
      <3>4. QED BY <3>3
    <2>9. inflight' = {e.key : e \in embeds'}
      <3>1. inflight = {e.key : e \in embeds}
        BY DEF SingleFlight
      <3>2. \A e \in embeds : later(e) \in embeds' /\ later(e).key = e.key
        BY <2>1, <2>2
      <3>3. \A f \in embeds' : \E e \in embeds : f = later(e)
        BY <2>1
      <3> HIDE DEF later
      <3>4. \A x : x \in inflight <=> x \in {e.key : e \in embeds'}
        BY <3>1, <3>2, <3>3
      <3>5. QED BY <3>4, <2>3
    <2>10. QED BY <2>6, <2>7, <2>8, <2>9 DEF SingleFlight
  <1>8. CASE UNCHANGED vars
    BY <1>8 DEF vars, SingleFlight
  <1>9. QED
    BY <1>1, <1>2, <1>3, <1>4, <1>5, <1>6, <1>7, <1>8 DEF Next, Search, TimeOut

\* Concurrent misses of one key share one paid embed (query-embed.ts:207-220),
\* and whoever waits for a key waits for an embed that is under way.
THEOREM SingleFlightAlways == Spec => []SingleFlight
  <1>1. Inv => SingleFlight
    BY DEF Inv
  <1>2. QED BY InitInv, StepInv, <1>1, PTL DEF Spec

\* A breaker is opened, or held open, only by an embed of its own space that
\* settles without a vector (query-embed.ts:172-178).
THEOREM TrippedByItsOwnAlways == Spec => TrippedByItsOwn
  <1> DEFINE Own == \A s \in Spaces : breaker'[s] > breaker[s] =>
                       \E e \in embeds : Space[e.key] = s /\ e \notin embeds'
  <1>1. Inv /\ [Next]_vars => [Own]_vars
    <2> SUFFICES ASSUME Inv, Next PROVE Own
      BY DEF vars
    <2> SUFFICES ASSUME NEW s \in Spaces, breaker'[s] > breaker[s]
                 PROVE  \E e \in embeds : Space[e.key] = s /\ e \notin embeds'
      OBVIOUS
    <2>0. breaker[s] \in 0..Cooldown
      BY DEF Inv, Kinds
    <2>1. ASSUME breaker' = breaker PROVE FALSE
      BY <2>1, <2>0, SMT
    <2>2. ~Search
      BY <2>1 DEF Search, Hit, Share, Pay, Reject, AfterReject
    <2>3. ~Tick
      <3>1. ASSUME Tick PROVE breaker'[s] = IF breaker[s] > 0 THEN breaker[s] - 1 ELSE 0
        BY <3>1 DEF Tick
      <3>2. QED BY <3>1, <2>0, SMT
    <2>4. PICK e \in embeds : Fail(e)
      BY <2>1, <2>2, <2>3 DEF Next, Succeed, TimeOut
    <2>5. e \notin embeds'
      BY <2>4 DEF Fail, Settle
    <2>6. breaker' = [breaker EXCEPT ![Space[e.key]] = Cooldown]
      BY <2>4 DEF Fail, AfterFailure, Trip
    <2>7. Space[e.key] = s
      <3>1. SUFFICES ASSUME Space[e.key] # s PROVE FALSE
        OBVIOUS
      <3>2. breaker'[s] = breaker[s]
        BY <2>6, <3>1 DEF Inv, Kinds
      <3>3. QED BY <3>2, <2>0, SMT
    <2>8. QED BY <2>5, <2>7
  <1>2. QED BY InitInv, StepInv, <1>1, PTL DEF Spec, TrippedByItsOwn
-----------------------------------------------------------------------------
(* BearerGate: pulling a key shuts its tokens out, for any callers, tokens, *)
(* keys, times to live and sizes of the caches.                            *)

\* The least of two.
LEMMA LeastOf == ASSUME NEW a \in Int, NEW b \in Int PROVE Min({a, b}) = IF a <= b THEN a ELSE b
<1> DEFINE m == IF a <= b THEN a ELSE b
<1>1. m \in {a, b} /\ \A y \in {a, b} : m <= y OBVIOUS
<1>2. \A x \in {a, b} : (\A y \in {a, b} : x <= y) => x = m OBVIOUS
<1> HIDE DEF m
<1>3. (CHOOSE x \in {a, b} : \A y \in {a, b} : x <= y) = m BY <1>1, <1>2
<1> QED BY <1>3 DEF Min, m

\* How long an acceptance may last, and a key be gone under it.
Most == IF PosTtl <= JwksTtl THEN PosTtl ELSE JwksTtl
Lasts(t, n) == life[t] = Long \/ n <= life[t]

\* What may be remembered: a good token that lasts, with a key that will not
\* have been gone for too long when the entry ends.
Welcome ==
    {e \in [token : Tokens, left : Nat] :
        e.left > 0 => /\ Kind[e.token] = "good" /\ Lasts(e.token, e.left)
                      /\ gone[KeyOf[e.token]] + e.left <= JwksTtl + Most}

\* A fresh key set has no key that was gone when it was fetched.
KeysInv ==
    \A k \in KeyIds : /\ k \in published => gone[k] = 0
                      /\ keyset.fresh > 0 /\ k \in keyset.keys => gone[k] + keyset.fresh <= JwksTtl

GateTypeOK ==
    /\ life \in [Tokens -> Nat] /\ gone \in [KeyIds -> Nat]
    /\ DOMAIN keyset = {"keys", "fresh", "cooling"} /\ keyset.fresh \in Nat
    /\ DOMAIN answers = Bearers
    /\ calls \in [Bearers -> {Idle} \cup [at : {"verify", "key"}, token : Tokens]]

GateInv == GateTypeOK /\ KeysInv /\ accepted \in Seq(Welcome)

\* A cache without its expired entries has entries of it only.
LEMMA UnexpiredIs == ASSUME NEW E, NEW had \in Seq(E) PROVE Unexpired(had) \in Seq(E)
<1> DEFINE n == Len(had)
           X == Seq(E)
           step == [i \in 1..n |-> [s \in X |-> IF had[i].left > 0 THEN Append(s, had[i]) ELSE s]]
           Is(f) == f = [i \in 0..n |-> IF i = 0 THEN <<>>
                                        ELSE IF had[i].left > 0 THEN Append(f[i - 1], had[i])
                                        ELSE f[i - 1]]
<1>1. n \in Nat /\ <<>> \in X /\ \A i \in 1..n : had[i] \in E OBVIOUS
<1>2. \E f : Is(f)
  <2>1. \A i \in 1..n, s \in X : Append(s, had[i]) \in X BY <1>1
  <2> HIDE DEF n, X
  <2>2. step \in [1..n -> [X -> X]] BY <2>1
  <2> HIDE DEF step
  <2>3. \E f : Ran(f, n, X, <<>>, step) BY <1>1, <2>2, LoopRuns
  <2>4. PICK f : f \in [0..n -> X] /\ f[0] = <<>> /\ \A i \in 1..n : f[i] = step[i][f[i - 1]]
    BY <2>3 DEF Ran
  <2>5. ASSUME NEW i \in 0..n
        PROVE  f[i] = IF i = 0 THEN <<>>
                      ELSE IF had[i].left > 0 THEN Append(f[i - 1], had[i]) ELSE f[i - 1]
    <3>1. CASE i = 0 BY <2>4, <3>1
    <3>2. CASE i # 0
      <4>1. i \in 1..n /\ i - 1 \in 0..n BY <1>1, <3>2
      <4>2. f[i - 1] \in X /\ f[i] = step[i][f[i - 1]] BY <2>4, <4>1
      <4> QED BY <3>2, <4>1, <4>2 DEF step
    <3> QED BY <3>1, <3>2
  <2>6. Is(f) BY <2>4, <2>5
  <2> QED BY <2>6
<1> DEFINE kept == CHOOSE f : Is(f)
<1>3. Is(kept) BY <1>2
<1> DEFINE Good == {i \in 0..n : kept[i] \in X}
<1>4. 0 \in Good
  <2> DEFINE F(j) == IF j = 0 THEN <<>>
                     ELSE IF had[j].left > 0 THEN Append(kept[j - 1], had[j]) ELSE kept[j - 1]
  <2>1. kept = [j \in 0..n |-> F(j)] BY <1>3
  <2>2. F(0) = <<>> /\ 0 \in 0..n BY <1>1
  <2> HIDE DEF F, n, kept
  <2>3. kept[0] = <<>> BY <2>1, <2>2
  <2> QED BY <1>1, <2>2, <2>3
<1>5. ASSUME NEW i \in 1..n, i - 1 \in Good PROVE i \in Good
  <2>1. i \in 0..n /\ i # 0 /\ kept[i - 1] \in X BY <1>1, <1>5
  <2>2. kept[i] = IF had[i].left > 0 THEN Append(kept[i - 1], had[i]) ELSE kept[i - 1]
    BY <1>3, <2>1
  <2>3. Append(kept[i - 1], had[i]) \in X BY <1>1, <2>1
  <2> QED BY <2>1, <2>2, <2>3
<1>6. 0..n \subseteq Good
  <2> HIDE DEF Good, n
  <2> QED BY <1>1, <1>4, <1>5, LoopKeeps
<1>7. n \in Good BY <1>1, <1>6
<1>8. kept[n] \in X BY <1>7
<1> QED BY <1>8 DEF Unexpired

\* So has a cache that remembers one more.
LEMMA RememberIs ==
    ASSUME NEW E, NEW had \in Seq(E), NEW t, NEW ttl, [token |-> t, left |-> ttl] \in E
    PROVE  Remember(had, t, ttl) \in Seq(E)
<1> DEFINE swept == IF Len(had) < TokenCacheMax THEN had ELSE Unexpired(had)
           from == Len(swept) - TokenCacheMax + 2
           kept == IF Len(swept) < TokenCacheMax THEN swept ELSE SubSeq(swept, from, Len(swept))
           item == [token |-> t, left |-> ttl]
<1>1. swept \in Seq(E) BY UnexpiredIs
<1>2. kept \in Seq(E)
  <2> HIDE DEF swept
  <2>1. CASE Len(swept) < TokenCacheMax BY <1>1, <2>1
  <2>2. CASE ~(Len(swept) < TokenCacheMax)
    <3>1. Len(swept) \in Nat BY <1>1
    <3>2. from \in 1..(Len(swept) + 1) /\ Len(swept) \in (from - 1)..Len(swept)
      BY <2>2, <3>1, GateAssumption
    <3> HIDE DEF from
    <3>3. SubSeq(swept, from, Len(swept)) \in Seq(E) BY <1>1, <3>2, SubSeqProperties
    <3> QED BY <2>2, <3>3
  <2> QED BY <2>1, <2>2
<1> HIDE DEF kept
<1>3. [i \in DOMAIN kept |-> IF kept[i].token = t THEN item ELSE kept[i]] \in Seq(E)
  <2>1. DOMAIN kept = 1..Len(kept) /\ Len(kept) \in Nat /\ \A i \in 1..Len(kept) : kept[i] \in E
    BY <1>2
  <2>2. item \in E OBVIOUS
  <2> HIDE DEF item
  <2> DEFINE s == [i \in 1..Len(kept) |-> IF kept[i].token = t THEN item ELSE kept[i]]
  <2>3. \A i \in 1..Len(kept) : s[i] \in E BY <2>1, <2>2
  <2>4. s \in Seq(E) BY <2>1, <2>3
  <2> QED BY <2>1, <2>4
<1>4. Append(kept, item) \in Seq(E) BY <1>2
<1> QED BY <1>3, <1>4 DEF Remember, kept

\* What may be remembered still may when no token ends and no key is gone longer.
LEMMA StillWelcome ==
    ASSUME accepted \in Seq(Welcome), UNCHANGED life, GateTypeOK, GateTypeOK',
           \A k \in KeyIds : gone'[k] <= gone[k]
    PROVE  accepted \in Seq(Welcome')
<1>1. ASSUME NEW e \in Welcome PROVE e \in Welcome'
  <2>1. KeyOf[e.token] \in KeyIds /\ e.left \in Nat BY GateAssumption DEF Welcome
  <2>2. gone[KeyOf[e.token]] \in Nat /\ gone'[KeyOf[e.token]] \in Nat BY <2>1 DEF GateTypeOK
  <2>3. JwksTtl \in Nat /\ Most \in Nat BY GateAssumption DEF Most
  <2> QED BY <2>1, <2>2, <2>3 DEF Welcome, Lasts
<1> DEFINE A == Welcome
           B == Welcome'
<1>2. A \subseteq B BY <1>1
<1>3. accepted \in Seq(A) OBVIOUS
<1> HIDE DEF A, B
<1>4. accepted \in Seq(B) BY <1>2, <1>3
<1> QED BY <1>4 DEF B

\* A good token judged under a key that was not gone for longer than JwksTtl.
LEMMA JudgeKeeps ==
    ASSUME GateInv, NEW c \in Bearers, NEW t \in Tokens, Judge(c, t),
           gone[KeyOf[t]] <= JwksTtl
    PROVE  /\ accepted' \in Seq(Welcome)
           /\ \E verdict : Answered(c, verdict)
           /\ \A verdict : Answered(c, verdict) /\ verdict = "accepted" =>
                 Kind[t] = "good" /\ life[t] > 0
<1>1. life[t] \in Nat /\ KeyOf[t] \in KeyIds /\ gone[KeyOf[t]] \in Nat
  BY GateAssumption DEF GateInv, GateTypeOK
<1>2. AcceptTtl(t) \in Nat /\ AcceptTtl(t) <= Most /\ Lasts(t, AcceptTtl(t))
  <2>1. {PosTtl, JwksTtl} \subseteq Int /\ Min({PosTtl, JwksTtl}) = Most /\ Most \in Nat
    BY LeastOf, GateAssumption DEF Most
  <2>2. Min({Most, life[t]}) = IF Most <= life[t] THEN Most ELSE life[t] BY <1>1, <2>1, LeastOf
  <2>3. AcceptTtl(t) = IF life[t] = Long THEN Most ELSE Min({Most, life[t]}) BY <2>1 DEF AcceptTtl
  <2> QED BY <1>1, <2>1, <2>2, <2>3 DEF Lasts
<1>3. CASE Kind[t] = "good" /\ life[t] > 0
  <2>1. Accepts(c, t) BY <1>3 DEF Judge
  <2>2. CASE AcceptTtl(t) > 0
    <3>1. [token |-> t, left |-> AcceptTtl(t)] \in Welcome
      <4>1. gone[KeyOf[t]] + AcceptTtl(t) <= JwksTtl + Most
        BY <1>1, <1>2, GateAssumption DEF Most
      <4> QED BY <1>2, <1>3, <4>1 DEF Welcome
    <3>2. accepted' = Remember(accepted, t, AcceptTtl(t)) BY <2>1, <2>2 DEF Accepts
    <3> HIDE DEF Welcome
    <3>3. Remember(accepted, t, AcceptTtl(t)) \in Seq(Welcome) BY <3>1, RememberIs DEF GateInv
    <3> QED BY <1>3, <2>1, <3>2, <3>3 DEF Accepts
  <2>3. CASE ~(AcceptTtl(t) > 0) BY <1>3, <2>1, <2>3 DEF Accepts, GateInv
  <2> QED BY <2>2, <2>3
<1>4. CASE ~(Kind[t] = "good" /\ life[t] > 0)
  <2>1. Rejects(c, t) BY <1>4 DEF Judge
  <2>2. Answered(c, "rejected") /\ accepted' = accepted BY <2>1 DEF Rejects
  <2>3. \A verdict : Answered(c, verdict) => verdict = "rejected"
    <3>1. answers'[c].verdict = "rejected" BY <2>2 DEF Answered, GateInv, GateTypeOK
    <3> QED BY <3>1 DEF Answered, GateInv, GateTypeOK
  <2> QED BY <2>2, <2>3 DEF GateInv
<1> QED BY <1>3, <1>4

\* What an answer does not touch is as it was.
Rest == <<up, published, gone, where, life>>

\* An answer, or a caller that goes on to the key, keeps the callers as they are.
LEMMA CallsTyped ==
    ASSUME GateTypeOK, NEW c \in Bearers, UNCHANGED <<gone, life>>,
           DOMAIN keyset' = {"keys", "fresh", "cooling"}, keyset'.fresh \in Nat,
           \/ \E verdict : Answered(c, verdict)
           \/ calls' = [calls EXCEPT ![c].at = "key"] /\ UNCHANGED answers
              /\ calls[c].at \in {"verify", "key"}
    PROVE  GateTypeOK'
<1> DEFINE Call == [at : {"verify", "key"}, token : Tokens]
<1>1. DOMAIN answers' = Bearers BY DEF GateTypeOK, Answered
<1>2. calls' \in [Bearers -> {Idle} \cup Call]
  <2>1. CASE \E verdict : Answered(c, verdict) BY <2>1 DEF GateTypeOK, Answered
  <2>2. CASE calls' = [calls EXCEPT ![c].at = "key"] /\ calls[c].at \in {"verify", "key"}
    <3>1. calls[c] \in Call BY <2>2 DEF GateTypeOK, Idle
    <3>2. [calls[c] EXCEPT !.at = "key"] \in Call BY <3>1
    <3> QED BY <2>2, <3>2 DEF GateTypeOK
  <2> QED BY <2>1, <2>2
<1> QED BY <1>1, <1>2 DEF GateTypeOK

\* An answer that is no acceptance.
LEMMA NotAccepted ==
    ASSUME GateTypeOK, NEW c \in Bearers, NEW v, Answered(c, v), v # "accepted"
    PROVE  ~Answered(c, "accepted")
<1>1. answers'[c].verdict = v BY DEF Answered, GateTypeOK
<1>2. ASSUME Answered(c, "accepted") PROVE FALSE
  <2>1. answers'[c].verdict = "accepted" BY <1>2 DEF Answered, GateTypeOK
  <2> QED BY <1>1, <2>1
<1> QED BY <1>2

\* The step of a caller: what it remembers is welcome, and an acceptance is due.
Due(c) ==
    Answered(c, "accepted") =>
        LET t == calls[c].token
        IN  Kind[t] = "good" /\ life[t] > 0 /\ gone[KeyOf[t]] <= JwksTtl + Most

\* The caches and the shape decide, or the caller goes on to the key.
LEMMA RecallKeeps ==
    ASSUME GateInv, NEW c \in Bearers, Recall(c)
    PROVE  GateInv' /\ Due(c)
<1> DEFINE t == calls[c].token
<1>0. calls[c].at = "verify" /\ UNCHANGED <<up, published, gone, where, keyset, life>> BY DEF Recall
<1>1. t \in Tokens BY <1>0 DEF GateInv, GateTypeOK, Idle
<1>2. /\ \/ \E verdict : Answered(c, verdict)
         \/ calls' = [calls EXCEPT ![c].at = "key"] /\ UNCHANGED answers
      /\ accepted' = accepted
  <2>1. \/ Answered(c, "rejected") /\ accepted' = accepted
        \/ Answered(c, "accepted") /\ accepted' = accepted
        \/ Rejects(c, t)
        \/ calls' = [calls EXCEPT ![c].at = "key"] /\ UNCHANGED <<answers, accepted>>
    BY DEF Recall
  <2> QED BY <2>1 DEF Rejects
<1>3. GateTypeOK' BY <1>0, <1>2, CallsTyped DEF GateInv, GateTypeOK
<1>4. GateInv' BY <1>0, <1>2, <1>3 DEF GateInv, KeysInv, Welcome, Lasts
<1>5. ASSUME Answered(c, "accepted") PROVE Remembered(accepted, t)
  <2>1. ~Answered(c, "rejected") BY <1>5, NotAccepted DEF GateInv
  <2>2. answers'[c].verdict = "accepted" /\ calls'[c] = Idle
    BY <1>5 DEF Answered, GateInv, GateTypeOK
  <2>3. calls' # [calls EXCEPT ![c].at = "key"]
    <3>1. ASSUME calls' = [calls EXCEPT ![c].at = "key"] PROVE FALSE
      <4>1. calls'[c] = [calls[c] EXCEPT !.at = "key"] BY <3>1 DEF GateInv, GateTypeOK
      <4>2. calls[c] \in [at : {"verify", "key"}, token : Tokens]
        BY <1>0 DEF GateInv, GateTypeOK, Idle
      <4>3. calls'[c].at = "key" BY <4>1, <4>2
      <4> QED BY <2>2, <4>3 DEF Idle
    <3> QED BY <3>1
  <2> QED BY <2>1, <2>3 DEF Recall, Rejects
<1>6. ASSUME Remembered(accepted, t)
      PROVE  Kind[t] = "good" /\ life[t] > 0 /\ gone[KeyOf[t]] <= JwksTtl + Most
  <2>1. PICK i \in DOMAIN accepted : accepted[i].token = t /\ accepted[i].left > 0
    BY <1>6 DEF Remembered
  <2>2. accepted[i] \in Welcome BY <2>1 DEF GateInv
  <2>3. /\ accepted[i].left \in Nat /\ Kind[t] = "good" /\ Lasts(t, accepted[i].left)
        /\ gone[KeyOf[t]] + accepted[i].left <= JwksTtl + Most
    BY <2>1, <2>2 DEF Welcome
  <2>4. life[t] \in Nat /\ gone[KeyOf[t]] \in Nat /\ Long \in Nat \ {0}
    BY <1>1, GateAssumption DEF GateInv, GateTypeOK
  <2>5. JwksTtl + Most \in Nat BY GateAssumption DEF Most
  <2> QED BY <2>1, <2>3, <2>4, <2>5 DEF Lasts
<1> QED BY <1>4, <1>5, <1>6 DEF Due

\* A token is judged under the key set there is.
LEMMA KnownKeyKeeps ==
    ASSUME GateInv, NEW c \in Bearers, KnownKey(c)
    PROVE  GateInv' /\ Due(c)
<1> DEFINE t == calls[c].token
<1>0. calls[c].at = "key" /\ UNCHANGED <<up, published, gone, where, keyset, life>> BY DEF KnownKey
<1>1. t \in Tokens /\ KeyOf[t] \in KeyIds BY <1>0, GateAssumption DEF GateInv, GateTypeOK, Idle
<1>2. CASE KeyOf[t] \in keyset.keys
  <2>1. Judge(c, t) BY <1>2 DEF KnownKey
  <2>2. gone[KeyOf[t]] <= JwksTtl
    <3>1. keyset.fresh \in Nat /\ keyset.fresh > 0 BY DEF KnownKey, NeedsFetch, GateInv, GateTypeOK
    <3>2. gone[KeyOf[t]] + keyset.fresh <= JwksTtl BY <1>1, <1>2, <3>1 DEF GateInv, KeysInv
    <3>3. gone[KeyOf[t]] \in Nat BY <1>1 DEF GateInv, GateTypeOK
    <3> QED BY <3>1, <3>2, <3>3, GateAssumption
  <2> HIDE DEF t
  <2>3. accepted' \in Seq(Welcome) /\ (\E verdict : Answered(c, verdict))
        /\ \A verdict : Answered(c, verdict) /\ verdict = "accepted" => Kind[t] = "good" /\ life[t] > 0
    BY <1>1, <2>1, <2>2, JudgeKeeps
  <2>4. GateTypeOK' BY <1>0, <2>3, CallsTyped DEF GateInv, GateTypeOK
  <2>5. Welcome' = Welcome BY <1>0 DEF Welcome, Lasts
  <2>6. gone[KeyOf[t]] <= JwksTtl + Most
    <3>1. gone[KeyOf[t]] \in Nat /\ Most \in Nat /\ JwksTtl \in Nat
      BY <1>1, GateAssumption DEF GateInv, GateTypeOK, Most
    <3> QED BY <2>2, <3>1
  <2> QED BY <1>0, <2>3, <2>4, <2>5, <2>6 DEF GateInv, KeysInv, Due, t
<1>3. CASE KeyOf[t] \notin keyset.keys
  <2>1. Unavailable(c, t) BY <1>3 DEF KnownKey
  <2>2. Answered(c, "unavailable") /\ accepted' = accepted BY <2>1 DEF Unavailable
  <2>3. GateTypeOK' BY <1>0, <2>2, CallsTyped DEF GateInv, GateTypeOK
  <2>4. ~Answered(c, "accepted") BY <2>2, NotAccepted DEF GateInv
  <2> QED BY <1>0, <2>2, <2>3, <2>4 DEF GateInv, KeysInv, Due, Welcome, Lasts
<1> QED BY <1>2, <1>3

\* A token is judged under a key set fetched for it.
LEMMA FetchKeeps ==
    ASSUME GateInv, NEW c \in Bearers, Fetch(c)
    PROVE  GateInv' /\ Due(c)
<1> DEFINE t == calls[c].token
<1>0. calls[c].at = "key" /\ UNCHANGED <<up, published, gone, where, life>> BY DEF Fetch
<1>1. t \in Tokens /\ KeyOf[t] \in KeyIds BY <1>0, GateAssumption DEF GateInv, GateTypeOK, Idle
<1>2. Welcome' = Welcome BY <1>0 DEF Welcome, Lasts
<1>3. JwksTtl \in Nat /\ Most \in Nat BY GateAssumption DEF Most
<1>4. DOMAIN keyset' = {"keys", "fresh", "cooling"} /\ keyset'.fresh \in Nat
  BY <1>3 DEF Fetch, GateInv, GateTypeOK
<1>5. KeysInv'
  <2>1. CASE up /\ where = "right"
    <3>1. keyset' = [keys |-> published, fresh |-> JwksTtl, cooling |-> KeysCooldown]
      BY <2>1 DEF Fetch
    <3> QED BY <1>0, <1>3, <3>1 DEF GateInv, KeysInv
  <2>2. CASE ~(up /\ where = "right")
    <3>1. keyset' = keyset BY <2>2 DEF Fetch
    <3> QED BY <1>0, <3>1 DEF GateInv, KeysInv
  <2> QED BY <2>1, <2>2
<1>6. CASE up /\ where = "right" /\ KeyOf[t] \in published
  <2>1. Judge(c, t) BY <1>6 DEF Fetch
  <2>2. gone[KeyOf[t]] = 0 BY <1>1, <1>6 DEF GateInv, KeysInv
  <2> HIDE DEF t
  <2>3. accepted' \in Seq(Welcome) /\ (\E verdict : Answered(c, verdict))
        /\ \A verdict : Answered(c, verdict) /\ verdict = "accepted" => Kind[t] = "good" /\ life[t] > 0
    BY <1>1, <1>3, <2>1, <2>2, JudgeKeeps
  <2>4. GateTypeOK' BY <1>0, <1>4, <2>3, CallsTyped DEF GateInv
  <2>5. gone[KeyOf[t]] <= JwksTtl + Most BY <1>3, <2>2
  <2> QED BY <1>2, <1>5, <2>3, <2>4, <2>5 DEF GateInv, Due, t
<1>7. CASE ~(up /\ where = "right" /\ KeyOf[t] \in published)
  <2>1. Unavailable(c, t) BY <1>7 DEF Fetch
  <2>2. Answered(c, "unavailable") /\ accepted' = accepted BY <2>1 DEF Unavailable
  <2>3. GateTypeOK' BY <1>0, <1>4, <2>2, CallsTyped DEF GateInv
  <2>4. ~Answered(c, "accepted") BY <2>2, NotAccepted DEF GateInv
  <2> QED BY <1>2, <1>5, <2>2, <2>3, <2>4 DEF GateInv, Due
<1> QED BY <1>6, <1>7

\* A bearer arrives.
LEMMA PresentKeeps ==
    ASSUME GateInv, NEW c \in Bearers, NEW t \in Tokens, Present(c, t)
    PROVE  GateInv'
<1>1. GateTypeOK' BY DEF GateInv, GateTypeOK, Present
<1> QED BY <1>1 DEF GateInv, KeysInv, Present, Welcome, Lasts

\* The server goes or comes back, or the keys' place is found out.
LEMMA ElsewhereKeeps == ASSUME GateInv, Outage \/ Resolve PROVE GateInv'
<1>1. GateTypeOK' BY DEF GateInv, GateTypeOK, Outage, Resolve
<1> QED BY <1>1 DEF GateInv, KeysInv, Outage, Resolve, Welcome, Lasts

\* A key is published, or pulled.
LEMMA RotateKeeps == ASSUME GateInv, NEW k \in KeyIds, Rotate(k) PROVE GateInv'
<1>1. gone' = [gone EXCEPT ![k] = 0] /\ UNCHANGED <<keyset, accepted, life>> BY DEF Rotate
<1>2. GateTypeOK' BY <1>1 DEF GateInv, GateTypeOK, Rotate
<1>3. \A j \in KeyIds : gone'[j] \in Nat /\ gone[j] \in Nat /\ gone'[j] <= gone[j]
  BY <1>1 DEF GateInv, GateTypeOK
<1>4. accepted \in Seq(Welcome') BY <1>1, <1>2, <1>3, StillWelcome DEF GateInv
<1>5. KeysInv'
  <2>1. \A j \in KeyIds : j \in published' => gone'[j] = 0
    BY <1>1 DEF GateInv, GateTypeOK, KeysInv, Rotate
  <2>2. keyset.fresh \in Nat BY DEF GateInv, GateTypeOK
  <2> QED BY <1>1, <1>3, <2>1, <2>2, GateAssumption DEF GateInv, KeysInv
<1> QED BY <1>1, <1>2, <1>4, <1>5 DEF GateInv

\* Time passes: what is left of an entry shrinks as its key's absence grows.
LEMMA TickKeeps == ASSUME GateInv, GateTick PROVE GateInv'
<1> DEFINE cap == JwksTtl + PosTtl + 1
<1>1. /\ life' = [t \in Tokens |-> IF life[t] = Long THEN Long ELSE Down1(life[t])]
      /\ gone' = [k \in KeyIds |-> IF k \in published THEN 0 ELSE Min({gone[k] + 1, cap})]
      /\ keyset' = [keyset EXCEPT !.fresh = Down1(@), !.cooling = Down1(@)]
      /\ accepted' = [i \in DOMAIN accepted |-> [accepted[i] EXCEPT !.left = Down1(@)]]
      /\ UNCHANGED <<published, calls, answers>>
  BY DEF GateTick
<1>2. cap \in Nat /\ Long \in Nat /\ JwksTtl \in Nat /\ Most \in Nat BY GateAssumption DEF Most
<1>3. \A k \in KeyIds : /\ gone'[k] \in Nat /\ gone'[k] <= gone[k] + 1
                        /\ k \in published => gone'[k] = 0
  <2> SUFFICES ASSUME NEW k \in KeyIds
               PROVE  gone'[k] \in Nat /\ gone'[k] <= gone[k] + 1 /\ (k \in published => gone'[k] = 0)
    OBVIOUS
  <2>1. gone[k] \in Nat BY DEF GateInv, GateTypeOK
  <2>2. Min({gone[k] + 1, cap}) = IF gone[k] + 1 <= cap THEN gone[k] + 1 ELSE cap
    BY <1>2, <2>1, LeastOf
  <2> HIDE DEF cap
  <2> QED BY <1>1, <1>2, <2>1, <2>2
<1>4. \A n \in Nat : Down1(n) \in Nat /\ Down1(n) <= n /\ (n > 0 => Down1(n) = n - 1) BY DEF Down1
<1>5. GateTypeOK'
  <2>1. \A t \in Tokens : life'[t] \in Nat BY <1>1, <1>2, <1>4 DEF GateInv, GateTypeOK
  <2>2. gone' \in [KeyIds -> Nat]
    <3> HIDE DEF cap
    <3>1. DOMAIN gone' = KeyIds BY <1>1
    <3>2. gone' = [k \in KeyIds |-> gone'[k]] BY <1>1
    <3> QED BY <1>3, <3>2
  <2>3. DOMAIN keyset' = {"keys", "fresh", "cooling"} /\ keyset'.fresh = Down1(keyset.fresh)
    BY <1>1 DEF GateInv, GateTypeOK
  <2>4. life' \in [Tokens -> Nat]
    <3>1. life' = [t \in Tokens |-> life'[t]] BY <1>1
    <3> QED BY <2>1, <3>1
  <2> QED BY <1>1, <1>4, <2>2, <2>3, <2>4 DEF GateInv, GateTypeOK
<1>6. KeysInv'
  <2> SUFFICES ASSUME NEW k \in KeyIds, keyset'.fresh > 0, k \in keyset'.keys
               PROVE  gone'[k] + keyset'.fresh <= JwksTtl
    BY <1>1, <1>3 DEF KeysInv
  <2>1. keyset.fresh \in Nat /\ gone[k] \in Nat BY DEF GateInv, GateTypeOK
  <2>2. keyset'.fresh = Down1(keyset.fresh) /\ keyset'.keys = keyset.keys
    BY <1>1 DEF GateInv, GateTypeOK
  <2>3. keyset.fresh > 0 /\ keyset'.fresh = keyset.fresh - 1 BY <2>1, <2>2 DEF Down1
  <2>4. gone[k] + keyset.fresh <= JwksTtl BY <2>2, <2>3 DEF GateInv, KeysInv
  <2>5. gone'[k] \in Nat /\ gone'[k] <= gone[k] + 1 BY <1>3
  <2> QED BY <1>2, <2>1, <2>3, <2>4, <2>5
<1>7. \A e \in Welcome : [e EXCEPT !.left = Down1(@)] \in Welcome'
  <2> SUFFICES ASSUME NEW e \in Welcome PROVE [e EXCEPT !.left = Down1(@)] \in Welcome'
    OBVIOUS
  <2> DEFINE f == [e EXCEPT !.left = Down1(@)]
             n == Down1(e.left)
             k == KeyOf[e.token]
  <2>1. e.token \in Tokens /\ e.left \in Nat /\ k \in KeyIds BY GateAssumption DEF Welcome
  <2>2. f.token = e.token /\ f.left = n /\ f \in [token : Tokens, left : Nat]
    BY <1>4, <2>1 DEF Welcome
  <2>3. ASSUME n > 0
        PROVE  /\ Kind[e.token] = "good" /\ Lasts(e.token, n)'
               /\ gone'[k] + n <= JwksTtl + Most
    <3>1. e.left > 0 /\ n = e.left - 1 BY <2>1, <2>3 DEF Down1
    <3>2. Kind[e.token] = "good" /\ Lasts(e.token, e.left) /\ gone[k] + e.left <= JwksTtl + Most
      BY <3>1 DEF Welcome
    <3>3. gone[k] \in Nat /\ gone'[k] \in Nat /\ gone'[k] <= gone[k] + 1
      BY <1>3, <2>1 DEF GateInv, GateTypeOK
    <3>4. life[e.token] \in Nat BY <2>1 DEF GateInv, GateTypeOK
    <3>5. life'[e.token] = IF life[e.token] = Long THEN Long ELSE Down1(life[e.token]) BY <1>1, <2>1
    <3>6. Lasts(e.token, n)' BY <2>1, <3>1, <3>2, <3>4, <3>5 DEF Lasts, Down1
    <3> HIDE DEF n, k
    <3> QED BY <1>2, <2>1, <3>1, <3>2, <3>3, <3>6
  <2> HIDE DEF f, n
  <2>4. f \in Welcome' BY <2>2, <2>3 DEF Welcome
  <2> QED BY <2>4 DEF f
<1>8. accepted' \in Seq(Welcome')
  <2> DEFINE A == Welcome
             B == Welcome'
  <2>1. accepted \in Seq(A) /\ \A e \in A : [e EXCEPT !.left = Down1(@)] \in B BY <1>7 DEF GateInv
  <2> HIDE DEF A, B
  <2>2. accepted' = [i \in 1..Len(accepted) |-> [accepted[i] EXCEPT !.left = Down1(@)]]
        /\ Len(accepted) \in Nat
    BY <1>1, <2>1
  <2>3. \A i \in 1..Len(accepted) : [accepted[i] EXCEPT !.left = Down1(@)] \in B BY <2>1
  <2>4. accepted' \in Seq(B) BY <2>2, <2>3
  <2> QED BY <2>4 DEF B
<1> QED BY <1>5, <1>6, <1>8 DEF GateInv

\* Nothing is remembered at first.
LEMMA GateInvInit == GateInit => GateInv
<1> SUFFICES ASSUME GateInit PROVE GateInv OBVIOUS
<1>1. GateTypeOK
  <2>1. JwksTtl + PosTtl + 1 \in Nat BY GateAssumption
  <2>2. \A c \in Bearers : calls[c].at = "idle" BY DEF GateInit, Idle
  <2> QED BY <2>1, <2>2, GateAssumption DEF GateInit, GateTypeOK
<1>2. KeysInv BY DEF GateInit, KeysInv
<1>3. accepted \in Seq(Welcome) BY DEF GateInit
<1> QED BY <1>1, <1>2, <1>3 DEF GateInv

\* Every step keeps what is remembered welcome.
LEMMA GateInvStep == GateInv /\ [GateNext]_gateVars => GateInv'
<1> SUFFICES ASSUME GateInv, [GateNext]_gateVars PROVE GateInv' OBVIOUS
<1>1. CASE UNCHANGED gateVars
  BY <1>1 DEF gateVars, GateInv, GateTypeOK, KeysInv, Welcome, Lasts
<1>2. CASE GateNext
  BY <1>2, ElsewhereKeeps, TickKeeps, RotateKeeps, RecallKeeps, KnownKeyKeeps, FetchKeeps, PresentKeeps
  DEF GateNext
<1> QED BY <1>1, <1>2

\* What is remembered of good tokens ends before their keys are gone for too long.
THEOREM GateInvHolds == GateSpec => []GateInv
BY GateInvInit, GateInvStep, PTL DEF GateSpec

\* An acceptance is due, whichever caller has it.
LEMMA AcceptedIsDue ==
    ASSUME GateInv, GateNext, NEW c \in Bearers,
           answers[c] = NoAnswer, answers'[c].verdict = "accepted"
    PROVE  LET t == calls[c].token
           IN  /\ Kind[t] = "good" /\ life[t] > 0
               /\ gone[KeyOf[t]] <= JwksTtl + Min({PosTtl, JwksTtl})
<1>1. answers' # answers BY DEF NoAnswer
<1>2. PICK b \in Bearers : Recall(b) \/ KnownKey(b) \/ Fetch(b) \/ \E t \in Tokens : Present(b, t)
  BY <1>1 DEF GateNext, Outage, GateTick, Resolve, Rotate
<1>3. PICK v : Answered(b, v)
  <2>1. \A t \in Tokens : ~Present(b, t)
    <3>1. ASSUME NEW t \in Tokens, Present(b, t) PROVE FALSE
      <4>1. answers' = [answers EXCEPT ![b] = NoAnswer] BY <3>1 DEF Present
      <4>2. answers'[c] = NoAnswer BY <4>1 DEF GateInv, GateTypeOK
      <4> QED BY <4>2 DEF NoAnswer
    <3> QED BY <3>1
  <2>2. (\E t : Judge(b, t)) => \E v : Answered(b, v) BY DEF Judge, Accepts, Rejects
  <2>3. (\E t : Unavailable(b, t)) => \E v : Answered(b, v) BY DEF Unavailable
  <2>4. (\E t : Rejects(b, t)) => \E v : Answered(b, v) BY DEF Rejects
  <2>5. KnownKey(b) \/ Fetch(b) => \E v : Answered(b, v) BY <2>2, <2>3 DEF KnownKey, Fetch
  <2>6. Recall(b) => \E v : Answered(b, v) BY <1>1, <2>4 DEF Recall
  <2> QED BY <1>2, <2>1, <2>5, <2>6
<1>4. b = c BY <1>3 DEF Answered, GateInv, GateTypeOK, NoAnswer
<1>5. v = "accepted" BY <1>3, <1>4 DEF Answered, GateInv, GateTypeOK
<1>6. \A t \in Tokens : ~Present(b, t)
  BY <1>3, <1>4, <1>5 DEF Present, Answered, GateInv, GateTypeOK, NoAnswer
<1>7. Due(c) BY <1>2, <1>4, <1>6, RecallKeeps, KnownKeyKeeps, FetchKeeps
<1>8. Min({PosTtl, JwksTtl}) = Most BY LeastOf, GateAssumption DEF Most
<1> QED BY <1>3, <1>4, <1>5, <1>7, <1>8 DEF Due

\* Whoever is let in holds a good token that has not ended, with a key that was
\* published within the time of a key set and of one acceptance (auth.ts:423-429).
THEOREM PulledKeysLapseHolds == GateSpec => PulledKeysLapse
<1>1. GateInv /\ [GateNext]_gateVars =>
        [\A c \in Bearers : answers[c] = NoAnswer /\ answers'[c].verdict = "accepted" =>
            LET t == calls[c].token
            IN  /\ Kind[t] = "good" /\ life[t] > 0
                /\ gone[KeyOf[t]] <= JwksTtl + Min({PosTtl, JwksTtl})]_gateVars
  BY AcceptedIsDue
<1> QED BY <1>1, GateInvHolds, PTL DEF GateSpec, PulledKeysLapse

-----------------------------------------------------------------------------
(* Door. *)

Stages == 0..4
ClientStates == {"away", "idle", "gate", "work", "ready"}
ChainRecs == [st : {"off", "boot", "probe"}, open : BOOLEAN, left : Nat]
Verdicts == [of : Chains \cup {NoOne}, ok : BOOLEAN, age : Nat]

DoorTyped ==
    /\ awake \in BOOLEAN /\ verified \in BOOLEAN
    /\ wrong \subseteq {"schema", "governance", "audience", "space"}
    /\ attempt \in [Askers -> Stages]
    /\ memo \in Askers \cup {NoOne}
    /\ awaits \in [Askers -> Askers \cup {NoOne}]
    /\ client \in [Clients -> ClientStates]
    /\ chain \in [Chains -> ChainRecs]
    /\ entry \in Verdicts

\* What an attempt has seen pass stays right, so a verified door has nothing
\* wrong; and only a verified door works, probes or has a green verdict.
Verification ==
    /\ \A x \in Askers, i \in 1..4 : i < attempt[x] => BootChecks[i] \notin wrong
    /\ verified => wrong = {}
    /\ \A c \in Clients : client[c] = "work" => verified
    /\ \A k \in Chains : chain[k].st = "probe" => verified
    /\ entry.ok = TRUE => verified

DoorInv == DoorTyped /\ Verification /\ OneAttempt

\* The four checks by name.
LEMMA FourChecks ==
    /\ Retried = BootChecks /\ Len(Retried) = 4 /\ Len(BootChecks) = 4
    /\ BootChecks[1] = "schema" /\ BootChecks[2] = "governance"
    /\ BootChecks[3] = "audience" /\ BootChecks[4] = "space"
BY DEF Retried, BootChecks

\* A boot that passed, or deferred, its checks.
LEMMA DoorInvInit == DoorInit => DoorInv
<1> SUFFICES ASSUME DoorInit PROVE DoorInv OBVIOUS
<1>1. \A i \in 1..Len(BootChecks) : BootChecks[i] \in {"schema", "governance", "audience", "space"}
  BY FourChecks
<1>2. wrong \subseteq {"schema", "governance", "audience", "space"}
  <2>1. wrong = {} \/ \E i \in 1..Len(BootChecks) : wrong = {BootChecks[i]} BY DEF DoorInit
  <2> QED BY <1>1, <2>1
<1>3. DoorTyped
  <2>1. NoChain \in ChainRecs BY DEF NoChain, ChainRecs
  <2>2. Nothing \in Verdicts BY DoorAssumption DEF Nothing, Verdicts
  <2> QED BY <1>2, <2>1, <2>2 DEF DoorInit, DoorTyped, Stages, ClientStates, Askers
<1>4. Verification BY DEF DoorInit, Verification, Askers, NoChain, Nothing, Stages
<1>5. OneAttempt BY DoorAssumption DEF DoorInit, OneAttempt, Askers, NoChain
<1> QED BY <1>3, <1>4, <1>5 DEF DoorInv

\* A step that starts no attempt and ends none.
LEMMA QuietStep ==
    ASSUME DoorInv, DoorTyped', UNCHANGED <<attempt, memo, verified>>, wrong' \in {wrong, {}},
           \A c \in Clients : client'[c] = "work" => client[c] = "work" \/ verified,
           \A c \in Clients : client'[c] = "gate" => client[c] = "gate" /\ awaits'[c] = awaits[c],
           \A k \in Chains : chain'[k].st = "probe" => chain[k].st = "probe" \/ verified,
           \A k \in Chains : chain'[k].st = "boot" => chain[k].st = "boot" /\ awaits'[k] = awaits[k],
           entry'.ok = TRUE => entry.ok = TRUE \/ verified
    PROVE  DoorInv'
<1>1. Verification' BY DEF DoorInv, Verification
<1>2. OneAttempt' BY DEF DoorInv, OneAttempt
<1> QED BY <1>1, <1>2 DEF DoorInv

\* The clients freed by a verdict were waiting on /ready.
LEMMA ToldAreClients ==
    ASSUME NEW ks
    PROVE  Told(ks) \subseteq Clients /\ (\A c \in Told(ks) : client[c] = "ready")
BY DEF Told

\* A settled verdict is green only if the work said so.
LEMMA SettledVerdict ==
    ASSUME DoorTyped, NEW ks, NEW ok \in BOOLEAN
    PROVE  /\ Settled(ks, ok) \in Verdicts
           /\ Settled(ks, ok).ok = TRUE =>
                entry.ok = TRUE \/ (ok = TRUE /\ Unsettled(ks) # {})
BY DEF Settled, DoorTyped, Verdicts, Unsettled

-----------------------------------------------------------------------------
(* The boot checks. *)

\* A check that passes narrows what can be wrong; the last one verifies.
LEMMA CheckPassesKeeps ==
    ASSUME DoorInv, NEW x \in Askers, CheckPasses(x)
    PROVE  DoorInv'
<1> USE FourChecks
<1>1. attempt[x] \in 1..4 /\ BootChecks[attempt[x]] \notin wrong /\ UNCHANGED <<awake, wrong>>
  BY DEF CheckPasses, doorStore, DoorInv, DoorTyped, Stages
<1>2. memo = x BY <1>1 DEF DoorInv, OneAttempt
<1>3. CASE NextCheck(x)
  <2>1. attempt[x] < 4 /\ attempt' = [attempt EXCEPT ![x] = attempt[x] + 1]
        /\ UNCHANGED <<verified, memo, awaits, client, chain, entry>>
    BY <1>3 DEF NextCheck
  <2>2. attempt' \in [Askers -> Stages] BY <1>1, <2>1 DEF DoorInv, DoorTyped, Stages
  <2>3. DoorTyped' BY <1>1, <2>1, <2>2 DEF DoorInv, DoorTyped
  <2>4. \A y \in Askers : attempt'[y] = IF y = x THEN attempt[x] + 1 ELSE attempt[y]
    BY <2>1 DEF DoorInv, DoorTyped
  <2>5. \A y \in Askers, i \in 1..4 : i < attempt'[y] => BootChecks[i] \notin wrong'
    <3> SUFFICES ASSUME NEW y \in Askers, NEW i \in 1..4, i < attempt'[y]
                 PROVE  BootChecks[i] \notin wrong
      BY <1>1
    <3>1. CASE y = x /\ i = attempt[x] BY <1>1, <3>1
    <3>2. CASE ~(y = x /\ i = attempt[x])
      <4>1. i < attempt[y] BY <1>1, <2>4, <3>2
      <4> QED BY <4>1 DEF DoorInv, Verification
    <3> QED BY <3>1, <3>2
  <2>6. Verification' BY <1>1, <2>1, <2>5 DEF DoorInv, Verification
  <2>7. OneAttempt' BY <1>1, <1>2, <2>1, <2>4 DEF DoorInv, OneAttempt
  <2> QED BY <2>3, <2>6, <2>7 DEF DoorInv
<1>4. CASE Verify(x)
  <2>1. attempt[x] = 4 /\ attempt' = [attempt EXCEPT ![x] = 0] /\ memo' = NoOne /\ verified' = TRUE
        /\ awaits' = Freed(x, {})
        /\ client' = [c \in Clients |-> IF c \in AwaitsBoot(x) THEN "work" ELSE client[c]]
        /\ chain' = [k \in Chains |-> IF k \in AwaitsBoot(x) THEN [chain[k] EXCEPT !.st = "probe"]
                                                          ELSE chain[k]]
        /\ UNCHANGED entry
    BY <1>4 DEF Verify
  <2>2. wrong = {}
    <3>1. \A i \in 1..4 : BootChecks[i] \notin wrong BY <1>1, <2>1 DEF DoorInv, Verification
    <3> QED BY <3>1 DEF DoorInv, DoorTyped
  <2>3. attempt' \in [Askers -> Stages]
        /\ \A y \in Askers : attempt'[y] = IF y = x THEN 0 ELSE attempt[y]
    BY <2>1 DEF DoorInv, DoorTyped, Stages
  <2>4. \A k \in Chains : chain'[k] \in ChainRecs
                          /\ (chain'[k].st = "boot" => k \notin AwaitsBoot(x) /\ chain[k].st = "boot")
    <3>1. \A k \in Chains : chain[k] \in ChainRecs BY DEF DoorInv, DoorTyped
    <3> QED BY <2>1, <3>1 DEF ChainRecs
  <2>5. DoorTyped'
    <3>1. awaits' \in [Askers -> Askers \cup {NoOne}] BY <2>1 DEF Freed, DoorInv, DoorTyped
    <3>2. client' \in [Clients -> ClientStates] BY <2>1 DEF DoorInv, DoorTyped, ClientStates
    <3>3. chain' \in [Chains -> ChainRecs] BY <2>1, <2>4
    <3> QED BY <1>1, <2>1, <2>3, <3>1, <3>2, <3>3 DEF DoorInv, DoorTyped
  <2>6. Verification' BY <1>1, <2>1, <2>2 DEF Verification
  <2>7. OneAttempt'
    <3>1. \A y \in Askers : attempt'[y] = 0
      BY <1>2, <2>3 DEF DoorInv, OneAttempt, DoorTyped, Stages
    <3>2. \A y \in Askers : y # NoOne BY DoorAssumption DEF Askers
    <3>3. \A c \in Clients : client'[c] # "gate"
      BY <1>2, <2>1 DEF AwaitsBoot, DoorInv, OneAttempt
    <3>4. \A k \in Chains : chain'[k].st # "boot"
      BY <1>2, <2>4 DEF AwaitsBoot, DoorInv, OneAttempt
    <3> QED BY <2>1, <3>1, <3>2, <3>3, <3>4 DEF OneAttempt
  <2> QED BY <2>5, <2>6, <2>7 DEF DoorInv
<1> QED BY <1>3, <1>4 DEF CheckPasses

\* A failed attempt frees all who awaited it, and the memo.
LEMMA CheckFailsKeeps ==
    ASSUME DoorInv, NEW x \in Askers, CheckFails(x)
    PROVE  DoorInv'
<1> DEFINE told == Told(AwaitsBoot(x))
           refused == AwaitsBoot(x) \cap Clients
<1>1. /\ attempt[x] # 0
      /\ attempt' = [attempt EXCEPT ![x] = 0] /\ memo' = NoOne
      /\ awaits' = Freed(x, told)
      /\ client' = [c \in Clients |-> IF c \in refused \cup told THEN "idle" ELSE client[c]]
      /\ entry' = Settled(AwaitsBoot(x), FALSE)
      /\ chain' = [k \in Chains |-> IF k \in AwaitsBoot(x) THEN NoChain ELSE chain[k]]
      /\ UNCHANGED <<awake, wrong, verified>>
  BY DEF CheckFails, AfterCheck, doorStore
<1>2. memo = x BY <1>1 DEF DoorInv, OneAttempt
<1>3. attempt' \in [Askers -> Stages]
      /\ \A y \in Askers : attempt'[y] = IF y = x THEN 0 ELSE attempt[y]
  BY <1>1 DEF DoorInv, DoorTyped, Stages
<1>4. \A k \in Chains : chain'[k] \in ChainRecs
                        /\ (chain'[k].st # "off" => k \notin AwaitsBoot(x) /\ chain'[k] = chain[k])
  BY <1>1 DEF NoChain, ChainRecs, DoorInv, DoorTyped
<1>5. entry' \in Verdicts /\ (entry'.ok = TRUE => entry.ok = TRUE)
  BY <1>1, SettledVerdict DEF DoorInv
<1>6. DoorTyped'
  <2>1. awaits' \in [Askers -> Askers \cup {NoOne}] BY <1>1 DEF Freed, DoorInv, DoorTyped
  <2>2. client' \in [Clients -> ClientStates] BY <1>1 DEF DoorInv, DoorTyped, ClientStates
  <2>3. chain' \in [Chains -> ChainRecs] BY <1>1, <1>4
  <2> QED BY <1>1, <1>3, <1>5, <2>1, <2>2, <2>3 DEF DoorInv, DoorTyped
<1>7. Verification'
  <2>1. \A y \in Askers, i \in 1..4 : i < attempt'[y] => BootChecks[i] \notin wrong'
    BY <1>1, <1>3 DEF DoorInv, Verification
  <2>2. \A c \in Clients : client'[c] = "work" => client[c] = "work" BY <1>1
  <2> QED BY <1>1, <1>4, <1>5, <2>1, <2>2 DEF DoorInv, Verification
<1>8. OneAttempt'
  <2>1. \A y \in Askers : attempt'[y] = 0
    BY <1>2, <1>3 DEF DoorInv, OneAttempt, DoorTyped, Stages
  <2>2. \A y \in Askers : y # NoOne BY DoorAssumption DEF Askers
  <2>3. \A c \in Clients : client'[c] # "gate"
    BY <1>1, <1>2 DEF AwaitsBoot, DoorInv, OneAttempt
  <2>4. \A k \in Chains : chain'[k].st # "boot"
    BY <1>2, <1>4 DEF AwaitsBoot, DoorInv, OneAttempt
  <2> QED BY <1>1, <2>1, <2>2, <2>3, <2>4 DEF OneAttempt
<1> QED BY <1>6, <1>7, <1>8 DEF DoorInv

-----------------------------------------------------------------------------
(* Requests. *)

\* A request starts the attempt or joins the one under way.
LEMMA RequestKeeps ==
    ASSUME DoorInv, NEW c \in Clients, Request(c)
    PROVE  DoorInv'
<1>1. UNCHANGED <<awake, wrong, chain, entry>> /\ c \in Askers
  BY DEF Request, doorStore, probes, Askers
<1>2. CASE verified /\ client' = [client EXCEPT ![c] = "work"] /\ UNCHANGED <<boot, awaits>>
  <2>1. DoorTyped' BY <1>1, <1>2 DEF DoorInv, DoorTyped, boot, ClientStates
  <2> QED BY <1>1, <1>2, <2>1, QuietStep DEF DoorInv, DoorTyped, boot
<1>3. CASE client' = [client EXCEPT ![c] = "gate"] /\ VerifyBoot(c)
  <2>1. UNCHANGED verified BY <1>3 DEF VerifyBoot
  <2>2. \A d \in Clients : client'[d] = IF d = c THEN "gate" ELSE client[d]
    BY <1>3 DEF DoorInv, DoorTyped
  <2>3. client' \in [Clients -> ClientStates] BY <1>3 DEF DoorInv, DoorTyped, ClientStates
  <2>4. CASE StartAttempt(c)
    <3>1. memo = NoOne /\ memo' = c /\ attempt' = [attempt EXCEPT ![c] = 1]
          /\ awaits' = [awaits EXCEPT ![c] = c]
      BY <2>4 DEF StartAttempt, UnderWay
    <3>2. DoorTyped' BY <1>1, <2>1, <2>3, <3>1 DEF DoorInv, DoorTyped, Stages
    <3>3. \A y \in Askers : attempt'[y] = (IF y = c THEN 1 ELSE attempt[y])
                             /\ awaits'[y] = (IF y = c THEN c ELSE awaits[y])
      BY <3>1 DEF DoorInv, DoorTyped
    <3>4. Verification' BY <1>1, <2>1, <2>2, <3>3 DEF DoorInv, Verification
    <3>5. \A y \in Askers : attempt[y] = 0 BY <3>1, DoorAssumption DEF DoorInv, OneAttempt, Askers
    <3>6. \A d \in Clients : client[d] # "gate" BY <3>1 DEF DoorInv, OneAttempt
    <3>7. \A k \in Chains : chain[k].st # "boot" BY <3>1 DEF DoorInv, OneAttempt
    <3>8. OneAttempt'
      BY <1>1, <2>2, <3>1, <3>3, <3>5, <3>6, <3>7, DoorAssumption DEF OneAttempt, Askers
    <3> QED BY <3>2, <3>4, <3>8 DEF DoorInv
  <2>5. CASE ShareAttempt(c)
    <3>1. memo # NoOne /\ awaits' = [awaits EXCEPT ![c] = memo] /\ UNCHANGED <<attempt, memo>>
      BY <2>5 DEF ShareAttempt, UnderWay
    <3>2. DoorTyped' BY <1>1, <2>1, <2>3, <3>1 DEF DoorInv, DoorTyped
    <3>3. \A y \in Askers : awaits'[y] = IF y = c THEN memo ELSE awaits[y]
      BY <3>1 DEF DoorInv, DoorTyped
    <3>4. Verification' BY <1>1, <2>1, <2>2, <3>1 DEF DoorInv, Verification
    <3>5. OneAttempt'
      BY <1>1, <2>2, <3>1, <3>3, DoorAssumption DEF DoorInv, OneAttempt, Askers
    <3> QED BY <3>2, <3>4, <3>5 DEF DoorInv
  <2> QED BY <1>3, <2>4, <2>5 DEF VerifyBoot
<1> QED BY <1>2, <1>3 DEF Request

\* Every other step of a client that touches only its connection.
LEMMA ConnectionKeeps ==
    ASSUME DoorInv, NEW c \in Clients, Busy(c) \/ Answer(c) \/ Disconnect(c) \/ AskCached(c)
    PROVE  DoorInv'
<1>1. /\ \E s \in {"idle", "away"} : client' = [client EXCEPT ![c] = s]
      /\ UNCHANGED <<awake, wrong, verified, attempt, memo, awaits, chain, entry>>
  BY DEF Busy, Answer, Disconnect, AskCached, doorStore, boot, probes
<1>2. DoorTyped' BY <1>1 DEF DoorInv, DoorTyped, ClientStates
<1> QED BY <1>1, <1>2, QuietStep DEF DoorInv, DoorTyped

-----------------------------------------------------------------------------
(* Readiness. *)

\* Joining a probe in flight.
LEMMA AskSharedKeeps ==
    ASSUME DoorInv, NEW c \in Clients, AskShared(c)
    PROVE  DoorInv'
<1>1. /\ client' = [client EXCEPT ![c] = "ready"] /\ awaits' = [awaits EXCEPT ![c] = entry.of]
      /\ UNCHANGED <<awake, wrong, verified, attempt, memo, chain, entry>>
  BY DEF AskShared, doorStore, boot, probes
<1>2. entry.of \in Askers \cup {NoOne} BY DEF DoorInv, DoorTyped, Verdicts, Askers
<1>3. DoorTyped' BY <1>1, <1>2 DEF DoorInv, DoorTyped, ClientStates
<1>4. \A d \in Clients : d # c => awaits'[d] = awaits[d] /\ client'[d] = client[d]
  BY <1>1 DEF DoorInv, DoorTyped, Askers
<1>5. client'[c] = "ready" BY <1>1 DEF DoorInv, DoorTyped
<1>6. \A k \in Chains : awaits'[k] = awaits[k]
  BY <1>1, DoorAssumption DEF DoorInv, DoorTyped, Askers
<1> QED BY <1>1, <1>3, <1>4, <1>5, <1>6, QuietStep

\* A new probe goes straight on only when verified.
LEMMA AskNewKeeps ==
    ASSUME DoorInv, NEW c \in Clients, AskNew(c)
    PROVE  DoorInv'
<1>1. PICK k \in Chains :
        /\ chain[k].st = "off"
        /\ entry' = [of |-> k, ok |-> FALSE, age |-> 0]
        /\ client' = [client EXCEPT ![c] = "ready"]
        /\ \/ /\ verified
              /\ chain' = [chain EXCEPT ![k] = [st |-> "probe", open |-> TRUE, left |-> ProbeDeadline]]
              /\ awaits' = [awaits EXCEPT ![c] = k]
              /\ UNCHANGED boot
           \/ /\ chain' = [chain EXCEPT ![k] = [st |-> "boot", open |-> TRUE, left |-> ProbeDeadline]]
              /\ UNCHANGED verified
              /\ \/ /\ memo = NoOne
                    /\ attempt' = [attempt EXCEPT ![k] = 1] /\ memo' = k
                    /\ awaits' = [awaits EXCEPT ![c] = k, ![k] = k]
                 \/ /\ memo # NoOne
                    /\ awaits' = [awaits EXCEPT ![c] = k, ![k] = memo]
                    /\ UNCHANGED <<attempt, memo>>
  BY DEF AskNew, ProbeStraightOn, UnderWay
<1>2. UNCHANGED <<awake, wrong>> BY DEF AskNew, doorStore
<1>3. c \in Askers /\ k \in Askers /\ c # k /\ k # NoOne BY DoorAssumption DEF Askers
<1>4. entry' \in Verdicts /\ entry'.ok = FALSE BY <1>1 DEF Verdicts
<1>5. client' \in [Clients -> ClientStates]
      /\ \A d \in Clients : client'[d] = IF d = c THEN "ready" ELSE client[d]
  BY <1>1 DEF DoorInv, DoorTyped, ClientStates
<1>6. \A s \in {"boot", "probe"} : [st |-> s, open |-> TRUE, left |-> ProbeDeadline] \in ChainRecs
  BY DoorAssumption DEF ChainRecs
<1>7. chain' \in [Chains -> ChainRecs] BY <1>1, <1>6 DEF DoorInv, DoorTyped
<1>8. CASE verified
           /\ chain' = [chain EXCEPT ![k] = [st |-> "probe", open |-> TRUE, left |-> ProbeDeadline]]
           /\ awaits' = [awaits EXCEPT ![c] = k]
           /\ UNCHANGED boot
  <2>1. DoorTyped' BY <1>2, <1>3, <1>4, <1>5, <1>7, <1>8 DEF DoorInv, DoorTyped, boot
  <2>2. \A j \in Chains : chain'[j].st = (IF j = k THEN "probe" ELSE chain[j].st)
                          /\ awaits'[j] = awaits[j]
    BY <1>3, <1>8, DoorAssumption DEF DoorInv, DoorTyped, Askers
  <2>3. \A d \in Clients : d # c => awaits'[d] = awaits[d]
    BY <1>8 DEF DoorInv, DoorTyped, Askers
  <2> QED BY <1>2, <1>4, <1>5, <1>8, <2>1, <2>2, <2>3, QuietStep DEF boot
<1>9. CASE /\ chain' = [chain EXCEPT ![k] = [st |-> "boot", open |-> TRUE, left |-> ProbeDeadline]]
           /\ UNCHANGED verified
           /\ memo = NoOne
           /\ attempt' = [attempt EXCEPT ![k] = 1] /\ memo' = k
           /\ awaits' = [awaits EXCEPT ![c] = k, ![k] = k]
  <2>1. DoorTyped' BY <1>2, <1>3, <1>4, <1>5, <1>7, <1>9 DEF DoorInv, DoorTyped, Stages
  <2>2. \A j \in Chains : chain'[j].st = IF j = k THEN "boot" ELSE chain[j].st
    BY <1>9 DEF DoorInv, DoorTyped
  <2>3. \A y \in Askers : attempt'[y] = IF y = k THEN 1 ELSE attempt[y]
    BY <1>9 DEF DoorInv, DoorTyped
  <2>4. awaits'[k] = k BY <1>3, <1>9 DEF DoorInv, DoorTyped
  <2>5. Verification' BY <1>2, <1>4, <1>5, <1>9, <2>2, <2>3 DEF DoorInv, Verification
  <2>6. \A y \in Askers : attempt[y] = 0 BY <1>9, DoorAssumption DEF DoorInv, OneAttempt, Askers
  <2>7. \A d \in Clients : client[d] # "gate" BY <1>9 DEF DoorInv, OneAttempt
  <2>8. \A j \in Chains : chain[j].st # "boot" BY <1>9 DEF DoorInv, OneAttempt
  <2>9. OneAttempt'
    <3>1. memo' = k BY <1>9
    <3>2. \A y \in Askers : attempt'[y] # 0 <=> memo' = y BY <2>3, <2>6, <3>1
    <3>3. \A d \in Clients : client'[d] # "gate" BY <1>5, <2>7
    <3>4. \A j \in Chains : chain'[j].st = "boot" => j = k BY <2>2, <2>8
    <3> QED BY <1>3, <2>4, <3>1, <3>2, <3>3, <3>4 DEF OneAttempt
  <2> QED BY <2>1, <2>5, <2>9 DEF DoorInv
<1>10. CASE /\ chain' = [chain EXCEPT ![k] = [st |-> "boot", open |-> TRUE, left |-> ProbeDeadline]]
            /\ UNCHANGED verified
            /\ memo # NoOne
            /\ awaits' = [awaits EXCEPT ![c] = k, ![k] = memo]
            /\ UNCHANGED <<attempt, memo>>
  <2>1. DoorTyped' BY <1>2, <1>3, <1>4, <1>5, <1>7, <1>10 DEF DoorInv, DoorTyped
  <2>2. \A j \in Chains : chain'[j].st = IF j = k THEN "boot" ELSE chain[j].st
    BY <1>10 DEF DoorInv, DoorTyped
  <2>3. \A y \in Askers : awaits'[y] = IF y = k THEN memo ELSE IF y = c THEN k ELSE awaits[y]
    BY <1>3, <1>10 DEF DoorInv, DoorTyped
  <2>4. Verification' BY <1>2, <1>4, <1>5, <1>10, <2>2 DEF DoorInv, Verification
  <2>5. \A j \in Chains : j # c BY DoorAssumption
  <2>6. \A j \in Chains : chain'[j].st = "boot" => awaits'[j] = memo
    BY <2>2, <2>3, <2>5 DEF DoorInv, OneAttempt, Askers
  <2>7. \A d \in Clients : client'[d] = "gate" => awaits'[d] = memo
    <3>1. \A d \in Clients : d # k BY DoorAssumption
    <3> QED BY <1>5, <2>3, <3>1 DEF DoorInv, OneAttempt, Askers
  <2>8. OneAttempt' BY <1>10, <2>6, <2>7 DEF DoorInv, OneAttempt
  <2> QED BY <2>1, <2>4, <2>8 DEF DoorInv
<1> QED BY <1>1, <1>8, <1>9, <1>10

\* A verdict is given, by the probe or by its deadline.
LEMMA VerdictKeeps ==
    ASSUME DoorInv, NEW k \in Chains, ProbeEnds(k) \/ ProbeGivesUp(k)
    PROVE  DoorInv'
<1> DEFINE told == Told({k})
<1>1. /\ client' = [c \in Clients |-> IF c \in told THEN "idle" ELSE client[c]]
      /\ awaits' = [y \in Askers |-> IF y \in told THEN NoOne ELSE awaits[y]]
      /\ UNCHANGED <<awake, wrong, verified, attempt, memo>>
  BY DEF ProbeEnds, ProbeGivesUp, doorStore, boot
<1>2. told \subseteq Clients /\ \A c \in told : client[c] = "ready" BY ToldAreClients
<1>3. /\ chain' \in [Chains -> ChainRecs]
      /\ \A j \in Chains : chain'[j].st # "off" => chain'[j].st = chain[j].st
  <2>1. CASE ProbeEnds(k)
    <3>1. chain' = [chain EXCEPT ![k] = NoChain] BY <2>1 DEF ProbeEnds
    <3>2. NoChain \in ChainRecs /\ NoChain.st = "off" BY DEF NoChain, ChainRecs
    <3> QED BY <3>1, <3>2 DEF DoorInv, DoorTyped
  <2>2. CASE ProbeGivesUp(k)
    <3>1. chain' = [chain EXCEPT ![k].open = FALSE] BY <2>2 DEF ProbeGivesUp
    <3> QED BY <3>1 DEF DoorInv, DoorTyped, ChainRecs
  <2> QED BY <2>1, <2>2
<1>4. entry' \in Verdicts /\ (entry'.ok = TRUE => entry.ok = TRUE \/ verified)
  <2>1. CASE ProbeEnds(k)
    <3>1. verified BY <2>1 DEF ProbeEnds, DoorInv, Verification
    <3>2. entry' = Settled({k}, awake) BY <2>1 DEF ProbeEnds
    <3>3. entry' \in Verdicts BY <3>2, SettledVerdict DEF DoorInv, DoorTyped
    <3> QED BY <3>1, <3>3
  <2>2. CASE ProbeGivesUp(k)
    <3>1. entry' = Settled({k}, FALSE) BY <2>2 DEF ProbeGivesUp
    <3> QED BY <3>1, SettledVerdict DEF DoorInv
  <2> QED BY <2>1, <2>2
<1>5. DoorTyped'
  <2>1. awaits' \in [Askers -> Askers \cup {NoOne}] BY <1>1 DEF DoorInv, DoorTyped
  <2>2. client' \in [Clients -> ClientStates] BY <1>1 DEF DoorInv, DoorTyped, ClientStates
  <2> QED BY <1>1, <1>3, <1>4, <2>1, <2>2 DEF DoorInv, DoorTyped
<1>6. \A c \in Clients : client'[c] \in {"gate", "work"} => client'[c] = client[c] /\ awaits'[c] = awaits[c]
  BY <1>1, <1>2 DEF Askers
<1>7. \A j \in Chains : awaits'[j] = awaits[j] BY <1>1, <1>2, DoorAssumption DEF Askers
<1> HIDE DEF told
<1> QED BY <1>1, <1>3, <1>4, <1>5, <1>6, <1>7, QuietStep

-----------------------------------------------------------------------------
(* The process and its store. *)

\* The drain, time and the store start no attempt.
LEMMA ProcessKeeps ==
    ASSUME DoorInv, Signal \/ ListenerClosed \/ Stop \/ Exit75 \/ DoorTick \/ StoreSleeps \/ Repair
    PROVE  DoorInv'
<1>1. UNCHANGED <<verified, attempt, memo, awaits>> /\ wrong' \in {wrong, {}} /\ awake' \in BOOLEAN
  BY DEF Signal, ListenerClosed, Stop, Exit75, DoorTick, StoreSleeps, Repair, boot, doorStore, DoorInv, DoorTyped
<1>2. client' \in [Clients -> ClientStates]
      /\ \A c \in Clients : client'[c] \in {"gate", "work"} => client'[c] = client[c]
  BY DEF Signal, ListenerClosed, Stop, Exit75, DoorTick, StoreSleeps, Repair, DoorInv, DoorTyped, ClientStates
<1>3. chain' \in [Chains -> ChainRecs] /\ \A k \in Chains : chain'[k].st = chain[k].st
  <2>1. CASE DoorTick
    <3>1. chain' = [k \in Chains |-> IF chain[k].left > 0 THEN [chain[k] EXCEPT !.left = @ - 1]
                                                          ELSE chain[k]]
      BY <2>1 DEF DoorTick
    <3>2. \A k \in Chains : chain[k] \in ChainRecs BY DEF DoorInv, DoorTyped
    <3> QED BY <3>1, <3>2 DEF ChainRecs
  <2>2. CASE ~DoorTick
    BY <2>2 DEF Signal, ListenerClosed, Stop, Exit75, StoreSleeps, Repair, probes, DoorInv, DoorTyped
  <2> QED BY <2>1, <2>2
<1>4. entry' \in Verdicts /\ entry'.ok = entry.ok
  <2>1. CASE DoorTick
    <3>1. entry' = IF entry.of = NoOne /\ entry.age < TTL THEN [entry EXCEPT !.age = @ + 1] ELSE entry
      BY <2>1 DEF DoorTick
    <3> QED BY <3>1 DEF DoorInv, DoorTyped, Verdicts
  <2>2. CASE ~DoorTick
    BY <2>2 DEF Signal, ListenerClosed, Stop, Exit75, StoreSleeps, Repair, probes, DoorInv, DoorTyped
  <2> QED BY <2>1, <2>2
<1>5. DoorTyped' BY <1>1, <1>2, <1>3, <1>4 DEF DoorInv, DoorTyped
<1> QED BY <1>1, <1>2, <1>3, <1>4, <1>5, QuietStep

\* All steps.
LEMMA DoorInvStep == DoorInv /\ [DoorNext]_doorVars => DoorInv'
<1> SUFFICES ASSUME DoorInv, [DoorNext]_doorVars PROVE DoorInv' OBVIOUS
<1>1. CASE UNCHANGED doorVars
  <2>1. UNCHANGED <<awake, verified, wrong, attempt, memo, awaits, client, chain, entry>> BY <1>1 DEF doorVars
  <2>2. DoorTyped' BY <2>1 DEF DoorInv, DoorTyped
  <2> QED BY <2>1, <2>2, QuietStep
<1>2. CASE DoorNext
  <2>1. ASSUME NEW c \in Clients, Client(c) PROVE DoorInv'
    BY <2>1, RequestKeeps, ConnectionKeeps, AskSharedKeeps, AskNewKeeps DEF Client, Ask
  <2>2. CASE Boot BY <2>2, CheckPassesKeeps, CheckFailsKeeps DEF Boot
  <2>3. CASE Probing BY <2>3, VerdictKeeps DEF Probing
  <2> QED BY <1>2, <2>1, <2>2, <2>3, ProcessKeeps DEF DoorNext
<1> QED BY <1>1, <1>2

\* The boot state (compose.ts:341-377) and what readers of it rely on.
THEOREM DoorInvAlways == DoorSpec => []DoorInv
BY DoorInvInit, DoorInvStep, PTL DEF DoorSpec

-----------------------------------------------------------------------------
(* The drain: once the listener has closed nobody is connected, nobody can    *)
(* connect, and work that ends frees nobody.                                  *)

Drained == DoorTyped /\ CleanStop

\* All steps, for the drain.
LEMMA DrainedStep == Drained /\ DoorTyped' /\ [DoorNext]_doorVars => CleanStop'
<1> SUFFICES ASSUME Drained, DoorTyped', [DoorNext]_doorVars PROVE CleanStop' OBVIOUS
<1> DEFINE Shut == phase \in {"closing", "stopped"}
<1>1. Shut => \A c \in Clients : client[c] = "away" /\ ~CanAsk(c) BY DEF Drained, CleanStop, CanAsk
<1>2. ASSUME NEW c \in Clients, Client(c) PROVE CleanStop'
  <2>1. ~Shut
    BY <1>1, <1>2 DEF Client, Busy, Request, Answer, Disconnect, Ask, AskCached, AskShared,
                      AskNew, drain
  <2>2. UNCHANGED phase
    BY <1>2 DEF Client, Busy, Request, Answer, Disconnect, Ask, AskCached, AskShared, AskNew, drain
  <2> QED BY <2>1, <2>2 DEF CleanStop
<1>3. ASSUME NEW x \in Askers, CheckPasses(x) \/ CheckFails(x) PROVE CleanStop'
  <2>1. phase # "stopped" /\ UNCHANGED phase BY <1>3 DEF CheckPasses, CheckFails, Running, drain
  <2>2. Shut => \A c \in Clients : c \notin AwaitsBoot(x) /\ c \notin Told(AwaitsBoot(x))
    BY <1>1, DoorAssumption DEF AwaitsBoot, Told
  <2>3. Shut => \A c \in Clients : client'[c] = "away"
    BY <1>1, <1>3, <2>2 DEF CheckPasses, NextCheck, Verify, CheckFails
  <2> QED BY <2>1, <2>3 DEF CleanStop
<1>4. ASSUME NEW k \in Chains, ProbeEnds(k) \/ ProbeGivesUp(k) PROVE CleanStop'
  <2>1. phase # "stopped" /\ UNCHANGED phase BY <1>4 DEF ProbeEnds, ProbeGivesUp, Running, drain
  <2>2. Shut => \A c \in Clients : c \notin Told({k}) BY <1>1 DEF Told
  <2>3. Shut => \A c \in Clients : client'[c] = "away" BY <1>1, <1>4, <2>2 DEF ProbeEnds, ProbeGivesUp
  <2> QED BY <2>1, <2>3 DEF CleanStop
<1>5. CASE Signal \/ Exit75 BY <1>5 DEF Signal, Exit75, CleanStop
<1>6. CASE ListenerClosed BY <1>6 DEF ListenerClosed, NoConnection, CleanStop
<1>7. CASE Stop
  <2>1. CheckedOut' = CheckedOut BY <1>7 DEF Stop, CheckedOut, boot, probes
  <2> QED BY <1>7, <2>1 DEF Stop, Drained, CleanStop
<1>8. CASE Running /\ (DoorTick \/ StoreSleeps \/ Repair)
  <2>1. phase # "stopped" /\ UNCHANGED <<phase, client>>
    BY <1>8 DEF Running, DoorTick, StoreSleeps, Repair, drain
  <2> QED BY <2>1 DEF Drained, CleanStop
<1>9. CASE UNCHANGED doorVars
  <2>1. CheckedOut' = CheckedOut BY <1>9 DEF doorVars, CheckedOut
  <2> QED BY <1>9, <2>1 DEF doorVars, Drained, CleanStop
<1>10. DoorTick => Running BY DEF DoorTick
<1> QED BY <1>2, <1>3, <1>4, <1>5, <1>6, <1>7, <1>8, <1>9, <1>10 DEF DoorNext, Boot, Probing

\* The drain (http.ts:739-788): the pool is not torn down under a request, and a clean
\* exit leaves no statement running.
THEOREM StopAlwaysClean == DoorSpec => []CleanStop
<1>1. DoorInit => CleanStop BY DEF DoorInit, CleanStop
<1>2. DoorInv => DoorTyped BY DEF DoorInv
<1>3. DoorTyped /\ CleanStop => Drained BY DEF Drained
<1> QED BY <1>1, <1>2, <1>3, DrainedStep, DoorInvAlways, PTL DEF DoorSpec

\* verifyBoot (compose.ts:359-377): one chain of boot checks at a time, and all
\* who need it await it.
THEOREM OneAttemptAlways == DoorSpec => []OneAttempt
BY DoorInvAlways, PTL DEF DoorInv

\* No answer is computed over a store that a boot check refuses.
THEOREM ServedAlwaysRight == DoorSpec => []ServedWhenRight
<1>1. DoorInv => ServedWhenRight BY DEF DoorInv, Verification, ServedWhenRight
<1> QED BY <1>1, DoorInvAlways, PTL

\* A green /ready means the deferred boot checks have passed (http.ts:309).
THEOREM GreenAlwaysVerified == DoorSpec => []GreenMeansVerified
<1>1. DoorInv => GreenMeansVerified
  BY DEF DoorInv, DoorTyped, Verdicts, Verification, GreenMeansVerified
<1> QED BY <1>1, DoorInvAlways, PTL
=============================================================================
