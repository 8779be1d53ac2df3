---------------------------- MODULE CorpusProofs ----------------------------
(***************************************************************************)
(* What is proved of what is made of a corpus and around it: the vectors   *)
(* of a provider, the project that init makes, the cards of a reader, what *)
(* the abstention gate lets through, the outline of the record, and the    *)
(* rows of an ingest.                                                      *)
(***************************************************************************)
EXTENDS Providers, Scaffold, Study, Abstention, Outline, Passages, Loops, SequenceTheorems

-----------------------------------------------------------------------------
(* Providers: any requests, widths, attempts, and whatever befalls the      *)
(* account while calls are under way.                                      *)

Labels == {"", "query", "document"}
Told == {<<>>} \cup {[i \in DOMAIN texts |-> Vector(texts[i], label)] :
                        texts \in Requests, label \in Labels}
CallRecs ==
    [pc : {"idle", "send", "sent", "sleep", "done", "failed"}, texts : Requests \cup {<<>>},
     n : Nat, via : Nat, heard : Kinds \cup {"none"}, again : Kinds \cup {"none"}, told : Told]

\* A failure that time may mend, for this caller.
MayMend(caller, kind) ==
    kind \in {"lost", "torn", "server", "rate"} /\ (caller \in Searches => kind # "rate")

\* A call: it has an attempt left while it goes on, and goes on only after what
\* time may mend; the client it sleeps on is nobody's to use again.
CallInv(caller) ==
    LET w == work[caller]
    IN  /\ w \in CallRecs /\ w.via <= built /\ w.n <= Attempts(caller)
        /\ w.pc = "idle" => w = Idle
        /\ w.pc # "idle" => vendor # "none" /\ w.texts \in Requests
        /\ w.pc = "send" => w.n < Attempts(caller) /\ (w.n = 0 \/ MayMend(caller, w.heard))
        /\ w.pc = "sent" => 0 < w.n /\ 0 < w.via /\ (w.n = 1 \/ MayMend(caller, w.again))
        /\ w.pc = "sleep" => /\ 0 < w.via /\ client[Of(caller)] # w.via
                             /\ w.n < Attempts(caller) /\ MayMend(caller, w.heard)
        /\ w.pc = "done" => w.told = Exact(caller, w.texts)
        /\ w.pc = "failed" /\ caller = "ingest" /\ w.heard \in {"lost", "server", "rate", "quota"} =>
             Verdict(w.heard) = "stop"

VendorTyped ==
    /\ vendor \in Names \cup {"none"} /\ built \in Nat
    /\ client \in [{"vectors", "text"} -> 0..built]
    /\ work \in [Callers -> CallRecs]

VendorInv == VendorTyped /\ \A c \in Callers : CallInv(c)

\* One caller's call becomes w, with whatever client was in use, none or a new one.
Moves(c, w) ==
    /\ work' = [work EXCEPT ![c] = w] /\ vendor' = vendor /\ built' \in Nat /\ built <= built'
    /\ client' \in [{"vectors", "text"} -> 0..built']
    /\ \A k \in {"vectors", "text"} : client'[k] \in {client[k], 0, built + 1}

\* A caller may try once at least, with the client that is its own.
LEMMA AttemptsAre ==
    ASSUME NEW c \in Callers
    PROVE  Attempts(c) \in Nat /\ Attempts(c) > 0 /\ Of(c) \in {"vectors", "text"}
BY VendorAssumption DEF Attempts, Of

\* What is asked for has its texts in places 1 to n, and there is one at least.
LEMMA RequestIs ==
    ASSUME NEW texts \in Requests
    PROVE  \E n \in Nat \ {0} : DOMAIN texts = 1..n /\ Len(texts) = n
BY VendorAssumption

\* Vectors that come in any order, each with its place, are put in order again.
LEMMA ByIndexSorts ==
    ASSUME NEW n \in Nat, NEW v, DOMAIN v = 1..n, v = [i \in 1..n |-> v[i]],
           NEW items \in Shuffled(v)
    PROVE  ByIndex(items) = v
<1>1. PICK p \in [1..n -> 1..n] :
         IsInjective(p) /\ items = [i \in 1..n |-> [index |-> p[i], vector |-> v[p[i]]]]
  BY DEF Shuffled
<1>2. p \in Injection(1..n, 1..n) BY <1>1 DEF Injection
<1>3. p \in Surjection(1..n, 1..n) BY <1>2, FS_Interval, FS_Injection
<1>4. ASSUME NEW i \in 1..n
      PROVE  LET j == CHOOSE j \in DOMAIN items : items[j].index = i
             IN  j \in 1..n /\ p[j] = i
  <2>1. PICK k \in 1..n : p[k] = i BY <1>3 DEF Surjection
  <2>2. DOMAIN items = 1..n /\ \A j \in 1..n : items[j].index = p[j] BY <1>1
  <2>3. \E j \in DOMAIN items : items[j].index = i BY <2>1, <2>2
  <2> QED BY <2>2, <2>3
<1>5. \A i \in 1..n : items[CHOOSE j \in DOMAIN items : items[j].index = i].vector = v[i]
  <2> SUFFICES ASSUME NEW i \in 1..n
               PROVE  items[CHOOSE j \in DOMAIN items : items[j].index = i].vector = v[i]
    OBVIOUS
  <2> DEFINE j == CHOOSE j \in DOMAIN items : items[j].index = i
  <2>1. j \in 1..n /\ p[j] = i BY <1>4
  <2> HIDE DEF j
  <2>2. items[j].vector = v[p[j]] BY <1>1, <2>1
  <2>3. items[j].vector = v[i] BY <2>1, <2>2
  <2> QED BY <2>3 DEF j
<1>6. DOMAIN items = 1..n BY <1>1
<1> QED BY <1>5, <1>6 DEF ByIndex

\* An answer that is as the contract wants it is what was asked for, in order.
LEMMA AcceptedIsExact ==
    ASSUME NEW c \in Callers, NEW texts \in Requests,
           NEW raw \in Returned(c, texts), Contract(texts, raw)
    PROVE  raw = Exact(c, texts)
<1> DEFINE vectors == Exact(c, texts)
<1>1. PICK n \in Nat \ {0} : DOMAIN texts = 1..n /\ Len(texts) = n BY RequestIs
<1>2. /\ vectors = [i \in 1..n |-> vectors[i]] /\ DOMAIN vectors = 1..n
      /\ \A i \in 1..n : vectors[i] = Vector(texts[i], Label(Name(c), c))
  BY <1>1 DEF Exact
<1>3. Dim \in Nat BY VendorAssumption
<1> HIDE DEF vectors
<1>4. CASE raw \in {ByIndex(s) : s \in Shuffled(vectors)}
  <2>1. PICK s \in Shuffled(vectors) : raw = ByIndex(s) BY <1>4
  <2>2. raw = vectors BY <1>1, <1>2, <2>1, ByIndexSorts
  <2> QED BY <2>2 DEF vectors
<1>5. ~(raw = [vectors EXCEPT ![1].width = Dim + 1])
  <2> SUFFICES ASSUME raw = [vectors EXCEPT ![1].width = Dim + 1] PROVE FALSE OBVIOUS
  <2>1. 1 \in DOMAIN raw /\ raw[1].width = Dim + 1 BY <1>1, <1>2 DEF Vector
  <2> QED BY <1>3, <2>1 DEF Contract
<1>6. ~(raw = [vectors EXCEPT ![1].zero = TRUE])
  <2> SUFFICES ASSUME raw = [vectors EXCEPT ![1].zero = TRUE] PROVE FALSE OBVIOUS
  <2>1. 1 \in DOMAIN raw /\ raw[1].zero = TRUE BY <1>1, <1>2 DEF Vector
  <2> QED BY <2>1 DEF Contract
<1>7. ~(raw = Front(vectors))
  <2>1. Len(vectors) = n /\ vectors \in Seq({vectors[i] : i \in 1..n}) BY <1>1, <1>2
  <2>2. Len(Front(vectors)) = n - 1 BY <1>1, <2>1 DEF Front
  <2> QED BY <1>1, <2>2 DEF Contract
<1>8. CASE raw = vectors BY <1>8 DEF vectors
<1> QED BY <1>4, <1>5, <1>6, <1>7, <1>8 DEF Returned, vectors

\* What is left to retry is what time may mend.
LEMMA RetriesMend ==
    ASSUME NEW c \in Callers, NEW kind \in Kinds, Says(c, kind), MayRetry(c, kind)
    PROVE  MayMend(c, kind)
BY DEF Says, MayRetry, MayMend, IsRetryable, IsRetryableQuery, IsTransportBlip, Status, HttpStatus,
       Kinds, Name, Searches, Callers

\* What the vendor answers for stops the drain of an ingest.
LEMMA VendorsFailuresStop ==
    ASSUME NEW kind \in {"lost", "server", "rate", "quota"}, vendor # "fake",
           Says("ingest", kind)
    PROVE  Verdict(kind) = "stop"
BY DEF Says, Verdict, IsFatal, IsRetryable, IsTransportBlip, Status, HttpStatus, Name

\* A call of which nothing is known yet, and what it may be told.
LEMMA NothingTold ==
    /\ <<>> \in Told
    /\ \A c \in Callers, texts \in Requests : Exact(c, texts) \in Told
<1>1. <<>> \in Told BY DEF Told
<1>2. ASSUME NEW c \in Callers, NEW texts \in Requests PROVE Exact(c, texts) \in Told
  <2> DEFINE label == Label(Name(c), c)
  <2>1. label \in Labels BY DEF Labels, Label
  <2>2. Exact(c, texts) = [i \in DOMAIN texts |-> Vector(texts[i], label)] BY DEF Exact
  <2> HIDE DEF label
  <2> QED BY <2>1, <2>2 DEF Told
<1> QED BY <1>1, <1>2

\* Nothing is under way to begin with.
LEMMA VendorInvInit == VendorInit => VendorInv
<1> SUFFICES ASSUME VendorInit PROVE VendorInv OBVIOUS
<1>1. Idle \in CallRecs BY NothingTold DEF Idle, CallRecs
<1>2. VendorTyped BY <1>1 DEF VendorInit, VendorTyped
<1>3. ASSUME NEW c \in Callers PROVE CallInv(c)
  <2>1. work[c] = Idle /\ Idle.via = 0 /\ Idle.n = 0 /\ Idle.pc = "idle" /\ built = 0
    BY DEF VendorInit, Idle
  <2> QED BY <1>1, <2>1, AttemptsAre DEF CallInv
<1> QED BY <1>2, <1>3 DEF VendorInv

\* What a call is told and how its failure counts depend on the provider alone.
LEMMA SameVendor ==
    ASSUME UNCHANGED vendor, NEW c \in Callers
    PROVE  /\ Exact(c, work[c].texts)' = Exact(c, work'[c].texts)
           /\ Verdict(work[c].heard)' = Verdict(work'[c].heard)
<1>1. Exact(c, work[c].texts)' = Exact(c, work'[c].texts) BY DEF Exact, Name
<1>2. Verdict(work[c].heard)' = Verdict(work'[c].heard)
  BY DEF Verdict, IsFatal, IsRetryable, IsTransportBlip
<1> QED BY <1>1, <1>2

\* A step of one caller's leaves the calls of the others as they were.
LEMMA OthersStand ==
    ASSUME VendorInv, NEW c \in Callers, NEW w, work' = [work EXCEPT ![c] = w],
           UNCHANGED vendor, built' \in Nat, built <= built',
           \A k \in {"vectors", "text"} : client'[k] \in {client[k], 0, built + 1}
    PROVE  \A d \in Callers \ {c} : CallInv(d)'
<1> SUFFICES ASSUME NEW d \in Callers, d # c PROVE CallInv(d)' OBVIOUS
<1>1. work'[d] = work[d] BY DEF VendorInv, VendorTyped
<1>2. work[d] \in CallRecs /\ work[d].via \in Nat /\ work[d].via <= built /\ built \in Nat
  BY DEF VendorInv, VendorTyped, CallInv, CallRecs
<1>3. Of(d) \in {"vectors", "text"} BY DEF Of
<1>4. 0 < work[d].via /\ client[Of(d)] # work[d].via => client'[Of(d)] # work[d].via
  BY <1>2, <1>3
<1>5. CallInv(d) BY DEF VendorInv
<1>6. work'[d].via <= built' BY <1>1, <1>2
<1> QED BY <1>1, <1>4, <1>5, <1>6, SameVendor DEF CallInv, MayMend, Attempts

\* A step of one caller's, of which the rest is its own call.
LEMMA OneCall ==
    ASSUME VendorInv, NEW c \in Callers, NEW w \in CallRecs, Moves(c, w)
    PROVE  work'[c] = w /\ (CallInv(c)' => VendorInv')
<1>1. VendorTyped' BY DEF VendorInv, VendorTyped, Moves
<1>2. \A d \in Callers \ {c} : CallInv(d)' BY OthersStand DEF Moves
<1>3. work'[c] = w BY DEF VendorInv, VendorTyped, Moves
<1> QED BY <1>1, <1>2, <1>3 DEF VendorInv

\* What Moves asks, when the clients in use stay as they are.
LEMMA SameClient ==
    ASSUME VendorInv, NEW c \in Callers, NEW w, work' = [work EXCEPT ![c] = w],
           UNCHANGED <<vendor, client, built>>
    PROVE  Moves(c, w)
BY DEF VendorInv, VendorTyped, Moves

\* A call begins.
LEMMA CallKeeps ==
    ASSUME VendorInv, NEW c \in Callers, NEW texts \in Requests, Call(c, texts)
    PROVE  VendorInv'
<1> DEFINE w == [Idle EXCEPT !.pc = "send", !.texts = texts]
<1>1. Idle \in CallRecs /\ Idle.n = 0 /\ Idle.via = 0 BY NothingTold DEF Idle, CallRecs
<1>2. w \in CallRecs /\ w.pc = "send" /\ w.texts = texts /\ w.n = Idle.n /\ w.via = Idle.via
  BY <1>1 DEF CallRecs
<1>3. work' = [work EXCEPT ![c] = w] /\ UNCHANGED <<vendor, client, built>> /\ vendor # "none"
  BY DEF Call
<1> HIDE DEF w
<1>4. Moves(c, w) BY <1>3, SameClient
<1>5. work'[c] = w BY <1>2, <1>4, OneCall
<1>6. CallInv(c)'
  BY <1>1, <1>2, <1>3, <1>5, AttemptsAre DEF CallInv, Attempts, VendorInv, VendorTyped
<1> QED BY <1>2, <1>4, <1>6, OneCall

\* A request is made, by the client in use or a new one.
LEMMA SendKeeps ==
    ASSUME VendorInv, NEW c \in Callers, Send(c)
    PROVE  VendorInv'
<1> DEFINE fresh == client[Of(c)] = 0
           via == IF fresh THEN built + 1 ELSE client[Of(c)]
           w == [work[c] EXCEPT !.pc = "sent", !.via = via, !.n = @ + 1, !.again = work[c].heard]
<1>1. /\ work[c] \in CallRecs /\ CallInv(c) /\ built \in Nat
      /\ client \in [{"vectors", "text"} -> 0..built] /\ Of(c) \in {"vectors", "text"}
  BY AttemptsAre DEF VendorInv, VendorTyped
<1>2. /\ work[c].pc = "send" /\ client' = [client EXCEPT ![Of(c)] = via]
      /\ built' = (IF fresh THEN via ELSE built) /\ UNCHANGED vendor
      /\ work' = [work EXCEPT ![c] = w]
  BY <1>1 DEF Send, VendorInv, VendorTyped
<1>3. via \in 1..built' /\ via \in Nat /\ built' \in Nat /\ built <= built' BY <1>1, <1>2
<1>4. client' \in [{"vectors", "text"} -> 0..built']
      /\ \A k \in {"vectors", "text"} : client'[k] \in {client[k], 0, built + 1}
  BY <1>1, <1>2, <1>3
<1> HIDE DEF via, fresh
<1>5. w \in CallRecs /\ w.pc = "sent" /\ w.via = via /\ w.n = work[c].n + 1
      /\ w.again = work[c].heard /\ w.texts = work[c].texts /\ work[c].n \in Nat
  <2>1. work[c].n + 1 \in Nat /\ work[c].n \in Nat /\ work[c].heard \in Kinds \cup {"none"}
    BY <1>1 DEF CallRecs
  <2> DEFINE n == work[c].n + 1  heard == work[c].heard
  <2>2. w = [work[c] EXCEPT !.pc = "sent", !.via = via, !.n = n, !.again = heard] OBVIOUS
  <2> HIDE DEF n, heard, w
  <2>3. n \in Nat /\ heard \in Kinds \cup {"none"} BY <2>1 DEF n, heard
  <2>4. w \in CallRecs BY <1>1, <1>3, <2>2, <2>3 DEF CallRecs
  <2>5. w.pc = "sent" /\ w.via = via /\ w.n = n /\ w.again = heard /\ w.texts = work[c].texts
    BY <1>1, <2>2 DEF CallRecs
  <2> QED BY <2>1, <2>4, <2>5 DEF n, heard
<1> HIDE DEF w
<1>6. Moves(c, w) BY <1>2, <1>3, <1>4 DEF Moves
<1>7. work'[c] = w BY <1>5, <1>6, OneCall
<1>8. CallInv(c)'
  BY <1>1, <1>2, <1>3, <1>5, <1>7, AttemptsAre DEF CallInv, Attempts, MayMend
<1> QED BY <1>5, <1>6, <1>8, OneCall

\* An answer is accepted or is the call's failure.
LEMMA ReceiveKeeps ==
    ASSUME VendorInv, NEW c \in Callers, Receive(c)
    PROVE  VendorInv'
<1>1. /\ work[c] \in CallRecs /\ CallInv(c) /\ built \in Nat
      /\ client \in [{"vectors", "text"} -> 0..built]
  BY DEF VendorInv, VendorTyped
<1>2. work[c].pc = "sent" /\ work[c].texts \in Requests /\ vendor # "none" /\ UNCHANGED <<vendor, client, built>>
  BY <1>1 DEF Receive, CallInv
<1>3. PICK raw \in Returned(c, work[c].texts) :
        work' = [work EXCEPT
          ![c].pc = IF Contract(work[c].texts, raw) THEN "done" ELSE "failed",
          ![c].told = IF Contract(work[c].texts, raw) THEN raw ELSE <<>>,
          ![c].heard = IF Contract(work[c].texts, raw) THEN "none" ELSE "garbled"]
  BY DEF Receive
<1>4. CASE Contract(work[c].texts, raw)
  <2> DEFINE w == [work[c] EXCEPT !.pc = "done", !.told = raw, !.heard = "none"]
  <2>1. work' = [work EXCEPT ![c] = w] BY <1>3, <1>4 DEF VendorInv, VendorTyped
  <2>2. raw = Exact(c, work[c].texts) BY <1>2, <1>4, AcceptedIsExact
  <2>3. raw \in Told BY <1>2, <2>2, NothingTold
  <2>4. w \in CallRecs /\ w.pc = "done" /\ w.told = raw /\ w.heard = "none" /\ w.n = work[c].n
        /\ w.via = work[c].via /\ w.texts = work[c].texts
    BY <1>1, <2>3 DEF CallRecs
  <2> HIDE DEF w
  <2>5. Moves(c, w) /\ work'[c] = w BY <1>2, <2>1, <2>4, SameClient, OneCall
  <2>6. Exact(c, work[c].texts)' = Exact(c, w.texts) BY <1>2, <2>4, <2>5 DEF Exact, Name
  <2>7. CallInv(c)'
    <3>1. (Exact(c, work[c].texts))' = raw BY <2>2, <2>4, <2>6
    <3> QED BY <1>1, <1>2, <2>4, <2>5, <3>1 DEF CallInv, Attempts, MayMend
  <2> QED BY <2>4, <2>5, <2>7, OneCall
<1>5. CASE ~Contract(work[c].texts, raw)
  <2> DEFINE w == [work[c] EXCEPT !.pc = "failed", !.told = <<>>, !.heard = "garbled"]
  <2>1. work' = [work EXCEPT ![c] = w] BY <1>3, <1>5 DEF VendorInv, VendorTyped
  <2>2. w \in CallRecs /\ w.pc = "failed" /\ w.heard = "garbled" /\ w.n = work[c].n
        /\ w.via = work[c].via /\ w.texts = work[c].texts
    BY <1>1, NothingTold DEF CallRecs, Kinds
  <2> HIDE DEF w
  <2>3. Moves(c, w) /\ work'[c] = w BY <1>2, <2>1, <2>2, SameClient, OneCall
  <2>4. CallInv(c)' BY <1>1, <1>2, <2>2, <2>3 DEF CallInv, Attempts, MayMend
  <2> QED BY <2>2, <2>3, <2>4, OneCall
<1> QED BY <1>4, <1>5

\* A failure is slept on, or is the caller's.
LEMMA FailKeeps ==
    ASSUME VendorInv, NEW c \in Callers, NEW kind \in Kinds, Fail(c, kind)
    PROVE  VendorInv'
<1>1. /\ work[c] \in CallRecs /\ CallInv(c) /\ built \in Nat
      /\ client \in [{"vectors", "text"} -> 0..built] /\ Of(c) \in {"vectors", "text"}
  BY AttemptsAre DEF VendorInv, VendorTyped
<1>2. /\ work[c].pc = "sent" /\ Name(c) # "fake" /\ Says(c, kind) /\ UNCHANGED <<vendor, built>>
      /\ work[c].texts \in Requests /\ vendor # "none"
  BY <1>1 DEF Fail, CallInv
<1>3. CASE work[c].n < Attempts(c) /\ MayRetry(c, kind)
  <2> DEFINE w == [work[c] EXCEPT !.pc = "sleep", !.heard = kind]
  <2>1. work' = [work EXCEPT ![c] = w] /\ client' = [client EXCEPT ![Of(c)] = 0]
    BY <1>3 DEF Fail, Reset, VendorInv, VendorTyped
  <2>2. w \in CallRecs /\ w.pc = "sleep" /\ w.heard = kind /\ w.n = work[c].n
        /\ w.via = work[c].via /\ w.texts = work[c].texts
    BY <1>1 DEF CallRecs
  <2> HIDE DEF w
  <2>3. client' \in [{"vectors", "text"} -> 0..built] /\ client'[Of(c)] = 0
        /\ \A k \in {"vectors", "text"} : client'[k] \in {client[k], 0, built + 1}
    BY <1>1, <2>1
  <2>4. Moves(c, w) BY <1>1, <1>2, <2>1, <2>3 DEF Moves
  <2>5. MayMend(c, kind) BY <1>2, <1>3, RetriesMend
  <2>6. work'[c] = w BY <2>2, <2>4, OneCall
  <2>7. CallInv(c)' BY <1>1, <1>2, <1>3, <2>2, <2>3, <2>5, <2>6 DEF CallInv, Attempts, MayMend
  <2> QED BY <2>2, <2>4, <2>7, OneCall
<1>4. CASE ~(work[c].n < Attempts(c) /\ MayRetry(c, kind))
  <2> DEFINE w == [work[c] EXCEPT !.pc = "failed", !.heard = kind]
  <2>1. work' = [work EXCEPT ![c] = w] /\ UNCHANGED client
    BY <1>4 DEF Fail, VendorInv, VendorTyped
  <2>2. w \in CallRecs /\ w.pc = "failed" /\ w.heard = kind /\ w.n = work[c].n
        /\ w.via = work[c].via /\ w.texts = work[c].texts
    BY <1>1 DEF CallRecs
  <2> HIDE DEF w
  <2>3. Moves(c, w) /\ work'[c] = w BY <1>2, <2>1, <2>2, SameClient, OneCall
  <2>4. c = "ingest" /\ kind \in {"lost", "server", "rate", "quota"} => Verdict(kind)' = "stop"
    <3>1. c = "ingest" => vendor # "fake" BY <1>2 DEF Name
    <3>2. Verdict(kind)' = Verdict(kind)
      BY <1>2 DEF Verdict, IsFatal, IsRetryable, IsTransportBlip
    <3> QED BY <1>2, <3>1, <3>2, VendorsFailuresStop
  <2>5. CallInv(c)' BY <1>1, <1>2, <2>2, <2>3, <2>4 DEF CallInv, Attempts, MayMend
  <2> QED BY <2>2, <2>3, <2>5, OneCall
<1> QED BY <1>3, <1>4

\* A call that slept sends again.
LEMMA WakeKeeps ==
    ASSUME VendorInv, NEW c \in Callers, Wake(c)
    PROVE  VendorInv'
<1> DEFINE w == [work[c] EXCEPT !.pc = "send"]
<1>1. /\ work[c] \in CallRecs /\ CallInv(c) /\ built \in Nat
      /\ client \in [{"vectors", "text"} -> 0..built]
  BY DEF VendorInv, VendorTyped
<1>2. work[c].pc = "sleep" /\ work' = [work EXCEPT ![c] = w] /\ UNCHANGED <<vendor, client, built>>
  BY DEF Wake, VendorInv, VendorTyped
<1>3. w \in CallRecs /\ w.pc = "send" /\ w.heard = work[c].heard /\ w.n = work[c].n
      /\ w.via = work[c].via /\ w.texts = work[c].texts
  BY <1>1 DEF CallRecs
<1> HIDE DEF w
<1>4. Moves(c, w) /\ work'[c] = w BY <1>2, <1>3, SameClient, OneCall
<1>5. CallInv(c)' BY <1>1, <1>2, <1>3, <1>4 DEF CallInv, Attempts, MayMend
<1> QED BY <1>3, <1>4, <1>5, OneCall

\* Clients are numbered again only when nobody holds one.
LEMMA TakeKeeps ==
    ASSUME VendorInv, NEW c \in Callers, Take(c)
    PROVE  VendorInv'
<1>1. Idle \in CallRecs /\ Idle.pc = "idle" /\ Idle.via = 0 /\ Idle.n = 0
  BY NothingTold DEF Idle, CallRecs
<1>2. work' = [work EXCEPT ![c] = Idle] /\ UNCHANGED vendor /\ built \in Nat
      /\ client \in [{"vectors", "text"} -> 0..built]
  BY DEF Take, VendorInv, VendorTyped
<1>3. work'[c] = Idle BY <1>2 DEF VendorInv, VendorTyped
<1>4. \A d \in Callers : Attempts(d) \in Nat BY AttemptsAre
<1>5. CASE \A d \in Callers \ {c} : work[d] = Idle
  <2>1. built' = 2 /\ DOMAIN client = {"vectors", "text"}
        /\ client' = [k \in {"vectors", "text"} |->
                        IF client[k] = 0 THEN 0 ELSE IF k = "text" THEN 1 ELSE 2]
    BY <1>2, <1>5 DEF Take
  <2>2. client' \in [{"vectors", "text"} -> 0..2] BY <2>1
  <2>3. VendorTyped' BY <1>1, <1>2, <2>1, <2>2 DEF VendorInv, VendorTyped
  <2>4. ASSUME NEW d \in Callers PROVE CallInv(d)'
    <3>1. work'[d] = Idle BY <1>2, <1>3, <1>5 DEF VendorInv, VendorTyped
    <3> QED BY <1>1, <1>4, <2>1, <3>1 DEF CallInv, Attempts, MayMend
  <2> QED BY <2>3, <2>4 DEF VendorInv
<1>6. CASE ~\A d \in Callers \ {c} : work[d] = Idle
  <2>1. UNCHANGED <<client, built>> BY <1>6 DEF Take
  <2>2. CallInv(c)' BY <1>1, <1>2, <1>3, <1>4, <2>1 DEF CallInv, Attempts, MayMend
  <2>3. Moves(c, Idle) BY <1>2, <2>1, SameClient
  <2> QED BY <1>1, <2>2, <2>3, OneCall
<1> QED BY <1>5, <1>6

\* The provider is chosen before the first call.
LEMMA BuildKeepsCalls ==
    ASSUME VendorInv, NEW name \in Names, NEW key \in BOOLEAN,
           BuildShippedProvider(name, key)
    PROVE  VendorInv'
<1>1. vendor = "none" /\ vendor' = name /\ UNCHANGED <<client, built, work>>
  BY DEF BuildShippedProvider
<1>2. VendorTyped' BY <1>1 DEF VendorInv, VendorTyped
<1>3. ASSUME NEW c \in Callers PROVE CallInv(c)'
  <2>1. work[c] = Idle BY <1>1 DEF VendorInv, CallInv, VendorTyped, CallRecs
  <2>2. Idle.pc = "idle" BY DEF Idle
  <2> QED BY <1>1, <2>1, <2>2 DEF VendorInv, CallInv, Attempts
<1> QED BY <1>2, <1>3 DEF VendorInv

\* Every step keeps the calls as they should be.
LEMMA VendorInvStep == VendorInv /\ [VendorNext]_vendorVars => VendorInv'
<1> SUFFICES ASSUME VendorInv, [VendorNext]_vendorVars PROVE VendorInv' OBVIOUS
<1>1. CASE UNCHANGED <<vendor, client, built, work>>
  <2>1. VendorTyped' BY <1>1 DEF VendorInv, VendorTyped
  <2>2. ASSUME NEW c \in Callers PROVE CallInv(c)'
    <3>1. CallInv(c) BY DEF VendorInv
    <3> QED BY <1>1, <3>1, SameVendor DEF CallInv, MayMend, Attempts
  <2> QED BY <2>1, <2>2 DEF VendorInv
<1>2. CASE VendorNext
  <2>1. CASE Turn BY <1>1, <2>1 DEF Turn
  <2> QED BY <1>2, <2>1, CallKeeps, SendKeeps, ReceiveKeeps, WakeKeeps, TakeKeeps, FailKeeps,
             BuildKeepsCalls DEF VendorNext
<1> QED BY <1>1, <1>2 DEF vendorVars

\* What a caller is given is a usable vector of each text it asked for, in place
\* (lib/embedding.ts, providers), whoever else shares its client.
THEOREM VectorsAlwaysAsked == VendorSpec => []VectorsAreWhatWasAsked
<1>1. VendorInv => VectorsAreWhatWasAsked
  <2> SUFFICES ASSUME VendorInv, NEW c \in Callers
               PROVE  LET w == work[c]
                      IN  /\ w.pc = "done" => w.told = Exact(c, w.texts)
                          /\ w.n <= Attempts(c)
                          /\ w.pc = "sent" /\ w.n > 1 =>
                               /\ w.again \in {"lost", "torn", "server", "rate"}
                               /\ c \in Searches => w.again # "rate"
                          /\ w.pc = "sleep" => client[Of(c)] # w.via
                          /\ c = "ingest" /\ w.pc = "failed"
                             /\ w.heard \in {"lost", "server", "rate", "quota"} =>
                               Verdict(w.heard) = "stop"
    BY DEF VectorsAreWhatWasAsked
  <2>1. CallInv(c) BY DEF VendorInv
  <2> QED BY <2>1 DEF CallInv, MayMend
<1> QED BY <1>1, VendorInvInit, VendorInvStep, PTL DEF VendorSpec

-----------------------------------------------------------------------------
(* Scaffold: any number of runs, places and people.                         *)

FileNames == {"package.json", "knowledge", "knowledge/page", "logo", "pnpm-lock.yaml", ".npmrc"}
Managers == {"npm", "bun", "pnpm"}
RunRecs ==
    [pc : {"begins", "stages", "copies", "undoes", "there", "ended", "killed"}, dot : BOOLEAN,
     word : {a.word : a \in Wants} \cup {"none"}, manager : Managers, todo : Seq(FileNames),
     created : SUBSET FileNames, code : {0, 1, 3}]
ProjectTrees ==
    [there : BOOLEAN,
     files : SUBSET [name : FileNames \cup {"notes"}, by : Inits \cup {"user"}, whole : BOOLEAN]]
FilesOf(i, names) == {File(name, i, TRUE) : name \in names}
WholeProject(i, one) == FilesOf(i, Range(Emitted(one.manager)))
Refused(one) == one.pc = "ended" /\ (one.code # 0 \/ one.word = "none")

\* What one run has made, in its stage and in the directory, at each point of it.
RunIs(i, one, stage, left) ==
    /\ one.manager \in Managers
    /\ one.word = "none" => one.pc \in {"begins", "ended", "killed"}
    /\ one.pc \in {"begins", "stages"} => stage = None /\ left = {} /\ one.created = {}
    /\ one.pc = "stages" => ~one.dot /\ one.todo = Emitted(one.manager)
    /\ one.pc = "copies" =>
         /\ one.created \cup Range(one.todo) = Range(Emitted(one.manager))
         /\ one.dot => left = FilesOf(i, one.created)
         /\ ~one.dot => stage.files = FilesOf(i, one.created) /\ left = {}
    /\ one.pc = "undoes" => IF one.dot THEN \A f \in left : f.name \in one.created ELSE left = {}
    /\ one.dot => stage = None
    /\ one.pc = "there" \/ (one.pc = "ended" /\ one.code = 0 /\ one.word # "none") =>
         left = WholeProject(i, one) /\ stage = None
    /\ one.pc = "ended" /\ one.code # 0 => left = {} /\ stage = None
    /\ one.pc = "killed" /\ ~one.dot => left \in {{}, WholeProject(i, one)}

RunInv(i) == RunIs(i, inits[i], stages[i], Left(i))

\* While one works in place, nobody else's files can come there.
InPlaceAlone ==
    \A i \in Inits : inits[i].dot =>
      /\ target.there
      /\ \A j \in Inits \ {i} :
           /\ ~inits[j].dot /\ Left(j) = {}
           /\ inits[j].pc \in {"begins", "killed"} \/ Refused(inits[j])

ScaffoldInv ==
    /\ inits \in [Inits -> RunRecs] /\ stages \in [Inits -> ProjectTrees] /\ target \in ProjectTrees
    /\ InPlaceAlone
    /\ \A i \in Inits : RunInv(i)

\* What a project is made of, whoever manages its packages.
LEMMA EmittedIs ==
    ASSUME NEW m \in Managers
    PROVE  /\ Emitted(m) \in Seq(FileNames) /\ Range(Emitted(m)) \subseteq FileNames
           /\ "logo" \in Range(Emitted(m)) /\ Emitted(m) # <<>>
<1> DEFINE a == Template  b == Lockfile(m)  c == ExtraFiles(m)
<1>1. a \in Seq(FileNames) /\ Len(a) = 4 /\ a[4] = "logo" BY DEF Template, FileNames
<1>2. b \in Seq(FileNames) /\ c \in Seq(FileNames)
  <2>1. <<>> \in Seq(FileNames) OBVIOUS
  <2>2. <<"pnpm-lock.yaml">> \in Seq(FileNames) BY DEF FileNames
  <2>3. <<".npmrc">> \in Seq(FileNames) BY DEF FileNames
  <2>4. b \in Seq(FileNames) BY <2>1, <2>2 DEF Lockfile
  <2>5. c \in Seq(FileNames) BY <2>1, <2>3 DEF ExtraFiles
  <2> QED BY <2>4, <2>5
<1> HIDE DEF a, b, c
<1>3. ASSUME NEW s \in Seq(FileNames), Len(s) >= 4, s[4] = "logo", NEW t \in Seq(FileNames)
      PROVE  s \o t \in Seq(FileNames) /\ Len(s \o t) >= 4 /\ (s \o t)[4] = "logo"
  <2> DEFINE d == s \o t
  <2>1. d \in Seq(FileNames) /\ Len(d) = Len(s) + Len(t)
    BY ConcatProperties
  <2>2. \A i \in 1..Len(s) + Len(t) : d[i] = IF i <= Len(s) THEN s[i] ELSE t[i - Len(s)]
    BY ConcatProperties
  <2> HIDE DEF d
  <2>3. Len(s) \in Nat /\ Len(t) \in Nat OBVIOUS
  <2>4. d \in Seq(FileNames) /\ Len(d) >= 4 /\ d[4] = "logo" BY <1>3, <2>1, <2>2, <2>3
  <2> QED BY <2>4 DEF d
<1> DEFINE d == a \o b  e == d \o c
<1>4. d \in Seq(FileNames) /\ Len(d) >= 4 /\ d[4] = "logo"
  <2>1. Len(a) >= 4 BY <1>1
  <2> QED BY <1>1, <1>2, <1>3, <2>1, Zenon
<1> HIDE DEF d
<1>5. e \in Seq(FileNames) /\ Len(e) >= 4 /\ e[4] = "logo" BY <1>2, <1>3, <1>4, Zenon
<1>6. Emitted(m) = e BY DEF Emitted, a, b, c, d
<1> HIDE DEF e
<1>7. DOMAIN e = 1..Len(e) /\ Len(e) \in Nat /\ \A i \in 1..Len(e) : e[i] \in FileNames BY <1>5
<1>8. Range(e) \subseteq FileNames /\ "logo" \in Range(e) BY <1>5, <1>7 DEF Range
<1> QED BY <1>5, <1>6, <1>7, <1>8

\* What is still to be written is the next of it and the rest.
LEMMA NextAndRest ==
    ASSUME NEW S, NEW s \in Seq(S), s # <<>>
    PROVE  /\ s[1] \in S /\ Tail(s) \in Seq(S) /\ Range(s) = {s[1]} \cup Range(Tail(s))
<1>1. Len(s) \in Nat /\ Len(s) > 0 /\ DOMAIN s = 1..Len(s) BY DEF Range
<1>2. Tail(s) \in Seq(S) /\ DOMAIN Tail(s) = 1..(Len(s) - 1)
      /\ \A k \in 1..(Len(s) - 1) : Tail(s)[k] = s[k + 1]
  BY <1>1
<1>3. ASSUME NEW x \in Range(s) PROVE x \in {s[1]} \cup Range(Tail(s))
  <2>1. PICK k \in 1..Len(s) : s[k] = x BY <1>1, <1>3 DEF Range
  <2>2. CASE k = 1 BY <2>1, <2>2
  <2>3. CASE k # 1
    <3>1. k - 1 \in 1..(Len(s) - 1) /\ Tail(s)[k - 1] = x BY <1>1, <1>2, <2>1, <2>3
    <3> QED BY <1>2, <3>1 DEF Range
  <2> QED BY <2>2, <2>3
<1>4. ASSUME NEW x \in {s[1]} \cup Range(Tail(s)) PROVE x \in Range(s)
  <2>1. CASE x = s[1] BY <1>1, <2>1 DEF Range
  <2>2. CASE x \in Range(Tail(s))
    <3>1. PICK k \in 1..(Len(s) - 1) : s[k + 1] = x BY <1>2, <2>2 DEF Range
    <3> QED BY <1>1, <3>1 DEF Range
  <2> QED BY <1>4, <2>1, <2>2
<1>5. s[1] \in S BY <1>1
<1> QED BY <1>2, <1>3, <1>4, <1>5

\* Every run begins with nothing.
LEMMA ScaffoldInvInit == ScaffoldInit /\ OneInPlace => ScaffoldInv
<1> SUFFICES ASSUME ScaffoldInit, OneInPlace PROVE ScaffoldInv OBVIOUS
<1>1. target.files = {} /\ target \in ProjectTrees /\ None \in ProjectTrees
  <2>1. None \in ProjectTrees /\ None.files = {} BY DEF None, ProjectTrees
  <2>2. [there |-> TRUE, files |-> {}] \in ProjectTrees BY DEF ProjectTrees
  <2>3. target = None \/ target = [there |-> TRUE, files |-> {}] BY DEF ScaffoldInit
  <2>4. target \in ProjectTrees BY <2>1, <2>2, <2>3
  <2>5. target.files = {}
    <3>1. [there |-> TRUE, files |-> {}].files = {} OBVIOUS
    <3> QED BY <2>1, <2>3, <3>1
  <2> QED BY <2>1, <2>4, <2>5
<1>2. ASSUME NEW i \in Inits
      PROVE  /\ stages[i] = None /\ Left(i) = {} /\ inits[i] \in RunRecs
             /\ inits[i].pc = "begins" /\ inits[i].created = {} /\ inits[i].manager \in Managers
  <2>1. stages[i] = None /\ Left(i) = {} BY <1>1 DEF ScaffoldInit, Left
  <2>2. PICK a \in Wants :
           inits[i] = [Fresh EXCEPT !.dot = a.word = ".", !.word = a.word,
                                    !.manager = Manager(a.agent)]
    BY DEF ScaffoldInit
  <2>3. Manager(a.agent) \in Managers BY DEF Manager, Managers
  <2>4. Fresh \in RunRecs /\ Fresh.pc = "begins" /\ Fresh.created = {}
    BY DEF Fresh, RunRecs, Managers
  <2> DEFINE dot == a.word = "."  word == a.word  manager == Manager(a.agent)
  <2>5. inits[i] = [Fresh EXCEPT !.dot = dot, !.word = word, !.manager = manager] BY <2>2
  <2>6. dot \in BOOLEAN /\ word \in {b.word : b \in Wants} \cup {"none"} /\ manager \in Managers
    BY <2>3
  <2> HIDE DEF dot, word, manager
  <2>7. inits[i] \in RunRecs BY <2>4, <2>5, <2>6 DEF RunRecs
  <2>8. inits[i].pc = "begins" /\ inits[i].created = {} /\ inits[i].manager = manager
    BY <2>4, <2>5 DEF RunRecs
  <2> QED BY <2>1, <2>6, <2>7, <2>8
<1>3. \A i \in Inits : RunInv(i) BY <1>2 DEF RunInv, RunIs
<1>4. InPlaceAlone BY <1>2 DEF InPlaceAlone, OneInPlace, ScaffoldInit
<1>5. inits \in [Inits -> RunRecs] /\ stages \in [Inits -> ProjectTrees]
  BY <1>1, <1>2 DEF ScaffoldInit
<1> QED BY <1>1, <1>3, <1>4, <1>5 DEF ScaffoldInv

\* One run goes on: what of the directory is not its own stays.
RunMoves(i, one, stage) ==
    /\ inits' = [inits EXCEPT ![i] = one] /\ stages' = [stages EXCEPT ![i] = stage]
    /\ target' \in ProjectTrees /\ \A j \in Inits \ {i} : Left(j)' = Left(j)
    /\ \A k \in Inits : inits[k].dot =>
         /\ target'.there
         /\ k # i => Left(i)' = {} /\ (one.pc \in {"begins", "killed"} \/ Refused(one))

\* A run that goes on leaves the others what they were.
LEMMA OneRun ==
    ASSUME ScaffoldInv, NEW i \in Inits, NEW one \in RunRecs, NEW stage \in ProjectTrees,
           RunMoves(i, one, stage), one.dot = inits[i].dot, RunIs(i, one, stage, Left(i)')
    PROVE  ScaffoldInv'
<1>1. inits' \in [Inits -> RunRecs] /\ stages' \in [Inits -> ProjectTrees] /\ target' \in ProjectTrees
  BY DEF ScaffoldInv, RunMoves
<1>2. inits'[i] = one /\ stages'[i] = stage BY DEF ScaffoldInv, RunMoves
<1>3. ASSUME NEW j \in Inits, j # i
      PROVE  inits'[j] = inits[j] /\ stages'[j] = stages[j] /\ Left(j)' = Left(j)
  BY <1>3 DEF ScaffoldInv, RunMoves
<1>4. ASSUME NEW j \in Inits PROVE RunInv(j)'
  <2>1. CASE j = i BY <1>2, <2>1 DEF RunInv, RunIs, WholeProject
  <2>2. CASE j # i BY <1>3, <2>2 DEF ScaffoldInv, RunInv, RunIs, WholeProject
  <2> QED BY <2>1, <2>2
<1>5. ASSUME NEW k \in Inits, inits'[k].dot, NEW j \in Inits \ {k}
      PROVE  /\ target'.there /\ ~inits'[j].dot /\ Left(j)' = {}
             /\ inits'[j].pc \in {"begins", "killed"} \/ Refused(inits'[j])
  <2>1. inits[k].dot BY <1>2, <1>3, <1>5
  <2>2. /\ ~inits[j].dot /\ Left(j) = {}
        /\ inits[j].pc \in {"begins", "killed"} \/ Refused(inits[j])
    BY <2>1 DEF ScaffoldInv, InPlaceAlone
  <2>3. target'.there BY <2>1 DEF RunMoves
  <2>4. CASE j = i BY <1>2, <2>1, <2>2, <2>3, <2>4 DEF RunMoves
  <2>5. CASE j # i BY <1>3, <2>2, <2>3, <2>5
  <2> QED BY <2>4, <2>5
<1>6. \A k \in Inits : inits'[k].dot => target'.there
  BY <1>2, <1>3 DEF RunMoves
<1>7. InPlaceAlone' BY <1>5, <1>6 DEF InPlaceAlone, Refused
<1> QED BY <1>1, <1>4, <1>7 DEF ScaffoldInv

\* What one run's own step says of its record: where it is, and with which code.
LEMMA RunSteps ==
    ASSUME ScaffoldInv, NEW i \in Inits, NEW pc \in {"begins", "stages", "copies", "undoes",
           "there", "ended", "killed"}, NEW code \in {0, 1, 3}
    PROVE  /\ [inits[i] EXCEPT !.pc = pc, !.code = code] \in RunRecs
           /\ [inits[i] EXCEPT !.pc = pc] \in RunRecs
<1> DEFINE one == inits[i]
<1>1. one \in RunRecs BY DEF ScaffoldInv
<1> HIDE DEF one
<1>2. [one EXCEPT !.pc = pc, !.code = code] \in RunRecs BY <1>1 DEF RunRecs
<1>3. [one EXCEPT !.pc = pc] \in RunRecs BY <1>1 DEF RunRecs
<1> QED BY <1>2, <1>3 DEF one

\* Who has not begun, or was refused or killed, has nothing beside one that works in
\* place; so a run that does something is that one, or there is none.
LEMMA WorksAlone ==
    ASSUME ScaffoldInv, NEW i \in Inits, inits[i].pc \in {"stages", "copies", "undoes", "there"}
    PROVE  \A k \in Inits : inits[k].dot => k = i /\ target.there
BY DEF ScaffoldInv, InPlaceAlone, Refused

\* A run that changes only its record and its stage.
LEMMA StandsBeside ==
    ASSUME ScaffoldInv, NEW i \in Inits, NEW one \in RunRecs, NEW stage \in ProjectTrees,
           inits' = [inits EXCEPT ![i] = one], stages' = [stages EXCEPT ![i] = stage],
           UNCHANGED target, one.dot = inits[i].dot, RunIs(i, one, stage, Left(i)),
           \A k \in Inits \ {i} :
              inits[k].dot => one.pc \in {"begins", "killed"} \/ Refused(one)
    PROVE  ScaffoldInv'
<1>1. \A j : Left(j)' = Left(j) BY DEF Left
<1>2. RunMoves(i, one, stage) BY <1>1 DEF RunMoves, ScaffoldInv, InPlaceAlone
<1>3. RunIs(i, one, stage, Left(i)') BY <1>1
<1> QED BY <1>2, <1>3, OneRun

\* A run that has left nothing may end, with a failure or for want of a word.
LEMMA RunEnds ==
    ASSUME NEW i, NEW one, Refused(one), one.manager \in Managers
    PROVE  RunIs(i, one, None, {})
BY DEF RunIs, Refused

\* A run begins, or is refused.
LEMMA BeginKeeps ==
    ASSUME ScaffoldInv, NEW i \in Inits, Begin(i)
    PROVE  ScaffoldInv'
<1>1. inits[i] \in RunRecs /\ stages[i] \in ProjectTrees /\ RunIs(i, inits[i], stages[i], Left(i))
  BY DEF ScaffoldInv, RunInv
<1>2. inits[i].pc = "begins" /\ UNCHANGED <<target, stages>> /\ stages' = [stages EXCEPT ![i] = stages[i]]
  BY DEF Begin, At, ScaffoldInv
<1>3. \A k \in Inits \ {i} : inits[k].dot => ~inits[i].dot /\ target.there
  BY DEF ScaffoldInv, InPlaceAlone
<1>8. stages[i] = None /\ Left(i) = {} /\ inits[i].created = {} /\ inits[i].manager \in Managers
  BY <1>1, <1>2 DEF RunIs
<1>4. Refusal(i) \in {0, 1, 3} BY DEF Refusal
<1>5. CASE inits[i].word = "none" /\ place.templates
  <2> DEFINE one == [inits[i] EXCEPT !.pc = "ended", !.code = 0]
  <2>1. inits' = [inits EXCEPT ![i] = one] BY <1>5 DEF Begin, Ends, ScaffoldInv
  <2>2. one \in RunRecs BY RunSteps
  <2>3. one.pc = "ended" /\ one.code = 0 /\ one.word = inits[i].word /\ one.dot = inits[i].dot
        /\ one.manager = inits[i].manager
    BY <1>1 DEF RunRecs
  <2> HIDE DEF one
  <2>5. Refused(one) BY <1>5, <2>3 DEF Refused
  <2>4. RunIs(i, one, stages[i], Left(i)) /\ Refused(one)
    BY <1>8, <2>3, <2>5, RunEnds, Zenon
  <2> QED BY <1>1, <1>2, <2>1, <2>2, <2>3, <2>4, StandsBeside
<1>6. CASE ~(inits[i].word = "none" /\ place.templates) /\ Refusal(i) # 0
  <2> DEFINE code == Refusal(i)  one == [inits[i] EXCEPT !.pc = "ended", !.code = code]
  <2>1. inits' = [inits EXCEPT ![i] = one] BY <1>6 DEF Begin, Ends, ScaffoldInv
  <2>2. code \in {1, 3} BY <1>4, <1>6
  <2> HIDE DEF code
  <2>3. one \in RunRecs BY <2>2, RunSteps
  <2>4. one.pc = "ended" /\ one.code = code /\ one.word = inits[i].word /\ one.dot = inits[i].dot
        /\ one.manager = inits[i].manager
    BY <1>1 DEF RunRecs
  <2> HIDE DEF one
  <2>6. Refused(one) BY <2>2, <2>4 DEF Refused
  <2>5. RunIs(i, one, stages[i], Left(i)) /\ Refused(one)
    BY <1>8, <2>4, <2>6, RunEnds, Zenon
  <2> QED BY <1>1, <1>2, <2>1, <2>3, <2>4, <2>5, StandsBeside
<1>7. CASE ~(inits[i].word = "none" /\ place.templates) /\ Refusal(i) = 0
  <2> DEFINE pc == IF inits[i].dot THEN "copies" ELSE "stages"
             todo == Emitted(inits[i].manager)
             one == [inits[i] EXCEPT !.pc = pc, !.todo = todo]
  <2>1. inits' = [inits EXCEPT ![i] = one] BY <1>7 DEF Begin, ScaffoldInv
  <2>2. inits[i].manager \in Managers BY <1>1 DEF RunIs
  <2>3. todo \in Seq(FileNames) BY <2>2, EmittedIs
  <2>4. /\ pc \in {"copies", "stages"} /\ (pc = "copies" <=> inits[i].dot)
    BY <1>1 DEF RunRecs
  <2>5. place.templates /\ inits[i].word # "none" /\ (~inits[i].dot => ~target.there)
    <3>1. ASSUME ~place.templates PROVE FALSE
      <4>1. Refusal(i) = 3 BY <3>1 DEF Refusal
      <4> QED BY <1>7, <4>1
    <3>2. ASSUME ~inits[i].dot, target.there PROVE FALSE
      <4>1. Refusal(i) = 1 BY <3>1, <3>2 DEF Refusal
      <4> QED BY <1>7, <4>1
    <3>3. inits[i].word # "none" BY <1>7, <3>1
    <3> QED BY <3>1, <3>2, <3>3
  <2>6. todo = Emitted(inits[i].manager) OBVIOUS
  <2> HIDE DEF pc, todo
  <2>7. one \in RunRecs BY <1>1, <2>3, <2>4 DEF RunRecs
  <2>8. one.pc = pc /\ one.todo = todo /\ one.word = inits[i].word /\ one.dot = inits[i].dot
        /\ one.manager = inits[i].manager /\ one.created = inits[i].created
    BY <1>1 DEF RunRecs
  <2> HIDE DEF one
  <2>9. RunIs(i, one, stages[i], Left(i))
    BY <1>8, <2>4, <2>5, <2>6, <2>8 DEF RunIs, FilesOf
  <2> QED BY <1>1, <1>2, <1>3, <2>1, <2>5, <2>7, <2>8, <2>9, StandsBeside
<1> QED BY <1>5, <1>6, <1>7

\* The stage is made, or cannot be.
LEMMA StageKeeps ==
    ASSUME ScaffoldInv, NEW i \in Inits, Stage(i)
    PROVE  ScaffoldInv'
<1>1. inits[i] \in RunRecs /\ stages[i] \in ProjectTrees /\ RunIs(i, inits[i], stages[i], Left(i))
  BY DEF ScaffoldInv, RunInv
<1>2. inits[i].pc = "stages" /\ UNCHANGED target BY DEF Stage, At
<1>6. /\ stages[i] = None /\ Left(i) = {} /\ inits[i].created = {} /\ ~inits[i].dot
      /\ inits[i].todo = Emitted(inits[i].manager) /\ inits[i].manager \in Managers
      /\ inits[i].word # "none"
  BY <1>1, <1>2 DEF RunIs
<1>7. None.files = {} BY DEF None
<1>3. \A k \in Inits \ {i} : ~inits[k].dot BY <1>2, WorksAlone
<1>4. CASE stages' = [stages EXCEPT ![i].there = TRUE] /\ To(i, "copies")
  <2> DEFINE one == [inits[i] EXCEPT !.pc = "copies"]
             stage == [stages[i] EXCEPT !.there = TRUE]
  <2>1. inits' = [inits EXCEPT ![i] = one] /\ stages' = [stages EXCEPT ![i] = stage]
    BY <1>4 DEF To, ScaffoldInv
  <2>2. one \in RunRecs BY RunSteps
  <2>3. one.pc = "copies" /\ one.todo = inits[i].todo /\ one.word = inits[i].word
        /\ one.dot = inits[i].dot /\ one.manager = inits[i].manager
        /\ one.created = inits[i].created
    BY <1>1 DEF RunRecs
  <2>4. stage \in ProjectTrees /\ stage.files = stages[i].files BY <1>1 DEF ProjectTrees
  <2>5. stages[i].files = {} BY <1>6, <1>7
  <2> HIDE DEF one, stage
  <2>6. RunIs(i, one, stage, Left(i))
    BY <1>6, <2>3, <2>4, <2>5 DEF RunIs, FilesOf
  <2> QED BY <1>2, <1>3, <2>1, <2>2, <2>3, <2>4, <2>6, StandsBeside
<1>5. CASE Ends(i, 3) /\ UNCHANGED stages
  <2> DEFINE one == [inits[i] EXCEPT !.pc = "ended", !.code = 3]
  <2>1. inits' = [inits EXCEPT ![i] = one] /\ stages' = [stages EXCEPT ![i] = stages[i]]
    BY <1>5 DEF Ends, ScaffoldInv
  <2>2. one \in RunRecs BY RunSteps
  <2>3. one.pc = "ended" /\ one.code = 3 /\ one.word = inits[i].word /\ one.dot = inits[i].dot
        /\ one.manager = inits[i].manager
    BY <1>1 DEF RunRecs
  <2> HIDE DEF one
  <2>5. Refused(one) BY <2>3 DEF Refused
  <2>4. RunIs(i, one, stages[i], Left(i)) BY <1>6, <2>3, <2>5, RunEnds, Zenon
  <2> QED BY <1>1, <1>2, <1>3, <2>1, <2>2, <2>3, <2>4, StandsBeside
<1> QED BY <1>4, <1>5 DEF Stage

\* One file more, whole, or the disk is full; only what its run has made changes.
LEMMA CopyKeeps ==
    ASSUME ScaffoldInv, NEW i \in Inits, Copy(i)
    PROVE  ScaffoldInv'
<1> DEFINE name == inits[i].todo[1]
<1>1. inits[i] \in RunRecs /\ stages[i] \in ProjectTrees /\ RunIs(i, inits[i], stages[i], Left(i))
      /\ target \in ProjectTrees
  BY DEF ScaffoldInv, RunInv
<1>2. inits[i].pc = "copies" /\ inits[i].todo # <<>> BY DEF Copy, At
<1>3. \A k \in Inits : inits[k].dot => k = i /\ target.there BY <1>2, WorksAlone
<1>4. inits[i].todo \in Seq(FileNames) /\ inits[i].created \subseteq FileNames
      /\ inits[i].dot \in BOOLEAN
  BY <1>1 DEF RunRecs
<1>5. /\ name \in FileNames /\ Tail(inits[i].todo) \in Seq(FileNames)
      /\ Range(inits[i].todo) = {name} \cup Range(Tail(inits[i].todo))
  BY <1>2, <1>4, NextAndRest
<1>6. PICK whole \in BOOLEAN :
        /\ Becomes(i, Put(Tree(i), File(name, i, whole)))
        /\ inits' = [inits EXCEPT
              ![i].created = inits[i].created \cup {name},
              ![i].todo = IF whole THEN Tail(inits[i].todo) ELSE inits[i].todo,
              ![i].pc = IF whole THEN "copies" ELSE "undoes"]
  BY DEF Copy, Tracked, ScaffoldInv
<1> DEFINE file == File(name, i, whole)
           created == inits[i].created \cup {name}
           todo == IF whole THEN Tail(inits[i].todo) ELSE inits[i].todo
           pc == IF whole THEN "copies" ELSE "undoes"
           one == [inits[i] EXCEPT !.created = created, !.todo = todo, !.pc = pc]
           After(files) == {f \in files : f.name # name} \cup {file}
<1>7. inits' = [inits EXCEPT ![i] = one] BY <1>6 DEF ScaffoldInv
<1>8. created \subseteq FileNames /\ todo \in Seq(FileNames) /\ pc \in {"copies", "undoes"}
  BY <1>4, <1>5
<1>9. whole => created \cup Range(todo) = inits[i].created \cup Range(inits[i].todo)
  BY <1>5
<1>10. (pc = "copies" <=> whole) /\ name \in created OBVIOUS
<1>11. file \in [name : FileNames \cup {"notes"}, by : Inits \cup {"user"}, whole : BOOLEAN]
       /\ file.name = name /\ file.by = i
  BY <1>5 DEF File
<1>12. whole => After(FilesOf(i, inits[i].created)) = FilesOf(i, created)
  BY DEF FilesOf, File
<1> HIDE DEF pc, todo
<1>13. one \in RunRecs BY <1>1, <1>8 DEF RunRecs
<1>14. one.pc = pc /\ one.todo = todo /\ one.word = inits[i].word /\ one.dot = inits[i].dot
       /\ one.manager = inits[i].manager /\ one.created = created
  BY <1>1 DEF RunRecs
<1> HIDE DEF one, file, name, created
<1>15. inits[i].manager \in Managers /\ inits[i].word # "none"
       /\ inits[i].created \cup Range(inits[i].todo) = Range(Emitted(inits[i].manager))
       /\ (inits[i].dot => Left(i) = FilesOf(i, inits[i].created) /\ stages[i] = None)
       /\ (~inits[i].dot => Left(i) = {} /\ stages[i].files = FilesOf(i, inits[i].created))
  BY <1>1, <1>2 DEF RunIs
<1>16. CASE inits[i].dot
  <2>1. UNCHANGED stages /\ target' = Put(target, file)
    BY <1>6, <1>16 DEF Becomes, Tree, file
  <2>2. target' \in ProjectTrees /\ target'.there = target.there /\ target'.files = After(target.files)
    BY <1>1, <1>11, <2>1 DEF Put, ProjectTrees
  <2>3. Left(i)' = After(Left(i)) BY <1>11, <2>2 DEF Left
  <2>4. \A j \in Inits \ {i} : Left(j) = {} BY <1>16 DEF ScaffoldInv, InPlaceAlone
  <2>5. \A j \in Inits \ {i} : Left(j)' = Left(j)
    <3> SUFFICES ASSUME NEW j \in Inits, j # i PROVE Left(j)' = Left(j) OBVIOUS
    <3>1. \A f \in target'.files : f \in target.files \/ f.by = i BY <1>11, <2>2
    <3>2. Left(j) = {} BY <2>4
    <3>3. \A f \in target'.files : f.by # j BY <3>1, <3>2 DEF Left
    <3> QED BY <3>2, <3>3 DEF Left
  <2>6. stages' = [stages EXCEPT ![i] = stages[i]] BY <2>1 DEF ScaffoldInv
  <2>7. RunMoves(i, one, stages[i])
    BY <1>3, <1>7, <2>2, <2>5, <2>6 DEF RunMoves
  <2>8. RunIs(i, one, stages[i], Left(i)')
    <3>1. CASE whole
      BY <1>8, <1>9, <1>10, <1>12, <1>14, <1>15, <1>16, <2>3, <3>1 DEF RunIs
    <3>2. CASE ~whole
      <4>1. \A f \in Left(i)' : f.name \in created
        BY <1>10, <1>11, <1>15, <1>16, <2>3 DEF created, FilesOf, File
      <4> QED BY <1>8, <1>10, <1>14, <1>15, <1>16, <3>2, <4>1 DEF RunIs
    <3> QED BY <3>1, <3>2
  <2> QED BY <1>1, <1>13, <1>14, <2>7, <2>8, OneRun
<1>17. CASE ~inits[i].dot
  <2> DEFINE stage == Put(stages[i], file)
  <2>1. UNCHANGED target /\ stages' = [stages EXCEPT ![i] = stage]
    BY <1>6, <1>17 DEF Becomes, Tree, file
  <2>2. stage \in ProjectTrees /\ stage.files = After(stages[i].files)
    BY <1>1, <1>11 DEF Put, ProjectTrees
  <2> HIDE DEF stage
  <2>3. RunIs(i, one, stage, Left(i))
    <3>1. CASE whole
      BY <1>8, <1>9, <1>10, <1>12, <1>14, <1>15, <1>17, <2>2, <3>1 DEF RunIs
    <3>2. CASE ~whole
      BY <1>8, <1>10, <1>14, <1>15, <1>17, <3>2 DEF RunIs
    <3> QED BY <3>1, <3>2
  <2> QED BY <1>3, <1>7, <1>13, <1>14, <2>1, <2>2, <2>3, StandsBeside
<1> QED BY <1>4, <1>16, <1>17

\* What a failed run has brought into being goes away with it.
LEMMA RollbackKeeps ==
    ASSUME ScaffoldInv, NEW i \in Inits, Rollback(i)
    PROVE  ScaffoldInv'
<1> DEFINE one == [inits[i] EXCEPT !.pc = "ended", !.code = 3]
<1>1. inits[i] \in RunRecs /\ stages[i] \in ProjectTrees /\ RunIs(i, inits[i], stages[i], Left(i))
      /\ target \in ProjectTrees /\ inits[i].dot \in BOOLEAN
  BY DEF ScaffoldInv, RunInv, RunRecs
<1>2. inits[i].pc = "undoes" /\ inits' = [inits EXCEPT ![i] = one]
  BY DEF Rollback, At, Ends, ScaffoldInv
<1>3. \A k \in Inits : inits[k].dot => k = i /\ target.there BY <1>2, WorksAlone
<1>4. one \in RunRecs BY RunSteps
<1>5. one.pc = "ended" /\ one.code = 3 /\ one.dot = inits[i].dot /\ one.manager = inits[i].manager
  BY <1>1 DEF RunRecs
<1> HIDE DEF one
<1>6. Refused(one) /\ one.manager \in Managers BY <1>1, <1>5 DEF Refused, RunIs
<1>7. RunIs(i, one, None, {}) BY <1>6, RunEnds
<1>8. CASE inits[i].dot
  <2> DEFINE created == inits[i].created
  <2>1. UNCHANGED stages /\ target' = [target EXCEPT !.files = {f \in @ : f.name \notin created}]
    BY <1>8 DEF Rollback, Becomes
  <2>2. stages[i] = None /\ \A f \in Left(i) : f.name \in created
    BY <1>1, <1>2, <1>8 DEF RunIs
  <2> HIDE DEF created
  <2>3. target' \in ProjectTrees /\ target'.there = target.there
        /\ target'.files = {f \in target.files : f.name \notin created}
    BY <1>1, <2>1 DEF ProjectTrees
  <2>4. Left(i)' = {} BY <2>2, <2>3 DEF Left
  <2>5. \A j \in Inits \ {i} : Left(j) = {} BY <1>8 DEF ScaffoldInv, InPlaceAlone
  <2>6. \A j \in Inits \ {i} : Left(j)' = Left(j) BY <2>3, <2>5 DEF Left
  <2>7. stages' = [stages EXCEPT ![i] = stages[i]] BY <2>1 DEF ScaffoldInv
  <2>8. RunMoves(i, one, stages[i]) BY <1>2, <1>3, <2>3, <2>6, <2>7 DEF RunMoves
  <2>9. RunIs(i, one, stages[i], Left(i)') BY <1>7, <2>2, <2>4
  <2> QED BY <1>1, <1>4, <1>5, <2>8, <2>9, OneRun
<1>9. CASE ~inits[i].dot
  <2>1. UNCHANGED target /\ stages' = [stages EXCEPT ![i] = None]
    BY <1>9 DEF Rollback, Becomes
  <2>2. Left(i) = {} BY <1>1, <1>2, <1>9 DEF RunIs
  <2>3. None \in ProjectTrees BY DEF None, ProjectTrees
  <2> QED BY <1>2, <1>3, <1>4, <1>5, <1>7, <2>1, <2>2, <2>3, StandsBeside
<1> QED BY <1>1, <1>8, <1>9

\* The stage becomes the project where nobody's files are; elsewhere it goes away.
LEMMA RenameKeeps ==
    ASSUME ScaffoldInv, NEW i \in Inits, Rename(i)
    PROVE  ScaffoldInv'
<1>1. inits[i] \in RunRecs /\ stages[i] \in ProjectTrees /\ RunIs(i, inits[i], stages[i], Left(i))
      /\ None \in ProjectTrees
  BY DEF ScaffoldInv, RunInv, None, ProjectTrees
<1>2. inits[i].pc = "copies" /\ inits[i].todo = <<>> /\ ~inits[i].dot
      /\ stages' = [stages EXCEPT ![i] = None]
  BY DEF Rename, At
<1>3. \A k \in Inits : ~inits[k].dot BY <1>2, WorksAlone
<1>4. Range(inits[i].todo) = {} BY <1>2 DEF Range
<1>5. /\ stages[i].files = WholeProject(i, inits[i]) /\ Left(i) = {}
      /\ inits[i].manager \in Managers /\ inits[i].word # "none"
  BY <1>1, <1>2, <1>4 DEF RunIs, WholeProject
<1>6. CASE target.files = {} /\ target' = stages[i] /\ To(i, "there")
  <2> DEFINE one == [inits[i] EXCEPT !.pc = "there"]
  <2>1. inits' = [inits EXCEPT ![i] = one] BY <1>6 DEF To, ScaffoldInv
  <2>2. one \in RunRecs BY RunSteps
  <2>3. one.pc = "there" /\ one.word = inits[i].word /\ one.dot = inits[i].dot
        /\ one.manager = inits[i].manager
    BY <1>1 DEF RunRecs
  <2> HIDE DEF one
  <2>4. \A f \in WholeProject(i, inits[i]) : f.by = i BY DEF WholeProject, FilesOf, File
  <2>5. Left(i)' = WholeProject(i, one) BY <1>5, <1>6, <2>3, <2>4 DEF Left, WholeProject
  <2>6. \A j \in Inits \ {i} : Left(j)' = Left(j) BY <1>5, <1>6, <2>4 DEF Left
  <2>7. RunMoves(i, one, None) BY <1>1, <1>2, <1>3, <1>6, <2>1, <2>6 DEF RunMoves
  <2>8. RunIs(i, one, None, Left(i)') BY <1>2, <1>5, <2>3, <2>5 DEF RunIs
  <2> QED BY <1>1, <2>2, <2>3, <2>7, <2>8, OneRun
<1>7. ASSUME NEW code \in {1, 3}, Ends(i, code), UNCHANGED target PROVE ScaffoldInv'
  <2> DEFINE one == [inits[i] EXCEPT !.pc = "ended", !.code = code]
  <2>1. inits' = [inits EXCEPT ![i] = one] BY <1>7 DEF Ends, ScaffoldInv
  <2>2. one \in RunRecs BY RunSteps
  <2>3. one.pc = "ended" /\ one.code = code /\ one.dot = inits[i].dot
        /\ one.manager = inits[i].manager
    BY <1>1 DEF RunRecs
  <2> HIDE DEF one
  <2>4. Refused(one) BY <2>3 DEF Refused
  <2>5. RunIs(i, one, None, {}) BY <1>5, <2>3, <2>4, RunEnds
  <2> QED BY <1>1, <1>2, <1>3, <1>5, <1>7, <2>1, <2>2, <2>3, <2>5, StandsBeside
<1> QED BY <1>6, <1>7 DEF Rename

\* A project is there when all of it is.
LEMMA SettleKeeps ==
    ASSUME ScaffoldInv, NEW i \in Inits, Settle(i)
    PROVE  ScaffoldInv'
<1> DEFINE one == [inits[i] EXCEPT !.pc = "there"]
<1>1. inits[i] \in RunRecs /\ stages[i] \in ProjectTrees /\ RunIs(i, inits[i], stages[i], Left(i))
  BY DEF ScaffoldInv, RunInv
<1>2. inits[i].pc = "copies" /\ inits[i].todo = <<>> /\ inits[i].dot /\ UNCHANGED <<target, stages>>
      /\ inits' = [inits EXCEPT ![i] = one]
  BY DEF Settle, At, To, ScaffoldInv
<1>3. \A k \in Inits : inits[k].dot => k = i BY <1>2, WorksAlone
<1>4. Range(inits[i].todo) = {} BY <1>2 DEF Range
<1>5. one \in RunRecs BY RunSteps
<1>6. one.pc = "there" /\ one.word = inits[i].word /\ one.dot = inits[i].dot
      /\ one.manager = inits[i].manager
  BY <1>1 DEF RunRecs
<1> HIDE DEF one
<1>7. Left(i) = WholeProject(i, one) /\ stages[i] = None /\ one.manager \in Managers
      /\ one.word # "none"
  BY <1>1, <1>2, <1>4, <1>6 DEF RunIs, WholeProject
<1>8. RunIs(i, one, stages[i], Left(i)) BY <1>6, <1>7 DEF RunIs
<1>9. stages' = [stages EXCEPT ![i] = stages[i]] BY <1>2 DEF ScaffoldInv
<1> QED BY <1>1, <1>2, <1>3, <1>5, <1>6, <1>8, <1>9, StandsBeside

\* What follows changes nothing of the project.
LEMMA HandoffKeeps ==
    ASSUME ScaffoldInv, NEW i \in Inits, Handoff(i)
    PROVE  ScaffoldInv'
<1> DEFINE one == [inits[i] EXCEPT !.pc = "ended", !.code = 0]
<1>1. inits[i] \in RunRecs /\ stages[i] \in ProjectTrees /\ RunIs(i, inits[i], stages[i], Left(i))
  BY DEF ScaffoldInv, RunInv
<1>2. inits[i].pc = "there" /\ UNCHANGED <<target, stages>> /\ inits' = [inits EXCEPT ![i] = one]
  BY DEF Handoff, At, Ends, ScaffoldInv
<1>3. \A k \in Inits : inits[k].dot => k = i BY <1>2, WorksAlone
<1>4. one \in RunRecs BY RunSteps
<1>5. one.pc = "ended" /\ one.code = 0 /\ one.word = inits[i].word /\ one.dot = inits[i].dot
      /\ one.manager = inits[i].manager
  BY <1>1 DEF RunRecs
<1> HIDE DEF one
<1>6. Left(i) = WholeProject(i, one) /\ stages[i] = None /\ one.manager \in Managers
      /\ one.word # "none"
  BY <1>1, <1>2, <1>5 DEF RunIs, WholeProject
<1>7. RunIs(i, one, stages[i], Left(i)) BY <1>5, <1>6 DEF RunIs
<1>8. stages' = [stages EXCEPT ![i] = stages[i]] BY <1>2 DEF ScaffoldInv
<1> QED BY <1>1, <1>2, <1>3, <1>4, <1>5, <1>7, <1>8, StandsBeside

\* Whoever is killed leaves what there was.
LEMMA KillKeeps ==
    ASSUME ScaffoldInv, NEW i \in Inits, Kill(i)
    PROVE  ScaffoldInv'
<1> DEFINE one == [inits[i] EXCEPT !.pc = "killed"]
<1>1. inits[i] \in RunRecs /\ stages[i] \in ProjectTrees /\ RunIs(i, inits[i], stages[i], Left(i))
  BY DEF ScaffoldInv, RunInv
<1>2. inits[i].pc \in {"begins", "stages", "copies", "undoes", "there"}
      /\ UNCHANGED <<target, stages>> /\ inits' = [inits EXCEPT ![i] = one]
  BY <1>1 DEF Kill, To, ScaffoldInv, RunRecs
<1>3. one \in RunRecs BY RunSteps
<1>4. one.pc = "killed" /\ one.word = inits[i].word /\ one.dot = inits[i].dot
      /\ one.manager = inits[i].manager
  BY <1>1 DEF RunRecs
<1> HIDE DEF one
<1>5. one.manager \in Managers /\ (one.dot => stages[i] = None) BY <1>1, <1>4 DEF RunIs
<1>6. ~one.dot => Left(i) \in {{}, WholeProject(i, one)}
  BY <1>1, <1>2, <1>4 DEF RunIs, WholeProject
<1>7. RunIs(i, one, stages[i], Left(i)) BY <1>4, <1>5, <1>6 DEF RunIs
<1>8. stages' = [stages EXCEPT ![i] = stages[i]] BY <1>2 DEF ScaffoldInv
<1> QED BY <1>1, <1>2, <1>3, <1>4, <1>7, <1>8, StandsBeside

\* Nobody's own files are a run's.
LEMMA UserKeeps ==
    ASSUME ScaffoldInv, User \/ MakeDirectory
    PROVE  ScaffoldInv'
<1>1. UNCHANGED <<stages, inits>> /\ \A i \in Inits : ~inits[i].dot BY DEF User, MakeDirectory
<1>2. target' \in ProjectTrees /\ \A i \in Inits : Left(i)' = Left(i)
  <2>1. CASE User
    <3>1. target' = [there |-> TRUE, files |-> target.files \cup {File("notes", "user", TRUE)}]
      BY <2>1 DEF User
    <3> DEFINE files == target.files \cup {File("notes", "user", TRUE)}
    <3>6. File("notes", "user", TRUE) \in
            [name : FileNames \cup {"notes"}, by : Inits \cup {"user"}, whole : BOOLEAN]
      BY DEF File
    <3>7. files \in SUBSET [name : FileNames \cup {"notes"}, by : Inits \cup {"user"}, whole : BOOLEAN]
      BY <3>6 DEF ScaffoldInv, ProjectTrees
    <3> HIDE DEF files
    <3>2. target' \in ProjectTrees BY <3>1, <3>7 DEF ProjectTrees, files
    <3>3. target'.files = target.files \cup {File("notes", "user", TRUE)} BY <3>1
    <3>4. File("notes", "user", TRUE).by = "user" BY DEF File
    <3>5. \A i \in Inits : Left(i)' = Left(i) BY <3>3, <3>4, ScaffoldAssumption DEF Left
    <3> QED BY <3>2, <3>5
  <2>2. CASE MakeDirectory
    <3>1. target' = [target EXCEPT !.there = TRUE] BY <2>2 DEF MakeDirectory
    <3>2. target' \in ProjectTrees /\ target'.files = target.files BY <3>1 DEF ScaffoldInv, ProjectTrees
    <3> QED BY <3>2 DEF Left
  <2> QED BY <2>1, <2>2
<1>3. \A i \in Inits : RunInv(i)' BY <1>1, <1>2 DEF ScaffoldInv, RunInv, RunIs, WholeProject
<1>4. InPlaceAlone' BY <1>1 DEF InPlaceAlone
<1> QED BY <1>1, <1>2, <1>3, <1>4 DEF ScaffoldInv

\* Every step keeps what each run has made.
LEMMA ScaffoldInvStep ==
    ASSUME ScaffoldInv, [ScaffoldNext]_scaffoldVars
    PROVE  ScaffoldInv'
<1>1. CASE UNCHANGED scaffoldVars
  <2>1. \A i \in Inits : Left(i)' = Left(i) /\ RunInv(i)'
    BY <1>1 DEF scaffoldVars, Left, ScaffoldInv, RunInv, RunIs, WholeProject
  <2> QED BY <1>1, <2>1 DEF scaffoldVars, ScaffoldInv, InPlaceAlone, Refused
<1>2. CASE User \/ MakeDirectory BY <1>2, UserKeeps
<1>3. CASE \E i \in Inits :
             \/ Begin(i) \/ Stage(i) \/ Copy(i) \/ Rollback(i) \/ Rename(i) \/ Settle(i)
             \/ Handoff(i) \/ Kill(i)
  BY <1>3, BeginKeeps, StageKeeps, CopyKeeps, RollbackKeeps, RenameKeeps, SettleKeeps,
     HandoffKeeps, KillKeeps
<1> QED BY <1>1, <1>2, <1>3 DEF ScaffoldNext

\* However many runs meet at one name, and whoever is killed, fails or comes between:
\* a project is there whole or not at all (init/index.ts), one run at most in place.
THEOREM ProjectAlwaysWhole == ScaffoldSpec /\ OneInPlace => []ProjectWholeOrAbsent
<1>1. ScaffoldInv => ProjectWholeOrAbsent
  <2> SUFFICES ASSUME ScaffoldInv, NEW i \in Inits
               PROVE  LET one == inits[i]
                      IN  /\ one.pc = "there" \/ (one.pc = "ended" /\ one.code = 0 /\ one.word # "none") =>
                                Left(i) = {File(name, i, TRUE) : name \in Range(Emitted(one.manager))}
                          /\ one.pc = "ended" /\ one.code # 0 => Left(i) = {} /\ ~stages[i].there
                          /\ one.pc = "killed" /\ ~one.dot =>
                                Left(i) \in {{}, {File(name, i, TRUE) : name \in Range(Emitted(one.manager))}}
    BY DEF ProjectWholeOrAbsent
  <2>1. RunIs(i, inits[i], stages[i], Left(i)) BY DEF ScaffoldInv, RunInv
  <2>2. ~None.there BY DEF None
  <2> QED BY <2>1, <2>2 DEF RunIs, WholeProject, FilesOf
<1>2. ScaffoldInv /\ [ScaffoldNext]_scaffoldVars => ScaffoldInv' BY ScaffoldInvStep
<1> QED BY <1>1, <1>2, ScaffoldInvInit, PTL DEF ScaffoldSpec

-----------------------------------------------------------------------------
(* Study: any tabs, decks and ladders.                                      *)

-----------------------------------------------------------------------------
\* A schedule, of which the properties need little more than that its numbers are.
CardRecs ==
    [state : {"new", "learning", "relearning", "review"}, step : Nat, interval : Int,
     lapsed : Int, ease : Int, due : Int]
CardsOf(d) == [Range(d) -> CardRecs]
DueOf(d, cards, at) == {i \in DOMAIN d : cards[d[i]].due <= at}

\* What is walked is what is due, whatever the order.
LEMMA DueOrderWalks ==
    ASSUME NEW d, d \in Seq(Range(d)), NEW cards \in CardsOf(d), NEW at \in Int
    PROVE  LET q == DueOrder(d, cards, at)
           IN  /\ q \in Seq(Range(d))
               /\ \A i \in DueOf(d, cards, at) : d[i] \in Range(q)
<1> DEFINE Sooner(i, j) ==
             LET a == cards[d[i]]
                 b == cards[d[j]]
             IN  IF (a.state = "new") # (b.state = "new") THEN a.state = "new"
                 ELSE a.due < b.due \/ (a.due = b.due /\ i < j)
           due == DueOf(d, cards, at)
           n == Cardinality(due)
           R == {ij \in due \X due : Sooner(ij[1], ij[2])}
           q == DueOrder(d, cards, at)
<1>1. IsFiniteSet(due)
  <2>1. Len(d) \in Nat /\ DOMAIN d = 1..Len(d) OBVIOUS
  <2>2. IsFiniteSet(1..Len(d)) BY <2>1, FS_Interval
  <2>3. due \in SUBSET (1..Len(d)) BY <2>1 DEF DueOf
  <2> QED BY <2>2, <2>3, FS_Subset
<1>2. \A i \in due : i \in Int /\ d[i] \in Range(d) /\ cards[d[i]].due \in Int
  BY DEF DueOf, CardsOf, CardRecs, Range
<1>3. \A i, j \in due : <<i, j>> \in R <=> Sooner(i, j) OBVIOUS
<1>4. \A i, j, k \in due :
        /\ ~Sooner(i, i)
        /\ i # j => Sooner(i, j) \/ Sooner(j, i)
        /\ Sooner(i, j) /\ Sooner(j, k) => Sooner(i, k)
  BY <1>2
<1>5. \A i \in due : Cardinality({j \in due : Sooner(j, i)}) + 1 = Rank(R, due)[i]
  <2> SUFFICES ASSUME NEW i \in due
               PROVE  Cardinality({j \in due : Sooner(j, i)}) + 1 = Rank(R, due)[i]
    OBVIOUS
  <2>1. Preceding(R, due, i) = {j \in due : Sooner(j, i)} BY <1>3 DEF Preceding
  <2> QED BY <2>1 DEF Rank
<1> DEFINE Place(i) == Cardinality({j \in due : Sooner(j, i)}) + 1
           Chosen(k) == CHOOSE i \in due : Place(i) = k
<1>6. q = [k \in 1..n |-> d[Chosen(k)]] BY DEF DueOrder, DueOf
<1> HIDE DEF R, Sooner
<1>7. Orders(R, due) BY <1>3, <1>4 DEF Orders
<1> HIDE DEF due, q
<1>8. n \in Nat BY <1>1, FS_CardinalityType
<1>9. ASSUME NEW k \in 1..n PROVE Chosen(k) \in due /\ Rank(R, due)[Chosen(k)] = k
  <2>1. \E i \in due : Place(i) = k BY <1>1, <1>5, <1>7, RanksSort
  <2>2. Chosen(k) \in due /\ Place(Chosen(k)) = k BY <2>1
  <2> QED BY <1>5, <2>2
<1> HIDE DEF Place, Chosen
<1>10. q \in Seq(Range(d))
  <2>1. \A k \in 1..n : q[k] \in Range(d) BY <1>2, <1>6, <1>9
  <2>2. q = [k \in 1..n |-> q[k]] BY <1>6
  <2> QED BY <1>8, <2>1, <2>2
<1>11. ASSUME NEW i \in due PROVE d[i] \in Range(q)
  <2> DEFINE k == Rank(R, due)[i]
             j == Chosen(k)
  <2>1. k \in 1..n BY <1>1, <1>7, RanksSort
  <2> HIDE DEF k
  <2>2. j \in due /\ Rank(R, due)[j] = k BY <1>9, <2>1
  <2>3. j = i BY <1>1, <1>7, <2>2, RanksSort DEF k
  <2>4. q[k] = d[j] /\ k \in DOMAIN q BY <1>6, <2>1
  <2> HIDE DEF j
  <2> QED BY <2>3, <2>4 DEF Range
<1> QED BY <1>10, <1>11 DEF q, due

\* A number between two is a number.
LEMMA ClampIs ==
    ASSUME NEW value \in Int, NEW low \in Int, NEW high \in Int
    PROVE  /\ Clamp(value, low, high) \in Int
           /\ low <= high => Clamp(value, low, high) \in low..high
           /\ Clamp(value, low, high) <= high
BY DEF Clamp

\* A grade makes a schedule of a schedule.
LEMMA SchedulesAre ==
    ASSUME NEW card \in CardRecs, NEW rating, NEW at \in Int,
           NEW later \in Schedules(card, rating, at)
    PROVE  later \in CardRecs
<1>1. /\ LearningSteps \in Seq(Int) /\ Len(LearningSteps) >= 1
      /\ RelearningSteps \in Seq(Int) /\ Len(RelearningSteps) >= 1
      /\ Day \in Int /\ GraduatingInterval \in Int /\ MaxInterval \in Int
      /\ EaseStart \in Int /\ EaseMin \in Int /\ EaseLapse \in Int
  BY StudyAssumption
<1>2. /\ card.step \in Nat /\ card.interval \in Int /\ card.lapsed \in Int /\ card.ease \in Int
      /\ card.state \in {"new", "learning", "relearning", "review"}
  BY DEF CardRecs
<1>3. ASSUME NEW c \in CardRecs, NEW ladder \in Seq(Int), NEW step \in Nat, step < Len(ladder)
      PROVE  Rung(c, ladder, step, at) \in CardRecs
  <2>1. ladder[step + 1] \in Int BY <1>3
  <2>2. at + ladder[step + 1] \in Int BY <2>1
  <2> DEFINE due == at + ladder[step + 1]
  <2> HIDE DEF due
  <2>3. [c EXCEPT !.step = step, !.due = due] \in CardRecs BY <1>3, <2>2 DEF CardRecs, due
  <2> QED BY <2>3 DEF Rung, due
<1>4. ASSUME NEW days \in Int PROVE InDays(card, days, at) \in CardRecs
  <2>1. at + days * Day \in Int BY <1>1
  <2> DEFINE due == at + days * Day
  <2> HIDE DEF due
  <2>2. [card EXCEPT !.state = "review", !.step = 0, !.interval = days, !.due = due] \in CardRecs
    BY <2>1 DEF CardRecs, due
  <2> QED BY <2>2 DEF InDays, due
<1>5. Ladder(card) \in Seq(Int) /\ Len(Ladder(card)) >= 1 BY <1>1 DEF Ladder
<1>6. Graduation(card) \in Int
  <2> DEFINE half == (card.lapsed + 1) \div 2
  <2>2. half \in Int BY <1>2
  <2> HIDE DEF half
  <2>3. Clamp(half, 1, MaxInterval) \in Int BY <1>1, <2>2, ClampIs
  <2>1. Clamp((card.lapsed + 1) \div 2, 1, MaxInterval) \in Int BY <2>3 DEF half
  <2> QED BY <1>1, <2>1 DEF Graduation
<1>7. \A days \in Grown(card) : days \in Int
  <2> SUFFICES ASSUME NEW days \in Grown(card) PROVE days \in Int OBVIOUS
  <2>1. card.interval * card.ease \in Int /\ card.interval + 1 \in Int BY <1>2
  <2>2. \A r \in Rounded(card.interval * card.ease) : r \in Int BY <2>1 DEF Rounded
  <2>3. PICK r \in Rounded(card.interval * card.ease) : days = Clamp(r, card.interval + 1, MaxInterval)
    BY DEF Grown
  <2> QED BY <1>1, <2>1, <2>2, <2>3, ClampIs
<1>8. CASE card.state = "new"
  <2> DEFINE step == IF rating = "again" THEN 0 ELSE Clamp(1, 0, Len(LearningSteps) - 1)
             begun == [card EXCEPT !.state = "learning"]
  <2>1. later = Rung(begun, LearningSteps, step, at) BY <1>8 DEF Schedules
  <2>2. step \in Nat /\ step < Len(LearningSteps)
    <3>1. Len(LearningSteps) - 1 \in Int /\ 0 <= Len(LearningSteps) - 1 BY <1>1
    <3> DEFINE top == Len(LearningSteps) - 1
    <3> HIDE DEF top
    <3>3. top \in Int /\ 0 <= top BY <3>1 DEF top
    <3>4. Clamp(1, 0, top) \in 0..top BY <3>3 DEF Clamp
    <3>2. Clamp(1, 0, Len(LearningSteps) - 1) \in 0..(Len(LearningSteps) - 1) BY <3>4 DEF top
    <3> QED BY <1>1, <3>1, <3>2
  <2>3. begun \in CardRecs BY DEF CardRecs
  <2> HIDE DEF step, begun
  <2> QED BY <1>1, <1>3, <2>1, <2>2, <2>3
<1>9. CASE card.state \in {"learning", "relearning"}
  <2>1. \/ later = Rung(card, Ladder(card), 0, at)
        \/ card.step + 1 < Len(Ladder(card)) /\ later = Rung(card, Ladder(card), card.step + 1, at)
        \/ later = InDays(card, Graduation(card), at)
    BY <1>9 DEF Schedules
  <2>2. CASE later = Rung(card, Ladder(card), 0, at) BY <1>3, <1>5, <2>2
  <2>3. CASE card.step + 1 < Len(Ladder(card)) /\ later = Rung(card, Ladder(card), card.step + 1, at)
    <3>1. card.step + 1 \in Nat BY <1>2
    <3> QED BY <1>3, <1>5, <2>3, <3>1
  <2>4. CASE later = InDays(card, Graduation(card), at) BY <1>4, <1>6, <2>4
  <2> QED BY <2>1, <2>2, <2>3, <2>4
<1>10. CASE card.state = "review"
  <2> DEFINE ease == Clamp(card.ease - EaseLapse, EaseMin, EaseStart)
             interval == card.interval
             lapse == [card EXCEPT !.state = "relearning", !.lapsed = interval, !.ease = ease]
  <2>1. later = Rung(lapse, RelearningSteps, 0, at) \/ \E days \in Grown(card) : later = InDays(card, days, at)
    BY <1>10 DEF Schedules
  <2>2. ease \in Int /\ interval \in Int
    <3>1. card.ease - EaseLapse \in Int BY <1>1, <1>2
    <3> QED BY <1>1, <1>2, <3>1, ClampIs
  <2> HIDE DEF ease, interval
  <2>3. lapse \in CardRecs BY <2>2 DEF CardRecs
  <2> HIDE DEF lapse
  <2>4. CASE later = Rung(lapse, RelearningSteps, 0, at) BY <1>1, <1>3, <2>3, <2>4
  <2> QED BY <1>4, <1>7, <2>1, <2>4
<1> QED BY <1>2, <1>8, <1>9, <1>10

-----------------------------------------------------------------------------
Cards == UNION {Range(d) : d \in Decks}
CardMaps == {<<>>} \cup UNION {CardsOf(d) : d \in Decks}
PageRecs ==
    [phase : {"closed", "mounted", "hydrated"}, deck : Decks \cup {<<>>}, cards : CardMaps,
     queue : Seq(Cards), index : Nat, revealed : BOOLEAN, shuffled : Seq(Cards),
     unsaved : BOOLEAN, graded : SUBSET Cards, todo : SUBSET Cards, session : SUBSET Cards,
     stepped : BOOLEAN]

\* A page: where it is in its walk, of which the part that lies behind was graded
\* unless the reader stepped.
PageIs(pg) ==
    /\ pg.phase # "closed" => pg.deck \in Decks
    /\ pg.phase = "mounted" => pg.index = 0 /\ pg.graded = {} /\ pg.shuffled = <<>>
    /\ pg.phase = "hydrated" =>
         /\ pg.cards \in CardsOf(pg.deck) /\ pg.queue \in Seq(Range(pg.deck))
         /\ pg.index <= Len(pg.queue)
         /\ pg.shuffled = <<>> \/ (pg.shuffled \in Seq(Range(pg.deck)) /\ Range(pg.shuffled) = Range(pg.deck))
         /\ ~pg.stepped =>
              /\ pg.todo \subseteq Range(pg.queue)
              /\ \A k \in 1..pg.index : pg.queue[k] \in pg.session

\* What a page has of a card it did not grade is what was stored last of it, unless
\* another page has stored it since.
CurrentAt(p) ==
    page[p].phase = "hydrated" =>
      \A t \in DOMAIN last :
        t \in Range(page[p].deck) /\ t \notin page[p].graded \cup behind[p] =>
          page[p].cards[t] = last[t]

StoredLast ==
    \A t \in DOMAIN last : stored.there /\ t \in DOMAIN stored.cards /\ stored.cards[t] = last[t]

StudyTyped ==
    /\ deck \in Decks /\ stored \in [there : BOOLEAN, cards : CardMaps] /\ minute \in Int
    /\ page \in [Pages -> PageRecs] /\ behind \in [Pages -> SUBSET Cards]

StudyInv ==
    StudyTyped /\ StoredLast /\ \A p \in Pages : PageIs(page[p]) /\ CurrentAt(p)

\* A page that nobody looks at, and a card that nobody has seen.
LEMMA NothingYet ==
    /\ Closed \in PageRecs /\ PageIs(Closed) /\ Closed.phase = "closed"
    /\ Closed.index = 0 /\ Closed.graded = {} /\ Closed.shuffled = <<>>
    /\ \A at \in Int : NewCard(at) \in CardRecs
    /\ \A d \in Decks : d \in Seq(Cards) /\ CardsOf(d) \subseteq CardMaps /\ Range(d) \subseteq Cards
<1>1. <<>> \in Seq(Cards) /\ <<>> \in CardMaps BY DEF CardMaps
<1>2. Closed \in PageRecs BY <1>1 DEF Closed, PageRecs
<1>3. Closed.phase = "closed" /\ Closed.index = 0 /\ Closed.graded = {} /\ Closed.shuffled = <<>>
  BY DEF Closed
<1>4. PageIs(Closed) BY <1>3 DEF PageIs
<1>5. ASSUME NEW at \in Int PROVE NewCard(at) \in CardRecs
  BY StudyAssumption DEF NewCard, CardRecs
<1>6. ASSUME NEW d \in Decks
      PROVE  d \in Seq(Cards) /\ CardsOf(d) \subseteq CardMaps /\ Range(d) \subseteq Cards
  <2>1. Range(d) \subseteq Cards BY DEF Cards
  <2>2. d \in Seq(Range(d)) BY StudyAssumption
  <2>3. d \in Seq(Cards) BY <2>1, <2>2
  <2> QED BY <2>1, <2>3 DEF CardMaps
<1> QED BY <1>2, <1>3, <1>4, <1>5, <1>6

\* Every tab is closed to begin with.
LEMMA StudyInvInit == StudyInit => StudyInv
<1> SUFFICES ASSUME StudyInit PROVE StudyInv OBVIOUS
<1>1. StudyTyped BY NothingYet DEF StudyInit, StudyTyped, CardMaps
<1>2. StoredLast BY DEF StudyInit, StoredLast
<1>3. ASSUME NEW p \in Pages PROVE PageIs(page[p]) /\ CurrentAt(p)
  <2>1. page[p] = Closed BY DEF StudyInit
  <2> QED BY <2>1, NothingYet DEF CurrentAt
<1> QED BY <1>1, <1>2, <1>3 DEF StudyInv

\* One page goes on and nothing is stored.
PageMoves(p, pg) ==
    /\ page' = [page EXCEPT ![p] = pg] /\ UNCHANGED <<stored, last>>
    /\ deck' \in Decks /\ minute' \in Int
    /\ behind' \in [Pages -> SUBSET Cards] /\ \A q \in Pages \ {p} : behind'[q] = behind[q]

\* A page that goes on leaves the others as they were.
LEMMA OnePage ==
    ASSUME StudyInv, NEW p \in Pages, NEW pg \in PageRecs, PageMoves(p, pg), PageIs(pg),
           pg.phase = "hydrated" =>
             \A t \in DOMAIN last :
               t \in Range(pg.deck) /\ t \notin pg.graded \cup behind'[p] => pg.cards[t] = last[t]
    PROVE  StudyInv'
<1>1. page'[p] = pg /\ \A q \in Pages \ {p} : page'[q] = page[q] /\ behind'[q] = behind[q]
  BY DEF StudyInv, StudyTyped, PageMoves
<1>2. StudyTyped' BY DEF StudyInv, StudyTyped, PageMoves
<1>3. StoredLast' BY DEF StudyInv, StoredLast, PageMoves
<1>4. ASSUME NEW q \in Pages PROVE PageIs(page[q])' /\ CurrentAt(q)'
  <2>1. last' = last BY DEF PageMoves
  <2>2. CASE q = p
    <3>1. PageIs(page[q])' BY <1>1, <2>2 DEF PageIs
    <3>2. CurrentAt(q)' BY <1>1, <2>1, <2>2 DEF CurrentAt
    <3> QED BY <3>1, <3>2
  <2>3. CASE q # p
    <3>1. PageIs(page[q]) /\ CurrentAt(q) /\ page'[q] = page[q] /\ behind'[q] = behind[q]
      BY <1>1, <2>3 DEF StudyInv
    <3>2. PageIs(page[q])' BY <3>1 DEF PageIs
    <3>3. CurrentAt(q)' BY <2>1, <3>1 DEF CurrentAt
    <3> QED BY <3>2, <3>3
  <2> QED BY <2>2, <2>3
<1> QED BY <1>2, <1>3, <1>4 DEF StudyInv

\* The server's rendering of a page.
LEMMA MountKeeps ==
    ASSUME StudyInv, NEW p \in Pages, Mount(p)
    PROVE  StudyInv'
<1> DEFINE cards == [t \in Range(deck) |-> NewCard(0)]
           pg == [Closed EXCEPT !.phase = "mounted", !.deck = deck, !.cards = cards,
                                !.queue = deck, !.unsaved = TRUE]
<1>1. deck \in Decks /\ page' = [page EXCEPT ![p] = pg] /\ UNCHANGED <<deck, stored, minute, last, behind>>
  BY DEF Mount, StudyInv, StudyTyped
<1>2. cards \in CardsOf(deck) BY NothingYet DEF CardsOf
<1> HIDE DEF cards
<1>3. deck \in Seq(Cards) /\ cards \in CardMaps BY <1>1, <1>2, NothingYet
<1>4. pg \in PageRecs /\ pg.phase = "mounted" /\ pg.deck = deck /\ pg.index = Closed.index
      /\ pg.graded = Closed.graded /\ pg.shuffled = Closed.shuffled
  BY <1>1, <1>3, NothingYet DEF PageRecs
<1> HIDE DEF pg
<1>5. PageIs(pg) BY <1>1, <1>4, NothingYet DEF PageIs
<1>6. PageMoves(p, pg) BY <1>1 DEF PageMoves, StudyInv, StudyTyped
<1> QED BY <1>4, <1>5, <1>6, OnePage

\* What was stored is taken over, and what is due of it is walked.
LEMMA HydrateKeeps ==
    ASSUME StudyInv, NEW p \in Pages, Hydrate(p)
    PROVE  StudyInv'
<1> DEFINE d == page[p].deck
           texts == Range(d)
           cards == [t \in texts |-> IF stored.there /\ t \in DOMAIN stored.cards
                                     THEN stored.cards[t] ELSE NewCard(minute)]
           queue == DueOrder(d, cards, minute)
           todo == {t \in texts : cards[t].due <= minute}
           pg == [page[p] EXCEPT !.phase = "hydrated", !.cards = cards, !.unsaved = TRUE,
                                 !.queue = queue, !.todo = todo]
<1>1. /\ page[p] \in PageRecs /\ page[p].phase = "mounted" /\ d \in Decks /\ PageIs(page[p])
      /\ minute \in Int /\ stored \in [there : BOOLEAN, cards : CardMaps]
  BY DEF StudyInv, StudyTyped, Hydrate, PageIs
<1>2. page' = [page EXCEPT ![p] = pg] /\ UNCHANGED <<deck, stored, minute, last>>
      /\ behind' = [behind EXCEPT ![p] = {}]
  BY DEF Hydrate, StudyInv, StudyTyped
<1>3. d \in Seq(texts) /\ d \in Seq(Cards) /\ texts \subseteq Cards /\ CardsOf(d) \subseteq CardMaps
  BY <1>1, NothingYet, StudyAssumption
<1>4. cards \in CardsOf(d)
  <2>1. stored.cards \in CardMaps BY <1>1
  <2>2. \A t \in DOMAIN stored.cards : stored.cards[t] \in CardRecs BY <2>1 DEF CardMaps, CardsOf
  <2>3. NewCard(minute) \in CardRecs BY <1>1, NothingYet
  <2> QED BY <2>2, <2>3 DEF CardsOf
<1>5. queue \in Seq(texts) /\ \A i \in DueOf(d, cards, minute) : d[i] \in Range(queue)
  BY <1>1, <1>3, <1>4, DueOrderWalks
<1>6. todo \subseteq Range(queue) /\ todo \subseteq Cards
  <2> SUFFICES ASSUME NEW t \in todo PROVE t \in Range(queue) /\ t \in Cards OBVIOUS
  <2>1. PICK i \in DOMAIN d : t = d[i] BY DEF Range
  <2>2. i \in DueOf(d, cards, minute) BY <2>1 DEF DueOf
  <2> QED BY <1>3, <1>5, <2>1, <2>2
<1>7. \A t \in DOMAIN last : t \in texts => cards[t] = last[t]
  BY DEF StudyInv, StoredLast
<1> HIDE DEF cards, queue, todo, texts
<1>8. queue \in Seq(Cards)
  <2>1. \A S, T : S \subseteq T => Seq(S) \subseteq Seq(T) OBVIOUS
  <2> QED BY <1>3, <1>5, <2>1
<1>9. /\ pg \in PageRecs /\ pg.phase = "hydrated" /\ pg.deck = d /\ pg.cards = cards /\ pg.queue = queue
      /\ pg.todo = todo /\ pg.index = page[p].index /\ pg.shuffled = page[p].shuffled
      /\ pg.graded = page[p].graded
  BY <1>1, <1>3, <1>4, <1>6, <1>8 DEF PageRecs
<1> HIDE DEF pg, d
<1>10. page[p].index = 0 /\ page[p].shuffled = <<>> BY <1>1 DEF PageIs
<1>11. PageIs(pg)
  <2>1. Len(queue) \in Nat BY <1>8
  <2> QED BY <1>1, <1>4, <1>5, <1>6, <1>9, <1>10, <2>1 DEF PageIs, texts
<1>12. PageMoves(p, pg) BY <1>2 DEF PageMoves, StudyInv, StudyTyped
<1> QED BY <1>7, <1>9, <1>11, <1>12, OnePage DEF texts

\* The whole of a page is stored: what it graded, what nobody else has stored since,
\* and over what others have.
LEMMA PersistKeeps ==
    ASSUME StudyInv, NEW p \in Pages, Persist(p)
    PROVE  StudyInv'
<1> DEFINE none == {}
           pg == [page[p] EXCEPT !.unsaved = FALSE, !.graded = none]
           d == page[p].deck
           told == page[p].graded \cup behind[p]
<1>1. /\ page[p] \in PageRecs /\ page[p].phase = "hydrated" /\ PageIs(page[p]) /\ CurrentAt(p)
      /\ page[p].cards \in CardsOf(d) /\ d \in Decks
  BY DEF StudyInv, StudyTyped, Persist, MayPersist, Open, PageIs
<1>2. page' = [page EXCEPT ![p] = pg] /\ UNCHANGED <<deck, minute>>
      /\ stored' = [there |-> TRUE, cards |-> page[p].cards]
  BY DEF Persist, StudyInv, StudyTyped
<1>3. /\ DOMAIN last' = (DOMAIN last \cup page[p].graded) \cap Range(d)
      /\ \A t \in DOMAIN last' : last'[t] = IF t \in told THEN page[p].cards[t] ELSE last[t]
  BY DEF Persist
<1>4. behind' = [q \in Pages |-> IF q = p THEN {} ELSE behind[q] \cup page[p].graded \cup behind[p]]
  BY DEF Persist
<1>5. /\ pg \in PageRecs /\ pg.phase = "hydrated" /\ pg.deck = d /\ pg.cards = page[p].cards
      /\ pg.queue = page[p].queue /\ pg.index = page[p].index /\ pg.shuffled = page[p].shuffled
      /\ pg.stepped = page[p].stepped /\ pg.todo = page[p].todo /\ pg.session = page[p].session
  BY <1>1 DEF PageRecs
<1> HIDE DEF pg
<1>6. PageIs(pg) BY <1>1, <1>5 DEF PageIs
<1>7. \A t \in DOMAIN last' : last'[t] = page[p].cards[t]
  <2> SUFFICES ASSUME NEW t \in DOMAIN last', t \notin told PROVE last[t] = page[p].cards[t]
    BY <1>3
  <2>1. t \in DOMAIN last /\ t \in Range(d) BY <1>3
  <2> QED BY <1>1, <2>1 DEF CurrentAt
<1>8. page[p].cards \in CardMaps /\ DOMAIN page[p].cards = Range(d)
  BY <1>1, NothingYet DEF CardsOf
<1>9. page[p].graded \subseteq Cards /\ behind[p] \subseteq Cards
  BY <1>1 DEF PageRecs, StudyInv, StudyTyped
<1>10. StudyTyped'
  <2>1. stored' \in [there : BOOLEAN, cards : CardMaps] BY <1>2, <1>8
  <2>2. behind' \in [Pages -> SUBSET Cards] BY <1>4, <1>9 DEF StudyInv, StudyTyped
  <2> QED BY <1>2, <1>5, <2>1, <2>2 DEF StudyInv, StudyTyped
<1>11. StoredLast'
  <2>1. stored'.there /\ stored'.cards = page[p].cards BY <1>2
  <2> QED BY <1>3, <1>7, <1>8, <2>1 DEF StoredLast
<1>12. ASSUME NEW q \in Pages PROVE PageIs(page[q])' /\ CurrentAt(q)'
  <2>1. CASE q = p
    <3>1. page'[q] = pg BY <1>2, <2>1 DEF StudyInv, StudyTyped
    <3>2. PageIs(page[q])' BY <1>6, <3>1 DEF PageIs
    <3>3. CurrentAt(q)' BY <1>5, <1>7, <3>1 DEF CurrentAt
    <3> QED BY <3>2, <3>3
  <2>2. CASE q # p
    <3>1. page'[q] = page[q] /\ PageIs(page[q]) /\ CurrentAt(q)
      BY <1>2, <2>2 DEF StudyInv, StudyTyped
    <3>2. PageIs(page[q])' BY <3>1 DEF PageIs
    <3>3. behind'[q] = behind[q] \cup told BY <1>4, <2>2
    <3>4. CurrentAt(q)'
      <4> SUFFICES ASSUME page[q].phase = "hydrated", NEW t \in DOMAIN last',
                          t \in Range(page[q].deck), t \notin page[q].graded \cup behind'[q]
                   PROVE  page[q].cards[t] = last'[t]
        BY <3>1 DEF CurrentAt
      <4>1. t \notin told /\ t \notin page[q].graded \cup behind[q] BY <3>3
      <4>2. t \in DOMAIN last /\ last'[t] = last[t] BY <1>3, <4>1
      <4> QED BY <3>1, <4>1, <4>2 DEF CurrentAt
    <3> QED BY <3>2, <3>4
  <2> QED BY <2>1, <2>2
<1> QED BY <1>10, <1>11, <1>12 DEF StudyInv

\* A page whose walk, cards and grades stay.
LEMMA SamePage ==
    ASSUME StudyInv, NEW p \in Pages, page[p].phase = "hydrated", NEW pg \in PageRecs,
           PageMoves(p, pg), behind' = behind, pg.phase = "hydrated", PageIs(pg), pg.deck = page[p].deck,
           pg.cards = page[p].cards, pg.graded = page[p].graded
    PROVE  StudyInv'
<1>1. CurrentAt(p) BY DEF StudyInv
<1>2. \A t \in DOMAIN last :
        t \in Range(pg.deck) /\ t \notin pg.graded \cup behind'[p] => pg.cards[t] = last[t]
  BY <1>1 DEF CurrentAt
<1> QED BY <1>2, OnePage

\* What is not stored, or only looked at.
LEMMA RefuseKeeps ==
    ASSUME StudyInv, NEW p \in Pages, Refuse(p) \/ Flip(p)
    PROVE  StudyInv'
<1>1. page[p] \in PageRecs /\ page[p].phase = "hydrated" /\ PageIs(page[p])
  BY DEF StudyInv, StudyTyped, Refuse, Flip, OnCard, Open
<1>2. PICK unsaved \in BOOLEAN, revealed \in BOOLEAN :
        page' = [page EXCEPT ![p] = [page[p] EXCEPT !.unsaved = unsaved, !.revealed = revealed]]
  <2>1. CASE Refuse(p)
    <3> DEFINE revealed == page[p].revealed
    <3>1. revealed \in BOOLEAN BY <1>1 DEF PageRecs
    <3>2. [page[p] EXCEPT !.unsaved = FALSE] = [page[p] EXCEPT !.unsaved = FALSE, !.revealed = revealed]
      BY <1>1 DEF PageRecs
    <3>3. page' = [page EXCEPT ![p] = [page[p] EXCEPT !.unsaved = FALSE]]
      BY <2>1 DEF Refuse, StudyInv, StudyTyped
    <3> HIDE DEF revealed
    <3> QED BY <3>1, <3>2, <3>3
  <2>2. CASE Flip(p)
    <3> DEFINE unsaved == page[p].unsaved  revealed == ~page[p].revealed
    <3>1. revealed \in BOOLEAN /\ unsaved \in BOOLEAN BY <1>1 DEF PageRecs
    <3>2. [page[p] EXCEPT !.revealed = revealed]
          = [page[p] EXCEPT !.unsaved = unsaved, !.revealed = revealed]
      BY <1>1 DEF PageRecs
    <3>3. page' = [page EXCEPT ![p] = [page[p] EXCEPT !.revealed = revealed]]
      BY <2>2 DEF Flip, StudyInv, StudyTyped
    <3> HIDE DEF unsaved, revealed
    <3> QED BY <3>1, <3>2, <3>3
  <2> QED BY <2>1, <2>2
<1> DEFINE pg == [page[p] EXCEPT !.unsaved = unsaved, !.revealed = revealed]
<1>3. UNCHANGED <<deck, stored, minute, last, behind>> BY DEF Refuse, Flip
<1>4. /\ pg \in PageRecs /\ pg.phase = "hydrated" /\ pg.deck = page[p].deck /\ pg.cards = page[p].cards
      /\ pg.queue = page[p].queue /\ pg.index = page[p].index /\ pg.shuffled = page[p].shuffled
      /\ pg.stepped = page[p].stepped /\ pg.todo = page[p].todo /\ pg.session = page[p].session
      /\ pg.graded = page[p].graded
  BY <1>1, <1>2 DEF PageRecs
<1>5. page' = [page EXCEPT ![p] = pg] BY <1>2
<1> HIDE DEF pg
<1>6. PageIs(pg) BY <1>1, <1>4 DEF PageIs
<1>7. PageMoves(p, pg) BY <1>3, <1>5 DEF PageMoves, StudyInv, StudyTyped
<1> QED BY <1>1, <1>3, <1>4, <1>6, <1>7, SamePage

\* A grade counts for the card that is shown, and the walk goes on past it.
LEMMA GradeKeeps ==
    ASSUME StudyInv, NEW p \in Pages, Grade(p)
    PROVE  StudyInv'
<1> DEFINE c == Card(p)
           d == page[p].deck
<1>1. /\ page[p] \in PageRecs /\ page[p].phase = "hydrated" /\ PageIs(page[p]) /\ CurrentAt(p)
      /\ page[p].index < Len(page[p].queue) /\ minute \in Int
      /\ UNCHANGED <<deck, stored, minute, last, behind>>
  BY DEF StudyInv, StudyTyped, Grade, OnCard, Open
<1>2. /\ d \in Decks /\ page[p].cards \in CardsOf(d) /\ page[p].queue \in Seq(Range(d))
      /\ page[p].index \in Nat
  BY <1>1 DEF PageIs, PageRecs
<1>3. c \in Range(d) /\ c = page[p].queue[page[p].index + 1] /\ page[p].index + 1 \in Nat
      /\ page[p].index + 1 <= Len(page[p].queue)
  BY <1>1, <1>2 DEF Card
<1>4. PICK rating \in {"again", "good"} :
        \E card \in Schedules(page[p].cards[c], rating, minute) :
          page' = [page EXCEPT ![p] =
                     [page[p] EXCEPT !.cards = [page[p].cards EXCEPT ![c] = card], !.revealed = FALSE,
                                     !.unsaved = TRUE, !.index = page[p].index + 1,
                                     !.queue = page[p].queue, !.graded = page[p].graded \cup {c},
                                     !.session = page[p].session \cup {c}]]
  BY Zenon DEF Grade, Walk
<1> PICK card \in Schedules(page[p].cards[c], rating, minute) :
        page' = [page EXCEPT ![p] =
                   [page[p] EXCEPT !.cards = [page[p].cards EXCEPT ![c] = card], !.revealed = FALSE,
                                   !.unsaved = TRUE, !.index = page[p].index + 1,
                                   !.queue = page[p].queue, !.graded = page[p].graded \cup {c},
                                   !.session = page[p].session \cup {c}]]
  BY <1>4
<1>5. card \in CardRecs
  <2>1. page[p].cards[c] \in CardRecs BY <1>2, <1>3 DEF CardsOf
  <2> QED BY <1>1, <2>1, SchedulesAre
<1> DEFINE cards == [page[p].cards EXCEPT ![c] = card]
           index == page[p].index + 1
           queue == page[p].queue
           graded == page[p].graded \cup {c}
           session == page[p].session \cup {c}
           pg == [page[p] EXCEPT !.cards = cards, !.revealed = FALSE, !.unsaved = TRUE, !.index = index,
                                 !.queue = queue, !.graded = graded, !.session = session]
<1>6. page' = [page EXCEPT ![p] = pg] OBVIOUS
<1>7. c \in Cards BY <1>2, <1>3, NothingYet
<1>8. /\ cards \in CardsOf(d) /\ cards \in CardMaps
      /\ \A t \in Range(d) : t # c => cards[t] = page[p].cards[t]
  <2>1. cards \in CardsOf(d) BY <1>2, <1>5 DEF CardsOf
  <2>2. \A t \in Range(d) : t # c => cards[t] = page[p].cards[t] BY <1>2 DEF CardsOf
  <2> HIDE DEF cards
  <2> QED BY <1>2, <2>1, <2>2, NothingYet
<1>9. index \in Nat /\ queue \in Seq(Cards) /\ graded \subseteq Cards /\ session \subseteq Cards
  BY <1>1, <1>3, <1>7 DEF PageRecs
<1>10. queue[index] = c /\ \A k \in 1..index : k = index \/ k \in 1..page[p].index
  BY <1>2, <1>3
<1>11. index <= Len(queue) /\ queue = page[p].queue /\ session = page[p].session \cup {c}
       /\ graded = page[p].graded \cup {c}
  BY <1>3
<1> HIDE DEF cards, index, queue, graded, session, c
<1>12. /\ pg \in PageRecs /\ pg.phase = "hydrated" /\ pg.deck = d /\ pg.cards = cards
       /\ pg.queue = queue /\ pg.index = index /\ pg.graded = graded /\ pg.session = session
       /\ pg.shuffled = page[p].shuffled /\ pg.stepped = page[p].stepped /\ pg.todo = page[p].todo
  BY <1>1, <1>8, <1>9 DEF PageRecs
<1> HIDE DEF pg, d
<1>13. PageIs(pg)
  <2>1. page[p].shuffled = <<>>
        \/ (page[p].shuffled \in Seq(Range(d)) /\ Range(page[p].shuffled) = Range(d))
    BY <1>1 DEF PageIs, d
  <2>2. ~pg.stepped => pg.todo \subseteq Range(pg.queue)
    BY <1>1, <1>11, <1>12 DEF PageIs
  <2>3. ~pg.stepped => \A k \in 1..pg.index : pg.queue[k] \in pg.session
    BY <1>1, <1>10, <1>11, <1>12 DEF PageIs
  <2> QED BY <1>2, <1>8, <1>11, <1>12, <2>1, <2>2, <2>3 DEF PageIs
<1>14. \A t \in DOMAIN last :
         t \in Range(pg.deck) /\ t \notin pg.graded \cup behind'[p] => pg.cards[t] = last[t]
  BY <1>1, <1>8, <1>11, <1>12 DEF CurrentAt, d
<1>15. PageMoves(p, pg) BY <1>1, <1>6 DEF PageMoves, StudyInv, StudyTyped
<1> QED BY <1>12, <1>13, <1>14, <1>15, OnePage

\* A card back or forth: no grade, and the walk no longer answers for all of them.
LEMMA StepKeeps ==
    ASSUME StudyInv, NEW p \in Pages, Step(p)
    PROVE  StudyInv'
<1>1. /\ page[p] \in PageRecs /\ page[p].phase = "hydrated" /\ PageIs(page[p])
      /\ UNCHANGED <<deck, stored, minute, last, behind>>
  BY DEF StudyInv, StudyTyped, Step, Open
<1>2. page[p].index \in Nat /\ Len(page[p].queue) \in Nat BY <1>1 DEF PageRecs
<1>3. PICK delta \in {-1, 1} :
        page' = [page EXCEPT ![p] =
                   [page[p] EXCEPT !.revealed = FALSE, !.stepped = TRUE,
                                   !.index = Clamp(page[p].index + delta, 0, Len(page[p].queue))]]
  BY DEF Step, StudyInv, StudyTyped
<1> DEFINE index == Clamp(page[p].index + delta, 0, Len(page[p].queue))
           pg == [page[p] EXCEPT !.revealed = FALSE, !.stepped = TRUE, !.index = index]
<1>4. index \in Nat /\ index <= Len(page[p].queue) BY <1>2 DEF Clamp
<1>5. page' = [page EXCEPT ![p] = pg] BY <1>3
<1> HIDE DEF index
<1>6. /\ pg \in PageRecs /\ pg.phase = "hydrated" /\ pg.deck = page[p].deck /\ pg.cards = page[p].cards
      /\ pg.queue = page[p].queue /\ pg.index = index /\ pg.shuffled = page[p].shuffled
      /\ pg.stepped /\ pg.graded = page[p].graded
  BY <1>1, <1>4 DEF PageRecs
<1> HIDE DEF pg
<1>7. PageIs(pg) BY <1>1, <1>4, <1>6 DEF PageIs
<1>8. PageMoves(p, pg) BY <1>1, <1>5 DEF PageMoves, StudyInv, StudyTyped
<1> QED BY <1>1, <1>6, <1>7, <1>8, SamePage

\* An order of a deck's texts holds each of them.
LEMMA OrdersHoldAll ==
    ASSUME NEW d \in Decks, NEW order \in SetToSeqs(Range(d))
    PROVE  order \in Seq(Range(d)) /\ Range(order) = Range(d)
<1> DEFINE S == Range(d)
           n == Cardinality(S)
<1>1. IsFiniteSet(S)
  <2>1. d \in Seq(S) BY StudyAssumption
  <2>2. Len(d) \in Nat /\ d \in [1..Len(d) -> S] BY <2>1
  <2>3. IsFiniteSet(1..Len(d)) BY <2>2, FS_Interval
  <2>4. d \in Surjection(1..Len(d), S) BY <2>2 DEF Surjection, Range
  <2> QED BY <2>3, <2>4, FS_Surjection
<1> HIDE DEF S
<1>2. n \in Nat BY <1>1, FS_CardinalityType
<1>3. order \in [1..n -> S] /\ IsInjective(order) BY DEF SetToSeqs, IsInjective, S
<1>4. order \in Injection(1..n, S) BY <1>3 DEF Injection
<1>5. IsFiniteSet(1..n) /\ Cardinality(1..n) = n BY <1>2, FS_Interval
<1>6. order \in Surjection(1..n, S) BY <1>1, <1>4, <1>5, FS_Injection
<1>7. Range(order) = S BY <1>3, <1>6 DEF Surjection, Range
<1>8. order \in Seq(S) BY <1>2, <1>3
<1> QED BY <1>7, <1>8 DEF S

\* A walk over every card.
LEMMA AfreshKeeps ==
    ASSUME StudyInv, NEW p \in Pages, page[p].phase = "hydrated",
           UNCHANGED <<deck, stored, minute, last, behind>>, NEW order, NEW queue,
           order = <<>> \/ (order \in Seq(Range(page[p].deck)) /\ Range(order) = Range(page[p].deck)),
           queue = (IF order = <<>> THEN page[p].deck ELSE order), Afresh(p, order, queue)
    PROVE  StudyInv'
<1> DEFINE d == page[p].deck
           todo == Range(d)
           none == {}
           pg == [page[p] EXCEPT !.index = 0, !.revealed = FALSE, !.shuffled = order, !.queue = queue,
                                 !.todo = todo, !.session = none, !.stepped = FALSE]
<1>1. page[p] \in PageRecs /\ PageIs(page[p]) /\ d \in Decks BY DEF StudyInv, StudyTyped, PageIs
<1>2. d \in Seq(Range(d)) /\ d \in Seq(Cards) /\ Range(d) \subseteq Cards
  BY <1>1, NothingYet, StudyAssumption
<1>3. queue \in Seq(Range(d)) /\ Range(queue) = Range(d) BY <1>2
<1>4. \A S, T : S \subseteq T => Seq(S) \subseteq Seq(T) OBVIOUS
<1>5. queue \in Seq(Cards) /\ order \in Seq(Cards) /\ todo \subseteq Cards
  <2>1. queue \in Seq(Cards) BY <1>2, <1>3, <1>4
  <2>2. CASE order = <<>> BY <1>2, <2>1, <2>2
  <2>3. CASE order \in Seq(Range(d)) BY <1>2, <1>4, <2>1, <2>3
  <2> QED BY <2>2, <2>3
<1>6. page' = [page EXCEPT ![p] = pg] BY DEF Afresh, StudyInv, StudyTyped
<1> HIDE DEF todo
<1>7. /\ pg \in PageRecs /\ pg.phase = "hydrated" /\ pg.deck = d /\ pg.cards = page[p].cards
      /\ pg.queue = queue /\ pg.index = 0 /\ pg.shuffled = order
      /\ pg.todo = todo /\ pg.graded = page[p].graded
  BY <1>1, <1>5 DEF PageRecs
<1> HIDE DEF pg, d
<1>8. PageIs(pg)
  <2>1. pg.cards \in CardsOf(d) BY <1>1, <1>7 DEF PageIs, d
  <2>2. order = <<>> \/ (order \in Seq(Range(d)) /\ Range(order) = Range(d)) BY DEF d
  <2>3. Len(queue) \in Nat BY <1>5
  <2>4. pg.todo \subseteq Range(pg.queue) BY <1>3, <1>7 DEF todo
  <2> QED BY <1>1, <1>3, <1>7, <2>1, <2>2, <2>3, <2>4 DEF PageIs
<1>9. PageMoves(p, pg) BY <1>6 DEF PageMoves, StudyInv, StudyTyped
<1> QED BY <1>7, <1>8, <1>9, SamePage DEF d

\* Again, in the order of the last shuffle, or shuffled.
LEMMA RestartKeeps ==
    ASSUME StudyInv, NEW p \in Pages, Restart(p) \/ Shuffle(p)
    PROVE  StudyInv'
<1>1. /\ page[p].phase = "hydrated" /\ PageIs(page[p]) /\ page[p].deck \in Decks
      /\ UNCHANGED <<deck, stored, minute, last, behind>>
  BY DEF StudyInv, Restart, Shuffle, Open, PageIs
<1> DEFINE d == page[p].deck
<1>2. CASE Restart(p)
  <2> DEFINE order == page[p].shuffled
             queue == IF order = <<>> THEN d ELSE order
  <2>1. Afresh(p, order, queue) BY <1>2 DEF Restart
  <2>2. order = <<>> \/ (order \in Seq(Range(d)) /\ Range(order) = Range(d)) BY <1>1 DEF PageIs
  <2>3. queue = IF order = <<>> THEN page[p].deck ELSE order OBVIOUS
  <2> HIDE DEF order, queue
  <2> QED BY <1>1, <2>1, <2>2, <2>3, AfreshKeeps
<1>3. CASE Shuffle(p)
  <2>1. PICK order \in SetToSeqs(Range(d)) : Afresh(p, order, order) BY <1>3 DEF Shuffle
  <2>2. order \in Seq(Range(d)) /\ Range(order) = Range(d) BY <1>1, OrdersHoldAll
  <2> DEFINE queue == IF order = <<>> THEN d ELSE order
  <2>3. queue = order
    <3>1. CASE order = <<>>
      <4>1. Range(order) = {} BY <3>1 DEF Range
      <4>2. d \in Seq(Range(d)) BY <1>1, StudyAssumption
      <4>3. d \in Seq({}) BY <2>2, <4>1, <4>2
      <4>4. d = <<>> BY <4>3
      <4> QED BY <3>1, <4>4
    <3> QED BY <3>1
  <2>4. queue = IF order = <<>> THEN page[p].deck ELSE order OBVIOUS
  <2>5. Afresh(p, order, queue) BY <2>1, <2>3
  <2> HIDE DEF queue
  <2> QED BY <1>1, <2>2, <2>4, <2>5, AfreshKeeps
<1> QED BY <1>2, <1>3

\* What a closed tab showed is gone.
LEMMA CloseKeeps ==
    ASSUME StudyInv, NEW p \in Pages, Close(p)
    PROVE  StudyInv'
<1>1. PageMoves(p, Closed) BY DEF Close, PageMoves, StudyInv, StudyTyped
<1> QED BY <1>1, NothingYet, OnePage

\* Time passes, and the site is published again.
LEMMA WorldKeeps ==
    ASSUME StudyInv, Tick \/ Republish \/ UNCHANGED studyVars
    PROVE  StudyInv'
<1>1. /\ UNCHANGED <<stored, page, last, behind>> /\ deck' \in Decks /\ minute' \in Int
  BY DEF Tick, Republish, studyVars, StudyInv, StudyTyped
<1>2. StudyTyped' BY <1>1 DEF StudyInv, StudyTyped
<1>3. StoredLast' BY <1>1 DEF StudyInv, StoredLast
<1>4. ASSUME NEW p \in Pages PROVE PageIs(page[p])' /\ CurrentAt(p)'
  <2>1. PageIs(page[p]) /\ CurrentAt(p) BY DEF StudyInv
  <2>2. PageIs(page[p])' BY <1>1, <2>1 DEF PageIs
  <2>3. CurrentAt(p)' BY <1>1, <2>1 DEF CurrentAt
  <2> QED BY <2>2, <2>3
<1> QED BY <1>2, <1>3, <1>4 DEF StudyInv

\* Whatever a reader does next.
LEMMA StudyInvStep == StudyInv /\ [StudyNext]_studyVars => StudyInv'
<1> SUFFICES ASSUME StudyInv, [StudyNext]_studyVars PROVE StudyInv' OBVIOUS
<1>1. ASSUME NEW p \in Pages, Mount(p) PROVE StudyInv' BY <1>1, MountKeeps
<1>2. ASSUME NEW p \in Pages, Hydrate(p) PROVE StudyInv' BY <1>2, HydrateKeeps
<1>3. ASSUME NEW p \in Pages, Persist(p) PROVE StudyInv' BY <1>3, PersistKeeps
<1>4. ASSUME NEW p \in Pages, Refuse(p) \/ Flip(p) PROVE StudyInv' BY <1>4, RefuseKeeps
<1>5. ASSUME NEW p \in Pages, Grade(p) PROVE StudyInv' BY <1>5, GradeKeeps
<1>6. ASSUME NEW p \in Pages, Step(p) PROVE StudyInv' BY <1>6, StepKeeps
<1>7. ASSUME NEW p \in Pages, Restart(p) \/ Shuffle(p) PROVE StudyInv' BY <1>7, RestartKeeps
<1>8. ASSUME NEW p \in Pages, Close(p) PROVE StudyInv' BY <1>8, CloseKeeps
<1>9. ASSUME Tick \/ Republish \/ UNCHANGED studyVars PROVE StudyInv' BY <1>9, WorldKeeps
<1> QED BY <1>1, <1>2, <1>3, <1>4, <1>5, <1>6, <1>7, <1>8, <1>9, Zenon DEF StudyNext

\* The inductive invariant says what the property says.
LEMMA CardsComeBackFollows == StudyInv => CardsComeBack
<1> SUFFICES ASSUME StudyInv PROVE CardsComeBack OBVIOUS
<1>1. StoredLast BY DEF StudyInv
<1>2. ASSUME NEW p \in Pages, Open(p), ~OnCard(p), ~page[p].stepped
      PROVE  page[p].todo \subseteq page[p].session
  <2>1. page[p] \in PageRecs /\ page[p].phase = "hydrated" /\ PageIs(page[p])
    BY <1>2 DEF StudyInv, StudyTyped, Open
  <2>2. /\ page[p].index \in Nat /\ Len(page[p].queue) \in Nat
        /\ DOMAIN page[p].queue = 1..Len(page[p].queue)
    BY <2>1 DEF PageRecs
  <2>3. page[p].index = Len(page[p].queue) BY <1>2, <2>1, <2>2 DEF OnCard, Open, PageIs
  <2>4. Range(page[p].queue) \subseteq page[p].session BY <1>2, <2>1, <2>2, <2>3 DEF PageIs, Range
  <2> QED BY <1>2, <2>1, <2>4 DEF PageIs
<1> QED BY <1>1, <1>2 DEF CardsComeBack, StoredLast

\* A stored grade stays until another is stored, and a walk made by grades alone
\* reaches every card (flashcards.tsx).
THEOREM CardsAlwaysComeBack == StudySpec => []CardsComeBack
<1>1. StudyInit => StudyInv BY StudyInvInit
<1>2. StudyInv /\ [StudyNext]_studyVars => StudyInv' BY StudyInvStep
<1>3. StudyInv => CardsComeBack BY CardsComeBackFollows
<1> QED BY <1>1, <1>2, <1>3, PTL DEF StudySpec

-----------------------------------------------------------------------------
(* Abstention. *)

\* What a query scored against the generation and the denials there were.
ScoreThen(h, build, viewer, a, query) ==
    Max({NoScore} \cup
        {p.likeness[query] : p \in {k \in h[a.gen] :
            build \in k.admitted /\ k.aud \cap viewer # {} /\ k.name \notin a.under}})

\* Points as a run has them, and a block as it is printed.
PointsInv(h, points, against, build) ==
    /\ \A a \in against : a.gen \in 1..MaxGen
    /\ \A x \in points :
         /\ x.query \in Questions \cup Probes /\ x.inCorpus = (x.query \in Questions)
         /\ x.score \in Cosines
         /\ \E a \in against : x.score = ScoreThen(h, build, Widest, a, x.query)
BlockInv(h, b) ==
    b.points # {} =>
      /\ b.is = "number" /\ PointsInv(h, b.points, b.against, b.digest)
      /\ In(b.points) # {} /\ Out(b.points) # {}
      /\ b.floor = Thousandths(2 * PasteValue(b.points))
CalInv(h, served, c) ==
    /\ c.pin \in 0..MaxGen
    /\ c.pc \in {"idle", "counted", "scoring"}
    /\ c.pc # "scoring" => c.points = {} /\ c.against = {}
    /\ c.pc # "idle" => (IF c.pin = 0 THEN served ELSE c.pin) \in 1..MaxGen
    /\ c.pc = "scoring" =>
         /\ c.left \subseteq Questions \cup Probes
         /\ PointsInv(h, c.points, c.against, c.build)
         /\ \E o \in Probes : o \in c.left \/ \E x \in c.points : x.query = o
Lines == [action : {"similarity_searched", "search_abstained"},
          top : Cosines \cup {NoScore}, looked : BOOLEAN]
LogInv(l) == l \in Seq(Lines) /\ \A i \in DOMAIN l : l[i].top # NoScore => l[i].looked
GateInv ==
    /\ releases \in Histories /\ active \in 0..MaxGen
    /\ CalInv(releases, active, cal)
    /\ BlockInv(releases, printed) /\ BlockInv(releases, instance)
    /\ BlockInv(releases, door.gate)
    /\ LogInv(log)

\* Scores are numbers, and that of no passage is below all.
LEMMA CosinesAre ==
    ASSUME NEW k \in Cosines
    PROVE  k \in Int /\ NoScore <= k /\ k <= 10000
<1> DEFINE lo == -10000  hi == 10000
<1>1. k \in lo..hi
  <2>1. Cosines = lo..hi BY SMTT(30) DEF Cosines
  <2> HIDE DEF lo, hi
  <2> QED BY <2>1
<1>2. lo \in Int /\ hi \in Int OBVIOUS
<1>3. NoScore \in Int /\ NoScore <= lo BY DEF NoScore
<1>4. hi = 10000 OBVIOUS
<1> HIDE DEF lo, hi
<1>5. k \in Int /\ lo <= k /\ k <= hi BY <1>1, <1>2
<1>6. NoScore <= k BY <1>2, <1>3, <1>5
<1> QED BY <1>4, <1>5, <1>6

\* Of scores there is a greatest and a least.
LEMMA ScoresHaveEnds ==
    ASSUME NEW S, S \subseteq Cosines \cup {NoScore}, S # {}
    PROVE  /\ Max(S) \in S /\ Max(S) \in Int /\ \A k \in S : k \in Int /\ k <= Max(S)
           /\ Min(S) \in S /\ Min(S) \in Int /\ \A k \in S : Min(S) <= k
<1> DEFINE a == NoScore  b == 10000
<1>1. a \in Int /\ b \in Int /\ S \subseteq a..b /\ S # {}
  <2>1. a \in Int /\ b \in Int /\ a <= a /\ a <= b BY DEF NoScore
  <2> HIDE DEF b
  <2>2. \A k \in Cosines : k \in Int /\ a <= k /\ k <= b BY CosinesAre DEF b
  <2> HIDE DEF a
  <2>3. \A k \in Cosines \cup {a} : k \in a..b BY <2>1, <2>2
  <2>4. S \subseteq a..b BY <2>3 DEF a
  <2> QED BY <2>1, <2>4
<1> HIDE DEF a, b
<1>2. Max(S) \in S /\ \A k \in S : k <= Max(S) BY ONLY <1>1, GreatestIs
<1>3. Min(S) \in S /\ \A k \in S : Min(S) <= k BY ONLY <1>1, LowestIs
<1>4. \A k \in S : k \in Int BY <1>1
<1> QED BY <1>2, <1>3, <1>4

\* A score is a passage's, or that of none.
LEMMA Scored ==
    ASSUME NEW h \in Histories, NEW build, NEW viewer, NEW a, a.gen \in 1..MaxGen,
           NEW query \in Questions \cup Probes
    PROVE  /\ ScoreThen(h, build, viewer, a, query) \in Cosines \cup {NoScore}
           /\ \A p \in h[a.gen] :
                build \in p.admitted /\ p.aud \cap viewer # {} /\ p.name \notin a.under
                  => p.likeness[query] <= ScoreThen(h, build, viewer, a, query)
           /\ ScoreThen(h, build, viewer, a, query) # NoScore =>
                \E p \in h[a.gen] :
                  /\ build \in p.admitted /\ p.aud \cap viewer # {} /\ p.name \notin a.under
                  /\ p.likeness[query] = ScoreThen(h, build, viewer, a, query)
<1> DEFINE K == {k \in h[a.gen] :
                   build \in k.admitted /\ k.aud \cap viewer # {} /\ k.name \notin a.under}
           S == {NoScore} \cup {p.likeness[query] : p \in K}
<1>1. \A p \in h[a.gen] : p.likeness[query] \in Cosines BY AbstentionAssumption
<1>2. S \subseteq Cosines \cup {NoScore} /\ S # {} BY <1>1
<1>3. ScoreThen(h, build, viewer, a, query) = Max(S) BY DEF ScoreThen
<1>4. Max(S) \in S /\ \A k \in S : k <= Max(S)
  <2> HIDE DEF S
  <2> QED BY <1>2, ScoresHaveEnds
<1> DEFINE m == Max(S)
<1> HIDE DEF m
<1>5. ScoreThen(h, build, viewer, a, query) = m BY <1>3 DEF m
<1>6. m \in S /\ \A k \in S : k <= m BY <1>4 DEF m
<1>7. m \in Cosines \cup {NoScore} BY <1>1, <1>6
<1>8. \A p \in K : p.likeness[query] <= m BY <1>6
<1>9. m # NoScore => \E p \in K : p.likeness[query] = m BY <1>6
<1> QED BY <1>5, <1>7, <1>8, <1>9

\* Whoever may read more, finds as much.
LEMMA WiderScoresMore ==
    ASSUME NEW h \in Histories, NEW build, NEW viewer \in Askers, NEW a, a.gen \in 1..MaxGen,
           NEW query \in Questions \cup Probes
    PROVE  ScoreThen(h, build, viewer, a, query) <= ScoreThen(h, build, Widest, a, query)
<1> DEFINE s == ScoreThen(h, build, viewer, a, query)  w == ScoreThen(h, build, Widest, a, query)
<1>1. s \in Cosines \cup {NoScore} /\ w \in Cosines \cup {NoScore} BY Scored
<1> HIDE DEF s, w
<1>2. ASSUME s = NoScore PROVE s <= w
  <2>1. CASE w = NoScore BY <1>2, <2>1 DEF NoScore
  <2>2. CASE w \in Cosines BY <1>2, <2>2, CosinesAre
  <2> QED BY <1>1, <2>1, <2>2
<1>3. ASSUME s # NoScore PROVE s <= w
  <2>1. PICK p \in h[a.gen] :
          /\ build \in p.admitted /\ p.aud \cap viewer # {} /\ p.name \notin a.under
          /\ p.likeness[query] = s
    BY <1>3, Scored DEF s
  <2>2. viewer \subseteq Widest BY AbstentionAssumption
  <2>3. p.aud \cap Widest # {} BY <2>1, <2>2
  <2>4. p.likeness[query] <= w BY <2>1, <2>3, Scored DEF w
  <2> QED BY <2>1, <2>4
<1> QED BY <1>2, <1>3 DEF s, w

\* The score of a search is that against what is served, under the denials in force.
LEMMA ScoreNow ==
    ASSUME NEW build, NEW viewer, NEW gen, NEW query
    PROVE  TopOne(build, viewer, gen, query)
             = ScoreThen(releases, build, viewer, [gen |-> gen, under |-> denied], query)
BY DEF TopOne, Candidates, Admits, ScoreThen

-----------------------------------------------------------------------------
\* To round is to move by half a thousandth at most.
LEMMA HalfAThousandth ==
    ASSUME NEW twice \in Int
    PROVE  /\ Thousandths(twice) \in Int
           /\ 2 * Thousandths(twice) <= twice + 10 /\ twice - 10 <= 2 * Thousandths(twice)
           /\ \E k \in Int : Thousandths(twice) = 10 * k
           /\ \A k \in Int : twice = 20 * k => Thousandths(twice) = 10 * k
<1> DEFINE kept == twice \div 20
           rest == twice % 20
           n == IF rest > 10 \/ (rest = 10 /\ kept % 2 = 1) THEN kept + 1 ELSE kept
<1>1. Thousandths(twice) = 10 * n BY DEF Thousandths
<1>2. kept \in Int /\ rest \in 0..19 /\ twice = 20 * kept + rest OBVIOUS
<1> HIDE DEF kept, rest
<1>3. n \in Int /\ 20 * n <= twice + 10 /\ twice - 10 <= 20 * n BY <1>2
<1>4. \A k \in Int : twice = 20 * k => n = k BY <1>2
<1> HIDE DEF n
<1> QED BY <1>1, <1>3, <1>4

\* The floor is above every probe, and no question is below it.
LEMMA FloorParts ==
    ASSUME NEW points, In(points) \subseteq Cosines, Out(points) \subseteq Cosines,
           In(points) # {}, Out(points) # {}, MarginOf(points) >= 10
    PROVE  LET floor == Thousandths(2 * PasteValue(points))
           IN  /\ floor \in Int
               /\ \A s \in In(points) : floor <= s
               /\ \A s \in Out(points) : s < floor
<1> DEFINE lo == Max(Out(points))
           hi == Min(In(points))
           sum == lo + hi
           mid == Thousandths(sum)
           v == IF lo < mid /\ mid <= hi THEN mid ELSE hi
<1>1. lo \in Int /\ \A s \in Out(points) : s \in Int /\ s <= lo
  <2>1. Out(points) \subseteq Cosines \cup {NoScore} /\ Out(points) # {} OBVIOUS
  <2> QED BY ONLY <2>1, ScoresHaveEnds
<1>2. hi \in Int /\ \A s \in In(points) : s \in Int /\ hi <= s
  <2>1. In(points) \subseteq Cosines \cup {NoScore} /\ In(points) # {} OBVIOUS
  <2> QED BY ONLY <2>1, ScoresHaveEnds
<1>3. lo \in Int /\ hi \in Int BY <1>1, <1>2
<1>4. hi - lo >= 10 BY DEF MarginOf
<1>5. PasteValue(points) = v BY DEF PasteValue
<1> HIDE DEF lo, hi
<1>6. /\ mid \in Int /\ 2 * mid <= lo + hi + 10 /\ lo + hi - 10 <= 2 * mid
      /\ \E k \in Int : mid = 10 * k
  <2>1. sum \in Int /\ sum = lo + hi BY <1>3
  <2> HIDE DEF sum
  <2>2. /\ mid \in Int /\ 2 * mid <= sum + 10 /\ sum - 10 <= 2 * mid
        /\ \E k \in Int : mid = 10 * k
    BY <2>1, HalfAThousandth
  <2> HIDE DEF mid
  <2> QED BY <1>3, <2>1, <2>2
<1>7. v \in Int BY <1>3, <1>6
<1> DEFINE floor == Thousandths(2 * v)
<1>8. \A k \in Int : v = 10 * k => floor = 10 * k
  <2>1. 2 * v \in Int BY <1>7
  <2>2. \A k \in Int : 2 * v = 20 * k => floor = 10 * k BY <2>1, HalfAThousandth
  <2>3. \A k \in Int : v = 10 * k => 2 * v = 20 * k BY <1>7
  <2> HIDE DEF floor, v
  <2> QED BY <2>2, <2>3
<1>9. \E k \in Int : v = 10 * k
  <2>1. PICK k \in Int : mid = 10 * k BY <1>6
  <2> HIDE DEF mid
  <2>2. CASE v = mid BY <2>1, <2>2
  <2>3. CASE v # mid
    <3>1. v = hi /\ ~(lo < mid /\ mid <= hi) BY <2>3
    <3>2. mid = lo /\ hi = lo + 10 BY <1>3, <1>4, <1>6, <3>1
    <3>3. k + 1 \in Int /\ v = 10 * (k + 1) BY <2>1, <3>1, <3>2
    <3> QED BY <3>3
  <2> QED BY <2>2, <2>3
<1>10. lo < v /\ v <= hi BY <1>3, <1>4, <1>6
<1>11. floor = v BY <1>8, <1>9
<1> HIDE DEF floor, v
<1>12. \A s \in In(points) : s \in Int /\ floor <= s BY <1>2, <1>3, <1>7, <1>10, <1>11
<1>13. \A s \in Out(points) : s \in Int /\ s < floor BY <1>1, <1>3, <1>7, <1>10, <1>11
<1>14. floor = Thousandths(2 * PasteValue(points)) BY <1>5 DEF floor
<1> QED BY <1>7, <1>11, <1>12, <1>13, <1>14

-----------------------------------------------------------------------------
\* Nothing is printed, read or logged at first.
LEMMA GateInvInit == GateInit => GateInv
<1> SUFFICES ASSUME GateInit PROVE GateInv
  OBVIOUS
<1> USE DEF GateInit
<1>1. \A h : BlockInv(h, Off) BY DEF BlockInv, Off, Block
<1>2. \A h : CalInv(h, 0, NoRun) BY AbstentionAssumption DEF CalInv, NoRun
<1>3. 0 \in 0..MaxGen BY AbstentionAssumption
<1>4. door.gate = Off BY DEF Down
<1>5. LogInv(<<>>) BY DEF LogInv
<1> QED BY <1>1, <1>2, <1>3, <1>4, <1>5 DEF GateInv

\* The points of a run that ends are scores of both kinds.
LEMMA PointsAre ==
    ASSUME NEW h, NEW points, NEW against, NEW build, PointsInv(h, points, against, build)
    PROVE  In(points) \subseteq Cosines /\ Out(points) \subseteq Cosines
BY DEF PointsInv, In, Out

\* What a run prints is made of what it measured.
LEMMA ReportPrints ==
    ASSUME NEW h, NEW points, NEW against, NEW build, PointsInv(h, points, against, build),
           In(points) # {}, Out(points) # {}
    PROVE  BlockInv(h, RenderReport(points, against, build))
<1> DEFINE b == RenderReport(points, against, build)
<1>1. CASE Separable(points)
  <2>1. /\ b.is = "number" /\ b.points = points /\ b.against = against /\ b.digest = build
        /\ b.floor = Thousandths(2 * PasteValue(points))
    BY <1>1 DEF RenderReport, Block
  <2> HIDE DEF b
  <2>2. BlockInv(h, b) BY <2>1 DEF BlockInv
  <2> QED BY <2>2 DEF b
<1>2. CASE ~Separable(points)
  BY <1>2 DEF RenderReport, Uncalibrated, Block, BlockInv
<1> QED BY <1>1, <1>2

\* What a search is told: a score, or none unless it looked.
LEMMA WhatIsTold ==
    ASSUME releases \in Histories, active \in 0..MaxGen, NEW viewer,
           NEW query \in Questions \cup Probes, NEW embeds \in BOOLEAN
    PROVE  LET told == Answer(viewer, query, embeds)
           IN  /\ told.top \in Cosines \cup {NoScore}
               /\ told.top # NoScore => embeds /\ active # 0
               /\ told.outcome = "abstained" =>
                    /\ active # 0 /\ embeds
                    /\ told.top = NoScore \/ told.top < door.gate.floor
<1> DEFINE told == Answer(viewer, query, embeds)
           top == TopOne(door.build, viewer, active, query)
           words == \E p \in Candidates(door.build, viewer, active) : query \in p.words
           hits == IF embeds THEN top # NoScore /\ ~VectorAbstains(top, door.gate)
                   ELSE door.gate.is = "off" /\ words
           unmeasured == Unmeasured(door.gate, door.build)
<1>1. told = IF unmeasured THEN [outcome |-> "refused", top |-> NoScore]
             ELSE IF active = 0 THEN [outcome |-> "unpublished", top |-> NoScore]
             ELSE [outcome |-> IF hits THEN "answered" ELSE Reason(embeds),
                   top |-> IF embeds THEN top ELSE NoScore]
  BY DEF Answer
<1>2. active # 0 => top \in Cosines \cup {NoScore}
  <2> SUFFICES ASSUME active # 0 PROVE top \in Cosines \cup {NoScore}
    OBVIOUS
  <2> DEFINE a == [gen |-> active, under |-> denied]
  <2>1. a.gen \in 1..MaxGen OBVIOUS
  <2>2. top = ScoreThen(releases, door.build, viewer, a, query) BY ScoreNow
  <2> HIDE DEF a, top
  <2> QED BY <2>1, <2>2, Scored
<1>3. hits \/ ~embeds \/ top = NoScore \/ top < door.gate.floor BY DEF VectorAbstains
<1>4. Reason(embeds) = IF embeds THEN "abstained" ELSE "unavailable" BY DEF Reason
<1> HIDE DEF told, top, hits, words, unmeasured
<1>5. CASE unmeasured BY <1>1, <1>5 DEF told
<1>6. CASE ~unmeasured /\ active = 0 BY <1>1, <1>6 DEF told
<1>7. CASE ~unmeasured /\ active # 0
  <2>1. told.outcome = (IF hits THEN "answered" ELSE Reason(embeds))
        /\ told.top = (IF embeds THEN top ELSE NoScore)
    BY <1>1, <1>7
  <2> QED BY <1>2, <1>3, <1>4, <1>7, <2>1 DEF told
<1> QED BY <1>5, <1>6, <1>7

\* Each step of the operator's, a calibration's and the door's.
LEMMA GateInvStep == GateInv /\ [GateNext]_gateVars => GateInv'
<1> SUFFICES ASSUME GateInv, [GateNext]_gateVars PROVE GateInv'
  OBVIOUS
<1>1. /\ releases \in Histories /\ active \in 0..MaxGen /\ CalInv(releases, active, cal)
      /\ BlockInv(releases, printed) /\ BlockInv(releases, instance)
      /\ BlockInv(releases, door.gate) /\ LogInv(log)
  BY DEF GateInv
<1>2. \A h, d : CalInv(h, d, NoRun)
  BY AbstentionAssumption DEF CalInv, NoRun
<1>3. ASSUME /\ releases' = releases /\ active' \in 0..MaxGen
             /\ CalInv(releases, active', cal')
             /\ BlockInv(releases, printed') /\ BlockInv(releases, instance')
             /\ BlockInv(releases, door'.gate) /\ LogInv(log')
      PROVE  GateInv'
  BY <1>1, <1>3 DEF GateInv
<1>4. ASSUME MovePointer PROVE GateInv'
  <2>1. active' \in 1..MaxGen /\ UNCHANGED <<releases, denied, instance, door, cal, printed, log>>
    BY <1>4 DEF MovePointer
  <2>2. active' \in 0..MaxGen BY <2>1, AbstentionAssumption
  <2>3. CalInv(releases, active', cal) BY <1>1, <2>1 DEF CalInv
  <2> QED BY <1>1, <1>3, <2>1, <2>2, <2>3
<1>5. ASSUME NEW p, DenyPassage(p) PROVE GateInv'
  BY <1>1, <1>3, <1>5 DEF DenyPassage
<1>6. ASSUME NEW b, Calibrate(b) PROVE GateInv'
  <2>1. PICK pin \in 0..MaxGen :
          /\ (IF pin = 0 THEN active ELSE pin) # 0
          /\ cal' = [NoRun EXCEPT !.pc = "counted", !.build = b, !.pin = pin,
                                 !.counted = IF pin = 0 THEN active ELSE pin]
    BY <1>6, Zenon DEF Calibrate
  <2>2. UNCHANGED <<releases, active, denied, instance, door, printed, log>>
    BY <1>6 DEF Calibrate
  <2>3. /\ cal'.pc = "counted" /\ cal'.pin = pin /\ cal'.points = {} /\ cal'.against = {}
    BY <2>1 DEF NoRun
  <2>4. (IF pin = 0 THEN active ELSE pin) \in 1..MaxGen
    BY <1>1, <2>1, AbstentionAssumption
  <2>5. CalInv(releases, active, cal') BY <2>3, <2>4 DEF CalInv
  <2> QED BY <1>1, <1>3, <2>2, <2>5
<1>7. ASSUME NEW b, Boot(b) PROVE GateInv'
  <2>1. door'.gate = instance /\ UNCHANGED <<releases, active, denied, instance, cal, printed, log>>
    BY <1>7 DEF Boot
  <2> QED BY <1>1, <1>3, <2>1
<1>8. ASSUME Gather PROVE GateInv'
  <2>1. cal.pc = "counted" /\ UNCHANGED <<releases, active, denied, instance, door, printed, log>>
    BY <1>8 DEF Gather
  <2>2. cal.points = {} /\ cal.against = {} BY <1>1, <2>1 DEF CalInv
  <2>3. ASSUME NEW left, left \subseteq Questions \cup Probes, \E o \in Probes : o \in left,
               cal' = [cal EXCEPT !.pc = "scoring", !.left = left]
        PROVE  CalInv(releases, active, cal')
    BY <1>1, <2>1, <2>2, <2>3 DEF CalInv, PointsInv
  <2>4. CASE \E Q \in (SUBSET Questions) \ {{}}, O \in (SUBSET Probes) \ {{}} :
               cal' = [cal EXCEPT !.pc = "scoring", !.left = Q \cup O]
    <3>1. PICK Q \in (SUBSET Questions) \ {{}}, O \in (SUBSET Probes) \ {{}} :
            cal' = [cal EXCEPT !.pc = "scoring", !.left = Q \cup O]
      BY <2>4
    <3> DEFINE left == Q \cup O
    <3>2. left \subseteq Questions \cup Probes /\ (\E o \in Probes : o \in left) OBVIOUS
    <3>3. CalInv(releases, active, cal') BY <2>3, <3>1, <3>2
    <3> QED BY <1>1, <1>3, <2>1, <3>3
  <2>5. CASE cal' = NoRun BY <1>1, <1>2, <1>3, <2>1, <2>5
  <2> DEFINE sample == {p.asks : p \in Candidates(cal.build, Widest, Measured)}
  <2>6. sample \subseteq Questions
    <3>1. Measured \in 1..MaxGen BY <1>1, <2>1 DEF CalInv, Measured
    <3>2. \A p \in releases[Measured] : p.asks \in Questions
      BY <1>1, <3>1, AbstentionAssumption
    <3> QED BY <3>2 DEF Candidates
  <2>7. CASE \E Q \in SUBSET sample :
               cal' = [cal EXCEPT !.pc = "scoring", !.left = Q \cup Probes]
    <3>1. PICK Q \in SUBSET sample :
            cal' = [cal EXCEPT !.pc = "scoring", !.left = Q \cup Probes]
      BY <2>7
    <3> DEFINE left == Q \cup Probes
    <3>2. left \subseteq Questions \cup Probes /\ (\E o \in Probes : o \in left)
      BY <2>6, AbstentionAssumption
    <3>3. CalInv(releases, active, cal') BY <2>3, <3>1, <3>2
    <3> QED BY <1>1, <1>3, <2>1, <3>3
  <2> HIDE DEF sample
  <2> QED BY <1>8, <2>4, <2>5, <2>7, Zenon DEF Gather, sample
<1>9. ASSUME Score PROVE GateInv'
  <2>1. /\ cal.pc = "scoring" /\ cal.left # {}
        /\ UNCHANGED <<releases, active, denied, instance, door, printed, log, acts>>
    BY <1>9 DEF Score
  <2> DEFINE score(q) == TopOne(cal.build, Widest, Measured, q)
             point(q) == [query |-> q, inCorpus |-> q \in Questions, score |-> score(q)]
             now == [gen |-> Measured, under |-> denied]
  <2>2. PICK q \in cal.left :
          cal' = IF score(q) = NoScore THEN NoRun
                 ELSE [cal EXCEPT !.left = cal.left \ {q}, !.points = cal.points \cup {point(q)},
                                  !.against = cal.against \cup {now}]
    <3> DEFINE wanted == cal.left \cap Questions
    <3>1. PICK q \in IF wanted = {} THEN cal.left ELSE wanted :
            cal' = IF score(q) = NoScore THEN NoRun
                   ELSE [cal EXCEPT !.left = cal.left \ {q}, !.points = cal.points \cup {point(q)},
                                    !.against = cal.against \cup {now}]
      BY <1>9, Zenon DEF Score
    <3>2. q \in cal.left OBVIOUS
    <3> QED BY <3>1, <3>2
  <2>3. CASE score(q) = NoScore BY <1>1, <1>2, <1>3, <2>1, <2>2, <2>3
  <2>4. CASE score(q) # NoScore
    <3>1. /\ cal'.pc = cal.pc /\ cal'.pin = cal.pin /\ cal'.build = cal.build
          /\ cal'.left = cal.left \ {q} /\ cal'.points = cal.points \cup {point(q)}
          /\ cal'.against = cal.against \cup {now}
      BY <2>2, <2>4
    <3>2. /\ Measured \in 1..MaxGen /\ cal.left \subseteq Questions \cup Probes
          /\ PointsInv(releases, cal.points, cal.against, cal.build)
          /\ \E o \in Probes : o \in cal.left \/ \E x \in cal.points : x.query = o
      BY <1>1, <2>1 DEF CalInv, Measured
    <3>3. now.gen = Measured OBVIOUS
    <3>4. score(q) = ScoreThen(releases, cal.build, Widest, now, q) BY ScoreNow
    <3> HIDE DEF now, score
    <3>5. score(q) \in Cosines BY <1>1, <2>4, <3>2, <3>3, <3>4, Scored
    <3>6. PointsInv(releases, cal'.points, cal'.against, cal'.build)
      <4>1. \A a \in cal'.against : a.gen \in 1..MaxGen BY <3>1, <3>2, <3>3 DEF PointsInv
      <4>2. ASSUME NEW x \in cal'.points
            PROVE  /\ x.query \in Questions \cup Probes /\ x.inCorpus = (x.query \in Questions)
                   /\ x.score \in Cosines
                   /\ \E a \in cal'.against :
                        x.score = ScoreThen(releases, cal'.build, Widest, a, x.query)
        <5>1. CASE x \in cal.points BY <3>1, <3>2, <5>1 DEF PointsInv
        <5>2. CASE x = point(q)
          <6>1. /\ x.query = q /\ x.inCorpus = (q \in Questions) /\ x.score = score(q) BY <5>2
          <6> HIDE DEF point
          <6> QED BY <3>1, <3>2, <3>4, <3>5, <6>1
        <5> QED BY <3>1, <5>1, <5>2
      <4> QED BY <4>1, <4>2 DEF PointsInv
    <3>7. \E o \in Probes : o \in cal'.left \/ \E x \in cal'.points : x.query = o
      <4>1. PICK o \in Probes : o \in cal.left \/ \E x \in cal.points : x.query = o BY <3>2
      <4>2. point(q).query = q OBVIOUS
      <4> HIDE DEF point
      <4> QED BY <3>1, <4>1, <4>2
    <3>8. CalInv(releases, active, cal')
      <4> HIDE DEF point
      <4> QED BY <1>1, <2>1, <3>1, <3>2, <3>6, <3>7 DEF CalInv
    <3> QED BY <1>1, <1>3, <2>1, <3>8
  <2> QED BY <2>3, <2>4
<1>10. ASSUME Report PROVE GateInv'
  <2>1. /\ cal.pc = "scoring" /\ cal.left = {} /\ cal' = NoRun
        /\ UNCHANGED <<releases, active, denied, instance, door, log, acts>>
        /\ printed' = IF In(cal.points) = {} THEN printed
                      ELSE RenderReport(cal.points, cal.against, cal.build)
    BY <1>10 DEF Report
  <2>2. BlockInv(releases, printed')
    <3>1. PointsInv(releases, cal.points, cal.against, cal.build)
          /\ \E o \in Probes : \E x \in cal.points : x.query = o
      BY <1>1, <2>1 DEF CalInv
    <3>2. Out(cal.points) # {}
      <4>1. PICK o \in Probes, x \in cal.points : x.query = o BY <3>1
      <4>2. x.inCorpus = (o \in Questions) BY <3>1, <4>1 DEF PointsInv
      <4>3. ~x.inCorpus BY <4>2, AbstentionAssumption
      <4> QED BY <4>3 DEF Out
    <3>3. CASE In(cal.points) = {} BY <1>1, <2>1, <3>3
    <3>4. CASE In(cal.points) # {} BY <2>1, <3>1, <3>2, <3>4, ReportPrints
    <3> QED BY <3>3, <3>4
  <2> QED BY <1>1, <1>2, <1>3, <2>1, <2>2
<1>11. ASSUME GiveUp PROVE GateInv'
  BY <1>1, <1>2, <1>3, <1>11 DEF GiveUp
<1>12. ASSUME Paste PROVE GateInv'
  BY <1>1, <1>3, <1>12 DEF Paste
<1>13. ASSUME HandWrite PROVE GateInv'
  <2>1. \A f, d : BlockInv(releases, Block("number", f, d)) BY DEF Block, BlockInv
  <2>2. BlockInv(releases, instance')
        /\ UNCHANGED <<releases, active, denied, door, cal, printed, log>>
    BY <1>13, <2>1 DEF HandWrite
  <2> QED BY <1>1, <1>3, <2>2
<1>14. ASSUME NEW viewer \in Askers, NEW query \in Questions \cup Probes, NEW embeds \in BOOLEAN,
              Search(viewer, query, embeds)
       PROVE  GateInv'
  <2> DEFINE told == Answer(viewer, query, embeds)
             action == IF told.outcome = "answered" THEN "similarity_searched"
                       ELSE "search_abstained"
             l == [action |-> action, top |-> told.top, looked |-> embeds /\ active # 0]
  <2>1. log' = Append(log, l) /\ UNCHANGED <<releases, active, denied, instance, door, cal, printed>>
    BY <1>14 DEF Search
  <2>2. l.top = told.top /\ l.looked = (embeds /\ active # 0) OBVIOUS
  <2>3. told.top \in Cosines \cup {NoScore} /\ (told.top # NoScore => embeds /\ active # 0)
    BY <1>1, WhatIsTold
  <2>4. action \in {"similarity_searched", "search_abstained"} OBVIOUS
  <2> HIDE DEF told, action
  <2>5. l \in Lines /\ (l.top # NoScore => l.looked) BY <2>2, <2>3, <2>4 DEF Lines
  <2> HIDE DEF l
  <2>6. LogInv(log')
    <3>1. log \in Seq(Lines) /\ \A i \in DOMAIN log : log[i].top # NoScore => log[i].looked
      BY <1>1 DEF LogInv
    <3>2. log' \in Seq(Lines) BY <2>1, <2>5, <3>1
    <3>3. ASSUME NEW i \in DOMAIN log' PROVE log'[i].top # NoScore => log'[i].looked
      <4>1. i \in 1..(Len(log) + 1) BY <2>1, <3>1, <3>3
      <4>2. CASE i = Len(log) + 1
        <5>1. log'[i] = l BY <2>1, <3>1, <4>2
        <5> QED BY <2>5, <5>1
      <4>3. CASE i # Len(log) + 1
        <5>1. i \in DOMAIN log /\ log'[i] = log[i] BY <2>1, <3>1, <4>1, <4>3
        <5> QED BY <3>1, <5>1
      <4> QED BY <4>2, <4>3
    <3> QED BY <3>2, <3>3 DEF LogInv
  <2> QED BY <1>1, <1>3, <2>1, <2>6
<1>15. CASE UNCHANGED gateVars BY <1>1, <1>3, <1>15 DEF gateVars
<1> QED BY <1>4, <1>5, <1>6, <1>7, <1>8, <1>9, <1>10, <1>11, <1>12, <1>13, <1>14, <1>15
        DEF GateNext

-----------------------------------------------------------------------------
\* From how a floor was measured, to what it does.
LEMMA AbstentionFollows == GateInv => AbstentionIsHonest
<1> SUFFICES ASSUME GateInv PROVE AbstentionIsHonest
  OBVIOUS
<1>1. /\ releases \in Histories /\ active \in 0..MaxGen
      /\ BlockInv(releases, door.gate) /\ LogInv(log)
  BY DEF GateInv
<1> DEFINE gate == door.gate
<1>2. ASSUME gate.points # {}, gate.against = {[gen |-> active, under |-> denied]},
             ~Unmeasured(gate, door.build), MarginOf(gate.points) >= 10, NEW x \in gate.points
      PROVE  IF x.inCorpus THEN Answer(Widest, x.query, TRUE).outcome = "answered"
             ELSE \A viewer \in Askers : Answer(viewer, x.query, TRUE).outcome = "abstained"
  <2> DEFINE now == [gen |-> active, under |-> denied]
             b == door.build
  <2>1. /\ gate.is = "number" /\ PointsInv(releases, gate.points, gate.against, gate.digest)
        /\ In(gate.points) # {} /\ Out(gate.points) # {}
        /\ gate.floor = Thousandths(2 * PasteValue(gate.points))
    BY <1>1, <1>2 DEF BlockInv
  <2>2. gate.digest = b BY <1>2, <2>1 DEF Unmeasured, StaleFloor
  <2>3. now.gen = active /\ active \in 1..MaxGen /\ active # 0
    <3>1. now \in gate.against /\ now.gen = active BY <1>2
    <3> HIDE DEF now
    <3>2. active \in 1..MaxGen BY <2>1, <3>1 DEF PointsInv
    <3> QED BY <3>1, <3>2
  <2>4. /\ x.query \in Questions \cup Probes /\ x.score \in Cosines
        /\ x.score = ScoreThen(releases, b, Widest, now, x.query)
    BY <1>2, <2>1, <2>2 DEF PointsInv
  <2>5. /\ gate.floor \in Int /\ \A s \in In(gate.points) : gate.floor <= s
        /\ \A s \in Out(gate.points) : s < gate.floor
    <3>1. In(gate.points) \subseteq Cosines /\ Out(gate.points) \subseteq Cosines BY <2>1, PointsAre
    <3> QED BY <1>2, <2>1, <3>1, FloorParts
  <2> DEFINE top(v) == TopOne(b, v, active, x.query)
  <2>6. \A v : top(v) = ScoreThen(releases, b, v, now, x.query) BY ScoreNow
  <2>7. \A v : Answer(v, x.query, TRUE).outcome =
                 IF top(v) # NoScore /\ ~(top(v) < gate.floor) THEN "answered" ELSE "abstained"
    <3> SUFFICES ASSUME NEW v
                 PROVE  Answer(v, x.query, TRUE).outcome =
                          IF top(v) # NoScore /\ ~(top(v) < gate.floor) THEN "answered"
                          ELSE "abstained"
      OBVIOUS
    <3>1. VectorAbstains(top(v), gate) <=> top(v) = NoScore \/ top(v) < gate.floor
      BY <2>1 DEF VectorAbstains
    <3> HIDE DEF gate, top, b
    <3>2. Reason(TRUE) = "abstained" BY DEF Reason
    <3>3. Answer(v, x.query, TRUE).outcome =
            IF top(v) # NoScore /\ ~VectorAbstains(top(v), gate) THEN "answered" ELSE Reason(TRUE)
      BY <1>2, <2>3 DEF Answer, gate, top, b
    <3> QED BY <3>1, <3>2, <3>3
  <2>8. NoScore \notin Cosines /\ \A k \in Cosines \cup {NoScore} : k \in Int BY DEF NoScore, Cosines
  <2> HIDE DEF now, top, b, gate
  <2>9. CASE x.inCorpus
    <3>1. x.score \in In(gate.points) BY <1>2, <2>9 DEF In
    <3>2. top(Widest) = x.score BY <2>4, <2>6
    <3>3. gate.floor <= x.score BY <2>5, <3>1
    <3>4. x.score \in Int BY <2>4, <2>8
    <3>5. ~(x.score < gate.floor) BY <2>5, <3>3, <3>4
    <3>6. Answer(Widest, x.query, TRUE).outcome = "answered" BY <2>4, <2>7, <2>8, <3>2, <3>5
    <3> QED BY <2>9, <3>6
  <2>10. CASE ~x.inCorpus
    <3>1. x.score \in Out(gate.points) BY <1>2, <2>10 DEF Out
    <3>2. x.score < gate.floor /\ x.score \in Int BY <2>4, <2>5, <2>8, <3>1
    <3>3. ASSUME NEW v \in Askers PROVE Answer(v, x.query, TRUE).outcome = "abstained"
      <4>1. top(v) <= x.score BY <1>1, <2>3, <2>4, <2>6, WiderScoresMore
      <4>2. top(v) \in Cosines \cup {NoScore} BY <1>1, <2>3, <2>4, <2>6, Scored
      <4>3. top(v) \in Int BY <2>8, <4>2
      <4>4. top(v) < gate.floor BY <2>5, <3>2, <4>1, <4>3
      <4> QED BY <2>7, <4>4
    <3> QED BY <2>10, <3>3
  <2> QED BY <2>9, <2>10
<1>3. ASSUME NEW viewer \in Askers, NEW query \in Questions \cup Probes, NEW embeds \in BOOLEAN,
             Answer(viewer, query, embeds).outcome = "abstained"
      PROVE  /\ active # 0 /\ embeds
             /\ Answer(viewer, query, embeds).top = NoScore
                \/ Answer(viewer, query, embeds).top < gate.floor
  BY <1>1, <1>3, WhatIsTold
<1>4. \A i \in Samples : i \in DOMAIN log /\ log[i].looked BY <1>1 DEF LogInv, Samples
<1>5. ASSUME DriftVerdict(instance.floor) = "steady"
      PROVE  \E s \in Range(log) : s.looked /\ s.action = "search_abstained"
  <2>1. {i \in Samples : log[i].action = "search_abstained"} # {} BY <1>5 DEF DriftVerdict
  <2>2. PICK i \in Samples : log[i].action = "search_abstained" BY <2>1
  <2>3. log[i] \in Range(log) BY <1>4 DEF Range
  <2> QED BY <1>4, <2>2, <2>3
<1> QED BY <1>2, <1>3, <1>4, <1>5 DEF AbstentionIsHonest

\* A floor that was measured is between what was asked of the record and what was
\* asked beside it, and a door whose predicate, generation and denials are those
\* it was measured against answers and abstains as the calibration saw; whatever
\* passages, questions, floors written by hand, releases and undos there are.
THEOREM AbstentionIsHonestHolds == GateSpec => []AbstentionIsHonest
<1>1. GateInv => AbstentionIsHonest BY AbstentionFollows
<1> QED BY <1>1, GateInvInit, GateInvStep, PTL DEF GateSpec

-----------------------------------------------------------------------------
(* The outline: any releases, denials, viewers, depths and lengths of pages,  *)
(* whatever comes between two pages.                                        *)

\* The first elements of a sequence, or those from one place to another.
LEMMA StretchIs ==
    ASSUME NEW T, NEW s \in Seq(T), NEW a \in 1..(Len(s) + 1), NEW b \in (a - 1)..Len(s)
    PROVE  /\ SubSeq(s, a, b) \in Seq(T) /\ Len(SubSeq(s, a, b)) = b - a + 1
           /\ \A k \in 1..(b - a + 1) : SubSeq(s, a, b)[k] = s[a + k - 1]
<1>1. Len(s) \in Nat /\ a \in Nat /\ b \in Int /\ b - a + 1 \in Nat OBVIOUS
<1>2. \A k \in 1..(b - a + 1) : a + k - 1 \in 1..Len(s) BY <1>1
<1>3. SubSeq(s, a, b) = [k \in 1..(b - a + 1) |-> s[a + k - 1]] BY <1>1
<1>4. \A k \in 1..(b - a + 1) : s[a + k - 1] \in T BY <1>2
<1> QED BY <1>1, <1>3, <1>4

\* A strict prefix, element by element.
LEMMA StrictlyBefore ==
    ASSUME NEW T, NEW p \in Seq(T), NEW s \in Seq(T)
    PROVE  IsStrictPrefix(p, s) <=> Len(p) < Len(s) /\ \A k \in 1..Len(p) : p[k] = s[k]
<1>1. Len(p) \in Nat /\ Len(s) \in Nat OBVIOUS
<1>2. CASE Len(p) <= Len(s)
  <2> DEFINE a == SubSeq(p, 1, Len(p))  b == SubSeq(s, 1, Len(p))
  <2> DEFINE one == 1  n == Len(p)
  <2>1. one \in 1..(Len(p) + 1) /\ one \in 1..(Len(s) + 1) /\ n \in (one - 1)..Len(p) /\ n \in (one - 1)..Len(s)
    BY <1>1, <1>2
  <2> HIDE DEF one, n
  <2>2. /\ SubSeq(p, one, n) \in Seq(T) /\ Len(SubSeq(p, one, n)) = n - one + 1
        /\ \A k \in 1..(n - one + 1) : SubSeq(p, one, n)[k] = p[one + k - 1]
    BY ONLY <2>1, p \in Seq(T), StretchIs
  <2>3. /\ SubSeq(s, one, n) \in Seq(T) /\ Len(SubSeq(s, one, n)) = n - one + 1
        /\ \A k \in 1..(n - one + 1) : SubSeq(s, one, n)[k] = s[one + k - 1]
    BY ONLY <2>1, s \in Seq(T), StretchIs
  <2>4. a \in Seq(T) /\ b \in Seq(T) /\ Len(a) = Len(p) /\ Len(b) = Len(p)
        /\ \A k \in 1..Len(p) : a[k] = p[k] /\ b[k] = s[k]
    BY <1>1, <2>2, <2>3 DEF one, n
  <2>5. IsStrictPrefix(p, s) <=> a = b /\ p # s BY <1>2 DEF IsStrictPrefix, IsPrefix
  <2> HIDE DEF a, b
  <2>6. a = b <=> \A k \in 1..Len(p) : p[k] = s[k] BY <2>4, SeqEqual
  <2>7. Len(p) = Len(s) /\ (\A k \in 1..Len(p) : p[k] = s[k]) => p = s BY SeqEqual
  <2> QED BY <1>1, <1>2, <2>5, <2>6, <2>7
<1>3. CASE ~(Len(p) <= Len(s)) BY <1>1, <1>3 DEF IsStrictPrefix, IsPrefix
<1> QED BY <1>2, <1>3

\* And an end, from the end.
LEMMA EndsWith ==
    ASSUME NEW T, NEW p \in Seq(T), NEW s \in Seq(T)
    PROVE  IsSuffix(p, s) <=> /\ Len(p) <= Len(s)
                              /\ \A k \in 1..Len(p) : p[k] = s[Len(s) - Len(p) + k]
<1>1. Len(p) \in Nat /\ Len(s) \in Nat OBVIOUS
<1> DEFINE a == Reverse(p)  b == Reverse(s)
<1>2. a \in Seq(T) /\ Len(a) = Len(p) /\ \A k \in 1..Len(p) : a[k] = p[Len(p) - k + 1]
  <2>1. \A k \in 1..Len(p) : Len(p) - k + 1 \in 1..Len(p) BY <1>1
  <2> QED BY <1>1, <2>1 DEF Reverse
<1>3. b \in Seq(T) /\ Len(b) = Len(s) /\ \A k \in 1..Len(s) : b[k] = s[Len(s) - k + 1]
  <2>1. \A k \in 1..Len(s) : Len(s) - k + 1 \in 1..Len(s) BY <1>1
  <2> QED BY <1>1, <2>1 DEF Reverse
<1>4. IsSuffix(p, s) <=> IsStrictPrefix(a, b) \/ a = b
  <2>1. a = b => IsPrefix(a, b)
    <3> HIDE DEF a, b
    <3> QED BY <1>1, <1>2 DEF IsPrefix
  <2> QED BY <2>1 DEF IsSuffix, IsStrictPrefix
<1> HIDE DEF a, b
<1>5. IsStrictPrefix(a, b) <=> Len(a) < Len(b) /\ \A k \in 1..Len(a) : a[k] = b[k]
  BY ONLY <1>2, <1>3, StrictlyBefore
<1>6. a = b <=> Len(a) = Len(b) /\ \A k \in 1..Len(a) : a[k] = b[k]
  BY ONLY <1>2, <1>3, SeqEqual
<1>7. IsSuffix(p, s) <=> Len(p) <= Len(s) /\ \A k \in 1..Len(p) : p[Len(p) - k + 1] = s[Len(s) - k + 1]
  <2>1. ASSUME Len(p) <= Len(s), NEW k \in 1..Len(p)
        PROVE  a[k] = p[Len(p) - k + 1] /\ b[k] = s[Len(s) - k + 1]
    <3>1. k \in 1..Len(s) BY <1>1, <2>1
    <3> QED BY <1>2, <1>3, <3>1
  <2> QED BY <1>1, <1>2, <1>3, <1>4, <1>5, <1>6, <2>1
<1>8. ASSUME Len(p) <= Len(s)
      PROVE  (\A k \in 1..Len(p) : p[Len(p) - k + 1] = s[Len(s) - k + 1])
               <=> \A k \in 1..Len(p) : p[k] = s[Len(s) - Len(p) + k]
  <2>1. ASSUME \A k \in 1..Len(p) : p[Len(p) - k + 1] = s[Len(s) - k + 1], NEW k \in 1..Len(p)
        PROVE  p[k] = s[Len(s) - Len(p) + k]
    <3> DEFINE j == Len(p) - k + 1
    <3>1. j \in 1..Len(p) /\ Len(p) - j + 1 = k /\ Len(s) - j + 1 = Len(s) - Len(p) + k BY <1>1
    <3> HIDE DEF j
    <3>2. p[Len(p) - j + 1] = s[Len(s) - j + 1] BY <2>1, <3>1
    <3> QED BY <3>1, <3>2
  <2>2. ASSUME \A k \in 1..Len(p) : p[k] = s[Len(s) - Len(p) + k], NEW k \in 1..Len(p)
        PROVE  p[Len(p) - k + 1] = s[Len(s) - k + 1]
    <3> DEFINE j == Len(p) - k + 1
    <3>1. j \in 1..Len(p) /\ Len(s) - Len(p) + j = Len(s) - k + 1 BY <1>1
    <3>2. p[j] = s[Len(s) - Len(p) + j] BY <2>2, <3>1
    <3> QED BY <3>1, <3>2
  <2> QED BY <2>1, <2>2
<1> QED BY <1>7, <1>8

-----------------------------------------------------------------------------
\* What a node of a release is made of.
LEMMA NodeIs ==
    ASSUME NEW t \in Trees, NEW n \in t
    PROVE  /\ n.path \in Seq(Slugs) /\ Len(n.path) \in Nat \ {0}
           /\ n.at \in Seq(Nat) /\ Len(n.at) \in Nat \ {0}
<1>1. n.path \in Seq(Slugs) /\ n.path # <<>> /\ n.at \in Seq(Nat) /\ n.at # <<>> BY OutlineAssumption
<1> QED BY <1>1

\* The order of two nodes of a release, element by element.
LEMMA BeforeIs ==
    ASSUME NEW t \in Trees, NEW m \in t, NEW n \in t
    PROVE  Before(m, n) <=>
             \/ Len(m.at) < Len(n.at) /\ \A k \in 1..Len(m.at) : m.at[k] = n.at[k]
             \/ \E k \in Nat : /\ k \in 1..Len(m.at) /\ k \in 1..Len(n.at) /\ m.at[k] < n.at[k]
                               /\ \A i \in 1..(k - 1) : m.at[i] = n.at[i]
<1>1. m.at \in Seq(Nat) /\ n.at \in Seq(Nat) BY NodeIs
<1>2. DOMAIN m.at = 1..Len(m.at) /\ DOMAIN n.at = 1..Len(n.at) BY <1>1
<1>3. IsStrictPrefix(m.at, n.at) <=> Len(m.at) < Len(n.at) /\ \A k \in 1..Len(m.at) : m.at[k] = n.at[k]
  <2> DEFINE u == m.at  v == n.at
  <2>1. u \in Seq(Nat) BY <1>1
  <2>2. v \in Seq(Nat) BY <1>1
  <2> HIDE DEF u, v
  <2>3. IsStrictPrefix(u, v) <=> Len(u) < Len(v) /\ \A k \in 1..Len(u) : u[k] = v[k]
    BY <2>1, <2>2, StrictlyBefore
  <2> QED BY <2>3 DEF u, v
<1>4. \A k \in DOMAIN m.at \cap DOMAIN n.at : k \in Nat /\ k \in 1..Len(m.at) /\ k \in 1..Len(n.at) BY <1>2
<1> QED BY <1>2, <1>3, <1>4 DEF Before

TreeOrder(S) == {mn \in S \X S : Before(mn[1], mn[2])}

\* The order of the rows of a release is one.
LEMMA BeforeOrders ==
    ASSUME NEW t \in Trees, NEW S \in SUBSET t
    PROVE  Orders(TreeOrder(S), S)
<1>1. \A n \in S : n \in t /\ n.at \in Seq(Nat) /\ Len(n.at) \in Nat BY NodeIs
<1>2. \A m, n \in S : <<m, n>> \in TreeOrder(S) <=> Before(m, n) BY DEF TreeOrder
<1>3. \A n \in S : \A k \in 1..Len(n.at) : n.at[k] \in Nat BY <1>1
<1>4. ASSUME NEW n \in S PROVE ~Before(n, n)
  BY <1>1, <1>3, BeforeIs
<1>5. ASSUME NEW m \in S, NEW n \in S, m # n PROVE Before(m, n) \/ Before(n, m)
  <2> DEFINE a == m.at  b == n.at
             D == {k \in 1..Len(a) : k \in 1..Len(b) /\ a[k] # b[k]}
  <2>1. a # b BY <1>1, <1>5, OutlineAssumption
  <2>2. a \in Seq(Nat) /\ b \in Seq(Nat) /\ Len(a) \in Nat /\ Len(b) \in Nat BY <1>1
  <2>3. CASE D = {}
    <3>1. Len(a) # Len(b) BY <2>1, <2>2, <2>3, SeqEqual
    <3>2. CASE Len(a) < Len(b)
      <4>1. ASSUME NEW k \in 1..Len(a) PROVE a[k] = b[k]
        <5>1. k \in 1..Len(a) /\ k \in 1..Len(b) BY <2>2, <3>2
        <5>2. k \notin D BY <2>3
        <5> QED BY <5>1, <5>2
      <4> QED BY <1>1, <3>2, <4>1, BeforeIs
    <3>3. CASE Len(b) < Len(a)
      <4>1. ASSUME NEW k \in 1..Len(b) PROVE b[k] = a[k]
        <5>1. k \in 1..Len(a) /\ k \in 1..Len(b) BY <2>2, <3>3
        <5>2. k \notin D BY <2>3
        <5> QED BY <5>1, <5>2
      <4> QED BY <1>1, <3>3, <4>1, BeforeIs
    <3> QED BY <2>2, <3>1, <3>2, <3>3
  <2>4. CASE D # {}
    <3> DEFINE k == Min(D)
    <3>1. k \in D /\ \A j \in D : k <= j
      <4>1. D \subseteq Nat OBVIOUS
      <4> HIDE DEF D
      <4> QED BY <2>4, <4>1, LeastIs
    <3> HIDE DEF k
    <3>2. k \in Nat /\ k \in 1..Len(a) /\ k \in 1..Len(b) /\ a[k] # b[k] BY <3>1
    <3>3. \A i \in 1..(k - 1) : a[i] = b[i]
      <4> SUFFICES ASSUME NEW i \in 1..(k - 1) PROVE a[i] = b[i] OBVIOUS
      <4>1. i \in 1..Len(a) /\ i \in 1..Len(b) /\ ~(k <= i) BY <2>2, <3>2
      <4>2. i \notin D BY <3>1, <4>1
      <4> QED BY <4>1, <4>2
    <3>4. a[k] \in Nat /\ b[k] \in Nat
      <4>1. \A i \in 1..Len(a) : a[i] \in Nat BY <2>2
      <4>2. \A i \in 1..Len(b) : b[i] \in Nat BY <2>2
      <4> QED BY <3>2, <4>1, <4>2
    <3>5. a[k] < b[k] \/ b[k] < a[k] BY <3>2, <3>4
    <3> QED BY <1>1, <3>2, <3>3, <3>5, BeforeIs
  <2> QED BY <2>3, <2>4
<1>6. ASSUME NEW i \in S, NEW j \in S, NEW l \in S, Before(i, j), Before(j, l) PROVE Before(i, l)
  <2> DEFINE a == i.at  b == j.at  c == l.at
  <2>1. Len(a) \in Nat /\ Len(b) \in Nat /\ Len(c) \in Nat BY <1>1
  <2>2. \A k \in Nat : (k \in 1..Len(a) => a[k] \in Nat) /\ (k \in 1..Len(b) => b[k] \in Nat)
                       /\ (k \in 1..Len(c) => c[k] \in Nat)
    BY <1>3
  <2>3. Before(i, l) <=>
             \/ Len(a) < Len(c) /\ \A k \in 1..Len(a) : a[k] = c[k]
             \/ \E k \in Nat : /\ k \in 1..Len(a) /\ k \in 1..Len(c) /\ a[k] < c[k]
                               /\ \A x \in 1..(k - 1) : a[x] = c[x]
    BY <1>1, BeforeIs
  <2>4. \/ Len(a) < Len(b) /\ \A k \in 1..Len(a) : a[k] = b[k]
        \/ \E k \in Nat : /\ k \in 1..Len(a) /\ k \in 1..Len(b) /\ a[k] < b[k]
                          /\ \A x \in 1..(k - 1) : a[x] = b[x]
    BY <1>1, <1>6, BeforeIs
  <2>5. \/ Len(b) < Len(c) /\ \A k \in 1..Len(b) : b[k] = c[k]
        \/ \E k \in Nat : /\ k \in 1..Len(b) /\ k \in 1..Len(c) /\ b[k] < c[k]
                          /\ \A x \in 1..(k - 1) : b[x] = c[x]
    BY <1>1, <1>6, BeforeIs
  <2> HIDE DEF a, b, c
  <2>6. CASE Len(a) < Len(b) /\ \A k \in 1..Len(a) : a[k] = b[k]
    <3>1. CASE Len(b) < Len(c) /\ \A k \in 1..Len(b) : b[k] = c[k]
      <4>1. Len(a) < Len(c) /\ \A k \in 1..Len(a) : a[k] = c[k] BY <2>1, <2>6, <3>1
      <4> QED BY <2>3, <4>1
    <3>2. ASSUME NEW k \in Nat, k \in 1..Len(b), k \in 1..Len(c), b[k] < c[k],
                 \A x \in 1..(k - 1) : b[x] = c[x]
          PROVE  Before(i, l)
      <4>1. CASE k <= Len(a)
        <5>1. k \in 1..Len(a) /\ a[k] = b[k] /\ \A x \in 1..(k - 1) : x \in 1..Len(a) BY <2>1, <2>6, <3>2, <4>1
        <5>2. \A x \in 1..(k - 1) : a[x] = c[x] BY <2>6, <3>2, <5>1
        <5>3. a[k] < c[k] BY <3>2, <5>1
        <5> QED BY <2>3, <3>2, <5>1, <5>2, <5>3
      <4>2. CASE ~(k <= Len(a))
        <5>1. Len(a) < Len(c) /\ \A x \in 1..Len(a) : x \in 1..(k - 1) BY <2>1, <3>2, <4>2
        <5>2. \A x \in 1..Len(a) : a[x] = c[x] BY <2>6, <3>2, <5>1
        <5> QED BY <2>3, <5>1, <5>2
      <4> QED BY <4>1, <4>2
    <3> QED BY <2>5, <3>1, <3>2
  <2>7. ASSUME NEW k \in Nat, k \in 1..Len(a), k \in 1..Len(b), a[k] < b[k],
               \A x \in 1..(k - 1) : a[x] = b[x]
        PROVE  Before(i, l)
    <3>1. CASE Len(b) < Len(c) /\ \A x \in 1..Len(b) : b[x] = c[x]
      <4>1. k \in 1..Len(c) /\ b[k] = c[k] /\ \A x \in 1..(k - 1) : x \in 1..Len(b) BY <2>1, <2>7, <3>1
      <4>2. \A x \in 1..(k - 1) : a[x] = c[x] BY <2>7, <3>1, <4>1
      <4> QED BY <2>3, <2>7, <4>1, <4>2
    <3>2. ASSUME NEW q \in Nat, q \in 1..Len(b), q \in 1..Len(c), b[q] < c[q],
                 \A x \in 1..(q - 1) : b[x] = c[x]
          PROVE  Before(i, l)
      <4>1. CASE k < q
        <5>1. k \in 1..(q - 1) /\ \A x \in 1..(k - 1) : x \in 1..(q - 1) BY <2>7, <4>1
        <5>2. b[k] = c[k] /\ k \in 1..Len(c) BY <2>1, <3>2, <5>1
        <5>3. \A x \in 1..(k - 1) : a[x] = c[x] BY <2>7, <3>2, <5>1
        <5> QED BY <2>3, <2>7, <5>2, <5>3
      <4>2. CASE q < k
        <5>1. q \in 1..(k - 1) /\ q \in 1..Len(a) /\ \A x \in 1..(q - 1) : x \in 1..(k - 1)
          BY <2>1, <2>7, <3>2, <4>2
        <5>2. a[q] < c[q] BY <2>7, <3>2, <5>1
        <5>3. \A x \in 1..(q - 1) : a[x] = c[x] BY <2>7, <3>2, <5>1
        <5> QED BY <2>3, <3>2, <5>1, <5>2, <5>3
      <4>3. CASE k = q
        <5>1. a[k] < c[k] BY <2>2, <2>7, <3>2, <4>3
        <5>2. \A x \in 1..(k - 1) : a[x] = c[x] BY <2>7, <3>2, <4>3
        <5> QED BY <2>3, <2>7, <3>2, <4>3, <5>1, <5>2
      <4> QED BY <2>7, <3>2, <4>1, <4>2, <4>3
    <3> QED BY <2>5, <3>1, <3>2
  <2> QED BY <2>4, <2>6, <2>7
<1> QED BY <1>2, <1>4, <1>5, <1>6 DEF Orders
-----------------------------------------------------------------------------
\* The rows in their order are those of the set, each at the place that counting
\* those before it gives.
LEMMA NthIs ==
    ASSUME NEW t \in Trees, NEW S \in SUBSET t
    PROVE  LET seat == Rank(TreeOrder(S), S)
           IN  /\ IsFiniteSet(S) /\ Cardinality(S) \in Nat
               /\ \A n \in S : seat[n] \in 1..Cardinality(S) /\ Nth(S, seat[n]) = n
               /\ \A i \in 1..Cardinality(S) : Nth(S, i) \in S /\ seat[Nth(S, i)] = i
               /\ \A m, n \in S : Before(m, n) => seat[m] < seat[n]
<1> DEFINE R == TreeOrder(S)  seat == Rank(R, S)
<1>1. IsFiniteSet(S)
  <2>1. IsFiniteSet(t) BY OutlineAssumption
  <2> QED BY <2>1, FS_Subset
<1>2. Orders(R, S) BY BeforeOrders
<1>3. ASSUME NEW n \in S
      PROVE  /\ Preceding(R, S, n) = {m \in S : Before(m, n)}
             /\ Cardinality(Preceding(R, S, n)) \in Nat
             /\ seat[n] = Cardinality({m \in S : Before(m, n)}) + 1
  <2>1. Preceding(R, S, n) = {m \in S : Before(m, n)} BY DEF TreeOrder, Preceding
  <2>2. IsFiniteSet(Preceding(R, S, n)) BY <1>1, <2>1, FS_Subset
  <2>3. Cardinality(Preceding(R, S, n)) \in Nat BY <2>2, FS_CardinalityType
  <2> QED BY <2>1, <2>3 DEF Rank
<1>4. \A m, n \in S : Before(m, n) => <<m, n>> \in R BY DEF TreeOrder
<1> HIDE DEF R
<1>5. /\ Cardinality(S) \in Nat
      /\ \A i \in S : Rank(R, S)[i] \in 1..Cardinality(S)
      /\ \A k \in 1..Cardinality(S) : \E i \in S : Rank(R, S)[i] = k
      /\ \A i, j \in S : Rank(R, S)[i] = Rank(R, S)[j] => i = j
      /\ \A i, j \in S : <<i, j>> \in R => Rank(R, S)[i] < Rank(R, S)[j]
  BY ONLY <1>1, <1>2, RanksSort
<1> DEFINE Lower(n) == Cardinality({m \in S : Before(m, n)})
<1>6. \A n \in S : Lower(n) \in Nat /\ seat[n] = Lower(n) + 1 BY <1>3
<1>7. \A i : Nth(S, i) = CHOOSE n \in S : Lower(n) = i - 1 BY DEF Nth
<1> HIDE DEF seat, Lower
<1>8. /\ \A i \in S : seat[i] \in 1..Cardinality(S)
      /\ \A k \in 1..Cardinality(S) : \E i \in S : seat[i] = k
      /\ \A i, j \in S : seat[i] = seat[j] => i = j
      /\ \A i, j \in S : <<i, j>> \in R => seat[i] < seat[j]
  BY <1>5 DEF seat
<1>9. ASSUME NEW i \in 1..Cardinality(S) PROVE Nth(S, i) \in S /\ seat[Nth(S, i)] = i
  <2>1. PICK n \in S : seat[n] = i BY <1>8
  <2>2. Lower(n) = i - 1 BY <1>6, <2>1
  <2>3. Nth(S, i) \in S /\ Lower(Nth(S, i)) = i - 1 BY <1>7, <2>2
  <2>4. i \in Int OBVIOUS
  <2> QED BY <1>6, <2>3, <2>4
<1>10. ASSUME NEW n \in S PROVE seat[n] \in 1..Cardinality(S) /\ Nth(S, seat[n]) = n
  <2>1. seat[n] \in 1..Cardinality(S) BY <1>8
  <2>2. Nth(S, seat[n]) \in S /\ seat[Nth(S, seat[n])] = seat[n] BY <1>9, <2>1
  <2> QED BY <1>8, <2>1, <2>2
<1>11. \A m, n \in S : Before(m, n) => seat[m] < seat[n] BY <1>4, <1>8
<1>12. Cardinality(S) \in Nat BY <1>5
<1> QED BY <1>1, <1>9, <1>10, <1>11, <1>12 DEF seat, R

\* The greater and the lesser of two.
LEMMA OfTwo ==
    ASSUME NEW a \in Int, NEW b \in Int
    PROVE  Max({a, b}) = (IF a >= b THEN a ELSE b) /\ Min({a, b}) = (IF a <= b THEN a ELSE b)
<1> DEFINE low == IF a <= b THEN a ELSE b  high == IF a <= b THEN b ELSE a  S == {a, b}
<1>1. low \in Int /\ high \in Int /\ S \subseteq low..high /\ S # {} OBVIOUS
<1>2. \A x \in S : x = a \/ x = b OBVIOUS
<1>3. a \in S /\ b \in S OBVIOUS
<1> HIDE DEF low, high, S
<1>4. Max(S) \in S /\ \A k \in S : k <= Max(S) BY <1>1, GreatestIs
<1>5. Min(S) \in S /\ \A k \in S : Min(S) <= k BY <1>1, LowestIs
<1>6. Max(S) = IF a >= b THEN a ELSE b
  <2>1. (Max(S) = a \/ Max(S) = b) /\ a <= Max(S) /\ b <= Max(S) BY <1>2, <1>3, <1>4
  <2> QED BY <2>1
<1>7. Min(S) = IF a <= b THEN a ELSE b
  <2>1. (Min(S) = a \/ Min(S) = b) /\ Min(S) <= a /\ Min(S) <= b BY <1>2, <1>3, <1>5
  <2> QED BY <2>1
<1> QED BY <1>6, <1>7 DEF S

\* All but the last.
LEMMA FrontIs ==
    ASSUME NEW T, NEW s \in Seq(T), Len(s) # 0
    PROVE  /\ Front(s) \in Seq(T) /\ Len(Front(s)) = Len(s) - 1
           /\ \A k \in 1..(Len(s) - 1) : Front(s)[k] = s[k]
<1> DEFINE one == 1  n == Len(s) - 1
<1>1. Len(s) \in Nat /\ one \in 1..(Len(s) + 1) /\ n \in (one - 1)..Len(s) OBVIOUS
<1> HIDE DEF one, n
<1>2. /\ SubSeq(s, one, n) \in Seq(T) /\ Len(SubSeq(s, one, n)) = n - one + 1
      /\ \A k \in 1..(n - one + 1) : SubSeq(s, one, n)[k] = s[one + k - 1]
  BY ONLY <1>1, s \in Seq(T), StretchIs
<1>3. n - one + 1 = Len(s) - 1 /\ \A k \in 1..(Len(s) - 1) : one + k - 1 = k BY <1>1 DEF one, n
<1>4. Front(s) = SubSeq(s, one, n) BY DEF Front, one, n
<1> QED BY <1>2, <1>3, <1>4

\* What is cut at an anchor and put back beneath it is the path it was.
LEMMA PathsRejoin ==
    ASSUME NEW anchor \in Seq(Slugs), NEW p \in Seq(Slugs), IsStrictPrefix(anchor, p)
    PROVE  LET cut == SubSeq(p, Top(anchor), Len(p))
           IN  /\ Top(anchor) = IF anchor = <<>> THEN 1 ELSE Len(anchor)
               /\ IF anchor = <<>> THEN cut = p ELSE Front(anchor) \o cut = p
<1> DEFINE top == IF anchor = <<>> THEN 1 ELSE Len(anchor)  n == Len(p)  cut == SubSeq(p, top, n)
<1>1. Len(anchor) \in Nat /\ Len(p) \in Nat /\ (Len(anchor) = 0 <=> anchor = <<>>) OBVIOUS
<1>2. Len(anchor) < Len(p) /\ \A k \in 1..Len(anchor) : anchor[k] = p[k] BY StrictlyBefore
<1>3. Top(anchor) = top
  <2>1. Max({1, Len(anchor)}) = IF 1 >= Len(anchor) THEN 1 ELSE Len(anchor) BY <1>1, OfTwo
  <2> QED BY <1>1, <2>1 DEF Top
<1>4. top \in 1..(Len(p) + 1) /\ n \in (top - 1)..Len(p) BY <1>1, <1>2
<1> HIDE DEF top, n
<1>5. /\ cut \in Seq(Slugs) /\ Len(cut) = n - top + 1
      /\ \A k \in 1..(n - top + 1) : cut[k] = p[top + k - 1]
  BY ONLY <1>4, p \in Seq(Slugs), StretchIs
<1> HIDE DEF cut
<1>6. CASE anchor = <<>>
  <2>1. top = 1 BY <1>6 DEF top
  <2>2. Len(cut) = Len(p) /\ \A k \in 1..Len(cut) : cut[k] = p[k] BY <1>1, <1>5, <2>1 DEF n
  <2>3. cut = p BY <1>5, <2>2, SeqEqual
  <2> QED BY <1>3, <1>6, <2>1, <2>3 DEF cut, n
<1>7. CASE anchor # <<>>
  <2>1. top = Len(anchor) BY <1>7 DEF top
  <2>2. Front(anchor) \in Seq(Slugs) /\ Len(Front(anchor)) = Len(anchor) - 1
        /\ \A k \in 1..(Len(anchor) - 1) : Front(anchor)[k] = anchor[k]
    BY <1>1, <1>7, FrontIs
  <2> DEFINE f == Front(anchor)  w == f \o cut
  <2> HIDE DEF f
  <2>3. f \in Seq(Slugs) /\ Len(f) = top - 1 /\ \A k \in 1..(top - 1) : f[k] = p[k]
    BY <1>1, <1>2, <2>1, <2>2 DEF f
  <2>4. w \in Seq(Slugs) /\ Len(w) = Len(f) + Len(cut)
        /\ \A k \in 1..(Len(f) + Len(cut)) : w[k] = IF k <= Len(f) THEN f[k] ELSE cut[k - Len(f)]
    BY ONLY <1>5, <2>3, ConcatProperties
  <2> HIDE DEF w
  <2>5. Len(w) = Len(p) BY <1>1, <1>4, <1>5, <2>3, <2>4 DEF n
  <2>6. ASSUME NEW k \in 1..Len(w) PROVE w[k] = p[k]
    <3>1. k \in 1..(Len(f) + Len(cut)) BY <2>4
    <3>2. CASE k <= Len(f)
      <4>1. k \in 1..(top - 1) BY <1>4, <2>3, <3>2
      <4> QED BY <2>3, <2>4, <3>1, <3>2, <4>1
    <3>3. CASE ~(k <= Len(f))
      <4>1. k - Len(f) \in 1..(n - top + 1) /\ top + (k - Len(f)) - 1 = k
        BY <1>4, <1>5, <2>3, <3>1, <3>3
      <4>2. cut[k - Len(f)] = p[top + (k - Len(f)) - 1] BY <1>5, <4>1
      <4> QED BY <2>4, <3>1, <3>3, <4>1, <4>2
    <3> QED BY <3>2, <3>3
  <2>7. w = p BY <2>4, <2>5, <2>6, SeqEqual
  <2> QED BY <1>3, <1>7, <2>1, <2>7 DEF w, f, cut, n
<1> QED BY <1>6, <1>7
-----------------------------------------------------------------------------
\* What is admitted of what is admitted is all of it; so an answer and what an
\* address stands for depend on nothing that the viewer may not see.
LEMMA AdmittedTwice ==
    ASSUME NEW nodes, NEW b, NEW viewer
    PROVE  LET r == [nodes |-> nodes, barred |-> b]
           IN  Admitted([nodes |-> Admitted(r, viewer), barred |-> b], viewer) = Admitted(r, viewer)
<1> DEFINE r == [nodes |-> nodes, barred |-> b]
           seen == Admitted(r, viewer)
           again == [nodes |-> seen, barred |-> b]
           documents == Documents(r, viewer)
<1>1. r.nodes = nodes /\ r.barred = b /\ again.nodes = seen /\ again.barred = b OBVIOUS
<1> HIDE DEF r, again
<1>2. \A n : Denied(again, n) <=> Denied(r, n) BY <1>1 DEF Denied
<1>3. seen = documents \cup {s \in r.nodes : s.kind = "section" /\ ~Denied(r, s) /\ Holds(s, documents)}
  BY DEF Admitted
<1>4. \A n \in documents : n \in r.nodes /\ n.kind = "document" /\ n.aud \cap viewer # {} /\ ~Denied(r, n)
  BY DEF Documents
<1>5. Documents(again, viewer) = {n \in seen : n.kind = "document" /\ n.aud \cap viewer # {} /\ ~Denied(r, n)}
  BY <1>1, <1>2 DEF Documents
<1>6. documents = {n \in r.nodes : n.kind = "document" /\ n.aud \cap viewer # {} /\ ~Denied(r, n)}
  BY DEF Documents
<1>7. Admitted(again, viewer)
        = Documents(again, viewer)
          \cup {s \in seen : s.kind = "section" /\ ~Denied(r, s) /\ Holds(s, Documents(again, viewer))}
  BY <1>1, <1>2 DEF Admitted
<1> HIDE DEF seen, documents
<1>8. Documents(again, viewer) = documents BY <1>3, <1>5, <1>6
<1>9. Admitted(again, viewer) = seen BY <1>3, <1>4, <1>7, <1>8
<1> QED BY <1>9 DEF seen, again, r

\* A read that admits the same answers the same.
LEMMA SameAdmittedSameAnswers ==
    ASSUME NEW r, NEW q, NEW viewer, Admitted(r, viewer) = Admitted(q, viewer)
    PROVE  \A address :
             /\ FindAnchor(r, viewer, address) = FindAnchor(q, viewer, address)
             /\ FindDocument(r, viewer, address) = FindDocument(q, viewer, address)
             /\ \A depth : OutlineQuery(r, viewer, address, depth) = OutlineQuery(q, viewer, address, depth)
<1> TAKE address
<1>1. FindAnchor(r, viewer, address) = FindAnchor(q, viewer, address) BY DEF FindAnchor, SlugCandidates
<1>2. FindDocument(r, viewer, address) = FindDocument(q, viewer, address) BY <1>1 DEF FindDocument
<1>3. \A depth : OutlineQuery(r, viewer, address, depth) = OutlineQuery(q, viewer, address, depth)
  BY DEF OutlineQuery
<1> QED BY <1>1, <1>2, <1>3

\* An address is of the node it was taken from, and of others only that it ends.
LEMMA AddressIsOf ==
    ASSUME NEW r, r.nodes \in Trees, NEW viewer, NEW n \in Admitted(r, viewer)
    PROVE  LET documents == FindDocument(r, viewer, n.path)
               anchors == FindAnchor(r, viewer, n.path)
           IN  /\ n \in anchors
               /\ n.path[1] # Bundle => documents = anchors
               /\ \A m \in anchors \ {n} : Len(m.path) > Len(n.path) /\ n.path \in Suffixes(m.path)
<1> DEFINE p == n.path
<1>1. \A m \in Admitted(r, viewer) : m \in r.nodes BY DEF Admitted, Documents
<1>2. \A m \in Admitted(r, viewer) : m.path \in Seq(Slugs) /\ Len(m.path) \in Nat \ {0} BY <1>1, NodeIs
<1>3. FindAnchor(r, viewer, p) = {m \in Admitted(r, viewer) : Last(m.path) = Last(p) /\ IsSuffix(p, m.path)}
  BY DEF FindAnchor, ResolveDocumentNode, SlugCandidates, LeafSlug
<1>4. n \in FindAnchor(r, viewer, p)
  <2>1. \A k \in 1..Len(p) : p[k] = p[Len(p) - Len(p) + k] BY <1>2
  <2>2. IsSuffix(p, p) BY <1>2, <2>1, EndsWith
  <2> QED BY <1>3, <2>2
<1>5. ASSUME p[1] # Bundle PROVE FindDocument(r, viewer, p) = FindAnchor(r, viewer, p)
  <2>1. ASSUME NEW m \in Admitted(r, viewer) PROVE <<Bundle>> \o m.path # p
    <3>1. <<Bundle>> \in Seq(Slugs) /\ Len(<<Bundle>>) = 1 /\ <<Bundle>>[1] = Bundle BY OutlineAssumption
    <3>2. m.path \in Seq(Slugs) BY <1>2
    <3> DEFINE h == <<Bundle>>  w == m.path
    <3> HIDE DEF h, w
    <3>3. \A k \in 1..(Len(h) + Len(w)) : (h \o w)[k] = IF k <= Len(h) THEN h[k] ELSE w[k - Len(h)]
      BY ONLY <3>1, <3>2, ConcatProperties DEF h, w
    <3>4. Len(h) = 1 /\ h[1] = Bundle /\ Len(w) \in Nat BY <1>2, <3>1 DEF h, w
    <3>5. (h \o w)[1] = Bundle BY <3>3, <3>4
    <3> QED BY <1>5, <3>5 DEF h, w
  <2>2. {m \in Admitted(r, viewer) : m.kind = "document" /\ <<Bundle>> \o m.path = p} = {} BY <2>1
  <2> QED BY <2>2 DEF FindDocument
<1>6. ASSUME NEW m \in FindAnchor(r, viewer, p) \ {n}
      PROVE  Len(m.path) > Len(p) /\ p \in Suffixes(m.path)
  <2> DEFINE s == m.path
  <2>1. m \in Admitted(r, viewer) /\ IsSuffix(p, s) /\ m # n BY <1>3, <1>6
  <2>2. p \in Seq(Slugs) /\ s \in Seq(Slugs) /\ Len(p) \in Nat \ {0} /\ Len(s) \in Nat \ {0} BY <1>2, <2>1
  <2>3. p # s BY <1>1, <2>1, OutlineAssumption
  <2> HIDE DEF p, s
  <2>4. Len(p) <= Len(s) /\ \A k \in 1..Len(p) : p[k] = s[Len(s) - Len(p) + k] BY <2>1, <2>2, EndsWith
  <2>5. Len(p) # Len(s)
    <3>1. SUFFICES ASSUME Len(p) = Len(s) PROVE FALSE OBVIOUS
    <3>2. \A k \in 1..Len(p) : p[k] = s[k] BY <2>2, <2>4, <3>1
    <3> QED BY <2>2, <2>3, <3>1, <3>2, SeqEqual
  <2> DEFINE a == Len(s) - Len(p) + 1  n1 == Len(s)
  <2>6. a \in 1..(Len(s) + 1) /\ n1 \in (a - 1)..Len(s) BY <2>2, <2>4
  <2>7. a \in 1..Len(s) /\ n1 - a + 1 = Len(p) BY <2>2, <2>4
  <2> HIDE DEF a, n1
  <2>8. /\ SubSeq(s, a, n1) \in Seq(Slugs) /\ Len(SubSeq(s, a, n1)) = n1 - a + 1
        /\ \A k \in 1..(n1 - a + 1) : SubSeq(s, a, n1)[k] = s[a + k - 1]
    BY ONLY <2>2, <2>6, StretchIs
  <2>9. \A k \in 1..Len(p) : a + k - 1 = Len(s) - Len(p) + k BY <2>2 DEF a
  <2>10. \A k \in 1..Len(p) : p[k] = SubSeq(s, a, n1)[k] BY <2>4, <2>7, <2>8, <2>9
  <2>11. p = SubSeq(s, a, n1) BY <2>2, <2>7, <2>8, <2>10, SeqEqual
  <2>12. p \in Suffixes(s) BY <2>7, <2>11 DEF Suffixes, n1
  <2> QED BY <2>2, <2>4, <2>5, <2>12 DEF s, p
<1> QED BY <1>4, <1>5, <1>6

\* So addresses lead back, and tell nothing.
LEMMA AddressesHold ==
    ASSUME tree \in Trees
    PROVE  AddressesLeadBack
<1> SUFFICES ASSUME NEW viewer \in Viewers, NEW n \in Admitted(AsServed, viewer)
             PROVE  LET seen == Admitted(AsServed, viewer)
                        Seen == [nodes |-> seen, barred |-> barred]
                        documents == FindDocument(AsServed, viewer, n.path)
                        anchors == FindAnchor(AsServed, viewer, n.path)
                        Drilled(r) == OutlineQuery(r, viewer, n.path, Max(Depths))
                    IN  /\ documents = FindDocument(Seen, viewer, n.path)
                        /\ anchors = FindAnchor(Seen, viewer, n.path)
                        /\ Drilled(AsServed) = Drilled(Seen)
                        /\ n \in anchors
                        /\ n.path[1] # Bundle => documents = anchors
                        /\ \A m \in anchors \ {n} :
                             Len(m.path) > Len(n.path) /\ n.path \in Suffixes(m.path)
  BY DEF AddressesLeadBack
<1> DEFINE Seen == [nodes |-> Admitted(AsServed, viewer), barred |-> barred]
<1>1. Admitted(Seen, viewer) = Admitted(AsServed, viewer) BY AdmittedTwice DEF AsServed
<1>2. AsServed.nodes \in Trees BY DEF AsServed
<1> DEFINE r == AsServed
<1> HIDE DEF Seen, r
<1>3. \A address :
        /\ FindAnchor(r, viewer, address) = FindAnchor(Seen, viewer, address)
        /\ FindDocument(r, viewer, address) = FindDocument(Seen, viewer, address)
        /\ \A depth : OutlineQuery(r, viewer, address, depth) = OutlineQuery(Seen, viewer, address, depth)
  BY ONLY <1>1, SameAdmittedSameAnswers DEF r
<1>4. /\ n \in FindAnchor(r, viewer, n.path)
      /\ n.path[1] # Bundle => FindDocument(r, viewer, n.path) = FindAnchor(r, viewer, n.path)
      /\ \A m \in FindAnchor(r, viewer, n.path) \ {n} :
           Len(m.path) > Len(n.path) /\ n.path \in Suffixes(m.path)
  BY <1>2, AddressIsOf DEF r
<1> QED BY <1>3, <1>4 DEF r, Seen
-----------------------------------------------------------------------------
\* The rows an outline is made of, and what each of them should say.
Visible(r, a) == Admitted(r, a.viewer)
RowSet(r, a) == RowsUnder(Visible(r, a), AnchorOf(r, a), DepthOf(AnchorOf(r, a), a.depth))
RowFor(visible, rows, n) ==
    [path |-> n.path, kind |-> n.kind, depth |-> Len(n.path) - 1, position |-> Position(rows, n),
     childCount |-> Cardinality({c \in visible : Parent(c) = n.path})]

\* What the caller named is a node of the release, or all of it.
LEMMA AnchorIs ==
    ASSUME NEW r, r.nodes \in Trees, NEW a, Named(r, a)
    PROVE  AnchorOf(r, a) \in Seq(Slugs)
<1>1. CASE a.root = <<>> BY <1>1 DEF AnchorOf
<1>2. CASE a.root # <<>>
  <2> DEFINE found == FindAnchor(r, a.viewer, a.root)
  <2>1. Cardinality(found) = 1 BY <1>2 DEF Named
  <2>2. \A m \in found : m \in r.nodes
    BY DEF FindAnchor, ResolveDocumentNode, SlugCandidates, Admitted, Documents
  <2> HIDE DEF found
  <2>3. found # {}
    <3>1. Cardinality({}) = 0 BY FS_EmptySet
    <3> QED BY <2>1, <3>1
  <2>4. (CHOOSE n \in found : TRUE) \in found BY <2>3
  <2>5. AnchorOf(r, a) = (CHOOSE n \in found : TRUE).path BY <1>2 DEF AnchorOf, found
  <2> DEFINE c == CHOOSE n \in found : TRUE
  <2> HIDE DEF c
  <2>6. c \in r.nodes BY <2>2, <2>4 DEF c
  <2>7. c.path \in Seq(Slugs) BY <2>6, NodeIs
  <2> QED BY <2>5, <2>7 DEF c
<1> QED BY <1>1, <1>2

Moved(row, path, depth) == [row EXCEPT !.path = path, !.depth = depth]

\* A row that is put back beneath the anchor keeps all but its path and its depth.
LEMMA RowMoves ==
    ASSUME NEW p, NEW k, NEW d, NEW o, NEW c, NEW path, NEW depth
    PROVE  Moved([path |-> p, kind |-> k, depth |-> d, position |-> o, childCount |-> c], path, depth)
             = [path |-> path, kind |-> k, depth |-> depth, position |-> o, childCount |-> c]
<1> DEFINE x == [path |-> p, kind |-> k, depth |-> d, position |-> o, childCount |-> c]
           y == [path |-> path, kind |-> k, depth |-> depth, position |-> o, childCount |-> c]
           z == [x EXCEPT !.path = path, !.depth = depth]
<1>1. DOMAIN z = DOMAIN y OBVIOUS
<1>2. z.path = y.path /\ z.depth = y.depth OBVIOUS
<1>3. z.kind = y.kind /\ z.position = y.position /\ z.childCount = y.childCount OBVIOUS
<1>4. z = [f \in DOMAIN y |-> z[f]] BY <1>1
<1>5. \A f \in DOMAIN y : z[f] = y[f] BY <1>2, <1>3
<1>6. z = Moved(x, path, depth) BY DEF Moved
<1> QED BY <1>1, <1>4, <1>5, <1>6

\* Each row is told at its place, with its path whole and its depth from the top.
LEMMA RowsAre ==
    ASSUME NEW r, r.nodes \in Trees, NEW a, Named(r, a)
    PROVE  Outlined(r, a) =
             [i \in 1..Cardinality(RowSet(r, a)) |->
                RowFor(Visible(r, a), RowSet(r, a), Nth(RowSet(r, a), i))]
<1> DEFINE anchor == AnchorOf(r, a)  visible == Visible(r, a)  rows == RowSet(r, a)
           c == Cardinality(rows)
           Cut(n) == [path |-> SubSeq(n.path, Top(anchor), Len(n.path)), kind |-> n.kind,
                      depth |-> Len(n.path) - Top(anchor), position |-> Position(rows, n),
                      childCount |-> Cardinality({k \in visible : Parent(k) = n.path})]
           found == [i \in 1..c |-> Cut(Nth(rows, i))]
<1>1. anchor \in Seq(Slugs) BY AnchorIs
<1>2. visible \in SUBSET r.nodes BY DEF Visible, Admitted, Documents
<1>3. rows \in SUBSET r.nodes /\ \A n \in rows : IsStrictPrefix(anchor, n.path)
  BY <1>2 DEF RowSet, RowsUnder
<1>4. Outlined(r, a) = Rebase(found, anchor) BY DEF Outlined, OutlineQuery, RowSet, Visible
<1> HIDE DEF anchor, visible, rows, c
<1>5. \A i \in 1..c : Nth(rows, i) \in rows BY <1>3, NthIs DEF c
<1>6. ASSUME NEW n \in rows
      PROVE  /\ Top(anchor) = (IF anchor = <<>> THEN 1 ELSE Len(anchor))
             /\ IF anchor = <<>> THEN SubSeq(n.path, Top(anchor), Len(n.path)) = n.path
                                 ELSE Front(anchor) \o SubSeq(n.path, Top(anchor), Len(n.path)) = n.path
             /\ Len(n.path) \in Nat /\ Len(anchor) \in Nat
  <2>1. n \in r.nodes /\ IsStrictPrefix(anchor, n.path) BY <1>3
  <2>2. n.path \in Seq(Slugs) /\ Len(n.path) \in Nat BY <2>1, NodeIs
  <2>3. Len(anchor) \in Nat BY <1>1
  <2> QED BY <1>1, <2>1, <2>2, <2>3, PathsRejoin
<1>7. CASE anchor = <<>>
  <2>1. \A n \in rows : Cut(n) = RowFor(visible, rows, n) BY <1>6, <1>7 DEF RowFor
  <2> HIDE DEF Cut
  <2>2. Outlined(r, a) = found BY <1>4, <1>7 DEF Rebase
  <2>3. \A i \in 1..c : Cut(Nth(rows, i)) = RowFor(visible, rows, Nth(rows, i)) BY <1>5, <2>1
  <2>4. found = [i \in 1..c |-> RowFor(visible, rows, Nth(rows, i))] BY <2>3
  <2> QED BY <2>2, <2>4 DEF visible, rows, c
<1>8. CASE anchor # <<>>
  <2> DEFINE Back(x) == Moved(x, Front(anchor) \o x.path, Len(anchor) - 1 + x.depth)
  <2>1. ASSUME NEW n \in rows PROVE Back(Cut(n)) = RowFor(visible, rows, n)
    <3>1. Front(anchor) \o SubSeq(n.path, Top(anchor), Len(n.path)) = n.path /\ Top(anchor) = Len(anchor)
      BY <1>6, <1>8
    <3>2. Len(anchor) - 1 + (Len(n.path) - Top(anchor)) = Len(n.path) - 1 BY <1>6, <3>1
    <3>3. Back(Cut(n)) = [path |-> Front(anchor) \o SubSeq(n.path, Top(anchor), Len(n.path)), kind |-> n.kind,
                          depth |-> Len(anchor) - 1 + (Len(n.path) - Top(anchor)),
                          position |-> Position(rows, n),
                          childCount |-> Cardinality({k \in visible : Parent(k) = n.path})]
      <4> DEFINE q == SubSeq(n.path, Top(anchor), Len(n.path))  h == n.kind  e == Len(n.path) - Top(anchor)
                 o == Position(rows, n)  k == Cardinality({m \in visible : Parent(m) = n.path})
                 x == [path |-> q, kind |-> h, depth |-> e, position |-> o, childCount |-> k]
                 p == Front(anchor) \o x.path  d == Len(anchor) - 1 + x.depth
      <4>1. Cut(n) = x OBVIOUS
      <4>2. p = Front(anchor) \o q /\ d = Len(anchor) - 1 + e OBVIOUS
      <4>3. Back(x) = Moved(x, p, d) OBVIOUS
      <4> HIDE DEF q, h, e, o, k, p, d
      <4>4. Moved(x, p, d)
              = [path |-> p, kind |-> h, depth |-> d, position |-> o, childCount |-> k]
        BY ONLY RowMoves
      <4> HIDE DEF x, Back, Cut
      <4>5. Back(Cut(n)) = [path |-> p, kind |-> h, depth |-> d, position |-> o, childCount |-> k]
        BY <4>1, <4>3, <4>4
      <4> QED BY <4>2, <4>5 DEF q, h, e, o, k
    <3> HIDE DEF Back, Cut
    <3> QED BY <3>1, <3>2, <3>3 DEF RowFor
  <2>2. Outlined(r, a) = [i \in 1..c |-> Back(Cut(Nth(rows, i)))]
    <3>1. DOMAIN found = 1..c /\ \A i \in 1..c : found[i] = Cut(Nth(rows, i)) OBVIOUS
    <3> HIDE DEF Cut, found
    <3>2. Outlined(r, a) = [i \in DOMAIN found |->
                              [found[i] EXCEPT !.path = Front(anchor) \o found[i].path,
                                               !.depth = Len(anchor) - 1 + found[i].depth]]
      BY <1>4, <1>8 DEF Rebase
    <3>3. Outlined(r, a) = [i \in DOMAIN found |-> Back(found[i])] BY <3>2 DEF Moved
    <3> HIDE DEF Back
    <3> QED BY <3>1, <3>3
  <2> HIDE DEF Back, Cut
  <2>3. \A i \in 1..c : Back(Cut(Nth(rows, i))) = RowFor(visible, rows, Nth(rows, i)) BY <1>5, <2>1
  <2>4. Outlined(r, a) = [i \in 1..c |-> RowFor(visible, rows, Nth(rows, i))] BY <2>2, <2>3
  <2> QED BY <2>4 DEF visible, rows, c
<1> QED BY <1>7, <1>8

\* A page is the rows from its offset on, as many as it is asked for, and says where
\* the next begins as long as there is one.
LEMMA PageTold ==
    ASSUME NEW r, NEW a, NEW T, Outlined(r, a) \in Seq(T), a.limit \in Nat \ {0},
           NEW offset \in 0..Len(Outlined(r, a))
    PROVE  LET F == Outlined(r, a)
               e == IF offset + a.limit < Len(F) THEN offset + a.limit ELSE Len(F)
           IN  /\ e \in offset..Len(F)
               /\ Page(r, a, offset).rows = SubSeq(F, offset + 1, e)
               /\ Page(r, a, offset).next = IF e = Len(F) THEN 0 ELSE e
               /\ e # Len(F) => e # 0
<1> DEFINE F == Outlined(r, a)  n == Len(F)  limit == a.limit
           low == offset + 1
           high == Min({offset + limit + 1, n})
           rows == SubSeq(F, low, high)
           e == IF offset + limit < n THEN offset + limit ELSE n
           hasMore == Len(rows) > limit
           kept == IF hasMore THEN Front(rows) ELSE rows
<1>1. n \in Nat /\ limit \in Nat \ {0} /\ offset \in 0..n /\ F \in Seq(T) OBVIOUS
<1>2. /\ Page(r, a, offset).rows = kept
      /\ Page(r, a, offset).next = IF hasMore THEN offset + Len(kept) ELSE 0
  BY DEF Page
<1>3. n = Len(F) OBVIOUS
<1> HIDE DEF F, n, limit
<1>4. high = IF offset + limit + 1 <= n THEN offset + limit + 1 ELSE n
  <2> DEFINE m == offset + limit + 1
  <2>1. m \in Int /\ n \in Int BY <1>1
  <2> HIDE DEF m
  <2>2. Min({m, n}) = IF m <= n THEN m ELSE n BY ONLY <2>1, OfTwo
  <2> QED BY <2>2 DEF m
<1>5. low \in 1..(n + 1) /\ high \in (low - 1)..n BY <1>1, <1>4
<1> HIDE DEF high, low
<1>6. rows \in Seq(T) /\ Len(rows) = high - low + 1
      /\ \A k \in 1..(high - low + 1) : rows[k] = F[low + k - 1]
  BY ONLY <1>1, <1>3, <1>5, StretchIs
<1>7. hasMore <=> offset + limit < n BY <1>1, <1>4, <1>6 DEF low
<1>8. e \in offset..n /\ (e # n => e # 0) BY <1>1
<1> DEFINE want == SubSeq(F, low, e)
<1>9. e \in (low - 1)..n BY <1>1, <1>8 DEF low
<1> HIDE DEF e
<1>10. want \in Seq(T) /\ Len(want) = e - low + 1
       /\ \A k \in 1..(e - low + 1) : want[k] = F[low + k - 1]
  BY ONLY <1>1, <1>3, <1>5, <1>9, StretchIs
<1> HIDE DEF rows, want, hasMore
<1>11. CASE hasMore
  <2>1. high = offset + limit + 1 /\ e = offset + limit /\ e # n BY <1>1, <1>4, <1>7, <1>11 DEF e
  <2>2. Len(rows) = limit + 1 /\ Len(want) = limit BY <1>1, <1>6, <1>10, <2>1 DEF low
  <2>3. Front(rows) \in Seq(T) /\ Len(Front(rows)) = Len(rows) - 1
        /\ \A k \in 1..(Len(rows) - 1) : Front(rows)[k] = rows[k]
    <3>1. Len(rows) # 0 BY <1>1, <2>2
    <3> QED BY ONLY <1>6, <3>1, FrontIs
  <2>4. kept = Front(rows) BY <1>11
  <2> HIDE DEF kept
  <2>5. ASSUME NEW k \in 1..limit PROVE kept[k] = want[k]
    <3>1. k \in 1..(Len(rows) - 1) /\ k \in 1..(high - low + 1) /\ k \in 1..(e - low + 1)
      BY <1>1, <1>6, <1>10, <2>2
    <3> QED BY <1>6, <1>10, <2>3, <2>4, <3>1
  <2>6. Len(kept) = limit /\ kept \in Seq(T) BY <1>1, <2>2, <2>3, <2>4
  <2>7. kept = want BY <1>10, <2>2, <2>5, <2>6, SeqEqual
  <2> QED BY <1>2, <1>3, <1>8, <1>11, <2>1, <2>6, <2>7 DEF want, low, F, e, n, limit
<1>12. CASE ~hasMore
  <2>1. high = n /\ e = n BY <1>1, <1>4, <1>7, <1>12 DEF e
  <2>2. kept = want BY <1>12, <2>1 DEF want, rows
  <2> QED BY <1>2, <1>3, <1>8, <1>12, <2>1, <2>2 DEF want, low, F, e, n, limit
<1> QED BY <1>11, <1>12
-----------------------------------------------------------------------------
\* A section comes before what it holds, and siblings in the order of their ranks.
LEMMA ComesBefore ==
    ASSUME NEW t \in Trees, NEW m \in t, NEW n \in t,
           IsStrictPrefix(m.path, n.path) \/ (Parent(m) = Parent(n) /\ Last(m.at) < Last(n.at))
    PROVE  Before(m, n)
<1>1. m.at \in Seq(Nat) /\ n.at \in Seq(Nat) /\ Len(m.at) \in Nat \ {0} /\ Len(n.at) \in Nat \ {0} BY NodeIs
<1>2. CASE IsStrictPrefix(m.path, n.path)
  <2>1. IsStrictPrefix(m.at, n.at) BY <1>2, OutlineAssumption
  <2> QED BY <2>1 DEF Before
<1>3. CASE Parent(m) = Parent(n) /\ Last(m.at) < Last(n.at)
  <2> DEFINE a == m.at  b == n.at
  <2>1. Front(a) = Front(b) BY <1>3, OutlineAssumption
  <2>2. a \in Seq(Nat) /\ b \in Seq(Nat) /\ Len(a) \in Nat \ {0} /\ Len(b) \in Nat \ {0}
        /\ a[Len(a)] < b[Len(b)]
    BY <1>1, <1>3 DEF Last
  <2> HIDE DEF a, b
  <2>3. Len(Front(a)) = Len(a) - 1 /\ \A k \in 1..(Len(a) - 1) : Front(a)[k] = a[k] BY <2>2, FrontIs
  <2>4. Len(Front(b)) = Len(b) - 1 /\ \A k \in 1..(Len(b) - 1) : Front(b)[k] = b[k] BY <2>2, FrontIs
  <2>5. Len(a) = Len(b) BY <2>1, <2>2, <2>3, <2>4
  <2>6. \A k \in 1..(Len(a) - 1) : a[k] = b[k] BY <2>1, <2>3, <2>4, <2>5
  <2> DEFINE k == Len(a)
  <2>7. k \in Nat /\ k \in 1..Len(a) /\ k \in 1..Len(b) /\ a[k] < b[k] /\ \A i \in 1..(k - 1) : a[i] = b[i]
    BY <2>2, <2>5, <2>6
  <2> HIDE DEF k
  <2> QED BY <2>7, BeforeIs DEF a, b
<1> QED BY <1>2, <1>3

\* What is beneath an anchor has its siblings there too.
LEMMA SiblingsAreBeneath ==
    ASSUME NEW t \in Trees, NEW m \in t, NEW n \in t, Parent(m) = Parent(n),
           NEW anchor \in Seq(Slugs), IsStrictPrefix(anchor, n.path)
    PROVE  IsStrictPrefix(anchor, m.path) /\ Len(m.path) = Len(n.path)
<1> DEFINE a == m.path  b == n.path
<1>1. a \in Seq(Slugs) /\ b \in Seq(Slugs) /\ Len(a) \in Nat \ {0} /\ Len(b) \in Nat \ {0}
      /\ Len(anchor) \in Nat
  BY NodeIs
<1>2. Front(a) = Front(b) BY DEF Parent
<1>3. IsStrictPrefix(anchor, b) OBVIOUS
<1> HIDE DEF a, b
<1>4. Len(Front(a)) = Len(a) - 1 /\ \A k \in 1..(Len(a) - 1) : Front(a)[k] = a[k] BY <1>1, FrontIs
<1>5. Len(Front(b)) = Len(b) - 1 /\ \A k \in 1..(Len(b) - 1) : Front(b)[k] = b[k] BY <1>1, FrontIs
<1>6. Len(a) = Len(b) BY <1>1, <1>2, <1>4, <1>5
<1>7. Len(anchor) < Len(b) /\ \A k \in 1..Len(anchor) : anchor[k] = b[k] BY <1>1, <1>3, StrictlyBefore
<1>8. ASSUME NEW k \in 1..Len(anchor) PROVE anchor[k] = a[k]
  <2>1. k \in 1..(Len(a) - 1) /\ k \in 1..(Len(b) - 1) BY <1>1, <1>6, <1>7
  <2> QED BY <1>2, <1>4, <1>5, <1>7, <2>1
<1>9. IsStrictPrefix(anchor, a) BY <1>1, <1>6, <1>7, <1>8, StrictlyBefore
<1> QED BY <1>6, <1>9 DEF a, b

\* The position of a row is its rank among its siblings.
LEMMA PositionIsRank ==
    ASSUME NEW t \in Trees, NEW rows \in SUBSET t, NEW family \in SUBSET rows, NEW n \in family,
           \A m \in rows : m \in family <=> Parent(m) = Parent(n)
    PROVE  Position(rows, n) = Rank(TreeOrder(family), family)[n]
<1> DEFINE lower == Preceding(TreeOrder(family), family, n)
           upto == {m \in rows : Parent(m) = Parent(n) /\ ~Before(n, m)}
<1>1. Orders(TreeOrder(family), family) BY BeforeOrders
<1>2. \A m \in family : (<<m, n>> \in TreeOrder(family) <=> Before(m, n)) /\ (<<n, m>> \in TreeOrder(family) <=> Before(n, m))
  BY DEF TreeOrder
<1>3. \A m \in family : /\ m # n => Before(m, n) \/ Before(n, m)
                        /\ ~(Before(m, n) /\ Before(n, m))
                        /\ ~Before(n, n)
  <2> TAKE m \in family
  <2>1. <<n, n>> \notin TreeOrder(family) BY <1>1 DEF Orders
  <2>2. m # n => <<m, n>> \in TreeOrder(family) \/ <<n, m>> \in TreeOrder(family) BY <1>1 DEF Orders
  <2>3. <<n, m>> \in TreeOrder(family) /\ <<m, n>> \in TreeOrder(family) => <<n, n>> \in TreeOrder(family)
    BY <1>1 DEF Orders
  <2> QED BY <1>2, <2>1, <2>2, <2>3
<1>4. lower = {m \in family : Before(m, n)} BY <1>2 DEF Preceding
<1>5. upto = lower \cup {n} BY <1>3, <1>4
<1>6. n \notin lower BY <1>3, <1>4
<1>7. IsFiniteSet(lower)
  <2>1. IsFiniteSet(t) /\ lower \in SUBSET t BY <1>4, OutlineAssumption
  <2> QED BY <2>1, FS_Subset
<1>8. Position(rows, n) = Cardinality(upto) BY DEF Position
<1> HIDE DEF lower, upto
<1>9. Cardinality(lower \cup {n}) = Cardinality(lower) + 1 BY <1>6, <1>7, FS_AddElement
<1>10. Rank(TreeOrder(family), family)[n] = Cardinality(lower) + 1 BY DEF Rank, lower
<1> QED BY <1>5, <1>8, <1>9, <1>10
-----------------------------------------------------------------------------
\* The rows of an outline are the nodes beneath the anchor, to the depth asked for.
LEMMA RowSetIs ==
    ASSUME NEW r, r.nodes \in Trees, NEW a, Named(r, a), a.depth \in Nat
    PROVE  LET anchor == AnchorOf(r, a)
               deepest == Len(anchor) + IF anchor = <<>> THEN a.depth + 1 ELSE Max({1, a.depth})
           IN  RowSet(r, a) = {n \in Visible(r, a) : IsStrictPrefix(anchor, n.path) /\ Len(n.path) <= deepest}
<1> DEFINE anchor == AnchorOf(r, a)  visible == Visible(r, a)  depth == a.depth
           deepest == Len(anchor) + IF anchor = <<>> THEN depth + 1 ELSE Max({1, depth})
<1>1. anchor \in Seq(Slugs) /\ depth \in Nat BY AnchorIs
<1>2. \A n \in visible : n \in r.nodes BY DEF Visible, Admitted, Documents
<1>3. RowSet(r, a) = {n \in visible : IsStrictPrefix(anchor, n.path)
                                      /\ Len(n.path) - Top(anchor) <= DepthOf(anchor, depth)}
  BY DEF RowSet, RowsUnder
<1> HIDE DEF anchor, visible, depth
<1>4. Max({1, depth}) \in Int
  <2> DEFINE one == 1
  <2>1. one \in Int /\ depth \in Int BY <1>1
  <2> HIDE DEF one
  <2>2. Max({one, depth}) = IF one >= depth THEN one ELSE depth BY ONLY <2>1, OfTwo
  <2>3. Max({one, depth}) \in Int BY <2>1, <2>2
  <2> QED BY <2>3 DEF one
<1>5. ASSUME NEW n \in visible, IsStrictPrefix(anchor, n.path)
      PROVE  Len(n.path) - Top(anchor) <= DepthOf(anchor, depth) <=> Len(n.path) <= deepest
  <2>1. n.path \in Seq(Slugs) /\ Len(n.path) \in Nat
    <3>1. n \in r.nodes BY <1>2
    <3> QED BY <3>1, NodeIs
  <2>2. Top(anchor) = IF anchor = <<>> THEN 1 ELSE Len(anchor) BY <1>1, <1>5, <2>1, PathsRejoin
  <2>3. Len(anchor) \in Nat /\ (anchor = <<>> => Len(anchor) = 0) BY <1>1
  <2>4. CASE anchor = <<>> BY <1>1, <2>1, <2>2, <2>3, <2>4 DEF DepthOf
  <2>5. CASE anchor # <<>>
    <3> DEFINE d == Max({1, depth})
    <3>1. d \in Int BY <1>4
    <3>2. DepthOf(anchor, depth) = d /\ deepest = Len(anchor) + d BY <2>5 DEF DepthOf
    <3> HIDE DEF d, deepest
    <3> QED BY <2>1, <2>2, <2>3, <2>5, <3>1, <3>2
  <2> QED BY <2>4, <2>5
<1> HIDE DEF deepest
<1>6. RowSet(r, a) = {n \in visible : IsStrictPrefix(anchor, n.path) /\ Len(n.path) <= deepest}
  BY <1>3, <1>5
<1> QED BY <1>6 DEF anchor, visible, depth, deepest

\* A whole outline is the record's.
LEMMA WholeOutline ==
    ASSUME tree \in Trees, Named(AsServed, asked), asked.depth \in Nat,
           shelf = Outlined(AsServed, asked)
    PROVE  RowsAreTheRecord
<1> DEFINE r == AsServed  a == asked
<1>1. r.nodes \in Trees BY DEF AsServed
<1>2. Named(r, a) /\ a.depth \in Nat /\ shelf = Outlined(r, a) OBVIOUS
<1> DEFINE t == r.nodes  anchor == AnchorOf(r, a)  visible == Admitted(r, a.viewer)
           deepest == Len(anchor) + IF anchor = <<>> THEN a.depth + 1 ELSE Max({1, a.depth})
           rows == {n \in visible : IsStrictPrefix(anchor, n.path) /\ Len(n.path) <= deepest}
           c == Cardinality(rows)
           seat == Rank(TreeOrder(rows), rows)
           RowOf(n) == CHOOSE i \in DOMAIN shelf : shelf[i].path = n.path
           Beneath(path) == {m \in visible : Parent(m) = path}
<1>3. visible = Visible(r, a) BY DEF Visible
<1>4. RowSet(r, a) = rows
  <2> HIDE DEF r
  <2> QED BY <1>1, <1>2, <1>3, RowSetIs
<1>5. visible \in SUBSET t BY DEF Admitted, Documents
<1>6. rows \in SUBSET t BY <1>5
<1>7. shelf = [i \in 1..c |-> RowFor(visible, rows, Nth(rows, i))]
  <2> HIDE DEF r
  <2> HIDE DEF visible, rows
  <2> QED BY <1>1, <1>2, <1>3, <1>4, RowsAre
<1>8. anchor \in Seq(Slugs)
  <2> DEFINE c0 == AnchorOf(r, a)
  <2> HIDE DEF r, a
  <2>1. c0 \in Seq(Slugs) BY <1>1, <1>2, AnchorIs
  <2>2. anchor = c0 OBVIOUS
  <2> HIDE DEF anchor, c0
  <2> QED BY <2>1, <2>2
<1>9. SUFFICES /\ {Ident(shelf[i]) : i \in DOMAIN shelf} = {Ident(n) : n \in rows}
               /\ Len(shelf) = Cardinality(rows)
               /\ \A m, n \in rows :
                    IsStrictPrefix(m.path, n.path) \/ (Parent(m) = Parent(n) /\ Last(m.at) < Last(n.at))
                      => RowOf(m) < RowOf(n)
               /\ \A n \in rows :
                    LET siblings == Beneath(Parent(n))
                    IN  /\ {shelf[RowOf(m)].position : m \in siblings} = 1..Cardinality(siblings)
                        /\ shelf[RowOf(n)].depth = Len(n.path) - 1
                        /\ shelf[RowOf(n)].childCount = Cardinality(Beneath(n.path))
  BY DEF RowsAreTheRecord
<1>10. rows = {n \in visible : IsStrictPrefix(anchor, n.path) /\ Len(n.path) <= deepest} OBVIOUS
<1> HIDE DEF r, a, t, anchor, visible, rows, deepest
<1>11. t \in Trees BY <1>1 DEF t
<1>12. /\ c \in Nat
       /\ \A n \in rows : seat[n] \in 1..c /\ Nth(rows, seat[n]) = n
       /\ \A i \in 1..c : Nth(rows, i) \in rows /\ seat[Nth(rows, i)] = i
       /\ \A m, n \in rows : Before(m, n) => seat[m] < seat[n]
  BY ONLY <1>6, <1>11, NthIs
<1> HIDE DEF seat, c
<1>13. DOMAIN shelf = 1..c /\ Len(shelf) = c BY <1>7, <1>12
<1>14. ASSUME NEW i \in 1..c
       PROVE  /\ shelf[i].path = Nth(rows, i).path /\ shelf[i].kind = Nth(rows, i).kind
              /\ shelf[i].depth = Len(Nth(rows, i).path) - 1
              /\ shelf[i].position = Position(rows, Nth(rows, i))
              /\ shelf[i].childCount = Cardinality(Beneath(Nth(rows, i).path))
  <2>1. shelf[i] = RowFor(visible, rows, Nth(rows, i)) BY <1>7
  <2> QED BY <2>1 DEF RowFor
<1>15. ASSUME NEW n \in rows PROVE RowOf(n) = seat[n]
  <2>1. seat[n] \in DOMAIN shelf /\ shelf[seat[n]].path = n.path BY <1>12, <1>13, <1>14
  <2>2. ASSUME NEW i \in DOMAIN shelf, shelf[i].path = n.path PROVE i = seat[n]
    <3>1. i \in 1..c /\ Nth(rows, i).path = n.path BY <1>13, <1>14, <2>2
    <3>2. Nth(rows, i) \in rows BY <1>12, <3>1
    <3>3. Nth(rows, i) = n BY <1>6, <1>11, <3>1, <3>2, OutlineAssumption
    <3> QED BY <1>12, <3>1, <3>3
  <2> QED BY <2>1, <2>2
<1> HIDE DEF RowOf
<1>16. {Ident(shelf[i]) : i \in DOMAIN shelf} = {Ident(n) : n \in rows}
  <2>1. \A i \in 1..c : Ident(shelf[i]) = Ident(Nth(rows, i)) /\ Nth(rows, i) \in rows
    BY <1>12, <1>14 DEF Ident
  <2>2. \A n \in rows : seat[n] \in 1..c /\ Ident(shelf[seat[n]]) = Ident(n) BY <1>12, <2>1
  <2> QED BY <1>13, <2>1, <2>2
<1>17. ASSUME NEW m \in rows, NEW n \in rows,
              IsStrictPrefix(m.path, n.path) \/ (Parent(m) = Parent(n) /\ Last(m.at) < Last(n.at))
       PROVE  RowOf(m) < RowOf(n)
  <2>1. Before(m, n) BY <1>6, <1>11, <1>17, ComesBefore
  <2> QED BY <1>12, <1>15, <2>1
<1>18. ASSUME NEW n \in rows
       PROVE  LET siblings == Beneath(Parent(n))
              IN  {shelf[RowOf(m)].position : m \in siblings} = 1..Cardinality(siblings)
  <2> DEFINE siblings == Beneath(Parent(n))
  <2>1. ASSUME NEW m \in visible, Parent(m) = Parent(n) PROVE m \in rows
    <3>1. m \in t /\ n \in t BY <1>5, <1>6
    <3>2. IsStrictPrefix(anchor, n.path) /\ Len(n.path) <= deepest BY <1>10
    <3>3. IsStrictPrefix(anchor, m.path) /\ Len(m.path) = Len(n.path)
      BY <1>8, <1>11, <2>1, <3>1, <3>2, SiblingsAreBeneath
    <3> QED BY <1>10, <3>2, <3>3
  <2>2. siblings \in SUBSET rows BY <2>1
  <2>3. \A m \in rows : m \in siblings <=> Parent(m) = Parent(n) BY <1>10
  <2>4. \A m \in siblings : Parent(m) = Parent(n) OBVIOUS
  <2> HIDE DEF siblings
  <2> DEFINE rank == Rank(TreeOrder(siblings), siblings)
  <2>5. siblings \in SUBSET t BY <1>6, <2>2
  <2>6. Cardinality(siblings) \in Nat /\ (\A m \in siblings : rank[m] \in 1..Cardinality(siblings))
        /\ \A i \in 1..Cardinality(siblings) : Nth(siblings, i) \in siblings /\ rank[Nth(siblings, i)] = i
    BY ONLY <1>11, <2>5, NthIs
  <2> HIDE DEF rank
  <2>7. ASSUME NEW m \in siblings PROVE shelf[RowOf(m)].position = rank[m]
    <3>1. m \in rows /\ RowOf(m) = seat[m] BY <1>15, <2>2
    <3>2. seat[m] \in 1..c /\ Nth(rows, seat[m]) = m BY <1>12, <3>1
    <3>3. shelf[RowOf(m)].position = Position(rows, m) BY <1>14, <3>1, <3>2
    <3>4. \A k \in rows : k \in siblings <=> Parent(k) = Parent(m) BY <2>3, <2>4
    <3>5. Position(rows, m) = rank[m] BY <1>6, <1>11, <2>2, <3>4, PositionIsRank DEF rank
    <3> QED BY <3>3, <3>5
  <2>8. {shelf[RowOf(m)].position : m \in siblings} = 1..Cardinality(siblings) BY <2>6, <2>7
  <2> QED BY <2>8 DEF siblings
<1>19. ASSUME NEW n \in rows
       PROVE  /\ shelf[RowOf(n)].depth = Len(n.path) - 1
              /\ shelf[RowOf(n)].childCount = Cardinality(Beneath(n.path))
  <2>1. seat[n] \in 1..c /\ Nth(rows, seat[n]) = n /\ RowOf(n) = seat[n] BY <1>12, <1>15
  <2> HIDE DEF Beneath
  <2> QED BY <1>14, <2>1
<1>20. Len(shelf) = Cardinality(rows) BY <1>13 DEF c
<1> HIDE DEF Beneath
<1> QED BY <1>16, <1>17, <1>18, <1>19, <1>20
-----------------------------------------------------------------------------
\* What an outline under way has is the first rows of the whole, and it knows where
\* it stands.
Paged(r, a, s, from) ==
    LET whole == Outlined(r, a)
    IN  /\ Len(s) \in 0..Len(whole) /\ s = SubSeq(whole, 1, Len(s))
        /\ IF from = 0 THEN Len(s) = Len(whole) ELSE from = Len(s)

\* An outline is a sequence.
LEMMA OutlineIsSequence ==
    ASSUME NEW r, r.nodes \in Trees, NEW a, Named(r, a)
    PROVE  \E T : Outlined(r, a) \in Seq(T)
<1> DEFINE rows == RowSet(r, a)  c == Cardinality(rows)
           Line(i) == RowFor(Visible(r, a), rows, Nth(rows, i))
<1>1. rows \in SUBSET r.nodes BY DEF RowSet, RowsUnder, Visible, Admitted, Documents
<1>2. c \in Nat BY <1>1, NthIs
<1>3. Outlined(r, a) = [i \in 1..c |-> Line(i)] BY RowsAre
<1> HIDE DEF c, Line
<1>4. [i \in 1..c |-> Line(i)] \in Seq({Line(i) : i \in 1..c}) BY <1>2
<1> QED BY <1>3, <1>4

\* So does one with the next page, whatever its length.
LEMMA PageByPage ==
    ASSUME NEW r, r.nodes \in Trees, NEW a, Named(r, a), a.limit \in Nat \ {0},
           NEW s, Len(s) \in 0..Len(Outlined(r, a)), s = SubSeq(Outlined(r, a), 1, Len(s))
    PROVE  LET sheet == Page(r, a, Len(s)) IN Paged(r, a, s \o sheet.rows, sheet.next)
<1> DEFINE F == Outlined(r, a)  o == Len(s)  n == Len(F)
           e == IF o + a.limit < n THEN o + a.limit ELSE n
           sheet == Page(r, a, o)
<1>1. PICK T : F \in Seq(T) BY OutlineIsSequence
<1>2. o \in 0..n /\ n \in Nat /\ s = SubSeq(F, 1, o) BY <1>1
<1>3. e \in o..n /\ sheet.rows = SubSeq(F, o + 1, e) /\ sheet.next = (IF e = n THEN 0 ELSE e) /\ (e # n => e # 0)
  <2>1. Outlined(r, a) \in Seq(T) /\ a.limit \in Nat \ {0} /\ o \in 0..Len(Outlined(r, a)) BY <1>1, <1>2
  <2> HIDE DEF o
  <2> QED BY ONLY <2>1, PageTold
<1> HIDE DEF e, sheet, o
<1>4. s \o sheet.rows = SubSeq(F, 1, e)
  <2> DEFINE one == 1
  <2>1. one \in 1..(Len(F) + 1) /\ o \in (one - 1)..Len(F) /\ e \in o..Len(F) BY <1>2, <1>3
  <2> HIDE DEF one, F
  <2>2. SubSeq(F, one, o) \o SubSeq(F, o + 1, e) = SubSeq(F, one, e)
    BY ONLY <1>1, <2>1, ConcatAdjacentSubSeq
  <2> QED BY <1>2, <1>3, <2>2 DEF one
<1>5. Len(SubSeq(F, 1, e)) = e
  <2> HIDE DEF F
  <2> QED BY <1>1, <1>2, <1>3 DEF n
<1>6. SubSeq(F, 1, e) = SubSeq(F, 1, Len(SubSeq(F, 1, e))) BY <1>5
<1>7. Paged(r, a, SubSeq(F, 1, e), sheet.next) BY <1>2, <1>3, <1>5, <1>6 DEF Paged
<1> QED BY <1>4, <1>7 DEF sheet, o

\* While the record stands still, what was named stays what it was, and the pages
\* had so far are the beginning of the outline that would be told now.
OutlineInv ==
    /\ tree \in Trees
    /\ next # 0 => asked # Nothing
    /\ asked # Nothing /\ steady =>
         /\ asked.depth \in Depths /\ asked.limit \in Limits
         /\ Named(AsServed, asked) /\ Paged(AsServed, asked, shelf, next)

\* An outline begins with the first page of it.
LEMMA OutlineKeeps ==
    ASSUME OutlineInv, NEW viewer \in Viewers, NEW depth \in Depths, NEW limit \in Limits,
           Outline(viewer, depth, limit)
    PROVE  OutlineInv'
<1>1. PICK root : /\ asked' = [viewer |-> viewer, root |-> root, depth |-> depth, limit |-> limit]
                  /\ Named(AsServed, asked')
                  /\ shelf' = Page(AsServed, asked', 0).rows /\ next' = Page(AsServed, asked', 0).next
  BY DEF Outline
<1>2. tree' = tree /\ AsServed' = AsServed BY DEF Outline, AsServed
<1> DEFINE a == asked'  r == AsServed  none == <<>>
<1>3. a.depth \in Depths /\ a.limit \in Limits /\ a.limit \in Nat \ {0} BY <1>1, OutlineAssumption
<1>4. r.nodes \in Trees BY DEF OutlineInv, AsServed
<1>5. Named(r, a) BY <1>1
<1>6. a # Nothing BY <1>3 DEF Nothing
<1> HIDE DEF a, r
<1>7. PICK T : Outlined(r, a) \in Seq(T) BY <1>4, <1>5, OutlineIsSequence
<1>8. Len(none) = 0 /\ Len(none) \in 0..Len(Outlined(r, a)) BY <1>7
<1>9. none = SubSeq(Outlined(r, a), 1, Len(none)) BY <1>7, <1>8
<1> DEFINE sheet == Page(r, a, Len(none))
<1>10. Paged(r, a, none \o sheet.rows, sheet.next)
  <2> HIDE DEF none
  <2> QED BY ONLY <1>3, <1>4, <1>5, <1>8, <1>9, PageByPage
<1>11. shelf' = sheet.rows /\ next' = sheet.next BY <1>1, <1>8 DEF a, r
<1>12. none \o sheet.rows = sheet.rows
  <2>1. sheet.rows = SubSeq(Outlined(r, a), 1, IF 0 + a.limit < Len(Outlined(r, a)) THEN 0 + a.limit
                                               ELSE Len(Outlined(r, a)))
    <3> DEFINE zero == Len(none)
    <3>1. zero = 0 /\ zero \in 0..Len(Outlined(r, a)) BY <1>8
    <3> HIDE DEF zero
    <3>2. Page(r, a, zero).rows = SubSeq(Outlined(r, a), zero + 1, IF zero + a.limit < Len(Outlined(r, a))
                                           THEN zero + a.limit ELSE Len(Outlined(r, a)))
      BY ONLY <1>3, <1>7, <3>1, PageTold
    <3> QED BY <3>1, <3>2 DEF zero
  <2>2. sheet.rows \in Seq(T)
    <3> HIDE DEF sheet
    <3> QED BY <1>3, <1>7, <2>1
  <2> HIDE DEF sheet
  <2> QED BY <2>2, ConcatEmptySeq
<1>13. Paged(r, a, shelf', next') BY <1>10, <1>11, <1>12
<1> QED BY <1>2, <1>3, <1>5, <1>6, <1>13 DEF OutlineInv, a, r

\* And goes on with the page that follows.
LEMMA MoreKeeps ==
    ASSUME OutlineInv, More
    PROVE  OutlineInv'
<1>1. tree' = tree /\ AsServed' = AsServed /\ steady' = steady /\ next # 0 /\ asked # Nothing
  BY DEF More, AsServed, OutlineInv
<1>2. CASE ~steady BY <1>1, <1>2 DEF More, OutlineInv
<1>3. CASE steady
  <2> DEFINE r == AsServed  a == asked  sheet == Page(r, a, Len(shelf))
  <2>1. a.depth \in Depths /\ a.limit \in Limits /\ a.limit \in Nat \ {0} /\ Named(r, a)
        /\ Paged(r, a, shelf, next)
    BY <1>1, <1>3, OutlineAssumption DEF OutlineInv
  <2>2. next = Len(shelf) /\ Len(shelf) \in 0..Len(Outlined(r, a))
        /\ shelf = SubSeq(Outlined(r, a), 1, Len(shelf))
    BY <1>1, <2>1 DEF Paged
  <2>3. shelf' = shelf \o sheet.rows /\ next' = sheet.next /\ asked' = asked BY <2>1, <2>2 DEF More
  <2>4. r.nodes \in Trees BY DEF OutlineInv, AsServed
  <2>5. Paged(r, a, shelf \o sheet.rows, sheet.next)
    <3> HIDE DEF r, a
    <3> QED BY ONLY <2>1, <2>2, <2>4, PageByPage
  <2>6. Paged(r, a, shelf', next') BY <2>3, <2>5
  <2> QED BY <1>1, <2>1, <2>3, <2>6 DEF OutlineInv
<1> QED BY <1>2, <1>3

\* OutlineIsTheRecord (OUTLINE_SQL, rebaseOutlineRows, outlineDocuments, findDocument):
\* in any release, for any viewer, an outline paged to its end over a record that stood
\* still has each node the caller may read once, in order, numbered without a gap;
\* and addresses lead back and tell nothing of what may not be seen.
THEOREM OutlineIsTheRecordHolds == OutlineSpec => []OutlineIsTheRecord
<1>1. OutlineInit => OutlineInv BY DEF OutlineInit, OutlineInv
<1>2. OutlineInv /\ [OutlineNext]_outlineVars => OutlineInv'
  <2> SUFFICES ASSUME OutlineInv, [OutlineNext]_outlineVars PROVE OutlineInv' OBVIOUS
  <2>1. ASSUME NEW viewer \in Viewers, NEW depth \in Depths, NEW limit \in Limits,
               Outline(viewer, depth, limit)
        PROVE  OutlineInv'
    BY <2>1, OutlineKeeps
  <2>2. CASE More BY <2>2, MoreKeeps
  <2>3. CASE Done BY <2>3 DEF Done, OutlineInv
  <2>4. ASSUME Change, asked' = asked, next' = next, tree' \in Trees PROVE OutlineInv'
    BY <2>4 DEF Change, OutlineInv
  <2>5. CASE Release BY <2>4, <2>5 DEF Release
  <2>6. ASSUME NEW n \in tree, TakeDown(n) PROVE OutlineInv'
    BY <2>4, <2>6 DEF TakeDown, OutlineInv
  <2>7. CASE UNCHANGED outlineVars
    <3>1. AsServed' = AsServed BY <2>7 DEF outlineVars, AsServed
    <3> QED BY <2>7, <3>1 DEF outlineVars, OutlineInv
  <2> QED BY <2>1, <2>2, <2>3, <2>5, <2>6, <2>7 DEF OutlineNext
<1>3. OutlineInv => OutlineIsTheRecord
  <2> SUFFICES ASSUME OutlineInv PROVE OutlineIsTheRecord OBVIOUS
  <2>1. AddressesLeadBack BY AddressesHold DEF OutlineInv
  <2>2. ASSUME asked # Nothing, next = 0, steady PROVE RowsAreTheRecord
    <3>1. asked.depth \in Nat /\ Named(AsServed, asked) /\ Paged(AsServed, asked, shelf, 0)
      BY <2>2, OutlineAssumption DEF OutlineInv
    <3>2. tree \in Trees /\ AsServed.nodes \in Trees BY DEF OutlineInv, AsServed
    <3> DEFINE F == Outlined(AsServed, asked)
    <3>3. shelf = SubSeq(F, 1, Len(F)) BY <3>1 DEF Paged
    <3>4. PICK T : F \in Seq(T) BY <3>1, <3>2, OutlineIsSequence
    <3> HIDE DEF F
    <3>5. shelf = F BY <3>3, <3>4, SubSeqFull
    <3> QED BY <3>1, <3>2, <3>5, WholeOutline DEF F
  <2> QED BY <2>1, <2>2 DEF OutlineIsTheRecord
<1> QED BY <1>1, <1>2, <1>3, PTL DEF OutlineSpec

-----------------------------------------------------------------------------
(* Passages: the manifest.                                                  *)

\* What is valid: ids tell the nodes apart, and what one stands under is there.
LEMMA ValidIs ==
    ASSUME NEW nodes \in Seq(ManifestNodes), Validate(nodes) = "ok"
    PROVE  /\ \A i, j \in 1..Len(nodes) : nodes[i].id = nodes[j].id => i = j
           /\ \A x \in Range(nodes) : NodeOf(nodes, x.id) = x
           /\ \A x \in Range(nodes) : x.parent # "none" =>
                NodeOf(nodes, x.parent) \in Range(nodes) /\ NodeOf(nodes, x.parent).id = x.parent
<1>1. DOMAIN nodes = 1..Len(nodes) OBVIOUS
<1>2. /\ ~ \E i, j \in DOMAIN nodes : i # j /\ nodes[i].id = nodes[j].id
      /\ ~ \E i \in DOMAIN nodes : nodes[i].parent \notin Ids(nodes) \cup {"none"}
  BY DEF Validate
<1>3. \A i, j \in 1..Len(nodes) : nodes[i].id = nodes[j].id => i = j BY <1>1, <1>2
<1>4. ASSUME NEW id \in Ids(nodes)
      PROVE  NodeOf(nodes, id) \in Range(nodes) /\ NodeOf(nodes, id).id = id
  <2>1. \E i : i \in Places(nodes, id) BY DEF Ids, Places
  <2> DEFINE c == CHOOSE i \in Places(nodes, id) : TRUE
  <2>2. c \in Places(nodes, id) BY <2>1
  <2>3. NodeOf(nodes, id) = nodes[c] BY DEF NodeOf
  <2> HIDE DEF c
  <2> QED BY <2>2, <2>3 DEF Places, Range
<1>5. ASSUME NEW x \in Range(nodes) PROVE NodeOf(nodes, x.id) = x
  <2>1. PICK i \in 1..Len(nodes) : nodes[i] = x BY <1>1 DEF Range
  <2>2. x.id \in Ids(nodes) BY <1>1, <2>1 DEF Ids
  <2>3. NodeOf(nodes, x.id) \in Range(nodes) /\ NodeOf(nodes, x.id).id = x.id BY <1>4, <2>2
  <2>4. PICK j \in 1..Len(nodes) : nodes[j] = NodeOf(nodes, x.id) BY <1>1, <2>3 DEF Range
  <2> QED BY <1>3, <2>1, <2>3, <2>4
<1>6. ASSUME NEW x \in Range(nodes), x.parent # "none" PROVE x.parent \in Ids(nodes)
  BY <1>2, <1>6 DEF Range
<1> QED BY <1>3, <1>4, <1>5, <1>6

\* What is above a node, step by step.
LEMMA AboveIs ==
    ASSUME NEW nodes \in Seq(ManifestNodes), Validate(nodes) = "ok", NEW x \in Range(nodes)
    PROVE  LET up == Above(nodes, x)
           IN  /\ up \in [0..Len(nodes) -> Range(nodes)] /\ up[0] = x
               /\ \A k \in 1..Len(nodes) :
                    up[k] = IF up[k - 1].parent = "none" THEN up[k - 1]
                            ELSE NodeOf(nodes, up[k - 1].parent)
<1> DEFINE n == Len(nodes)  X == Range(nodes)
           Higher(y) == IF y.parent = "none" THEN y ELSE NodeOf(nodes, y.parent)
           step == [k \in 1..n |-> [y \in X |-> Higher(y)]]
           Is(f) == f = [k \in 0..n |-> IF k = 0 THEN x ELSE Higher(f[k - 1])]
<1>1. n \in Nat OBVIOUS
<1>2. \A y \in X : Higher(y) \in X BY ValidIs
<1> HIDE DEF n, X, Higher
<1>3. step \in [1..n -> [X -> X]] /\ x \in X BY <1>2 DEF X
<1> HIDE DEF step
<1>4. PICK f : Ran(f, n, X, x, step)
  <2>1. \E f : Ran(f, n, X, x, step) BY <1>1, <1>3, LoopRuns
  <2> QED BY <2>1
<1>5. ASSUME NEW k \in 1..n PROVE f[k] = Higher(f[k - 1])
  <2>1. f[k] = step[k][f[k - 1]] /\ f[k - 1] \in X BY <1>1, <1>4 DEF Ran
  <2> QED BY <2>1 DEF step
<1>6. f \in [0..n -> X] /\ f[0] = x BY <1>4 DEF Ran
<1>7. Is(f)
  <2>1. ASSUME NEW k \in 0..n PROVE f[k] = IF k = 0 THEN x ELSE Higher(f[k - 1])
    <3>1. k = 0 \/ k \in 1..n BY <1>1
    <3> QED BY <1>5, <1>6, <3>1
  <2> QED BY <1>6, <2>1
<1> DEFINE up == CHOOSE g : Is(g)
<1>8. Is(up) BY <1>7
<1>9. Above(nodes, x) = up BY DEF Above, Higher, n
<1> HIDE DEF up
<1>10. up[0] = x BY <1>1, <1>8
<1>11. ASSUME NEW k \in 1..n PROVE up[k] = Higher(up[k - 1])
  <2>1. k \in 0..n /\ k # 0 BY <1>1
  <2> QED BY <1>8, <2>1
<1> DEFINE S == {k \in 0..n : up[k] \in X}
<1>12. 0 \in S BY <1>1, <1>3, <1>10
<1>13. \A k \in 1..n : k - 1 \in S => k \in S
  <2> SUFFICES ASSUME NEW k \in 1..n, k - 1 \in S PROVE k \in S OBVIOUS
  <2>1. k \in 0..n BY <1>1
  <2> QED BY <1>2, <1>11, <2>1
<1> HIDE DEF S
<1>14. 0..n \subseteq S BY <1>1, <1>12, <1>13, LoopKeeps
<1>15. \A k \in 0..n : up[k] \in X BY <1>14 DEF S
<1>16. up \in [0..n -> X] BY <1>8, <1>15
<1> QED BY <1>9, <1>10, <1>11, <1>16 DEF Higher, X, n

\* What is placed so far: each node once, after what it stands under.
Placed(nodes, out) ==
    /\ out \in Seq(Range(nodes))
    /\ \A i, j \in 1..Len(out) : out[i] = out[j] => i = j
    /\ \A i \in 1..Len(out) : out[i].parent # "none" => \E j \in 1..i - 1 : out[j].id = out[i].parent

\* One more node, after what it stands under.
LEMMA PlaceOne ==
    ASSUME NEW nodes \in Seq(ManifestNodes), NEW out, Placed(nodes, out),
           NEW x \in Range(nodes), x \notin Range(out),
           x.parent # "none" => \E y \in Range(out) : y.id = x.parent
    PROVE  Placed(nodes, Append(out, x)) /\ Range(Append(out, x)) = Range(out) \cup {x}
<1> DEFINE n == Len(out)  to == Append(out, x)
<1>1. /\ n \in Nat /\ DOMAIN out = 1..n /\ out \in Seq(Range(nodes))
      /\ to \in Seq(Range(nodes)) /\ Len(to) = n + 1 /\ DOMAIN to = 1..(n + 1)
      /\ to[n + 1] = x /\ \A i \in 1..n : to[i] = out[i] /\ i \in 1..(n + 1)
  BY DEF Placed
<1> HIDE DEF n, to
<1>2. \A i \in 1..(n + 1) : i \in 1..n \/ i = n + 1 BY <1>1
<1>3. \A i, j \in 1..(n + 1) : to[i] = to[j] => i = j
  <2>1. \A i \in 1..n : out[i] # x BY <1>1 DEF Range
  <2>2. \A i, j \in 1..n : out[i] = out[j] => i = j BY DEF Placed, n
  <2> QED BY <1>1, <1>2, <2>1, <2>2
<1>4. ASSUME NEW i \in 1..(n + 1), to[i].parent # "none"
      PROVE  \E j \in 1..i - 1 : to[j].id = to[i].parent
  <2>1. CASE i \in 1..n
    <3>1. PICK j \in 1..i - 1 : out[j].id = out[i].parent BY <1>1, <1>4, <2>1 DEF Placed, n
    <3>2. j \in 1..n BY <1>1, <2>1
    <3> QED BY <1>1, <2>1, <3>1, <3>2
  <2>2. CASE i = n + 1
    <3>1. PICK y \in Range(out) : y.id = x.parent BY <1>1, <1>4, <2>2
    <3>2. PICK j \in 1..n : out[j] = y BY <1>1 DEF Range
    <3>3. j \in 1..i - 1 BY <1>1, <2>2
    <3> QED BY <1>1, <2>2, <3>1, <3>2, <3>3
  <2> QED BY <1>2, <2>1, <2>2
<1>5. Range(to) = Range(out) \cup {x}
  <2>1. \A y : y \in Range(to) <=> \E i \in 1..(n + 1) : to[i] = y BY <1>1 DEF Range
  <2>2. \A y : y \in Range(out) <=> \E i \in 1..n : out[i] = y BY <1>1 DEF Range
  <2>3. n + 1 \in 1..(n + 1) BY <1>1
  <2>4. \A y : (\E i \in 1..(n + 1) : to[i] = y) <=> (\E i \in 1..n : out[i] = y) \/ y = x
    BY <1>1, <1>2, <2>3
  <2> QED BY <2>1, <2>2, <2>4
<1> QED BY <1>1, <1>3, <1>4, <1>5 DEF Placed, to

\* A visit places what it finds above the node, and the node.
LEMMA VisitIs ==
    ASSUME NEW nodes \in Seq(ManifestNodes), Validate(nodes) = "ok", NEW x \in Range(nodes),
           NEW out, Placed(nodes, out)
    PROVE  LET to == Visit(nodes, out, x)
           IN  /\ Placed(nodes, to) /\ Range(out) \subseteq Range(to)
               /\ Above(nodes, x)[Len(nodes)].parent = "none" => x \in Range(to)
<1> DEFINE n == Len(nodes)  m == n + 1
           up == Above(nodes, x)
           X == Seq(Range(nodes))
           Stepped(w, k) == IF up[n + 1 - k] \in Range(w) THEN w ELSE Append(w, up[n + 1 - k])
           step == [k \in 1..m |-> [w \in X |-> Stepped(w, k)]]
           Is(f) == f = [k \in 0..m |-> IF k = 0 THEN out ELSE Stepped(f[k - 1], k)]
           walked == CHOOSE f : Is(f)
<1>1. n \in Nat /\ m \in Nat OBVIOUS
<1>2. /\ up \in [0..n -> Range(nodes)] /\ up[0] = x
      /\ \A k \in 1..n : up[k] = IF up[k - 1].parent = "none" THEN up[k - 1]
                                   ELSE NodeOf(nodes, up[k - 1].parent)
  BY AboveIs
<1>3. Visit(nodes, out, x) = IF up[n].parent = "none" THEN walked[m] ELSE out
  BY DEF Visit
<1> HIDE DEF n, up
<1>4. \A k \in 1..m : n + 1 - k \in 0..n /\ up[n + 1 - k] \in Range(nodes) BY <1>1, <1>2
<1>5. \E f : Is(f)
  <2>1. ASSUME NEW k \in 1..m, NEW w \in X PROVE Stepped(w, k) \in X BY <1>4
  <2>2. out \in X BY DEF Placed
  <2> HIDE DEF X, Stepped, m
  <2>3. step \in [1..m -> [X -> X]] BY <2>1
  <2> HIDE DEF step
  <2>4. \E f : Ran(f, m, X, out, step) BY <1>1, <2>2, <2>3, LoopRuns
  <2>5. PICK f : Ran(f, m, X, out, step) BY <2>4
  <2>6. f \in [0..m -> X] /\ f[0] = out BY <2>5 DEF Ran
  <2>7. ASSUME NEW k \in 1..m PROVE f[k] = Stepped(f[k - 1], k)
    <3>1. f[k] = step[k][f[k - 1]] /\ f[k - 1] \in X BY <1>1, <2>5 DEF Ran
    <3> QED BY <3>1 DEF step
  <2>8. ASSUME NEW k \in 0..m PROVE f[k] = IF k = 0 THEN out ELSE Stepped(f[k - 1], k)
    <3>1. k = 0 \/ k \in 1..m BY <1>1
    <3> QED BY <2>6, <2>7, <3>1
  <2>9. Is(f) BY <2>6, <2>8
  <2> QED BY <2>9
<1>6. Is(walked) BY <1>5
<1> HIDE DEF walked, X
<1>7. walked[0] = out BY <1>1, <1>6
<1>8. ASSUME NEW k \in 1..m PROVE walked[k] = Stepped(walked[k - 1], k)
  <2>1. k \in 0..m /\ k # 0 BY <1>1
  <2> HIDE DEF Stepped, m
  <2> QED BY <1>6, <2>1
<1>9. CASE up[n].parent = "none"
  <2> DEFINE Keeps(w, k) == /\ Placed(nodes, w) /\ Range(out) \subseteq Range(w)
                            /\ k >= 1 => up[n + 1 - k] \in Range(w)
             S == {k \in 0..m : Keeps(walked[k], k)}
  <2>1. 0 \in S BY <1>1, <1>7
  <2>2. ASSUME NEW k \in 1..m, k - 1 \in S PROVE k \in S
    <3> DEFINE w == walked[k - 1]  y == up[n + 1 - k]
    <3>1. Keeps(w, k - 1) BY <2>2
    <3>2. walked[k] = Stepped(w, k) BY <1>8
    <3>3. k \in 0..m BY <1>1
    <3>4. Keeps(w, k - 1) /\ k \in 0..m /\ walked[k] = Stepped(w, k) BY <3>1, <3>2, <3>3
    <3>5. y \in Range(nodes) BY <1>4
    <3> HIDE DEF w
    <3>6. CASE y \in Range(w)
      <4>1. Stepped(w, k) = w BY <3>6
      <4> QED BY <3>4, <3>6, <4>1
    <3>7. CASE y \notin Range(w)
      <4>1. y.parent # "none" => \E z \in Range(w) : z.id = y.parent
        <5> SUFFICES ASSUME y.parent # "none" PROVE \E z \in Range(w) : z.id = y.parent OBVIOUS
        <5>1. k # 1 BY <1>1, <1>9
        <5>2. k - 1 >= 1 /\ n + 1 - (k - 1) \in 1..n /\ (n + 1 - (k - 1)) - 1 = n + 1 - k
          BY <1>1, <5>1
        <5>3. up[n + 1 - (k - 1)] \in Range(w) BY <3>4, <5>2
        <5>4. up[n + 1 - (k - 1)] = NodeOf(nodes, y.parent) BY <1>2, <5>2
        <5>5. NodeOf(nodes, y.parent).id = y.parent BY <3>5, ValidIs
        <5> QED BY <5>3, <5>4, <5>5
      <4>2. Stepped(w, k) = Append(w, y) BY <3>7
      <4> HIDE DEF y
      <4>3. Placed(nodes, Append(w, y)) /\ Range(Append(w, y)) = Range(w) \cup {y}
        BY <3>4, <3>5, <3>7, <4>1, PlaceOne
      <4> QED BY <3>4, <4>2, <4>3 DEF y
    <3> QED BY <3>6, <3>7
  <2> HIDE DEF S
  <2>3. 0..m \subseteq S BY <1>1, <2>1, <2>2, LoopKeeps
  <2>4. Keeps(walked[m], m) BY <1>1, <2>3 DEF S
  <2>5. m >= 1 /\ n + 1 - m = 0 BY <1>1
  <2>6. x \in Range(walked[m]) BY <1>2, <2>4, <2>5
  <2> QED BY <1>3, <1>9, <2>4, <2>6 DEF n, up
<1>10. CASE up[n].parent # "none" BY <1>3, <1>10 DEF n, up
<1> QED BY <1>9, <1>10

\* All that have a topmost above them are placed.
LEMMA TopologicalIs ==
    ASSUME NEW nodes \in Seq(ManifestNodes), Validate(nodes) = "ok"
    PROVE  /\ Placed(nodes, Topological(nodes))
           /\ \A x \in Range(nodes) : Above(nodes, x)[Len(nodes)].parent = "none" =>
                x \in Range(Topological(nodes))
<1> DEFINE n == Len(nodes)
           X == {w \in Seq(Range(nodes)) : Placed(nodes, w)}
           step == [k \in 1..n |-> [w \in X |-> Visit(nodes, w, nodes[k])]]
           Is(f) == f = [k \in 0..n |-> IF k = 0 THEN <<>> ELSE Visit(nodes, f[k - 1], nodes[k])]
           order == CHOOSE f : Is(f)
           Rooted(x) == Above(nodes, x)[Len(nodes)].parent = "none"
<1>1. n \in Nat /\ DOMAIN nodes = 1..n /\ \A k \in 1..n : nodes[k] \in Range(nodes) BY DEF Range
<1>2. Topological(nodes) = order[n] BY DEF Topological
<1> HIDE DEF n
<1>3. \A k \in 1..n, w \in X :
        LET to == Visit(nodes, w, nodes[k])
        IN  /\ to \in X /\ Range(w) \subseteq Range(to)
            /\ Rooted(nodes[k]) => nodes[k] \in Range(to)
  <2> SUFFICES ASSUME NEW k \in 1..n, NEW w \in X
               PROVE  LET to == Visit(nodes, w, nodes[k])
                      IN  /\ to \in X /\ Range(w) \subseteq Range(to)
                          /\ Rooted(nodes[k]) => nodes[k] \in Range(to)
    OBVIOUS
  <2> DEFINE to == Visit(nodes, w, nodes[k])  x == nodes[k]
  <2>1. x \in Range(nodes) /\ Placed(nodes, w) BY <1>1
  <2> HIDE DEF x
  <2>2. /\ Placed(nodes, Visit(nodes, w, x)) /\ Range(w) \subseteq Range(Visit(nodes, w, x))
        /\ Rooted(x) => x \in Range(Visit(nodes, w, x))
    BY <2>1, VisitIs
  <2>3. to \in Seq(Range(nodes)) BY <2>2 DEF Placed, x
  <2> QED BY <2>2, <2>3 DEF x
<1>4. <<>> \in X BY DEF Placed
<1> HIDE DEF X, Rooted
<1>5. \E f : Is(f)
  <2>1. step \in [1..n -> [X -> X]] BY <1>3
  <2> HIDE DEF step
  <2>2. \E f : Ran(f, n, X, <<>>, step) BY <1>1, <1>4, <2>1, LoopRuns
  <2>3. PICK f : Ran(f, n, X, <<>>, step) BY <2>2
  <2>4. f \in [0..n -> X] /\ f[0] = <<>> BY <2>3 DEF Ran
  <2>5. ASSUME NEW k \in 1..n PROVE f[k] = Visit(nodes, f[k - 1], nodes[k])
    <3>1. f[k] = step[k][f[k - 1]] /\ f[k - 1] \in X BY <1>1, <2>3 DEF Ran
    <3> QED BY <3>1 DEF step
  <2>6. ASSUME NEW k \in 0..n
        PROVE  f[k] = IF k = 0 THEN <<>> ELSE Visit(nodes, f[k - 1], nodes[k])
    <3>1. k = 0 \/ k \in 1..n BY <1>1
    <3> QED BY <2>4, <2>5, <3>1
  <2>7. Is(f) BY <2>4, <2>6
  <2> QED BY <2>7
<1>6. Is(order) BY <1>5
<1> HIDE DEF order
<1> DEFINE S == {k \in 0..n : /\ order[k] \in X
                             /\ \A j \in 1..k : Rooted(nodes[j]) => nodes[j] \in Range(order[k])}
<1>7. 0 \in S BY <1>1, <1>4, <1>6
<1>8. ASSUME NEW k \in 1..n, k - 1 \in S PROVE k \in S
  <2>1. k \in 0..n /\ k # 0 BY <1>1
  <2>2. order[k] = Visit(nodes, order[k - 1], nodes[k]) BY <1>6, <2>1
  <2>3. order[k - 1] \in X BY <1>8
  <2>4. /\ order[k] \in X /\ Range(order[k - 1]) \subseteq Range(order[k])
        /\ Rooted(nodes[k]) => nodes[k] \in Range(order[k])
    BY <1>3, <2>2, <2>3
  <2>5. \A j \in 1..k : j = k \/ j \in 1..(k - 1) BY <1>1
  <2> QED BY <1>8, <2>1, <2>4, <2>5
<1> HIDE DEF S
<1>9. 0..n \subseteq S BY <1>1, <1>7, <1>8, LoopKeeps
<1>10. n \in S BY <1>1, <1>9
<1>11. order[n] \in X /\ \A j \in 1..n : Rooted(nodes[j]) => nodes[j] \in Range(order[n])
  BY <1>10 DEF S
<1>12. \A x \in Range(nodes) : \E j \in 1..n : x = nodes[j] BY <1>1 DEF Range
<1> QED BY <1>2, <1>11, <1>12 DEF X, Rooted

\* What is placed, and all above it, ends at a topmost.
LEMMA PlacedEnds ==
    ASSUME NEW nodes \in Seq(ManifestNodes), Validate(nodes) = "ok", NEW x \in Range(nodes),
           NEW out, Placed(nodes, out), Len(out) < Len(nodes),
           x.parent # "none" => NodeOf(nodes, x.parent) \in Range(out)
    PROVE  Above(nodes, x)[Len(nodes)].parent = "none"
<1> DEFINE n == Len(nodes)  m == Len(out)  up == Above(nodes, x)
           Low(k) == up[k].parent = "none" \/ \E j \in 1..(m + 1 - k) : out[j] = up[k]
           S == {k \in 0..n : k >= 1 => Low(k)}
<1>1. /\ n \in Nat /\ m \in Nat /\ m < n /\ DOMAIN out = 1..m
      /\ \A j \in 1..m : out[j] \in Range(nodes)
  <2>1. out \in Seq(Range(nodes)) BY DEF Placed
  <2> QED BY <2>1
<1>2. /\ up \in [0..n -> Range(nodes)] /\ up[0] = x
      /\ \A k \in 1..n : up[k] = IF up[k - 1].parent = "none" THEN up[k - 1]
                                   ELSE NodeOf(nodes, up[k - 1].parent)
  BY AboveIs
<1>3. \A i \in 1..m : out[i].parent # "none" => \E j \in 1..i - 1 : out[j].id = out[i].parent
  BY DEF Placed
<1> HIDE DEF n, m, up
<1>4. 0 \in S BY <1>1
<1>5. ASSUME NEW k \in 1..n, k - 1 \in S PROVE k \in S
  <2>1. k \in 0..n /\ k - 1 \in 0..n /\ k \in Int BY <1>1
  <2>2. up[k] = IF up[k - 1].parent = "none" THEN up[k - 1] ELSE NodeOf(nodes, up[k - 1].parent)
    BY <1>2
  <2>3. CASE up[k - 1].parent = "none" BY <2>1, <2>2, <2>3
  <2>4. CASE up[k - 1].parent # "none" /\ k = 1
    <3>1. up[k] = NodeOf(nodes, x.parent) /\ x.parent # "none" BY <1>2, <2>2, <2>4
    <3>2. PICK j \in 1..m : out[j] = up[k] BY <1>1, <3>1 DEF Range
    <3>3. j \in 1..(m + 1 - k) BY <1>1, <2>4
    <3> QED BY <2>1, <3>2, <3>3
  <2>5. CASE up[k - 1].parent # "none" /\ k # 1
    <3>1. k - 1 >= 1 /\ Low(k - 1) BY <1>5, <2>1, <2>5
    <3>2. PICK i \in 1..(m + 1 - (k - 1)) : out[i] = up[k - 1] BY <2>5, <3>1
    <3>3. i \in 1..m BY <1>1, <2>1, <3>1
    <3>4. PICK j \in 1..i - 1 : out[j].id = out[i].parent BY <1>3, <2>5, <3>2, <3>3
    <3>5. j \in 1..m /\ j \in 1..(m + 1 - k) BY <1>1, <2>1, <3>3
    <3>6. NodeOf(nodes, out[j].id) = out[j] BY <1>1, <3>5, ValidIs
    <3>7. up[k] = out[j] BY <2>2, <2>5, <3>2, <3>4, <3>6
    <3> QED BY <2>1, <3>5, <3>7
  <2> QED BY <2>3, <2>4, <2>5
<1> HIDE DEF S
<1>6. 0..n \subseteq S BY <1>1, <1>4, <1>5, LoopKeeps
<1>7. n \in S /\ n >= 1 BY <1>1, <1>6
<1>8. Low(n) BY <1>7 DEF S
<1>9. 1..(m + 1 - n) = {} BY <1>1
<1> QED BY <1>8, <1>9 DEF up, n

\* All is placed, or what is not stands under itself.
LEMMA OrderIs ==
    ASSUME NEW nodes \in Seq(ManifestNodes), Validate(nodes) = "ok"
    PROVE  LET order == Topological(nodes)
           IN  /\ Placed(nodes, order)
               /\ Len(order) >= Len(nodes) => Len(order) = Len(nodes) /\ Range(order) = Range(nodes)
               /\ Len(order) < Len(nodes) => \E S \in (SUBSET Ids(nodes)) \ {{}} :
                    \A id \in S : NodeOf(nodes, id).parent \in S
<1> DEFINE n == Len(nodes)  order == Topological(nodes)  m == Len(order)
           D == Range(nodes)
<1>1. /\ Placed(nodes, order)
      /\ \A x \in D : Above(nodes, x)[n].parent = "none" => x \in Range(order)
  BY TopologicalIs
<1> HIDE DEF order
<1>2. /\ n \in Nat /\ DOMAIN nodes = 1..n /\ nodes \in [1..n -> D]
      /\ order \in Seq(D) /\ m \in Nat /\ DOMAIN order = 1..m /\ order \in [1..m -> D]
  <2>1. order \in Seq(D) BY <1>1 DEF Placed
  <2> QED BY <2>1 DEF Range
<1>3. n \in Nat /\ m \in Nat BY <1>2
<1>4. \A k \in Nat : IsFiniteSet(1..k) /\ Cardinality(1..k) = k
  <2> SUFFICES ASSUME NEW k \in Nat PROVE IsFiniteSet(1..k) /\ Cardinality(1..k) = k OBVIOUS
  <2> QED BY FS_Interval
<1>5. IsFiniteSet(D) /\ Cardinality(D) = n
  <2>1. \A i, j \in 1..n : nodes[i] = nodes[j] => i = j BY ValidIs
  <2>2. IsFiniteSet(1..n) /\ Cardinality(1..n) = n BY <1>3, <1>4
  <2> HIDE DEF n
  <2>3. nodes \in Surjection(1..n, D) BY <1>2 DEF Surjection, Range
  <2>4. nodes \in Injection(1..n, D) BY <1>2, <2>1 DEF Injection, IsInjective
  <2> QED BY <2>2, <2>3, <2>4, FS_Surjection
<1>6. m <= n /\ (m = n <=> order \in Surjection(1..m, D))
  <2>1. \A i, j \in 1..m : order[i] = order[j] => i = j BY <1>1 DEF Placed
  <2>2. IsFiniteSet(1..m) /\ Cardinality(1..m) = m BY <1>3, <1>4
  <2> HIDE DEF n, m
  <2>3. order \in Injection(1..m, D) BY <1>2, <2>1 DEF Injection, IsInjective
  <2> QED BY <1>5, <2>2, <2>3, FS_Injection
<1>7. ASSUME m >= n PROVE m = n /\ Range(order) = D
  <2>1. m = n BY <1>6, <1>7, <1>3
  <2>2. order \in Surjection(1..m, D) BY <1>6, <2>1
  <2> HIDE DEF n, m
  <2>3. Range(order) = D BY <1>2, <2>2 DEF Surjection, Range
  <2> QED BY <2>1, <2>3
<1>8. ASSUME m < n
      PROVE  \E S \in (SUBSET Ids(nodes)) \ {{}} : \A id \in S : NodeOf(nodes, id).parent \in S
  <2> DEFINE Rest == {x \in D : x \notin Range(order)}
             S == {x.id : x \in Rest}
  <2>1. \A x \in D : x.id \in Ids(nodes) BY <1>2 DEF Ids, Range
  <2>2. Rest # {}
    <3> SUFFICES ASSUME Rest = {} PROVE FALSE OBVIOUS
    <3>1. order \notin Surjection(1..m, D) BY <1>6, <1>8, <1>3
    <3>2. D \subseteq Range(order) OBVIOUS
    <3> HIDE DEF m, n, D
    <3>3. \A x \in D : \E i \in 1..m : order[i] = x BY <1>2, <3>2 DEF Range
    <3>4. order \in Surjection(1..m, D) BY <1>2, <3>3 DEF Surjection
    <3> QED BY <3>1, <3>4
  <2>3. ASSUME NEW x \in Rest PROVE x.parent \in S
    <3>1. ~(Above(nodes, x)[n].parent = "none") BY <1>1
    <3>2. x \in Range(nodes) OBVIOUS
    <3>3. x.parent # "none" /\ NodeOf(nodes, x.parent) \notin Range(order)
      BY <1>1, <1>8, <3>1, <3>2, PlacedEnds
    <3>4. NodeOf(nodes, x.parent) \in D /\ NodeOf(nodes, x.parent).id = x.parent
      BY <3>2, <3>3, ValidIs
    <3>5. NodeOf(nodes, x.parent) \in Rest BY <3>3, <3>4
    <3> QED BY <3>4, <3>5
  <2>4. \A x \in Rest : NodeOf(nodes, x.id) = x BY ValidIs
  <2> HIDE DEF Rest
  <2>5. \A id \in S : NodeOf(nodes, id).parent \in S BY <2>3, <2>4
  <2>6. S \in (SUBSET Ids(nodes)) \ {{}} BY <2>1, <2>2 DEF Rest
  <2> QED BY <2>5, <2>6
<1> QED BY <1>1, <1>2, <1>7, <1>8 DEF order

\* An empty list is no list, once and for all; a manifest is read as it was written.
LEMMA NormalIs ==
    ASSUME NEW node \in ManifestNodes
    PROVE  /\ Normal(node) \in ManifestNodes
           /\ Normal(node).id = node.id /\ Normal(node).parent = node.parent
           /\ FromJson(ToJson(Normal(node))) = Normal(node)
<1> DEFINE n == Normal(node)  Always == {"id", "slug", "position"}
           json == ToJson(n)
           read == [f \in Always \cup Optional |-> IF f \in DOMAIN json THEN json[f] ELSE Absent(f)]
<1>1. /\ n \in ManifestNodes /\ n.id = node.id /\ n.parent = node.parent
      /\ n.sources = OrNullIfEmpty(node.sources) /\ n.verified = OrNullIfEmpty(node.verified)
  <2>1. \A list \in Lists : OrNullIfEmpty(list) \in Lists
    <3>1. NoList \in Lists BY DEF Lists
    <3>2. \A list : OrNullIfEmpty(list) = NoList \/ OrNullIfEmpty(list) = list BY DEF OrNullIfEmpty
    <3> QED BY <3>1, <3>2
  <2> DEFINE a == OrNullIfEmpty(node.sources)  b == OrNullIfEmpty(node.verified)
  <2>2. a \in Lists /\ b \in Lists BY <2>1 DEF ManifestNodes
  <2>3. n = [node EXCEPT !.sources = a, !.verified = b] BY DEF Normal
  <2> HIDE DEF a, b, n
  <2>4. n \in ManifestNodes /\ n.id = node.id /\ n.parent = node.parent /\ n.sources = a /\ n.verified = b
    BY <2>2, <2>3 DEF ManifestNodes
  <2> QED BY <2>4 DEF a, b
<1>2. \A list : OrNullIfEmpty(OrNullIfEmpty(list)) = OrNullIfEmpty(list)
  <2>1. NoList # {} BY DEF NoList
  <2> QED BY <2>1 DEF OrNullIfEmpty
<1> HIDE DEF n
<1>3. Normal(n) = n
  <2>1. OrNullIfEmpty(n.sources) = n.sources /\ OrNullIfEmpty(n.verified) = n.verified BY <1>1, <1>2
  <2> QED BY <1>1, <2>1 DEF Normal, ManifestNodes
<1>4. DOMAIN n = Always \cup Optional /\ n = [f \in Always \cup Optional |-> n[f]]
  BY <1>1 DEF ManifestNodes, Optional
<1>5. \A f \in Always \cup Optional :
        /\ f \in DOMAIN json => json[f] = n[f]
        /\ f \notin DOMAIN json => n[f] = Absent(f)
  BY DEF ToJson
<1>6. read = n BY <1>4, <1>5
<1>7. FromJson(json) = Normal(read) BY DEF FromJson
<1> HIDE DEF read, json
<1>8. FromJson(json) = n BY <1>3, <1>6, <1>7
<1> QED BY <1>1, <1>8 DEF json, n

\* What an ingest makes of a manifest.
LEMMA RowsAreInOrder ==
    ASSUME NEW c \in Seq(ManifestNodes), c # <<>>,
           corpus = c,
           inserted = Ordered([i \in 1..Len(c) |-> FromJson(ToJson(Normal(c[i])))])
    PROVE  RowsInOrder
<1> DEFINE nodes == [i \in 1..Len(c) |-> FromJson(ToJson(Normal(c[i])))]
           n == Len(c)  order == Topological(nodes)
<1>1. n \in Nat /\ DOMAIN c = 1..n /\ \A i \in 1..n : c[i] \in ManifestNodes OBVIOUS
<1>2. /\ nodes \in Seq(ManifestNodes) /\ Len(nodes) = n /\ DOMAIN nodes = 1..n
      /\ \A i \in 1..n : nodes[i] = Normal(c[i])
                        /\ nodes[i].id = c[i].id /\ nodes[i].parent = c[i].parent
  <2>1. \A i \in 1..n : /\ Normal(c[i]) \in ManifestNodes
                         /\ Normal(c[i]).id = c[i].id /\ Normal(c[i]).parent = c[i].parent
                         /\ FromJson(ToJson(Normal(c[i]))) = Normal(c[i])
    BY <1>1, NormalIs
  <2>2. \A i \in 1..n : nodes[i] = Normal(c[i]) BY <2>1
  <2>3. DOMAIN nodes = 1..n OBVIOUS
  <2>4. nodes = [i \in 1..n |-> nodes[i]] OBVIOUS
  <2> HIDE DEF nodes
  <2>5. nodes \in Seq(ManifestNodes) /\ Len(nodes) = n
    <3>1. \A i \in 1..n : nodes[i] \in ManifestNodes BY <2>1, <2>2
    <3>2. n \in Nat BY <1>1
    <3> HIDE DEF n
    <3>3. nodes \in [1..n -> ManifestNodes] BY <2>3, <2>4, <3>1
    <3> QED BY <3>2, <3>3
  <2> HIDE DEF n
  <2>6. ASSUME NEW i \in 1..n
        PROVE  nodes[i] = Normal(c[i]) /\ nodes[i].id = c[i].id /\ nodes[i].parent = c[i].parent
    <3>1. nodes[i] = Normal(c[i]) BY <2>2
    <3>2. Normal(c[i]).id = c[i].id /\ Normal(c[i]).parent = c[i].parent BY <2>1
    <3> QED BY <3>1, <3>2
  <2> QED BY <2>3, <2>5, <2>6
<1>3. inserted = Ordered(nodes) /\ corpus = c OBVIOUS
<1> HIDE DEF nodes
<1>4. \A v : v = Validate(nodes) /\ v # "ok" => v # "cycle" BY DEF Validate
<1>5. CASE Validate(nodes) # "ok"
  <2>1. inserted.verdict = Validate(nodes) BY <1>3, <1>5 DEF Ordered
  <2> QED BY <1>4, <1>5, <2>1 DEF RowsInOrder
<1>6. CASE Validate(nodes) = "ok"
  <2>1. /\ Placed(nodes, order)
        /\ Len(order) >= n => Len(order) = n /\ Range(order) = Range(nodes)
        /\ Len(order) < n => \E S \in (SUBSET Ids(nodes)) \ {{}} :
             \A id \in S : NodeOf(nodes, id).parent \in S
    BY <1>2, <1>6, OrderIs
  <2>2. order \in Seq(Range(nodes)) /\ Len(order) \in Nat /\ DOMAIN order = 1..Len(order)
    <3>1. order \in Seq(Range(nodes)) BY <2>1 DEF Placed
    <3> HIDE DEF order
    <3> QED BY <3>1
  <2>3. inserted = [verdict |-> IF Len(order) < n THEN "cycle" ELSE "ok",
                    order |-> IF Len(order) < n THEN <<>> ELSE order]
    BY <1>2, <1>3, <1>6 DEF Ordered
  <2> HIDE DEF order
  <2> DEFINE Whole(o) ==
               /\ Len(o) = Len(corpus)
               /\ {o[i] : i \in DOMAIN o} = {Normal(corpus[i]) : i \in DOMAIN corpus}
               /\ \A i \in DOMAIN o :
                    o[i].parent # "none" => \E j \in 1..i - 1 : o[j].id = o[i].parent
             Cycle == \E S \in (SUBSET Ids(corpus)) \ {{}} :
                        \A id \in S : NodeOf(corpus, id).parent \in S
  <2>4. /\ inserted.verdict = "ok" => Whole(inserted.order)
        /\ inserted.verdict = "cycle" => Cycle
        => RowsInOrder
    BY DEF RowsInOrder
  <2>5. ASSUME inserted.verdict = "ok" PROVE Whole(inserted.order)
    <3>1. ~(Len(order) < n) /\ inserted.order = order BY <2>3, <2>5
    <3>2. Len(order) >= n BY <1>1, <2>2, <3>1
    <3>3. Len(order) = n /\ Range(order) = Range(nodes) BY <2>1, <3>2
    <3>4. {order[i] : i \in DOMAIN order} = Range(order) BY DEF Range
    <3>5. Range(nodes) = {Normal(c[i]) : i \in 1..n} BY <1>2 DEF Range
    <3>6. \A i \in DOMAIN order :
            order[i].parent # "none" => \E j \in 1..i - 1 : order[j].id = order[i].parent
      BY <2>1, <2>2 DEF Placed
    <3>7. {Normal(corpus[i]) : i \in DOMAIN corpus} = Range(nodes) BY <1>1, <1>3, <3>5
    <3>8. Len(order) = Len(corpus) BY <1>3, <3>3
    <3>9. Whole(order) BY <3>3, <3>4, <3>6, <3>7, <3>8
    <3> HIDE DEF Whole
    <3> QED BY <3>1, <3>9
  <2>6. ASSUME inserted.verdict = "cycle"
        PROVE  Cycle
    <3>1. Len(order) < n BY <2>3, <2>6
    <3>2. PICK S \in (SUBSET Ids(nodes)) \ {{}} : \A id \in S : NodeOf(nodes, id).parent \in S
      BY <2>1, <3>1
    <3>3. Ids(nodes) = Ids(c)
      <4>1. Ids(nodes) = {nodes[i].id : i \in 1..n} BY <1>2 DEF Ids
      <4>2. Ids(c) = {c[i].id : i \in 1..n} BY <1>1 DEF Ids
      <4>3. \A i \in 1..n : nodes[i].id = c[i].id BY <1>2
      <4> QED BY <4>1, <4>2, <4>3
    <3>4. ASSUME NEW id \in Ids(c) PROVE NodeOf(c, id).parent = NodeOf(nodes, id).parent
      <4>1. Places(c, id) = Places(nodes, id) BY <1>1, <1>2 DEF Places
      <4> DEFINE i == CHOOSE i \in Places(c, id) : TRUE
      <4>2. i \in Places(c, id) BY <3>4 DEF Ids, Places
      <4>3. NodeOf(c, id) = c[i] /\ NodeOf(nodes, id) = nodes[i] BY <4>1 DEF NodeOf
      <4>4. i \in 1..n BY <1>1, <4>2 DEF Places
      <4> HIDE DEF i
      <4> QED BY <1>2, <4>3, <4>4
    <3>5. \A id \in S : NodeOf(c, id).parent \in S BY <3>2, <3>3, <3>4
    <3> QED BY <1>3, <3>2, <3>3, <3>5
  <2> HIDE DEF Whole, Cycle
  <2> QED BY <2>5, <2>6, <2>4
<1> QED BY <1>5, <1>6

-----------------------------------------------------------------------------
(* Passages: the texts.                                                     *)

\* What is written of a sequence between two of its places.
Span(s, x, y) == [k \in 1..y - x |-> s[x + k]]

\* A span of a sequence is one, as long as its places are apart.
LEMMA SpanIs ==
    ASSUME NEW S, NEW s \in Seq(S), NEW x \in Nat, NEW y \in Nat, x <= y, y <= Len(s)
    PROVE  /\ Span(s, x, y) \in Seq(S) /\ Len(Span(s, x, y)) = y - x
           /\ DOMAIN Span(s, x, y) = 1..y - x
           /\ \A k \in 1..y - x : Span(s, x, y)[k] = s[x + k] /\ x + k \in 1..Len(s)
<1> DEFINE t == Span(s, x, y)
<1>1. y - x \in Nat OBVIOUS
<1>2. t = [k \in 1..y - x |-> s[x + k]] BY DEF Span
<1>3. \A k \in 1..y - x : x + k \in 1..Len(s) /\ s[x + k] \in S OBVIOUS
<1> HIDE DEF t
<1>4. DOMAIN t = 1..y - x /\ \A k \in 1..y - x : t[k] = s[x + k] BY <1>2
<1>5. t \in [1..y - x -> S] BY <1>2, <1>3
<1>6. t \in Seq(S) /\ Len(t) = y - x BY <1>1, <1>4, <1>5
<1> QED BY <1>3, <1>4, <1>6 DEF t

\* It has as many elements as they are apart.
LEMMA SpanLength ==
    ASSUME NEW S, NEW s \in Seq(S), NEW x \in Nat, NEW y \in Nat, x <= y, y <= Len(s)
    PROVE  Len(Span(s, x, y)) = y - x
BY SpanIs

\* Two spans, the second from where the first ends, are one.
LEMMA SpansJoin ==
    ASSUME NEW S, NEW s \in Seq(S), NEW x \in Nat, NEW y \in Nat, NEW z \in Nat,
           x <= y, y <= z, z <= Len(s)
    PROVE  Span(s, x, y) \o Span(s, y, z) = Span(s, x, z)
<1> DEFINE a == Span(s, x, y)  b == Span(s, y, z)  c == Span(s, x, z)
<1>1. Len(s) \in Nat /\ x <= z /\ y <= Len(s) OBVIOUS
<1>2. x <= z BY <1>1
<1>3. y <= Len(s) BY <1>1
<1>4. a \in Seq(S) /\ Len(a) = y - x /\ \A k \in 1..y - x : a[k] = s[x + k]
  <2>1. a \in Seq(S) BY <1>3, SpanIs
  <2>2. Len(a) = y - x BY <1>3, SpanIs
  <2>3. \A k \in 1..y - x : a[k] = s[x + k] BY <1>3, SpanIs
  <2> QED BY <2>1, <2>2, <2>3
<1>5. b \in Seq(S) /\ Len(b) = z - y /\ \A k \in 1..z - y : b[k] = s[y + k]
  <2>1. b \in Seq(S) BY SpanIs
  <2>2. Len(b) = z - y BY SpanIs
  <2>3. \A k \in 1..z - y : b[k] = s[y + k] BY SpanIs
  <2> QED BY <2>1, <2>2, <2>3
<1>6. c \in Seq(S) /\ Len(c) = z - x /\ \A k \in 1..z - x : c[k] = s[x + k]
  <2>1. c \in Seq(S) BY <1>2, SpanIs
  <2>2. Len(c) = z - x BY <1>2, SpanIs
  <2>3. \A k \in 1..z - x : c[k] = s[x + k] BY <1>2, SpanIs
  <2> QED BY <2>1, <2>2, <2>3
<1> HIDE DEF a, b, c
<1>7. /\ a \o b \in Seq(S) /\ Len(a \o b) = Len(a) + Len(b)
      /\ \A k \in 1..Len(a) + Len(b) : (a \o b)[k] = IF k <= Len(a) THEN a[k] ELSE b[k - Len(a)]
  BY <1>4, <1>5, ConcatProperties
<1>8. ASSUME NEW k \in 1..z - x PROVE (a \o b)[k] = c[k]
  <2>1. k \in 1..Len(a) + Len(b) BY <1>4, <1>5
  <2>2. CASE k <= y - x
    <3>1. k \in 1..y - x BY <2>2
    <3> QED BY <1>4, <1>6, <1>7, <2>1, <2>2, <3>1
  <2>3. CASE ~(k <= y - x)
    <3>1. k - (y - x) \in 1..z - y /\ y + (k - (y - x)) = x + k BY <2>3
    <3> QED BY <1>4, <1>5, <1>6, <1>7, <2>1, <2>3, <3>1
  <2> QED BY <2>2, <2>3
<1>9. Len(a \o b) = Len(c) /\ Len(c) = z - x BY <1>4, <1>5, <1>6, <1>7
<1>10. a \o b = c BY <1>6, <1>7, <1>8, <1>9, SeqEqual
<1> QED BY <1>10 DEF a, b, c

\* The span from end to end is the sequence.
LEMMA SpanOfAll ==
    ASSUME NEW S, NEW s \in Seq(S)
    PROVE  Span(s, 0, Len(s)) = s
<1> DEFINE n == Len(s)  t == Span(s, 0, n)
<1>1. n \in Nat /\ n <= Len(s) OBVIOUS
<1> HIDE DEF n
<1>2. n - 0 = n /\ (\A k \in 1..n : 0 + k = k) /\ 0 <= n /\ 0 \in Nat BY <1>1
<1>3. t \in Seq(S) BY <1>1, <1>2, SpanIs
<1>4. Len(t) = n - 0 BY <1>1, <1>2, SpanIs
<1>5. \A k \in 1..n - 0 : t[k] = s[0 + k] BY <1>1, <1>2, SpanIs
<1> HIDE DEF t
<1>6. Len(t) = Len(s) /\ \A k \in 1..Len(t) : t[k] = s[k] BY <1>2, <1>4, <1>5 DEF n
<1>7. t = s BY <1>3, <1>6, SeqEqual
<1> QED BY <1>7 DEF t, n

\* To flatten is to append one after the other.
LEMMA FlattenIs ==
    ASSUME NEW S, NEW seqs \in Seq(Seq(S))
    PROVE  \E f \in [0..Len(seqs) -> Seq(S)] :
             /\ f[0] = <<>> /\ FlattenSeq(seqs) = f[Len(seqs)]
             /\ \A k \in 1..Len(seqs) : f[k] = f[k - 1] \o seqs[k]
<1> DEFINE n == Len(seqs)  X == Seq(S)
           Is(g) == g = [k \in 1..n |-> IF k = 1 THEN seqs[k] ELSE g[k - 1] \o seqs[k]]
           flat == CHOOSE g : Is(g)
           step == [k \in 1..n |-> [w \in X |-> w \o seqs[k]]]
<1>1. n \in Nat /\ \A k \in 1..n : seqs[k] \in X OBVIOUS
<1>2. n = 0 => seqs = <<>> OBVIOUS
<1>3. FlattenSeq(seqs) = IF n = 0 THEN seqs ELSE flat[n] BY DEF FlattenSeq
<1> HIDE DEF n
<1>4. \E f : Ran(f, n, X, <<>>, step)
  <2>1. \A k \in 1..n, w \in X : w \o seqs[k] \in X BY <1>1
  <2>2. <<>> \in X OBVIOUS
  <2> HIDE DEF X
  <2>3. step \in [1..n -> [X -> X]] BY <2>1
  <2> HIDE DEF step
  <2> QED BY <1>1, <2>2, <2>3, LoopRuns
<1>5. PICK f : Ran(f, n, X, <<>>, step) BY <1>4
<1>6. f \in [0..n -> X] /\ f[0] = <<>> /\ \A k \in 1..n : f[k] = f[k - 1] \o seqs[k]
  <2>1. f \in [0..n -> X] /\ f[0] = <<>> BY <1>5 DEF Ran
  <2>2. ASSUME NEW k \in 1..n PROVE f[k] = f[k - 1] \o seqs[k]
    <3>1. f[k] = step[k][f[k - 1]] BY <1>5 DEF Ran
    <3>2. f[k - 1] \in X BY <1>1, <2>1
    <3> QED BY <3>1, <3>2
  <2> QED BY <2>1, <2>2
<1> HIDE DEF step
<1>7. CASE n = 0 BY <1>2, <1>3, <1>6, <1>7 DEF n
<1>8. CASE n # 0
  <2> DEFINE h == [k \in 1..n |-> f[k]]
  <2>1. ASSUME NEW k \in 1..n
        PROVE  h[k] = IF k = 1 THEN seqs[k] ELSE h[k - 1] \o seqs[k]
    <3>1. CASE k = 1
      <4>1. 1 \in 1..n /\ 1 - 1 = 0 BY <3>1
      <4>2. f[1] = <<>> \o seqs[1] BY <1>6, <4>1
      <4>3. <<>> \o seqs[1] = seqs[1] BY <1>1, <3>1, ConcatEmptySeq
      <4> QED BY <3>1, <4>2, <4>3
    <3>2. CASE k # 1
      <4>1. k - 1 \in 1..n BY <1>1, <3>2
      <4> QED BY <1>6, <3>2, <4>1
    <3> QED BY <3>1, <3>2
  <2>2. Is(h) BY <2>1
  <2>3. Is(flat)
    <3>1. \E g : Is(g) BY <2>2
    <3> QED BY <3>1
  <2> HIDE DEF flat, h
  <2> DEFINE T == {k \in 0..n : k >= 1 => flat[k] = f[k]}
  <2>4. 0 \in T BY <1>1
  <2>5. ASSUME NEW k \in 1..n, k - 1 \in T PROVE k \in T
    <3>1. k \in 0..n /\ k >= 1 BY <1>1
    <3>2. flat[k] = IF k = 1 THEN seqs[k] ELSE flat[k - 1] \o seqs[k] BY <2>3
    <3>3. CASE k = 1
      <4>1. 1 \in 1..n /\ 1 - 1 = 0 BY <3>3
      <4>2. f[1] = <<>> \o seqs[1] BY <1>6, <4>1
      <4>3. <<>> \o seqs[1] = seqs[1] BY <1>1, <3>3, ConcatEmptySeq
      <4> QED BY <3>1, <3>2, <3>3, <4>2, <4>3
    <3>4. CASE k # 1
      <4>1. flat[k - 1] = f[k - 1] BY <2>5, <3>1, <3>4
      <4> QED BY <1>6, <3>1, <3>2, <3>4, <4>1
    <3> QED BY <3>3, <3>4
  <2> HIDE DEF T
  <2>6. 0..n \subseteq T BY <1>1, <2>4, <2>5, LoopKeeps
  <2>7. n \in T /\ n >= 1 BY <1>1, <1>8, <2>6
  <2>8. flat[n] = f[n] BY <2>7 DEF T
  <2> QED BY <1>3, <1>6, <1>8, <2>8 DEF n
<1> QED BY <1>7, <1>8

\* ys are laid from a to b, each between two places, as T says.
Laid(ys, T, a, b) ==
    \E f \in [0..Len(ys) -> Nat] :
      /\ f[0] = a /\ f[Len(ys)] = b
      /\ \A k \in 1..Len(ys) : <<f[k - 1], f[k], ys[k]>> \in T

\* Nothing is laid between a place and itself.
LEMMA LaidNone ==
    ASSUME NEW T, NEW a \in Nat
    PROVE  Laid(<<>>, T, a, a)
<1> DEFINE f == [k \in 0..0 |-> a]
<1>1. f \in [0..0 -> Nat] /\ f[0] = a /\ Len(<<>>) = 0 /\ 1..0 = {} OBVIOUS
<1> HIDE DEF f
<1>2. f \in [0..Len(<<>>) -> Nat] /\ f[Len(<<>>)] = a /\ 1..Len(<<>>) = {} BY <1>1
<1> QED BY <1>1, <1>2 DEF Laid

\* What is laid from where something ends goes on from it.
LEMMA LaidJoin ==
    ASSUME NEW Y, NEW T, NEW xs \in Seq(Y), NEW ys \in Seq(Y), NEW a, NEW b, NEW c,
           Laid(xs, T, a, b), Laid(ys, T, b, c)
    PROVE  Laid(xs \o ys, T, a, c)
<1> DEFINE m == Len(xs)  n == Len(ys)  zs == xs \o ys
<1>1. m \in Nat /\ n \in Nat OBVIOUS
<1>2. PICK f \in [0..m -> Nat] :
        f[0] = a /\ f[m] = b /\ \A k \in 1..m : <<f[k - 1], f[k], xs[k]>> \in T
  BY DEF Laid
<1>3. PICK g \in [0..n -> Nat] :
        g[0] = b /\ g[n] = c /\ \A k \in 1..n : <<g[k - 1], g[k], ys[k]>> \in T
  BY DEF Laid
<1>4. Len(zs) = m + n /\ \A k \in 1..m + n : zs[k] = IF k <= m THEN xs[k] ELSE ys[k - m]
  BY ConcatProperties
<1> HIDE DEF m, n, zs
<1> DEFINE h == [k \in 0..m + n |-> IF k <= m THEN f[k] ELSE g[k - m]]
<1>5. h \in [0..m + n -> Nat]
  <2> SUFFICES ASSUME NEW k \in 0..m + n PROVE (IF k <= m THEN f[k] ELSE g[k - m]) \in Nat OBVIOUS
  <2>1. CASE k <= m BY <1>1, <2>1
  <2>2. CASE ~(k <= m)
    <3>1. k - m \in 0..n BY <1>1, <2>2
    <3> QED BY <2>2, <3>1
  <2> QED BY <2>1, <2>2
<1>6. h[0] = a BY <1>1, <1>2
<1>7. h[m + n] = c
  <2>1. m + n \in 0..m + n BY <1>1
  <2>2. CASE n = 0 BY <1>1, <1>2, <1>3, <2>1, <2>2
  <2>3. CASE n # 0
    <3>1. ~(m + n <= m) /\ (m + n) - m = n BY <1>1, <2>3
    <3> QED BY <1>3, <2>1, <3>1
  <2> QED BY <2>2, <2>3
<1>8. ASSUME NEW k \in 1..m + n PROVE <<h[k - 1], h[k], zs[k]>> \in T
  <2>1. k \in 0..m + n /\ k - 1 \in 0..m + n /\ k \in Int BY <1>1
  <2>2. CASE k <= m
    <3>1. k \in 1..m /\ k - 1 <= m BY <1>1, <2>2
    <3>2. h[k] = f[k] /\ h[k - 1] = f[k - 1] BY <2>1, <2>2, <3>1
    <3> QED BY <1>2, <1>4, <2>2, <3>1, <3>2
  <2>3. CASE ~(k <= m)
    <3>1. k - m \in 1..n /\ (k - 1) - m = (k - m) - 1 BY <1>1, <2>3
    <3>2. h[k] = g[k - m] BY <2>1, <2>3
    <3>3. h[k - 1] = g[(k - m) - 1]
      <4>1. CASE k - 1 <= m
        <5>1. k - 1 = m /\ (k - m) - 1 = 0 BY <1>1, <2>3, <4>1
        <5> QED BY <1>2, <1>3, <2>1, <4>1, <5>1
      <4>2. CASE ~(k - 1 <= m) BY <2>1, <3>1, <4>2
      <4> QED BY <4>1, <4>2
    <3> QED BY <1>3, <1>4, <2>3, <3>1, <3>2, <3>3
  <2> QED BY <2>2, <2>3
<1> HIDE DEF h
<1> QED BY <1>4, <1>5, <1>6, <1>7, <1>8 DEF Laid, zs

\* What is laid alone.
LEMMA LaidOne ==
    ASSUME NEW T, NEW a \in Nat, NEW b \in Nat, NEW y, <<a, b, y>> \in T
    PROVE  Laid(<<y>>, T, a, b)
<1> DEFINE f == [k \in 0..1 |-> IF k = 0 THEN a ELSE b]
<1>1. f \in [0..1 -> Nat] /\ f[0] = a /\ f[1] = b OBVIOUS
<1>2. Len(<<y>>) = 1 /\ <<y>>[1] = y OBVIOUS
<1> HIDE DEF f
<1>3. \A k \in 1..1 : <<f[k - 1], f[k], <<y>>[k]>> \in T
  <2> SUFFICES ASSUME NEW k \in 1..1 PROVE <<f[k - 1], f[k], <<y>>[k]>> \in T OBVIOUS
  <2>1. k = 1 /\ k - 1 = 0 OBVIOUS
  <2> QED BY <1>1, <1>2, <2>1
<1> QED BY <1>1, <1>2, <1>3 DEF Laid

\* One more is laid at the end.
LEMMA LaidMore ==
    ASSUME NEW Y, NEW T, NEW xs \in Seq(Y), NEW y \in Y, NEW a, NEW b \in Nat, NEW c \in Nat,
           Laid(xs, T, a, b), <<b, c, y>> \in T
    PROVE  Laid(Append(xs, y), T, a, c)
<1>1. Laid(<<y>>, T, b, c) BY LaidOne
<1>2. <<y>> \in Seq(Y) OBVIOUS
<1>3. Laid(xs \o <<y>>, T, a, c) BY <1>1, <1>2, LaidJoin
<1>4. Append(xs, y) = xs \o <<y>> BY AppendIsConcat
<1> QED BY <1>3, <1>4

\* Sequences that are laid one after the other, each of what is laid, flatten
\* to what is laid.
LEMMA LaidFlatten ==
    ASSUME NEW Y, NEW T, NEW U, NEW seqs \in Seq(Seq(Y)), NEW a, NEW b, Laid(seqs, U, a, b),
           \A x, y \in Nat, s \in Seq(Y) : <<x, y, s>> \in U => Laid(s, T, x, y)
    PROVE  FlattenSeq(seqs) \in Seq(Y) /\ Laid(FlattenSeq(seqs), T, a, b)
<1> DEFINE n == Len(seqs)  X == Seq(Y)
<1>1. n \in Nat /\ \A k \in 1..n : seqs[k] \in X OBVIOUS
<1>2. PICK f \in [0..n -> Nat] :
        f[0] = a /\ f[n] = b /\ \A k \in 1..n : <<f[k - 1], f[k], seqs[k]>> \in U
  BY DEF Laid
<1>3. PICK g \in [0..n -> X] :
        /\ g[0] = <<>> /\ FlattenSeq(seqs) = g[n]
        /\ \A k \in 1..n : g[k] = g[k - 1] \o seqs[k]
  BY FlattenIs
<1> HIDE DEF n
<1> DEFINE S == {k \in 0..n : Laid(g[k], T, a, f[k])}
<1>4. 0 \in S
  <2>1. a \in Nat BY <1>1, <1>2
  <2> QED BY <1>1, <1>2, <1>3, <2>1, LaidNone
<1>5. ASSUME NEW k \in 1..n, k - 1 \in S PROVE k \in S
  <2>1. k \in 0..n /\ k - 1 \in 0..n BY <1>1
  <2>2. f[k] \in Nat /\ f[k - 1] \in Nat /\ g[k - 1] \in X /\ seqs[k] \in X BY <1>1, <2>1
  <2>3. Laid(seqs[k], T, f[k - 1], f[k]) BY <1>2, <2>2
  <2>4. Laid(g[k - 1], T, a, f[k - 1]) BY <1>5
  <2>5. Laid(g[k - 1] \o seqs[k], T, a, f[k]) BY <2>2, <2>3, <2>4, LaidJoin
  <2> QED BY <1>3, <2>1, <2>5
<1> HIDE DEF S
<1>6. 0..n \subseteq S BY <1>1, <1>4, <1>5, LoopKeeps
<1>7. n \in S /\ n \in 0..n BY <1>1, <1>6
<1> QED BY <1>2, <1>3, <1>7 DEF S

\* Spans that are laid one after the other flatten to the span they are laid
\* over.
LEMMA LaidText ==
    ASSUME NEW S, NEW s \in Seq(S), NEW ys \in Seq(Seq(S)), NEW T, NEW a, NEW b, Laid(ys, T, a, b),
           a \in Nat, a <= Len(s),
           \A x, y \in Nat, w \in Seq(S) :
             <<x, y, w>> \in T => x <= y /\ y <= Len(s) /\ w = Span(s, x, y)
    PROVE  a <= b /\ b <= Len(s) /\ FlattenSeq(ys) = Span(s, a, b)
<1> DEFINE n == Len(ys)
<1>1. n \in Nat /\ (\A k \in 1..n : ys[k] \in Seq(S)) /\ Len(s) \in Nat OBVIOUS
<1>2. PICK f \in [0..n -> Nat] :
        f[0] = a /\ f[n] = b /\ \A k \in 1..n : <<f[k - 1], f[k], ys[k]>> \in T
  BY DEF Laid
<1>3. PICK g \in [0..n -> Seq(S)] :
        /\ g[0] = <<>> /\ FlattenSeq(ys) = g[n]
        /\ \A k \in 1..n : g[k] = g[k - 1] \o ys[k]
  BY FlattenIs
<1> HIDE DEF n
<1> DEFINE K == {k \in 0..n : a <= f[k] /\ f[k] <= Len(s) /\ g[k] = Span(s, a, f[k])}
<1>4. 0 \in K
  <2>1. Span(s, a, a) = <<>>
    <3>1. a <= a OBVIOUS
    <3>2. Len(Span(s, a, a)) = a - a BY <3>1, SpanIs
    <3>3. Span(s, a, a) \in Seq(S) BY <3>1, SpanIs
    <3> QED BY <3>2, <3>3
  <2> QED BY <1>1, <1>2, <1>3, <2>1
<1>5. ASSUME NEW k \in 1..n, k - 1 \in K PROVE k \in K
  <2>1. k \in 0..n /\ k - 1 \in 0..n BY <1>1
  <2>2. f[k] \in Nat /\ f[k - 1] \in Nat /\ ys[k] \in Seq(S) BY <1>1, <2>1
  <2>3. f[k - 1] <= f[k] /\ f[k] <= Len(s) /\ ys[k] = Span(s, f[k - 1], f[k]) BY <1>2, <2>2
  <2>4. a <= f[k - 1] /\ g[k - 1] = Span(s, a, f[k - 1]) BY <1>5
  <2>5. Span(s, a, f[k - 1]) \o Span(s, f[k - 1], f[k]) = Span(s, a, f[k])
    <3> DEFINE p == f[k - 1]  q == f[k]
    <3>1. p \in Nat BY <2>2
    <3>2. q \in Nat BY <2>2
    <3>3. a <= p BY <2>4
    <3>4. p <= q BY <2>3
    <3>5. q <= Len(s) BY <2>3
    <3> HIDE DEF p, q
    <3>6. Span(s, a, p) \o Span(s, p, q) = Span(s, a, q) BY <3>1, <3>2, <3>3, <3>4, <3>5, SpansJoin
    <3> QED BY <3>6 DEF p, q
  <2>6. a <= f[k] BY <2>2, <2>3, <2>4
  <2> QED BY <1>3, <2>1, <2>3, <2>4, <2>5, <2>6
<1> HIDE DEF K
<1>6. 0..n \subseteq K BY <1>1, <1>4, <1>5, LoopKeeps
<1>7. n \in K /\ n \in 0..n BY <1>1, <1>6
<1> QED BY <1>2, <1>3, <1>7 DEF K

\* The lines after one and up to another.
LinesFrom(a, b) == [k \in 1..b - a |-> a + k]

\* Lines are counted from the one after a to b.
LEMMA LinesAre ==
    ASSUME NEW n \in Nat, NEW a \in Nat, NEW b \in Nat, a <= b, b <= n
    PROVE  /\ LinesFrom(a, b) \in Seq(1..n) /\ Len(LinesFrom(a, b)) = b - a
           /\ \A k \in 1..b - a : LinesFrom(a, b)[k] = a + k /\ a + k \in 1..n
<1> DEFINE t == LinesFrom(a, b)
<1>1. b - a \in Nat OBVIOUS
<1>2. \A k \in 1..b - a : a + k \in 1..n OBVIOUS
<1>3. t = [k \in 1..b - a |-> a + k] BY DEF LinesFrom
<1> HIDE DEF t
<1>4. t \in [1..b - a -> 1..n] /\ \A k \in 1..b - a : t[k] = a + k BY <1>2, <1>3
<1>5. t \in Seq(1..n) /\ Len(t) = b - a BY <1>1, <1>4
<1> QED BY <1>2, <1>4, <1>5 DEF t

\* The next line makes them one longer.
LEMMA LinesGrow ==
    ASSUME NEW a \in Nat, NEW b \in Nat, a <= b
    PROVE  Append(LinesFrom(a, b), b + 1) = LinesFrom(a, b + 1) /\ <<b + 1>> = LinesFrom(b, b + 1)
<1> DEFINE n == b + 1  s == LinesFrom(a, b)  t == LinesFrom(a, n)  u == Append(s, n)
           v == LinesFrom(b, n)
<1>1. n \in Nat /\ a <= n /\ b <= n /\ n <= n /\ n - a = (b - a) + 1 /\ n - b = 1 /\ b - a \in Nat
  OBVIOUS
<1>2. a <= n BY <1>1
<1>3. b <= n BY <1>1
<1>4. n <= n /\ n \in Nat BY <1>1
<1> HIDE DEF n
<1>5. s \in Seq(1..n) /\ Len(s) = b - a /\ \A k \in 1..b - a : s[k] = a + k
  BY <1>3, <1>4, LinesAre
<1>6. t \in Seq(1..n) /\ Len(t) = n - a /\ \A k \in 1..n - a : t[k] = a + k
  BY <1>2, <1>4, LinesAre
<1>7. v \in Seq(1..n) /\ Len(v) = n - b /\ \A k \in 1..n - b : v[k] = b + k
  BY <1>3, <1>4, LinesAre
<1> HIDE DEF s, t, v
<1>8. n \in 1..n BY <1>1 DEF n
<1>9. /\ u \in Seq(1..n) /\ Len(u) = n - a /\ u[n - a] = n
      /\ \A k \in 1..b - a : u[k] = s[k]
  BY <1>1, <1>5, <1>8
<1> HIDE DEF u
<1>10. \A k \in 1..n - a : u[k] = t[k]
  <2> SUFFICES ASSUME NEW k \in 1..n - a PROVE u[k] = t[k] OBVIOUS
  <2>1. k \in 1..b - a \/ k = n - a BY <1>1
  <2>2. a + (n - a) = n BY <1>1
  <2> QED BY <1>5, <1>6, <1>9, <2>1, <2>2
<1>11. u = t BY <1>6, <1>9, <1>10, SeqEqual
<1>12. <<n>> = v
  <2>1. Len(v) = 1 /\ v[1] = n BY <1>1, <1>7 DEF n
  <2> QED BY <1>7, <2>1
<1> QED BY <1>11, <1>12 DEF u, t, v, n, s

\* So the first is the one after a, and so on.
LEMMA LineAt ==
    ASSUME NEW a \in Nat, NEW b \in Nat, a <= b
    PROVE  Len(LinesFrom(a, b)) = b - a /\ \A k \in 1..b - a : LinesFrom(a, b)[k] = a + k
<1>1. b <= b OBVIOUS
<1>2. /\ Len(LinesFrom(a, b)) = b - a
      /\ \A k \in 1..b - a : LinesFrom(a, b)[k] = a + k /\ a + k \in 1..b
  BY <1>1, LinesAre
<1> QED BY <1>2

\* Lines, and those from where they end, are one run of lines.
LEMMA LinesJoin ==
    ASSUME NEW a \in Nat, NEW b \in Nat, NEW c \in Nat, a <= b, b <= c
    PROVE  LinesFrom(a, b) \o LinesFrom(b, c) = LinesFrom(a, c)
<1> DEFINE s == LinesFrom(0, c)
<1>1. c <= c /\ 0 <= c /\ 0 \in Nat OBVIOUS
<1>2. s \in Seq(1..c) /\ Len(s) = c
  <2>1. s \in Seq(1..c) BY <1>1, LinesAre
  <2>2. Len(s) = c - 0 BY <1>1, LinesAre
  <2> QED BY <2>1, <2>2
<1>3. \A k \in 1..c : s[k] = k
  <2> DEFINE o == 0
  <2>1. o \in Nat /\ o <= c /\ c - o = c /\ \A k \in 1..c : o + k = k OBVIOUS
  <2> HIDE DEF o
  <2>2. \A k \in 1..c - o : LinesFrom(o, c)[k] = o + k BY <2>1, LineAt
  <2> HIDE DEF s
  <2>3. s = LinesFrom(o, c) BY DEF s, o
  <2> QED BY <2>1, <2>2, <2>3
<1> HIDE DEF s
<1>4. \A x, y \in Nat : x <= y /\ y <= c => LinesFrom(x, y) = Span(s, x, y)
  <2> SUFFICES ASSUME NEW x \in Nat, NEW y \in Nat, x <= y, y <= c PROVE LinesFrom(x, y) = Span(s, x, y)
    OBVIOUS
  <2>1. \A k \in 1..y - x : x + k \in 1..c OBVIOUS
  <2> QED BY <1>3, <2>1 DEF LinesFrom, Span
<1>5. a <= c /\ b <= c /\ c <= c OBVIOUS
<1>6. Span(s, a, b) \o Span(s, b, c) = Span(s, a, c)
  <2>1. c <= Len(s) BY <1>2
  <2> QED BY <1>2, <2>1, SpansJoin
<1> QED BY <1>4, <1>5, <1>6

-----------------------------------------------------------------------------
\* Fences that may be open.
FenceStates == [mark : Marks, run : Nat]

\* A line leaves a fence open, or none.
LEMMA FenceStepIs ==
    ASSUME NEW line \in TextLines, NEW fence \in FenceStates
    PROVE  FenceStep(line, fence) \in FenceStates
<1>1. NoFence \in FenceStates BY DEF NoFence, FenceStates, Marks
<1>2. line.mark \in Marks /\ line.run \in Nat BY DEF TextLines
<1>3. [mark |-> line.mark, run |-> line.run] \in FenceStates BY <1>2 DEF FenceStates
<1> QED BY <1>1, <1>3 DEF FenceStep

\* The fence that is open after each of some lines.
LEMMA FenceOverIs ==
    ASSUME NEW text \in Seq(TextLines), NEW lines \in Seq(1..Len(text)), NEW fence \in FenceStates
    PROVE  LET open == FenceOver(text, lines, fence)
           IN  /\ open \in [0..Len(lines) -> FenceStates] /\ open[0] = fence
               /\ \A k \in 1..Len(lines) : open[k] = FenceStep(text[lines[k]], open[k - 1])
<1> DEFINE n == Len(lines)  X == FenceStates
           Stepped(w, k) == FenceStep(text[lines[k]], w)
           step == [k \in 1..n |-> [w \in X |-> Stepped(w, k)]]
           Is(f) == f = [k \in 0..n |-> IF k = 0 THEN fence ELSE Stepped(f[k - 1], k)]
           open == CHOOSE f : Is(f)
<1>1. n \in Nat /\ \A k \in 1..n : lines[k] \in 1..Len(text) OBVIOUS
<1>2. \A k \in 1..n, w \in X : Stepped(w, k) \in X
  <2> SUFFICES ASSUME NEW k \in 1..n, NEW w \in X PROVE Stepped(w, k) \in X OBVIOUS
  <2>1. text[lines[k]] \in TextLines
    <3>1. \A i \in 1..Len(text) : text[i] \in TextLines OBVIOUS
    <3> QED BY <1>1, <3>1
  <2> QED BY <2>1, FenceStepIs
<1>3. FenceOver(text, lines, fence) = open BY DEF FenceOver
<1> HIDE DEF n, X, Stepped
<1>4. \E f : Ran(f, n, X, fence, step)
  <2>1. step \in [1..n -> [X -> X]] BY <1>2
  <2>2. fence \in X BY DEF X
  <2> HIDE DEF step
  <2> QED BY <1>1, <2>1, <2>2, LoopRuns
<1>5. PICK f : Ran(f, n, X, fence, step) BY <1>4
<1>6. Is(f)
  <2>1. f \in [0..n -> X] /\ f[0] = fence BY <1>5 DEF Ran
  <2>2. ASSUME NEW k \in 0..n, k # 0 PROVE f[k] = Stepped(f[k - 1], k)
    <3>1. k \in 1..n /\ k - 1 \in 0..n BY <1>1, <2>2
    <3>2. f[k] = step[k][f[k - 1]] /\ f[k - 1] \in X BY <1>5, <3>1 DEF Ran
    <3> QED BY <3>1, <3>2 DEF step
  <2> QED BY <2>1, <2>2
<1>7. Is(open) BY <1>6
<1> HIDE DEF open
<1>8. open[0] = fence BY <1>1, <1>7
<1>9. \A k \in 1..n : open[k] = Stepped(open[k - 1], k)
  <2>1. \A k \in 1..n : k \in 0..n /\ k # 0 BY <1>1
  <2> QED BY <1>7, <2>1
<1> DEFINE S == {k \in 0..n : open[k] \in X}
<1>10. 0 \in S BY <1>1, <1>8 DEF X
<1>11. \A k \in 1..n : k - 1 \in S => k \in S
  <2>1. \A k \in 1..n : k \in 0..n BY <1>1
  <2> QED BY <1>2, <1>9, <2>1
<1> HIDE DEF S
<1>12. 0..n \subseteq S BY <1>1, <1>10, <1>11, LoopKeeps
<1>13. \A k \in 0..n : open[k] \in X BY <1>12 DEF S
<1>14. open \in [0..n -> X] BY <1>7, <1>13
<1> QED BY <1>3, <1>8, <1>9, <1>14 DEF X, n, Stepped

\* The fence that is open after each line of a text.
LEMMA FencesAre ==
    ASSUME NEW text \in Seq(TextLines)
    PROVE  /\ Fences(text) \in [0..Len(text) -> FenceStates] /\ Fences(text)[0] = NoFence
           /\ \A k \in 1..Len(text) : Fences(text)[k] = FenceStep(text[k], Fences(text)[k - 1])
           /\ AllLines(text) = LinesFrom(0, Len(text))
<1> DEFINE n == Len(text)  all == AllLines(text)  F == Fences(text)
<1>1. n \in Nat /\ 0 <= n /\ n <= n /\ n - 0 = n /\ \A k \in 1..n : 0 + k = k
  <2>1. n \in Nat OBVIOUS
  <2> HIDE DEF n
  <2> QED BY <2>1
<1>2. all = [k \in 1..n |-> k] BY DEF AllLines
<1>3. F = FenceOver(text, all, NoFence) BY DEF Fences
<1> HIDE DEF n
<1>4. all = LinesFrom(0, n) BY <1>1, <1>2 DEF LinesFrom
<1>5. all \in Seq(1..n) /\ Len(all) = n BY <1>1, <1>2
<1>6. NoFence \in FenceStates BY DEF NoFence, FenceStates, Marks
<1> HIDE DEF all, F
<1>7. /\ F \in [0..Len(all) -> FenceStates] /\ F[0] = NoFence
      /\ \A k \in 1..Len(all) : F[k] = FenceStep(text[all[k]], F[k - 1])
  BY <1>3, <1>5, <1>6, FenceOverIs DEF n
<1>8. \A k \in 1..n : all[k] = k BY <1>2
<1> QED BY <1>4, <1>5, <1>7, <1>8 DEF n, all, F

\* To go over a run of lines is to go on over the text.
LEMMA FencesGoOn ==
    ASSUME NEW text \in Seq(TextLines), NEW a \in Nat, NEW b \in Nat, a <= b, b <= Len(text)
    PROVE  FenceOver(text, LinesFrom(a, b), Fences(text)[a])[b - a] = Fences(text)[b]
<1> DEFINE n == Len(text)  F == Fences(text)  l == LinesFrom(a, b)  m == b - a
           G == FenceOver(text, l, F[a])
<1>1. n \in Nat /\ m \in Nat /\ a \in 0..n /\ a + m = b OBVIOUS
<1>2. F \in [0..n -> FenceStates] /\ \A k \in 1..n : F[k] = FenceStep(text[k], F[k - 1])
  BY FencesAre
<1>3. l \in Seq(1..n) /\ Len(l) = m /\ \A k \in 1..m : l[k] = a + k /\ a + k \in 1..n
  <2>1. n \in Nat /\ b <= n OBVIOUS
  <2> HIDE DEF n
  <2> QED BY <2>1, LinesAre
<1> HIDE DEF F, l
<1>4. F[a] \in FenceStates BY <1>1, <1>2
<1>5. /\ G[0] = F[a] /\ \A k \in 1..Len(l) : G[k] = FenceStep(text[l[k]], G[k - 1])
  BY <1>3, <1>4, FenceOverIs
<1> HIDE DEF G, m, n
<1> DEFINE S == {k \in 0..m : G[k] = F[a + k]}
<1>6. 0 \in S BY <1>1, <1>5
<1>7. ASSUME NEW k \in 1..m, k - 1 \in S PROVE k \in S
  <2>1. k \in 0..m /\ (a + k) - 1 = a + (k - 1) BY <1>1
  <2>2. G[k - 1] = F[a + (k - 1)] BY <1>7
  <2>3. F[a + k] = FenceStep(text[a + k], F[(a + k) - 1]) BY <1>2, <1>3
  <2>4. G[k] = FenceStep(text[a + k], G[k - 1]) BY <1>3, <1>5
  <2> QED BY <2>1, <2>2, <2>3, <2>4
<1> HIDE DEF S
<1>8. 0..m \subseteq S BY <1>1, <1>6, <1>7, LoopKeeps
<1>9. m \in S BY <1>1, <1>8
<1> QED BY <1>1, <1>9 DEF S, G, F, l, m

\* A gap neither opens nor closes code; what only gaps are before is not code.
LEMMA GapsKeepFences ==
    ASSUME NEW text \in Seq(TextLines)
    PROVE  /\ \A k \in 1..Len(text) : IsGap(text, k) => Fences(text)[k] = Fences(text)[k - 1]
           /\ \A k \in 0..Len(text) : (\A i \in 1..k : IsGap(text, i)) => Fences(text)[k] = NoFence
<1> DEFINE n == Len(text)  F == Fences(text)
           S == {k \in 0..n : (\A i \in 1..k : IsGap(text, i)) => F[k] = NoFence}
<1>1. n \in Nat OBVIOUS
<1>2. F[0] = NoFence /\ \A k \in 1..n : F[k] = FenceStep(text[k], F[k - 1]) BY FencesAre
<1> HIDE DEF n, F
<1>3. \A k \in 1..n : IsGap(text, k) => F[k] = F[k - 1] BY <1>2 DEF IsGap, FenceStep
<1>4. 0 \in S BY <1>1, <1>2
<1>5. ASSUME NEW k \in 1..n, k - 1 \in S PROVE k \in S
  <2>1. k \in 0..n /\ k \in 1..k /\ \A i \in 1..k - 1 : i \in 1..k BY <1>1
  <2> QED BY <1>3, <1>5, <2>1
<1> HIDE DEF S
<1>6. 0..n \subseteq S BY <1>1, <1>4, <1>5, LoopKeeps
<1>7. \A k \in 0..n : (\A i \in 1..k : IsGap(text, i)) => F[k] = NoFence BY <1>6 DEF S
<1> QED BY <1>3, <1>7 DEF n, F

\* What is flattened lies in the result one after the other.
LEMMA FlattenLays ==
    ASSUME NEW S, NEW seqs \in Seq(Seq(S))
    PROVE  /\ FlattenSeq(seqs) \in Seq(S)
           /\ \E at \in [0..Len(seqs) -> Nat] :
                /\ at[0] = 0 /\ at[Len(seqs)] = Len(FlattenSeq(seqs))
                /\ \A i, j \in 0..Len(seqs) : i <= j => at[i] <= at[j]
                /\ \A k \in 1..Len(seqs) :
                     /\ at[k] = at[k - 1] + Len(seqs[k])
                     /\ Span(FlattenSeq(seqs), at[k - 1], at[k]) = seqs[k]
<1> DEFINE n == Len(seqs)  X == Seq(S)  flat == FlattenSeq(seqs)
<1>1. n \in Nat /\ \A k \in 1..n : seqs[k] \in X OBVIOUS
<1>2. PICK f \in [0..n -> X] :
        /\ f[0] = <<>> /\ flat = f[n]
        /\ \A k \in 1..n : f[k] = f[k - 1] \o seqs[k]
  BY FlattenIs
<1> HIDE DEF n, flat
<1> DEFINE at == [k \in 0..n |-> Len(f[k])]
<1>3. at \in [0..n -> Nat] /\ at[0] = 0 /\ at[n] = Len(flat)
  <2>1. \A k \in 0..n : Len(f[k]) \in Nat BY <1>2
  <2>2. 0 \in 0..n /\ n \in 0..n BY <1>1
  <2> QED BY <1>2, <2>1, <2>2
<1>4. ASSUME NEW k \in 1..n
      PROVE  /\ at[k] = at[k - 1] + Len(seqs[k]) /\ Len(seqs[k]) \in Nat
             /\ \A p \in 1..at[k] : f[k][p] = IF p <= at[k - 1] THEN f[k - 1][p]
                                              ELSE seqs[k][p - at[k - 1]]
  <2>1. k \in 0..n /\ k - 1 \in 0..n BY <1>1
  <2> DEFINE u == f[k - 1]  v == seqs[k]
  <2>2. u \in Seq(S) /\ v \in Seq(S) BY <1>1, <1>2, <2>1
  <2>3. f[k] = u \o v BY <1>2
  <2>4. at[k] = Len(f[k]) /\ at[k - 1] = Len(u) BY <2>1
  <2> HIDE DEF u, v, at
  <2>5. Len(u \o v) = Len(u) + Len(v) /\ \A p \in 1..Len(u) + Len(v) :
          (u \o v)[p] = IF p <= Len(u) THEN u[p] ELSE v[p - Len(u)]
    BY <2>2, ConcatProperties
  <2>6. Len(v) \in Nat BY <2>2
  <2> QED BY <2>3, <2>4, <2>5, <2>6 DEF u, v
<1> HIDE DEF at
<1>5. \A i, j \in 0..n : i <= j => at[i] <= at[j] /\ \A p \in 1..at[i] : f[j][p] = f[i][p]
  <2> SUFFICES ASSUME NEW i \in 0..n
               PROVE  \A j \in 0..n : i <= j => at[i] <= at[j] /\ \A p \in 1..at[i] : f[j][p] = f[i][p]
    OBVIOUS
  <2> DEFINE K == {j \in 0..n : i <= j => at[i] <= at[j] /\ \A p \in 1..at[i] : f[j][p] = f[i][p]}
  <2>1. \A j \in 0..n : at[j] \in Nat BY <1>3
  <2>2. 0 \in K
    <3>1. i <= 0 => i = 0 BY <1>1
    <3> QED BY <1>1, <2>1, <3>1
  <2>3. ASSUME NEW j \in 1..n, j - 1 \in K PROVE j \in K
    <3>1. j \in 0..n /\ j - 1 \in 0..n BY <1>1
    <3>2. CASE i <= j - 1
      <4>1. at[i] <= at[j - 1] /\ \A p \in 1..at[i] : f[j - 1][p] = f[i][p] BY <2>3, <3>2
      <4>2. at[j - 1] <= at[j] BY <1>4, <2>1, <3>1
      <4>3. at[i] <= at[j] BY <2>1, <3>1, <4>1, <4>2
      <4>4. ASSUME NEW p \in 1..at[i] PROVE f[j][p] = f[i][p]
        <5>1. p \in 1..at[j] /\ p <= at[j - 1] BY <2>1, <3>1, <4>1, <4>2
        <5> QED BY <1>4, <4>1, <5>1
      <4> QED BY <3>1, <4>3, <4>4
    <3>3. CASE ~(i <= j - 1)
      <4>1. i <= j => i = j BY <1>1, <3>3
      <4> QED BY <2>1, <3>1, <4>1
    <3> QED BY <3>2, <3>3
  <2> HIDE DEF K
  <2>4. 0..n \subseteq K BY <1>1, <2>2, <2>3, LoopKeeps
  <2> QED BY <2>4 DEF K
<1>6. ASSUME NEW k \in 1..n PROVE Span(flat, at[k - 1], at[k]) = seqs[k]
  <2>1. k \in 0..n /\ k - 1 \in 0..n /\ n \in 0..n /\ k <= n BY <1>1
  <2> DEFINE x == at[k - 1]  y == at[k]
  <2>2. x \in Nat /\ y \in Nat /\ y = x + Len(seqs[k]) /\ Len(seqs[k]) \in Nat BY <1>3, <1>4, <2>1
  <2>3. ASSUME NEW p \in 1..y - x PROVE flat[x + p] = seqs[k][p]
    <3>1. x + p \in 1..y /\ ~(x + p <= x) /\ (x + p) - x = p BY <2>2
    <3>2. f[n][x + p] = f[k][x + p] BY <1>5, <2>1, <3>1
    <3> QED BY <1>2, <1>4, <3>1, <3>2
  <2> HIDE DEF x, y
  <2>4. seqs[k] \in X /\ y - x = Len(seqs[k]) BY <1>1, <2>2
  <2> HIDE DEF X
  <2>5. Span(flat, x, y) = [p \in 1..Len(seqs[k]) |-> seqs[k][p]] BY <2>3, <2>4 DEF Span
  <2>6. seqs[k] = [p \in 1..Len(seqs[k]) |-> seqs[k][p]] BY <2>4 DEF X
  <2> QED BY <2>5, <2>6 DEF x, y
<1>7. flat \in X
  <2>1. n \in 0..n BY <1>1
  <2> QED BY <1>2, <2>1
<1>8. \E g \in [0..n -> Nat] :
        /\ g[0] = 0 /\ g[n] = Len(flat)
        /\ \A i, j \in 0..n : i <= j => g[i] <= g[j]
        /\ \A k \in 1..n : g[k] = g[k - 1] + Len(seqs[k]) /\ Span(flat, g[k - 1], g[k]) = seqs[k]
  <2>1. \A i, j \in 0..n : i <= j => at[i] <= at[j] BY <1>5
  <2>2. \A k \in 1..n : at[k] = at[k - 1] + Len(seqs[k]) BY <1>4
  <2> QED BY <1>3, <1>6, <2>1, <2>2
<1> QED BY <1>7, <1>8 DEF n, flat

-----------------------------------------------------------------------------
\* The code points of a text.
Whole(text) == Points(text, AllLines(text))

\* Where the code points of a text's lines end.
LineEnds(text, at) ==
    /\ at \in [0..Len(text) -> Nat] /\ at[0] = 0 /\ at[Len(text)] = Len(Whole(text))
    /\ Whole(text) \in Seq(1..Len(text))
    /\ \A a, b \in 0..Len(text) :
         a <= b => at[a] <= at[b] /\ Points(text, LinesFrom(a, b)) = Span(Whole(text), at[a], at[b])
    /\ \A i \in 1..Len(text) : at[i - 1] < at[i]
    /\ \A r \in 1..Len(Whole(text)) : at[Whole(text)[r] - 1] < r /\ r <= at[Whole(text)[r]]

\* Every line ends somewhere, after the one before it.
LEMMA EndsAre ==
    ASSUME NEW text \in Seq(TextLines)
    PROVE  \E at : LineEnds(text, at)
<1> DEFINE n == Len(text)  L == 1..n  all == AllLines(text)  whole == Whole(text)
           BlockOf(i) == [m \in 1..text[i].size |-> i]
           Blocks(lines) == [k \in 1..Len(lines) |-> BlockOf(lines[k])]
<1>1. /\ n \in Nat /\ all = LinesFrom(0, n)
      /\ \A i \in 1..n : text[i].size \in Nat \ {0}
  <2>1. \A i \in 1..n : text[i] \in TextLines OBVIOUS
  <2>2. n \in Nat OBVIOUS
  <2> HIDE DEF n
  <2>3. \A i \in 1..n : text[i].size \in Nat \ {0} BY <2>1 DEF TextLines
  <2> QED BY <2>2, <2>3, FencesAre DEF n
<1>2. \A lines : Points(text, lines) = FlattenSeq(Blocks(lines)) BY DEF Points
<1> HIDE DEF n
<1>3. ASSUME NEW i \in 1..n
      PROVE  /\ BlockOf(i) \in Seq(L) /\ Len(BlockOf(i)) = text[i].size
             /\ \A m \in 1..text[i].size : BlockOf(i)[m] = i
  <2> DEFINE z == text[i].size  t == BlockOf(i)
  <2>1. z \in Nat BY <1>1
  <2>2. t = [m \in 1..z |-> i] OBVIOUS
  <2>3. i \in L OBVIOUS
  <2> HIDE DEF z, t, L
  <2>4. t \in [1..z -> L] /\ \A m \in 1..z : t[m] = i BY <2>3, <2>2
  <2>5. t \in Seq(L) /\ Len(t) = z BY <2>1, <2>4
  <2> QED BY <2>4, <2>5 DEF t, z
<1> HIDE DEF BlockOf, L
<1>4. ASSUME NEW a \in 0..n, NEW b \in 0..n, a <= b
      PROVE  /\ Blocks(LinesFrom(a, b)) \in Seq(Seq(L)) /\ Len(Blocks(LinesFrom(a, b))) = b - a
             /\ \A k \in 1..b - a : Blocks(LinesFrom(a, b))[k] = BlockOf(a + k) /\ a + k \in 1..n
  <2> DEFINE l == LinesFrom(a, b)  s == Blocks(l)  m == b - a
  <2>1. a \in Nat /\ b \in Nat /\ b <= n /\ m \in Nat BY <1>1, <1>4
  <2>2. Len(l) = b - a /\ \A k \in 1..b - a : l[k] = a + k /\ a + k \in 1..n
    <3>1. Len(l) = b - a BY <1>1, <1>4, <2>1, LinesAre
    <3>2. \A k \in 1..b - a : l[k] = a + k /\ a + k \in 1..n BY <1>1, <1>4, <2>1, LinesAre
    <3> QED BY <3>1, <3>2
  <2> HIDE DEF l
  <2>3. s = [k \in 1..m |-> BlockOf(a + k)] BY <2>2
  <2> HIDE DEF s
  <2>4. \A k \in 1..m : s[k] = BlockOf(a + k) /\ BlockOf(a + k) \in Seq(L) /\ a + k \in 1..n
    BY <1>3, <2>2, <2>3
  <2>5. s \in [1..m -> Seq(L)] BY <2>3, <2>4
  <2>6. s \in Seq(Seq(L)) /\ Len(s) = m
    <3> DEFINE Q == Seq(L)
    <3>1. s \in [1..m -> Q] BY <2>5
    <3> HIDE DEF Q, m
    <3>2. s \in Seq(Q) /\ Len(s) = m BY <2>1, <3>1
    <3> QED BY <3>2 DEF Q
  <2> QED BY <2>4, <2>6 DEF s, l
<1>5. whole = FlattenSeq(Blocks(LinesFrom(0, n))) BY <1>1, <1>2 DEF Whole
<1> HIDE DEF Blocks, whole
<1>6. /\ Blocks(LinesFrom(0, n)) \in Seq(Seq(L)) /\ Len(Blocks(LinesFrom(0, n))) = n
      /\ \A k \in 1..n : Blocks(LinesFrom(0, n))[k] = BlockOf(k)
  <2>1. 0 \in 0..n /\ n \in 0..n /\ 0 <= n /\ n - 0 = n /\ \A k \in 1..n : 0 + k = k BY <1>1
  <2>2. Blocks(LinesFrom(0, n)) \in Seq(Seq(L)) BY <1>4, <2>1
  <2>3. Len(Blocks(LinesFrom(0, n))) = n - 0 BY <1>4, <2>1
  <2>4. \A k \in 1..n - 0 : Blocks(LinesFrom(0, n))[k] = BlockOf(0 + k) BY <1>4, <2>1
  <2> QED BY <2>1, <2>2, <2>3, <2>4
<1>7. /\ whole \in Seq(L)
      /\ \E at \in [0..n -> Nat] :
           /\ at[0] = 0 /\ at[n] = Len(whole)
           /\ \A i, j \in 0..n : i <= j => at[i] <= at[j]
           /\ \A k \in 1..n :
                at[k] = at[k - 1] + Len(BlockOf(k)) /\ Span(whole, at[k - 1], at[k]) = BlockOf(k)
  <2> DEFINE s == Blocks(LinesFrom(0, n))
  <2>1. s \in Seq(Seq(L)) /\ Len(s) = n /\ whole = FlattenSeq(s) /\ \A k \in 1..n : s[k] = BlockOf(k)
    BY <1>5, <1>6
  <2> HIDE DEF s
  <2>2. FlattenSeq(s) \in Seq(L) BY <2>1, FlattenLays
  <2>3. \E at \in [0..Len(s) -> Nat] :
           /\ at[0] = 0 /\ at[Len(s)] = Len(FlattenSeq(s))
           /\ \A i, j \in 0..Len(s) : i <= j => at[i] <= at[j]
           /\ \A k \in 1..Len(s) :
                /\ at[k] = at[k - 1] + Len(s[k])
                /\ Span(FlattenSeq(s), at[k - 1], at[k]) = s[k]
    BY <2>1, FlattenLays
  <2> QED BY <2>1, <2>2, <2>3
<1>8. PICK at \in [0..n -> Nat] :
           /\ at[0] = 0 /\ at[n] = Len(whole)
           /\ \A i, j \in 0..n : i <= j => at[i] <= at[j]
           /\ \A k \in 1..n :
                at[k] = at[k - 1] + Len(BlockOf(k)) /\ Span(whole, at[k - 1], at[k]) = BlockOf(k)
  BY <1>7
<1>9. \A i \in 1..n : /\ i \in 0..n /\ i - 1 \in 0..n /\ at[i] \in Nat /\ at[i - 1] \in Nat
                      /\ at[i - 1] < at[i] /\ at[i] = at[i - 1] + text[i].size
  <2>1. \A i \in 1..n : i \in 0..n /\ i - 1 \in 0..n BY <1>1
  <2>2. \A i \in 1..n : at[i] = at[i - 1] + text[i].size /\ text[i].size \in Nat \ {0}
    BY <1>1, <1>3, <1>8
  <2>3. \A i \in 0..n : at[i] \in Nat BY <1>8
  <2> SUFFICES ASSUME NEW i \in 1..n
               PROVE  /\ i \in 0..n /\ i - 1 \in 0..n /\ at[i] \in Nat /\ at[i - 1] \in Nat
                      /\ at[i - 1] < at[i] /\ at[i] = at[i - 1] + text[i].size
    OBVIOUS
  <2>4. i \in 0..n /\ i - 1 \in 0..n BY <2>1
  <2>5. at[i] \in Nat /\ at[i - 1] \in Nat BY <2>3, <2>4
  <2>6. at[i] = at[i - 1] + text[i].size /\ text[i].size \in Nat \ {0} BY <2>2
  <2> QED BY <2>4, <2>5, <2>6
<1>10. ASSUME NEW a \in 0..n, NEW b \in 0..n, a <= b
       PROVE  Points(text, LinesFrom(a, b)) = Span(whole, at[a], at[b])
  <2> DEFINE s == Blocks(LinesFrom(a, b))  m == b - a
             T == {t \in Nat \X Nat \X Seq(L) :
                     t[1] <= t[2] /\ t[2] <= Len(whole) /\ t[3] = Span(whole, t[1], t[2])}
             f == [k \in 0..m |-> at[a + k]]
  <2>1. s \in Seq(Seq(L)) /\ Len(s) = m /\ \A k \in 1..m : s[k] = BlockOf(a + k) /\ a + k \in 1..n
    <3>1. s \in Seq(Seq(L)) BY <1>4, <1>10
    <3>2. Len(s) = b - a BY <1>4, <1>10
    <3>3. \A k \in 1..b - a : s[k] = BlockOf(a + k) /\ a + k \in 1..n BY <1>4, <1>10
    <3> QED BY <3>1, <3>2, <3>3
  <2>2. m \in Nat /\ a + m = b /\ a + 0 = a /\ \A k \in 0..m : a + k \in 0..n BY <1>1, <1>10
  <2> HIDE DEF s, m
  <2>3. f \in [0..m -> Nat] /\ f[0] = at[a] /\ f[m] = at[b]
    <3>1. 0 \in 0..m /\ m \in 0..m BY <2>2
    <3> QED BY <1>8, <2>2, <3>1
  <2>4. ASSUME NEW k \in 1..m PROVE <<f[k - 1], f[k], s[k]>> \in T
    <3> DEFINE i == a + k
    <3>1. i \in 1..n /\ i - 1 = a + (k - 1) /\ k \in 0..m /\ k - 1 \in 0..m BY <1>1, <2>1, <2>2
    <3>2. f[k] = at[i] /\ f[k - 1] = at[i - 1] /\ s[k] = BlockOf(i) BY <2>1, <3>1
    <3>3. n \in 0..n BY <1>1
    <3> HIDE DEF i, f, T
    <3>4. /\ at[i] \in Nat /\ at[i - 1] \in Nat /\ at[i - 1] <= at[i] /\ at[i] <= Len(whole)
      <4>1. i \in 0..n /\ i <= n BY <1>1, <3>1
      <4> QED BY <1>8, <1>9, <3>1, <3>3, <4>1
    <3>5. BlockOf(i) \in Seq(L) /\ BlockOf(i) = Span(whole, at[i - 1], at[i]) BY <1>3, <1>8, <3>1
    <3>6. <<at[i - 1], at[i], BlockOf(i)>> \in T BY <3>4, <3>5 DEF T
    <3> QED BY <3>2, <3>6
  <2> HIDE DEF f, T
  <2>5. Laid(s, T, at[a], at[b]) BY <2>1, <2>3, <2>4 DEF Laid
  <2>6. \A x, y \in Nat, w \in Seq(L) :
          <<x, y, w>> \in T => x <= y /\ y <= Len(whole) /\ w = Span(whole, x, y)
    BY DEF T
  <2>7. at[a] \in Nat /\ at[a] <= Len(whole)
    <3>1. n \in 0..n /\ a <= n BY <1>1
    <3> QED BY <1>8, <3>1
  <2>8. FlattenSeq(s) = Span(whole, at[a], at[b])
    <3> HIDE DEF L
    <3> QED BY <1>7, <2>1, <2>5, <2>6, <2>7, LaidText
  <2> QED BY <1>2, <2>8 DEF s
<1>11. ASSUME NEW r \in 1..Len(whole) PROVE at[whole[r] - 1] < r /\ r <= at[whole[r]]
  <2> DEFINE K == {k \in 0..n : r <= at[k] => \E i \in 1..n : at[i - 1] < r /\ r <= at[i]}
  <2>1. Len(whole) \in Nat BY <1>7
  <2>2. 0 \in K BY <1>1, <1>8
  <2>3. ASSUME NEW k \in 1..n, k - 1 \in K PROVE k \in K
    <3>1. k \in 0..n /\ k - 1 \in 0..n BY <1>1
    <3>2. CASE r <= at[k - 1] BY <2>3, <3>1, <3>2
    <3>3. CASE ~(r <= at[k - 1])
      <4>1. at[k - 1] < r BY <1>9, <2>1, <3>3
      <4> QED BY <3>1, <4>1
    <3> QED BY <3>2, <3>3
  <2> HIDE DEF K
  <2>4. 0..n \subseteq K BY <1>1, <2>2, <2>3, LoopKeeps
  <2>5. n \in K /\ r <= Len(whole) BY <1>1, <2>1, <2>4
  <2>6. PICK i \in 1..n : at[i - 1] < r /\ r <= at[i] BY <1>8, <2>5 DEF K
  <2> DEFINE x == at[i - 1]  y == at[i]
  <2>7. x \in Nat /\ y \in Nat /\ y - x = text[i].size /\ r - x \in 1..y - x /\ x + (r - x) = r
    <3>1. x \in Nat /\ y \in Nat /\ y = x + text[i].size BY <1>9
    <3>2. x < r /\ r <= y BY <2>6
    <3>3. r \in Nat BY <2>1
    <3>4. text[i].size \in Nat BY <1>1
    <3> DEFINE z == text[i].size
    <3> HIDE DEF x, y, z
    <3>5. y - x = z /\ r - x \in 1..y - x /\ x + (r - x) = r
      BY <3>1, <3>2, <3>3, <3>4 DEF z
    <3> QED BY <3>1, <3>5 DEF z
  <2>8. Span(whole, x, y) = BlockOf(i) BY <1>8
  <2> HIDE DEF x, y
  <2>9. Span(whole, x, y)[r - x] = whole[x + (r - x)] BY <2>7 DEF Span
  <2>10. BlockOf(i)[r - x] = i BY <1>3, <2>7
  <2>11. whole[r] = i BY <2>7, <2>8, <2>9, <2>10
  <2> QED BY <2>6, <2>11
<1>12. LineEnds(text, at) BY <1>7, <1>8, <1>9, <1>10, <1>11 DEF LineEnds, n, L, whole
<1> QED BY <1>12

\* Stripped of its style blocks, a text is a text.
LEMMA StyleIs ==
    ASSUME NEW text \in Seq(TextLines)
    PROVE  StripStyleBlocks(text) \in Seq(TextLines)
<1> DEFINE n == Len(text)
           X == [out : Seq(TextLines), dropping : BOOLEAN, fence : FenceStates]
           v == [out |-> <<>>, dropping |-> FALSE, fence |-> NoFence]
           step == [k \in 1..n |-> [w \in X |-> StyleStep(w, text[k])]]
           Is(f) == f = [k \in 0..n |-> IF k = 0 THEN v ELSE StyleStep(f[k - 1], text[k])]
           kept == CHOOSE f : Is(f)
<1>1. n \in Nat /\ \A k \in 1..n : text[k] \in TextLines OBVIOUS
<1>2. ASSUME NEW k \in 1..n, NEW w \in X PROVE StyleStep(w, text[k]) \in X
  <2> DEFINE l == text[k]
  <2>1. l \in TextLines BY <1>1
  <2> HIDE DEF l
  <2>2. /\ w.out \in Seq(TextLines) /\ w.fence \in FenceStates
        /\ FenceStep(l, w.fence) \in FenceStates /\ Append(w.out, l) \in Seq(TextLines)
    BY <2>1, FenceStepIs
  <2>3. StyleStep(w, l) \in X BY <2>2 DEF StyleStep
  <2> QED BY <2>3 DEF l
<1>3. StripStyleBlocks(text) = kept[n].out \/ StripStyleBlocks(text) = text
  BY DEF StripStyleBlocks
<1>4. v \in X
  <2>1. NoFence \in FenceStates BY DEF NoFence, FenceStates, Marks
  <2> QED BY <2>1
<1>5. \A w \in X : w.out \in Seq(TextLines) OBVIOUS
<1> HIDE DEF n, X, v
<1>6. \E f : Ran(f, n, X, v, step)
  <2>1. step \in [1..n -> [X -> X]] BY <1>2
  <2> HIDE DEF step
  <2> QED BY <1>1, <1>4, <2>1, LoopRuns
<1>7. PICK f : Ran(f, n, X, v, step) BY <1>6
<1>8. Is(f)
  <2>1. f \in [0..n -> X] /\ f[0] = v BY <1>7 DEF Ran
  <2>2. ASSUME NEW k \in 0..n, k # 0 PROVE f[k] = StyleStep(f[k - 1], text[k])
    <3>1. k \in 1..n /\ k - 1 \in 0..n BY <1>1, <2>2
    <3>2. f[k] = step[k][f[k - 1]] /\ f[k - 1] \in X BY <1>7, <3>1 DEF Ran
    <3> QED BY <3>1, <3>2 DEF step
  <2> QED BY <2>1, <2>2
<1>9. Is(kept) BY <1>8
<1> HIDE DEF kept
<1> DEFINE S == {k \in 0..n : kept[k] \in X}
<1>10. 0 \in S BY <1>1, <1>4, <1>9
<1>11. \A k \in 1..n : k - 1 \in S => k \in S
  <2>1. \A k \in 1..n : k \in 0..n /\ k # 0 BY <1>1
  <2> QED BY <1>2, <1>9, <2>1
<1> HIDE DEF S
<1>12. 0..n \subseteq S BY <1>1, <1>10, <1>11, LoopKeeps
<1>13. n \in S BY <1>1, <1>12
<1> QED BY <1>3, <1>5, <1>13 DEF S

\* What cleaning may make of a line: a layout tag outside code becomes a gap.
Cleaned(text, i, line) ==
    \/ line = text[i]
    \/ /\ Fences(text)[i - 1] = NoFence /\ text[i].is # "fence"
       /\ line = [text[i] EXCEPT !.is = "blank"]

\* Each line is kept, or is a tag.
LEMMA PresentationIs ==
    ASSUME NEW text \in Seq(TextLines)
    PROVE  LET out == StripPresentationJsx(text)
           IN  /\ out \in Seq(TextLines) /\ Len(out) = Len(text)
               /\ \A i \in 1..Len(text) : Cleaned(text, i, out[i])
<1> DEFINE n == Len(text)  Tags == Seq(BOOLEAN)
           X == [out : Seq(TextLines), stack : Tags]
           v == [out |-> <<>>, stack |-> <<>>]
           Outside(i) == Fences(text)[i - 1] = NoFence /\ text[i].is # "fence"
           Stepped(w, i) == IF Outside(i) THEN TagStep(w, text[i])
                         ELSE [w EXCEPT !.out = Append(@, text[i])]
           step == [k \in 1..n |-> [w \in X |-> Stepped(w, k)]]
           Is(f) == f = [k \in 0..n |-> IF k = 0 THEN v ELSE Stepped(f[k - 1], k)]
           stripped == CHOOSE f : Is(f)
<1>1. n \in Nat /\ \A k \in 1..n : text[k] \in TextLines OBVIOUS
<1>2. ASSUME NEW k \in 1..n, NEW w \in X
      PROVE  Stepped(w, k) \in X /\ \E l \in TextLines : Stepped(w, k).out = Append(w.out, l) /\ Cleaned(text, k, l)
  <2> DEFINE l == text[k]  b == [l EXCEPT !.is = "blank"]
  <2>1. l \in TextLines BY <1>1
  <2> HIDE DEF l
  <2>2. b \in TextLines BY <2>1 DEF TextLines, LineKinds
  <2>3. l.info \in BOOLEAN BY <2>1 DEF TextLines
  <2>4. w.out \in Seq(TextLines) /\ w.stack \in Tags OBVIOUS
  <2>5. w.stack # <<>> => Front(w.stack) \in Tags BY <2>4 DEF Front
  <2>6. Append(w.stack, ~l.info) \in Tags BY <2>3, <2>4
  <2> HIDE DEF Tags, b
  <2>7. Append(w.out, l) \in Seq(TextLines) /\ Append(w.out, b) \in Seq(TextLines) BY <2>1, <2>2, <2>4
  <2>8. /\ TagStep(w, l) \in X
        /\ TagStep(w, l).out = Append(w.out, l) \/ TagStep(w, l).out = Append(w.out, b)
    BY <2>4, <2>5, <2>6, <2>7 DEF TagStep, b
  <2>9. CASE Outside(k)
    <3>1. Stepped(w, k) = TagStep(w, l) BY <2>9 DEF l
    <3>2. Cleaned(text, k, l) /\ Cleaned(text, k, b) BY <2>9 DEF Cleaned, l, b
    <3> HIDE DEF Stepped
    <3> QED BY <2>1, <2>2, <2>8, <3>1, <3>2
  <2>10. CASE ~Outside(k)
    <3>1. Stepped(w, k) = [w EXCEPT !.out = Append(w.out, l)] BY <2>10 DEF l
    <3>2. Cleaned(text, k, l) BY DEF Cleaned, l
    <3> HIDE DEF Stepped
    <3>3. Stepped(w, k) \in X /\ Stepped(w, k).out = Append(w.out, l) BY <2>7, <3>1
    <3> QED BY <2>1, <3>2, <3>3
  <2> QED BY <2>9, <2>10
<1>3. StripPresentationJsx(text) = stripped[n].out BY DEF StripPresentationJsx
<1>4. v \in X /\ v.out = <<>> OBVIOUS
<1>5. \A w \in X : w.out \in Seq(TextLines) OBVIOUS
<1> HIDE DEF n, X, v, Stepped
<1>6. \E f : Ran(f, n, X, v, step)
  <2>1. step \in [1..n -> [X -> X]] BY <1>2
  <2> HIDE DEF step
  <2> QED BY <1>1, <1>4, <2>1, LoopRuns
<1>7. PICK f : Ran(f, n, X, v, step) BY <1>6
<1>8. Is(f)
  <2>1. f \in [0..n -> X] /\ f[0] = v BY <1>7 DEF Ran
  <2>2. ASSUME NEW k \in 0..n, k # 0 PROVE f[k] = Stepped(f[k - 1], k)
    <3>1. k \in 1..n /\ k - 1 \in 0..n BY <1>1, <2>2
    <3>2. f[k] = step[k][f[k - 1]] /\ f[k - 1] \in X BY <1>7, <3>1 DEF Ran
    <3> QED BY <3>1, <3>2 DEF step
  <2> QED BY <2>1, <2>2
<1>9. Is(stripped) BY <1>8
<1> HIDE DEF stripped
<1> DEFINE Keeps(w, k) == w \in X /\ Len(w.out) = k /\ \A i \in 1..k : Cleaned(text, i, w.out[i])
           S == {k \in 0..n : Keeps(stripped[k], k)}
<1>10. 0 \in S
  <2>1. stripped[0] = v BY <1>1, <1>9
  <2> QED BY <1>1, <1>4, <2>1
<1>11. ASSUME NEW k \in 1..n, k - 1 \in S PROVE k \in S
  <2> DEFINE w == stripped[k - 1]  u == stripped[k]
  <2>1. k \in 0..n /\ k # 0 BY <1>1
  <2>2. u = Stepped(w, k) /\ Keeps(w, k - 1) BY <1>9, <1>11, <2>1
  <2> HIDE DEF w, u
  <2>3. u \in X BY <1>2, <2>2
  <2>4. PICK l \in TextLines : u.out = Append(w.out, l) /\ Cleaned(text, k, l) BY <1>2, <2>2
  <2>5. /\ Len(u.out) = k /\ u.out[k] = l /\ \A i \in 1..k - 1 : u.out[i] = w.out[i]
    <3>1. w.out \in Seq(TextLines) /\ Len(w.out) = k - 1 BY <1>5, <2>2
    <3> QED BY <2>1, <2>4, <3>1
  <2>6. \A i \in 1..k : i \in 1..k - 1 \/ i = k BY <1>1
  <2>7. Keeps(u, k) BY <2>2, <2>3, <2>4, <2>5, <2>6
  <2> QED BY <2>1, <2>7 DEF u
<1> HIDE DEF S
<1>12. 0..n \subseteq S BY <1>1, <1>10, <1>11, LoopKeeps
<1>13. n \in S BY <1>1, <1>12
<1>14. Keeps(stripped[n], n) BY <1>13 DEF S
<1> QED BY <1>3, <1>5, <1>14 DEF n

\* Cleaning leaves code as it is.
LEMMA CleanIs ==
    ASSUME NEW text \in Seq(TextLines)
    PROVE  /\ CleanBody(text) \in Seq(TextLines)
           /\ Code(CleanBody(text)) = Code(StripStyleBlocks(text))
<1> DEFINE s == StripStyleBlocks(text)  t == CleanBody(text)  n == Len(s)
           E == Fences(s)  F == Fences(t)
<1>1. s \in Seq(TextLines) BY StyleIs
<1>2. t = StripPresentationJsx(s) BY DEF CleanBody
<1> HIDE DEF s, t
<1>3. /\ t \in Seq(TextLines) /\ Len(t) = n
      /\ \A i \in 1..n : Cleaned(s, i, t[i])
  BY <1>1, <1>2, PresentationIs
<1>4. n \in Nat /\ \A i \in 1..n : s[i] \in TextLines BY <1>1
<1>5. E[0] = NoFence /\ \A k \in 1..n : E[k] = FenceStep(s[k], E[k - 1])
  BY <1>1, FencesAre
<1>6. F[0] = NoFence /\ \A k \in 1..n : F[k] = FenceStep(t[k], F[k - 1])
  BY <1>3, FencesAre
<1> HIDE DEF n
<1>7. \A i \in 1..n : \A f : FenceStep(t[i], f) = FenceStep(s[i], f)
  <2> SUFFICES ASSUME NEW i \in 1..n, NEW f PROVE FenceStep(t[i], f) = FenceStep(s[i], f) OBVIOUS
  <2>1. CASE t[i] = s[i] BY <2>1
  <2>2. CASE s[i].is # "fence" /\ t[i] = [s[i] EXCEPT !.is = "blank"]
    <3>1. t[i].is = "blank" BY <1>4, <2>2 DEF TextLines
    <3> QED BY <2>2, <3>1 DEF FenceStep
  <2> QED BY <1>3, <2>1, <2>2 DEF Cleaned
<1> DEFINE S == {k \in 0..n : F[k] = E[k]}
<1>8. 0 \in S BY <1>4, <1>5, <1>6
<1>9. \A k \in 1..n : k - 1 \in S => k \in S
  <2>1. \A k \in 1..n : k \in 0..n BY <1>4
  <2> QED BY <1>5, <1>6, <1>7, <2>1
<1> HIDE DEF S
<1>10. 0..n \subseteq S BY <1>4, <1>8, <1>9, LoopKeeps
<1>11. \A k \in 1..n : F[k - 1] = E[k - 1]
  <2>1. \A k \in 1..n : k - 1 \in 0..n BY <1>4
  <2> QED BY <1>10, <2>1 DEF S
<1>12. \A k \in 1..n : E[k - 1] # NoFence => t[k] = s[k] BY <1>3 DEF Cleaned, E
<1> HIDE DEF E, F
<1>13. Code(t) = {<<k, t[k]>> : k \in {i \in 1..n : F[i - 1] # NoFence}}
  BY <1>3 DEF Code, InCode, F
<1>14. Code(s) = {<<k, s[k]>> : k \in {i \in 1..n : E[i - 1] # NoFence}}
  BY DEF Code, InCode, E, n
<1>15. Code(t) = Code(s) BY <1>11, <1>12, <1>13, <1>14
<1> QED BY <1>3, <1>15 DEF s, t

\* The titles that a text has, and the paths they make.
TitlesOf(text) == [1..4 -> {text[i].title : i \in 1..Len(text)} \cup {""}]
PathsOf(text) == {HeadingPath(t) : t \in TitlesOf(text)}

\* The titles in force change where a heading is, as they do when it is read.
LEMMA TitlesGoOn ==
    ASSUME NEW text \in Seq(TextLines)
    PROVE  /\ TitlesAt(text, 0) = [l \in 1..4 |-> ""]
           /\ \A i \in 0..Len(text) : TitlesAt(text, i) \in TitlesOf(text)
           /\ \A i \in 1..Len(text) :
                TitlesAt(text, i) = IF IsHeading(text, i) THEN Titles(TitlesAt(text, i - 1), text[i])
                                    ELSE TitlesAt(text, i - 1)
<1> DEFINE n == Len(text)
           H(m) == {j \in 1..m : IsHeading(text, j)}
           InForce(m, l) == {j \in H(m) : text[j].level = l /\ \A k \in H(m) : k > j => text[k].level > l}
           Title(m, l) == IF InForce(m, l) = {} THEN "" ELSE text[CHOOSE j \in InForce(m, l) : TRUE].title
<1>1. n \in Nat /\ \A i \in 1..n : text[i].level \in Int
  <2>1. \A i \in 1..n : text[i] \in TextLines OBVIOUS
  <2> QED BY <2>1 DEF TextLines
<1>2. \A m : TitlesAt(text, m) = [l \in 1..4 |-> Title(m, l)] BY DEF TitlesAt
<1> HIDE DEF n
<1>3. \A l : Title(0, l) = ""
  <2>1. H(0) = {} OBVIOUS
  <2> QED BY <2>1
<1>4. ASSUME NEW i \in 0..n PROVE TitlesAt(text, i) \in TitlesOf(text)
  <2>1. ASSUME NEW l \in 1..4 PROVE Title(i, l) \in {text[j].title : j \in 1..n} \cup {""}
    <3>1. CASE InForce(i, l) = {} BY <3>1
    <3>2. CASE InForce(i, l) # {}
      <4>1. InForce(i, l) \subseteq 1..n BY <1>1
      <4> HIDE DEF InForce
      <4>2. (CHOOSE j \in InForce(i, l) : TRUE) \in InForce(i, l) BY <3>2
      <4> QED BY <3>2, <4>1, <4>2
    <3> QED BY <3>1, <3>2
  <2> HIDE DEF Title
  <2> QED BY <1>2, <2>1 DEF TitlesOf, n
<1>5. ASSUME NEW i \in 1..n, ~IsHeading(text, i) PROVE TitlesAt(text, i) = TitlesAt(text, i - 1)
  <2>1. \A j \in 1..i : j \in 1..(i - 1) \/ j = i BY <1>1
  <2>2. \A j \in 1..(i - 1) : j \in 1..i BY <1>1
  <2>3. H(i) = H(i - 1) BY <1>5, <2>1, <2>2
  <2> HIDE DEF H
  <2>4. \A l : Title(i, l) = Title(i - 1, l) BY <2>3
  <2> HIDE DEF Title
  <2> QED BY <1>2, <2>4
<1>6. ASSUME NEW i \in 1..n, IsHeading(text, i)
      PROVE  TitlesAt(text, i) = Titles(TitlesAt(text, i - 1), text[i])
  <2> DEFINE v == text[i].level
  <2>1. H(i) = H(i - 1) \cup {i} /\ \A j \in H(i - 1) : j < i /\ j \in 1..n /\ text[j].level \in Int
    <3>1. \A j \in 1..i : j \in 1..(i - 1) \/ j = i BY <1>1
    <3>2. \A j \in 1..(i - 1) : j \in 1..i /\ j < i /\ j \in 1..n BY <1>1
    <3>3. i \in 1..i BY <1>1
    <3> QED BY <1>1, <1>6, <3>1, <3>2, <3>3
  <2>2. v \in Int /\ i \in Int BY <1>1
  <2> HIDE DEF H
  <2>3. ASSUME NEW l \in 1..4
        PROVE  Title(i, l) = IF l = v THEN text[i].title ELSE IF l > v THEN "" ELSE Title(i - 1, l)
    <3>1. CASE l = v
      <4>1. InForce(i, l) = {i}
        <5>1. i \in InForce(i, l) BY <2>1, <2>2, <3>1
        <5>2. \A j \in H(i - 1) : j \notin InForce(i, l) BY <2>1, <2>2, <3>1
        <5> QED BY <2>1, <5>1, <5>2
      <4> HIDE DEF InForce
      <4>2. (CHOOSE j \in InForce(i, l) : TRUE) = i BY <4>1
      <4> QED BY <3>1, <4>1, <4>2
    <3>2. CASE l > v
      <4>1. InForce(i, l) = {}
        <5>1. i \notin InForce(i, l) BY <2>2, <3>2
        <5>2. \A j \in H(i - 1) : j \notin InForce(i, l) BY <2>1, <2>2, <3>2
        <5> QED BY <2>1, <5>1, <5>2
      <4>2. Title(i, l) = "" BY <4>1
      <4>3. l # v BY <2>2, <3>2
      <4> HIDE DEF Title, v
      <4> QED BY <3>2, <4>2, <4>3
    <3>3. CASE l < v
      <4>1. InForce(i, l) = InForce(i - 1, l)
        <5>1. i \notin InForce(i, l) BY <2>2, <3>3
        <5>2. \A j \in H(i - 1) : j \in InForce(i, l) <=> j \in InForce(i - 1, l) BY <2>1, <2>2, <3>3
        <5> QED BY <2>1, <5>1, <5>2
      <4>2. Title(i, l) = Title(i - 1, l)
        <5> HIDE DEF InForce
        <5> QED BY <4>1
      <4>3. l # v /\ ~(l > v) BY <2>2, <3>3
      <4> HIDE DEF Title, v
      <4> QED BY <4>2, <4>3
    <3>4. l = v \/ l > v \/ l < v BY <2>2
    <3> HIDE DEF Title, v
    <3> QED BY <3>1, <3>2, <3>3, <3>4
  <2> HIDE DEF Title
  <2>4. \A l \in 1..4 : TitlesAt(text, i - 1)[l] = Title(i - 1, l) BY <1>2
  <2>5. TitlesAt(text, i) = [l \in 1..4 |-> Title(i, l)] BY <1>2
  <2>6. TitlesAt(text, i)
          = [l \in 1..4 |-> IF l = v THEN text[i].title ELSE IF l > v THEN ""
                            ELSE TitlesAt(text, i - 1)[l]]
    BY <2>3, <2>4, <2>5
  <2> QED BY <2>6 DEF Titles
<1>7. TitlesAt(text, 0) = [l \in 1..4 |-> ""]
  <2> HIDE DEF Title
  <2>1. TitlesAt(text, 0) = [l \in 1..4 |-> Title(0, l)] BY <1>2
  <2>2. \A l \in 1..4 : Title(0, l) = "" BY <1>3
  <2> QED BY <2>1, <2>2
<1> QED BY <1>4, <1>5, <1>6, <1>7 DEF n

-----------------------------------------------------------------------------
SegsOf(text) == [path : PathsOf(text), lines : Seq(1..Len(text))]

\* A section: its lines have its path, and it ends outside code; all but the
\* first begin with their heading.
IsSeg(text, a, b, seg) ==
    /\ a < b /\ b <= Len(text) /\ seg.lines = LinesFrom(a, b)
    /\ \A j \in a + 1..b : PathAt(text, j) = seg.path
    /\ a > 0 => ~IsGap(text, a + 1)
    /\ b = Len(text) \/ Fences(text)[b] = NoFence
SegSet(text) == {t \in Nat \X Nat \X SegsOf(text) : IsSeg(text, t[1], t[2], t[3])}

\* A text is read into sections, one after the other, all of it.
LEMMA SegmentsAre ==
    ASSUME NEW text \in Seq(TextLines)
    PROVE  /\ SegmentText(text) \in Seq(SegsOf(text))
           /\ Laid(SegmentText(text), SegSet(text), 0, Len(text))
<1> DEFINE n == Len(text)  L == 1..n  Y == SegsOf(text)  T == SegSet(text)  Q == TitlesOf(text)
           X == [segs : Seq(Y), titles : Q, buf : Seq(L)]
           v == [segs |-> <<>>, titles |-> [l \in 1..4 |-> ""], buf |-> <<>>]
           step == [k \in 1..n |-> [w \in X |-> SegmentStep(text, w, k)]]
           Is(f) == f = [k \in 0..n |-> IF k = 0 THEN v ELSE SegmentStep(text, f[k - 1], k)]
           read == CHOOSE f : Is(f)
           Seg(w) == [path |-> HeadingPath(w.titles), lines |-> w.buf]
<1>1. n \in Nat /\ \A k \in 1..n : text[k] \in TextLines OBVIOUS
<1>2. SegmentText(text) = Flush(read[n]) BY DEF SegmentText
<1>3. ASSUME NEW w \in X
      PROVE  /\ w.segs \in Seq(Y) /\ w.titles \in Q /\ w.buf \in Seq(L) /\ Seg(w) \in Y
             /\ Flush(w) \in Seq(Y)
             /\ Flush(w) = IF w.buf = <<>> THEN w.segs ELSE Append(w.segs, Seg(w))
  <2>1. w.segs \in Seq(Y) /\ w.titles \in Q /\ w.buf \in Seq(L) OBVIOUS
  <2>2. HeadingPath(w.titles) \in PathsOf(text) BY <2>1 DEF PathsOf
  <2>3. Seg(w) \in Y BY <2>1, <2>2 DEF SegsOf
  <2>4. Flush(w) = IF w.buf = <<>> THEN w.segs ELSE Append(w.segs, Seg(w)) BY DEF Flush
  <2> HIDE DEF Y, Seg, L, Q
  <2> QED BY <2>1, <2>3, <2>4
<1>4. /\ TitlesAt(text, 0) = [l \in 1..4 |-> ""] /\ TitlesAt(text, 0) \in Q
      /\ \A i \in 1..n :
           TitlesAt(text, i) = IF IsHeading(text, i) THEN Titles(TitlesAt(text, i - 1), text[i])
                               ELSE TitlesAt(text, i - 1)
  <2>1. 0 \in 0..n BY <1>1
  <2> QED BY <2>1, TitlesGoOn
<1>5. ASSUME NEW k \in 1..n, NEW w \in X PROVE SegmentStep(text, w, k) \in X
  <2>1. Titles(w.titles, text[k]) \in Q
    <3>1. w.titles \in Q BY <1>3
    <3>2. text[k].title \in {text[i].title : i \in 1..n} OBVIOUS
    <3> QED BY <3>1, <3>2 DEF Titles, TitlesOf
  <2>2. w.segs \in Seq(Y) /\ w.titles \in Q /\ w.buf \in Seq(L) /\ Flush(w) \in Seq(Y) BY <1>3
  <2>3. k \in L OBVIOUS
  <2> HIDE DEF Y, L, Q
  <2>4. Append(w.buf, k) \in Seq(L) /\ <<k>> \in Seq(L) BY <2>2, <2>3
  <2> QED BY <2>1, <2>2, <2>4 DEF SegmentStep
<1>6. v \in X
  <2> DEFINE none == [l \in 1..4 |-> ""]
  <2>1. none \in Q BY <1>4
  <2>2. v = [segs |-> <<>>, titles |-> none, buf |-> <<>>] OBVIOUS
  <2> HIDE DEF Q, Y, L, none, v
  <2>3. <<>> \in Seq(Y) /\ <<>> \in Seq(L) OBVIOUS
  <2> QED BY <2>1, <2>2, <2>3
<1> DEFINE Keeps(w, i, e) ==
             /\ w \in X /\ Laid(w.segs, T, 0, e) /\ w.buf = LinesFrom(e, i)
             /\ w.titles = TitlesAt(text, i)
             /\ \A j \in e + 1..i : PathAt(text, j) = HeadingPath(w.titles)
             /\ e > 0 => e < i /\ ~IsGap(text, e + 1)
<1>7. v.segs = <<>> /\ v.buf = <<>> /\ v.titles = TitlesAt(text, 0) BY <1>4
<1> HIDE DEF n, v, Seg
<1>8. \E f : Ran(f, n, X, v, step)
  <2> HIDE DEF X
  <2>1. step \in [1..n -> [X -> X]] BY <1>5
  <2> HIDE DEF step
  <2> QED BY <1>1, <1>6, <2>1, LoopRuns
<1>9. PICK f : Ran(f, n, X, v, step) BY <1>8
<1>10. Is(f)
  <2> HIDE DEF X
  <2>1. f \in [0..n -> X] /\ f[0] = v BY <1>9 DEF Ran
  <2>2. ASSUME NEW k \in 0..n, k # 0 PROVE f[k] = SegmentStep(text, f[k - 1], k)
    <3>1. k \in 1..n /\ k - 1 \in 0..n BY <1>1, <2>2
    <3>2. f[k] = step[k][f[k - 1]] /\ f[k - 1] \in X BY <1>9, <3>1 DEF Ran
    <3> QED BY <3>1, <3>2 DEF step
  <2> QED BY <2>1, <2>2
<1>11. Is(read) BY <1>10
<1> HIDE DEF read, Y, Q, T
<1> DEFINE S == {k \in 0..n : \E e \in 0..k : Keeps(read[k], k, e)}
<1>12. 0 \in S
  <2>1. read[0] = v BY <1>1, <1>11
  <2>2. Laid(<<>>, T, 0, 0) BY LaidNone
  <2>3. LinesFrom(0, 0) = <<>>
    <3>1. LinesFrom(0, 0) \in Seq(1..0) /\ Len(LinesFrom(0, 0)) = 0 - 0
      <4>1. 0 \in Nat /\ 0 <= 0 OBVIOUS
      <4>2. LinesFrom(0, 0) \in Seq(1..0) BY <4>1, LinesAre
      <4>3. Len(LinesFrom(0, 0)) = 0 - 0 BY <4>1, LinesAre
      <4> QED BY <4>2, <4>3
    <3> QED BY <3>1
  <2>4. Keeps(v, 0, 0)
    <3>1. 0 + 1..0 = {} OBVIOUS
    <3> HIDE DEF X
    <3> QED BY <1>6, <1>7, <2>2, <2>3, <3>1
  <2>5. 0 \in 0..0 /\ 0 \in 0..n BY <1>1
  <2> HIDE DEF Keeps
  <2> QED BY <2>1, <2>4, <2>5
\* What has been read up to a line is a section, when it ends there.
<1>13. ASSUME NEW i \in 0..n, NEW e \in 0..i, NEW w, Keeps(w, i, e),
              i = n \/ Fences(text)[i] = NoFence
       PROVE  /\ w.buf = <<>> <=> e = i
              /\ Laid(Flush(w), T, 0, i) /\ (e = i => i = 0)
  <2>1. e \in Nat /\ i \in Nat /\ e <= i /\ i <= n BY <1>1, <1>13
  <2>2. w.buf = <<>> <=> e = i
    <3>1. Len(LinesFrom(e, i)) = i - e BY <1>1, <2>1, LinesAre
    <3>2. LinesFrom(e, i) \in Seq(1..n) BY <1>1, <2>1, LinesAre
    <3>3. LinesFrom(e, i) = <<>> <=> i - e = 0 BY <3>1, <3>2
    <3> QED BY <1>13, <2>1, <3>3
  <2>3. w \in X /\ Laid(w.segs, T, 0, e) BY <1>13
  <2>4. CASE e = i
    <3>1. Flush(w) = w.segs BY <1>3, <2>2, <2>3, <2>4
    <3>2. i = 0 BY <1>13, <2>1, <2>4
    <3> QED BY <2>2, <2>3, <2>4, <3>1, <3>2
  <2>5. CASE e # i
    <3>1. Flush(w) = Append(w.segs, Seg(w)) /\ Seg(w) \in Y /\ w.segs \in Seq(Y)
      <4> HIDE DEF X
      <4> QED BY <1>3, <2>2, <2>3, <2>5
    <3>2. Seg(w).lines = LinesFrom(e, i) /\ Seg(w).path = HeadingPath(w.titles) BY <1>13 DEF Seg
    <3>3. IsSeg(text, e, i, Seg(w))
      <4>1. e < i BY <2>1, <2>5
      <4>2. \A j \in e + 1..i : PathAt(text, j) = Seg(w).path BY <1>13, <3>2
      <4>3. e > 0 => ~IsGap(text, e + 1) BY <1>13
      <4>4. i <= n BY <2>1
      <4> HIDE DEF Keeps
      <4> QED BY <1>13, <3>2, <4>1, <4>2, <4>3, <4>4 DEF IsSeg, n
    <3>4. <<e, i, Seg(w)>> \in T BY <2>1, <3>1, <3>3 DEF T, SegSet, Y
    <3>5. Laid(Flush(w), T, 0, i) BY <2>1, <2>3, <3>1, <3>4, LaidMore
    <3> QED BY <2>2, <2>5, <3>5
  <2> QED BY <2>4, <2>5
<1>14. ASSUME NEW i \in 1..n, i - 1 \in S PROVE i \in S
  <2> DEFINE w == read[i - 1]  u == read[i]  m == i - 1
  <2>1. /\ i \in 0..n /\ i # 0 /\ m \in 0..n /\ m \in Nat /\ i \in Nat /\ m + 1 = i /\ m < i
        /\ m # n
    BY <1>1
  <2>2. PICK e \in 0..m : Keeps(w, m, e) BY <1>14
  <2>3. u = SegmentStep(text, w, i) BY <1>11, <2>1
  <2> HIDE DEF w, u
  <2>4. w \in X BY <2>2
  <2>5. u \in X
    <3> HIDE DEF X
    <3> QED BY <1>5, <2>3, <2>4
  <2>6. CASE IsHeading(text, i)
    <3>1. u = [segs |-> Flush(w), titles |-> Titles(w.titles, text[i]), buf |-> <<i>>]
      BY <2>3, <2>6 DEF SegmentStep
    <3>2. Fences(text)[m] = NoFence /\ ~IsGap(text, i) BY <2>6 DEF IsHeading, IsGap
    <3>3. Laid(Flush(w), T, 0, m)
      <4> HIDE DEF Keeps, m
      <4> QED BY <1>13, <2>1, <2>2, <3>2
    <3>4. <<i>> = LinesFrom(m, i)
      <4>1. m <= m BY <2>1
      <4> HIDE DEF m
      <4>2. <<m + 1>> = LinesFrom(m, m + 1) BY <2>1, <4>1, LinesGrow
      <4> QED BY <2>1, <4>2
    <3>5. u.titles = TitlesAt(text, i)
      <4>1. w.titles = TitlesAt(text, m) BY <2>2
      <4>2. TitlesAt(text, i) = Titles(TitlesAt(text, m), text[i]) BY <1>4, <2>6
      <4> QED BY <3>1, <4>1, <4>2
    <3>6. \A j \in m + 1..i : PathAt(text, j) = HeadingPath(u.titles)
      <4>1. \A j \in m + 1..i : j = i BY <2>1
      <4> QED BY <3>5, <4>1 DEF PathAt
    <3>7. u.segs = Flush(w) /\ u.buf = LinesFrom(m, i) BY <3>1, <3>4
    <3>8. m > 0 => m < i /\ ~IsGap(text, m + 1) BY <2>1, <3>2
    <3>9. Keeps(u, i, m)
      <4> HIDE DEF X, m
      <4> QED BY <2>5, <3>3, <3>5, <3>6, <3>7, <3>8
    <3>10. m \in 0..i BY <2>1
    <3> HIDE DEF Keeps, m
    <3> QED BY <2>1, <3>9, <3>10 DEF u
  <2>7. CASE ~IsHeading(text, i)
    <3>1. u = [w EXCEPT !.buf = Append(w.buf, i)] BY <2>3, <2>7 DEF SegmentStep
    <3>2. u.segs = w.segs /\ u.titles = w.titles /\ u.buf = Append(w.buf, i)
      BY <2>4, <3>1
    <3>3. Append(LinesFrom(e, m), i) = LinesFrom(e, i)
      <4>1. e \in Nat /\ e <= m BY <2>1
      <4> HIDE DEF m
      <4>2. Append(LinesFrom(e, m), m + 1) = LinesFrom(e, m + 1) BY <2>1, <4>1, LinesGrow
      <4> QED BY <2>1, <4>2
    <3>4. TitlesAt(text, i) = TitlesAt(text, m) BY <1>4, <2>7
    <3>5. \A j \in e + 1..i : PathAt(text, j) = HeadingPath(u.titles)
      <4>1. \A j \in e + 1..i : j \in e + 1..m \/ j = i BY <2>1
      <4>2. \A j \in e + 1..m : PathAt(text, j) = HeadingPath(w.titles) BY <2>2
      <4>3. PathAt(text, i) = HeadingPath(u.titles) BY <2>2, <3>2, <3>4 DEF PathAt
      <4> QED BY <3>2, <4>1, <4>2, <4>3
    <3>6. e > 0 => e < i /\ ~IsGap(text, e + 1)
      <4>1. e \in Nat BY <2>1
      <4> QED BY <2>1, <2>2, <4>1
    <3>7. u.buf = LinesFrom(e, i) /\ u.titles = TitlesAt(text, i) /\ Laid(u.segs, T, 0, e)
      BY <2>2, <3>2, <3>3, <3>4
    <3>8. Keeps(u, i, e)
      <4> HIDE DEF X
      <4> QED BY <2>5, <3>5, <3>6, <3>7
    <3>9. e \in 0..i BY <2>1
    <3> HIDE DEF Keeps
    <3> QED BY <2>1, <3>8, <3>9 DEF u
  <2> QED BY <2>6, <2>7
<1> HIDE DEF S
<1>15. 0..n \subseteq S BY <1>1, <1>12, <1>14, LoopKeeps
<1>16. n \in S /\ n \in 0..n BY <1>1, <1>15
<1>17. PICK e \in 0..n : Keeps(read[n], n, e) BY <1>16 DEF S
<1>18. Laid(Flush(read[n]), T, 0, n)
  <2> HIDE DEF Keeps
  <2> QED BY <1>13, <1>16, <1>17
<1>19. read[n] \in X BY <1>17
<1>20. Flush(read[n]) \in Seq(Y)
  <2> HIDE DEF X
  <2> QED BY <1>3, <1>19
<1> QED BY <1>2, <1>18, <1>20 DEF n, Y, T

\* The last of a sequence is what was appended, and may be put in its place.
LEMMA LastIs ==
    ASSUME NEW Y, NEW done \in Seq(Y), NEW p \in Y, NEW q \in Y
    PROVE  LET s == Append(done, p)
           IN  s # <<>> /\ Last(s) = p /\ [s EXCEPT ![Len(s)] = q] = Append(done, q)
<1> DEFINE n == Len(done)  s == Append(done, p)  t == Append(done, q)
           u == [s EXCEPT ![Len(s)] = q]
<1>1. /\ n \in Nat /\ s \in Seq(Y) /\ Len(s) = n + 1 /\ DOMAIN s = 1..(n + 1) /\ s[n + 1] = p
      /\ \A k \in 1..n : s[k] = done[k]
  OBVIOUS
<1>2. /\ t \in Seq(Y) /\ Len(t) = n + 1 /\ DOMAIN t = 1..(n + 1) /\ t[n + 1] = q
      /\ \A k \in 1..n : t[k] = done[k]
  OBVIOUS
<1>3. u \in Seq(Y) /\ Len(u) = Len(s)
  <2>1. Len(s) \in 1..Len(s) BY <1>1
  <2> HIDE DEF s
  <2> QED BY <1>1, <2>1, ExceptSeq
<1>4. \A k \in 1..(n + 1) : u[k] = IF k = n + 1 THEN q ELSE s[k]
  <2> HIDE DEF s, n
  <2> QED BY <1>1
<1> HIDE DEF u, t, s, n
<1>5. \A k \in 1..(n + 1) : u[k] = t[k]
  <2>1. \A k \in 1..(n + 1) : k \in 1..n \/ k = n + 1 BY <1>1
  <2> QED BY <1>1, <1>2, <1>4, <2>1
<1>6. u = t BY <1>1, <1>2, <1>3, <1>5, SeqEqual
<1>7. s # <<>> /\ Last(s) = p BY <1>1 DEF Last
<1> QED BY <1>6, <1>7 DEF u, t, s

-----------------------------------------------------------------------------
\* A run of gaps, or of lines that are none, as long as it is from a on.
Alike(text, x, y) == \A i, j \in x + 1..y : IsGap(text, i) <=> IsGap(text, j)
IsPart(text, a, x, y, part) ==
    /\ x < y /\ y <= Len(text) /\ part = LinesFrom(x, y) /\ Alike(text, x, y)
    /\ x > a => ~(IsGap(text, x) <=> IsGap(text, x + 1))
PartSet(text, a) ==
    {t \in Nat \X Nat \X Seq(1..Len(text)) : IsPart(text, a, t[1], t[2], t[3])}

\* Lines are parted into runs, one after the other, all of them.
LEMMA PartsAre ==
    ASSUME NEW text \in Seq(TextLines), NEW a \in Nat, NEW b \in Nat, a < b, b <= Len(text)
    PROVE  LET parts == Parts(text, LinesFrom(a, b))
           IN  parts \in Seq(Seq(1..Len(text))) /\ Laid(parts, PartSet(text, a), a, b)
<1> DEFINE n == Len(text)  L == 1..n  Y == Seq(L)  X == Seq(Y)  T == PartSet(text, a)
           lines == LinesFrom(a, b)  m == b - a
           step == [k \in 1..m |-> [w \in X |-> PartStep(text, w, lines[k])]]
           Is(f) == f = [k \in 0..m |-> IF k = 0 THEN <<>> ELSE PartStep(text, f[k - 1], lines[k])]
           cut == CHOOSE f : Is(f)
<1>1. n \in Nat /\ m \in Nat /\ m >= 1 /\ a + m = b OBVIOUS
<1>2. Len(lines) = m /\ \A k \in 1..m : lines[k] = a + k /\ a + k \in L
  <2>1. a <= b OBVIOUS
  <2>2. Len(lines) = b - a BY <1>1, <2>1, LinesAre
  <2>3. \A k \in 1..b - a : lines[k] = a + k /\ a + k \in 1..n BY <1>1, <2>1, LinesAre
  <2> QED BY <2>2, <2>3
<1>3. Parts(text, lines) = cut[m]
  <2> HIDE DEF lines, m
  <2> QED BY <1>2 DEF Parts
<1>4. ASSUME NEW k \in 1..m, NEW w \in X PROVE PartStep(text, w, lines[k]) \in X
  <2>1. lines[k] \in L BY <1>2
  <2> HIDE DEF L, lines
  <2>2. <<lines[k]>> \in Y /\ \A p \in Y : Append(p, lines[k]) \in Y BY <2>1
  <2> HIDE DEF Y
  <2>3. Append(w, <<lines[k]>>) \in X BY <2>2
  <2>4. w # <<>> => [w EXCEPT ![Len(w)] = Append(Last(w), lines[k])] \in X
    <3> SUFFICES ASSUME w # <<>> PROVE [w EXCEPT ![Len(w)] = Append(Last(w), lines[k])] \in X OBVIOUS
    <3>1. Len(w) \in 1..Len(w) /\ Last(w) \in Y BY DEF Last
    <3>2. Append(Last(w), lines[k]) \in Y BY <2>2, <3>1
    <3> DEFINE q == Append(Last(w), lines[k])
    <3> HIDE DEF q
    <3>3. [w EXCEPT ![Len(w)] = q] \in Seq(Y) BY <3>1, <3>2, ExceptSeq DEF q
    <3> QED BY <3>3 DEF q
  <2> HIDE DEF X
  <2> QED BY <2>3, <2>4 DEF PartStep
<1>5. <<>> \in X OBVIOUS
<1> HIDE DEF X, m, lines, n, T
<1>6. \E f : Ran(f, m, X, <<>>, step)
  <2>1. step \in [1..m -> [X -> X]] BY <1>4
  <2> HIDE DEF step
  <2> QED BY <1>1, <1>5, <2>1, LoopRuns
<1>7. PICK f : Ran(f, m, X, <<>>, step) BY <1>6
<1>8. Is(f)
  <2>1. f \in [0..m -> X] /\ f[0] = <<>> BY <1>7 DEF Ran
  <2>2. ASSUME NEW k \in 0..m, k # 0 PROVE f[k] = PartStep(text, f[k - 1], lines[k])
    <3>1. k \in 1..m /\ k - 1 \in 0..m BY <1>1, <2>2
    <3>2. f[k] = step[k][f[k - 1]] /\ f[k - 1] \in X BY <1>7, <3>1 DEF Ran
    <3> QED BY <3>1, <3>2 DEF step
  <2> QED BY <2>1, <2>2
<1>9. Is(cut) BY <1>8
<1> HIDE DEF cut, Y
\* The parts before the one that goes on, and where that began.
<1> DEFINE Keeps(w, i, done, x) ==
             /\ Laid(done, T, a, x) /\ IsPart(text, a, x, i, LinesFrom(x, i)) /\ LinesFrom(x, i) \in Y
             /\ w = Append(done, LinesFrom(x, i)) /\ w \in X
           S == {k \in 0..m : k >= 1 => \E done \in X, x \in a..(a + k) - 1 : Keeps(cut[k], a + k, done, x)}
<1>10. 0 \in S BY <1>1
<1>11. ASSUME NEW k \in 1..m, k - 1 \in S PROVE k \in S
  <2> DEFINE i == a + k  w == cut[k - 1]  u == cut[k]
  <2>1. /\ k \in 0..m /\ k # 0 /\ k - 1 \in 0..m /\ i \in L /\ lines[k] = i /\ i \in Nat /\ i - 1 \in Nat
        /\ i <= n /\ (i - 1) + 1 = i /\ a + (k - 1) = i - 1 /\ a <= i - 1
    BY <1>1, <1>2
  <2>2. u = PartStep(text, w, i) BY <1>9, <2>1
  <2>3. LinesFrom(i - 1, i) = <<i>>
    <3>1. i - 1 <= i - 1 BY <2>1
    <3> DEFINE j == i - 1
    <3>2. j \in Nat /\ j <= j /\ j + 1 = i BY <2>1, <3>1
    <3> HIDE DEF j, i
    <3>3. <<j + 1>> = LinesFrom(j, j + 1) BY <3>2, LinesGrow
    <3> QED BY <3>2, <3>3 DEF j
  <2>4. <<i>> \in Y BY <2>1 DEF Y
  <2>5. ASSUME NEW done \in X, Laid(done, T, a, i - 1),
               i - 1 > a => ~(IsGap(text, i - 1) <=> IsGap(text, i)), u = Append(done, <<i>>)
        PROVE  \E x \in a..i - 1 : Keeps(u, i, done, x)
    <3>1. Alike(text, i - 1, i)
      <4>1. \A j \in (i - 1) + 1..i : j = i BY <2>1
      <4> QED BY <4>1 DEF Alike
    <3>2. IsPart(text, a, i - 1, i, LinesFrom(i - 1, i))
      <4>1. i - 1 < i BY <2>1
      <4> HIDE DEF i
      <4> QED BY <2>1, <2>5, <3>1, <4>1 DEF IsPart, n
    <3>3. u \in X
      <4> HIDE DEF i, u
      <4> QED BY <2>4, <2>5 DEF X
    <3>4. Keeps(u, i, done, i - 1) BY <2>3, <2>4, <2>5, <3>2, <3>3
    <3>5. i - 1 \in a..i - 1 BY <2>1
    <3> HIDE DEF Keeps, i, u
    <3> QED BY <3>4, <3>5
  <2>6. CASE k = 1
    <3>1. w = <<>> BY <1>1, <1>9, <2>6
    <3>2. u = Append(<<>>, <<i>>) BY <2>2, <3>1 DEF PartStep
    <3>3. i - 1 = a BY <2>1, <2>6
    <3>4. Laid(<<>>, T, a, i - 1) BY <3>3, LaidNone
    <3>5. \E x \in a..i - 1 : Keeps(u, i, <<>>, x)
      <4> HIDE DEF Keeps, u, i
      <4> QED BY <1>5, <2>5, <3>2, <3>3, <3>4
    <3> HIDE DEF Keeps
    <3> QED BY <1>5, <2>1, <3>5
  <2>7. CASE k # 1
    <3>1. k - 1 >= 1 BY <2>1, <2>7
    <3>2. PICK done \in X, x \in a..(i - 1) - 1 : Keeps(w, i - 1, done, x) BY <1>11, <2>1, <3>1
    <3>3. x \in Nat /\ x < i - 1 /\ x <= i - 1 /\ x \in a..i - 1 /\ a <= x BY <2>1, <3>2
    <3> DEFINE p == LinesFrom(x, i - 1)  q == LinesFrom(x, i)
    <3>4. w = Append(done, p) /\ p \in Y /\ Laid(done, T, a, x) /\ IsPart(text, a, x, i - 1, p)
      BY <3>2
    <3>5. Append(p, i) = q
      <4> DEFINE j == i - 1
      <4>1. j \in Nat /\ x <= j /\ j + 1 = i BY <2>1, <3>3
      <4> HIDE DEF j, i
      <4>2. Append(LinesFrom(x, j), j + 1) = LinesFrom(x, j + 1) BY <3>3, <4>1, LinesGrow
      <4> QED BY <4>1, <4>2 DEF j
    <3>6. Last(p) = i - 1
      <4> DEFINE j == i - 1
      <4>1. j \in Nat /\ x <= j /\ j <= j /\ x < j BY <2>1, <3>3
      <4> HIDE DEF j, i
      <4>2. x \in Nat BY <3>3
      <4>3. Len(LinesFrom(x, j)) = j - x BY <4>1, <4>2, LineAt
      <4>4. \A l \in 1..j - x : LinesFrom(x, j)[l] = x + l BY <4>1, <4>2, LineAt
      <4>5. j - x \in 1..j - x /\ x + (j - x) = j BY <4>1, <4>2
      <4>6. LinesFrom(x, j)[j - x] = j BY <4>4, <4>5
      <4>7. Last(LinesFrom(x, j)) = LinesFrom(x, j)[Len(LinesFrom(x, j))] BY DEF Last
      <4>8. Last(LinesFrom(x, j)) = j BY <4>3, <4>6, <4>7
      <4> QED BY <4>8 DEF j
    <3>7. q \in Y
      <4>1. p \in Seq(L) BY <3>4 DEF Y
      <4>2. i \in L BY <2>1
      <4> HIDE DEF p, q, L, i
      <4>3. Append(p, i) \in Seq(L) BY <4>1, <4>2
      <4> QED BY <3>5, <4>3 DEF Y
    <3> HIDE DEF p, w, u
    <3>8. w # <<>> /\ Last(w) = p /\ [w EXCEPT ![Len(w)] = q] = Append(done, q)
      <4> HIDE DEF q
      <4> QED BY <3>4, <3>7, LastIs DEF X
    <3>9. CASE IsGap(text, i - 1) = IsGap(text, i)
      <4>1. u = Append(done, q) BY <2>2, <3>5, <3>6, <3>8, <3>9 DEF PartStep
      <4>2. Alike(text, x, i)
        <5>1. \A j \in x + 1..i : j \in x + 1..i - 1 \/ j = i BY <2>1, <3>3
        <5>2. i - 1 \in x + 1..i - 1 BY <2>1, <3>3
        <5>3. \A j, l \in x + 1..i - 1 : IsGap(text, j) <=> IsGap(text, l) BY <3>4 DEF IsPart, Alike
        <5>4. \A j \in x + 1..i : IsGap(text, j) <=> IsGap(text, i) BY <3>9, <5>1, <5>2, <5>3
        <5> QED BY <5>4 DEF Alike
      <4>3. x < i BY <2>1, <3>3
      <4>4. x > a => ~(IsGap(text, x) <=> IsGap(text, x + 1)) BY <3>4 DEF IsPart
      <4>5. IsPart(text, a, x, i, q)
        <5> HIDE DEF i
        <5> QED BY <2>1, <4>2, <4>3, <4>4 DEF IsPart, n, q
      <4>6. u \in X
        <5> HIDE DEF q
        <5> QED BY <3>7, <4>1 DEF X
      <4>7. Keeps(u, i, done, x) BY <3>4, <3>7, <4>1, <4>5, <4>6
      <4> HIDE DEF Keeps, i
      <4> QED BY <2>1, <3>3, <4>7 DEF u, i
    <3>10. CASE IsGap(text, i - 1) # IsGap(text, i)
      <4>1. u = Append(w, <<i>>) BY <2>2, <3>6, <3>8, <3>10 DEF PartStep
      <4>2. <<x, i - 1, p>> \in T
        <5>1. p \in Seq(1..n) BY <3>4 DEF Y, L
        <5> HIDE DEF i
        <5> QED BY <2>1, <3>3, <3>4, <5>1 DEF T, PartSet, n
      <4>3. Laid(w, T, a, i - 1)
        <5> HIDE DEF i
        <5> QED BY <2>1, <3>3, <3>4, <4>2, LaidMore DEF X
      <4>4. w \in X BY <3>2 DEF w
      <4>5. ~(IsGap(text, i - 1) <=> IsGap(text, i)) BY <3>10 DEF IsGap
      <4>6. \E z \in a..i - 1 : Keeps(u, i, w, z)
        <5> HIDE DEF Keeps, i
        <5> QED BY <2>5, <4>1, <4>3, <4>4, <4>5
      <4> HIDE DEF Keeps
      <4> QED BY <2>1, <4>4, <4>6 DEF u
    <3> QED BY <3>9, <3>10
  <2> QED BY <2>6, <2>7
<1> HIDE DEF S
<1>12. 0..m \subseteq S BY <1>1, <1>10, <1>11, LoopKeeps
<1>13. m \in S BY <1>1, <1>12
<1>14. PICK done \in X, x \in a..b - 1 : Keeps(cut[m], b, done, x) BY <1>1, <1>13 DEF S
<1>15. x \in Nat OBVIOUS
<1> DEFINE p == LinesFrom(x, b)
<1>16. cut[m] = Append(done, p) /\ p \in Y /\ Laid(done, T, a, x) /\ IsPart(text, a, x, b, p)
  BY <1>14
<1> HIDE DEF p
<1>17. <<x, b, p>> \in T BY <1>15, <1>16 DEF T, PartSet, n, Y, L
<1>18. Laid(cut[m], T, a, b) BY <1>15, <1>16, <1>17, LaidMore DEF X
<1>19. cut[m] \in X BY <1>14
<1> QED BY <1>3, <1>18, <1>19 DEF X, Y, L, n, T, lines

\* A piece: within the budget, or of one part, or the budget was left where a
\* gap was inside code, and so was every gap from there on.
Shape(text, at, x, y) ==
    \/ at[y] - at[x] <= MaxChars
    \/ Alike(text, x, y)
    \/ \E w \in x + 1..y :
         /\ IsGap(text, w)
         /\ at[w - 1] - at[x] <= MaxChars \/ \A i \in x + 1..w - 1 : ~IsGap(text, i)
         /\ \A i \in w..y : IsGap(text, i) => InCode(text, i)

\* Gaps one after the other are all inside the same code, or outside.
LEMMA GapsAlike ==
    ASSUME NEW text \in Seq(TextLines), NEW x \in Nat, NEW y \in Nat, y <= Len(text),
           \A k \in x + 1..y : IsGap(text, k)
    PROVE  \A k \in x..y : Fences(text)[k] = Fences(text)[x]
<1> DEFINE n == Len(text)  F == Fences(text)  S == {k \in 0..y : k >= x => F[k] = F[x]}
<1>1. n \in Nat OBVIOUS
<1>2. \A k \in 1..n : IsGap(text, k) => F[k] = F[k - 1] BY GapsKeepFences
<1> HIDE DEF n, F
<1>3. 0 \in S
  <2>1. 0 \in 0..y /\ (0 >= x => 0 = x) OBVIOUS
  <2> QED BY <2>1
<1>4. ASSUME NEW k \in 1..y, k - 1 \in S PROVE k \in S
  <2>1. k \in 0..y /\ (k >= x => k = x \/ (k \in x + 1..y /\ k - 1 >= x /\ k \in 1..n))
    BY <1>1 DEF n
  <2> QED BY <1>2, <1>4, <2>1
<1> HIDE DEF S
<1>5. 0..y \subseteq S BY <1>3, <1>4, LoopKeeps
<1>6. \A k \in x..y : k \in 0..y /\ k >= x OBVIOUS
<1> QED BY <1>5, <1>6 DEF S, F

\* One more part, while code is open.
LEMMA ShapeGrows ==
    ASSUME NEW text \in Seq(TextLines), NEW at, LineEnds(text, at), NEW x \in Nat, NEW i \in Nat,
           NEW j \in Nat, x < i, i < j, j <= Len(text), Shape(text, at, x, i), Alike(text, i, j),
           ~(IsGap(text, i) <=> IsGap(text, i + 1)), Fences(text)[i] # NoFence
    PROVE  Shape(text, at, x, j)
<1> DEFINE n == Len(text)  F == Fences(text)
<1>1. n \in Nat OBVIOUS
<1>2. \A k \in 1..n : IsGap(text, k) => F[k] = F[k - 1] BY GapsKeepFences
<1>3. \A k : InCode(text, k) <=> F[k - 1] # NoFence BY DEF InCode
<1> HIDE DEF n, F
<1>4. /\ i + 1 \in i + 1..j /\ i \in x + 1..i /\ i \in x + 1..j /\ i + 1 \in x + 1..j
      /\ i \in 1..n /\ (i + 1) - 1 = i /\ x + 1 \in x + 1..j /\ x + 1 \in x + 1..i /\ (x + 1) - 1 = x
  BY <1>1 DEF n
<1>5. \A k \in x + 1..j : k \in x + 1..i \/ k \in i + 1..j BY <1>1
<1>6. \A k \in i + 1..j : IsGap(text, k) <=> IsGap(text, i + 1) BY <1>4 DEF Alike
<1>7. CASE IsGap(text, i + 1)
  <2>1. \A k \in i + 1..j : IsGap(text, k) BY <1>7, <1>6
  <2>2. \A k \in i..j : F[k] = F[i] BY <2>1, GapsAlike DEF F
  <2>3. \A k \in i + 1..j : k - 1 \in i..j OBVIOUS
  <2>4. \A k \in i + 1..j : F[k - 1] = F[i] BY <2>2, <2>3
  <2>5. \A k \in i + 1..j : InCode(text, k) BY <1>3, <2>4 DEF F
  <2>6. CASE at[i] - at[x] <= MaxChars
    <3> DEFINE w == i + 1
    <3>1. w \in x + 1..j /\ IsGap(text, w) /\ at[w - 1] - at[x] <= MaxChars BY <1>4, <1>7, <2>6
    <3>2. \A k \in w..j : IsGap(text, k) => InCode(text, k) BY <2>5
    <3> HIDE DEF w
    <3> QED BY <3>1, <3>2 DEF Shape
  <2>7. CASE Alike(text, x, i)
    <3>1. \A k \in x + 1..i : ~IsGap(text, k) BY <1>4, <1>7, <2>7 DEF Alike
    <3> DEFINE w == i + 1
    <3>2. w \in x + 1..j /\ IsGap(text, w) /\ w - 1 = i BY <1>4, <1>7
    <3>3. \A k \in w..j : IsGap(text, k) => InCode(text, k) BY <2>5
    <3> HIDE DEF w
    <3> QED BY <3>1, <3>2, <3>3 DEF Shape
  <2>8. ASSUME NEW w \in x + 1..i, IsGap(text, w),
               at[w - 1] - at[x] <= MaxChars \/ \A k \in x + 1..w - 1 : ~IsGap(text, k),
               \A k \in w..i : IsGap(text, k) => InCode(text, k)
        PROVE  Shape(text, at, x, j)
    <3>1. w \in x + 1..j /\ \A k \in w..j : k \in w..i \/ k \in i + 1..j OBVIOUS
    <3>2. \A k \in w..j : IsGap(text, k) => InCode(text, k) BY <2>5, <2>8, <3>1
    <3> QED BY <2>8, <3>1, <3>2 DEF Shape
  <2> QED BY <2>6, <2>7, <2>8 DEF Shape
<1>8. CASE ~IsGap(text, i + 1)
  <2>1. IsGap(text, i) /\ InCode(text, i) /\ \A k \in i + 1..j : ~IsGap(text, k)
    <3>1. IsGap(text, i) BY <1>8
    <3>2. F[i - 1] # NoFence BY <1>2, <1>4, <3>1 DEF F
    <3> QED BY <1>3, <1>8, <1>6, <3>1, <3>2
  <2>2. CASE at[i] - at[x] <= MaxChars
    <3>1. at[i - 1] - at[x] <= MaxChars
      <4>1. i - 1 \in 0..n /\ i \in 0..n /\ x \in 0..n /\ i - 1 <= i BY <1>1 DEF n
      <4>2. at[i - 1] \in Nat /\ at[i] \in Nat /\ at[x] \in Nat /\ at[i - 1] <= at[i]
        BY <4>1 DEF LineEnds, n
      <4> QED BY <2>2, <4>2, PassagesAssumption
    <3>2. \A k \in i..j : k = i \/ k \in i + 1..j OBVIOUS
    <3>3. \A k \in i..j : IsGap(text, k) => InCode(text, k) BY <2>1, <3>2
    <3> QED BY <1>4, <2>1, <3>1, <3>3 DEF Shape
  <2>3. CASE Alike(text, x, i)
    <3>1. \A k \in x + 1..i : IsGap(text, k) BY <1>4, <2>1, <2>3 DEF Alike
    <3>2. i <= n /\ i \in x..i /\ \A k \in x + 1..i : k - 1 \in x..i BY <1>1 DEF n
    <3>3. \A k \in x..i : F[k] = F[x] BY <3>1, <3>2, GapsAlike DEF F, n
    <3>4. \A k \in x + 1..i : F[k - 1] # NoFence BY <3>2, <3>3 DEF F
    <3> DEFINE w == x + 1
    <3>5. w \in x + 1..j /\ IsGap(text, w) /\ x + 1..w - 1 = {} BY <1>4, <3>1
    <3>6. \A k \in w..j : k \in x + 1..i \/ k \in i + 1..j OBVIOUS
    <3>7. \A k \in w..j : IsGap(text, k) => InCode(text, k) BY <1>3, <2>1, <3>4, <3>6
    <3> HIDE DEF w
    <3> QED BY <3>5, <3>7 DEF Shape
  <2>4. ASSUME NEW w \in x + 1..i, IsGap(text, w),
               at[w - 1] - at[x] <= MaxChars \/ \A k \in x + 1..w - 1 : ~IsGap(text, k),
               \A k \in w..i : IsGap(text, k) => InCode(text, k)
        PROVE  Shape(text, at, x, j)
    <3>1. w \in x + 1..j /\ \A k \in w..j : k \in w..i \/ k \in i + 1..j OBVIOUS
    <3>2. \A k \in w..j : IsGap(text, k) => InCode(text, k) BY <2>1, <2>4, <3>1
    <3> QED BY <2>4, <3>1, <3>2 DEF Shape
  <2> QED BY <2>2, <2>3, <2>4 DEF Shape
<1> QED BY <1>7, <1>8

\* A piece of packed parts: it ends outside code, or with the text.
IsPiece(text, at, x, y, piece) ==
    /\ x < y /\ y <= Len(text) /\ piece = LinesFrom(x, y) /\ Shape(text, at, x, y)
    /\ y = Len(text) \/ Fences(text)[y] = NoFence
PieceSet(text, at) ==
    {t \in Nat \X Nat \X Seq(1..Len(text)) : IsPiece(text, at, t[1], t[2], t[3])}

\* There are no lines only between a line and itself.
LEMMA NoLines ==
    ASSUME NEW x \in Nat, NEW y \in Nat, x <= y
    PROVE  LinesFrom(x, y) = <<>> <=> x = y
<1>1. y <= y OBVIOUS
<1>2. LinesFrom(x, y) \in Seq(1..y) BY <1>1, LinesAre
<1>3. Len(LinesFrom(x, y)) = y - x BY <1>1, LinesAre
<1>4. LinesFrom(x, y) = <<>> <=> Len(LinesFrom(x, y)) = 0 BY <1>2
<1> QED BY <1>3, <1>4

\* A part is kept with what is kept, or what is kept becomes a piece.
LEMMA PackStepIs ==
    ASSUME NEW text, NEW w, NEW p
    PROVE  LET u == PackStep(text, w, p)
               Flushes == /\ w.buf # <<>> /\ w.fence = NoFence
                          /\ ~(Len(Points(text, w.buf)) + Len(Points(text, p)) <= MaxChars)
           IN  /\ u.fence = FenceOver(text, p, w.fence)[Len(p)]
               /\ Flushes => u.pieces = Append(w.pieces, w.buf) /\ u.buf = p
               /\ ~Flushes => u.pieces = w.pieces /\ u.buf = w.buf \o p
<1> DEFINE Room == Len(Points(text, w.buf)) + Len(Points(text, p)) <= MaxChars
           Flushes == w.buf # <<>> /\ w.fence = NoFence /\ ~Room
           fence == FenceOver(text, p, w.fence)[Len(p)]
           kept == IF Flushes THEN Append(w.pieces, w.buf) ELSE w.pieces
           buf == IF Flushes THEN p ELSE w.buf \o p
<1>1. PackStep(text, w, p) = [pieces |-> kept, buf |-> buf, fence |-> fence] BY DEF PackStep
<1>2. Flushes => kept = Append(w.pieces, w.buf) /\ buf = p OBVIOUS
<1>3. ~Flushes => kept = w.pieces /\ buf = w.buf \o p OBVIOUS
<1> HIDE DEF kept, buf
<1> QED
  <2> HIDE DEF fence
  <2>1. /\ PackStep(text, w, p).pieces = kept /\ PackStep(text, w, p).buf = buf
        /\ PackStep(text, w, p).fence = fence
    BY <1>1
  <2> QED BY <1>2, <1>3, <2>1 DEF fence

\* Parts are packed into pieces, one after the other, all of them.
LEMMA PackedIs ==
    ASSUME NEW text \in Seq(TextLines), NEW at, LineEnds(text, at), NEW a \in Nat, NEW b \in Nat,
           a < b, b <= Len(text), Fences(text)[a] = NoFence,
           b = Len(text) \/ Fences(text)[b] = NoFence
    PROVE  LET packed == Packed(text, LinesFrom(a, b))
           IN  packed \in Seq(Seq(1..Len(text))) /\ Laid(packed, PieceSet(text, at), a, b)
<1> DEFINE n == Len(text)  L == 1..n  Y == Seq(L)  T == PieceSet(text, at)  F == Fences(text)
           parts == Parts(text, LinesFrom(a, b))  m == Len(parts)
           X == [pieces : Seq(Y), buf : Y, fence : FenceStates]
           v == [pieces |-> <<>>, buf |-> <<>>, fence |-> NoFence]
           step == [k \in 1..m |-> [w \in X |-> PackStep(text, w, parts[k])]]
           Is(f) == f = [k \in 0..m |-> IF k = 0 THEN v ELSE PackStep(text, f[k - 1], parts[k])]
           packed == CHOOSE f : Is(f)
<1>1. n \in Nat OBVIOUS
<1>2. parts \in Seq(Y) /\ Laid(parts, PartSet(text, a), a, b) BY PartsAre
<1>3. Packed(text, LinesFrom(a, b)) = Append(packed[m].pieces, packed[m].buf) BY DEF Packed
<1> HIDE DEF parts
<1>4. m \in Nat /\ \A k \in 1..m : parts[k] \in Y
  <2> HIDE DEF Y
  <2> QED BY <1>2
<1>5. PICK f \in [0..m -> Nat] :
        f[0] = a /\ f[m] = b /\ \A k \in 1..m : <<f[k - 1], f[k], parts[k]>> \in PartSet(text, a)
  BY <1>2 DEF Laid
<1> HIDE DEF m, n
<1>6. ASSUME NEW k \in 1..m
      PROVE  /\ f[k - 1] \in Nat /\ f[k] \in Nat /\ f[k - 1] < f[k] /\ f[k] <= n
             /\ parts[k] = LinesFrom(f[k - 1], f[k]) /\ Alike(text, f[k - 1], f[k])
             /\ f[k - 1] > a => ~(IsGap(text, f[k - 1]) <=> IsGap(text, f[k - 1] + 1))
  <2>1. k \in 0..m /\ k - 1 \in 0..m BY <1>4
  <2>2. <<f[k - 1], f[k], parts[k]>> \in PartSet(text, a) BY <1>5
  <2>3. IsPart(text, a, f[k - 1], f[k], parts[k]) BY <2>2 DEF PartSet
  <2> QED BY <1>5, <2>1, <2>3 DEF IsPart, n
<1>7. F \in [0..n -> FenceStates] BY FencesAre DEF n
<1> HIDE DEF F, L
<1>8. ASSUME NEW k \in 1..m, NEW w \in X PROVE PackStep(text, w, parts[k]) \in X
  <2> DEFINE p == parts[k]  fence == FenceOver(text, p, w.fence)[Len(p)]
  <2>1. p \in Y BY <1>4
  <2> HIDE DEF p
  <2>2. w.pieces \in Seq(Y) /\ w.buf \in Y /\ w.fence \in FenceStates
    <3> HIDE DEF Y
    <3> QED OBVIOUS
  <2>3. fence \in FenceStates
    <3>1. p \in Seq(1..Len(text)) /\ Len(p) \in 0..Len(p) BY <2>1 DEF Y, L, n
    <3>2. FenceOver(text, p, w.fence) \in [0..Len(p) -> FenceStates] BY <2>2, <3>1, FenceOverIs
    <3> QED BY <3>1, <3>2
  <2>4. w.buf \o p \in Y BY <2>1, <2>2
  <2> HIDE DEF Y
  <2>5. Append(w.pieces, w.buf) \in Seq(Y) BY <2>2
  <2> QED BY <2>1, <2>2, <2>3, <2>4, <2>5 DEF PackStep, p
<1>9. v \in X
  <2>1. NoFence \in FenceStates BY DEF NoFence, FenceStates, Marks
  <2>2. <<>> \in Y OBVIOUS
  <2> HIDE DEF Y
  <2> QED BY <2>1, <2>2
<1>10. v.pieces = <<>> /\ v.buf = <<>> /\ v.fence = NoFence OBVIOUS
<1> HIDE DEF v, Y, X
<1>11. \E g : Ran(g, m, X, v, step)
  <2>1. step \in [1..m -> [X -> X]] BY <1>8
  <2> HIDE DEF step
  <2> QED BY <1>4, <1>9, <2>1, LoopRuns
<1>12. PICK g : Ran(g, m, X, v, step) BY <1>11
<1>13. Is(g)
  <2>1. g \in [0..m -> X] /\ g[0] = v BY <1>12 DEF Ran
  <2>2. ASSUME NEW k \in 0..m, k # 0 PROVE g[k] = PackStep(text, g[k - 1], parts[k])
    <3>1. k \in 1..m /\ k - 1 \in 0..m BY <1>4, <2>2
    <3>2. g[k] = step[k][g[k - 1]] /\ g[k - 1] \in X BY <1>12, <3>1 DEF Ran
    <3> QED BY <3>1, <3>2 DEF step
  <2> QED BY <2>1, <2>2
<1>14. Is(packed) BY <1>13
<1> HIDE DEF packed, T
\* What is packed after k parts: pieces up to x, and what is kept from there.
<1> DEFINE Keeps(w, k, x) ==
             /\ w \in X /\ Laid(w.pieces, T, a, x) /\ w.buf = LinesFrom(x, f[k]) /\ w.fence = F[f[k]]
             /\ Shape(text, at, x, f[k]) /\ a <= x /\ x <= f[k]
             /\ k > 0 => x < f[k]
           S == {k \in 0..m : \E x \in Nat : Keeps(packed[k], k, x)}
<1>15. 0 \in S
  <2>1. packed[0] = v BY <1>4, <1>14
  <2>2. Laid(<<>>, T, a, a) BY LaidNone
  <2>3. LinesFrom(a, a) = <<>>
    <3>1. a <= a OBVIOUS
    <3> QED BY <3>1, NoLines
  <2>4. Shape(text, at, a, a)
    <3>1. a + 1..a = {} OBVIOUS
    <3> QED BY <3>1 DEF Shape, Alike
  <2>5. F[a] = NoFence BY DEF F
  <2>6. Keeps(v, 0, a)
    <3>1. a <= a /\ ~(0 > 0) OBVIOUS
    <3> QED BY <1>5, <1>9, <1>10, <2>2, <2>3, <2>4, <2>5, <3>1
  <2>7. 0 \in 0..m BY <1>4
  <2> HIDE DEF Keeps
  <2> QED BY <2>1, <2>6, <2>7
<1>16. ASSUME NEW k \in 1..m, k - 1 \in S PROVE k \in S
  <2> DEFINE w == packed[k - 1]  u == packed[k]  i == f[k - 1]  j == f[k]  p == parts[k]
  <2>1. k \in 0..m /\ k # 0 /\ k > 0 BY <1>4
  <2>2. PICK x \in Nat : Keeps(w, k - 1, x) BY <1>16
  <2>3. u = PackStep(text, w, p) BY <1>14, <2>1
  <2>4. /\ i \in Nat /\ j \in Nat /\ i < j /\ j <= n /\ p = LinesFrom(i, j) /\ Alike(text, i, j)
        /\ i > a => ~(IsGap(text, i) <=> IsGap(text, i + 1))
    BY <1>6
  <2>5. /\ w \in X /\ Laid(w.pieces, T, a, x) /\ w.buf = LinesFrom(x, i) /\ w.fence = F[i]
        /\ Shape(text, at, x, i) /\ a <= x /\ x <= i /\ (x # i => x < i /\ i > a)
    BY <2>2, <2>4
  <2>6. w.pieces \in Seq(Y) /\ w.buf \in Y /\ p \in Y BY <1>4, <2>5 DEF X
  <2>7. u \in X BY <1>8, <2>3, <2>5
  <2>8. u \in X /\ \A z : Laid(u.pieces, T, a, z) /\ u.buf = LinesFrom(z, j) /\ u.fence = F[j]
                          /\ Shape(text, at, z, j) /\ a <= z /\ z < j /\ z \in Nat => k \in S
    <3> SUFFICES ASSUME NEW z, Laid(u.pieces, T, a, z), u.buf = LinesFrom(z, j), u.fence = F[j],
                        Shape(text, at, z, j), a <= z, z < j, z \in Nat
                 PROVE  k \in S
      BY <2>7
    <3>1. z <= j BY <2>4
    <3>2. Keeps(u, k, z) BY <2>7, <3>1
    <3> HIDE DEF Keeps
    <3> QED BY <2>1, <3>2
  <2> HIDE DEF w, u, p, Keeps, S
  <2> HIDE DEF i, j
  <2>9. F[j] = FenceOver(text, p, w.fence)[Len(p)]
    <3>1. i <= j /\ j <= Len(text) BY <2>4 DEF n
    <3>2. Len(p) = j - i
      <4>1. Len(LinesFrom(i, j)) = j - i BY <1>1, <2>4, <3>1, LinesAre
      <4> QED BY <2>4, <4>1
    <3>3. FenceOver(text, LinesFrom(i, j), Fences(text)[i])[j - i] = Fences(text)[j]
      BY <2>4, <3>1, FencesGoOn
    <3> QED BY <2>4, <2>5, <3>2, <3>3 DEF F
  <2> DEFINE Room == Len(Points(text, w.buf)) + Len(Points(text, p)) <= MaxChars
             Flushes == w.buf # <<>> /\ w.fence = NoFence /\ ~Room
  <2>10. Flushes <=> w.buf # <<>> /\ w.fence = NoFence /\ ~Room OBVIOUS
  <2>11. /\ u.fence = FenceOver(text, p, w.fence)[Len(p)]
         /\ Flushes => u.pieces = Append(w.pieces, w.buf) /\ u.buf = p
         /\ ~Flushes => u.pieces = w.pieces /\ u.buf = w.buf \o p
    BY <2>3, PackStepIs
  <2> HIDE DEF Flushes
  <2>12. u.fence = F[j]
    <3>1. u.fence = FenceOver(text, p, w.fence)[Len(p)] BY <2>11
    <3> QED BY <2>9, <3>1
  <2>13. Flushes => u.pieces = Append(w.pieces, w.buf) /\ u.buf = p BY <2>11
  <2>14. ~Flushes => u.pieces = w.pieces /\ u.buf = w.buf \o p BY <2>11
  <2>15. w.buf = <<>> <=> x = i BY <2>4, <2>5, NoLines
  <2>16. Room <=> at[j] - at[x] <= MaxChars
    <3>1. x \in 0..n /\ i \in 0..n /\ j \in 0..n /\ i <= j BY <1>1, <2>4, <2>5
    <3>2. at[x] \in Nat /\ at[i] \in Nat /\ at[j] \in Nat /\ at[x] <= at[i] /\ at[i] <= at[j]
      BY <2>5, <3>1 DEF LineEnds, n
    <3>3. at[j] <= Len(Whole(text)) /\ Whole(text) \in Seq(1..n)
      <4>1. n \in 0..n /\ j <= n BY <1>1, <2>4
      <4>2. at[j] <= at[n] BY <3>1, <4>1 DEF LineEnds, n
      <4> QED BY <4>2 DEF LineEnds, n
    <3>4. Points(text, w.buf) = Span(Whole(text), at[x], at[i]) BY <2>5, <3>1 DEF LineEnds, n
    <3>5. Points(text, p) = Span(Whole(text), at[i], at[j]) BY <2>4, <3>1 DEF LineEnds, n
    <3> DEFINE c == at[x]  d == at[i]  e == at[j]  s == Whole(text)
    <3>6. c \in Nat /\ d \in Nat /\ e \in Nat /\ c <= d /\ d <= e /\ e <= Len(s) /\ d <= Len(s)
      <4>1. Len(s) \in Nat BY <3>3
      <4> QED BY <3>2, <3>3, <4>1
    <3>7. s \in Seq(1..n) BY <3>3
    <3> HIDE DEF c, d, e, s
    <3>8. Len(Span(s, c, d)) = d - c BY <3>6, <3>7, SpanIs
    <3>9. Len(Span(s, d, e)) = e - d BY <3>6, <3>7, SpanIs
    <3>10. (d - c) + (e - d) = e - c BY <3>6
    <3> QED BY <3>4, <3>5, <3>8, <3>9, <3>10 DEF c, d, e, s
  <2> HIDE DEF Room
  <2>17. CASE Flushes
    <3>1. u.pieces = Append(w.pieces, w.buf) /\ u.buf = p BY <2>13, <2>17
    <3>2. x # i /\ F[i] = NoFence BY <2>5, <2>15, <2>17, <2>10
    <3>3. IsPiece(text, at, x, i, w.buf)
      <4>1. i <= n /\ x < i BY <1>1, <2>4, <2>5, <3>2
      <4> QED BY <2>5, <3>2, <4>1 DEF IsPiece, F, n
    <3>4. <<x, i, w.buf>> \in T BY <2>4, <2>6, <3>3 DEF T, PieceSet, Y, L, n
    <3>5. Laid(u.pieces, T, a, i) BY <2>4, <2>5, <3>1, <2>6, <3>4, LaidMore
    <3>6. Shape(text, at, i, j) BY <2>4 DEF Shape
    <3>7. u.buf = LinesFrom(i, j) /\ a <= i BY <2>4, <2>5, <3>1
    <3> QED BY <2>4, <2>12, <2>8, <3>5, <3>6, <3>7
  <2>18. CASE ~Flushes
    <3>1. u.pieces = w.pieces /\ u.buf = w.buf \o p BY <2>14, <2>18
    <3>2. u.buf = LinesFrom(x, j)
      <4>1. i <= j BY <2>4
      <4>2. LinesFrom(x, i) \o LinesFrom(i, j) = LinesFrom(x, j) BY <2>4, <2>5, <4>1, LinesJoin
      <4> QED BY <2>4, <2>5, <3>1, <4>2
    <3>3. Shape(text, at, x, j)
      <4>1. CASE x = i BY <2>4, <4>1 DEF Shape
      <4>2. CASE Room BY <2>16, <4>2 DEF Shape
      <4>3. CASE x # i /\ F[i] # NoFence
        <5>1. x < i /\ ~(IsGap(text, i) <=> IsGap(text, i + 1)) /\ j <= Len(text) BY <2>4, <2>5, <4>3 DEF n
        <5> QED BY <2>4, <2>5, <4>3, <5>1, ShapeGrows DEF F
      <4> QED BY <2>5, <2>15, <2>18, <2>10, <4>1, <4>2, <4>3
    <3>4. x < j BY <2>4, <2>5
    <3>5. Laid(u.pieces, T, a, x) BY <2>5, <3>1
    <3> QED BY <2>5, <2>12, <2>8, <3>2, <3>3, <3>4, <3>5
  <2> QED BY <2>17, <2>18
<1> HIDE DEF S
<1>17. 0..m \subseteq S BY <1>4, <1>15, <1>16, LoopKeeps
<1>18. m \in S BY <1>4, <1>17
<1>19. PICK x \in Nat : Keeps(packed[m], m, x) BY <1>18 DEF S
<1> DEFINE w == packed[m]
<1>20. m > 0
  <2>1. m # 0 BY <1>5
  <2> QED BY <1>4, <2>1
<1>21. /\ w \in X /\ Laid(w.pieces, T, a, x) /\ w.buf = LinesFrom(x, b) /\ Shape(text, at, x, b) /\ x < b
  BY <1>5, <1>19, <1>20
<1>22. w.pieces \in Seq(Y) /\ w.buf \in Y BY <1>21 DEF X
<1> HIDE DEF w
<1>23. IsPiece(text, at, x, b, w.buf) BY <1>21 DEF IsPiece
<1>24. <<x, b, w.buf>> \in T BY <1>22, <1>23 DEF T, PieceSet, Y, L, n
<1>25. Laid(Append(w.pieces, w.buf), T, a, b) BY <1>21, <1>22, <1>24, LaidMore
<1>26. Append(w.pieces, w.buf) \in Seq(Y) BY <1>22
<1> QED BY <1>3, <1>25, <1>26 DEF w, Y, L, n, T

\* A point is of one of the first lines when it is before their end.
LEMMA LineOf ==
    ASSUME NEW text \in Seq(TextLines), NEW at, LineEnds(text, at)
    PROVE  /\ Len(Whole(text)) \in Nat
           /\ \A r \in 1..Len(Whole(text)) :
                /\ Whole(text)[r] \in 1..Len(text)
                /\ \A z \in 0..Len(text) : Whole(text)[r] <= z <=> r <= at[z]
           /\ \A z \in 0..Len(text) : at[z] \in Nat /\ at[z] <= Len(Whole(text))
           /\ \A y, z \in 0..Len(text) : y <= z => at[y] <= at[z]
<1> DEFINE n == Len(text)  s == Whole(text)
<1>1. n \in Nat OBVIOUS
<1>2. /\ at \in [0..n -> Nat] /\ s \in Seq(1..n) /\ at[n] = Len(s)
      /\ \A y, z \in 0..n : y <= z => at[y] <= at[z]
      /\ \A r \in 1..Len(s) : at[s[r] - 1] < r /\ r <= at[s[r]]
  BY DEF LineEnds
<1> HIDE DEF n, s
<1> DEFINE L == 1..n
<1>3. s \in Seq(L) BY <1>2
<1> HIDE DEF L
<1>4. Len(s) \in Nat BY <1>3
<1>5. \A r \in 1..Len(s) : s[r] \in L BY <1>3
<1>6. Len(s) \in Nat /\ \A r \in 1..Len(s) : s[r] \in 1..n BY <1>4, <1>5 DEF L
<1>7. \A k \in 0..n : at[k] \in Nat BY <1>2
<1>8. ASSUME NEW r \in 1..Len(s), NEW z \in 0..n PROVE s[r] <= z <=> r <= at[z]
  <2> DEFINE l == s[r]
  <2>1. l \in 1..n /\ l \in 0..n /\ l - 1 \in 0..n BY <1>1, <1>6
  <2>2. at[l - 1] < r /\ r <= at[l] BY <1>2
  <2> HIDE DEF l
  <2>3. r \in Nat BY <1>4
  <2>4. at[l - 1] \in Nat /\ at[l] \in Nat /\ at[z] \in Nat /\ r \in Nat BY <1>7, <2>1, <2>3
  <2>5. CASE l <= z
    <3>1. at[l] <= at[z] BY <1>2, <2>1, <2>5
    <3> QED BY <2>2, <2>4, <2>5, <3>1 DEF l
  <2>6. CASE ~(l <= z)
    <3>1. z <= l - 1 BY <1>1, <2>1, <2>6
    <3>2. at[z] <= at[l - 1] BY <1>2, <2>1, <3>1
    <3> QED BY <2>2, <2>4, <2>6, <3>2 DEF l
  <2> QED BY <2>5, <2>6
<1>9. \A z \in 0..n : at[z] \in Nat /\ at[z] <= Len(s)
  <2>1. \A z \in 0..n : z <= n /\ n \in 0..n BY <1>1
  <2> QED BY <1>2, <2>1
<1> QED BY <1>2, <1>6, <1>8, <1>9 DEF n, s

-----------------------------------------------------------------------------
\* What a passage may be: within the budget, or with a gap inside code, or of a
\* run of gaps, or of lines that are none.
FitsIn(text, p, q) ==
    LET s == Whole(text)
    IN  \/ q - p <= MaxChars
        \/ \E r \in p + 1..q : IsGap(text, s[r]) /\ InCode(text, s[r])
        \/ \A r, u \in p + 1..q : IsGap(text, s[r]) <=> IsGap(text, s[u])

\* Whatever is cut of a piece is as a passage may be.
LEMMA SlicesFit ==
    ASSUME NEW text \in Seq(TextLines), NEW at, LineEnds(text, at), NEW x \in Nat, NEW y \in Nat,
           x <= y, y <= Len(text), Shape(text, at, x, y), NEW p \in Nat, NEW q \in Nat,
           at[x] <= p, p < q, q <= at[y]
    PROVE  FitsIn(text, p, q)
<1> DEFINE n == Len(text)  s == Whole(text)  N == Len(s)
<1>1. n \in Nat OBVIOUS
<1>2. /\ N \in Nat
      /\ \A r \in 1..N : s[r] \in 1..n /\ \A z \in 0..n : s[r] <= z <=> r <= at[z]
      /\ \A z \in 0..n : at[z] \in Nat /\ at[z] <= N
      /\ \A y1, z \in 0..n : y1 <= z => at[y1] <= at[z]
  BY LineOf
<1> HIDE DEF n, s, N
<1>3. x \in 0..n /\ y \in 0..n /\ at[x] \in Nat /\ at[y] \in Nat /\ at[y] <= N
  <2>1. x \in 0..n /\ y \in 0..n BY <1>1 DEF n
  <2> QED BY <1>2, <2>1
<1>4. \A r \in p + 1..q : r \in 1..N /\ r \in Nat /\ at[x] < r /\ r <= at[y] BY <1>2, <1>3
<1>5. \A r \in p + 1..q : s[r] \in x + 1..y /\ s[r] \in 1..n
  <2> SUFFICES ASSUME NEW r \in p + 1..q PROVE s[r] \in x + 1..y /\ s[r] \in 1..n OBVIOUS
  <2>1. r \in 1..N /\ ~(r <= at[x]) /\ r <= at[y] BY <1>3, <1>4
  <2>2. s[r] \in 1..n /\ ~(s[r] <= x) /\ s[r] <= y BY <1>2, <1>3, <2>1
  <2> QED BY <1>1, <2>2
<1>6. CASE at[y] - at[x] <= MaxChars
  <2>1. q - p <= MaxChars BY <1>3, <1>6, PassagesAssumption
  <2> QED BY <2>1 DEF FitsIn
<1>7. CASE Alike(text, x, y)
  <2>1. \A r, u \in p + 1..q : IsGap(text, s[r]) <=> IsGap(text, s[u]) BY <1>5, <1>7 DEF Alike
  <2> QED BY <2>1 DEF FitsIn, s
<1>8. ASSUME NEW w \in x + 1..y, IsGap(text, w),
             at[w - 1] - at[x] <= MaxChars \/ \A i \in x + 1..w - 1 : ~IsGap(text, i),
             \A i \in w..y : IsGap(text, i) => InCode(text, i)
      PROVE  FitsIn(text, p, q)
  <2> DEFINE v == at[w - 1]
  <2>1. /\ w - 1 \in 0..n /\ w \in 1..n /\ v \in Nat /\ v <= N /\ w \in 0..n /\ w \in w..y
        /\ at[w] \in Nat
    <3>1. w - 1 \in 0..n /\ w \in 1..n /\ w \in 0..n /\ w \in w..y BY <1>1 DEF n
    <3> QED BY <1>2, <3>1
  <2>2. \A r \in p + 1..q : s[r] <= w - 1 <=> r <= v BY <1>2, <1>4, <2>1
  <2>3. \A r \in p + 1..q : r > v => s[r] \in w..y
    <3> SUFFICES ASSUME NEW r \in p + 1..q, r > v PROVE s[r] \in w..y OBVIOUS
    <3>1. ~(s[r] <= w - 1) BY <2>1, <2>2, <1>4
    <3> QED BY <1>1, <1>5, <2>1, <3>1
  <2> HIDE DEF v
  <2>4. CASE \E r \in p + 1..q : r > v /\ IsGap(text, s[r])
    <3>1. PICK r \in p + 1..q : r > v /\ IsGap(text, s[r]) BY <2>4
    <3>2. InCode(text, s[r]) BY <1>8, <2>3, <3>1
    <3> QED BY <3>1, <3>2 DEF FitsIn, s
  <2>5. CASE \A r \in p + 1..q : r > v => ~IsGap(text, s[r])
    <3>1. CASE v <= p
      <4>1. \A r \in p + 1..q : r > v BY <2>1, <3>1
      <4>2. \A r \in p + 1..q : ~IsGap(text, s[r]) BY <2>5, <4>1
      <4> QED BY <4>2 DEF FitsIn, s
    <3>2. CASE p < v /\ v < q
      <4> DEFINE r == v + 1
      <4>1. r \in p + 1..q /\ r > v BY <2>1, <3>2
      <4>2. at[w - 1] < at[w] BY <2>1 DEF LineEnds, n
      <4>3. r <= at[w] BY <2>1, <4>2 DEF v
      <4> HIDE DEF r
      <4>4. s[r] <= w BY <1>2, <1>4, <2>1, <4>1, <4>3
      <4>5. s[r] \in w..y BY <2>3, <4>1
      <4>6. s[r] = w BY <4>4, <4>5
      <4> QED BY <1>8, <2>5, <4>1, <4>6
    <3>3. CASE q <= v
      <4>1. CASE at[w - 1] - at[x] <= MaxChars
        <5>1. q - p <= MaxChars BY <1>3, <2>1, <3>3, <4>1, PassagesAssumption DEF v
        <5> QED BY <5>1 DEF FitsIn
      <4>2. CASE \A i \in x + 1..w - 1 : ~IsGap(text, i)
        <5>1. \A r \in p + 1..q : r <= v BY <2>1, <3>3
        <5>2. \A r \in p + 1..q : s[r] <= w - 1 BY <2>2, <5>1
        <5>3. \A r \in p + 1..q : s[r] \in x + 1..w - 1
          <6> SUFFICES ASSUME NEW r \in p + 1..q PROVE s[r] \in x + 1..w - 1 OBVIOUS
          <6>1. s[r] <= w - 1 /\ s[r] \in x + 1..y BY <1>5, <5>2
          <6> QED BY <6>1
        <5>4. \A r \in p + 1..q : ~IsGap(text, s[r]) BY <4>2, <5>3
        <5> QED BY <5>4 DEF FitsIn, s
      <4> QED BY <1>8, <4>1, <4>2
    <3>4. v <= p \/ (p < v /\ v < q) \/ q <= v BY <2>1
    <3> QED BY <3>1, <3>2, <3>3, <3>4
  <2> QED BY <2>4, <2>5
<1> QED BY <1>6, <1>7, <1>8 DEF Shape

\* After what ends outside code, the next point is not inside code.
LEMMA OutsideNext ==
    ASSUME NEW text \in Seq(TextLines), NEW at, LineEnds(text, at), NEW y \in Nat, y <= Len(text),
           y = Len(text) \/ Fences(text)[y] = NoFence
    PROVE  at[y] = Len(Whole(text)) \/ ~InCode(text, Whole(text)[at[y] + 1])
<1> DEFINE n == Len(text)  s == Whole(text)  N == Len(s)  r == at[y] + 1
<1>1. n \in Nat OBVIOUS
<1>2. /\ N \in Nat
      /\ \A i \in 1..N : s[i] \in 1..n /\ \A z \in 0..n : s[i] <= z <=> i <= at[z]
      /\ \A z \in 0..n : at[z] \in Nat /\ at[z] <= N
  BY LineOf
<1>3. CASE y = n BY <1>3 DEF LineEnds
<1>4. CASE y # n
  <2> HIDE DEF n, s, N
  <2>1. y \in 0..n /\ y + 1 \in 0..n /\ y + 1 \in 1..n /\ (y + 1) - 1 = y BY <1>1, <1>4 DEF n
  <2>2. at[(y + 1) - 1] < at[y + 1] BY <2>1 DEF LineEnds, n
  <2>3. at[y] \in Nat /\ at[y + 1] \in Nat /\ at[y + 1] <= N /\ at[y] < at[y + 1]
    BY <1>2, <2>1, <2>2
  <2>4. r \in 1..N /\ r <= at[y + 1] /\ ~(r <= at[y]) BY <1>2, <2>3
  <2> HIDE DEF r
  <2>5. s[r] \in 1..n /\ s[r] <= y + 1 /\ ~(s[r] <= y) BY <1>2, <2>1, <2>4
  <2>6. s[r] = y + 1 BY <2>1, <2>5
  <2>7. (y + 1) - 1 = y OBVIOUS
  <2> QED BY <1>4, <2>6, <2>7 DEF InCode, r, s, n
<1> QED BY <1>3, <1>4

\* How many cuts of one size there are of so much.
LEMMA CutsAre ==
    ASSUME NEW l \in Nat, NEW h \in Nat \ {0}, h < l
    PROVE  LET cuts == (l + h - 1) \div h
           IN  /\ cuts \in Nat /\ l <= cuts * h
               /\ \A k \in 1..cuts :
                    /\ k - 1 \in Nat /\ (k - 1) * h \in Nat /\ k * h = (k - 1) * h + h
                    /\ (k - 1) * h < l
<1> DEFINE m == l + h - 1  c == m \div h
<1>1. m \in Nat /\ h > 0 OBVIOUS
<1> HIDE DEF m
<1>2. c \in Int /\ m = h * c + (m % h) /\ m % h \in 0..(h - 1) BY <1>1
<1> DEFINE r == m % h
<1>3. r \in Int /\ m = h * c + r /\ r >= 0 /\ r <= h - 1 BY <1>2
<1> HIDE DEF c, r
<1>4. c >= 0
  <2>1. SUFFICES ASSUME c < 0 PROVE FALSE BY <1>2
  <2>2. c <= -1 BY <1>2, <2>1
  <2>3. h * c <= -h BY <1>1, <1>2, <2>2
  <2>4. h * c \in Int BY <1>2
  <2> QED BY <1>1, <1>3, <2>3, <2>4
<1>5. h * c = c * h /\ c * h \in Int BY <1>2
<1>6. l <= c * h BY <1>1, <1>3, <1>5 DEF m
<1>7. ASSUME NEW k \in 1..c
      PROVE  k - 1 \in Nat /\ (k - 1) * h \in Nat /\ k * h = (k - 1) * h + h /\ (k - 1) * h < l
  <2>1. k \in Int /\ k >= 1 /\ k <= c BY <1>2
  <2>2. k - 1 \in Nat BY <2>1
  <2>3. (k - 1) * h \in Nat BY <2>2
  <2>4. k * h = (k - 1) * h + h BY <2>1
  <2>5. k * h <= c * h
    <3>1. c - k \in Nat BY <1>2, <2>1
    <3>2. (c - k) * h \in Nat BY <3>1
    <3>3. c * h = k * h + (c - k) * h BY <1>2, <2>1
    <3>4. k * h \in Int BY <2>1
    <3> QED BY <1>5, <3>2, <3>3, <3>4
  <2>6. (k - 1) * h < l BY <1>1, <1>3, <1>5, <2>3, <2>4, <2>5 DEF m
  <2> QED BY <2>2, <2>3, <2>4, <2>6
<1> QED BY <1>2, <1>4, <1>6, <1>7 DEF c, m

-----------------------------------------------------------------------------
\* A cut of a text: as a passage may be, and ended outside code unless it is
\* as long as the ceiling.
IsCut(text, p, q, c) ==
    /\ p < q /\ q <= Len(Whole(text)) /\ c = Span(Whole(text), p, q) /\ FitsIn(text, p, q)
    /\ q < Len(Whole(text)) /\ q - p < HardMax => ~InCode(text, Whole(text)[q + 1])
CutSet(text) == {t \in Nat \X Nat \X Seq(1..Len(text)) : IsCut(text, t[1], t[2], t[3])}

\* A piece is cut at the ceiling into cuts, all of it.
LEMMA CeilingIs ==
    ASSUME NEW text \in Seq(TextLines), NEW at, LineEnds(text, at), NEW p \in Nat, NEW q \in Nat,
           p < q, q <= Len(Whole(text)), q < Len(Whole(text)) => ~InCode(text, Whole(text)[q + 1]),
           \A x, y \in Nat : p <= x /\ x < y /\ y <= q => FitsIn(text, x, y)
    PROVE  LET cuts == EnforceCeiling(Span(Whole(text), p, q))
           IN  cuts \in Seq(Seq(1..Len(text))) /\ Laid(cuts, CutSet(text), p, q)
<1> DEFINE L == 1..Len(text)  s == Whole(text)  points == Span(s, p, q)  l == q - p  T == CutSet(text)
<1>1. s \in Seq(L) BY DEF LineEnds
<1>2. HardMax \in Nat \ {0} BY PassagesAssumption
<1>3. T = {t \in Nat \X Nat \X Seq(L) : IsCut(text, t[1], t[2], t[3])} BY DEF CutSet
<1> HIDE DEF L, T
<1>4. ASSUME NEW x \in Nat, NEW y \in Nat, p <= x, x < y, y <= q, y = q \/ y - x >= HardMax
      PROVE  Span(s, x, y) \in Seq(L) /\ <<x, y, Span(s, x, y)>> \in T
  <2> DEFINE c == Span(s, x, y)
  <2>1. x <= y /\ y <= Len(s) /\ Len(s) \in Nat
    <3>1. Len(s) \in Nat BY <1>1
    <3> QED BY <1>4, <3>1
  <2>2. c \in Seq(L)
    <3> HIDE DEF s
    <3> QED BY <1>1, <2>1, SpanIs
  <2>3. FitsIn(text, x, y) BY <1>4
  <2>4. y < Len(s) /\ y - x < HardMax => ~InCode(text, s[y + 1]) BY <1>2, <1>4
  <2>5. IsCut(text, x, y, c) BY <1>4, <2>1, <2>3, <2>4 DEF IsCut
  <2> HIDE DEF c
  <2> QED BY <1>3, <2>2, <2>5 DEF c
<1>5. Len(points) = l /\ l \in Nat
  <2>1. p <= q /\ q <= Len(s) /\ l \in Nat OBVIOUS
  <2> HIDE DEF s
  <2>2. Len(Span(s, p, q)) = q - p BY <1>1, <2>1, SpanIs
  <2> QED BY <2>1, <2>2
<1>6. ASSUME NEW x \in Nat, NEW e \in Nat, x <= e, e <= l
      PROVE  SubSeq(points, x + 1, e) = Span(s, p + x, p + e)
  <2> DEFINE u == Span(s, p + x, p + e)
  <2>1. \A k \in 1..l : points[k] = s[p + k] BY DEF Span
  <2>2. u = [k \in 1..(p + e) - (p + x) |-> s[p + x + k]] BY DEF Span
  <2>3. SubSeq(points, x + 1, e) = [k \in 1..(1 + e - (x + 1)) |-> points[x + 1 + k - 1]] OBVIOUS
  <2> HIDE DEF points, s, u
  <2>4. (p + e) - (p + x) = e - x /\ 1 + e - (x + 1) = e - x OBVIOUS
  <2>5. ASSUME NEW k \in 1..e - x PROVE points[x + 1 + k - 1] = s[p + x + k]
    <3>1. x + 1 + k - 1 = x + k /\ x + k \in 1..l /\ p + (x + k) = p + x + k BY <1>6
    <3> QED BY <2>1, <3>1
  <2> QED BY <2>2, <2>3, <2>4, <2>5 DEF u
<1>7. CASE l <= HardMax
  <2>1. EnforceCeiling(points) = <<points>> BY <1>5, <1>7 DEF EnforceCeiling
  <2>2. points \in Seq(L) /\ <<p, q, points>> \in T BY <1>4
  <2> HIDE DEF points
  <2>3. Laid(<<points>>, T, p, q) BY <2>2, LaidOne
  <2> DEFINE Q == Seq(L)
  <2>4. <<points>> \in Seq(Q)
    <3>1. points \in Q BY <2>2
    <3> HIDE DEF Q
    <3> QED BY <3>1
  <2> QED BY <2>1, <2>3, <2>4 DEF L, T, points
<1>8. CASE HardMax < l
  <2> DEFINE h == HardMax  c == (l + h - 1) \div h
             End(k) == IF k * h < l THEN k * h ELSE l
             cuts == [k \in 1..c |-> SubSeq(points, (k - 1) * h + 1, End(k))]
             f == [k \in 0..c |-> p + End(k)]
  <2>1. EnforceCeiling(points) = cuts BY <1>2, <1>5, <1>8 DEF EnforceCeiling
  <2>2. c \in Nat BY <1>2, <1>5, <1>8, CutsAre
  <2>3. l <= c * h BY <1>2, <1>5, <1>8, CutsAre
  <2>4. \A k \in 1..c : /\ k - 1 \in Nat /\ (k - 1) * h \in Nat /\ k * h = (k - 1) * h + h
                        /\ (k - 1) * h < l
    BY <1>2, <1>5, <1>8, CutsAre
  <2>5. 0 * h = 0 /\ c * h \in Nat BY <1>2, <2>2
  <2>6. p + l = q /\ l \in Nat /\ h \in Nat /\ h > 0 /\ l > h BY <1>2, <1>5, <1>8
  <2> HIDE DEF c, h, l, points
  <2>7. End(0) = 0 /\ End(c) = l BY <2>6, <2>3, <2>5
  <2>8. ASSUME NEW k \in 1..c
        PROVE  LET x == p + End(k - 1)  y == p + End(k)
               IN  /\ x \in Nat /\ y \in Nat /\ p <= x /\ x < y /\ y <= q
                   /\ (y = q \/ y - x >= h) /\ cuts[k] = Span(s, x, y)
    <3> DEFINE u == (k - 1) * h  w == k * h
    <3>1. u \in Nat /\ w = u + h /\ u < l BY <2>4
    <3> HIDE DEF u, w
    <3>2. End(k - 1) = u BY <3>1 DEF u
    <3>3. End(k) = IF w < l THEN w ELSE l BY DEF w
    <3>4. End(k) \in Nat /\ u <= End(k) /\ End(k) <= l BY <2>6, <3>1, <3>3
    <3>5. p + u \in Nat /\ p + End(k) \in Nat /\ p <= p + u /\ p + u < p + End(k)
          /\ p + End(k) <= q /\ (p + End(k) = q \/ (p + End(k)) - (p + u) >= h)
      BY <2>6, <3>1, <3>3
    <3>6. cuts[k] = SubSeq(points, u + 1, End(k)) BY DEF u
    <3>7. SubSeq(points, u + 1, End(k)) = Span(s, p + u, p + End(k)) BY <1>6, <3>1, <3>4
    <3> HIDE DEF cuts, End
    <3> QED BY <3>2, <3>5, <3>6, <3>7
  <2> HIDE DEF End, s
  <2>9. \A k \in 1..c : cuts[k] \in Seq(L) /\ <<p + End(k - 1), p + End(k), cuts[k]>> \in T
    <3> SUFFICES ASSUME NEW k \in 1..c
                 PROVE  cuts[k] \in Seq(L) /\ <<p + End(k - 1), p + End(k), cuts[k]>> \in T
      OBVIOUS
    <3> DEFINE x == p + End(k - 1)  y == p + End(k)
    <3>1. /\ x \in Nat /\ y \in Nat /\ p <= x /\ x < y /\ y <= q
          /\ (y = q \/ y - x >= h) /\ cuts[k] = Span(s, x, y)
      BY <2>8
    <3> HIDE DEF x, y, cuts
    <3>2. Span(s, x, y) \in Seq(L) /\ <<x, y, Span(s, x, y)>> \in T BY <1>4, <3>1 DEF h
    <3> QED BY <3>1, <3>2 DEF x, y
  <2>10. f \in [0..c -> Nat]
    <3> SUFFICES ASSUME NEW k \in 0..c PROVE p + End(k) \in Nat OBVIOUS
    <3>1. CASE k = 0 BY <2>7, <3>1
    <3>2. CASE k # 0
      <4>1. k \in 1..c BY <2>2, <3>2
      <4> QED BY <2>8, <4>1
    <3> QED BY <3>1, <3>2
  <2>11. f[0] = p /\ f[c] = q
    <3>1. 0 \in 0..c /\ c \in 0..c BY <2>2
    <3> QED BY <2>7, <2>6, <3>1
  <2>12. cuts = [k \in 1..c |-> cuts[k]] /\ DOMAIN cuts = 1..c OBVIOUS
  <2>13. \A k \in 1..c : k \in 0..c /\ k - 1 \in 0..c BY <2>2
  <2>14. \A k \in 1..c : <<f[k - 1], f[k], cuts[k]>> \in T BY <2>9, <2>13
  <2> HIDE DEF cuts, f
  <2> DEFINE Q == Seq(L)
  <2>15. cuts \in Seq(Q) /\ Len(cuts) = c
    <3>1. cuts \in [1..c -> Q] BY <2>9, <2>12
    <3> HIDE DEF Q
    <3> QED BY <2>2, <3>1
  <2>16. Laid(cuts, T, p, q) BY <2>10, <2>11, <2>14, <2>15 DEF Laid
  <2> QED BY <2>1, <2>15, <2>16 DEF L, T, points, s
<1> QED BY <1>2, <1>5, <1>7, <1>8

\* A section is cut into cuts.
LEMMA SubsplitIs ==
    ASSUME NEW text \in Seq(TextLines), NEW at, LineEnds(text, at), NEW a \in Nat, NEW b \in Nat,
           a < b, b <= Len(text), Fences(text)[a] = NoFence,
           b = Len(text) \/ Fences(text)[b] = NoFence
    PROVE  LET cuts == Subsplit(text, LinesFrom(a, b))
           IN  cuts \in Seq(Seq(1..Len(text))) /\ Laid(cuts, CutSet(text), at[a], at[b])
<1> DEFINE n == Len(text)  L == 1..n  Y == Seq(L)  s == Whole(text)  T == CutSet(text)
           points == Points(text, LinesFrom(a, b))  packed == Packed(text, LinesFrom(a, b))
           Cuts(piece) == EnforceCeiling(Points(text, piece))
           seqs == [k \in 1..Len(packed) |-> Cuts(packed[k])]
<1>1. n \in Nat /\ a \in 0..n /\ b \in 0..n /\ a <= b OBVIOUS
<1>2. Subsplit(text, LinesFrom(a, b)) = IF Len(points) <= MaxChars THEN <<points>> ELSE FlattenSeq(seqs)
  BY DEF Subsplit
<1>3. s \in Seq(L) /\ Len(s) \in Nat
  <2>1. s \in Seq(L) BY DEF LineEnds
  <2> HIDE DEF s, L
  <2>2. Len(s) \in Nat BY <2>1
  <2> QED BY <2>1, <2>2
<1>4. /\ \A z \in 0..n : at[z] \in Nat /\ at[z] <= Len(s)
      /\ \A x, y \in 0..n : x < y => at[x] < at[y] /\ Points(text, LinesFrom(x, y)) = Span(s, at[x], at[y])
  <2>1. \A z \in 0..n : at[z] \in Nat /\ at[z] <= Len(s) BY LineOf
  <2>2. \A y, z \in 0..n : y <= z => at[y] <= at[z] BY LineOf
  <2>3. \A i \in 1..n : at[i - 1] < at[i] BY DEF LineEnds
  <2>4. ASSUME NEW x \in 0..n, NEW y \in 0..n, x < y
        PROVE  at[x] < at[y] /\ Points(text, LinesFrom(x, y)) = Span(s, at[x], at[y])
    <3>1. x <= y /\ y \in 1..n /\ y - 1 \in 0..n /\ x <= y - 1 BY <1>1, <2>4
    <3>2. at[x] <= at[y - 1] /\ at[y - 1] < at[y] BY <2>2, <2>3, <3>1
    <3>3. at[x] \in Nat /\ at[y] \in Nat /\ at[y - 1] \in Nat BY <2>1, <3>1
    <3>4. at[x] < at[y] BY <3>2, <3>3
    <3>5. Points(text, LinesFrom(x, y)) = Span(s, at[x], at[y]) BY <3>1 DEF LineEnds
    <3> QED BY <3>4, <3>5
  <2> QED BY <2>1, <2>4
<1>5. ASSUME NEW y \in Nat, y <= n, y = n \/ Fences(text)[y] = NoFence
      PROVE  at[y] < Len(s) => ~InCode(text, s[at[y] + 1])
  <2>1. at[y] = Len(s) \/ ~InCode(text, s[at[y] + 1]) BY <1>5, OutsideNext
  <2>2. y \in 0..n BY <1>1, <1>5
  <2>3. at[y] \in Nat BY <1>4, <2>2
  <2> QED BY <1>3, <2>1, <2>3
<1> HIDE DEF n, s
<1>6. CASE Len(points) <= MaxChars
  <2> DEFINE p == at[a]  q == at[b]
  <2>1. /\ p \in Nat /\ q \in Nat /\ p < q /\ q <= Len(s) /\ p <= q /\ points = Span(s, p, q)
    BY <1>1, <1>4
  <2>2. q < Len(s) => ~InCode(text, s[q + 1]) BY <1>5 DEF n
  <2> HIDE DEF p, q, points, L
  <2>3. points \in Y
    <3>1. Span(s, p, q) \in Seq(L) BY <1>3, <2>1, SpanIs
    <3> QED BY <2>1, <3>1
  <2>4. Len(points) = q - p
    <3>1. p \in Nat BY <2>1
    <3>2. q \in Nat BY <2>1
    <3>3. p <= q BY <2>1
    <3>4. q <= Len(s) BY <2>1
    <3>5. s \in Seq(L) BY <1>3
    <3>6. Len(Span(s, p, q)) = q - p BY <3>1, <3>2, <3>3, <3>4, <3>5, SpanLength
    <3>7. points = Span(s, p, q) BY <2>1
    <3> QED BY <3>6, <3>7
  <2>5. FitsIn(text, p, q) BY <1>6, <2>4 DEF FitsIn
  <2>6. IsCut(text, p, q, points) BY <2>1, <2>2, <2>5 DEF IsCut, s
  <2>7. <<p, q, points>> \in T BY <2>1, <2>3, <2>6 DEF CutSet, L, n
  <2> HIDE DEF T, Y
  <2>8. Laid(<<points>>, T, p, q) /\ <<points>> \in Seq(Y) BY <2>1, <2>3, <2>7, LaidOne
  <2> QED BY <1>2, <1>6, <2>8 DEF T, Y, L, n, p, q
<1>7. CASE ~(Len(points) <= MaxChars)
  <2>1. packed \in Seq(Y) /\ Laid(packed, PieceSet(text, at), a, b) BY PackedIs DEF n
  <2>2. ASSUME NEW x \in Nat, NEW y \in Nat, NEW piece, IsPiece(text, at, x, y, piece)
        PROVE  /\ x \in 0..n /\ y \in 0..n
               /\ Cuts(piece) \in Seq(Y) /\ Laid(Cuts(piece), T, at[x], at[y])
    <3>1. /\ x < y /\ y <= n /\ piece = LinesFrom(x, y) /\ Shape(text, at, x, y)
          /\ y = n \/ Fences(text)[y] = NoFence
      BY <2>2 DEF IsPiece, n
    <3>2. x \in 0..n /\ y \in 0..n /\ x <= y BY <1>1, <3>1
    <3> DEFINE p == at[x]  q == at[y]
    <3>3. /\ p \in Nat /\ q \in Nat /\ p < q /\ q <= Len(s) /\ Points(text, piece) = Span(s, p, q)
      BY <1>4, <3>1, <3>2
    <3>4. q < Len(s) => ~InCode(text, s[q + 1]) BY <1>5, <3>1
    <3>5. \A u, v \in Nat : p <= u /\ u < v /\ v <= q => FitsIn(text, u, v)
      BY <3>1, <3>2, SlicesFit DEF n
    <3> HIDE DEF p, q
    <3>6. EnforceCeiling(Span(s, p, q)) \in Seq(Y) /\ Laid(EnforceCeiling(Span(s, p, q)), T, p, q)
      BY <3>3, <3>4, <3>5, CeilingIs DEF n, s
    <3> QED BY <3>2, <3>3, <3>6 DEF p, q
  <2> DEFINE m == Len(packed)
             U == {t \in Nat \X Nat \X Seq(Y) : Laid(t[3], T, t[1], t[2])}
  <2>3. PICK f \in [0..m -> Nat] :
          f[0] = a /\ f[m] = b /\ \A k \in 1..m : <<f[k - 1], f[k], packed[k]>> \in PieceSet(text, at)
    BY <2>1 DEF Laid
  <2>4. m \in Nat
    <3> HIDE DEF packed, Y
    <3> QED BY <2>1
  <2> HIDE DEF Cuts, m, Y, T
  <2>5. ASSUME NEW k \in 1..m
        PROVE  /\ f[k - 1] \in 0..n /\ f[k] \in 0..n
               /\ seqs[k] \in Seq(Y) /\ Laid(seqs[k], T, at[f[k - 1]], at[f[k]])
    <3>1. k \in 0..m /\ k - 1 \in 0..m BY <2>4
    <3>2. f[k] \in Nat /\ f[k - 1] \in Nat BY <3>1
    <3>3. IsPiece(text, at, f[k - 1], f[k], packed[k]) BY <2>3 DEF PieceSet
    <3>4. seqs[k] = Cuts(packed[k]) BY DEF m
    <3> HIDE DEF seqs
    <3> QED BY <2>2, <3>2, <3>3, <3>4
  <2>6. \A k \in 0..m : f[k] \in 0..n
    <3> SUFFICES ASSUME NEW k \in 0..m PROVE f[k] \in 0..n OBVIOUS
    <3>1. CASE k = 0 BY <1>1, <2>3, <3>1
    <3>2. CASE k # 0
      <4>1. k \in 1..m BY <2>4, <3>2
      <4> QED BY <2>5, <4>1
    <3> QED BY <3>1, <3>2
  <2> DEFINE g == [k \in 0..m |-> at[f[k]]]
  <2>7. g \in [0..m -> Nat] BY <1>4, <2>6
  <2>8. g[0] = at[a] /\ g[m] = at[b]
    <3>1. 0 \in 0..m /\ m \in 0..m BY <2>4
    <3> QED BY <2>3, <3>1
  <2>9. seqs \in Seq(Seq(Y)) /\ Len(seqs) = m
    <3> DEFINE Q == Seq(Y)
    <3>1. seqs = [k \in 1..m |-> seqs[k]] BY DEF m
    <3>2. \A k \in 1..m : seqs[k] \in Q BY <2>5
    <3> HIDE DEF Q, seqs
    <3>3. seqs \in [1..m -> Q] BY <3>1, <3>2
    <3>4. seqs \in Seq(Q) /\ Len(seqs) = m BY <2>4, <3>3
    <3> QED BY <3>4 DEF Q
  <2>10. \A k \in 1..m : <<g[k - 1], g[k], seqs[k]>> \in U
    <3> SUFFICES ASSUME NEW k \in 1..m PROVE <<g[k - 1], g[k], seqs[k]>> \in U OBVIOUS
    <3>1. k \in 0..m /\ k - 1 \in 0..m BY <2>4
    <3>2. g[k - 1] = at[f[k - 1]] /\ g[k] = at[f[k]] BY <3>1
    <3>3. g[k - 1] \in Nat /\ g[k] \in Nat BY <2>7, <3>1
    <3>4. seqs[k] \in Seq(Y) /\ Laid(seqs[k], T, g[k - 1], g[k]) BY <2>5, <3>2
    <3> HIDE DEF seqs, g
    <3> QED BY <3>3, <3>4
  <2> HIDE DEF seqs, g, U
  <2>11. Laid(seqs, U, at[a], at[b]) BY <2>7, <2>8, <2>9, <2>10 DEF Laid
  <2>12. \A x, y \in Nat, w \in Seq(Y) : <<x, y, w>> \in U => Laid(w, T, x, y) BY DEF U
  <2>13. FlattenSeq(seqs) \in Seq(Y) /\ Laid(FlattenSeq(seqs), T, at[a], at[b])
    BY <2>9, <2>11, <2>12, LaidFlatten
  <2> QED BY <1>2, <1>7, <2>13 DEF Y, T, n
<1> QED BY <1>6, <1>7

\* The span between a place and itself is empty.
LEMMA SpanNone ==
    ASSUME NEW s, NEW x \in Nat
    PROVE  Span(s, x, x) = <<>>
<1>1. 1..x - x = {} OBVIOUS
<1> QED BY <1>1 DEF Span

\* Places that only grow are between the first and the last.
LEMMA PlacesGrow ==
    ASSUME NEW m \in Nat, NEW f \in [0..m -> Nat], \A k \in 1..m : f[k - 1] <= f[k]
    PROVE  \A k \in 0..m : f[0] <= f[k] /\ f[k] <= f[m]
<1> DEFINE S == {k \in 0..m : \A j \in 0..k : f[j] <= f[k]}
<1>1. \A k \in 0..m : f[k] \in Nat OBVIOUS
<1>2. 0 \in S
  <2>1. 0 \in 0..m /\ \A j \in 0..0 : j = 0 OBVIOUS
  <2> QED BY <1>1, <2>1
<1>3. ASSUME NEW k \in 1..m, k - 1 \in S PROVE k \in S
  <2>1. k \in 0..m /\ k - 1 \in 0..m /\ \A j \in 0..k : j \in 0..m /\ (j = k \/ j \in 0..k - 1)
    OBVIOUS
  <2>2. \A j \in 0..k - 1 : f[j] <= f[k - 1] BY <1>3
  <2>3. f[k - 1] <= f[k] OBVIOUS
  <2>4. \A j \in 0..k : f[j] <= f[k] BY <1>1, <2>1, <2>2, <2>3
  <2> QED BY <2>1, <2>4
<1> HIDE DEF S
<1>4. 0..m \subseteq S BY <1>2, <1>3, LoopKeeps
<1>5. m \in S /\ \A k \in 0..m : k \in S /\ 0 \in 0..k /\ k \in 0..m BY <1>4
<1> QED BY <1>5 DEF S

\* The kind of a row.
LEMMA KindIs ==
    ASSUME NEW text, NEW seg, NEW piece
    PROVE  SourceType(text, seg, piece) \in {"assessment", "embed", "nav", "prose"}
<1>1. \A c : DominantWidget(text, c) \in {"assessment", "embed", "none"} BY DEF DominantWidget
<1>2. Classify(text, piece) \in {"assessment", "embed", "nav", "prose"} BY <1>1 DEF Classify
<1> QED BY <1>1, <1>2 DEF SourceType

-----------------------------------------------------------------------------
\* A row between two places of a text: from where the gaps it begins with end,
\* it is as a passage may be, and under the headings its lines are under.
RowsOf(text) ==
    [content : Seq(1..Len(text)), path : PathsOf(text) \cup {<<>>},
     kind : {"assessment", "embed", "nav", "prose"}]
OwnFrom(text, p, o) ==
    o = p \/ (p = 0 /\ \A r \in 1..o : \A i \in 1..Whole(text)[r] : IsGap(text, i))
IsRow(text, p, q, row) ==
    /\ p < q /\ q <= Len(Whole(text)) /\ row.content = Span(Whole(text), p, q)
    /\ q < Len(Whole(text)) /\ q - p < HardMax => ~InCode(text, Whole(text)[q + 1])
    /\ \E o \in p..q :
         /\ OwnFrom(text, p, o) /\ FitsIn(text, o, q)
         /\ \A r \in o + 1..q :
              IsGap(text, Whole(text)[r]) \/ row.path = PathAt(text, Whole(text)[r])
TextRows(text) == {t \in Nat \X Nat \X RowsOf(text) : IsRow(text, t[1], t[2], t[3])}

\* A section's rows.
LEMMA EmitIs ==
    ASSUME NEW text \in Seq(TextLines), NEW at, LineEnds(text, at), NEW a \in Nat, NEW b \in Nat,
           NEW seg \in SegsOf(text), IsSeg(text, a, b, seg), Fences(text)[a] = NoFence,
           NEW from \in Nat, from <= at[a],
           from = at[a] \/ (from = 0 /\ \A i \in 1..a : IsGap(text, i))
    PROVE  LET rows == Emit(text, Span(Whole(text), from, at[a]), seg)
           IN  rows \in Seq(RowsOf(text)) /\ rows # <<>> /\ Laid(rows, TextRows(text), from, at[b])
<1> DEFINE n == Len(text)  L == 1..n  s == Whole(text)  T == CutSet(text)  R == RowsOf(text)
           prefix == Span(s, from, at[a])
           pieces == Subsplit(text, seg.lines)  m == Len(pieces)
           Content(k) == IF k = 1 THEN prefix \o pieces[k] ELSE pieces[k]
           Row(k) == [content |-> Content(k), path |-> seg.path,
                      kind |-> SourceType(text, seg, pieces[k])]
           rows == Emit(text, prefix, seg)
<1>1. /\ a < b /\ b <= n /\ seg.lines = LinesFrom(a, b) /\ \A j \in a + 1..b : PathAt(text, j) = seg.path
      /\ b = n \/ Fences(text)[b] = NoFence
  BY DEF IsSeg
<1>2. n \in Nat /\ a \in 0..n /\ b \in 0..n BY <1>1
<1>3. /\ Len(s) \in Nat
      /\ \A r \in 1..Len(s) : s[r] \in 1..n /\ \A z \in 0..n : s[r] <= z <=> r <= at[z]
      /\ \A z \in 0..n : at[z] \in Nat /\ at[z] <= Len(s)
  BY LineOf
<1>4. s \in Seq(L) BY DEF LineEnds
<1>5. at[a] < at[b]
  <2>1. \A y, z \in 0..n : y <= z => at[y] <= at[z] BY LineOf
  <2>2. b \in 1..n /\ b - 1 \in 0..n /\ a <= b - 1 BY <1>1, <1>2
  <2>3. at[b - 1] < at[b] /\ at[a] <= at[b - 1] BY <1>2, <2>1, <2>2 DEF LineEnds
  <2>4. at[a] \in Nat /\ at[b] \in Nat /\ at[b - 1] \in Nat BY <1>2, <1>3, <2>2
  <2> QED BY <2>3, <2>4
<1>6. pieces \in Seq(Seq(L)) /\ Laid(pieces, T, at[a], at[b])
  <2> DEFINE cuts == Subsplit(text, LinesFrom(a, b))
  <2>1. cuts \in Seq(Seq(L)) /\ Laid(cuts, T, at[a], at[b]) BY <1>1, SubsplitIs
  <2>2. pieces = cuts BY <1>1
  <2> HIDE DEF cuts, pieces
  <2> QED BY <2>1, <2>2
<1>7. rows = [k \in 1..m |-> Row(k)] BY DEF Emit
<1> HIDE DEF rows, pieces
<1>8. PICK f \in [0..m -> Nat] :
        f[0] = at[a] /\ f[m] = at[b] /\ \A k \in 1..m : <<f[k - 1], f[k], pieces[k]>> \in T
  BY <1>6 DEF Laid
<1>9. m \in Nat
  <2> DEFINE Q == Seq(L)
  <2>1. pieces \in Seq(Q) BY <1>6
  <2> HIDE DEF Q
  <2> QED BY <2>1
<1> HIDE DEF m, n, s, L
<1>10. \A k \in 1..m :
         /\ k \in 0..m /\ k - 1 \in 0..m /\ f[k] \in Nat /\ f[k - 1] \in Nat
         /\ f[k - 1] < f[k] /\ pieces[k] = Span(s, f[k - 1], f[k])
         /\ FitsIn(text, f[k - 1], f[k]) /\ f[k] <= Len(s)
         /\ f[k] < Len(s) /\ f[k] - f[k - 1] < HardMax => ~InCode(text, s[f[k] + 1])
  <2> SUFFICES ASSUME NEW k \in 1..m
               PROVE  /\ k \in 0..m /\ k - 1 \in 0..m /\ f[k] \in Nat /\ f[k - 1] \in Nat
                      /\ IsCut(text, f[k - 1], f[k], pieces[k])
    BY DEF IsCut, s
  <2>1. k \in 0..m /\ k - 1 \in 0..m BY <1>9
  <2>2. <<f[k - 1], f[k], pieces[k]>> \in T BY <1>8
  <2>3. IsCut(text, f[k - 1], f[k], pieces[k]) BY <2>2 DEF CutSet
  <2> QED BY <2>1, <2>3
<1>11. \A k \in 0..m : at[a] <= f[k] /\ f[k] <= at[b]
  <2>1. \A k \in 1..m : f[k - 1] <= f[k] BY <1>10
  <2>2. \A k \in 0..m : f[0] <= f[k] /\ f[k] <= f[m] BY <1>9, <2>1, PlacesGrow
  <2> QED BY <1>8, <2>2
<1>12. m >= 1
  <2>1. SUFFICES ASSUME m = 0 PROVE FALSE BY <1>9
  <2>2. at[a] = at[b] BY <1>8, <2>1
  <2>3. at[a] \in Nat /\ at[b] \in Nat BY <1>2, <1>3
  <2> QED BY <1>5, <2>2, <2>3
<1> DEFINE g == [k \in 0..m |-> IF k = 0 THEN from ELSE f[k]]
<1>13. g \in [0..m -> Nat] /\ g[0] = from /\ g[m] = at[b]
  <2>1. 0 \in 0..m /\ m \in 0..m /\ m # 0 BY <1>9, <1>12
  <2> QED BY <1>8, <2>1
<1>14. ASSUME NEW k \in 1..m
       PROVE  LET p == g[k - 1]  q == g[k]  o == f[k - 1]
              IN  /\ p \in Nat /\ q \in Nat /\ q = f[k] /\ o \in p..q /\ OwnFrom(text, p, o)
                  /\ Content(k) = Span(s, p, q)
  <2>1. k \in 0..m /\ k - 1 \in 0..m /\ k # 0 /\ (k - 1 = 0 <=> k = 1) BY <1>9
  <2>2. g[k] = f[k] BY <2>1
  <2>3. CASE k = 1
    <3> DEFINE o == f[k - 1]  q == f[k]
    <3>1. g[k - 1] = from /\ o = at[a] BY <1>8, <2>1, <2>3
    <3>2. o \in Nat /\ q \in Nat /\ o < q /\ q <= Len(s) /\ pieces[k] = Span(s, o, q) BY <1>10
    <3>3. Content(k) = Span(s, from, o) \o Span(s, o, q) BY <2>3, <3>1, <3>2
    <3>4. from <= o /\ o <= q BY <3>1, <3>2
    <3> HIDE DEF o, q, g, Content
    <3>5. Span(s, from, o) \o Span(s, o, q) = Span(s, from, q)
      <4>1. from \in Nat BY <1>4
      <4>2. o \in Nat BY <3>2
      <4>3. q \in Nat BY <3>2
      <4>4. from <= o BY <3>4
      <4>5. o <= q BY <3>4
      <4>6. q <= Len(s) BY <3>2
      <4>7. s \in Seq(1..n) BY <1>4 DEF L
      <4> HIDE DEF s
      <4> QED BY <4>1, <4>2, <4>3, <4>4, <4>5, <4>6, <4>7, SpansJoin
    <3>6. o \in from..q BY <3>2, <3>4
    <3>7. OwnFrom(text, from, o)
      <4>1. CASE from = at[a] BY <3>1, <4>1 DEF OwnFrom
      <4>2. CASE from = 0 /\ \A i \in 1..a : IsGap(text, i)
        <5> SUFFICES ASSUME NEW r \in 1..o, NEW i \in 1..s[r] PROVE IsGap(text, i)
          BY <4>2 DEF OwnFrom, s
        <5>1. r \in 1..Len(s) /\ r <= at[a] BY <1>3, <3>1, <3>2
        <5>2. s[r] \in 1..n /\ s[r] <= a BY <1>2, <1>3, <5>1
        <5>3. i \in 1..a BY <1>2, <5>2
        <5> QED BY <4>2, <5>3
      <4> QED BY <4>1, <4>2
    <3> QED BY <2>2, <3>1, <3>2, <3>3, <3>5, <3>6, <3>7 DEF o, q
  <2>4. CASE k # 1
    <3>1. g[k - 1] = f[k - 1] BY <2>1, <2>4
    <3>2. Content(k) = pieces[k] BY <2>4
    <3> HIDE DEF g, Content
    <3>3. f[k - 1] \in Nat /\ f[k] \in Nat /\ f[k - 1] < f[k] /\ pieces[k] = Span(s, f[k - 1], f[k])
      BY <1>10
    <3>4. f[k - 1] \in f[k - 1]..f[k] BY <3>3
    <3> QED BY <2>2, <3>1, <3>2, <3>3, <3>4 DEF OwnFrom
  <2> QED BY <2>3, <2>4
<1> HIDE DEF g
<1>15. ASSUME NEW k \in 1..m PROVE Row(k) \in R /\ IsRow(text, g[k - 1], g[k], Row(k))
  <2> DEFINE p == g[k - 1]  q == g[k]  o == f[k - 1]  row == Row(k)
  <2>1. /\ p \in Nat /\ q \in Nat /\ q = f[k] /\ o \in p..q /\ OwnFrom(text, p, o)
        /\ Content(k) = Span(s, p, q)
    BY <1>14
  <2>2. /\ o \in Nat /\ o < q /\ q <= Len(s) /\ FitsIn(text, o, q)
        /\ q < Len(s) /\ q - o < HardMax => ~InCode(text, s[q + 1])
    BY <1>10, <2>1
  <2>3. at[a] <= o /\ q <= at[b] BY <1>10, <1>11, <2>1
  <2>4. row.content = Span(s, p, q) /\ row.path = seg.path BY <2>1
  <2>5. p < q /\ p <= q BY <2>1, <2>2
  <2>6. row \in R
    <3> DEFINE c == Content(k)  t == SourceType(text, seg, pieces[k])
    <3>1. Span(s, p, q) \in Seq(L)
      <4> HIDE DEF p, q
      <4> QED BY <1>4, <2>1, <2>2, <2>5, SpanIs
    <3>2. seg.path \in PathsOf(text) BY DEF SegsOf
    <3>3. t \in {"assessment", "embed", "nav", "prose"} BY KindIs
    <3>4. c \in Seq(L) BY <2>1, <3>1
    <3> HIDE DEF c, t
    <3>5. [content |-> c, path |-> seg.path, kind |-> t] \in R BY <3>2, <3>3, <3>4 DEF RowsOf, L, n
    <3> QED BY <3>5 DEF c, t
  <2> HIDE DEF p, q, o, row
  <2>7. \A r \in o + 1..q : row.path = PathAt(text, s[r])
    <3> SUFFICES ASSUME NEW r \in o + 1..q PROVE row.path = PathAt(text, s[r]) OBVIOUS
    <3>1. at[a] \in Nat /\ at[b] \in Nat BY <1>2, <1>3
    <3>2. r \in 1..Len(s) /\ ~(r <= at[a]) /\ r <= at[b] BY <1>3, <2>1, <2>2, <2>3, <3>1
    <3>3. s[r] \in 1..n /\ ~(s[r] <= a) /\ s[r] <= b BY <1>2, <1>3, <3>2
    <3>4. s[r] \in a + 1..b BY <1>2, <3>3
    <3> QED BY <1>1, <2>4, <3>4
  <2>8. q < Len(s) /\ q - p < HardMax => ~InCode(text, s[q + 1])
    <3>1. HardMax \in Nat BY PassagesAssumption
    <3>2. p \in Nat /\ q \in Nat /\ o \in Nat /\ p <= o BY <2>1, <2>2
    <3>3. q - o \in Int /\ q - p \in Int /\ q - o <= q - p BY <3>2
    <3> DEFINE x == q - o  y == q - p
    <3>4. x \in Int /\ y \in Int /\ x <= y BY <3>3
    <3> HIDE DEF x, y
    <3>5. y < HardMax => x < HardMax BY <3>1, <3>4
    <3> QED BY <2>2, <3>5 DEF x, y
  <2>9. IsRow(text, p, q, row) BY <2>1, <2>2, <2>4, <2>5, <2>7, <2>8 DEF IsRow, s
  <2> QED BY <2>6, <2>9 DEF p, q, row
<1> HIDE DEF Row, R
<1>16. rows \in Seq(R) /\ Len(rows) = m /\ \A k \in 1..m : rows[k] = Row(k)
  <2>1. rows \in [1..m -> R] /\ \A k \in 1..m : rows[k] = Row(k) BY <1>7, <1>15
  <2> QED BY <1>9, <2>1
<1>17. \A k \in 1..m : <<g[k - 1], g[k], rows[k]>> \in TextRows(text)
  <2> SUFFICES ASSUME NEW k \in 1..m PROVE <<g[k - 1], g[k], rows[k]>> \in TextRows(text) OBVIOUS
  <2>1. g[k - 1] \in Nat /\ g[k] \in Nat BY <1>14
  <2>2. Row(k) \in R /\ IsRow(text, g[k - 1], g[k], Row(k)) /\ rows[k] = Row(k) BY <1>15, <1>16
  <2> QED BY <2>1, <2>2 DEF TextRows, R
<1>18. Laid(rows, TextRows(text), from, at[b]) BY <1>13, <1>16, <1>17 DEF Laid
<1>19. rows # <<>>
  <2>1. Len(rows) # 0 BY <1>9, <1>12, <1>16
  <2> QED BY <2>1
<1> QED BY <1>16, <1>18, <1>19 DEF rows, prefix, R, s

\* The rows of a text are all of it.
LEMMA ChunksAre ==
    ASSUME NEW text \in Seq(TextLines), ChunkText(text) # <<>>
    PROVE  /\ ChunkText(text) \in Seq(RowsOf(text))
           /\ Laid(ChunkText(text), TextRows(text), 0, Len(Whole(text)))
<1> DEFINE n == Len(text)  L == 1..n  s == Whole(text)  N == Len(s)  R == RowsOf(text)
           T == TextRows(text)  F == Fences(text)  segs == SegmentText(text)  m == Len(segs)
           X == [out : Seq(R), prefix : Seq(L)]
           v == [out |-> <<>>, prefix |-> <<>>]
           Stepped(w, k) == ChunkStep(text, w, segs[k])
           step == [k \in 1..m |-> [w \in X |-> IF Stepped(w, k) \in X THEN Stepped(w, k) ELSE v]]
           Is(f) == f = [k \in 0..m |-> IF k = 0 THEN v ELSE Stepped(f[k - 1], k)]
           cut == CHOOSE f : Is(f)  done == cut[m]
           Rest(w) == [content |-> w.prefix, path |-> <<>>, kind |-> "nav"]
<1>1. PICK at : LineEnds(text, at) BY EndsAre
<1>2. n \in Nat /\ s \in Seq(L) /\ at[0] = 0 /\ at[n] = N
  <2>1. n \in Nat OBVIOUS
  <2> QED BY <1>1, <2>1 DEF LineEnds
<1>3. \A z \in 0..n : at[z] \in Nat /\ at[z] <= N BY <1>1, LineOf
<1>4. \A x, y \in 0..n : x <= y => at[x] <= at[y] /\ Points(text, LinesFrom(x, y)) = Span(s, at[x], at[y])
  BY <1>1 DEF LineEnds
<1>5. F[0] = NoFence BY FencesAre
<1>6. segs \in Seq(SegsOf(text)) /\ Laid(segs, SegSet(text), 0, n) BY SegmentsAre
<1>7. m \in Nat /\ \A k \in 1..m : segs[k] \in SegsOf(text)
  <2> DEFINE Q == SegsOf(text)
  <2>1. segs \in Seq(Q) BY <1>6
  <2> HIDE DEF Q, segs
  <2> QED BY <2>1 DEF Q
<1>8. ChunkText(text) = IF done.prefix = <<>> THEN done.out ELSE Append(done.out, Rest(done))
  BY DEF ChunkText
<1>9. PICK g \in [0..m -> Nat] :
        g[0] = 0 /\ g[m] = n /\ \A k \in 1..m : <<g[k - 1], g[k], segs[k]>> \in SegSet(text)
  BY <1>6 DEF Laid
<1> HIDE DEF m, segs, n, s, N, F, cut
<1>10. \A k \in 1..m : /\ IsSeg(text, g[k - 1], g[k], segs[k])
                       /\ g[k - 1] \in Nat /\ g[k] \in Nat /\ g[k - 1] < g[k] /\ g[k] <= n
  <2> SUFFICES ASSUME NEW k \in 1..m
               PROVE  /\ IsSeg(text, g[k - 1], g[k], segs[k])
                      /\ g[k - 1] \in Nat /\ g[k] \in Nat /\ g[k - 1] < g[k] /\ g[k] <= n
    OBVIOUS
  <2>1. k \in 0..m /\ k - 1 \in 0..m BY <1>7
  <2>2. IsSeg(text, g[k - 1], g[k], segs[k]) BY <1>9 DEF SegSet
  <2> QED BY <2>1, <2>2 DEF IsSeg, n
<1>11. \A k \in 1..m : F[g[k - 1]] = NoFence
  <2> SUFFICES ASSUME NEW k \in 1..m PROVE F[g[k - 1]] = NoFence OBVIOUS
  <2>1. CASE k = 1
    <3>1. k - 1 = 0 BY <2>1
    <3> QED BY <1>5, <1>9, <3>1
  <2>2. CASE k # 1
    <3>1. k - 1 \in 1..m BY <1>7, <2>2
    <3>2. g[k - 1] < g[k] /\ g[k] <= n /\ g[k - 1] \in Nat /\ g[k] \in Nat BY <1>10
    <3>3. g[k - 1] # n BY <1>2, <3>2
    <3>4. IsSeg(text, g[(k - 1) - 1], g[k - 1], segs[k - 1]) BY <1>10, <3>1
    <3> QED BY <3>3, <3>4 DEF IsSeg, n, F
  <2> QED BY <2>1, <2>2
<1> HIDE DEF X
\* Before anything is written there are gaps only; then all that was read is written.
<1> DEFINE Keeps(w, e) ==
             /\ w \in X
             /\ \/ w.out = <<>> /\ w.prefix = Span(s, 0, at[e]) /\ \A i \in 1..e : IsGap(text, i)
                \/ w.out # <<>> /\ w.prefix = <<>> /\ Laid(w.out, T, 0, at[e]) /\ e > 0
<1>12. \A w \in X : w.out \in Seq(R) /\ w.prefix \in Seq(L) BY DEF X
<1>13. ASSUME NEW o \in Seq(R), NEW p \in Seq(L) PROVE [out |-> o, prefix |-> p] \in X BY DEF X
<1>14. /\ \A o \in Seq(R) : [out |-> o, prefix |-> <<>>] \in X
       /\ v \in X
  <2> DEFINE P == Seq(L)  Q == Seq(R)
  <2>1. <<>> \in P /\ <<>> \in Q OBVIOUS
  <2>2. \A o \in Q, p \in P : [out |-> o, prefix |-> p] \in X BY <1>13
  <2> HIDE DEF P, Q
  <2>3. \A o \in Q : [out |-> o, prefix |-> <<>>] \in X BY <2>1, <2>2
  <2> QED BY <2>1, <2>3 DEF Q
<1>15. ASSUME NEW k \in 1..m, NEW w, Keeps(w, g[k - 1]) PROVE Keeps(Stepped(w, k), g[k])
  <2> DEFINE a == g[k - 1]  b == g[k]  seg == segs[k]  u == Stepped(w, k)
  <2>1. /\ IsSeg(text, a, b, seg) /\ a \in Nat /\ b \in Nat /\ a < b /\ b <= n
        /\ F[a] = NoFence /\ seg \in SegsOf(text)
    BY <1>7, <1>10, <1>11
  <2>2. u = IF ~IsEmpty(text, seg)
            THEN [out |-> w.out \o Emit(text, w.prefix, seg), prefix |-> <<>>]
            ELSE IF w.out = <<>>
            THEN [w EXCEPT !.prefix = w.prefix \o Points(text, seg.lines)]
            ELSE [w EXCEPT !.out[Len(w.out)].content =
                     w.out[Len(w.out)].content \o Points(text, seg.lines)]
    BY DEF ChunkStep
  <2> HIDE DEF u
  <2>3. w \in X /\ w.out \in Seq(R) /\ w.prefix \in Seq(L) BY <1>12, <1>15
  <2>4. \/ w.out = <<>> /\ w.prefix = Span(s, 0, at[a]) /\ \A i \in 1..a : IsGap(text, i)
        \/ w.out # <<>> /\ w.prefix = <<>> /\ Laid(w.out, T, 0, at[a]) /\ a > 0
    BY <1>15
  <2> HIDE DEF a, b, seg
  <2>5. /\ a \in 0..n /\ b \in 0..n /\ a <= b /\ at[a] \in Nat /\ at[b] \in Nat
        /\ at[a] <= at[b] /\ at[b] <= N
    <3>1. a \in 0..n /\ b \in 0..n /\ a <= b BY <1>2, <2>1
    <3> QED BY <1>3, <1>4, <3>1
  <2>6. ASSUME NEW from \in Nat, from <= at[a], w.prefix = Span(s, from, at[a]),
               from = at[a] \/ (from = 0 /\ \A i \in 1..a : IsGap(text, i))
        PROVE  LET rows == Emit(text, w.prefix, seg)
               IN  rows \in Seq(R) /\ rows # <<>> /\ Laid(rows, T, from, at[b])
    <3> DEFINE rows == Emit(text, Span(s, from, at[a]), seg)
    <3>1. rows \in Seq(R) /\ rows # <<>> /\ Laid(rows, T, from, at[b])
      <4>1. b <= Len(text) /\ Fences(text)[a] = NoFence BY <2>1 DEF n, F
      <4> HIDE DEF R, T
      <4> QED BY <1>1, <2>1, <2>6, <4>1, EmitIs DEF s, R, T
    <3> QED BY <2>6, <3>1
  <2>7. \A i \in a + 1..b : IsEmpty(text, seg) => IsGap(text, i)
    <3>1. seg.lines = LinesFrom(a, b) BY <2>1 DEF IsSeg
    <3>2. Len(LinesFrom(a, b)) = b - a BY <1>2, <2>1, <2>5, LinesAre
    <3>3. \A k1 \in 1..b - a : LinesFrom(a, b)[k1] = a + k1 /\ a + k1 \in 1..n BY <1>2, <2>1, <2>5, LinesAre
    <3> SUFFICES ASSUME NEW i \in a + 1..b, IsEmpty(text, seg) PROVE IsGap(text, i) OBVIOUS
    <3>4. i - a \in 1..b - a /\ a + (i - a) = i BY <2>1
    <3>5. LinesFrom(a, b)[i - a] = i BY <3>3, <3>4
    <3>6. IsGap(text, seg.lines[i - a]) BY <3>1, <3>2, <3>4 DEF IsEmpty
    <3> QED BY <3>1, <3>5, <3>6
  <2>8. CASE w.out = <<>> /\ w.prefix = Span(s, 0, at[a]) /\ \A i \in 1..a : IsGap(text, i)
    <3>1. CASE ~IsEmpty(text, seg)
      <4> DEFINE rows == Emit(text, w.prefix, seg)
      <4>1. rows \in Seq(R) /\ rows # <<>> /\ Laid(rows, T, 0, at[b])
        <5>1. 0 \in Nat /\ 0 <= at[a] BY <2>5
        <5> HIDE DEF R, T
        <5> QED BY <2>6, <2>8, <5>1
      <4>2. u = [out |-> w.out \o rows, prefix |-> <<>>] BY <2>2, <3>1
      <4> HIDE DEF rows, R, T
      <4>3. w.out \o rows = rows BY <2>8, <4>1
      <4>4. u = [out |-> rows, prefix |-> <<>>] BY <4>2, <4>3
      <4>5. u \in X BY <1>14, <4>1, <4>4
      <4>6. b > 0 BY <2>1
      <4> QED BY <4>1, <4>4, <4>5, <4>6 DEF b, u
    <3>2. CASE IsEmpty(text, seg)
      <4> DEFINE more == Points(text, seg.lines)
      <4>1. u = [w EXCEPT !.prefix = w.prefix \o more] BY <2>2, <2>8, <3>2
      <4>2. more = Span(s, at[a], at[b])
        <5>1. seg.lines = LinesFrom(a, b) BY <2>1 DEF IsSeg
        <5> QED BY <1>4, <2>5, <5>1
      <4> HIDE DEF more
      <4>3. w.prefix \o more = Span(s, 0, at[b])
        <5> DEFINE x == at[a]  y == at[b]
        <5>1. x \in Nat /\ y \in Nat /\ x <= y /\ y <= Len(s) /\ 0 <= x /\ 0 \in Nat BY <2>5 DEF N
        <5>2. w.prefix = Span(s, 0, x) /\ more = Span(s, x, y) BY <2>8, <4>2
        <5> HIDE DEF x, y, L
        <5>3. Span(s, 0, x) \o Span(s, x, y) = Span(s, 0, y) BY <1>2, <5>1, SpansJoin
        <5> QED BY <5>2, <5>3 DEF y
      <4>4. Span(s, 0, at[b]) \in Seq(L)
        <5> DEFINE y == at[b]
        <5>1. y \in Nat /\ y <= Len(s) /\ 0 <= y /\ 0 \in Nat BY <2>5 DEF N
        <5> HIDE DEF y, L
        <5>2. Span(s, 0, y) \in Seq(L) BY <1>2, <5>1, SpanIs
        <5> QED BY <5>2 DEF y
      <4>5. u = [out |-> w.out, prefix |-> Span(s, 0, at[b])] BY <2>3, <4>1, <4>3 DEF X
      <4>6. u \in X
        <5> HIDE DEF R, L
        <5> QED BY <1>13, <2>3, <4>4, <4>5
      <4>7. \A i \in 1..b : IsGap(text, i)
        <5>1. \A i \in 1..b : i \in 1..a \/ i \in a + 1..b BY <2>1
        <5> QED BY <2>7, <2>8, <3>2, <5>1
      <4>8. u.out = <<>> /\ u.prefix = Span(s, 0, at[b]) BY <2>8, <4>5
      <4> HIDE DEF R, L, T
      <4> QED BY <4>6, <4>7, <4>8 DEF b, u
    <3> QED BY <3>1, <3>2
  <2>9. CASE w.out # <<>> /\ w.prefix = <<>> /\ Laid(w.out, T, 0, at[a]) /\ a > 0
    <3>1. ~IsEmpty(text, seg)
      <4>1. ~IsGap(text, a + 1) BY <2>1, <2>9 DEF IsSeg
      <4>2. a + 1 \in a + 1..b BY <2>1
      <4> QED BY <2>7, <4>1, <4>2
    <3> DEFINE rows == Emit(text, w.prefix, seg)  out == w.out \o rows
    <3>2. rows \in Seq(R) /\ rows # <<>> /\ Laid(rows, T, at[a], at[b])
      <4>1. at[a] <= at[a] /\ Span(s, at[a], at[a]) = <<>> BY <2>5, SpanNone
      <4> HIDE DEF R, T
      <4> QED BY <2>5, <2>6, <2>9, <4>1
    <3>3. u = [out |-> out, prefix |-> <<>>] BY <2>2, <3>1
    <3> HIDE DEF rows, R, T
    <3>4. out \in Seq(R) /\ out # <<>> BY <2>3, <2>9, <3>2
    <3>5. Laid(out, T, 0, at[b])
      <4> DEFINE o == w.out
      <4>1. o \in Seq(R) /\ Laid(o, T, 0, at[a]) BY <2>3, <2>9
      <4> HIDE DEF o
      <4>2. Laid(o \o rows, T, 0, at[b]) BY <3>2, <4>1, LaidJoin
      <4> QED BY <4>2 DEF o
    <3> HIDE DEF out
    <3>6. u \in X BY <1>14, <3>3, <3>4
    <3>7. b > 0 BY <2>1
    <3>8. u.out = out /\ u.prefix = <<>> BY <3>3
    <3> QED BY <3>4, <3>5, <3>6, <3>7, <3>8 DEF b, u
  <2> QED BY <2>4, <2>8, <2>9
<1>16. v \in X /\ Keeps(v, g[0])
  <2>1. v \in X BY <1>14
  <2>2. Span(s, 0, 0) = <<>> BY SpanNone
  <2>3. 1..0 = {} OBVIOUS
  <2> HIDE DEF T
  <2> QED BY <1>2, <1>9, <2>1, <2>2, <2>3
<1>17. PICK f : Ran(f, m, X, v, step)
  <2>1. v \in X BY <1>16
  <2> HIDE DEF Stepped, v
  <2>2. step \in [1..m -> [X -> X]] BY <2>1
  <2> HIDE DEF step
  <2> QED BY <1>7, <2>1, <2>2, LoopRuns
<1>18. ASSUME NEW h, h[0] = v,
              \A k \in 1..m : Keeps(h[k - 1], g[k - 1]) => h[k] = Stepped(h[k - 1], k)
       PROVE  \A k \in 0..m : Keeps(h[k], g[k])
  <2> DEFINE S == {k \in 0..m : Keeps(h[k], g[k])}
  <2> HIDE DEF Keeps, Stepped, v
  <2>1. 0 \in S BY <1>7, <1>16, <1>18
  <2>2. ASSUME NEW k \in 1..m, k - 1 \in S PROVE k \in S
    <3>1. k \in 0..m BY <1>7
    <3>2. Keeps(h[k - 1], g[k - 1]) BY <2>2
    <3>3. h[k] = Stepped(h[k - 1], k) BY <1>18, <3>2
    <3> QED BY <1>15, <3>1, <3>2, <3>3
  <2> HIDE DEF S
  <2>3. 0..m \subseteq S BY <1>7, <2>1, <2>2, LoopKeeps
  <2> QED BY <2>3 DEF S
<1>19. Is(f)
  <2>1. \A k \in 1..m : k - 1 \in 0..m /\ k \in 0..m BY <1>7
  <2>2. f \in [0..m -> X] /\ f[0] = v /\ \A k \in 1..m : f[k] = step[k][f[k - 1]] BY <1>17 DEF Ran
  <2>3. ASSUME NEW k \in 1..m, Keeps(f[k - 1], g[k - 1]) PROVE f[k] = Stepped(f[k - 1], k)
    <3>1. Keeps(Stepped(f[k - 1], k), g[k]) BY <1>15, <2>3
    <3>2. Stepped(f[k - 1], k) \in X BY <3>1
    <3>3. f[k - 1] \in X /\ f[k] = step[k][f[k - 1]] BY <2>1, <2>2
    <3> HIDE DEF Stepped, v
    <3> QED BY <3>2, <3>3
  <2> HIDE DEF Keeps, Stepped, v, step
  <2>4. \A k \in 0..m : Keeps(f[k], g[k]) BY <1>18, <2>2, <2>3
  <2>5. \A k \in 1..m : f[k] = Stepped(f[k - 1], k) BY <2>1, <2>3, <2>4
  <2>6. \A k \in 0..m : k # 0 => k \in 1..m BY <1>7
  <2> QED BY <2>2, <2>5, <2>6
<1>20. Is(cut) BY <1>19 DEF cut
<1>21. Keeps(done, n)
  <2>1. cut[0] = v /\ \A k \in 1..m : cut[k] = Stepped(cut[k - 1], k)
    <3>1. 0 \in 0..m /\ \A k \in 1..m : k \in 0..m /\ k # 0 BY <1>7
    <3> HIDE DEF Stepped, v
    <3> QED BY <1>20, <3>1
  <2> HIDE DEF Keeps, Stepped, v
  <2>2. \A k \in 0..m : Keeps(cut[k], g[k]) BY <1>18, <2>1
  <2>3. m \in 0..m BY <1>7
  <2> QED BY <1>9, <2>2, <2>3
<1> HIDE DEF done
<1>22. CASE done.prefix = <<>>
  <2>1. ChunkText(text) = done.out BY <1>8, <1>22
  <2>2. Laid(done.out, T, 0, at[n]) BY <1>21, <2>1
  <2>3. done.out \in Seq(R) BY <1>12, <1>21
  <2> QED BY <1>2, <2>1, <2>2, <2>3 DEF N, s
<1>23. CASE done.prefix # <<>>
  <2>1. done.out = <<>> /\ done.prefix = Span(s, 0, N) /\ \A i \in 1..n : IsGap(text, i)
    BY <1>2, <1>21, <1>23
  <2> DEFINE row == Rest(done)
  <2>2. N \in Nat /\ N <= Len(s) /\ N <= N
    <3> HIDE DEF L
    <3> QED BY <1>2 DEF N
  <2>3. 0 < N
    <3>1. N # 0 BY <1>23, <2>1, SpanNone
    <3> QED BY <2>2, <3>1
  <2>4. row \in R
    <3>1. done.prefix \in Seq(L) BY <1>12, <1>21
    <3> QED BY <3>1 DEF RowsOf, n
  <2>5. IsRow(text, 0, N, row)
    <3>1. OwnFrom(text, 0, N)
      <4> SUFFICES ASSUME NEW r \in 1..N, NEW i \in 1..s[r] PROVE IsGap(text, i)
        BY DEF OwnFrom, s
      <4>1. s[r] \in 1..n BY <1>1, <2>2, LineOf DEF N, s, n
      <4>2. i \in 1..n BY <1>2, <4>1
      <4> QED BY <2>1, <4>2
    <3>2. FitsIn(text, N, N)
      <4>1. N - N <= MaxChars BY <2>2, PassagesAssumption
      <4> QED BY <4>1 DEF FitsIn
    <3>3. N \in 0..N /\ N + 1..N = {} BY <2>2
    <3>4. row.content = Span(s, 0, N) BY <2>1
    <3> HIDE DEF row
    <3> QED BY <2>2, <2>3, <3>1, <3>2, <3>3, <3>4 DEF IsRow, s, N
  <2>6. ChunkText(text) = <<row>>
    <3>1. ChunkText(text) = Append(done.out, row) BY <1>8, <1>23
    <3> HIDE DEF row
    <3> QED BY <2>1, <3>1
  <2> HIDE DEF row, R
  <2>7. <<0, N, row>> \in T BY <2>2, <2>4, <2>5 DEF TextRows, R
  <2>8. Laid(<<row>>, T, 0, N) /\ <<row>> \in Seq(R) BY <2>2, <2>4, <2>7, LaidOne
  <2> QED BY <2>6, <2>8 DEF N, s, R
<1> QED BY <1>22, <1>23

\* What is cut where one ends and the next begins flattens to what it is cut of.
LEMMA CutsFlatten ==
    ASSUME NEW S, NEW s \in Seq(S), NEW cs \in Seq(Seq(S)), NEW f \in [0..Len(cs) -> Nat],
           f[0] = 0, f[Len(cs)] = Len(s),
           \A k \in 1..Len(cs) :
             f[k - 1] <= f[k] /\ f[k] <= Len(s) /\ cs[k] = Span(s, f[k - 1], f[k])
    PROVE  FlattenSeq(cs) = s
<1> DEFINE m == Len(cs)
<1>1. m \in Nat /\ Len(s) \in Nat OBVIOUS
<1>2. PICK g \in [0..m -> Seq(S)] :
        /\ g[0] = <<>> /\ FlattenSeq(cs) = g[m]
        /\ \A k \in 1..m : g[k] = g[k - 1] \o cs[k]
  BY FlattenIs
<1>3. f \in [0..m -> Nat] /\ f[0] = 0 /\ f[m] = Len(s) OBVIOUS
<1>4. ASSUME NEW k \in 1..m
      PROVE  f[k - 1] <= f[k] /\ f[k] <= Len(s) /\ cs[k] = Span(s, f[k - 1], f[k])
  OBVIOUS
<1> HIDE DEF m
<1> DEFINE K == {k \in 0..m : g[k] = Span(s, 0, f[k])}
<1>5. 0 \in K
  <2>1. Span(s, 0, 0) = <<>>
    <3> DEFINE o == 0
    <3>1. o \in Nat /\ o <= o /\ o <= Len(s) BY <1>1
    <3> HIDE DEF o
    <3>2. Len(Span(s, o, o)) = o - o /\ Span(s, o, o) \in Seq(S) BY <3>1, SpanIs
    <3>3. o - o = 0 BY <3>1
    <3>4. Span(s, o, o) = <<>> BY <3>2, <3>3
    <3> QED BY <3>4 DEF o
  <2>2. 0 \in 0..m BY <1>1
  <2> QED BY <1>2, <1>3, <2>1, <2>2
<1>6. ASSUME NEW k \in 1..m, k - 1 \in K PROVE k \in K
  <2>1. k \in 0..m /\ k - 1 \in 0..m BY <1>1
  <2> DEFINE o == 0  x == f[k - 1]  y == f[k]
  <2>2. x \in Nat /\ y \in Nat BY <1>3, <2>1
  <2>3. x <= y /\ y <= Len(s) /\ cs[k] = Span(s, x, y) BY <1>4
  <2>4. g[k - 1] = Span(s, o, x) BY <1>6
  <2>5. o \in Nat OBVIOUS
  <2>6. o <= x BY <2>2
  <2> HIDE DEF o, x, y
  <2>7. Span(s, o, x) \o Span(s, x, y) = Span(s, o, y)
    <3>1. x \in Nat BY <2>2
    <3>2. y \in Nat BY <2>2
    <3>3. x <= y BY <2>3
    <3>4. y <= Len(s) BY <2>3
    <3> QED BY <2>5, <2>6, <3>1, <3>2, <3>3, <3>4, SpansJoin
  <2>8. g[k] = g[k - 1] \o cs[k] BY <1>2
  <2>9. g[k] = Span(s, o, y) BY <2>3, <2>4, <2>7, <2>8
  <2> QED BY <2>1, <2>9 DEF o, y
<1> HIDE DEF K
<1>7. 0..m \subseteq K BY <1>1, <1>5, <1>6, LoopKeeps
<1>8. m \in K BY <1>1, <1>7
<1>9. Span(s, 0, Len(s)) = s BY SpanOfAll
<1> QED BY <1>2, <1>3, <1>8, <1>9 DEF K

\* Rows that are all of a cleaned text keep it.
LEMMA TextIsKeptWhenCut ==
    ASSUME body \in Seq(TextLines), passages = ChunkText(CleanBody(body))
    PROVE  TextIsKept
<1> DEFINE text == CleanBody(body)  n == Len(text)  L == 1..n  s == Whole(text)  N == Len(s)
           m == Len(passages)  R == RowsOf(text)
           contents == [k \in 1..m |-> passages[k].content]
<1> SUFFICES ASSUME passages # <<>>
             PROVE  /\ Contents = Points(text, AllLines(text))
                    /\ Code(text) = Code(StripStyleBlocks(body))
                    /\ \A k \in DOMAIN passages :
                         Headed(text, k) /\ BeginsWhole(text, k) /\ Fits(text, k)
  BY DEF TextIsKept
<1>1. text \in Seq(TextLines) /\ Code(text) = Code(StripStyleBlocks(body)) BY CleanIs
<1> HIDE DEF text
<1>2. passages \in Seq(R) /\ Laid(passages, TextRows(text), 0, N) BY <1>1, ChunksAre DEF text
<1>3. PICK at : LineEnds(text, at) BY <1>1, EndsAre
<1>4. n \in Nat /\ s \in Seq(L) /\ at[0] = 0
  <2>1. n \in Nat BY <1>1
  <2> QED BY <1>3, <2>1 DEF LineEnds
<1>5. \A r \in 1..N : s[r] \in 1..n BY <1>1, <1>3, LineOf
<1>6. PICK f \in [0..m -> Nat] :
        f[0] = 0 /\ f[m] = N /\ \A k \in 1..m : <<f[k - 1], f[k], passages[k]>> \in TextRows(text)
  BY <1>2 DEF Laid
<1>7. m \in Nat /\ DOMAIN passages = 1..m
  <2> HIDE DEF R
  <2> QED BY <1>2
<1>8. N \in Nat
  <2> HIDE DEF L, s
  <2> QED BY <1>4
<1> HIDE DEF n, s, m, N
<1>9. \A k \in 1..m :
        /\ k \in 0..m /\ k - 1 \in 0..m /\ f[k - 1] \in Nat /\ f[k] \in Nat /\ f[k - 1] < f[k]
        /\ f[k] <= N /\ passages[k].content = Span(s, f[k - 1], f[k])
        /\ IsRow(text, f[k - 1], f[k], passages[k])
  <2> SUFFICES ASSUME NEW k \in 1..m
               PROVE  /\ k \in 0..m /\ k - 1 \in 0..m /\ f[k - 1] \in Nat /\ f[k] \in Nat
                      /\ IsRow(text, f[k - 1], f[k], passages[k])
    BY DEF IsRow, s, N
  <2>1. k \in 0..m /\ k - 1 \in 0..m BY <1>7
  <2>2. IsRow(text, f[k - 1], f[k], passages[k]) BY <1>6 DEF TextRows
  <2> QED BY <2>1, <2>2
<1>10. \A k \in 1..m :
         /\ Span(s, f[k - 1], f[k]) \in Seq(L) /\ Len(Span(s, f[k - 1], f[k])) = f[k] - f[k - 1]
         /\ DOMAIN Span(s, f[k - 1], f[k]) = 1..f[k] - f[k - 1]
         /\ \A j \in 1..f[k] - f[k - 1] : Span(s, f[k - 1], f[k])[j] = s[f[k - 1] + j]
  <2> SUFFICES ASSUME NEW k \in 1..m
               PROVE  LET c == Span(s, f[k - 1], f[k])  l == f[k] - f[k - 1]
                      IN  /\ c \in Seq(L) /\ Len(c) = l /\ DOMAIN c = 1..l
                          /\ \A j \in 1..l : c[j] = s[f[k - 1] + j]
    OBVIOUS
  <2> DEFINE p == f[k - 1]  q == f[k]  c == Span(s, p, q)
  <2>1. p \in Nat /\ q \in Nat /\ p <= q /\ q <= Len(s) BY <1>9 DEF N
  <2> HIDE DEF p, q, L
  <2>2. c \in Seq(L) BY <1>4, <2>1, SpanIs
  <2>3. Len(c) = q - p BY <1>4, <2>1, SpanIs
  <2>4. DOMAIN c = 1..q - p BY <1>4, <2>1, SpanIs
  <2>5. \A j \in 1..q - p : c[j] = s[p + j] BY DEF Span
  <2> HIDE DEF c
  <2> QED BY <2>2, <2>3, <2>4, <2>5 DEF c, p, q
\* What the contents are, one after the other.
<1>11. Contents = s
  <2>1. contents \in Seq(Seq(L)) /\ Len(contents) = m
    <3> DEFINE Q == Seq(L)
    <3>1. \A k \in 1..m : passages[k].content \in Q BY <1>9, <1>10
    <3> HIDE DEF Q
    <3>2. contents \in [1..m -> Q] BY <3>1
    <3> HIDE DEF contents
    <3>3. contents \in Seq(Q) /\ Len(contents) = m BY <1>7, <3>2
    <3> QED BY <3>3 DEF Q
  <2>2. \A k \in 1..m :
          f[k - 1] <= f[k] /\ f[k] <= N /\ contents[k] = Span(s, f[k - 1], f[k])
    BY <1>9
  <2>3. Contents = FlattenSeq(contents) BY DEF Contents, m
  <2> HIDE DEF contents, L
  <2>4. f \in [0..Len(contents) -> Nat] /\ f[Len(contents)] = Len(s) BY <1>6, <2>1 DEF N
  <2>5. FlattenSeq(contents) = s BY <1>4, <1>6, <2>1, <2>2, <2>4, CutsFlatten DEF N
  <2> QED BY <2>3, <2>5
<1>12. ASSUME NEW k \in 1..m
       PROVE  Headed(text, k) /\ BeginsWhole(text, k) /\ Fits(text, k)
  <2> DEFINE p == f[k - 1]  q == f[k]  c == passages[k].content  own == Own(text, k)
  <2>1. /\ p \in Nat /\ q \in Nat /\ p < q /\ q <= N /\ IsRow(text, p, q, passages[k])
        /\ DOMAIN c = 1..q - p /\ \A j \in 1..q - p : c[j] = s[p + j]
    BY <1>9, <1>10
  <2>2. PICK o \in p..q :
          /\ OwnFrom(text, p, o) /\ FitsIn(text, o, q)
          /\ \A r \in o + 1..q : IsGap(text, s[r]) \/ passages[k].path = PathAt(text, s[r])
    BY <2>1 DEF IsRow, s
  <2>3. k > 1 => p > 0
    <3> SUFFICES ASSUME k > 1 PROVE p > 0 OBVIOUS
    <3>1. k - 1 \in 1..m BY <1>7
    <3>2. f[(k - 1) - 1] < f[k - 1] /\ f[(k - 1) - 1] \in Nat BY <1>9, <3>1
    <3> QED BY <2>1, <3>2
  <2>4. k = 1 => p = 0
    <3> SUFFICES ASSUME k = 1 PROVE p = 0 OBVIOUS
    <3>1. k - 1 = 0 OBVIOUS
    <3>2. p = f[0] BY <3>1 DEF p
    <3>3. f[0] = 0 BY <1>6
    <3> QED BY <3>2, <3>3
  <2>5. k \in Nat /\ (k > 1 \/ k = 1) BY <1>7
  <2> HIDE DEF p, q, c
  <2>6. own = {j \in 1..q - p : k > 1 \/ \E i \in 1..s[p + j] : ~IsGap(text, i)}
    BY <2>1 DEF Own, c
  <2>7. \A j \in own : j \in 1..q - p /\ p + j \in o + 1..q
    <3> SUFFICES ASSUME NEW j \in own PROVE j \in 1..q - p /\ p + j \in o + 1..q OBVIOUS
    <3>1. j \in 1..q - p /\ (k > 1 \/ \E i \in 1..s[p + j] : ~IsGap(text, i)) BY <2>6
    <3>2. p + j <= q /\ p + j > p /\ p + j \in Nat BY <2>1, <3>1
    <3>3. CASE o = p BY <2>1, <3>1, <3>2, <3>3
    <3>4. CASE p = 0 /\ \A r \in 1..o : \A i \in 1..s[r] : IsGap(text, i)
      <4>1. \E i \in 1..s[p + j] : ~IsGap(text, i) BY <2>1, <2>3, <3>1, <3>4
      <4>2. p + j \notin 1..o BY <3>4, <4>1
      <4> QED BY <2>1, <3>1, <3>2, <4>2
    <3> QED BY <2>2, <3>3, <3>4 DEF OwnFrom, s
  <2> HIDE DEF own
  <2>8. \A l \in OwnLines(text, k) : \E r \in o + 1..q : l = s[r]
    <3> SUFFICES ASSUME NEW j \in own PROVE \E r \in o + 1..q : c[j] = s[r]
      BY DEF OwnLines, own, c
    <3> QED BY <2>1, <2>7
  <2>9. Headed(text, k)
    <3> SUFFICES ASSUME NEW l \in OwnLines(text, k)
                 PROVE  IsGap(text, l) \/ passages[k].path = PathAt(text, l)
      BY DEF Headed
    <3> QED BY <2>2, <2>8
  <2>10. BeginsWhole(text, k)
    <3>1. c[1] = s[p + 1]
      <4>1. 1 \in 1..q - p BY <2>1
      <4> QED BY <2>1, <4>1
    <3>2. CASE k = 1
      <4>1. Fences(text)[0] = NoFence BY <1>1, FencesAre
      <4>2. 0 \in Nat /\ 0 <= Len(text) BY <1>4 DEF n
      <4>3. at[0] = N \/ ~InCode(text, s[at[0] + 1])
        BY <1>1, <1>3, <4>1, <4>2, OutsideNext DEF N, s
      <4>4. N # 0 BY <1>8, <2>1
      <4>5. ~InCode(text, s[p + 1]) BY <1>4, <2>4, <3>2, <4>3, <4>4
      <4> QED BY <3>1, <4>5 DEF BeginsWhole, c
    <3>3. CASE k > 1
      <4> DEFINE h == k - 1  x == f[h - 1]
      <4>1. h \in 1..m /\ f[h] = p BY <1>7, <3>3 DEF p
      <4> HIDE DEF h
      <4>2. /\ x \in Nat /\ IsRow(text, x, p, passages[h]) /\ passages[h].content = Span(s, x, p)
            /\ Len(Span(s, x, p)) = p - x
        BY <1>9, <1>10, <4>1
      <4> HIDE DEF x
      <4>3. p < N BY <1>8, <2>1
      <4>4. p - x < HardMax => ~InCode(text, s[p + 1]) BY <4>2, <4>3 DEF IsRow, s, N
      <4>5. HardMax \in Nat BY PassagesAssumption
      <4>6. InCode(text, c[1]) => Len(passages[h].content) >= HardMax
        BY <2>1, <3>1, <4>2, <4>4, <4>5
      <4> QED BY <3>3, <4>6 DEF BeginsWhole, c, h
    <3> QED BY <2>5, <3>2, <3>3
  <2>11. Fits(text, k)
    <3> SUFFICES ASSUME Cardinality(own) > MaxChars
                 PROVE  \/ \E l \in OwnLines(text, k) : IsGap(text, l) /\ InCode(text, l)
                        \/ \A l, i \in OwnLines(text, k) : IsGap(text, l) = IsGap(text, i)
      BY DEF Fits, own
    <3>1. CASE q - o <= MaxChars
      <4> DEFINE a == (o - p) + 1  b == q - p  I == a..b
      <4>1. a \in Int /\ b \in Int /\ (IF a <= b THEN b - a + 1 ELSE 0) = q - o BY <2>1
      <4>2. own \subseteq I
        <5> SUFFICES ASSUME NEW j \in own PROVE j \in I OBVIOUS
        <5>1. j \in 1..q - p /\ p + j \in o + 1..q BY <2>7
        <5> QED BY <2>1, <5>1
      <4> HIDE DEF a, b
      <4>3. IsFiniteSet(I) /\ Cardinality(I) = q - o
        <5>1. IsFiniteSet(I) BY <4>1, FS_Interval
        <5>2. Cardinality(I) = IF a <= b THEN b - a + 1 ELSE 0 BY <4>1, FS_Interval
        <5> QED BY <4>1, <5>1, <5>2
      <4> HIDE DEF I
      <4>4. Cardinality(own) <= q - o /\ Cardinality(own) \in Nat
        <5>1. IsFiniteSet(own) /\ Cardinality(own) <= Cardinality(I) BY <4>2, <4>3, FS_Subset
        <5>2. Cardinality(own) \in Nat BY <5>1, FS_CardinalityType
        <5> QED BY <4>3, <5>1, <5>2
      <4>5. MaxChars \in Nat BY PassagesAssumption
      <4> QED BY <2>1, <3>1, <4>4, <4>5
    <3>2. ASSUME NEW r \in o + 1..q, IsGap(text, s[r]), InCode(text, s[r])
          PROVE  \E l \in OwnLines(text, k) : IsGap(text, l) /\ InCode(text, l)
      <4> DEFINE j == r - p
      <4>1. j \in 1..q - p /\ p + j = r /\ r \in 1..N BY <1>8, <2>1
      <4>2. c[j] = s[r] /\ s[r] \in 1..n BY <1>5, <2>1, <4>1
      <4>3. \E i \in 1..s[r] : ~IsGap(text, i)
        <5> DEFINE l == s[r] - 1
        <5>1. l \in 0..n /\ \A i \in 1..l : i \in 1..s[r] BY <1>4, <4>2
        <5>2. Fences(text)[l] # NoFence BY <3>2 DEF InCode
        <5> HIDE DEF l
        <5>3. ~\A i \in 1..l : IsGap(text, i) BY <1>1, <5>1, <5>2, GapsKeepFences DEF n
        <5> QED BY <5>1, <5>3
      <4> HIDE DEF j
      <4>4. j \in own BY <2>6, <4>1, <4>3
      <4>5. s[r] \in OwnLines(text, k)
        <5>1. c[j] \in OwnLines(text, k) BY <4>4 DEF OwnLines, own, c
        <5> QED BY <4>2, <5>1
      <4> QED BY <3>2, <4>5
    <3>3. CASE \A r, u \in o + 1..q : IsGap(text, s[r]) <=> IsGap(text, s[u])
      <4>1. \A l, i \in OwnLines(text, k) : IsGap(text, l) = IsGap(text, i)
        <5> SUFFICES ASSUME NEW l \in OwnLines(text, k), NEW i \in OwnLines(text, k)
                     PROVE  IsGap(text, l) = IsGap(text, i)
          OBVIOUS
        <5>1. IsGap(text, l) <=> IsGap(text, i) BY <2>8, <3>3
        <5> QED BY <5>1 DEF IsGap
      <4> QED BY <4>1
    <3> QED BY <2>2, <3>1, <3>2, <3>3 DEF FitsIn, s
  <2> QED BY <2>9, <2>10, <2>11
<1> QED BY <1>1, <1>7, <1>11, <1>12 DEF Whole, s

-----------------------------------------------------------------------------
\* What is ingested is of its kind, and what came of it is what its rules make.
AsJson == [i \in 1..Len(corpus) |-> FromJson(ToJson(Normal(corpus[i])))]
PassagesInv ==
    /\ body \in Seq(TextLines) /\ corpus \in Seq(ManifestNodes)
    /\ passages = <<>> \/ passages = ChunkText(CleanBody(body))
    /\ inserted = Unwritten \/ (corpus # <<>> /\ inserted = Ordered(AsJson))

\* What an ingest writes of a corpus is the corpus (chunking.ts, manifest.ts):
\* the passages of any document are its cleaned text, cut at headings and gaps,
\* past the budget only for a paragraph or for code with a gap; and the nodes of
\* any manifest are written as they were meant, each after the one it stands
\* under, or not at all.
THEOREM CorpusIsWrittenHolds == PassagesSpec => []CorpusIsWritten
<1>1. PassagesInit => PassagesInv
  <2> SUFFICES ASSUME PassagesInit PROVE PassagesInv OBVIOUS
  <2>1. <<>> \in Seq(TextLines) /\ <<>> \in Seq(ManifestNodes) OBVIOUS
  <2>2. body \in Seq(TextLines) /\ corpus \in Seq(ManifestNodes)
    BY <2>1, PassagesAssumption DEF PassagesInit
  <2> QED BY <2>2 DEF PassagesInit, PassagesInv
<1>2. PassagesInv /\ [PassagesNext]_passagesVars => PassagesInv'
  <2> SUFFICES ASSUME PassagesInv, [PassagesNext]_passagesVars PROVE PassagesInv' OBVIOUS
  <2>1. CASE Chunk BY <2>1 DEF PassagesInv, Chunk, AsJson
  <2>2. CASE Order BY <2>2 DEF PassagesInv, Order, AsJson
  <2>3. CASE UNCHANGED passagesVars BY <2>3 DEF PassagesInv, passagesVars, AsJson
  <2> QED BY <2>1, <2>2, <2>3 DEF PassagesNext
<1>3. PassagesInv => CorpusIsWritten
  <2> SUFFICES ASSUME PassagesInv PROVE CorpusIsWritten OBVIOUS
  <2>1. TextIsKept
    <3>1. CASE passages = <<>> BY <3>1 DEF TextIsKept
    <3>2. CASE passages = ChunkText(CleanBody(body)) BY <3>2, TextIsKeptWhenCut DEF PassagesInv
    <3> QED BY <3>1, <3>2 DEF PassagesInv
  <2>2. RowsInOrder
    <3>1. CASE inserted = Unwritten BY <3>1 DEF RowsInOrder, Unwritten
    <3>2. CASE corpus # <<>> /\ inserted = Ordered(AsJson)
      BY <3>2, RowsAreInOrder DEF PassagesInv, AsJson
    <3> QED BY <3>1, <3>2 DEF PassagesInv
  <2> QED BY <2>1, <2>2 DEF CorpusIsWritten
<1> QED BY <1>1, <1>2, <1>3, PTL DEF PassagesSpec
=============================================================================
