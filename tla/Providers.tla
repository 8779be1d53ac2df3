----------------------------- MODULE Providers -----------------------------
(***************************************************************************)
(* The providers of vectors and of text, as ksor uses them: which one an    *)
(* instance gets (packages/content/src/lib/providers), how a request is     *)
(* made, what its failure counts as, how often it is made again and what is *)
(* accepted of an answer (lib/embedding.ts).  A process is an ingest, a     *)
(* door, whose searches share one client, or a calibration.                *)
(*                                                                         *)
(* A text is known by its name; a vector by the text and the task it was    *)
(* made of and for, its width, and whether anything but zeros is in it.     *)
(***************************************************************************)
EXTENDS Integers, FiniteSetsExt, SequencesExt

CONSTANTS
    Requests,          \* sequences of texts that a caller may want embedded
    Dim,               \* the declared width of the space
    IngestAttempts, QueryAttempts,
    MaxTurns, MaxClients   \* bound what befalls the account, and clients built

\* Of what a caller may want there is something; every policy has an attempt.
ASSUME VendorAssumption ==
    /\ \A texts \in Requests : texts \in Seq(Range(texts)) \ {<<>>}
    /\ Dim \in Nat /\ {IngestAttempts, QueryAttempts} \subseteq Nat \ {0}

VARIABLES
    vendor,    \* the provider in use, "none" before it is built
    process,   \* what runs
    account,   \* "good", "spent", "revoked": the account at the vendor
    client,    \* the clients in use, numbered; 0: to be built
    built,     \* clients built
    work,      \* the call of each caller
    turns

vendorVars == <<vendor, process, account, client, built, work, turns>>

Callers == {"ingest", "search", "search2", "generate"}
Runs == [ingest |-> {"ingest"}, door |-> {"search", "search2"}, calibrate |-> {"search", "generate"}]
Searches == {"search", "search2"}

\* Vectors are of the provider of the instance, questions of Gemini's, each with a
\* client of its own.
Of(caller) == IF caller = "generate" THEN "text" ELSE "vectors"
Name(caller) == IF caller = "generate" THEN "gemini" ELSE vendor

Idle == [pc |-> "idle", texts |-> <<>>, n |-> 0, via |-> 0, heard |-> "none", again |-> "none",
         told |-> <<>>]

-----------------------------------------------------------------------------
(* The registry.                                                              *)
Names == {"gemini", "openai", "fake"}
NeedsApiKey == {"gemini", "openai"}

\* The same text is another vector for another task, where the vendor has tasks.
Label(name, caller) ==
    IF name = "openai" THEN "" ELSE IF caller \in Searches THEN "query" ELSE "document"

-----------------------------------------------------------------------------
(* Failures, and what they count as.                                          *)
\* No connection or no answer in time, an answer that breaks off, an error of the
\* vendor's, too many requests, a spent balance, a bad key, a text it refuses, an
\* answer that is not what was asked for.
Kinds == {"lost", "torn", "server", "rate", "quota", "key", "text", "garbled"}

\* The status of a failure, where it has one.
HttpStatus ==
    [server |-> 503, rate |-> 429, quota |-> 429, key |-> 401, text |-> 400]
Status(kind) == IF kind \in DOMAIN HttpStatus THEN HttpStatus[kind] ELSE 0

\* gemini.ts knows a lost connection by its code, openai.ts by any TypeError.
IsTransportBlip(name, kind) == kind = "lost" \/ (name = "openai" /\ kind = "torn")

IsRetryable(name, kind) ==
    /\ name # "fake"
    /\ ~(name = "openai" /\ kind = "quota")
    /\ IsTransportBlip(name, kind) \/ Status(kind) \in {429} \cup (500..599)

IsRetryableQuery(name, kind) ==
    name # "fake" /\ (IsTransportBlip(name, kind) \/ Status(kind) \in 500..599)

IsFatal(name, kind) == name = "openai" /\ kind = "quota"

\* withRetry's policy, of each caller.
Attempts(caller) == IF caller \in Searches THEN QueryAttempts ELSE IngestAttempts
MayRetry(caller, kind) ==
    IF caller \in Searches THEN IsRetryableQuery(vendor, kind) ELSE IsRetryable(Name(caller), kind)

\* What the drain of an ingest does with a failed batch (Embedding): it stops,
\* or holds a text to blame.
Verdict(kind) == IF IsRetryable(vendor, kind) \/ IsFatal(vendor, kind) THEN "stop" ELSE "blame"

\* What a vendor may say, of an account and these texts.
Says(caller, kind) ==
    CASE kind = "quota" -> Name(caller) = "openai" /\ account = "spent"
      [] kind = "rate" -> account \in {"good", "spent"}
      [] kind = "key" -> account = "revoked"
      [] OTHER -> TRUE

-----------------------------------------------------------------------------
(* Answers.                                                                   *)
Vector(text, label) == [of |-> text, for |-> label, width |-> Dim, zero |-> FALSE]
Exact(caller, texts) == [i \in DOMAIN texts |-> Vector(texts[i], Label(Name(caller), caller))]

\* openai.ts: each with its index, in any order.
Shuffled(vectors) ==
    {[i \in DOMAIN vectors |-> [index |-> p[i], vector |-> vectors[p[i]]]] :
        p \in {q \in [DOMAIN vectors -> DOMAIN vectors] : IsInjective(q)}}

\* Variant: as they come.
AsReceived(items) == [i \in DOMAIN items |-> items[i].vector]

ByIndex(items) ==
    [i \in DOMAIN items |-> items[CHOOSE j \in DOMAIN items : items[j].index = i].vector]

\* The embeddings of an answer, as a client of the vendor returns them.
Returned(caller, texts) ==
    LET vectors == Exact(caller, texts)
        whole == IF vendor = "openai" THEN {ByIndex(s) : s \in Shuffled(vectors)} ELSE {vectors}
        spoilt == {[vectors EXCEPT ![1].width = Dim + 1], [vectors EXCEPT ![1].zero = TRUE]}
    IN  IF vendor = "fake" \/ caller = "generate" THEN {vectors}
        ELSE whole \cup spoilt \cup {Front(vectors)}

\* contract: as many as were asked for, of the declared width, none of them zero.
Contract(texts, raw) ==
    /\ Len(raw) = Len(texts)
    /\ \A i \in DOMAIN raw : raw[i].width = Dim /\ ~raw[i].zero

-----------------------------------------------------------------------------
VendorInit ==
    /\ vendor = "none" /\ process \in DOMAIN Runs /\ account = "good"
    /\ client = [vectors |-> 0, text |-> 0] /\ built = 0
    /\ work = [c \in Callers |-> Idle] /\ turns = 0

\* buildShippedProvider: a provider without its key is refused.
BuildShippedProvider(name, key) ==
    /\ vendor = "none"
    /\ name \in NeedsApiKey => key
    /\ vendor' = name
    /\ UNCHANGED <<process, account, client, built, work, turns>>

\* embedIntent, aembedIntent, generateText: a call begins.
Call(caller, texts) ==
    /\ vendor # "none" /\ caller \in Runs[process] /\ work[caller] = Idle /\ built < MaxClients
    /\ process = "calibrate" => \A c \in Callers : work[c] = Idle
    /\ caller # "ingest" => Len(texts) = 1
    /\ work' = [work EXCEPT ![caller] = [Idle EXCEPT !.pc = "send", !.texts = texts]]
    /\ UNCHANGED <<vendor, process, account, client, built, turns>>

\* getClient, and the request.
Send(caller) ==
    /\ work[caller].pc = "send"
    /\ LET fresh == client[Of(caller)] = 0
           via == IF fresh THEN built + 1 ELSE client[Of(caller)]
       IN  /\ client' = [client EXCEPT ![Of(caller)] = via]
           /\ built' = IF fresh THEN via ELSE built
           /\ work' = [work EXCEPT ![caller].pc = "sent", ![caller].via = via,
                                   ![caller].n = @ + 1, ![caller].again = work[caller].heard]
    /\ UNCHANGED <<vendor, process, account, turns>>

\* An answer, for an account that is good; accepted, or the call's failure.
Receive(caller) ==
    /\ work[caller].pc = "sent" /\ account = "good"
    /\ \E raw \in Returned(caller, work[caller].texts) :
         LET kept == Contract(work[caller].texts, raw)
         IN  work' = [work EXCEPT
               ![caller].pc = IF kept THEN "done" ELSE "failed",
               ![caller].told = IF kept THEN raw ELSE <<>>,
               ![caller].heard = IF kept THEN "none" ELSE "garbled"]
    /\ UNCHANGED <<vendor, process, account, client, built, turns>>

\* reset: the reference is dropped, whoever else uses the client.
Reset(caller) == [client EXCEPT ![Of(caller)] = 0]

\* A failure: while attempts remain and it may be retried, the client is dropped
\* and the call sleeps; it is the caller's otherwise.
Fail(caller, kind) ==
    /\ work[caller].pc = "sent" /\ Name(caller) # "fake" /\ Says(caller, kind)
    /\ IF work[caller].n < Attempts(caller) /\ MayRetry(caller, kind)
       THEN /\ client' = Reset(caller)
            /\ work' = [work EXCEPT ![caller].pc = "sleep", ![caller].heard = kind]
       ELSE /\ work' = [work EXCEPT ![caller].pc = "failed", ![caller].heard = kind]
            /\ UNCHANGED client
    /\ UNCHANGED <<vendor, process, account, built, turns>>

Wake(caller) ==
    /\ work[caller].pc = "sleep"
    /\ work' = [work EXCEPT ![caller].pc = "send"]
    /\ UNCHANGED <<vendor, process, account, client, built, turns>>

\* The caller takes what it was told, and goes on.  (Clients are numbered again
\* when no other call holds one.)
Take(caller) ==
    /\ work[caller].pc \in {"done", "failed"}
    /\ work' = [work EXCEPT ![caller] = Idle]
    /\ IF \A c \in Callers \ {caller} : work[c] = Idle
       THEN /\ client' = [k \in DOMAIN client |->
                            IF client[k] = 0 THEN 0 ELSE IF k = "text" THEN 1 ELSE 2]
            /\ built' = 2
       ELSE UNCHANGED <<client, built>>
    /\ UNCHANGED <<vendor, process, account, turns>>

Turn ==
    /\ turns < MaxTurns /\ turns' = turns + 1
    /\ account' \in {"good", "spent", "revoked"} \ {account}
    /\ UNCHANGED <<vendor, process, client, built, work>>

VendorNext ==
    \/ \E name \in Names, key \in BOOLEAN : BuildShippedProvider(name, key)
    \/ \E caller \in Callers :
         \/ \E texts \in Requests : Call(caller, texts)
         \/ Send(caller) \/ Receive(caller) \/ Wake(caller) \/ Take(caller)
         \/ \E kind \in Kinds : Fail(caller, kind)
    \/ Turn

VendorSpec == VendorInit /\ [][VendorNext]_vendorVars

-----------------------------------------------------------------------------
\* What a caller is given is a usable vector of each of its texts, in its own
\* place and for its own task; a request is made again only after a failure that
\* time may mend, through a client of its own time, a bounded number of times,
\* and by a search never after it was told to slow down; and an ingest holds no
\* text to blame for a vendor that is away, busy or unpaid (contract, withRetry, the
\* adapters' isRetryable, isRetryableQuery, isFatal).
VectorsAreWhatWasAsked ==
    \A caller \in Callers :
      LET w == work[caller]
      IN  /\ w.pc = "done" => w.told = Exact(caller, w.texts)
          /\ w.n <= Attempts(caller)
          /\ w.pc = "sent" /\ w.n > 1 =>
               /\ w.again \in {"lost", "torn", "server", "rate"}
               /\ caller \in Searches => w.again # "rate"
          /\ w.pc = "sleep" => client[Of(caller)] # w.via
          /\ caller = "ingest" /\ w.pc = "failed" /\ w.heard \in {"lost", "server", "rate", "quota"} =>
               Verdict(w.heard) = "stop"
=============================================================================
