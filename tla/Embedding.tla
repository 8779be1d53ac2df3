----------------------------- MODULE Embedding ------------------------------
(***************************************************************************)
(* How a generation gets its vectors (packages/content/src/ingest): what a *)
(* build inherits from earlier ones (carryForward), what it sends to the   *)
(* provider and in which batches (drain), and what becomes of both when a  *)
(* run dies, the provider fails or a passage is poison.                    *)
(*                                                                         *)
(* A vector is named by the input it was computed from.  Builds follow one *)
(* another; what overlapping ones do to the run table is in Generations.   *)
(***************************************************************************)
EXTENDS Integers, FiniteSets, Sequences

CONSTANTS
    MaxGen,     \* bound: builds
    N,          \* passages of the record, in source_id, ordinal order
    Source,     \* the source a passage belongs to
    Inputs,     \* what the provider reads: node title, heading path and text
    Text,       \* the text of an input, which is all that chunk_hash tells
    Drafts,     \* bound: the trees the author moves between
    Poison,     \* inputs the provider refuses whoever asks
    Errors,     \* what any request may meet: a blip, a spent balance, a revoked
                \* key, a miscounted, misshapen or torn answer
    Retryable,  \* those the provider's isRetryable tells
    Fatal,      \* those its isFatal tells; none where it has no isFatal
    Batch,      \* BATCH
    MaxFailedPct

Gens == 1..MaxGen
Passages == 1..N

\* Why a passage may be quarantined; the provider refuses some texts.
Reasons == Errors \cup {"refused"}

ASSUME EmbeddingAssumption ==
    /\ MaxGen \in Nat /\ N \in Nat /\ Batch \in Nat \ {0} /\ MaxFailedPct \in Nat
    /\ Source \in [Passages -> Nat] /\ Drafts \subseteq [Passages -> Inputs] /\ Poison \subseteq Inputs
    /\ Retryable \subseteq Errors /\ Fatal \subseteq Errors /\ "refused" \notin Errors
    /\ "pending" \notin Inputs \cup Reasons /\ Inputs \cap Reasons = {}

VARIABLES
    tree,   \* the knowledge tree: the embed input of every passage
    rows,   \* a generation's chunks: what each says, and its vector, "pending"
            \* or, of a quarantined one, its embed_error
    state,  \* of a generation's run
    run,    \* the generation being built; 0: no process
    queue   \* batches not yet embedded

embedVars == <<tree, rows, state, run, queue>>

Status == Inputs \cup {"pending"} \cup Reasons
Row == [says : Inputs, vec : Status]

EmbedInit ==
    /\ tree \in Drafts
    /\ rows = [g \in Gens |-> <<>>]
    /\ state = [g \in Gens |-> "none"]
    /\ run = 0 /\ queue = <<>>

Held(g) == DOMAIN rows[g]
Embedded(g) == {c \in Held(g) : rows[g][c].vec \in Inputs}
Failed(g) == {c \in Held(g) : rows[g][c].vec \in Reasons}
Waiting(g) == {c \in Held(g) : rows[g][c].vec = "pending"}

-----------------------------------------------------------------------------
\* Variant: the runs a kill left behind lend nothing.
CompleteOnly == {h \in Gens : state[h] = "complete"}

CarrySources == {h \in Gens : state[h] \in {"complete", "building"} /\ Embedded(h) # {}}

\* Variant: the text of a passage is taken for all the provider reads.
SameText(old, new) == Text[old] = Text[new]

CarryKeyMatches(old, new) == old = new

\* The vectors a pass may copy onto a passage that says i.
Lendable(c, i) ==
    {v \in Inputs : \E h \in CarrySources : \E d \in Embedded(h) :
        /\ Source[d] = Source[c] /\ CarryKeyMatches(rows[h][d].says, i)
        /\ v = rows[h][d].vec}

\* What the passes leave of a new passage; they copy whatever matches.
Inherited(c) ==
    LET lent == Lendable(c, tree[c])
    IN  IF lent = {} THEN {"pending"} ELSE lent

Least(S) == CHOOSE c \in S : \A d \in S : c <= d

\* The passages of S in queue order.
InOrder(S) ==
    LET nth[i \in 1..Cardinality(S)] ==
            Least({c \in S : i = 1 + Cardinality({d \in S : d < c})})
    IN  nth

\* The queue in batches of Batch, the last one perhaps shorter.
Batches(s) ==
    [i \in 1..((Len(s) + Batch - 1) \div Batch) |->
        SubSeq(s, (i - 1) * Batch + 1, IF i * Batch < Len(s) THEN i * Batch ELSE Len(s))]

\* allocateRun, buildStructure with its carry passes, and the pending queue.
BuildStructure(g) ==
    /\ run = 0 /\ state[g] = "none" /\ \A h \in Gens : h < g => state[h] # "none"
    /\ \E vec \in [Passages -> Status] :
          /\ \A c \in Passages : vec[c] \in Inherited(c)
          /\ rows' = [rows EXCEPT ![g] = [c \in Passages |-> [says |-> tree[c], vec |-> vec[c]]]]
          /\ queue' = Batches(InOrder({c \in Passages : vec[c] = "pending"}))
    /\ state' = [state EXCEPT ![g] = "building"]
    /\ run' = g
    /\ UNCHANGED tree

-----------------------------------------------------------------------------
InBatch == {Head(queue)[i] : i \in 1..Len(Head(queue))}
Poisoned == {c \in InBatch : rows[run][c].says \in Poison}

Draining == run # 0 /\ queue # <<>>

\* A literal per passage, zipped: the batch is written and committed.
WriteBatch ==
    /\ Draining /\ Poisoned = {}
    /\ rows' = [rows EXCEPT ![run] =
                  [c \in Passages |->
                      IF c \in InBatch THEN [rows[run][c] EXCEPT !.vec = rows[run][c].says]
                                       ELSE rows[run][c]]]
    /\ queue' = Tail(queue)
    /\ UNCHANGED <<tree, state, run>>

\* Variant: a spent balance is taken for a fault of the passage.
BlipsOnly == Retryable

Aborting == Retryable \cup Fatal

\* What embedBatch may raise, the provider or the contract on its answer: any
\* error whatever it is asked, and a refusal of a batch with a poison passage.
Raises(kind) == kind \in Errors \/ (kind = "refused" /\ Poisoned # {})

\* A blip outlived the patience of the retries, or the provider knows the
\* account to be spent: the run stops and what is unwritten stays pending.
Abort(kind) ==
    /\ Draining /\ Raises(kind) /\ kind \in Aborting
    /\ run' = 0 /\ queue' = <<>>
    /\ UNCHANGED <<tree, rows, state>>

\* Any other error of a batch of one is laid on its passage.
MarkFailed(kind) ==
    /\ Draining /\ Raises(kind) /\ kind \notin Aborting /\ Len(Head(queue)) = 1
    /\ rows' = [rows EXCEPT ![run] = [@ EXCEPT ![Head(queue)[1]].vec = kind]]
    /\ queue' = Tail(queue)
    /\ UNCHANGED <<tree, state, run>>

BinarySplit(b) == <<SubSeq(b, 1, Len(b) \div 2), SubSeq(b, Len(b) \div 2 + 1, Len(b))>>

\* Any other error of a longer one: ask for each half, the front first.
Split(kind) ==
    /\ Draining /\ Raises(kind) /\ kind \notin Aborting /\ Len(Head(queue)) > 1
    /\ queue' = BinarySplit(Head(queue)) \o Tail(queue)
    /\ UNCHANGED <<tree, rows, state, run>>

Ready(g) ==
    /\ Waiting(g) = {} /\ Embedded(g) # {}
    /\ Cardinality(Failed(g)) * 100 <= MaxFailedPct * N

\* The drained generation is complete, or stays behind as building.
Finalize ==
    /\ run # 0 /\ queue = <<>>
    /\ state' = [state EXCEPT ![run] = IF Ready(run) THEN "complete" ELSE @]
    /\ run' = 0
    /\ UNCHANGED <<tree, rows, queue>>

-----------------------------------------------------------------------------
\* Environment: the process dies.
Kill ==
    /\ run # 0
    /\ run' = 0 /\ queue' = <<>>
    /\ UNCHANGED <<tree, rows, state>>

\* Environment: the author edits the tree.
Edit ==
    /\ run = 0
    /\ tree' \in Drafts \ {tree}
    /\ UNCHANGED <<rows, state, run, queue>>

\* gc collects a generation that is not being built.
Reap(g) ==
    /\ state[g] \in {"complete", "building"} /\ g # run
    /\ rows' = [rows EXCEPT ![g] = <<>>]
    /\ state' = [state EXCEPT ![g] = "reaped"]
    /\ UNCHANGED <<tree, run, queue>>

Drain ==
    WriteBatch \/ \E kind \in Reasons :
                     Abort(kind) \/ MarkFailed(kind) \/ Split(kind)

EmbedNext ==
    \/ \E g \in Gens : BuildStructure(g) \/ Reap(g)
    \/ Drain \/ Finalize \/ Kill \/ Edit

\* A live process takes its next step.
EmbedSpec == EmbedInit /\ [][EmbedNext]_embedVars /\ WF_embedVars(Drain \/ Finalize)

-----------------------------------------------------------------------------
\* A vector, carried through however many builds, is of the very input its
\* passage now has: text, heading path and title.
VectorsAreTheirOwn ==
    \A g \in Gens : \A c \in Embedded(g) : rows[g][c].vec = rows[g][c].says

\* Nobody is quarantined for a failure the provider knows to be of the moment
\* or of the account, and a refused text condemns the passage it is the text
\* of, never the neighbours it shared a batch with.  Any other error, a revoked
\* key or a garbled answer, may quarantine any passage.
QuarantineIsJust ==
    \A g \in Gens : \A c \in Failed(g) :
        /\ rows[g][c].vec \notin Retryable \cup Fatal
        /\ rows[g][c].vec = "refused" => rows[g][c].says \in Poison

\* Every passage without a vector is in the queue once, and only those are,
\* however the batches were split.
QueueIsPending ==
    LET places == {<<i, j>> : i \in 1..Len(queue), j \in Passages}
        at(p) == queue[p[1]][p[2]]
        real == {p \in places : p[2] <= Len(queue[p[1]])}
    IN  run # 0 => /\ {at(p) : p \in real} = Waiting(run)
                   /\ Cardinality(real) = Cardinality(Waiting(run))

\* What was embedded once and is still held anywhere, by a run that finished or
\* by one that died, is not sent to the provider again.
NothingPaidTwice ==
    [][ \A g \in Gens : run = 0 /\ run' = g =>
          \A c \in Waiting(g)' : \A h \in Gens : \A d \in Embedded(h) :
             Source[d] = Source[c] => rows[h][d].vec # tree[c] ]_embedVars

\* Splitting comes to an end, whatever the provider raises.
DrainEnds == run # 0 ~> run = 0

\* Every passage without a vector is queued once, however batches were split,
\* none that was paid for is queued again after a crash, and the drain ends.
EveryPassageOnce == []QueueIsPending /\ NothingPaidTwice /\ DrainEnds

=============================================================================
