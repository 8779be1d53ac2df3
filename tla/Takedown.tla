------------------------------ MODULE Takedown ------------------------------
(***************************************************************************)
(* The takedown ledger (.ksor/takedowns.yaml, the history) and the denylist *)
(* rows (takedown_denylist, the state the serving door reads).             *)
(*                                                                         *)
(* `ksor takedown` appends an entry under the ledger's lock and then, in a *)
(* transaction of its own, folds the file it has just re-read into the     *)
(* rows; `--apply` and `ksor ingest` fold the file of their checkout as    *)
(* they read it.  The site is built from the file, the door answers from   *)
(* the rows.  Holding the lock is one step here (LedgerLock has the rest). *)
(***************************************************************************)
EXTENDS Integers, FiniteSets, SequencesExt

CONSTANTS
    Procs,          \* processes running `ksor takedown` or `ksor ingest`
    Checkouts,      \* working trees of the record's repository
    StableIds,      \* what a denial names
    Legacy,         \* stable ids whose row is older than the ledger
    Asked,          \* bound: the expectations a denial is written with
    MaxEntries,     \* bound: entries ever written
    MaxRuns         \* bound: generations ever allocated

ASSUME TakedownAssumption ==
    /\ Legacy \subseteq StableIds
    /\ Asked \subseteq {"present", "removed"}
    /\ MaxEntries \in Nat /\ MaxRuns \in Nat

VARIABLES
    ledger,     \* the entries of each checkout's file, in order
    rows,       \* takedown_denylist
    trail,      \* the last takedown row of retrieval_log, per stable id
    runs,       \* ledger_ids of the ingestion runs, in run order
    pc, at,     \* what a process is about to do; the checkout it runs in
    held        \* the ledger it parsed

vars == <<ledger, rows, trail, runs, pc, at, held>>

Expected == {"present", "removed"}
Present == "present"

\* Entry ids are 1, 2, ... in the order they are minted; 0 is SQL's NULL.
EntryIds == 1..MaxEntries
Minted == {e.id : e \in UNION {Range(ledger[c]) : c \in Checkouts}}
Mint == 1 + Cardinality(Minted)

Entries ==
    [kind : {"denial"}, id : EntryIds, of : StableIds, expected : Expected]
      \cup [kind : {"revocation", "amendment"}, id : EntryIds, of : EntryIds]

Row == [entry : EntryIds \cup {0}, revoked : EntryIds \cup {0}, expected : Expected]
NoRow == [entry |-> -1, revoked |-> 0, expected |-> Present]
Unledgered == [entry |-> 0, revoked |-> 0, expected |-> Present]

\* What retrieval_log keeps of an act: the denial and what lifted it.
Act(row) == [entry |-> row.entry, revoked |-> row.revoked]

\* parseLedger(): ids are unique, and a revocation or an amendment names an
\* earlier denial.  A file that does not parse stops every surface.
Parses(L) ==
    \A i \in DOMAIN L :
        /\ \A j \in 1..(i - 1) : L[j].id # L[i].id
        /\ L[i].kind # "denial" =>
             \E j \in 1..(i - 1) : L[j].kind = "denial" /\ L[j].id = L[i].of

\* Types, and no act or merge of branches ever leaves a file that is refused.
TypeOK ==
    /\ ledger \in [Checkouts -> Seq(Entries)] /\ \A c \in Checkouts : Parses(ledger[c])
    /\ rows \in [StableIds -> Row \cup {NoRow}]
    /\ trail \in [StableIds -> {Act(row) : row \in Row \cup {NoRow}}]
    /\ runs \in Seq(SUBSET EntryIds) /\ Len(runs) <= MaxRuns
    /\ pc \in [Procs -> {"idle", "row", "ledger", "allocate"}]
    /\ at \in [Procs -> Checkouts]
    /\ held \in [Procs -> Seq(Entries)]

Init ==
    /\ ledger = [c \in Checkouts |-> <<>>]
    /\ rows = [x \in StableIds |-> IF x \in Legacy THEN Unledgered ELSE NoRow]
    /\ trail = [x \in StableIds |-> Act(rows[x])]
    /\ runs = <<>>
    /\ pc = [p \in Procs |-> "idle"] /\ at \in [Procs -> Checkouts]
    /\ held = [p \in Procs |-> <<>>]

-----------------------------------------------------------------------------
(* What a ledger says *)

IdsOf(L) == {L[i].id : i \in DOMAIN L}
Denials(L, x) == {i \in DOMAIN L : L[i].kind = "denial" /\ L[i].of = x}

Naming(L, kind, i) == {j \in DOMAIN L : L[j].kind = kind /\ L[j].of = L[i].id}

\* inForce(): a denial stands until a revocation names it.
InForce(L) ==
    {i \in DOMAIN L : L[i].kind = "denial" /\ Naming(L, "revocation", i) = {}}

\* Does the site withdraw x?
SiteDenies(L, x) == Denials(L, x) \cap InForce(L) # {}

\* Variant: the last denial wins, in force or not.
LastWins(standing, current, i) == TRUE

\* A revoked later denial does not overwrite one that still stands.
Overwrites(standing, current, i) == ~(current \in standing /\ i \notin standing)

\* foldLedger(): the loop's choice for x after the first i entries.
Chosen(L, x) ==
    LET standing == InForce(L)
        choice[i \in 0..Len(L)] ==
          IF i = 0 THEN 0
          ELSE LET current == choice[i - 1]
               IN  IF i \in Denials(L, x) /\ Overwrites(standing, current, i)
                     THEN i ELSE current
    IN  choice[Len(L)]

\* The row foldLedger() gives the stable id of entry i: in force with the
\* expectation its amendments left, or lifted by its last revocation.
FoldedRow(L, i) ==
    [entry |-> L[i].id,
     revoked |-> IF i \in InForce(L) THEN 0 ELSE L[Max(Naming(L, "revocation", i))].id,
     expected |-> IF i \in InForce(L) /\ Naming(L, "amendment", i) # {}
                    THEN "removed" ELSE L[i].expected]

Folded(L, x) == FoldedRow(L, Chosen(L, x))

Denying(row) == row # NoRow /\ row.revoked = 0

-----------------------------------------------------------------------------
(* Writing an entry *)

\* One act of `ksor takedown`: decided and appended under the lock, from the
\* text read inside it, and the file read again for the row.
Record(p, kind, of, expected) ==
    LET c == at[p]
        entry == IF kind = "denial"
                   THEN [kind |-> kind, id |-> Mint, of |-> of, expected |-> expected]
                   ELSE [kind |-> kind, id |-> Mint, of |-> of]
    IN  /\ pc[p] = "idle" /\ Mint \in EntryIds
        /\ ledger' = [ledger EXCEPT ![c] = Append(@, entry)]
        /\ held' = [held EXCEPT ![p] = ledger'[c]]
        /\ pc' = [pc EXCEPT ![p] = "row"]
        /\ UNCHANGED <<rows, trail, runs, at>>

Deny(p) == \E x \in StableIds, e \in Asked : Record(p, "denial", x, e)

\* --revoke and --removed name a denial that is in the file.
DenialIds(L) == {L[i].id : i \in {j \in DOMAIN L : L[j].kind = "denial"}}

Amend(p) ==
    \E id \in DenialIds(ledger[at[p]]), kind \in {"revocation", "amendment"} :
        Record(p, kind, id, Present)

\* --file-only, a crash, or no database: the entry is written, the row is not.
Leave(p) ==
    /\ pc[p] # "idle"
    /\ pc' = [pc EXCEPT ![p] = "idle"]
    /\ held' = [held EXCEPT ![p] = <<>>]
    /\ UNCHANGED <<ledger, rows, trail, runs, at>>

\* `ksor takedown --apply`, and `ksor ingest`: the checkout's file, unlocked.
ReadLedger(p, next) ==
    /\ pc[p] = "idle"
    /\ held' = [held EXCEPT ![p] = ledger[at[p]]]
    /\ pc' = [pc EXCEPT ![p] = next]
    /\ UNCHANGED <<ledger, rows, trail, runs, at>>

\* Git, between checkouts of one repository: what the other branch appended
\* lands after what this one has.
Merged(mine, theirs) ==
    LET merged[i \in 0..Len(theirs)] ==
          IF i = 0 THEN mine
          ELSE IF theirs[i].id \in IdsOf(mine) THEN merged[i - 1]
          ELSE Append(merged[i - 1], theirs[i])
    IN  merged[Len(theirs)]

Merge(c, d) ==
    /\ ~(IdsOf(ledger[c]) \subseteq IdsOf(ledger[d]))
    /\ ledger' = [ledger EXCEPT ![d] = Merged(@, ledger[c])]
    /\ UNCHANGED <<rows, trail, runs, pc, at, held>>

-----------------------------------------------------------------------------
(* Applying a ledger to the rows *)

\* Variant: the upsert's WHERE list forgets the revocation.
ChangedNotRevoked(old, new) == old.entry # new.entry \/ old.expected # new.expected

\* The upsert's WHERE list: every column its SET list writes.
Changed(old, new) == old # new

\* A row of the trail for every row that changed, in the same transaction.
Logged(old, new) == Changed(old, new)

\* applyLedger(), one transaction.  A row the ledger does not name is left
\* alone, and no row is deleted.
ApplyLedger(L) ==
    LET named == {x \in StableIds : Denials(L, x) # {}}
        new(x) == IF x \in named /\ Changed(rows[x], Folded(L, x))
                    THEN Folded(L, x) ELSE rows[x]
    IN  /\ rows' = [x \in StableIds |-> new(x)]
        /\ trail' = [x \in StableIds |-> IF x \in named /\ Logged(rows[x], new(x))
                                           THEN Act(new(x)) ELSE trail[x]]

\* The verb's own row step, or --apply.
Apply(p) ==
    /\ pc[p] = "row"
    /\ ApplyLedger(held[p])
    /\ pc' = [pc EXCEPT ![p] = "idle"] /\ held' = [held EXCEPT ![p] = <<>>]
    /\ UNCHANGED <<ledger, runs, at>>

\* checkLedgerAppendOnly() against the ids the last run recorded.
AppendOnly(L) == runs # <<>> => Last(runs) \subseteq IdsOf(L)

\* Variant: an unledgered row is left to the boot gate.
MayAllocateUnledgered(new) == TRUE

\* A row the ledger does not account for refuses the ingest; the fold stays.
MayAllocate(new) == Unledgered \notin Range(new)

\* `ksor ingest`, the ledger transaction.
IngestLedger(p) ==
    /\ pc[p] = "ledger" /\ AppendOnly(held[p])
    /\ ApplyLedger(held[p])
    /\ IF MayAllocate(rows')
         THEN pc' = [pc EXCEPT ![p] = "allocate"] /\ UNCHANGED held
         ELSE pc' = [pc EXCEPT ![p] = "idle"] /\ held' = [held EXCEPT ![p] = <<>>]
    /\ UNCHANGED <<ledger, runs, at>>

\* `ksor ingest`, the allocate transaction.  (An unchanged corpus rolls it
\* back: Leave.)
Allocate(p) ==
    /\ pc[p] = "allocate" /\ Len(runs) < MaxRuns
    /\ runs' = Append(runs, IdsOf(held[p]))
    /\ pc' = [pc EXCEPT ![p] = "idle"] /\ held' = [held EXCEPT ![p] = <<>>]
    /\ UNCHANGED <<ledger, rows, trail, at>>

Next ==
    \/ \E p \in Procs :
          \/ Deny(p) \/ Amend(p) \/ Leave(p)
          \/ ReadLedger(p, "row") \/ ReadLedger(p, "ledger")
          \/ Apply(p) \/ IngestLedger(p) \/ Allocate(p)
    \/ \E c, d \in Checkouts : Merge(c, d)

Spec == Init /\ [][Next]_vars

-----------------------------------------------------------------------------
(* Properties *)

\* The two functions that say which denials are live give one answer: the fold
\* denies exactly what the site withdraws (ledger-apply.ts:18-24).
OneAnswer ==
    \A c \in Checkouts, x \in StableIds :
        Denials(ledger[c], x) # {} =>
            (Denying(Folded(ledger[c], x)) <=> SiteDenies(ledger[c], x))

\* A row is lifted only by a revocation of the very entry that wrote it
\* (ledger-apply.ts:12-13): what another denial's revocation, or an older or
\* another branch's file, says never serves a withdrawn document again.
LiftedOnlyByItsRevocation ==
    [][\A x \in StableIds : Denying(rows[x]) /\ ~Denying(rows'[x]) =>
          \E p \in Procs : \E i \in DOMAIN held[p] :
              /\ held[p][i].kind = "revocation"
              /\ rows[x].entry \in {0, held[p][i].of}]_vars

\* After a fold of the file as it stands, door and site agree on everything
\* the file names, whatever stale folds, crashes and other branches came before.
FreshFoldAgrees ==
    [][\A p \in Procs :
          (Apply(p) \/ IngestLedger(p)) /\ held[p] = ledger[at[p]] =>
             \A x \in StableIds : Denials(held[p], x) # {} =>
                (Denying(rows'[x]) <=> SiteDenies(held[p], x))]_vars

\* The trail's last word on a stable id is the row that is there: nothing
\* changes a row without leaving the row that proves it.
TrailTellsTheRow == \A x \in StableIds : trail[x] = Act(rows[x])

\* A generation is allocated only when every row has a ledger entry, and no
\* row loses its entry afterwards: the boot gate cannot refuse it for one.
RunsAreLedgered == runs # <<>> => Unledgered \notin Range(rows)

\* A row, the trail and the runs agree: the trail's last word is the row, and no
\* generation was allocated beside a row without an entry.
RowsAreAccounted == TrailTellsTheRow /\ RunsAreLedgered

=============================================================================
