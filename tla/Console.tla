------------------------------ MODULE Console ------------------------------
(***************************************************************************)
(* The verbs of the write plane, as an operator runs them one after the     *)
(* other: what ksor's command line makes of an invocation (ksor/src/cli.ts,  *)
(* content/src/commands.ts), what an act of takedown has to be before it is  *)
(* one (takedown-verb.ts), who may ingest (grant.ts), and the code a verb    *)
(* ends with: 0, refused (1), not implemented (2), environment (3).         *)
(*                                                                         *)
(* Between two steps of a verb the store may go or come back, and another   *)
(* process may take the ledger's lock.  What else those processes do is in  *)
(* Takedown, LedgerLock and Generations; here each verb is alone.           *)
(***************************************************************************)
EXTENDS Integers, FiniteSets, SequencesExt

CONSTANTS
    Segments, NoSegment, \* what a path is made of, and the part between two slashes
    Calls,        \* invocations
    Records,      \* what an operator finds
    Loose,        \* documents that may be removed
    Shells,       \* environments: a DSN, a provider's key, inside the record or not
    MaxLedger, MaxBuilds,
    MaxOutages    \* bounds, the last one of each call

\* An act of the ledger, and what a denial may be of.
Acts == {"deny", "revoke", "removed"}
Deniable == [path : Seq(Segments), scope : {"node", "subtree"}]
LedgerActs == [kind : Acts, of : Deniable, names : Nat, expected : {"present", "removed"}]

\* What a record can be.
Policies == {r.policy : r \in Records}
Instances ==
    [docs : SUBSET Seq(Segments), declares : {"database", "nothing", "rubbish"}, parses : BOOLEAN,
     ledger : Seq(LedgerActs), policy : Policies]

\* The parts that a path as it is typed does have.
Said(path) == {i \in DOMAIN path : path[i] # NoSegment}

\* A path ends in empty parts, or has none; a ledger names what it has denied.
ASSUME ConsoleAssumption ==
    /\ NoSegment \notin Segments
    /\ \A c \in Calls :
         /\ c.id.path \in Seq(Segments \cup {NoSegment}) /\ c.names \in Nat
         /\ \E n \in 0..Len(c.id.path) : Said(c.id.path) = 1..n
    /\ Records \subseteq Instances
    /\ \A r \in Records : \A k \in DOMAIN r.ledger : r.ledger[k].kind # "deny" => r.ledger[k].names < k

VARIABLES
    record,   \* the checkout: docs, policy, what instance.md declares, the ledger
    shell,
    store,    \* the database: up, its schema, the grant, live denials, generations
    call, step, code,
    was,      \* record and store as the call found them
    outages

consoleVars == <<record, shell, store, call, step, code, was, outages>>

NoCall == [verb |-> "none"]

-----------------------------------------------------------------------------
(* What was asked *)

\* A path as it is typed may end in empty parts: a shell completes a directory
\* with a slash, before its anchor or behind it.
Cleaned(id) == SubSeq(id.path, 1, Max({0} \cup Said(id.path)))

ScopeOf(c) == IF c.scope = "subtree" THEN "subtree" ELSE "node"
Target(c) == [path |-> Cleaned(c.id), scope |-> ScopeOf(c)]

\* The whole record, or no concept of it, or a section where one node is denied.
Misnamed(c) ==
    Cleaned(c.id) = <<>> \/ ~c.id.bundled \/ (ScopeOf(c) = "node" /\ c.id.anchored)

\* planTakedown: one act, and a denial with a scope, a reason and an id.
Planned(c) ==
    /\ Cardinality(c.acts) = 1
    /\ "deny" \in c.acts => c.scope \in {"unsaid", "node", "subtree"} /\ c.reason /\ ~Misnamed(c)

Asks(act) == call.acts = {act}
Writes == call.acts \subseteq Acts

\* checkActorNamed: a person or a process; a team performs no act.
Individual(actor) == actor \notin {"nobody", "team"}

-----------------------------------------------------------------------------
(* The record the verb is run on *)

\* A file, or a directory at or below the root, and "takedown" looks upward from
\* where it is run.  Anything else is read as it is named.
Given(c) == c.at # "unsaid" \/ (c.verb = "takedown" /\ shell.inside)
Found(c) == Given(c) /\ c.at # "elsewhere"

\* The first check that fails, in the order the verb makes them; 0 if none does.
First(checks) ==
    LET failed == {i \in DOMAIN checks : checks[i].fails}
    IN  IF failed = {} THEN 0 ELSE checks[Min(failed)].exits
Check(fails, exits) == [fails |-> fails, exits |-> exits]

\* loadInstance, resolveDsn, composeProvider.
Preflight(c, keyed) == First(<<
    Check(~Given(c), 1),
    Check(~Found(c), 3),
    Check(record.declares # "database", 1),
    Check(~shell.dsn, 3),
    Check(keyed /\ ~shell.key, 3)>>)

\* An actor by name, then a policy that reads, then that policy's authorities.
Authority(c) == First(<<
    Check(~Individual(c.actor), 1),
    Check(~Found(c) \/ ~record.policy.reads, 1),
    Check(c.actor \notin record.policy.actors, 1)>>)

\* parseInstance, where no database is no failure, and parseLedger.
Readable(c) == First(<<
    Check(~Found(c), 3),
    Check(record.declares = "rubbish", 1),
    Check(~record.parses, 1)>>)

\* Variant: by what happens to be reachable.
RowIfReachable(c) ==
    IF record.declares = "nothing" \/ c.fileOnly \/ ~shell.dsn THEN "entry" ELSE "row"

\* decideRowStep: by what the instance declares.
RowStep(c) ==
    IF record.declares = "nothing" \/ c.fileOnly THEN "entry"
    ELSE IF ~shell.dsn THEN "refused" ELSE "row"

-----------------------------------------------------------------------------
(* The ledger, and the rows its fold leaves (Takedown) *)
Covers(target, doc) ==
    IF target.scope = "node" THEN doc = target.path ELSE IsStrictPrefix(target.path, doc)

EverDenied(L) == {L[i].of : i \in {j \in DOMAIN L : L[j].kind = "deny"}}
StillDenied(L) ==
    {L[i].of : i \in {j \in DOMAIN L : /\ L[j].kind = "deny"
                                       /\ \A k \in DOMAIN L : L[k].kind = "revoke" => L[k].names # j}}
Fold(live, L) == (live \ EverDenied(L)) \cup StillDenied(L)

Withheld(targets) == {d \in record.docs : \E t \in targets : Covers(t, d)}

\* expectedFor: whether what is denied is there.
ExpectedOf(target) ==
    IF \E d \in record.docs : d = target.path \/ IsStrictPrefix(target.path, d)
      THEN "present" ELSE "removed"

\* The entry the act would add; a revocation and an amendment need a denial.
Entry(c) ==
    IF Asks("deny")
      THEN [kind |-> "deny", of |-> Target(c), names |-> 0, expected |-> ExpectedOf(Target(c))]
      ELSE [kind |-> CHOOSE a \in c.acts : TRUE, of |-> Target(c), names |-> c.names,
            expected |-> "removed"]
NamesDenial(L, c) == c.names \in DOMAIN L /\ L[c.names].kind = "deny"

-----------------------------------------------------------------------------
(* Steps *)
ConsoleInit ==
    /\ record \in Records
    /\ shell \in Shells
    /\ store \in [up : {TRUE}, schema : BOOLEAN, whole : {TRUE}, granted : BOOLEAN,
                  live : {{}}, built : {0}, active : {0}]
    /\ store.granted => store.schema
    /\ call = NoCall /\ step = "idle" /\ code = 0 /\ outages = 0
    /\ was = [record |-> record, store |-> store]

Exit(c) == step' = "done" /\ code' = c
Goes(next) == step' = next /\ code' = code
Still == UNCHANGED <<record, shell, call, was, outages>>

\* cli.ts, runContentCli: help of a verb there is, no verb at all, a word that is
\* none, one that is to come; the others go on.  (init, build, migrate and serve
\* are not of the write plane.)
GoesOn == -1
Dispatch(c) ==
    IF (c.help /\ c.verb # "typo") \/ c.verb = "bare" THEN 0
    ELSE IF c.verb = "typo" THEN 1
    ELSE IF c.verb = "dev" THEN 2
    ELSE GoesOn

Ask ==
    /\ step = "idle"
    /\ \E c \in Calls :
          /\ call' = c
          /\ IF Dispatch(c) = GoesOn THEN Goes("asked") ELSE Exit(Dispatch(c))
    /\ was' = [record |-> record, store |-> store]
    /\ UNCHANGED <<record, shell, store, outages>>

\* A verb that fails a check ends there, one that passes goes on.
Checked(from, result, next) ==
    /\ step = from
    /\ IF result = 0 THEN Goes(next) ELSE Exit(result)
    /\ UNCHANGED store /\ Still

Takedown ==
    /\ call.verb = "takedown"
    /\ \/ Checked("asked", First(<<Check(~Planned(call), 1), Check(~Given(call), 1)>>), "planned")
       \/ Checked("planned", IF Writes THEN Authority(call) ELSE 0, "allowed")
       \/ Checked("allowed", Readable(call), "read")

\* The modes that only read: the ledger's own word, or the rows.
Look ==
    /\ call.verb = "takedown" /\ step = "read" /\ (Asks("list") \/ Asks("ledger"))
    /\ IF Asks("list") /\ record.declares = "database" /\ shell.dsn
         THEN Exit(First(<<Check(~store.up, 3), Check(~store.schema, 1)>>))
         ELSE Exit(0)
    /\ UNCHANGED store /\ Still

\* --apply folds the ledger it has read; a record without a database has no rows.
MayApply ==
    /\ call.verb = "takedown" /\ step = "read" /\ Asks("apply")
    /\ IF record.declares = "nothing" THEN Exit(0)
       ELSE IF ~shell.dsn THEN Exit(3) ELSE Goes("row")
    /\ UNCHANGED store /\ Still

Decide ==
    /\ call.verb = "takedown" /\ step = "read" /\ Writes
    /\ IF RowStep(call) = "refused" THEN Exit(1) ELSE Goes("decided")
    /\ UNCHANGED store /\ Still

\* withLedgerLock: another holds it and does not let go; or, decided from the text
\* read inside it, the entry is there for good.
Locked ==
    /\ call.verb = "takedown" /\ step = "decided"
    /\ Exit(3)
    /\ UNCHANGED store /\ Still

Write ==
    /\ call.verb = "takedown" /\ step = "decided" /\ Len(record.ledger) < MaxLedger
    /\ IF ~Asks("deny") /\ ~NamesDenial(record.ledger, call)
         THEN Exit(1) /\ UNCHANGED record
         ELSE /\ record' = [record EXCEPT !.ledger = Append(@, Entry(call))]
              /\ IF RowStep(call) = "row" THEN Goes("row") ELSE Exit(0)
    /\ UNCHANGED <<store, shell, call, was, outages>>

\* applyLedger in a transaction of its own.  Row-level security lets no tenant
\* write that has no grant.
RowsWritable == store.schema /\ (store.granted \/ EverDenied(record.ledger) = {})
ApplyRows ==
    /\ call.verb = "takedown" /\ step = "row"
    /\ \/ /\ store.up /\ RowsWritable
          /\ store' = [store EXCEPT !.live = Fold(@, record.ledger)]
          /\ \/ Exit(0)
             \/ Exit(3)      \* the answer to its COMMIT is lost
       \/ /\ ~store.up \/ ~RowsWritable
          /\ UNCHANGED store
          /\ Exit(IF Writes \/ ~store.up THEN 3 ELSE 1)
    /\ Still

-----------------------------------------------------------------------------
\* grantIngest, revokeIngest: the row of the tenant, there or not before.
Authorized(verb) == [store EXCEPT !.granted = verb = "grant"]

Grant ==
    /\ call.verb \in {"grant", "withdraw"}
    /\ \/ Checked("asked", Preflight(call, FALSE), "ready")
       \/ /\ step = "ready"
          /\ IF store.up /\ store.schema
               THEN store' = Authorized(call.verb) /\ Exit(0)
               ELSE UNCHANGED store /\ Exit(IF store.up THEN 1 ELSE 3)
          /\ Still

\* What gc collects is never what is served (Generations).
Collect ==
    /\ call.verb = "gc"
    /\ \/ Checked("asked", Preflight(call, FALSE), "ready")
       \/ Checked("ready", First(<<Check(~store.up, 3), Check(~store.schema, 1)>>), "ended")
       \/ step = "ended" /\ Exit(0) /\ UNCHANGED store /\ Still

\* The space and the tables are looked at before anything is paid for; an empty
\* schema has neither.
Space ==
    /\ call.verb = "ingest"
    /\ \/ Checked("asked", Preflight(call, TRUE), "ready")
       \/ Checked("ready", First(<<Check(~store.up, 3), Check(~store.whole \/ ~store.schema, 1)>>), "building")

\* buildGeneration: the record refuses; its ledger is folded, and then it refuses
\* still, finds nothing new, or a generation is built.
Build ==
    /\ call.verb = "ingest" /\ step = "building"
    /\ \/ Exit(1) /\ UNCHANGED store
       \/ ~store.up /\ Exit(3) /\ UNCHANGED store
       \/ /\ store.up /\ store.granted /\ record.parses
          /\ \/ /\ store' = [store EXCEPT !.live = Fold(@, record.ledger)]
                /\ \/ Exit(1)
                   \/ store.active > 0 /\ Exit(0)
             \/ /\ store.built < MaxBuilds
                /\ store' = [store EXCEPT !.live = Fold(@, record.ledger), !.built = @ + 1]
                /\ Goes("built")
    /\ Still

\* The shrink guard, the governance gate, and only then the flip.
GoLive ==
    /\ call.verb = "ingest" /\ step = "built"
    /\ \/ Exit(1) /\ UNCHANGED store
       \/ ~store.up /\ Exit(3) /\ UNCHANGED store
       \/ /\ store.up
          /\ store' = IF call.flip THEN [store EXCEPT !.active = store.built] ELSE store
          /\ Exit(0)
    /\ Still

-----------------------------------------------------------------------------
(* The world *)
Outage ==
    /\ step \notin {"idle", "done"} /\ outages < MaxOutages
    /\ store' = [store EXCEPT !.up = ~@]
    /\ outages' = outages + 1
    /\ UNCHANGED <<record, shell, call, step, code, was>>

\* Between two calls: the store is back, the schema applied, a document removed.
Between ==
    /\ step = "done"
    /\ \E schema \in {store.schema, TRUE}, gone \in {{}} \cup {{d} : d \in Loose} :
          /\ store' = [store EXCEPT !.up = TRUE, !.schema = schema]
          /\ record' = [record EXCEPT !.docs = @ \ gone]
    /\ step' = "idle" /\ call' = NoCall /\ code' = 0 /\ outages' = 0
    /\ was' = [record |-> record', store |-> store']
    /\ UNCHANGED shell

ConsoleNext ==
    \/ Ask \/ Takedown \/ Look \/ MayApply \/ Decide \/ Locked \/ Write \/ ApplyRows
    \/ Grant \/ Collect \/ Space \/ Build \/ GoLive
    \/ Outage \/ Between

ConsoleSpec == ConsoleInit /\ [][ConsoleNext]_consoleVars

-----------------------------------------------------------------------------
(* Properties *)

\* What the operator pointed at: the document, or the documents under a directory.
Meant(c) ==
    LET named == Said(c.id.path)
    IN  {d \in record.docs :
           /\ \A i \in named : i \in DOMAIN d /\ d[i] = c.id.path[i]
           /\ (DOMAIN d = named) = (ScopeOf(c) = "node")}

\* The code a verb ends with is what it left behind (commands.ts:145, 1256-1268).
\* Refused: neither the ledger, nor the rows, nor the grant, nor what is served
\* has changed, save that a refused ingest keeps the fold of a merged ledger.
\* Done: what a denial names is withheld by the site, and by the door wherever the
\* record has one and --file-only did not say otherwise; and a ledger that was
\* applied, or whose denial was lifted, is what the door answers from.
ExitTellsWhatStands ==
    step = "done" /\ Dispatch(call) = GoesOn =>
        LET doored == record.declares = "database" /\ ~call.fileOnly
        IN  /\ code = 1 => /\ record = was.record
                           /\ store.granted = was.store.granted /\ store.active = was.store.active
                           /\ call.verb # "ingest" => store.live = was.store.live
            /\ code = 0 /\ call.verb = "takedown" /\ Asks("deny") =>
                  /\ Meant(call) \subseteq Withheld(StillDenied(record.ledger))
                  /\ doored => Meant(call) \subseteq Withheld(store.live)
            /\ code = 0 /\ call.verb = "takedown" /\ (Writes \/ Asks("apply")) /\ doored =>
                  store.live \cap EverDenied(record.ledger) = StillDenied(record.ledger)
            /\ code = 3 => store.active = was.store.active
=============================================================================
