------------------------------- MODULE Publish -------------------------------
(***************************************************************************)
(* How a record is published: its authors edit and commit one checkout,    *)
(* "ksor build" (ksor/src/build/index.ts) judges the tree against git      *)
(* history and its own last lock and writes the indexes and                *)
(* build.lock.json, and "ksor ingest" (content/src/ingest/build.ts,        *)
(* lock-gate.ts) takes to the database only a tree some build has checked. *)
(*                                                                         *)
(* A tree is [doc, ledger, roster, index, lock]: one document with its     *)
(* stamp ("gen": generated.at) and approval ("appr": ksor.approval.at),    *)
(* the takedown ledger, the policy's takedown authorities, the generated   *)
(* index and the lock.  "log" has the committed trees, oldest first: the   *)
(* order git log --full-history --topo-order gives, merged branches        *)
(* included, reversed.                                                     *)
(*                                                                         *)
(* Both verbs read in several steps, and with EditsDuring the checkout     *)
(* changes under them, as it does beside an open editor.                   *)
(***************************************************************************)
EXTENDS LedgerRules, FiniteSets

CONSTANTS
    Docs,           \* what the document can say: [body, gen, appr, stable]
    Actors,         \* who may write the ledger
    Appendable,     \* the entries the takedown verb and a hand can append
    Handwritten,    \* what a hand can make of an entry it edits in place
    MaxCommits,     \* a bound on the history
    Budgets,        \* bounds on the edits of each sort and on the runs: [text, acts, undo, runs]
    EditsDuring     \* whether the tree changes while a verb runs

\* A text somebody can find in the ledger.
Texts == Appendable \cup Handwritten

NoDoc == [body |-> "none"]

ASSUME PublishAssumption ==
    /\ \A d \in Docs : d.gen \in Nat /\ d.appr \in Nat /\ d.stable \in BOOLEAN
    /\ NoDoc \notin Docs /\ \E d \in Docs : d.stable /\ d.gen <= d.appr
    /\ NoText \notin Texts
    /\ MaxCommits \in Nat /\ EditsDuring \in BOOLEAN
    /\ \A b \in Budgets : b \in [{"text", "acts", "undo", "runs"} -> Nat]

VARIABLES
    tree, log,
    build,      \* the running build: [pc, ...what it has read]
    ingest,     \* the running ingest
    published,  \* what builds that passed published
    ingested,   \* what the database serves
    budget      \* what is left of the bounds

publishVars == <<tree, log, build, ingest, published, ingested, budget>>

DocPath == <<"p", "d">>
NoLock == [state |-> "none"]
Torn == [state |-> "torn"]
NoRun == [pc |-> "idle"]
Nothing == [doc |-> NoDoc, denials |-> {}, ids |-> {}]

Here(doc) == doc # NoDoc
IsStable(doc) == Here(doc) /\ doc.stable

\* generateIndexes: a directory that holds a concept earns an index of it.
IndexOf(doc) == IF Here(doc) THEN {DocPath} ELSE {}

\* What the lock digests and build_id covers; INPUTS of the git questions too.
Inputs(t) == [doc |-> t.doc, ledger |-> t.ledger, roster |-> t.roster, index |-> t.index]

LastCommit == IF log = <<>> THEN Nothing ELSE Inputs(log[Len(log)])

\* A depth-1 clone holds the last commit only.
HistoryRead(shallow) ==
    IF shallow /\ log # <<>> THEN <<log[Len(log)]>> ELSE log

PublishTypeOK ==
    /\ tree.doc \in Docs \cup {NoDoc}
    /\ Entries(tree.ledger) \subseteq Texts
    /\ tree.roster \subseteq Actors
    /\ tree.index \in {{}, {DocPath}}
    /\ Len(log) \in 0..MaxCommits
    /\ build.pc \in {"idle", "facts", "planned", "indexed"}
    /\ ingest.pc \in {"idle", "gated"}
    /\ \A what \in DOMAIN budget : budget[what] \in Nat

PublishInit ==
    /\ tree = [doc |-> CHOOSE d \in Docs : d.stable /\ d.gen <= d.appr,
               ledger |-> <<>>, roster |-> Actors, index |-> {}, lock |-> NoLock]
    /\ log = <<>>
    /\ build = NoRun
    /\ ingest = NoRun
    /\ published = {}
    /\ ingested = Nothing
    /\ budget \in Budgets

-----------------------------------------------------------------------------
(* The authors.                                                              *)
Edits(what, t) ==
    /\ budget[what] > 0
    /\ ~EditsDuring => build.pc = "idle" /\ ingest.pc = "idle"
    /\ t # tree
    /\ tree' = t
    /\ budget' = [budget EXCEPT ![what] = @ - 1]
    /\ UNCHANGED <<log, build, ingest, published, ingested>>

EditDocument == \E d \in Docs : Edits("text", [tree EXCEPT !.doc = d])
RemoveDocument == Edits("text", [tree EXCEPT !.doc = NoDoc])

EditPolicy == \E r \in SUBSET Actors : Edits("acts", [tree EXCEPT !.roster = r])

\* The verb appends an entry by an authority; a hand can append anything.
AddEntry ==
    \E e \in Appendable : e.id \notin EntryIds(tree.ledger) /\ Edits("acts", [tree EXCEPT !.ledger = Append(@, e)])

EditEntry ==
    \E i \in DOMAIN tree.ledger, e \in Handwritten :
        e.id = tree.ledger[i].id /\ Edits("acts", [tree EXCEPT !.ledger[i] = e])

DropEntry == \E i \in DOMAIN tree.ledger : Edits("acts", [tree EXCEPT !.ledger = RemoveAt(@, i)])

\* The remedy "ksor-lock-invalid" prints.
DeleteLock == Edits("undo", [tree EXCEPT !.lock = NoLock])

\* git checkout of a committed version, of everything or of the ledger alone.
Checkout ==
    \E i \in DOMAIN log :
        Edits("undo", log[i]) \/ Edits("undo", [tree EXCEPT !.ledger = log[i].ledger])

CommitTree ==
    /\ Len(log) < MaxCommits
    /\ ~EditsDuring => build.pc = "idle" /\ ingest.pc = "idle"
    /\ log # <<>> => tree # log[Len(log)]
    /\ log' = Append(log, tree)
    /\ UNCHANGED <<tree, build, ingest, published, ingested, budget>>

-----------------------------------------------------------------------------
(* What the two verbs share: the record checker's rules and change control.  *)
LedgersOf(versions) == [i \in DOMAIN versions |-> versions[i].ledger]

GitBaseline(versions) == [entries |-> HistoricEntries(LedgersOf(versions)), accepted |-> FALSE]
LockBaseline(lock) ==
    [entries |-> IF lock.state = "read" THEN lock.entries ELSE {}, accepted |-> TRUE]

RecordRefusals(t, baselines) ==
    LedgerRefusals(t.ledger, t.roster, IF Here(t.doc) THEN {DocPath} ELSE {},
                   IF Here(t.doc) THEN {<<"p">>} ELSE {}, baselines)
        \cup {s \in {"ksor-generated-after-approval"} : IsStable(t.doc) /\ t.doc.gen > t.doc.appr}

\* committedVersions, of the stable ones: every version of the path, not HEAD's alone.
StableVersions(versions) == {v \in {versions[i].doc : i \in DOMAIN versions} : IsStable(v)}

GeneratedStale(doc, versions) ==
    IsStable(doc) /\ \E v \in StableVersions(versions) : v.gen >= doc.gen /\ v.body # doc.body

-----------------------------------------------------------------------------
(* ksor build.  First what git says, and the last lock.                      *)
BuildFacts ==
    /\ budget["runs"] > 0
    /\ build.pc = "idle"
    /\ ingest.pc = "idle"
    /\ tree.lock # Torn                    \* ksor-lock-invalid
    /\ \E shallow, allow, strict \in BOOLEAN :
           LET dirty == log = <<>> \/ Inputs(tree) # LastCommit
           IN  /\ shallow => allow         \* ksor-ledger-unverifiable
               /\ strict => ~dirty         \* ksor-build-dirty
               /\ build' = [pc |-> "facts", shallow |-> shallow, strict |-> strict, dirty |-> dirty,
                            head |-> Len(log),
                            baselines |-> {LockBaseline(tree.lock)}
                                \cup (IF shallow THEN {} ELSE {GitBaseline(log)})]
    /\ budget' = [budget EXCEPT !["runs"] = @ - 1]
    /\ UNCHANGED <<tree, log, ingest, published, ingested>>

\* Then the tree is read, and judged; --strict also refuses a pending index.
BuildChecks ==
    /\ build.pc = "facts"
    /\ LET pending == tree.index # IndexOf(tree.doc)
           refused == \/ RecordRefusals(tree, build.baselines) # {}
                      \/ GeneratedStale(tree.doc, HistoryRead(build.shallow))
                      \/ build.strict /\ pending
       IN  build' = IF refused THEN NoRun
                    ELSE [pc |-> "planned", shallow |-> build.shallow, head |-> build.head,
                          dirty |-> build.dirty \/ pending,
                          inputs |-> [Inputs(tree) EXCEPT !.index = IndexOf(tree.doc)]]
    /\ UNCHANGED <<tree, log, ingest, published, ingested, budget>>

BuildIndexes ==
    /\ build.pc = "planned"
    /\ tree' = [tree EXCEPT !.index = build.inputs.index]
    /\ build' = [build EXCEPT !.pc = "indexed"]
    /\ UNCHANGED <<log, ingest, published, ingested, budget>>

LockOf(b) ==
    [state |-> "read", inputs |-> b.inputs, dirty |-> b.dirty, head |-> b.head,
     entries |-> {[id |-> e.id, text |-> e] : e \in Entries(b.inputs.ledger)}]

BuildLock ==
    /\ build.pc = "indexed"
    /\ tree' = [tree EXCEPT !.lock = LockOf(build)]
    /\ published' = published \cup {[inputs |-> build.inputs, dirty |-> build.dirty,
                                     head |-> build.head, verified |-> ~build.shallow]}
    /\ build' = NoRun
    /\ UNCHANGED <<log, ingest, ingested, budget>>

\* The process dies; the lock's own write may be half done.
BuildCrash ==
    /\ build.pc # "idle"
    /\ \/ tree' = tree
       \/ build.pc = "indexed" /\ tree' = [tree EXCEPT !.lock = Torn]
    /\ build' = NoRun
    /\ UNCHANGED <<log, ingest, published, ingested, budget>>

\* A variant for mutants: a reader that leaves out the ledger.
DocumentsMatch(t) ==
    t.lock.state = "read" /\ [t.lock.inputs EXCEPT !.ledger = t.ledger] = Inputs(t)

-----------------------------------------------------------------------------
(* ksor ingest.  checkLock: every digest the lock records is the tree's.     *)
LockMatches(t) == t.lock.state = "read" /\ t.lock.inputs = Inputs(t)

\* The checks run on the record as it was loaded, with the lock as the only
\* baseline, and the ledger is applied in a transaction of its own.
IngestChecks ==
    /\ budget["runs"] > 0
    /\ ingest.pc = "idle"
    /\ build.pc = "idle"
    /\ RecordRefusals(tree, {LockBaseline(tree.lock)}) = {}
    /\ \E shallow \in BOOLEAN : ~GeneratedStale(tree.doc, HistoryRead(shallow))
    /\ LockMatches(tree)
    /\ Lost(tree.ledger, {[entries |-> {[id |-> i, text |-> NoText] : i \in ingested.ids}]}) = {}
    /\ ingest' = [pc |-> "gated", inputs |-> Inputs(tree)]
    /\ ingested' = [ingested EXCEPT !.denials = InForce(tree.ledger)]
    /\ budget' = [budget EXCEPT !["runs"] = @ - 1]
    /\ UNCHANGED <<tree, log, build, published>>

\* buildStructure: the governance is the checked record's, the text is read again.
IngestStructure ==
    /\ ingest.pc = "gated"
    /\ Here(ingest.inputs.doc) => Here(tree.doc)    \* else the read throws
    /\ ingested' = [ingested EXCEPT
           !.doc = IF Here(ingest.inputs.doc) THEN [ingest.inputs.doc EXCEPT !.body = tree.doc.body]
                   ELSE NoDoc,
           !.ids = EntryIds(ingest.inputs.ledger)]
    /\ ingest' = NoRun
    /\ UNCHANGED <<tree, log, build, published, budget>>

\* The ingest fails or dies: its transaction rolls back, the ledger stays applied.
IngestFails ==
    /\ ingest.pc = "gated"
    /\ ingest' = NoRun
    /\ UNCHANGED <<tree, log, build, published, ingested, budget>>

PublishNext ==
    \/ EditDocument \/ RemoveDocument \/ EditPolicy
    \/ AddEntry \/ EditEntry \/ DropEntry
    \/ DeleteLock \/ Checkout \/ CommitTree
    \/ BuildFacts \/ BuildChecks \/ BuildIndexes \/ BuildLock \/ BuildCrash
    \/ IngestChecks \/ IngestStructure \/ IngestFails

PublishSpec == PublishInit /\ [][PublishNext]_publishVars

-----------------------------------------------------------------------------
\* Whether a ledger still has every act the oldest "n" commits hold, each with
\* the text it was first legibly committed with.
KeepsCommitted(ledger, n) ==
    /\ UNION {EntryIds(log[i].ledger) : i \in 1..n} \subseteq EntryIds(ledger)
    /\ \A e \in Entries(ledger) :
           LET with == {i \in 1..n : LedgerReads(log[i].ledger) /\ e.id \in EntryIds(log[i].ledger)}
           IN  with # {} => e \in Entries(log[CHOOSE i \in with : \A j \in with : i <= j].ledger)

(* No published ledger has lost or rewritten an act: a build that could read
   history publishes every entry ever committed, as it was first committed.
   The lock alone cannot show a deletion, because it travels in the same change
   as the ledger; a tamper that was itself committed is caught as well.       *)
ActsOutlive == \A p \in published : p.verified => KeepsCommitted(p.inputs.ledger, p.head)

(* Every published act was by an authority when a build first published it: a
   departed authority's acts stay, and a line somebody committed by hand is
   judged as it is written, committed or not.                                 *)
ActsWereAuthorised ==
    \A p \in published : \A e \in Entries(p.inputs.ledger) :
        \E q \in published : e \in Entries(q.inputs.ledger) /\ e.by \in q.inputs.roster

(* The remedy a ledger refusal prints works: with every committed entry put
   back as it was first written, and a lock that says nothing else, history
   refuses nothing, whatever was committed in between.                        *)
RestoringClears ==
    LET baselines == {GitBaseline(log), LockBaseline(tree.lock)}
    IN  /\ LedgerReads(tree.ledger)
        /\ KeepsCommitted(tree.ledger, Len(log))
        /\ \A s \in LockBaseline(tree.lock).entries : s.text \in Entries(tree.ledger)
        => Lost(tree.ledger, baselines) = {} /\ Rewritten(tree.ledger, baselines) = {}

(* One stamp dates one text: a build that read history publishes a stable body
   only under a stamp later than every committed stable version of another
   body, also when the edit was committed before the build saw it.            *)
StampDatesText ==
    \A p \in published : p.verified /\ IsStable(p.inputs.doc) =>
        \A v \in {log[i].doc : i \in 1..p.head} : IsStable(v) =>
            v.body = p.inputs.doc.body \/ v.gen < p.inputs.doc.gen

(* A lock that says "not dirty" was written of what its commit holds.         *)
CleanIsCommitted ==
    \A p \in published : ~p.dirty => p.head > 0 /\ Inputs(log[p.head]) = p.inputs

(* Ingest's checks let through only what a build that passed has published,
   whatever was edited, crashed or checked out since.                         *)
GatedWasPublished ==
    ingest.pc = "gated" => \E p \in published : p.inputs = ingest.inputs

(* What the database serves is a document a build checked: "an ingest cannot
   publish a tree the build never checked" (lock-gate.ts).                    *)
ServedWasPublished == Here(ingested.doc) => \E p \in published : p.inputs.doc = ingested.doc

\* Published ledgers tell the whole history: every act outlives edits and
\* commits, was an authority's, and a restored history is accepted again.
LedgerIsHistory == ActsOutlive /\ ActsWereAuthorised /\ RestoringClears

\* What a build puts into the lock is so: the stamp dates the text, a clean
\* build is the commit, and what an ingest lets through was built.
LockIsHonest == StampDatesText /\ CleanIsCommitted /\ GatedWasPublished

==============================================================================
