------------------------------- MODULE Migrate -------------------------------
(***************************************************************************)
(* `ksor migrate`: one directory of a pre-profile record, its instance,    *)
(* ledger and policy rewritten into the KSoR Profile                       *)
(* (packages/ksor/src/migrate).  A run loads the record, plans every file  *)
(* it would change, refuses if it cannot derive one, and otherwise writes  *)
(* them one by one; it can be stopped between any two.                     *)
(*                                                                         *)
(* Texts are names: what a run may not lose is the text, what it must      *)
(* derive is its frontmatter.  The order of the writes is kept by kind     *)
(* (Turn); documents among themselves are written in any order.            *)
(***************************************************************************)
EXTENDS Naturals, Sequences, FiniteSets

CONSTANTS
    Directories, \* the directories a record may start with
    Insts,       \* the instances it may start with
    Ledgers,     \* the ledgers it may start with
    Denied,      \* the sets of denylist rows its database may hold
    Options,     \* what the operator may pass
    MaxRuns,     \* bound: runs of the command
    NoValue

Reserved == {"index", "README"}
Generated == "generated"          \* a generated index: headings and bullets only
Section == "#section"             \* what a subtree entry names

Missing ==
    [text |-> NoValue, status |-> NoValue, aud |-> {}, vis |-> NoValue, sup |-> NoValue,
     ksup |-> NoValue, appr |-> NoValue, legacy |-> FALSE, flaw |-> FALSE]
GeneratedIndex == [Missing EXCEPT !.text = Generated]

VARIABLES
    papers,     \* the documents of the directory, by name
    inst,       \* instance.md: its format and, before the profile, its audience model
    takedowns,  \* .ksor/takedowns.yaml: "absent", "torn" or "read", and its entries
    policy,     \* .ksor/governance.yaml
    root,       \* the other files of the checkout: "old", "new" or "absent"
    todo,       \* the files this run still has to write
    plan,       \* what it will write there
    opts,       \* what this run was given
    outcome,    \* how the last run ended
    runs,       \* how many there were
    denyRows,   \* the denylist of its database
    acts,       \* entries a person put in the ledger (never read by a run)
    first,      \* the record as it was (read only by a restore)
    unvouched   \* entries a run left in the ledger, stopped before it wrote the
                \* policy that was to name their people (never read by a run)

migrateVars == <<papers, inst, takedowns, policy, root, todo, plan, opts, outcome, runs, denyRows,
                 acts, first, unvouched>>

Slots == DOMAIN papers

-----------------------------------------------------------------------------
(* The rules for one document.                                                *)

Present(d) == d.text # NoValue

\* A profile document, with no pre-profile key left on it.
Profile(d) == d.aud # {} /\ d.vis = NoValue /\ d.sup = NoValue /\ ~d.legacy

\* The tier a document names, and every tier above it.
Expand(model, vis) ==
    LET declared == IF vis # NoValue THEN vis ELSE model.default
        Upward(tier) ==
            LET at == {i \in DOMAIN model.tiers : model.tiers[i] = tier}
            IN IF at = {} THEN {tier}
               ELSE {model.tiers[j] : j \in {k \in DOMAIN model.tiers : \E i \in at : i <= k}}
    IN IF model.tiers = <<>>
       THEN {IF declared = NoValue THEN "public" ELSE declared}
       ELSE Upward(IF declared = NoValue THEN model.tiers[1] ELSE declared)

Forgotten(i) == i.format = 2

NewStatus(d, o) ==
    CASE d.status \in {"superseded", "deprecated"} -> "deprecated"
      [] d.status = "stable" \/ (d.status = "approved" /\ o.approve # NoValue) -> "stable"
      [] OTHER -> "draft"

Underivable(d, i, o) ==
    /\ ~Profile(d)
    /\ \/ d.flaw
       \/ NewStatus(d, o) = "deprecated" /\ o.actor = NoValue
       \/ d.sup # NoValue /\ NewStatus(d, o) # "deprecated"
       \/ d.aud # {} /\ d.vis # NoValue /\ d.aud # Expand(i, d.vis)
       \/ d.aud = {} /\ Forgotten(i)

\* Its own `ksor:` block is the seed; the old keys only overlay it.
Concept(d, i, o) ==
    IF Profile(d) THEN d
    ELSE [d EXCEPT !.aud = IF d.aud # {} THEN d.aud ELSE Expand(i, d.vis),
                   !.status = NewStatus(d, o),
                   !.vis = NoValue, !.sup = NoValue, !.legacy = FALSE,
                   !.ksup = IF d.sup # NoValue THEN d.sup ELSE d.ksup,
                   !.appr = IF NewStatus(d, o) = "stable" /\ d.appr = NoValue
                            THEN o.approve ELSE d.appr]

Demoted(d, o) == ~Profile(d) /\ d.status = "approved" /\ NewStatus(d, o) = "draft"

-----------------------------------------------------------------------------
(* The directory: a reserved name that carries prose becomes the overview.    *)

Prose(t, s) == s \in Reserved /\ Present(t[s]) /\ t[s].text # Generated
Movers(t) == {s \in DOMAIN t : Prose(t, s)}
Target(t, s) == IF Prose(t, s) THEN "overview" ELSE s
Walked(t) == {s \in DOMAIN t : Present(t[s]) /\ t[s].text # Generated}

TwoGovern(t) == Movers(t) # {} /\ (Present(t["overview"]) \/ Cardinality(Movers(t)) > 1)

Migrated(t, i, o) ==
    [s \in DOMAIN t |->
        IF Prose(t, s) THEN Missing
        ELSE IF s = "overview" /\ \E r \in Movers(t) : TRUE
             THEN Concept(t[CHOOSE r \in Movers(t) : TRUE], i, o)
        ELSE IF s \in Walked(t) THEN Concept(t[s], i, o) ELSE t[s]]

\* Every pointer, not only those this run rewrites.
Stranding(t, i, o) ==
    \E s \in Walked(t) :
        LET to == Concept(t[s], i, o).ksup
            ids == {Target(t, r) : r \in Walked(t)}
        IN /\ to # NoValue
           /\ \/ \E r \in Walked(t) : Target(t, r) = to /\ Demoted(t[r], o)
              \/ to \notin ids /\ (to \in DOMAIN t => ~Present(t[to]))

\* A document as it is read: its text and what is said of it.
Document(d) ==
    /\ d = [text |-> d.text, status |-> d.status, aud |-> d.aud, vis |-> d.vis, sup |-> d.sup,
            ksup |-> d.ksup, appr |-> d.appr, legacy |-> d.legacy, flaw |-> d.flaw]
    /\ d.legacy \in BOOLEAN

RootFiles == {"gitignore", "checker", "manifest", "lock", "site"}

\* Nobody has given a reserved name the profile's frontmatter or a takedown, and the
\* texts, being names, are distinct.
ASSUME MigrateAssumption ==
    /\ NoValue # Generated
    /\ \A t \in Directories :
         /\ t = [s \in DOMAIN t |-> t[s]] /\ \A s \in DOMAIN t : Document(t[s])
         /\ Reserved \cup {"overview"} \subseteq DOMAIN t
         /\ DOMAIN t \cap (RootFiles \cup {"instance", "ledger", "policy", Section}) = {}
         /\ \A r, s \in Walked(t) : t[r].text = t[s].text => r = s
         /\ \A s \in Reserved : ~Profile(t[s])
    /\ \A i \in Insts :
         /\ i = [format |-> i.format, tiers |-> i.tiers, default |-> i.default,
                 database |-> i.database, flaw |-> i.flaw]
         /\ i.format \in {1, 2} /\ DOMAIN i.tiers \subseteq Nat /\ i.database \in BOOLEAN
    /\ \A l \in Ledgers : \A e \in l.entries :
         e.sid \notin Reserved /\ (e.sid = Section => e.scope = "subtree")
    /\ \A h \in Denied : \A r \in h : r.scope \in {"node", "subtree"} /\ r.sid # Section
    /\ \A o \in Options : o.dsn \in {"up", "down", "unset"}

-----------------------------------------------------------------------------
(* The ledger: a denylist row nothing accounts for is appended, never more.   *)

Accounted(l) == {e.sid : e \in l.entries}
Fate(t, s) ==
    IF s \notin Reserved \/ ~Present(t[s]) THEN "gone"
    ELSE IF Prose(t, s) THEN "moved" ELSE "kept"
\* Variant: a hold stays with the name, not with the prose.
RepointNever(t, r) ==
    IF r.sid \in Reserved /\ r.scope = "subtree" THEN Section ELSE r.sid

Repoint(t, r) ==
    IF r.sid \notin Reserved THEN r.sid
    ELSE IF r.scope = "subtree" THEN Section
    ELSE IF Fate(t, r.sid) = "moved" THEN "overview" ELSE r.sid

\* A previous run took the prose away and recorded the hold there.
HeldElsewhere(l, r) == r.sid \in Reserved /\ "overview" \in Accounted(l)
Unaccounted(l) == {r \in denyRows : r.sid \notin Accounted(l)}

Undeniable(t, l, o) ==
    \E r \in Unaccounted(l) :
        \/ r.by = NoValue /\ ~o.attribute
        \/ /\ ~HeldElsewhere(l, r)
           /\ \/ r.scope = "node" /\ Fate(t, r.sid) = "kept"
              \/ r.scope = "subtree" /\ Repoint(t, r) # Section

ActorOf(r, o) == IF o.attribute THEN "attributed" ELSE r.by
\* expectedIn the tree as it will be: a container stays, a document may be gone.
Expected(t, sid) ==
    IF sid = Section \/ sid \in {Target(t, s) : s \in Walked(t)} THEN "present" ELSE "removed"

Transcribed(t, l, o) ==
    LET Entry(sid, scope, r) ==
            [sid |-> sid, scope |-> scope, by |-> ActorOf(r, o), expected |-> Expected(t, sid)]
        OwnRow(r) == {Entry(r.sid, "node", r)}
        Hold(r) == {Entry(Repoint(t, r), r.scope, r)}
    IN UNION {IF HeldElsewhere(l, r) THEN OwnRow(r)
              ELSE (IF Repoint(t, r) # r.sid THEN OwnRow(r) ELSE {})
                       \cup (IF Repoint(t, r) \in Accounted(l) THEN {} ELSE Hold(r)) :
              r \in Unaccounted(l)}

\* What the database has to say: nothing when it is not declared or not exported.
Unread(i, l, o) == i.database /\ (o.dsn = "down" \/ (o.dsn = "unset" /\ l.state = "absent"))
Denials(t, i, l, o) ==
    IF i.database /\ o.dsn = "up" THEN Transcribed(t, l, o) ELSE {}

-----------------------------------------------------------------------------
(* The policy is written when there is none, and never edited.                *)

Registry(t, i, o) == (UNION {Concept(t[s], i, o).aud : s \in Walked(t)}) \ {"public"}
Takers(t, i, l, o) == {e.by : e \in Denials(t, i, l, o)}

Overreaches(t, i, l, p, o) ==
    p.here /\ ~(Registry(t, i, o) \subseteq p.aud /\ Takers(t, i, l, o) \subseteq p.take)
NewPolicy(t, i, l, o) ==
    [here |-> TRUE, aud |-> Registry(t, i, o),
     take |-> Takers(t, i, l, o) \cup ({o.actor} \ {NoValue})]

-----------------------------------------------------------------------------
(* A run.                                                                     *)

NewInst(i) ==
    IF i.format = 2 THEN i ELSE [i EXCEPT !.format = 2, !.tiers = <<>>, !.default = NoValue]
NewLedger(t, i, l, o) ==
    IF Denials(t, i, l, o) = {} THEN l
    ELSE [state |-> "read", entries |-> l.entries \cup Denials(t, i, l, o)]

\* The ignore file, the emitted checker, the manifest, a lock no reader takes, the site.
NewRoot(w, o) ==
    [f \in DOMAIN w |->
        IF w[f] # "old" \/ (f = "site" /\ ~o.site) THEN w[f]
        ELSE IF f = "lock" THEN "absent" ELSE "new"]

AllFiles == Slots \cup DOMAIN root \cup {"instance", "ledger", "policy"}

WorkingCopy ==
    [papers |-> papers, inst |-> inst, takedowns |-> takedowns, policy |-> policy, root |-> root]

\* The checkout as it is to be.
PlanFor(c, o) ==
    [papers |-> Migrated(c.papers, c.inst, o), inst |-> NewInst(c.inst),
     takedowns |-> NewLedger(c.papers, c.inst, c.takedowns, o),
     policy |-> IF c.policy.here THEN c.policy ELSE NewPolicy(c.papers, c.inst, c.takedowns, o),
     root |-> NewRoot(c.root, o)]

Differs(p, f) ==
    CASE f \in Slots -> p.papers[f] # papers[f]
      [] f \in DOMAIN root -> p.root[f] # root[f]
      [] f = "instance" -> p.inst # inst
      [] f = "ledger" -> p.takedowns # takedowns
      [] f = "policy" -> p.policy # policy

Changes(p) == {f \in AllFiles : Differs(p, f)}
Nameless(o) == ~policy.here /\ o.actor = NoValue /\ o.write

Declined(c, o) ==
    \/ c.inst.flaw /\ c.inst.format = 1
    \/ TwoGovern(c.papers)
    \/ \E s \in Walked(c.papers) : Underivable(c.papers[s], c.inst, o)
    \/ Stranding(c.papers, c.inst, o)
    \/ c.takedowns.state = "torn"
    \/ Unread(c.inst, c.takedowns, o)
    \/ c.inst.database /\ o.dsn = "up" /\ Undeniable(c.papers, c.takedowns, o)
    \/ Overreaches(c.papers, c.inst, c.takedowns, c.policy, o)

Deletes(p, f) ==
    \/ f \in Slots /\ ~Present(p.papers[f])
    \/ f \in DOMAIN root /\ p.root[f] = "absent"

\* Variant: in the order they were planned, instance.md first.
TurnAsPlanned(p, f) == IF f = "instance" THEN 0 ELSE 1

\* Writes in the order they were planned, then deletions, then instance.md.
Turn(p, f) ==
    IF f = "instance" THEN 9
    ELSE IF Deletes(p, f) THEN 8
    ELSE CASE f \in Slots -> 1
      [] f = "ledger" -> 2
      [] f = "policy" -> 3
      [] f = "gitignore" -> 4
      [] f = "checker" -> 5
      [] f = "manifest" -> 6
      [] OTHER -> 7

Load(o) ==
    /\ todo = {} /\ runs < MaxRuns
    /\ runs' = runs + 1
    /\ opts' = o
    /\ LET p == PlanFor(WorkingCopy, o) IN
         /\ plan' = p
         /\ outcome' = IF Nameless(o) \/ Declined(WorkingCopy, o) THEN "refused"
                       ELSE IF Changes(p) = {} THEN "idle"
                       ELSE IF ~o.write THEN "diff" ELSE "writing"
         /\ todo' = IF outcome' = "writing" THEN Changes(p) ELSE {}
    /\ UNCHANGED <<papers, inst, takedowns, policy, root, denyRows, acts, first, unvouched>>

WriteNext ==
    \E f \in todo :
        /\ \A g \in todo : Turn(plan, f) <= Turn(plan, g)
        /\ papers' = IF f \in Slots THEN [papers EXCEPT ![f] = plan.papers[f]] ELSE papers
        /\ root' = IF f \in DOMAIN root THEN [root EXCEPT ![f] = plan.root[f]] ELSE root
        /\ inst' = IF f = "instance" THEN plan.inst ELSE inst
        /\ takedowns' = IF f = "ledger" THEN plan.takedowns ELSE takedowns
        /\ policy' = IF f = "policy" THEN plan.policy ELSE policy
        /\ todo' = todo \ {f}
        /\ outcome' = IF todo = {f} THEN "done" ELSE outcome
        /\ UNCHANGED <<plan, opts, runs, denyRows, acts, first, unvouched>>

\* Ctrl-C, a full disk, a killed CI step.
Interrupt ==
    /\ todo # {}
    /\ todo' = {} /\ outcome' = "stopped"
    /\ unvouched' = IF policy.here THEN unvouched ELSE unvouched \cup (takedowns.entries \ acts)
    /\ UNCHANGED <<papers, inst, takedowns, policy, root, plan, opts, runs, denyRows, acts, first>>

-----------------------------------------------------------------------------
(* What people and the other verbs do between runs.                           *)

Between ==
    /\ todo = {} /\ outcome' = "none"
    /\ UNCHANGED <<todo, plan, opts, runs, denyRows, first, unvouched>>

\* `ksor build` writes the directory's index from the tree.
Build ==
    /\ Between
    /\ policy.here /\ inst.format = 2 /\ takedowns.state # "torn"
    /\ \A s \in Walked(papers) : Profile(papers[s]) /\ s \notin Reserved
    /\ papers' = [papers EXCEPT !["index"] = GeneratedIndex]
    /\ UNCHANGED <<inst, takedowns, policy, root, acts>>

\* `ksor takedown` of a document the profile has.
Forbid(s) ==
    /\ Between
    /\ inst.format = 2 /\ Present(papers[s]) /\ Profile(papers[s])
    /\ policy.here /\ takedowns.state # "torn" /\ s \notin Accounted(takedowns)
    /\ LET e == [sid |-> s, scope |-> "node", by |-> "taker", expected |-> "present"] IN
         /\ takedowns' = [state |-> "read", entries |-> takedowns.entries \cup {e}]
         /\ acts' = acts \cup {e}
    /\ UNCHANGED <<papers, inst, policy, root>>

\* `git restore knowledge/`, and the instance with it or not.
Restore ==
    /\ Between
    /\ papers' = first.papers
    /\ inst' \in {inst, first.inst}
    /\ UNCHANGED <<takedowns, policy, root, acts>>

NoPlan == [papers |-> <<>>]

MigrateInit ==
    /\ papers \in Directories /\ inst \in Insts /\ takedowns \in Ledgers /\ denyRows \in Denied
    /\ denyRows # {} => inst.database
    /\ policy = [here |-> FALSE, aud |-> {}, take |-> {}]
    /\ root = [f \in RootFiles |-> "old"]
    /\ todo = {} /\ plan = NoPlan /\ opts = CHOOSE o \in Options : TRUE
    /\ outcome = "none" /\ runs = 0
    /\ acts = takedowns.entries
    /\ first = [papers |-> papers, inst |-> inst]
    /\ unvouched = {}

MigrateNext ==
    \/ \E o \in Options : Load(o)
    \/ WriteNext \/ Interrupt
    \/ Build \/ Restore
    \/ \E s \in Slots : Forbid(s)

MigrateSpec == MigrateInit /\ [][MigrateNext]_migrateVars

-----------------------------------------------------------------------------
(* Properties.                                                                *)

TextsThen == {first.papers[s].text : s \in Slots} \ {NoValue, Generated}
SlotsOf(text) == {s \in Slots : papers[s].text = text}
Was(text) == first.papers[CHOOSE s \in Slots : first.papers[s].text = text]
ReadersOf(d) == IF d.aud # {} THEN d.aud ELSE Expand(first.inst, d.vis)
Approval(text) == Was(text).appr
HeldAt(s) ==
    \E e \in takedowns.entries : e.sid = s \/ (e.sid = Section /\ e.scope = "subtree")

(* Whatever is run, stopped, restored and run again, no document's text is in
   no file, none is readable by anyone its author's record kept it from, an
   approval someone gave is not replaced, and no act in the ledger is gone.   *)
NothingLostOrWidened ==
    /\ \A text \in TextsThen :
         /\ SlotsOf(text) # {}
         /\ \A s \in SlotsOf(text) :
              /\ Profile(papers[s]) => papers[s].aud \subseteq ReadersOf(Was(text))
              /\ Approval(text) # NoValue => papers[s].appr = Approval(text)
    /\ acts \subseteq takedowns.entries

(* A run that finished accounts for every row of the denylist it read, its
   hold goes where the denied text went, and each new entry agrees with the
   tree the next build judges it by.                                          *)
DenialsFollowTheText ==
    outcome = "done" /\ inst.database /\ opts.dsn = "up" =>
        /\ \A r \in denyRows :
             /\ r.sid \in Accounted(takedowns)
             /\ r.sid \in Walked(first.papers) =>
                  \A s \in SlotsOf(first.papers[r.sid].text) : HeldAt(s)
        /\ \A e \in takedowns.entries \ acts :
             e.expected = "present" <=> e.sid = Section \/ e.sid \in Walked(papers)

(* Wherever there is a policy, those who denied what a run transcribed have
   takedown authority in it, or the next build refuses the ledger
   (checkLedgerActors); except for what a run wrote that was stopped before it
   came to the policy: a later run takes its rows for accounted.               *)
DeniersMayDeny ==
    policy.here => \A e \in takedowns.entries \ (acts \cup unvouched) : e.by \in policy.take

(* What was recorded of a record is recorded after it.                         *)
RecordSurvives == NothingLostOrWidened /\ DenialsFollowTheText /\ DeniersMayDeny

HalfMoved == Movers(papers) # {} /\ Present(papers["overview"])

(* A run that finished has nothing left to do, and one that was stopped can be
   run again, except between the copy of a reserved name's text and the
   deletion of the original, where it refuses to choose.                      *)
RerunsSettle ==
    /\ outcome = "done" => ~Declined(WorkingCopy, opts) /\ Changes(PlanFor(WorkingCopy, opts)) = {}
    /\ outcome = "stopped" /\ ~HalfMoved => ~Declined(WorkingCopy, opts)

=============================================================================
