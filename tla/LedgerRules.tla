----------------------------- MODULE LedgerRules -----------------------------
(***************************************************************************)
(* The rules of .ksor/takedowns.yaml, as content/src/record/ledger.ts reads *)
(* and judges it, and the baseline content/src/record/git-ledger.ts reads  *)
(* out of history.  Pure operators: module Publish runs them as the build  *)
(* does, and says what they must amount to.                                *)
(*                                                                         *)
(* A ledger is a sequence of entries                                       *)
(*    [id, kind, by, at, ref, scope, expected]                             *)
(* where ref is a sequence of names: the path of the document or directory *)
(* a denial names, or <<id>> of the denial a revocation or amendment names. *)
(* An entry's digest covers every field, so two entries have one digest    *)
(* exactly when they are equal, and the entry stands for its digest.       *)
(***************************************************************************)
EXTENDS Naturals, Sequences, SequencesExt

\* A text the parser cannot read: it still shows the ids that are in it.
NoText == [kind |-> "no text"]

Entries(ledger) == ToSet(ledger)
EntryIds(ledger) == {e.id : e \in Entries(ledger)}
ById(ledger, id) == CHOOSE e \in Entries(ledger) : e.id = id

\* parseEntry: a subtree denial names a directory's anchor and a node denial a
\* concept, which is what "scope" says of "ref" here; an amendment records a removal.
EntryReads(e) ==
    \/ e.kind = "denial" /\ e.scope \in {"node", "subtree"} /\ (e.scope = "node" => e.ref # <<>>)
    \/ e.kind \in {"revocation", "amendment"}

\* parseLedger: ids are used once, and what an entry revokes or amends is an
\* earlier denial.
LedgerReads(ledger) ==
    /\ \A e \in Entries(ledger) : EntryReads(e)
    /\ \A i, j \in DOMAIN ledger : ledger[i].id = ledger[j].id => i = j
    /\ \A i \in DOMAIN ledger : ledger[i].kind # "denial" =>
           \E j \in 1..(i - 1) : ledger[j].kind = "denial" /\ <<ledger[j].id>> = ledger[i].ref

Names(ledger, kind, id) == \E e \in Entries(ledger) : e.kind = kind /\ e.ref = <<id>>

\* inForce: what no revocation lifted, with "expected" as an amendment left it.
InForce(ledger) ==
    {[e EXCEPT !.expected = IF Names(ledger, "amendment", e.id) THEN "removed" ELSE @] :
        e \in {d \in Entries(ledger) : d.kind = "denial" /\ ~Names(ledger, "revocation", d.id)}}

\* denies: resolved at use, so a subtree covers what is added below it later.
Denies(denials, doc) ==
    \E d \in denials : IF d.scope = "node" THEN d.ref = doc ELSE IsPrefix(d.ref, doc)

-----------------------------------------------------------------------------
(* checkLedgerActors: an entry by somebody the policy does not name refuses,
   unless a build that passed recorded this very text.                       *)
AcceptedIn(baselines) ==
    UNION {{s \in b.entries : s.text # NoText} : b \in {c \in baselines : c.accepted}}

Unauthorised(ledger, actors, baselines) ==
    {e.id : e \in {f \in Entries(ledger) :
        /\ f.by \notin actors
        /\ [id |-> f.id, text |-> f] \notin AcceptedIn(baselines)}}

(* checkLedgerAgainstTree: a denial in force says whether its target is in the
   tree ("expected"), and the record root can be no target.                  *)
TargetPresent(d, documents, dirs) == d.ref \in IF d.scope = "subtree" THEN dirs ELSE documents

ExpectedIn(d, documents, dirs) == IF TargetPresent(d, documents, dirs) THEN "present" ELSE "removed"

OutOfStep(ledger, documents, dirs) ==
    {d.id : d \in {e \in InForce(ledger) :
        \/ e.scope = "subtree" /\ e.ref = <<>>
        \/ ExpectedIn(e, documents, dirs) # e.expected}}

(* checkLedgerAppendOnly: every id a baseline has seen is still there, with the
   text that baseline recorded for it.                                       *)
Lost(ledger, baselines) ==
    {s.id : s \in UNION {b.entries : b \in baselines}} \ EntryIds(ledger)

Rewritten(ledger, baselines) ==
    {s.id : s \in {t \in UNION {b.entries : b \in baselines} :
        /\ t.text # NoText
        /\ t.id \in EntryIds(ledger)
        /\ t.text # ById(ledger, t.id)}}

LedgerRefusals(ledger, actors, documents, dirs, baselines) ==
    IF ~LedgerReads(ledger) THEN {"ksor-ledger-invalid"}
    ELSE {slug \in {"ksor-takedown-unauthorised", "ksor-takedown-dangling",
                    "ksor-ledger-shrank", "ksor-ledger-amended"} :
              CASE slug = "ksor-takedown-unauthorised" -> Unauthorised(ledger, actors, baselines) # {}
                [] slug = "ksor-takedown-dangling" -> OutOfStep(ledger, documents, dirs) # {}
                [] slug = "ksor-ledger-shrank" -> Lost(ledger, baselines) # {}
                [] slug = "ksor-ledger-amended" -> Rewritten(ledger, baselines) # {}}

-----------------------------------------------------------------------------
\* A variant for mutants: every text an id ever had stays.
EveryText(seen, version) ==
    IF LedgerReads(version)
    THEN seen \cup {[id |-> e.id, text |-> e] : e \in Entries(version)}
    ELSE seen

(* historicEntries: the committed versions are walked newest first.  A version
   that reads overwrites what the walk has, so an id ends with the text it was
   first written with; one that does not read adds ids, and never over a text. *)
WalkVersion(seen, version) ==
    LET had(id) == \E s \in seen : s.id = id
    IN  IF LedgerReads(version)
        THEN {s \in seen : s.id \notin EntryIds(version)}
                 \cup {[id |-> e.id, text |-> e] : e \in Entries(version)}
        ELSE seen \cup {[id |-> i, text |-> NoText] : i \in {j \in EntryIds(version) : ~had(j)}}

\* "versions" has the oldest committed version first; walked[k] is what the k
\* newest of them leave.
HistoricEntries(versions) ==
    LET n == Len(versions)
        walked[k \in 0..n] ==
            IF k = 0 THEN {} ELSE WalkVersion(walked[k - 1], versions[n - k + 1])
    IN  walked[n]
==============================================================================
