------------------------------- MODULE MCRecord -------------------------------
(***************************************************************************)
(* The record on its way from the tree to an answer, in small instances:   *)
(* the takedown verb's lock (LedgerLock), builds, commits and ingests      *)
(* (Publish), the schema they write to (SchemaLadder), reads while         *)
(* generations and denials come and go (ReadPlane), the site's stage       *)
(* (Staging), a record that comes from before the profile (Migrate), and   *)
(* (Surfaces) the checker, the bundles, the site and the door of one record *)
(* as it is edited.  Each keeps its own state, so a behaviour is of one.    *)
(***************************************************************************)
EXTENDS LedgerLock, Staging, SchemaLadder, ReadPlane, Publish, Surfaces, Migrate, TLC

CONSTANTS
    Lanes        \* which of them behaviours are of

VARIABLES
    lane

-----------------------------------------------------------------------------
\* A document and a simulation, and a simulation that only an earlier build had.
MCPlan == <<"a", "b">>

-----------------------------------------------------------------------------
(* Two actors, an entry that denies the document and one that lifts it, and a
   hand that retargets an entry in place.                                     *)
MCDocs ==
    [body : {"old", "new"}, gen : {1, 2}, appr : {1, 2}, stable : {TRUE}]
        \cup {[body |-> "new", gen |-> 1, appr |-> 1, stable |-> FALSE]}
MCActs ==
    {[id |-> "e1", kind |-> "denial", by |-> "alice", at |-> 1, ref |-> <<"p", "d">>,
      scope |-> "node", expected |-> "present"],
     [id |-> "e2", kind |-> "revocation", by |-> "bob", at |-> 2, ref |-> <<"e1">>,
      scope |-> "node", expected |-> "present"]}
MCBudgets ==
    {[text |-> 2, acts |-> 0, undo |-> 1, runs |-> 2],
     [text |-> 0, acts |-> 2, undo |-> 1, runs |-> 2]}
MCHandwritten == {[e EXCEPT !.at = 0] : e \in MCActs}

-----------------------------------------------------------------------------
\* Two operators of builds 3 and 2 on one database, and two doors.
MCBuild == "o1" :> 3 @@ "o2" :> 2 @@ "d1" :> 3 @@ "d2" :> 2

-----------------------------------------------------------------------------
(* Two generations: a section s with a document d in it, which the second
   rewrites, and a document e that only the first has.                        *)
C(n, hp, size) == [id |-> n, hp |-> hp, size |-> size]

\* A heading that comes back, one split by a page, one longer than a page.
First == <<C(1, <<"a">>, 1), C(2, <<"a", "b">>, 2), C(3, <<"a", "b">>, 1), C(4, <<"c">>, 3),
           C(5, <<"a">>, 1)>>
Second == <<C(6, <<"a">>, 2), C(7, <<"c", "b">>, 1)>>
Note == <<C(8, <<>>, 1)>>

MCGens == 1..2
MCParent == <<"d" :> "s" @@ "s" :> "none" @@ "e" :> "none", "d" :> "s" @@ "s" :> "none">>
MCChunks == <<"d" :> First @@ "e" :> Note, "d" :> Second>>
MCShown == <<{"d", "e"}, {"d"}>>
MCHeadings == {<<>>, <<"b">>}

-----------------------------------------------------------------------------
(* One directory before the profile: a document, an older one that may point at
   it, and reserved names with prose of their own.                            *)
Blank ==
    [text |-> None, status |-> None, aud |-> {}, vis |-> None, sup |-> None, ksup |-> None,
     appr |-> None, legacy |-> FALSE, flaw |-> FALSE]
Legacy(words, status, vis) ==
    [Blank EXCEPT !.text = words, !.status = status, !.vis = vis, !.legacy = TRUE]
Kept == [Legacy("t1", "stable", None) EXCEPT !.aud = {"board"}, !.appr = "ann"]
Replaced == [Legacy("t2", "superseded", None) EXCEPT !.sup = "a"]
MCDirectories ==
    [a : {Legacy("t1", "approved", None), Legacy("t1", "draft", "staff"), Kept,
          [Kept EXCEPT !.flaw = TRUE]},
     b : {Blank, Replaced},
     index : {Blank, [Blank EXCEPT !.text = "generated"], Legacy("t3", "draft", None)},
     overview : {Blank, Legacy("t4", "draft", "staff")},
     README : {Blank, Legacy("t5", "draft", "staff")}]
MCInsts ==
    [format : {1}, tiers : {<<"public", "staff", "board">>}, default : {None, "staff"},
     database : BOOLEAN, flaw : {FALSE}]
MCLedgers ==
    {[state |-> "absent", entries |-> {}], [state |-> "torn", entries |-> {}],
     [state |-> "read", entries |-> {[sid |-> "b", scope |-> "node", by |-> "taker",
                                      expected |-> "present"]}]}
Row(sid, scope, by) == [sid |-> sid, scope |-> scope, by |-> by]
MCDenied ==
    {{}, {Row("a", "node", None)}, {Row("index", "node", "ann")},
     {Row("index", "subtree", "tom"), Row("b", "node", "tom")}}
Given(actor, approve, dsn, attribute) ==
    [actor |-> actor, approve |-> approve, dsn |-> dsn, attribute |-> attribute, write |-> TRUE,
     site |-> attribute]
MCOptions == {Given("ann", "ann", "up", FALSE), Given(None, None, "up", TRUE)}
\* The DSN not exported.
WithOffline == MCOptions \cup {Given("ann", None, "unset", TRUE)}

-----------------------------------------------------------------------------
(* A document in a folder with its successor and an image in a folder nobody
   else writes to, a folder and a root page; two policies; two readers.       *)
A == <<1>>
B == <<2, 1>>
D == <<2, 2>>
Z == <<4>>
Figure == <<2, 3, 9>>
Logo == <<8>>
Stable(aud, order) ==
    [here |-> TRUE, type |-> "note", status |-> "stable", aud |-> aud, from |-> 0, until |-> 9,
     order |-> order, links |-> {}, summary |-> {}, deck |-> {}, with |-> {}, sup |-> <<>>,
     approver |-> "ann", withdrawer |-> None, generated |-> 1, approved |-> 1, tier |-> 0,
     flaw |-> FALSE]
Staff == {"staff"}
All == {"public"}
Deleted == [Stable(All, 9) EXCEPT !.here = FALSE]
Linked ==
    [Stable(All, 5) EXCEPT !.links = {To("document", B), To("asset", Figure)},
       !.summary = {To("directory", <<2, 3>>), To("companion", B)},
       !.deck = {To("asset", Logo)}, !.with = {"summary", "deck"}]
Retired ==
    [Stable(All, 5) EXCEPT !.status = "deprecated", !.sup = B, !.withdrawer = "tess",
       !.approver = None]
Summed == [Stable(All, 9) EXCEPT !.with = {"summary"}, !.tier = 2]
Sketch == [Stable(Staff, 1) EXCEPT !.status = "draft", !.approver = None]
Folder(a, b, d) == A :> a @@ B :> b @@ D :> d @@ Z :> Deleted
Edit(at, doc) == [at |-> at, doc |-> doc]

MCIds == {A, B, D, Z}
MCDirs == {<<2>>, <<2, 3>>}
MCAssets == {Figure, Logo}
MCSlug == <<1, 2, 3, 1>>
MCTrees ==
    {Folder(Linked, Summed, Sketch),
     Folder(Retired, [Summed EXCEPT !.from = 1], Stable(Staff, 3))}
MCRewrites ==
    {Edit(A, [Stable(All, 5) EXCEPT !.links = {To("asset", Figure)}]),
     Edit(A, [Stable(All, 5) EXCEPT !.deck = {To("asset", Figure)}, !.with = {"deck"}]),
     Edit(A, [Stable(Staff, 5) EXCEPT !.deck = {To("asset", Logo)}, !.with = {"deck"}]),
     Edit(A, [Retired EXCEPT !.sup = D, !.aud = Staff, !.withdrawer = "olga"]),
     Edit(B, Stable(Staff, 9)), Edit(B, [Summed EXCEPT !.here = FALSE]), Edit(B, Deleted),
     Edit(D, Stable(All, 9)), Edit(D, [Stable(Staff, 1) EXCEPT !.until = 1]),
     Edit(Z, [Stable(All, 4) EXCEPT !.generated = 2]), Edit(Z, Stable(All, 4))}
MCCharters ==
    <<[audiences |-> {"staff", "board"}, takers |-> {"tess"},
       approvals |-> {[paths |-> {}, types |-> {}, actors |-> {"ann", "bob"}]},
       owners |-> {[paths |-> {<<2>>}, types |-> {}, owner |-> "olga"]}],
      [audiences |-> {"staff"}, takers |-> {"tess", "olga"},
       approvals |->
         {[paths |-> {}, types |-> {}, actors |-> {"ann"}],
          [paths |-> {B}, types |-> {"note"}, actors |-> {"bob"}],
          [paths |-> {B}, types |-> {}, actors |-> {"ann"}]},
       owners |-> {}]>>
MCTargets == {[at |-> B, scope |-> "node"], [at |-> <<2>>, scope |-> "subtree"]}
MCReaders == {{"public"}, {"public", "staff"}}

-----------------------------------------------------------------------------
all == <<lane, vars, stagingVars, publishVars, schemaVars, readVars, migrateVars, surfaceVars>>

RecordInit ==
    /\ lane \in Lanes
    /\ Init
    /\ StagingInit
    /\ lane # "stage" => ~refusal /\ stage = Unstaged /\ manifest = "absent" /\ sims = {}
    /\ PublishInit /\ (lane # "publish" => budget.text = 0)
    /\ SchemaInit /\ (lane # "schema" => shape = <<>>)
    /\ ReadInit /\ (lane # "read" => active = 0)
    /\ MigrateInit
    /\ lane # "migrate" =>
         /\ \A s \in Slots \ {"a"} : papers[s] = Blank
         /\ papers["a"] = Kept /\ inst.default = None /\ ~inst.database
         /\ takedowns.state = "absent"
    /\ SurfacesInit /\ (lane # "surfaces" => docs[A] = Retired)

Lane ==
    \/ /\ lane = "ledger" /\ Next
       /\ UNCHANGED <<stagingVars, publishVars, schemaVars, readVars, migrateVars, surfaceVars>>
    \/ /\ lane = "stage" /\ StagingNext
       /\ UNCHANGED <<vars, publishVars, schemaVars, readVars, migrateVars, surfaceVars>>
    \/ /\ lane = "publish" /\ PublishNext
       /\ UNCHANGED <<vars, stagingVars, schemaVars, readVars, migrateVars, surfaceVars>>
    \/ /\ lane = "schema" /\ SchemaNext
       /\ UNCHANGED <<vars, stagingVars, publishVars, readVars, migrateVars, surfaceVars>>
    \/ /\ lane = "read" /\ ReadNext
       /\ UNCHANGED <<vars, stagingVars, publishVars, schemaVars, migrateVars, surfaceVars>>
    \/ /\ lane = "migrate" /\ MigrateNext
       /\ UNCHANGED <<vars, stagingVars, publishVars, schemaVars, readVars, surfaceVars>>
    \/ /\ lane = "surfaces" /\ SurfacesNext
       /\ UNCHANGED <<vars, stagingVars, publishVars, schemaVars, readVars, migrateVars>>

Record == RecordInit /\ [][Lane /\ UNCHANGED lane]_all

=============================================================================
