------------------------------ MODULE MCCorpus ------------------------------
(***************************************************************************)
(* What is made of a corpus and around it, in small instances: the passages *)
(* an ingest cuts (Passages), the cards its readers learn (Study), the floor *)
(* of its answers (Abstention), its outline (Outline), the providers of its  *)
(* vectors (Providers), the verbs of its operator (Console), the project it *)
(* begins as (Scaffold), and its denials, folded from two checkouts of one *)
(* repository that merge (Takedown).  They share no state, so each         *)
(* behaviour is of one of them, and the others stay as they begin.         *)
(***************************************************************************)
EXTENDS Takedown, Providers, Scaffold, Study, Abstention, Outline, Console, Passages

VARIABLES
    lane    \* the component that this behaviour is of

\* Short documents of a few kinds of lines: headings, prose, links, blank lines,
\* code; style blocks and layout tags.
Line(is, level, title, mark, length, info, size) ==
    [is |-> is, level |-> level, title |-> title, mark |-> mark, run |-> length, info |-> info,
     size |-> size]
Plain(is, size) == Line(is, 0, "", "none", 0, FALSE, size)
Fence(mark, length, info) == Line("fence", 0, "", mark, length, info, 1)
Tag(attributes) == Line("open", 0, "", "none", 0, attributes, 1)
Texts ==
    {Line("heading", 2, "a", "none", 0, FALSE, 1), Line("heading", 3, "b", "none", 0, FALSE, 1),
     Plain("prose", 2), Plain("prose", 9), Plain("blank", 1), Plain("link", 1),
     Fence("tick", 3, FALSE), Fence("tick", 4, TRUE)}
Markup ==
    {Plain("style", 1), Plain("unstyle", 1), Tag(FALSE), Tag(TRUE), Plain("close", 1),
     Fence("tilde", 3, FALSE), Plain("prose", 2), Plain("assessment", 1)}
GapThenFence == <<Plain("prose", 2), Plain("blank", 1), Fence("tick", 3, FALSE)>>
MCBodies ==
    {<<>>} \cup UNION {[1..n -> Texts] : n \in 1..3} \cup UNION {[1..n -> Markup] : n \in 1..4}
    \cup {s \o GapThenFence : s \in [1..3 -> Texts]}

\* Three nodes, in any order under each other, well formed or not.
MCNodes ==
    [id : {"a", "b", "c"}, slug : {"x", "y"}, parent : {"none", "a", "b", "c"}, position : {0},
     audience : {{}}, sources : {{}}, verified : {{"none"}}, keywords : {{}}]
MCCorpora ==
    {<<>>} \cup {s \in [1..3 -> MCNodes] : s[1].id = "a" /\ s[2].id = "b" /\ s[3].slug = "x"}

-----------------------------------------------------------------------------
\* A deck and what it is edited to; a day is three minutes.
MCDecks == {<<"a", "b">>, <<"a", "c">>}
MCLearningSteps == <<1, 2>>
MCRelearningSteps == <<2>>

-----------------------------------------------------------------------------
\* Two releases, of which the second admits one passage more; a question and a
\* probe, close to each other or not, over two generations.
Passage(name, aud, admitted, question, probe, words, asks) ==
    [name |-> name, aud |-> aud, admitted |-> admitted, words |-> words, asks |-> asks,
     likeness |-> [q \in {"q", "o"} |-> IF q = "q" THEN question ELSE probe]]
Near(question, probe) ==
    Passage("n", {"public"}, {"k1", "k2"}, question, probe, {"q"}, "q")
Inner(probe) == Passage("i", {"inner"}, {"k1", "k2"}, 100, probe, {"o"}, "q")
Later == Passage("l", {"public"}, {"k2"}, 7000, 6900, {"o"}, "q")
MCHeld ==
    {<<{Near(score, 100), Inner(6005), Later}, {Near(6500, 100), Inner(6000)}>> :
        score \in {6015}}
MCHistories == MCHeld \cup {<<{}, {}>>}
MCAskers == {{"public"}, {"public", "inner"}}

-----------------------------------------------------------------------------
\* Trees of three levels, in which one name occurs more than once and one is the
\* bundle's; of two audiences.
Node(path, kind, aud, order) == [path |-> path, kind |-> kind, aud |-> aud, at |-> order]
Folders(up) ==
    {Node(<<"x">>, "section", {}, <<2>>), Node(<<"x", "y">>, "section", {}, <<2, up>>),
     Node(<<"k">>, "section", {}, <<4>>)}
Leaves(up) ==
    {Node(<<"a">>, "document", {"public"}, <<1>>), Node(<<"y">>, "document", {"inner"}, <<3>>),
     Node(<<"x", "a">>, "document", {"inner"}, <<2, 3 - up>>),
     Node(<<"x", "b">>, "document", {"public"}, <<2, 3>>),
     Node(<<"x", "y", "a">>, "document", {"public"}, <<2, up, 1>>),
     Node(<<"k", "a">>, "document", {"public", "inner"}, <<4, 1>>)}
MCTrees ==
    {{}} \cup UNION {{{s \in Folders(up) : \E d \in L : IsStrictPrefix(s.path, d.path)} \cup L :
        L \in {Leaves(up)} \cup {{d \in Leaves(up) : Last(d.path) # name} : name \in {"b", "y"}}} : up \in {1, 2}}
MCViewers == {{"public"}, {"public", "inner"}}

-----------------------------------------------------------------------------
MCRequests == {<<"a">>, <<"b", "a">>}

-----------------------------------------------------------------------------
\* Two documents, one of them in a directory; ids as they are typed.
Typed(path, bundled, anchored, slash) ==
    [path |-> IF slash THEN Append(path, NoSegment) ELSE path, bundled |-> bundled, anchored |-> anchored]
Verb(verb, dir, flip) ==
    [verb |-> verb, help |-> FALSE, at |-> dir, flip |-> flip, acts |-> {}, id |-> Typed(<<>>, TRUE, FALSE, FALSE),
     scope |-> "unsaid", reason |-> FALSE, actor |-> "nobody", names |-> 0, fileOnly |-> FALSE]
TakedownCall(these, id, scope, actor, names) ==
    [Verb("takedown", "unsaid", FALSE) EXCEPT !.acts = these, !.id = id, !.scope = scope, !.reason = TRUE,
                                        !.actor = actor, !.names = names]
Whole == Typed(<<>>, TRUE, FALSE, TRUE)
DenyCalls ==
    {TakedownCall({"deny"}, Typed(<<"a">>, TRUE, FALSE, slash), scope, "ciso", 0) :
        slash \in BOOLEAN, scope \in {"unsaid", "tree"}}
    \cup {TakedownCall({"deny"}, Typed(<<"x">>, TRUE, anchored, slash), scope, "ciso", 0) :
        slash \in BOOLEAN, anchored \in BOOLEAN, scope \in {"node", "subtree"}}
    \cup {TakedownCall({"deny"}, Whole, "subtree", "ciso", 0),
          TakedownCall({"deny"}, Typed(<<"a">>, FALSE, FALSE, FALSE), "unsaid", "ciso", 0)}
    \cup {TakedownCall({"deny"}, Typed(<<"a">>, TRUE, FALSE, FALSE), "unsaid", actor, 0) : actor \in {"nobody", "team", "guest"}}
OtherActs ==
    {TakedownCall({act}, Whole, "unsaid", "ciso", n) : act \in {"revoke", "removed"}, n \in 1..2}
    \cup {TakedownCall(these, Whole, "unsaid", "nobody", 0) : these \in {{}, {"apply"}, {"list"}, {"ledger"}, {"list", "apply"}}}
MCCalls ==
    DenyCalls \cup OtherActs
    \cup {[c EXCEPT !.fileOnly = TRUE] : c \in {d \in DenyCalls : Last(d.id.path) = NoSegment /\ ~d.id.anchored}}
    \cup {[c EXCEPT !.at = dir] : c \in OtherActs, dir \in {"record", "elsewhere"}}
    \cup {Verb(verb, dir, TRUE) : verb \in {"grant", "withdraw", "gc", "ingest"}, dir \in {"unsaid", "record", "elsewhere"}}
    \cup {Verb("ingest", "record", FALSE), Verb("typo", "unsaid", FALSE), Verb("dev", "unsaid", FALSE)}
    \cup {[Verb(verb, "unsaid", FALSE) EXCEPT !.help = TRUE] : verb \in {"bare", "typo", "ingest"}}
Checkout(declares, reads, parses) ==
    [docs |-> {<<"a">>, <<"x", "b">>}, declares |-> declares, parses |-> parses, ledger |-> <<>>,
     policy |-> [reads |-> reads, actors |-> IF reads THEN {"ciso"} ELSE {}]]
MCRecords ==
    {Checkout(d, TRUE, TRUE) : d \in {"database", "nothing", "rubbish"}}
    \cup {Checkout("database", FALSE, TRUE), Checkout("database", TRUE, FALSE)}
Lacking(what) == [k \in {"dsn", "key", "inside"} |-> k \notin what]
MCShells == {Lacking(what) : what \in {{}, {"dsn"}, {"key", "inside"}}}
MCLoose == {<<"a">>}

-----------------------------------------------------------------------------
\* One in place at most; every word, every manager.
Words == {"sor", ".", "none", "several", "Bad", "con"}
MCWants == [word : Words, agent : {"npm", "bun", "yarn"}]
MCGrounds == [templates : BOOLEAN, owned : BOOLEAN]

-----------------------------------------------------------------------------
all == <<lane, vars, passagesVars, studyVars, gateVars, outlineVars, vendorVars, consoleVars, scaffoldVars>>

Start ==
    /\ lane \in {"cut", "study", "gate", "outline", "vendor", "desk", "init", "folds"}
    /\ Init /\ at["p1"] = "main" /\ at["p2"] = "branch"
    /\ lane # "cut" => body = <<>> /\ corpus = <<>>
    /\ PassagesInit
    /\ deck = <<"a", "b">>
    /\ StudyInit
    /\ lane # "gate" => releases = <<{}, {}>>
    /\ lane = "gate" => releases \in MCHeld
    /\ GateInit
    /\ lane # "outline" => tree = {}
    /\ OutlineInit
    /\ lane # "vendor" => process = "door"
    /\ VendorInit
    /\ lane # "desk" => record = Checkout("database", TRUE, TRUE)
    /\ lane # "desk" => shell = Lacking({})
    /\ ConsoleInit
    /\ lane # "desk" => ~store.schema
    /\ lane # "init" => place = [templates |-> TRUE, owned |-> FALSE] /\ target = None
    /\ ScaffoldInit
    /\ lane # "init" => \A i \in DOMAIN inits : inits[i].word = "sor" /\ inits[i].manager = "npm"
    /\ OneInPlace

Lane ==
    \/ lane = "cut" /\ PassagesNext /\ UNCHANGED <<vars, studyVars, gateVars, outlineVars, vendorVars, consoleVars, scaffoldVars>>
    \/ lane = "study" /\ StudyNext /\ UNCHANGED <<vars, passagesVars, gateVars, outlineVars, vendorVars, consoleVars, scaffoldVars>>
    \/ lane = "gate" /\ GateNext /\ UNCHANGED <<vars, passagesVars, studyVars, outlineVars, vendorVars, consoleVars, scaffoldVars>>
    \/ lane = "outline" /\ OutlineNext /\ UNCHANGED <<vars, passagesVars, studyVars, gateVars, vendorVars, consoleVars, scaffoldVars>>
    \/ lane = "vendor" /\ VendorNext /\ UNCHANGED <<vars, passagesVars, studyVars, gateVars, outlineVars, consoleVars, scaffoldVars>>
    \/ lane = "desk" /\ ConsoleNext /\ UNCHANGED <<vars, passagesVars, studyVars, gateVars, outlineVars, vendorVars, scaffoldVars>>
    \/ lane = "folds" /\ Next
       /\ UNCHANGED <<passagesVars, studyVars, gateVars, outlineVars, vendorVars, consoleVars, scaffoldVars>>
    \/ lane = "init" /\ ScaffoldNext /\ UNCHANGED <<vars, passagesVars, studyVars, gateVars, outlineVars, vendorVars, consoleVars>>

Corpus == Start /\ [][Lane /\ UNCHANGED lane]_all
=============================================================================
