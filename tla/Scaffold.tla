------------------------------ MODULE Scaffold ------------------------------
(***************************************************************************)
(* ksor init (packages/ksor/src/init): a project is made in a directory, by *)
(* name from its parent, in a stage beside it that is renamed, or from      *)
(* inside ("."), file by file with a rollback.  Several may run at once,    *)
(* any may be killed, a disk may fill up, and the user may make the         *)
(* directory, or put a file into it, meanwhile.                            *)
(***************************************************************************)
EXTENDS Integers, SequencesExt

CONSTANTS
    Inits,        \* processes
    Wants,        \* what they are asked: [word, agent]
    Grounds       \* where: [templates, owned], whether the package has its
                  \* templates, and a project above owns the path

ASSUME ScaffoldAssumption == "user" \notin Inits

VARIABLES
    place,
    target,       \* the directory: [there, files]
    stages,       \* the stage of each process
    inits

scaffoldVars == <<place, target, stages, inits>>

None == [there |-> FALSE, files |-> {}]
File(name, by, whole) == [name |-> name, by |-> by, whole |-> whole]

-----------------------------------------------------------------------------
(* What a project consists of *)

\* detectManager: of npm and bun their own, else pnpm.
Manager(agent) == IF agent \in {"npm", "bun"} THEN agent ELSE "pnpm"

\* A directory, what is in it, a text and a picture; what is pnpm's alone; and what
\* npm's alone.
Template == <<"package.json", "knowledge", "knowledge/page", "logo">>
Lockfile(manager) == IF manager = "pnpm" THEN <<"pnpm-lock.yaml">> ELSE <<>>
ExtraFiles(manager) == IF manager = "npm" THEN <<".npmrc">> ELSE <<>>
Emitted(manager) == Template \o Lockfile(manager) \o ExtraFiles(manager)

-----------------------------------------------------------------------------
(* One init *)
Fresh == [pc |-> "begins", dot |-> FALSE, word |-> "none", manager |-> "npm", todo |-> <<>>,
          created |-> {}, code |-> 0]

\* The words: "none", "several", "." and names; a name has a grammar, and Windows
\* reserves some.
NameProblem(word) == word \in {"Bad", "con"}

ScaffoldInit ==
    /\ place \in Grounds
    /\ target \in {None, [there |-> TRUE, files |-> {}]}
    /\ stages = [i \in Inits |-> None]
    /\ inits \in [Inits -> {[Fresh EXCEPT !.dot = a.word = ".", !.word = a.word,
                                          !.manager = Manager(a.agent)] : a \in Wants}]
    /\ \A i \in Inits : inits[i].dot => target.there

At(i, pc) == inits[i].pc = pc
To(i, pc) == inits' = [inits EXCEPT ![i].pc = pc]
Ends(i, code) == inits' = [inits EXCEPT ![i].pc = "ended", ![i].code = code]

\* What refuses before anything is written: no templates, no word, more than one,
\* a name that is none, a project above, a directory that is there or not empty.
\* (.git does not count.)
Refusal(i) ==
    LET one == inits[i]
    IN  IF ~place.templates THEN 3
        ELSE IF \/ one.word = "several" \/ NameProblem(one.word) \/ place.owned
                \/ (one.dot /\ target.files # {}) \/ (~one.dot /\ target.there)
        THEN 1 ELSE 0

\* Without a word, the usage.
Begin(i) ==
    /\ At(i, "begins")
    /\ IF inits[i].word = "none" /\ place.templates THEN Ends(i, 0)
       ELSE IF Refusal(i) # 0 THEN Ends(i, Refusal(i))
       ELSE inits' = [inits EXCEPT ![i].pc = IF inits[i].dot THEN "copies" ELSE "stages",
                                   ![i].todo = Emitted(inits[i].manager)]
    /\ UNCHANGED <<place, target, stages>>

\* mkdtemp, in the directory's parent.
Stage(i) ==
    /\ At(i, "stages")
    /\ \/ stages' = [stages EXCEPT ![i].there = TRUE] /\ To(i, "copies")
       \/ Ends(i, 3) /\ UNCHANGED stages
    /\ UNCHANGED <<place, target>>

Tree(i) == IF inits[i].dot THEN target ELSE stages[i]
Becomes(i, tree) ==
    IF inits[i].dot THEN target' = tree /\ UNCHANGED stages
    ELSE stages' = [stages EXCEPT ![i] = tree] /\ UNCHANGED target

\* A directory that is there is not made again; a file replaces one of its name.
Put(tree, file) ==
    [tree EXCEPT !.files = {f \in @ : f.name # file.name} \cup {file}]

\* Variant: a path is tracked once it is written.
TrackedAfter(created, name, whole) == IF whole THEN created \cup {name} ELSE created

\* materialize: before it is written.
Tracked(created, name, whole) == created \cup {name}

Copy(i) ==
    LET name == inits[i].todo[1]
    IN  /\ At(i, "copies") /\ inits[i].todo # <<>>
        /\ \E whole \in BOOLEAN :
              /\ Becomes(i, Put(Tree(i), File(name, i, whole)))
              /\ inits' = [inits EXCEPT
                    ![i].created = Tracked(@, name, whole),
                    ![i].todo = IF whole THEN Tail(@) ELSE @,
                    ![i].pc = IF whole THEN "copies" ELSE "undoes"]
        /\ UNCHANGED place

\* rollback: what this run brought into being; of a stage, all of it.
Rollback(i) ==
    /\ At(i, "undoes")
    /\ Becomes(i, IF inits[i].dot
                    THEN [target EXCEPT !.files = {f \in @ : f.name \notin inits[i].created}]
                    ELSE None)
    /\ Ends(i, 3)
    /\ UNCHANGED place

\* The stage takes the place of a directory that is not there, or is empty; where
\* somebody's files are, this run comes too late.  Another failure is the
\* environment's.
Rename(i) ==
    /\ At(i, "copies") /\ inits[i].todo = <<>> /\ ~inits[i].dot
    /\ stages' = [stages EXCEPT ![i] = None]
    /\ \/ target.files = {} /\ target' = stages[i] /\ To(i, "there")
       \/ target.files # {} /\ Ends(i, 1) /\ UNCHANGED target
       \/ Ends(i, 3) /\ UNCHANGED target
    /\ UNCHANGED place

Settle(i) ==
    /\ At(i, "copies") /\ inits[i].todo = <<>> /\ inits[i].dot
    /\ To(i, "there")
    /\ UNCHANGED <<place, target, stages>>

\* The mode, the note of stages left behind and git are tried; the project is there.
Handoff(i) ==
    /\ At(i, "there")
    /\ Ends(i, 0)
    /\ UNCHANGED <<place, target, stages>>

-----------------------------------------------------------------------------
Kill(i) ==
    /\ inits[i].pc \notin {"ended", "killed"}
    /\ To(i, "killed")
    /\ UNCHANGED <<place, target, stages>>

\* The user, where no run writes in place.
User ==
    /\ \A i \in Inits : ~inits[i].dot
    /\ target' = [there |-> TRUE, files |-> target.files \cup {File("notes", "user", TRUE)}]
    /\ UNCHANGED <<place, stages, inits>>
MakeDirectory ==
    /\ \A i \in Inits : ~inits[i].dot
    /\ ~target.there /\ target' = [target EXCEPT !.there = TRUE]
    /\ UNCHANGED <<place, stages, inits>>

ScaffoldNext ==
    \/ User \/ MakeDirectory
    \/ \E i \in Inits :
          \/ Begin(i) \/ Stage(i) \/ Copy(i) \/ Rollback(i) \/ Rename(i) \/ Settle(i) \/ Handoff(i)
          \/ Kill(i)

ScaffoldSpec == ScaffoldInit /\ [][ScaffoldNext]_scaffoldVars

-----------------------------------------------------------------------------
(* Properties *)
\* One run at most works in place: two that write the same files into one directory
\* would undo each other's.
OneInPlace == \A i, j \in Inits : inits[i].dot /\ inits[j].dot => i = j

Left(i) == {f \in target.files : f.by = i}

\* A project is there or it is not (init/index.ts:286-319, 363): a run that ends
\* with 0 leaves all its files, whole, of its manager and nobody else's over them;
\* one that was refused or failed leaves none of its own, neither in the directory
\* nor in a stage; and one that is killed while it works in a stage leaves none in
\* the directory.
ProjectWholeOrAbsent ==
    \A i \in Inits :
        LET one == inits[i]
        IN  /\ one.pc = "there" \/ (one.pc = "ended" /\ one.code = 0 /\ one.word # "none") =>
                  Left(i) = {File(name, i, TRUE) : name \in Range(Emitted(one.manager))}
            /\ one.pc = "ended" /\ one.code # 0 => Left(i) = {} /\ ~stages[i].there
            /\ one.pc = "killed" /\ ~one.dot =>
                  Left(i) \in {{}, {File(name, i, TRUE) : name \in Range(Emitted(one.manager))}}
=============================================================================
