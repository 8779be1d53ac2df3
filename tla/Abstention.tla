----------------------------- MODULE Abstention -----------------------------
(***************************************************************************)
(* The gate between a question and a record that may not answer it: a      *)
(* calibration scores questions of the record and probes beside it and     *)
(* prints a floor (packages/content/src/calibrate), the operator pastes it *)
(* into instance.md, a door that was started with it compares each search's *)
(* best score (service.ts, lib/search.ts), and the searches that were      *)
(* logged show whether the floor has drifted (calibrate/drift.ts).         *)
(*                                                                         *)
(* Scores are cosines in ten-thousandths; a floor is printed in            *)
(* thousandths.  A build of ksor is known by its retrieval predicate,      *)
(* which is what its digest is of.                                         *)
(***************************************************************************)
EXTENDS Integers, FiniteSetsExt, SequencesExt

CONSTANTS
    Builds,             \* releases of ksor, whose predicates differ
    Questions, Probes,  \* queries: those the record answers, and others
    Askers, Widest,     \* what a reader may hold, and all there is
    Histories,          \* for each generation, a set of passages
    MaxGen, Band,       \* how many; the margin band of a drift report
    MinSamples, MaxActs \* of a report; and a bound

\* In ten-thousandths.
Cosines == (-10000)..10000

\* A likeness is a cosine, of whatever is asked; and a probe is not a question.
ASSUME AbstentionAssumption ==
    /\ MaxGen \in Nat /\ Probes # {} /\ Questions \cap Probes = {}
    /\ \A viewer \in Askers : viewer \subseteq Widest
    /\ \A h \in Histories, gen \in 1..MaxGen : \A p \in h[gen] :
         /\ p.asks \in Questions
         /\ \A query \in Questions \cup Probes : p.likeness[query] \in Cosines

VARIABLES
    releases, \* what each generation holds
    active,   \* the generation served, 0 before the first
    denied,   \* names of passages taken down
    instance, \* the retrieval block of instance.md
    door,     \* the serving process: its build and the block it read
    cal,      \* a calibration under way
    printed,  \* the block the last one printed
    log,      \* the searches, as the retrieval log has them
    acts      \* what was done, bounded

gateVars == <<releases, active, denied, instance, door, cal, printed, log, acts>>

\* Below every cosine.
NoScore == -10001

-----------------------------------------------------------------------------
(* The candidates of a search: what the predicate of a build admits.          *)
Admits(build, viewer, p) ==
    /\ build \in p.admitted
    /\ p.aud \cap viewer # {}
    /\ p.name \notin denied
Candidates(build, viewer, gen) == {p \in releases[gen] : Admits(build, viewer, p)}

\* topOneScore, and the same of a search's vector arm.
TopOne(build, viewer, gen, query) ==
    Max({NoScore} \cup {p.likeness[query] : p \in Candidates(build, viewer, gen)})

-----------------------------------------------------------------------------
(* math.ts.  A point is a query, whether the record answers it, and its score. *)
\* pythonRound to thousandths: half to even; in twentieths of one, for midpoints.
Thousandths(twice) ==
    LET kept == twice \div 20
        rest == twice % 20
    IN  10 * IF rest > 10 \/ (rest = 10 /\ kept % 2 = 1) THEN kept + 1 ELSE kept

In(points) == {x.score : x \in {y \in points : y.inCorpus}}
Out(points) == {x.score : x \in {y \in points : ~y.inCorpus}}

MarginOf(points) == Min(In(points)) - Max(Out(points))

\* pasteValue: the midpoint, or the weakest question when rounding leaves the gap.
PasteValue(points) ==
    LET lo == Max(Out(points))
        hi == Min(In(points))
        mid == Thousandths(lo + hi)
    IN  IF lo < mid /\ mid <= hi THEN mid ELSE hi
Separable(points) == Max(Out(points)) < Min(In(points))

\* The retrieval block; for the property, the points of a floor and what they
\* were scored against.
Block(is, floor, digest) ==
    [is |-> is, floor |-> floor, digest |-> digest, points |-> {}, against |-> {}]
Off == Block("off", 0, "none")
Uncalibrated == Block("uncalibrated", 0, "none")

\* renderReport: a number only when the scores separate.
RenderReport(points, against, build) ==
    IF ~Separable(points) THEN Uncalibrated
    ELSE [Block("number", Thousandths(2 * PasteValue(points)), build)
             EXCEPT !.points = points, !.against = against]

-----------------------------------------------------------------------------
NoRun ==
    [pc |-> "idle", build |-> "none", pin |-> 0, counted |-> 0, left |-> {}, points |-> {},
     against |-> {}]
Down == [build |-> "none", gate |-> Off]

GateInit ==
    /\ releases \in Histories
    /\ active = 0
    /\ denied = {}
    /\ instance = Off
    /\ door = Down
    /\ cal = NoRun
    /\ printed = Off
    /\ log = <<>>
    /\ acts = 0

Acted == acts < MaxActs /\ acts' = acts + 1

\* An ingest publishes, or an operator undoes it.
MovePointer ==
    /\ Acted /\ active' \in (1..MaxGen) \cap {active - 1, active + 1}
    /\ UNCHANGED <<releases, denied, instance, door, cal, printed, log>>

DenyPassage(p) ==
    /\ Acted /\ denied' = IF p.name \in denied THEN denied \ {p.name} ELSE denied \cup {p.name}
    /\ UNCHANGED <<releases, active, instance, door, cal, printed, log>>

-----------------------------------------------------------------------------
(* `ksor calibrate`: every read is a transaction of its own, at the pinned     *)
(* generation or at the one served then.                                       *)
Measured == IF cal.pin = 0 THEN active ELSE cal.pin

Calibrate(build) ==
    /\ cal = NoRun /\ Acted
    /\ \E pin \in 0..MaxGen :
         LET gen == IF pin = 0 THEN active ELSE pin
         IN  /\ gen # 0 /\ releases[gen] # {}
             /\ cal' = [NoRun EXCEPT !.pc = "counted", !.build = build, !.pin = pin, !.counted = gen]
    /\ UNCHANGED <<releases, active, denied, instance, door, printed, log>>

\* Questions of a file, or written by a model from sampled passages, of which
\* some come to nothing; probes built in or of a file.
Gather ==
    /\ cal.pc = "counted"
    /\ \/ \E Q \in (SUBSET Questions) \ {{}}, O \in (SUBSET Probes) \ {{}} :
            cal' = [cal EXCEPT !.pc = "scoring", !.left = Q \cup O]
       \/ LET sample == {p.asks : p \in Candidates(cal.build, Widest, Measured)}
          IN  \/ sample = {} /\ cal' = NoRun
              \/ sample # {} /\ \E Q \in SUBSET sample :
                   cal' = [cal EXCEPT !.pc = "scoring", !.left = Q \cup Probes]
    /\ UNCHANGED <<releases, active, denied, instance, door, printed, log, acts>>

\* scoreQueries: the questions first; a query without any candidate ends the run.
Score ==
    /\ cal.pc = "scoring" /\ cal.left # {}
    /\ LET asked == cal.left \cap Questions
       IN  \E query \in IF asked = {} THEN cal.left ELSE asked :
             LET score == TopOne(cal.build, Widest, Measured, query)
                 point == [query |-> query, inCorpus |-> query \in Questions, score |-> score]
             IN  cal' = IF score = NoScore THEN NoRun
                        ELSE [cal EXCEPT !.left = @ \ {query}, !.points = @ \cup {point},
                                         !.against = @ \cup {[gen |-> Measured, under |-> denied]}]
    /\ UNCHANGED <<releases, active, denied, instance, door, printed, log, acts>>

Report ==
    /\ cal.pc = "scoring" /\ cal.left = {}
    /\ cal' = NoRun
    /\ printed' = IF In(cal.points) = {} THEN printed
                  ELSE RenderReport(cal.points, cal.against, cal.build)
    /\ UNCHANGED <<releases, active, denied, instance, door, log, acts>>

\* The provider's quota, or its failure.
GiveUp ==
    /\ cal # NoRun /\ cal' = NoRun
    /\ UNCHANGED <<releases, active, denied, instance, door, printed, log, acts>>

-----------------------------------------------------------------------------
(* instance.md, and the door that reads it when it starts.                     *)
Paste ==
    /\ printed # instance
    /\ instance' = printed
    /\ UNCHANGED <<releases, active, denied, door, cal, printed, log, acts>>

\* A number of the operator's own, without a digest or with one.
HandWrite ==
    /\ Acted
    /\ \E digest \in {"none"} \cup Builds :
         instance' = Block("number", printed.floor, digest)
    /\ UNCHANGED <<releases, active, denied, door, cal, printed, log>>

Boot(build) ==
    /\ Acted /\ door' = [build |-> build, gate |-> instance]
    /\ UNCHANGED <<releases, active, denied, instance, cal, printed, log>>

-----------------------------------------------------------------------------
\* Variant: any number is a floor.
NeverStale(gate, build) == FALSE

\* staleFloor: a number that was measured through another predicate.
StaleFloor(gate, build) == gate.is = "number" /\ gate.digest # build

\* assertGateMeasured, inverted.
Unmeasured(gate, build) == gate.is = "uncalibrated" \/ StaleFloor(gate, build)

VectorAbstains(top, gate) == gate.is # "off" /\ (top = NoScore \/ top < gate.floor)

\* Variant: nothing found is nothing there.
AbstainedAnyway(embeds) == "abstained"

\* What a caller with no hits is told.
Reason(embeds) == IF embeds THEN "abstained" ELSE "unavailable"

\* search: refused while unmeasured, told of an unpublished record, else by what
\* the embedded query scores; without an embedding by keywords, where no floor is.
Answer(viewer, query, embeds) ==
    LET top == TopOne(door.build, viewer, active, query)
        words == \E p \in Candidates(door.build, viewer, active) : query \in p.words
        hits == IF embeds THEN top # NoScore /\ ~VectorAbstains(top, door.gate)
                ELSE door.gate.is = "off" /\ words
        Told(outcome, score) == [outcome |-> outcome, top |-> score]
    IN  IF Unmeasured(door.gate, door.build) THEN Told("refused", NoScore)
        ELSE IF active = 0 THEN Told("unpublished", NoScore)
        ELSE Told(IF hits THEN "answered" ELSE Reason(embeds), IF embeds THEN top ELSE NoScore)

\* The line of the retrieval log, which has no score unless there was one.
Search(viewer, query, embeds) ==
    /\ door # Down /\ Acted
    /\ LET told == Answer(viewer, query, embeds)
           action == IF told.outcome = "answered" THEN "similarity_searched" ELSE "search_abstained"
       IN  /\ told.outcome # "refused"
           /\ log' = Append(log, [action |-> action, top |-> told.top, looked |-> embeds /\ active # 0])
    /\ UNCHANGED <<releases, active, denied, instance, door, cal, printed>>

-----------------------------------------------------------------------------
(* `ksor calibrate --check`: the verdict on the floor that instance.md states,  *)
(* from the searches that were scored.                                          *)
Samples == {i \in DOMAIN log : log[i].top # NoScore}

DriftVerdict(floor) ==
    LET Scored(action) == {i \in Samples : log[i].action = action}
        refused == Scored("search_abstained")
        answered == Scored("similarity_searched")
        marginal == {i \in answered : log[i].top - floor <= Band}
    IN  IF Cardinality(Samples) < MinSamples THEN "no-data"
        ELSE IF answered # {} /\ 5 * Cardinality(marginal) >= Cardinality(answered) THEN "watch"
        ELSE IF refused = {} THEN "watch"
        ELSE "steady"

GateNext ==
    \/ MovePointer \/ (\E p \in UNION Range(releases) : DenyPassage(p))
    \/ (\E b \in Builds : Calibrate(b) \/ Boot(b))
    \/ Gather \/ Score \/ Report \/ GiveUp \/ Paste \/ HandWrite
    \/ \E viewer \in Askers, query \in Questions \cup Probes, embeds \in BOOLEAN :
         Search(viewer, query, embeds)

GateSpec == GateInit /\ [][GateNext]_gateVars

-----------------------------------------------------------------------------
\* A measured floor does what was measured: while the generation and the denials
\* it was scored against are those that answer, no probe it was set by is
\* answered, whoever asks, and no question it was set by is refused to a reader
\* who may read everything; of scores that are a thousandth apart at least
\* (pasteValue, renderReport, staleFloor, search).  Nobody is told that the record
\* has no answer unless it was looked at, by what the query means; and no search
\* that did not look counts for or against the floor (service.ts: an outage is not
\* an absence; DRIFT_SQL's numeric score).
AbstentionIsHonest ==
    LET gate == door.gate
        Outcome(viewer, query) == Answer(viewer, query, TRUE).outcome
    IN  /\ gate.points # {} /\ gate.against = {[gen |-> active, under |-> denied]}
           /\ ~Unmeasured(gate, door.build) /\ MarginOf(gate.points) >= 10
           => \A x \in gate.points :
                IF x.inCorpus THEN Outcome(Widest, x.query) = "answered"
                ELSE \A viewer \in Askers : Outcome(viewer, x.query) = "abstained"
        /\ door # Down =>
             \A viewer \in Askers, query \in Questions \cup Probes, embeds \in BOOLEAN :
               LET told == Answer(viewer, query, embeds)
               IN  told.outcome = "abstained" =>
                     active # 0 /\ embeds /\ (told.top = NoScore \/ told.top < gate.floor)
        /\ \A i \in Samples : log[i].looked
        /\ DriftVerdict(instance.floor) = "steady" =>
             \E s \in Range(log) : s.looked /\ s.action = "search_abstained"
=============================================================================
