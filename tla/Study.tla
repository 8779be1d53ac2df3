-------------------------------- MODULE Study --------------------------------
(***************************************************************************)
(* A document's flashcards in its readers' browser: the schedule of a card *)
(* (site/lib/srs.ts) and the session that walks a deck and remembers the   *)
(* grades (site/components/flashcards.tsx).                                *)
(*                                                                         *)
(* A card is its text, which is what it is known by.  The site may publish *)
(* another deck under the same path; pages are tabs of one browser, which  *)
(* share what is stored; React runs a page's effects after the render that *)
(* caused them, and a page may be closed in between.  Of a schedule, the   *)
(* counts of reviews and lapses, which nothing reads, are left out.        *)
(***************************************************************************)
EXTENDS Integers, FiniteSets, SequencesExt

CONSTANTS
    Pages,                     \* tabs that show the deck
    Decks,                     \* what the site may publish: sequences of texts
    LearningSteps, RelearningSteps, \* minutes
    Day, GraduatingInterval, MaxInterval, \* a day's minutes, and days
    EaseStart, EaseMin, EaseLapse, \* tenths
    MaxGrades, MaxClock, MaxSteps  \* bounds

\* A ladder has a rung at least; the numbers are whole.
ASSUME StudyAssumption ==
    /\ \A d \in Decks : d \in Seq(Range(d))
    /\ \A steps_ \in {LearningSteps, RelearningSteps} : steps_ \in Seq(Int) \ {<<>>}
    /\ {Day, GraduatingInterval, MaxInterval, EaseStart, EaseMin, EaseLapse} \subseteq Int

VARIABLES
    deck,    \* the deck the site publishes
    stored,  \* localStorage: a schedule for each of some texts, or nothing yet
    page,    \* what each tab shows
    minute,  \* the browser's clock
    grades, steps, \* how many there were of them
    \* what happened, for the properties
    last,    \* the schedule of each text that was stored last for a grade of it
    behind   \* the texts that others have stored anew since a page was opened

studyVars == <<deck, stored, page, minute, grades, steps, last, behind>>

-----------------------------------------------------------------------------
(* The schedule of a card: two grades, an SM-2 ladder.                        *)
NewCard(at) ==
    [state |-> "new", step |-> 0, interval |-> 0, lapsed |-> 0, ease |-> EaseStart, due |-> at]

Clamp(value, low, high) ==
    LET raised == IF value > low THEN value ELSE low IN IF raised < high THEN raised ELSE high

\* Math.round of tenths: an exact half may round down, since eases are floating point.
Rounded(tenths) == {(tenths + 5) \div 10, (tenths + 4) \div 10}

\* The next rung of a ladder, or the first again; steps count from 0.
Rung(card, steps_, step, at) == [card EXCEPT !.step = step, !.due = at + steps_[step + 1]]

\* A recalled card's next interval: at least a day more.
Grown(card) ==
    {Clamp(r, card.interval + 1, MaxInterval) : r \in Rounded(card.interval * card.ease)}

InDays(card, days, at) ==
    [card EXCEPT !.state = "review", !.step = 0, !.interval = days, !.due = at + days * Day]

Ladder(card) == IF card.state = "relearning" THEN RelearningSteps ELSE LearningSteps

Graduation(card) ==
    IF card.state = "relearning" THEN Clamp((card.lapsed + 1) \div 2, 1, MaxInterval)
    ELSE GraduatingInterval

\* schedule, as the schedules that may come of a grade.
Schedules(card, rating, at) ==
    CASE card.state = "new" ->
           LET step == IF rating = "again" THEN 0 ELSE Clamp(1, 0, Len(LearningSteps) - 1)
           IN  {Rung([card EXCEPT !.state = "learning"], LearningSteps, step, at)}
      [] card.state \in {"learning", "relearning"} ->
           IF rating = "again" THEN {Rung(card, Ladder(card), 0, at)}
           ELSE IF card.step + 1 < Len(Ladder(card))
           THEN {Rung(card, Ladder(card), card.step + 1, at)}
           ELSE {InDays(card, Graduation(card), at)}
      [] card.state = "review" ->
           IF rating = "again"
           THEN {Rung([card EXCEPT !.state = "relearning", !.lapsed = card.interval,
                                   !.ease = Clamp(card.ease - EaseLapse, EaseMin, EaseStart)],
                      RelearningSteps, 0, at)}
           ELSE {InDays(card, days, at) : days \in Grown(card)}

\* dueOrder: new cards first, then by when they are due, then as authored.
DueOrder(d, cards, at) ==
    LET Before(i, j) ==
            LET a == cards[d[i]]
                b == cards[d[j]]
            IN  IF (a.state = "new") # (b.state = "new") THEN a.state = "new"
                ELSE a.due < b.due \/ (a.due = b.due /\ i < j)
        due == {i \in DOMAIN d : cards[d[i]].due <= at}
        Place(i) == Cardinality({j \in due : Before(j, i)}) + 1
    IN  [k \in 1..Cardinality(due) |-> d[CHOOSE i \in due : Place(i) = k]]

-----------------------------------------------------------------------------
(* A page.  What it walks is computed when it opens, restarts or shuffles; its
   effects have run when the reader's next key or click is handled.  For the
   properties: what it graded since it last stored, what its walk began with,
   what was graded in it, and whether the reader stepped without a grade.     *)
Closed ==
    [phase |-> "closed", deck |-> <<>>, cards |-> <<>>, queue |-> <<>>, index |-> 0,
     revealed |-> FALSE, shuffled |-> <<>>, unsaved |-> FALSE,
     graded |-> {}, todo |-> {}, session |-> {}, stepped |-> FALSE]

StudyInit ==
    /\ deck \in Decks
    /\ stored = [there |-> FALSE, cards |-> <<>>]
    /\ page = [p \in Pages |-> Closed]
    /\ minute = 0 /\ grades = 0 /\ steps = 0
    /\ last = <<>>
    /\ behind = [p \in Pages |-> {}]

Open(p) == page[p].phase = "hydrated"
Card(p) == page[p].queue[page[p].index + 1]
OnCard(p) == Open(p) /\ page[p].index < Len(page[p].queue)

Counted == steps < MaxSteps /\ steps' = steps + 1

\* The first render agrees with the server's: everything new, in order.
Mount(p) ==
    /\ page[p].phase = "closed" /\ Counted
    /\ page' = [page EXCEPT ![p] =
                   [Closed EXCEPT !.phase = "mounted", !.deck = deck,
                                  !.cards = [t \in Range(deck) |-> NewCard(0)],
                                  !.queue = deck, !.unsaved = TRUE]]
    /\ UNCHANGED <<deck, stored, minute, grades, last, behind>>

\* What is stored of the deck's texts is taken over; the others begin.
Hydrate(p) ==
    /\ page[p].phase = "mounted"
    /\ LET texts == Range(page[p].deck)
           Known(t) == stored.there /\ t \in DOMAIN stored.cards
           cards == [t \in texts |-> IF Known(t) THEN stored.cards[t] ELSE NewCard(minute)]
       IN  page' = [page EXCEPT ![p] =
                       [@ EXCEPT !.phase = "hydrated", !.cards = cards, !.unsaved = TRUE,
                                 !.queue = DueOrder(page[p].deck, cards, minute),
                                 !.todo = {t \in texts : cards[t].due <= minute}]]
    /\ behind' = [behind EXCEPT ![p] = {}]
    /\ UNCHANGED <<deck, stored, minute, grades, steps, last>>

\* Variant: the effect writes whatever there is.
MayPersistEarly(p) == page[p].phase # "closed"

MayPersist(p) == Open(p)

\* The effect that follows a change: the whole of it is stored, unless the
\* browser refuses.
Persist(p) ==
    /\ page[p].unsaved /\ MayPersist(p)
    /\ page' = [page EXCEPT ![p].unsaved = FALSE, ![p].graded = {}]
    /\ stored' = [there |-> TRUE, cards |-> page[p].cards]
    /\ last' = [t \in (DOMAIN last \cup page[p].graded) \cap Range(page[p].deck) |->
                   IF t \in page[p].graded \cup behind[p] THEN page[p].cards[t] ELSE last[t]]
    /\ behind' = [q \in Pages |-> IF q = p THEN {} ELSE behind[q] \cup page[p].graded \cup behind[p]]
    /\ UNCHANGED <<deck, minute, grades, steps>>

Refuse(p) ==
    /\ page[p].unsaved /\ Open(p)
    /\ page' = [page EXCEPT ![p].unsaved = FALSE]
    /\ UNCHANGED <<deck, stored, minute, grades, steps, last, behind>>

Flip(p) ==
    /\ OnCard(p) /\ ~page[p].unsaved
    /\ page' = [page EXCEPT ![p].revealed = ~@]
    /\ UNCHANGED <<deck, stored, minute, grades, steps, last, behind>>

\* Variant: what is walked follows every change of the schedules.
WalkAsDue(p, cards) == DueOrder(page[p].deck, cards, minute)

\* The queue stays as it is while its cards are graded.
Walk(p, cards) == page[p].queue

Grade(p) ==
    /\ OnCard(p) /\ page[p].revealed /\ ~page[p].unsaved
    /\ grades < MaxGrades /\ grades' = grades + 1
    /\ \E rating \in {"again", "good"} :
         \E card \in Schedules(page[p].cards[Card(p)], rating, minute) :
           LET c == Card(p)
               cards == [page[p].cards EXCEPT ![c] = card]
           IN  page' = [page EXCEPT ![p] =
                           [@ EXCEPT !.cards = cards, !.revealed = FALSE, !.unsaved = TRUE,
                                     !.index = page[p].index + 1, !.queue = Walk(p, cards),
                                     !.graded = page[p].graded \cup {c},
                                     !.session = page[p].session \cup {c}]]
    /\ UNCHANGED <<deck, stored, minute, steps, last, behind>>

\* A card back or forth without a grade, as far as past the last one.
Step(p) ==
    /\ Open(p) /\ ~page[p].unsaved /\ Counted
    /\ \E delta \in {-1, 1} :
         page' = [page EXCEPT ![p].revealed = FALSE, ![p].stepped = TRUE,
                              ![p].index = Clamp(page[p].index + delta, 0, Len(page[p].queue))]
    /\ UNCHANGED <<deck, stored, minute, grades, last, behind>>

\* A walk over every card, due or not.
Afresh(p, order, queue) ==
    page' = [page EXCEPT ![p] = [@ EXCEPT !.index = 0, !.revealed = FALSE, !.shuffled = order,
                                         !.queue = queue, !.todo = Range(page[p].deck),
                                         !.session = {}, !.stepped = FALSE]]

\* Review anyway, in the order of the last shuffle.
Restart(p) ==
    /\ Open(p) /\ ~OnCard(p) /\ ~page[p].unsaved /\ Counted
    /\ LET order == page[p].shuffled
       IN  Afresh(p, order, IF order = <<>> THEN page[p].deck ELSE order)
    /\ UNCHANGED <<deck, stored, minute, grades, last, behind>>

Shuffle(p) ==
    /\ Open(p) /\ ~page[p].unsaved /\ Counted
    /\ \E order \in SetToSeqs(Range(page[p].deck)) : Afresh(p, order, order)
    /\ UNCHANGED <<deck, stored, minute, grades, last, behind>>

Close(p) ==
    /\ page[p].phase # "closed"
    /\ page' = [page EXCEPT ![p] = Closed]
    /\ UNCHANGED <<deck, stored, minute, grades, steps, last, behind>>

Tick ==
    /\ minute < MaxClock /\ minute' = minute + 1
    /\ UNCHANGED <<deck, stored, page, grades, steps, last, behind>>

\* The site is built again, with another deck at the same path.
Republish ==
    /\ Counted /\ deck' \in Decks \ {deck}
    /\ UNCHANGED <<stored, page, minute, grades, last, behind>>

StudyNext ==
    \/ \E p \in Pages :
         \/ Mount(p) \/ Hydrate(p) \/ Persist(p) \/ Refuse(p) \/ Flip(p)
         \/ Grade(p) \/ Step(p) \/ Restart(p) \/ Shuffle(p) \/ Close(p)
    \/ Tick \/ Republish

StudySpec == StudyInit /\ [][StudyNext]_studyVars

-----------------------------------------------------------------------------
\* What the browser has stored of a card is the last grade that was stored for
\* it, whatever was closed, refused, reloaded or published meanwhile; a page
\* overwrites no grade but one that another page stored since it was opened.  And
\* a reader who reaches the end by grades alone graded every card the walk began
\* with (flashcards.tsx: the hydration, the effect that persists, a card known by
\* its text; the queue, which must not move under the reader).
CardsComeBack ==
    /\ \A t \in DOMAIN last : stored.there /\ t \in DOMAIN stored.cards /\ stored.cards[t] = last[t]
    /\ \A p \in Pages : Open(p) /\ ~OnCard(p) /\ ~page[p].stepped => page[p].todo \subseteq page[p].session
=============================================================================
