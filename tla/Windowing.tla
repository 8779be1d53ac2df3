------------------------------ MODULE Windowing ------------------------------
(***************************************************************************)
(* The packer of long documents (packages/content/src/lib/windowing.ts)    *)
(* and the scoping of a read to a section                                  *)
(* (packages/content/src/service.ts, readDocument).                        *)
(*                                                                         *)
(* A document is a sequence of chunks, each with the path of headings it   *)
(* stands under and its length.  A page is a run of chunks within a        *)
(* budget; its cursor says where the next one starts.                      *)
(***************************************************************************)
EXTENDS Integers, FiniteSets, SequencesExt

\* A chunk: hp, the path of its heading (<<>>: before any heading), and size.
Under(path, hp) == IsPrefix(path, hp)

\* A cursor: a heading, and an index unless the heading alone will do.
Start == [hp |-> <<>>, index |-> 0]

\* top(headingPath, levels).
Top(hp, levels) == SubSeq(hp, 1, IF Len(hp) < levels THEN Len(hp) ELSE levels)

Size(chunks, i, j) == MapThenSumSet(LAMBDA k : chunks[k].size, i..j)

Least(S) == CHOOSE i \in S : \A j \in S : i <= j
Greatest(S) == CHOOSE i \in S : \A j \in S : j <= i

\* The chunks under a heading.
Within(chunks, path) == {i \in DOMAIN chunks : Under(path, chunks[i].hp)}

FirstUnder(chunks, path) == IF Within(chunks, path) = {} THEN 0 ELSE Least(Within(chunks, path))

\* startIndex; 0 for a cursor that names no place in this document.
StartIndex(chunks, cursor) ==
    IF cursor = Start THEN 1
    ELSE IF cursor.index > 0 THEN IF cursor.index \in DOMAIN chunks THEN cursor.index ELSE 0
    ELSE FirstUnder(chunks, cursor.hp)

-----------------------------------------------------------------------------
\* Where the runs of chunks with the same heading, cut at a level, end.
RunEnds(chunks, start, levels) ==
    {i \in start..Len(chunks) :
        i = Len(chunks) \/ Top(chunks[i].hp, levels) # Top(chunks[i + 1].hp, levels)}

\* The ends at which the page still fits.
Fits(chunks, start, ends, budget) == {i \in ends : Size(chunks, start, i) <= budget}

\* Whole top-level sections; when the first is too long, whole subsections of
\* it; when the first of those is too long, chunks of it, one at the least.
WindowEnd(chunks, start, budget) ==
    LET whole == Fits(chunks, start, RunEnds(chunks, start, 1), budget)
        within == Fits(chunks, start, RunEnds(chunks, start, 2), budget)
        pieces == Fits(chunks, start, start..Len(chunks), budget)
    IN  IF whole # {} THEN Greatest(whole)
        ELSE IF within # {} THEN Greatest(within)
        ELSE IF pieces # {} THEN Greatest(pieces)
        ELSE start

\* Variant: the heading alone, wherever it leads.
BareCursor(chunks, next) == [hp |-> chunks[next].hp, index |-> 0]

\* The heading alone only when it leads exactly there.
NextCursor(chunks, next) ==
    [hp |-> chunks[next].hp,
     index |-> IF chunks[next].hp # <<>> /\ FirstUnder(chunks, chunks[next].hp) = next THEN 0 ELSE next]

\* windowDocument: the page from a cursor, and the cursor after it.
WindowDocument(chunks, budget, cursor) ==
    LET start == StartIndex(chunks, cursor)
        end == WindowEnd(chunks, start, budget)
    IN  [from |-> start, to |-> end, last |-> end = Len(chunks),
         next |-> IF end = Len(chunks) THEN Start ELSE NextCursor(chunks, end + 1)]

-----------------------------------------------------------------------------
\* The sections a heading names: by its path, else by its last segment when
\* one section only ends in it.
ResolvedScope(chunks, heading) ==
    LET roots == {chunks[i].hp : i \in {j \in DOMAIN chunks :
                     chunks[j].hp # <<>> /\ <<Last(chunks[j].hp)>> = heading}}
    IN  IF heading = <<>> \/ FirstUnder(chunks, heading) # 0 THEN {heading}
        ELSE IF Cardinality(roots) = 1 THEN roots ELSE {}

\* The chunks under a heading, in their order.
Nth(S, k) == CHOOSE i \in S : Cardinality({j \in S : j < i}) = k - 1
Scoped(chunks, path) ==
    [k \in 1..Cardinality(Within(chunks, path)) |-> chunks[Nth(Within(chunks, path), k)]]
=============================================================================
