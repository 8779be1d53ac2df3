---------------------------- MODULE Publication ----------------------------
(***************************************************************************)
(* What publication promises, whatever builds, collectors and crashes do   *)
(* underneath: a pointer moves among prepared snapshots of the record.     *)
(* Publishing moves it forward, an undo moves it back to the one recorded  *)
(* predecessor, and a snapshot is discarded only while neither the current *)
(* nor the recorded one.                                                   *)
(***************************************************************************)
EXTENDS Integers

CONSTANT Snapshots   \* snapshot numbers, in order of preparation

VARIABLES current, previous, available

pubVars == <<current, previous, available>>

PubInit == current = 0 /\ previous = 0 /\ available = {}

Prepare(s) ==
    /\ s \notin available
    /\ available' = available \cup {s}
    /\ UNCHANGED <<current, previous>>

Publish(s) ==
    /\ s \in available /\ s > current
    /\ current' = s /\ previous' = current
    /\ UNCHANGED available

Undo ==
    /\ previous \in available
    /\ current' = previous
    /\ UNCHANGED <<previous, available>>

Discard ==
    /\ available' \in SUBSET available
    /\ available \cap {current, previous} \subseteq available'
    /\ UNCHANGED <<current, previous>>

PubNext == (\E s \in Snapshots : Prepare(s) \/ Publish(s)) \/ Undo \/ Discard

PubSpec == PubInit /\ [][PubNext]_pubVars

\* Whatever is current, or recorded for an undo, can be served.
AlwaysServable == {current, previous} \subseteq available \cup {0}
=============================================================================
