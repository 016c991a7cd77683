----------------------------- MODULE Rendezvous -----------------------------
(***************************************************************************)
(* What a barrier promises to the threads of a party: whoever arrives      *)
(* waits until everybody has.  The party changes only when nobody waits.   *)
(*                                                                         *)
(* The module models no code of its own.  GgmlBarrier implements it, see   *)
(* the instance RV there.                                                  *)
(***************************************************************************)
EXTENDS FiniteSets

CONSTANT Threads

VARIABLES
    party,      \* the threads that meet
    waiting     \* those that have arrived

vars == <<party, waiting>>

TypeOK ==
    /\ party \subseteq Threads
    /\ waiting \subseteq party

Init ==
    /\ party \in SUBSET Threads
    /\ waiting = {}

Arrive(t) ==
    /\ t \in party \ waiting
    /\ waiting' = waiting \cup {t}
    /\ UNCHANGED party

\* All of them go on at once.
Open ==
    /\ waiting = party
    /\ waiting' = {}
    /\ UNCHANGED party

Regroup ==
    /\ waiting = {}
    /\ party' \in SUBSET Threads
    /\ UNCHANGED waiting

Next == Regroup \/ Open \/ \E t \in Threads : Arrive(t)

Spec == Init /\ [][Next]_vars
=============================================================================
