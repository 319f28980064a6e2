------------------------------ MODULE MCOutbox ------------------------------
(***************************************************************************)
(* Instances of Outbox.                                                    *)
(***************************************************************************)
EXTENDS Outbox, TLC

Symmetry == Permutations(Event) \cup Permutations(Dispatcher)
=============================================================================
