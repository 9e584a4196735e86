---------------------------- MODULE MCStatusFlow ----------------------------
(* StatusFlow on small instances; the configurations give the sets. *)
EXTENDS StatusFlow, TLC

\* Dialogs and sessions are told apart by nothing but their state.
Symmetry == Permutations(Sessions)
=============================================================================
