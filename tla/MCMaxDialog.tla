----------------------------- MODULE MCMaxDialog -----------------------------
(* MaxDialog on small instances; the configurations give the sets. *)
EXTENDS MaxDialog, TLC

\* Events are told apart by their kind only.  Used for safety only.
Symmetry == Permutations(Events)

\* What is left of a state when the values nobody looks at any more are put aside: the
\* chat's id once a message names it, and what a guard has read once the turn has sent.
\* Used for safety only.
Read(p) == IF my[p].sent # {} \/ my[p].step \in {"mark", "compose"} THEN 0 ELSE my[p].read
View ==
  <<chat, rows, known, paused, blocked, stage, ChatIsFound, lock, counts,
    [p \in Procs |-> [my[p] EXCEPT !.read = Read(p)]]>>
=============================================================================
