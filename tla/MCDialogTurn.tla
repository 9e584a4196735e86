---------------------------- MODULE MCDialogTurn ----------------------------
(* DialogTurn on small instances; the configurations give the sets. *)
EXTENDS DialogTurn, TLC

\* Handlers are interchangeable and so are the client's messages: only their
\* order in the inbox matters.  Used for safety only.
Symmetry == Permutations(Tasks) \cup Permutations(Msgs)

\* Two disturbances of the bot's work at most: acts of people or restarts.
FewDisturbances == acts + crashes <= 2
=============================================================================
