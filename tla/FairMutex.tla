------------------------------ MODULE FairMutex ------------------------------
(***************************************************************************)
(* What dialog_lock promises: for every dialog a lock that is one and the  *)
(* same for all callers and serves them in the order they came.            *)
(* DialogLock shows how asyncio and the registry of locks implement it,    *)
(* DialogTurn uses it for one dialog.                                      *)
(***************************************************************************)
EXTENDS Sequences

CONSTANTS Dialogs, Tasks

VARIABLES
  queue,    \* for each dialog, who has asked for the lock, in order
  inside    \* tasks under the lock

vars == <<queue, inside>>

Init == queue = [d \in Dialogs |-> <<>>] /\ inside = {}

Queued(t) == \E d \in Dialogs : \E i \in DOMAIN queue[d] : queue[d][i] = t

\* t asks for the lock; a free lock may be taken in the same step.
Ask(t, d) ==
  /\ ~Queued(t)
  /\ queue' = [queue EXCEPT ![d] = Append(@, t)]
  /\ \/ UNCHANGED inside
     \/ queue[d] = <<>> /\ inside' = inside \cup {t}

Take(t, d) ==
  /\ queue[d] # <<>> /\ Head(queue[d]) = t
  /\ inside' = inside \cup {t}
  /\ UNCHANGED queue

Leave(t, d) ==
  /\ queue[d] # <<>> /\ Head(queue[d]) = t
  /\ queue' = [queue EXCEPT ![d] = Tail(@)]
  /\ inside' = inside \ {t}

\* The locks live in the memory of the process and die with it.
Restart == queue' = [d \in Dialogs |-> <<>>] /\ inside' = {}

Next == Restart \/ \E t \in Tasks, d \in Dialogs : Ask(t, d) \/ Take(t, d) \/ Leave(t, d)

Spec == Init /\ [][Next]_vars
=============================================================================
