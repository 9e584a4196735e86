----------------------------- MODULE DialogLock -----------------------------
(***************************************************************************)
(* The registry of per-dialog locks (dialog_lock) on top of asyncio.Lock.  *)
(*                                                                         *)
(* The registry maps dialogs to lock objects.  When it has grown to        *)
(* Threshold entries, the next unknown dialog makes it drop every lock     *)
(* that is not locked at that moment.  asyncio.Lock hands itself over in   *)
(* two steps: release() clears the flag and wakes the first waiter; the    *)
(* waiter sets the flag again when the event loop gets to it.  Everything  *)
(* between two awaits is one step, because there is one thread.            *)
(***************************************************************************)
EXTENDS Naturals, Sequences, FiniteSets

CONSTANTS
  Dialogs,    \* dialogs that get messages
  Tasks,      \* handlers; a handler that is done may serve another message
  Locks,      \* identities of lock objects
  Threshold,  \* _PRUNE_THRESHOLD
  NoLock,     \* the dialog is not in the registry
  NoDialog    \* the task serves no message

ASSUME Constants ==
  /\ Threshold \in Nat \ {0}
  /\ NoLock \notin Locks
  /\ NoDialog \notin Dialogs
  /\ IsFiniteSet(Dialogs) /\ IsFiniteSet(Tasks)

VARIABLES
  registry,  \* _locks: the lock object of each dialog
  locked,    \* Lock._locked of each object
  waiters,   \* Lock._waiters of each object
  mine,      \* the lock object each task has got from dialog_lock
  serves,    \* the dialog each task works on
  pc,        \* out of the lock, waiting for it, or under it
  forgotten  \* history: a lock was dropped while a task waited for it

vars == <<registry, locked, waiters, mine, serves, pc, forgotten>>

Known == {d \in Dialogs : registry[d] # NoLock}

Init ==
  /\ registry = [d \in Dialogs |-> NoLock]
  /\ locked = [l \in Locks |-> FALSE]
  /\ waiters = [l \in Locks |-> <<>>]
  /\ mine = [t \in Tasks |-> NoLock]
  /\ serves = [t \in Tasks |-> NoDialog]
  /\ pc = [t \in Tasks |-> "out"]
  /\ forgotten = FALSE

InUse(d) == registry[d] # NoLock /\ locked[registry[d]]

\* A mutant: nothing is ever dropped.
PrunedNone == registry
\* A mutant: the entries are deleted, not only emptied.
PrunedAway == [d \in {e \in Dialogs : InUse(e)} |-> registry[d]]

\* The registry to which dialog_lock adds a lock.
Pruned ==
  [d \in Dialogs |-> IF Cardinality(Known) >= Threshold /\ ~InUse(d) THEN NoLock ELSE registry[d]]

\* Objects nobody refers to.  Which of them becomes the new lock does not matter.
Unreferenced == {l \in Locks : /\ \A d \in Dialogs : registry[d] # l
                               /\ \A t \in Tasks : mine[t] # l}
NewLock == CHOOSE l \in Unreferenced : TRUE

\* dialog_lock(d) and the start of "async with": no await in between.  acquire()
\* takes a lock that is neither locked nor waited for, and otherwise waits.
Ask(t, d, l) ==
  /\ pc[t] = "out"
  /\ \/ l = registry[d] /\ UNCHANGED registry
     \/ registry[d] = NoLock /\ Unreferenced # {} /\ l = NewLock /\ registry' = [Pruned EXCEPT ![d] = l]
  /\ forgotten' = (forgotten \/ \E e \in Known : registry'[e] = NoLock /\ waiters[registry[e]] # <<>>)
  /\ mine' = [mine EXCEPT ![t] = l]
  /\ serves' = [serves EXCEPT ![t] = d]
  /\ IF ~locked[l] /\ waiters[l] = <<>>
       THEN /\ locked' = [locked EXCEPT ![l] = TRUE]
            /\ pc' = [pc EXCEPT ![t] = "in"]
            /\ UNCHANGED waiters
       ELSE /\ waiters' = [waiters EXCEPT ![l] = Append(@, t)]
            /\ pc' = [pc EXCEPT ![t] = "wait"]
            /\ UNCHANGED locked

\* A mutant: a lock that is waited for is not released.
ReleaseKeeps(t) ==
  /\ pc[t] = "in"
  /\ locked' = [locked EXCEPT ![mine[t]] = waiters[mine[t]] # <<>>]
  /\ mine' = [mine EXCEPT ![t] = NoLock]
  /\ serves' = [serves EXCEPT ![t] = NoDialog]
  /\ pc' = [pc EXCEPT ![t] = "out"]
  /\ UNCHANGED <<registry, waiters, forgotten>>

\* release(): the flag is cleared; a woken waiter has not run yet.
ReleaseLock(t) ==
  /\ pc[t] = "in"
  /\ locked' = [locked EXCEPT ![mine[t]] = FALSE]
  /\ mine' = [mine EXCEPT ![t] = NoLock]
  /\ serves' = [serves EXCEPT ![t] = NoDialog]
  /\ pc' = [pc EXCEPT ![t] = "out"]
  /\ UNCHANGED <<registry, waiters, forgotten>>

\* A mutant: the last to come is woken first.
FirstWaiterLifo(t) == waiters[mine[t]][Len(waiters[mine[t]])] = t

FirstWaiter(t) == Head(waiters[mine[t]]) = t

\* The woken waiter runs: it leaves the queue and sets the flag.
WakeUp(t) ==
  /\ pc[t] = "wait"
  /\ ~locked[mine[t]]
  /\ FirstWaiter(t)
  /\ waiters' = [waiters EXCEPT ![mine[t]] = Tail(@)]
  /\ locked' = [locked EXCEPT ![mine[t]] = TRUE]
  /\ pc' = [pc EXCEPT ![t] = "in"]
  /\ UNCHANGED <<registry, mine, serves, forgotten>>

Next == \E t \in Tasks : \/ \E d \in Dialogs, l \in Locks : Ask(t, d, l)
                         \/ ReleaseLock(t) \/ WakeUp(t)

Spec == Init /\ [][Next]_vars

\* The event loop runs a woken task, and a turn ends.
FairSpec == Spec /\ \A t \in Tasks : WF_vars(ReleaseLock(t) \/ WakeUp(t))

-----------------------------------------------------------------------------
TypeOK ==
  /\ registry \in [Dialogs -> Locks \cup {NoLock}]
  /\ locked \in [Locks -> BOOLEAN]
  /\ waiters \in [Locks -> Seq(Tasks)]
  /\ mine \in [Tasks -> Locks \cup {NoLock}]
  /\ serves \in [Tasks -> Dialogs \cup {NoDialog}]
  /\ pc \in [Tasks -> {"out", "wait", "in"}] /\ forgotten \in BOOLEAN

\* Dialogs accumulate for months; the registry does not grow beyond the threshold
\* or the number of handlers that are alive.
RegistryIsBounded ==
  Cardinality(Known) <= Threshold \/ Cardinality(Known) <= Cardinality(Tasks)

\* Whoever waits gets in, although the registry may forget the lock meanwhile.
WaiterGetsIn == \A t \in Tasks : (pc[t] = "wait") ~> (pc[t] = "in")

\* Until a lock is dropped while a task waits for it, registry and lock objects
\* implement FairMutex, pruning and the two-step handover included: the queue of a
\* dialog is the task under the lock followed by the waiters.  That drop, after
\* which nothing is claimed, is the only way out.
Holders(d) == {t \in Tasks : pc[t] = "in" /\ serves[t] = d}
QueueOf(d) == (IF Holders(d) = {} THEN <<>> ELSE <<CHOOSE t \in Holders(d) : TRUE>>)
              \o (IF registry[d] = NoLock THEN <<>> ELSE waiters[registry[d]])

Mutex == INSTANCE FairMutex WITH
  queue <- [d \in Dialogs |-> IF forgotten THEN <<>> ELSE QueueOf(d)],
  inside <- {t \in Tasks : ~forgotten /\ pc[t] = "in"}

ImplementsFairMutex == Mutex!Spec
=============================================================================
