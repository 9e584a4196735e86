-------------------------- MODULE DialogLock_proof --------------------------
(* Theorems about DialogLock, for any number of dialogs, handlers and lock  *)
(* objects and any threshold.                                               *)
EXTENDS DialogLock, FiniteSetTheorems, TLAPS

\* Who has asked for a lock has one, for a dialog.
HasInv == \A t \in Tasks : IF pc[t] = "out" THEN mine[t] = NoLock
                           ELSE mine[t] \in Locks /\ serves[t] \in Dialogs

\* A lock is locked when one task is under it, and only then.
LockedInv ==
  /\ \A l \in Locks : locked[l] => \E t \in Tasks : pc[t] = "in" /\ mine[t] = l
  /\ \A t \in Tasks : pc[t] = "in" => locked[mine[t]]
  /\ \A t, u \in Tasks : pc[t] = "in" /\ pc[u] = "in" /\ mine[t] = mine[u] => t = u

\* Who is among the waiters of a lock waits for it, and is there once.
WaitersInv == \A l \in Locks :
  /\ \A i \in DOMAIN waiters[l] : pc[waiters[l][i]] = "wait" /\ mine[waiters[l][i]] = l
  /\ \A i, j \in DOMAIN waiters[l] : waiters[l][i] = waiters[l][j] => i = j

\* Who waits is among the waiters of its lock.
QueuedInv == \A t \in Tasks :
  pc[t] = "wait" => \E i \in DOMAIN waiters[mine[t]] : waiters[mine[t]][i] = t

\* No two dialogs share a lock.
OwnInv == \A d, e \in Dialogs : registry[d] = registry[e] /\ registry[d] # NoLock => d = e

\* Unless the registry forgot a lock that was waited for, whoever has a lock has the
\* one the next caller will get.
KeptInv == ~forgotten => \A t \in Tasks : pc[t] # "out" => registry[serves[t]] = mine[t]

Inv == TypeOK /\ HasInv /\ LockedInv /\ WaitersInv /\ QueuedInv /\ OwnInv /\ KeptInv

LEMMA InitInv == Init => Inv
<1> SUFFICES ASSUME Init PROVE Inv
  OBVIOUS
<1>1. TypeOK
  <2>1. waiters \in [Locks -> Seq(Tasks)]
    BY DEF Init
  <2>2. /\ pc \in [Tasks -> {"out", "wait", "in"}] /\ forgotten \in BOOLEAN
        /\ locked \in [Locks -> BOOLEAN]
    BY DEF Init
  <2>3. /\ registry \in [Dialogs -> Locks \cup {NoLock}]
        /\ mine \in [Tasks -> Locks \cup {NoLock}] /\ serves \in [Tasks -> Dialogs \cup {NoDialog}]
    BY DEF Init
  <2> QED BY <2>1, <2>2, <2>3 DEF TypeOK
<1>2. HasInv /\ OwnInv /\ KeptInv
  <2>1. \A t \in Tasks : pc[t] = "out" /\ mine[t] = NoLock
    BY DEF Init
  <2>2. \A d \in Dialogs : registry[d] = NoLock
    BY DEF Init
  <2> QED BY <2>1, <2>2 DEF HasInv, OwnInv, KeptInv
<1>3. LockedInv /\ QueuedInv
  <2>1. \A t \in Tasks : pc[t] = "out"
    BY DEF Init
  <2>2. \A l \in Locks : ~locked[l]
    BY DEF Init
  <2> QED BY <2>1, <2>2 DEF LockedInv, QueuedInv
<1>4. WaitersInv
  <2>1. \A l \in Locks : waiters[l] = <<>> /\ DOMAIN waiters[l] = {}
    BY DEF Init
  <2> QED BY <2>1 DEF WaitersInv
<1> QED BY <1>1, <1>2, <1>3, <1>4 DEF Inv

-----------------------------------------------------------------------------
(* Asking for the lock *)

\* The caller gets the lock of the registry, or a free one nobody knows, and
\* then some others may have been dropped, none of them locked.
LEMMA AskGets ==
  ASSUME Inv, NEW t \in Tasks, NEW d \in Dialogs, NEW l \in Locks, Ask(t, d, l)
  PROVE  /\ pc[t] = "out" /\ mine[t] = NoLock
         /\ registry' \in [Dialogs -> Locks \cup {NoLock}] /\ registry'[d] = l
         /\ \A e \in Dialogs \ {d} : \/ registry'[e] = registry[e]
                                     \/ registry'[e] = NoLock /\ ~InUse(e)
         /\ registry[d] \in {l, NoLock}
         /\ registry[d] # l => /\ \A e \in Dialogs : registry[e] # l
                               /\ \A u \in Tasks : mine[u] # l
                               /\ ~locked[l] /\ waiters[l] = <<>>
<1> USE DEF Inv
<1>1. pc[t] = "out" /\ mine[t] = NoLock
  BY DEF Ask, HasInv
<1>2. CASE l = registry[d] /\ UNCHANGED registry
  BY <1>1, <1>2, Constants DEF TypeOK
<1>3. CASE registry[d] = NoLock /\ Unreferenced # {} /\ l = NewLock /\ registry' = [Pruned EXCEPT ![d] = l]
  <2>1. l \in Unreferenced
    BY <1>3 DEF NewLock
  <2>2. (\A e \in Dialogs : registry[e] # l) /\ (\A u \in Tasks : mine[u] # l)
    BY <2>1 DEF Unreferenced
  <2>3. ~locked[l]
    BY <2>2 DEF LockedInv
  <2>4. waiters[l] = <<>>
    <3>1. waiters[l] \in Seq(Tasks)
      BY DEF TypeOK
    <3>2. DOMAIN waiters[l] = {}
      <4> SUFFICES ASSUME NEW i \in DOMAIN waiters[l] PROVE FALSE
        OBVIOUS
      <4>1. waiters[l][i] \in Tasks /\ mine[waiters[l][i]] = l
        BY <3>1 DEF WaitersInv
      <4> QED BY <4>1, <2>2
    <3>3. Len(waiters[l]) \in Nat /\ DOMAIN waiters[l] = 1..Len(waiters[l])
      BY <3>1
    <3>4. Len(waiters[l]) = 0
      <4>1. \A n \in Nat : n # 0 => 1 \in 1..n
        OBVIOUS
      <4> QED BY <3>2, <3>3, <4>1
    <3>5. \A s \in Seq(Tasks) : Len(s) = 0 => s = <<>>
      OBVIOUS
    <3> QED BY <3>1, <3>4, <3>5
  <2>5. Pruned \in [Dialogs -> Locks \cup {NoLock}]
    BY DEF Pruned, TypeOK
  <2>6. \A e \in Dialogs \ {d} : registry'[e] = Pruned[e]
    BY <1>3, <2>5
  <2>7. \A e \in Dialogs : Pruned[e] = registry[e] \/ (Pruned[e] = NoLock /\ ~InUse(e))
    BY DEF Pruned
  <2>8. registry' \in [Dialogs -> Locks \cup {NoLock}] /\ registry'[d] = l
    BY <1>3, <2>5
  <2> QED BY <1>1, <1>3, <2>2, <2>3, <2>4, <2>6, <2>7, <2>8
<1> QED BY <1>2, <1>3 DEF Ask

\* If nothing was forgotten, what was dropped had neither holder nor waiters.
LEMMA AskDrops ==
  ASSUME Inv, NEW t \in Tasks, NEW d \in Dialogs, NEW l \in Locks, Ask(t, d, l), ~forgotten'
  PROVE  /\ ~forgotten
         /\ \A e \in Dialogs \ {d} :
              \/ registry'[e] = registry[e]
              \/ /\ registry'[e] = NoLock /\ registry[e] \in Locks
                 /\ ~locked[registry[e]] /\ waiters[registry[e]] = <<>>
<1>1. ~forgotten /\ \A e \in Known : registry'[e] = NoLock => waiters[registry[e]] = <<>>
  BY DEF Ask
<1>2. \A e \in Dialogs : registry[e] \in Locks \cup {NoLock}
  BY DEF Inv, TypeOK
<1> QED BY <1>1, <1>2, AskGets DEF InUse, Known

LEMMA AskInv ==
  ASSUME Inv, NEW t \in Tasks, NEW d \in Dialogs, NEW l \in Locks, Ask(t, d, l)
  PROVE  Inv'
<1> USE DEF Inv
<1>1. pc[t] = "out" /\ mine[t] = NoLock /\ registry' \in [Dialogs -> Locks \cup {NoLock}]
  BY AskGets
<1>2. mine' = [mine EXCEPT ![t] = l] /\ serves' = [serves EXCEPT ![t] = d]
  BY DEF Ask
<1>3. \/ /\ ~locked[l] /\ waiters[l] = <<>> /\ locked' = [locked EXCEPT ![l] = TRUE]
         /\ pc' = [pc EXCEPT ![t] = "in"] /\ UNCHANGED waiters
      \/ /\ locked[l] \/ waiters[l] # <<>>
         /\ waiters' = [waiters EXCEPT ![l] = Append(@, t)]
         /\ pc' = [pc EXCEPT ![t] = "wait"] /\ UNCHANGED locked
  BY DEF Ask
<1>4. \A u \in Tasks \ {t} : pc'[u] = pc[u] /\ mine'[u] = mine[u] /\ serves'[u] = serves[u]
  BY <1>2, <1>3 DEF TypeOK
<1>5. pc'[t] \in {"in", "wait"} /\ mine'[t] = l /\ serves'[t] = d
  BY <1>2, <1>3 DEF TypeOK
<1>6. TypeOK'
  <2>1. forgotten' \in BOOLEAN
    BY DEF Ask
  <2>2. waiters' \in [Locks -> Seq(Tasks)]
    <3>1. waiters \in [Locks -> Seq(Tasks)]
      BY DEF TypeOK
    <3>2. Append(waiters[l], t) \in Seq(Tasks)
      BY <3>1
    <3> QED BY <1>3, <3>1, <3>2
  <2>3. locked' \in [Locks -> BOOLEAN] /\ pc' \in [Tasks -> {"out", "wait", "in"}]
    BY <1>3 DEF TypeOK
  <2> QED BY <1>1, <1>2, <2>1, <2>2, <2>3 DEF TypeOK
<1>7. HasInv'
  BY <1>4, <1>5 DEF HasInv
<1>8. LockedInv'
  <2>1. CASE pc'[t] = "in"
    <3>1. /\ ~locked[l] /\ locked' = [locked EXCEPT ![l] = TRUE]
      BY <1>3, <2>1 DEF TypeOK
    <3>2. \A u \in Tasks \ {t} : pc'[u] = "in" => mine[u] # l
      BY <3>1, <1>4 DEF LockedInv
    <3>3. locked'[l] /\ \A k \in Locks \ {l} : locked'[k] = locked[k]
      BY <3>1 DEF TypeOK
    <3>4. \A k \in Locks : locked'[k] => \E u \in Tasks : pc'[u] = "in" /\ mine'[u] = k
      BY <2>1, <3>3, <1>1, <1>4, <1>5 DEF LockedInv
    <3>5. \A u \in Tasks : pc'[u] = "in" => locked'[mine'[u]]
      <4> SUFFICES ASSUME NEW u \in Tasks \ {t}, pc[u] = "in" PROVE locked'[mine[u]]
        BY <1>4, <1>5, <3>3
      <4>1. mine[u] \in Locks \ {l} /\ locked[mine[u]]
        BY <1>4, <3>2 DEF HasInv, LockedInv
      <4> QED BY <4>1, <3>3
    <3>6. \A u, w \in Tasks : pc'[u] = "in" /\ pc'[w] = "in" /\ mine'[u] = mine'[w] => u = w
      BY <3>2, <1>4, <1>5 DEF LockedInv
    <3> QED BY <3>4, <3>5, <3>6 DEF LockedInv
  <2>2. CASE pc'[t] = "wait"
    <3>1. UNCHANGED locked
      BY <1>3, <2>2 DEF TypeOK
    <3> QED BY <2>2, <3>1, <1>1, <1>4, <1>5 DEF LockedInv
  <2> QED BY <1>5, <2>1, <2>2
<1>9. WaitersInv'
  <2>1. \A k \in Locks : \A i \in DOMAIN waiters[k] : waiters[k][i] \in Tasks \ {t}
    BY <1>1 DEF TypeOK, WaitersInv
  <2>2. CASE UNCHANGED waiters
    BY <2>1, <2>2, <1>4 DEF WaitersInv
  <2>3. CASE waiters' = [waiters EXCEPT ![l] = Append(@, t)] /\ pc'[t] = "wait"
    <3>1. /\ waiters[l] \in Seq(Tasks) /\ waiters'[l] = Append(waiters[l], t)
          /\ \A k \in Locks \ {l} : waiters'[k] = waiters[k]
      BY <2>3 DEF TypeOK
    <3>2. /\ DOMAIN waiters'[l] = 1..(Len(waiters[l]) + 1) /\ DOMAIN waiters[l] = 1..Len(waiters[l])
          /\ waiters'[l][Len(waiters[l]) + 1] = t
          /\ \A i \in DOMAIN waiters[l] : waiters'[l][i] = waiters[l][i]
      BY <3>1
    <3> QED BY <2>1, <2>3, <3>1, <3>2, <1>4, <1>5 DEF WaitersInv
  <2> QED BY <1>3, <2>2, <2>3 DEF TypeOK
<1>10. QueuedInv'
  <2> SUFFICES ASSUME NEW u \in Tasks, pc'[u] = "wait"
               PROVE  \E i \in DOMAIN waiters'[mine'[u]] : waiters'[mine'[u]][i] = u
    BY DEF QueuedInv
  <2>1. waiters[l] \in Seq(Tasks) /\ waiters \in [Locks -> Seq(Tasks)]
    BY DEF TypeOK
  <2>2. CASE u = t
    <3>1. waiters'[l] = Append(waiters[l], t)
      BY <1>3, <2>1, <2>2 DEF TypeOK
    <3>2. Len(waiters[l]) + 1 \in DOMAIN waiters'[l] /\ waiters'[l][Len(waiters[l]) + 1] = t
      BY <2>1, <3>1
    <3> QED BY <2>2, <3>2, <1>5
  <2>3. CASE u # t
    <3>1. pc[u] = "wait" /\ mine'[u] = mine[u] /\ mine[u] \in Locks
      BY <1>4, <2>3 DEF HasInv
    <3>2. PICK i \in DOMAIN waiters[mine[u]] : waiters[mine[u]][i] = u
      BY <3>1 DEF QueuedInv
    <3>3. \/ waiters'[mine[u]] = waiters[mine[u]]
          \/ waiters'[mine[u]] = Append(waiters[mine[u]], t)
      BY <1>3, <2>1, <3>1
    <3>4. i \in DOMAIN waiters'[mine[u]] /\ waiters'[mine[u]][i] = u
      <4>1. waiters[mine[u]] \in Seq(Tasks)
        BY <2>1, <3>1
      <4> QED BY <3>2, <3>3, <4>1
    <3> QED BY <3>1, <3>4
  <2> QED BY <2>2, <2>3
<1>11. OwnInv'
  BY AskGets DEF OwnInv
<1>12. KeptInv'
  <2> SUFFICES ASSUME ~forgotten', NEW u \in Tasks, pc'[u] # "out" PROVE registry'[serves'[u]] = mine'[u]
    BY DEF KeptInv
  <2>1. registry'[d] = l
    BY AskGets
  <2>2. CASE u # t
    <3>1. /\ ~forgotten /\ serves[u] \in Dialogs /\ mine[u] \in Locks /\ registry[serves[u]] = mine[u]
          /\ pc[u] # "out"
      BY AskDrops, <1>4, <2>2 DEF KeptInv, HasInv
    <3>2. CASE serves[u] = d
      BY <3>1, <3>2, <2>2, <2>1, <1>4, AskGets, Constants
    <3>3. CASE serves[u] # d /\ registry'[serves[u]] # registry[serves[u]]
      <4>1. ~locked[mine[u]] /\ waiters[mine[u]] = <<>>
        BY <3>1, <3>3, AskDrops
      <4> QED BY <4>1, <3>1 DEF LockedInv, QueuedInv, TypeOK
    <3> QED BY <3>1, <3>2, <3>3, <2>2, <1>4
  <2> QED BY <2>1, <2>2, <1>5
<1> QED BY <1>6, <1>7, <1>8, <1>9, <1>11, <1>12, <1>10
-----------------------------------------------------------------------------
(* Handing it over *)

LEMMA ReleaseInv ==
  ASSUME Inv, NEW t \in Tasks, ReleaseLock(t)
  PROVE  Inv'
<1> USE DEF Inv
<1>1. /\ pc[t] = "in" /\ mine[t] \in Locks /\ pc'[t] = "out" /\ mine'[t] = NoLock
      /\ \A u \in Tasks \ {t} : pc'[u] = pc[u] /\ mine'[u] = mine[u] /\ serves'[u] = serves[u]
  BY DEF ReleaseLock, HasInv, TypeOK
<1>2. ~locked'[mine[t]] /\ \A l \in Locks \ {mine[t]} : locked'[l] = locked[l]
  BY <1>1 DEF ReleaseLock, TypeOK
<1>3. UNCHANGED <<registry, waiters, forgotten>>
  BY DEF ReleaseLock
<1>4. TypeOK'
  BY DEF ReleaseLock, TypeOK
<1>5. HasInv' /\ OwnInv' /\ KeptInv'
  BY <1>1, <1>3 DEF HasInv, OwnInv, KeptInv
<1>6. LockedInv'
  BY <1>1, <1>2, Constants DEF LockedInv, HasInv
<1>7. WaitersInv'
  <2>1. \A l \in Locks : \A i \in DOMAIN waiters[l] : waiters[l][i] \in Tasks \ {t}
    BY <1>1 DEF WaitersInv, TypeOK
  <2> QED BY <1>1, <1>3, <2>1 DEF WaitersInv
<1>8. QueuedInv'
  BY <1>1, <1>3 DEF QueuedInv
<1> QED BY <1>4, <1>5, <1>6, <1>7, <1>8

\* The woken waiter is the first; the others move up.
LEMMA WakeUpTakes ==
  ASSUME Inv, NEW t \in Tasks, WakeUp(t)
  PROVE  /\ pc[t] = "wait" /\ mine[t] \in Locks /\ ~locked[mine[t]]
         /\ waiters[mine[t]] \in Seq(Tasks) /\ waiters[mine[t]] # <<>>
         /\ waiters[mine[t]] = <<t>> \o waiters'[mine[t]]
         /\ waiters'[mine[t]] = Tail(waiters[mine[t]])
         /\ \A l \in Locks \ {mine[t]} : waiters'[l] = waiters[l]
         /\ UNCHANGED <<registry, mine, serves, forgotten>>
<1> USE DEF Inv
<1>1. pc[t] = "wait" /\ mine[t] \in Locks /\ ~locked[mine[t]] /\ Head(waiters[mine[t]]) = t
  BY DEF WakeUp, FirstWaiter, HasInv
<1>2. waiters[mine[t]] \in Seq(Tasks)
  BY <1>1 DEF TypeOK
<1>3. waiters[mine[t]] # <<>>
  BY <1>1 DEF QueuedInv
<1>4. /\ waiters'[mine[t]] = Tail(waiters[mine[t]])
      /\ \A l \in Locks \ {mine[t]} : waiters'[l] = waiters[l]
  BY <1>1 DEF WakeUp, TypeOK
<1>5. waiters[mine[t]] = <<t>> \o Tail(waiters[mine[t]])
  BY <1>1, <1>2, <1>3
<1> QED BY <1>1, <1>2, <1>3, <1>4, <1>5 DEF WakeUp

LEMMA WakeUpInv ==
  ASSUME Inv, NEW t \in Tasks, WakeUp(t)
  PROVE  Inv'
<1> USE DEF Inv
<1>1. /\ pc[t] = "wait" /\ mine[t] \in Locks /\ ~locked[mine[t]]
      /\ UNCHANGED <<registry, mine, serves, forgotten>>
  BY WakeUpTakes
<1> DEFINE old == waiters[mine[t]]
<1>2. /\ old \in Seq(Tasks) /\ old # <<>> /\ Head(old) = t /\ waiters'[mine[t]] = Tail(old)
      /\ \A l \in Locks \ {mine[t]} : waiters'[l] = waiters[l]
  BY WakeUpTakes DEF WakeUp, FirstWaiter
<1>3. pc'[t] = "in" /\ \A u \in Tasks \ {t} : pc'[u] = pc[u]
  BY DEF WakeUp, TypeOK
<1>4. locked'[mine[t]] /\ \A l \in Locks \ {mine[t]} : locked'[l] = locked[l]
  BY <1>1 DEF WakeUp, TypeOK
<1>5. /\ DOMAIN Tail(old) = 1..(Len(old) - 1) /\ Len(old) \in Nat \ {0} /\ DOMAIN old = 1..Len(old)
      /\ \A i \in DOMAIN Tail(old) : Tail(old)[i] = old[i + 1]
      /\ old[1] = t
  BY <1>2
<1>6. TypeOK'
  <2>1. Tail(old) \in Seq(Tasks)
    BY <1>2
  <2>2. waiters' \in [Locks -> Seq(Tasks)]
    BY <2>1 DEF WakeUp, TypeOK
  <2>3. locked' \in [Locks -> BOOLEAN] /\ pc' \in [Tasks -> {"out", "wait", "in"}]
    BY DEF WakeUp, TypeOK
  <2> QED BY <1>1, <2>2, <2>3 DEF TypeOK
<1>7. HasInv' /\ OwnInv'
  BY <1>1, <1>3 DEF HasInv, OwnInv
<1>8. KeptInv'
  BY <1>1, <1>3 DEF KeptInv
<1>9. LockedInv'
  <2>1. \A l \in Locks : locked'[l] => \E u \in Tasks : pc'[u] = "in" /\ mine'[u] = l
    BY <1>1, <1>3, <1>4 DEF LockedInv
  <2>2. \A u \in Tasks \ {t} : pc'[u] = "in" => mine[u] \in Locks \ {mine[t]} /\ locked[mine[u]]
    BY <1>1, <1>3 DEF LockedInv, HasInv
  <2>3. \A u \in Tasks : pc'[u] = "in" => locked'[mine'[u]]
    BY <1>1, <1>4, <2>2
  <2>4. \A u, w \in Tasks : pc'[u] = "in" /\ pc'[w] = "in" /\ mine'[u] = mine'[w] => u = w
    BY <1>1, <1>3, <2>2 DEF LockedInv
  <2> QED BY <2>1, <2>3, <2>4 DEF LockedInv
<1>10. WaitersInv'
  <2> SUFFICES ASSUME NEW l \in Locks
               PROVE  /\ \A i \in DOMAIN waiters'[l] : pc'[waiters'[l][i]] = "wait" /\ mine'[waiters'[l][i]] = l
                      /\ \A i, j \in DOMAIN waiters'[l] : waiters'[l][i] = waiters'[l][j] => i = j
    BY DEF WaitersInv
  <2>1. CASE l = mine[t]
    <3>1. \A i \in DOMAIN Tail(old) : /\ i + 1 \in DOMAIN old /\ old[i + 1] # t
                                      /\ old[i + 1] \in Tasks
      BY <1>1, <1>2, <1>5 DEF WaitersInv
    <3>2. \A i \in DOMAIN Tail(old) : pc[Tail(old)[i]] = "wait" /\ mine[Tail(old)[i]] = l /\ Tail(old)[i] \in Tasks \ {t}
      BY <1>1, <1>5, <2>1, <3>1 DEF WaitersInv
    <3>3. \A i, j \in DOMAIN Tail(old) : Tail(old)[i] = Tail(old)[j] => i = j
      <4>1. \A i, j \in DOMAIN old : old[i] = old[j] => i = j
        BY <1>1 DEF WaitersInv
      <4> SUFFICES ASSUME NEW i \in DOMAIN Tail(old), NEW j \in DOMAIN Tail(old),
                          Tail(old)[i] = Tail(old)[j]
                   PROVE  i = j
        OBVIOUS
      <4>2. old[i + 1] = old[j + 1] /\ i + 1 \in DOMAIN old /\ j + 1 \in DOMAIN old
        BY <1>5, <3>1
      <4>3. i + 1 = j + 1 /\ i \in Nat /\ j \in Nat
        BY <1>5, <4>1, <4>2
      <4> QED BY <4>3
    <3>4. waiters'[l] = Tail(old)
      BY <1>2, <2>1
    <3>5. \A i \in DOMAIN Tail(old) : pc'[Tail(old)[i]] = "wait" /\ mine'[Tail(old)[i]] = l
      BY <1>1, <1>3, <3>2
    <3> QED BY <3>3, <3>4, <3>5
  <2>2. CASE l # mine[t]
    <3>1. waiters'[l] = waiters[l] /\ \A i \in DOMAIN waiters[l] : waiters[l][i] \in Tasks
      BY <1>2, <2>2 DEF TypeOK
    <3> QED BY <1>1, <1>3, <2>2, <3>1 DEF WaitersInv
  <2> QED BY <2>1, <2>2
<1>11. QueuedInv'
  <2> SUFFICES ASSUME NEW u \in Tasks, pc'[u] = "wait"
               PROVE  \E i \in DOMAIN waiters'[mine'[u]] : waiters'[mine'[u]][i] = u
    BY DEF QueuedInv
  <2>1. u # t /\ pc[u] = "wait" /\ mine'[u] = mine[u] /\ mine[u] \in Locks
    BY <1>1, <1>3 DEF HasInv
  <2>2. PICK i \in DOMAIN waiters[mine[u]] : waiters[mine[u]][i] = u
    BY <2>1 DEF QueuedInv
  <2>3. CASE mine[u] = mine[t]
    <3>1. i - 1 \in DOMAIN Tail(old) /\ Tail(old)[i - 1] = u
      <4>1. i \in 1..Len(old) /\ old[i] = u
        BY <1>5, <2>2, <2>3
      <4>2. i # 1
        BY <1>5, <2>1, <4>1
      <4>3. i - 1 \in 1..(Len(old) - 1) /\ i - 1 + 1 = i
        BY <1>5, <4>1, <4>2
      <4> QED BY <1>5, <4>1, <4>3
    <3> QED BY <1>2, <2>1, <2>3, <3>1
  <2> QED BY <1>2, <2>1, <2>2, <2>3
<1> QED BY <1>6, <1>7, <1>8, <1>9, <1>10, <1>11

LEMMA Inductive == Spec => []Inv
<1>1. Inv /\ [Next]_vars => Inv'
  <2> SUFFICES ASSUME Inv, [Next]_vars PROVE Inv'
    OBVIOUS
  <2>1. CASE UNCHANGED vars
    BY <2>1 DEF vars, Inv, TypeOK, HasInv, LockedInv, WaitersInv, QueuedInv, OwnInv, KeptInv
  <2> QED BY <2>1, AskInv, ReleaseInv, WakeUpInv DEF Next
<1> QED BY <1>1, InitInv, PTL DEF Spec

\* The lock objects, their queues and what callers keep of them have their types;
\* above all a dialog that was dropped from the registry is unknown, not missing
\* (dialog_lock.py:34-42).
THEOREM Typing == Spec => []TypeOK
BY Inductive, PTL DEF Inv

-----------------------------------------------------------------------------
(* The registry stays small *)

\* Locks in use are as many as the tasks under them.
LEMMA InUseIsBounded ==
  ASSUME Inv, NEW t \in Tasks, pc[t] = "out"
  PROVE  LET S == {e \in Dialogs : InUse(e)}
         IN  IsFiniteSet(S) /\ Cardinality(S) <= Cardinality(Tasks) - 1
<1> DEFINE S == {e \in Dialogs : InUse(e)}
           T == Tasks \ {t}
           f == [e \in S |-> CHOOSE u \in Tasks : pc[u] = "in" /\ mine[u] = registry[e]]
<1>1. \A e \in S : /\ registry[e] \in Locks
                   /\ \E u \in Tasks : pc[u] = "in" /\ mine[u] = registry[e]
  BY DEF Inv, TypeOK, LockedInv, InUse
<1>2. \A e \in S : f[e] \in Tasks /\ pc[f[e]] = "in" /\ mine[f[e]] = registry[e]
  BY <1>1
<1>3. f \in Injection(S, T)
  <2>1. f \in [S -> T]
    BY <1>2
  <2>2. \A d, e \in S : f[d] = f[e] => d = e
    BY <1>1, <1>2, Constants DEF Inv, OwnInv
  <2> QED BY <2>1, <2>2 DEF Injection, IsInjective
<1>4. IsFiniteSet(T) /\ Cardinality(T) = Cardinality(Tasks) - 1
  BY FS_RemoveElement, Constants
<1> QED BY <1>3, <1>4, FS_Injection

LEMMA BoundedNext == Inv /\ RegistryIsBounded /\ [Next]_vars => RegistryIsBounded'
<1> SUFFICES ASSUME Inv, RegistryIsBounded, [Next]_vars PROVE RegistryIsBounded'
  OBVIOUS
<1>1. ASSUME NEW t \in Tasks, NEW d \in Dialogs, NEW l \in Locks, Ask(t, d, l)
      PROVE  RegistryIsBounded'
  <2>1. CASE UNCHANGED registry
    BY <2>1 DEF RegistryIsBounded, Known
  <2>2. CASE registry[d] = NoLock /\ registry' = [Pruned EXCEPT ![d] = l]
    <3>1. IsFiniteSet(Known) /\ Cardinality(Known) \in Nat
      BY Constants, FS_Subset, FS_CardinalityType DEF Known
    <3>2. CASE Cardinality(Known) < Threshold
      <4>1. Known' \subseteq Known \cup {d}
        BY <1>1, AskGets, Constants DEF Known
      <4>2. IsFiniteSet(Known \cup {d}) /\ Cardinality(Known \cup {d}) <= Cardinality(Known) + 1
        BY <3>1, FS_AddElement
      <4>3. Cardinality(Known') <= Cardinality(Known \cup {d}) /\ Cardinality(Known') \in Nat
        BY <4>1, <4>2, FS_Subset, FS_CardinalityType
      <4>4. Cardinality(Known \cup {d}) \in Nat
        BY <4>2, FS_CardinalityType
      <4>5. Cardinality(Known') <= Threshold
        BY <3>1, <3>2, <4>2, <4>3, <4>4, Constants
      <4> QED BY <4>5 DEF RegistryIsBounded
    <3>3. CASE Cardinality(Known) >= Threshold
      <4> DEFINE S == {e \in Dialogs : InUse(e)}
      <4>1. Known' \subseteq S \cup {d}
        <5> SUFFICES ASSUME NEW e \in Dialogs \ {d}, registry'[e] # NoLock PROVE InUse(e)
          BY DEF Known
        <5>1. registry'[e] = Pruned[e]
          BY <2>2 DEF Pruned
        <5> QED BY <3>3, <5>1 DEF Pruned
      <4>2. IsFiniteSet(S) /\ Cardinality(S) <= Cardinality(Tasks) - 1 /\ Cardinality(S) \in Nat
        <5>1. pc[t] = "out"
          BY <1>1 DEF Ask
        <5> QED BY <5>1, InUseIsBounded, FS_CardinalityType
      <4>3. IsFiniteSet(S \cup {d}) /\ Cardinality(S \cup {d}) <= Cardinality(S) + 1
        <5> HIDE DEF S
        <5>1. Cardinality(S \cup {d}) = IF d \in S THEN Cardinality(S) ELSE Cardinality(S) + 1
          BY <4>2, FS_AddElement
        <5> QED BY <4>2, <5>1, FS_AddElement
      <4>4. Cardinality(Known') <= Cardinality(S \cup {d}) /\ Cardinality(Known') \in Nat
        BY <4>1, <4>3, FS_Subset, FS_CardinalityType
      <4>5. Cardinality(S \cup {d}) \in Nat /\ Cardinality(Tasks) \in Nat
        BY <4>3, FS_CardinalityType, Constants
      <4> QED BY <4>2, <4>3, <4>4, <4>5 DEF RegistryIsBounded
    <3> QED BY <3>1, <3>2, <3>3, Constants
  <2> QED BY <1>1, <2>1, <2>2 DEF Ask
<1>2. CASE UNCHANGED registry
  BY <1>2 DEF RegistryIsBounded, Known
<1> QED BY <1>1, <1>2 DEF Next, ReleaseLock, WakeUp, vars

\* The registry has at most as many locks as the threshold, or as there are
\* handlers alive, however many dialogs have been served (dialog_lock.py:29-31, 38-40).
THEOREM RegistryStaysSmall == Spec => []RegistryIsBounded
<1>1. Init => RegistryIsBounded
  <2> SUFFICES ASSUME Init PROVE RegistryIsBounded
    OBVIOUS
  <2>1. Known = {}
    BY DEF Init, Known
  <2> QED BY <2>1, FS_EmptySet, Constants DEF RegistryIsBounded
<1> QED BY <1>1, BoundedNext, Inductive, PTL DEF Spec

-----------------------------------------------------------------------------
(* Registry and locks are a fair mutex *)

\* The refinement mapping under names of its own.
Queues == [d \in Dialogs |-> IF forgotten THEN <<>> ELSE QueueOf(d)]
Inside == {t \in Tasks : ~forgotten /\ pc[t] = "in"}

\* The two parts of a queue: who is under the lock, and who waits for it.
Front(H) == IF H = {} THEN <<>> ELSE <<CHOOSE t \in H : TRUE>>
Behind(r, w) == IF r = NoLock THEN <<>> ELSE w

LEMMA QueueParts ==
  ASSUME NEW d
  PROVE  /\ QueueOf(d) = Front(Holders(d)) \o Behind(registry[d], waiters[registry[d]])
         /\ QueueOf(d)' = Front(Holders(d)') \o Behind(registry'[d], waiters'[registry'[d]])
BY DEF QueueOf, Front, Behind

\* Under a lock in use the queue is its holder and those who wait for it.
LEMMA HeldQueue ==
  ASSUME Inv, ~forgotten, NEW t \in Tasks, pc[t] = "in"
  PROVE  /\ serves[t] \in Dialogs /\ mine[t] \in Locks /\ registry[serves[t]] = mine[t]
         /\ QueueOf(serves[t]) = <<t>> \o waiters[mine[t]]
<1>1. serves[t] \in Dialogs /\ mine[t] \in Locks /\ registry[serves[t]] = mine[t]
  BY DEF Inv, HasInv, KeptInv
<1>2. Holders(serves[t]) = {t}
  <2> SUFFICES ASSUME NEW u \in Tasks, pc[u] = "in", serves[u] = serves[t] PROVE u = t
    BY DEF Holders
  <2>1. mine[u] = mine[t]
    BY <1>1 DEF Inv, KeptInv
  <2> QED BY <2>1 DEF Inv, LockedInv
<1> QED BY <1>1, <1>2, Constants DEF QueueOf

\* Under a lock that is free it is those who wait.
LEMMA FreeQueue ==
  ASSUME Inv, ~forgotten, NEW d \in Dialogs, registry[d] = NoLock \/ ~locked[registry[d]]
  PROVE  QueueOf(d) = IF registry[d] = NoLock THEN <<>> ELSE waiters[registry[d]]
<1>1. Holders(d) = {}
  <2> SUFFICES ASSUME NEW u \in Tasks, pc[u] = "in", serves[u] = d PROVE FALSE
    BY DEF Holders
  <2>1. registry[d] = mine[u] /\ mine[u] \in Locks /\ locked[mine[u]]
    BY DEF Inv, HasInv, KeptInv, LockedInv
  <2> QED BY <2>1, Constants
<1>2. registry[d] # NoLock => waiters[registry[d]] \in Seq(Tasks)
  BY DEF Inv, TypeOK
<1> QED BY <1>1, <1>2 DEF QueueOf

\* A queue depends on nothing but its own dialog.
LEMMA QueueStays ==
  ASSUME NEW d \in Dialogs, Holders(d)' = Holders(d), registry'[d] = registry[d],
         registry[d] # NoLock => waiters'[registry[d]] = waiters[registry[d]]
  PROVE  QueueOf(d)' = QueueOf(d)
BY QueueParts DEF Behind

LEMMA AskIsAsk ==
  ASSUME Inv, Inv', NEW t \in Tasks, NEW d \in Dialogs, NEW l \in Locks, Ask(t, d, l), ~forgotten'
  PROVE  Mutex!Next
<1>1. /\ pc[t] = "out" /\ mine[t] = NoLock /\ registry'[d] = l /\ registry[d] \in {l, NoLock}
      /\ registry[d] # l => ~locked[l] /\ waiters[l] = <<>> /\ \A e \in Dialogs : registry[e] # l
  BY AskGets
<1>2. /\ ~forgotten
      /\ \A e \in Dialogs \ {d} :
           \/ registry'[e] = registry[e]
           \/ /\ registry'[e] = NoLock /\ registry[e] \in Locks
              /\ ~locked[registry[e]] /\ waiters[registry[e]] = <<>>
  BY AskDrops
<1>3. \/ /\ ~locked[l] /\ waiters[l] = <<>> /\ locked' = [locked EXCEPT ![l] = TRUE]
         /\ pc' = [pc EXCEPT ![t] = "in"] /\ UNCHANGED waiters
      \/ /\ locked[l] \/ waiters[l] # <<>>
         /\ waiters' = [waiters EXCEPT ![l] = Append(@, t)]
         /\ pc' = [pc EXCEPT ![t] = "wait"] /\ UNCHANGED locked
  BY DEF Ask
<1>4. /\ \A u \in Tasks \ {t} : pc'[u] = pc[u] /\ mine'[u] = mine[u] /\ serves'[u] = serves[u]
      /\ serves'[t] = d /\ mine'[t] = l /\ pc'[t] \in {"in", "wait"}
  BY <1>3 DEF Ask, Inv, TypeOK
<1>5. waiters \in [Locks -> Seq(Tasks)] /\ registry \in [Dialogs -> Locks \cup {NoLock}]
  BY DEF Inv, TypeOK
<1>6. \A e \in Dialogs \ {d} : QueueOf(e)' = QueueOf(e)
  <2> SUFFICES ASSUME NEW e \in Dialogs \ {d} PROVE QueueOf(e)' = QueueOf(e)
    OBVIOUS
  <2>1. Holders(e)' = Holders(e)
    BY <1>1, <1>4 DEF Holders
  <2>2. CASE registry'[e] = registry[e]
    <3>1. registry[e] # NoLock => registry[e] \in Locks \ {l}
      <4>1. registry'[e] # registry'[d] \/ registry'[e] = NoLock
        BY DEF Inv, OwnInv
      <4> QED BY <4>1, <1>1, <1>5, <2>2
    <3>2. registry[e] # NoLock => waiters'[registry[e]] = waiters[registry[e]]
      BY <1>3, <1>5, <3>1
    <3> QED BY <2>1, <2>2, <3>2, QueueStays
  <2>3. CASE registry'[e] = NoLock /\ registry[e] \in Locks /\ ~locked[registry[e]] /\ waiters[registry[e]] = <<>>
    <3>1. QueueOf(e) = <<>>
      BY <1>2, <2>3, FreeQueue, Constants
    <3>2. Holders(e) = {}
      <4> SUFFICES ASSUME NEW u \in Tasks, pc[u] = "in", serves[u] = e PROVE FALSE
        BY DEF Holders
      <4>1. registry[e] = mine[u] /\ locked[mine[u]]
        BY <1>2 DEF Inv, KeptInv, LockedInv
      <4> QED BY <4>1, <2>3
    <3>3. QueueOf(e)' = <<>>
      BY <2>1, <2>3, <3>2 DEF QueueOf
    <3> QED BY <3>1, <3>3
  <2> QED BY <1>2, <2>2, <2>3
<1>7. ~Mutex!Queued(t)
  <2> SUFFICES ASSUME NEW e \in Dialogs, NEW i \in DOMAIN QueueOf(e), QueueOf(e)[i] = t PROVE FALSE
    BY <1>2 DEF Mutex!Queued
  <2>1. \A k \in Locks : \A j \in DOMAIN waiters[k] : waiters[k][j] # t
    BY <1>1 DEF Inv, WaitersInv
  <2>2. CASE \E u \in Tasks : pc[u] = "in" /\ serves[u] = e
    <3>1. PICK u \in Tasks : pc[u] = "in" /\ serves[u] = e
      BY <2>2
    <3>2. QueueOf(e) = <<u>> \o waiters[mine[u]] /\ u # t /\ mine[u] \in Locks
      BY <1>1, <1>2, <3>1, HeldQueue
    <3>3. waiters[mine[u]] \in Seq(Tasks) /\ \A j \in DOMAIN waiters[mine[u]] : waiters[mine[u]][j] # t
      BY <1>5, <2>1, <3>2
    <3> QED BY <3>2, <3>3
  <2>3. CASE Holders(e) = {}
    <3>1. QueueOf(e) = IF registry[e] = NoLock THEN <<>> ELSE waiters[registry[e]]
      <4>1. registry[e] # NoLock => waiters[registry[e]] \in Seq(Tasks)
        BY <1>5
      <4> QED BY <4>1, <2>3 DEF QueueOf
    <3> QED BY <1>5, <2>1, <3>1
  <2> QED BY <2>2, <2>3 DEF Holders
<1>8. /\ QueueOf(d)' = Append(QueueOf(d), t)
      /\ pc'[t] = "in" => QueueOf(d) = <<>>
  <2>1. CASE pc'[t] = "in"
    <3>1. ~locked[l] /\ waiters[l] = <<>> /\ waiters'[l] = <<>>
      BY <1>3, <2>1 DEF Inv, TypeOK
    <3>2. QueueOf(d) = <<>>
      BY <1>1, <1>2, <3>1, FreeQueue
    <3>3. QueueOf(d)' = <<t>> \o waiters'[l]
      <4>1. Holders(d)' = {t}
        <5> SUFFICES ASSUME NEW u \in Tasks, pc'[u] = "in", serves'[u] = d PROVE u = t
          BY <1>4, <2>1 DEF Holders
        <5>1. mine'[u] = l
          BY <1>1 DEF Inv, KeptInv
        <5> QED BY <5>1, <1>4, <2>1 DEF Inv, LockedInv
      <4> QED BY <4>1, <1>1, Constants DEF QueueOf
    <3> QED BY <3>1, <3>2, <3>3
  <2>2. CASE pc'[t] = "wait"
    <3>1. (locked[l] \/ waiters[l] # <<>>) /\ waiters' = [waiters EXCEPT ![l] = Append(@, t)]
      BY <1>3, <2>2 DEF Inv, TypeOK
    <3>2. registry[d] = l /\ waiters'[l] = Append(waiters[l], t) /\ waiters[l] \in Seq(Tasks)
      BY <1>1, <1>5, <3>1
    <3>3. Holders(d)' = Holders(d)
      BY <1>1, <1>4, <2>2 DEF Holders
    <3> DEFINE h == Front(Holders(d))
    <3>4. h \in Seq(Tasks)
      BY DEF Holders, Front
    <3> HIDE DEF h
    <3>5. QueueOf(d) = h \o waiters[l] /\ QueueOf(d)' = h \o Append(waiters[l], t)
      BY <1>1, <3>2, <3>3, QueueParts, Constants DEF Behind, h
    <3>6. h \o Append(waiters[l], t) = Append(h \o waiters[l], t)
      BY <3>2, <3>4
    <3> QED BY <2>2, <3>5, <3>6
  <2> QED BY <1>4, <2>1, <2>2
<1>9. Queues' = [Queues EXCEPT ![d] = Append(@, t)]
  BY <1>2, <1>6, <1>8 DEF Queues
<1>10. \/ Inside' = Inside
       \/ Queues[d] = <<>> /\ Inside' = Inside \cup {t}
  BY <1>1, <1>2, <1>4, <1>8 DEF Inside, Queues
<1>11. Mutex!Ask(t, d)
  BY <1>7, <1>9, <1>10 DEF Mutex!Ask, Queues, Inside
<1> QED BY <1>11 DEF Mutex!Next

LEMMA ReleaseIsLeave ==
  ASSUME Inv, Inv', NEW t \in Tasks, ReleaseLock(t), ~forgotten
  PROVE  Mutex!Next
<1>0. PICK d \in Dialogs : d = serves[t]
  BY DEF ReleaseLock, Inv, HasInv
<1>1. /\ pc[t] = "in" /\ pc'[t] = "out" /\ ~locked'[mine[t]]
      /\ \A u \in Tasks \ {t} : pc'[u] = pc[u] /\ serves'[u] = serves[u]
      /\ UNCHANGED <<registry, waiters, forgotten>>
  <2>1. mine[t] \in Locks
    BY DEF ReleaseLock, Inv, HasInv
  <2> QED BY <2>1 DEF ReleaseLock, Inv, TypeOK
<1>2. /\ mine[t] \in Locks /\ registry[d] = mine[t]
      /\ QueueOf(d) = <<t>> \o waiters[mine[t]]
  BY <1>0, <1>1, HeldQueue
<1>3. waiters[mine[t]] \in Seq(Tasks)
  BY <1>2 DEF Inv, TypeOK
<1>4. QueueOf(d)' = waiters[mine[t]]
  <2>1. Holders(d)' = {}
    <3> SUFFICES ASSUME NEW u \in Tasks, pc'[u] = "in", serves'[u] = d PROVE FALSE
      BY DEF Holders
    <3>1. registry'[d] = mine'[u] /\ locked'[mine'[u]]
      BY <1>1 DEF Inv, KeptInv, LockedInv
    <3> QED BY <3>1, <1>1, <1>2
  <2>2. Front(Holders(d)') = <<>>
    BY <2>1 DEF Front
  <2>3. Behind(registry'[d], waiters'[registry'[d]]) = waiters[mine[t]]
    BY <1>1, <1>2, Constants DEF Behind
  <2>4. QueueOf(d)' = Front(Holders(d)') \o Behind(registry'[d], waiters'[registry'[d]])
    BY QueueParts
  <2> QED BY <1>3, <2>2, <2>3, <2>4
<1>5. \A e \in Dialogs \ {d} : QueueOf(e)' = QueueOf(e)
  <2> SUFFICES ASSUME NEW e \in Dialogs \ {d} PROVE QueueOf(e)' = QueueOf(e)
    OBVIOUS
  <2>1. Holders(e)' = Holders(e)
    BY <1>0, <1>1 DEF Holders
  <2> QED BY <1>1, <2>1, QueueStays
<1>6. QueueOf(d) # <<>> /\ Head(QueueOf(d)) = t /\ QueueOf(d)' = Tail(QueueOf(d))
  BY <1>2, <1>3, <1>4
<1>7. Queues' = [Queues EXCEPT ![d] = Tail(@)]
  BY <1>1, <1>2, <1>5, <1>6 DEF Queues
<1>8. Inside' = Inside \ {t}
  BY <1>1 DEF Inside
<1>9. Mutex!Leave(t, d)
  BY <1>2, <1>6, <1>7, <1>8 DEF Mutex!Leave, Queues, Inside
<1> QED BY <1>9 DEF Mutex!Next

LEMMA WakeUpIsTake ==
  ASSUME Inv, Inv', NEW t \in Tasks, WakeUp(t), ~forgotten
  PROVE  Mutex!Next
<1>0. PICK d \in Dialogs : d = serves[t]
  BY DEF WakeUp, Inv, HasInv
<1>1. /\ pc[t] = "wait" /\ mine[t] \in Locks /\ ~locked[mine[t]]
      /\ waiters[mine[t]] \in Seq(Tasks) /\ waiters[mine[t]] # <<>>
      /\ waiters[mine[t]] = <<t>> \o waiters'[mine[t]]
      /\ \A l \in Locks \ {mine[t]} : waiters'[l] = waiters[l]
      /\ UNCHANGED <<registry, mine, serves, forgotten>>
  BY WakeUpTakes
<1>2. pc'[t] = "in" /\ \A u \in Tasks \ {t} : pc'[u] = pc[u]
  BY DEF WakeUp, Inv, TypeOK
<1>3. registry[d] = mine[t]
  BY <1>0, <1>1 DEF Inv, HasInv, KeptInv
<1>4. QueueOf(d) = waiters[mine[t]]
  BY <1>1, <1>3, FreeQueue, Constants
<1>5. QueueOf(d)' = <<t>> \o waiters'[mine[t]]
  <2>1. Holders(d)' = {t}
    <3> SUFFICES ASSUME NEW u \in Tasks, pc'[u] = "in", serves'[u] = d PROVE u = t
      BY <1>0, <1>1, <1>2 DEF Holders
    <3>1. mine'[u] = mine'[t]
      BY <1>0, <1>1, <1>2 DEF Inv, KeptInv
    <3> QED BY <3>1, <1>2 DEF Inv, LockedInv
  <2>2. Front(Holders(d)') = <<t>>
    BY <2>1 DEF Front
  <2>3. Behind(registry'[d], waiters'[registry'[d]]) = waiters'[mine[t]]
    BY <1>1, <1>3, Constants DEF Behind
  <2>4. QueueOf(d)' = Front(Holders(d)') \o Behind(registry'[d], waiters'[registry'[d]])
    BY QueueParts
  <2> QED BY <2>2, <2>3, <2>4
<1>6. \A e \in Dialogs \ {d} : QueueOf(e)' = QueueOf(e)
  <2> SUFFICES ASSUME NEW e \in Dialogs \ {d} PROVE QueueOf(e)' = QueueOf(e)
    OBVIOUS
  <2>1. Holders(e)' = Holders(e)
    BY <1>0, <1>1, <1>2 DEF Holders
  <2>2. registry[e] # NoLock => registry[e] \in Locks \ {mine[t]}
    BY <1>1, <1>3 DEF Inv, TypeOK, OwnInv
  <2> QED BY <1>1, <2>1, <2>2, QueueStays
<1>7. Queues' = Queues
  BY <1>1, <1>4, <1>5, <1>6 DEF Queues
<1>8. Inside' = Inside \cup {t}
  BY <1>1, <1>2 DEF Inside
<1>9. Mutex!Take(t, d)
  <2>1. Queues[d] # <<>> /\ Head(Queues[d]) = t
    <3>1. Head(waiters[mine[t]]) = t
      BY DEF WakeUp, FirstWaiter
    <3> QED BY <1>1, <1>3, <1>4, <3>1 DEF Queues
  <2> QED BY <2>1, <1>7, <1>8 DEF Mutex!Take, Queues, Inside
<1> QED BY <1>9 DEF Mutex!Next

\* Until a lock is dropped that somebody waits for, registry and asyncio.Lock keep
\* the promise of dialog_lock: one lock for all callers of a dialog, in the order
\* they came (dialog_lock.py:1-10, 34-42).
THEOREM LocksAreFair == Spec => ImplementsFairMutex
<1>1. Init => Mutex!Init
  <2> SUFFICES ASSUME Init PROVE Mutex!Init
    OBVIOUS
  <2>1. \A d \in Dialogs : QueueOf(d) = <<>> /\ Holders(d) = {}
    BY DEF Init, QueueOf, Holders
  <2>2. Inside = {}
    BY DEF Init, Inside
  <2> QED BY <2>1, <2>2 DEF Mutex!Init, Inside
<1>2. Inv /\ Inv' /\ [Next]_vars => [Mutex!Next]_Mutex!vars
  <2> SUFFICES ASSUME Inv, Inv', [Next]_vars PROVE [Mutex!Next]_Mutex!vars
    OBVIOUS
  <2>1. forgotten \in BOOLEAN /\ forgotten' \in BOOLEAN
    BY DEF Inv, TypeOK
  <2>2. CASE UNCHANGED vars
    <3>1. Queues' = Queues /\ Inside' = Inside
      BY <2>2 DEF vars, Queues, Inside, QueueOf, Holders
    <3> QED BY <3>1 DEF Mutex!vars, Queues, Inside
  <2>3. CASE forgotten'
    <3>1. Queues' = [d \in Dialogs |-> <<>>] /\ Inside' = {}
      BY <2>3 DEF Queues, Inside
    <3>2. Mutex!Restart
      BY <3>1 DEF Mutex!Restart, Queues, Inside
    <3> QED BY <3>2 DEF Mutex!Next
  <2>4. CASE ~forgotten' /\ Next
    <3>1. ASSUME NEW t \in Tasks, NEW d \in Dialogs, NEW l \in Locks, Ask(t, d, l) PROVE Mutex!Next
      BY <2>4, <3>1, AskIsAsk
    <3>2. ASSUME NEW t \in Tasks, ReleaseLock(t) PROVE Mutex!Next
      BY <2>4, <3>2, ReleaseIsLeave DEF ReleaseLock
    <3>3. ASSUME NEW t \in Tasks, WakeUp(t) PROVE Mutex!Next
      BY <2>4, <3>3, WakeUpIsTake DEF WakeUp
    <3> QED BY <2>4, <3>1, <3>2, <3>3 DEF Next
  <2> QED BY <2>2, <2>3, <2>4
<1> QED BY <1>1, <1>2, Inductive, PTL DEF Spec, ImplementsFairMutex, Mutex!Spec
=============================================================================
