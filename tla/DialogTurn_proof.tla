-------------------------- MODULE DialogTurn_proof --------------------------
(* Theorems about DialogTurn, for any number of handlers, messages, parts,  *)
(* human actions and restarts.                                              *)
EXTENDS DialogTurn, TLAPS

BeforeDelivery == {"idle", "lookup", "reprocess", "store", "enter", "wait",
                   "grace", "run", "model", "check"}
Delivering     == {"deliver", "sending", "taken"}

\* Why the index of the next part never leaves the reply.
PartsOf(t) ==
  /\ pc[t] # "idle" => my[t].msg \in Msgs
  /\ Len(part[t]) <= MaxParts
  /\ pc[t] \in BeforeDelivery => my[t].next = 1
  /\ pc[t] \in Delivering => my[t].next <= Len(part[t])
PartsInv == \A t \in Tasks : PartsOf(t)

TypeInv == TypeOK /\ PartsInv

\* The variables whose types no step puts in doubt.
PlainTypes ==
  /\ aiRun \in SUBSET Msgs
  /\ paused \in BOOLEAN /\ blocked \in BOOLEAN /\ curator \in BOOLEAN
  /\ dropped \in SUBSET Tasks /\ rowLock \in Tasks \cup {Panel, NoOne}
  /\ panel \in {"idle", "sending"} /\ seen \in {"none", "active", "paused"}
  /\ echo \in SUBSET PartId /\ vkReplies \in Nat /\ takenOver \in BOOLEAN
  /\ acts \in 0..MaxHuman /\ crashes \in 0..MaxCrashes

\* Why the lock excludes: whoever is in a turn is the first in the queue.
LockInv == \A t \in Tasks : pc[t] \in InTurn => lockQ # <<>> /\ Head(lockQ) = t

-----------------------------------------------------------------------------
(* Types *)

\* FailFrom changes marks only, not how many there are.
LEMMA FailFromType ==
  ASSUME NEW marks \in Seq(Mark), NEW i \in Nat
  PROVE  FailFrom(marks, i) \in Seq(Mark) /\ Len(FailFrom(marks, i)) = Len(marks)
BY DEF FailFrom, Mark

LEMMA InitTypeInv == Init => TypeInv
<1> SUFFICES ASSUME Init PROVE TypeInv
  OBVIOUS
<1> USE DEF Init
<1>1. my \in [Tasks -> Local] /\ pc \in [Tasks -> Steps]
  BY Constants DEF Local, Steps, Outcome
<1>2. part \in [Tasks -> Seq(Mark)]
  OBVIOUS
<1>3. inbox \in Seq(Msgs) /\ lockQ \in Seq(Tasks) /\ wire \in Seq(PartId)
  OBVIOUS
<1>4. acts \in 0..MaxHuman /\ crashes \in 0..MaxCrashes /\ vkReplies \in Nat
  BY Constants
<1>5. TypeOK
  BY <1>1, <1>2, <1>3, <1>4 DEF TypeOK
<1>6. \A t \in Tasks : pc[t] = "idle" /\ Len(part[t]) = 0 /\ my[t].next = 1
  OBVIOUS
<1>7. PartsInv
  <2> HIDE DEF Init
  <2> SUFFICES ASSUME NEW t \in Tasks
               PROVE  /\ Len(part[t]) <= MaxParts
                      /\ pc[t] = "idle" /\ my[t].next = 1
    BY DEF PartsInv, PartsOf, BeforeDelivery, Delivering
  <2> QED
    BY <1>6, Constants
<1> QED
  BY <1>5, <1>7 DEF TypeInv

\* What the handlers assign to their local variables.
LEMMA LocalFields ==
  ASSUME NEW r \in Local
  PROVE  /\ \A b \in BOOLEAN : [r EXCEPT !.unblock = b] \in Local
         /\ \A b, g \in BOOLEAN : [r EXCEPT !.greet = g, !.blocked = b] \in Local
         /\ \A o \in Outcome : [r EXCEPT !.outcome = o] \in Local
         /\ \A m \in Msgs : [r EXCEPT !.msg = m] \in Local
         /\ \A n \in 1..(MaxParts + 1) : [r EXCEPT !.next = n] \in Local
<1>1. ASSUME NEW b \in BOOLEAN PROVE [r EXCEPT !.unblock = b] \in Local
  BY DEF Local
<1>2. ASSUME NEW b \in BOOLEAN, NEW g \in BOOLEAN
      PROVE  [r EXCEPT !.greet = g, !.blocked = b] \in Local
  BY DEF Local
<1>3. ASSUME NEW o \in Outcome PROVE [r EXCEPT !.outcome = o] \in Local
  BY DEF Local
<1>4. ASSUME NEW m \in Msgs PROVE [r EXCEPT !.msg = m] \in Local
  BY DEF Local
<1>5. ASSUME NEW n \in 1..(MaxParts + 1) PROVE [r EXCEPT !.next = n] \in Local
  BY DEF Local
<1> QED
  BY <1>1, <1>2, <1>3, <1>4, <1>5

LEMMA PrepareTypeInv ==
  ASSUME TypeInv, NEW t \in Tasks, Prepare(t)
  PROVE  TypeInv'
<1> USE Constants DEF TypeInv, TypeOK, PartsInv, PartsOf, Steps, BeforeDelivery, Delivering,
          Goto, database, memory, outside
<1>1. CASE Lookup(t)
  <2>1. my' \in [Tasks -> Local]
    BY <1>1, LocalFields DEF Lookup
  <2>2. \A u \in Tasks : my'[u].msg = my[u].msg /\ my'[u].next = my[u].next
    BY <1>1 DEF Lookup, Local
  <2>3. pc' \in [Tasks -> Steps] /\ \A u \in Tasks \ {t} : pc'[u] = pc[u]
    BY <1>1 DEF Lookup
  <2> QED
    BY <1>1, <2>1, <2>2, <2>3 DEF Lookup
<1>2. CASE CommitSkip(t)
  BY <1>2 DEF CommitSkip, Unblocked
<1>3. CASE CommitReprocess(t)
  BY <1>3 DEF CommitReprocess, Unblocked
<1>4. CASE Store(t)
  <2>1. my[t].msg \in Msgs
    BY <1>4 DEF Store
  <2>2. inbox' \in Seq(Msgs)
    <3>1. Append(inbox, my[t].msg) \in Seq(Msgs)
      BY <2>1
    <3> QED
      BY <1>4, <3>1 DEF Store
  <2>7. blocked' \in BOOLEAN
    BY <1>4 DEF Store, Unblocked
  <2>3. pc' \in [Tasks -> Steps] /\ \A u \in Tasks : pc'[u] # pc[u] => u = t /\ pc'[t] \in {"done", "enter"}
    BY <1>4 DEF Store
  <2>4. UNCHANGED <<aiRun, paused, curator, part, dropped, rowLock, my, memory, outside>>
    BY <1>4 DEF Store
  <2>5. TypeOK'
    BY <2>2, <2>3, <2>4, <2>7
  <2>6. PartsInv'
    BY <2>1, <2>3, <2>4, <1>4 DEF Store
  <2> QED
    BY <2>5, <2>6
<1>5. CASE Enter(t)
  BY <1>5 DEF Enter
<1> QED
  BY <1>1, <1>2, <1>3, <1>4, <1>5 DEF Prepare

\* Leaving the lock: the queue stays a sequence of handlers, the marks may change.
LEMMA ReleaseKeeps ==
  ASSUME TypeInv, LockInv, NEW t \in Tasks, Release(t),
         pc[t] \in InTurn \/ (lockQ # <<>> /\ Head(lockQ) = t)
  PROVE  /\ pc' \in [Tasks -> Steps]
         /\ pc'[t] = "done" /\ \A u \in Tasks \ {t} : pc'[u] = pc[u]
         /\ lockQ' \in Seq(Tasks)
         /\ LockInv'
<1>1. lockQ \in Seq(Tasks) /\ lockQ # <<>> /\ Head(lockQ) = t
  BY DEF LockInv, TypeInv, TypeOK
<1>2. pc' \in [Tasks -> Steps] /\ pc'[t] = "done" /\ \A u \in Tasks \ {t} : pc'[u] = pc[u]
  BY DEF Release, Goto, Steps, TypeInv, TypeOK
<1>3. lockQ' \in Seq(Tasks)
  BY <1>1 DEF Release
<1>4. \A u \in Tasks : pc'[u] \notin InTurn
  BY <1>1, <1>2 DEF LockInv, InTurn
<1> QED
  BY <1>2, <1>3, <1>4 DEF LockInv

\* A step of one handler that leaves the lock's queue alone.
LEMMA MoveLockInv ==
  ASSUME TypeInv, LockInv, NEW t \in Tasks, NEW step \in Steps, Goto(t, step),
         UNCHANGED lockQ,
         step \in InTurn => pc[t] \in InTurn \/ (lockQ # <<>> /\ Head(lockQ) = t)
  PROVE  /\ pc' \in [Tasks -> Steps]
         /\ pc'[t] = step /\ \A u \in Tasks \ {t} : pc'[u] = pc[u]
         /\ LockInv'
BY DEF TypeInv, TypeOK, LockInv, Goto

\* A step of handler t is judged by what it does to t's own part of the state.
LEMMA OneHandlerMoves ==
  ASSUME TypeInv, NEW t \in Tasks,
         \A u \in Tasks \ {t} : pc'[u] = pc[u] /\ my'[u] = my[u] /\ part'[u] = part[u],
         pc' \in [Tasks -> Steps], my' \in [Tasks -> Local], part' \in [Tasks -> Seq(Mark)],
         inbox' \in Seq(Msgs), lockQ' \in Seq(Tasks), wire' \in Seq(PartId),
         ownIds' \in SUBSET PartId, PlainTypes', PartsOf(t)'
  PROVE  TypeInv'
<1>1. ASSUME NEW u \in Tasks, u # t PROVE PartsOf(u)'
  <2>1. PartsOf(u)
    BY DEF TypeInv, PartsInv
  <2>2. pc'[u] = pc[u] /\ my'[u] = my[u] /\ part'[u] = part[u]
    BY <1>1
  <2> QED
    BY <2>1, <2>2 DEF PartsOf
<1>2. PartsInv'
  BY <1>1 DEF PartsInv
<1>3. TypeOK'
  BY DEF TypeOK, PlainTypes
<1> QED
  BY <1>2, <1>3 DEF TypeInv

\* Leaving the turn: only the marks of the reply and the run's outcome may change.
LEMMA LeaveTurn ==
  ASSUME TypeInv, LockInv, NEW t \in Tasks, Release(t),
         pc[t] \in InTurn \/ (pc[t] = "wait" /\ lockQ # <<>> /\ Head(lockQ) = t),
         my' \in [Tasks -> Local], my'[t].msg = my[t].msg,
         part' \in [Tasks -> Seq(Mark)], Len(part'[t]) = Len(part[t]),
         \A u \in Tasks \ {t} : my'[u] = my[u] /\ part'[u] = part[u],
         UNCHANGED <<inbox, wire, ownIds>>, PlainTypes'
  PROVE  TypeInv' /\ LockInv'
<1>1. /\ pc' \in [Tasks -> Steps] /\ pc'[t] = "done" /\ \A u \in Tasks \ {t} : pc'[u] = pc[u]
      /\ lockQ' \in Seq(Tasks) /\ LockInv'
  BY ReleaseKeeps
<1>2. PartsOf(t) /\ pc[t] # "idle"
  BY DEF TypeInv, PartsInv, InTurn
<1>3. PartsOf(t)'
  BY <1>1, <1>2 DEF PartsOf, BeforeDelivery, Delivering
<1>4. inbox' \in Seq(Msgs) /\ wire' \in Seq(PartId) /\ ownIds' \in SUBSET PartId
  BY DEF TypeInv, TypeOK
<1> QED
  BY <1>1, <1>3, <1>4, OneHandlerMoves

\* A step from one place in the turn to another.
LEMMA StayInTurn ==
  ASSUME TypeInv, LockInv, NEW t \in Tasks, NEW step \in InTurn, Goto(t, step),
         pc[t] \in InTurn \/ (pc[t] = "wait" /\ lockQ # <<>> /\ Head(lockQ) = t),
         my' \in [Tasks -> Local], part' \in [Tasks -> Seq(Mark)],
         \A u \in Tasks \ {t} : my'[u] = my[u] /\ part'[u] = part[u],
         UNCHANGED <<inbox, lockQ>>, wire' \in Seq(PartId), ownIds' \in SUBSET PartId,
         PlainTypes',
         my'[t].msg = my[t].msg, Len(part'[t]) <= MaxParts,
         step \in BeforeDelivery => my'[t].next = 1,
         step \in Delivering => my'[t].next <= Len(part'[t])
  PROVE  TypeInv' /\ LockInv'
<1>1. /\ pc' \in [Tasks -> Steps] /\ pc'[t] = step /\ \A u \in Tasks \ {t} : pc'[u] = pc[u]
      /\ LockInv'
  BY MoveLockInv DEF InTurn, Steps
<1>2. PartsOf(t) /\ pc[t] # "idle"
  BY DEF TypeInv, PartsInv, InTurn
<1>3. PartsOf(t)'
  BY <1>1, <1>2 DEF PartsOf
<1>4. inbox' \in Seq(Msgs) /\ lockQ' \in Seq(Tasks)
  BY DEF TypeInv, TypeOK
<1> QED
  BY <1>1, <1>3, <1>4, OneHandlerMoves

\* The turn up to the decision to send.
LEMMA RunTurnInv ==
  ASSUME TypeInv, LockInv, NEW t \in Tasks, RunTurn(t)
  PROVE  TypeInv' /\ LockInv'
<1> USE DEF database, memory, outside
<1>a. /\ PlainTypes /\ inbox \in Seq(Msgs) /\ wire \in Seq(PartId)
      /\ ownIds \in SUBSET PartId /\ lockQ \in Seq(Tasks)
  BY DEF TypeInv, TypeOK, PlainTypes
<1>b. /\ my \in [Tasks -> Local] /\ part \in [Tasks -> Seq(Mark)] /\ pc \in [Tasks -> Steps]
      /\ PartsOf(t)
  BY DEF TypeInv, TypeOK, PartsInv
<1>1. CASE Acquire(t)
  <2>1. /\ pc[t] = "wait" /\ lockQ # <<>> /\ Head(lockQ) = t
        /\ UNCHANGED <<database, rowLock, my, ownIds, panel, seen, outside>>
    BY <1>1 DEF Acquire
  <2>2. PlainTypes'
    BY <1>a, <2>1 DEF PlainTypes
  <2>3. CASE Release(t)
    BY <1>b, <2>1, <2>2, <2>3, LeaveTurn
  <2>4. CASE Goto(t, "grace") /\ UNCHANGED lockQ
    BY <1>a, <1>b, <2>1, <2>2, <2>4, StayInTurn
    DEF PartsOf, InTurn, BeforeDelivery, Delivering
  <2> QED
    BY <1>1, <2>3, <2>4 DEF Acquire
<1>2. CASE Yield(t)
  <2>1. /\ pc[t] \in InTurn /\ Release(t)
        /\ UNCHANGED <<database, rowLock, my, ownIds, panel, seen, outside>>
    BY <1>2 DEF Yield, InTurn
  <2>2. PlainTypes'
    BY <1>a, <2>1 DEF PlainTypes
  <2> QED
    BY <1>b, <2>1, <2>2, LeaveTurn
<1>3. CASE ChangeStage(t)
  <2>1. /\ pc[t] = "run" /\ Goto(t, "model")
        /\ UNCHANGED <<database, my, memory, outside>> /\ rowLock' = t
    BY <1>3 DEF ChangeStage
  <2>2. PlainTypes'
    BY <1>a, <2>1 DEF PlainTypes
  <2> QED
    BY <1>a, <1>b, <2>1, <2>2, StayInTurn DEF PartsOf, InTurn, BeforeDelivery, Delivering
<1>4. CASE FailRun(t)
  <2>1. /\ pc[t] \in InTurn /\ my[t].msg \in Msgs /\ Release(t)
        /\ UNCHANGED <<inbox, paused, blocked, curator, part, dropped, ownIds, panel, seen, outside>>
    BY <1>b, <1>4 DEF FailRun, Running, InTurn, PartsOf
  <2>2. my' \in [Tasks -> Local] /\ my'[t].msg = my[t].msg
        /\ \A u \in Tasks \ {t} : my'[u] = my[u]
    <3>1. my' = [my EXCEPT ![t] = [my[t] EXCEPT !.outcome = "failed"]]
      BY <1>4 DEF FailRun
    <3>2. [my[t] EXCEPT !.outcome = "failed"] \in Local
      BY <1>b, LocalFields DEF Outcome
    <3> QED
      BY <1>b, <3>1, <3>2 DEF Local
  <2>3. PlainTypes'
    BY <1>a, <1>4, <2>1 DEF PlainTypes, FailRun
  <2> QED
    BY <1>b, <2>1, <2>2, <2>3, LeaveTurn
<1>5. ASSUME NEW greet \in BOOLEAN, StartRun(t, greet) PROVE TypeInv' /\ LockInv'
  <2>1. /\ pc[t] = "grace" /\ Goto(t, "run")
        /\ UNCHANGED <<database, rowLock, memory, outside>>
    BY <1>5 DEF StartRun
  <2>2. PlainTypes'
    BY <1>a, <2>1 DEF PlainTypes
  <2>3. /\ my' \in [Tasks -> Local] /\ my'[t].msg = my[t].msg /\ my'[t].next = my[t].next
        /\ \A u \in Tasks \ {t} : my'[u] = my[u]
    <3>1. my' = [my EXCEPT ![t] = [my[t] EXCEPT !.greet = greet, !.blocked = blocked]]
      BY <1>5 DEF StartRun
    <3>2. [my[t] EXCEPT !.greet = greet, !.blocked = blocked] \in Local
      BY <1>a, <1>b, LocalFields DEF PlainTypes
    <3> QED
      BY <1>b, <3>1, <3>2 DEF Local
  <2> QED
    BY <1>a, <1>b, <2>1, <2>2, <2>3, StayInTurn DEF PartsOf, InTurn, BeforeDelivery, Delivering
<1>6. ASSUME NEW n \in 0..MaxParts, NEW leftOut \in BOOLEAN, NEW pause \in BOOLEAN,
             NEW outcome \in {"reply", "held"}, CommitRun(t, n, leftOut, outcome, pause)
      PROVE  TypeInv' /\ LockInv'
  <2>1. /\ pc[t] \in InTurn /\ my[t].msg \in Msgs /\ my[t].next = 1 /\ Goto(t, "check")
        /\ UNCHANGED <<inbox, blocked, curator, memory, outside>>
    BY <1>b, <1>6 DEF CommitRun, Running, InTurn, PartsOf, BeforeDelivery
  <2>2. PlainTypes'
    BY <1>a, <1>6, <2>1 DEF PlainTypes, CommitRun, PausedAfter
  <2>3. /\ my' \in [Tasks -> Local] /\ my'[t].msg = my[t].msg /\ my'[t].next = my[t].next
        /\ \A u \in Tasks \ {t} : my'[u] = my[u]
    <3>1. my' = [my EXCEPT ![t] = [my[t] EXCEPT !.outcome = outcome]]
      BY <1>6 DEF CommitRun
    <3>2. [my[t] EXCEPT !.outcome = outcome] \in Local
      BY <1>b, LocalFields DEF Outcome
    <3> QED
      BY <1>b, <3>1, <3>2 DEF Local
  <2>4. /\ part' \in [Tasks -> Seq(Mark)] /\ Len(part'[t]) = n
        /\ \A u \in Tasks \ {t} : part'[u] = part[u]
    <3>1. [i \in 1..n |-> "saved"] \in Seq(Mark) /\ Len([i \in 1..n |-> "saved"]) = n
      BY Constants DEF Mark
    <3> QED
      BY <1>b, <1>6, <3>1 DEF CommitRun
  <2>5. wire' \in Seq(PartId) /\ ownIds' \in SUBSET PartId /\ UNCHANGED <<inbox, lockQ>>
    BY <1>a, <2>1
  <2>6. Len(part'[t]) <= MaxParts
    BY <2>4, Constants
  <2>7. "check" \in InTurn /\ "check" \notin Delivering
    BY DEF InTurn, Delivering
  <2> QED
    BY <2>1, <2>2, <2>3, <2>4, <2>5, <2>6, <2>7, StayInTurn
<1>7. CASE Withdraw(t)
  <2>1. /\ pc[t] \in InTurn /\ Release(t) /\ part' = [part EXCEPT ![t] = FailFrom(@, 1)]
        /\ UNCHANGED <<inbox, aiRun, paused, blocked, curator, dropped, rowLock, my, ownIds, panel, seen, outside>>
    BY <1>7 DEF Withdraw, InTurn
  <2>2. PlainTypes'
    BY <1>a, <2>1 DEF PlainTypes
  <2> QED
    BY <1>b, <2>1, <2>2, LeaveTurn, FailFromType
<1>8. CASE HoldReply(t)
  <2>1. /\ pc[t] \in InTurn /\ Release(t)
        /\ UNCHANGED <<database, rowLock, my, ownIds, panel, seen, outside>>
    BY <1>8 DEF HoldReply, InTurn
  <2>2. PlainTypes'
    BY <1>a, <2>1 DEF PlainTypes
  <2> QED
    BY <1>b, <2>1, <2>2, LeaveTurn
<1>9. CASE GoDeliver(t)
  <2>1. pc[t] = "check" /\ UNCHANGED <<database, rowLock, my, memory, outside>>
    BY <1>9 DEF GoDeliver
  <2>2. PlainTypes'
    BY <1>a, <2>1 DEF PlainTypes
  <2>3. CASE part[t] = <<>>
    <3>1. Goto(t, "finish")
      BY <1>9, <2>3 DEF GoDeliver
    <3> QED
      BY <1>a, <1>b, <2>1, <2>2, <3>1, StayInTurn DEF PartsOf, InTurn, BeforeDelivery, Delivering
  <2>4. CASE part[t] # <<>>
    <3>1. Goto(t, "deliver")
      BY <1>9, <2>4 DEF GoDeliver
    <3>2. my[t].next <= Len(part[t])
      BY <1>b, <2>1, <2>4 DEF PartsOf, BeforeDelivery
    <3> QED
      BY <1>a, <1>b, <2>1, <2>2, <3>1, <3>2, StayInTurn
      DEF PartsOf, InTurn, BeforeDelivery, Delivering
  <2> QED
    BY <2>3, <2>4
<1> QED
  BY <1>1, <1>2, <1>3, <1>4, <1>5, <1>6, <1>7, <1>8, <1>9 DEF RunTurn

\* Before the lock no step touches a turn; asking for the lock keeps its head.
LEMMA PrepareLockInv ==
  ASSUME TypeInv, LockInv, NEW t \in Tasks, Prepare(t)
  PROVE  LockInv'
<1>1. \E step \in Steps \ InTurn : Goto(t, step)
  BY DEF Prepare, Lookup, CommitSkip, CommitReprocess, Store, Enter, Steps, InTurn
<1>2. UNCHANGED lockQ \/ lockQ' = Append(lockQ, t)
  BY DEF Prepare, Lookup, CommitSkip, CommitReprocess, Store, Enter, memory
<1>3. lockQ # <<>> => lockQ' # <<>> /\ Head(lockQ') = Head(lockQ)
  <2>1. lockQ \in Seq(Tasks)
    BY DEF TypeInv, TypeOK
  <2>2. ASSUME lockQ # <<>>
        PROVE  Append(lockQ, t) # <<>> /\ Head(Append(lockQ, t)) = Head(lockQ)
    <3>1. Len(lockQ) > 0
      BY <2>1, <2>2
    <3>2. Append(lockQ, t)[1] = lockQ[1] /\ Len(Append(lockQ, t)) > 0
      BY <2>1, <3>1
    <3> QED
      BY <2>1, <3>1, <3>2
  <2> QED
    BY <1>2, <2>2
<1>4. \A u \in Tasks : pc'[u] \in InTurn => pc[u] \in InTurn
  <2>1. PICK step \in Steps \ InTurn : pc' = [pc EXCEPT ![t] = step]
    BY <1>1 DEF Goto
  <2> QED
    BY <2>1 DEF TypeInv, TypeOK
<1> QED
  BY <1>3, <1>4 DEF LockInv

\* The sending of the parts.
LEMMA DeliverPartsInv ==
  ASSUME TypeInv, LockInv, NEW t \in Tasks, DeliverParts(t)
  PROVE  TypeInv' /\ LockInv'
<1> USE DEF database, memory, outside
<1>a. /\ PlainTypes /\ inbox \in Seq(Msgs) /\ wire \in Seq(PartId)
      /\ ownIds \in SUBSET PartId /\ lockQ \in Seq(Tasks)
  BY DEF TypeInv, TypeOK, PlainTypes
<1>b. /\ my \in [Tasks -> Local] /\ part \in [Tasks -> Seq(Mark)] /\ pc \in [Tasks -> Steps]
      /\ PartsOf(t)
  BY DEF TypeInv, TypeOK, PartsInv
<1>c. my[t].next \in 1..(MaxParts + 1) /\ part[t] \in Seq(Mark)
  BY <1>b DEF Local
<1>d. ASSUME pc[t] \in Delivering
      PROVE  /\ ThisPart(t) \in PartId /\ my[t].next \in DOMAIN part[t]
             /\ pc[t] \in InTurn
  BY <1>b, <1>c, <1>d, Constants DEF PartsOf, ThisPart, PartId, Delivering, InTurn
<1>e. ASSUME NEW mark \in Mark, pc[t] \in Delivering,
             part' = [part EXCEPT ![t][my[t].next] = mark], NextPart(t),
             UNCHANGED <<inbox, lockQ, wire, ownIds>>, PlainTypes'
      PROVE  TypeInv' /\ LockInv'
  <2>1. /\ part' \in [Tasks -> Seq(Mark)] /\ Len(part'[t]) = Len(part[t])
        /\ \A u \in Tasks \ {t} : part'[u] = part[u]
    <3>1. part' = [part EXCEPT ![t] = [part[t] EXCEPT ![my[t].next] = mark]]
      BY <1>e
    <3>2. /\ [part[t] EXCEPT ![my[t].next] = mark] \in Seq(Mark)
          /\ Len([part[t] EXCEPT ![my[t].next] = mark]) = Len(part[t])
      BY <1>c, <1>d, <1>e
    <3> QED
      BY <1>b, <3>1, <3>2
  <2>2. /\ my' \in [Tasks -> Local] /\ my'[t].msg = my[t].msg /\ my'[t].next = my[t].next + 1
        /\ \A u \in Tasks \ {t} : my'[u] = my[u]
    <3>1. my' = [my EXCEPT ![t] = [my[t] EXCEPT !.next = my[t].next + 1]]
      BY <1>e DEF NextPart
    <3>2. my[t].next + 1 \in 1..(MaxParts + 1)
      BY <1>b, <1>c, <1>e, Constants DEF PartsOf
    <3>3. [my[t] EXCEPT !.next = my[t].next + 1] \in Local
      BY <1>b, <3>2, LocalFields
    <3> QED
      BY <1>b, <3>1, <3>3 DEF Local
  <2>3. Len(part'[t]) <= MaxParts
    BY <1>b, <2>1 DEF PartsOf
  <2>4. wire' \in Seq(PartId) /\ ownIds' \in SUBSET PartId
    BY <1>a, <1>e
  <2>5. CASE my[t].next = Len(part[t])
    <3>1. Goto(t, "finish")
      BY <1>e, <2>5 DEF NextPart
    <3>2. "finish" \in InTurn /\ "finish" \notin BeforeDelivery \cup Delivering
      BY DEF InTurn, BeforeDelivery, Delivering
    <3> QED
      BY <1>d, <1>e, <2>1, <2>2, <2>3, <2>4, <3>1, <3>2, StayInTurn
  <2>6. CASE my[t].next # Len(part[t])
    <3>1. Goto(t, "deliver")
      BY <1>e, <2>6 DEF NextPart
    <3>2. "deliver" \in InTurn /\ "deliver" \notin BeforeDelivery
      BY DEF InTurn, BeforeDelivery
    <3>3. my'[t].next <= Len(part'[t])
      BY <1>b, <1>c, <1>e, <2>1, <2>2, <2>6 DEF PartsOf
    <3> QED
      BY <1>d, <1>e, <2>1, <2>2, <2>3, <2>4, <3>1, <3>2, <3>3, StayInTurn
  <2> QED
    BY <2>5, <2>6
<1>f. ASSUME part' = [part EXCEPT ![t] = FailFrom(part[t], my[t].next)]
      PROVE  /\ part' \in [Tasks -> Seq(Mark)] /\ Len(part'[t]) = Len(part[t])
             /\ \A u \in Tasks \ {t} : part'[u] = part[u]
  <2>1. /\ FailFrom(part[t], my[t].next) \in Seq(Mark)
        /\ Len(FailFrom(part[t], my[t].next)) = Len(part[t])
    BY <1>c, FailFromType
  <2> QED
    BY <1>b, <1>f, <2>1
<1>1. CASE SkipEmpty(t)
  <2>1. /\ pc[t] \in Delivering /\ NextPart(t)
        /\ part' = [part EXCEPT ![t][my[t].next] = "failed"]
        /\ UNCHANGED <<inbox, aiRun, paused, blocked, curator, dropped, rowLock, memory, outside>>
    BY <1>1 DEF SkipEmpty, Delivering
  <2>2. PlainTypes' /\ "failed" \in Mark
    BY <1>a, <2>1 DEF PlainTypes, Mark
  <2> QED
    BY <1>e, <2>1, <2>2
<1>2. CASE SendBlocked(t)
  <2>1. /\ pc[t] \in InTurn /\ Release(t)
        /\ part' = [part EXCEPT ![t] = FailFrom(part[t], my[t].next)]
        /\ UNCHANGED <<inbox, aiRun, paused, blocked, curator, dropped, rowLock, my, ownIds, panel, seen, outside>>
    BY <1>b, <1>2 DEF SendBlocked, InTurn
  <2>2. PlainTypes'
    BY <1>a, <2>1 DEF PlainTypes
  <2> QED
    BY <1>b, <1>f, <2>1, <2>2, LeaveTurn
<1>3. CASE Send(t)
  <2>1. /\ pc[t] \in Delivering /\ Goto(t, "sending") /\ ownIds' = ownIds \cup {ThisPart(t)}
        /\ UNCHANGED <<database, rowLock, my, lockQ, panel, seen, outside>>
    BY <1>3 DEF Send, Delivering
  <2>2. PlainTypes'
    BY <1>a, <2>1 DEF PlainTypes
  <2>3. ownIds' \in SUBSET PartId /\ wire' \in Seq(PartId)
    BY <1>a, <1>d, <2>1
  <2>4. "sending" \in InTurn /\ "sending" \notin BeforeDelivery
    BY DEF InTurn, BeforeDelivery
  <2> QED
    BY <1>b, <1>d, <2>1, <2>2, <2>3, <2>4, StayInTurn DEF PartsOf
<1>4. CASE VkAccepts(t)
  <2>1. /\ pc[t] \in Delivering /\ Goto(t, "taken")
        /\ wire' = Append(wire, ThisPart(t)) /\ echo' = echo \cup {ThisPart(t)}
        /\ UNCHANGED <<database, rowLock, my, memory, vkReplies, takenOver, acts, crashes>>
    BY <1>4 DEF VkAccepts, Delivering
  <2>2. PlainTypes'
    BY <1>a, <1>d, <2>1 DEF PlainTypes
  <2>3. ownIds' \in SUBSET PartId /\ wire' \in Seq(PartId)
    BY <1>a, <1>d, <2>1
  <2>4. "taken" \in InTurn /\ "taken" \notin BeforeDelivery
    BY DEF InTurn, BeforeDelivery
  <2> QED
    BY <1>b, <1>d, <2>1, <2>2, <2>3, <2>4, StayInTurn DEF PartsOf
<1>5. CASE VkForbids(t)
  <2>1. /\ pc[t] \in InTurn /\ Release(t) /\ blocked' = TRUE
        /\ part' = [part EXCEPT ![t] = FailFrom(part[t], my[t].next)]
        /\ UNCHANGED <<inbox, aiRun, paused, curator, dropped, rowLock, my, ownIds, panel, seen, outside>>
    BY <1>b, <1>5 DEF VkForbids, InTurn
  <2>2. PlainTypes'
    BY <1>a, <2>1 DEF PlainTypes
  <2> QED
    BY <1>b, <1>f, <2>1, <2>2, LeaveTurn
<1>6. CASE SendFails(t)
  <2>1. /\ pc[t] \in Delivering /\ Goto(t, "finish")
        /\ part' = [part EXCEPT ![t] = FailFrom(part[t], my[t].next)]
        /\ UNCHANGED <<inbox, aiRun, paused, blocked, curator, dropped, rowLock, my, memory, outside>>
    BY <1>b, <1>6 DEF SendFails, Delivering
  <2>2. PlainTypes'
    BY <1>a, <2>1 DEF PlainTypes
  <2>3. "finish" \in InTurn /\ "finish" \notin BeforeDelivery \cup Delivering
    BY DEF InTurn, BeforeDelivery, Delivering
  <2> QED
    BY <1>a, <1>b, <1>d, <1>f, <2>1, <2>2, <2>3, StayInTurn DEF PartsOf
<1>7. CASE MarkDelivered(t)
  <2>1. /\ pc[t] \in Delivering /\ NextPart(t)
        /\ part' = [part EXCEPT ![t][my[t].next] = "delivered"]
        /\ UNCHANGED <<inbox, aiRun, paused, blocked, curator, dropped, rowLock, memory, outside>>
    BY <1>7 DEF MarkDelivered, Delivering
  <2>2. PlainTypes' /\ "delivered" \in Mark
    BY <1>a, <2>1 DEF PlainTypes, Mark
  <2> QED
    BY <1>e, <2>1, <2>2
<1>8. CASE Finish(t)
  <2>1. /\ pc[t] \in InTurn /\ Release(t)
        /\ UNCHANGED <<database, rowLock, my, ownIds, panel, seen, outside>>
    BY <1>8 DEF Finish, InTurn
  <2>2. PlainTypes'
    BY <1>a, <2>1 DEF PlainTypes
  <2> QED
    BY <1>b, <2>1, <2>2, LeaveTurn
<1> QED
  BY <1>1, <1>2, <1>3, <1>4, <1>5, <1>6, <1>7, <1>8 DEF DeliverParts

\* The handler of message_reply, the people and a restart do not disturb it either.
LEMMA OthersInv ==
  ASSUME TypeInv, LockInv, Replies \/ Environment
  PROVE  TypeInv' /\ LockInv'
<1> USE DEF database, memory, outside
<1>a. /\ PlainTypes /\ inbox \in Seq(Msgs) /\ wire \in Seq(PartId)
      /\ ownIds \in SUBSET PartId /\ lockQ \in Seq(Tasks)
      /\ my \in [Tasks -> Local] /\ part \in [Tasks -> Seq(Mark)] /\ pc \in [Tasks -> Steps]
  BY DEF TypeInv, TypeOK, PlainTypes
<1>b. ASSUME UNCHANGED <<inbox, part, pc, my, lockQ, ownIds, wire>>, PlainTypes'
      PROVE  TypeInv' /\ LockInv'
  <2>1. TypeOK'
    BY <1>a, <1>b DEF TypeOK, PlainTypes
  <2>2. PartsInv'
    BY <1>b DEF TypeInv, PartsInv, PartsOf
  <2>3. LockInv'
    BY <1>b DEF LockInv
  <2> QED
    BY <2>1, <2>2, <2>3 DEF TypeInv
<1>1. ASSUME NEW p \in PartId, EchoOfOurs(p) PROVE TypeInv' /\ LockInv'
  BY <1>a, <1>b, <1>1 DEF EchoOfOurs, PlainTypes
<1>2. ASSUME NEW broadcast \in BOOLEAN, HumanReplyStored(broadcast) PROVE TypeInv' /\ LockInv'
  BY <1>a, <1>b, <1>2 DEF HumanReplyStored, PlainTypes
<1>h. CASE HumanReplyRead
  BY <1>a, <1>b, <1>h DEF HumanReplyRead, PlainTypes
<1>3. ASSUME NEW forbidden \in BOOLEAN, PanelReplied(forbidden) PROVE TypeInv' /\ LockInv'
  BY <1>a, <1>b, <1>3 DEF PanelReplied, PlainTypes
<1>4. CASE HumanWritesInVk
  BY <1>a, <1>b, <1>4, Constants DEF HumanWritesInVk, PlainTypes
<1>5. CASE PanelReply
  BY <1>a, <1>b, <1>5, Constants DEF PanelReply, PlainTypes
<1>6. ASSUME NEW value \in BOOLEAN, SetAiPause(value) PROVE TypeInv' /\ LockInv'
  BY <1>a, <1>b, <1>6, Constants DEF SetAiPause, PlainTypes
<1>7. ASSUME NEW t \in Tasks, NEW m \in Msgs, Deliver(t, m) PROVE TypeInv' /\ LockInv'
  <2>1. /\ pc[t] = "idle" /\ Goto(t, "lookup")
        /\ UNCHANGED <<database, rowLock, memory, outside>>
    BY <1>7 DEF Deliver
  <2>2. /\ my' \in [Tasks -> Local] /\ my'[t].msg = m /\ my'[t].next = my[t].next
        /\ \A u \in Tasks \ {t} : my'[u] = my[u]
    <3>1. my' = [my EXCEPT ![t] = [my[t] EXCEPT !.msg = m]]
      BY <1>7 DEF Deliver
    <3>2. [my[t] EXCEPT !.msg = m] \in Local
      BY <1>a, LocalFields
    <3> QED
      BY <1>a, <3>1, <3>2 DEF Local
  <2>3. /\ pc' \in [Tasks -> Steps] /\ pc'[t] = "lookup" /\ \A u \in Tasks \ {t} : pc'[u] = pc[u]
        /\ LockInv'
    BY <2>1, MoveLockInv DEF Steps, InTurn
  <2>4. PlainTypes'
    BY <1>a, <2>1 DEF PlainTypes
  <2>5. PartsOf(t)'
    <3>1. PartsOf(t)
      BY DEF TypeInv, PartsInv
    <3> QED
      BY <2>1, <2>2, <2>3, <3>1 DEF PartsOf, BeforeDelivery, Delivering
  <2> QED
    BY <1>a, <2>1, <2>2, <2>3, <2>4, <2>5, OneHandlerMoves
<1>8. CASE Crash
  <2>1. /\ pc' = [t \in Tasks |-> IF pc[t] = "idle" THEN "idle" ELSE "done"]
        /\ lockQ' = <<>> /\ ownIds' = {} /\ panel' = "idle" /\ seen' = "none" /\ rowLock' = NoOne
        /\ crashes' = crashes + 1 /\ crashes < MaxCrashes
        /\ UNCHANGED <<database, my, wire, echo, vkReplies, takenOver, acts>>
    BY <1>8 DEF Crash
  <2>2. PlainTypes'
    BY <1>a, <2>1, Constants DEF PlainTypes
  <2>3. pc' \in [Tasks -> Steps]
    BY <2>1 DEF Steps
  <2>4. TypeOK'
    BY <1>a, <2>1, <2>2, <2>3 DEF TypeOK, PlainTypes
  <2>5. ASSUME NEW t \in Tasks PROVE PartsOf(t)' /\ pc'[t] \notin InTurn
    <3>1. PartsOf(t)
      BY DEF TypeInv, PartsInv
    <3>2. pc'[t] \in {"idle", "done"} /\ (pc'[t] = "idle" <=> pc[t] = "idle")
      BY <2>1
    <3> QED
      BY <2>1, <3>1, <3>2 DEF PartsOf, BeforeDelivery, Delivering, InTurn
  <2> QED
    BY <2>4, <2>5 DEF TypeInv, PartsInv, LockInv
<1> QED
  BY <1>1, <1>2, <1>3, <1>4, <1>5, <1>6, <1>7, <1>8, <1>h DEF Replies, Environment

LEMMA StutterInv ==
  ASSUME TypeInv, LockInv, UNCHANGED vars
  PROVE  TypeInv' /\ LockInv'
BY DEF TypeInv, TypeOK, PartsInv, PartsOf, LockInv, vars, database, memory, outside

\* The inductive invariant of all that follows.
LEMMA Inductive == Spec => [](TypeInv /\ LockInv)
<1>1. Init => TypeInv /\ LockInv
  BY InitTypeInv DEF Init, LockInv, InTurn
<1>2. TypeInv /\ LockInv /\ [Next]_vars => (TypeInv /\ LockInv)'
  <2> SUFFICES ASSUME TypeInv, LockInv, [Next]_vars PROVE TypeInv' /\ LockInv'
    OBVIOUS
  <2>1. ASSUME NEW t \in Tasks, Handle(t) PROVE TypeInv' /\ LockInv'
    BY <2>1, PrepareTypeInv, PrepareLockInv, RunTurnInv, DeliverPartsInv DEF Handle
  <2>2. CASE Replies \/ Environment
    BY <2>2, OthersInv
  <2>3. CASE UNCHANGED vars
    BY <2>3, StutterInv
  <2> QED
    BY <2>1, <2>2, <2>3 DEF Next
<1> QED
  BY <1>1, <1>2, PTL DEF Spec

-----------------------------------------------------------------------------
(* Theorems *)

\* Type correctness: among others, the index of the next part never leaves the
\* reply while deliver_parts goes through it.
THEOREM Typing == Spec => []TypeOK
BY Inductive, PTL DEF TypeInv

\* dialog_lock keeps the turns of one dialog apart (dialog_lock.py:1-10), for any
\* number of deliveries, people and restarts.
THEOREM TurnsExclude == Spec => []OneTurnAtATime
<1>1. LockInv => OneTurnAtATime
  BY DEF LockInv, OneTurnAtATime
<1> QED
  BY <1>1, Inductive, PTL

\* A pause that a human's takeover has committed is not lost to any commit of a
\* running turn (webhook.py, runner.py and dialogs.py write the same column).
THEOREM TakeoverIsKept == Spec => []TakeoverHolds
<1>1. Init => TakeoverHolds
  BY DEF Init, TakeoverHolds
<1>2. TypeInv /\ TakeoverHolds /\ [Next]_vars => TakeoverHolds'
  <2> SUFFICES ASSUME TypeInv, TakeoverHolds, [Next]_vars PROVE TakeoverHolds'
    OBVIOUS
  <2> USE DEF TakeoverHolds, database, memory, outside
  <2>1. ASSUME NEW t \in Tasks, Prepare(t) PROVE TakeoverHolds'
    BY <2>1 DEF Prepare, Lookup, CommitSkip, CommitReprocess, Store, Enter
  <2>2. ASSUME NEW t \in Tasks, RunTurn(t) PROVE TakeoverHolds'
    <3>1. ASSUME NEW n \in 0..MaxParts, NEW leftOut \in BOOLEAN, NEW pause \in BOOLEAN,
                 NEW outcome \in {"reply", "held"}, CommitRun(t, n, leftOut, outcome, pause)
          PROVE  TakeoverHolds'
      BY <3>1 DEF CommitRun, PausedAfter
    <3> QED
      BY <2>2, <3>1 DEF RunTurn, Acquire, Yield, ChangeStage, FailRun, StartRun, Withdraw,
         HoldReply, GoDeliver
  <2>3. ASSUME NEW t \in Tasks, DeliverParts(t) PROVE TakeoverHolds'
    BY <2>3 DEF DeliverParts, SkipEmpty, SendBlocked, Send, VkAccepts, VkForbids, SendFails,
       MarkDelivered, Finish
  <2>4. CASE Replies
    <3>1. ASSUME NEW p \in PartId, EchoOfOurs(p) PROVE TakeoverHolds'
      <4>1. takenOver' = takenOver /\ (paused' = paused \/ paused' = TRUE)
        BY <3>1 DEF EchoOfOurs
      <4> QED
        BY <4>1
    <3>2. ASSUME NEW broadcast \in BOOLEAN, HumanReplyStored(broadcast) PROVE TakeoverHolds'
      BY <3>2 DEF HumanReplyStored
    <3>3. ASSUME NEW forbidden \in BOOLEAN, PanelReplied(forbidden) PROVE TakeoverHolds'
      BY <3>3 DEF PanelReplied
    <3> QED
      BY <2>4, <3>1, <3>2, <3>3 DEF Replies, HumanReplyRead
  <2>5. CASE Environment
    <3>1. ASSUME NEW value \in BOOLEAN, SetAiPause(value) PROVE TakeoverHolds'
      BY <3>1 DEF SetAiPause
    <3> QED
      BY <2>5, <3>1 DEF Environment, Deliver, HumanWritesInVk, PanelReply, Crash
  <2>6. CASE UNCHANGED vars
    BY <2>6 DEF vars
  <2> QED
    BY <2>1, <2>2, <2>3, <2>4, <2>5, <2>6 DEF Next, Handle
<1>3. Spec => []TypeInv
  BY Inductive, PTL
<1> QED
  BY <1>1, <1>2, <1>3, PTL DEF Spec

\* Why an echo is recognised before its part is marked: the random_id is in memory
\* before VK gets the message.
EchoInv ==
  crashes = 0 =>
    /\ echo \subseteq ownIds
    /\ \A t \in Tasks : pc[t] = "sending" => ThisPart(t) \in ownIds

LEMMA EchoKept ==
  ASSUME TypeInv, EchoInv, NEW t \in Tasks, Handle(t)
  PROVE  EchoInv'
<1> USE DEF database, memory, outside
<1>1. UNCHANGED crashes
  BY DEF Handle, Prepare, RunTurn, DeliverParts, Lookup, CommitSkip, CommitReprocess, Store, Enter,
     Acquire, Yield, ChangeStage, FailRun, StartRun, CommitRun, Withdraw, HoldReply, GoDeliver,
     SkipEmpty, SendBlocked, Send, VkAccepts, VkForbids, SendFails, MarkDelivered, Finish
<1>2. \A u \in Tasks \ {t} : pc'[u] = pc[u] /\ my'[u] = my[u]
  BY DEF Handle, Prepare, RunTurn, DeliverParts, Lookup, CommitSkip, CommitReprocess, Store, Enter,
     Acquire, Yield, ChangeStage, FailRun, StartRun, CommitRun, Withdraw, HoldReply, GoDeliver,
     SkipEmpty, SendBlocked, Send, VkAccepts, VkForbids, SendFails, MarkDelivered, Finish,
     NextPart, Goto, Release, TypeInv, TypeOK
<1>3. CASE Send(t)
  <2>1. ownIds' = ownIds \cup {ThisPart(t)} /\ UNCHANGED <<my, echo>>
    BY <1>3 DEF Send
  <2> QED
    BY <1>1, <1>2, <2>1 DEF EchoInv, ThisPart
<1>4. CASE VkAccepts(t)
  <2>1. /\ pc[t] = "sending" /\ pc'[t] = "taken" /\ echo' = echo \cup {ThisPart(t)}
        /\ UNCHANGED <<my, ownIds>>
    BY <1>4 DEF VkAccepts, Goto, TypeInv, TypeOK
  <2> QED
    BY <1>1, <1>2, <2>1 DEF EchoInv, ThisPart
<1>5. CASE ~Send(t) /\ ~VkAccepts(t)
  <2>1. UNCHANGED <<echo, ownIds>>
    BY <1>5 DEF Handle, Prepare, RunTurn, DeliverParts, Lookup, CommitSkip, CommitReprocess, Store,
     Enter, Acquire, Yield, ChangeStage, FailRun, StartRun, CommitRun, Withdraw, HoldReply,
     GoDeliver, SkipEmpty, SendBlocked, VkForbids, SendFails, MarkDelivered, Finish
  <2>2. pc'[t] # "sending"
    BY <1>5 DEF Handle, Prepare, RunTurn, DeliverParts, Lookup, CommitSkip, CommitReprocess, Store,
     Enter, Acquire, Yield, ChangeStage, FailRun, StartRun, CommitRun, Withdraw, HoldReply,
     GoDeliver, SkipEmpty, SendBlocked, VkForbids, SendFails, MarkDelivered, Finish,
     NextPart, Goto, Release, TypeInv, TypeOK
  <2> QED
    BY <1>1, <1>2, <2>1, <2>2 DEF EchoInv, ThisPart
<1> QED
  BY <1>3, <1>4, <1>5

\* As long as the process lives, nothing we have sent is taken for a human's message
\* (sender.py:224-238, outgoing.py:93-141): a false takeover needs a restart.
THEOREM EchoIsRecognised == Spec => []OwnEchoIsRecognised
<1>1. Init => EchoInv
  BY DEF Init, EchoInv
<1>2. TypeInv /\ EchoInv /\ [Next]_vars => EchoInv'
  <2> SUFFICES ASSUME TypeInv, EchoInv, [Next]_vars PROVE EchoInv'
    OBVIOUS
  <2> USE DEF EchoInv, ThisPart, database, memory, outside
  <2>1. ASSUME NEW t \in Tasks, Handle(t) PROVE EchoInv'
    BY <2>1, EchoKept
  <2>2. CASE Replies
    BY <2>2 DEF Replies, EchoOfOurs, HumanReplyRead, HumanReplyStored, PanelReplied
  <2>3. ASSUME NEW t \in Tasks, NEW m \in Msgs, Deliver(t, m) PROVE EchoInv'
    <3>1. /\ pc'[t] = "lookup" /\ \A u \in Tasks \ {t} : pc'[u] = pc[u] /\ my'[u] = my[u]
      BY <2>3 DEF Deliver, Goto, TypeInv, TypeOK
    <3>2. UNCHANGED <<echo, ownIds, crashes>>
      BY <2>3 DEF Deliver
    <3>3. \A u \in Tasks : pc'[u] = "sending" => pc[u] = "sending" /\ my'[u] = my[u]
      BY <3>1
    <3> QED
      BY <3>2, <3>3
  <2>4. CASE Crash
    BY <2>4 DEF Crash, TypeInv, TypeOK
  <2>5. CASE HumanWritesInVk \/ PanelReply \/ \E value \in BOOLEAN : SetAiPause(value)
    BY <2>5 DEF HumanWritesInVk, PanelReply, SetAiPause
  <2>6. CASE UNCHANGED vars
    BY <2>6 DEF vars
  <2> QED
    BY <2>1, <2>2, <2>3, <2>4, <2>5, <2>6 DEF Next, Environment
<1>3. EchoInv => OwnEchoIsRecognised
  BY DEF EchoInv, OwnEchoIsRecognised, IsOurEcho
<1>4. Spec => []TypeInv
  BY Inductive, PTL
<1> QED
  BY <1>1, <1>2, <1>3, <1>4, PTL DEF Spec
=============================================================================
