------------------------- MODULE DialogOrder_proof -------------------------
(* Theorems about DialogTurn, continued: its lock is the one FairMutex      *)
(* promises, and what reaches the client is whole, in order and honestly    *)
(* marked.                                                                  *)
EXTENDS DialogTurn_proof

-----------------------------------------------------------------------------
(* What a step of a handler does, whatever step it is *)

LEMMA HandlerStep ==
  ASSUME TypeInv, NEW t \in Tasks, Handle(t)
  PROVE  /\ \A u \in Tasks \ {t} : pc'[u] = pc[u] /\ my'[u] = my[u] /\ part'[u] = part[u]
         /\ my'[t].msg = my[t].msg
         /\ UNCHANGED crashes
<1> USE DEF database, memory, outside
<1>1. UNCHANGED crashes
  BY DEF Handle, Prepare, RunTurn, DeliverParts, Lookup, CommitSkip, CommitReprocess, Store, Enter,
     Acquire, Yield, ChangeStage, FailRun, StartRun, CommitRun, Withdraw, HoldReply, GoDeliver,
     SkipEmpty, SendBlocked, Send, VkAccepts, VkForbids, SendFails, MarkDelivered, Finish
<1>2. \A u \in Tasks \ {t} : pc'[u] = pc[u] /\ my'[u] = my[u]
  BY DEF Handle, Prepare, RunTurn, DeliverParts, Lookup, CommitSkip, CommitReprocess, Store, Enter,
     Acquire, Yield, ChangeStage, FailRun, StartRun, CommitRun, Withdraw, HoldReply, GoDeliver,
     SkipEmpty, SendBlocked, Send, VkAccepts, VkForbids, SendFails, MarkDelivered, Finish,
     NextPart, Goto, Release, TypeInv, TypeOK
<1>3. \A u \in Tasks \ {t} : part'[u] = part[u]
  BY DEF Handle, Prepare, RunTurn, DeliverParts, Lookup, CommitSkip, CommitReprocess, Store, Enter,
     Acquire, Yield, ChangeStage, FailRun, StartRun, CommitRun, Withdraw, HoldReply, GoDeliver,
     SkipEmpty, SendBlocked, Send, VkAccepts, VkForbids, SendFails, MarkDelivered, Finish,
     TypeInv, TypeOK
<1>4. my'[t].msg = my[t].msg
  <2>1. my[t] \in Local /\ my \in [Tasks -> Local]
    BY DEF TypeInv, TypeOK
  <2>2. \/ my' = my
        \/ \E b \in BOOLEAN : my' = [my EXCEPT ![t].unblock = b]
        \/ \E g, b \in BOOLEAN : my' = [my EXCEPT ![t].greet = g, ![t].blocked = b]
        \/ \E o \in Outcome : my' = [my EXCEPT ![t].outcome = o]
        \/ my' = [my EXCEPT ![t].next = @ + 1]
    BY DEF Handle, Prepare, RunTurn, DeliverParts, Lookup, CommitSkip, CommitReprocess, Store, Enter,
       Acquire, Yield, ChangeStage, FailRun, StartRun, CommitRun, Withdraw, HoldReply, GoDeliver,
       SkipEmpty, SendBlocked, Send, VkAccepts, VkForbids, SendFails, MarkDelivered, Finish,
       NextPart, Outcome, TypeInv, TypeOK
  <2> QED BY <2>1, <2>2 DEF Local
<1> QED BY <1>1, <1>2, <1>3, <1>4

-----------------------------------------------------------------------------
(* The lock *)

\* Who is in the queue waits for the lock or has it, and nobody is in it twice.
QueueInv ==
  /\ \A i \in DOMAIN lockQ : pc[lockQ[i]] \in InTurn \cup {"wait"}
  /\ \A i, j \in DOMAIN lockQ : lockQ[i] = lockQ[j] => i = j

Inside == {t \in Tasks : pc[t] \in InTurn}

\* The four things a handler can do with the lock.
Joins(t)  == pc[t] = "enter" /\ pc'[t] = "wait" /\ lockQ' = Append(lockQ, t)
Gets(t)   == /\ pc[t] = "wait" /\ pc'[t] = "grace" /\ UNCHANGED lockQ
             /\ lockQ # <<>> /\ Head(lockQ) = t
Leaves(t) == /\ pc'[t] = "done" /\ lockQ' = Tail(lockQ)
             /\ lockQ # <<>> /\ Head(lockQ) = t
Stays(t)  == UNCHANGED lockQ /\ (pc[t] \in InTurn <=> pc'[t] \in InTurn) /\ pc[t] # "wait"

LEMMA LockStep ==
  ASSUME TypeInv, LockInv, NEW t \in Tasks, Handle(t)
  PROVE  Joins(t) \/ Gets(t) \/ Leaves(t) \/ Stays(t)
<1> USE DEF database, memory, outside, Goto, TypeInv, TypeOK, InTurn
<1>1. CASE Prepare(t)
  BY <1>1 DEF Prepare, Lookup, CommitSkip, CommitReprocess, Store, Enter, Joins, Stays
<1>2. CASE Acquire(t)
  BY <1>2 DEF Acquire, Release, Gets, Leaves
<1>3. CASE RunTurn(t) /\ ~Acquire(t)
  <2>1. pc[t] \in InTurn /\ lockQ # <<>> /\ Head(lockQ) = t
    BY <1>3 DEF RunTurn, Yield, ChangeStage, FailRun, StartRun, CommitRun, Withdraw, HoldReply,
       GoDeliver, Running, LockInv
  <2>2. (UNCHANGED lockQ /\ pc'[t] \in InTurn) \/ (pc'[t] = "done" /\ lockQ' = Tail(lockQ))
    BY <1>3 DEF RunTurn, Yield, ChangeStage, FailRun, StartRun, CommitRun, Withdraw, HoldReply,
       GoDeliver, Release
  <2> QED BY <2>1, <2>2 DEF Leaves, Stays
<1>4. CASE DeliverParts(t)
  <2>1. pc[t] \in InTurn /\ lockQ # <<>> /\ Head(lockQ) = t
    BY <1>4 DEF DeliverParts, SkipEmpty, SendBlocked, Send, VkAccepts, VkForbids, SendFails,
       MarkDelivered, Finish, LockInv
  <2>2. (UNCHANGED lockQ /\ pc'[t] \in InTurn) \/ (pc'[t] = "done" /\ lockQ' = Tail(lockQ))
    BY <1>4 DEF DeliverParts, SkipEmpty, SendBlocked, Send, VkAccepts, VkForbids, SendFails,
       MarkDelivered, Finish, NextPart, Release
  <2> QED BY <2>1, <2>2 DEF Leaves, Stays
<1> QED BY <1>1, <1>2, <1>3, <1>4 DEF Handle

\* The others leave the lock alone; a restart empties it.
LEMMA OthersLock ==
  ASSUME TypeInv, Replies \/ Environment \/ UNCHANGED vars
  PROVE  \/ UNCHANGED lockQ /\ Inside' = Inside
            /\ \A u \in Tasks : pc[u] \in InTurn \cup {"wait"} => pc'[u] = pc[u]
         \/ lockQ' = <<>> /\ Inside' = {}
<1> USE DEF database, memory, outside, Inside
<1>1. CASE UNCHANGED vars
  BY <1>1 DEF vars
<1>2. CASE Replies
  BY <1>2 DEF Replies, EchoOfOurs, HumanReplyRead, HumanReplyStored, PanelReplied
<1>3. ASSUME NEW t \in Tasks, NEW m \in Msgs, Deliver(t, m)
      PROVE  /\ UNCHANGED lockQ /\ Inside' = Inside
             /\ \A u \in Tasks : pc[u] \in InTurn \cup {"wait"} => pc'[u] = pc[u]
  <2>1. /\ pc[t] = "idle" /\ pc'[t] = "lookup" /\ \A u \in Tasks \ {t} : pc'[u] = pc[u]
        /\ UNCHANGED lockQ
    BY <1>3 DEF Deliver, Goto, TypeInv, TypeOK
  <2>2. \A u \in Tasks : pc'[u] \in InTurn <=> pc[u] \in InTurn
    BY <2>1 DEF InTurn
  <2> QED BY <2>1, <2>2 DEF InTurn
<1>4. CASE HumanWritesInVk \/ PanelReply \/ \E value \in BOOLEAN : SetAiPause(value)
  BY <1>4 DEF HumanWritesInVk, PanelReply, SetAiPause
<1>5. CASE Crash
  BY <1>5 DEF Crash, InTurn
<1> QED BY <1>1, <1>2, <1>3, <1>4, <1>5 DEF Environment

LEMMA QueueKept ==
  ASSUME TypeInv, LockInv, QueueInv, NEW t \in Tasks, Handle(t)
  PROVE  QueueInv'
<1>1. lockQ \in Seq(Tasks) /\ \A u \in Tasks \ {t} : pc'[u] = pc[u]
  BY HandlerStep DEF TypeInv, TypeOK
<1>2. CASE Joins(t)
  <2>1. \A i \in DOMAIN lockQ : lockQ[i] \in Tasks /\ lockQ[i] # t
    BY <1>1, <1>2 DEF QueueInv, Joins, InTurn
  <2>2. /\ DOMAIN lockQ' = 1..(Len(lockQ) + 1) /\ lockQ'[Len(lockQ) + 1] = t
        /\ \A i \in DOMAIN lockQ : lockQ'[i] = lockQ[i]
    BY <1>1, <1>2 DEF Joins
  <2>3. DOMAIN lockQ = 1..Len(lockQ) /\ Len(lockQ) \in Nat
    BY <1>1
  <2>4. \A i \in DOMAIN lockQ' : pc'[lockQ'[i]] \in InTurn \cup {"wait"}
    BY <1>1, <1>2, <2>1, <2>2, <2>3 DEF QueueInv, Joins
  <2>5. \A i, j \in DOMAIN lockQ' : lockQ'[i] = lockQ'[j] => i = j
    BY <2>1, <2>2, <2>3 DEF QueueInv
  <2> QED BY <2>4, <2>5 DEF QueueInv
<1>3. CASE Leaves(t)
  <2>1. /\ DOMAIN lockQ' = 1..(Len(lockQ) - 1) /\ DOMAIN lockQ = 1..Len(lockQ)
        /\ Len(lockQ) \in Nat \ {0} /\ lockQ[1] = t
        /\ \A i \in DOMAIN lockQ' : lockQ'[i] = lockQ[i + 1]
    BY <1>1, <1>3 DEF Leaves
  <2>2. \A i \in DOMAIN lockQ' : lockQ'[i] \in Tasks \ {t}
    <3> SUFFICES ASSUME NEW i \in DOMAIN lockQ' PROVE lockQ[i + 1] \in Tasks \ {t}
      BY <2>1
    <3>1. i + 1 \in DOMAIN lockQ /\ i + 1 # 1 /\ 1 \in DOMAIN lockQ
      BY <2>1
    <3> QED BY <1>1, <2>1, <3>1 DEF QueueInv
  <2>3. \A i \in DOMAIN lockQ' : i + 1 \in DOMAIN lockQ
    BY <2>1
  <2>4. \A i \in DOMAIN lockQ' : pc'[lockQ'[i]] \in InTurn \cup {"wait"}
    BY <1>1, <2>1, <2>2, <2>3 DEF QueueInv
  <2>5. \A i, j \in DOMAIN lockQ' : lockQ'[i] = lockQ'[j] => i = j
    <3> SUFFICES ASSUME NEW i \in DOMAIN lockQ', NEW j \in DOMAIN lockQ', lockQ'[i] = lockQ'[j]
                 PROVE  i = j
      OBVIOUS
    <3>1. i + 1 = j + 1
      BY <2>1, <2>3 DEF QueueInv
    <3> QED BY <2>1, <3>1
  <2> QED BY <2>4, <2>5 DEF QueueInv
<1>4. CASE Gets(t)
  BY <1>1, <1>4 DEF Gets, QueueInv, InTurn
<1>5. CASE Stays(t)
  <2>1. UNCHANGED lockQ /\ \A u \in Tasks : pc[u] \in InTurn \cup {"wait"} => pc'[u] \in InTurn \cup {"wait"}
    BY <1>1, <1>5 DEF Stays
  <2> QED BY <1>1, <2>1 DEF QueueInv
<1> QED BY <1>2, <1>3, <1>4, <1>5, LockStep

LEMMA QueueHolds == Spec => [](TypeInv /\ LockInv /\ QueueInv)
<1>1. Init => QueueInv
  BY DEF Init, QueueInv
<1>2. TypeInv /\ LockInv /\ QueueInv /\ [Next]_vars => QueueInv'
  <2> SUFFICES ASSUME TypeInv, LockInv, QueueInv, [Next]_vars PROVE QueueInv'
    OBVIOUS
  <2>1. ASSUME NEW t \in Tasks, Handle(t) PROVE QueueInv'
    BY <2>1, QueueKept
  <2>2. CASE Replies \/ Environment \/ UNCHANGED vars
    <3>1. lockQ \in Seq(Tasks)
      BY DEF TypeInv, TypeOK
    <3> QED BY <2>2, <3>1, OthersLock DEF QueueInv
  <2> QED BY <2>1, <2>2 DEF Next
<1> QED BY <1>1, <1>2, Inductive, PTL DEF Spec

\* A handler's step is a step of the abstract mutex, or none.
LEMMA HandlerUsesMutex ==
  ASSUME TypeInv, LockInv, QueueInv, NEW t \in Tasks, Handle(t)
  PROVE  [Mutex!Next]_Mutex!vars
<1> DEFINE before == [d \in {"this"} |-> lockQ]
           after  == [d \in {"this"} |-> lockQ']
<1>1. lockQ \in Seq(Tasks) /\ \A u \in Tasks \ {t} : pc'[u] = pc[u]
  BY HandlerStep DEF TypeInv, TypeOK
<1>2. CASE Joins(t)
  <2>1. \A i \in DOMAIN lockQ : lockQ[i] # t
    BY <1>1, <1>2 DEF QueueInv, Joins, InTurn
  <2>2. ~Mutex!Queued(t)
    BY <2>1 DEF Mutex!Queued
  <2>3. after = [before EXCEPT !["this"] = Append(@, t)]
    BY <1>2 DEF Joins
  <2>4. Inside' = Inside
    BY <1>1, <1>2 DEF Joins, Inside, InTurn
  <2>5. Mutex!Ask(t, "this")
    BY <2>2, <2>3, <2>4 DEF Mutex!Ask, Inside
  <2> QED BY <2>5 DEF Mutex!Next
<1>3. CASE Gets(t)
  <2>1. Inside' = Inside \cup {t}
    BY <1>1, <1>3 DEF Gets, Inside, InTurn
  <2>2. Mutex!Take(t, "this")
    BY <1>3, <2>1 DEF Gets, Mutex!Take, Inside
  <2> QED BY <2>2 DEF Mutex!Next
<1>4. CASE Leaves(t)
  <2>1. Inside' = Inside \ {t}
    BY <1>1, <1>4 DEF Leaves, Inside, InTurn
  <2>2. after = [before EXCEPT !["this"] = Tail(@)]
    BY <1>4 DEF Leaves
  <2>3. Mutex!Leave(t, "this")
    BY <1>4, <2>1, <2>2 DEF Leaves, Mutex!Leave, Inside
  <2> QED BY <2>3 DEF Mutex!Next
<1>5. CASE Stays(t)
  <2>1. Inside' = Inside /\ UNCHANGED lockQ
    BY <1>1, <1>5 DEF Stays, Inside
  <2> QED BY <2>1 DEF Mutex!vars, Inside
<1> QED BY <1>2, <1>3, <1>4, <1>5, LockStep

\* dialog_lock as a dialog uses it is the fair mutex it promises to be: whoever
\* asks is served in turn, and a restart empties the queue (dialog_lock.py:1-10, 30-37).
THEOREM LockIsFair == Spec => LockIsFairMutex
<1>1. Init => Mutex!Init
  BY DEF Init, Mutex!Init, InTurn
<1>2. TypeInv /\ LockInv /\ QueueInv /\ [Next]_vars => [Mutex!Next]_Mutex!vars
  <2> SUFFICES ASSUME TypeInv, LockInv, QueueInv, [Next]_vars PROVE [Mutex!Next]_Mutex!vars
    OBVIOUS
  <2>1. ASSUME NEW t \in Tasks, Handle(t) PROVE [Mutex!Next]_Mutex!vars
    BY <2>1, HandlerUsesMutex
  <2>2. CASE Replies \/ Environment \/ UNCHANGED vars
    <3>1. CASE UNCHANGED lockQ /\ Inside' = Inside
      BY <3>1 DEF Mutex!vars, Inside
    <3>2. CASE lockQ' = <<>> /\ Inside' = {}
      BY <3>2 DEF Mutex!Next, Mutex!Restart, Inside
    <3> QED BY <2>2, <3>1, <3>2, OthersLock
  <2> QED BY <2>1, <2>2 DEF Next
<1> QED BY <1>1, <1>2, QueueHolds, PTL DEF Spec, LockIsFairMutex, Mutex!Spec

-----------------------------------------------------------------------------
(* What reaches the client *)

Sends == {"deliver", "sending", "taken", "finish"}

\* What a step of a handler does to the wire and to the client's messages.
LEMMA DeliveryStep ==
  ASSUME TypeInv, NEW t \in Tasks, Handle(t)
  PROVE  /\ pc[t] \notin {"idle", "done"}
         /\ pc'[t] # "idle"
         /\ pc[t] \in Sends => pc'[t] \in Sends \cup {"done"}
         /\ UNCHANGED wire
              \/ (pc[t] = "sending" /\ pc'[t] = "taken" /\ wire' = Append(wire, ThisPart(t)))
         /\ UNCHANGED inbox
              \/ /\ pc[t] = "store" /\ pc'[t] = "enter" /\ my[t].msg \notin Stored
                 /\ inbox' = Append(inbox, my[t].msg)
         /\ pc[t] \notin Sends /\ pc'[t] \in Sends =>
              /\ pc[t] = "check" /\ ~Superseded(my[t].msg) /\ UNCHANGED <<inbox, wire>>
<1> USE DEF database, memory, outside, Goto, TypeInv, TypeOK, Sends
<1>1. CASE Prepare(t)
  BY <1>1 DEF Prepare, Lookup, CommitSkip, CommitReprocess, Store, Enter
<1>2. CASE RunTurn(t)
  BY <1>2 DEF RunTurn, Acquire, Yield, ChangeStage, FailRun, StartRun, CommitRun, Withdraw, HoldReply,
     GoDeliver, Running, Release
<1>3. CASE DeliverParts(t)
  BY <1>3 DEF DeliverParts, SkipEmpty, SendBlocked, Send, VkAccepts, VkForbids, SendFails,
     MarkDelivered, Finish, NextPart, Release
<1> QED BY <1>1, <1>2, <1>3 DEF Handle

\* Steps of the others neither send nor write for the client; a restart ends what runs.
LEMMA OthersDelivery ==
  ASSUME TypeInv, Replies \/ Environment \/ UNCHANGED vars
  PROVE  /\ UNCHANGED <<wire, inbox, part>>
         /\ \A u \in Tasks :
              /\ \/ pc'[u] = pc[u]
                 \/ pc[u] = "idle" /\ pc'[u] = "lookup"
                 \/ pc'[u] = "done" /\ crashes' # 0
              /\ pc[u] # "idle" => my'[u] = my[u]
              /\ my'[u].outcome = my[u].outcome
         /\ crashes' = 0 => crashes = 0
<1> USE DEF database, memory, outside, TypeInv, TypeOK
<1>1. CASE UNCHANGED vars
  BY <1>1 DEF vars
<1>2. CASE Replies
  BY <1>2 DEF Replies, EchoOfOurs, HumanReplyRead, HumanReplyStored, PanelReplied
<1>3. ASSUME NEW t \in Tasks, NEW m \in Msgs, Deliver(t, m)
      PROVE  /\ UNCHANGED <<wire, inbox, part, crashes>>
             /\ pc[t] = "idle" /\ pc'[t] = "lookup"
             /\ my'[t].outcome = my[t].outcome
             /\ \A u \in Tasks \ {t} : pc'[u] = pc[u] /\ my'[u] = my[u]
  BY <1>3 DEF Deliver, Goto, Local
<1>4. CASE HumanWritesInVk \/ PanelReply \/ \E value \in BOOLEAN : SetAiPause(value)
  BY <1>4 DEF HumanWritesInVk, PanelReply, SetAiPause
<1>5. CASE Crash
  <2>1. crashes \in Nat /\ crashes' = crashes + 1
    BY <1>5, Constants DEF Crash
  <2> QED BY <1>5, <2>1 DEF Crash
<1>6. CASE \E t \in Tasks, m \in Msgs : Deliver(t, m)
  <2>1. PICK t \in Tasks, m \in Msgs : Deliver(t, m)
    BY <1>6
  <2> QED BY <1>3, <2>1
<1> QED BY <1>1, <1>2, <1>4, <1>5, <1>6 DEF Environment

\* Who has sent something is still sending, or done; done, if another has sent since.
WholeInv ==
  /\ \A i \in DOMAIN wire : pc[wire[i][1]] \in Sends \cup {"done"}
  /\ \A i, j \in DOMAIN wire : i < j /\ wire[i][1] # wire[j][1] => pc[wire[i][1]] = "done"

\* A part VK accepts is put at the end of the wire.
LEMMA WireGrows ==
  ASSUME TypeInv, NEW t \in Tasks, wire' = Append(wire, ThisPart(t))
  PROVE  /\ DOMAIN wire = 1..Len(wire) /\ Len(wire) \in Nat
         /\ DOMAIN wire' = 1..(Len(wire) + 1)
         /\ \A i \in DOMAIN wire : wire'[i] = wire[i] /\ wire[i][1] \in Tasks
         /\ wire'[Len(wire) + 1] = ThisPart(t) /\ wire'[Len(wire) + 1][1] = t
<1>1. wire \in Seq(PartId)
  BY DEF TypeInv, TypeOK
<1>2. \A i \in DOMAIN wire : wire[i][1] \in Tasks
  BY <1>1 DEF PartId
<1> QED BY <1>1, <1>2 DEF ThisPart

LEMMA WholeKept ==
  ASSUME TypeInv, LockInv, WholeInv, TurnsNeverInterleave, NEW t \in Tasks, Handle(t)
  PROVE  WholeInv' /\ TurnsNeverInterleave'
<1>1. \A u \in Tasks \ {t} : pc'[u] = pc[u]
  BY HandlerStep
<1>2. \A i \in DOMAIN wire : wire[i][1] \in Tasks
  BY DEF TypeInv, TypeOK, PartId
<1>3. pc[t] # "done" /\ (pc[t] \in Sends => pc'[t] \in Sends \cup {"done"})
  BY DeliveryStep
<1>4. CASE UNCHANGED wire
  <2>1. \A i \in DOMAIN wire :
          /\ pc'[wire[i][1]] \in Sends \cup {"done"}
          /\ pc[wire[i][1]] = "done" => pc'[wire[i][1]] = "done"
    BY <1>1, <1>2, <1>3 DEF WholeInv
  <2>2. ASSUME NEW i \in DOMAIN wire, NEW j \in DOMAIN wire, i < j, wire[i][1] # wire[j][1]
        PROVE  pc'[wire[i][1]] = "done"
    <3>1. pc[wire[i][1]] = "done"
      BY <2>2 DEF WholeInv
    <3> QED BY <2>1, <3>1
  <2>3. WholeInv'
    BY <1>4, <2>1, <2>2 DEF WholeInv
  <2>4. TurnsNeverInterleave'
    BY <1>4 DEF TurnsNeverInterleave
  <2> QED BY <2>3, <2>4
<1>5. CASE pc[t] = "sending" /\ pc'[t] = "taken" /\ wire' = Append(wire, ThisPart(t))
  <2>1. /\ DOMAIN wire = 1..Len(wire) /\ Len(wire) \in Nat
        /\ DOMAIN wire' = 1..(Len(wire) + 1)
        /\ \A i \in DOMAIN wire : wire'[i] = wire[i]
        /\ wire'[Len(wire) + 1][1] = t
    BY <1>5, WireGrows
  <2>2. \A u \in Tasks \ {t} : pc[u] \notin InTurn
    BY <1>5 DEF LockInv, InTurn
  <2>3. \A i \in DOMAIN wire : wire[i][1] # t => pc[wire[i][1]] = "done"
    BY <1>2, <2>2 DEF WholeInv, Sends, InTurn
  <2>4. \A i, j \in DOMAIN wire : i < j /\ wire[i][1] = t => wire[j][1] = t
    BY <1>5 DEF WholeInv
  <2>5. \A i \in DOMAIN wire' : pc'[wire'[i][1]] \in Sends \cup {"done"}
    BY <1>1, <1>2, <1>5, <2>1 DEF WholeInv, Sends
  <2>6. ASSUME NEW i \in DOMAIN wire', NEW j \in DOMAIN wire', i < j, wire'[i][1] # wire'[j][1]
        PROVE  pc'[wire'[i][1]] = "done"
    <3>1. i \in DOMAIN wire
      BY <2>1, <2>6
    <3>2. pc[wire[i][1]] = "done"
      <4>1. CASE j \in DOMAIN wire
        BY <2>1, <2>6, <3>1, <4>1 DEF WholeInv
      <4>2. CASE j \notin DOMAIN wire
        BY <2>1, <2>3, <2>6, <3>1, <4>2
      <4> QED BY <4>1, <4>2
    <3> QED BY <1>1, <1>2, <1>5, <2>1, <3>1, <3>2
  <2>7. ASSUME NEW i \in DOMAIN wire', NEW j \in DOMAIN wire', NEW k \in DOMAIN wire',
               i < j, j < k, wire'[i][1] = wire'[k][1]
        PROVE  wire'[j][1] = wire'[i][1]
    <3>1. i \in DOMAIN wire /\ j \in DOMAIN wire
      BY <2>1, <2>7
    <3>2. CASE k \in DOMAIN wire
      BY <2>1, <2>7, <3>1, <3>2 DEF TurnsNeverInterleave
    <3>3. CASE k \notin DOMAIN wire
      BY <2>1, <2>4, <2>7, <3>1, <3>3
    <3> QED BY <3>2, <3>3
  <2> QED BY <2>5, <2>6, <2>7 DEF WholeInv, TurnsNeverInterleave
<1> QED BY <1>4, <1>5, DeliveryStep

LEMMA WholeHolds == Spec => [](TypeInv /\ LockInv /\ WholeInv /\ TurnsNeverInterleave)
<1>1. Init => WholeInv /\ TurnsNeverInterleave
  BY DEF Init, WholeInv, TurnsNeverInterleave
<1>2. TypeInv /\ LockInv /\ WholeInv /\ TurnsNeverInterleave /\ [Next]_vars
        => WholeInv' /\ TurnsNeverInterleave'
  <2> SUFFICES ASSUME TypeInv, LockInv, WholeInv, TurnsNeverInterleave, [Next]_vars
               PROVE  WholeInv' /\ TurnsNeverInterleave'
    OBVIOUS
  <2>1. ASSUME NEW t \in Tasks, Handle(t) PROVE WholeInv' /\ TurnsNeverInterleave'
    BY <2>1, WholeKept
  <2>2. CASE Replies \/ Environment \/ UNCHANGED vars
    <3>1. \A i \in DOMAIN wire : wire[i][1] \in Tasks
      BY DEF TypeInv, TypeOK, PartId
    <3>2. /\ UNCHANGED wire
          /\ \A u \in Tasks : pc'[u] \in {pc[u], "done"} \/ pc[u] = "idle"
      BY <2>2, OthersDelivery
    <3> QED BY <3>1, <3>2 DEF WholeInv, TurnsNeverInterleave, Sends
  <2> QED BY <2>1, <2>2 DEF Next
<1> QED BY <1>1, <1>2, Inductive, PTL DEF Spec

\* The parts of one reply reach the client in one piece, although the process may
\* die between any two of them (deliver_parts under dialog_lock, webhook.py:625-673).
THEOREM TurnsStayWhole == Spec => []TurnsNeverInterleave
BY WholeHolds, PTL

-----------------------------------------------------------------------------
(* Answers come in order *)

\* Nothing of u's message was written after t's.
NotLater(u, t) ==
  \A k, l \in DOMAIN inbox : inbox[k] = my[u].msg /\ inbox[l] = my[t].msg => k <= l

Answered(w) == \E i \in DOMAIN wire : wire[i][1] = w

\* Who has come this far has a message that is stored.
Past == {"reprocess", "enter", "wait"} \cup InTurn

\* Who sends, sends on the newest of all messages answered so far.
OrderInv ==
  /\ \A k, l \in DOMAIN inbox : inbox[k] = inbox[l] => k = l
  /\ \A u \in Tasks : pc[u] \in Past => my[u].msg \in Stored
  /\ \A w \in Tasks : Answered(w) => my[w].msg \in Stored
  /\ \A u, w \in Tasks : pc[u] \in Sends /\ Answered(w) => NotLater(w, u)

LEMMA PastStep ==
  ASSUME TypeInv, NEW t \in Tasks, Handle(t), pc'[t] \in Past
  PROVE  my[t].msg \in Stored' \/ pc[t] \in Past
<1> USE DEF database, memory, outside, Goto, TypeInv, TypeOK, Past, InTurn
<1>1. CASE Lookup(t)
  BY <1>1 DEF Lookup, Stored
<1>2. CASE Store(t)
  <2>1. my[t].msg \in Stored \/ inbox' = Append(inbox, my[t].msg)
    BY <1>2 DEF Store
  <2>2. CASE inbox' = Append(inbox, my[t].msg)
    <3>1. Len(inbox) + 1 \in DOMAIN inbox' /\ inbox'[Len(inbox) + 1] = my[t].msg
      <4>1. my[t].msg \in Msgs \cup {NoOne} /\ inbox \in Seq(Msgs \cup {NoOne})
        BY DEF Local
      <4> QED BY <2>2, <4>1
    <3> QED BY <3>1 DEF Stored
  <2>3. CASE my[t].msg \in Stored /\ ~(inbox' = Append(inbox, my[t].msg))
    BY <1>2, <2>3 DEF Store
  <2> QED BY <2>1, <2>2, <2>3
<1>3. CASE CommitSkip(t) \/ CommitReprocess(t) \/ Enter(t)
  BY <1>3 DEF CommitSkip, CommitReprocess, Enter
<1>4. CASE RunTurn(t)
  BY <1>4 DEF RunTurn, Acquire, Yield, ChangeStage, FailRun, StartRun, CommitRun, Withdraw, HoldReply,
     GoDeliver, Running
<1>5. CASE DeliverParts(t)
  BY <1>5 DEF DeliverParts, SkipEmpty, SendBlocked, Send, VkAccepts, VkForbids, SendFails,
     MarkDelivered, Finish
<1> QED BY <1>1, <1>2, <1>3, <1>4, <1>5 DEF Handle, Prepare

\* A new message of the client comes behind all others.
LEMMA InboxGrows ==
  ASSUME TypeInv, NEW m \in Msgs, m \notin Stored, inbox' = Append(inbox, m)
  PROVE  /\ DOMAIN inbox = 1..Len(inbox) /\ Len(inbox) \in Nat
         /\ DOMAIN inbox' = 1..(Len(inbox) + 1) /\ inbox'[Len(inbox) + 1] = m
         /\ \A k \in DOMAIN inbox : inbox'[k] = inbox[k] /\ inbox[k] # m
         /\ Stored' = Stored \cup {m}
<1>1. inbox \in Seq(Msgs)
  BY DEF TypeInv, TypeOK
<1>2. /\ DOMAIN inbox = 1..Len(inbox) /\ Len(inbox) \in Nat
      /\ DOMAIN inbox' = 1..(Len(inbox) + 1) /\ inbox'[Len(inbox) + 1] = m
      /\ \A k \in DOMAIN inbox : inbox'[k] = inbox[k]
  BY <1>1
<1>3. \A k \in DOMAIN inbox : inbox[k] # m
  BY DEF Stored
<1>4. Stored' = Stored \cup {m}
  BY <1>2 DEF Stored
<1> QED BY <1>2, <1>3, <1>4

\* The order of two stored messages does not change.
LEMMA OrderStays ==
  ASSUME TypeInv, NEW t \in Tasks, Handle(t), NEW u \in Tasks, NEW v \in Tasks,
         my[u].msg \in Stored, my[v].msg \in Stored, NotLater(u, v)
  PROVE  NotLater(u, v)'
<1>1. my'[u].msg = my[u].msg /\ my'[v].msg = my[v].msg
  BY HandlerStep
<1>2. CASE UNCHANGED inbox
  BY <1>1, <1>2 DEF NotLater
<1>3. CASE pc[t] = "store" /\ my[t].msg \notin Stored /\ inbox' = Append(inbox, my[t].msg)
  <2>1. my[t].msg \in Msgs
    BY <1>3 DEF TypeInv, PartsInv, PartsOf
  <2>2. /\ DOMAIN inbox = 1..Len(inbox) /\ Len(inbox) \in Nat
        /\ DOMAIN inbox' = 1..(Len(inbox) + 1) /\ inbox'[Len(inbox) + 1] = my[t].msg
        /\ \A k \in DOMAIN inbox : inbox'[k] = inbox[k]
    BY <1>3, <2>1, InboxGrows
  <2>3. \A k \in DOMAIN inbox' : inbox'[k] \in {my[u].msg, my[v].msg} => k \in DOMAIN inbox
    BY <1>3, <2>2
  <2> QED BY <1>1, <2>2, <2>3 DEF NotLater
<1> QED BY <1>2, <1>3, DeliveryStep

LEMMA OrderKept ==
  ASSUME TypeInv, LockInv, WholeInv, OrderInv, AnswersInOrder, NEW t \in Tasks, Handle(t)
  PROVE  OrderInv' /\ AnswersInOrder'
<1>1. /\ \A u \in Tasks \ {t} : pc'[u] = pc[u]
      /\ \A u \in Tasks : my'[u].msg = my[u].msg
  BY HandlerStep
<1>2. \A i \in DOMAIN wire : wire[i][1] \in Tasks
  BY DEF TypeInv, TypeOK, PartId
<1>3. Stored \subseteq Stored' /\ \A k, l \in DOMAIN inbox' : inbox'[k] = inbox'[l] => k = l
  <2>1. CASE UNCHANGED inbox
    BY <2>1 DEF Stored, OrderInv
  <2>2. CASE pc[t] = "store" /\ my[t].msg \notin Stored /\ inbox' = Append(inbox, my[t].msg)
    <3>1. my[t].msg \in Msgs
      BY <2>2 DEF TypeInv, PartsInv, PartsOf
    <3> QED BY <2>2, <3>1, InboxGrows DEF OrderInv
  <2> QED BY <2>1, <2>2, DeliveryStep
<1>4. \A u \in Tasks : pc'[u] \in Past => my'[u].msg \in Stored'
  BY <1>1, <1>3, PastStep DEF OrderInv
<1>5. \A u \in Tasks : pc[u] \in Sends => my[u].msg \in Stored
  BY DEF OrderInv, Sends, Past, InTurn
<1>6. CASE UNCHANGED wire
  <2>1. \A w \in Tasks : Answered(w)' <=> Answered(w)
    BY <1>6 DEF Answered
  <2>2. ASSUME NEW u \in Tasks, pc'[u] \in Sends, NEW w \in Tasks, Answered(w)
        PROVE  NotLater(w, u)'
    <3>1. my[w].msg \in Stored
      BY <2>2 DEF OrderInv
    <3>2. CASE pc[u] \in Sends
      <4>1. NotLater(w, u)
        BY <2>2, <3>2 DEF OrderInv
      <4> QED BY <1>5, <3>1, <3>2, <4>1, OrderStays
    <3>3. CASE pc[u] \notin Sends
      <4>1. u = t /\ ~Superseded(my[t].msg) /\ UNCHANGED inbox
        BY <1>1, <2>2, <3>3, DeliveryStep
      <4>2. DOMAIN inbox = 1..Len(inbox) /\ Len(inbox) \in Nat
        BY DEF TypeInv, TypeOK
      <4>3. \A k, l \in DOMAIN inbox : inbox[l] = my[t].msg => k <= l
        BY <4>1, <4>2 DEF Superseded
      <4> QED BY <1>1, <4>1, <4>3 DEF NotLater
    <3> QED BY <3>2, <3>3
  <2>3. ASSUME NEW i \in DOMAIN wire, NEW j \in DOMAIN wire, i < j,
               NEW w \in Tasks, NEW u \in Tasks, wire[i][1] = w, wire[j][1] = u
        PROVE  NotLater(w, u)'
    <3>1. NotLater(w, u)
      BY <2>3 DEF AnswersInOrder, NotLater
    <3>2. my[w].msg \in Stored /\ my[u].msg \in Stored
      BY <2>3 DEF OrderInv, Answered
    <3> QED BY <3>1, <3>2, OrderStays
  <2>4. OrderInv'
    BY <1>1, <1>3, <1>4, <2>1, <2>2 DEF OrderInv
  <2>5. AnswersInOrder'
    BY <1>2, <1>6, <2>3 DEF AnswersInOrder, NotLater
  <2> QED BY <2>4, <2>5
<1>7. CASE pc[t] = "sending" /\ pc'[t] = "taken" /\ wire' = Append(wire, ThisPart(t))
  <2>1. /\ DOMAIN wire = 1..Len(wire) /\ Len(wire) \in Nat
        /\ DOMAIN wire' = 1..(Len(wire) + 1)
        /\ \A i \in DOMAIN wire : wire'[i] = wire[i]
        /\ wire'[Len(wire) + 1][1] = t
    BY <1>7, WireGrows
  <2>2. UNCHANGED inbox
    BY <1>7, DeliveryStep
  <2>3. \A u \in Tasks \ {t} : pc'[u] \notin Sends
    BY <1>1, <1>7 DEF LockInv, InTurn, Sends
  <2>4. \A u, v \in Tasks : NotLater(u, v)' <=> NotLater(u, v)
    BY <1>1, <2>2 DEF NotLater
  <2>5. NotLater(t, t)
    BY DEF NotLater, OrderInv, TypeInv, TypeOK
  <2>6. \A w \in Tasks : Answered(w)' => w = t \/ Answered(w)
    BY <2>1 DEF Answered
  <2>7. \A w \in Tasks : Answered(w)' => NotLater(w, t) /\ my[w].msg \in Stored
    BY <1>5, <1>7, <2>5, <2>6 DEF OrderInv, Sends
  <2>8. ASSUME NEW i \in DOMAIN wire', NEW j \in DOMAIN wire', i < j,
               NEW w \in Tasks, NEW u \in Tasks, wire'[i][1] = w, wire'[j][1] = u
        PROVE  NotLater(w, u)'
    <3>1. i \in DOMAIN wire /\ wire[i][1] = w
      BY <2>1, <2>8
    <3>2. CASE j \in DOMAIN wire
      <4>1. wire[j][1] = u
        BY <2>1, <2>8, <3>2
      <4> QED BY <2>4, <2>8, <3>1, <3>2, <4>1 DEF AnswersInOrder, NotLater
    <3>3. CASE j \notin DOMAIN wire
      <4>1. u = t /\ Answered(w)'
        BY <2>1, <2>8, <3>3 DEF Answered
      <4> QED BY <2>4, <2>7, <4>1
    <3> QED BY <3>2, <3>3
  <2>9. \A u, w \in Tasks : pc'[u] \in Sends /\ Answered(w)' => NotLater(w, u)'
    BY <2>3, <2>4, <2>7
  <2>10. \A w \in Tasks : Answered(w)' => my'[w].msg \in Stored'
    BY <1>1, <1>3, <2>7
  <2>11. OrderInv'
    BY <1>3, <1>4, <2>9, <2>10 DEF OrderInv
  <2>12. \A i \in DOMAIN wire' : wire'[i][1] \in Tasks
    BY <1>2, <2>1
  <2>13. AnswersInOrder'
    BY <2>8, <2>12 DEF AnswersInOrder, NotLater
  <2> QED BY <2>11, <2>13
<1> QED BY <1>6, <1>7, DeliveryStep

\* The client never gets an answer to an older message after one to a newer, for any
\* number of deliveries and repetitions: whoever sends has looked, under the lock, for
\* a newer message (superseded_by_newer_message).
THEOREM AnswersComeInOrder == Spec => []AnswersInOrder
<1>1. Init => OrderInv /\ AnswersInOrder
  BY DEF Init, OrderInv, Answered, AnswersInOrder, Past, InTurn, Sends
<1>2. TypeInv /\ LockInv /\ WholeInv /\ OrderInv /\ AnswersInOrder /\ [Next]_vars
        => OrderInv' /\ AnswersInOrder'
  <2> SUFFICES ASSUME TypeInv, LockInv, WholeInv, OrderInv, AnswersInOrder, [Next]_vars
               PROVE  OrderInv' /\ AnswersInOrder'
    OBVIOUS
  <2>1. ASSUME NEW t \in Tasks, Handle(t) PROVE OrderInv' /\ AnswersInOrder'
    BY <2>1, OrderKept
  <2>2. CASE Replies \/ Environment \/ UNCHANGED vars
    <3>1. /\ UNCHANGED <<wire, inbox>>
          /\ \A u \in Tasks : pc'[u] \in {pc[u], "done"} \/ (pc[u] = "idle" /\ pc'[u] = "lookup")
          /\ \A u \in Tasks : pc[u] # "idle" => my'[u] = my[u]
      BY <2>2, OthersDelivery
    <3>2. \A i \in DOMAIN wire : wire[i][1] \in Tasks /\ my'[wire[i][1]] = my[wire[i][1]]
      <4>1. \A i \in DOMAIN wire : wire[i][1] \in Tasks
        BY DEF TypeInv, TypeOK, PartId
      <4>2. \A i \in DOMAIN wire : pc[wire[i][1]] # "idle"
        BY DEF WholeInv, Sends
      <4> QED BY <3>1, <4>1, <4>2
    <3>3. \A u \in Tasks : pc'[u] \in Past => pc[u] = pc'[u] /\ my'[u] = my[u]
      BY <3>1 DEF Past, InTurn
    <3>4. \A u \in Tasks : pc'[u] \in Sends => pc'[u] \in Past
      BY DEF Past, InTurn, Sends
    <3>5. Stored' = Stored
      BY <3>1 DEF Stored
    <3>6. AnswersInOrder'
      BY <3>1, <3>2 DEF AnswersInOrder
    <3>7. \A w \in Tasks : Answered(w)' => Answered(w) /\ my'[w] = my[w]
      BY <3>1, <3>2 DEF Answered
    <3>8. OrderInv'
      <4>1. ASSUME NEW u \in Tasks, pc'[u] \in Sends, NEW w \in Tasks, Answered(w)'
            PROVE  NotLater(w, u)'
        <5>1. pc[u] \in Sends /\ my'[u] = my[u]
          BY <3>3, <3>4, <4>1
        <5>2. NotLater(w, u)
          BY <3>7, <4>1, <5>1 DEF OrderInv
        <5> QED BY <3>1, <3>7, <4>1, <5>1, <5>2 DEF NotLater
      <4>2. \A w \in Tasks : Answered(w)' => my'[w].msg \in Stored'
        BY <3>5, <3>7 DEF OrderInv
      <4>3. \A u \in Tasks : pc'[u] \in Past => my'[u].msg \in Stored'
        BY <3>3, <3>5 DEF OrderInv
      <4> QED BY <3>1, <4>1, <4>2, <4>3 DEF OrderInv
    <3> QED BY <3>6, <3>8
  <2> QED BY <2>1, <2>2 DEF Next
<1> QED BY <1>1, <1>2, WholeHolds, PTL DEF Spec

-----------------------------------------------------------------------------
(* The marks of the parts *)

BeforeReply == {"idle", "lookup", "skip", "reprocess", "store", "enter", "wait", "grace",
                "run", "model"}

Taken(t, i)  == \E k \in DOMAIN wire : wire[k] = <<t, i>>
Marked(t)    == \A i \in DOMAIN part[t] : part[t][i] # "saved"

\* A mark is set when the part is behind us, and "delivered" only once VK has taken it.
MarksOf(t) ==
  /\ \A i \in DOMAIN part[t] : part[t][i] = "delivered" => Taken(t, i)
  /\ pc[t] = "taken" => Taken(t, my[t].next)
  /\ pc[t] \in BeforeReply => part[t] = <<>>
  /\ pc[t] \in Delivering => \A i \in DOMAIN part[t] : i < my[t].next => part[t][i] # "saved"
  /\ pc[t] = "finish" => Marked(t)
  /\ crashes = 0 /\ pc[t] = "done" /\ my[t].outcome = "reply" => Marked(t)
MarksInv == \A t \in Tasks : MarksOf(t)

\* What VK has taken stays taken.
LEMMA TakenStays ==
  ASSUME TypeInv, NEW t \in Tasks, Handle(t), NEW u, NEW i, Taken(u, i)
  PROVE  Taken(u, i)'
<1>1. CASE UNCHANGED wire
  BY <1>1 DEF Taken
<1>2. CASE wire' = Append(wire, ThisPart(t))
  BY <1>2, WireGrows DEF Taken
<1> QED BY <1>1, <1>2, DeliveryStep

\* Everything from the part that failed on is marked, and nothing before it changes.
LEMMA FailedFrom ==
  ASSUME NEW marks \in Seq(Mark), NEW n \in 1..(Len(marks) + 1),
         \A i \in DOMAIN marks : i < n => marks[i] # "saved"
  PROVE  \A i \in DOMAIN FailFrom(marks, n) :
           /\ FailFrom(marks, n)[i] # "saved"
           /\ FailFrom(marks, n)[i] = "delivered" => i \in DOMAIN marks /\ marks[i] = "delivered"
BY DEF FailFrom

LEMMA PrepareMarks ==
  ASSUME TypeInv, MarksInv, NEW t \in Tasks, Prepare(t)
  PROVE  MarksOf(t)'
<1>1. /\ UNCHANGED <<part, wire>> /\ pc[t] \in BeforeReply
      /\ pc'[t] \in BeforeReply \cup {"done"}
  BY DEF Prepare, Lookup, CommitSkip, CommitReprocess, Store, Enter, Goto, BeforeReply,
     database, memory, outside, TypeInv, TypeOK
<1>2. part[t] = <<>>
  BY <1>1 DEF MarksInv, MarksOf
<1>3. pc'[t] \notin Delivering \cup {"taken", "finish"}
  BY <1>1 DEF BeforeReply, Delivering
<1> QED BY <1>1, <1>2, <1>3 DEF MarksOf, Marked

LEMMA RunMarks ==
  ASSUME TypeInv, LockInv, MarksInv, NEW t \in Tasks, RunTurn(t)
  PROVE  MarksOf(t)'
<1> USE DEF Goto, TypeInv, TypeOK, database, memory, outside
<1>1. CASE Acquire(t) \/ Yield(t) \/ ChangeStage(t) \/ FailRun(t) \/ \E greet \in BOOLEAN : StartRun(t, greet)
  <2>1. /\ UNCHANGED <<part, wire>> /\ pc[t] \in BeforeReply
        /\ pc'[t] \in BeforeReply \cup {"done"}
    BY <1>1 DEF Acquire, Yield, ChangeStage, FailRun, StartRun, Release, BeforeReply, Running
  <2>2. part[t] = <<>>
    BY <2>1 DEF MarksInv, MarksOf
  <2>3. pc'[t] \notin Delivering \cup {"taken", "finish"}
    BY <2>1 DEF BeforeReply, Delivering
  <2> QED BY <2>1, <2>2, <2>3 DEF MarksOf, Marked
<1>2. CASE \E n \in 0..MaxParts, leftOut, pause \in BOOLEAN, outcome \in {"reply", "held"} :
             CommitRun(t, n, leftOut, outcome, pause)
  <2>1. PICK n \in 0..MaxParts : part' = [part EXCEPT ![t] = [i \in 1..n |-> "saved"]]
    BY <1>2 DEF CommitRun
  <2>2. pc'[t] = "check" /\ \A i \in DOMAIN part'[t] : part'[t][i] = "saved"
    BY <1>2, <2>1 DEF CommitRun
  <2> QED BY <2>2 DEF MarksOf, BeforeReply, Delivering
<1>3. CASE Withdraw(t)
  <2>1. pc'[t] = "done" /\ part'[t] = FailFrom(part[t], 1) /\ UNCHANGED wire
    BY <1>3 DEF Withdraw, Release
  <2>2. \A i \in DOMAIN part'[t] : part'[t][i] = "failed"
    BY <2>1, Constants DEF FailFrom, PartsInv, PartsOf
  <2> QED BY <2>1, <2>2 DEF MarksOf, Marked, BeforeReply, Delivering
<1>4. CASE HoldReply(t)
  <2>1. /\ pc'[t] = "done" /\ my'[t].outcome = "held" /\ UNCHANGED <<part, wire>>
    BY <1>4 DEF HoldReply, Release
  <2> QED BY <2>1 DEF MarksInv, MarksOf, Taken, BeforeReply, Delivering
<1>5. CASE GoDeliver(t)
  <2>1. /\ pc[t] = "check" /\ my[t].next = 1 /\ UNCHANGED <<my, part, wire>>
        /\ pc'[t] = IF part[t] = <<>> THEN "finish" ELSE "deliver"
    BY <1>5 DEF GoDeliver, PartsInv, PartsOf, BeforeDelivery
  <2>2. DOMAIN part[t] = 1..Len(part[t])
    OBVIOUS
  <2>3. \A i \in DOMAIN part[t] : ~(i < 1)
    BY <2>2
  <2> QED BY <2>1, <2>3 DEF MarksInv, MarksOf, Marked, Taken, BeforeReply, Delivering
<1> QED BY <1>1, <1>2, <1>3, <1>4, <1>5 DEF RunTurn

LEMMA DeliverMarks ==
  ASSUME TypeInv, LockInv, MarksInv, NEW t \in Tasks, DeliverParts(t)
  PROVE  MarksOf(t)'
<1> USE DEF Goto, database, memory, outside
<1>1. /\ part[t] \in Seq(Mark) /\ my[t] \in Local /\ pc[t] \in Steps /\ MarksOf(t)
      /\ part \in [Tasks -> Seq(Mark)] /\ pc \in [Tasks -> Steps] /\ my \in [Tasks -> Local]
  BY DEF TypeInv, TypeOK, MarksInv
<1>2. my[t].next \in 1..(MaxParts + 1) /\ MaxParts \in Nat
  BY <1>1, Constants DEF Local
<1>3. /\ DOMAIN part[t] = 1..Len(part[t]) /\ Len(part[t]) \in Nat
      /\ pc[t] \in Delivering => my[t].next <= Len(part[t])
      /\ pc[t] \in Delivering => my[t].next \in 1..Len(part[t])
  BY <1>1, <1>2 DEF TypeInv, PartsInv, PartsOf
<1>4. \A i : Taken(t, i) => Taken(t, i)'
  BY TakenStays DEF Handle
\* A part is behind us: the next one, or the end.
<1>5. ASSUME NEW mark \in {"failed", "delivered"}, pc[t] \in Delivering,
             part' = [part EXCEPT ![t][my[t].next] = mark], NextPart(t),
             mark = "delivered" => Taken(t, my[t].next)
      PROVE  MarksOf(t)'
  <2>1. /\ DOMAIN part'[t] = DOMAIN part[t] /\ Len(part'[t]) = Len(part[t])
        /\ part'[t][my[t].next] = mark
        /\ \A i \in DOMAIN part[t] : i # my[t].next => part'[t][i] = part[t][i]
    BY <1>1, <1>3, <1>5 DEF Mark
  <2>2. my'[t].next = my[t].next + 1
    BY <1>1, <1>5 DEF NextPart, Local
  <2>3. pc'[t] = IF my[t].next = Len(part[t]) THEN "finish" ELSE "deliver"
    BY <1>1, <1>5 DEF NextPart
  <2>4. \A i \in DOMAIN part'[t] : i < my'[t].next => part'[t][i] # "saved"
    BY <1>1, <1>2, <1>3, <1>5, <2>1, <2>2 DEF MarksOf
  <2>5. my[t].next = Len(part[t]) => \A i \in DOMAIN part'[t] : part'[t][i] # "saved"
    BY <1>2, <1>3, <2>1, <2>2, <2>4
  <2>6. \A i \in DOMAIN part'[t] : part'[t][i] = "delivered" => Taken(t, i)'
    BY <1>1, <1>3, <1>4, <1>5, <2>1 DEF MarksOf
  <2> QED BY <2>3, <2>4, <2>5, <2>6 DEF MarksOf, Marked, BeforeReply, Delivering
\* Nothing more is sent.
<1>6. ASSUME pc[t] \in Delivering, part' = [part EXCEPT ![t] = FailFrom(@, my[t].next)],
             pc'[t] \in {"finish", "done"}
      PROVE  MarksOf(t)'
  <2>1. part'[t] = FailFrom(part[t], my[t].next)
    BY <1>1, <1>6
  <2>2. \A i \in DOMAIN part[t] : i < my[t].next => part[t][i] # "saved"
    BY <1>1, <1>6 DEF MarksOf
  <2>3. my[t].next \in 1..(Len(part[t]) + 1)
    BY <1>3, <1>6
  <2>4. \A i \in DOMAIN part'[t] :
          /\ part'[t][i] # "saved"
          /\ part'[t][i] = "delivered" => i \in DOMAIN part[t] /\ part[t][i] = "delivered"
    BY <1>1, <2>1, <2>2, <2>3, FailedFrom
  <2>5. \A i \in DOMAIN part'[t] : part'[t][i] = "delivered" => Taken(t, i)'
    BY <1>1, <1>4, <2>4 DEF MarksOf
  <2> QED BY <1>6, <2>4, <2>5 DEF MarksOf, Marked, BeforeReply, Delivering
<1>7. CASE SkipEmpty(t)
  BY <1>5, <1>7 DEF SkipEmpty, Delivering
<1>8. CASE MarkDelivered(t)
  <2>1. pc[t] = "taken" /\ Taken(t, my[t].next)
    BY <1>1, <1>8 DEF MarkDelivered, MarksOf
  <2> QED BY <1>5, <1>8, <2>1 DEF MarkDelivered, Delivering
<1>9. CASE SendBlocked(t) \/ VkForbids(t) \/ SendFails(t)
  <2>1. /\ pc[t] \in Delivering /\ part' = [part EXCEPT ![t] = FailFrom(@, my[t].next)]
        /\ pc'[t] \in {"finish", "done"}
    BY <1>1, <1>9 DEF SendBlocked, VkForbids, SendFails, Release, Delivering
  <2> QED BY <1>6, <2>1
<1>10. CASE Send(t)
  <2>1. pc[t] = "deliver" /\ pc'[t] = "sending" /\ UNCHANGED <<part, my, wire>>
    BY <1>1, <1>10 DEF Send
  <2> QED BY <1>1, <1>4, <2>1 DEF MarksOf, BeforeReply, Delivering
<1>11. CASE VkAccepts(t)
  <2>1. /\ pc[t] = "sending" /\ pc'[t] = "taken" /\ UNCHANGED <<part, my>>
        /\ wire' = Append(wire, ThisPart(t))
    BY <1>1, <1>11 DEF VkAccepts
  <2>2. Taken(t, my[t].next)'
    BY <2>1, WireGrows DEF Taken, ThisPart
  <2> QED BY <1>1, <1>4, <2>1, <2>2 DEF MarksOf, BeforeReply, Delivering
<1>12. CASE Finish(t)
  <2>1. pc[t] = "finish" /\ pc'[t] = "done" /\ UNCHANGED <<part, my, wire>>
    BY <1>1, <1>12 DEF Finish, Release
  <2> QED BY <1>1, <1>4, <2>1 DEF MarksOf, Marked, BeforeReply, Delivering
<1> QED BY <1>7, <1>8, <1>9, <1>10, <1>11, <1>12 DEF DeliverParts

\* A reply that was let go leaves no part unmarked while the process lives, and a part
\* that counts as delivered did reach the client (outgoing.py, webhook.py:635-692).
THEOREM MarksStayHonest == Spec => []MarksAreHonest
<1>1. Init => MarksInv
  <2> SUFFICES ASSUME Init, NEW t \in Tasks PROVE MarksOf(t)
    BY DEF MarksInv
  <2>1. pc[t] = "idle" /\ part[t] = <<>>
    BY DEF Init
  <2>2. DOMAIN part[t] = {}
    BY <2>1
  <2> QED BY <2>1, <2>2 DEF MarksOf, Marked, Delivering
<1>2. TypeInv /\ LockInv /\ MarksInv /\ [Next]_vars => MarksInv'
  <2> SUFFICES ASSUME TypeInv, LockInv, MarksInv, [Next]_vars PROVE MarksInv'
    OBVIOUS
  <2>1. ASSUME NEW t \in Tasks, Handle(t) PROVE MarksInv'
    <3>1. MarksOf(t)'
      BY <2>1, PrepareMarks, RunMarks, DeliverMarks DEF Handle
    <3>2. ASSUME NEW u \in Tasks, u # t PROVE MarksOf(u)'
      <4>1. MarksOf(u) /\ pc'[u] = pc[u] /\ my'[u] = my[u] /\ part'[u] = part[u] /\ UNCHANGED crashes
        BY <2>1, <3>2, HandlerStep DEF MarksInv
      <4>2. \A i : Taken(u, i) => Taken(u, i)'
        BY <2>1, TakenStays
      <4> QED BY <4>1, <4>2 DEF MarksOf, Marked
    <3> QED BY <3>1, <3>2 DEF MarksInv
  <2>2. CASE Replies \/ Environment \/ UNCHANGED vars
    <3> SUFFICES ASSUME NEW u \in Tasks PROVE MarksOf(u)'
      BY DEF MarksInv
    <3>1. /\ UNCHANGED <<wire, part>>
          /\ \/ pc'[u] = pc[u]
             \/ pc[u] = "idle" /\ pc'[u] = "lookup"
             \/ pc'[u] = "done" /\ crashes' # 0
          /\ pc[u] # "idle" => my'[u] = my[u]
          /\ my'[u].outcome = my[u].outcome
          /\ crashes' = 0 => crashes = 0
      BY <2>2, OthersDelivery
    <3>2. MarksOf(u) /\ \A i : Taken(u, i)' <=> Taken(u, i)
      BY <3>1 DEF MarksInv, Taken
    <3> QED BY <3>1, <3>2 DEF MarksOf, Marked, BeforeReply, Delivering
  <2> QED BY <2>1, <2>2 DEF Next
<1>3. MarksInv => MarksAreHonest
  BY DEF MarksInv, MarksOf, MarksAreHonest, Taken, Marked
<1> QED BY <1>1, <1>2, <1>3, Inductive, PTL DEF Spec
=============================================================================
