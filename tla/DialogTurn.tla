----------------------------- MODULE DialogTurn -----------------------------
(***************************************************************************)
(* One VK dialog, from the webhook to the client's phone.                  *)
(*                                                                         *)
(* Every delivered "message_new" event runs handle_message_new in a task   *)
(* of its own (schedule_event) with a database session of its own; the     *)
(* tasks of one dialog meet at dialog_lock, run the model under it and     *)
(* send the parts of the reply one by one.  Next to them run the handler   *)
(* of "message_reply" (the echo of what we sent, or a human writing from   *)
(* VK itself) and the panel's pause, resume and reply endpoints.  VK may   *)
(* deliver any event again and the single process may die at any moment.   *)
(*                                                                         *)
(* A step is what happens between two awaits that matter: a commit, a      *)
(* read, a call to VK.  The database is PostgreSQL at READ COMMITTED:      *)
(* variables of the first group hold what is committed.  A transaction     *)
(* that has flushed an UPDATE of the dialogs row keeps that row locked     *)
(* until it ends, and every other transaction that writes the row waits    *)
(* (rowLock).  Texts, statuses, pings and chunks of a long text are        *)
(* abstracted away: a reply is a sequence of parts, a part is a mark.      *)
(***************************************************************************)
EXTENDS Naturals, Sequences

CONSTANTS
  Tasks,       \* handlers of message_new, one for each delivery of an event
  Msgs,        \* messages the client writes (external_message_id)
  Panel,       \* the panel's request, as an owner of the dialogs row
  NoOne,       \* no owner
  MaxParts,    \* most parts of a reply (bound)
  MaxHuman,    \* most things the people do: write from VK, use the panel (bound)
  MaxCrashes   \* most restarts of the process (bound)

ASSUME Constants ==
  /\ MaxParts \in Nat \ {0}
  /\ MaxHuman \in Nat
  /\ MaxCrashes \in Nat
  /\ Panel \notin Tasks
  /\ NoOne \notin Tasks \cup {Panel}

VARIABLES
  (* committed in the database *)
  inbox,       \* the client's messages in the order of Message.id
  aiRun,       \* messages some AIRun.input_message_id refers to
  paused,      \* Dialog.ai_paused
  blocked,     \* Dialog.vk_blocked
  curator,     \* the dialog has a message with the role curator
  part,        \* for each task, the delivery marks of the parts of its reply
  dropped,     \* tasks whose run saved a message and left it out of the reply
  rowLock,     \* the transaction that holds the dialogs row
  (* memory of the process *)
  pc,          \* where each task is
  my,          \* what each task keeps in its local variables
  lockQ,       \* dialog_lock: its holder and, behind it, those who wait
  ownIds,      \* _OUR_RANDOM_IDS: parts whose random_id we remember
  panel,       \* the panel's reply_as_manager
  seen,        \* what the handler of a human's message_reply has read of ai_paused
  (* the messenger and the people *)
  wire,        \* parts VK accepted, in order
  echo,        \* accepted parts whose message_reply has not been handled yet
  vkReplies,   \* messages a human wrote from VK, not handled yet
  takenOver,   \* a human's takeover and its pause are committed and not given back
  acts,        \* how many things the people have done
  crashes      \* how many times the process has died

database == <<inbox, aiRun, paused, blocked, curator, part, dropped>>
memory   == <<lockQ, ownIds, panel, seen>>
outside  == <<wire, echo, vkReplies, takenOver, acts, crashes>>
vars == <<database, rowLock, pc, my, memory, outside>>

Mark    == {"saved", "delivered", "failed"}
Outcome == {"none", "reply", "held", "failed"}
PartId  == Tasks \X (1..MaxParts)

Steps == {"idle", "lookup", "skip", "reprocess", "store", "enter", "wait",
          "grace", "run", "model", "check", "deliver", "sending", "taken",
          "finish", "done"}

\* Steps a task makes while it holds dialog_lock.
InTurn  == {"grace", "run", "model", "check", "deliver", "sending", "taken", "finish"}
Running == {"run", "model"}

Local == [msg : Msgs \cup {NoOne},  \* the event's message
          unblock : BOOLEAN,        \* vk_blocked was set when the dialog was loaded
          blocked : BOOLEAN,        \* vk_blocked as last refreshed
          greet : BOOLEAN,          \* the run is the scripted greeting
          outcome : Outcome,        \* what run_ai returned
          next : 1..(MaxParts + 1)] \* the part to send next

Stored == {inbox[i] : i \in DOMAIN inbox}

\* A mutant: yielding to any other message of the client, newer or older.
SupersededByAny(m) == \E i, j \in DOMAIN inbox : i # j /\ inbox[i] = m
\* A mutant: never yielding.
SupersededByNone(m) == m = NoOne

\* superseded_by_newer_message: a client's message has a larger id.
Superseded(m) == \E i, j \in DOMAIN inbox : i < j /\ inbox[i] = m

\* dialog_has_outgoing: any message of the roles ai and curator.
HasOutgoing == curator \/ dropped # {} \/ \E t \in Tasks : part[t] # <<>>

RowFreeFor(a) == rowLock \in {NoOne, a}

\* A mutant: only the part that failed is marked, not those behind it.
FailOne(marks, i) == [marks EXCEPT ![i] = "failed"]

\* The marks after mark_failed on part number i and everything behind it.
FailFrom(marks, i) == [j \in DOMAIN marks |-> IF j < i THEN marks[j] ELSE "failed"]

Goto(t, step) == pc' = [pc EXCEPT ![t] = step]

\* A mutant: an exit that leaves dialog_lock locked.
ReleaseForgotten(t) == Goto(t, "done") /\ UNCHANGED lockQ

\* Leaving "async with dialog_lock": the next in the queue becomes the holder.
Release(t) == /\ Goto(t, "done")
              /\ lockQ' = Tail(lockQ)

\* The dialog is known and empty.  It is paused from the start when the client's
\* ref tag does not allow the AI or the conversation began before us.
Init ==
  /\ inbox = <<>> /\ aiRun = {} /\ paused \in BOOLEAN /\ blocked = FALSE
  /\ curator = FALSE /\ part = [t \in Tasks |-> <<>>] /\ dropped = {}
  /\ rowLock = NoOne
  /\ pc = [t \in Tasks |-> "idle"]
  /\ my = [t \in Tasks |-> [msg |-> NoOne, unblock |-> FALSE, blocked |-> FALSE,
                            greet |-> FALSE, outcome |-> "none", next |-> 1]]
  /\ lockQ = <<>> /\ ownIds = {} /\ panel = "idle" /\ seen = "none"
  /\ wire = <<>> /\ echo = {} /\ vkReplies = 0 /\ takenOver = FALSE
  /\ acts = 0 /\ crashes = 0

-----------------------------------------------------------------------------
(* handle_message_new up to its commit *)

\* VK delivers the event of m, for the first time or again.
Deliver(t, m) ==
  /\ pc[t] = "idle"
  /\ Goto(t, "lookup")
  /\ my' = [my EXCEPT ![t].msg = m]
  /\ UNCHANGED <<database, rowLock, memory, outside>>

\* The dialog and the deduplication are read: a message with an AIRun is
\* skipped, one without is processed again, an unknown one is stored.
Lookup(t) ==
  LET m == my[t].msg IN
  /\ pc[t] = "lookup"
  /\ \/ m \in Stored /\ m \in aiRun /\ Goto(t, "skip")
     \/ m \in Stored /\ m \notin aiRun /\ Goto(t, "reprocess")
     \/ m \notin Stored /\ Goto(t, "store")
  /\ my' = [my EXCEPT ![t].unblock = blocked]
  /\ UNCHANGED <<database, rowLock, memory, outside>>

\* vk_blocked is written only if it was set when the dialog was loaded.
Unblocked(t) == blocked /\ ~my[t].unblock

CommitSkip(t) ==
  /\ pc[t] = "skip"
  /\ my[t].unblock => rowLock = NoOne
  /\ blocked' = Unblocked(t)
  /\ Goto(t, "done")
  /\ UNCHANGED <<inbox, aiRun, paused, curator, part, dropped, rowLock, my, memory, outside>>

CommitReprocess(t) ==
  /\ pc[t] = "reprocess"
  /\ my[t].unblock => rowLock = NoOne
  /\ blocked' = Unblocked(t)
  /\ Goto(t, "enter")
  /\ UNCHANGED <<inbox, aiRun, paused, curator, part, dropped, rowLock, my, memory, outside>>

\* last_message_at makes the flush lock the dialogs row before the message gets
\* its id, so ids are in the order of the commits.  The unique index on
\* (dialog_id, external_message_id) turns the loser of a race away.
Store(t) ==
  LET m == my[t].msg IN
  /\ pc[t] = "store"
  /\ rowLock = NoOne
  /\ \/ /\ m \in Stored
        /\ Goto(t, "done")
        /\ UNCHANGED <<inbox, blocked>>
     \/ /\ m \notin Stored
        /\ inbox' = Append(inbox, m)
        /\ blocked' = Unblocked(t)
        /\ Goto(t, "enter")
  /\ UNCHANGED <<aiRun, paused, curator, part, dropped, rowLock, my, memory, outside>>

-----------------------------------------------------------------------------
(* The turn: everything under dialog_lock *)

\* A mutant: the registry hands out a new lock although the old one is held.
EnterNewLock(t) ==
  /\ pc[t] = "enter"
  /\ lockQ' = <<t>> \o lockQ
  /\ Goto(t, "wait")
  /\ UNCHANGED <<database, rowLock, my, ownIds, panel, seen, outside>>

\* asyncio.Lock is fair: who comes later waits behind those who wait.
Enter(t) ==
  /\ pc[t] = "enter"
  /\ lockQ' = Append(lockQ, t)
  /\ Goto(t, "wait")
  /\ UNCHANGED <<database, rowLock, my, ownIds, panel, seen, outside>>

\* The lock is ours; a paused dialog gets no run, otherwise the grace period
\* starts.
Acquire(t) ==
  /\ pc[t] = "wait"
  /\ lockQ # <<>> /\ Head(lockQ) = t
  /\ \/ paused /\ Release(t)
     \/ ~paused /\ Goto(t, "grace") /\ UNCHANGED lockQ
  /\ UNCHANGED <<database, rowLock, my, ownIds, panel, seen, outside>>

\* After the grace period: paused meanwhile, or the client wrote more.
Yield(t) ==
  /\ pc[t] = "grace"
  /\ paused \/ Superseded(my[t].msg)
  /\ Release(t)
  /\ UNCHANGED <<database, rowLock, my, ownIds, panel, seen, outside>>

\* run_ai starts.  The scripted greeting is for a dialog without outgoing
\* messages, if such a script exists and the conversation began with us.
StartRun(t, greet) ==
  /\ pc[t] = "grace"
  /\ ~paused /\ ~Superseded(my[t].msg)
  /\ greet => ~HasOutgoing
  /\ Goto(t, "run")
  /\ my' = [my EXCEPT ![t].greet = greet, ![t].blocked = blocked]
  /\ UNCHANGED <<database, rowLock, memory, outside>>

\* detect_stage found another stage: dialog.funnel_stage is dirty, the next
\* SELECT flushes it, and the row stays locked while the model is thinking.
ChangeStage(t) ==
  /\ pc[t] = "run"
  /\ ~my[t].greet
  /\ rowLock = NoOne
  /\ rowLock' = t
  /\ Goto(t, "model")
  /\ UNCHANGED <<database, my, memory, outside>>

\* A mutant: the run writes the value it loaded over what was committed meanwhile.
PausedAsLoaded(pause) == pause

\* run_ai only ever sets ai_paused: the ORM writes the column only when the run
\* changed it, so a pause committed meanwhile survives.
PausedAfter(pause) == paused \/ pause

\* run_ai commits its AIRun and the messages of the reply.  A held reply
\* (need_curator) pauses the dialog; a reply that hands over to a manager pauses
\* it too and is still sent.  The greeting's AIRun has no input_message_id.  Of
\* the model's reply, parts that repeat the history, ask a second question or name
\* another price are left out after their messages have been saved.
CommitRun(t, n, leftOut, outcome, pause) ==
  /\ pc[t] \in Running
  /\ RowFreeFor(t)
  /\ outcome = "held" => pause
  /\ my[t].greet => n > 0 /\ ~leftOut
  /\ n = 0 => leftOut
  /\ dropped' = IF leftOut THEN dropped \cup {t} ELSE dropped
  /\ aiRun' = IF my[t].greet THEN aiRun ELSE aiRun \cup {my[t].msg}
  /\ part' = [part EXCEPT ![t] = [i \in 1..n |-> "saved"]]
  /\ paused' = PausedAfter(pause)
  /\ rowLock' = NoOne
  /\ my' = [my EXCEPT ![t].outcome = outcome]
  /\ Goto(t, "check")
  /\ UNCHANGED <<inbox, blocked, curator, memory, outside>>

\* The model failed or AI_RUNNER_TIMEOUT passed: log_failed_run commits an AIRun
\* in a session of its own, the exception ends the handler and rolls back.
FailRun(t) ==
  /\ pc[t] \in Running
  /\ aiRun' = IF my[t].greet THEN aiRun ELSE aiRun \cup {my[t].msg}
  /\ rowLock' = IF rowLock = t THEN NoOne ELSE rowLock
  /\ my' = [my EXCEPT ![t].outcome = "failed"]
  /\ Release(t)
  /\ UNCHANGED <<inbox, paused, blocked, curator, part, dropped, ownIds, panel, seen, outside>>

\* The client wrote while the model was thinking: nothing of the reply is sent.
Withdraw(t) ==
  /\ pc[t] = "check"
  /\ Superseded(my[t].msg)
  /\ part' = [part EXCEPT ![t] = FailFrom(@, 1)]
  /\ Release(t)
  /\ UNCHANGED <<inbox, aiRun, paused, blocked, curator, dropped, rowLock, my, ownIds, panel, seen, outside>>

HoldReply(t) ==
  /\ pc[t] = "check"
  /\ ~Superseded(my[t].msg)
  /\ my[t].outcome = "held"
  /\ Release(t)
  /\ UNCHANGED <<database, rowLock, my, ownIds, panel, seen, outside>>

GoDeliver(t) ==
  /\ pc[t] = "check"
  /\ ~Superseded(my[t].msg)
  /\ my[t].outcome = "reply"
  /\ Goto(t, IF part[t] = <<>> THEN "finish" ELSE "deliver")
  /\ UNCHANGED <<database, rowLock, my, memory, outside>>

-----------------------------------------------------------------------------
(* deliver_parts *)

ThisPart(t) == <<t, my[t].next>>

\* A mutant: one part more than the reply has.
NextPartOffByOne(t) == /\ my' = [my EXCEPT ![t].next = @ + 1]
                       /\ Goto(t, IF my[t].next > Len(part[t]) THEN "finish" ELSE "deliver")

NextPart(t) == /\ my' = [my EXCEPT ![t].next = @ + 1]
               /\ Goto(t, IF my[t].next = Len(part[t]) THEN "finish" ELSE "deliver")

\* A part whose text was dropped is marked as not delivered.
SkipEmpty(t) ==
  /\ pc[t] = "deliver"
  /\ part' = [part EXCEPT ![t][my[t].next] = "failed"]
  /\ NextPart(t)
  /\ UNCHANGED <<inbox, aiRun, paused, blocked, curator, dropped, rowLock, memory, outside>>

\* send_to_dialog refuses by itself a dialog loaded as blocked.
SendBlocked(t) ==
  /\ pc[t] = "deliver"
  /\ my[t].blocked
  /\ part' = [part EXCEPT ![t] = FailFrom(@, my[t].next)]
  /\ Release(t)
  /\ UNCHANGED <<inbox, aiRun, paused, blocked, curator, dropped, rowLock, my, ownIds, panel, seen, outside>>

\* The random_id is remembered before VK is called.
Send(t) ==
  /\ pc[t] = "deliver"
  /\ ~my[t].blocked
  /\ ownIds' = ownIds \cup {ThisPart(t)}
  /\ Goto(t, "sending")
  /\ UNCHANGED <<database, rowLock, my, lockQ, panel, seen, outside>>

\* VK accepts the message: the client sees it, and its echo is on the way.
VkAccepts(t) ==
  /\ pc[t] = "sending"
  /\ wire' = Append(wire, ThisPart(t))
  /\ echo' = echo \cup {ThisPart(t)}
  /\ Goto(t, "taken")
  /\ UNCHANGED <<database, rowLock, my, memory, vkReplies, takenOver, acts, crashes>>

\* VK answers 900, 901 or 902: vk_blocked is set and nothing more is sent.
VkForbids(t) ==
  /\ pc[t] = "sending"
  /\ rowLock = NoOne
  /\ blocked' = TRUE
  /\ part' = [part EXCEPT ![t] = FailFrom(@, my[t].next)]
  /\ Release(t)
  /\ UNCHANGED <<inbox, aiRun, paused, curator, dropped, rowLock, my, ownIds, panel, seen, outside>>

\* Any other error, or an answer that never came although VK took the message.
SendFails(t) ==
  /\ pc[t] \in {"sending", "taken"}
  /\ part' = [part EXCEPT ![t] = FailFrom(@, my[t].next)]
  /\ Goto(t, "finish")
  /\ UNCHANGED <<inbox, aiRun, paused, blocked, curator, dropped, rowLock, my, memory, outside>>

\* The answer arrived: the part is marked delivered and committed at once.
MarkDelivered(t) ==
  /\ pc[t] = "taken"
  /\ part' = [part EXCEPT ![t][my[t].next] = "delivered"]
  /\ NextPart(t)
  /\ UNCHANGED <<inbox, aiRun, paused, blocked, curator, dropped, rowLock, memory, outside>>

AnyDelivered(t) == \E i \in DOMAIN part[t] : part[t][i] = "delivered"

\* If anything was sent, last_message_at and the status are written.
Finish(t) ==
  /\ pc[t] = "finish"
  /\ AnyDelivered(t) => rowLock = NoOne
  /\ Release(t)
  /\ UNCHANGED <<database, rowLock, my, ownIds, panel, seen, outside>>

-----------------------------------------------------------------------------
(* handle_message_reply *)

\* A mutant: only the committed marks are looked up.
IsMarkedDelivered(p) == part[p[1]][p[2]] = "delivered"

\* is_our_echo: first the memory of the process, then the committed marks.
IsOurEcho(p) == p \in ownIds \/ part[p[1]][p[2]] = "delivered"

\* Our own message comes back.  Taken for a human's, it pauses the dialog.
EchoOfOurs(p) ==
  /\ p \in echo
  /\ echo' = echo \ {p}
  /\ \/ IsOurEcho(p) /\ UNCHANGED <<paused, curator>>
     \/ ~IsOurEcho(p) /\ rowLock = NoOne /\ paused' = TRUE /\ curator' = TRUE
  /\ UNCHANGED <<inbox, aiRun, blocked, part, dropped, rowLock, pc, my, memory,
                 wire, vkReplies, takenOver, acts, crashes>>

\* A human writes to the client from VK itself.
HumanWritesInVk ==
  /\ acts < MaxHuman
  /\ acts' = acts + 1
  /\ vkReplies' = vkReplies + 1
  /\ UNCHANGED <<database, rowLock, pc, my, memory, wire, echo, takenOver, crashes>>

\* The event of that message: the dialog is loaded, then the echo is looked up.
\* Events are taken one at a time (bound).
HumanReplyRead ==
  /\ vkReplies > 0 /\ seen = "none"
  /\ vkReplies' = vkReplies - 1
  /\ seen' = IF paused THEN "paused" ELSE "active"
  /\ UNCHANGED <<database, rowLock, pc, my, lockQ, ownIds, panel, wire, echo, takenOver, acts, crashes>>

\* A takeover, or a text is_broadcast recognises.  The pause is written only if
\* the dialog was loaded without one.
HumanReplyStored(broadcast) ==
  /\ seen # "none"
  /\ rowLock = NoOne
  /\ seen' = "none"
  /\ curator' = TRUE
  /\ paused' = (paused \/ (~broadcast /\ seen = "active"))
  /\ takenOver' = (takenOver \/ (~broadcast /\ paused'))
  /\ UNCHANGED <<inbox, aiRun, blocked, part, dropped, rowLock, pc, my, lockQ, ownIds, panel,
                 wire, echo, vkReplies, acts, crashes>>

-----------------------------------------------------------------------------
(* The panel *)

\* set_ai_pause.
SetAiPause(value) ==
  /\ acts < MaxHuman
  /\ paused # value
  /\ rowLock = NoOne
  /\ acts' = acts + 1
  /\ paused' = value
  /\ takenOver' = value
  /\ UNCHANGED <<inbox, aiRun, blocked, curator, part, dropped, rowLock, pc, my, memory,
                 wire, echo, vkReplies, crashes>>

\* reply_as_manager sets the pause and flushes it before it calls the messenger.
PanelReply ==
  /\ acts < MaxHuman
  /\ panel = "idle"
  /\ rowLock = NoOne
  /\ acts' = acts + 1
  /\ panel' = "sending"
  /\ rowLock' = IF paused THEN NoOne ELSE Panel
  /\ UNCHANGED <<database, pc, my, lockQ, ownIds, seen, wire, echo, vkReplies, takenOver, crashes>>

\* The messenger answered; the pause is committed with the message.
PanelReplied(forbidden) ==
  /\ panel = "sending"
  /\ RowFreeFor(Panel)
  /\ panel' = "idle"
  /\ rowLock' = NoOne
  /\ paused' = (paused \/ rowLock = Panel)
  /\ takenOver' = paused'
  /\ curator' = TRUE
  /\ blocked' = (blocked \/ forbidden)
  /\ UNCHANGED <<inbox, aiRun, part, dropped, pc, my, lockQ, ownIds, seen, wire, echo, vkReplies,
                 acts, crashes>>

-----------------------------------------------------------------------------
\* The process dies: tasks, locks and remembered ids are gone, transactions are
\* rolled back.  The committed rows and what VK has still to deliver remain.
Crash ==
  /\ crashes < MaxCrashes
  /\ crashes' = crashes + 1
  /\ pc' = [t \in Tasks |-> IF pc[t] = "idle" THEN "idle" ELSE "done"]
  /\ lockQ' = <<>> /\ ownIds' = {} /\ panel' = "idle" /\ seen' = "none" /\ rowLock' = NoOne
  /\ UNCHANGED <<database, my, wire, echo, vkReplies, takenOver, acts>>

Prepare(t) == Lookup(t) \/ CommitSkip(t) \/ CommitReprocess(t) \/ Store(t) \/ Enter(t)

RunTurn(t) ==
  \/ Acquire(t) \/ Yield(t) \/ ChangeStage(t) \/ FailRun(t)
  \/ \E greet \in BOOLEAN : StartRun(t, greet)
  \/ \E n \in 0..MaxParts, leftOut, pause \in BOOLEAN, outcome \in {"reply", "held"} :
       /\ leftOut => n < MaxParts
       /\ CommitRun(t, n, leftOut, outcome, pause)
  \/ Withdraw(t) \/ HoldReply(t) \/ GoDeliver(t)

DeliverParts(t) ==
  \/ SkipEmpty(t) \/ SendBlocked(t) \/ Send(t) \/ VkAccepts(t) \/ VkForbids(t)
  \/ SendFails(t) \/ MarkDelivered(t) \/ Finish(t)

Handle(t) == Prepare(t) \/ RunTurn(t) \/ DeliverParts(t)

Replies == \/ \E p \in PartId : EchoOfOurs(p)
           \/ HumanReplyRead
           \/ \E broadcast \in BOOLEAN : HumanReplyStored(broadcast)
           \/ \E forbidden \in BOOLEAN : PanelReplied(forbidden)

Environment ==
  \/ \E t \in Tasks, m \in Msgs : Deliver(t, m)
  \/ HumanWritesInVk \/ PanelReply \/ \E value \in BOOLEAN : SetAiPause(value)
  \/ Crash

Next == (\E t \in Tasks : Handle(t)) \/ Replies \/ Environment

Spec == Init /\ [][Next]_vars

\* A scheduled task goes on; the model answers or times out, so does VK; the
\* people, VK's deliveries and the crashes are owed nothing.
Fairness == /\ \A t \in Tasks : WF_vars(Handle(t))
            /\ WF_vars(Replies)
FairSpec == Spec /\ Fairness

-----------------------------------------------------------------------------
TypeOK ==
  /\ inbox \in Seq(Msgs) /\ aiRun \in SUBSET Msgs
  /\ paused \in BOOLEAN /\ blocked \in BOOLEAN /\ curator \in BOOLEAN
  /\ part \in [Tasks -> Seq(Mark)] /\ dropped \in SUBSET Tasks
  /\ rowLock \in Tasks \cup {Panel, NoOne}
  /\ pc \in [Tasks -> Steps] /\ my \in [Tasks -> Local]
  /\ lockQ \in Seq(Tasks) /\ ownIds \in SUBSET PartId /\ panel \in {"idle", "sending"}
  /\ seen \in {"none", "active", "paused"}
  /\ wire \in Seq(PartId) /\ echo \in SUBSET PartId
  /\ vkReplies \in Nat /\ takenOver \in BOOLEAN
  /\ acts \in 0..MaxHuman /\ crashes \in 0..MaxCrashes
-----------------------------------------------------------------------------
(* Safety *)

\* Two runs of one dialog never overlap, neither with each other nor with the
\* sending of a reply: dialog_lock's promise (dialog_lock.py:1-10).
OneTurnAtATime ==
  \A t, u \in Tasks : pc[t] \in InTurn /\ pc[u] \in InTurn => t = u

\* dialog_lock as this dialog uses it: a fair mutex that a restart empties.
Mutex == INSTANCE FairMutex WITH
  Dialogs <- {"this"},
  queue <- [d \in {"this"} |-> lockQ],
  inside <- {t \in Tasks : pc[t] \in InTurn}

LockIsFairMutex == Mutex!Spec

\* The parts of one reply reach the client in one piece: no part of another
\* turn between them, although 2 seconds pass between two sends.
TurnsNeverInterleave ==
  \A i, j, k \in DOMAIN wire :
    i < j /\ j < k /\ wire[i][1] = wire[k][1] => wire[j][1] = wire[i][1]

\* The client is never answered on an older message after a newer one, whatever
\* the order in which handlers reach the lock and however often VK repeats itself.
AnswersInOrder ==
  \A i, j \in DOMAIN wire, k, l \in DOMAIN inbox :
    /\ i < j
    /\ inbox[k] = my[wire[i][1]].msg
    /\ inbox[l] = my[wire[j][1]].msg
    => k <= l

\* A reply that was let go leaves no part without a mark, because an unmarked part
\* counts as delivered when the history is built (was_delivered), and a part
\* marked delivered did reach VK.  A crash may leave unmarked parts behind.
MarksAreHonest ==
  \A t \in Tasks : \A i \in DOMAIN part[t] :
    /\ part[t][i] = "delivered" => \E k \in DOMAIN wire : wire[k] = <<t, i>>
    /\ crashes = 0 /\ pc[t] = "done" /\ my[t].outcome = "reply" => part[t][i] # "saved"

\* While the process lives, every echo still to come will be taken for our own,
\* even before the commit of the part's mark and after a lost answer of VK.
OwnEchoIsRecognised == crashes = 0 => \A p \in echo : IsOurEcho(p)

\* A takeover a human has committed stays in force until the panel gives the
\* dialog back, whatever commits of running turns land after it.
TakeoverHolds == takenOver => paused

-----------------------------------------------------------------------------
(* Liveness *)

Newest(m) == inbox # <<>> /\ inbox[Len(inbox)] = m

Attempted(m) == \E t \in Tasks : my[t].msg = m /\ my[t].outcome # "none"

\* A handler on its way to the lock does not lose its message: a run for it is
\* made, or the dialog is paused, or the client has written more.  Handlers that
\* yield to a newer message rely on the newer one's handler to do the work.
MessageIsTakenUp ==
  \A t \in Tasks : (pc[t] = "enter") ~>
    (Attempted(my[t].msg) \/ paused \/ ~Newest(my[t].msg))

\* No handler waits for ever, neither for dialog_lock nor for the dialogs row.
EveryHandlerEnds == \A t \in Tasks : (pc[t] = "lookup") ~> (pc[t] = "done")
=============================================================================
