------------------------------ MODULE MaxDialog ------------------------------
(***************************************************************************)
(* One dialog of a MAX bot.  MAX tells nobody what is written in the name  *)
(* of the bot, so what a manager writes past the panel is found by reading *)
(* the history of the chat and telling the bot's own messages from his     *)
(* (max/manager_watch.py).  This is done by a watcher in the background    *)
(* and by a guard before a turn or the silent greeting sends anything.     *)
(* Turns come from MAX's events (max/webhook.py): the client writes,       *)
(* presses the start button, or sends "/start".                            *)
(*                                                                         *)
(* A position in the chat stands for MAX's mid and for the time of a       *)
(* message.  Its word is the row whose text it repeats, 0 if none: a       *)
(* manager may well repeat words of ours, and MAX returns a picture under  *)
(* another address than the one we sent.  Rows are numbered as the         *)
(* database numbers them, when they are flushed; a row that is open has    *)
(* not been committed and nobody else sees it.                             *)
(***************************************************************************)
EXTENDS Naturals, Sequences, FiniteSets, FiniteSetsExt

CONSTANTS
  Events,       \* events of MAX about this chat, one task each
  Watch,        \* the watcher's pass over this dialog (watch_once)
  Silent,       \* the pass that sends the price to the silent (send_price_to_silent)
  GuardHistory, \* _GUARD_HISTORY
  WatchHistory, \* _WATCH_HISTORY
  OurLookback,  \* _OUR_LOOKBACK
  OwnBurst,     \* _OWN_BURST_SECONDS, in messages of the chat
  MaxHappenings \* most events, things managers do, passes of the silent greeting and
                \* restarts together (bound)

Procs == Events \cup {Watch, Silent}

ASSUME Constants ==
  /\ {GuardHistory, WatchHistory, OurLookback} \subseteq Nat \ {0}
  /\ {OwnBurst, MaxHappenings} \subseteq Nat
  /\ Watch \notin Events /\ Silent \notin Events /\ Watch # Silent

VARIABLES
  chat,      \* the chat as MAX keeps it
  rows,      \* messages of the dialog
  known,     \* the client and the dialog exist
  paused,    \* Dialog.ai_paused
  blocked,   \* Dialog.vk_blocked
  stage,     \* Dialog.funnel_stage
  chatId,    \* Client.max_chat_id is set
  lock,      \* who holds dialog_lock
  my,        \* local state of each process
  greetings, \* how many scripted greetings were made
  happenings \* how much has happened

database == <<rows, known, paused, blocked, stage, chatId>>
counts   == <<greetings, happenings>>
vars == <<chat, database, lock, my, counts>>

Roles == {"client", "ai", "operator", "gone"}  \* operator: max_operator; gone: rolled back
Row   == [role : Roles, mids : SUBSET Nat, at : Nat, open : BOOLEAN]
Entry == [hand : {"client", "turn", "silent", "manager"}, word : Nat]
Part  == [row : Nat, pieces : 1..2, picture : BOOLEAN]

Steps == {"idle", "first", "store", "wait", "run", "write", "guard", "record",
          "send", "mark", "done", "fetch", "picked", "compose"}

Local == [step : Steps, kind : {"message", "start", "-"},
          new : BOOLEAN, saw : BOOLEAN, greets : BOOLEAN, message : Nat, read : Nat,
          found : SUBSET Nat, parts : Seq(Part), sent : SUBSET Nat]

Idle == [step |-> "idle", kind |-> "-", new |-> FALSE, saw |-> FALSE, greets |-> FALSE, message |-> 0,
         read |-> 0, found |-> {}, parts |-> <<>>, sent |-> {}]

TypeOK ==
  /\ chat \in Seq(Entry)
  /\ rows \in Seq(Row)
  /\ {known, paused, blocked, chatId} \subseteq BOOLEAN
  /\ stage \in {"greeting", "pricing"}
  /\ lock \in Events \cup {Watch}
  /\ my \in [Procs -> Local]
  /\ greetings \in Nat /\ happenings \in 0..MaxHappenings

Init ==
  /\ chat = <<>> /\ rows = <<>>
  /\ known = FALSE /\ paused = FALSE /\ blocked = FALSE
  /\ stage = "pricing" /\ chatId = FALSE
  /\ lock = Watch              \* nobody: the watcher takes no dialog_lock
  /\ my = [p \in Procs |-> Idle]
  /\ greetings = 0 /\ happenings = 0

Happens == happenings < MaxHappenings /\ happenings' = happenings + 1

Go(p, step) == my' = [my EXCEPT ![p].step = step]

\* The task is over and its local variables with it.
End(e) == my' = [my EXCEPT ![e] = [Idle EXCEPT !.step = "done"]]

\* remember_chat_id: a message names the chat, the button's event does not.
ChatIdAfter(kind) == IF kind = "message" THEN {TRUE} ELSE {chatId, TRUE}

\* The turn is over: dialog_lock is given up and, unless the event was the button's,
\* the chat's id is remembered (_remember_dialog_chat).
EndTurn(e) ==
  /\ End(e)
  /\ lock' = Watch
  /\ chatId' \in ChatIdAfter(my[e].kind)

NewRow(role, mids, open) ==
  [role |-> role, mids |-> mids, at |-> Len(chat), open |-> open]

\* Rows another session sees.
Committed == {r \in DOMAIN rows : ~rows[r].open /\ rows[r].role # "gone"}
Outgoing  == {r \in Committed : rows[r].role # "client"}

\* The external_message_id of a row is the mid of its last piece; the others are metadata.
Taken == {Max(rows[r].mids) : r \in {q \in Committed : rows[q].mids # {}}}
FromBot(i) == chat[i].hand # "client"

(* -------------------- own messages and others' --------------------------- *)

\* _our_outgoing: the newest rows that are not the client's.
Latest(S, n)  == {r \in S : Cardinality({q \in S : q > r}) < n}
OurRows       == Latest(Outgoing, OurLookback)
OurMids       == UNION {rows[r].mids : r \in OurRows}
\* Mutant: own messages are known by their mids only.
OurTextsIgnored == {}

OurTexts      == {r \in OurRows : rows[r].role # "operator"}

Ours(i) == i \in OurMids \/ chat[i].word \in OurTexts

Window(read, count) == {i \in 1..read : i > read - count /\ FromBot(i)}

\* Mutant: the burst is added to what is recognised, too.
OursSeenAtAndBurst(window) ==
  LET seen == {i \in window : Ours(i)} \cup {rows[r].at : r \in OurTexts} IN
  IF seen = {} THEN 0 ELSE Max(seen) + OwnBurst

\* The mark behind which the bot's messages may be somebody else's.
OursSeenAt(window) ==
  LET recognised == {i \in window : Ours(i)} IN
  IF recognised # {} THEN Max(recognised)
  ELSE IF OurTexts # {} THEN Max({rows[r].at : r \in OurTexts}) + OwnBurst ELSE 0

\* _partition
Foreign(window) == {i \in window : i > OursSeenAt(window) /\ ~Ours(i)}

(* ------------------------------ the check -------------------------------- *)

\* chat_id_from_mid: any message of the dialog gives the chat away.
Guessed == Taken # {}

\* _chat_id_for
ChatIsFound == chatId \/ Guessed

\* Mutant: a dialog that is paused already is left alone.
ReadableUnpaused == known /\ ~blocked /\ ChatIsFound /\ ~paused

Readable == known /\ ~blocked /\ ChatIsFound

\* How a process goes on when the check has found nothing.
GoOn(p, me) ==
  my' = [my EXCEPT ![p] = CASE p = Watch  -> Idle
                            [] p = Silent -> [Idle EXCEPT !.step = "compose"]
                            [] OTHER      -> [me EXCEPT !.saw = FALSE, !.step = "send"]]

\* ... and when it has found these messages.
Found(p, found, me) ==
  IF found = {} THEN GoOn(p, me)
  ELSE my' = [my EXCEPT ![p] = [me EXCEPT !.found = found, !.step = "record"]]

\* pause_if_manager_replied: a session of its own loads the dialog, reads the chat and
\* compares.  Without the chat's id, or when MAX does not answer, there is nothing to compare.
Guard(p) ==
  /\ p # Watch
  /\ my[p].step = "guard"
  /\ \/ GoOn(p, my[p])
     \/ /\ Readable
        /\ Found(p, Foreign(Window(Len(chat), GuardHistory)), [my[p] EXCEPT !.saw = paused, !.read = Len(chat)])
  /\ UNCHANGED <<chat, database, lock, counts>>

\* watch_once loads all the dialogs of its pass first, and reads their chats after that.
WatchBegins ==
  /\ my[Watch].step = "idle"
  /\ Readable
  /\ my' = [my EXCEPT ![Watch].saw = paused, ![Watch].step = "fetch"]
  /\ UNCHANGED <<chat, database, lock, counts>>

\* The chat is read and compared.
WatchReads ==
  /\ my[Watch].step = "fetch"
  /\ Found(Watch, Foreign(Window(Len(chat), WatchHistory)), my[Watch])
  /\ UNCHANGED <<chat, database, lock, counts>>

\* _fetch swallows every error, the dialog is passed over.
WatchFetchFails ==
  /\ my[Watch].step = "fetch"
  /\ GoOn(Watch, Idle)
  /\ UNCHANGED <<chat, database, lock, counts>>

\* Mutant: the index is not there.
ClashUnnoticed(mids) == FALSE

\* uq_message_dialog_external_id
Clash(mids) == mids \cap Taken # {}

\* What was found, in the order of the chat.
InOrder(found) ==
  LET size == 1..Cardinality(found) IN
  {s \in [size -> found] : \A j, k \in size : j < k => s[j] < s[k]}

\* _record and the commit.  The pause is written only by a session that has
\* loaded the dialog without one.  The turn then sends nothing, and ends.  (What it
\* marks as not delivered is DialogTurn's subject.)
Record(p) ==
  /\ my[p].step = "record"
  /\ ~Clash(my[p].found)
  /\ \E order \in InOrder(my[p].found) :
       rows' = rows \o [k \in DOMAIN order |->
                          [NewRow("operator", {order[k]}, FALSE) EXCEPT !.at = order[k]]]
  /\ paused' = IF my[p].saw THEN paused ELSE TRUE
  /\ chatId' = TRUE
  /\ my' = [my EXCEPT ![p] = IF p \in Events THEN [Idle EXCEPT !.step = "done"] ELSE Idle]
  /\ lock' = IF p \in Events THEN Watch ELSE lock
  /\ UNCHANGED <<chat, known, blocked, stage, counts>>

\* Somebody has stored one of the messages since: the transaction fails, the
\* guard answers no, the watcher goes on with the next dialog.
RecordClashes(p) ==
  /\ my[p].step = "record"
  /\ Clash(my[p].found)
  /\ GoOn(p, my[p])
  /\ UNCHANGED <<chat, database, lock, counts>>

(* ------------------------------ MAX's events ----------------------------- *)

\* parse_message_created and start_command: words or a picture of the client, or "/start";
\* anything else is dropped.
Kinds == {"message", "start"}

\* schedule_event, process_event: a message of the client, "/start" or the button.  The
\* client is looked up at once.
EventComes(e) ==
  /\ my[e].step = "idle"
  /\ Happens
  /\ \E kind \in Kinds :
       /\ chat' = IF kind = "message" THEN Append(chat, [hand |-> "client", word |-> 0]) ELSE chat
       /\ my' = [my EXCEPT ![e] =
            [Idle EXCEPT !.step = IF ~known /\ kind = "message" THEN "first" ELSE "store",
                         !.kind = kind, !.new = ~known,
                         !.message = IF kind = "message" THEN Len(chat) + 1 ELSE 0]]
  /\ UNCHANGED <<database, lock, greetings>>

\* _pause_for_manager_message: the client and the dialog are made, paused.
PauseForManager == known' = TRUE /\ paused' = TRUE

\* pause_if_first_message_has_manager_reply: the bot has already spoken, and not through us.
\* The history may also be out of reach; then nothing is concluded from it.
FirstCheck(e) ==
  /\ my[e].step = "first"
  /\ \/ /\ \E i \in Window(Len(chat), GuardHistory) : i \notin Taken
        /\ PauseForManager
        /\ my' = [my EXCEPT ![e].new = FALSE, ![e].step = "store"]
     \/ /\ UNCHANGED <<known, paused>>
        /\ Go(e, "store")
  /\ UNCHANGED <<chat, rows, blocked, stage, chatId, lock, counts>>

\* _get_or_create_client, _get_or_create_dialog and the message, one commit.
Store(e) ==
  /\ my[e].step = "store"
  /\ ~(my[e].new /\ known)
  /\ known' = TRUE
  /\ blocked' = FALSE
  /\ rows' = IF my[e].kind = "message"
             THEN Append(rows, NewRow("client", {my[e].message}, FALSE)) ELSE rows
  /\ my' = [my EXCEPT ![e].message = IF my[e].kind = "message" THEN Len(rows) + 1 ELSE 0,
                      ![e].new = FALSE, ![e].step = "wait"]
  /\ UNCHANGED <<chat, paused, stage, chatId, lock, counts>>

\* Another event has created the client since: uq_client_vk_group_user, the event is lost.
StoreClashes(e) ==
  /\ my[e].step = "store"
  /\ my[e].new /\ known
  /\ End(e)
  /\ UNCHANGED <<chat, database, lock, counts>>

\* Mutant: the turns of a dialog do not wait for each other.
LockIgnored == TRUE

LockIsFree == lock = Watch

Enter(e) ==
  /\ my[e].step = "wait"
  /\ LockIsFree
  /\ IF paused
     THEN EndTurn(e)
     ELSE lock' = e /\ Go(e, "run") /\ UNCHANGED chatId
  /\ UNCHANGED <<chat, rows, known, paused, blocked, stage, counts>>

\* dialog_has_outgoing
HasOutgoing == Outgoing # {}

Superseded(e) == \E r \in Committed : rows[r].role = "client" /\ r > my[e].message

\* run_greeting, run_ai with resolve_greeting: whether the greeting is due is asked first,
Decide(e) ==
  /\ my[e].step = "run"
  /\ my[e].kind = "message" => ~Superseded(e)
  /\ HasOutgoing => my[e].kind = "message"
  /\ my' = [my EXCEPT ![e].step = "write", ![e].greets = ~HasOutgoing]
  /\ UNCHANGED <<chat, database, lock, counts>>

\* One part in two pieces, or two parts, one with a picture, and a person called to the
\* dialog by the model or a trigger (bound).
Replies == { [calls |-> FALSE, parts |-> <<[row |-> 0, pieces |-> 2, picture |-> FALSE]>>],
             [calls |-> TRUE,
              parts |-> <<[row |-> 0, pieces |-> 1, picture |-> FALSE],
                          [row |-> 0, pieces |-> 1, picture |-> TRUE]>>] }

\* and the rows of all parts are committed before the first is sent.
Write(e) ==
  /\ my[e].step = "write"
  /\ \E reply \in Replies :
       /\ rows' = rows \o [k \in DOMAIN reply.parts |-> NewRow("ai", {}, FALSE)]
       /\ my' = [my EXCEPT ![e].step = "guard", ![e].greets = FALSE,
                   ![e].parts = [k \in DOMAIN reply.parts |-> [reply.parts[k] EXCEPT !.row = Len(rows) + k]]]
       /\ paused' = (paused \/ reply.calls)
  /\ greetings' = IF my[e].greets THEN greetings + 1 ELSE greetings
  /\ stage' \in IF my[e].greets THEN {"greeting"} ELSE {stage, "pricing"}
  /\ UNCHANGED <<chat, known, blocked, chatId, lock, happenings>>

\* The message is not the newest, the start has been answered before, or the run fails.
NothingToSay(e) ==
  /\ my[e].step = "run"
  /\ EndTurn(e)
  /\ UNCHANGED <<chat, rows, known, paused, blocked, stage, counts>>

\* Mutant: the pieces are counted from one.
LastPieceMissed(part) == part.pieces = 0

LastPiece(part) == part.pieces = 1

\* _entry_text: what the piece reads like in the history.
Word(part) == IF LastPiece(part) /\ part.picture THEN 0 ELSE part.row

\* send_message: the next piece of the next part.  Attachments go with the last piece,
\* and a piece before the last may come back without a mid.
MaxTakes(p) ==
  /\ my[p].step = "send"
  /\ LET part == Head(my[p].parts)
         last == LastPiece(part) IN
     /\ chat' = Append(chat, [hand |-> IF p = Silent THEN "silent" ELSE "turn", word |-> Word(part)])
     /\ \E named \in {TRUE, last} :
          my' = [my EXCEPT ![p].sent = IF named THEN @ \cup {Len(chat) + 1} ELSE @,
                           ![p].parts[1].pieces = IF last THEN 1 ELSE @ - 1,
                           ![p].step = IF last THEN "mark" ELSE "send"]
  /\ UNCHANGED <<database, lock, counts>>

\* mark_delivered and its commit; the id may have been taken by somebody who thought
\* the message was a manager's, then the mark is rolled back.
MarkDelivered(e) ==
  /\ e \in Events
  /\ my[e].step = "mark"
  /\ rows' = IF Max(my[e].sent) \in Taken THEN rows
             ELSE [rows EXCEPT ![Head(my[e].parts).row].mids = my[e].sent]
  /\ IF Len(my[e].parts) = 1
     THEN EndTurn(e)
     ELSE /\ my' = [my EXCEPT ![e].parts = Tail(@), ![e].sent = {}, ![e].step = "send"]
          /\ UNCHANGED <<chatId, lock>>
  /\ UNCHANGED <<chat, known, paused, blocked, stage, counts>>

\* MAX refuses for good (blocked) or for now; the rest of the reply is not sent.
MaxRefuses(e) ==
  /\ e \in Events
  /\ my[e].step = "send"
  /\ blocked' \in {blocked, TRUE}
  /\ EndTurn(e)
  /\ UNCHANGED <<chat, rows, known, paused, stage, counts>>

(* ---------------------------- silent greeting ---------------------------- *)

\* send_price_to_silent loads its batch: dialogs at the greeting, not paused, not blocked.
SilentBegins ==
  /\ my[Silent].step = "idle"
  /\ Happens
  /\ known /\ stage = "greeting" /\ ~paused /\ ~blocked
  /\ Go(Silent, "picked")
  /\ UNCHANGED <<chat, database, lock, greetings>>

\* _greeting_unanswered: the newest row asks what to write on the shirt.  It is ours, even
\* one that was not delivered, or a manager's in our words.
GreetingUnanswered ==
  \E r \in Committed :
    /\ \A q \in Committed \ {r} : rows[q].at < rows[r].at \/ (rows[q].at = rows[r].at /\ q < r)
    /\ \/ rows[r].role = "ai"
       \/ rows[r].role = "operator" /\ \E i \in rows[r].mids : chat[i].word # 0

SilentChecks ==
  /\ my[Silent].step = "picked"
  /\ \E unanswered \in {FALSE, GreetingUnanswered} :
       my' = [my EXCEPT ![Silent] = [Idle EXCEPT !.step = IF unanswered THEN "guard" ELSE "idle"]]
  /\ UNCHANGED <<chat, database, lock, counts>>

\* build_script_parts: the rows are flushed, not committed.
SilentComposes ==
  /\ my[Silent].step = "compose"
  /\ rows' = Append(rows, NewRow("ai", {}, TRUE))
  /\ my' = [my EXCEPT ![Silent].step = "send",
              ![Silent].parts = <<[row |-> Len(rows) + 1, pieces |-> 1, picture |-> FALSE]>>]
  /\ UNCHANGED <<chat, known, paused, blocked, stage, chatId, lock, counts>>

Rollback == rows' = [r \in DOMAIN rows |-> IF rows[r].open THEN [rows[r] EXCEPT !.role = "gone"] ELSE rows[r]]

\* _send_price: the commit at the end writes rows, marks and the stage, unless an id is taken.
SilentCommits ==
  /\ my[Silent].step = "mark"
  /\ \/ /\ ~Clash(my[Silent].sent)
        /\ rows' = [rows EXCEPT ![Head(my[Silent].parts).row] =
                      [@ EXCEPT !.open = FALSE, !.mids = my[Silent].sent]]
        /\ stage' = "pricing"
     \/ /\ Clash(my[Silent].sent)
        /\ Rollback
        /\ UNCHANGED stage
  /\ my' = [my EXCEPT ![Silent] = Idle]
  /\ UNCHANGED <<chat, known, paused, blocked, chatId, lock, counts>>

\* A part fails: the marks of the failure, and vk_blocked, are rolled back with the rest.
SilentFails ==
  /\ my[Silent].step = "send"
  /\ Rollback
  /\ my' = [my EXCEPT ![Silent] = Idle]
  /\ UNCHANGED <<chat, known, paused, blocked, stage, chatId, lock, counts>>

(* ------------------------------ people, crash ---------------------------- *)

\* A manager writes from Wazzup in the bot's name, words of his own or of ours.
ManagerWrites ==
  /\ Happens
  /\ \E word \in {0} \cup {r \in Outgoing : rows[r].role = "ai"} :
       chat' = Append(chat, [hand |-> "manager", word |-> word])
  /\ UNCHANGED <<database, lock, my, greetings>>

\* set_ai_pause in the panel gives the dialog back.
HandBack ==
  /\ Happens
  /\ paused /\ paused' = FALSE
  /\ UNCHANGED <<chat, rows, known, blocked, stage, chatId, lock, my, greetings>>

Crash ==
  /\ Happens
  /\ my' = [p \in Procs |-> IF p \in Events /\ my[p].step # "idle"
                            THEN [Idle EXCEPT !.step = "done"] ELSE Idle]
  /\ Rollback
  /\ lock' = Watch
  /\ UNCHANGED <<chat, known, paused, blocked, stage, chatId, greetings>>

Check(p) == Guard(p) \/ Record(p) \/ RecordClashes(p)

EventStep(e) ==
  \/ FirstCheck(e) \/ Store(e) \/ StoreClashes(e) \/ Enter(e) \/ Decide(e) \/ Write(e) \/ NothingToSay(e)
  \/ Check(e) \/ MaxTakes(e) \/ MarkDelivered(e) \/ MaxRefuses(e)

WatchStep ==
  \/ WatchBegins \/ WatchReads \/ WatchFetchFails
  \/ Record(Watch) \/ RecordClashes(Watch)

SilentStep ==
  \/ SilentBegins \/ SilentChecks \/ Check(Silent) \/ SilentComposes
  \/ MaxTakes(Silent) \/ SilentCommits \/ SilentFails

Next ==
  \/ \E e \in Events : EventComes(e) \/ EventStep(e)
  \/ WatchStep
  \/ SilentStep
  \/ ManagerWrites \/ HandBack \/ Crash

Spec == Init /\ [][Next]_vars

\* The event loop runs every task; the scheduler starts a pass every time, and MAX
\* answers the watcher time and again.
FairSpec ==
  /\ Spec
  /\ \A e \in Events : WF_vars(EventStep(e))
  /\ WF_vars(SilentStep)
  /\ WF_vars(WatchStep)
  /\ SF_vars(WatchReads)

(* ------------------------------- properties ------------------------------ *)

Operators == {r \in Committed : rows[r].role = "operator"}
Recorded(i) == \E r \in Operators : i \in rows[r].mids

\* Text a turn has sent is never taken for a manager's, whatever pieces it went out
\* in, at whatever moment it is seen, and whether or not the process lived to mark
\* it.  Pictures are left out (MAX returns them under other addresses), and so is
\* the silent greeting, whose rows are not committed while it sends
\* (manager_watch.py:30-33, 189-192).
NoSelfTakeover ==
  \A i \in DOMAIN chat : Recorded(i) => chat[i].hand # "turn" \/ chat[i].word = 0

\* The button and "/start" both come, and the client may write at once: he is greeted
\* once (max/webhook.py:20-24, 372).
GreetedOnce == greetings <= 1

\* Watcher, guards and events store a message of the chat once (models.py:194-200).
StoredOnce ==
  \A r, q \in Committed : r # q => rows[r].mids \cap rows[q].mids = {}

\* When a turn starts to send, each message of a manager its guard has read is stored,
\* or something newer was taken for ours (_partition), or his words are ours, or it
\* falls into the burst behind a row of ours that is not seen in the chat.
GuardSawToIt ==
  \A e \in Events :
    (my[e].step = "send" /\ my[e].sent = {} /\ my[e].found = {}) =>
      \A i \in Window(my[e].read, GuardHistory) :
        chat[i].hand = "manager" =>
          \/ Recorded(i) \/ chat[i].word # 0
          \/ \E j \in Window(my[e].read, GuardHistory) : j > i /\ (Recorded(j) \/ chat[j].word # 0 \/ j \in Taken)
          \/ \E r \in Outgoing : i <= rows[r].at + OwnBurst

\* The manager has the last word of the bot's side, in words of his own, not too close
\* behind a row of ours, and the chat is one the watcher reads.
Unheard ==
  /\ known /\ ~blocked /\ ChatIsFound
  /\ \E i \in DOMAIN chat :
       /\ chat[i].hand = "manager" /\ chat[i].word = 0 /\ ~Recorded(i)
       /\ \A j \in DOMAIN chat : j > i => ~FromBot(j)
       /\ \A r \in Outgoing : i > rows[r].at + OwnBurst

\* What a manager writes in the name of the bot is stored in the end.
ManagerIsHeard == Unheard ~> ~Unheard
=============================================================================
