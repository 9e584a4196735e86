------------------------------ MODULE StatusFlow ------------------------------
(***************************************************************************)
(* The status of a dialog climbs a ladder by facts: what the client has    *)
(* been shown by messages that were delivered (sales/status_flow.py).      *)
(* Delivered is what is not marked as failed (vk/outgoing.py), and a turn  *)
(* commits its rows before it sends them: a row counts while it waits to   *)
(* be sent, and for good when nobody marks it. Whoever has just sent       *)
(* something recomputes the status, in the transaction it is in: a turn,   *)
(* the silent greeting, the panel, the VK echo of a human and the MAX      *)
(* watcher. Each has loaded the dialog before, and writes at its commit    *)
(* what it has concluded from what it loaded. People, reminders and the    *)
(* model set the statuses outside the ladder, and the command              *)
(* resync_statuses recomputes the ladder, backwards too.                   *)
(*                                                                         *)
(* A mass mailing looks like a manager's message; it is told from one by   *)
(* the number of dialogs that have got the same text (vk/broadcast.py,     *)
(* commands/mark_broadcasts.py).  One text is followed, the other texts of *)
(* managers are their own.                                                 *)
(***************************************************************************)
EXTENDS Naturals, Sequences, FiniteSets, SequencesExt

CONSTANTS
  Dialogs,      \* dialogs
  Elsewhere,    \* dialogs that get nothing but the mailing
  Sessions,     \* database sessions that recompute a status
  Facts,        \* what messages of ours may show (bound)
  Active,       \* ladder statuses that are active in the admin panel
  Named,        \* statuses given by hand (bound)
  MinDialogs,   \* _MIN_DIALOGS
  MaxParts,     \* most messages of a turn (bound)
  MaxHappenings \* most messages, sessions and things done by hand (bound)

Ladder == <<"interested", "calculated", "clarifying", "hot", "data", "prepay", "order">>
Side   == {"curator", "blacklist"}  \* SIDE_STATUSES
Own    == "own"                     \* a status the managers made up

OnLadder == ToSet(Ladder)           \* is_ladder
Statuses == OnLadder \cup Side \cup {Own, "none"}

\* What a message of ours may show, and the highest step it is worth.
Worth == [nothing |-> 1, price |-> 3, checkout |-> 4, contacts |-> 5, link |-> 6]

ASSUME Constants ==
  /\ Facts \subseteq DOMAIN Worth \ {"nothing"}
  /\ Active \subseteq OnLadder /\ Named \subseteq Active \cup Side \cup {Own}
  /\ Dialogs # {} /\ Elsewhere \cap Dialogs = {}
  /\ MinDialogs \in Nat \ {0, 1} /\ MaxParts \in Nat /\ MaxHappenings \in Nat

VARIABLES
  messages,   \* messages of each dialog
  status,     \* Dialog.current_status_id
  byHand,     \* the status was last set by a person, a reminder or the model
  paid,       \* Dialog.payment_confirmed_at: no, yes, or revoked
  paused,     \* Dialog.ai_paused
  funnel,     \* the funnel of reminders
  announced,  \* how often the chat of the managers was told of the hot dialog
  undone,     \* history: dialogs that were announced, then moved back or never committed as hot
  hasty,      \* history: dialogs whose status may rest on a row that was not sent when it was
              \* concluded, or on a message that was marked as a mailing's since
  seen,       \* _seen: dialogs that have got the text of the mailing, as far as remembered
  stored,     \* dialogs in which the text of the mailing is stored
  my,         \* local state of the sessions
  happenings

dialog == <<status, byHand, paid, paused, funnel>>
told   == <<announced, undone>>
vars   == <<messages, dialog, told, hasty, seen, stored, my, happenings>>

Message == [by : {"client", "ai", "curator"}, shows : DOMAIN Worth \cup {"details"},
            failed : BOOLEAN,  \* DELIVERY_FAILED
            got : BOOLEAN,     \* history: it has reached the other side
            mass : BOOLEAN, mailing : {"no", "live", "later"}]

Funnels == {"none", "checkout", "after_payment", "completed"}

Local == [step : {"idle", "work", "send", "sync", "commit"}, kind : {"-", "turn", "silent", "manager", "resync"},
          dialog : Dialogs, status : Statuses, paused : BOOLEAN,
          rows : SUBSET Nat, any : BOOLEAN,      \* rows a turn has yet to send; it has sent some
          sent : Seq(Message), target : OnLadder \cup {"-"}, hasty : BOOLEAN]

Idle == [step |-> "idle", kind |-> "-", dialog |-> CHOOSE d \in Dialogs : TRUE, status |-> "none",
         paused |-> FALSE, rows |-> {}, any |-> FALSE, sent |-> <<>>, target |-> "-", hasty |-> FALSE]

TypeOK ==
  /\ messages \in [Dialogs -> Seq(Message)]
  /\ status \in [Dialogs -> Statuses] /\ byHand \in [Dialogs -> BOOLEAN]
  /\ paid \in [Dialogs -> {"no", "yes", "revoked"}] /\ paused \in [Dialogs -> BOOLEAN]
  /\ funnel \in [Dialogs -> Funnels]
  /\ announced \in [Dialogs -> Nat] /\ {undone, hasty} \subseteq SUBSET Dialogs
  /\ {seen, stored} \subseteq SUBSET (Dialogs \cup Elsewhere)
  /\ my \in [Sessions -> Local]
  /\ happenings \in 0..MaxHappenings

\* _get_or_create_dialog gives a new dialog the first status, if there is one.
Init ==
  /\ messages = [d \in Dialogs |-> <<>>]
  /\ status \in [Dialogs -> {IF "interested" \in Active THEN "interested" ELSE "none"}]
  /\ byHand = [d \in Dialogs |-> FALSE]
  /\ paid = [d \in Dialogs |-> "no"] /\ paused = [d \in Dialogs |-> FALSE]
  /\ funnel = [d \in Dialogs |-> "none"]
  /\ announced = [d \in Dialogs |-> 0] /\ undone = {} /\ hasty = {}
  /\ seen = {} /\ stored = {}
  /\ my = [s \in Sessions |-> Idle]
  /\ happenings = 0

Happens == happenings < MaxHappenings /\ happenings' = happenings + 1

Said(by, shows, ok) == [by |-> by, shows |-> shows, failed |-> ~ok, got |-> ok,
                          mass |-> FALSE, mailing |-> "no"]

\* A row of a turn, committed before it is sent.
Row(shows) == [Said("ai", shows, TRUE) EXCEPT !.got = FALSE]

(* ------------------------------- the ladder ------------------------------ *)

\* rank, from 1; 0 is a status outside the ladder
Rank(name) == IF name \in OnLadder THEN CHOOSE i \in DOMAIN Ladder : Ladder[i] = name ELSE 0

Spoke(said) == \E i \in DOMAIN said : said[i].by = "client"

\* Mutant: what was not delivered counts.
OursAndLost(said) ==
  {i \in DOMAIN said : said[i].mailing = "no" /\ (said[i].by = "ai" \/ (said[i].by = "curator" /\ Spoke(said)))}

\* Messages that count: was_delivered is whatever is not marked as failed; a mailing does
\* not, and a manager's does not in a dialog without a word of the client.
Ours(said) ==
  {i \in DOMAIN said :
     /\ ~said[i].failed /\ said[i].mailing = "no"
     /\ said[i].by = "ai" \/ (said[i].by = "curator" /\ Spoke(said))}

\* earned_status
Earned(said, confirmed) ==
  LET shown == {said[i].shows : i \in Ours(said)} IN
  IF confirmed = "yes" THEN "order"
  ELSE IF "link" \in shown THEN "prepay"
  ELSE IF "contacts" \in shown THEN "data"
  ELSE IF "checkout" \in shown THEN "hot"
  ELSE IF "price" \notin shown THEN "interested"
  ELSE IF \E i \in DOMAIN said : said[i].shows = "details" THEN "clarifying"
  ELSE "calculated"

\* Mutant: the ladder is climbed down as well.
MoveDown(current, target) ==
  IF current \in OnLadder \cup {"none"} /\ target # current /\ target \in Active THEN target ELSE "-"

\* Mutant: the old status is returned when there is no new one.
MoveOrStay(current, target) ==
  IF current \in OnLadder \cup {"none"} /\ Rank(target) > Rank(current) /\ target \in Active
  THEN target ELSE current

\* sync_status: the new status, or "-".
Move(current, target) ==
  IF current \in OnLadder \cup {"none"} /\ Rank(target) > Rank(current) /\ target \in Active
  THEN target ELSE "-"

\* _run_chunk of resync_statuses, which goes back unless told not to.
MoveBack(current, target) ==
  IF current \in OnLadder \cup {"none"} /\ target # current /\ target \in Active THEN target ELSE "-"

\* _checkout_sent_by_manager
CheckoutByManager(said) ==
  LET shown == {i \in DOMAIN said : ~said[i].failed /\ said[i].mailing = "no"
                                    /\ said[i].by # "client" /\ said[i].shows = "checkout"} IN
  shown # {} /\ said[CHOOSE i \in shown : \A j \in shown : j <= i].by = "curator"

\* Mutant: the chat is told of every turn in a hot dialog.
AnnouncedAlways(target, said) ==
  ~CheckoutByManager(said) /\ \E i \in Ours(said) : said[i].shows = "checkout"

\* _announce_hot, notify_hot: the chat is told before anything is committed.
Announced(target, said) == target = "hot" /\ ~CheckoutByManager(said)

\* Mutant: the funnel starts whoever leads the dialog.
FunnelForStep(before, target, isPaused) ==
  CASE target = "hot"    -> "checkout"
    [] target = "prepay" -> "after_payment"
    [] target = "order"  -> IF before = "none" THEN "none" ELSE "completed"
    [] OTHER -> before

\* _apply_side_effects
FunnelAfter(before, target, isPaused) ==
  CASE target = "hot" /\ ~isPaused    -> "checkout"
    [] target = "prepay" /\ ~isPaused -> "after_payment"
    [] target = "order" -> IF before = "none" THEN "none" ELSE "completed"
    [] OTHER -> before

(* ------------------------------- sessions -------------------------------- *)

\* A session that has loaded the dialog as it is.
Loaded(d, kind, step) ==
  [Idle EXCEPT !.step = step, !.kind = kind, !.dialog = d, !.status = status[d], !.paused = paused[d]]

\* A turn holds the dialog's lock; it and the silent greeting have something to send.
Begin(s, d) ==
  /\ my[s].step = "idle"
  /\ Happens
  /\ \E kind \in {"turn", "silent"} :
       /\ kind = "turn" => \A q \in Sessions : my[q].kind = "turn" => my[q].dialog # d
       /\ my' = [my EXCEPT ![s] = Loaded(d, kind, "work")]
  /\ UNCHANGED <<messages, dialog, told, hasty, seen, stored>>

\* run_ai commits the rows of the turn before anything is sent; what the tidying has left
\* out of the parts stays behind unmarked.
TurnStores(s) ==
  /\ my[s].step = "work" /\ my[s].kind = "turn"
  /\ \E n \in 1..MaxParts : \E shows \in [1..n -> Facts \cup {"nothing"}], kept \in SUBSET (1..n) :
       LET d == my[s].dialog IN
       /\ messages' = [messages EXCEPT ![d] = @ \o [i \in 1..n |-> Row(shows[i])]]
       /\ my' = [my EXCEPT ![s].step = "send", ![s].rows = {Len(messages[d]) + i : i \in kept}]
  /\ UNCHANGED <<dialog, told, hasty, seen, stored, happenings>>

\* deliver_parts: a part goes out, and its mark is committed at once.
TurnSends(s) ==
  /\ my[s].step = "send"
  /\ \E i \in my[s].rows :
       /\ \A j \in my[s].rows : i <= j
       /\ messages' = [messages EXCEPT ![my[s].dialog][i].got = TRUE]
       /\ my' = [my EXCEPT ![s].rows = @ \ {i}, ![s].any = TRUE,
                           ![s].step = IF my[s].rows = {i} THEN "sync" ELSE @]
  /\ UNCHANGED <<dialog, told, hasty, seen, stored, happenings>>

\* What the session has marked as failed, it sees at once, and others at its commit.
WithFailed(said, rows) == [i \in DOMAIN said |-> IF i \in rows THEN [said[i] EXCEPT !.failed = TRUE] ELSE said[i]]

\* _fail_from: a part fails, and the rest with it.  What was sent before is looked at, unless
\* the client has blocked us; so it is not when the client, or a manager in MAX, was first.
TurnFails(s) ==
  /\ my[s].step = "send" /\ my[s].rows # {}
  /\ \/ /\ my[s].any
        /\ my' = [my EXCEPT ![s].step = "sync"]
        /\ UNCHANGED messages
     \/ /\ messages' = [messages EXCEPT ![my[s].dialog] = WithFailed(@, my[s].rows)]
        /\ my' = [my EXCEPT ![s] = Idle]
  /\ UNCHANGED <<dialog, told, hasty, seen, stored, happenings>>

\* The reply is held for a person, the tidying has left nothing to send, or the process
\* dies: rows that were not sent stay as they are.
TurnLeaves(s) ==
  /\ my[s].step = "send"
  /\ my' = [my EXCEPT ![s] = Idle]
  /\ UNCHANGED <<messages, dialog, told, hasty, seen, stored, happenings>>

\* _send_price: rows, marks and the status are one transaction.
SilentSends(s) ==
  /\ my[s].step = "work" /\ my[s].kind = "silent"
  /\ my' = [my EXCEPT ![s].step = "sync", ![s].sent = <<Said("ai", "price", TRUE)>>]
  /\ UNCHANGED <<messages, dialog, told, hasty, seen, stored, happenings>>

\* _MIN_DIALOGS
ManyDialogs(dialogs) == Cardinality(dialogs) >= MinDialogs

\* reply_as_manager, handle_message_reply, _record: a manager speaks, in words of his
\* own or in those of the mailing (which shows a price).  What the panel cannot deliver
\* is stored without a look at the status, and so is a mailing, is_broadcast.
ManagerSpeaks(s, d) ==
  /\ my[s].step = "idle"
  /\ Happens
  /\ \/ \E shows \in Facts \cup {"nothing"}, ok \in BOOLEAN :
          /\ my' = [my EXCEPT ![s] = [Loaded(d, "manager", IF ok THEN "sync" ELSE "commit")
                                        EXCEPT !.sent = <<Said("curator", shows, ok)>>]]
          /\ UNCHANGED seen
     \/ /\ seen' = seen \cup {d}
        /\ LET live == ManyDialogs(seen') IN
           my' = [my EXCEPT ![s] = [Loaded(d, "manager", IF live THEN "commit" ELSE "sync") EXCEPT !.sent =
                   <<[Said("curator", "price", TRUE) EXCEPT !.mass = TRUE,
                                                           !.mailing = IF live THEN "live" ELSE "no"]>>]]
  /\ UNCHANGED <<messages, dialog, told, hasty, stored>>

\* The window of the mailing has passed, its text was dropped for newer ones, or the
\* process was restarted (_forget_old).
Forget ==
  /\ seen # {} /\ seen' = {}
  /\ UNCHANGED <<messages, dialog, told, hasty, stored, my, happenings>>

\* resync_statuses begins with a dialog.
BeginResync(s, d) ==
  /\ my[s].step = "idle"
  /\ Happens
  /\ messages[d] # <<>>
  /\ my' = [my EXCEPT ![s] = Loaded(d, "resync", "sync")]
  /\ UNCHANGED <<messages, dialog, told, hasty, seen, stored>>

\* What the session reads of its dialog: what is committed, and its own.
Sees(s) == WithFailed(messages[my[s].dialog], my[s].rows) \o my[s].sent

\* A row that counts and was not sent, and is worth at least the status.
Unsent(m, name) == ~m.failed /\ ~m.got /\ Rank(name) <= Worth[m.shows]

\* sync_status, with what is committed and what the session itself has added.
Sync(s) ==
  /\ my[s].step = "sync"
  /\ LET d      == my[s].dialog
         said   == Sees(s)
         earned == Earned(said, paid[d])
         target == IF my[s].kind = "resync" THEN MoveBack(my[s].status, earned)
                                            ELSE Move(my[s].status, earned) IN
     /\ my' = [my EXCEPT ![s].step = "commit", ![s].target = target,
                         ![s].hasty = target # "-" /\ (@ \/ \E i \in DOMAIN said : Unsent(said[i], target))]
     /\ announced' = [announced EXCEPT ![d] =
                        IF my[s].kind # "resync" /\ Announced(target, said) THEN @ + 1 ELSE @]
  /\ UNCHANGED <<messages, dialog, undone, hasty, seen, stored, happenings>>

\* The manager's message takes the dialog over.
Takes(s) == my[s].kind = "manager" /\ my[s].sent[1].mailing = "no"

\* stop_pings
Stopped(before) == IF before = "none" THEN "none" ELSE "completed"

\* Announced dialogs that this step moves down.
MovedBack == {d \in Dialogs : announced[d] > 0 /\ Rank(status'[d]) < Rank(status[d])}

Commit(s) ==
  /\ my[s].step = "commit"
  /\ LET d == my[s].dialog
         target == my[s].target IN
     /\ messages' = [messages EXCEPT ![d] = Sees(s)]
     /\ status' = IF target = "-" THEN status ELSE [status EXCEPT ![d] = target]
     /\ hasty' = IF target = "-" THEN hasty ELSE IF my[s].hasty THEN hasty \cup {d} ELSE hasty \ {d}
     /\ byHand' = IF target = "-" THEN byHand ELSE [byHand EXCEPT ![d] = FALSE]
     /\ paused' = IF Takes(s) /\ ~my[s].paused THEN [paused EXCEPT ![d] = TRUE] ELSE paused
     /\ funnel' = IF my[s].kind = "resync" THEN funnel
                  ELSE [funnel EXCEPT ![d] = FunnelAfter(IF Takes(s) THEN Stopped(@) ELSE @, target,
                                                         my[s].paused \/ Takes(s))]
     /\ stored' = IF \E i \in DOMAIN my[s].sent : my[s].sent[i].mass THEN stored \cup {d} ELSE stored
  /\ undone' = undone \cup MovedBack
  /\ my' = [my EXCEPT ![s] = Idle]
  /\ UNCHANGED <<paid, announced, seen, happenings>>

\* The message is stored already (IntegrityError), the connection is lost, the process dies.
RollBack(s) ==
  /\ my[s].step = "commit"
  /\ undone' = IF my[s].target = "hot" THEN undone \cup {my[s].dialog} ELSE undone
  /\ my' = [my EXCEPT ![s] = Idle]
  /\ UNCHANGED <<messages, dialog, announced, hasty, seen, stored, happenings>>

(* -------------------------- people and the rest -------------------------- *)

ClientWrites(d) ==
  /\ Happens
  /\ \E shows \in {"nothing", "details"} :
       messages' = [messages EXCEPT ![d] = Append(@, Said("client", shows, TRUE))]
  /\ UNCHANGED <<dialog, told, hasty, seen, stored, my>>

\* change_status
ChangeStatus(d) ==
  /\ Happens
  /\ \E name \in Named :
       /\ status' = [status EXCEPT ![d] = name]
       /\ funnel' = [funnel EXCEPT ![d] = CASE name = "prepay" -> "after_payment"
                                            [] name = "order"  -> Stopped(@)
                                            [] OTHER           -> @]
  /\ byHand' = [byHand EXCEPT ![d] = TRUE]
  /\ undone' = undone \cup MovedBack
  /\ UNCHANGED <<messages, paid, paused, announced, hasty, seen, stored, my>>

\* confirm_payment does not touch the status.
ConfirmPayment(d) ==
  /\ Happens
  /\ paid' = [paid EXCEPT ![d] = IF @ = "yes" THEN "revoked" ELSE "yes"]
  /\ UNCHANGED <<messages, status, byHand, paused, funnel, told, hasty, seen, stored, my>>

\* set_ai_pause
SetAiPause(d) ==
  /\ Happens
  /\ paused' = [paused EXCEPT ![d] = ~@]
  /\ funnel' = [funnel EXCEPT ![d] = IF paused[d] THEN @ ELSE Stopped(@)]
  /\ UNCHANGED <<messages, status, byHand, paid, told, hasty, seen, stored, my>>

\* The reminders give up on the dialog or are refused (_escalate, ping worker), the model
\* or a trigger calls a person (run_ai).
SideMark(d) ==
  /\ Happens
  /\ \E name \in Side \cap Named : status' = [status EXCEPT ![d] = name]
  /\ byHand' = [byHand EXCEPT ![d] = TRUE]
  /\ \E take \in {paused[d], TRUE} : paused' = [paused EXCEPT ![d] = take]
  /\ undone' = undone \cup MovedBack
  /\ UNCHANGED <<messages, paid, funnel, announced, hasty, seen, stored, my>>

\* mark_broadcasts looks for the text in the whole database, whenever it was sent.
MarkBroadcasts ==
  /\ ManyDialogs(stored)
  /\ messages' = [d \in Dialogs |-> [i \in DOMAIN messages[d] |->
                    IF messages[d][i].mass /\ messages[d][i].mailing = "no"
                    THEN [messages[d][i] EXCEPT !.mailing = "later"] ELSE messages[d][i]]]
  /\ messages' # messages
  /\ LET marked == {d \in Dialogs : messages'[d] # messages[d]} IN
     /\ hasty' = hasty \cup marked
     /\ my' = [s \in Sessions |-> IF my[s].step # "idle" /\ my[s].dialog \in marked
                                 THEN [my[s] EXCEPT !.hasty = TRUE] ELSE my[s]]
  /\ UNCHANGED <<dialog, told, seen, stored, happenings>>

\* The mailing goes on in other dialogs.
MailingElsewhere ==
  /\ \E d \in Elsewhere \ seen : seen' = seen \cup {d} /\ stored' = stored \cup {d}
  /\ UNCHANGED <<messages, dialog, told, hasty, my, happenings>>

Session(s) ==
  \/ \E d \in Dialogs : Begin(s, d) \/ ManagerSpeaks(s, d) \/ BeginResync(s, d)
  \/ TurnStores(s) \/ TurnSends(s) \/ TurnFails(s) \/ TurnLeaves(s)
  \/ SilentSends(s) \/ Sync(s) \/ Commit(s) \/ RollBack(s)

Next ==
  \/ \E s \in Sessions : Session(s)
  \/ \E d \in Dialogs : ClientWrites(d) \/ ChangeStatus(d) \/ ConfirmPayment(d) \/ SetAiPause(d) \/ SideMark(d)
  \/ Forget \/ MailingElsewhere \/ MarkBroadcasts

Spec == Init /\ [][Next]_vars

(* ------------------------------- properties ------------------------------ *)

\* A session writes from what it loaded; somebody else has changed it since.
Committing(s, d) == my[s].step = "commit" /\ my'[s].step = "idle" /\ my[s].dialog = d
StaleStatus(d) == \E s \in Sessions : Committing(s, d) /\ my[s].status # status[d]
StalePause(d)  == \E s \in Sessions : Committing(s, d) /\ my[s].paused # paused[d]
Resynced(d)    == \E s \in Sessions : Committing(s, d) /\ my[s].kind = "resync"

\* A status the code has set is a fact (status_flow.py:3-7, 25-37): some message that has
\* reached the client, of ours or of a manager in a dialog where the client speaks, and not
\* a mailing's, shows at least that much; whoever set it, and in whatever order they
\* committed.  But the code takes for delivered what is not marked as failed
\* (outgoing.py:81-87), so a status concluded while a row worth it waited to be sent, or
\* was left behind, may rest on that row alone; and one concluded before mark_broadcasts
\* found the mailing may rest on the mailing.  The next conclusion is not excused.
StatusIsEarned ==
  \A d \in Dialogs : ~byHand[d] =>
    \/ Rank(status[d]) <= 1 \/ d \in hasty
    \/ status[d] = "order" /\ paid[d] # "no"
    \/ \E i \in DOMAIN messages[d] :
         LET m == messages[d][i] IN
         /\ m.got /\ m.mailing = "no"
         /\ m.by = "ai" \/ (m.by = "curator" /\ Spoke(messages[d]))
         /\ Rank(status[d]) <= Worth[m.shows]

\* "Only forward", and a side status is not touched (status_flow.py:128-135): but for
\* resync_statuses and people, only a session that has loaded another status than it
\* overwrites can move a dialog down or out of a side status.
StatusMovesUp ==
  [][\A d \in Dialogs :
       \/ status'[d] = status[d] \/ byHand'[d] \/ StaleStatus(d) \/ Resynced(d)
       \/ status[d] \notin Side \cup {Own} /\ Rank(status'[d]) > Rank(status[d])]_vars

\* The ladder starts no reminders in a dialog a person leads (status_flow.py:241-248),
\* unless he has taken it since the session loaded it.
FunnelSparesTheTaken ==
  [][\A d \in Dialogs :
       (funnel'[d] \in {"checkout", "after_payment"} /\ funnel'[d] # funnel[d] /\ paused'[d]) =>
         byHand'[d] \/ StalePause(d)]_vars

\* The chat of the managers is told once of a hot dialog, since the ladder is not climbed
\* down (status_flow.py:201-202, notify.py:70-71).  A second time needs a session that has
\* loaded the dialog before the first was committed, or a status that was moved back or
\* rolled back since.
Overtaken(s, d) ==
  /\ my[s].step = "sync" /\ my[s].dialog = d /\ my'[s].step = "commit"
  /\ my[s].status # status[d] \/ \E q \in Sessions : my[q].dialog = d /\ my[q].target = "hot"

AnnouncedOnce ==
  [][\A d \in Dialogs :
       (announced[d] > 0 /\ announced'[d] > announced[d]) =>
         d \in undone \/ \E s \in Sessions : Overtaken(s, d)]_vars
=============================================================================
