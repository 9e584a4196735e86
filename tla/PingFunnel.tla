----------------------------- MODULE PingFunnel -----------------------------
(***************************************************************************)
(* The reminders of one dialog: its row of dialog_ping_states (funnel) and *)
(* those who write it.                                                     *)
(*                                                                         *)
(* The ping worker locks the row (FOR UPDATE SKIP LOCKED), keeps it locked *)
(* while the ping agent thinks and the messenger sends, and writes the     *)
(* dialogs row last.  Everybody else writes the dialogs row first and the  *)
(* funnel after it: the client's answer, a takeover, a hand-back, a change *)
(* of status, the end of a turn, and the MAX guard, which the worker       *)
(* itself waits for.  Discovery plans new funnels in one transaction for   *)
(* a batch of dialogs, with a model's call for each.                       *)
(*                                                                         *)
(* A step is what happens between two awaits that matter.  A transaction   *)
(* that has flushed an UPDATE holds the row until it ends; its writes      *)
(* appear at its commit.  Time only shows as reminders becoming due.       *)
(***************************************************************************)
EXTENDS Integers, FiniteSets

CONSTANTS
  Requests,    \* sessions of webhooks, of the panel and of the watcher
  Guard,       \* the session of pause_if_manager_replied called by the worker
  Worker,      \* process_due, as an owner of the funnel's row
  Discover,    \* discover, as an owner of the funnel's row
  NoOne,       \* no owner
  Rules,       \* steps of a funnel with an active PingRule
  MaxMisfires, \* _MAX_PING_MISFIRES
  MaxActs,     \* most things the client, the managers and the turns do (bound)
  MaxPasses,   \* most passes of discovery (bound)
  MaxCrashes   \* most restarts of the process (bound)

Sessions == Requests \cup {Guard}

ASSUME Constants ==
  /\ Rules \subseteq Nat /\ Rules # {} /\ IsFiniteSet(Rules)
  /\ MaxMisfires \in Nat /\ MaxActs \in Nat /\ MaxPasses \in Nat /\ MaxCrashes \in Nat
  /\ IsFiniteSet(Requests) /\ Guard \notin Requests
  /\ Worker # Discover /\ NoOne \notin Sessions \cup {Worker, Discover}

VARIABLES
  (* committed in the database *)
  funnel,      \* the row of dialog_ping_states, or NoFunnel
  paused,      \* Dialog.ai_paused
  blocked,     \* Dialog.vk_blocked
  hot,         \* Dialog.funnel_stage is one of HOT_STAGES
  last,        \* the role of the last message
  lastPing,    \* the step of the last reminder stored as a message, -1: none
  (* transactions *)
  rowDialog,   \* who holds the dialogs row
  rowState,    \* who holds the row of dialog_ping_states, or its unique key
  tx,          \* the transactions of the sessions
  worker,      \* _process_due_one: where it is, and the dialog as it has loaded it
  disc,        \* discover: where it is with this dialog
  (* outside, history and bounds *)
  foreign,     \* a manager has written in MAX, and it is not recorded
  sent,        \* history: steps of this funnel the messenger has taken
  excused,     \* history: one of them is not recorded, or was not shown to the agent
  twice,       \* history: a step of a funnel was sent twice without such an excuse
  acts, passes, crashes

dialog  == <<paused, blocked, hot, last>>
history == <<sent, excused, twice>>
bounds  == <<acts, passes, crashes>>
vars == <<funnel, dialog, lastPing, rowDialog, rowState, tx, worker, disc, foreign, history, bounds>>

None == -1
Window(s) == s..(s + 2)                     \* what get_ping_scripts shows
\* What a session does: a message of the client, the end of a turn, a human's takeover
\* and its withdrawal, two statuses a manager may set, the bot stopped by the client
\* in MAX, delete_ping_state, and a takeover found in the history of MAX.
Kinds == {"answer", "reply", "takeover", "giveback", "prepay", "ordered", "stopped",
          "reset", "watch"}

\* _find_next_rule_after; None if there is no such rule.
NextRule(s) ==
  LET later == {r \in Rules : r > s} IN
  IF later = {} THEN None ELSE CHOOSE r \in later : \A q \in later : r <= q

\* Two fields are history: an answer of the client was stored since the funnel was
\* planned; discovery planned it with nobody in between.
NoFunnel == [id |-> 0, step |-> 0, done |-> TRUE, due |-> FALSE, forced |-> FALSE,
             resumed |-> FALSE, misfires |-> 0, answered |-> FALSE, clean |-> TRUE]

\* The table's sequence gives a new id; an id is as good as new when nobody remembers it.
FreshId ==
  CHOOSE i \in 1..(Cardinality(Sessions) + 2) :
    i # funnel.id /\ \A s \in Sessions : i # tx[s].read.id

NewFunnel(forced, resumed) ==
  [NoFunnel EXCEPT !.id = FreshId, !.step = NextRule(-1), !.done = FALSE,
                   !.forced = forced, !.resumed = resumed]

Closed == [funnel EXCEPT !.done = TRUE]

\* A mutant: the end of the funnel is not noticed.
AfterBlindly(s, f) == [f EXCEPT !.step = NextRule(s), !.due = FALSE]

\* The next rule becomes due later; without one the funnel ends.
After(s, f) ==
  IF NextRule(s) = None THEN [f EXCEPT !.done = TRUE]
  ELSE [f EXCEPT !.step = NextRule(s), !.due = FALSE]

NoTx   == [at |-> "idle", kind |-> "none", read |-> NoFunnel]
AtRest == [at |-> "idle", paused |-> FALSE, blocked |-> FALSE, hot |-> FALSE, pick |-> 0]
NoPass == [at |-> "idle", deletes |-> FALSE, inserts |-> FALSE, answered |-> FALSE]

Init ==
  /\ funnel \in {NoFunnel, [NoFunnel EXCEPT !.id = 1, !.step = NextRule(-1), !.done = FALSE]}
  /\ paused = FALSE /\ blocked = FALSE
  /\ hot \in BOOLEAN
  /\ last = "ai" /\ lastPing = None
  /\ rowDialog = NoOne /\ rowState = NoOne
  /\ tx = [s \in Sessions |-> NoTx] /\ worker = AtRest /\ disc = NoPass
  /\ foreign = FALSE
  /\ sent = {} /\ excused = FALSE /\ twice = FALSE
  /\ acts = 0 /\ passes = 0 /\ crashes = 0

-----------------------------------------------------------------------------
(* Sessions that write the dialog and the funnel *)

\* These leave the dialogs row alone.
StateOnly == {"stopped", "reset"}

\* A request comes in.  A turn has begun when the AI was not paused, and does not look
\* at the pause again; the panel offers the hand-back of a paused dialog.
Begin(r, kind) ==
  /\ tx[r].at = "idle"
  /\ kind = "reply" => ~paused /\ last = "client"
  /\ kind = "giveback" => paused /\ \A s \in Sessions : tx[s].kind # "giveback"
  /\ kind = "watch" => foreign
  /\ kind # "watch" => acts < MaxActs
  /\ acts' = IF kind = "watch" THEN acts ELSE acts + 1
  /\ tx' = [tx EXCEPT ![r] =
       IF kind \in StateOnly THEN [at |-> "touch", kind |-> kind, read |-> funnel]
       ELSE [at |-> "begun", kind |-> kind, read |-> NoFunnel]]
  /\ UNCHANGED <<funnel, dialog, rowDialog, rowState, worker, disc, foreign, lastPing,
                 history, passes, crashes>>

\* The SELECT of the funnel flushes the changed dialog.
Flush(s) ==
  /\ tx[s].at = "begun" /\ rowDialog = NoOne
  /\ rowDialog' = s
  /\ tx' = [tx EXCEPT ![s].at = "touch", ![s].read = funnel]
  /\ UNCHANGED <<funnel, dialog, rowState, worker, disc, foreign, lastPing, history, bounds>>

\* A mutant: the hand-back starts with the step that was sent last.
HandBackAtLast(read) ==
  LET step == IF lastPing # None THEN lastPing ELSE NextRule(-1) IN
  IF hot /\ ~read.forced THEN {NewFunnel(TRUE, TRUE), read}
  ELSE IF read.id = 0 THEN {NewFunnel(FALSE, TRUE), read}
  ELSE {[read EXCEPT !.step = step, !.done = FALSE, !.due = FALSE, !.resumed = TRUE,
                     !.misfires = 0, !.answered = FALSE]}

\* resume_after_handoff.  Without rules for the hot stage, without a price or without a
\* message of ours it plans nothing.
HandBack(read) ==
  LET step == IF lastPing # None THEN NextRule(lastPing)
              ELSE IF read.step \in Rules THEN read.step ELSE NextRule(-1) IN
  IF hot /\ ~read.forced THEN {NewFunnel(TRUE, TRUE), read}
  ELSE IF read.id = 0 THEN {NewFunnel(FALSE, TRUE), read}
  ELSE IF step = None THEN {[read EXCEPT !.done = TRUE]}
  ELSE {[read EXCEPT !.step = step, !.done = FALSE, !.due = FALSE, !.resumed = TRUE,
                     !.misfires = 0, !.answered = FALSE]}

\* A mutant: an answer leaves the funnel to the worker, which looks who spoke last.
PlansKeepOnAnswer(kind, read) ==
  CASE kind = "reset" -> {NoFunnel}
    [] kind \in {"takeover", "watch", "stopped", "ordered"} -> {[read EXCEPT !.done = TRUE]}
    [] kind = "prepay" -> {NewFunnel(TRUE, FALSE), NoFunnel}
    [] kind = "reply" -> {NewFunnel(TRUE, FALSE), NoFunnel, read}
    [] kind = "giveback" -> HandBack(read)
    [] OTHER -> {read}

\* The row a session means to leave, from the row it has read.  force_ping_funnel
\* deletes the old row even if the forced funnel has no rules.
Plans(kind, read) ==
  CASE kind \in {"answer", "reset"} -> {NoFunnel}
    [] kind \in {"takeover", "watch", "stopped", "ordered"} -> {[read EXCEPT !.done = TRUE]}
    [] kind = "prepay" -> {NewFunnel(TRUE, FALSE), NoFunnel}
    [] kind = "reply" -> {NewFunnel(TRUE, FALSE), NoFunnel, read}
    [] kind = "giveback" -> HandBack(read)
    [] OTHER -> {read}

\* An UPDATE or a DELETE of the row waits for who has locked it, an INSERT for who has
\* deleted or inserted a row of this dialog.
MustWait(s, plan) ==
  /\ plan # tx[s].read
  /\ rowState # NoOne
  /\ tx[s].read.id # 0 \/ rowState = Discover

\* An UPDATE that finds no row is a StaleDataError, an INSERT that finds one an
\* IntegrityError; a DELETE that finds none is not an error.
CanWrite(read, plan) ==
  \/ plan = read \/ plan.id = 0
  \/ plan.id = read.id /\ funnel.id = read.id
  \/ plan.id \notin {0, read.id} /\ funnel.id \in {0, read.id}

\* Only columns that differ from what was read are written; a hand-back always writes
\* the time of the next reminder.
Written(kind, read, plan) ==
  IF plan = read THEN funnel
  ELSE IF plan.id = 0 THEN (IF funnel.id = read.id THEN NoFunnel ELSE funnel)
  ELSE IF plan.id # read.id THEN plan
  ELSE [c \in DOMAIN funnel |->
          IF plan[c] # read[c] \/ (c = "due" /\ kind = "giveback") THEN plan[c] ELSE funnel[c]]

\* The columns of the dialog, and the message stored with them.
WriteDialog(kind) ==
  /\ paused' = CASE kind \in {"takeover", "watch"} -> TRUE
                 [] kind = "giveback" -> FALSE
                 [] OTHER -> paused
  /\ blocked' = (blocked /\ kind # "answer")
  /\ hot' \in IF kind = "reply" THEN BOOLEAN ELSE {hot}
  /\ last' \in CASE kind = "answer" -> {"client"}
                 [] kind = "reply" -> {"ai"}
                 [] kind = "takeover" -> {last, "curator"}
                 [] kind = "watch" -> {"curator"}
                 [] OTHER -> {last}
  /\ foreign' = (foreign /\ kind # "watch")

Freed(row, s) == IF row = s THEN NoOne ELSE row

\* History: what was sent is counted for each funnel.
Replaced(f) ==
  IF f.id = funnel.id THEN UNCHANGED history
  ELSE sent' = {} /\ excused' = FALSE /\ UNCHANGED twice

\* The funnel is written and the transaction committed.
Commit(s) ==
  /\ tx[s].at = "touch"
  /\ \E plan \in Plans(tx[s].kind, tx[s].read) :
       /\ ~MustWait(s, plan) /\ CanWrite(tx[s].read, plan)
       /\ LET f == Written(tx[s].kind, tx[s].read, plan) IN
          /\ funnel' = IF tx[s].kind = "answer" /\ f.id # 0 THEN [f EXCEPT !.answered = TRUE] ELSE f
          /\ Replaced(f)
  /\ disc' = IF tx[s].kind = "answer" /\ disc.at # "idle" THEN [disc EXCEPT !.answered = TRUE]
             ELSE disc
  /\ WriteDialog(tx[s].kind)
  /\ tx' = [tx EXCEPT ![s] = NoTx]
  /\ rowDialog' = Freed(rowDialog, s)
  /\ UNCHANGED <<lastPing, rowState, worker, bounds>>

Aborted(s) ==
  /\ tx' = [tx EXCEPT ![s] = NoTx]
  /\ rowDialog' = Freed(rowDialog, s)

\* The write meets a row other than the one read: nothing of the request is kept.
Fail(s) ==
  /\ tx[s].at = "touch"
  /\ \E plan \in Plans(tx[s].kind, tx[s].read) :
       ~MustWait(s, plan) /\ ~CanWrite(tx[s].read, plan)
  /\ Aborted(s)
  /\ UNCHANGED <<funnel, dialog, rowState, worker, disc, foreign, lastPing, history, bounds>>

-----------------------------------------------------------------------------
(* The worker: _process_due_one and _process_state *)

DueComes ==
  /\ ~funnel.done /\ ~funnel.due
  /\ funnel' = [funnel EXCEPT !.due = TRUE]
  /\ UNCHANGED <<dialog, rowDialog, rowState, tx, worker, disc, foreign, lastPing, history,
                 bounds>>

\* A mutant: the row is read without FOR UPDATE.
PickDueUnlocked ==
  /\ worker.at = "idle" /\ rowState = NoOne
  /\ ~funnel.done /\ funnel.due
  /\ worker' = [at |-> "loaded", paused |-> paused, blocked |-> blocked, hot |-> hot, pick |-> 0]
  /\ UNCHANGED <<funnel, dialog, rowDialog, rowState, tx, disc, foreign, lastPing, history, bounds>>

\* A row somebody else has locked is skipped.
PickDue ==
  /\ worker.at = "idle" /\ rowState = NoOne
  /\ ~funnel.done /\ funnel.due
  /\ rowState' = Worker
  /\ worker' = [at |-> "loaded", paused |-> paused, blocked |-> blocked, hot |-> hot, pick |-> 0]
  /\ UNCHANGED <<funnel, dialog, rowDialog, tx, disc, foreign, lastPing, history, bounds>>

\* The transaction of this pass commits f and gives the row back.
Ends(f) ==
  /\ funnel' = f
  /\ worker' = AtRest
  /\ rowState' = NoOne

\* In a MAX dialog pause_if_manager_replied reads the history of MAX in a session of its
\* own; what it finds, it records there, and the worker waits.  Without the history it
\* says no.
AskGuard ==
  /\ worker.at = "loaded" /\ ~worker.paused /\ ~worker.blocked
  /\ \/ worker' = [worker EXCEPT !.at = "asked"] /\ UNCHANGED tx
     \/ /\ foreign
        /\ worker' = [worker EXCEPT !.at = "guard"]
        /\ tx' = [tx EXCEPT ![Guard] = [NoTx EXCEPT !.at = "begun", !.kind = "watch"]]
  /\ UNCHANGED <<funnel, dialog, rowDialog, rowState, disc, foreign, lastPing, history,
                 bounds>>

\* The dialog is paused or blocked, or the guard has paused it.
StopForPeople ==
  /\ \/ worker.at = "loaded" /\ (worker.paused \/ worker.blocked)
     \/ worker.at = "guard" /\ tx[Guard].at = "idle"
  /\ Ends(Closed)
  /\ UNCHANGED <<dialog, rowDialog, tx, disc, foreign, lastPing, history, bounds>>

TooHot == worker.hot /\ ~funnel.forced /\ ~funnel.resumed

\* A lead on a hot stage is handed to a manager, with a pause and a status.
HandToManager ==
  /\ worker.at = "asked" /\ TooHot
  /\ rowDialog = NoOne
  /\ paused' = TRUE
  /\ Ends(Closed)
  /\ UNCHANGED <<blocked, hot, last, rowDialog, tx, disc, foreign, lastPing, history,
                 bounds>>

\* The client has spoken last, or the status of the dialog forbids to write.
StopUnasked ==
  /\ worker.at = "asked" /\ ~TooHot
  /\ Ends(Closed)
  /\ UNCHANGED <<dialog, rowDialog, tx, disc, foreign, lastPing, history, bounds>>

StartAgent ==
  /\ worker.at = "asked" /\ ~TooHot /\ last # "client"
  /\ worker' = [worker EXCEPT !.at = "agent"]
  /\ UNCHANGED <<funnel, dialog, rowDialog, rowState, tx, disc, foreign, lastPing, history, bounds>>

\* A mutant: an error is logged, and its transaction left open.
AgentFailsLoggedOnly ==
  /\ worker.at = "agent"
  /\ worker' = AtRest
  /\ UNCHANGED <<funnel, dialog, rowDialog, rowState, tx, disc, foreign, lastPing, history, bounds>>

\* An error is rolled back: the reminder stays due.
AgentFails ==
  /\ worker.at = "agent"
  /\ Ends(funnel)
  /\ UNCHANGED <<dialog, rowDialog, tx, disc, foreign, lastPing, history, bounds>>

\* "complete" after the dialog was read, or a step without a rule.
AgentStops ==
  /\ worker.at = "agent"
  /\ \/ Ends(Closed)
     \/ Ends([Closed EXCEPT !.misfires = 0])
  /\ UNCHANGED <<dialog, rowDialog, tx, disc, foreign, lastPing, history, bounds>>

\* A mutant: the agent is asked again at once.
MisfireRetried ==
  /\ worker.at = "agent"
  /\ worker' = [worker EXCEPT !.at = "asked"]
  /\ UNCHANGED <<funnel, dialog, rowDialog, rowState, tx, disc, foreign, lastPing, history, bounds>>

\* "complete" before anything was read: retried, at most MaxMisfires times in a row.
Misfire ==
  /\ worker.at = "agent"
  /\ LET n == funnel.misfires + 1 IN
     Ends([funnel EXCEPT !.misfires = n, !.done = n >= MaxMisfires, !.due = n >= MaxMisfires])
  /\ UNCHANGED <<dialog, rowDialog, tx, disc, foreign, lastPing, history, bounds>>

\* "skip": everything the agent was shown has been said already.
AgentSkips ==
  /\ worker.at = "agent"
  /\ Ends(After(funnel.step + 2, [funnel EXCEPT !.misfires = 0]))
  /\ UNCHANGED <<dialog, rowDialog, tx, disc, foreign, lastPing, history, bounds>>

\* "send": any step with a rule is taken, shown to the agent or not.
AgentSends(s) ==
  /\ worker.at = "agent"
  /\ worker' = [worker EXCEPT !.at = "send", !.pick = s]
  /\ excused' = (excused \/ s \notin Window(funnel.step))
  /\ UNCHANGED <<funnel, dialog, rowDialog, rowState, tx, disc, foreign, sent, twice,
                 lastPing, bounds>>

Picked == [funnel EXCEPT !.step = worker.pick, !.misfires = 0]

\* Nearly the text of an earlier message: on to the next step.
DuplicateText ==
  /\ worker.at = "send"
  /\ Ends(After(worker.pick, Picked))
  /\ UNCHANGED <<dialog, rowDialog, tx, disc, foreign, lastPing, history, bounds>>

\* What is excused is not counted any more.
Taken ==
  /\ sent' = IF excused THEN {} ELSE sent \cup {worker.pick}
  /\ twice' = (twice \/ (~excused /\ worker.pick \in sent))

VkTakes ==
  /\ worker.at = "send"
  /\ Taken
  /\ worker' = [worker EXCEPT !.at = "sent"]
  /\ UNCHANGED <<funnel, dialog, rowDialog, rowState, tx, disc, foreign, excused, lastPing,
                 bounds>>

VkRefuses ==
  /\ worker.at = "send"
  /\ worker' = [worker EXCEPT !.at = "refused"]
  /\ UNCHANGED <<funnel, dialog, rowDialog, rowState, tx, disc, foreign, lastPing, history,
                 bounds>>

\* Any other error; the messenger may have taken the text.  The step is kept and due.
SendFails ==
  /\ worker.at = "send"
  /\ \/ UNCHANGED history
     \/ Taken /\ excused' = TRUE
  /\ Ends(Picked)
  /\ UNCHANGED <<dialog, rowDialog, tx, disc, foreign, lastPing, bounds>>

\* The message is stored and the next step planned; after the last one a manager is
\* called by a status.
Record ==
  /\ worker.at = "sent" /\ rowDialog = NoOne
  /\ last' = "ai" /\ lastPing' = worker.pick
  /\ Ends(After(worker.pick, Picked))
  /\ UNCHANGED <<paused, blocked, hot, rowDialog, tx, disc, foreign, history, bounds>>

RecordRefusal ==
  /\ worker.at = "refused" /\ rowDialog = NoOne
  /\ blocked' = TRUE
  /\ Ends([Picked EXCEPT !.done = TRUE])
  /\ UNCHANGED <<paused, hot, last, rowDialog, tx, disc, foreign, lastPing, history, bounds>>

-----------------------------------------------------------------------------
(* PostgreSQL breaks a deadlock by aborting one of the two *)

WantsDialog == worker.at \in {"sent", "refused"} \/ (worker.at = "asked" /\ TooHot)

Deadlock(s) ==
  /\ rowState = Worker /\ WantsDialog
  /\ rowDialog = s /\ tx[s].at = "touch"
  /\ \E plan \in Plans(tx[s].kind, tx[s].read) : MustWait(s, plan)

AbortWorker(s) ==
  /\ Deadlock(s)
  /\ Ends(funnel)
  /\ excused' = (excused \/ worker.at = "sent")
  /\ UNCHANGED <<dialog, rowDialog, tx, disc, foreign, sent, twice, lastPing, bounds>>

AbortSession(s) ==
  /\ Deadlock(s)
  /\ Aborted(s)
  /\ UNCHANGED <<funnel, dialog, rowState, worker, disc, foreign, lastPing, history, bounds>>

-----------------------------------------------------------------------------
(* discover, seen from this dialog: one of a batch, committed as a whole *)

\* The batch is selected.
Select ==
  /\ disc.at = "idle" /\ passes < MaxPasses
  /\ ~paused /\ ~blocked
  /\ funnel.id = 0 \/ (funnel.done /\ last = "curator")
  /\ passes' = passes + 1
  /\ disc' = [NoPass EXCEPT !.at = "selected"]
  /\ UNCHANGED <<funnel, dialog, rowDialog, rowState, tx, worker, foreign, lastPing,
                 history, acts, crashes>>

\* Other dialogs' models have been asked in between.  The last message is read again,
\* and the old funnel, which goes if a manager has spoken after it.
Check ==
  /\ disc.at = "selected"
  /\ \/ /\ last = "client" \/ (funnel.id # 0 /\ (last # "curator" \/ ~funnel.done))
        /\ disc' = NoPass /\ UNCHANGED rowState
     \/ /\ last # "client" /\ funnel.id = 0
        /\ disc' = [disc EXCEPT !.at = "detect"] /\ UNCHANGED rowState
     \/ /\ last = "curator" /\ funnel.id # 0 /\ funnel.done
        /\ rowState = NoOne /\ rowState' = Discover
        /\ disc' = [disc EXCEPT !.at = "detect", !.deletes = TRUE]
  /\ UNCHANGED <<funnel, dialog, rowDialog, tx, worker, foreign, lastPing, history, bounds>>

\* The model has named a funnel: the new row is inserted, unless there is one by now.
\* It has not: the deletion stays in the batch.
Detect ==
  /\ disc.at = "detect"
  /\ \/ /\ disc.deletes \/ funnel.id = 0
        /\ rowState \in {NoOne, Discover} /\ rowState' = Discover
        /\ disc' = [disc EXCEPT !.at = "batch", !.inserts = TRUE]
     \/ /\ disc' = [disc EXCEPT !.at = "batch"] /\ UNCHANGED rowState
  /\ UNCHANGED <<funnel, dialog, rowDialog, tx, worker, foreign, lastPing, history, bounds>>

\* The funnel is planned with nobody in between: no answer since the selection, and
\* nobody who has looked for a funnel and found none.
Undisturbed == ~disc.answered /\ \A s \in Sessions : tx[s].at # "touch"

CommitBatch ==
  /\ disc.at = "batch"
  /\ LET f == IF disc.inserts
              THEN [NewFunnel(FALSE, FALSE) EXCEPT !.answered = disc.answered, !.clean = Undisturbed]
              ELSE IF disc.deletes THEN NoFunnel ELSE funnel IN
     funnel' = f /\ Replaced(f)
  /\ disc' = NoPass
  /\ rowState' = Freed(rowState, Discover)
  /\ UNCHANGED <<dialog, lastPing, rowDialog, tx, worker, foreign, bounds>>

\* A conflict or an error with any dialog of the batch loses the batch.
LoseBatch ==
  /\ disc.at \in {"detect", "batch"}
  /\ disc' = NoPass
  /\ rowState' = Freed(rowState, Discover)
  /\ UNCHANGED <<funnel, dialog, rowDialog, tx, worker, foreign, lastPing, history, bounds>>

-----------------------------------------------------------------------------
ManagerWritesInMax ==
  /\ ~foreign /\ acts < MaxActs
  /\ foreign' = TRUE /\ acts' = acts + 1
  /\ UNCHANGED <<funnel, dialog, rowDialog, rowState, tx, worker, disc, lastPing, history,
                 passes, crashes>>

\* The process dies; PostgreSQL rolls its transactions back.
Crash ==
  /\ crashes < MaxCrashes
  /\ crashes' = crashes + 1
  /\ tx' = [s \in Sessions |-> NoTx] /\ worker' = AtRest /\ disc' = NoPass
  /\ rowDialog' = NoOne /\ rowState' = NoOne
  /\ excused' = (excused \/ worker.at = "sent")
  /\ UNCHANGED <<funnel, dialog, foreign, sent, twice, lastPing, acts, passes>>

WorkerSteps ==
  \/ AskGuard \/ StopForPeople \/ HandToManager \/ StopUnasked \/ StartAgent
  \/ AgentFails \/ AgentStops \/ Misfire \/ AgentSkips \/ \E s \in Rules : AgentSends(s)
  \/ DuplicateText \/ VkTakes \/ VkRefuses \/ SendFails \/ Record \/ RecordRefusal

SessionSteps(s) == Flush(s) \/ Commit(s) \/ Fail(s)

Passes == Check \/ Detect \/ CommitBatch \/ LoseBatch

Next ==
  \/ DueComes \/ PickDue \/ WorkerSteps
  \/ \E r \in Requests, kind \in Kinds : Begin(r, kind)
  \/ \E s \in Sessions : SessionSteps(s) \/ AbortWorker(s) \/ AbortSession(s)
  \/ Select \/ Passes
  \/ ManagerWritesInMax \/ Crash

Spec == Init /\ [][Next]_vars

\* Tasks that can go on do, models and messengers answer or time out, a row is given
\* to who waits for it, and PostgreSQL looks for deadlocks.  Nothing is owed by people
\* or by the clock.
FairSpec ==
  /\ Spec
  /\ SF_vars(WorkerSteps) /\ SF_vars(Passes)
  /\ \A s \in Sessions : SF_vars(SessionSteps(s)) /\ WF_vars(AbortWorker(s) \/ AbortSession(s))

-----------------------------------------------------------------------------
(* Properties *)

FunnelType ==
  [id : Nat, step : Nat, done : BOOLEAN, due : BOOLEAN, forced : BOOLEAN, resumed : BOOLEAN,
   misfires : Nat, answered : BOOLEAN, clean : BOOLEAN]

\* What the variables hold.
TypeOK ==
  /\ funnel \in FunnelType
  /\ paused \in BOOLEAN /\ blocked \in BOOLEAN /\ hot \in BOOLEAN
  /\ foreign \in BOOLEAN /\ excused \in BOOLEAN /\ twice \in BOOLEAN
  /\ last \in {"client", "ai", "curator"}
  /\ lastPing \in Rules \cup {None}
  /\ rowDialog \in Sessions \cup {NoOne}
  /\ rowState \in {Worker, Discover, NoOne}
  /\ tx \in [Sessions -> [at : {"idle", "begun", "touch"}, kind : Kinds \cup {"none"},
                          read : FunnelType]]
  /\ worker \in [at : {"idle", "loaded", "guard", "asked", "agent", "send", "sent", "refused"},
                 paused : BOOLEAN, blocked : BOOLEAN, hot : BOOLEAN, pick : Rules \cup {0}]
  /\ disc \in [at : {"idle", "selected", "detect", "batch"}, deletes : BOOLEAN,
               inserts : BOOLEAN, answered : BOOLEAN]
  /\ sent \subseteq Rules
  /\ acts \in Nat /\ passes \in Nat /\ crashes \in Nat

\* No reminder goes out after the client has answered or a human has taken over,
\* although the agent thinks for minutes after the worker has looked: whoever stops the
\* funnel waits for the row the worker has locked (ping/worker.py 867-889, the DELETE in
\* vk/webhook.py 538-545, stop_pings).  Funnels discovery planned past somebody are the
\* exception.
NoPingAfterPeople ==
  worker.at = "send" /\ funnel.clean => ~funnel.answered /\ ~paused

\* No step of a funnel is sent twice, unless a reminder taken by the messenger was not
\* recorded or the agent has named a step it was not shown: what a hand-back resumes
\* with fits what was sent (resume_after_handoff against _process_state).
NoPingTwice == ~twice

\* The worker's row is there and open as long as the worker holds it: nobody deletes or
\* closes the funnel under its hands (the StaleDataError of ping/worker.py 870-876).
WorkerKeepsItsRow == worker.at # "idle" => rowState = Worker /\ funnel.id # 0 /\ ~funnel.done

GuardIsStuck == worker.at = "guard" /\ tx[Guard].at # "idle"

\* Every request ends, although the worker holds the funnel for minutes and takes the
\* rows in the opposite order -- unless the worker waits for its own guard.
RequestsEnd == \A r \in Requests : tx[r].at # "idle" ~> (tx[r].at = "idle" \/ GuardIsStuck)

\* So does the handling of a due reminder (gather in process_due waits for all of them).
PassEnds == worker.at # "idle" ~> (worker.at = "idle" \/ GuardIsStuck)

-----------------------------------------------------------------------------
(* Statements of the code that do not hold *)

\* max/manager_watch.py 341-343: the pause the guard sets and what the manager wrote must
\* not get lost when the turn that asked is rolled back.
GuardsPauseLands == worker.at = "guard" ~> paused
=============================================================================
