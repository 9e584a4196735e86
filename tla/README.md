# A TLA+ model of HemiltonAi

HemiltonAi is a sales assistant: it answers clients who write to a VK community (or to a MAX bot), sells from scripts
and a catalogue, and leaves the conversation to a manager when it should. One Python process (`uvicorn --workers 1`)
serves the webhooks, the panel's API and four background loops (due pings, discovery of pings, silent greeting, MAX watch); PostgreSQL at READ COMMITTED keeps the state. The
code is under `src/app`. In this text `vk/webhook.py:497` means `src/app/vk/webhook.py`, line 497.

This directory holds TLA+ modules that model parts of that program, configurations with which TLC checks them on small
instances, and proofs that TLAPS checks for every value of the constants.

    tlc -workers 2 -config turn_people.cfg MCDialogTurn     # a run
    tlapm DialogTurn_proof.tla                              # the proofs of a module

`PROJECT.json` holds the same facts in a form tools can read: which lines a definition models (`map`), the runs, the
mutated definition that makes each property fail (`mutants`), the hazards and the findings.

## 1. The system

### 1.1 Components

**VK dialog turn** (`vk/webhook.py`, `vk/outgoing.py`, `vk/sender.py`, `ai/run_log.py`). *State*: `clients`, `dialogs`
(`ai_paused`, `vk_blocked`, `funnel_stage`, `quoted_prices`, `last_message_at`), `messages` (with the delivery mark and
VK's id), `ai_runs`; in memory `_OUR_RANDOM_IDS`. *Operations*: `handle_message_new` (store the message, drop pings, take
the lock, wait the grace period, run the AI, send the parts), `handle_message_reply` (own echo, or a human). *Hard*: VK repeats events, every event is a task of its own, a run lasts up to minutes
and a delivery some seconds per part, and the client, the managers and VK go on meanwhile; a part may be sent and its
answer lost; the process may die in the middle. *Correct when*: turns of one dialog exclude each other, replies come in
order and in one piece, a withdrawn part is never taken for said, a human's takeover wins, the bot does not take itself
for a human, and the last message of the client is taken up.

**Dialog lock** (`ai/dialog_lock.py`). *State*: a dictionary from dialogs to `asyncio.Lock`. *Operations*: `dialog_lock`
(adds a lock, prunes unused ones from 512 on), `superseded_by_newer_message`. *Hard*: `asyncio.Lock` hands over in two
steps, pruning may come in between. *Correct when*: a fair mutex for each dialog, bounded memory.

**AI run** (`ai/runner.py`, `ai/anthropic_runner.py`, `ai/agents.py`, `ai/schemas.py`). *State*: the run's session with
the dialog it has loaded. *Operations*: build the history, find the point of the funnel the client's text stands for, call the
model with a time limit and once more if the reply is flawed, call a person, put a script in place of the reply, unfold the scripts linked
to it, tidy the turn with a chain of filters, commit. *Hard*: objects loaded before the model call are used
after it; a flush in the middle of the transaction holds the row; reply, chain and forced scripts are each decided by rules of
their own and must agree; a filter may leave out what others rely on. *Correct
when*: a turn asks one question, the reply does not move on a client who refused, nothing he has read comes again, a manager's topic is left to the manager, and what is committed fits what will be sent.

**AI tools and prices** (`ai/tools.py`, `sales/price_placeholder.py`, `sales/prices.py`, `sales/price_objection.py`).
*State*: `Dialog.quoted_prices` (a JSON column), the catalogue. *Operations*: tools called by the model in sessions of
their own, rendering of price placeholders, pinning of a price. *Hard*: read, change and write back of one value by two
sessions; a price is pinned before it is delivered. *Correct when*: a price once named is not raised, and a concession
goes down one step of the ladder.

**Ping funnel** (`ping/worker.py`, `scheduler.py`, `eligibility.py`, `agent.py`). *State*: `dialog_ping_states`, one for a dialog. *Operations*:
plan a chain of reminders, take the due ones, run the ping agent, send, escalate, stop at the client's answer or at a
manager's. *Hard*: the worker keeps the row locked (`FOR UPDATE`) for the minutes the agent thinks and writes the dialogs row
last, everybody else writes the dialogs row first; a guard the worker waits for writes the same row from a session of its
own; the client may answer during the agent's run; a crash between send and commit; discovery plans a batch of dialogs in one
transaction. *Correct when*: no ping after an answer, a pause or a block, no ping twice, every due ping is processed or dropped.

**Silent greeting** (`ping/silent_greeting.py`). *State*: marks of `messages`, one session for a batch of dialogs.
*Operations*: send the price script to a client who has not answered the greeting's question for 20 minutes. *Hard*: no dialog lock; a rollback after a failed part.
*Correct when*: the price is sent once and each part that reached the client is marked.

**MAX manager watch** (`max/manager_watch.py`). *State*: `messages` of the role curator, `ai_paused`. *Operations*: poll
the history of MAX chats, store what a manager wrote, pause; a guard before sending. *Hard*: the bot's own message is
seen before it is committed; the guard is blind to what the watcher has already stored. *Correct when*: every manager's
message is stored once and pauses the dialog, and no message of the bot does.

**MAX webhook, transport and bots** (`max/webhook.py`, `max/client.py`, `max/sender.py`, `messaging.py`, `api/max.py`,
`api/max_bots.py`). *State*: bots with their subscriptions, the same dialogs. *Operations*: as VK's, and switching bots on and off.
*Correct when*: an active bot is subscribed, an inactive one answers nobody.

**Broadcast counter** (`vk/broadcast.py`). *State*: a window of texts in memory. *Operations*: count in how many dialogs
a text was seen. *Hard*: the first nine dialogs of a broadcast look like a takeover (the code accepts that), the count is lost at a restart. *Correct when*: from ten dialogs within 30 minutes
on a text does not pause, and a rarer one does.

**Status flow** (`sales/status_flow.py`, `statuses.py`, `commands/resync_statuses.py`). *State*: `Dialog.current_status_id`.
*Operations*: `sync_status` moves the dialog up a ladder by what was delivered and received, sets off forced pings. *Correct when*: no
automatic step goes back, side statuses and statuses set by hand are kept, and a step stands on a delivered message.

**Sales content** (`sales/*`), **prompts, providers and triggers** (`ai/prompts.py`, `providers.py`, `triggers.py`, `cost.py`):
rules over texts, calls to external models. *State*: none of their own beyond catalogue and script tables.

**Panel** (`api/chat.py`, `api/dialogs.py`; administration in the other files of `api/`). *State*: the same tables.
*Operations*: reply as a manager, pause and resume, preview of a script, create and change catalogue, scripts, groups.
*Hard*: its requests run next to the turns. *Correct when*: the manager's pause is in force before his message goes out.

**Media and uploads**, **notifications**, **authentication**, **utilities and configuration**, **commands**,
**frontend**, **migrations**: I/O, sequential requests, or one-off scripts. See section 8.

### 1.2 How they meet

    VK event -> handle_message_new -> [dialogs row] -> dialog_lock -> run_ai -> tools (own sessions)
                                                          |             |           |
                                                          |             +-- quoted_prices --+
                                                          +-> deliver_parts -> VK -> echo -> handle_message_reply
    panel ------- ai_paused, messages ------^   ^--- ping worker, silent greeting, manager watch (own sessions)

Two kinds of waiting exist. `dialog_lock` orders the turns of one dialog in the memory of the process. The row of
`dialogs` is locked by whoever has flushed an UPDATE of it, until the transaction ends. Pause, resume, echo handling and
tools take the row and not the lock; a handler takes the row to store the message before it asks for the lock, and again
inside it. Everything else is shared by committed rows: a session reads what others have committed, keeps its objects
after its own commits (`expire_on_commit=False`), and writes only the columns it has changed.

## 2. Plan

| order | module | models | abstract specification | state |
|---|---|---|---|---|
| 1 | `DialogTurn` | one dialog from VK's event to the client's phone | uses `FairMutex` | done |
| 2 | `DialogLock` | the registry of locks over `asyncio.Lock` | implements `FairMutex` | done |
| 3 | `PricePin` | prices, pins and sessions of one dialog | | done |
| 4 | `PingFunnel` | the row of a funnel: the ping worker and discovery against turns, the panel and the manager guard; row locks, conflicts, crash | | done |
| 5 | `MaxDialog` | one MAX dialog: events, guard, watcher, silent greeting, managers past the panel | | done |
| 6 | `StatusFlow` | the ladder of statuses, who moves it and what is told of it; the counter of mailings | | done |
| 7 | `AiRun` | what a run says: the rules of the funnel, the gate, escalations, the chain of scripts, the filters | | done |
| 8 | `OwnEcho`, `AttachmentCache` | the window of 5000 random ids, the cache of uploads at its limit | | |
| 9 | `MaxTransport` | a refused message sent again with uploaded files, removed dialogs, MAX's limits | | |
| 10 | `Discounts` | when a concession is open to the model, `[сумма-заказа]` | | |
| 11 | `SplitText` | splitting of long texts | the concatenation is the text, no piece is too long | |

Theorems planned: none are left for the modules above; what stays with TLC is in section 7.

## 3. The modules

| module | content |
|---|---|
| `DialogTurn` | the turn of a VK dialog, its actions in the order of the code, properties at the end |
| `FairMutex` | what `dialog_lock` promises |
| `DialogLock` | how the registry and `asyncio.Lock` keep the promise, and where they do not |
| `PricePin` | pins and prices of one dialog |
| `PingFunnel` | the reminders of one dialog and everybody who writes their row |
| `MaxDialog` | one dialog of a MAX bot, and managers the bot can only find in the chat's history |
| `StatusFlow` | the status of a dialog, the sessions and people that change it, mailings |
| `AiRun` | one run of the agent after another: what the turn says and when it says nothing |
| `MCDialogTurn`, `MCDialogLock`, `MCPricePin`, `MCPingFunnel`, `MCMaxDialog`, `MCStatusFlow`, `MCAiRun` | instances for TLC |
| `DialogTurn_proof`, `DialogOrder_proof`, `DialogLock_proof`, `PricePin_proof`, `PingFunnel_proof`, `StatusFlow_proof`, `MaxDialog_proof`, `AiRun_proof` | theorems |

A definition marked "A mutant" is a plausible mistake at the place of the definition it precedes. No specification uses
it: `PROJECT.json` says which property fails when it does.

### 3.1 DialogTurn

| variables | code |
|---|---|
| `inbox`, `aiRun`, `curator`, `part`, `dropped` | rows of `messages` and `ai_runs`: the client's, runs by `input_message_id`, those of a human, the reply's with their marks, runs that saved a message and left it out |
| `paused`, `blocked` | `Dialog.ai_paused`, `Dialog.vk_blocked` as committed |
| `rowLock` | the transaction that has flushed an UPDATE of the dialogs row |
| `pc`, `my` | where each task of `handle_message_new` is, and its local variables |
| `lockQ` | `dialog_lock`: the holder and those behind it |
| `ownIds` | `_OUR_RANDOM_IDS` |
| `panel`, `seen` | a `reply_as_manager` that waits for VK; a `handle_message_reply` that has read the dialog |
| `wire`, `echo`, `vkReplies` | what VK took, which echoes are to come, what humans wrote from VK |
| `takenOver` | history: a human's takeover and its pause are committed |
| `acts`, `crashes` | counters of the bounds |

A step is what happens between two awaits that matter: commits, reads that are used later, calls to VK.
`Deliver`, `Lookup`, `CommitSkip`, `CommitReprocess`, `Store` are `handle_message_new` up to its commit; `Enter`,
`Acquire`, `Yield`, `StartRun`, `ChangeStage`, `CommitRun`, `FailRun`, `Withdraw`, `HoldReply`, `GoDeliver` what happens
under the lock; `SkipEmpty`, `SendBlocked`, `Send`, `VkAccepts`, `VkForbids`, `SendFails`, `MarkDelivered`, `Finish` are
`deliver_parts`; `EchoOfOurs`, `HumanWritesInVk`, `HumanReplyRead`, `HumanReplyStored` are `handle_message_reply`;
`SetAiPause`, `PanelReply`, `PanelReplied` the panel; `Crash` a restart. The texts, the choice of a script and of a
stage, what the model says, and the number of parts are choices.

Abstractions, each with its reason:
- The dialog exists at the start. How the first events of a client race to create it is in `MaxDialog`.
- `deliver_parts` for MAX asks the manager guard before each part (`vk/webhook.py:625-633`); `MaxDialog` models that turn.
- An unrecognised echo pauses in one step; a human's message from VK is read and stored in two, one message at a time.
- The window of 5000 random ids is not modelled: one dialog does not fill it.
- The IntegrityError at the commit of a mark (`vk/webhook.py:686-690`) needs an echo stored by somebody else; while the
  process lives no echo of ours is (`OwnEchoIsRecognised`), and after a crash no task delivers.
- An error before the call to VK is taken together with an error of VK (`SendFails`).
- Failures before the model is called leave no AIRun and are not modelled; the session of `log_failed_run` is taken to succeed.
- Row lock and dialog lock are given up in one step at a failure: nobody can use the difference but a waiting writer.
- Rows that refer to a dialog take a `FOR KEY SHARE` lock, which does not conflict with an UPDATE of other columns.

### 3.2 FairMutex and DialogLock

`FairMutex` has a queue for each dialog and the set of tasks inside. `DialogLock` has the registry (`_locks`), and the flag
and the waiters of each lock object. `Ask` is a call of `dialog_lock` together with `acquire()` up to its first
await, pruning included; `ReleaseLock` and `WakeUp` are the two halves of the handover. `forgotten` is a history
variable: a lock was dropped while a task waited for it. `DialogTurn` checks that its turns use the lock as
`FairMutex` allows (`LockIsFairMutex`), `DialogLock` that the registry provides it (`ImplementsFairMutex`) until
a lock is dropped while a task waits for it. The code's threshold is 512 and the model's is 1; the step in question needs only
that the registry is at its threshold.

### 3.3 PricePin

| variables | code |
|---|---|
| `columns` | list, discount and least price of each product (0: empty) |
| `quoted` | `Dialog.quoted_prices` as committed |
| `base`, `copy` | the column as the run's session has loaded it, and as it has it now |
| `rowLocked` | the run's transaction has flushed a new stage |
| `open`, `results` | calls of `get_script_phrase` between read and commit; what the tool has returned |
| `draft`, `known` | the reply's messages, and the prices `_drop_conflicting_prices` knows at this point |
| `told`, `heard` | the last price of a product the client got, and all prices he got |
| `stale` | history: a price was pinned or rendered from a read another session had overtaken |

`Begin` loads the dialog; `CallRead` and `CallCommit` are a tool's session; `Answer` is the model's answer, which may
quote what a tool has returned; `Render` is a placeholder rendered by `run_ai` from its own copy; `Commit` writes the
column as a whole, if it was changed; `NextPart` and `EndTurn` deliver, leave out, withdraw or fail; `Fail` is an error of
the model or `AI_RUNNER_TIMEOUT`; `EditProduct` is the panel. A tool call that moves the pin cannot commit while the run's transaction
holds the row (`rowLocked`), and the run waits for the tool: only `Fail` ends this.

Runs do not overlap, which `DialogTurn` shows of turns. Left out: order totals (`[сумма-заказа]`); the prices the model words
itself (`search_products` gives it unpinned catalogue prices); messages with several prices; the greeting worker,
which renders outside `dialog_lock`; the manager's preview of a script, which does not commit; the conditions that open
a concession; errors of the tool's commit.

### 3.4 PingFunnel

| variables | code |
|---|---|
| `funnel` | the dialog's row of `dialog_ping_states` as committed (`id`, `current_step`, `is_completed`, whether `next_ping_due_at` has come, whether the funnel is one of `FORCED_FUNNELS`, `resumed_by_manager`, `misfire_count`), and two history fields |
| `paused`, `blocked`, `hot`, `last`, `lastPing` | `Dialog.ai_paused`, `vk_blocked`, whether `funnel_stage` is hot, the role of the last message, the step in the last reminder stored |
| `rowDialog`, `rowState` | the transactions that hold the row of `dialogs` and the row (or the unique key) of `dialog_ping_states` |
| `tx` | sessions of requests and of the guard: what each does and the funnel it has read |
| `worker`, `disc` | `_process_due_one` with what it has loaded of the dialog, and a pass of `discover` seen from this dialog |
| `foreign` | a manager has written in MAX and it is not recorded |
| `sent`, `excused`, `twice` | history: the steps of this funnel the messenger has taken, whether a repetition is excused, whether there was one without an excuse |

A request (`Begin`, `Flush`, `Commit`, `Fail`) is one of nine kinds: the client's message (`handle_message_new`), the end of a turn
(`sync_status`), a takeover (panel, VK, MAX), its withdrawal (`set_ai_pause`), two statuses (`change_status`), a stopped bot,
`delete_ping_state`, and the watcher's record. Each has its own plan for the row (`Plans`, and `HandBack` for
`resume_after_handoff`). `Flush` is the SELECT of the funnel, which first flushes the changed dialog and so takes the dialogs
row; `Commit` writes what differs from what was read, or waits (`MustWait`), or fails (`CanWrite`: SQLAlchemy's
StaleDataError, or the unique key). `PickDue`, `AskGuard`, `StopForPeople`, `HandToManager`, `StopUnasked`, `StartAgent`,
`AgentFails`, `AgentStops`, `Misfire`, `AgentSkips`, `AgentSends`, `DuplicateText`, `VkTakes`, `VkRefuses`, `SendFails`, `Record`,
`RecordRefusal` are the worker in the order of the code. `Select`, `Check`, `Detect`, `CommitBatch`, `LoseBatch` are discovery.
`AbortWorker` and `AbortSession` are PostgreSQL, which ends a cycle of waiting by aborting one transaction.

Abstractions, each with its reason:
- Statuses are left out, so the test for the status ЧС is a choice (`StopUnasked`); the time is left out but for a reminder becoming due.
- One set of steps with a rule serves all funnels: the active rules of a type, a funnel and a tag.
- The panel's request writes the funnel before it calls the messenger and commits after it. The model writes and commits in
  one step: in between the row is held, so whoever would come in waits, and other sessions read the old values either way.
- The dialog may be one of MAX, which has a guard; without a foreign message the steps are those of VK.
- An `id` is reused when nobody remembers it, which keeps the states finite.
- Reminders without text (`need_curator`) and test dialogs go to the panel only and take the step `VkTakes`.
- The second way into `StopForPeople` (the guard has answered yes) is in the code and is never taken: see `ping_guard`.

### 3.5 MaxDialog

| variables | code |
|---|---|
| `chat` | the chat as MAX keeps it: who wrote (the client, a turn, the silent greeting, a manager) and which row's text it repeats |
| `rows` | `messages` of the dialog: role, the mids it is known by, when it was made, whether it is committed |
| `known`, `paused`, `blocked`, `stage`, `chatId` | client and dialog exist; `ai_paused`, `vk_blocked`, `funnel_stage`; `Client.max_chat_id` is set |
| `lock`, `my` | `dialog_lock`; where each event, the watcher and the pass of the silent greeting are, with what they have read |
| `greetings`, `happenings` | history: scripted greetings made; counter of the bound |

A position in `chat` is a mid and a time at once. `EventComes` to `NothingToSay` are `process_event` of `max/webhook.py`: the
message, the button or "/start" (`FirstCheck` is `pause_if_first_message_has_manager_reply`, `Decide` and `Write` are the two
halves of a run). `Guard`, `Record`, `RecordClashes` are `pause_if_manager_replied` and the watcher's share of `_check_dialog`;
`WatchBegins`, `WatchReads`, `WatchFetchFails` are `watch_once`. `MaxTakes`, `MarkDelivered`, `MaxRefuses` are
`deliver_parts` with `max/sender.py`; `SilentBegins` to `SilentFails` one pass of `send_price_to_silent`. `Foreign` is `_partition`,
`Ours` is `_our_outgoing` with `_looks_like_ours`. People write past the panel, give the dialog back; the process restarts.

Abstractions, each with its reason:
- A text is known by the row it repeats. That a manager's text contained in one of ours counts as ours is the choice of `word` in `ManagerWrites`.
- A piece of a text is recognised by the text, a picture by its mid only: MAX returns it under another address.
- The clock is the length of the chat, so `_OWN_BURST_SECONDS` is a number of messages; silence of twenty minutes is a choice (`SilentChecks`).
- One reply in two pieces, one in two parts with a picture: a piece before the last, and a part before the last, both happen.
- What a refused or given up reply leaves unmarked is `DialogTurn`'s subject; the watcher's batch of dialogs is one dialog.

### 3.6 StatusFlow

| variables | code |
|---|---|
| `messages` | of each dialog: whose, what the text shows (a price, the ways of payment, contacts, a link; `Worth` is the step it is worth), whether it is marked as `failed`, whether it is the mailing and when that was known; history: whether it was sent and taken (`got`) |
| `status`, `byHand` | `current_status_id`; history: a person, a reminder or the model set it last |
| `paid`, `paused`, `funnel` | `payment_confirmed_at` (or revoked), `ai_paused`, the funnel of reminders |
| `announced`, `undone` | how often `notify_hot` was called; history: dialogs announced and then moved back or rolled back |
| `hasty` | history: dialogs whose status was concluded while a row worth it counted and was not sent, or while a message counted that is known for a mailing's since |
| `seen`, `stored` | `_seen` of `vk/broadcast.py`, and the dialogs in which the text is stored |
| `my` | sessions between loading the dialog and their commit; of a turn also the rows it has yet to send |

`Earned` is `earned_status`, `Move` the rule of `sync_status`, `MoveBack` that of `resync_statuses`, `FunnelAfter` is
`_apply_side_effects`. `Begin`, `SilentSends`, `ManagerSpeaks`, `BeginResync` are what calls `sync_status`, each up to the call. A turn takes more
steps, since its rows are seen before they are sent: `TurnStores` is the commit of `run_ai`, with at most `MaxParts` rows of which the tidying may
leave some out; `TurnSends` sends the next one and commits its mark; `TurnFails` is a part that is refused (it and the rest are marked, at once
or with the commit of the turn), or a reply to an older text; `TurnLeaves` a reply that is held, a turn with nothing to send, a dead process: none of these marks
a row. `Ours` counts what is not marked as failed, as `was_delivered` does, so it counts these rows too.
Then come `Sync`, `Commit` and `RollBack`, the call and the end of the session. `ChangeStatus`, `ConfirmPayment`, `SetAiPause` are the panel, `SideMark`
the reminders, the model and the triggers, `MarkBroadcasts` the command. `Forget` is the end of the window, its limit or a restart.
What a text shows is a choice: the patterns that recognise a price are not modelled, and the step a message is worth is what they decide.

### 3.7 AiRun

| variables | code |
|---|---|
| `rows` | `messages` of the dialog in their order: text, kind of a client's text, script, marked as failed, and whether the client got it |
| `paused`, `status`, `quoted`, `lastScript` | `ai_paused`, the side status, whether a price was rendered, `source_script_id` of the newest `ai_runs` |
| `panel` | which scripts are active and how they are linked, whether payment details are configured, whether the product has a version of the price script |
| `pc`, `msg`, `known`, `try`, `stage`, `out` | where the run is, the text it is for, what it has loaded, the attempt, the stage, the agent's output |
| `parts`, `drafts`, `chain` | the messages of the turn, the texts of all rows made for it, the unfolding of linked scripts |

`Begin` takes the newest text (an older one gives way) and loads the dialog; `Greet` is the scripted greeting; `Ask`, `Fail` the model,
`Retry` the gate of a first reply (`IsFlawed`), `Settle` the escalations (`NeedsPerson`, `Topics`, `Released`), `Compose` the script in place of the
reply (`Substitute`) or the tidied reply, `Link` and `ForceChain` one link of the chain, `Extend` what the code adds at the end (contacts, the
payment link), `Save` the filters (`Tidied`) and the commit, `GiveWay`, `Hold`, `Deliver` the ways a turn ends. The rules about texts keep the
names and the order of `funnel_steps.py`, `order_slots.py`, `offer_terms.py` and `triggers.py`.

A text is what it says and what it asks: "says" and "asks" hold exactly what a pattern of the code tells apart (an amount, a
praise, a request for contacts, a farewell, the breach of a term), so a filter that takes a question out takes one out here.
A client's text is one of fifteen kinds, of which the predicates tell which rule applies.

Abstractions, each with its reason:
- The model may answer with any of `Replies`, and name any script it was shown; low confidence is one of the reasons to call a person (`curator`). Tool calls, the two providers, feedback and the prompt only choose among replies.
- The runs of a dialog do not overlap, which `DialogTurn` shows. The client writes between runs and while the model is thinking.
- A statement has the sums `Sums` gives it: plain ones, struck out ones, and whether one is a placeholder that is filled in from the catalogue and pinned. `Amounts` takes all of
  them, as `prices_in` takes every number before a rouble sign (a price, the parts of a kit with their total, a price struck out, the fee of the delivery, the deposit); `OrderAmounts` leaves
  out what is struck or below 1000. Sums do not change: what the catalogue and the tools do to a pin is `PricePin`; that one was made is kept (`quoted`).
- Discounts and concessions, a confirmed payment, an oversized order, palettes of colours, and the transcription of audio are left out; pictures are a flag.
- The client's answers to the honest list of terms are one kind. A paused dialog is not given back, so a behaviour ends there.
- The kinds "edit", "dear", "no", "plus", "all", "town" and the stage "paid" are in the module and not in the configuration: they share the rules of kinds that are.

## 4. The runs

All configurations but `lock_registry` say `CHECK_DEADLOCK FALSE`: the bounded world may have nothing left to do.

### 4.1 What holds

| run | instance | shows |
|---|---|---|
| `turn_people` | 2 handlers, 2 messages, 2 parts, at most 2 acts of people or restarts in all | `OneTurnAtATime`: turns of a dialog exclude each other. `TurnsNeverInterleave`: the parts of a reply come in one piece. `AnswersInOrder`: no answer to an older message after one to a newer. `MarksAreHonest`: a reply that was let go has no unmarked part, and a part marked delivered was taken by VK. `OwnEchoIsRecognised`. `TakeoverHolds`: no commit of a running turn undoes a takeover. `LockIsFairMutex`. `TypeOK`. |
| `turn_progress` | 2 handlers, 2 messages, 1 part, 1 act, fair | `MessageIsTakenUp`: the newest message gets a run, or the dialog is paused. `EveryHandlerEnds`: no handler waits for ever for the lock or the row. |
| `lock_registry` | 4 dialogs, 3 tasks, 7 lock objects, threshold 1, fair | `RegistryIsBounded`, `WaiterGetsIn`, `ImplementsFairMutex` (with the condition above), `TypeOK` |
| `price_pin` | 1 product, two catalogues, 3 runs, 2 calls, 2 messages, 1 edit, fair | `WhatWasToldIsPinned`: the memory covers what the client was told. `PriceHolds`: no price told is raised. Both until a price is computed from an outdated read. `RunEnds`. `TypeOK`. |
| `ping_funnel` | 2 requests, steps 0 and 1, 2 misfires, 2 acts, 1 pass of discovery, 1 restart | `NoPingAfterPeople`: no reminder goes out once the client's answer or a human's pause is committed. `NoPingTwice`: no step of a funnel is sent twice, unless a sent one was not recorded or the agent named a step it was not shown. `WorkerKeepsItsRow`: nobody deletes or closes the funnel under the worker. `TypeOK`. |
| `ping_progress` | 2 requests, one step, 2 acts, 1 pass of discovery, fair | `RequestsEnd`, `PassEnds`: requests and passes of the worker end, although they take the two rows in opposite orders, unless the worker waits for its own guard. |
| `max_dialog` | 2 events, windows of 2 and 4 messages, a burst of 1, 3 happenings (events, managers, passes of the greeting, restarts) | `NoSelfTakeover`: no text of a turn is taken for a manager's. `GreetedOnce`. `StoredOnce`: watcher, guard and events store a message once. `GuardSawToIt`: what a guard has read of a manager is stored before the turn sends, or one of four named reasons hides it. `TypeOK`. |
| `max_heard` | 1 event, 3 happenings, fair | `ManagerIsHeard`: what a manager writes behind everything of ours is stored in the end. |
| `status_flow` | 1 dialog and one more with the mailing, 2 sessions, turns of up to 2 rows, one fact, a mailing from 2 dialogs on, 3 happenings | `StatusIsEarned`: a status the code has set stands on a message that reached the client and is no mailing's, unless it was concluded while the code counted a row that was not sent, or a mailing not yet known for one. `StatusMovesUp`, `AnnouncedOnce`: down, or told again, only after a person, a resync, a rollback or a session overtaken by another. `FunnelSparesTheTaken`: no reminders start in a dialog a person leads. `TypeOK`. |
| `ai_run` | 6 starting points in 2 panels, 7 replies, 9 kinds of texts, 2 texts, 2 stages | `OneQuestion`: a turn asks one question. `WaitsForTheClient`: the reply to a client who refused does not move him on, a third check is not sent, nothing stands behind a check. `TopicIsHeard`: a manager's topic in a text without an answer pauses the dialog. `ToldOnce`: a long paragraph the client has read does not come again. `TypeOK`. |

Why the bounds are enough. Two handlers give two deliveries of one message, or an older and a newer message;
two parts give a part before and a part behind the one that fails. A third handler would only lengthen the
queue, and the theorems of section 6 hold for any number. An act of a human, and a restart or a second act against it, are
two disturbances (`FewDisturbances`). Symmetry is used in safety runs only. Seven lock objects serve four dialogs and three tasks, so a fresh one always exists. In `price_pin` two calls
overlap, two messages raise or lower, and the third run sees what two earlier ones have left; the catalogues have
a full ladder and a dearer one without its middle step. Several products are the business of the theorems. In `ping_funnel` two requests
race with each other, with the worker and with discovery; two steps give one that goes on and one that is the last; a third
is only needed for the far end of the agent's window, which goes beyond the last step already. Misfires end at the second
instead of the third. In `ping_progress` the number of steps does not matter to who waits for whom.
In `max_dialog` a guard, the watcher and a second event race over one manager's message; the guard's window is shorter than the
watcher's, and the chat grows beyond both. Its view puts aside what nobody reads any more. In `status_flow` (3.8 million states) two sessions and three
happenings give a session that loads, another that writes behind it, and one more; a turn of two rows gives one that is sent and one that fails, waits or is left out while another
session counts it; the inactive step "clarifying" gives the jump over a missing status.
In `ai_run` (490 thousand states; each of the six filters of a turn changes some turn) the two texts may come one after the other or the second during the model's thought; what came before is given by the starting points, which
stand at the points of the funnel (nothing said, greeted, priced and asked for the size, two checks of the design, the ways of payment, the honest
list), so no long behaviour is needed to reach them; the second panel lacks a script and the payment details and its links go round.

### 4.2 What comments promise and the code does not do

Each of these two runs checks one statement quoted from the code, and TLC finds a behaviour that breaks it.

| run | statement | the shortest story |
|---|---|---|
| `price_rises` | `sales/price_placeholder.py:140-141`, a price is never raised | A tool concedes a price in its session, the run renders the follow-up script from its older copy. |
| `ping_guard` | `max/manager_watch.py:341-343`, the pause and what the manager wrote must not get lost | The worker has locked the funnel's row and asks the guard; the guard finds a manager's message, flushes the pause and wants to close the funnel; it waits for the row of its caller, which waits for it. PostgreSQL sees no cycle and no time limit is set (`db/session.py`): the due pass hangs until the restart. |

TLC reaches further divergences for which no run is kept. In `DialogLock` and `PricePin`:
- a lock is released and its waiter not yet awake, another dialog's call prunes it, and the next caller gets a second lock
  (`ai/dialog_lock.py:39` against its docstring, line 35);
- a concession is rendered and pinned but not delivered, and the next one is two steps below what the client has heard
  (`sales/price_placeholder.py:118` against 25-26).

In `PingFunnel`:
- a client's message is lost when its transaction is the one PostgreSQL aborts: the event has been answered already, so VK
  does not deliver it again (`api/vk.py:20-21` speaks of repeated events);
- a takeover fails with StaleDataError when `delete_ping_state` commits between its read and its write (`ping/worker.py:682`);
- the end of a turn forces a funnel on a dialog a human has taken over, because it looks at the pause it has loaded (`sales/status_flow.py:241`
  against 242-246);
- a send that fails leaves the step due, and it is sent at every tick (`ping/worker.py:589`), also when the messenger had taken it;
- a dialog whose funnel discovery plans after the client has answered keeps it (`ping/worker.py:1072`).

In `DialogTurn`:
- two deliveries of one event look for an AIRun before the lock, and nothing looks again under it: two runs, two replies
  (`vk/webhook.py:497` against 532-533);
- a reply to an outdated message is sent: the run holds the row, the newer message waits to be stored until it commits,
  and the check after the run may not see it (`ai/runner.py:941` against `vk/webhook.py:587-590`);
- the panel's pause is flushed and not committed while the messenger is called, and other sessions start a run (`api/chat.py:1079`
  against 1074-1075);
- a human's message from VK is stored and no pause written, because the dialog was loaded as paused and the panel gave it back
  in between (`vk/webhook.py:762` against 713);
- the AIRun of a greeting does not name the message, so a repeated event makes a run of the model (`ai/runner.py:2270`
  against its comment at 2247-2248);
- a failed run leaves an AIRun, so a repeated event is skipped and the message has no answer (`ai/runner.py:1393` against
  `vk/webhook.py:486-487`);
- parts go out after a takeover, because the loop does not look at the pause again (`vk/webhook.py:641` against `api/dialogs.py:302-304`);
- a held reply is not marked and enters the history of the next run (`vk/webhook.py:602`, `ai/runner.py:1108`);
- parts that were saved and left out count for the status (`ai/runner.py:787` against `vk/webhook.py:699-702`);
- after a restart an echo is taken for a human's message (`vk/sender.py:224` against `vk/webhook.py:713`).

In `MaxDialog`:
- guard and watcher find the same message, one of them violates the unique index; if it is the guard, it answers no and the
  turn sends over the manager (`max/manager_watch.py:24-25`);
- the guard says nothing of what the watcher has recorded, and `deliver_parts` does not look at `ai_paused` again (`vk/webhook.py:625-633`);
- the silent greeting sends while its rows are not committed: the watcher takes the price for a manager's and pauses, the
  greeting's commit violates the index and rolls everything back (`ping/silent_greeting.py:93-105`, 167);
- a manager's text contained in one of ours is taken for ours and hides what he wrote before it; and what he writes within 180
  seconds of our last row is never recorded while none of ours is in the window (`max/manager_watch.py:193-197`);
- a message is recorded without a pause, when the dialog was given back since it was loaded;
- of two first events the one that loses the race to create the client is lost.

In `StatusFlow`:
- the managers' chat is told before the commit, and told again by another session, after a rollback, or after a resync that
  went back (`sales/status_flow.py:201-202`, "exactly once");
- a session that was overtaken overwrites a side status or goes back (`sales/status_flow.py:128-135`), and so does a chunk of `resync_statuses`;
- nobody is told when the ways of payment arrive together with contacts or a link: "hot" is jumped over;
- a mailing's text counts as a manager's in the dialogs before the tenth, and the count is lost at a restart; what was concluded from it stays until the next conclusion;
- `was_delivered` is "not marked as failed" (`vk/outgoing.py:81-87`), and `run_ai` commits a turn's rows before they are sent: another session counts a row
  that waits to be sent and may fail, and everybody counts for good what a held reply or the tidying has left unmarked, so a status may stand on a message nobody got, against
  `sales/status_flow.py:3-7` ("only when the fact is confirmed by a DELIVERED message"). `StatusIsEarned` excepts exactly these conclusions (`hasty`).

In `AiRun`:
- the AIRun names the script the model named, not the one put in place of its reply, whose message carries no script either:
  the next turn does not know which script went out (`ai/runner.py:1884` against 965-967);
- the payment link is put behind a turn to a client who has refused, or one that asks for a check (`ai/runner.py:2182-2208` against 1187-1189), and, since the bill's queries
  see the rows of this very turn, behind the ways of payment before the client has chosen (2158-2161);
- a turn held for a refusal is let go if the same text is a counter-question, an answer to the honest list or a loud trigger (`WaitsForTheClient`
  exempts dialogs given to a person);
- parts left out have rows nobody marks: the next run takes their price for told (`ai/runner.py:2210-2213`), and they end the batch
  of unanswered texts, so a manager's topic in it is lost (1757-1766; `TopicIsHeard` excepts them);
- the scripted greeting looks for a manager's topic in the current text only (2312-2314 against `ai/triggers.py:211-222`);
- the gate of a refusal looks at the reply and at the script it names (`ai/runner.py:1423-1426`), not at the scripts linked to that one:
  a reply that names the design review to a client who refused sends the fixation linked behind it, against
  `sales/funnel_steps.py:600-602` ("После отказа клиента ни один из них уходить не должен"). One of the replies of `ai_run` does so, which is why
  `WaitsForTheClient` says of a turn with a script of its own only that neither the script nor the reply moves on;
- the gate of a third check looks at the reply only (1465-1471): a script linked behind it may ask for another;
- a reply is cut to its question when it repeats a paragraph (604-620), and one that goes on after the praise is left out with it (2143-2147);
- all parts may be left out: the client gets nothing; a text whose run failed is not taken up again;
- `_drop_conflicting_prices` is to leave out messages that name another price than the dialog already has (its docstring: "Убрать реплики,
  называющие сумму, отличную от уже названной в диалоге"), but it passes a message that shares any number before a rouble sign with what was said. Its own
  example gets through: "4 990 ₽ (вместо 5 990 ₽)" behind "5 990 ₽ (вместо 7 380 ₽)" (`ai/runner.py:2210-2212`, `tests/test_price_conflict.py:1-6`), since
  the price struck out in the second is the one named in the first. So do two prices with the same deposit, and a kit's total behind a kit's part. It goes
  through the turn before `_drop_duplicate_parts`: a message whose price let another pass may afterwards be cut to its question. The greeting's chain is not filtered;
- the same filter drops a reply that names nothing but the fee of the delivery (1 000 ₽, which the prompt asks for, `ai/prompts.py:221`,
  `ai/runner.py:412`) or the deposit, once the price has been named and the fee has not; and the fee counts as the amount of an order where the reply's place is taken by
  the price script (`sales/prices.py:33`, `ai/runner.py:1977`).

Outside the models, read while they were written: the Anthropic runner misspells a counter (`ai/anthropic_runner.py:380`, a Cyrillic letter at
the end of `total_input`), so a model that ends its turn without `generate_reply` always fails the run, against
the docstring of `_salvage` (150-152, "Rather than failing the whole run, we send the text it produced").

## 5. Fairness

`DialogTurn!FairSpec`: each handler is weakly fair, and so is the handling of replies. A task of asyncio that can go on is
run by the event loop; the model is cut off by `AI_RUNNER_TIMEOUT` and VK's client by its own time limit, so the steps
that wait for them end one way or the other; a waiting row lock is granted when it is free and the events of VK are
worked off. Nothing is assumed of clients, managers, the delivery of events or restarts, and a handler
may fail as often as it likes.

`DialogLock!FairSpec`: a turn ends and a woken task runs, for each task.

`PricePin!FairSpec`: a run that can go on does, as a whole: no single step of it is owed anything, so `Fail` is what ends a
run that waits for itself, as `AI_RUNNER_TIMEOUT` does.

`PingFunnel!FairSpec`: the worker, discovery and each session are strongly fair: a step that waits for a row is enabled time and
again and PostgreSQL grants a row to who waits for it; the ping agent and the messenger end one way or the other. PostgreSQL looks
for deadlocks after a second, so an abort is weakly fair. Nothing is assumed of people, of the clock or of restarts, and none of
the single outcomes (an agent that decides, a message taken) is owed.

`MaxDialog!FairSpec`: the events, the silent greeting and the watcher are weakly fair, as tasks of the event loop and jobs
of the scheduler are; that MAX answers the watcher time and again (`WatchReads`) is strong fairness, since every failed read is
followed by another pass. Nothing is assumed of managers, clients or restarts.

`StatusFlow` and `AiRun` state safety only.

## 6. What is proved

The only assumptions are the ones the modules state about their constants (`Constants` in each): bounds are natural
numbers, owners are distinct, columns are triples of natural numbers, there is a dialog. TLC evaluates them in every run. Two theorems
have a hypothesis besides: `MessagesAreStoredOnce` and `NoTakeoverByOwnWords` (6.7), where it is explained. Sets of handlers, messages,
products and columns are arbitrary; dialogs and handlers are finitely many where locks are counted.

### 6.1 DialogTurn_proof

| theorem | states |
|---|---|
| `Typing` | `Spec => []TypeOK` |
| `TurnsExclude` | `Spec => []OneTurnAtATime` |
| `TakeoverIsKept` | `Spec => []TakeoverHolds` |
| `EchoIsRecognised` | `Spec => []OwnEchoIsRecognised` |

`TypeOK` is not inductive: the index of the next part stays within the reply only because a task that delivers has one left
and a task before its run stands at the first. `PartsInv` says so, and `TypeInv == TypeOK /\ PartsInv` is inductive.
`OneTurnAtATime` follows from `LockInv`: whoever is in a turn is the first of the queue, and a queue has one first. The induction needs
that only the first leaves and that the others append. `TypeInv /\ LockInv` is proved inductive with one lemma for each
group of actions (`PrepareTypeInv`, `RunTurnInv`, `DeliverPartsInv`, `OthersInv`, `StutterInv`). `TakeoverHolds` is
inductive by itself, given types: the point is that every commit that writes `ai_paused` keeps a pause. `EchoIsRecognised`
needs `EchoInv`: without a crash every part on its way back, and every part being sent, is in the memory of the process.

### 6.2 PricePin_proof

| theorem | states |
|---|---|
| `Typing` | `Spec => []TypeOK` |
| `MemoryIsEnough` | `Spec => []WhatWasToldIsPinned` |
| `TheClientsPriceHolds` | `Spec => PriceHolds` |

`WhatWasToldIsPinned` is not inductive: prices wait in calls, in the tool's results, in the run's copy and in the messages.
`PinInv` says, as long as nothing is stale, that each of them lies between what is remembered and what the client was told
(`OpenInv`, `ResultsInv`, `CopyInv`), and that the messages of a reply come down and are not below the pins its commit
leaves (`DraftInv`). The lemma `RenderedHolds` is the algorithmic core: a rendered price is a price, and not above its pin, for any catalogue. From it
each action has a lemma of its own. `PriceHolds` follows from the first message of `DraftInv`. TLC has checked `PinInv` with
two products before it was proved.

### 6.3 PingFunnel_proof

| theorem | states |
|---|---|
| `Typing` | `Spec => []TypeOK` |
| `WorkerKeeps` | `Spec => []WorkerKeepsItsRow` |
| `PingsHeedPeople` | `Spec => []NoPingAfterPeople` |
| `NoPingIsRepeated` | `Spec => []NoPingTwice` |

The first three follow from one inductive invariant, `Inv`, which TLC has checked too. `Typing` is more than bookkeeping here: a rule
chosen next is a rule only because a finite set of numbers has a smallest (`Smallest`), and a new row finds an id nobody remembers by
counting who could remember one (`FreshIdType`). The heart is what a session knows. `ReadInv` says that a session that holds the
dialogs row has read the funnel that is there, and that nobody revives it, unless discovery has planned a new one
past it, which then is not clean. `HeldIsKept` says that no commit changes the row the worker has locked: it would wait for the row, or
it has found none to write. Put together: a takeover or an answer that commits while the worker holds an open, clean funnel
would have to have read it as closed or absent, which `ReadInv` excludes (`PausedInv`, `AnswerInv`). `DiscInv` is the lock of
discovery, `OpenInv` and `PickInv` are what the types need.

`NoPingIsRepeated` has an invariant of its own, `OnceInv`, on top of `Inv`. `SentInv` says where the steps that were sent are: behind the last reminder that was stored,
behind the next step of an open funnel, and behind the step that is being sent (`Behind`), until a sent step is not recorded. The worker
keeps it because it only goes forward from the row it holds (`AfterGoesOn`, `WorkerEndsOnce`, `WorkerGoesOnOnce`). A hand-back keeps it because it resumes
behind the last stored reminder (`NextRuleAbove`). But a commit writes only the columns that differ from what its session has read
(`WrittenStep`), so a hand-back that has read an ended funnel at the very step it resumes with reopens it and leaves the step alone: the
step must still be the one it read. `FrozenInv` says so, as long as one hand-back at a time is open (`OneHandBack`): nobody else
reopens a row. Rows with a new id are known to no session (`PlansAreNew`, `WrittenIsNew`). TLC has checked `OnceInv` before it was proved.

### 6.4 StatusFlow_proof

| theorem | states |
|---|---|
| `Typing` | `Spec => []TypeOK` |
| `StatusMovesForward` | `Spec => StatusMovesUp` |
| `RemindersSpareTheTaken` | `Spec => FunnelSparesTheTaken` |
| `HotIsAnnouncedOnce` | `Spec => AnnouncedOnce` |
| `StatusesAreEarned` | `Spec => []StatusIsEarned` |

The conclusion of `sync_status` is drawn in one step and committed in another, so what a session carries between them is the heart.
`SessionInv`: a waiting status is above the one the session has loaded, unless it is of `resync_statuses`; with it a commit moves up
whenever the row still is what was loaded. `AnnouncedInv`: a dialog that was announced is hot or further, or some session is about to make it hot,
or it is in `undone`; so whoever announces again has loaded an older status or does not see the other's. `EarnedInv`
says that the waiting statuses have grounds too, or are hasty, and takes the messages as a set (`Grounds`). Messages are added, sent and marked; a session sees what is stored, its own and its own marks
(`SeesAll`): whatever a message was that bore a status, it still is (`CarriesOver`, `GroundsKept`, `TurnsCarry`), unless it is found to be a mailing's, and then dialog and sessions become hasty
(`MarkedEarned`). What `Earned` concludes stands on a message that was sent or on a row that counts unsent, which is what makes the session hasty
(`EarnedIsGrounded`), in whatever order sessions commit. `BeginsSession`, `SyncSession` and `EndsSession` say once what each group of
actions does to the sessions, and the lemmas of the other invariants cite them.

### 6.5 DialogOrder_proof

| theorem | states |
|---|---|
| `LockIsFair` | `Spec => LockIsFairMutex` |
| `TurnsStayWhole` | `Spec => []TurnsNeverInterleave` |
| `AnswersComeInOrder` | `Spec => []AnswersInOrder` |
| `MarksStayHonest` | `Spec => []MarksAreHonest` |

They build on `TypeInv` and `LockInv` of `DialogTurn_proof`. For the refinement `QueueInv` adds that whoever is in the queue waits or is in the
turn, once; then a handler can do four things with the lock (`Joins`, `Gets`, `Leaves`, `Stays`; `LockStep` shows that every action is
one of them), which are `Ask`, `Take`, `Leave` and a stutter of `FairMutex`, and a crash is its `Restart`. `WholeInv`: who has
sent is still sending or done, and done if another has sent since; under the lock that is all there is. `OrderInv`: the inbox has no
duplicates, who has come past `store` has a stored message, and who sends answers the newest of all messages that were answered so far. It is
where the check after the run (`Superseded`) counts: the message was the newest when the turn began to send, and what is stored later
is later in the inbox (`InboxGrows`, `OrderStays`). `MarksInv`: the parts before the next one are marked, and one is marked
delivered only if VK has taken it. `HandlerStep`, `DeliveryStep`, `OthersLock` and `OthersDelivery` say once what a step leaves alone.

### 6.6 DialogLock_proof

| theorem | states |
|---|---|
| `Typing` | `Spec => []TypeOK` |
| `RegistryStaysSmall` | `Spec => []RegistryIsBounded` |
| `LocksAreFair` | `Spec => ImplementsFairMutex` |

`Inv` relates the registry to the lock objects: a lock is locked exactly when one task is under it (`LockedInv`), its waiters are
those who wait for it, each once (`WaitersInv`, `QueuedInv`), no two dialogs share a lock (`OwnInv`), and unless a lock was forgotten
while somebody waited, everyone has the lock the next caller will get (`KeptInv`). The bound: after pruning the registry has the locks
in use and the new one; distinct locks in use have distinct tasks under them, and the caller is under none (`InUseIsBounded`, a
pigeonhole argument). The refinement: under a lock in use the abstract queue is its holder and those who wait (`HeldQueue`), under a free
one those who wait (`FreeQueue`); so what pruning drops had an empty queue, `ReleaseLock` removes the head, and `WakeUp`, the second
half of the handover, changes no queue. The new lock of `dialog_lock` is one nobody refers to, which is all that is assumed of memory.

### 6.7 MaxDialog_proof

| theorem | states |
|---|---|
| `Typing` | `Spec => []TypeOK` |
| `OneGreeting` | `Spec => []GreetedOnce` |
| `NoManagerPassedOver` | `Spec => []GuardSawToIt` |
| `MessagesAreStoredOnce` | `Spec /\ []LookbackReaches => []StoredOnce` |
| `NoTakeoverByOwnWords` | `Spec /\ []LookbackReaches => []NoSelfTakeover` |

The first three follow from one inductive invariant, `Inv`, which TLC has checked too. `RowsInv` says what the rows of ours and their mids
are worth: each mid of a committed row is a message we sent, and all but the last repeat the row's text (`OurOwn`). `TurnOk` says that
a turn holds `dialog_lock` from its run to its end, that its parts belong to committed rows MAX has not named yet, each to another one,
and what the guard of the turn has settled about the managers' messages (`Explained`). `SilentOk` says that the rows of the silent
greeting are open, so nobody else's parts are among them. Why the guard settles it is `NothingForeign`: a message that is not
foreign is ours (`OursIsKnown`: recorded, in words of ours, or named as the last piece of a row) or lies before the mark, which is such a
message or the burst behind a row. `ExplainedStays` says that it stays so: what is committed is neither changed nor unnamed (`RowsGrow`), whoever
appends, marks, commits or is rolled back meanwhile (`RowsAppended`, `RowNamed`, `RowsRolledBack`). `GreetedOnce` needs that a run that is going to
greet has found nothing sent and that nobody else is in a turn (`LocksExclude`).

The last two do not hold for every lookback: rows older than the newest `OurLookback` are not known as ours any more, and TLC finds
a turn's own words stored as a manager's when the lookback is one row. `LookbackReaches` is what the code relies on: the row of each text a turn
has sent, among the messages that are read, is among the rows that are looked up. With 30 messages and 40 rows
(`max/manager_watch.py:46-49`) that fails only when more than ten rows of ours that never reached the chat lie between. It holds in every state
of `max_dialog`; TLC has also checked `OnceInv` with a lookback of one row, up to the states where the hypothesis fails. `OnceInv` says
which messages a committed row may carry (`NamesOwn`): a client's row a message of the client, a manager's none that a turn has said, ours only those
that repeat it, or a picture at the end; that what a turn has said is in a committed row (`TalkInv`); that what a check has found is no turn's, and that
a client's message on its way into the table is in no row yet (`TellsApart`). So a message in two rows would be the last of both, which
the unique index refuses (`RecordOnce`, `NamedOnce`), or words of one of them.

### 6.8 AiRun_proof

| theorem | states |
|---|---|
| `Typing` | `Spec => []TypeOK` |
| `TurnsAskOnce` | `Spec => []OneQuestion` |
| `TopicsAreHeard` | `Spec => []TopicIsHeard` |
| `ParagraphsAreToldOnce` | `Spec => []ToldOnce` |
| `ChecksEndTurns` | `Spec => [](InReply => CheckEndsTurn)` |
| `ClientIsWaitedFor` | `Spec => []WaitsForTheClient` |

All of them hold for any texts, sums, scripts, links between scripts, replies, kinds of messages of the client and any dialog to start with that
`Constants` allows, for instance for chains that go round in a circle. The first three are conjuncts of, or follow from, one inductive invariant, `Inv`, which TLC has
checked too; besides them it has `RowsInv` (marks and kinds of rows), `RunInv` (a run is for a text it has loaded, and whatever
was told, it has loaded), `PartsInv` (the parts of a turn are numbered by its drafts, in order, and by its rows once they are
stored), `GreetInv` (the greeting's turn begins with the greeting) and `TopicsInv` (a reply goes on without a person only if
no topic waits for one).

Most of the work is about lists. What a filter keeps, it keeps in its order (`AmongIs`); every filter of the tidying returns messages of the turn, in their
order, with their numbers and perhaps with less text (`Tidies`: `PricesTidy`, `DuplicatesTidy`, `OffersTidy`, `RepeatsTidy`, `OneQuestionTidies`,
`EnsureTidies`). After `KeepOneQuestion` a turn asks at most once, and `EnsureQuestion` adds a question where there is none and
the stage wants one (`AsksOnce`); the greeting's turn is settled by the chain alone. Since numbers grow along a turn, a row belongs to one part, and
what the client is told of a turn is what was tidied (`StoredIs`, `TextOfIs`). For the topics: a topic the run knows of is followed by a message of ours, or it is
in the batch that `Settle` looks through, and then the dialog is given to a person and nothing is told (`TopicsAnswered`); marking rows told or
failed changes no topic (`MarksKeep`). The recursive functions of the model (`Among`, the chain, the batch) are unfolded by `Recursion`, and what
holds along them is shown by `Induction`, which takes the least number where it fails; the induction theorems of the library
cannot be used.

`ToldOnce` is about rows in the database, of many turns, while the filter sees the parts of one turn and the history its run has loaded. `ReadInv` joins them: the texts
of the rows are those of the parts to be sent, and no part has a long paragraph of the history or of another part (`TurnInv`, `New`). That `DropDuplicateParts` makes it so is
`DuplicatesNew`: the texts it has seen, a recursive set, are unfolded (`SeenUnfolds`), and a part that repeats one is folded to its question, which has no paragraph left
(`FoldedIs`); the filters after it only take away (`WithinNew`). What was told before the run is in the history it has loaded, since a failed mark is the only thing that takes a row out of it
and a told row has none (`ToldInv`); what is stored meanwhile is not told before this run ends (`UntoldStays`). When the marks are set, each told part is new against both (`MarksRead`).
A greeting is not tidied: while one is put together only rows of ours are added (`FirstInv`), so it answers no message of ours.

`WaitsForTheClient` has two parts. `ChecksEndTurns`: `EndInv` says that a turn which begins with a check or with the
question for the reason has no chain to follow (`chain.at = None`) and no message of a script but the bill; the point is that neither the
script that takes the place of the reply, nor the forced ones, nor the filters turn a text that waits for an answer into one that does not.
The rest is `OwnInv`. An answer that `Settle` lets pass moves nothing on and names no script that does, since the gate asks again and gives the dialog to a person
when the second answer ignores the refusal too (`SettleOwn`). At a refusal none of the points of the funnel applies, so no script takes the reply's
place (`PointsAreFree`), and no script is forced behind it but the bill (`ForceChainOwn`, `ExtendOwn`); where the reply has no script the chain has nothing to start from
(`LinkOwn`), and the praise stands in no chain unless the payment is pending. The filters only take away (`LessSays`, `LessHeeds`, `SaveOwn`). `TurnStands` says it of the messages of a turn. For the check the price or the
praise may take the reply's place, with whatever their texts ask; that is in the property, as the gate does not look there.
What stands behind a script of the reply's own is not in the property: the code does not keep it (4.2).

## 7. Only model-checked, and hazards without a property

Model-checked only: the liveness properties (`MessageIsTakenUp`, `EveryHandlerEnds`, `WaiterGetsIn`, `RunEnds`, `RequestsEnd`, `PassEnds`,
`ManagerIsHeard`) and
everything that needs `ENABLED`, which the prover does not handle. Every safety property of a passing run is stated by a theorem.

No property says that a client is told one price only: no filter of the code ensures it (4.2), and under an assumption with which it holds (one amount in every text) the
shop's own price texts would be left out. What is checked about prices is the pin (`PriceHolds`, `WhatWasToldIsPinned`). Of recursive definitions only the laws the theorems need are
proved (6.8), not what they compute for all inputs.

Four properties of `status_flow` are about what is left beside a divergence of the code, not about the divergence. `StatusMovesUp` and `AnnouncedOnce` except a session that was overtaken, and
`AnnouncedOnce` a rollback as well: these are the hazards at `sales/status_flow.py:130` and 198, which `PROJECT.json` lists without a property. `FunnelSparesTheTaken` excepts a pause that came after the session
had loaded the dialog, and covers the session of the person who takes it. `StatusIsEarned` excepts hasty conclusions (3.6).

Hazards listed in `PROJECT.json` that no property covers: those whose step a model makes but which no text of the code
excludes (a reminder sent again after a crash), and those of 4.2 that are the code's own divergences. Not in that list, for the
lack of a model: only the last 5000 random ids are remembered (`vk/sender.py:224`); MAX refuses a text with pictures after taking
its first pieces, and all of it is sent again (`max/sender.py:115-135`); a rollback in the silent greeting expires the objects of
the other dialogs of its batch, so a blocked client ends the pass (`ping/silent_greeting.py:146-174`). A filter of prices may also
drop the only message that names a lowered price (`_drop_conflicting_prices`), after which the price may never be named.

## 8. Not modelled, and why

- *MAX transport*: the repetition of a refused message with uploaded files, MAX's limits, what the bot itself writes to
  the webhook, removed dialogs; the administration of MAX bots (single rows, and calls that are repeated by hand).
- *AI run*: the prompt, feedback, the two providers and their loop over tool calls; discounts, a confirmed payment, oversized orders.
- *Ping funnel*: texts, delays, the choice of a funnel, channels switched off, and the limit of reminders worked on at once.
- *Sales content, prompts, providers*: products, stock, palettes, photos, tags, embeddings, costs. The rules a run decides by are in
  `AiRun`, on kinds of texts; the patterns that recognise the kinds are not.
- *Administration of the panel*: single rows created, read, updated and deleted, without interaction.
- *Media, storage, notifications*: file and network I/O that changes no state the dialogs depend on, apart from the
  cache of attachments, which is planned; when the managers' chat is told of a hot dialog is in `StatusFlow`.
- *Authentication*: sequential checks within one request.
- *Commands and migrations*: run once by hand, with the system in rest, but for `resync_statuses` and `mark_broadcasts` (`StatusFlow`).
- *Frontend*: a client of the panel's API; its requests appear as the acts of people.
