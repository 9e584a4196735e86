------------------------------ MODULE PricePin ------------------------------
(***************************************************************************)
(* The prices of one dialog: what the catalogue says, what the dialog      *)
(* remembers (Dialog.quoted_prices) and what the client has been told.     *)
(*                                                                         *)
(* A price placeholder of a script is rendered in two places: by the tool  *)
(* get_script_phrase while the model is thinking, each call in a session   *)
(* of its own that reads the dialog and commits, and by run_ai afterwards, *)
(* in the session that has loaded the dialog before the model started.     *)
(* Both pin the rendered price to the dialog, and both write the JSON      *)
(* column quoted_prices as a whole.                                        *)
(*                                                                         *)
(* Turns of a dialog exclude each other (DialogTurn), so one run at a time *)
(* is modelled.  A message names the price of one product; order totals    *)
(* ([сумма-заказа:...]) and the words of the model are left out.           *)
(***************************************************************************)
EXTENDS Integers, Sequences, FiniteSets

CONSTANTS
  Products,  \* products by name
  Columns,   \* columns a product may get: list, discount and least price
  MaxTurns,  \* most runs (bound)
  MaxCalls,  \* most calls of get_script_phrase in a run (bound)
  MaxParts,  \* most messages of a reply (bound)
  MaxEdits   \* most changes of the catalogue (bound)

None == 0

ASSUME Constants ==
  /\ Columns \subseteq [1..3 -> Nat]
  /\ {MaxTurns, MaxCalls, MaxParts, MaxEdits} \subseteq Nat

VARIABLES
  columns,    \* the catalogue
  quoted,     \* Dialog.quoted_prices as committed
  told,       \* the price the client was told last
  heard,      \* all prices in the messages the client got
  pc,         \* where the run is
  base,       \* quoted_prices as the run's session has loaded it
  copy,       \* quoted_prices as the run's session has it now
  rowLocked,  \* the run's transaction has flushed a new stage
  open,       \* calls of the tool that have read the dialog and not yet committed
  results,    \* messages the tool has given to the model in this run
  draft,      \* the messages of the reply, or those still to be sent
  known,      \* prices the client has heard or an earlier message of the reply names
  stale,      \* history: a price was pinned or rendered from an outdated read
  turns, calls, edits

run == <<pc, base, copy, rowLocked, open, results, draft, known, calls>>
vars == <<columns, quoted, told, heard, run, stale, turns, edits>>

Macros == {"list", "discount", "concession"}
Pins == [Products -> Nat]
\* "instead": the text names a price the client knows already ("instead of 5 990").
Part == [product : Products, price : Nat, instead : BOOLEAN]
Call == [part : Part, read : Pins]

Highest(S) == CHOOSE x \in S : \A y \in S : y <= x

\* price_ladder: the columns that are filled in and come down.
Ladder(c) ==
  {c[i] : i \in {j \in 1..3 : c[j] # None /\ \A k \in 1..(j - 1) : c[k] = None \/ c[j] < c[k]}}

HasPrice(p) == Ladder(columns[p]) # {}

\* The second step of the ladder, or its only one.
SecondStep(rungs) ==
  IF rungs \ {Highest(rungs)} # {} THEN Highest(rungs \ {Highest(rungs)}) ELSE Highest(rungs)

\* _next_concession: the next step below the price the client has heard.
NextConcession(rungs, already) ==
  LET lower == {r \in rungs : r < already} IN
  IF already = None THEN SecondStep(rungs)
  ELSE IF lower # {} THEN Highest(lower) ELSE already

\* The price a placeholder asks for, before it is compared with the pin.
Asked(pins, p, macro) ==
  LET rungs == Ladder(columns[p]) IN
  CASE macro = "concession" -> NextConcession(rungs, pins[p])
    [] macro = "discount"   -> SecondStep(rungs)
    [] OTHER                -> Highest(rungs)

\* A mutant: the catalogue wins over the pin.
RenderedAsAsked(pins, p, macro) == Asked(pins, p, macro)

\* _pin_price: what is rendered; a price once named is never raised.
Rendered(pins, p, macro) ==
  LET value == Asked(pins, p, macro) IN
  IF pins[p] # None /\ value > pins[p] THEN pins[p] ELSE value

\* The message a script makes of a price: concessions say what they come down from.
Message(p, price, macro) ==
  [product |-> p, price |-> price, instead |-> macro = "concession"]

\* _drop_conflicting_prices: a message that names prices, none of them known, is
\* left out.
Fits(m) == known = {} \/ m.price \in known \/ m.instead

NoPins == [p \in Products |-> None]

Init ==
  /\ columns \in [Products -> Columns]
  /\ quoted = NoPins /\ told = NoPins /\ heard = {}
  /\ pc = "idle" /\ base = NoPins /\ copy = NoPins /\ rowLocked = FALSE
  /\ open = {} /\ results = {} /\ draft = <<>> /\ known = {} /\ stale = FALSE
  /\ turns = 0 /\ calls = 0 /\ edits = 0

-----------------------------------------------------------------------------
(* The run *)

\* The dialog is refreshed under dialog_lock.  If the detected stage is a new one,
\* the next SELECT flushes it and the dialogs row is locked.
Begin(newStage) ==
  /\ pc = "idle" /\ turns < MaxTurns
  /\ turns' = turns + 1
  /\ base' = quoted /\ copy' = quoted
  /\ rowLocked' = newStage
  /\ results' = {} /\ calls' = 0
  /\ pc' = "model"
  /\ UNCHANGED <<columns, quoted, told, heard, open, draft, known, stale, edits>>

\* get_script_phrase up to its commit: the dialog is read, the text rendered.  The
\* model may make several calls at once (two equal ones count as one).
CallRead(p, macro) ==
  /\ pc = "model" /\ calls < MaxCalls /\ HasPrice(p)
  /\ calls' = calls + 1
  /\ open' = open \cup {[part |-> Message(p, Rendered(quoted, p, macro), macro), read |-> quoted]}
  /\ UNCHANGED <<columns, quoted, told, heard, pc, base, copy, rowLocked, results, draft, known,
                 stale, turns, edits>>

\* A price that does not move the pin is not written.  One that does overwrites the
\* column, and cannot while the run's own transaction holds the row.
CallCommit(c) ==
  /\ pc = "model" /\ c \in open
  /\ open' = open \ {c}
  /\ results' = results \cup {c.part}
  /\ \/ /\ c.part.price = c.read[c.part.product]
        /\ UNCHANGED <<quoted, stale>>
     \/ /\ c.part.price # c.read[c.part.product]
        /\ ~rowLocked
        /\ quoted' = [c.read EXCEPT ![c.part.product] = c.part.price]
        /\ stale' = (stale \/ quoted # c.read)
  /\ UNCHANGED <<columns, told, heard, pc, base, copy, rowLocked, draft, known, turns, calls, edits>>

\* A mutant: the time limit is the model's, a tool may take as long as it likes.
FailBetweenCalls ==
  /\ pc = "model" /\ open = {}
  /\ pc' = "idle" /\ rowLocked' = FALSE
  /\ UNCHANGED <<columns, quoted, told, heard, base, copy, open, results, draft, known, calls,
                 stale, turns, edits>>

\* A mutant: a call goes on when its run has been cancelled.
FailLeavesCalls ==
  /\ pc = "model"
  /\ pc' = "idle" /\ rowLocked' = FALSE
  /\ UNCHANGED <<columns, quoted, told, heard, base, copy, open, results, draft, known, calls,
                 stale, turns, edits>>

\* The model fails or AI_RUNNER_TIMEOUT passes: the run and its open calls are
\* rolled back, what a call has committed stays.
Fail ==
  /\ pc = "model"
  /\ pc' = "idle" /\ rowLocked' = FALSE /\ open' = {}
  /\ UNCHANGED <<columns, quoted, told, heard, base, copy, results, draft, known, calls, stale,
                 turns, edits>>

\* The model answers without a price, or with a message a tool has given it.
Answer ==
  /\ pc = "model" /\ open = {}
  /\ pc' = "finish"
  /\ \/ UNCHANGED draft
     \/ \E m \in results : draft' = <<m>>
  /\ UNCHANGED <<columns, quoted, told, heard, base, copy, rowLocked, open, results, known, calls,
                 stale, turns, edits>>

\* run_ai renders a placeholder of the reply or of a script that follows it.
Render(p, macro) ==
  LET price == Rendered(copy, p, macro) IN
  /\ pc = "finish" /\ Len(draft) < MaxParts /\ HasPrice(p)
  /\ copy' = [copy EXCEPT ![p] = price]
  /\ draft' = Append(draft, Message(p, price, macro))
  /\ stale' = (stale \/ quoted # base)
  /\ UNCHANGED <<columns, quoted, told, heard, pc, base, rowLocked, open, results, known, turns,
                 calls, edits>>

\* A mutant: the rendered prices are not saved with the reply.
PinsOfTheTools == quoted

\* The column is written as a whole, and only if the run has changed it.
PinsAfterRun == IF copy # base THEN copy ELSE quoted

Commit ==
  /\ pc = "finish"
  /\ quoted' = PinsAfterRun
  /\ known' = heard
  /\ rowLocked' = FALSE
  /\ pc' = "send"
  /\ UNCHANGED <<columns, told, heard, base, copy, open, results, draft, stale, turns, calls, edits>>

-----------------------------------------------------------------------------
(* The rest of the turn, and the catalogue *)

\* The next message reaches the client if its price fits what he knows; another
\* filter may have left it out of the reply.  (The filters run before the commit:
\* taking the messages one by one gives the same.)
NextPart ==
  LET m == Head(draft) IN
  /\ pc = "send" /\ draft # <<>>
  /\ \/ /\ Fits(m)
        /\ known' = known \cup {m.price}
        /\ \/ /\ told' = [told EXCEPT ![m.product] = m.price]
              /\ heard' = heard \cup {m.price}
           \/ UNCHANGED <<told, heard>>
     \/ /\ ~Fits(m)
        /\ UNCHANGED <<told, heard, known>>
  /\ draft' = Tail(draft)
  /\ UNCHANGED <<columns, quoted, pc, base, copy, rowLocked, open, results, stale, turns, calls, edits>>

\* All is sent, or the rest is not: withdrawn, held for the curator or failed.
EndTurn ==
  /\ pc = "send"
  /\ pc' = "idle" /\ draft' = <<>>
  /\ UNCHANGED <<columns, quoted, told, heard, base, copy, rowLocked, open, results, known, stale,
                 turns, calls, edits>>

\* The columns of a product are changed in the panel.
EditProduct(p, c) ==
  /\ edits < MaxEdits
  /\ edits' = edits + 1
  /\ columns' = [columns EXCEPT ![p] = c]
  /\ UNCHANGED <<quoted, told, heard, run, stale, turns>>

Run ==
  \/ \E p \in Products, macro \in Macros : CallRead(p, macro) \/ Render(p, macro)
  \/ \E c \in open : CallCommit(c)
  \/ Fail \/ Answer \/ Commit \/ NextPart \/ EndTurn

Next ==
  \/ \E newStage \in BOOLEAN : Begin(newStage)
  \/ Run
  \/ \E p \in Products, c \in Columns : EditProduct(p, c)

Spec == Init /\ [][Next]_vars

\* A run that can go on does; clients and the panel owe nothing.
FairSpec == Spec /\ WF_vars(Run)

-----------------------------------------------------------------------------
TypeOK ==
  /\ columns \in [Products -> Columns]
  /\ quoted \in Pins /\ told \in Pins /\ base \in Pins /\ copy \in Pins
  /\ pc \in {"idle", "model", "finish", "send"}
  /\ heard \in SUBSET Nat /\ known \in SUBSET Nat
  /\ rowLocked \in BOOLEAN /\ stale \in BOOLEAN
  /\ open \in SUBSET Call /\ results \in SUBSET Part /\ draft \in Seq(Part)
  /\ open # {} => pc = "model"
  /\ draft # <<>> => pc \in {"finish", "send"}
  /\ turns \in 0..MaxTurns /\ calls \in 0..MaxCalls /\ edits \in 0..MaxEdits

\* a is a price, and not above b if b is one.
AtMost(a, b) == b # None => a # None /\ a <= b

\* Whatever becomes of the replies in which a price was rendered (sent in part,
\* withdrawn, failed), the dialog remembers at most the price the client was told:
\* what _pin_price relies on when it compares with the memory only.  It fails once
\* a pin has been computed from a read another session has overtaken.
WhatWasToldIsPinned == ~stale => \A p \in Products : AtMost(quoted[p], told[p])

\* price_placeholder.py:140-141: a price the client was told is not raised, whatever
\* happens to the catalogue; as above, as long as no read was outdated.
PriceHolds == [][~stale' => \A p \in Products : AtMost(told'[p], told[p])]_vars

\* A run ends, even one whose tool waits for the row its own transaction holds.
RunEnds == pc = "model" ~> pc = "idle"

-----------------------------------------------------------------------------
(* What comments of the code say and the code does not do *)

\* price_placeholder.py:140-141, without the condition.
PriceNeverRises == [][\A p \in Products : AtMost(told'[p], told[p])]_vars
=============================================================================
