------------------------------- MODULE AiRun -------------------------------
(***************************************************************************)
(* One run of the sales agent, run_ai of src/app/ai/runner.py, with the    *)
(* rules of src/app/sales/funnel_steps.py it consults: what the client's   *)
(* text means at this point of the funnel, the call of the model and its   *)
(* single retry, the escalations, the scripts that take the place of the   *)
(* reply or follow it, the tidying of the turn, and the delivery.          *)
(*                                                                         *)
(* A text is a record: the statements it makes ("says"), the questions it  *)
(* asks in their order ("asks"), and whether it carries pictures ("pics"). *)
(* A client's text is one of a few kinds, told apart by the predicates of  *)
(* the code.  The model is external: it may answer with any of Replies.    *)
(***************************************************************************)
EXTENDS Naturals, Sequences, FiniteSets, SequencesExt

CONSTANTS
  Kinds,        \* the kinds of texts the client may write
  Replies,      \* what the model may answer: [text, script, curator, side]
  Phrase,       \* the text of every script: [Scripts -> texts]
  Sums,         \* the amounts of a statement: [plain, struck, pinned], where pinned says
                \* that one is a placeholder the catalogue fills in and the dialog keeps
  Starts,       \* where a behaviour may start: [past, panel], a sequence of rows
                \* and the panel's configuration [follow, active, billing, kit]
  Stages,       \* the stages detect_stage may name
  MaxTexts      \* bound: texts of the client

VARIABLES
  rows,         \* the messages of the dialog, oldest first
  paused,       \* dialog.ai_paused
  status,       \* the side status: "none" while the funnel's ladder rules
  quoted,       \* dialog.quoted_prices: a price was rendered from the catalogue
  lastScript,   \* the source_script_id of the newest AIRun that has one
  panel,        \* the panel's configuration; it does not change
  pc,           \* where the run stands
  msg,          \* the row of the client's text the newest run is for
  known,        \* how many rows there were when it loaded the history
  try,          \* the attempt, 1 or 2
  stage,        \* dialog.funnel_stage during the run
  out,          \* the agent's output and the points still open
  parts,        \* the messages of the turn: [text, script, id]
  drafts,       \* the texts of the rows made in this run, in the order of their ids
  chain         \* the unfolding of linked scripts: [at, seen, got, forced]

dialogVars == <<rows, paused, status, quoted, lastScript>>
runVars    == <<pc, msg, known, try, stage, out, parts, drafts, chain>>
vars       == <<dialogVars, panel, runVars>>

None   == "none"
Blank  == [says |-> {}, asks |-> <<>>, pics |-> FALSE]
Empty(t) == t.says = {} /\ t.asks = <<>> /\ ~t.pics
Scripts == DOMAIN Phrase

\* The statements and the questions the rules tell apart; "plain" is any other.
Statements == {"hello", "praise", "calc", "kitcalc", "layout", "fixed", "checkout", "contacts",
               "link", "fee", "honest", "offer", "breach", "promise", "bye", "plain"}
Queries    == {"inscription", "city", "color", "size", "check", "pay", "reason", "where", "now"}

Texts == [says : SUBSET Statements, asks : Seq(Queries), pics : BOOLEAN]
Sides == {None, "curator", "blacklist", "spam"}
Outputs == [text : Texts, script : Scripts \cup {None}, curator : BOOLEAN, side : Sides]
Rows  == [by : {"us", "client"}, kind : Kinds \cup {None}, text : Texts,
          failed : BOOLEAN, script : Scripts \cup {None}, told : BOOLEAN]
Parts == [text : Texts, script : Scripts \cup {None}, id : Nat]
Chains == [at : Scripts \cup {None}, seen : SUBSET Scripts, got : Nat, forced : BOOLEAN]
Panels == [follow : [Scripts -> Scripts \cup {None}], active : SUBSET Scripts,
           billing : BOOLEAN, kit : BOOLEAN]

\* Only a script with something in it is ever sent (_render_script_part), and a
\* behaviour starts before the client has written.
ASSUME Constants ==
  /\ Phrase \in [Scripts -> Texts] /\ {"greet", "kit"} \subseteq Scripts /\ None \notin Scripts
  /\ \A s \in Scripts : ~Empty(Phrase[s])
  /\ Sums \in [Statements -> [plain : SUBSET Nat, struck : SUBSET Nat, pinned : BOOLEAN]]
  /\ Replies \subseteq Outputs /\ MaxTexts \in Nat
  /\ \A s \in Starts :
       /\ s.past \in Seq(Rows) /\ s.panel \in Panels
       /\ \A i \in DOMAIN s.past : /\ s.past[i].by = "us" /\ s.past[i].kind = None
                                   /\ ~(s.past[i].failed /\ s.past[i].told)

\* What is left of a sequence when the places in keep are kept, in their order.
Among(s, keep) == LET upTo[k \in 0..Len(s)] ==
                        IF k = 0 THEN <<>>
                        ELSE IF k \in keep THEN Append(upTo[k - 1], s[k]) ELSE upTo[k - 1]
                  IN upTo[Len(s)]

(***************************************************************************)
(* What a text of ours is.                                                 *)
(***************************************************************************)
Asks(t, q) == q \in ToSet(t.asks)

\* Paragraphs of sixty characters and more: only these count as repeated.
Long == {"calc", "kitcalc", "checkout"}

\* Every number in front of a rouble sign counts: the prices of the parts, a price
\* struck out, the deposit, the fee of the delivery.  Those that can be the amount
\* of an order are neither struck out nor small.
Amounts(t) == UNION {Sums[s].plain \cup Sums[s].struck : s \in t.says}
MinOrderAmount == 1000
OrderAmounts(t) == {a \in UNION {Sums[s].plain : s \in t.says} : a >= MinOrderAmount}
Pins(t) == \E s \in t.says : Sums[s].pinned

AskedSlot(t) == IF Asks(t, "city") THEN "city"
                ELSE IF "contacts" \in t.says THEN "recipient"
                ELSE IF Asks(t, "size") THEN "size" ELSE None

AsksConfirmation(t) == Asks(t, "check")

AwaitsClientAnswer(t) == Asks(t, "check") \/ Asks(t, "reason")

AsksPaymentChoice(t) == Asks(t, "pay")
CheckoutPresented(t) == "checkout" \in t.says \/ AsksPaymentChoice(t)

\* Statements that move the order on towards the payment.
AdvancesFunnel(t) == CheckoutPresented(t) \/ t.says \cap {"praise", "fixed", "contacts"} # {}

Advancing == {"praise", "fixed", "checkout", "contacts", "link"}
AdvancingScripts == Advancing \cap panel.active

\* Both gifts at once, a discount for another day, the data after the payment, a
\* hedged price of delivery; also a name in the centre of the chest.
BreaksTheTerms(t) == "breach" \in t.says
PromisesToReturn(t) == "promise" \in t.says

LetsClientGo(t) == "bye" \in t.says \/ ~Asks(t, "reason")

\* A reply almost equal to an earlier text, and one with a paragraph of it.
DuplicateOf(t, seen) == t.says \cap Long # {} /\ \E u \in seen : u.says = t.says
RepeatsChunkOf(t, seen) == \E u \in seen : t.says \cap u.says \cap Long # {}

(***************************************************************************)
(* What a text of the client is.                                           *)
(***************************************************************************)
ClientRefused(k)    == k \in {"leave", "no"}
ClientWalksAway(k)  == k = "leave"
WantsDesignEdit(k)  == k = "edit"
IsNonAnswer(k)      == k \in {"huh", "plus"}
IsCounterQuestion(k) == k = "huh"
IsPriceObjection(k) == k = "dear"
IsObjectionAnswer(k) == k \in {"dear", "leave"}
ChoosesPayment(k)   == k \in {"yes", "all"}
AsksPriceOnly(k)    == k = "cost"
HasQuestion(k)      == k \in {"huh", "cost", "wholesale"}
CuratorTrigger(k)   == k \in {"embroidery", "wholesale"}
SilentTrigger(k)    == k = "embroidery"

(***************************************************************************)
(* What the run knows of the dialog.  A message counts as delivered unless *)
(* it was marked as failed.  Past ends before the text the run is for.     *)
(***************************************************************************)
Ours(s)      == Among(s, {i \in DOMAIN s : s[i].by = "us"})
Unmarked(s)  == Among(s, {i \in DOMAIN s : ~s[i].failed})
Newest(s, n) == SubSeq(s, IF Len(s) > n THEN Len(s) - n + 1 ELSE 1, Len(s))

Known    == SubSeq(rows, 1, known)
Said     == rows[msg].kind
\* The history the model gets, and the same with the current text at its end.
Local    == Among(Known, {i \in DOMAIN Known \ {msg} : ~Known[i].failed})
Talk     == Append(Local, rows[msg])
Told     == Ours(Local)
History  == {r.text : r \in ToSet(Told)}

Lookback == 5
Recent(n) == Newest(Unmarked(Newest(Ours(Known), n + Lookback)), n)
LastOutgoing == LET s == Unmarked(Newest(Ours(Known), Lookback))
                IN IF s = <<>> THEN Blank ELSE Last(s).text

\* The client's texts since our last delivered message, and the current one.
Unanswered == LET talk == Talk
              IN {i \in DOMAIN talk : \A j \in i..Len(talk) : talk[j].by = "client"}

\* The facts of the order the client has given.
NamesInscription(talk, i) == /\ ~HasQuestion(talk[i].kind)
                             /\ \E j \in 1..i - 1 : /\ Asks(talk[j].text, "inscription")
                                                    /\ \A m \in j + 1..i : talk[m].by = "client"
Gives(talk, i, s) == CASE s = "city"      -> talk[i].kind = "town"
                       [] s = "size"      -> talk[i].kind = "size"
                       [] s = "recipient" -> talk[i].kind = "data"
                       [] OTHER           -> NamesInscription(talk, i)
Slots == LET talk == Talk
         IN {s \in {"city", "size", "recipient", "inscription"} :
               \E i \in DOMAIN talk : talk[i].by = "client" /\ Gives(talk, i, s)}

HasOutgoing(s) == \E i \in DOMAIN s : s[i].by = "us"
PaymentLinkSent(texts) == \E t \in texts : "link" \in t.says
ConfirmationsInARow ==
  LET r == Recent(3) IN
  CHOOSE n \in 0..Len(r) :
    /\ \A i \in Len(r) - n + 1..Len(r) : AsksConfirmation(r[i].text)
    /\ n = Len(r) \/ ~AsksConfirmation(r[Len(r) - n].text)
RefusalsSoFar == LET talk == Talk IN Cardinality({i \in DOMAIN talk : ClientRefused(talk[i].kind)})

(***************************************************************************)
(* The points of the funnel, computed before the model is asked.           *)
(***************************************************************************)
PaymentPending == /\ ~ClientRefused(Said) /\ ~WantsDesignEdit(Said)
                  /\ ~IsNonAnswer(Said) /\ ~IsPriceObjection(Said)
                  /\ AsksPaymentChoice(LastOutgoing)
                  /\ ~HasQuestion(Said) /\ ~ChoosesPayment(Said)
Held == ClientRefused(Said) \/ WantsDesignEdit(Said) \/ IsNonAnswer(Said) \/ PaymentPending

PraisePoint == /\ ~Held
               /\ Asks(LastOutgoing, "inscription")
               /\ "praise" \in panel.active => \A t \in History : "praise" \notin t.says
AskedInstead == PraisePoint /\ HasQuestion(Said)
PaymentChoicePoint == /\ ~Held /\ ChoosesPayment(Said) /\ AsksPaymentChoice(LastOutgoing)
DesignReviewPoint == ~Held /\ Said = "size" /\ AskedSlot(LastOutgoing) = "size"
DesignJustConfirmed == Said = "yes" /\ AsksConfirmation(LastOutgoing)
DesignPoint == ~Held /\ ~PaymentLinkSent(History) /\ DesignJustConfirmed

\* Scripts a chain passes over, and those the model is not shown.
RepeatingScripts == LET asked == {AskedSlot(r.text) : r \in ToSet(Recent(2))} \ {None}
                    IN {s \in panel.active : AskedSlot(Phrase[s]) \in asked}
Skip == (IF quoted /\ \E t \in History : Amounts(t) # {} THEN {"price"} ELSE {})
        \cup (IF ClientRefused(Said) \/ IsNonAnswer(Said) \/ WantsDesignEdit(Said)
              THEN {"praise"} ELSE {})
        \cup RepeatingScripts
Used == Skip \cup {lastScript}
        \cup {r.script : r \in ToSet(Newest(Ours(Known), 2))}
        \cup (IF panel.billing THEN {} ELSE {"link"})
\* The list the model chooses from; its gates of tags, stage and product only
\* make it shorter.
Listed == panel.active \ Used

(***************************************************************************)
(* The gate: what makes the first reply a reason to ask again.             *)
(***************************************************************************)
RepeatsSlotRequest(t) ==
  LET r == Newest(Told, 2) IN
  /\ AskedSlot(t) \notin {None} \cup Slots
  /\ Len(r) = 2 /\ \A i \in 1..2 : AskedSlot(r[i].text) = AskedSlot(t)

IgnoresRefusal(o) == Held /\ (AdvancesFunnel(o.text) \/ o.script \in AdvancingScripts)
RepeatedConfirmation(o) == ConfirmationsInARow >= 2 /\ ~DesignPoint /\ AsksConfirmation(o.text)
LetsGo(o) == /\ ClientWalksAway(Said) /\ RefusalsSoFar < 3 /\ ConfirmationsInARow = 0
             /\ LetsClientGo(o.text)
NoQuestion(o) == o.text.asks = <<>> /\ ~PraisePoint /\ o.script = None /\ stage # "paid"
Requotes(o) == /\ IsObjectionAnswer(Said)
               /\ \E t \in History : Amounts(t) \cap Amounts(o.text) # {}

IsFlawed(o) == \/ DuplicateOf(o.text, History) \/ RepeatsChunkOf(o.text, History)
               \/ Requotes(o) \/ NoQuestion(o) \/ IgnoresRefusal(o) \/ LetsGo(o)
               \/ RepeatsSlotRequest(o.text) \/ AskedSlot(o.text) \in Slots
               \/ RepeatedConfirmation(o)
               \/ BreaksTheTerms(o.text)

(***************************************************************************)
(* Escalations after the gate.                                             *)
(***************************************************************************)
\* Mutant: a reply that moves on regardless is nobody's concern.
LetsRefusalPass(o) == \/ o.curator \/ RepeatedConfirmation(o)
                      \/ DuplicateOf(o.text, History) \/ PromisesToReturn(o.text)
                      \/ DesignReviewPoint /\ ConfirmationsInARow >= 2
NeedsPerson(o) == \/ o.curator \/ RepeatedConfirmation(o) \/ IgnoresRefusal(o)
                  \/ DuplicateOf(o.text, History) \/ PromisesToReturn(o.text)
                  \/ DesignReviewPoint /\ ConfirmationsInARow >= 2
\* Mutant: only the current text is searched.
TopicOfTheText == IF CuratorTrigger(Said) THEN {Len(Talk)} ELSE {}
\* A run for an early text gives way to one for a later text, so a topic is
\* looked for in everything the client wrote since our last message; the newest
\* text with one decides whether the reply is held.
Topics == LET talk == Talk IN {i \in Unanswered : CuratorTrigger(talk[i].kind)}
Trigger == IF Topics = {} THEN None
           ELSE Talk[CHOOSE i \in Topics : \A j \in Topics : j <= i].kind
HoldsReply == SilentTrigger(Trigger)
LeavesByTheList == Said = "one" /\ "honest" \in LastOutgoing.says
QuestionForQuestion ==
  /\ Topics = {} /\ Told # <<>>
  /\ LET t == Last(Told).text IN
     \/ Asks(t, "inscription") /\ (HasQuestion(Said) \/ IsCounterQuestion(Said))
     \/ t.asks # <<>> /\ IsCounterQuestion(Said)
\* What the rules give to a person without holding the reply.
Released == ~HoldsReply /\ (LeavesByTheList \/ QuestionForQuestion \/ Topics # {})

(***************************************************************************)
(* Tidying of the turn.                                                    *)
(***************************************************************************)
WithText(p, t) == [p EXCEPT !.text = t]
WithoutEmpty(ps) == Among(ps, {i \in DOMAIN ps : ~Empty(ps[i].text)})

DropConflictingPrices(ps) ==
  LET Conflicts(p, amounts) == /\ Amounts(p.text) # {} /\ amounts # {}
                               /\ Amounts(p.text) \cap amounts = {}
      named[n \in 0..Len(ps)] ==
        IF n = 0 THEN UNION {Amounts(t) : t \in History}
        ELSE LET before == named[n - 1]
             IN before \cup (IF Conflicts(ps[n], before) THEN {} ELSE Amounts(ps[n].text))
  IN Among(ps, {i \in DOMAIN ps : ~Conflicts(ps[i], named[i - 1])})

\* Mutant: only a copy of a whole text is noticed, not a paragraph of another.
FoldCopies(p, seen) ==
  IF DuplicateOf(p.text, seen)
  THEN WithText(p, [p.text EXCEPT !.says = {}, !.asks = IF @ = <<>> THEN <<>> ELSE <<Last(@)>>])
  ELSE p
\* Of a text the client has read its last question is left, and its pictures.
Folded(p, seen) ==
  IF DuplicateOf(p.text, seen) \/ RepeatsChunkOf(p.text, seen)
  THEN WithText(p, [p.text EXCEPT !.says = {}, !.asks = IF @ = <<>> THEN <<>> ELSE <<Last(@)>>])
  ELSE p
DropDuplicateParts(ps) ==
  LET seen[n \in 0..Len(ps)] ==
        IF n = 0 THEN History
        ELSE LET before == seen[n - 1] IN before \cup {Folded(ps[n], before).text}
  IN WithoutEmpty([i \in DOMAIN ps |-> Folded(ps[i], seen[i - 1])])

DropRepeatedOffers(ps) ==
  IF \A t \in History : "offer" \notin t.says THEN ps
  ELSE WithoutEmpty([i \in DOMAIN ps |-> WithText(ps[i], [ps[i].text EXCEPT !.says = @ \ {"offer"}])])

AskedIn(ps, n) == UNION {ToSet(ps[i].text.asks) : i \in 1..n}
Once(s, q) == Cardinality({i \in DOMAIN s : s[i] = q}) = 1
\* A question asked twice in one text is taken out in both places.
DropRepeatedQuestions(ps) ==
  LET Kept(i) == {k \in DOMAIN ps[i].text.asks :
                    LET q == ps[i].text.asks[k]
                    IN q \notin AskedIn(ps, i - 1) /\ Once(ps[i].text.asks, q)}
  IN WithoutEmpty([i \in DOMAIN ps |->
                     WithText(ps[i], [ps[i].text EXCEPT !.asks = Among(@, Kept(i))])])

\* Mutant: the first text that asks keeps all its questions.
KeepFirstAsker(ps) ==
  WithoutEmpty([i \in DOMAIN ps |->
                  WithText(ps[i], [ps[i].text EXCEPT !.asks =
                    IF AskedIn(ps, i - 1) # {} THEN <<>> ELSE @])])
\* The first question of the turn, asked by the first text that asks any.
OnlyFirst(ps, i) ==
  WithText(ps[i], [ps[i].text EXCEPT !.asks =
    IF @ = <<>> \/ AskedIn(ps, i - 1) # {} THEN <<>> ELSE <<Head(@)>>])
\* Mutant: a text left with nothing in it stays in the turn.
KeepEmptiedTexts(ps) == [i \in DOMAIN ps |-> OnlyFirst(ps, i)]
KeepOneQuestion(ps) == WithoutEmpty([i \in DOMAIN ps |-> OnlyFirst(ps, i)])

SlotQuestions == <<"city", "color", "size">>
EnsureQuestion(ps) ==
  IF stage = "paid" \/ ps = <<>> \/ AskedIn(ps, Len(ps)) # {} THEN ps
  ELSE LET settled == Slots \cup {AskedSlot(t) : t \in History}
           open == Among(SlotQuestions, {i \in DOMAIN SlotQuestions : SlotQuestions[i] \notin settled})
           q == IF AskedSlot(Last(ps).text) = "recipient" THEN "now"
                ELSE IF open = <<>> THEN "where" ELSE Head(open)
       IN [ps EXCEPT ![Len(ps)].text.asks = <<q>>]

\* The stages of the tidying, one after another.
Tidied(ps) == LET a == DropConflictingPrices(ps)
                  b == DropDuplicateParts(a)
                  c == DropRepeatedOffers(b)
                  d == DropRepeatedQuestions(c)
                  e == KeepOneQuestion(d)
              IN <<ps, a, b, c, d, e, EnsureQuestion(e)>>

IdsOf(ps) == {p.id : p \in ToSet(ps)}

\* set_text writes through to the row: a row keeps the text its part had last.
TextOf(tidied, id) ==
  LET Holds(s) == \E i \in DOMAIN s : s[i].id = id
      last == CHOOSE k \in DOMAIN tidied : /\ Holds(tidied[k])
                                           /\ \A m \in k + 1..Len(tidied) : ~Holds(tidied[m])
      at == CHOOSE i \in DOMAIN tidied[last] : tidied[last][i].id = id
  IN tidied[last][at].text

(***************************************************************************)
(* Actions.                                                                *)
(***************************************************************************)
Row(by, kind, text, failed, script) ==
  [by |-> by, kind |-> kind, text |-> text, failed |-> failed, script |-> script, told |-> FALSE]
NoOutput == [text |-> Blank, script |-> None, curator |-> FALSE, side |-> None]
NoChain == [at |-> None, seen |-> {}, got |-> 0, forced |-> FALSE]

Init == /\ \E s \in Starts : rows = s.past /\ panel = s.panel
        /\ quoted = (\E i \in DOMAIN rows : Pins(rows[i].text))
        /\ paused = FALSE /\ status = None /\ lastScript = None
        /\ pc = "idle" /\ msg = 0 /\ known = 0 /\ stage = "sale"
        /\ try = 1 /\ out = NoOutput /\ parts = <<>> /\ drafts = <<>> /\ chain = NoChain

EndRun == /\ pc' = "idle" /\ known' = 0 /\ stage' = "sale" /\ try' = 1
          /\ out' = NoOutput /\ parts' = <<>> /\ drafts' = <<>> /\ chain' = NoChain

ClientRows == {i \in DOMAIN rows : rows[i].by = "client"}

\* The client writes, between the runs or while the model is thinking.  What he
\* writes to a paused dialog is a person's to answer.
Write(k) == /\ pc \in {"idle", "ask"} /\ ~paused
            /\ Cardinality(ClientRows) < MaxTexts
            /\ rows' = Append(rows, Row("client", k, Blank, FALSE, None))
            /\ UNCHANGED <<paused, status, quoted, lastScript, panel, runVars>>

\* The classifier's stage, except that the steps after the price are not named
\* before a message of ours carries one.  A failed message counts here.
Transcript == ToSet(Ours(rows))
PriceInHistory == \E r \in Transcript : Amounts(r.text) # {}
DetectedStage(s) == IF PriceInHistory THEN s ELSE "sale"

\* The handler of the newest text gets the lock; those of older texts give way.
Begin(s) == /\ pc = "idle" /\ ~paused
            /\ \E i \in ClientRows : /\ i > msg /\ \A j \in ClientRows : j <= i
                                     /\ msg' = i
            /\ known' = Len(rows) /\ stage' = DetectedStage(s)
            /\ pc' = IF HasOutgoing(rows) THEN "ask" ELSE "greet"
            /\ try' = 1 /\ out' = NoOutput /\ parts' = <<>> /\ drafts' = <<>> /\ chain' = NoChain
            /\ UNCHANGED <<dialogVars, panel>>

AddPart(t, script) == /\ drafts' = Append(drafts, t)
                      /\ parts' = Append(parts, [text |-> t, script |-> script,
                                                 id |-> Len(drafts) + 1])

\* The AIRun of a run names the script the model named, not the one that takes
\* the place of the reply later on.
StoreRun(script) == lastScript' = IF script = None THEN lastScript ELSE script

\* The first message is a script, and no model is asked for it.  Only the
\* current text is searched for a manager's topic.
Greet == /\ pc = "greet" /\ pc' = "chain"
         /\ AddPart(Phrase["greet"], "greet")
         /\ out' = [NoOutput EXCEPT !.script = "greet", !.curator = SilentTrigger(Said)]
         /\ chain' = [NoChain EXCEPT !.at = "greet"]
         /\ paused' = CuratorTrigger(Said)
         /\ status' = IF CuratorTrigger(Said) THEN "curator" ELSE status
         /\ StoreRun("greet")
         /\ UNCHANGED <<rows, quoted, panel, msg, known, try, stage>>
Greets == ~HasOutgoing(Known)

\* The model answers; a script it was not shown it cannot name.
Ask(r) == /\ pc = "ask" /\ pc' = "judge"
          /\ r.script \in {None} \cup Listed
          /\ out' = r
          /\ UNCHANGED <<dialogVars, panel, msg, known, try, stage, parts, drafts, chain>>

\* The call fails or times out: a failed AIRun is stored and nothing is sent.
Fail == /\ pc = "ask"
        /\ EndRun
        /\ UNCHANGED <<dialogVars, panel, msg>>

\* A flawed first reply goes back to the model once, with a correction.
Retry == /\ pc = "judge" /\ try = 1 /\ IsFlawed(out)
         /\ pc' = "ask" /\ try' = 2 /\ out' = NoOutput
         /\ UNCHANGED <<dialogVars, panel, msg, known, stage, parts, drafts, chain>>

\* The second reply, or a first one without a flaw, is taken; what is wrong with
\* it now calls a person.
Settle ==
  /\ pc = "judge" /\ (try = 2 \/ ~IsFlawed(out))
  /\ LET calls == NeedsPerson(out) /\ out.side # "blacklist"
     IN out' = [out EXCEPT
          !.script = IF IgnoresRefusal(out) THEN None ELSE @,
          !.curator = HoldsReply \/ (calls /\ ~Released),
          !.side = IF HoldsReply \/ Released \/ (calls /\ @ = None) THEN "curator" ELSE @]
  /\ paused' = (out'.curator \/ Released)
  /\ status' = IF out'.side = None THEN status ELSE out'.side
  /\ StoreRun(out'.script)
  /\ pc' = "compose" /\ try' = 1
  /\ UNCHANGED <<rows, quoted, panel, msg, known, stage, parts, drafts, chain>>

(***************************************************************************)
(* At the points of the funnel a script takes the place of the reply.      *)
(***************************************************************************)
Variant(s) == IF s = "price" /\ panel.kit THEN "kit" ELSE s

ChecksOut == DesignPoint /\ "checkout" \in panel.active
\* The layout has nothing to show when the client has named no inscription.
LayoutIsKnown == "inscription" \in Slots
Reviews == /\ DesignReviewPoint /\ ConfirmationsInARow < 2
           /\ "review" \in panel.active /\ LayoutIsKnown
Praises == PraisePoint /\ ~HasQuestion(Said) /\ "praise" \in panel.active
Prices == /\ ~PraisePoint /\ ~quoted /\ AsksPriceOnly(Said) /\ OrderAmounts(out.text) # {}
          /\ "price" \in panel.active
          \* A common script is a variant of None, and so is a reply of no script.
          /\ out.script \notin {Variant("price"), IF panel.kit THEN "price" ELSE None}
Substitute == IF Prices THEN Variant("price") ELSE IF Praises THEN "praise"
              ELSE IF Reviews THEN "review" ELSE IF ChecksOut THEN "checkout" ELSE None

\* Pictures of the script survive the retelling; a second greeting does not,
\* unless the reply is nothing else.
CarriedOver(t, script) == [t EXCEPT !.pics = @ \/ (script # None /\ Phrase[script].pics)]
WithoutGreeting(t) == LET rest == [t EXCEPT !.says = @ \ {"hello"}]
                      IN IF Empty(rest) THEN t ELSE rest

Compose ==
  /\ pc = "compose" /\ pc' = "chain"
  /\ LET script == IF Substitute = None THEN out.script ELSE Substitute
         text == IF Substitute = None THEN WithoutGreeting(CarriedOver(out.text, script)) ELSE Phrase[Substitute]
     IN /\ AddPart(text, None)
        /\ out' = [out EXCEPT !.text = text, !.script = script]
        /\ chain' = [NoChain EXCEPT !.at = IF AwaitsClientAnswer(text) THEN None ELSE script]
  /\ UNCHANGED <<dialogVars, panel, msg, known, try, stage>>

(***************************************************************************)
(* The scripts linked to the one the turn began with.                      *)
(***************************************************************************)
MaxFollowUpChain == 4
ChainEnds == chain.at = None \/ chain.at \in chain.seen \/ chain.got = MaxFollowUpChain

PassedOver(s) == ~Greets /\ (s \in Skip \/ AskedSlot(Phrase[s]) \in Slots)

\* One link: the next script in the version for this client, unless it was
\* used up or asks for what is known.  The chain goes on from the common script
\* when the version has no continuation of its own.
Link ==
  /\ pc = "chain" /\ ~ChainEnds
  /\ LET next == panel.follow[chain.at]
         sent == IF next = None THEN None ELSE Variant(next)
         on == IF sent # None /\ panel.follow[sent] # None THEN sent ELSE next
     IN IF next = None \/ next \notin panel.active
        THEN /\ chain' = [chain EXCEPT !.at = None]
             /\ UNCHANGED <<parts, drafts>>
        ELSE IF PassedOver(sent)
        THEN /\ chain' = [chain EXCEPT !.seen = @ \cup {chain.at}, !.at = on]
             /\ UNCHANGED <<parts, drafts>>
        ELSE /\ AddPart(Phrase[sent], sent)
             /\ chain' = [chain EXCEPT !.seen = @ \cup {chain.at}, !.at = on, !.got = @ + 1]
  /\ UNCHANGED <<dialogVars, panel, pc, msg, known, try, stage, out>>

HoldsTurn == AwaitsClientAnswer(out.text)

\* The regulation's chain is unfolded even if the reply did not name its script.
Entry == IF PraisePoint /\ Amounts(out.text) = {} THEN "praise"
         ELSE IF DesignPoint /\ ~ChecksOut /\ ~CheckoutPresented(out.text) THEN "fixed"
         ELSE None
CanForce == /\ ~Greets /\ Len(parts) = 1 /\ ~HoldsTurn /\ ~chain.forced
            /\ Entry \in panel.active
ForceChain == /\ pc = "chain" /\ ChainEnds /\ CanForce
              /\ chain' = [NoChain EXCEPT !.at = Entry, !.forced = TRUE]
              /\ UNCHANGED <<dialogVars, panel, pc, msg, known, try, stage, out, parts, drafts>>

(***************************************************************************)
(* What the code adds to the turn, and the end of the run.                 *)
(***************************************************************************)
\* The reply is the praise, by its script or by how it begins.
IsPraiseOnly(o) == o.script = "praise" \/ "praise" \in o.text.says
CheckoutShown(texts) == \E t \in texts : CheckoutPresented(t)

\* The praise goes when the client asked instead of answering; the request for
\* the recipient follows the choice of a payment; the bill follows the contacts.
\* The queries of the bill see the rows of this very turn.
Extend ==
  /\ pc = "chain" /\ ChainEnds /\ ~CanForce /\ ~Greets
  /\ LET unsaid == /\ AskedInstead /\ Len(parts) > 1 /\ "praise" \in panel.active
                   /\ IsPraiseOnly(out)
         kept == IF unsaid THEN Tail(parts) ELSE parts
         contacts == /\ PaymentChoicePoint /\ Len(kept) = 1 /\ ~HoldsTurn
                     /\ AskedSlot(out.text) # "recipient" /\ "recipient" \notin Slots
                     /\ "contacts" \in panel.active
         told == History \cup {p.text : p \in ToSet(kept)}
         bill == /\ \/ stage = "payment_link"
                    \/ "recipient" \in Slots /\ CheckoutShown(told)
                 /\ ~PaymentLinkSent(told)
         forced == (IF contacts THEN <<"contacts">> ELSE <<>>)
                   \o (IF bill /\ panel.billing /\ "link" \in panel.active THEN <<"link">> ELSE <<>>)
     IN /\ parts' = kept \o [i \in DOMAIN forced |-> [text |-> Phrase[forced[i]], script |-> forced[i],
                                                      id |-> Len(drafts) + i]]
        /\ drafts' = drafts \o [i \in DOMAIN forced |-> Phrase[forced[i]]]
        /\ out' = IF bill /\ ~panel.billing THEN [out EXCEPT !.curator = FALSE] ELSE out
        /\ paused' = (paused \/ (bill /\ ~panel.billing))
        /\ status' = IF bill /\ ~panel.billing THEN "curator" ELSE status
  /\ pc' = "save" /\ chain' = NoChain
  /\ UNCHANGED <<rows, quoted, lastScript, panel, msg, known, try, stage>>

\* The turn is tidied and committed.  Parts the tidying drops have rows all the
\* same, and nothing marks them.
Save ==
  /\ \/ pc = "save"
     \/ pc = "chain" /\ Greets /\ ChainEnds
  /\ LET tidied == IF Greets THEN <<parts>> ELSE Tidied(parts)
         Stored(id) == IF id \notin IdsOf(parts) THEN Row("us", None, drafts[id], TRUE, None)
                       ELSE Row("us", None, TextOf(tidied, id), FALSE,
                                (CHOOSE p \in ToSet(parts) : p.id = id).script)
     IN /\ rows' = rows \o [id \in DOMAIN drafts |-> Stored(id)]
        /\ parts' = [i \in DOMAIN Last(tidied) |-> [Last(tidied)[i] EXCEPT !.id = Len(rows) + @]]
  \* What the catalogue fills in is pinned, in a script as in a reply.
  /\ quoted' = (quoted \/ \E i \in DOMAIN drafts : Pins(drafts[i]))
  /\ pc' = "send" /\ drafts' = <<>> /\ chain' = NoChain
  /\ UNCHANGED <<paused, status, lastScript, panel, msg, known, try, stage, out>>

Superseded == \E i \in ClientRows : i > msg

\* The client wrote on while the model was thinking: nothing is sent.
GiveWay == /\ pc = "send" /\ Superseded
           /\ rows' = [i \in DOMAIN rows |-> [rows[i] EXCEPT !.failed = @ \/ i \in IdsOf(parts)]]
           /\ EndRun
           /\ UNCHANGED <<paused, status, quoted, lastScript, panel, msg>>

\* A reply held for a person is neither sent nor marked.
Hold == /\ pc = "send" /\ ~Superseded /\ out.curator
        /\ EndRun
        /\ UNCHANGED <<dialogVars, panel, msg>>

\* The first n messages reach the client; a failure takes the rest with it.
Deliver(n) ==
  /\ pc = "send" /\ ~Superseded /\ ~out.curator
  /\ rows' = [i \in DOMAIN rows |->
                [rows[i] EXCEPT !.told = @ \/ i \in IdsOf(SubSeq(parts, 1, n)),
                                !.failed = @ \/ i \in IdsOf(SubSeq(parts, n + 1, Len(parts)))]]
  /\ EndRun
  /\ UNCHANGED <<paused, status, quoted, lastScript, panel, msg>>

Next == \/ \E k \in Kinds : Write(k)
        \/ \E s \in Stages : Begin(s)
        \/ Greet
        \/ \E r \in Replies : Ask(r)
        \/ Fail \/ Retry \/ Settle \/ Compose \/ Link \/ ForceChain \/ Extend \/ Save
        \/ GiveWay \/ Hold
        \/ \E n \in 0..Len(parts) : Deliver(n)

Spec == Init /\ [][Next]_vars

(***************************************************************************)
(* Properties.                                                             *)
(***************************************************************************)
\* Types; no message is both told and marked as failed, whatever ids the tidying
\* and the failures of the delivery go by, and a turn about to be sent holds no
\* empty message.
TypeOK ==
  /\ rows \in Seq(Rows) /\ \A i \in DOMAIN rows : ~(rows[i].failed /\ rows[i].told)
  /\ paused \in BOOLEAN /\ quoted \in BOOLEAN /\ status \in Sides
  /\ lastScript \in Scripts \cup {None} /\ panel \in Panels
  /\ pc \in {"idle", "greet", "ask", "judge", "compose", "chain", "save", "send"}
  /\ msg \in 0..Len(rows) /\ known \in 0..Len(rows) /\ try \in {1, 2}
  /\ out \in Outputs /\ chain \in Chains /\ parts \in Seq(Parts) /\ drafts \in Seq(Texts)
  /\ pc = "send" => \A i \in DOMAIN parts : ~Empty(parts[i].text)

InReply == pc = "send" /\ ~Greets
Sends   == InReply /\ ~out.curator

\* A turn asks one question in all its messages, however many scripts the chain
\* has added, and before the payment it never asks none: five filters take
\* questions out one after another (_drop_duplicate_parts, _drop_repeated_offers,
\* _drop_repeated_questions, _keep_one_question) and _ensure_question comes last.
Questions(ps) == UNION {{<<i, k>> : k \in DOMAIN ps[i].text.asks} : i \in DOMAIN ps}
OneQuestion ==
  InReply => /\ \A p, q \in Questions(parts) : p = q
             /\ parts # <<>> /\ stage # "paid" => Questions(parts) # {}

\* The reply to a client who refused, asked for a change or asked back does not
\* move the order on: not by its text, not by the script it names, and with no
\* script of its own nothing but the bill is put behind it; the praise, which
\* brings the price and the delivery along, is in no chain.  A third check of the
\* design in a row is not sent, be it the reply or the review that replaces it;
\* only the price or the praise may take its place, with what their texts ask.
\* A turn that ends with a check has no further step behind it.  The gate, the
\* scripts that replace the reply, the chain and the forced scripts must all agree
\* on it.  A dialog given to a person or closed in the same step is exempt.
GivenAway == paused \/ out.side = "blacklist"
RefusalStops ==
  Held => /\ out.script \notin AdvancingScripts
          /\ \A p \in ToSet(parts) :
               /\ p.script = None => ~AdvancesFunnel(p.text)
               /\ p.script \notin {None, "link"} => out.script # None
               /\ p.script = "praise" => PaymentPending
NoThirdCheck ==
  ConfirmationsInARow >= 2 /\ ~DesignPoint =>
    \A p \in ToSet(parts) : p.script = None /\ AsksConfirmation(p.text) =>
       out.script \in {"price", "kit", "praise"} /\ AsksConfirmation(Phrase[out.script])
CheckEndsTurn == HoldsTurn => \A p \in ToSet(parts) : p.script \in {None, "link"}
WaitsForTheClient == Sends => GivenAway \/ (RefusalStops /\ NoThirdCheck /\ CheckEndsTurn)

\* A manager's topic is not talked over: once a message of ours has followed a
\* text with embroidery or wholesale in it, the dialog is paused, even when the
\* run for that text gave way to the client's next one or failed.  Two cases are
\* the code's: the scripted greeting reads only the current text, and a row that
\* was stored without being sent or marked ends the batch of unanswered texts.
ByGreeting(r) == r.script \in {"greet", "inscr"}
TopicIsHeard ==
  \A i, j \in DOMAIN rows :
    (i < j /\ CuratorTrigger(rows[i].kind) /\ rows[j].told) =>
      \/ paused
      \/ \E m \in i..j : /\ rows[m].by = "us" /\ ~rows[m].failed
                         /\ ~rows[m].told \/ ByGreeting(rows[m])

\* A paragraph of sixty characters or more that the client has read does not
\* reach him again, in the same turn or in a later one, whether the model, a script
\* in place of its reply, the chain or a forced script has it: the gate looks at
\* the reply only, and the filter of the turn at the rows no failure has marked.
\* The scripted greeting is not tidied: what goes out before the client has
\* answered a message of ours is exempt.
AnswersOurs(j) == \E k, m \in 1..j - 1 : k < m /\ rows[k].by = "us" /\ rows[m].by = "client"
ToldOnce ==
  \A i, j \in DOMAIN rows :
    (i < j /\ rows[i].told /\ rows[j].told /\ AnswersOurs(j)) =>
      rows[i].text.says \cap rows[j].text.says \cap Long = {}
=============================================================================
