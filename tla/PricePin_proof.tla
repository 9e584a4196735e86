--------------------------- MODULE PricePin_proof ---------------------------
(* Theorems about PricePin, for any products, catalogue, number of turns,   *)
(* tool calls and messages.                                                 *)
EXTENDS PricePin, TLAPS

\* What the committed memory and the client's know of each other.
QuotedInv == \A p \in Products : AtMost(quoted[p], told[p])

\* A call has read no less than is remembered now, and renders no more.
OpenInv ==
  \A c \in open :
    /\ c.part.price # None
    /\ AtMost(c.part.price, c.read[c.part.product])
    /\ \A p \in Products : AtMost(c.read[p], told[p]) /\ AtMost(quoted[p], c.read[p])

\* What the model has been given may be told to the client.
ResultsInv ==
  pc = "model" =>
    \A m \in results : /\ m.price # None
                       /\ AtMost(m.price, told[m.product])
                       /\ AtMost(quoted[m.product], m.price)

\* The run's copy, and what its commit will leave.
CopyInv ==
  /\ pc = "model" => copy = base
  /\ pc \in {"model", "finish"} =>
       \A p \in Products : AtMost(quoted[p], base[p]) /\ AtMost(base[p], told[p])
  /\ pc = "finish" =>
       /\ copy # base => quoted = base
       /\ \A p \in Products : AtMost(copy[p], base[p])

\* Messages to be sent come down, and the memory is not above any of them.
Remembered == IF pc = "finish" THEN PinsAfterRun ELSE quoted
DraftInv ==
  \A i \in DOMAIN draft :
    /\ draft[i].price # None
    /\ AtMost(draft[i].price, told[draft[i].product])
    /\ AtMost(Remembered[draft[i].product], draft[i].price)
    /\ \A j \in DOMAIN draft :
         i < j /\ draft[i].product = draft[j].product => draft[j].price <= draft[i].price

PinInv == ~stale => QuotedInv /\ OpenInv /\ ResultsInv /\ CopyInv /\ DraftInv
-----------------------------------------------------------------------------
(* Prices *)

LEMMA AtMostTrans ==
  ASSUME NEW a \in Nat, NEW b \in Nat, NEW c \in Nat, AtMost(a, b), AtMost(b, c)
  PROVE  AtMost(a, c)
BY DEF AtMost, None

LEMMA AtMostSelf == ASSUME NEW a \in Nat PROVE AtMost(a, a)
BY DEF AtMost, None

\* The steps of a ladder are prices, and any of them have a highest.
LEMMA LadderSteps ==
  ASSUME NEW c \in Columns
  PROVE  /\ Ladder(c) \subseteq Nat \ {None}
         /\ \A S \in SUBSET Ladder(c) : S # {} => Highest(S) \in S
<1>1. c \in [1..3 -> Nat]
  BY Constants
<1>2. \A r \in Ladder(c) : r \in Nat \ {None} /\ r \in {c[1], c[2], c[3]}
  <2> SUFFICES ASSUME NEW r \in Ladder(c)
               PROVE  r \in Nat \ {None} /\ r \in {c[1], c[2], c[3]}
    OBVIOUS
  <2>1. PICK i \in 1..3 : r = c[i] /\ c[i] # None
    BY DEF Ladder
  <2>2. i \in {1, 2, 3}
    BY <2>1
  <2> QED BY <1>1, <2>1, <2>2
<1>3. ASSUME NEW S \in SUBSET Ladder(c), S # {}
      PROVE  Highest(S) \in S
  <2>1. /\ S \subseteq {c[1], c[2], c[3]}
        /\ c[1] \in Nat /\ c[2] \in Nat /\ c[3] \in Nat
    BY <1>1, <1>2
  <2>2. \E x \in S : \A y \in S : y <= x
    BY <1>3, <2>1
  <2> QED BY <2>2 DEF Highest
<1> QED BY <1>2, <1>3

\* A rendered price is a price and not above the pin it was compared with.
LEMMA RenderedHolds ==
  ASSUME TypeOK, NEW pins \in Pins, NEW p \in Products, NEW macro \in Macros, HasPrice(p)
  PROVE  /\ Rendered(pins, p, macro) \in Nat
         /\ Rendered(pins, p, macro) # None
         /\ AtMost(Rendered(pins, p, macro), pins[p])
<1> DEFINE rungs == Ladder(columns[p])
<1>1. columns[p] \in Columns /\ pins[p] \in Nat
  BY DEF TypeOK, Pins
<1>2. rungs \subseteq Nat \ {None} /\ rungs # {}
  BY <1>1, LadderSteps DEF HasPrice
<1>3. \A S \in SUBSET rungs : S # {} => Highest(S) \in S
  BY <1>1, LadderSteps
<1>4. Highest(rungs) \in rungs /\ SecondStep(rungs) \in rungs
  <2>1. Highest(rungs) \in rungs
    BY <1>2, <1>3
  <2>2. rungs \ {Highest(rungs)} # {} => Highest(rungs \ {Highest(rungs)}) \in rungs
    BY <1>3
  <2> QED BY <2>1, <2>2 DEF SecondStep
<1>5. NextConcession(rungs, pins[p]) \in (rungs \cup {pins[p]}) \ {None}
  <2>1. CASE pins[p] = None
    BY <1>2, <1>4, <2>1 DEF NextConcession
  <2>2. CASE pins[p] # None
    <3> DEFINE lower == {r \in rungs : r < pins[p]}
    <3>1. lower # {} => Highest(lower) \in rungs
      <4>1. lower \in SUBSET rungs
        OBVIOUS
      <4> HIDE DEF lower, rungs
      <4> QED BY <1>3, <4>1
    <3>2. NextConcession(rungs, pins[p]) =
            IF lower # {} THEN Highest(lower) ELSE pins[p]
      BY <2>2 DEF NextConcession
    <3> HIDE DEF lower, rungs
    <3> QED BY <1>2, <2>2, <3>1, <3>2
  <2> QED BY <2>1, <2>2
<1>6. Asked(pins, p, macro) \in (rungs \cup {pins[p]}) \ {None}
  <2>1. Asked(pins, p, macro) \in {NextConcession(rungs, pins[p]), SecondStep(rungs), Highest(rungs)}
    BY DEF Asked
  <2> HIDE DEF rungs
  <2> QED BY <1>2, <1>4, <1>5, <2>1
<1>7. Asked(pins, p, macro) \in Nat \ {None}
  <2> HIDE DEF rungs
  <2> QED BY <1>1, <1>2, <1>6
<1> QED BY <1>1, <1>7 DEF Rendered, AtMost, None

-----------------------------------------------------------------------------
(* Types *)

LEMMA InitTypeOK == Init => TypeOK
<1> SUFFICES ASSUME Init PROVE TypeOK
  OBVIOUS
<1>1. NoPins \in Pins
  BY DEF NoPins, Pins, None
<1>2. draft = <<>> /\ draft \in Seq(Part)
  BY DEF Init
<1>3. turns \in 0..MaxTurns /\ calls \in 0..MaxCalls /\ edits \in 0..MaxEdits
  BY Constants DEF Init
<1> QED BY <1>1, <1>2, <1>3 DEF Init, TypeOK

LEMMA NextTypeOK == TypeOK /\ [Next]_vars => TypeOK'
<1> SUFFICES ASSUME TypeOK, [Next]_vars PROVE TypeOK'
  OBVIOUS
<1>1. ASSUME NEW newStage \in BOOLEAN, Begin(newStage) PROVE TypeOK'
  BY <1>1, Constants DEF Begin, TypeOK
<1>2. ASSUME NEW p \in Products, NEW macro \in Macros, CallRead(p, macro) PROVE TypeOK'
  <2>1. Message(p, Rendered(quoted, p, macro), macro) \in Part
    BY <1>2, RenderedHolds DEF CallRead, Message, Part, TypeOK
  <2>2. open' \in SUBSET Call
    BY <1>2, <2>1 DEF CallRead, Call, TypeOK
  <2>3. calls' \in 0..MaxCalls
    BY <1>2, Constants DEF CallRead, TypeOK
  <2> QED BY <1>2, <2>2, <2>3 DEF CallRead, TypeOK
<1>3. ASSUME NEW c \in open, CallCommit(c) PROVE TypeOK'
  <2>1. c \in Call /\ c.part \in Part /\ c.part.price \in Nat /\ c.read \in Pins
    BY DEF TypeOK, Call, Part
  <2>2. quoted' \in Pins /\ stale' \in BOOLEAN
    BY <1>3, <2>1 DEF CallCommit, TypeOK, Pins
  <2>3. results' \in SUBSET Part /\ open' \in SUBSET Call /\ (open' # {} => pc' = "model")
    BY <1>3, <2>1 DEF CallCommit, TypeOK
  <2> QED BY <1>3, <2>2, <2>3 DEF CallCommit, TypeOK
<1>4. CASE Fail
  BY <1>4 DEF Fail, TypeOK
<1>5. CASE Answer
  <2>1. draft' = draft \/ \E m \in Part : draft' = <<m>>
    BY <1>5 DEF Answer, TypeOK
  <2>2. \A m \in Part : <<m>> \in Seq(Part)
    OBVIOUS
  <2>3. draft' \in Seq(Part)
    BY <2>1, <2>2 DEF TypeOK
  <2> QED BY <1>5, <2>3 DEF Answer, TypeOK
<1>6. ASSUME NEW p \in Products, NEW macro \in Macros, Render(p, macro) PROVE TypeOK'
  <2>1. Rendered(copy, p, macro) \in Nat
    BY <1>6, RenderedHolds DEF Render, TypeOK
  <2>2. Message(p, Rendered(copy, p, macro), macro) \in Part
    BY <2>1 DEF Message, Part
  <2>3. draft' \in Seq(Part)
    BY <1>6, <2>2 DEF Render, TypeOK
  <2>4. copy' \in Pins /\ stale' \in BOOLEAN
    BY <1>6, <2>1 DEF Render, TypeOK, Pins
  <2> QED BY <1>6, <2>3, <2>4 DEF Render, TypeOK
<1>7. CASE Commit
  BY <1>7 DEF Commit, PinsAfterRun, TypeOK
<1>8. CASE NextPart
  <2>1. Head(draft) \in Part /\ Tail(draft) \in Seq(Part)
    BY <1>8 DEF NextPart, TypeOK
  <2>2. Head(draft).price \in Nat
    BY <2>1 DEF Part
  <2>3. told' \in Pins /\ heard' \in SUBSET Nat /\ known' \in SUBSET Nat
    BY <1>8, <2>2 DEF NextPart, TypeOK, Pins
  <2> QED BY <1>8, <2>1, <2>3 DEF NextPart, TypeOK
<1>9. CASE EndTurn
  <2>1. draft' \in Seq(Part)
    BY <1>9 DEF EndTurn
  <2> QED BY <1>9, <2>1 DEF EndTurn, TypeOK
<1>10. ASSUME NEW p \in Products, NEW c \in Columns, EditProduct(p, c) PROVE TypeOK'
  <2>1. columns' \in [Products -> Columns] /\ edits' \in 0..MaxEdits
    BY <1>10, Constants DEF EditProduct, TypeOK
  <2> QED BY <1>10, <2>1 DEF EditProduct, run, TypeOK
<1>11. CASE UNCHANGED vars
  BY <1>11 DEF vars, run, TypeOK
<1> QED BY <1>1, <1>2, <1>3, <1>4, <1>5, <1>6, <1>7, <1>8, <1>9, <1>10, <1>11 DEF Next, Run

\* Prices, pins and messages keep their types, whatever is called and when.
THEOREM Typing == Spec => []TypeOK
BY InitTypeOK, NextTypeOK, PTL DEF Spec

-----------------------------------------------------------------------------
(* The memory never rises above what the client knows *)

LEMMA InitPinInv == Init => PinInv
BY DEF Init, PinInv, QuotedInv, OpenInv, ResultsInv, CopyInv, DraftInv, AtMost, NoPins, None

\* Nothing of a run is in the way when it starts.
LEMMA BeginPinInv ==
  ASSUME TypeOK, PinInv, NEW newStage \in BOOLEAN, Begin(newStage)
  PROVE  PinInv'
<1> SUFFICES ASSUME ~stale PROVE (QuotedInv /\ OpenInv /\ ResultsInv /\ CopyInv /\ DraftInv)'
  BY DEF PinInv, Begin
<1>1. QuotedInv'
  BY DEF PinInv, QuotedInv, Begin
<1>2. open' = {} /\ results' = {} /\ draft' = <<>> /\ pc' = "model"
  BY DEF Begin, TypeOK
<1>3. \A p \in Products : quoted[p] \in Nat
  BY DEF TypeOK, Pins
<1>4. CopyInv'
  BY <1>1, <1>2, <1>3, AtMostSelf DEF CopyInv, QuotedInv, Begin
<1> QED BY <1>1, <1>2, <1>4 DEF OpenInv, ResultsInv, DraftInv

LEMMA CallReadPinInv ==
  ASSUME TypeOK, PinInv, NEW p \in Products, NEW macro \in Macros, CallRead(p, macro)
  PROVE  PinInv'
<1> SUFFICES ASSUME ~stale PROVE (QuotedInv /\ OpenInv /\ ResultsInv /\ CopyInv /\ DraftInv)'
  BY DEF PinInv, CallRead
<1> DEFINE new == [part |-> Message(p, Rendered(quoted, p, macro), macro), read |-> quoted]
<1>1. QuotedInv' /\ ResultsInv' /\ CopyInv'
  BY DEF PinInv, QuotedInv, ResultsInv, CopyInv, CallRead
<1>2. DraftInv'
  BY DEF PinInv, DraftInv, Remembered, CallRead
<1>3. /\ new.part.price # None /\ new.part.product = p
      /\ AtMost(new.part.price, new.read[p])
  BY RenderedHolds DEF CallRead, Message, TypeOK
<1>4. \A q \in Products : AtMost(new.read[q], told[q]) /\ AtMost(quoted[q], new.read[q])
  BY AtMostSelf DEF PinInv, QuotedInv, TypeOK, Pins
<1>5. open' = open \cup {new} /\ quoted' = quoted /\ told' = told
  BY DEF CallRead
<1>6. OpenInv
  BY DEF PinInv
<1>7. OpenInv'
  <2> HIDE DEF new
  <2> QED BY <1>3, <1>4, <1>5, <1>6 DEF OpenInv
<1> QED BY <1>1, <1>2, <1>7

\* A commit from a read nobody has overtaken only lowers the memory.
LEMMA CallCommitPinInv ==
  ASSUME TypeOK, PinInv, NEW c \in open, CallCommit(c)
  PROVE  PinInv'
<1> SUFFICES ASSUME ~stale' PROVE (QuotedInv /\ OpenInv /\ ResultsInv /\ CopyInv /\ DraftInv)'
  BY DEF PinInv
<1> DEFINE q == c.part.product
<1>1. /\ c.read \in Pins /\ q \in Products /\ c.part \in Part /\ c.part.price \in Nat
      /\ quoted \in Pins /\ told \in Pins /\ base \in Pins
  BY DEF TypeOK, Call, Part
<1>2. ~stale /\ QuotedInv /\ OpenInv /\ ResultsInv /\ CopyInv
  <2>1. stale' = stale \/ stale' = (stale \/ quoted # c.read)
    BY DEF CallCommit
  <2>2. ~stale
    BY <2>1
  <2> QED BY <2>2 DEF PinInv
<1>3. /\ pc = "model" /\ pc' = "model" /\ told' = told /\ copy' = copy /\ base' = base
      /\ open' \subseteq open /\ results' = results \cup {c.part} /\ draft' = <<>>
  BY DEF CallCommit, TypeOK
<1>4. /\ c.part.price # None
      /\ AtMost(c.part.price, c.read[q])
      /\ AtMost(c.part.price, told[q])
  <2>1. AtMost(c.part.price, c.read[q]) /\ AtMost(c.read[q], told[q]) /\ c.part.price # None
    BY <1>1, <1>2 DEF OpenInv
  <2> QED BY <1>1, <2>1, AtMostTrans DEF Pins
<1>5. quoted' \in Pins /\ \A p \in Products : AtMost(quoted'[p], quoted[p])
  <2>1. CASE quoted' = quoted
    BY <1>1, <2>1, AtMostSelf DEF Pins
  <2>2. CASE quoted = c.read /\ quoted' = [c.read EXCEPT ![q] = c.part.price]
    BY <1>1, <1>4, <2>2, AtMostSelf DEF Pins
  <2> QED BY <1>2, <2>1, <2>2 DEF CallCommit
<1>6. AtMost(quoted'[q], c.part.price)
  <2>1. CASE c.part.price = c.read[q] /\ quoted' = quoted
    BY <1>1, <1>2, <2>1 DEF OpenInv
  <2>2. CASE quoted' = [c.read EXCEPT ![q] = c.part.price]
    BY <1>1, <2>2, AtMostSelf DEF Pins
  <2> QED BY <2>1, <2>2 DEF CallCommit
<1>7. QuotedInv'
  <2> SUFFICES ASSUME NEW p \in Products PROVE AtMost(quoted'[p], told[p])
    BY <1>3 DEF QuotedInv
  <2>1. quoted'[p] \in Nat /\ quoted[p] \in Nat /\ told[p] \in Nat
    BY <1>1, <1>5 DEF Pins
  <2>2. AtMost(quoted'[p], quoted[p]) /\ AtMost(quoted[p], told[p])
    BY <1>2, <1>5 DEF QuotedInv
  <2> QED BY <2>1, <2>2, AtMostTrans
<1>8. OpenInv'
  <2> SUFFICES ASSUME NEW d \in open'
               PROVE  /\ d.part.price # None
                      /\ AtMost(d.part.price, d.read[d.part.product])
                      /\ \A p \in Products : AtMost(d.read[p], told[p]) /\ AtMost(quoted'[p], d.read[p])
    BY <1>3 DEF OpenInv
  <2>1. d \in open /\ d.read \in Pins
    BY <1>3 DEF TypeOK, Call
  <2>2. ASSUME NEW p \in Products PROVE AtMost(quoted'[p], d.read[p])
    <3>1. AtMost(quoted'[p], quoted[p]) /\ AtMost(quoted[p], d.read[p])
      BY <1>2, <1>5, <2>1 DEF OpenInv
    <3>2. quoted'[p] \in Nat /\ quoted[p] \in Nat /\ d.read[p] \in Nat
      BY <1>1, <1>5, <2>1 DEF Pins
    <3> QED BY <3>1, <3>2, AtMostTrans
  <2> QED BY <1>2, <2>1, <2>2 DEF OpenInv
<1>9. ResultsInv'
  <2> SUFFICES ASSUME NEW m \in results'
               PROVE  /\ m.price # None /\ AtMost(m.price, told[m.product])
                      /\ AtMost(quoted'[m.product], m.price)
    BY <1>3 DEF ResultsInv
  <2>1. CASE m = c.part
    BY <1>4, <1>6, <2>1
  <2>2. CASE m \in results
    <3>1. m.product \in Products /\ m.price \in Nat
      BY <2>2 DEF TypeOK, Part
    <3>2. m.price # None /\ AtMost(m.price, told[m.product]) /\ AtMost(quoted[m.product], m.price)
      BY <1>2, <1>3, <2>2 DEF ResultsInv
    <3> QED BY <1>1, <1>5, <3>1, <3>2, AtMostTrans DEF Pins
  <2> QED BY <1>3, <2>1, <2>2
<1>10. CopyInv'
  <2>1. ASSUME NEW p \in Products
        PROVE  AtMost(quoted'[p], base[p]) /\ AtMost(base[p], told[p])
    <3>1. quoted'[p] \in Nat /\ quoted[p] \in Nat /\ base[p] \in Nat
      BY <1>1, <1>5 DEF Pins
    <3>2. AtMost(quoted'[p], quoted[p]) /\ AtMost(quoted[p], base[p]) /\ AtMost(base[p], told[p])
      BY <1>2, <1>3, <1>5 DEF CopyInv
    <3> QED BY <3>1, <3>2, AtMostTrans
  <2> QED BY <1>2, <1>3, <2>1 DEF CopyInv
<1> QED BY <1>3, <1>7, <1>8, <1>9, <1>10 DEF DraftInv

\* The message the model has chosen may be told.
LEMMA AnswerPinInv == ASSUME TypeOK, PinInv, Answer PROVE PinInv'
<1> SUFFICES ASSUME ~stale PROVE (QuotedInv /\ OpenInv /\ ResultsInv /\ CopyInv /\ DraftInv)'
  BY DEF PinInv, Answer
<1>1. QuotedInv' /\ OpenInv' /\ ResultsInv'
  BY DEF PinInv, QuotedInv, OpenInv, ResultsInv, Answer
<1>2. /\ copy = base /\ pc = "model" /\ pc' = "finish" /\ draft = <<>>
      /\ copy' = copy /\ base' = base /\ quoted' = quoted /\ told' = told
  BY DEF PinInv, CopyInv, Answer, TypeOK
<1>3. CopyInv'
  BY <1>2, AtMostSelf DEF PinInv, CopyInv, TypeOK, Pins
<1>4. Remembered' = quoted
  BY <1>2 DEF Remembered, PinsAfterRun
<1>5. CASE draft' = <<>>
  BY <1>1, <1>3, <1>5 DEF DraftInv
<1>6. CASE \E m \in results : draft' = <<m>>
  <2>1. PICK m \in results : draft' = <<m>>
    BY <1>6
  <2>2. DOMAIN draft' = {1} /\ draft'[1] = m
    BY <2>1
  <2>3. m.price # None /\ AtMost(m.price, told[m.product]) /\ AtMost(quoted[m.product], m.price)
    BY <1>2 DEF PinInv, ResultsInv
  <2>4. DraftInv'
    BY <1>2, <1>4, <2>2, <2>3 DEF DraftInv
  <2> QED BY <1>1, <1>3, <2>4
<1> QED BY <1>2, <1>5, <1>6 DEF Answer

\* Rendering from the run's copy, when no tool has moved a pin since it was read.
LEMMA RenderPinInv ==
  ASSUME TypeOK, PinInv, NEW p \in Products, NEW macro \in Macros, Render(p, macro)
  PROVE  PinInv'
<1> SUFFICES ASSUME ~stale' PROVE (QuotedInv /\ OpenInv /\ ResultsInv /\ CopyInv /\ DraftInv)'
  BY DEF PinInv
<1> DEFINE price == Rendered(copy, p, macro)
           new   == Message(p, price, macro)
<1>1. ~stale /\ quoted = base
  <2>1. stale' = (stale \/ quoted # base)
    BY DEF Render
  <2> QED BY <2>1
<1>2. QuotedInv /\ OpenInv /\ CopyInv /\ DraftInv
  BY <1>1 DEF PinInv
<1>3. /\ pc = "finish" /\ pc' = "finish" /\ quoted' = quoted /\ told' = told /\ base' = base
      /\ open' = open /\ copy' = [copy EXCEPT ![p] = price] /\ draft' = Append(draft, new)
  BY DEF Render
<1>4. copy \in Pins /\ base \in Pins /\ told \in Pins /\ draft \in Seq(Part)
  BY DEF TypeOK
<1>5. price \in Nat /\ price # None /\ AtMost(price, copy[p])
  BY <1>4, RenderedHolds DEF Render
<1>6. copy' \in Pins /\ \A q \in Products : AtMost(copy'[q], copy[q])
  <2>1. \A q \in Products : copy'[q] = IF q = p THEN price ELSE copy[q]
    BY <1>3, <1>4 DEF Pins
  <2>2. copy' \in Pins
    BY <1>3, <1>4, <1>5 DEF Pins
  <2> HIDE DEF price
  <2> QED BY <1>4, <1>5, <2>1, <2>2, AtMostSelf DEF Pins
<1>7. \A q \in Products : AtMost(copy[q], base[q]) /\ AtMost(base[q], told[q])
  BY <1>2, <1>3 DEF CopyInv
<1>8. ASSUME NEW q \in Products
      PROVE  AtMost(copy'[q], base[q]) /\ AtMost(copy[q], told[q])
  <2>1. copy'[q] \in Nat /\ copy[q] \in Nat /\ base[q] \in Nat /\ told[q] \in Nat
    BY <1>4, <1>6 DEF Pins
  <2> QED BY <1>6, <1>7, <2>1, AtMostTrans
<1>9. QuotedInv' /\ OpenInv' /\ ResultsInv' /\ CopyInv'
  BY <1>1, <1>2, <1>3, <1>8 DEF QuotedInv, OpenInv, ResultsInv, CopyInv
<1>10. Remembered = copy /\ Remembered' = copy'
  BY <1>1, <1>3 DEF Remembered, PinsAfterRun
<1>11. new \in Part /\ new.product = p /\ new.price = price
  BY <1>5 DEF Message, Part
<1>12. /\ DOMAIN draft' = 1..(Len(draft) + 1) /\ DOMAIN draft = 1..Len(draft) /\ Len(draft) \in Nat
       /\ \A i \in 1..Len(draft) : draft'[i] = draft[i] /\ draft[i] \in Part
       /\ draft'[Len(draft) + 1] = new
  <2> HIDE DEF new
  <2> QED BY <1>3, <1>4, <1>11
<1>13. ASSUME NEW i \in DOMAIN draft
       PROVE  /\ AtMost(copy'[draft[i].product], draft[i].price)
              /\ draft[i].product = p => price <= draft[i].price
  <2> DEFINE m == draft[i]
  <2>1. m.product \in Products /\ m.price \in Nat /\ m.price # None /\ AtMost(copy[m.product], m.price)
    BY <1>2, <1>10, <1>12 DEF DraftInv, Part
  <2>2. copy'[m.product] \in Nat /\ copy[m.product] \in Nat /\ AtMost(copy'[m.product], copy[m.product])
    BY <1>4, <1>6, <2>1 DEF Pins
  <2> HIDE DEF m
  <2>3. AtMost(copy'[m.product], m.price)
    BY <2>1, <2>2, AtMostTrans
  <2>4. m.product = p => copy'[m.product] = price
    BY <1>3, <1>4 DEF Pins
  <2> HIDE DEF price
  <2>5. m.product = p => price <= m.price
    BY <2>1, <2>3, <2>4 DEF AtMost
  <2> QED BY <2>3, <2>5 DEF m
<1>14. new.price # None /\ AtMost(new.price, told[p]) /\ AtMost(copy'[p], new.price)
  <2>1. AtMost(price, told[p])
    <3>1. copy[p] \in Nat /\ told[p] \in Nat
      BY <1>4 DEF Pins
    <3> QED BY <1>5, <1>8, <3>1, AtMostTrans
  <2>2. copy'[p] = price
    BY <1>3, <1>4 DEF Pins
  <2> QED BY <1>5, <1>11, <2>1, <2>2, AtMostSelf
<1>15. DraftInv'
  <2> SUFFICES ASSUME NEW i \in DOMAIN draft'
               PROVE  /\ draft'[i].price # None
                      /\ AtMost(draft'[i].price, told[draft'[i].product])
                      /\ AtMost(copy'[draft'[i].product], draft'[i].price)
                      /\ \A j \in DOMAIN draft' :
                           i < j /\ draft'[i].product = draft'[j].product
                           => draft'[j].price <= draft'[i].price
    BY <1>3, <1>10 DEF DraftInv
  <2> HIDE DEF new, price
  <2>1. CASE i \in DOMAIN draft
    <3>1. draft'[i] = draft[i] /\ draft[i].price # None /\ AtMost(draft[i].price, told[draft[i].product])
      BY <1>2, <1>12, <2>1 DEF DraftInv
    <3>2. ASSUME NEW j \in DOMAIN draft', i < j, draft[i].product = draft'[j].product
          PROVE  draft'[j].price <= draft[i].price
      <4>1. CASE j \in DOMAIN draft
        BY <1>2, <1>12, <2>1, <3>2, <4>1 DEF DraftInv
      <4>2. CASE j = Len(draft) + 1
        BY <1>11, <1>12, <1>13, <2>1, <3>2, <4>2
      <4> QED BY <1>12, <4>1, <4>2
    <3> QED BY <1>13, <2>1, <3>1, <3>2
  <2>2. CASE i = Len(draft) + 1
    BY <1>11, <1>12, <1>14, <2>2
  <2> QED BY <1>12, <2>1, <2>2
<1> QED BY <1>9, <1>15

LEMMA CommitPinInv == ASSUME TypeOK, PinInv, Commit PROVE PinInv'
<1> SUFFICES ASSUME ~stale PROVE (QuotedInv /\ OpenInv /\ ResultsInv /\ CopyInv /\ DraftInv)'
  BY DEF PinInv, Commit
<1>1. QuotedInv /\ OpenInv /\ CopyInv /\ DraftInv
  BY DEF PinInv
<1>2. /\ pc = "finish" /\ pc' = "send" /\ quoted' = PinsAfterRun /\ told' = told
      /\ draft' = draft /\ open' = {}
  BY DEF Commit, TypeOK
<1>3. ASSUME NEW p \in Products PROVE AtMost(quoted'[p], told[p])
  <2>1. copy[p] \in Nat /\ base[p] \in Nat /\ told[p] \in Nat
    BY DEF TypeOK, Pins
  <2>2. AtMost(copy[p], base[p]) /\ AtMost(base[p], told[p]) /\ AtMost(quoted[p], told[p])
    BY <1>1, <1>2 DEF CopyInv, QuotedInv
  <2>3. AtMost(copy[p], told[p])
    BY <2>1, <2>2, AtMostTrans
  <2> QED BY <1>2, <2>2, <2>3 DEF PinsAfterRun
<1>4. Remembered' = Remembered
  BY <1>2 DEF Remembered
<1>5. DraftInv'
  BY <1>1, <1>2, <1>4 DEF DraftInv
<1> QED BY <1>2, <1>3, <1>5 DEF QuotedInv, OpenInv, ResultsInv, CopyInv

\* The next price the client hears is no higher, and those behind it neither.
LEMMA NextPartPinInv == ASSUME TypeOK, PinInv, NextPart PROVE PinInv'
<1> SUFFICES ASSUME ~stale PROVE (QuotedInv /\ OpenInv /\ ResultsInv /\ CopyInv /\ DraftInv)'
  BY DEF PinInv, NextPart
<1> DEFINE m == Head(draft)
<1>1. QuotedInv /\ DraftInv
  BY DEF PinInv
<1>2. /\ pc = "send" /\ pc' = "send" /\ quoted' = quoted /\ draft' = Tail(draft) /\ open' = {}
      /\ draft # <<>> /\ draft \in Seq(Part) /\ Remembered = quoted /\ Remembered' = quoted
  BY DEF NextPart, TypeOK, Remembered
<1>3. /\ m = draft[1] /\ 1 \in DOMAIN draft /\ Len(draft) \in Nat /\ DOMAIN draft = 1..Len(draft)
      /\ DOMAIN draft' = 1..(Len(draft) - 1)
      /\ \A i \in DOMAIN draft' : draft'[i] = draft[i + 1] /\ i + 1 \in DOMAIN draft
  BY <1>2
<1>4. \A i \in DOMAIN draft : draft[i].product \in Products /\ draft[i].price \in Nat
  <2>1. \A i \in DOMAIN draft : draft[i] \in Part
    BY <1>2
  <2> QED BY <2>1 DEF Part
<1>5. told' = told \/ told' = [told EXCEPT ![m.product] = m.price]
  BY DEF NextPart
<1> HIDE DEF m
<1>6. \A p \in Products : told'[p] = told[p] \/ (p = m.product /\ told'[p] = m.price)
  <2>1. told \in Pins
    BY DEF TypeOK
  <2>2. m.product \in Products /\ m.price \in Nat
    BY <1>3, <1>4
  <2>3. CASE told' = [told EXCEPT ![m.product] = m.price]
    BY <2>1, <2>2, <2>3 DEF Pins
  <2> QED BY <1>5, <2>3
<1>7. m.price # None /\ AtMost(quoted[m.product], m.price)
  BY <1>1, <1>2, <1>3 DEF DraftInv
<1>8. QuotedInv'
  BY <1>1, <1>2, <1>6, <1>7 DEF QuotedInv
<1>9. DraftInv'
  <2> SUFFICES ASSUME NEW i \in DOMAIN draft'
               PROVE  /\ draft'[i].price # None
                      /\ AtMost(draft'[i].price, told'[draft'[i].product])
                      /\ AtMost(quoted[draft'[i].product], draft'[i].price)
                      /\ \A j \in DOMAIN draft' :
                           i < j /\ draft'[i].product = draft'[j].product
                           => draft'[j].price <= draft'[i].price
    BY <1>2 DEF DraftInv
  <2>1. /\ draft'[i].price # None /\ draft'[i].product \in Products /\ draft'[i].price \in Nat
        /\ AtMost(draft'[i].price, told[draft'[i].product])
        /\ AtMost(quoted[draft'[i].product], draft'[i].price)
    <3>1. draft'[i] = draft[i + 1] /\ i + 1 \in DOMAIN draft
      BY <1>3
    <3> QED BY <1>1, <1>2, <1>4, <3>1 DEF DraftInv
  <2>2. draft'[i].product = m.product => draft'[i].price <= m.price
    <3>1. 1 < i + 1 /\ i + 1 \in DOMAIN draft /\ draft'[i] = draft[i + 1]
      BY <1>3
    <3> QED BY <1>1, <1>3, <3>1 DEF DraftInv
  <2>3. AtMost(draft'[i].price, told'[draft'[i].product])
    BY <1>6, <2>1, <2>2 DEF AtMost
  <2>4. ASSUME NEW j \in DOMAIN draft', i < j, draft'[i].product = draft'[j].product
        PROVE  draft'[j].price <= draft'[i].price
    <3>1. i + 1 < j + 1 /\ i + 1 \in DOMAIN draft /\ j + 1 \in DOMAIN draft
      BY <1>3, <2>4
    <3> QED BY <1>1, <1>3, <2>4, <3>1 DEF DraftInv
  <2> QED BY <2>1, <2>3, <2>4
<1> QED BY <1>2, <1>8, <1>9 DEF OpenInv, ResultsInv, CopyInv

LEMMA NextPinInv == TypeOK /\ PinInv /\ [Next]_vars => PinInv'
<1> SUFFICES ASSUME TypeOK, PinInv, [Next]_vars PROVE PinInv'
  OBVIOUS
<1>1. CASE Fail \/ EndTurn
  <2>1. pc' = "idle" /\ quoted' = quoted /\ told' = told /\ stale' = stale
    BY <1>1 DEF Fail, EndTurn
  <2>2. open' = {} /\ draft' = <<>>
    BY <1>1 DEF Fail, EndTurn, TypeOK
  <2> QED BY <2>1, <2>2 DEF PinInv, QuotedInv, OpenInv, ResultsInv, CopyInv, DraftInv
<1>2. CASE UNCHANGED <<quoted, told, run, stale>>
  <2>1. /\ quoted' = quoted /\ told' = told /\ stale' = stale /\ pc' = pc /\ base' = base
        /\ copy' = copy /\ open' = open /\ results' = results /\ draft' = draft
    BY <1>2 DEF run
  <2>2. Remembered' = Remembered
    BY <2>1 DEF Remembered, PinsAfterRun
  <2>3. DraftInv' = DraftInv
    BY <2>1, <2>2 DEF DraftInv
  <2>4. QuotedInv' = QuotedInv /\ OpenInv' = OpenInv /\ ResultsInv' = ResultsInv /\ CopyInv' = CopyInv
    BY <2>1 DEF QuotedInv, OpenInv, ResultsInv, CopyInv
  <2> QED BY <2>1, <2>3, <2>4 DEF PinInv
<1>3. ASSUME NEW p \in Products, NEW c \in Columns, EditProduct(p, c) PROVE PinInv'
  BY <1>2, <1>3 DEF EditProduct
<1>4. CASE UNCHANGED vars
  BY <1>2, <1>4 DEF vars
<1>5. ASSUME NEW c \in open, CallCommit(c) PROVE PinInv'
  BY <1>5, CallCommitPinInv
<1>6. ASSUME NEW p \in Products, NEW macro \in Macros, CallRead(p, macro) \/ Render(p, macro)
      PROVE  PinInv'
  BY <1>6, CallReadPinInv, RenderPinInv
<1>7. ASSUME NEW newStage \in BOOLEAN, Begin(newStage) PROVE PinInv'
  BY <1>7, BeginPinInv
<1>8. CASE Answer \/ Commit \/ NextPart
  BY <1>8, AnswerPinInv, CommitPinInv, NextPartPinInv
<1> QED BY <1>1, <1>3, <1>4, <1>5, <1>6, <1>7, <1>8 DEF Next, Run

-----------------------------------------------------------------------------
(* Theorems *)

LEMMA Invariants == Spec => [](TypeOK /\ PinInv)
<1>1. Init => TypeOK /\ PinInv
  BY InitTypeOK, InitPinInv
<1>2. TypeOK /\ PinInv /\ [Next]_vars => (TypeOK /\ PinInv)'
  BY NextTypeOK, NextPinInv
<1> QED BY <1>1, <1>2, PTL DEF Spec

\* Whatever becomes of a reply, the dialog remembers at most the price its client
\* was told, until a price is computed from an outdated read.
THEOREM MemoryIsEnough == Spec => []WhatWasToldIsPinned
<1>1. PinInv => WhatWasToldIsPinned
  BY DEF PinInv, QuotedInv, WhatWasToldIsPinned
<1> QED BY <1>1, Invariants, PTL

\* A price the client was told is not raised, whatever the catalogue does, unless a
\* price was computed from an outdated read.
THEOREM TheClientsPriceHolds == Spec => PriceHolds
<1> DEFINE Step == ~stale' => \A p \in Products : AtMost(told'[p], told[p])
<1>1. TypeOK /\ PinInv /\ [Next]_vars => [Step]_vars
  <2> SUFFICES ASSUME TypeOK, PinInv, [Next]_vars, ~stale', NEW p \in Products
               PROVE  AtMost(told'[p], told[p])
    OBVIOUS
  <2>1. told[p] \in Nat
    BY DEF TypeOK, Pins
  <2>2. CASE told' = told
    BY <2>1, <2>2, AtMostSelf
  <2>3. CASE NextPart
    <3>1. DraftInv
      BY <2>3 DEF NextPart, PinInv
    <3>2. /\ draft \in Seq(Part) /\ draft # <<>> /\ 1 \in DOMAIN draft /\ Head(draft) = draft[1]
          /\ told \in Pins
      BY <2>3 DEF NextPart, TypeOK
    <3>3. told' = told \/ told' = [told EXCEPT ![draft[1].product] = draft[1].price]
      BY <2>3, <3>2 DEF NextPart
    <3>4. AtMost(draft[1].price, told[draft[1].product])
      BY <3>1, <3>2 DEF DraftInv
    <3> QED BY <2>2, <3>2, <3>3, <3>4, <2>1, AtMostSelf DEF Pins
  <2>4. NextPart \/ told' = told
    BY DEF Next, Run, Begin, CallRead, CallCommit, Fail, Answer, Render, Commit, EndTurn,
           EditProduct, vars
  <2> QED BY <2>2, <2>3, <2>4
<1> QED BY <1>1, Invariants, PTL DEF Spec, PriceHolds
=============================================================================
