--------------------------- MODULE MaxDialog_proof ---------------------------
(* Theorems about MaxDialog, for any events, histories, bursts and          *)
(* happenings.                                                              *)
EXTENDS MaxDialog, FiniteSetTheorems, TLAPS

\* The steps under dialog_lock, and those of them that have something to say.
TurnSteps == {"run", "write", "guard", "record", "send", "mark"}
Speaks    == {"guard", "record", "send", "mark"}

FromUs(i) == chat[i].hand \in {"turn", "silent"}

\* A row of ours that MAX has not named yet.
Unnamed(r) == r \in DOMAIN rows /\ rows[r].role = "ai" /\ rows[r].mids = {}

\* Mids of one row of ours: only the last may be of a picture.
OurOwn(mids, complete) ==
  \A j \in mids :
    /\ j \in DOMAIN chat /\ FromUs(j)
    /\ chat[j].word # 0 \/ (complete /\ \A i \in mids : i <= j)

\* What GuardSawToIt says of a manager's message in what a guard has read.
Explained(i, read) ==
  \/ Recorded(i) \/ chat[i].word # 0
  \/ \E j \in Window(read, GuardHistory) : j > i /\ (Recorded(j) \/ chat[j].word # 0 \/ j \in Taken)
  \/ \E r \in Outgoing : i <= rows[r].at + OwnBurst

\* The invariant of a turn, of the silent greeting, and of every process.
TurnOk(e, m) ==
  /\ m.step \in TurnSteps => lock = e
  /\ m.parts # <<>> <=> m.step \in Speaks
  /\ \A k \in DOMAIN m.parts : Unnamed(m.parts[k].row) /\ ~rows[m.parts[k].row].open
  /\ \A k, l \in DOMAIN m.parts : m.parts[k].row = m.parts[l].row => k = l
  /\ m.greets => m.step = "write" /\ greetings = 0
  /\ m.step \in {"send", "mark"} /\ m.found = {} =>
       \A i \in Window(m.read, GuardHistory) : chat[i].hand = "manager" => Explained(i, m.read)

SilentOk(m) ==
  /\ m.parts # <<>> <=> m.step \in {"send", "mark"}
  /\ \A k \in DOMAIN m.parts :
       /\ Unnamed(m.parts[k].row) /\ rows[m.parts[k].row].open
       /\ m.parts[k].pieces = 1 /\ ~m.parts[k].picture

ProcOk(p, m) ==
  /\ m \in Local
  /\ OurOwn(m.sent, m.step = "mark")
  /\ m.found \subseteq DOMAIN chat
  /\ m.read <= Len(chat)
  /\ m.step \notin {"record", "send", "mark"} => m.read = 0 /\ m.found = {} /\ m.sent = {}
  /\ p \in Events => TurnOk(p, m)
  /\ p = Silent => SilentOk(m)

\* The rows and the greetings.
RowsInv ==
  /\ \A r \in Committed : rows[r].role = "ai" => OurOwn(rows[r].mids, TRUE)
  /\ \A r \in DOMAIN rows : rows[r].role = "ai" => rows[r].at <= Len(chat)
GreetInv == greetings <= 1 /\ (greetings # 0 => Outgoing # {})

Types ==
  /\ chat \in Seq(Entry) /\ rows \in Seq(Row)
  /\ {known, paused, blocked, chatId} \subseteq BOOLEAN
  /\ stage \in {"greeting", "pricing"}
  /\ lock \in Events \cup {Watch}
  /\ greetings \in Nat /\ happenings \in 0..MaxHappenings

Inv ==
  /\ Types /\ RowsInv /\ GreetInv
  /\ my \in [Procs -> Local] /\ \A p \in Procs : ProcOk(p, my[p])

\* What a step may do to the chat and to the rows: messages are added, what is committed
\* stays, and no mid is forgotten.
ChatGrows == \A i \in DOMAIN chat : i \in DOMAIN chat' /\ chat'[i] = chat[i]
RowsGrow ==
  /\ \A r \in Committed :
       /\ r \in Committed' /\ rows'[r].role = rows[r].role /\ rows'[r].at = rows[r].at
       /\ rows[r].role = "operator" => rows'[r].mids = rows[r].mids
  /\ Taken \subseteq Taken'

-----------------------------------------------------------------------------
(* Numbers and sequences *)

\* A bounded set of numbers has a greatest.
LEMMA Greatest ==
  ASSUME NEW S, NEW n \in Nat, S \subseteq 0..n, S # {}
  PROVE  Max(S) \in S /\ \A x \in S : x <= Max(S)
<1> DEFINE T == {n - x : x \in S}
           R == {ss \in Nat \X Nat : ss[1] < ss[2]}
<1>1. T \subseteq Nat /\ T # {}
  <2>1. \A x \in S : n - x \in Nat
    OBVIOUS
  <2> QED BY <2>1
<1>2. PICK t \in T : \A u \in T : ~(<<u, t>> \in R)
  <2>1. IsWellFoundedOn(R, Nat)
    BY NatLessThanWellFounded DEF OpToRel
  <2> HIDE DEF R, T
  <2> QED BY <1>1, <2>1, WFMin
<1>3. PICK m \in S : t = n - m
  OBVIOUS
<1>4. ASSUME NEW x \in S
      PROVE  m >= x
  <2>1. n - x \in T /\ n - x \in Nat /\ t \in Nat /\ x \in Nat /\ m \in Nat
    OBVIOUS
  <2>2. ~(n - x < t)
    <3>1. n - x < t => <<n - x, t>> \in R
      BY <2>1
    <3> HIDE DEF R, T
    <3> QED BY <1>2, <2>1, <3>1
  <2> QED BY <1>3, <2>1, <2>2
<1>5. \E x \in S : \A y \in S : x >= y
  BY <1>4
<1>6. Max(S) \in S /\ \A y \in S : Max(S) >= y
  BY <1>5 DEF Max
<1> QED BY <1>6

\* A greatest member is the maximum.
LEMMA GreatestIsMax ==
  ASSUME NEW S, S \subseteq Nat, NEW m \in S, \A x \in S : x <= m
  PROVE  Max(S) = m
<1>1. \E x \in S : \A y \in S : x >= y
  OBVIOUS
<1>2. Max(S) \in S /\ \A y \in S : Max(S) >= y
  BY <1>1 DEF Max
<1>3. m \in Nat /\ Max(S) \in Nat /\ Max(S) >= m /\ Max(S) <= m
  BY <1>2
<1> QED BY <1>3

-----------------------------------------------------------------------------
(* What steps leave alone *)

\* What a guard has read is explained for good.
LEMMA ExplainedStays ==
  ASSUME chat \in Seq(Entry), ChatGrows, RowsGrow,
         NEW read \in Nat, read <= Len(chat), NEW i \in 1..read, Explained(i, read)
  PROVE  Explained(i, read)'
<1>1. \A j \in 1..read : j \in DOMAIN chat /\ chat'[j] = chat[j]
  BY DEF ChatGrows
<1>2. Window(read, GuardHistory)' = Window(read, GuardHistory)
  BY <1>1 DEF Window, FromBot
<1>3. \A j : Recorded(j) => Recorded(j)'
  BY DEF Recorded, Operators, RowsGrow
<1>4. \A j : j \in Taken => j \in Taken'
  BY DEF RowsGrow
<1>5. \A r \in Outgoing : r \in Outgoing' /\ rows'[r].at = rows[r].at
  BY DEF Outgoing, RowsGrow
<1>6. \A j \in Window(read, GuardHistory) : j \in 1..read
  BY DEF Window
<1>7. CASE Recorded(i) \/ chat[i].word # 0
  BY <1>1, <1>3, <1>7 DEF Explained
<1>8. CASE \E j \in Window(read, GuardHistory) : j > i /\ (Recorded(j) \/ chat[j].word # 0 \/ j \in Taken)
  BY <1>1, <1>2, <1>3, <1>4, <1>6, <1>8 DEF Explained
<1>9. CASE \E r \in Outgoing : i <= rows[r].at + OwnBurst
  BY <1>5, <1>9 DEF Explained
<1> QED BY <1>7, <1>8, <1>9 DEF Explained

LEMMA OurOwnStays ==
  ASSUME ChatGrows, NEW mids, NEW complete, OurOwn(mids, complete)
  PROVE  OurOwn(mids, complete)'
BY DEF ChatGrows, OurOwn, FromUs

\* A process that does not move stays in order, unless its rows, its lock or the greetings
\* are touched.
LEMMA OthersOk ==
  ASSUME Types, chat' \in Seq(Entry), ChatGrows, RowsGrow,
         NEW q \in Procs, ProcOk(q, my[q]), my'[q] = my[q],
         q # Watch => \A k \in DOMAIN my[q].parts :
           LET r == my[q].parts[k].row IN r \in DOMAIN rows => r \in DOMAIN rows' /\ rows'[r] = rows[r],
         q \in Events /\ my[q].step \in TurnSteps => lock' = lock,
         q \in Events /\ my[q].greets => greetings' = greetings
  PROVE  ProcOk(q, my[q])'
<1> DEFINE m == my[q]
<1>1. m \in Local /\ m.read \in Nat /\ Len(chat) \in Nat /\ Len(chat') \in Nat
  BY DEF ProcOk, Local, Types
<1>2. DOMAIN chat \subseteq DOMAIN chat' /\ Len(chat) <= Len(chat')
  <2>1. DOMAIN chat = 1..Len(chat) /\ DOMAIN chat' = 1..Len(chat')
    BY DEF Types
  <2>2. DOMAIN chat \subseteq DOMAIN chat'
    BY DEF ChatGrows
  <2> QED BY <1>1, <2>1, <2>2
<1>3. m' = m
  OBVIOUS
<1> HIDE DEF m
<1>4. OurOwn(m.sent, m.step = "mark")'
  <2>1. OurOwn(m.sent, m.step = "mark")
    BY DEF ProcOk, m
  <2> QED BY <1>3, <2>1, OurOwnStays DEF OurOwn, ChatGrows, FromUs
<1>5. ASSUME q \in Events
      PROVE  TurnOk(q, m)'
  <2>1. TurnOk(q, m)
    BY <1>5 DEF ProcOk, m
  <2>2. \A k \in DOMAIN m.parts : Unnamed(m.parts[k].row)' /\ ~rows'[m.parts[k].row].open
    BY <1>5, <2>1, Constants DEF TurnOk, Unnamed, m
  <2>3. m.step \in TurnSteps => lock' = q
    BY <1>5, <2>1 DEF TurnOk, m
  <2>4. m.greets => m.step = "write" /\ greetings' = 0
    BY <1>5, <2>1 DEF TurnOk, m
  <2>5. ASSUME m.step \in {"send", "mark"}, m.found = {},
               NEW i \in Window(m.read, GuardHistory)', chat'[i].hand = "manager"
        PROVE  Explained(i, m.read)'
    <3>1. i \in 1..m.read /\ i \in DOMAIN chat /\ chat'[i] = chat[i]
      BY <1>1, <1>3, <2>5 DEF Window, ChatGrows, ProcOk, Types, m
    <3>2. i \in Window(m.read, GuardHistory)
      BY <1>3, <2>5, <3>1 DEF Window, FromBot
    <3>3. Explained(i, m.read)
      BY <2>1, <2>5, <3>1, <3>2 DEF TurnOk
    <3>4. m.read <= Len(chat) /\ chat \in Seq(Entry)
      BY DEF ProcOk, Types, m
    <3> QED BY <1>1, <1>3, <3>1, <3>3, <3>4, ExplainedStays
  <2> QED BY <1>3, <2>1, <2>2, <2>3, <2>4, <2>5 DEF TurnOk
<1>6. ASSUME q = Silent
      PROVE  SilentOk(m)'
  <2>1. SilentOk(m)
    BY <1>6 DEF ProcOk, m
  <2> QED BY <1>3, <1>6, <2>1, Constants DEF SilentOk, Unnamed, m
<1>7. /\ m.found \subseteq DOMAIN chat' /\ m.read <= Len(chat')
      /\ m.step \notin {"record", "send", "mark"} => m.read = 0 /\ m.found = {} /\ m.sent = {}
  BY <1>1, <1>2 DEF ProcOk, m
<1> QED BY <1>1, <1>3, <1>4, <1>5, <1>6, <1>7 DEF ProcOk, m

\* Adding messages to the chat changes nothing else.
LEMMA ChatAppended ==
  ASSUME Types, RowsInv, UNCHANGED rows,
         chat' = chat \/ \E entry \in Entry : chat' = Append(chat, entry)
  PROVE  /\ chat' \in Seq(Entry) /\ ChatGrows /\ RowsGrow /\ RowsInv'
         /\ Len(chat) <= Len(chat')
<1>1. chat \in Seq(Entry) /\ Len(chat) \in Nat
  BY DEF Types
<1>2. chat' \in Seq(Entry) /\ ChatGrows /\ Len(chat) <= Len(chat')
  BY <1>1 DEF ChatGrows
<1>3. RowsGrow
  BY DEF RowsGrow, Committed, Taken
<1>4. RowsInv'
  <2>1. \A r \in Committed' : rows'[r].role = "ai" => OurOwn(rows[r].mids, TRUE)'
    <3> SUFFICES ASSUME NEW r \in Committed, rows[r].role = "ai" PROVE OurOwn(rows[r].mids, TRUE)'
      BY DEF Committed, OurOwn, ChatGrows, FromUs
    <3>1. OurOwn(rows[r].mids, TRUE)
      BY DEF RowsInv
    <3> QED BY <1>2, <3>1 DEF OurOwn, ChatGrows, FromUs
  <2>2. \A r \in DOMAIN rows' : rows'[r].role = "ai" => rows'[r].at <= Len(chat')
    <3> SUFFICES ASSUME NEW r \in DOMAIN rows, rows[r].role = "ai" PROVE rows[r].at <= Len(chat')
      OBVIOUS
    <3>1. rows[r] \in Row
      BY DEF Types
    <3>2. rows[r].at <= Len(chat) /\ rows[r].at \in Nat /\ Len(chat') \in Nat
      BY <1>2, <3>1 DEF RowsInv, Row
    <3> QED BY <1>1, <1>2, <3>2
  <2> QED BY <2>1, <2>2 DEF RowsInv
<1> QED BY <1>2, <1>3, <1>4

\* New rows behind the old ones: the client's, ours without a mid, or an operator's.
LEMMA RowsAppended ==
  ASSUME Types, RowsInv, UNCHANGED chat,
         NEW new \in Seq(Row), rows' = rows \o new,
         \A k \in DOMAIN new : new[k].role = "ai" => new[k].mids = {} /\ new[k].at = Len(chat)
  PROVE  /\ rows' \in Seq(Row) /\ ChatGrows /\ RowsGrow /\ RowsInv'
         /\ \A r \in DOMAIN rows : r \in DOMAIN rows' /\ rows'[r] = rows[r]
         /\ \A k \in DOMAIN new : Len(rows) + k \in DOMAIN rows' /\ rows'[Len(rows) + k] = new[k]
<1>1. rows \in Seq(Row) /\ Len(rows) \in Nat /\ Len(new) \in Nat /\ Len(chat) \in Nat
  BY DEF Types
<1>2. /\ rows' \in Seq(Row) /\ Len(rows') = Len(rows) + Len(new)
      /\ DOMAIN rows = 1..Len(rows) /\ DOMAIN new = 1..Len(new) /\ DOMAIN rows' = 1..Len(rows')
  BY <1>1
<1>3. \A r \in DOMAIN rows : r \in DOMAIN rows' /\ rows'[r] = rows[r]
  BY <1>1, <1>2
<1>4. \A k \in DOMAIN new : Len(rows) + k \in DOMAIN rows' /\ rows'[Len(rows) + k] = new[k]
  BY <1>1, <1>2
<1>5. \A r \in DOMAIN rows' : r \in DOMAIN rows \/ \E k \in DOMAIN new : rows'[r] = new[k]
  <2> SUFFICES ASSUME NEW r \in DOMAIN rows', r \notin DOMAIN rows
               PROVE  \E k \in DOMAIN new : rows'[r] = new[k]
    OBVIOUS
  <2>1. r - Len(rows) \in DOMAIN new /\ Len(rows) + (r - Len(rows)) = r
    BY <1>1, <1>2
  <2> QED BY <1>4, <2>1
<1>6. ChatGrows
  BY DEF ChatGrows
<1>7. RowsGrow
  <2>1. \A r \in Committed : r \in Committed' /\ rows'[r] = rows[r]
    BY <1>3 DEF Committed
  <2>2. Taken \subseteq Taken'
    BY <2>1 DEF Taken
  <2> QED BY <2>1, <2>2 DEF RowsGrow
<1>8. RowsInv'
  <2>1. ASSUME NEW r \in Committed', rows'[r].role = "ai"
        PROVE  OurOwn(rows[r].mids, TRUE)'
    <3>1. CASE r \in DOMAIN rows
      <4>1. r \in Committed /\ OurOwn(rows[r].mids, TRUE) /\ rows'[r] = rows[r]
        BY <1>3, <2>1, <3>1 DEF Committed, RowsInv
      <4> QED BY <4>1 DEF OurOwn, FromUs
    <3>2. CASE r \notin DOMAIN rows
      <4>1. rows'[r].mids = {}
        BY <1>5, <2>1, <3>2 DEF Committed
      <4> QED BY <4>1 DEF OurOwn
    <3> QED BY <3>1, <3>2
  <2>2. ASSUME NEW r \in DOMAIN rows', rows'[r].role = "ai"
        PROVE  rows'[r].at <= Len(chat')
    BY <1>1, <1>3, <1>5, <2>2 DEF RowsInv
  <2> QED BY <2>1, <2>2 DEF RowsInv
<1> QED BY <1>2, <1>3, <1>4, <1>6, <1>7, <1>8

\* Rows whose transaction is given up were not seen by anybody.
LEMMA RowsRolledBack ==
  ASSUME Types, RowsInv, UNCHANGED chat, Rollback
  PROVE  /\ rows' \in Seq(Row) /\ ChatGrows /\ RowsGrow /\ RowsInv'
         /\ \A r \in DOMAIN rows : ~rows[r].open => r \in DOMAIN rows' /\ rows'[r] = rows[r]
<1>1. rows \in Seq(Row) /\ DOMAIN rows' = DOMAIN rows
  BY DEF Types, Rollback
<1>2. \A r \in DOMAIN rows : rows'[r] = IF rows[r].open THEN [rows[r] EXCEPT !.role = "gone"] ELSE rows[r]
  BY DEF Rollback
<1>3. ASSUME NEW r \in DOMAIN rows
      PROVE  /\ rows'[r] \in Row /\ rows'[r].open = rows[r].open
             /\ rows'[r].role = "gone" \/ rows'[r] = rows[r]
             /\ ~rows[r].open => rows'[r] = rows[r]
  <2>1. rows[r] \in Row
    BY <1>1
  <2> QED BY <1>2, <2>1 DEF Row, Roles
<1>4. rows' \in Seq(Row)
  <2>1. DOMAIN rows = 1..Len(rows) /\ Len(rows) \in Nat
    BY <1>1
  <2>2. rows' = [r \in 1..Len(rows) |-> rows'[r]]
    BY <2>1 DEF Rollback
  <2> QED BY <1>3, <2>1, <2>2
<1>5. Committed' = Committed
  BY <1>1, <1>3 DEF Committed
<1>6. \A r \in Committed : rows'[r] = rows[r]
  BY <1>3 DEF Committed
<1>7. RowsGrow
  <2>1. Taken' = Taken
    BY <1>5, <1>6 DEF Taken
  <2> QED BY <1>5, <1>6, <2>1 DEF RowsGrow
<1>8. RowsInv'
  <2>1. \A r \in Committed' : rows'[r].role = "ai" => OurOwn(rows[r].mids, TRUE)'
    BY <1>5, <1>6 DEF RowsInv, OurOwn, FromUs
  <2>2. \A r \in DOMAIN rows' : rows'[r].role = "ai" => rows'[r].at <= Len(chat')
    BY <1>1, <1>3 DEF RowsInv
  <2> QED BY <2>1, <2>2 DEF RowsInv
<1> QED BY <1>3, <1>1, <1>4, <1>7, <1>8 DEF ChatGrows

\* A row of ours gets its mids, and is committed if it was not.
LEMMA RowNamed ==
  ASSUME Types, RowsInv, UNCHANGED chat,
         NEW r \in DOMAIN rows, Unnamed(r), NEW mids \in SUBSET Nat, OurOwn(mids, TRUE),
         rows' = [rows EXCEPT ![r] = [@ EXCEPT !.open = FALSE, !.mids = mids]]
  PROVE  /\ rows' \in Seq(Row) /\ ChatGrows /\ RowsGrow /\ RowsInv'
         /\ \A q \in DOMAIN rows \ {r} : q \in DOMAIN rows' /\ rows'[q] = rows[q]
<1>1. rows \in Seq(Row) /\ rows[r] \in Row /\ rows[r].role = "ai" /\ rows[r].mids = {}
  BY DEF Types, Unnamed
<1> DEFINE row == [rows[r] EXCEPT !.open = FALSE, !.mids = mids]
<1>2. row \in Row /\ row.role = "ai" /\ row.at = rows[r].at /\ row.mids = mids /\ ~row.open
  BY <1>1 DEF Row
<1>3. /\ rows' = [rows EXCEPT ![r] = row] /\ DOMAIN rows' = DOMAIN rows
      /\ rows'[r] = row /\ \A q \in DOMAIN rows \ {r} : rows'[q] = rows[q]
  BY <1>1
<1> HIDE DEF row
<1>4. rows' \in Seq(Row)
  BY <1>1, <1>2, <1>3
<1>5. \A q \in Committed : q \in Committed' /\ (q # r => rows'[q] = rows[q])
  BY <1>2, <1>3 DEF Committed
<1>6. RowsGrow
  <2>1. Taken \subseteq Taken'
    BY <1>1, <1>3, <1>5 DEF Taken, Committed
  <2> QED BY <1>1, <1>2, <1>3, <1>5, <2>1 DEF RowsGrow
<1>7. RowsInv'
  <2>1. ASSUME NEW q \in Committed', rows'[q].role = "ai"
        PROVE  OurOwn(rows[q].mids, TRUE)'
    <3>1. OurOwn(rows'[q].mids, TRUE)
      <4>1. CASE q = r
        BY <1>2, <1>3, <4>1
      <4>2. CASE q # r
        BY <1>3, <2>1, <4>2 DEF Committed, RowsInv
      <4> QED BY <4>1, <4>2
    <3> QED BY <3>1 DEF OurOwn, FromUs
  <2>2. \A q \in DOMAIN rows' : rows'[q].role = "ai" => rows'[q].at <= Len(chat')
    BY <1>1, <1>2, <1>3 DEF RowsInv
  <2> QED BY <2>1, <2>2 DEF RowsInv
<1> QED BY <1>3, <1>4, <1>6, <1>7 DEF ChatGrows

-----------------------------------------------------------------------------
(* Steps *)

\* Who has the lock, or finds it free, is alone in a turn.
LEMMA LocksExclude ==
  ASSUME Inv, NEW e \in Events, lock \in {e, Watch}, NEW q \in Events, q # e
  PROVE  my[q].step \notin TurnSteps /\ my[q].parts = <<>> /\ ~my[q].greets
<1>1. TurnOk(q, my[q]) /\ q # Watch
  BY Constants DEF Inv, ProcOk, Procs
<1>2. my[q].step \notin TurnSteps
  BY <1>1 DEF TurnOk
<1>3. Speaks \subseteq TurnSteps /\ "write" \in TurnSteps
  BY DEF Speaks, TurnSteps
<1> QED BY <1>1, <1>2, <1>3 DEF TurnOk

\* A step of one process, p.
LEMMA StepInv ==
  ASSUME Inv, Types', RowsInv', GreetInv', ChatGrows, RowsGrow,
         NEW p \in Procs, \E x : my' = [my EXCEPT ![p] = x],
         \A q \in Procs \ {p, Watch} : \A k \in DOMAIN my[q].parts :
           LET r == my[q].parts[k].row IN r \in DOMAIN rows => r \in DOMAIN rows' /\ rows'[r] = rows[r],
         \A q \in Events \ {p} : (my[q].step \in TurnSteps => lock' = lock)
                                 /\ (my[q].greets => greetings' = greetings),
         ProcOk(p, my[p])'
  PROVE  Inv'
<1>1. my \in [Procs -> Local] /\ my'[p] \in Local
  BY DEF Inv, ProcOk
<1>2. my' \in [Procs -> Local] /\ \A q \in Procs \ {p} : my'[q] = my[q]
  BY <1>1
<1>3. \A q \in Procs \ {p} : ProcOk(q, my[q])'
  BY <1>2, OthersOk DEF Inv, Types
<1> QED BY <1>2, <1>3 DEF Inv

\* A step of p that leaves chat and rows alone.
LEMMA MoveInv ==
  ASSUME Inv, Types', UNCHANGED <<chat, rows, greetings>>,
         NEW p \in Procs, \E x : my' = [my EXCEPT ![p] = x],
         \A q \in Events \ {p} : my[q].step \in TurnSteps => lock' = lock,
         ProcOk(p, my[p])'
  PROVE  Inv'
<1>1. ChatGrows /\ RowsGrow
  BY DEF ChatGrows, RowsGrow, Committed, Taken
<1>2. RowsInv' /\ GreetInv'
  BY DEF Inv, RowsInv, GreetInv, Committed, OurOwn, FromUs, Outgoing
<1> QED BY <1>1, <1>2, StepInv

LEMMA IdleType ==
  /\ Idle \in Local /\ Idle.step = "idle" /\ Idle.parts = <<>> /\ Idle.sent = {} /\ Idle.found = {}
  /\ Idle.read = 0 /\ ~Idle.greets
BY DEF Idle, Local, Steps

\* Who has nothing to say, has sent nothing and has read nothing is in order.
LEMMA QuietOk ==
  ASSUME NEW p \in Procs, chat' \in Seq(Entry), my'[p] \in Local,
         my'[p].parts = <<>>, my'[p].sent = {}, my'[p].found = {}, my'[p].read = 0,
         ~my'[p].greets, my'[p].step \notin Speaks,
         p \in Events /\ my'[p].step \in TurnSteps => lock' = p
  PROVE  ProcOk(p, my[p])'
<1>1. Len(chat') \in Nat
  OBVIOUS
<1>2. p \in Events => TurnOk(p, my[p])'
  BY DEF TurnOk, Speaks
<1>3. SilentOk(my[p])'
  BY DEF SilentOk, Speaks
<1>4. OurOwn(my[p].sent, my[p].step = "mark")'
  BY DEF OurOwn
<1> QED BY <1>1, <1>2, <1>3, <1>4 DEF ProcOk

\* Nobody moves: people write and give the dialog back, or nothing happens.
LEMMA NobodyMovesInv ==
  ASSUME Inv, UNCHANGED vars \/ ManagerWrites \/ HandBack
  PROVE  Inv'
<1> USE DEF database, counts, vars
<1>1. UNCHANGED <<rows, my, lock, greetings>>
  BY DEF ManagerWrites, HandBack
<1>2. chat' = chat \/ \E entry \in Entry : chat' = Append(chat, entry)
  <2>1. CASE ManagerWrites
    <3>1. PICK word \in {0} \cup {r \in Outgoing : rows[r].role = "ai"} :
            chat' = Append(chat, [hand |-> "manager", word |-> word])
      BY <2>1 DEF ManagerWrites
    <3>2. word \in Nat
      BY DEF Outgoing, Committed, Inv, Types
    <3>3. [hand |-> "manager", word |-> word] \in Entry
      BY <3>2 DEF Entry
    <3> QED BY <3>1, <3>3
  <2> QED BY <2>1 DEF HandBack
<1>3. chat' \in Seq(Entry) /\ ChatGrows /\ RowsGrow /\ RowsInv'
  BY <1>1, <1>2, ChatAppended DEF Inv
<1>4. Types'
  <2>1. happenings' \in 0..MaxHappenings
    BY Constants DEF Inv, Types, ManagerWrites, HandBack, Happens
  <2>2. paused' \in {paused, FALSE} /\ UNCHANGED <<known, blocked, stage, chatId>>
    BY DEF ManagerWrites, HandBack
  <2> QED BY <1>1, <1>3, <2>1, <2>2 DEF Inv, Types
<1>5. GreetInv'
  BY <1>1 DEF Inv, GreetInv, Outgoing, Committed
<1>6. \A q \in Procs : ProcOk(q, my[q])'
  BY <1>1, <1>3, OthersOk DEF Inv
<1>7. my' \in [Procs -> Local]
  BY <1>1 DEF Inv
<1> QED BY <1>3, <1>4, <1>5, <1>6, <1>7 DEF Inv

\* The watcher moves, but for what it records.
LEMMA WatcherInv ==
  ASSUME Inv, WatchBegins \/ WatchReads \/ WatchFetchFails \/ RecordClashes(Watch)
  PROVE  Inv'
<1> USE DEF database, counts
<1> DEFINE m == my[Watch]
<1>1. /\ Watch \in Procs /\ Watch \notin Events /\ Watch # Silent
      /\ my \in [Procs -> Local] /\ m \in Local /\ chat \in Seq(Entry)
  BY Constants DEF Inv, Procs, Types
<1>2. UNCHANGED <<chat, rows, known, paused, blocked, stage, chatId, lock, counts>>
  BY DEF WatchBegins, WatchReads, WatchFetchFails, RecordClashes
<1>3. Types'
  BY <1>2 DEF Inv, Types
<1>4. m.step \in {"idle", "fetch"} => m.read = 0 /\ m.found = {} /\ m.sent = {}
  BY <1>1 DEF Inv, ProcOk
<1>5. ASSUME my' = [my EXCEPT ![Watch] = Idle]
      PROVE  Inv'
  <2>1. ProcOk(Watch, my[Watch])'
    BY <1>1, <1>2, <1>5, IdleType, QuietOk DEF Speaks
  <2> QED BY <1>1, <1>2, <1>3, <1>5, <2>1, MoveInv
<1>6. ASSUME NEW x, x \in Local, my' = [my EXCEPT ![Watch] = x], x.step \in {"fetch", "record"},
             x.sent = m.sent, x.found \subseteq DOMAIN chat, x.step = "fetch" => x.found = {},
             x.read = m.read, m.step \in {"idle", "fetch"}
      PROVE  Inv'
  <2>1. ProcOk(Watch, my[Watch])'
    <3>1. my'[Watch] = x /\ x.read = 0 /\ x.sent = {}
      BY <1>1, <1>4, <1>6
    <3>2. OurOwn(my[Watch].sent, my[Watch].step = "mark")'
      BY <3>1 DEF OurOwn
    <3>3. Len(chat) \in Nat
      BY <1>1
    <3> QED BY <1>1, <1>2, <1>6, <3>1, <3>2, <3>3 DEF ProcOk
  <2> QED BY <1>1, <1>2, <1>3, <1>6, <2>1, MoveInv
<1>7. CASE WatchBegins
  <2> DEFINE x == [m EXCEPT !.saw = paused, !.step = "fetch"]
  <2>1. my' = [my EXCEPT ![Watch] = x] /\ m.step = "idle"
    BY <1>1, <1>7 DEF WatchBegins
  <2>2. x \in Local /\ x.step = "fetch" /\ x.sent = m.sent /\ x.found = m.found /\ x.read = m.read
    BY <1>1 DEF Local, Steps, Inv, Types
  <2> HIDE DEF x
  <2> QED BY <1>4, <1>6, <2>1, <2>2
<1>8. CASE WatchReads
  <2> DEFINE found == Foreign(Window(Len(chat), WatchHistory))
             x == [m EXCEPT !.found = found, !.step = "record"]
  <2>1. found \subseteq DOMAIN chat
    BY <1>1 DEF Foreign, Window
  <2>2. m.step = "fetch" /\ (my' = [my EXCEPT ![Watch] = Idle] \/ my' = [my EXCEPT ![Watch] = x])
    BY <1>1, <1>8 DEF WatchReads, Found, GoOn
  <2>3. found \subseteq Nat
    BY <1>1, <2>1
  <2> HIDE DEF found
  <2>4. x \in Local /\ x.step = "record" /\ x.sent = m.sent /\ x.found = found /\ x.read = m.read
    BY <1>1, <2>3 DEF Local, Steps
  <2> HIDE DEF x
  <2> QED BY <1>5, <1>6, <2>1, <2>2, <2>4
<1>9. CASE WatchFetchFails \/ RecordClashes(Watch)
  <2>1. my' = [my EXCEPT ![Watch] = Idle]
    BY <1>1, <1>9 DEF WatchFetchFails, RecordClashes, GoOn
  <2> QED BY <1>5, <2>1
<1> QED BY <1>7, <1>8, <1>9

\* An event comes.
LEMMA EventComesInv ==
  ASSUME Inv, NEW e \in Events, EventComes(e)
  PROVE  Inv'
<1> USE DEF database, counts
<1>1. e \in Procs /\ my \in [Procs -> Local] /\ my[e].step = "idle" /\ Len(chat) \in Nat
  BY DEF EventComes, Inv, Procs, Types
<1>2. PICK kind \in Kinds :
        /\ chat' = IF kind = "message" THEN Append(chat, [hand |-> "client", word |-> 0]) ELSE chat
        /\ my' = [my EXCEPT ![e] =
             [Idle EXCEPT !.step = IF ~known /\ kind = "message" THEN "first" ELSE "store",
                          !.kind = kind, !.new = ~known,
                          !.message = IF kind = "message" THEN Len(chat) + 1 ELSE 0]]
  BY DEF EventComes
<1>3. UNCHANGED <<rows, known, paused, blocked, stage, chatId, lock, greetings>>
  BY DEF EventComes
<1>4. [hand |-> "client", word |-> 0] \in Entry
  BY DEF Entry
<1>5. chat' \in Seq(Entry) /\ ChatGrows /\ RowsGrow /\ RowsInv'
  BY <1>2, <1>3, <1>4, ChatAppended DEF Inv
<1>6. Types'
  <2>1. happenings' \in 0..MaxHappenings
    BY Constants DEF EventComes, Happens, Inv, Types
  <2> QED BY <1>3, <1>5, <2>1 DEF Inv, Types
<1>7. GreetInv'
  BY <1>3 DEF Inv, GreetInv, Outgoing, Committed
<1>8. ProcOk(e, my[e])'
  <2> DEFINE step == IF ~known /\ kind = "message" THEN "first" ELSE "store"
             number == IF kind = "message" THEN Len(chat) + 1 ELSE 0
             x == [Idle EXCEPT !.step = step, !.kind = kind, !.new = ~known, !.message = number]
  <2>1. /\ x \in Local /\ x.step \in {"first", "store"} /\ x.parts = <<>> /\ x.sent = {}
        /\ x.found = {} /\ x.read = 0 /\ ~x.greets
    <3>1. (~known) \in BOOLEAN /\ kind \in {"message", "start"}
      BY DEF Kinds
    <3>2. step \in {"first", "store"} /\ number \in Nat
      BY <1>1
    <3> HIDE DEF step, number
    <3> QED BY <3>1, <3>2, IdleType DEF Local, Steps
  <2>2. my'[e] = x
    BY <1>1, <1>2
  <2> HIDE DEF x
  <2> QED BY <1>1, <1>5, <2>1, <2>2, QuietOk DEF Speaks, TurnSteps
<1> QED BY <1>1, <1>2, <1>3, <1>5, <1>6, <1>7, <1>8, StepInv

\* What is said of a turn that has nothing to say yet.
LEMMA QuietBefore ==
  ASSUME Inv, NEW e \in Events, my[e].step \notin Speaks
  PROVE  /\ e \in Procs /\ my[e] \in Local /\ my[e].parts = <<>> /\ my[e].sent = {}
         /\ my[e].found = {} /\ my[e].read = 0
         /\ my[e].greets => my[e].step = "write" /\ greetings = 0
         /\ my[e].step \in TurnSteps => lock = e
<1>1. e \in Procs /\ ProcOk(e, my[e]) /\ TurnOk(e, my[e])
  BY DEF Inv, Procs, ProcOk
<1> QED BY <1>1 DEF ProcOk, TurnOk, Speaks

LEMMA EndType ==
  /\ [Idle EXCEPT !.step = "done"] \in Local /\ [Idle EXCEPT !.step = "done"].step = "done"
  /\ [Idle EXCEPT !.step = "done"].parts = <<>> /\ [Idle EXCEPT !.step = "done"].sent = {}
  /\ [Idle EXCEPT !.step = "done"].found = {} /\ [Idle EXCEPT !.step = "done"].read = 0
  /\ ~[Idle EXCEPT !.step = "done"].greets
BY IdleType DEF Local, Steps

\* An event ends without more to do: it gives up the lock if it has it.
LEMMA EndInv ==
  ASSUME Inv, Types', UNCHANGED <<chat, rows, greetings>>, NEW e \in Events, End(e),
         lock' = lock \/ (lock' = Watch /\ lock \in {e, Watch})
  PROVE  Inv'
<1>1. e \in Procs /\ my \in [Procs -> Local] /\ chat' \in Seq(Entry)
  BY DEF Inv, Procs, Types
<1>2. my' = [my EXCEPT ![e] = [Idle EXCEPT !.step = "done"]]
  BY DEF End
<1>3. ProcOk(e, my[e])'
  <2>1. my'[e] = [Idle EXCEPT !.step = "done"]
    BY <1>1, <1>2
  <2> QED BY <1>1, <2>1, EndType, QuietOk DEF Speaks, TurnSteps
<1>4. \A q \in Events \ {e} : my[q].step \in TurnSteps => lock' = lock
  BY LocksExclude
<1> QED BY <1>1, <1>2, <1>3, <1>4, MoveInv

\* The ways an event ends that leave the rows alone.
LEMMA EndsInv ==
  ASSUME Inv, NEW e \in Events,
         StoreClashes(e) \/ (Enter(e) /\ paused) \/ NothingToSay(e) \/ MaxRefuses(e)
  PROVE  Inv'
<1> USE DEF database, counts
<1>1. UNCHANGED <<chat, rows, greetings, known, paused, stage, happenings>> /\ End(e)
  BY DEF StoreClashes, Enter, NothingToSay, MaxRefuses, EndTurn
<1>2. lock' = lock \/ (lock' = Watch /\ lock \in {e, Watch})
  <2>1. my[e].step \in TurnSteps => lock = e
    BY DEF Inv, Procs, ProcOk, TurnOk
  <2> QED BY <2>1 DEF StoreClashes, Enter, LockIsFree, NothingToSay, MaxRefuses, EndTurn, TurnSteps
<1>3. blocked' \in BOOLEAN /\ chatId' \in BOOLEAN
  BY DEF Inv, Types, StoreClashes, Enter, NothingToSay, MaxRefuses, EndTurn, ChatIdAfter
<1>4. Types'
  BY <1>1, <1>2, <1>3 DEF Inv, Types
<1> QED BY <1>1, <1>2, <1>4, EndInv

\* A turn goes on towards its run.
LEMMA PrepareInv ==
  ASSUME Inv, NEW e \in Events, FirstCheck(e) \/ (Enter(e) /\ ~paused) \/ Decide(e)
  PROVE  Inv'
<1> USE DEF database, counts
<1> DEFINE m == my[e]
<1>1. /\ e \in Procs /\ m \in Local /\ m.parts = <<>> /\ m.sent = {} /\ m.found = {} /\ m.read = 0
      /\ (m.greets => m.step = "write" /\ greetings = 0) /\ (m.step \in TurnSteps => lock = e)
      /\ my \in [Procs -> Local] /\ chat \in Seq(Entry) /\ m.step \in {"first", "wait", "run"}
  <2>1. m.step \in {"first", "wait", "run"}
    BY DEF FirstCheck, Enter, Decide
  <2> QED BY <2>1, QuietBefore DEF Speaks, Inv, Types
<1>2. UNCHANGED <<chat, rows, blocked, stage, chatId, greetings, happenings>>
  BY DEF FirstCheck, Enter, Decide, Go
<1>3. known' \in BOOLEAN /\ paused' \in BOOLEAN
  BY DEF Inv, Types, FirstCheck, PauseForManager, Enter, Decide
<1> DEFINE Moves(x) ==
             /\ x \in Local /\ my' = [my EXCEPT ![e] = x]
             /\ x.parts = <<>> /\ x.sent = {} /\ x.found = {} /\ x.read = 0
             /\ x.step \in {"store", "run", "write"}
             /\ x.step = "store" => lock' = lock
             /\ x.step # "store" => lock' = e /\ lock \in {e, Watch}
             /\ x.greets => x.step = "write" /\ greetings = 0
<1>4. \E x : Moves(x)
  <2>1. m.greets = FALSE
    BY <1>1 DEF Local
  <2>2. CASE FirstCheck(e)
    <3> DEFINE x == [m EXCEPT !.new = FALSE, !.step = "store"]
               y == [m EXCEPT !.step = "store"]
    <3>1. lock' = lock /\ (my' = [my EXCEPT ![e] = x] \/ my' = [my EXCEPT ![e] = y])
      BY <1>1, <2>2 DEF FirstCheck, Go
    <3>2. x \in Local /\ y \in Local /\ x.step = "store" /\ y.step = "store"
      BY <1>1 DEF Local, Steps
    <3>3. /\ x.parts = <<>> /\ x.sent = {} /\ x.found = {} /\ x.read = 0 /\ ~x.greets
          /\ y.parts = <<>> /\ y.sent = {} /\ y.found = {} /\ y.read = 0 /\ ~y.greets
      BY <1>1, <2>1 DEF Local
    <3> HIDE DEF x, y
    <3> QED BY <3>1, <3>2, <3>3
  <2>3. CASE Enter(e) /\ ~paused
    <3> DEFINE x == [m EXCEPT !.step = "run"]
    <3>1. lock' = e /\ lock = Watch /\ my' = [my EXCEPT ![e] = x]
      BY <1>1, <2>3 DEF Enter, LockIsFree, Go
    <3>2. x \in Local /\ x.step = "run"
      BY <1>1 DEF Local, Steps
    <3>3. x.parts = <<>> /\ x.sent = {} /\ x.found = {} /\ x.read = 0 /\ ~x.greets
      BY <1>1, <2>1 DEF Local
    <3> HIDE DEF x
    <3> QED BY <3>1, <3>2, <3>3
  <2>4. CASE Decide(e)
    <3> DEFINE x == [m EXCEPT !.step = "write", !.greets = ~HasOutgoing]
    <3>1. lock' = lock /\ lock = e /\ my' = [my EXCEPT ![e] = x]
      BY <1>1, <2>4 DEF Decide, TurnSteps
    <3>2. (~HasOutgoing) \in BOOLEAN
      BY DEF HasOutgoing
    <3>3. x \in Local /\ x.step = "write"
      BY <1>1, <3>2 DEF Local, Steps
    <3>4. x.parts = <<>> /\ x.sent = {} /\ x.found = {} /\ x.read = 0 /\ x.greets = ~HasOutgoing
      BY <1>1, <3>2 DEF Local
    <3>5. ~HasOutgoing => greetings = 0
      BY DEF Inv, GreetInv, HasOutgoing
    <3> HIDE DEF x
    <3> QED BY <3>1, <3>3, <3>4, <3>5
  <2> QED BY <2>2, <2>3, <2>4
<1>5. PICK x : Moves(x)
  BY <1>4
<1>6. Types'
  BY <1>2, <1>3, <1>5 DEF Inv, Types
<1>7. ProcOk(e, my[e])'
  <2>1. my'[e] = x /\ Len(chat') \in Nat
    BY <1>1, <1>2, <1>5
  <2>2. TurnOk(e, my[e])'
    BY <1>2, <1>5, <2>1 DEF TurnOk, Speaks, TurnSteps
  <2>3. OurOwn(my[e].sent, my[e].step = "mark")'
    BY <1>5, <2>1 DEF OurOwn
  <2>4. e # Silent
    BY Constants
  <2> QED BY <1>5, <2>1, <2>2, <2>3, <2>4 DEF ProcOk
<1>8. \A q \in Events \ {e} : my[q].step \in TurnSteps => lock' = lock
  BY <1>5, LocksExclude
<1> QED BY <1>1, <1>2, <1>5, <1>6, <1>7, <1>8, MoveInv

\* Greetings made leave a row.
LEMMA GreetingsKept ==
  ASSUME GreetInv, RowsGrow, UNCHANGED greetings
  PROVE  GreetInv'
BY DEF GreetInv, RowsGrow, Outgoing

\* The client's message is stored.
LEMMA StoreInv ==
  ASSUME Inv, NEW e \in Events, Store(e)
  PROVE  Inv'
<1> USE DEF database, counts
<1> DEFINE m == my[e]
           row == NewRow("client", {m.message}, FALSE)
           new == IF m.kind = "message" THEN <<row>> ELSE <<>>
<1>1. /\ e \in Procs /\ m \in Local /\ m.parts = <<>> /\ m.sent = {} /\ m.found = {} /\ m.read = 0
      /\ ~m.greets /\ my \in [Procs -> Local] /\ m.step = "store" /\ rows \in Seq(Row)
      /\ chat \in Seq(Entry)
  <2>1. m.step = "store"
    BY DEF Store
  <2> QED BY <2>1, QuietBefore DEF Speaks, Inv, Types
<1>2. row \in Row /\ row.role = "client"
  BY <1>1 DEF NewRow, Row, Roles, Local
<1>3. new \in Seq(Row) /\ \A k \in DOMAIN new : new[k].role # "ai"
  <2> HIDE DEF row
  <2> QED BY <1>2
<1>4. UNCHANGED <<chat, paused, stage, chatId, lock, greetings, happenings>>
  BY DEF Store
<1>5. rows' = rows \o new
  <2>1. rows' = IF m.kind = "message" THEN Append(rows, row) ELSE rows
    BY DEF Store
  <2> HIDE DEF row
  <2> QED BY <1>1, <1>2, <2>1
<1> HIDE DEF new
<1>6. /\ rows' \in Seq(Row) /\ ChatGrows /\ RowsGrow /\ RowsInv'
      /\ \A r \in DOMAIN rows : r \in DOMAIN rows' /\ rows'[r] = rows[r]
  BY <1>3, <1>4, <1>5, RowsAppended DEF Inv
<1>7. Types'
  <2>1. known' = TRUE /\ blocked' = FALSE
    BY DEF Store
  <2> QED BY <1>4, <1>6, <2>1 DEF Inv, Types
<1>8. PICK number \in Nat :
        my' = [my EXCEPT ![e] = [m EXCEPT !.message = number, !.new = FALSE, !.step = "wait"]]
  <2>1. Len(rows) + 1 \in Nat
    BY <1>1
  <2> QED BY <2>1 DEF Store
<1>9. ProcOk(e, my[e])'
  <2> DEFINE x == [m EXCEPT !.message = number, !.new = FALSE, !.step = "wait"]
  <2>1. x \in Local /\ x.step = "wait"
    BY <1>1 DEF Local, Steps
  <2>2. x.parts = <<>> /\ x.sent = {} /\ x.found = {} /\ x.read = 0 /\ ~x.greets
    BY <1>1 DEF Local
  <2>3. my'[e] = x
    BY <1>1, <1>8
  <2> HIDE DEF x
  <2> QED BY <1>1, <1>4, <2>1, <2>2, <2>3, QuietOk DEF Speaks, TurnSteps
<1> QED BY <1>1, <1>4, <1>6, <1>7, <1>8, <1>9, GreetingsKept, StepInv DEF Inv

\* The rows of what was found, in whatever order.
LEMMA OperatorRows ==
  ASSUME Inv, NEW found, found \subseteq DOMAIN chat, NEW order \in InOrder(found)
  PROVE  LET new == [k \in DOMAIN order |-> [NewRow("operator", {order[k]}, FALSE) EXCEPT !.at = order[k]]]
         IN  new \in Seq(Row) /\ \A k \in DOMAIN new : new[k].role = "operator"
<1> DEFINE row(i) == [NewRow("operator", {i}, FALSE) EXCEPT !.at = i]
           new == [k \in DOMAIN order |-> row(order[k])]
<1>1. chat \in Seq(Entry) /\ DOMAIN chat = 1..Len(chat) /\ Len(chat) \in Nat
  BY DEF Inv, Types
<1>2. Cardinality(found) \in Nat
  <2>1. IsFiniteSet(1..Len(chat))
    BY <1>1, FS_Interval
  <2>2. IsFiniteSet(found)
    BY <1>1, <2>1, FS_Subset
  <2> QED BY <2>2, FS_CardinalityType
<1>3. order \in [1..Cardinality(found) -> found]
  BY DEF InOrder
<1>4. \A i \in Nat : row(i) \in Row /\ row(i).role = "operator"
  BY <1>1 DEF NewRow, Row, Roles
<1>5. \A k \in 1..Cardinality(found) : order[k] \in Nat
  BY <1>1, <1>3
<1>6. DOMAIN new = 1..Cardinality(found) /\ \A k \in DOMAIN new : new[k] = row(order[k])
  <2> HIDE DEF row
  <2> QED BY <1>3
<1> HIDE DEF row
<1>7. new = [k \in 1..Cardinality(found) |-> row(order[k])]
  BY <1>3
<1>8. new \in Seq(Row)
  BY <1>2, <1>4, <1>5, <1>7
<1>9. \A k \in DOMAIN new : new[k].role = "operator"
  BY <1>4, <1>5, <1>6
<1> QED BY <1>8, <1>9 DEF row

\* Foreign messages are recorded, the turn ends.
LEMMA RecordInv ==
  ASSUME Inv, NEW p \in Procs, Record(p)
  PROVE  Inv'
<1> USE DEF database, counts
<1> DEFINE m == my[p]
<1>1. /\ m \in Local /\ m.found \subseteq DOMAIN chat /\ m.step = "record" /\ chat \in Seq(Entry)
      /\ my \in [Procs -> Local] /\ (p \in Events => lock = p)
  BY DEF Inv, ProcOk, TurnOk, TurnSteps, Types, Record
<1>2. PICK order \in InOrder(m.found) :
        rows' = rows \o [k \in DOMAIN order |->
                           [NewRow("operator", {order[k]}, FALSE) EXCEPT !.at = order[k]]]
  BY DEF Record
<1> DEFINE new == [k \in DOMAIN order |-> [NewRow("operator", {order[k]}, FALSE) EXCEPT !.at = order[k]]]
<1>3. new \in Seq(Row) /\ \A k \in DOMAIN new : new[k].role = "operator"
  BY <1>1, OperatorRows
<1> HIDE DEF new
<1>4. UNCHANGED <<chat, known, blocked, stage, greetings, happenings>> /\ chatId' = TRUE
  BY DEF Record
<1>5. /\ rows' \in Seq(Row) /\ ChatGrows /\ RowsGrow /\ RowsInv'
      /\ \A r \in DOMAIN rows : r \in DOMAIN rows' /\ rows'[r] = rows[r]
  <2>1. rows' = rows \o new
    BY <1>2 DEF new
  <2> QED BY <1>3, <1>4, <2>1, RowsAppended DEF Inv
<1>6. lock' \in {lock, Watch} /\ (p \notin Events => lock' = lock) /\ paused' \in BOOLEAN
  BY DEF Record, Inv, Types
<1>7. Types'
  BY <1>4, <1>5, <1>6 DEF Inv, Types
<1>8. \/ my' = [my EXCEPT ![p] = [Idle EXCEPT !.step = "done"]]
      \/ my' = [my EXCEPT ![p] = Idle]
  BY DEF Record
<1>9. ProcOk(p, my[p])'
  <2>1. my'[p] = [Idle EXCEPT !.step = "done"] \/ my'[p] = Idle
    BY <1>1, <1>8
  <2> QED BY <1>1, <1>4, <2>1, EndType, IdleType, QuietOk DEF Speaks, TurnSteps
<1>10. \A q \in Events \ {p} : (my[q].step \in TurnSteps => lock' = lock)
  BY <1>1, <1>6, LocksExclude
<1> QED BY <1>4, <1>5, <1>7, <1>8, <1>9, <1>10, GreetingsKept, StepInv DEF Inv

\* The silent greeting makes its row, in a transaction of its own.
LEMMA SilentComposesInv ==
  ASSUME Inv, SilentComposes
  PROVE  Inv'
<1> USE DEF database, counts
<1> DEFINE m == my[Silent]
           row == NewRow("ai", {}, TRUE)
           part == [row |-> Len(rows) + 1, pieces |-> 1, picture |-> FALSE]
           x == [m EXCEPT !.step = "send", !.parts = <<part>>]
<1>1. /\ Silent \in Procs /\ Silent \notin Events
      /\ m \in Local /\ my \in [Procs -> Local] /\ chat \in Seq(Entry) /\ rows \in Seq(Row)
      /\ m.step = "compose" /\ m.read = 0 /\ m.found = {} /\ m.sent = {}
  BY Constants DEF Inv, ProcOk, Types, Procs, SilentComposes
<1>2. row \in Row /\ row.role = "ai" /\ row.mids = {} /\ row.at = Len(chat) /\ row.open
  BY <1>1 DEF NewRow, Row, Roles
<1>3. /\ rows' = Append(rows, row) /\ my' = [my EXCEPT ![Silent] = x]
      /\ UNCHANGED <<chat, known, paused, blocked, stage, chatId, lock, counts>>
  BY DEF SilentComposes
<1> HIDE DEF row
<1> DEFINE new == <<row>>
<1>4. /\ rows' = rows \o new /\ new \in Seq(Row) /\ 1 \in DOMAIN new /\ new[1] = row
      /\ \A k \in DOMAIN new : new[k] = row
  BY <1>1, <1>2, <1>3
<1> HIDE DEF new
<1>5. /\ rows' \in Seq(Row) /\ ChatGrows /\ RowsGrow /\ RowsInv'
      /\ \A r \in DOMAIN rows : r \in DOMAIN rows' /\ rows'[r] = rows[r]
      /\ Len(rows) + 1 \in DOMAIN rows' /\ rows'[Len(rows) + 1] = row
  BY <1>2, <1>3, <1>4, RowsAppended DEF Inv
<1>6. Types'
  BY <1>3, <1>5 DEF Inv, Types
<1>7. part \in Part
  BY <1>1 DEF Part
<1>8. ProcOk(Silent, my[Silent])'
  <2>1. x \in Local /\ x.step = "send" /\ x.parts = <<part>> /\ x.sent = {} /\ x.found = {} /\ x.read = 0
    <3> DEFINE parts == <<part>>
    <3>1. parts \in Seq(Part)
      <4> HIDE DEF part
      <4> QED BY <1>7
    <3> HIDE DEF parts
    <3>2. /\ x = [m EXCEPT !.step = "send", !.parts = parts]
          /\ [m EXCEPT !.step = "send", !.parts = parts] \in Local
      BY <1>1, <3>1 DEF Local, Steps, parts
    <3>3. x.step = "send" /\ x.parts = parts /\ x.sent = {} /\ x.found = {} /\ x.read = 0
      BY <1>1, <3>2 DEF Local
    <3> QED BY <3>2, <3>3 DEF parts
  <2>2. my'[Silent] = x
    BY <1>1, <1>3
  <2> HIDE DEF x
  <2>3. DOMAIN my'[Silent].parts = {1} /\ my'[Silent].parts[1] = part
    BY <2>1, <2>2
  <2>4. SilentOk(my[Silent])'
    BY <1>2, <1>5, <2>1, <2>2, <2>3 DEF SilentOk, Unnamed
  <2>5. Len(chat') \in Nat
    BY <1>1, <1>3
  <2> QED BY <1>1, <2>1, <2>2, <2>4, <2>5 DEF ProcOk, OurOwn
<1> QED BY <1>1, <1>3, <1>5, <1>6, <1>8, GreetingsKept, StepInv DEF Inv
\* The reply is written: the rows of all its parts, and the greeting is made.
LEMMA WriteInv ==
  ASSUME Inv, NEW e \in Events, Write(e)
  PROVE  Inv'
<1> USE DEF database, counts
<1> DEFINE m == my[e]
           row == NewRow("ai", {}, FALSE)
<1>1. /\ e \in Procs /\ m \in Local /\ m.sent = {} /\ m.found = {} /\ m.read = 0 /\ lock = e
      /\ (m.greets => greetings = 0) /\ my \in [Procs -> Local] /\ m.step = "write"
      /\ chat \in Seq(Entry) /\ rows \in Seq(Row) /\ Len(rows) \in Nat /\ Len(chat) \in Nat
  <2>1. m.step = "write"
    BY DEF Write
  <2> QED BY <2>1, QuietBefore DEF Speaks, TurnSteps, Inv, Types
<1>2. row \in Row /\ row.role = "ai" /\ row.mids = {} /\ row.at = Len(chat) /\ ~row.open
  BY <1>1 DEF NewRow, Row, Roles
<1> HIDE DEF row
<1>3. PICK reply \in Replies :
        /\ rows' = rows \o [k \in DOMAIN reply.parts |-> row]
        /\ my' = [my EXCEPT ![e].step = "guard", ![e].greets = FALSE,
                    ![e].parts = [k \in DOMAIN reply.parts |-> [reply.parts[k] EXCEPT !.row = Len(rows) + k]]]
        /\ paused' = (paused \/ reply.calls)
  BY DEF Write, row
<1> DEFINE new == [k \in DOMAIN reply.parts |-> row]
           parts == [k \in DOMAIN reply.parts |-> [reply.parts[k] EXCEPT !.row = Len(rows) + k]]
           x == [m EXCEPT !.step = "guard", !.greets = FALSE, !.parts = parts]
<1>4. PICK n \in Nat \ {0} : DOMAIN reply.parts = 1..n /\ \A k \in 1..n : reply.parts[k] \in Part
  <2> DEFINE Made(s, c) == DOMAIN s = 1..c /\ \A k \in 1..c : s[k] \in Part
  <2>1. \A a \in Part : Made(<<a>>, 1)
    OBVIOUS
  <2>2. \A a, b \in Part : Made(<<a, b>>, 2)
    OBVIOUS
  <2> HIDE DEF Made
  <2> DEFINE part(c, d) == [row |-> 0, pieces |-> c, picture |-> d]
             one == <<part(2, FALSE)>>
             two == <<part(1, FALSE), part(1, TRUE)>>
  <2>3. reply.parts = one \/ reply.parts = two
    <3>1. Replies = {[calls |-> FALSE, parts |-> one], [calls |-> TRUE, parts |-> two]}
      BY Zenon DEF Replies
    <3> HIDE DEF one, two
    <3> QED BY <3>1
  <2>4. part(2, FALSE) \in Part /\ part(1, FALSE) \in Part /\ part(1, TRUE) \in Part
    BY DEF Part
  <2> HIDE DEF part
  <2>5. Made(reply.parts, 1) \/ Made(reply.parts, 2)
    BY <2>1, <2>2, <2>3, <2>4
  <2>6. 1 \in Nat \ {0} /\ 2 \in Nat \ {0}
    OBVIOUS
  <2>7. \E c \in Nat \ {0} : Made(reply.parts, c)
    BY <2>5, <2>6
  <2> QED BY <2>7 DEF Made
<1>5. new \in Seq(Row) /\ DOMAIN new = 1..n /\ \A k \in 1..n : new[k] = row
  BY <1>2, <1>4
<1>6. /\ parts \in Seq(Part) /\ DOMAIN parts = 1..n /\ parts # <<>>
      /\ \A k \in 1..n : parts[k].row = Len(rows) + k
  <2>1. \A k \in 1..n : LET y == [reply.parts[k] EXCEPT !.row = Len(rows) + k]
                        IN  y \in Part /\ y.row = Len(rows) + k
    <3>1. \A z \in Part, c \in Nat : [z EXCEPT !.row = c] \in Part /\ [z EXCEPT !.row = c].row = c
      BY DEF Part
    <3>2. \A k \in 1..n : Len(rows) + k \in Nat
      BY <1>1
    <3> QED BY <1>4, <3>1, <3>2
  <2>2. parts = [k \in 1..n |-> [reply.parts[k] EXCEPT !.row = Len(rows) + k]]
    BY <1>4
  <2>3. parts \in Seq(Part) /\ DOMAIN parts = 1..n
    <3>1. parts \in [1..n -> Part]
      <4> HIDE DEF parts
      <4> QED BY <2>1, <2>2
    <3> HIDE DEF parts
    <3> QED BY <3>1
  <2>4. 1 \in DOMAIN parts
    BY <2>3
  <2> QED BY <2>1, <2>2, <2>3, <2>4
<1>7. UNCHANGED <<chat, known, blocked, chatId, lock, happenings>>
  BY DEF Write
<1>8. rows' = rows \o new /\ my' = [my EXCEPT ![e] = x] /\ my'[e] = x
  BY <1>1, <1>3
<1> HIDE DEF new, parts
<1>9. /\ rows' \in Seq(Row) /\ ChatGrows /\ RowsGrow /\ RowsInv'
      /\ \A r \in DOMAIN rows : r \in DOMAIN rows' /\ rows'[r] = rows[r]
      /\ \A k \in 1..n : Len(rows) + k \in DOMAIN rows' /\ rows'[Len(rows) + k] = row
  <2>1. \A k \in DOMAIN new : new[k].role = "ai" => new[k].mids = {} /\ new[k].at = Len(chat)
    BY <1>2, <1>5
  <2> QED BY <1>5, <1>7, <1>8, <2>1, RowsAppended DEF Inv
<1>10. /\ greetings' = (IF m.greets THEN greetings + 1 ELSE greetings)
       /\ stage' \in {"greeting", stage, "pricing"}
  BY DEF Write
<1>11. Types'
  <2>1. greetings' \in Nat
    BY <1>10 DEF Inv, Types
  <2>2. paused' \in BOOLEAN
    BY <1>3
  <2> QED BY <1>7, <1>9, <1>10, <2>1, <2>2 DEF Inv, Types
<1>12. GreetInv'
  <2>1. Len(rows) + 1 \in Outgoing'
    BY <1>2, <1>9 DEF Outgoing, Committed
  <2>2. greetings' <= 1
    BY <1>1, <1>10 DEF Inv, GreetInv, Types
  <2> QED BY <2>1, <2>2 DEF GreetInv
<1>13. ProcOk(e, my[e])'
  <2>1. x \in Local /\ x.step = "guard" /\ ~x.greets /\ x.parts = parts
    BY <1>1, <1>6 DEF Local, Steps
  <2>2. x.sent = {} /\ x.found = {} /\ x.read = 0
    BY <1>1 DEF Local
  <2> HIDE DEF x
  <2>3. \A k \in 1..n : LET r == parts[k].row
                      IN  /\ r \in DOMAIN rows' /\ rows'[r].role = "ai"
                          /\ rows'[r].mids = {} /\ ~rows'[r].open
    BY <1>2, <1>6, <1>9
  <2>4. \A k, l \in DOMAIN parts : parts[k].row = parts[l].row => k = l
    BY <1>1, <1>6
  <2>5. TurnOk(e, my[e])'
    <3>1. my'[e].parts = parts /\ my'[e].step = "guard" /\ ~my'[e].greets /\ lock' = e
      BY <1>1, <1>7, <1>8, <2>1
    <3> HIDE DEF m
    <3> QED BY <1>6, <2>3, <2>4, <3>1 DEF TurnOk, Speaks, Unnamed
  <2> QED BY <1>1, <1>7, <1>8, <2>1, <2>2, <2>5, Constants DEF ProcOk, OurOwn
<1>14. \A q \in Events \ {e} : ~my[q].greets
  BY <1>1, LocksExclude
<1> QED BY <1>1, <1>7, <1>8, <1>9, <1>11, <1>12, <1>13, <1>14, StepInv

\* The rows that own messages are known by are the model's, a trigger's or an operator's.
LEMMA OurRowsAre ==
  ASSUME Inv, NEW r \in OurRows
  PROVE  /\ r \in Outgoing /\ r \in Committed /\ rows[r] \in Row
         /\ rows[r].role \in {"ai", "operator"}
<1>1. r \in Outgoing
  BY DEF OurRows, Latest
<1>2. r \in Committed /\ rows[r].role # "client"
  BY <1>1 DEF Outgoing
<1>3. r \in DOMAIN rows /\ rows[r].role # "gone"
  BY <1>2 DEF Committed
<1>4. rows[r] \in Row
  BY <1>3 DEF Inv, Types
<1>5. rows[r].role \in Roles
  BY <1>4 DEF Row
<1> QED BY <1>1, <1>2, <1>3, <1>4, <1>5 DEF Roles

\* What is ours by its mid or its words has been recorded, has words of ours, or its
\* mid is taken; a manager's message is not of the last kind alone.
LEMMA OursIsKnown ==
  ASSUME Inv, NEW i \in DOMAIN chat, Ours(i)
  PROVE  /\ Recorded(i) \/ chat[i].word # 0 \/ i \in Taken
         /\ chat[i].hand = "manager" => Recorded(i) \/ chat[i].word # 0
<1>1. chat[i] \in Entry /\ rows \in Seq(Row)
  BY DEF Inv, Types
<1>2. CASE i \in OurMids
  <2>1. PICK r \in OurRows : i \in rows[r].mids
    BY <1>2 DEF OurMids
  <2>2. r \in Committed /\ rows[r] \in Row /\ rows[r].role \in {"ai", "operator"}
    BY <1>1, <2>1, OurRowsAre
  <2>3. CASE rows[r].role = "operator"
    BY <2>1, <2>2, <2>3 DEF Recorded, Operators
  <2>4. CASE rows[r].role = "ai"
    <3>1. OurOwn(rows[r].mids, TRUE)
      BY <2>2, <2>4 DEF Inv, RowsInv
    <3>2. FromUs(i) /\ (chat[i].word # 0 \/ \A j \in rows[r].mids : j <= i)
      BY <2>1, <3>1 DEF OurOwn
    <3>3. ASSUME \A j \in rows[r].mids : j <= i
          PROVE  i \in Taken
      <4>1. rows[r].mids \subseteq Nat
        BY <2>2 DEF Row
      <4>2. Max(rows[r].mids) = i
        BY <2>1, <3>3, <4>1, GreatestIsMax
      <4> QED BY <2>1, <2>2, <4>2 DEF Taken
    <3> QED BY <3>2, <3>3 DEF FromUs
  <2> QED BY <2>2, <2>3, <2>4
<1>3. CASE chat[i].word \in OurTexts
  <2>1. chat[i].word \in DOMAIN rows
    BY <1>3 DEF OurTexts, OurRows, Latest, Outgoing, Committed
  <2>2. chat[i].word # 0
    BY <1>1, <2>1
  <2> QED BY <2>2
<1> QED BY <1>2, <1>3 DEF Ours

\* When nothing foreign is found in what is read, each message of a manager is explained.
LEMMA NothingForeign ==
  ASSUME Inv, Foreign(Window(Len(chat), GuardHistory)) = {},
         NEW i \in Window(Len(chat), GuardHistory), chat[i].hand = "manager"
  PROVE  Explained(i, Len(chat))
<1> DEFINE W == Window(Len(chat), GuardHistory)
           recognised == {j \in W : Ours(j)}
           times == {rows[r].at : r \in OurTexts}
<1>1. chat \in Seq(Entry) /\ rows \in Seq(Row) /\ Len(chat) \in Nat /\ DOMAIN chat = 1..Len(chat)
  BY DEF Inv, Types
<1>2. W \subseteq 1..Len(chat)
  BY DEF Window
<1>3. i > OursSeenAt(W) => Ours(i)
  BY DEF Foreign
<1>4. OursSeenAt(W) = IF recognised # {} THEN Max(recognised)
                      ELSE IF OurTexts # {} THEN Max(times) + OwnBurst ELSE 0
  BY DEF OursSeenAt
<1> HIDE DEF W
<1>5. i \in W /\ i \in 1..Len(chat)
  BY <1>2 DEF W
<1>6. CASE Ours(i)
  BY <1>1, <1>5, <1>6, OursIsKnown DEF Explained
<1>7. CASE ~Ours(i) /\ recognised # {}
  <2>1. recognised \subseteq 0..Len(chat)
    <3>1. recognised \subseteq W
      OBVIOUS
    <3> HIDE DEF recognised
    <3> QED BY <1>1, <1>2, <3>1
  <2>2. Max(recognised) \in recognised
    <3> HIDE DEF recognised
    <3> QED BY <1>1, <1>7, <2>1, Greatest
  <2>3. PICK j \in W : Ours(j) /\ j = Max(recognised)
    BY <2>2
  <2>4. OursSeenAt(W) = j
    BY <1>4, <1>7, <2>3
  <2>5. i # j /\ j \in 1..Len(chat)
    BY <1>2, <1>7, <2>3
  <2>6. j > i
    BY <1>3, <1>5, <1>7, <2>4, <2>5
  <2>7. Recorded(j) \/ chat[j].word # 0 \/ j \in Taken
    BY <1>1, <2>3, <2>5, OursIsKnown
  <2> QED BY <2>6, <2>7 DEF Explained, W
<1>8. CASE ~Ours(i) /\ recognised = {} /\ OurTexts # {}
  <2>1. \A r \in OurTexts : r \in Outgoing /\ rows[r].at \in 0..Len(chat)
    <3> SUFFICES ASSUME NEW r \in OurTexts PROVE r \in Outgoing /\ rows[r].at \in 0..Len(chat)
      OBVIOUS
    <3>1. r \in Outgoing /\ r \in DOMAIN rows /\ rows[r].role = "ai" /\ rows[r] \in Row
      BY OurRowsAre DEF OurTexts, Committed
    <3>2. rows[r].at <= Len(chat) /\ rows[r].at \in Nat
      BY <3>1 DEF Inv, RowsInv, Row
    <3> QED BY <1>1, <3>1, <3>2
  <2>2. times \subseteq 0..Len(chat) /\ times # {}
    BY <1>8, <2>1
  <2>3. Max(times) \in times
    <3> HIDE DEF times
    <3> QED BY <1>1, <2>2, Greatest
  <2>4. PICK r \in OurTexts : Max(times) = rows[r].at
    BY <2>3
  <2>5. ~(i > rows[r].at + OwnBurst)
    BY <1>3, <1>4, <1>8, <2>4
  <2>6. r \in Outgoing /\ rows[r].at \in Nat
    BY <2>1
  <2> QED BY <1>5, <2>5, <2>6, Constants DEF Explained
<1>9. CASE ~Ours(i) /\ recognised = {} /\ OurTexts = {}
  BY <1>3, <1>4, <1>5, <1>9
<1> QED BY <1>6, <1>7, <1>8, <1>9
\* What was explained stays so when chat and rows are left alone.
LEMMA ExplainedSame ==
  ASSUME chat \in Seq(Entry), UNCHANGED <<chat, rows>>, NEW read \in Nat, read <= Len(chat),
         \A i \in Window(read, GuardHistory) : chat[i].hand = "manager" => Explained(i, read)
  PROVE  \A i \in Window(read, GuardHistory)' : chat'[i].hand = "manager" => Explained(i, read)'
<1>1. ChatGrows /\ RowsGrow
  BY DEF ChatGrows, RowsGrow, Committed, Taken
<1>2. Window(read, GuardHistory)' = Window(read, GuardHistory)
  BY DEF Window, FromBot
<1>3. \A i \in Window(read, GuardHistory) : i \in 1..read
  BY DEF Window
<1> QED BY <1>1, <1>2, <1>3, ExplainedStays

\* A turn checks, and goes on to send or to record.
LEMMA TurnChecksInv ==
  ASSUME Inv, Types', UNCHANGED <<chat, rows, lock, greetings>>, NEW e \in Events,
         my[e].step \in {"guard", "record"},
         NEW x \in Local, my' = [my EXCEPT ![e] = x],
         x.step \in {"record", "send"}, x.parts = my[e].parts, x.sent = my[e].sent, ~x.greets,
         x.found \subseteq DOMAIN chat, x.read <= Len(chat),
         x.step = "send" /\ x.found = {} =>
           \A i \in Window(x.read, GuardHistory) : chat[i].hand = "manager" => Explained(i, x.read)
  PROVE  Inv'
<1> DEFINE m == my[e]
<1>1. /\ e \in Procs /\ e # Silent /\ m \in Local /\ OurOwn(m.sent, m.step = "mark") /\ TurnOk(e, m)
      /\ my \in [Procs -> Local] /\ chat \in Seq(Entry) /\ x.read \in Nat
  BY Constants DEF Inv, Procs, ProcOk, Types, Local
<1>2. my'[e] = x
  BY <1>1
<1>3. OurOwn(my[e].sent, my[e].step = "mark")'
  BY <1>1, <1>2 DEF OurOwn, FromUs
<1>4. TurnOk(e, my[e])'
  <2>1. m.step \in TurnSteps /\ m.step \in Speaks /\ x.step \in Speaks
    BY DEF TurnSteps, Speaks
  <2>2. lock' = e /\ x.parts # <<>>
    BY <1>1, <2>1 DEF TurnOk
  <2>3. /\ \A k \in DOMAIN x.parts : Unnamed(x.parts[k].row)' /\ ~rows'[x.parts[k].row].open
        /\ \A k, l \in DOMAIN x.parts : x.parts[k].row = x.parts[l].row => k = l
    BY <1>1 DEF TurnOk, Unnamed
  <2>4. x.step \in {"send", "mark"} /\ x.found = {} =>
          \A i \in Window(x.read, GuardHistory)' : chat'[i].hand = "manager" => Explained(i, x.read)'
    BY <1>1, ExplainedSame
  <2> HIDE DEF m
  <2>5. TurnOk(e, x)'
    BY <2>1, <2>2, <2>3, <2>4 DEF TurnOk
  <2> QED BY <1>2, <2>5
<1>5. ProcOk(e, my[e])'
  BY <1>1, <1>2, <1>3, <1>4 DEF ProcOk
<1> QED BY <1>1, <1>5, MoveInv

\* The guard of a turn, and a record that clashes.
LEMMA TurnGuardInv ==
  ASSUME Inv, NEW e \in Events, Guard(e) \/ RecordClashes(e)
  PROVE  Inv'
<1> USE DEF database, counts
<1> DEFINE m == my[e]
           found == Foreign(Window(Len(chat), GuardHistory))
           on == [m EXCEPT !.saw = FALSE, !.step = "send"]
           heard == [m EXCEPT !.saw = paused, !.read = Len(chat)]
           calm == [heard EXCEPT !.saw = FALSE, !.step = "send"]
           records == [heard EXCEPT !.found = found, !.step = "record"]
<1>1. /\ e \in Procs /\ e # Silent /\ e # Watch /\ m \in Local /\ TurnOk(e, m)
      /\ my \in [Procs -> Local] /\ chat \in Seq(Entry) /\ Len(chat) \in Nat
      /\ m.found \subseteq DOMAIN chat /\ m.read <= Len(chat)
      /\ m.step = "guard" => m.read = 0 /\ m.found = {}
      /\ paused \in BOOLEAN
  BY Constants DEF Inv, Procs, ProcOk, Types
<1>2. UNCHANGED <<chat, rows, known, paused, blocked, stage, chatId, lock, counts>>
  BY DEF Guard, RecordClashes
<1>3. Types'
  BY <1>2 DEF Inv, Types
<1>4. m.step \in {"guard", "record"}
  BY DEF Guard, RecordClashes
<1>5. ~m.greets
  BY <1>1, <1>4 DEF TurnOk
<1>6. found \subseteq DOMAIN chat /\ found \subseteq Nat
  BY <1>1 DEF Foreign, Window
<1> HIDE DEF found
<1>7. /\ on \in Local /\ on.step = "send" /\ on.parts = m.parts /\ on.sent = m.sent /\ ~on.greets
      /\ on.found = m.found /\ on.read = m.read
  BY <1>1, <1>5 DEF Local, Steps
<1>8. heard \in Local /\ heard.parts = m.parts /\ heard.sent = m.sent /\ ~heard.greets
      /\ heard.found = m.found /\ heard.read = Len(chat)
  BY <1>1, <1>5 DEF Local
<1> HIDE DEF heard
<1>9. /\ calm \in Local /\ calm.step = "send" /\ calm.parts = m.parts /\ calm.sent = m.sent
      /\ ~calm.greets /\ calm.found = m.found /\ calm.read = Len(chat)
  BY <1>8 DEF Local, Steps
<1>10. /\ records \in Local /\ records.step = "record" /\ records.parts = m.parts
       /\ records.sent = m.sent /\ ~records.greets /\ records.found = found /\ records.read = Len(chat)
  BY <1>6, <1>8 DEF Local, Steps
<1>11. \/ my' = [my EXCEPT ![e] = on]
       \/ /\ m.step = "guard" /\ found = {}
          /\ my' = [my EXCEPT ![e] = calm]
       \/ /\ m.step = "guard"
          /\ my' = [my EXCEPT ![e] = records]
  <2>1. CASE RecordClashes(e)
    BY <1>1, <2>1 DEF RecordClashes, GoOn
  <2>2. CASE Guard(e) /\ GoOn(e, m)
    BY <1>1, <2>2 DEF GoOn
  <2>3. CASE Guard(e) /\ Found(e, found, heard)
    BY <1>1, <2>3 DEF Guard, Found, GoOn
  <2> QED BY <2>1, <2>2, <2>3 DEF Guard, found, heard
<1>12. \A i \in Window(0, GuardHistory) : FALSE
  BY DEF Window
<1>13. m.step = "record" /\ m.found = {} => ~RecordClashes(e)
  BY DEF RecordClashes, Clash
<1> HIDE DEF on, calm, records
<1>14. CASE my' = [my EXCEPT ![e] = on]
  <2>1. on.step = "send" /\ on.found = {} => on.read = 0
    BY <1>1, <1>7, <1>13 DEF Guard, RecordClashes
  <2>2. on.step = "send" /\ on.found = {} =>
           \A i \in Window(on.read, GuardHistory) : chat[i].hand = "manager" => Explained(i, on.read)
    BY <1>12, <2>1
  <2> QED BY <1>1, <1>2, <1>3, <1>4, <1>7, <1>14, <2>2, TurnChecksInv
<1>15. CASE found = {} /\ my' = [my EXCEPT ![e] = calm]
  <2>1. \A i \in Window(calm.read, GuardHistory) : chat[i].hand = "manager" => Explained(i, calm.read)
    BY <1>9, <1>15, NothingForeign DEF found
  <2>2. calm.found \subseteq DOMAIN chat /\ calm.read <= Len(chat)
    BY <1>1, <1>9
  <2> QED BY <1>2, <1>3, <1>4, <1>9, <1>15, <2>1, <2>2, TurnChecksInv
<1>16. CASE my' = [my EXCEPT ![e] = records]
  <2>1. records.found \subseteq DOMAIN chat /\ records.read <= Len(chat) /\ records.step # "send"
    BY <1>1, <1>6, <1>10
  <2> QED BY <1>2, <1>3, <1>4, <1>10, <1>16, <2>1, TurnChecksInv
<1> QED BY <1>11, <1>14, <1>15, <1>16

\* The silent greeting moves without touching anything.
LEMMA SilentMovesInv ==
  ASSUME Inv, Guard(Silent) \/ RecordClashes(Silent) \/ SilentBegins \/ SilentChecks
  PROVE  Inv'
<1> USE DEF database, counts
<1> DEFINE m == my[Silent]
           found == Foreign(Window(Len(chat), GuardHistory))
           heard == [m EXCEPT !.saw = paused, !.read = Len(chat)]
<1>1. /\ Silent \in Procs /\ Silent \notin Events /\ Silent # Watch
      /\ m \in Local /\ my \in [Procs -> Local] /\ chat \in Seq(Entry) /\ Len(chat) \in Nat
      /\ OurOwn(m.sent, m.step = "mark") /\ SilentOk(m) /\ paused \in BOOLEAN
      /\ m.step \notin {"record", "send", "mark"} => m.read = 0 /\ m.found = {} /\ m.sent = {}
  BY Constants DEF Inv, Procs, ProcOk, Types
<1>2. UNCHANGED <<chat, rows, known, paused, blocked, stage, chatId, lock, greetings>>
  BY DEF Guard, RecordClashes, SilentBegins, SilentChecks
<1>3. Types'
  <2>1. happenings' \in 0..MaxHappenings
    BY Constants DEF Guard, RecordClashes, SilentBegins, SilentChecks, Happens, Inv, Types
  <2> QED BY <1>2, <2>1 DEF Inv, Types
<1>4. ASSUME NEW x \in Local, my' = [my EXCEPT ![Silent] = x], x.parts = <<>>, x.sent = {},
             x.step \in {"idle", "picked", "guard", "compose", "record"},
             x.found \subseteq DOMAIN chat, x.read <= Len(chat),
             x.step # "record" => x.read = 0 /\ x.found = {}
      PROVE  Inv'
  <2>1. my'[Silent] = x
    BY <1>1, <1>4
  <2>2. ProcOk(Silent, my[Silent])'
    BY <1>1, <1>2, <1>4, <2>1 DEF ProcOk, SilentOk, OurOwn
  <2> QED BY <1>1, <1>2, <1>3, <1>4, <2>2, MoveInv
<1>5. ASSUME NEW step \in {"idle", "guard", "compose"},
             my' = [my EXCEPT ![Silent] = [Idle EXCEPT !.step = step]]
      PROVE  Inv'
  <2> DEFINE x == [Idle EXCEPT !.step = step]
  <2>1. /\ x \in Local /\ x.step = step /\ x.parts = <<>> /\ x.sent = {} /\ x.found = {} /\ x.read = 0
    BY IdleType DEF Local, Steps
  <2> HIDE DEF x
  <2>2. x.found \subseteq DOMAIN chat /\ x.read <= Len(chat) /\ my' = [my EXCEPT ![Silent] = x]
    BY <1>1, <1>5, <2>1 DEF x
  <2> QED BY <1>4, <2>1, <2>2
<1>6. CASE SilentBegins
  <2> DEFINE x == [m EXCEPT !.step = "picked"]
  <2>1. m.step = "idle" /\ my' = [my EXCEPT ![Silent] = x]
    BY <1>1, <1>6 DEF SilentBegins, Go
  <2>2. m.parts = <<>> /\ m.sent = {} /\ m.found = {} /\ m.read = 0
    BY <1>1, <2>1 DEF SilentOk
  <2>3. /\ x \in Local /\ x.step = "picked" /\ x.parts = <<>> /\ x.sent = {} /\ x.found = {}
        /\ x.read = 0
    BY <1>1, <2>2 DEF Local, Steps
  <2> HIDE DEF x
  <2>4. x.found \subseteq DOMAIN chat /\ x.read <= Len(chat)
    BY <1>1, <2>3
  <2> QED BY <1>4, <2>1, <2>3, <2>4
<1>7. CASE SilentChecks
  <2>1. \E step \in {"idle", "guard", "compose"} :
           my' = [my EXCEPT ![Silent] = [Idle EXCEPT !.step = step]]
    BY <1>7 DEF SilentChecks
  <2> QED BY <1>5, <2>1
<1>8. CASE GoOn(Silent, m) \/ GoOn(Silent, heard)
  <2>1. my' = [my EXCEPT ![Silent] = [Idle EXCEPT !.step = "compose"]]
    BY <1>1, <1>8 DEF GoOn
  <2> QED BY <1>5, <2>1
<1>9. CASE Guard(Silent) /\ Found(Silent, found, heard) /\ ~GoOn(Silent, heard)
  <2> DEFINE x == [heard EXCEPT !.found = found, !.step = "record"]
  <2>1. m.step = "guard" /\ my' = [my EXCEPT ![Silent] = x]
    BY <1>9 DEF Guard, Found
  <2>2. m.parts = <<>> /\ m.sent = {} /\ m.found = {} /\ m.read = 0
    BY <1>1, <2>1 DEF SilentOk
  <2>3. found \subseteq DOMAIN chat /\ found \subseteq Nat
    BY <1>1 DEF Foreign, Window
  <2> HIDE DEF found
  <2>4. heard \in Local /\ heard.parts = <<>> /\ heard.sent = {} /\ heard.read = Len(chat)
    BY <1>1, <2>2 DEF Local
  <2> HIDE DEF heard
  <2>5. /\ x \in Local /\ x.step = "record" /\ x.parts = <<>> /\ x.sent = {} /\ x.found = found
        /\ x.read = Len(chat)
    BY <2>3, <2>4 DEF Local, Steps
  <2> HIDE DEF x
  <2>6. x.found \subseteq DOMAIN chat /\ x.read <= Len(chat)
    BY <1>1, <2>3, <2>5
  <2> QED BY <1>4, <2>1, <2>5, <2>6
<1>10. \/ SilentBegins \/ SilentChecks \/ GoOn(Silent, m) \/ GoOn(Silent, heard)
       \/ Guard(Silent) /\ Found(Silent, found, heard) /\ ~GoOn(Silent, heard)
  BY DEF Guard, RecordClashes
<1> QED BY <1>6, <1>7, <1>8, <1>9, <1>10
\* What a guard has read stays explained.
LEMMA ExplainedGrows ==
  ASSUME chat \in Seq(Entry), ChatGrows, RowsGrow, NEW read \in Nat, read <= Len(chat),
         \A i \in Window(read, GuardHistory) : chat[i].hand = "manager" => Explained(i, read)
  PROVE  \A i \in Window(read, GuardHistory)' : chat'[i].hand = "manager" => Explained(i, read)'
<1>1. \A i \in 1..read : i \in DOMAIN chat /\ chat'[i] = chat[i]
  BY DEF ChatGrows
<1>2. Window(read, GuardHistory)' = Window(read, GuardHistory)
  BY <1>1 DEF Window, FromBot
<1>3. \A i \in Window(read, GuardHistory) : i \in 1..read
  BY DEF Window
<1> QED BY <1>1, <1>2, <1>3, ExplainedStays

\* A piece more has been sent: it is one of ours.
LEMMA PieceIsOurs ==
  ASSUME Inv, NEW mids, mids \subseteq DOMAIN chat, OurOwn(mids, FALSE), NEW complete \in BOOLEAN,
         NEW entry \in Entry, chat' = Append(chat, entry), entry.hand \in {"turn", "silent"},
         entry.word # 0 \/ complete, NEW all, all \in {mids, mids \cup {Len(chat) + 1}}
  PROVE  OurOwn(all, complete)'
<1>1. chat \in Seq(Entry) /\ Len(chat) \in Nat
  BY DEF Inv, Types
<1>2. /\ DOMAIN chat = 1..Len(chat) /\ DOMAIN chat' = 1..(Len(chat) + 1)
      /\ \A j \in DOMAIN chat : chat'[j] = chat[j]
      /\ chat'[Len(chat) + 1] = entry
  BY <1>1
<1>3. ASSUME NEW j \in all
      PROVE  /\ j \in DOMAIN chat' /\ chat'[j].hand \in {"turn", "silent"}
             /\ chat'[j].word # 0 \/ (complete /\ \A i \in all : i <= j)
  <2>1. CASE j \in mids
    BY <1>1, <1>2, <2>1 DEF OurOwn, FromUs
  <2>2. CASE j = Len(chat) + 1
    <3>1. \A i \in all : i <= j
      BY <1>1, <1>2, <2>2
    <3> QED BY <1>1, <1>2, <2>2, <3>1
  <2> QED BY <1>3, <2>1, <2>2
<1> QED BY <1>3 DEF OurOwn, FromUs

\* MAX takes a piece.
LEMMA MaxTakesInv ==
  ASSUME Inv, NEW p \in Events \cup {Silent}, MaxTakes(p)
  PROVE  Inv'
<1> USE DEF database, counts
<1> DEFINE m == my[p]
           part == Head(m.parts)
           last == LastPiece(part)
           entry == [hand |-> IF p = Silent THEN "silent" ELSE "turn", word |-> Word(part)]
<1>1. /\ p \in Procs /\ p # Watch /\ (p = Silent => p \notin Events)
      /\ m \in Local /\ my \in [Procs -> Local] /\ chat \in Seq(Entry) /\ rows \in Seq(Row)
      /\ Len(chat) \in Nat /\ m.read \in Nat /\ m.step = "send"
      /\ OurOwn(m.sent, FALSE) /\ m.found \subseteq DOMAIN chat /\ m.read <= Len(chat)
      /\ (p \in Events => TurnOk(p, m)) /\ (p = Silent => SilentOk(m))
  <2>1. p \in Procs /\ p # Watch /\ (p = Silent => p \notin Events)
    BY Constants DEF Procs
  <2>2. ProcOk(p, m) /\ m.step = "send" /\ my \in [Procs -> Local] /\ chat \in Seq(Entry) /\ rows \in Seq(Row)
    BY <2>1 DEF Inv, Types, MaxTakes
  <2>3. OurOwn(m.sent, FALSE)
    BY <2>2 DEF ProcOk
  <2> HIDE DEF m
  <2>4. /\ m \in Local /\ m.found \subseteq DOMAIN chat /\ m.read <= Len(chat)
        /\ (p \in Events => TurnOk(p, m)) /\ (p = Silent => SilentOk(m))
    BY <2>2 DEF ProcOk
  <2>5. Len(chat) \in Nat /\ m.read \in Nat
    BY <2>2, <2>4 DEF Local
  <2> QED BY <2>1, <2>2, <2>3, <2>4, <2>5 DEF m
<1>2. m.parts \in Seq(Part) /\ m.parts # <<>>
  BY <1>1 DEF Local, TurnOk, SilentOk, Speaks
<1>3. /\ 1 \in DOMAIN m.parts /\ part = m.parts[1] /\ part \in Part
      /\ DOMAIN m.parts = 1..Len(m.parts) /\ Len(m.parts) \in Nat
  BY <1>2
<1>4. part.row \in DOMAIN rows /\ part.row \in Nat \ {0}
  BY <1>1, <1>3 DEF TurnOk, SilentOk, Unnamed
<1>5. last \in BOOLEAN /\ (IF last THEN 1 ELSE part.pieces - 1) = 1
  BY <1>3 DEF LastPiece, Part
<1>6. entry \in Entry /\ entry.hand \in {"turn", "silent"} /\ (entry.word # 0 \/ last)
  BY <1>4, <1>5 DEF Entry, Word
<1>7. PICK named \in {TRUE, last} :
        my' = [my EXCEPT ![p].sent = IF named THEN @ \cup {Len(chat) + 1} ELSE @,
                         ![p].parts[1].pieces = IF last THEN 1 ELSE @ - 1,
                         ![p].step = IF last THEN "mark" ELSE "send"]
  BY DEF MaxTakes
<1>8. /\ chat' = Append(chat, entry)
      /\ UNCHANGED <<rows, known, paused, blocked, stage, chatId, lock, counts>>
  BY DEF MaxTakes
<1> DEFINE sent == IF named THEN m.sent \cup {Len(chat) + 1} ELSE m.sent
           step == IF last THEN "mark" ELSE "send"
           piece == [part EXCEPT !.pieces = 1]
           parts == [m.parts EXCEPT ![1] = piece]
           x == [m EXCEPT !.sent = sent, !.parts = parts, !.step = step]
<1>9. my' = [my EXCEPT ![p] = x]
  <2>1. [m.parts[1] EXCEPT !.pieces = IF last THEN 1 ELSE @ - 1] = piece
    BY <1>3, <1>5
  <2>2. [m.parts EXCEPT ![1].pieces = IF last THEN 1 ELSE @ - 1] = parts
    BY <1>3, <2>1
  <2> DEFINE y == [m EXCEPT !.sent = IF named THEN @ \cup {Len(chat) + 1} ELSE @,
                             !.parts[1].pieces = IF last THEN 1 ELSE @ - 1,
                             !.step = IF last THEN "mark" ELSE "send"]
  <2>3. y = x
    <3> HIDE DEF last, parts
    <3> QED BY <1>1, <2>2 DEF Local
  <2>4. my' = [my EXCEPT ![p] = y]
    <3> HIDE DEF last
    <3> QED BY <1>1, <1>7
  <2> QED BY <2>3, <2>4
<1> HIDE DEF last, entry
<1>10. piece \in Part /\ piece.row = part.row /\ piece.pieces = 1 /\ piece.picture = part.picture
  BY <1>3 DEF Part
<1> HIDE DEF piece, part
<1>11. /\ parts \in Seq(Part) /\ DOMAIN parts = DOMAIN m.parts /\ parts # <<>>
       /\ \A k \in DOMAIN parts : parts[k].row = m.parts[k].row
       /\ \A k \in DOMAIN parts : k # 1 => parts[k] = m.parts[k]
       /\ parts[1] = piece
  BY <1>2, <1>3, <1>10
<1> HIDE DEF parts
<1>12. sent \in SUBSET Nat /\ m.sent \in SUBSET Nat /\ m.sent \subseteq DOMAIN chat
  BY <1>1 DEF Local, OurOwn
<1>13. /\ x \in Local /\ x.sent = sent /\ x.parts = parts /\ x.step = step /\ x.step \in {"send", "mark"}
       /\ x.found = m.found /\ x.read = m.read /\ x.greets = m.greets
  <2> HIDE DEF sent
  <2> QED BY <1>1, <1>11, <1>12 DEF Local, Steps
<1>14. \E y \in Local :
         /\ my' = [my EXCEPT ![p] = y]
         /\ y.sent \in {m.sent, m.sent \cup {Len(chat) + 1}}
         /\ y.step \in {"send", "mark"} /\ (y.step = "mark" <=> last)
         /\ y.found = m.found /\ y.read = m.read /\ y.greets = m.greets
         /\ DOMAIN y.parts = DOMAIN m.parts /\ y.parts # <<>>
         /\ \A k \in DOMAIN y.parts : y.parts[k].row = m.parts[k].row
         /\ \A k \in DOMAIN y.parts : k # 1 => y.parts[k] = m.parts[k]
         /\ y.parts[1].pieces = 1 /\ y.parts[1].picture = m.parts[1].picture
  <2>1. sent \in {m.sent, m.sent \cup {Len(chat) + 1}} /\ step \in {"send", "mark"}
        /\ (step = "mark" <=> last)
    BY <1>5
  <2>2. piece.pieces = 1 /\ piece.picture = m.parts[1].picture
    BY <1>3, <1>10
  <2> HIDE DEF sent, step, x
  <2> QED BY <1>9, <1>11, <1>13, <2>1, <2>2
<1> HIDE DEF x, step, sent
<1>15. /\ chat' \in Seq(Entry) /\ ChatGrows /\ RowsGrow /\ RowsInv' /\ Len(chat) <= Len(chat')
  BY <1>6, <1>8, ChatAppended DEF Inv
<1>16. Types'
  BY <1>8, <1>15 DEF Inv, Types
<1>17. PICK y \in Local :
         /\ my' = [my EXCEPT ![p] = y]
         /\ y.sent \in {m.sent, m.sent \cup {Len(chat) + 1}}
         /\ y.step \in {"send", "mark"} /\ (y.step = "mark" <=> last)
         /\ y.found = m.found /\ y.read = m.read /\ y.greets = m.greets
         /\ DOMAIN y.parts = DOMAIN m.parts /\ y.parts # <<>>
         /\ \A k \in DOMAIN y.parts : y.parts[k].row = m.parts[k].row
         /\ \A k \in DOMAIN y.parts : k # 1 => y.parts[k] = m.parts[k]
         /\ y.parts[1].pieces = 1 /\ y.parts[1].picture = m.parts[1].picture
  BY <1>14
<1>18. my'[p] = y
  BY <1>1, <1>17
<1>19. OurOwn(my[p].sent, my[p].step = "mark")'
  <2>1. OurOwn(y.sent, y.step = "mark")'
    <3> DEFINE complete == y.step = "mark"
    <3>1. complete \in BOOLEAN /\ (entry.word # 0 \/ complete)
      BY <1>6, <1>17
    <3> HIDE DEF complete
    <3>2. OurOwn(y.sent, complete)'
      BY <1>1, <1>6, <1>8, <1>12, <1>17, <3>1, PieceIsOurs
    <3> QED BY <3>2 DEF complete
  <2> QED BY <1>18, <2>1
<1>20. ASSUME p \in Events PROVE TurnOk(p, my[p])'
  <2>1. TurnOk(p, m) /\ y.step \in TurnSteps /\ y.step \in Speaks /\ m.step \in TurnSteps
    BY <1>1, <1>17, <1>20 DEF TurnSteps, Speaks
  <2>2. lock' = p /\ ~y.greets
    BY <1>1, <1>8, <1>17, <2>1 DEF TurnOk
  <2>3. \A k \in DOMAIN y.parts : LET r == y.parts[k].row
                                 IN  /\ r \in DOMAIN rows' /\ rows'[r].role = "ai"
                                     /\ rows'[r].mids = {} /\ ~rows'[r].open
    BY <1>8, <1>17, <2>1 DEF TurnOk, Unnamed
  <2>4. \A k, l \in DOMAIN y.parts : y.parts[k].row = y.parts[l].row => k = l
    BY <1>17, <2>1 DEF TurnOk
  <2>5. y.found = {} =>
          \A i \in Window(y.read, GuardHistory) : chat[i].hand = "manager" => Explained(i, y.read)
    BY <1>1, <1>17, <2>1 DEF TurnOk
  <2>6. y.found = {} =>
          \A i \in Window(y.read, GuardHistory)' : chat'[i].hand = "manager" => Explained(i, y.read)'
    BY <1>1, <1>15, <1>17, <2>5, ExplainedGrows
  <2>7. TurnOk(p, y)'
    BY <1>17, <2>1, <2>2, <2>3, <2>4, <2>6 DEF TurnOk, Unnamed
  <2> QED BY <1>18, <2>7
<1>21. ASSUME p = Silent PROVE SilentOk(my[p])'
  <2>1. SilentOk(m)
    BY <1>1, <1>21
  <2>2. \A k \in DOMAIN y.parts : LET r == y.parts[k].row
                                 IN  /\ r \in DOMAIN rows' /\ rows'[r].role = "ai"
                                     /\ rows'[r].mids = {} /\ rows'[r].open
    BY <1>8, <1>17, <2>1 DEF SilentOk, Unnamed
  <2>3. \A k \in DOMAIN y.parts : y.parts[k].pieces = 1 /\ ~y.parts[k].picture
    BY <1>3, <1>17, <2>1 DEF SilentOk
  <2>4. SilentOk(y)'
    BY <1>17, <2>2, <2>3 DEF SilentOk, Unnamed
  <2> QED BY <1>18, <2>4
<1>22. ProcOk(p, my[p])'
  <2>1. my'[p].found \subseteq DOMAIN chat' /\ my'[p].read <= Len(chat') /\ my'[p] \in Local
    <3>1. Len(chat') \in Nat
      BY <1>15
    <3> QED BY <1>1, <1>15, <1>17, <1>18, <3>1 DEF ChatGrows
  <2> QED BY <1>17, <1>18, <1>19, <1>20, <1>21, <2>1 DEF ProcOk
<1>23. GreetInv' /\ lock' = lock /\ greetings' = greetings
  BY <1>8, <1>15, GreetingsKept DEF Inv
<1> QED BY <1>1, <1>8, <1>15, <1>16, <1>17, <1>22, <1>23, StepInv
\* The parts of the others are not of a row that is named now, nor of one rolled back.
LEMMA OthersKeepRows ==
  ASSUME Inv, NEW p \in Procs, p = Silent \/ (p \in Events /\ lock = p),
         \A r \in DOMAIN rows :
           (IF p = Silent THEN ~rows[r].open ELSE rows[r].open) => r \in DOMAIN rows' /\ rows'[r] = rows[r]
  PROVE  \A q \in Procs \ {p, Watch} : \A k \in DOMAIN my[q].parts :
           LET r == my[q].parts[k].row IN r \in DOMAIN rows => r \in DOMAIN rows' /\ rows'[r] = rows[r]
<1> SUFFICES ASSUME NEW q \in Procs, q # p, q # Watch, NEW k \in DOMAIN my[q].parts,
                    my[q].parts[k].row \in DOMAIN rows
             PROVE  LET r == my[q].parts[k].row IN r \in DOMAIN rows' /\ rows'[r] = rows[r]
  OBVIOUS
<1>1. (q \in Events => TurnOk(q, my[q])) /\ (q = Silent => SilentOk(my[q]))
  BY DEF Inv, ProcOk
<1>2. CASE q = Silent
  BY <1>1, <1>2, Constants DEF SilentOk
<1>3. CASE q \in Events /\ p = Silent
  BY <1>1, <1>3 DEF TurnOk
<1>4. CASE q \in Events /\ p # Silent
  BY <1>4, LocksExclude
<1> QED BY <1>2, <1>3, <1>4 DEF Procs

\* The marks of a turn: the row of the part gets the mids of its pieces, if nobody has
\* them.
LEMMA MarkInv ==
  ASSUME Inv, NEW e \in Events, MarkDelivered(e)
  PROVE  Inv'
<1> USE DEF database, counts
<1> DEFINE m == my[e]
           row == Head(m.parts).row
<1>1. /\ e \in Procs /\ e # Silent /\ e # Watch /\ m \in Local /\ TurnOk(e, m) /\ m.step = "mark"
      /\ my \in [Procs -> Local] /\ chat \in Seq(Entry) /\ rows \in Seq(Row)
      /\ OurOwn(m.sent, TRUE) /\ m.found \subseteq DOMAIN chat /\ m.read <= Len(chat)
  <2>1. e \in Procs /\ e # Silent /\ e # Watch
    BY Constants DEF Procs
  <2>2. ProcOk(e, m) /\ m.step = "mark" /\ my \in [Procs -> Local] /\ chat \in Seq(Entry) /\ rows \in Seq(Row)
    BY <2>1 DEF Inv, Types, MarkDelivered
  <2>3. OurOwn(m.sent, TRUE)
    BY <2>2 DEF ProcOk
  <2>4. m \in Local /\ TurnOk(e, m) /\ m.found \subseteq DOMAIN chat /\ m.read <= Len(chat)
    BY <2>2 DEF ProcOk
  <2> QED BY <2>1, <2>2, <2>3, <2>4
<1>2. /\ m.parts \in Seq(Part) /\ m.parts # <<>> /\ lock = e /\ ~m.greets
      /\ Len(chat) \in Nat /\ m.read \in Nat /\ m.sent \in SUBSET Nat
  BY <1>1 DEF TurnOk, TurnSteps, Speaks, Local
<1>3. /\ 1 \in DOMAIN m.parts /\ row = m.parts[1].row /\ DOMAIN m.parts = 1..Len(m.parts)
      /\ Len(m.parts) \in Nat
  BY <1>2
<1>4. row \in DOMAIN rows /\ Unnamed(row) /\ ~rows[row].open /\ rows[row] \in Row
  BY <1>1, <1>3 DEF TurnOk, Unnamed
<1>5. \/ rows' = rows
      \/ rows' = [rows EXCEPT ![row].mids = m.sent]
  BY DEF MarkDelivered
<1>6. UNCHANGED <<chat, known, paused, blocked, stage, counts>>
  BY DEF MarkDelivered
<1> HIDE DEF row
<1>7. /\ rows' \in Seq(Row) /\ ChatGrows /\ RowsGrow /\ RowsInv'
      /\ \A q \in DOMAIN rows \ {row} : q \in DOMAIN rows' /\ rows'[q] = rows[q]
  <2>1. CASE rows' = rows
    <3>1. RowsInv'
      BY <1>6, <2>1 DEF Inv, RowsInv, Committed, OurOwn, FromUs
    <3> QED BY <1>1, <1>6, <2>1, <3>1 DEF ChatGrows, RowsGrow, Committed, Taken
  <2>2. CASE rows' = [rows EXCEPT ![row].mids = m.sent]
    <3>1. [rows[row] EXCEPT !.mids = m.sent] = [rows[row] EXCEPT !.open = FALSE, !.mids = m.sent]
      BY <1>2, <1>4 DEF Row
    <3>2. rows' = [rows EXCEPT ![row] = [@ EXCEPT !.open = FALSE, !.mids = m.sent]]
      BY <1>1, <1>4, <2>2, <3>1
    <3> HIDE DEF m
    <3> QED BY <1>1, <1>2, <1>4, <1>6, <3>2, RowNamed DEF Inv
  <2> QED BY <1>5, <2>1, <2>2
<1>8. lock' \in {lock, Watch} /\ chatId' \in BOOLEAN
  BY DEF MarkDelivered, EndTurn, ChatIdAfter, Inv, Types
<1>9. Types'
  BY <1>6, <1>7, <1>8 DEF Inv, Types
<1>10. GreetInv' /\ greetings' = greetings
  BY <1>6, <1>7, GreetingsKept DEF Inv
<1>11. \A q \in Procs \ {e, Watch} : \A k \in DOMAIN my[q].parts :
          LET r == my[q].parts[k].row IN r \in DOMAIN rows => r \in DOMAIN rows' /\ rows'[r] = rows[r]
  <2>1. \A r \in DOMAIN rows : rows[r].open => r \in DOMAIN rows' /\ rows'[r] = rows[r]
    BY <1>4, <1>7
  <2> QED BY <1>1, <1>2, <2>1, OthersKeepRows
<1>12. \A q \in Events \ {e} : my[q].step \notin TurnSteps
  BY <1>2, LocksExclude
<1>13. CASE Len(m.parts) = 1
  <2>1. my' = [my EXCEPT ![e] = [Idle EXCEPT !.step = "done"]]
    BY <1>13 DEF MarkDelivered, EndTurn, End
  <2>2. ProcOk(e, my[e])'
    <3>1. my'[e] = [Idle EXCEPT !.step = "done"] /\ chat' \in Seq(Entry)
      BY <1>1, <1>6, <2>1
    <3> QED BY <1>1, <3>1, EndType, QuietOk DEF Speaks, TurnSteps
  <2> QED BY <1>1, <1>7, <1>9, <1>10, <1>11, <1>12, <2>1, <2>2, StepInv
<1>14. CASE Len(m.parts) # 1
  <2> DEFINE parts == Tail(m.parts)
             x == [m EXCEPT !.parts = parts, !.sent = {}, !.step = "send"]
  <2>1. my' = [my EXCEPT ![e] = x] /\ lock' = e
    BY <1>1, <1>2, <1>14 DEF MarkDelivered
  <2>2. /\ parts \in Seq(Part) /\ parts # <<>> /\ DOMAIN parts = 1..(Len(m.parts) - 1)
        /\ \A k \in DOMAIN parts : k + 1 \in DOMAIN m.parts /\ parts[k] = m.parts[k + 1]
    <3>1. parts \in Seq(Part) /\ DOMAIN parts = 1..(Len(m.parts) - 1)
      BY <1>2, <1>3
    <3>2. \A k \in DOMAIN parts : k + 1 \in DOMAIN m.parts /\ parts[k] = m.parts[k + 1]
      BY <1>2, <1>3, <3>1
    <3> HIDE DEF m, parts
    <3>3. Len(m.parts) > 1
      <4>1. Len(m.parts) \in Nat /\ 1 \in 1..Len(m.parts)
        BY <1>3
      <4>2. Len(m.parts) # 1
        BY <1>14 DEF m
      <4>3. \A n \in Nat : 1 \in 1..n /\ n # 1 => n > 1
        OBVIOUS
      <4> QED BY Zenon, <4>1, <4>2, <4>3
    <3>4. 1 \in DOMAIN parts
      BY <1>3, <3>1, <3>3
    <3> QED BY <3>1, <3>2, <3>4
  <2> HIDE DEF parts
  <2>3. /\ x \in Local /\ x.parts = parts /\ x.sent = {} /\ x.step = "send"
        /\ x.found = m.found /\ x.read = m.read /\ ~x.greets
    BY <1>1, <1>2, <2>2 DEF Local, Steps
  <2> HIDE DEF x
  <2>4. PICK y \in Local :
          /\ my' = [my EXCEPT ![e] = y] /\ y.parts # <<>> /\ y.sent = {} /\ y.step = "send"
          /\ DOMAIN y.parts = 1..(Len(m.parts) - 1)
          /\ \A k \in DOMAIN y.parts : k + 1 \in DOMAIN m.parts /\ y.parts[k] = m.parts[k + 1]
          /\ y.found = m.found /\ y.read = m.read /\ ~y.greets
    BY <2>1, <2>2, <2>3
  <2>5. my'[e] = y
    BY <1>1, <2>4
  <2>6. \A k \in DOMAIN y.parts : LET r == y.parts[k].row
                                 IN  /\ r \in DOMAIN rows' /\ rows'[r].role = "ai"
                                     /\ rows'[r].mids = {} /\ ~rows'[r].open
    <3> SUFFICES ASSUME NEW k \in DOMAIN y.parts
                 PROVE  LET r == y.parts[k].row
                        IN  /\ r \in DOMAIN rows' /\ rows'[r].role = "ai"
                            /\ rows'[r].mids = {} /\ ~rows'[r].open
      OBVIOUS
    <3>1. k + 1 \in DOMAIN m.parts /\ y.parts[k] = m.parts[k + 1] /\ k + 1 # 1
      BY <1>3, <2>4
    <3>2. m.parts[k + 1].row # row
      BY <1>1, <1>3, <3>1 DEF TurnOk
    <3> QED BY <1>1, <1>7, <3>1, <3>2 DEF TurnOk, Unnamed
  <2>7. \A k, l \in DOMAIN y.parts : y.parts[k].row = y.parts[l].row => k = l
    <3> SUFFICES ASSUME NEW k \in DOMAIN y.parts, NEW l \in DOMAIN y.parts,
                        y.parts[k].row = y.parts[l].row
                 PROVE  k = l
      OBVIOUS
    <3>1. k + 1 = l + 1
      BY <1>1, <2>4 DEF TurnOk
    <3>2. k \in Nat /\ l \in Nat
      BY <1>3, <2>4
    <3> QED BY <3>1, <3>2
  <2>8. y.found = {} =>
          \A i \in Window(y.read, GuardHistory)' : chat'[i].hand = "manager" => Explained(i, y.read)'
    <3>1. y.found = {} =>
            \A i \in Window(y.read, GuardHistory) : chat[i].hand = "manager" => Explained(i, y.read)
      BY <1>1, <2>4 DEF TurnOk
    <3> QED BY <1>1, <1>2, <1>7, <2>4, <3>1, ExplainedGrows
  <2>9. TurnOk(e, y)'
    BY <2>1, <2>4, <2>6, <2>7, <2>8 DEF TurnOk, Unnamed, TurnSteps, Speaks
  <2>10. ProcOk(e, my[e])'
    BY <1>1, <1>6, <2>4, <2>5, <2>9 DEF ProcOk, OurOwn
  <2> QED BY <1>1, <1>7, <1>9, <1>10, <1>11, <1>12, <2>4, <2>10, StepInv
<1> QED BY <1>13, <1>14

\* The silent greeting commits, or is rolled back.
LEMMA SilentEndsInv ==
  ASSUME Inv, SilentCommits \/ SilentFails
  PROVE  Inv'
<1> USE DEF database, counts
<1> DEFINE m == my[Silent]
           row == Head(m.parts).row
<1>1. /\ Silent \in Procs /\ Silent \notin Events /\ Silent # Watch
      /\ my \in [Procs -> Local] /\ chat \in Seq(Entry) /\ rows \in Seq(Row)
  BY Constants DEF Inv, Procs, Types
<1>2. /\ UNCHANGED <<chat, known, paused, blocked, chatId, lock, counts>>
      /\ my' = [my EXCEPT ![Silent] = Idle] /\ stage' \in {stage, "pricing"}
  BY DEF SilentCommits, SilentFails
<1>3. ProcOk(Silent, my[Silent])'
  <2>1. my'[Silent] = Idle /\ chat' \in Seq(Entry)
    BY <1>1, <1>2
  <2> QED BY <1>1, <2>1, IdleType, QuietOk DEF Speaks
<1>4. /\ rows' \in Seq(Row) /\ ChatGrows /\ RowsGrow /\ RowsInv'
      /\ \A r \in DOMAIN rows : ~rows[r].open => r \in DOMAIN rows' /\ rows'[r] = rows[r]
  <2>1. CASE Rollback
    BY <1>2, <2>1, RowsRolledBack DEF Inv
  <2>2. CASE /\ SilentCommits
             /\ rows' = [rows EXCEPT ![row] = [@ EXCEPT !.open = FALSE, !.mids = m.sent]]
    <3>1. m \in Local /\ SilentOk(m) /\ m.step = "mark" /\ OurOwn(m.sent, TRUE)
      <4>1. ProcOk(Silent, m) /\ m.step = "mark"
        BY <1>1, <2>2 DEF Inv, SilentCommits
      <4>2. OurOwn(m.sent, TRUE)
        BY <4>1 DEF ProcOk
      <4> QED BY <1>1, <4>1, <4>2 DEF ProcOk
    <3>2. m.parts \in Seq(Part) /\ m.parts # <<>> /\ m.sent \in SUBSET Nat
      BY <3>1 DEF Local, SilentOk
    <3>3. 1 \in DOMAIN m.parts /\ row = m.parts[1].row
      BY <3>2
    <3>4. row \in DOMAIN rows /\ Unnamed(row) /\ rows[row].open
      BY <3>1, <3>3 DEF SilentOk, Unnamed
    <3> HIDE DEF m, row
    <3> QED BY <1>2, <2>2, <3>1, <3>2, <3>4, RowNamed DEF Inv
  <2> QED BY <2>1, <2>2 DEF SilentCommits, SilentFails
<1>5. Types'
  BY <1>2, <1>4 DEF Inv, Types
<1>6. GreetInv' /\ greetings' = greetings
  BY <1>2, <1>4, GreetingsKept DEF Inv
<1>7. \A q \in Procs \ {Silent, Watch} : \A k \in DOMAIN my[q].parts :
         LET r == my[q].parts[k].row IN r \in DOMAIN rows => r \in DOMAIN rows' /\ rows'[r] = rows[r]
  BY <1>1, <1>4, OthersKeepRows
<1> QED BY <1>1, <1>2, <1>3, <1>4, <1>5, <1>6, <1>7, StepInv

\* The process is restarted.
LEMMA CrashInv ==
  ASSUME Inv, Crash
  PROVE  Inv'
<1>1. /\ UNCHANGED <<chat, known, paused, blocked, stage, chatId, greetings>>
      /\ Rollback /\ lock' = Watch
      /\ my' = [p \in Procs |-> IF p \in Events /\ my[p].step # "idle"
                                THEN [Idle EXCEPT !.step = "done"] ELSE Idle]
  BY DEF Crash
<1>2. rows' \in Seq(Row) /\ ChatGrows /\ RowsGrow /\ RowsInv'
  BY <1>1, RowsRolledBack DEF Inv
<1>3. Types'
  <2>1. happenings' \in 0..MaxHappenings
    BY Constants DEF Crash, Happens, Inv, Types
  <2> QED BY <1>1, <1>2, <2>1 DEF Inv, Types
<1>4. GreetInv'
  BY <1>1, <1>2, GreetingsKept DEF Inv
<1>5. my' \in [Procs -> Local]
  BY <1>1, IdleType, EndType
<1>6. ASSUME NEW p \in Procs
      PROVE  ProcOk(p, my[p])'
  <2>1. my'[p] = [Idle EXCEPT !.step = "done"] \/ my'[p] = Idle
    BY <1>1
  <2>2. chat' \in Seq(Entry)
    BY <1>3 DEF Types
  <2> QED BY <2>1, <2>2, EndType, IdleType, QuietOk DEF Speaks, TurnSteps
<1> QED BY <1>2, <1>3, <1>4, <1>5, <1>6 DEF Inv

-----------------------------------------------------------------------------
(* Theorems *)

LEMMA InitInv == Init => Inv
<1> SUFFICES ASSUME Init PROVE Inv
  OBVIOUS
<1>1. Types
  <2>1. chat \in Seq(Entry) /\ rows \in Seq(Row)
    BY DEF Init
  <2>2. greetings \in Nat /\ happenings \in 0..MaxHappenings
    BY Constants DEF Init
  <2>3. {known, paused, blocked, chatId} \subseteq BOOLEAN /\ stage \in {"greeting", "pricing"}
        /\ lock \in Events \cup {Watch}
    BY DEF Init
  <2> QED BY <2>1, <2>2, <2>3 DEF Types
<1>2. RowsInv /\ GreetInv
  BY DEF Init, RowsInv, GreetInv, Committed
<1>3. my \in [Procs -> Local]
  BY IdleType DEF Init
<1>4. ASSUME NEW p \in Procs
      PROVE  ProcOk(p, my[p])
  <2>1. my[p] = Idle /\ chat = <<>>
    BY DEF Init
  <2>2. TurnOk(p, my[p]) /\ SilentOk(my[p])
    BY <2>1, IdleType DEF TurnOk, SilentOk, TurnSteps, Speaks
  <2> QED BY <2>1, <2>2, IdleType DEF ProcOk, OurOwn
<1> QED BY <1>1, <1>2, <1>3, <1>4 DEF Inv

LEMMA NextInv == Inv /\ [Next]_vars => Inv'
<1> SUFFICES ASSUME Inv, [Next]_vars PROVE Inv'
  OBVIOUS
<1>1. CASE UNCHANGED vars \/ ManagerWrites \/ HandBack
  BY <1>1, NobodyMovesInv
<1>2. CASE Crash
  BY <1>2, CrashInv
<1>3. CASE \E e \in Events : EventComes(e) \/ EventStep(e)
  <2> PICK e \in Events : EventComes(e) \/ EventStep(e)
    BY <1>3
  <2>1. e \in Procs
    BY DEF Procs
  <2>2. CASE EventComes(e)
    BY <2>2, EventComesInv
  <2>3. CASE FirstCheck(e) \/ (Enter(e) /\ ~paused) \/ Decide(e)
    BY <2>3, PrepareInv
  <2>4. CASE StoreClashes(e) \/ (Enter(e) /\ paused) \/ NothingToSay(e) \/ MaxRefuses(e)
    BY <2>4, EndsInv
  <2>5. CASE Store(e)
    BY <2>5, StoreInv
  <2>6. CASE Write(e)
    BY <2>6, WriteInv
  <2>7. CASE Guard(e) \/ RecordClashes(e)
    BY <2>7, TurnGuardInv
  <2>8. CASE Record(e)
    BY <2>1, <2>8, RecordInv
  <2>9. CASE MaxTakes(e)
    BY <2>9, MaxTakesInv
  <2>10. CASE MarkDelivered(e)
    BY <2>10, MarkInv
  <2> QED BY <2>2, <2>3, <2>4, <2>5, <2>6, <2>7, <2>8, <2>9, <2>10 DEF EventStep, Check
<1>4. CASE WatchStep
  <2>1. Watch \in Procs
    BY DEF Procs
  <2> QED BY <1>4, <2>1, WatcherInv, RecordInv DEF WatchStep
<1>5. CASE SilentStep
  <2>1. Silent \in Procs
    BY DEF Procs
  <2>2. CASE Guard(Silent) \/ RecordClashes(Silent) \/ SilentBegins \/ SilentChecks
    BY <2>2, SilentMovesInv
  <2>3. CASE Record(Silent)
    BY <2>1, <2>3, RecordInv
  <2>4. CASE SilentComposes
    BY <2>4, SilentComposesInv
  <2>5. CASE MaxTakes(Silent)
    BY <2>5, MaxTakesInv
  <2>6. CASE SilentCommits \/ SilentFails
    BY <2>6, SilentEndsInv
  <2> QED BY <1>5, <2>2, <2>3, <2>4, <2>5, <2>6 DEF SilentStep, Check
<1> QED BY <1>1, <1>2, <1>3, <1>4, <1>5 DEF Next

LEMMA Invariance == Spec => []Inv
<1>1. Inv /\ [Next]_vars => Inv'
  BY NextInv
<1> QED BY <1>1, InitInv, PTL DEF Spec

\* Every variable keeps its type, whatever histories, bursts and events there are.
THEOREM Typing == Spec => []TypeOK
<1>1. Inv => TypeOK
  BY DEF Inv, Types, TypeOK
<1> QED BY <1>1, Invariance, PTL

\* The button, "/start" and the client's own words make one scripted greeting between
\* them: who finds nothing sent has the lock until the rows of the greeting are
\* committed (max/webhook.py:20-24, 372).
THEOREM OneGreeting == Spec => []GreetedOnce
<1>1. Inv => GreetedOnce
  BY DEF Inv, GreetInv, GreetedOnce
<1> QED BY <1>1, Invariance, PTL

\* A turn that starts to send has seen to each message of a manager its guard has read,
\* and goes on seeing to it while it sends (manager_watch.py:343-377).
THEOREM NoManagerPassedOver == Spec => []GuardSawToIt
<1>1. Inv => GuardSawToIt
  <2> SUFFICES ASSUME Inv, NEW e \in Events, my[e].step = "send", my[e].found = {},
                      NEW i \in Window(my[e].read, GuardHistory), chat[i].hand = "manager"
               PROVE  Explained(i, my[e].read)
    BY DEF GuardSawToIt, Explained
  <2>1. TurnOk(e, my[e])
    BY DEF Inv, ProcOk, Procs
  <2> QED BY <2>1 DEF TurnOk
<1> QED BY <1>1, Invariance, PTL

-----------------------------------------------------------------------------
(* Own words are not taken for a manager's, and nothing is stored twice.  This *)
(* needs that the rows looked up reach as far back as the messages read.       *)
\* Words a turn has sent.
TurnText(i) == chat[i].hand = "turn" /\ chat[i].word # 0

\* The rows of the turns' words among the messages that are read are among the rows
\* that are looked up.
LookbackReaches ==
  \A n \in {GuardHistory, WatchHistory} : \A i \in Window(Len(chat), n) :
    TurnText(i) => chat[i].word \in OurRows

\* The messages of a committed row: a client's or a manager's has one; ours repeat its
\* text, but for a picture at the end.
NamesOwn(r) ==
  \A j \in rows[r].mids :
    /\ j \in DOMAIN chat
    /\ rows[r].role = "client" <=> chat[j].hand = "client"
    /\ rows[r].role = "operator" => ~TurnText(j)
    /\ rows[r].role = "ai" => chat[j].word \in {0, r}
    /\ TurnText(j) \/ \A k \in rows[r].mids : k <= j

\* What turns have said is in committed rows.
TalkInv == \A i \in DOMAIN chat : TurnText(i) => chat[i].word \in Committed /\ rows[chat[i].word].role = "ai"

\* A client's message on its way into the table.
Pending(p) == p \in Events /\ my[p].step \in {"first", "store"} /\ my[p].kind = "message"

\* What a process takes for a manager's, what it has sent, what it is going to store.
TellsApart(p) ==
  /\ \A i \in my[p].found : chat[i].hand # "client" /\ ~TurnText(i)
  /\ \A j \in my[p].sent : /\ chat[j].hand = (IF p = Silent THEN "silent" ELSE "turn")
                           /\ chat[j].word \in {0, my[p].parts[1].row}
  /\ p = Silent => /\ my[p].step # "mark" => my[p].sent = {}
                   /\ \A j, k \in my[p].sent : j = k
  /\ Pending(p) => /\ my[p].message \in DOMAIN chat /\ chat[my[p].message].hand = "client"
                   /\ \A r \in Committed : my[p].message \notin rows[r].mids

OnceInv ==
  /\ \A r \in Committed : NamesOwn(r)
  /\ StoredOnce
  /\ TalkInv
  /\ \A p \in Procs : TellsApart(p)
  /\ \A p, q \in Events : Pending(p) /\ Pending(q) /\ my[p].message = my[q].message => p = q

\* A row that keeps its mids, and one that gets mids nobody has.
SameNames(r) == r \in Committed /\ rows'[r].mids = rows[r].mids
FreshNames(r, P) ==
  /\ NamesOwn(r)'
  /\ \A q \in Committed' : q # r => rows'[q].mids \cap rows'[r].mids = {}
  /\ \A j \in rows'[r].mids : chat'[j].hand = "client" => \E p \in P : Pending(p) /\ my[p].message = j

\* A message is on its way as it was, or it has just come.
ComesAlone(p, P) ==
  \/ Pending(p) /\ my'[p].message = my[p].message
  \/ my'[p].message \notin DOMAIN chat /\ P = {p}

\* What is in reach of a process lies in the chat.
LEMMA InReach ==
  ASSUME Inv, NEW p \in Procs
  PROVE  my[p].found \subseteq DOMAIN chat /\ my[p].sent \subseteq DOMAIN chat
BY DEF Inv, ProcOk, OurOwn

\* A process that does not move tells apart what it has told apart.
LEMMA OthersTellApart ==
  ASSUME Inv, OnceInv, ChatGrows, NEW P, NEW q \in Procs, q \notin P, my'[q] = my[q], P \subseteq Procs,
         \A r \in Committed' : SameNames(r) \/ FreshNames(r, P)
  PROVE  TellsApart(q)'
<1> DEFINE m == my[q]
<1>1. TellsApart(q) /\ m.found \subseteq DOMAIN chat /\ m.sent \subseteq DOMAIN chat
  BY InReach DEF OnceInv
<1>2. \A i \in m.found : chat'[i].hand # "client" /\ ~TurnText(i)'
  BY <1>1 DEF TellsApart, TurnText, ChatGrows
<1>3. \A j \in m.sent : /\ chat'[j].hand = (IF q = Silent THEN "silent" ELSE "turn")
                        /\ chat'[j].word \in {0, m.parts[1].row}
  BY <1>1 DEF TellsApart, ChatGrows
<1>4. ASSUME Pending(q)
      PROVE  /\ m.message \in DOMAIN chat' /\ chat'[m.message].hand = "client"
             /\ \A r \in Committed' : m.message \notin rows'[r].mids
  <2>1. m.message \in DOMAIN chat' /\ chat'[m.message].hand = "client"
    BY <1>1, <1>4 DEF TellsApart, ChatGrows
  <2>2. ASSUME NEW r \in Committed', m.message \in rows'[r].mids
        PROVE  FALSE
    <3>1. CASE SameNames(r)
      BY <1>1, <1>4, <2>2, <3>1 DEF TellsApart, SameNames
    <3>2. CASE FreshNames(r, P)
      <4>1. PICK p \in P : Pending(p) /\ my[p].message = m.message
        BY <2>1, <2>2, <3>2 DEF FreshNames
      <4>2. p \in Events /\ q \in Events
        BY <1>4, <4>1 DEF Pending
      <4> QED BY <1>4, <4>1, <4>2 DEF OnceInv
    <3> QED BY <3>1, <3>2
  <2> QED BY <2>1, <2>2
<1>5. Pending(q)' <=> Pending(q)
  BY DEF Pending
<1> QED BY <1>1, <1>2, <1>3, <1>4, <1>5 DEF TellsApart

\* A step of the processes P.
LEMMA OnceStep ==
  ASSUME Inv, OnceInv, ChatGrows, RowsGrow,
         NEW P, P \subseteq Procs, \A q \in Procs \ P : my'[q] = my[q],
         \A r \in Committed' : SameNames(r) \/ FreshNames(r, P),
         \A i \in DOMAIN chat' : TurnText(i)' =>
           i \in DOMAIN chat \/ (chat'[i].word \in Committed' /\ rows'[chat'[i].word].role = "ai"),
         \A p \in P : TellsApart(p)' /\ (Pending(p)' => ComesAlone(p, P))
  PROVE  OnceInv'
<1>1. ASSUME NEW r \in Committed'
      PROVE  NamesOwn(r)'
  <2>1. CASE SameNames(r)
    <3>1. r \in Committed /\ rows'[r].mids = rows[r].mids /\ rows'[r].role = rows[r].role
      BY <2>1 DEF SameNames, RowsGrow
    <3>2. NamesOwn(r)
      BY <3>1 DEF OnceInv
    <3> QED BY <3>1, <3>2 DEF NamesOwn, TurnText, ChatGrows
  <2> QED BY <1>1, <2>1 DEF FreshNames
<1>2. StoredOnce'
  <2> SUFFICES ASSUME NEW r \in Committed', NEW q \in Committed', r # q
               PROVE  rows'[r].mids \cap rows'[q].mids = {}
    BY DEF StoredOnce
  <2>1. CASE SameNames(r) /\ SameNames(q)
    BY <2>1 DEF SameNames, OnceInv, StoredOnce
  <2>2. CASE FreshNames(r, P) \/ FreshNames(q, P)
    BY <2>2 DEF FreshNames
  <2> QED BY <2>1, <2>2
<1>3. TalkInv'
  <2> SUFFICES ASSUME NEW i \in DOMAIN chat', TurnText(i)'
               PROVE  chat'[i].word \in Committed' /\ rows'[chat'[i].word].role = "ai"
    BY DEF TalkInv
  <2>1. CASE i \in DOMAIN chat
    <3>1. TurnText(i) /\ chat'[i] = chat[i]
      BY <2>1 DEF ChatGrows, TurnText
    <3>2. chat[i].word \in Committed /\ rows[chat[i].word].role = "ai"
      BY <2>1, <3>1 DEF OnceInv, TalkInv
    <3> QED BY <3>1, <3>2 DEF RowsGrow
  <2> QED BY <2>1
<1>4. \A p \in Procs : TellsApart(p)'
  BY OthersTellApart
<1>5. ASSUME NEW p \in Events, NEW q \in Events, Pending(p)', Pending(q)',
             my'[p].message = my'[q].message
      PROVE  p = q
  <2>0. p \in Procs /\ q \in Procs
    BY DEF Procs
  <2>1. \A o \in Events \ P : Pending(o)' => Pending(o) /\ my'[o].message = my[o].message
    BY DEF Pending, Procs
  <2>2. CASE (p \in P => Pending(p) /\ my'[p].message = my[p].message)
             /\ (q \in P => Pending(q) /\ my'[q].message = my[q].message)
    BY <1>5, <2>1, <2>2 DEF OnceInv
  <2>3. \A o \in Events \ P : Pending(o)' => my'[o].message \in DOMAIN chat
    BY <2>1 DEF OnceInv, TellsApart, Procs
  <2>4. CASE p \in P /\ my'[p].message \notin DOMAIN chat /\ P = {p}
    BY <1>5, <2>3, <2>4
  <2>5. CASE q \in P /\ my'[q].message \notin DOMAIN chat /\ P = {q}
    BY <1>5, <2>3, <2>5
  <2> QED BY <1>5, <2>0, <2>2, <2>4, <2>5 DEF ComesAlone
<1> QED BY <1>1, <1>2, <1>3, <1>4, <1>5 DEF OnceInv

LEMMA OneMoves ==
  ASSUME Inv, OnceInv, ChatGrows, RowsGrow,
         NEW p \in Procs, \A q \in Procs \ {p} : my'[q] = my[q],
         \A r \in Committed' : SameNames(r) \/ FreshNames(r, {p}),
         \A i \in DOMAIN chat' : TurnText(i)' =>
           i \in DOMAIN chat \/ (chat'[i].word \in Committed' /\ rows'[chat'[i].word].role = "ai"),
         TellsApart(p)', Pending(p)' => ComesAlone(p, {p})
  PROVE  OnceInv'
<1> DEFINE P == {p}
<1>1. P \subseteq Procs /\ \A q \in Procs \ P : my'[q] = my[q]
  OBVIOUS
<1>2. \A q \in P : TellsApart(q)' /\ (Pending(q)' => ComesAlone(q, P))
  OBVIOUS
<1>3. \A r \in Committed' : SameNames(r) \/ FreshNames(r, P)
  OBVIOUS
<1> HIDE DEF P
<1> QED BY <1>1, <1>2, <1>3, OnceStep

\* Rows are kept, or come without a mid.
Unnaming == \A r \in Committed' : SameNames(r) \/ rows'[r].mids = {}

LEMMA NothingNamed ==
  ASSUME Unnaming, NEW P, NEW r \in Committed'
  PROVE  SameNames(r) \/ FreshNames(r, P)
BY DEF Unnaming, FreshNames, NamesOwn

LEMMA RowsKept ==
  ASSUME UNCHANGED rows
  PROVE  RowsGrow /\ Unnaming
BY DEF RowsGrow, Unnaming, SameNames, Committed, Taken

\* Who has neither found nor sent anything, and stores nothing, tells apart.
LEMMA QuietTells ==
  ASSUME NEW p, my'[p].found = {}, my'[p].sent = {}, my'[p].step \notin {"first", "store"}
  PROVE  TellsApart(p)' /\ ~Pending(p)'
BY DEF TellsApart, Pending

\* One process moves and says nothing.
LEMMA CalmOnce ==
  ASSUME Inv, OnceInv, UNCHANGED chat, RowsGrow, Unnaming,
         NEW p \in Procs, NEW x, my' = [my EXCEPT ![p] = x], x.step \notin {"first", "store"},
         x.sent = {} \/ (p # Silent /\ x.sent = my[p].sent /\ x.parts = my[p].parts),
         \A i \in x.found : chat[i].hand # "client" /\ ~TurnText(i)
  PROVE  OnceInv'
<1>1. my'[p] = x /\ \A q \in Procs \ {p} : my'[q] = my[q]
  BY DEF Inv
<1>2. ChatGrows
  BY DEF ChatGrows
<1>3. TellsApart(p)' /\ ~Pending(p)'
  <2>1. ~Pending(p)'
    BY <1>1 DEF Pending
  <2>2. TellsApart(p)
    BY DEF OnceInv
  <2> QED BY <1>1, <2>1, <2>2 DEF TellsApart, TurnText
<1>4. \A r \in Committed' : SameNames(r) \/ FreshNames(r, {p})
  BY NothingNamed
<1> QED BY <1>1, <1>2, <1>3, <1>4, OnceStep

\* What is foreign is not the client's, and no turn has said it.
LEMMA ForeignIsNoTurn ==
  ASSUME Inv, OnceInv, LookbackReaches, NEW n \in {GuardHistory, WatchHistory},
         NEW i \in Foreign(Window(Len(chat), n))
  PROVE  chat[i].hand # "client" /\ ~TurnText(i)
<1>1. i \in Window(Len(chat), n) /\ ~Ours(i)
  BY DEF Foreign
<1>2. chat[i].hand # "client" /\ i \in DOMAIN chat
  <2>1. chat \in Seq(Entry)
    BY DEF Inv, Types
  <2> QED BY <1>1, <2>1 DEF Window, FromBot
<1>3. ASSUME TurnText(i) PROVE FALSE
  <2>1. chat[i].word \in OurRows
    BY <1>1, <1>3 DEF LookbackReaches
  <2>2. rows[chat[i].word].role = "ai"
    BY <1>2, <1>3 DEF OnceInv, TalkInv
  <2> QED BY <1>1, <2>1, <2>2 DEF Ours, OurTexts
<1> QED BY <1>2, <1>3

\* Rows that are given up were not committed.
LEMMA RolledBackOnce ==
  ASSUME Inv, UNCHANGED chat, Rollback
  PROVE  ChatGrows /\ RowsGrow /\ Unnaming
<1>1. ChatGrows /\ RowsGrow /\ \A r \in DOMAIN rows : ~rows[r].open => rows'[r] = rows[r]
  BY RowsRolledBack DEF Inv
<1>2. \A r \in Committed' : r \in Committed /\ rows'[r] = rows[r]
  <2> SUFFICES ASSUME NEW r \in Committed' PROVE r \in Committed /\ rows'[r] = rows[r]
    OBVIOUS
  <2>1. /\ r \in DOMAIN rows /\ rows[r] \in Row
        /\ rows'[r] = IF rows[r].open THEN [rows[r] EXCEPT !.role = "gone"] ELSE rows[r]
    BY DEF Rollback, Committed, Inv, Types
  <2>2. CASE rows[r].open
    BY <2>1, <2>2 DEF Committed, Row
  <2> QED BY <1>1, <2>1, <2>2 DEF Committed
<1> QED BY <1>1, <1>2 DEF Unnaming, SameNames

-----------------------------------------------------------------------------
(* Steps, once more *)

\* Nobody moves, but a manager may write.
LEMMA NobodyMovesOnce ==
  ASSUME Inv, OnceInv, UNCHANGED vars \/ ManagerWrites \/ HandBack
  PROVE  OnceInv'
<1> USE DEF database, counts, vars
<1>1. UNCHANGED <<rows, my>> /\ chat \in Seq(Entry)
  BY DEF ManagerWrites, HandBack, Inv, Types
<1>2. chat' = chat \/ \E entry : chat' = Append(chat, entry) /\ entry.hand = "manager"
  <2>1. CASE ManagerWrites
    <3>1. PICK word : chat' = Append(chat, [hand |-> "manager", word |-> word])
      BY <2>1 DEF ManagerWrites
    <3> QED BY <3>1
  <2> QED BY <2>1 DEF HandBack
<1>3. /\ \A i \in DOMAIN chat : i \in DOMAIN chat' /\ chat'[i] = chat[i]
      /\ \A i \in DOMAIN chat' : i \in DOMAIN chat \/ chat'[i].hand = "manager"
  BY <1>1, <1>2
<1>4. ChatGrows /\ \A i \in DOMAIN chat' : TurnText(i)' => i \in DOMAIN chat
  BY <1>3 DEF ChatGrows, TurnText
<1>5. RowsGrow /\ Unnaming
  BY <1>1, RowsKept
<1>6. \A r \in Committed' : SameNames(r) \/ FreshNames(r, {})
  BY <1>5, NothingNamed
<1> QED BY <1>1, <1>4, <1>5, <1>6, OnceStep

\* The process is restarted: nobody has anything in hand.
LEMMA CrashOnce ==
  ASSUME Inv, OnceInv, Crash
  PROVE  OnceInv'
<1>1. /\ UNCHANGED chat /\ Rollback
      /\ my' = [p \in Procs |-> IF p \in Events /\ my[p].step # "idle"
                                THEN [Idle EXCEPT !.step = "done"] ELSE Idle]
  BY DEF Crash
<1>2. ChatGrows /\ RowsGrow /\ Unnaming
  BY <1>1, RolledBackOnce
<1>3. ASSUME NEW p \in Procs
      PROVE  TellsApart(p)' /\ ~Pending(p)'
  <2>1. my'[p] = [Idle EXCEPT !.step = "done"] \/ my'[p] = Idle
    BY <1>1
  <2> QED BY <2>1, EndType, IdleType, QuietTells
<1>4. \A r \in Committed' : SameNames(r) \/ FreshNames(r, Procs)
  BY <1>2, NothingNamed
<1>5. \A i \in DOMAIN chat' : TurnText(i)' => i \in DOMAIN chat
  BY <1>1
<1> QED BY <1>2, <1>3, <1>4, <1>5, OnceStep

\* An event comes, perhaps with a message.
LEMMA EventComesOnce ==
  ASSUME Inv, OnceInv, NEW e \in Events, EventComes(e)
  PROVE  OnceInv'
<1> USE DEF database
<1>1. /\ e \in Procs /\ my \in [Procs -> Local] /\ chat \in Seq(Entry) /\ Len(chat) \in Nat
      /\ UNCHANGED rows /\ e # Silent
  BY Constants DEF EventComes, Inv, Procs, Types
<1>2. PICK kind \in Kinds :
        /\ chat' = IF kind = "message" THEN Append(chat, [hand |-> "client", word |-> 0]) ELSE chat
        /\ my' = [my EXCEPT ![e] =
             [Idle EXCEPT !.step = IF ~known /\ kind = "message" THEN "first" ELSE "store",
                          !.kind = kind, !.new = ~known,
                          !.message = IF kind = "message" THEN Len(chat) + 1 ELSE 0]]
  BY DEF EventComes
<1> DEFINE step == IF ~known /\ kind = "message" THEN "first" ELSE "store"
           number == IF kind = "message" THEN Len(chat) + 1 ELSE 0
           x == [Idle EXCEPT !.step = step, !.kind = kind, !.new = ~known, !.message = number]
<1>3. my'[e] = x /\ \A q \in Procs \ {e} : my'[q] = my[q]
  BY <1>1, <1>2
<1>4. x.found = {} /\ x.sent = {} /\ x.kind = kind /\ x.message = number
  BY DEF Idle
<1> HIDE DEF x
<1>5. /\ \A i \in DOMAIN chat : i \in DOMAIN chat' /\ chat'[i] = chat[i]
      /\ \A i \in DOMAIN chat' : i \in DOMAIN chat \/ chat'[i].hand = "client"
      /\ kind = "message" => /\ Len(chat) + 1 \in DOMAIN chat' /\ Len(chat) + 1 \notin DOMAIN chat
                             /\ chat'[Len(chat) + 1].hand = "client"
  BY <1>1, <1>2
<1>6. ChatGrows /\ \A i \in DOMAIN chat' : TurnText(i)' => i \in DOMAIN chat
  BY <1>5 DEF ChatGrows, TurnText
<1>7. RowsGrow /\ Unnaming
  BY <1>1, RowsKept
<1>8. \A r \in Committed' : r \in Committed /\ rows'[r].mids \subseteq DOMAIN chat
  BY <1>1 DEF Committed, OnceInv, NamesOwn
<1>9. TellsApart(e)' /\ (Pending(e)' => ComesAlone(e, {e}))
  BY <1>1, <1>3, <1>4, <1>5, <1>8 DEF TellsApart, Pending, ComesAlone
<1>10. \A r \in Committed' : SameNames(r) \/ FreshNames(r, {e})
  BY <1>7, NothingNamed
<1> QED BY <1>1, <1>3, <1>6, <1>7, <1>9, <1>10, OneMoves

\* A first message goes on to be stored.
LEMMA FirstCheckOnce ==
  ASSUME Inv, OnceInv, NEW e \in Events, FirstCheck(e)
  PROVE  OnceInv'
<1>1. /\ e \in Procs /\ my \in [Procs -> Local] /\ UNCHANGED <<rows, chat>> /\ e # Silent
      /\ my[e].step = "first" /\ my[e] \in Local
  BY Constants DEF FirstCheck, Inv, Procs
<1> DEFINE m == my[e]
           x == [m EXCEPT !.new = FALSE, !.step = "store"]
           y == [m EXCEPT !.step = "store"]
<1>2. my' = [my EXCEPT ![e] = x] \/ my' = [my EXCEPT ![e] = y]
  BY <1>1 DEF FirstCheck, Go
<1>3. /\ x.step = "store" /\ x.kind = m.kind /\ x.message = m.message /\ x.found = m.found
      /\ x.sent = m.sent /\ x.parts = m.parts
      /\ y.step = "store" /\ y.kind = m.kind /\ y.message = m.message /\ y.found = m.found
      /\ y.sent = m.sent /\ y.parts = m.parts
  BY <1>1 DEF Local
<1> HIDE DEF x, y
<1>4. (my'[e] = x \/ my'[e] = y) /\ \A q \in Procs \ {e} : my'[q] = my[q]
  BY <1>1, <1>2
<1>5. TellsApart(e)' /\ (Pending(e)' => ComesAlone(e, {e}))
  <2>1. Pending(e)' <=> Pending(e)
    BY <1>1, <1>3, <1>4 DEF Pending
  <2>2. TellsApart(e)
    BY <1>1 DEF OnceInv
  <2> QED BY <1>1, <1>3, <1>4, <2>1, <2>2 DEF TellsApart, ComesAlone, TurnText, Committed
<1>6. RowsGrow /\ Unnaming /\ ChatGrows
  BY <1>1, RowsKept DEF ChatGrows
<1>7. \A r \in Committed' : SameNames(r) \/ FreshNames(r, {e})
  BY <1>6, NothingNamed
<1> QED BY <1>1, <1>4, <1>5, <1>6, <1>7, OneMoves

\* The client's message is stored: it is nobody else's.
LEMMA StoreOnce ==
  ASSUME Inv, OnceInv, NEW e \in Events, Store(e)
  PROVE  OnceInv'
<1> DEFINE m == my[e]
           row == NewRow("client", {m.message}, FALSE)
           new == IF m.kind = "message" THEN <<row>> ELSE <<>>
<1>1. /\ e \in Procs /\ m \in Local /\ m.sent = {} /\ m.found = {} /\ m.step = "store"
      /\ my \in [Procs -> Local] /\ rows \in Seq(Row) /\ chat \in Seq(Entry) /\ UNCHANGED chat
  <2>1. m.step = "store"
    BY DEF Store
  <2> QED BY <2>1, QuietBefore DEF Speaks, Inv, Types, Store
<1>2. row \in Row /\ row.role = "client" /\ row.mids = {m.message}
  BY <1>1 DEF NewRow, Row, Roles, Local
<1>3. new \in Seq(Row) /\ (\A k \in DOMAIN new : new[k] = row) /\ (m.kind # "message" => DOMAIN new = {})
  <2> HIDE DEF row
  <2> QED BY <1>2
<1>4. rows' = rows \o new
  <2>1. rows' = IF m.kind = "message" THEN Append(rows, row) ELSE rows
    BY DEF Store
  <2>2. rows \in Seq(Row) /\ row \in Row
    BY <1>1, <1>2
  <2> HIDE DEF row
  <2> QED BY <2>1, <2>2
<1>5. /\ RowsGrow /\ ChatGrows
      /\ \A r \in DOMAIN rows : r \in DOMAIN rows' /\ rows'[r] = rows[r]
  <2> HIDE DEF new
  <2>1. \A k \in DOMAIN new : new[k].role = "ai" => new[k].mids = {} /\ new[k].at = Len(chat)
    BY <1>2, <1>3
  <2> QED BY <1>1, <1>3, <1>4, <2>1, RowsAppended DEF Inv
<1>6. \A r \in DOMAIN rows' \ DOMAIN rows : m.kind = "message" /\ r = Len(rows) + 1 /\ rows'[r] = row
  <2> HIDE DEF row
  <2> QED BY <1>1, <1>4
<1> HIDE DEF row, new
<1>7. PICK x : my' = [my EXCEPT ![e] = x] /\ x.step = "wait" /\ x.sent = {} /\ x.found = {}
  <2> DEFINE y(n) == [m EXCEPT !.message = n, !.new = FALSE, !.step = "wait"]
  <2>1. \E n : my' = [my EXCEPT ![e] = y(n)]
    BY <1>1 DEF Store
  <2>2. \A n : y(n).step = "wait" /\ y(n).sent = {} /\ y(n).found = {}
    BY <1>1 DEF Local
  <2> QED BY <2>1, <2>2
<1>8. my'[e] = x /\ \A q \in Procs \ {e} : my'[q] = my[q]
  BY <1>1, <1>7
<1>9. TellsApart(e)' /\ ~Pending(e)'
  BY <1>7, <1>8, QuietTells
<1>10. ASSUME m.kind = "message"
       PROVE  /\ Pending(e) /\ m.message \in DOMAIN chat /\ chat[m.message].hand = "client"
              /\ \A r \in Committed : m.message \notin rows[r].mids
  BY <1>1, <1>10 DEF Pending, OnceInv, TellsApart
<1>11. ASSUME NEW r \in Committed'
       PROVE  SameNames(r) \/ FreshNames(r, {e})
  <2>1. CASE r \in DOMAIN rows
    BY <1>5, <2>1, <1>11 DEF SameNames, Committed
  <2>2. CASE r \notin DOMAIN rows
    <3>1. m.kind = "message" /\ r = Len(rows) + 1 /\ rows'[r] = row
      BY <1>6, <2>2 DEF Committed
    <3>2. NamesOwn(r)'
      BY <1>1, <1>2, <1>10, <3>1 DEF NamesOwn
    <3>3. ASSUME NEW q \in Committed', q # r
          PROVE  rows'[q].mids \cap rows'[r].mids = {}
      <4>1. q \in Committed /\ rows'[q] = rows[q]
        BY <1>5, <1>6, <3>1, <3>3 DEF Committed
      <4> QED BY <1>2, <1>10, <3>1, <4>1
    <3> QED BY <1>2, <1>10, <3>1, <3>2, <3>3 DEF FreshNames
  <2> QED BY <2>1, <2>2
<1>12. \A i \in DOMAIN chat' : i \in DOMAIN chat
  BY <1>1
<1> QED BY <1>1, <1>5, <1>8, <1>9, <1>11, <1>12, OneMoves

\* Who ends, or goes on without a word, keeps it all.
LEMMA QuietStepsOnce ==
  ASSUME Inv, OnceInv, UNCHANGED <<chat, rows>>, NEW p \in Procs,
         NEW x, my' = [my EXCEPT ![p] = x], x.step \notin {"first", "store"},
         x.found = {}, x.sent = {}
  PROVE  OnceInv'
<1>1. RowsGrow /\ Unnaming
  BY RowsKept
<1> QED BY <1>1, CalmOnce

\* The steps of an event under way to its turn, and the ways it ends.
LEMMA TurnBeginsOnce ==
  ASSUME Inv, OnceInv, NEW e \in Events,
         StoreClashes(e) \/ Enter(e) \/ Decide(e) \/ NothingToSay(e) \/ MaxRefuses(e)
  PROVE  OnceInv'
<1> USE DEF database, counts
<1>1. e \in Procs /\ my \in [Procs -> Local] /\ UNCHANGED <<chat, rows>>
  BY DEF Inv, Procs, StoreClashes, Enter, Decide, NothingToSay, MaxRefuses
<1>2. CASE End(e)
  <2> DEFINE x == [Idle EXCEPT !.step = "done"]
  <2>1. my' = [my EXCEPT ![e] = x] /\ x.step = "done" /\ x.found = {} /\ x.sent = {}
    BY <1>2, EndType DEF End
  <2> HIDE DEF x
  <2> QED BY <1>1, <2>1, QuietStepsOnce
<1>3. CASE (Enter(e) /\ ~paused) \/ Decide(e)
  <2>1. my[e].found = {} /\ my[e].sent = {} /\ my[e] \in Local
    BY <1>3, QuietBefore DEF Enter, Decide, Speaks
  <2>2. \E x : my' = [my EXCEPT ![e] = x] /\ x.step \in {"run", "write"} /\ x.found = {} /\ x.sent = {}
    <3> DEFINE x == [my[e] EXCEPT !.step = "run"]
               y == [my[e] EXCEPT !.step = "write", !.greets = ~HasOutgoing]
    <3>1. my' = [my EXCEPT ![e] = x] \/ my' = [my EXCEPT ![e] = y]
      BY <1>1, <1>3 DEF Enter, Decide, Go
    <3>2. /\ x.step = "run" /\ x.found = {} /\ x.sent = {}
          /\ y.step = "write" /\ y.found = {} /\ y.sent = {}
      BY <2>1 DEF Local
    <3> QED BY <3>1, <3>2
  <2> QED BY <1>1, <2>2, QuietStepsOnce
<1> QED BY <1>2, <1>3 DEF StoreClashes, Enter, NothingToSay, MaxRefuses, EndTurn

\* The rows of a reply are committed before anything is sent.
LEMMA WriteOnce ==
  ASSUME Inv, OnceInv, NEW e \in Events, Write(e)
  PROVE  OnceInv'
<1> DEFINE m == my[e]
<1>1. /\ e \in Procs /\ m \in Local /\ m.sent = {} /\ m.found = {} /\ m.step = "write"
      /\ my \in [Procs -> Local] /\ rows \in Seq(Row) /\ chat \in Seq(Entry) /\ UNCHANGED chat
  <2>1. m.step = "write"
    BY DEF Write
  <2> QED BY <2>1, QuietBefore DEF Speaks, Inv, Types, Write
<1>2. PICK reply \in Replies :
        /\ rows' = rows \o [k \in DOMAIN reply.parts |-> NewRow("ai", {}, FALSE)]
        /\ my' = [my EXCEPT ![e].step = "guard", ![e].greets = FALSE,
                    ![e].parts = [k \in DOMAIN reply.parts |-> [reply.parts[k] EXCEPT !.row = Len(rows) + k]]]
  BY DEF Write
<1> DEFINE row == NewRow("ai", {}, FALSE)
           new == [k \in DOMAIN reply.parts |-> row]
           parts == [k \in DOMAIN reply.parts |-> [reply.parts[k] EXCEPT !.row = Len(rows) + k]]
           x == [m EXCEPT !.step = "guard", !.greets = FALSE, !.parts = parts]
<1>3. row \in Row /\ row.role = "ai" /\ row.mids = {} /\ row.at = Len(chat)
  <2>1. Len(chat) \in Nat
    BY <1>1
  <2> QED BY <2>1 DEF NewRow, Row, Roles
<1> HIDE DEF row
<1>4. new \in Seq(Row) /\ \A k \in DOMAIN new : new[k] = row
  BY <1>3 DEF Replies
<1>5. rows' = rows \o new
  BY <1>2 DEF row
<1> HIDE DEF new
<1>6. /\ RowsGrow /\ \A r \in DOMAIN rows : r \in DOMAIN rows' /\ rows'[r] = rows[r]
  BY <1>1, <1>3, <1>4, <1>5, RowsAppended DEF Inv
<1>7. \A r \in DOMAIN rows' \ DOMAIN rows : rows'[r] = row
  <2> SUFFICES ASSUME NEW r \in DOMAIN rows', r \notin DOMAIN rows PROVE rows'[r] = row
    OBVIOUS
  <2>1. rows' = rows \o new /\ rows \in Seq(Row) /\ new \in Seq(Row)
    BY <1>1, <1>4, <1>5
  <2>2. r - Len(rows) \in DOMAIN new /\ rows'[r] = new[r - Len(rows)]
    BY <2>1
  <2> QED BY <1>4, <2>2
<1>8. Unnaming
  BY <1>3, <1>6, <1>7 DEF Unnaming, SameNames, Committed
<1> HIDE DEF parts
<1>9. my' = [my EXCEPT ![e] = x]
  BY <1>1, <1>2 DEF parts
<1>10. x.step = "guard" /\ x.found = {} /\ x.sent = {}
  BY <1>1 DEF Local
<1> HIDE DEF x
<1> QED BY <1>1, <1>6, <1>8, <1>9, <1>10, CalmOnce

\* The checks: a guard or the watcher reads the chat, or its record clashes.
LEMMA ChecksOnce ==
  ASSUME Inv, OnceInv, LookbackReaches, NEW p \in Procs,
         Guard(p) \/ RecordClashes(p) \/ (p = Watch /\ (WatchReads \/ WatchFetchFails))
  PROVE  OnceInv'
<1> USE DEF database, counts
<1> DEFINE m == my[p]
           foreign(n) == Foreign(Window(Len(chat), n))
<1>1. m \in Local /\ my \in [Procs -> Local] /\ UNCHANGED <<chat, rows>> /\ Watch # Silent
  BY Constants DEF Inv, ProcOk, Guard, RecordClashes, WatchReads, WatchFetchFails
<1>2. TellsApart(p) /\ (p = Silent => m.sent = {})
  BY <1>1 DEF OnceInv, TellsApart, Guard, RecordClashes
<1>3. \A n \in {GuardHistory, WatchHistory} : \A i \in foreign(n) : chat[i].hand # "client" /\ ~TurnText(i)
  BY ForeignIsNoTurn
<1> DEFINE Fits(x) == /\ x.step \notin {"first", "store"}
                      /\ x.sent = {} \/ (x.sent = m.sent /\ x.parts = m.parts)
                      /\ x.found \in {{}, m.found, foreign(GuardHistory), foreign(WatchHistory)}
<1>4. ASSUME NEW x, Fits(x), my' = [my EXCEPT ![p] = x]
      PROVE  OnceInv'
  <2>1. RowsGrow /\ Unnaming
    BY <1>1, RowsKept
  <2>2. \A i \in x.found : chat[i].hand # "client" /\ ~TurnText(i)
    BY <1>2, <1>3, <1>4 DEF TellsApart
  <2>3. x.sent = {} \/ (p # Silent /\ x.sent = my[p].sent /\ x.parts = my[p].parts)
    BY <1>2, <1>4
  <2>4. x.step \notin {"first", "store"}
    BY <1>4
  <2> HIDE DEF Fits, m
  <2> QED BY <1>1, <1>4, <2>1, <2>2, <2>3, <2>4, CalmOnce
<1> HIDE DEF foreign
<1>5. ASSUME NEW me \in Local, GoOn(p, me), me.sent = m.sent, me.parts = m.parts, me.found = m.found
      PROVE  OnceInv'
  <2> DEFINE y == [Idle EXCEPT !.step = "compose"]
             z == [me EXCEPT !.saw = FALSE, !.step = "send"]
  <2>1. \/ my' = [my EXCEPT ![p] = Idle]
        \/ my' = [my EXCEPT ![p] = y]
        \/ my' = [my EXCEPT ![p] = z]
    <3>1. CASE p = Watch
      BY <1>1, <1>5, <3>1 DEF GoOn
    <3>2. CASE p = Silent
      BY <1>1, <1>5, <3>2 DEF GoOn
    <3>3. CASE p # Watch /\ p # Silent
      BY <1>5, <3>3 DEF GoOn
    <3> QED BY <3>1, <3>2, <3>3
  <2>2. Fits(Idle) /\ Fits(y)
    BY DEF Idle
  <2>3. Fits(z)
    BY <1>5 DEF Local
  <2> HIDE DEF Fits, y, z
  <2> QED BY <1>4, <2>1, <2>2, <2>3
<1>6. ASSUME NEW me \in Local, NEW n \in {GuardHistory, WatchHistory}, Found(p, foreign(n), me),
             me.sent = m.sent, me.parts = m.parts, me.found = m.found
      PROVE  OnceInv'
  <2>1. CASE foreign(n) = {}
    BY <1>5, <1>6, <2>1 DEF Found
  <2>2. CASE foreign(n) # {}
    <3> DEFINE x == [me EXCEPT !.found = foreign(n), !.step = "record"]
    <3>1. my' = [my EXCEPT ![p] = x]
      BY <1>6, <2>2 DEF Found
    <3>2. Fits(x)
      BY <1>6 DEF Local
    <3> HIDE DEF Fits, x
    <3> QED BY <1>4, <3>1, <3>2
  <2> QED BY <2>1, <2>2
<1>7. CASE Guard(p)
  <2> DEFINE heard == [m EXCEPT !.saw = paused, !.read = Len(chat)]
  <2>1. GoOn(p, m) \/ Found(p, foreign(GuardHistory), heard)
    BY <1>7 DEF Guard, foreign
  <2>2. heard \in Local /\ heard.sent = m.sent /\ heard.parts = m.parts /\ heard.found = m.found
    <3>1. paused \in BOOLEAN /\ Len(chat) \in Nat
      BY DEF Inv, Types
    <3> HIDE DEF m
    <3> QED BY <1>1, <3>1 DEF Local
  <2> HIDE DEF heard, Fits
  <2> QED BY <1>1, <1>5, <1>6, <2>1, <2>2
<1>8. CASE RecordClashes(p)
  <2>1. GoOn(p, m)
    BY <1>8 DEF RecordClashes
  <2> QED BY <1>1, <1>5, <2>1
<1>9. CASE p = Watch /\ WatchReads
  <2>1. Found(p, foreign(WatchHistory), m)
    BY <1>9 DEF WatchReads, foreign
  <2> QED BY <1>1, <1>6, <2>1
<1>10. CASE p = Watch /\ WatchFetchFails
  <2>1. my' = [my EXCEPT ![p] = Idle]
    BY <1>1, <1>10 DEF WatchFetchFails, GoOn
  <2>2. Fits(Idle)
    BY DEF Idle
  <2> HIDE DEF Fits
  <2> QED BY <1>4, <2>1, <2>2
<1> QED BY <1>7, <1>8, <1>9, <1>10

\* The watcher and the silent greeting set out.
LEMMA PassesBeginOnce ==
  ASSUME Inv, OnceInv, WatchBegins \/ SilentBegins \/ SilentChecks
  PROVE  OnceInv'
<1> USE DEF database, counts
<1>1. Watch \in Procs /\ Silent \in Procs /\ my \in [Procs -> Local] /\ UNCHANGED <<chat, rows>>
  BY DEF Procs, Inv, WatchBegins, SilentBegins, SilentChecks
<1>2. CASE WatchBegins \/ SilentBegins
  <2>1. PICK p \in {Watch, Silent} :
          /\ my[p].step = "idle"
          /\ \/ my' = [my EXCEPT ![p].saw = paused, ![p].step = "fetch"]
             \/ my' = [my EXCEPT ![p].step = "picked"]
    BY <1>2 DEF WatchBegins, SilentBegins, Go
  <2>2. my[p] \in Local /\ my[p].found = {} /\ my[p].sent = {} /\ p \in Procs
    BY <1>1, <2>1 DEF Inv, ProcOk
  <2> DEFINE x == [my[p] EXCEPT !.saw = paused, !.step = "fetch"]
             y == [my[p] EXCEPT !.step = "picked"]
  <2>3. my' = [my EXCEPT ![p] = x] \/ my' = [my EXCEPT ![p] = y]
    BY <1>1, <2>1, <2>2
  <2>4. /\ x.step = "fetch" /\ x.found = {} /\ x.sent = {}
        /\ y.step = "picked" /\ y.found = {} /\ y.sent = {}
    BY <2>2 DEF Local
  <2> HIDE DEF x, y
  <2> QED BY <1>1, <2>2, <2>3, <2>4, QuietStepsOnce
<1>3. CASE SilentChecks
  <2>1. PICK step \in {"guard", "idle"} : my' = [my EXCEPT ![Silent] = [Idle EXCEPT !.step = step]]
    BY <1>3 DEF SilentChecks
  <2> DEFINE x == [Idle EXCEPT !.step = step]
  <2>2. my' = [my EXCEPT ![Silent] = x] /\ x.step = step /\ x.found = {} /\ x.sent = {}
    BY <2>1 DEF Idle
  <2> HIDE DEF x
  <2> QED BY <1>1, <2>2, QuietStepsOnce
<1> QED BY <1>2, <1>3

\* What is found and named by nobody is stored, each message once.
LEMMA RecordOnce ==
  ASSUME Inv, OnceInv, NEW p \in Procs, Record(p)
  PROVE  OnceInv'
<1> USE DEF database, counts
<1> DEFINE m == my[p]
           row(i) == [NewRow("operator", {i}, FALSE) EXCEPT !.at = i]
<1>1. /\ m \in Local /\ m.found \subseteq DOMAIN chat /\ m.step = "record" /\ chat \in Seq(Entry)
      /\ my \in [Procs -> Local] /\ rows \in Seq(Row) /\ UNCHANGED chat /\ ~Clash(m.found)
      /\ m.found \subseteq Nat
  <2>1. chat \in Seq(Entry) /\ m.found \subseteq DOMAIN chat
    BY DEF Inv, ProcOk, Types
  <2>2. m.found \subseteq Nat
    BY <2>1
  <2> QED BY <2>1, <2>2 DEF Inv, ProcOk, Types, Record
<1>2. PICK order \in InOrder(m.found) :
        rows' = rows \o [k \in DOMAIN order |->
                           [NewRow("operator", {order[k]}, FALSE) EXCEPT !.at = order[k]]]
  BY DEF Record
<1> DEFINE new == [k \in DOMAIN order |-> row(order[k])]
<1>3. new \in Seq(Row) /\ \A k \in DOMAIN new : new[k].role = "operator"
  BY <1>1, OperatorRows
<1>4. /\ DOMAIN new = 1..Cardinality(m.found)
      /\ \A k \in DOMAIN new : new[k] = row(order[k]) /\ order[k] \in m.found
      /\ \A k, l \in DOMAIN new : k < l => order[k] < order[l]
  <2> HIDE DEF row
  <2> QED BY DEF InOrder
<1>5. \A i : row(i).mids = {i} /\ row(i).role = "operator"
  BY DEF NewRow
<1> HIDE DEF row
<1>6. \A k, l \in DOMAIN new : order[k] = order[l] => k = l
  <2> SUFFICES ASSUME NEW k \in DOMAIN new, NEW l \in DOMAIN new, order[k] = order[l], k # l
               PROVE  FALSE
    OBVIOUS
  <2>1. DOMAIN new = 1..Len(new) /\ Len(new) \in Nat
    BY <1>3
  <2>2. k < l \/ l < k
    BY <2>1
  <2>3. order[k] \in Nat /\ order[l] \in Nat
    BY <1>1, <1>4
  <2> QED BY <1>4, <2>2, <2>3
<1>7. rows' = rows \o new
  BY <1>2 DEF row
<1>8. \A k \in DOMAIN new : new[k].mids = {order[k]}
  BY <1>4, <1>5
<1> HIDE DEF new
<1>9. /\ RowsGrow /\ ChatGrows /\ \A r \in DOMAIN rows : r \in DOMAIN rows' /\ rows'[r] = rows[r]
  BY <1>1, <1>3, <1>7, RowsAppended DEF Inv
<1>10. \A r \in DOMAIN rows' \ DOMAIN rows : r - Len(rows) \in DOMAIN new /\ rows'[r] = new[r - Len(rows)]
  <2> SUFFICES ASSUME NEW r \in DOMAIN rows', r \notin DOMAIN rows
               PROVE  r - Len(rows) \in DOMAIN new /\ rows'[r] = new[r - Len(rows)]
    OBVIOUS
  <2>1. rows' = rows \o new /\ rows \in Seq(Row) /\ new \in Seq(Row)
    BY <1>1, <1>3, <1>7
  <2> QED BY <2>1
<1>11. \A i \in m.found : i \in DOMAIN chat /\ chat[i].hand # "client" /\ ~TurnText(i)
  BY <1>1 DEF OnceInv, TellsApart
\* Nobody has it yet: what a row does not name is a turn's text.
<1>12. ASSUME NEW i \in m.found, NEW q \in Committed, i \in rows[q].mids
       PROVE  FALSE
  <2>1. \A k \in rows[q].mids : k <= i
    BY <1>11, <1>12 DEF OnceInv, NamesOwn
  <2>2. rows[q].mids \subseteq Nat
    <3>1. rows[q] \in Row
      BY <1>1 DEF Committed
    <3> QED BY <3>1 DEF Row
  <2>3. Max(rows[q].mids) = i
    BY <1>12, <2>1, <2>2, GreatestIsMax
  <2>4. i \in Taken
    BY <1>12, <2>3 DEF Taken
  <2> QED BY <1>1, <1>12, <2>4 DEF Clash
<1>13. ASSUME NEW r \in Committed'
       PROVE  SameNames(r) \/ FreshNames(r, {p})
  <2>1. CASE r \in DOMAIN rows
    BY <1>9, <1>13, <2>1 DEF SameNames, Committed
  <2>2. CASE r \notin DOMAIN rows
    <3> DEFINE k == r - Len(rows)
    <3>1. k \in DOMAIN new /\ rows'[r] = new[k] /\ r \in DOMAIN rows'
      BY <1>10, <2>2 DEF Committed
    <3> HIDE DEF k
    <3>2. rows'[r].mids = {order[k]} /\ rows'[r].role = "operator" /\ order[k] \in m.found
      BY <1>3, <1>4, <1>8, <3>1
    <3>3. NamesOwn(r)'
      <4> DEFINE i == order[k]
      <4>1. i \in DOMAIN chat /\ chat[i].hand # "client" /\ ~TurnText(i) /\ i \in Nat
        BY <1>1, <1>11, <3>2
      <4>2. rows'[r].mids = {i} /\ rows'[r].role = "operator" /\ chat' = chat
        BY <1>1, <3>2
      <4> HIDE DEF i
      <4> QED BY <4>1, <4>2 DEF NamesOwn, TurnText
    <3>4. ASSUME NEW q \in Committed', q # r
          PROVE  rows'[q].mids \cap rows'[r].mids = {}
      <4>1. CASE q \in DOMAIN rows
        <5>1. q \in Committed /\ rows'[q] = rows[q]
          BY <1>9, <3>4, <4>1 DEF Committed
        <5> QED BY <1>12, <3>2, <5>1
      <4>2. CASE q \notin DOMAIN rows
        <5> DEFINE l == q - Len(rows)
        <5>1. l \in DOMAIN new /\ rows'[q] = new[l] /\ q \in DOMAIN rows'
          BY <1>10, <4>2 DEF Committed
        <5>2. l # k
          <6>1. q \in Nat /\ r \in Nat /\ Len(rows) \in Nat
            <7>1. DOMAIN rows' = 1..Len(rows') /\ Len(rows') \in Nat
              BY <1>1, <1>3, <1>7
            <7> QED BY <1>1, <3>1, <5>1, <7>1
          <6> QED BY <3>4, <6>1 DEF k
        <5> HIDE DEF l
        <5>3. rows'[q].mids = {order[l]}
          BY <1>8, <5>1
        <5> QED BY <1>6, <3>1, <3>2, <5>1, <5>2, <5>3
      <4> QED BY <4>1, <4>2
    <3>5. \A j \in rows'[r].mids : chat'[j].hand # "client"
      BY <1>1, <1>11, <3>2
    <3> QED BY <3>3, <3>4, <3>5 DEF FreshNames
  <2> QED BY <2>1, <2>2
<1>14. \/ my' = [my EXCEPT ![p] = [Idle EXCEPT !.step = "done"]]
       \/ my' = [my EXCEPT ![p] = Idle]
  BY DEF Record
<1>15. /\ my'[p] = [Idle EXCEPT !.step = "done"] \/ my'[p] = Idle
       /\ \A q \in Procs \ {p} : my'[q] = my[q]
  BY <1>1, <1>14
<1>16. TellsApart(p)' /\ ~Pending(p)'
  BY <1>15, EndType, IdleType, QuietTells
<1>17. \A i \in DOMAIN chat' : i \in DOMAIN chat
  BY <1>1
<1> QED BY <1>9, <1>13, <1>15, <1>16, <1>17, OneMoves

\* MAX takes a piece: it is of the row of its part.
LEMMA MaxTakesOnce ==
  ASSUME Inv, OnceInv, NEW p \in Events \cup {Silent}, MaxTakes(p)
  PROVE  OnceInv'
<1> USE DEF database, counts
<1> DEFINE m == my[p]
           part == Head(m.parts)
           last == LastPiece(part)
           entry == [hand |-> IF p = Silent THEN "silent" ELSE "turn", word |-> Word(part)]
<1>1. /\ p \in Procs /\ p # Watch /\ (p = Silent => p \notin Events)
      /\ m \in Local /\ my \in [Procs -> Local] /\ chat \in Seq(Entry) /\ rows \in Seq(Row)
      /\ Len(chat) \in Nat /\ m.step = "send"
      /\ (p \in Events => TurnOk(p, m)) /\ (p = Silent => SilentOk(m)) /\ TellsApart(p)
      /\ m.found \subseteq DOMAIN chat /\ m.sent \subseteq DOMAIN chat
  <2>1. p \in Procs /\ p # Watch /\ (p = Silent => p \notin Events)
    BY Constants DEF Procs
  <2>2. ProcOk(p, m) /\ m.step = "send" /\ my \in [Procs -> Local] /\ chat \in Seq(Entry)
        /\ rows \in Seq(Row) /\ TellsApart(p)
    BY <2>1 DEF Inv, Types, MaxTakes, OnceInv
  <2>3. m.found \subseteq DOMAIN chat /\ m.sent \subseteq DOMAIN chat
    BY <2>1, InReach
  <2> HIDE DEF m
  <2>4. m \in Local /\ (p \in Events => TurnOk(p, m)) /\ (p = Silent => SilentOk(m))
    BY <2>2 DEF ProcOk
  <2>5. Len(chat) \in Nat
    BY <2>2
  <2> QED BY <2>1, <2>2, <2>3, <2>4, <2>5 DEF m
<1>2. m.parts \in Seq(Part) /\ m.parts # <<>>
  BY <1>1 DEF Local, TurnOk, SilentOk, Speaks
<1>3. /\ 1 \in DOMAIN m.parts /\ part = m.parts[1] /\ part \in Part
      /\ DOMAIN m.parts = 1..Len(m.parts) /\ Len(m.parts) \in Nat
  BY <1>2
<1>4. part.row \in DOMAIN rows /\ Unnamed(part.row) /\ (p # Silent => ~rows[part.row].open)
  BY <1>1, <1>3 DEF TurnOk, SilentOk, Unnamed
<1>5. entry.word \in {0, part.row} /\ entry.hand = (IF p = Silent THEN "silent" ELSE "turn")
  BY DEF Word
<1>6. PICK named \in {TRUE, last} :
        my' = [my EXCEPT ![p].sent = IF named THEN @ \cup {Len(chat) + 1} ELSE @,
                         ![p].parts[1].pieces = IF last THEN 1 ELSE @ - 1,
                         ![p].step = IF last THEN "mark" ELSE "send"]
  BY DEF MaxTakes
<1>7. chat' = Append(chat, entry) /\ UNCHANGED rows
  BY DEF MaxTakes
<1> HIDE DEF entry, last
<1> DEFINE x == [m EXCEPT !.sent = IF named THEN @ \cup {Len(chat) + 1} ELSE @,
                          !.parts[1].pieces = IF last THEN 1 ELSE @ - 1,
                          !.step = IF last THEN "mark" ELSE "send"]
<1>8. my' = [my EXCEPT ![p] = x]
  BY <1>1, <1>6
<1>9. /\ x.sent \in {m.sent, m.sent \cup {Len(chat) + 1}} /\ x.found = m.found
      /\ x.step = IF last THEN "mark" ELSE "send"
  BY <1>1 DEF Local
<1>10. x.parts[1].row = m.parts[1].row
  <2>1. x.parts = [m.parts EXCEPT ![1].pieces = IF last THEN 1 ELSE @ - 1]
    BY <1>1 DEF Local
  <2> HIDE DEF x, m
  <2>2. x.parts[1] = [m.parts[1] EXCEPT !.pieces = IF last THEN 1 ELSE @ - 1]
    BY <1>3, <2>1
  <2> QED BY <1>3, <2>2 DEF Part
<1> HIDE DEF x
<1>11. my'[p] = x /\ \A q \in Procs \ {p} : my'[q] = my[q]
  BY <1>1, <1>8
<1>12. /\ \A i \in DOMAIN chat : i \in DOMAIN chat' /\ chat'[i] = chat[i]
       /\ \A i \in DOMAIN chat' : i \in DOMAIN chat \/ i = Len(chat) + 1
       /\ Len(chat) + 1 \in DOMAIN chat' /\ chat'[Len(chat) + 1] = entry
  BY <1>1, <1>7
<1>13. ChatGrows /\ RowsGrow /\ Unnaming
  BY <1>7, <1>12, RowsKept DEF ChatGrows
<1>14. p = Silent => last /\ m.sent = {}
  BY <1>1, <1>3 DEF SilentOk, TellsApart, LastPiece, last
<1>15. TellsApart(p)' /\ ~Pending(p)'
  <2>1. \A i \in m.found : chat'[i].hand # "client" /\ ~TurnText(i)'
    BY <1>1, <1>12 DEF TellsApart, TurnText
  <2>2. ASSUME NEW j \in x.sent
        PROVE  /\ chat'[j].hand = (IF p = Silent THEN "silent" ELSE "turn")
               /\ chat'[j].word \in {0, x.parts[1].row}
    <3>1. CASE j = Len(chat) + 1
      BY <1>3, <1>5, <1>10, <1>12, <3>1
    <3>2. CASE j \in m.sent
      <4>1. chat'[j] = chat[j]
        BY <1>1, <1>12, <3>2
      <4> QED BY <1>1, <1>10, <3>2, <4>1 DEF TellsApart
    <3> QED BY <1>9, <2>2, <3>1, <3>2
  <2>3. p = Silent => x.step = "mark" /\ \A j, k \in x.sent : j = k
    BY <1>9, <1>14
  <2>4. ~Pending(p)'
    BY <1>9, <1>11 DEF Pending
  <2> QED BY <1>9, <1>11, <2>1, <2>2, <2>3, <2>4 DEF TellsApart
<1>16. ASSUME NEW i \in DOMAIN chat', TurnText(i)'
       PROVE  i \in DOMAIN chat \/ (chat'[i].word \in Committed' /\ rows'[chat'[i].word].role = "ai")
  <2>1. CASE i = Len(chat) + 1
    <3>1. entry.hand = "turn" /\ entry.word = part.row
      BY <1>5, <1>12, <1>16, <2>1 DEF TurnText
    <3>2. p # Silent
      BY <1>5, <3>1
    <3> QED BY <1>4, <1>7, <1>12, <2>1, <3>1, <3>2 DEF Unnamed, Committed
  <2> QED BY <1>12, <2>1
<1>17. \A r \in Committed' : SameNames(r) \/ FreshNames(r, {p})
  BY <1>13, NothingNamed
<1> QED BY <1>1, <1>11, <1>13, <1>15, <1>16, <1>17, OneMoves

\* A row of ours gets the messages that carry it, unless the last has been taken.
LEMMA NamedOnce ==
  ASSUME Inv, OnceInv, UNCHANGED chat, NEW p \in Procs, NEW r \in DOMAIN rows, Unnamed(r),
         RowsGrow, r \in Committed', rows'[r].role = "ai",
         rows'[r].mids = my[p].sent, my[p].sent \subseteq Nat, OurOwn(my[p].sent, TRUE),
         \A q \in Committed' \ {r} : q \in Committed /\ rows'[q] = rows[q] /\ rows[q] \in Row,
         \A j \in my[p].sent : chat[j].word \in {0, r},
         p = Silent => \A j, k \in my[p].sent : j = k,
         p # Silent => \A j \in my[p].sent : chat[j].hand = "turn",
         \A j \in my[p].sent : (\A i \in my[p].sent : i <= j) => j \notin Taken
  PROVE  FreshNames(r, {p})
<1> DEFINE sent == my[p].sent
<1>1. \A j \in sent : /\ j \in DOMAIN chat /\ chat[j].hand \in {"turn", "silent"}
                      /\ TurnText(j) \/ \A i \in sent : i <= j
  BY DEF OurOwn, FromUs, TurnText
<1>2. NamesOwn(r)'
  BY <1>1 DEF NamesOwn, TurnText
<1>3. ASSUME NEW q \in Committed', q # r, NEW j \in sent, j \in rows[q].mids
      PROVE  FALSE
  <2>1. q \in Committed /\ NamesOwn(q) /\ rows[q].mids \subseteq Nat
    <3>1. q \in Committed /\ rows[q] \in Row
      BY <1>3
    <3> QED BY <3>1 DEF OnceInv, Row
  <2>2. CASE TurnText(j)
    <3>1. chat[j].word = r /\ rows[q].role # "client" /\ rows[q].role # "operator"
      BY <1>1, <1>3, <2>1, <2>2 DEF TurnText, NamesOwn
    <3>2. rows[q].role = "ai"
      <4>1. rows[q] \in Row /\ rows[q].role # "gone"
        BY <1>3, <2>1 DEF Committed
      <4> QED BY <3>1, <4>1 DEF Row, Roles
    <3> QED BY <1>3, <2>1, <2>2, <3>1, <3>2 DEF NamesOwn, TurnText
  <2>3. CASE ~TurnText(j)
    <3>1. \A k \in rows[q].mids : k <= j
      BY <1>3, <2>1, <2>3 DEF NamesOwn
    <3>2. Max(rows[q].mids) = j
      BY <1>3, <2>1, <3>1, GreatestIsMax
    <3>3. j \in Taken
      BY <1>3, <2>1, <3>2 DEF Taken
    <3> QED BY <1>1, <1>3, <2>3, <3>3
  <2> QED BY <2>2, <2>3
<1>4. \A q \in Committed' : q # r => rows'[q].mids \cap rows'[r].mids = {}
  BY <1>3
<1> QED BY <1>1, <1>2, <1>4 DEF FreshNames

\* The mark of a delivered part.
LEMMA MarkOnce ==
  ASSUME Inv, OnceInv, Inv', NEW e \in Events, MarkDelivered(e)
  PROVE  OnceInv'
<1> USE DEF database, counts
<1> DEFINE m == my[e]
           row == Head(m.parts).row
<1>1. /\ e \in Procs /\ e # Silent /\ m \in Local /\ TurnOk(e, m) /\ m.step = "mark" /\ TellsApart(e)
      /\ my \in [Procs -> Local] /\ chat \in Seq(Entry) /\ rows \in Seq(Row) /\ UNCHANGED chat
      /\ OurOwn(m.sent, TRUE)
  <2>1. e \in Procs /\ e # Silent
    BY Constants DEF Procs
  <2>2. ProcOk(e, m) /\ m.step = "mark" /\ my \in [Procs -> Local] /\ chat \in Seq(Entry)
        /\ rows \in Seq(Row) /\ UNCHANGED chat /\ TellsApart(e)
    BY <2>1 DEF Inv, Types, MarkDelivered, OnceInv
  <2>3. OurOwn(m.sent, TRUE)
    BY <2>2 DEF ProcOk
  <2>4. m \in Local /\ TurnOk(e, m)
    BY <2>2 DEF ProcOk
  <2> QED BY <2>1, <2>2, <2>3, <2>4
<1>2. m.parts \in Seq(Part) /\ m.parts # <<>> /\ m.sent \subseteq Nat
  BY <1>1 DEF TurnOk, Speaks, Local
<1>3. 1 \in DOMAIN m.parts /\ row = m.parts[1].row
  BY <1>2
<1>4. row \in DOMAIN rows /\ Unnamed(row) /\ ~rows[row].open /\ rows[row] \in Row
      /\ rows[row].role = "ai" /\ row \in Committed
  BY <1>1, <1>3 DEF TurnOk, Unnamed, Committed
<1>5. \/ rows' = rows
      \/ Max(m.sent) \notin Taken /\ rows' = [rows EXCEPT ![row].mids = m.sent]
  BY DEF MarkDelivered
<1> HIDE DEF row
<1>6. ChatGrows /\ \A i \in DOMAIN chat' : i \in DOMAIN chat
  BY <1>1 DEF ChatGrows
<1>7. RowsGrow /\ \A r \in Committed' : SameNames(r) \/ FreshNames(r, {e})
  <2>1. CASE rows' = rows
    BY <2>1, RowsKept, NothingNamed
  <2>2. CASE Max(m.sent) \notin Taken /\ rows' = [rows EXCEPT ![row].mids = m.sent]
    <3>1. [rows[row] EXCEPT !.mids = m.sent] = [rows[row] EXCEPT !.open = FALSE, !.mids = m.sent]
      BY <1>4 DEF Row
    <3>2. rows' = [rows EXCEPT ![row] = [@ EXCEPT !.open = FALSE, !.mids = m.sent]]
      BY <1>1, <1>4, <2>2, <3>1
    <3>3. RowsGrow
      <4> HIDE DEF m
      <4> QED BY <1>1, <1>2, <1>4, <3>2, RowNamed DEF Inv
    <3>4. /\ row \in Committed' /\ rows'[row].mids = m.sent /\ rows'[row].role = "ai"
          /\ \A q \in Committed' \ {row} : q \in Committed /\ rows'[q] = rows[q] /\ rows[q] \in Row
      <4>1. rows'[row] = [rows[row] EXCEPT !.mids = m.sent] /\ DOMAIN rows' = DOMAIN rows
            /\ \A q \in DOMAIN rows \ {row} : rows'[q] = rows[q] /\ rows[q] \in Row
        BY <1>1, <1>4, <2>2
      <4>2. rows'[row].mids = m.sent /\ rows'[row].role = "ai" /\ ~rows'[row].open
        BY <1>4, <4>1 DEF Row
      <4> QED BY <1>4, <4>1, <4>2 DEF Committed
    <3>5. \A j \in m.sent : (\A i \in m.sent : i <= j) => j \notin Taken
      BY <1>2, <2>2, GreatestIsMax
    <3>6. \A j \in m.sent : chat[j].word \in {0, row} /\ chat[j].hand = "turn"
      BY <1>1, <1>3 DEF TellsApart
    <3>7. FreshNames(row, {e})
      BY <1>1, <1>2, <1>4, <3>3, <3>4, <3>5, <3>6, NamedOnce
    <3>8. \A r \in Committed' : r # row => SameNames(r)
      BY <3>4 DEF SameNames
    <3> QED BY <3>3, <3>7, <3>8
  <2> QED BY <1>5, <2>1, <2>2
<1>8. \A q \in Procs \ {e} : my'[q] = my[q]
  BY <1>1 DEF MarkDelivered, EndTurn, End
<1>9. TellsApart(e)' /\ ~Pending(e)'
  <2>1. CASE Len(m.parts) = 1
    <3>1. my'[e] = [Idle EXCEPT !.step = "done"]
      BY <1>1, <2>1 DEF MarkDelivered, EndTurn, End
    <3> QED BY <3>1, EndType, QuietTells
  <2>2. CASE Len(m.parts) # 1
    <3> DEFINE x == [m EXCEPT !.parts = Tail(@), !.sent = {}, !.step = "send"]
    <3>1. my'[e] = x
      BY <1>1, <2>2 DEF MarkDelivered
    <3>2. x.sent = {} /\ x.step = "send" /\ x.found = m.found
      BY <1>1 DEF Local
    <3> HIDE DEF x
    <3> QED BY <1>1, <3>1, <3>2 DEF TellsApart, Pending, TurnText
  <2> QED BY <2>1, <2>2
<1> QED BY <1>1, <1>6, <1>7, <1>8, <1>9, OneMoves

\* The silent greeting makes its row, commits it, or gives it up.
LEMMA SilentOnce ==
  ASSUME Inv, OnceInv, SilentComposes \/ SilentCommits \/ SilentFails
  PROVE  OnceInv'
<1> USE DEF database, counts
<1> DEFINE m == my[Silent]
           row == Head(m.parts).row
<1>1. /\ Silent \in Procs /\ my \in [Procs -> Local] /\ chat \in Seq(Entry) /\ rows \in Seq(Row)
      /\ UNCHANGED chat
  BY DEF Inv, Procs, Types, SilentComposes, SilentCommits, SilentFails
<1>2. ProcOk(Silent, m) /\ TellsApart(Silent) /\ m \in Local /\ SilentOk(m)
  <2>1. ProcOk(Silent, m) /\ TellsApart(Silent)
    BY <1>1 DEF Inv, OnceInv
  <2> QED BY <1>1, <2>1 DEF ProcOk
<1>3. CASE SilentComposes
  <2> DEFINE new == NewRow("ai", {}, TRUE)
             x == [m EXCEPT !.step = "send",
                            !.parts = <<[row |-> Len(rows) + 1, pieces |-> 1, picture |-> FALSE]>>]
  <2>1. rows' = Append(rows, new) /\ my' = [my EXCEPT ![Silent] = x] /\ m.step = "compose"
    BY <1>1, <1>3 DEF SilentComposes
  <2>2. new \in Row /\ new.mids = {} /\ new.role = "ai" /\ new.at = Len(chat)
    <3>1. Len(chat) \in Nat
      BY <1>1
    <3> QED BY <3>1 DEF NewRow, Row, Roles
  <2> HIDE DEF new
  <2>3. <<new>> \in Seq(Row) /\ DOMAIN <<new>> = {1} /\ <<new>>[1] = new /\ rows' = rows \o <<new>>
    BY <1>1, <2>1, <2>2
  <2>4. RowsGrow /\ \A r \in DOMAIN rows : r \in DOMAIN rows' /\ rows'[r] = rows[r]
    BY <1>1, <2>2, <2>3, RowsAppended DEF Inv
  <2>5. \A r \in DOMAIN rows' \ DOMAIN rows : rows'[r] = new
    BY <1>1, <2>1, <2>2
  <2>6. Unnaming
    BY <2>2, <2>4, <2>5 DEF Unnaming, SameNames, Committed
  <2>7. x.step = "send" /\ x.found = {} /\ x.sent = {}
    BY <1>2, <2>1 DEF Local, ProcOk
  <2> HIDE DEF x
  <2> QED BY <1>1, <2>1, <2>4, <2>6, <2>7, CalmOnce
<1>4. CASE Rollback /\ my' = [my EXCEPT ![Silent] = Idle]
  <2>1. RowsGrow /\ Unnaming
    BY <1>1, <1>4, RolledBackOnce
  <2> QED BY <1>1, <1>4, <2>1, IdleType, CalmOnce
<1>5. CASE /\ SilentCommits /\ ~Clash(m.sent)
           /\ rows' = [rows EXCEPT ![row] = [@ EXCEPT !.open = FALSE, !.mids = m.sent]]
  <2>1. m.step = "mark" /\ OurOwn(m.sent, TRUE) /\ my' = [my EXCEPT ![Silent] = Idle]
    <3>1. m.step = "mark" /\ my' = [my EXCEPT ![Silent] = Idle]
      BY <1>5 DEF SilentCommits
    <3> QED BY <1>2, <3>1 DEF ProcOk
  <2>2. m.parts \in Seq(Part) /\ m.parts # <<>> /\ m.sent \in SUBSET Nat
    BY <1>2, <2>1 DEF Local, SilentOk
  <2>3. 1 \in DOMAIN m.parts /\ row = m.parts[1].row
    BY <2>2
  <2>4. row \in DOMAIN rows /\ Unnamed(row) /\ rows[row] \in Row /\ rows[row].role = "ai"
    BY <1>1, <1>2, <2>3 DEF SilentOk, Unnamed
  <2>5. \A j \in m.sent : chat[j].word \in {0, row} /\ j \notin Taken
    BY <1>2, <1>5, <2>3 DEF TellsApart, Clash
  <2> HIDE DEF row
  <2>6. RowsGrow
    <3> HIDE DEF m
    <3> QED BY <1>1, <1>5, <2>1, <2>2, <2>4, RowNamed DEF Inv
  <2>7. /\ row \in Committed' /\ rows'[row].mids = m.sent /\ rows'[row].role = "ai"
        /\ \A q \in Committed' \ {row} : q \in Committed /\ rows'[q] = rows[q] /\ rows[q] \in Row
    <3>1. rows'[row] = [rows[row] EXCEPT !.open = FALSE, !.mids = m.sent] /\ DOMAIN rows' = DOMAIN rows
          /\ \A q \in DOMAIN rows \ {row} : rows'[q] = rows[q] /\ rows[q] \in Row
      BY <1>1, <1>5, <2>4
    <3>2. rows'[row].mids = m.sent /\ rows'[row].role = "ai" /\ ~rows'[row].open
      BY <2>4, <3>1 DEF Row
    <3> QED BY <2>4, <3>1, <3>2 DEF Committed
  <2>8. \A j, k \in m.sent : j = k
    BY <1>2 DEF TellsApart
  <2>9. FreshNames(row, {Silent})
    BY <1>1, <2>1, <2>2, <2>4, <2>5, <2>6, <2>7, <2>8, NamedOnce
  <2>10. \A r \in Committed' : SameNames(r) \/ FreshNames(r, {Silent})
    BY <2>7, <2>9 DEF SameNames
  <2>11. my'[Silent] = Idle /\ \A q \in Procs \ {Silent} : my'[q] = my[q]
    BY <1>1, <2>1
  <2>12. TellsApart(Silent)' /\ ~Pending(Silent)'
    BY <2>11, IdleType, QuietTells
  <2>13. ChatGrows /\ \A i \in DOMAIN chat' : i \in DOMAIN chat
    BY <1>1 DEF ChatGrows
  <2> QED BY <1>1, <2>6, <2>10, <2>11, <2>12, <2>13, OneMoves
<1> QED BY <1>3, <1>4, <1>5 DEF SilentCommits, SilentFails

LEMMA InitOnce == Init => OnceInv
<1> SUFFICES ASSUME Init PROVE OnceInv
  OBVIOUS
<1>1. Committed = {} /\ DOMAIN chat = {}
  BY DEF Init, Committed
<1>2. ASSUME NEW p \in Procs
      PROVE  TellsApart(p) /\ ~Pending(p)
  <2>1. my[p] = Idle
    BY DEF Init
  <2> QED BY <2>1, IdleType DEF TellsApart, Pending
<1>3. \A p \in Events : ~Pending(p)
  BY <1>2 DEF Procs
<1> QED BY <1>1, <1>2, <1>3 DEF OnceInv, StoredOnce, TalkInv

LEMMA NextOnce == Inv /\ Inv' /\ LookbackReaches /\ OnceInv /\ [Next]_vars => OnceInv'
<1> SUFFICES ASSUME Inv, Inv', LookbackReaches, OnceInv, [Next]_vars PROVE OnceInv'
  OBVIOUS
<1>0. Watch \in Procs /\ Silent \in Procs /\ Events \subseteq Procs
  BY DEF Procs
<1>1. CASE UNCHANGED vars \/ ManagerWrites \/ HandBack
  BY <1>1, NobodyMovesOnce
<1>2. CASE Crash
  BY <1>2, CrashOnce
<1>3. CASE \E e \in Events : EventComes(e) \/ EventStep(e)
  <2> PICK e \in Events : EventComes(e) \/ EventStep(e)
    BY <1>3
  <2>1. CASE EventComes(e) \/ FirstCheck(e) \/ Store(e)
    BY <2>1, EventComesOnce, FirstCheckOnce, StoreOnce
  <2>2. CASE StoreClashes(e) \/ Enter(e) \/ Decide(e) \/ NothingToSay(e) \/ MaxRefuses(e)
    BY <2>2, TurnBeginsOnce
  <2>3. CASE Write(e)
    BY <2>3, WriteOnce
  <2>4. CASE Check(e)
    BY <1>0, <2>4, ChecksOnce, RecordOnce DEF Check
  <2>5. CASE MaxTakes(e) \/ MarkDelivered(e)
    BY <2>5, MaxTakesOnce, MarkOnce
  <2> QED BY <2>1, <2>2, <2>3, <2>4, <2>5 DEF EventStep
<1>4. CASE WatchStep
  BY <1>0, <1>4, ChecksOnce, RecordOnce, PassesBeginOnce DEF WatchStep
<1>5. CASE SilentStep
  <2>1. CASE SilentBegins \/ SilentChecks
    BY <2>1, PassesBeginOnce
  <2>2. CASE Check(Silent)
    BY <1>0, <2>2, ChecksOnce, RecordOnce DEF Check
  <2>3. CASE MaxTakes(Silent)
    BY <2>3, MaxTakesOnce
  <2>4. CASE SilentComposes \/ SilentCommits \/ SilentFails
    BY <2>4, SilentOnce
  <2> QED BY <1>5, <2>1, <2>2, <2>3, <2>4 DEF SilentStep
<1> QED BY <1>1, <1>2, <1>3, <1>4, <1>5 DEF Next

LEMMA OnceInvariance == Spec /\ []LookbackReaches => []OnceInv
<1>1. Init => Inv /\ OnceInv
  BY InitInv, InitOnce
<1>2. Inv /\ OnceInv /\ LookbackReaches /\ [Next]_vars => Inv' /\ OnceInv'
  BY NextInv, NextOnce
<1> QED BY <1>1, <1>2, PTL DEF Spec

\* As long as the rows looked up reach back as far as the messages read, no two rows
\* are of one message of the chat, whoever stores it: an event, a guard, the watcher,
\* a turn or the silent greeting (uq_message_dialog_external_id, which knows of the
\* last piece of a message only).
THEOREM MessagesAreStoredOnce == Spec /\ []LookbackReaches => []StoredOnce
<1>1. OnceInv => StoredOnce
  BY DEF OnceInv
<1> QED BY <1>1, OnceInvariance, PTL

\* ... and no words a turn has sent are stored as a manager's, in however many pieces
\* they went out, and whether or not their row was ever marked (_our_outgoing,
\* _partition).
THEOREM NoTakeoverByOwnWords == Spec /\ []LookbackReaches => []NoSelfTakeover
<1>1. OnceInv => NoSelfTakeover
  <2> SUFFICES ASSUME OnceInv, NEW i \in DOMAIN chat, NEW r \in Operators, i \in rows[r].mids
               PROVE  chat[i].hand # "turn" \/ chat[i].word = 0
    BY DEF NoSelfTakeover, Recorded
  <2>1. NamesOwn(r) /\ rows[r].role = "operator"
    BY DEF Operators, OnceInv
  <2> QED BY <2>1 DEF NamesOwn, TurnText
<1> QED BY <1>1, OnceInvariance, PTL

=============================================================================
