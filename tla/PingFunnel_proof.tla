-------------------------- MODULE PingFunnel_proof --------------------------
(* Theorems about PingFunnel, for any sessions, steps, misfires, acts,      *)
(* passes of discovery and restarts.                                        *)
EXTENDS PingFunnel, FiniteSetTheorems, TLAPS

\* The variables whose types no step puts in doubt.
PlainTypes ==
  /\ paused \in BOOLEAN /\ blocked \in BOOLEAN /\ hot \in BOOLEAN
  /\ foreign \in BOOLEAN /\ excused \in BOOLEAN /\ twice \in BOOLEAN
  /\ last \in {"client", "ai", "curator"}
  /\ lastPing \in Rules \cup {None}
  /\ sent \subseteq Rules
  /\ acts \in Nat /\ passes \in Nat /\ crashes \in Nat

TxType == [at : {"idle", "begun", "touch"}, kind : Kinds \cup {"none"}, read : FunnelType]
WorkerType ==
  [at : {"idle", "loaded", "guard", "asked", "agent", "send", "sent", "refused"},
   paused : BOOLEAN, blocked : BOOLEAN, hot : BOOLEAN, pick : Rules \cup {0}]
DiscType == [at : {"idle", "selected", "detect", "batch"}, deletes : BOOLEAN,
             inserts : BOOLEAN, answered : BOOLEAN]

\* What the worker sends is a step with a rule.
PickInv == worker.at \in {"send", "sent", "refused"} => worker.pick \in Rules

\* An open funnel is a row of the table.
OpenInv == ~funnel.done => funnel.id # 0

\* Discovery has locked what it means to delete or insert.
DiscInv ==
  /\ disc.at \in {"idle", "selected"} => ~disc.deletes /\ ~disc.inserts
  /\ disc.deletes \/ disc.inserts => rowState = Discover

\* A session that writes the dialog first holds it while it knows the funnel: what it has
\* read is what is there, and nobody revives it -- unless discovery has passed it by.
Knows(read) ==
  funnel.id # 0 /\ funnel.clean => funnel.id = read.id /\ (read.done => funnel.done)
ReadInv ==
  \A s \in Sessions :
    tx[s].at = "touch" /\ tx[s].kind \notin StateOnly => rowDialog = s /\ Knows(tx[s].read)

\* An answer deletes the funnel, or it was planned past it.
AnswerInv == funnel.clean => ~funnel.answered

\* From the worker's look at the dialog to the sending.
Looked == \/ worker.at = "loaded" /\ ~worker.paused
          \/ worker.at \in {"asked", "agent", "send"}
PausedInv == Looked /\ funnel.clean => ~paused

Types == /\ PlainTypes /\ funnel \in FunnelType /\ tx \in [Sessions -> TxType]
         /\ rowDialog \in Sessions \cup {NoOne} /\ rowState \in {Worker, Discover, NoOne}
         /\ worker \in WorkerType /\ disc \in DiscType

Inv == /\ Types /\ PickInv /\ OpenInv /\ WorkerKeepsItsRow /\ DiscInv
       /\ ReadInv /\ AnswerInv /\ PausedInv
-----------------------------------------------------------------------------
(* Operators *)

\* A smallest number: the sets of what is below a number of S have a smallest.
LEMMA Smallest ==
  ASSUME NEW S, S \subseteq Nat, IsFiniteSet(S), S # {}
  PROVE  \E m \in S : \A n \in S : m <= n
<1> DEFINE R == {ss \in Nat \X Nat : ss[1] < ss[2]}
<1>1. IsWellFoundedOn(R, Nat)
  BY NatLessThanWellFounded DEF OpToRel
<1>2. PICK m \in S : \A n \in S : ~(<<n, m>> \in R)
  <2> HIDE DEF R
  <2> QED BY <1>1, WFMin
<1>3. ASSUME NEW n \in S
      PROVE  m <= n
  <2>1. n \in Nat /\ m \in Nat
    OBVIOUS
  <2>2. n < m => <<n, m>> \in R
    BY <2>1
  <2> HIDE DEF R
  <2> QED BY <1>2, <2>1, <2>2
<1> QED BY <1>3

\* The next rule, if there is one, is one of the rules; a funnel has a first.
LEMMA NextRuleType ==
  /\ \A s \in Int : NextRule(s) \in Rules \cup {None}
  /\ NextRule(-1) \in Rules
<1>1. Rules \subseteq Nat /\ Rules # {} /\ IsFiniteSet(Rules)
  BY Constants
<1>2. ASSUME NEW s \in Int
      PROVE  /\ NextRule(s) \in Rules \cup {None}
             /\ {r \in Rules : r > s} # {} => NextRule(s) \in Rules
  <2> DEFINE later == {r \in Rules : r > s}
  <2>1. CASE later = {}
    BY <2>1 DEF NextRule
  <2>2. CASE later # {}
    <3>1. later \subseteq Nat /\ IsFiniteSet(later)
      BY <1>1, FS_Subset
    <3>2. \E r \in later : \A q \in later : r <= q
      <4> HIDE DEF later
      <4> QED BY <2>2, <3>1, Smallest
    <3>3. NextRule(s) = CHOOSE r \in later : \A q \in later : r <= q
      BY <2>2 DEF NextRule
    <3>4. NextRule(s) \in later
      <4> HIDE DEF later
      <4> QED BY <3>2, <3>3
    <3> QED BY <3>4
  <2> QED BY <2>1, <2>2
<1>3. {r \in Rules : r > -1} # {}
  <2>1. PICK r \in Rules : TRUE
    BY <1>1
  <2> QED BY <1>1, <2>1
<1> QED BY <1>2, <1>3

\* There is always a new id: sessions and the table remember too few to use them up.
LEMMA FreshIdType ==
  ASSUME TypeOK
  PROVE  /\ FreshId \in Nat /\ FreshId # 0 /\ FreshId # funnel.id
         /\ \A s \in Sessions : FreshId # tx[s].read.id
<1> DEFINE f    == [s \in Sessions |-> tx[s].read.id]
           read == {f[s] : s \in Sessions}
           used == read \cup {funnel.id}
           N    == Cardinality(Sessions) + 2
<1>1. IsFiniteSet(Sessions) /\ Cardinality(Sessions) \in Nat
  <2>1. IsFiniteSet(Requests)
    BY Constants
  <2>2. IsFiniteSet(Sessions)
    BY <2>1, FS_AddElement DEF Sessions
  <2> QED BY <2>2, FS_CardinalityType
<1>2. IsFiniteSet(read) /\ Cardinality(read) <= Cardinality(Sessions)
  <2>1. f \in Surjection(Sessions, read)
    BY DEF Surjection
  <2> HIDE DEF f, read
  <2> QED BY <1>1, <2>1, FS_Surjection
<1>3. IsFiniteSet(used) /\ Cardinality(used) <= Cardinality(Sessions) + 1
  <2> HIDE DEF f, read
  <2>1. /\ IsFiniteSet(used)
        /\ Cardinality(used) = IF funnel.id \in read THEN Cardinality(read) ELSE Cardinality(read) + 1
    BY <1>2, FS_AddElement
  <2>2. Cardinality(read) \in Nat
    BY <1>2, FS_CardinalityType
  <2> QED BY <1>1, <1>2, <2>1, <2>2
<1>4. \E i \in 1..N : i \notin used
  <2> SUFFICES ASSUME 1..N \subseteq used PROVE FALSE
    OBVIOUS
  <2>1. IsFiniteSet(1..N) /\ Cardinality(1..N) = N
    BY <1>1, FS_Interval
  <2>2. Cardinality(1..N) <= Cardinality(used)
    <3> HIDE DEF used, N
    <3> QED BY <1>3, FS_Subset
  <2>3. Cardinality(used) \in Nat
    <3> HIDE DEF used
    <3> QED BY <1>3, FS_CardinalityType
  <2> HIDE DEF used
  <2> QED BY <1>1, <1>3, <2>1, <2>2, <2>3
<1>5. \E i \in 1..N : i # funnel.id /\ \A s \in Sessions : i # tx[s].read.id
  BY <1>4
<1>6. FreshId \in 1..N /\ FreshId # funnel.id /\ \A s \in Sessions : FreshId # tx[s].read.id
  BY <1>5 DEF FreshId
<1> QED BY <1>1, <1>6

LEMMA NoFunnelType == NoFunnel \in FunnelType
BY DEF NoFunnel, FunnelType

\* A new funnel is an open row nobody has seen, with its history to come.
LEMMA NewFunnelType ==
  ASSUME TypeOK, NEW forced \in BOOLEAN, NEW resumed \in BOOLEAN
  PROVE  LET f == NewFunnel(forced, resumed) IN
         /\ f \in FunnelType /\ f.id = FreshId /\ f.id # 0 /\ f.id # funnel.id
         /\ \A s \in Sessions : f.id # tx[s].read.id
         /\ ~f.done /\ ~f.answered /\ f.clean
<1>1. /\ FreshId \in Nat /\ FreshId # 0 /\ FreshId # funnel.id
      /\ \A s \in Sessions : FreshId # tx[s].read.id
  BY FreshIdType
<1>2. NextRule(-1) \in Nat
  BY NextRuleType, Constants
<1> QED BY <1>1, <1>2 DEF NewFunnel, NoFunnel, FunnelType

\* What HandBack leaves: the row as it was, a new one, or the old one closed or revived.
LEMMA HandBackType ==
  ASSUME TypeOK, NEW s \in Sessions, NEW plan \in HandBack(tx[s].read)
  PROVE  /\ plan \in FunnelType
         /\ \/ plan = tx[s].read
            \/ /\ plan.id # 0 /\ plan.id # funnel.id /\ plan.id # tx[s].read.id
               /\ ~plan.answered /\ plan.clean
            \/ /\ plan.id = tx[s].read.id /\ plan.clean = tx[s].read.clean
               /\ plan.answered = tx[s].read.answered \/ ~plan.answered
<1> DEFINE read == tx[s].read
<1>1. read \in FunnelType
  BY DEF TypeOK
<1>2. lastPing \in Rules \cup {None} /\ Rules \subseteq Nat
  BY Constants DEF TypeOK
<1>3. ASSUME NEW r \in {TRUE, FALSE}
      PROVE  LET f == NewFunnel(r, TRUE) IN
             /\ f \in FunnelType /\ f.id # 0 /\ f.id # funnel.id /\ f.id # read.id
             /\ ~f.answered /\ f.clean
  BY NewFunnelType
<1> DEFINE step == IF lastPing # None THEN NextRule(lastPing)
                   ELSE IF read.step \in Rules THEN read.step ELSE NextRule(-1)
<1>4. step \in Rules \cup {None}
  <2>1. lastPing # None => lastPing \in Int
    BY <1>2
  <2> QED BY <1>2, <2>1, NextRuleType
<1>5. CASE plan = read
  BY <1>1, <1>5
<1>6. CASE plan = NewFunnel(TRUE, TRUE) \/ plan = NewFunnel(FALSE, TRUE)
  BY <1>3, <1>6
<1>7. CASE plan = [read EXCEPT !.done = TRUE]
  BY <1>1, <1>7 DEF FunnelType
<1>8. CASE /\ step # None
           /\ plan = [read EXCEPT !.step = step, !.done = FALSE, !.due = FALSE, !.resumed = TRUE,
                                  !.misfires = 0, !.answered = FALSE]
  <2> HIDE DEF step
  <2>1. step \in Nat
    BY <1>2, <1>4, <1>8
  <2> QED BY <1>1, <1>8, <2>1 DEF FunnelType
<1> QED BY <1>5, <1>6, <1>7, <1>8 DEF HandBack

\* The same of every session, and what the single kinds may do.
LEMMA PlansType ==
  ASSUME TypeOK, NEW s \in Sessions, NEW plan \in Plans(tx[s].kind, tx[s].read)
  PROVE  /\ plan \in FunnelType
         /\ \/ plan = tx[s].read
            \/ plan = NoFunnel
            \/ /\ plan.id # 0 /\ plan.id # funnel.id /\ plan.id # tx[s].read.id
               /\ ~plan.answered /\ plan.clean
            \/ /\ plan.id = tx[s].read.id /\ plan.clean = tx[s].read.clean
               /\ plan.answered = tx[s].read.answered \/ ~plan.answered
         /\ tx[s].kind \in {"answer", "reset"} => plan = NoFunnel
         /\ tx[s].kind \in {"takeover", "watch", "stopped"} => plan = [tx[s].read EXCEPT !.done = TRUE]
<1> DEFINE read == tx[s].read
           kind == tx[s].kind
<1>1. read \in FunnelType
  BY DEF TypeOK
<1>2. CASE kind \in {"answer", "reset"}
  BY <1>2, NoFunnelType DEF Plans
<1>3. CASE kind \in {"takeover", "watch", "stopped", "ordered"}
  <2>1. plan = [read EXCEPT !.done = TRUE]
    BY <1>3 DEF Plans
  <2> QED BY <1>1, <1>3, <2>1 DEF FunnelType
<1>4. CASE kind \in {"prepay", "reply"}
  <2>1. plan \in {NewFunnel(TRUE, FALSE), NoFunnel, read}
    BY <1>4 DEF Plans
  <2>2. CASE plan = NewFunnel(TRUE, FALSE)
    BY <1>4, <2>2, NewFunnelType
  <2> QED BY <1>1, <1>4, <2>1, <2>2, NoFunnelType
<1>5. CASE kind = "giveback"
  <2>1. plan \in HandBack(read)
    BY <1>5 DEF Plans
  <2> QED BY <1>5, <2>1, HandBackType
<1>6. CASE kind \notin {"answer", "reset", "takeover", "watch", "stopped", "ordered", "prepay",
                       "reply", "giveback"}
  <2>1. plan = read
    BY <1>6 DEF Plans
  <2> QED BY <1>1, <1>6, <2>1
<1> QED BY <1>2, <1>3, <1>4, <1>5, <1>6

\* What a commit leaves: nothing new, no row, a new row, or the columns it has changed.
LEMMA WrittenType ==
  ASSUME TypeOK, NEW s \in Sessions, NEW plan \in Plans(tx[s].kind, tx[s].read),
         CanWrite(tx[s].read, plan)
  PROVE  LET f == Written(tx[s].kind, tx[s].read, plan) IN
         /\ f \in FunnelType
         /\ \/ f = funnel
            \/ f = NoFunnel
            \/ f.id # 0 /\ ~f.answered /\ f.clean
            \/ /\ f.id # 0 /\ f.id = funnel.id /\ f.clean = funnel.clean
               /\ f.answered => funnel.answered
<1> DEFINE read == tx[s].read
           kind == tx[s].kind
           f == Written(kind, read, plan)
<1>1. read \in FunnelType /\ funnel \in FunnelType
  BY DEF TypeOK
<1>2. /\ plan \in FunnelType
      /\ \/ plan = read
         \/ plan = NoFunnel
         \/ /\ plan.id # 0 /\ plan.id # funnel.id /\ plan.id # read.id
            /\ ~plan.answered /\ plan.clean
         \/ /\ plan.id = read.id /\ plan.clean = read.clean
            /\ plan.answered = read.answered \/ ~plan.answered
  BY PlansType
<1>3. CASE plan = read
  BY <1>1, <1>3 DEF Written
<1>4. CASE plan # read /\ plan.id = 0
  BY <1>1, <1>4, NoFunnelType DEF Written
<1>5. CASE plan # read /\ plan.id # 0 /\ plan.id # read.id
  <2>1. plan # NoFunnel
    BY <1>5 DEF NoFunnel
  <2>2. f = plan
    BY <1>5 DEF Written
  <2> QED BY <1>2, <1>5, <2>1, <2>2
<1>6. CASE plan # read /\ plan.id # 0 /\ plan.id = read.id
  <2>1. /\ plan # NoFunnel /\ plan.clean = read.clean
        /\ plan.answered = read.answered \/ ~plan.answered
    BY <1>2, <1>6 DEF NoFunnel
  <2>2. funnel.id = read.id
    BY <1>6 DEF CanWrite
  <2> DEFINE pick(c) == IF plan[c] # read[c] \/ (c = "due" /\ kind = "giveback")
                        THEN plan[c] ELSE funnel[c]
  <2>3. f = [c \in DOMAIN funnel |-> pick(c)]
    BY <1>6 DEF Written
  <2>4. DOMAIN funnel = {"id", "step", "done", "due", "forced", "resumed", "misfires",
                         "answered", "clean"}
    BY <1>1 DEF FunnelType
  <2>5. /\ pick("id") = funnel.id /\ pick("clean") = funnel.clean
        /\ pick("answered") => funnel.answered
    BY <1>1, <1>6, <2>1, <2>2 DEF FunnelType
  <2>6. /\ pick("step") \in Nat /\ pick("misfires") \in Nat /\ pick("id") \in Nat
        /\ pick("done") \in BOOLEAN /\ pick("due") \in BOOLEAN /\ pick("forced") \in BOOLEAN
        /\ pick("resumed") \in BOOLEAN /\ pick("answered") \in BOOLEAN /\ pick("clean") \in BOOLEAN
    BY <1>1, <1>2 DEF FunnelType
  <2>7. f = [id |-> pick("id"), step |-> pick("step"), done |-> pick("done"), due |-> pick("due"),
             forced |-> pick("forced"), resumed |-> pick("resumed"),
             misfires |-> pick("misfires"), answered |-> pick("answered"), clean |-> pick("clean")]
    <3> HIDE DEF pick
    <3> QED BY <2>3, <2>4
  <2>8. f \in FunnelType
    <3> HIDE DEF pick, f
    <3> QED BY <2>6, <2>7 DEF FunnelType
  <2> HIDE DEF pick
  <2> QED BY <1>6, <2>2, <2>5, <2>7, <2>8
<1> QED BY <1>3, <1>4, <1>5, <1>6

\* While the worker holds the row nobody changes it.
LEMMA HeldIsKept ==
  ASSUME TypeOK, NEW s \in Sessions, NEW plan \in Plans(tx[s].kind, tx[s].read),
         CanWrite(tx[s].read, plan), ~MustWait(s, plan), rowState = Worker, funnel.id # 0
  PROVE  /\ Written(tx[s].kind, tx[s].read, plan) = funnel
         /\ plan = tx[s].read \/ tx[s].read.id = 0
<1>1. plan = tx[s].read \/ tx[s].read.id = 0
  BY Constants DEF MustWait
<1>2. CASE plan = tx[s].read
  BY <1>2 DEF Written
<1>3. CASE plan # tx[s].read /\ tx[s].read.id = 0
  <2>1. plan.id = 0
    BY <1>3 DEF CanWrite
  <2> QED BY <1>3, <2>1 DEF Written
<1> QED BY <1>1, <1>2, <1>3

-----------------------------------------------------------------------------
(* Steps *)

LEMMA TypesTogether == Types <=> TypeOK
BY DEF Types, TypeOK, PlainTypes, TxType, WorkerType, DiscType

LEMMA RestTypes ==
  /\ NoTx \in TxType /\ AtRest \in WorkerType /\ NoPass \in DiscType
  /\ NoTx.at = "idle" /\ AtRest.at = "idle" /\ NoPass.at = "idle"
  /\ ~NoPass.deletes /\ ~NoPass.inserts
BY NoFunnelType DEF NoTx, AtRest, NoPass, TxType, WorkerType, DiscType

LEMMA InitInv == Init => Inv
<1> SUFFICES ASSUME Init PROVE Inv
  OBVIOUS
<1>1. /\ tx = [s \in Sessions |-> NoTx] /\ worker = AtRest /\ disc = NoPass
      /\ rowDialog = NoOne /\ rowState = NoOne
  BY DEF Init
<1>2. funnel \in FunnelType /\ ~funnel.answered /\ (~funnel.done => funnel.id # 0)
  <2>1. NextRule(-1) \in Nat
    BY NextRuleType, Constants
  <2>2. CASE funnel = NoFunnel
    BY <2>2, NoFunnelType DEF NoFunnel
  <2>3. CASE funnel = [NoFunnel EXCEPT !.id = 1, !.step = NextRule(-1), !.done = FALSE]
    <3>1. funnel = [id |-> 1, step |-> NextRule(-1), done |-> FALSE, due |-> FALSE,
                    forced |-> FALSE, resumed |-> FALSE, misfires |-> 0, answered |-> FALSE,
                    clean |-> TRUE]
      BY <2>3 DEF NoFunnel
    <3> QED BY <2>1, <3>1 DEF FunnelType
  <2> QED BY <2>2, <2>3 DEF Init
<1>3. PlainTypes
  BY Constants DEF Init, PlainTypes, None
<1>4. Types
  BY <1>1, <1>2, <1>3, RestTypes DEF Types
<1>5. \A s \in Sessions : tx[s].at = "idle"
  BY <1>1, RestTypes
<1>6. PickInv /\ WorkerKeepsItsRow /\ PausedInv /\ DiscInv
  BY <1>1, RestTypes DEF PickInv, WorkerKeepsItsRow, PausedInv, Looked, DiscInv
<1>7. OpenInv /\ AnswerInv /\ ReadInv
  BY <1>2, <1>5 DEF OpenInv, AnswerInv, ReadInv
<1> QED BY <1>4, <1>6, <1>7 DEF Inv

\* The worker ends its transaction, whatever it writes.
LEMMA EndsInv ==
  ASSUME Inv, NEW f \in FunnelType, worker.at # "idle", Ends(f), PlainTypes',
         f.id = funnel.id, f.clean = funnel.clean, f.answered = funnel.answered,
         UNCHANGED <<rowDialog, tx, disc>>
  PROVE  Inv'
<1>1. funnel' = f /\ worker' = AtRest /\ rowState' = NoOne
  BY DEF Ends
<1>2. rowState = Worker /\ funnel.id # 0 /\ ~funnel.done
  BY DEF Inv, WorkerKeepsItsRow
<1>3. Types'
  BY <1>1, RestTypes DEF Inv, Types
<1>4. PickInv' /\ WorkerKeepsItsRow' /\ PausedInv'
  BY <1>1, RestTypes DEF PickInv, WorkerKeepsItsRow, PausedInv, Looked
<1>5. DiscInv'
  BY <1>2, Constants DEF Inv, DiscInv
<1>6. OpenInv' /\ AnswerInv'
  BY <1>1, <1>2 DEF Inv, OpenInv, AnswerInv
<1>7. ReadInv'
  <2> SUFFICES ASSUME NEW s \in Sessions, tx[s].at = "touch", tx[s].kind \notin StateOnly
               PROVE  rowDialog = s /\ Knows(tx[s].read)'
    BY DEF ReadInv, StateOnly
  <2>1. rowDialog = s /\ Knows(tx[s].read)
    BY DEF Inv, ReadInv
  <2> QED BY <1>1, <1>2, <2>1 DEF Knows
<1> QED BY <1>3, <1>4, <1>5, <1>6, <1>7 DEF Inv

\* The worker goes on; it may have begun the guard's session.
LEMMA WorkerMovesInv ==
  ASSUME Inv, worker.at # "idle", worker' \in WorkerType, PickInv', Looked' => Looked,
         PlainTypes', tx' \in [Sessions -> TxType],
         \A s \in Sessions : tx'[s].at = "touch" => tx'[s] = tx[s],
         UNCHANGED <<funnel, paused, rowDialog, rowState, disc>>
  PROVE  Inv'
<1>1. Types'
  BY DEF Inv, Types
<1>2. OpenInv' /\ AnswerInv' /\ DiscInv' /\ PausedInv'
  BY DEF Inv, OpenInv, AnswerInv, DiscInv, PausedInv
<1>3. WorkerKeepsItsRow'
  BY DEF Inv, WorkerKeepsItsRow
<1>4. ReadInv'
  BY DEF Inv, ReadInv, Knows
<1> QED BY <1>1, <1>2, <1>3, <1>4 DEF Inv

LEMMA BeginInv ==
  ASSUME Inv, NEW r \in Requests, NEW kind \in Kinds, Begin(r, kind)
  PROVE  Inv'
<1> USE DEF dialog, history, bounds
<1>1. r \in Sessions /\ tx \in [Sessions -> TxType] /\ funnel \in FunnelType
  BY DEF Sessions, Inv, Types
<1>2. PICK new \in TxType :
        /\ tx' = [tx EXCEPT ![r] = new]
        /\ new.at = "touch" => new.kind \in StateOnly
  <2>1. [at |-> "touch", kind |-> kind, read |-> funnel] \in TxType
    BY <1>1 DEF TxType
  <2>2. [at |-> "begun", kind |-> kind, read |-> NoFunnel] \in TxType
    BY NoFunnelType DEF TxType
  <2> QED BY <2>1, <2>2 DEF Begin
<1>3. Types'
  <2>1. PlainTypes'
    BY DEF Begin, Inv, Types, PlainTypes
  <2>2. tx' \in [Sessions -> TxType]
    BY <1>1, <1>2
  <2> QED BY <2>1, <2>2 DEF Begin, Inv, Types
<1>4. PickInv' /\ OpenInv' /\ WorkerKeepsItsRow' /\ DiscInv' /\ AnswerInv' /\ PausedInv'
  BY DEF Begin, Inv, PickInv, OpenInv, WorkerKeepsItsRow, DiscInv, AnswerInv, PausedInv, Looked
<1>5. ReadInv'
  <2> SUFFICES ASSUME NEW s \in Sessions, tx'[s].at = "touch", tx'[s].kind \notin StateOnly
               PROVE  rowDialog' = s /\ Knows(tx[s].read)'
    BY DEF ReadInv, StateOnly
  <2>1. s # r /\ tx'[s] = tx[s]
    BY <1>1, <1>2
  <2> QED BY <2>1 DEF Begin, Inv, ReadInv, Knows
<1> QED BY <1>3, <1>4, <1>5 DEF Inv

LEMMA FlushInv ==
  ASSUME Inv, NEW r \in Sessions, Flush(r)
  PROVE  Inv'
<1> USE DEF dialog, history, bounds
<1>1. tx \in [Sessions -> TxType] /\ funnel \in FunnelType
  BY DEF Inv, Types
<1>2. /\ tx' \in [Sessions -> TxType] /\ tx'[r].read = funnel
      /\ \A s \in Sessions : s # r => tx'[s] = tx[s]
  <2>1. [tx[r] EXCEPT !.at = "touch", !.read = funnel] \in TxType
    BY <1>1 DEF TxType
  <2>2. tx' = [tx EXCEPT ![r] = [tx[r] EXCEPT !.at = "touch", !.read = funnel]]
    BY <1>1 DEF Flush, TxType
  <2> DEFINE new == [tx[r] EXCEPT !.at = "touch", !.read = funnel]
  <2>3. new.read = funnel
    BY <1>1 DEF TxType
  <2> HIDE DEF new
  <2> QED BY <1>1, <2>1, <2>2, <2>3
<1>3. Types'
  BY <1>2 DEF Flush, Inv, Types, PlainTypes
<1>4. PickInv' /\ OpenInv' /\ WorkerKeepsItsRow' /\ DiscInv' /\ AnswerInv' /\ PausedInv'
  BY DEF Flush, Inv, PickInv, OpenInv, WorkerKeepsItsRow, DiscInv, AnswerInv, PausedInv, Looked
<1>5. ReadInv'
  <2> SUFFICES ASSUME NEW s \in Sessions, tx'[s].at = "touch", tx'[s].kind \notin StateOnly
               PROVE  rowDialog' = s /\ Knows(tx[s].read)'
    BY DEF ReadInv, StateOnly
  <2>1. CASE s = r
    BY <1>2, <2>1 DEF Flush, Knows
  <2>2. CASE s # r
    <3>1. tx'[s] = tx[s] /\ rowDialog = NoOne
      BY <1>2, <2>2 DEF Flush
    <3>2. rowDialog = s
      BY <3>1 DEF Inv, ReadInv
    <3> QED BY <3>1, <3>2, Constants
  <2> QED BY <2>1, <2>2
<1> QED BY <1>3, <1>4, <1>5 DEF Inv

\* Who holds the dialogs row when a session has gone.
LEMMA FreedDialog ==
  ASSUME Inv, NEW r \in Sessions, tx' = [tx EXCEPT ![r] = NoTx], rowDialog' = Freed(rowDialog, r)
  PROVE  /\ tx' \in [Sessions -> TxType] /\ rowDialog' \in Sessions \cup {NoOne}
         /\ \A s \in Sessions : tx'[s].at = "touch" =>
              /\ s # r /\ tx'[s] = tx[s]
              /\ tx[s].kind \notin StateOnly => rowDialog' = s /\ Knows(tx[s].read)
<1>1. tx \in [Sessions -> TxType] /\ rowDialog \in Sessions \cup {NoOne}
  BY DEF Inv, Types
<1>2. ASSUME NEW s \in Sessions, tx'[s].at = "touch"
      PROVE  /\ s # r /\ tx'[s] = tx[s]
             /\ tx[s].kind \notin StateOnly => rowDialog' = s /\ Knows(tx[s].read)
  <2>1. s # r /\ tx'[s] = tx[s]
    BY <1>1, <1>2, RestTypes
  <2>2. tx[s].kind \notin StateOnly => rowDialog = s /\ Knows(tx[s].read)
    BY <1>2, <2>1 DEF Inv, ReadInv
  <2> QED BY <2>1, <2>2 DEF Freed
<1> QED BY <1>1, <1>2, RestTypes DEF Freed

LEMMA AbortedInv ==
  ASSUME Inv, NEW r \in Sessions, Aborted(r),
         UNCHANGED <<funnel, dialog, rowState, worker, disc, foreign, lastPing, history, bounds>>
  PROVE  Inv'
<1> USE DEF dialog, history, bounds
<1>1. /\ tx' \in [Sessions -> TxType] /\ rowDialog' \in Sessions \cup {NoOne}
      /\ \A s \in Sessions : tx'[s].at = "touch" =>
           /\ s # r /\ tx'[s] = tx[s]
           /\ tx[s].kind \notin StateOnly => rowDialog' = s /\ Knows(tx[s].read)
  BY FreedDialog DEF Aborted
<1>2. Types'
  BY <1>1 DEF Inv, Types, PlainTypes
<1>3. PickInv' /\ OpenInv' /\ WorkerKeepsItsRow' /\ DiscInv' /\ AnswerInv' /\ PausedInv'
  BY DEF Inv, PickInv, OpenInv, WorkerKeepsItsRow, DiscInv, AnswerInv, PausedInv, Looked
<1>4. ReadInv'
  BY <1>1 DEF ReadInv, Knows
<1> QED BY <1>2, <1>3, <1>4 DEF Inv

\* What the stop of the funnel and its reset leave: the row as it was, none, or closed.
LEMMA StateOnlyWritten ==
  ASSUME TypeOK, NEW s \in Sessions, NEW plan \in Plans(tx[s].kind, tx[s].read),
         CanWrite(tx[s].read, plan), tx[s].kind \in StateOnly
  PROVE  LET f == Written(tx[s].kind, tx[s].read, plan) IN
         \/ f.id = 0
         \/ f.id = funnel.id /\ f.clean = funnel.clean /\ (funnel.done => f.done)
<1> DEFINE read == tx[s].read
           kind == tx[s].kind
           f == Written(kind, read, plan)
<1>1. read \in FunnelType /\ funnel \in FunnelType
  BY DEF TypeOK
<1>2. CASE plan = read
  BY <1>2 DEF Written
<1>3. CASE plan # read /\ plan.id = 0
  BY <1>3 DEF Written, NoFunnel
<1>4. CASE plan # read /\ plan.id # 0
  <2>1. plan = [read EXCEPT !.done = TRUE]
    BY <1>4, PlansType DEF StateOnly, NoFunnel
  <2>2. plan.id = read.id /\ plan.clean = read.clean /\ plan.done
    BY <1>1, <2>1 DEF FunnelType
  <2>3. funnel.id = read.id
    BY <1>4, <2>2 DEF CanWrite
  <2>4. f = [c \in DOMAIN funnel |->
               IF plan[c] # read[c] \/ (c = "due" /\ kind = "giveback") THEN plan[c] ELSE funnel[c]]
    BY <1>4, <2>2 DEF Written
  <2>5. {"id", "done", "clean"} \subseteq DOMAIN funnel
    BY <1>1 DEF FunnelType
  <2>6. f.id = funnel.id /\ f.clean = funnel.clean
    <3> HIDE DEF f
    <3> QED BY <2>2, <2>3, <2>4, <2>5
  <2>7. f.done = IF plan.done # read.done THEN plan.done ELSE funnel.done
    <3> HIDE DEF f
    <3> QED BY <2>4, <2>5
  <2>8. funnel.done => f.done
    <3> HIDE DEF f
    <3> QED BY <2>2, <2>7
  <2> QED BY <2>6, <2>8
<1> QED BY <1>2, <1>3, <1>4

\* A session commits.  What it leaves of the funnel fits what it has read, and what the
\* worker holds is not touched.
LEMMA CommitInv ==
  ASSUME Inv, NEW r \in Sessions, Commit(r)
  PROVE  Inv'
<1> USE DEF dialog, history, bounds
<1> DEFINE kind == tx[r].kind
           read == tx[r].read
<1>1. TypeOK /\ tx \in [Sessions -> TxType] /\ funnel \in FunnelType /\ disc \in DiscType
  BY TypesTogether DEF Inv, Types
<1>2. PICK plan \in Plans(kind, read) :
        /\ ~MustWait(r, plan) /\ CanWrite(read, plan)
        /\ LET f == Written(kind, read, plan) IN
           /\ funnel' = IF kind = "answer" /\ f.id # 0 THEN [f EXCEPT !.answered = TRUE] ELSE f
           /\ Replaced(f)
  BY DEF Commit
<1> DEFINE f == Written(kind, read, plan)
<1>3. /\ f \in FunnelType
      /\ \/ f = funnel
         \/ f = NoFunnel
         \/ f.id # 0 /\ ~f.answered /\ f.clean
         \/ /\ f.id # 0 /\ f.id = funnel.id /\ f.clean = funnel.clean
            /\ f.answered => funnel.answered
  BY <1>1, <1>2, WrittenType
<1>4. rowState = Worker /\ funnel.id # 0 => f = funnel /\ (plan = read \/ read.id = 0)
  BY <1>1, <1>2, HeldIsKept
<1>5. kind \notin StateOnly => rowDialog = r /\ Knows(read)
  BY DEF Inv, ReadInv, Commit
<1>6. kind = "answer" /\ f.id # 0 => f = funnel /\ ~f.clean
  <2> SUFFICES ASSUME kind = "answer", f.id # 0 PROVE f = funnel /\ ~f.clean
    OBVIOUS
  <2>1. plan = NoFunnel
    BY <1>1, PlansType
  <2>2. Knows(read)
    BY <1>5 DEF StateOnly
  <2>3. CASE plan = read
    BY <2>1, <2>2, <2>3 DEF Written, Knows, NoFunnel
  <2>4. CASE plan # read
    BY <2>1, <2>2, <2>4 DEF Written, Knows, NoFunnel
  <2> QED BY <2>3, <2>4
<1>7. kind \in StateOnly =>
        f.id = 0 \/ (f.id = funnel.id /\ f.clean = funnel.clean /\ (funnel.done => f.done))
  BY <1>1, <1>2, StateOnlyWritten
<1>8. kind \in {"takeover", "watch"} => plan = [read EXCEPT !.done = TRUE]
  BY <1>1, PlansType
<1>9. Replaced(f)
  BY <1>2
<1> HIDE DEF f
<1>10. /\ funnel' \in FunnelType /\ funnel'.id = f.id /\ funnel'.done = f.done
       /\ funnel'.clean = f.clean
       /\ f.clean /\ ~f.answered => ~funnel'.answered
  <2>1. funnel' = IF kind = "answer" /\ f.id # 0 THEN [f EXCEPT !.answered = TRUE] ELSE f
    BY <1>2 DEF f
  <2>2. CASE kind = "answer" /\ f.id # 0
    BY <1>3, <1>6, <2>1, <2>2 DEF FunnelType
  <2>3. CASE ~(kind = "answer" /\ f.id # 0)
    BY <1>3, <2>1, <2>3
  <2> QED BY <2>2, <2>3
<1>11. /\ tx' \in [Sessions -> TxType] /\ rowDialog' \in Sessions \cup {NoOne}
       /\ \A s \in Sessions : tx'[s].at = "touch" =>
            /\ s # r /\ tx'[s] = tx[s]
            /\ tx[s].kind \notin StateOnly => rowDialog' = s /\ Knows(tx[s].read)
  BY FreedDialog DEF Commit
<1>12. disc' \in DiscType /\ disc'.at = disc.at /\ disc'.deletes = disc.deletes
       /\ disc'.inserts = disc.inserts
  <2>1. [disc EXCEPT !.answered = TRUE] \in DiscType
    BY <1>1 DEF DiscType
  <2>2. disc' \in {disc, [disc EXCEPT !.answered = TRUE]}
    BY DEF Commit
  <2> QED BY <1>1, <2>1, <2>2 DEF DiscType
<1>13. PlainTypes'
  <2>1. PlainTypes
    BY DEF Inv, Types
  <2>2. /\ paused' \in BOOLEAN /\ blocked' \in BOOLEAN /\ hot' \in BOOLEAN
        /\ last' \in {"client", "ai", "curator"} /\ foreign' \in BOOLEAN
    <3>1. WriteDialog(kind)
      BY DEF Commit
    <3> QED BY <2>1, <3>1 DEF WriteDialog, PlainTypes
  <2>3. sent' \subseteq Rules /\ excused' \in BOOLEAN /\ twice' \in BOOLEAN
    BY <1>9, <2>1 DEF Replaced, PlainTypes
  <2>4. UNCHANGED <<lastPing, acts, passes, crashes>>
    BY DEF Commit
  <2> QED BY <2>1, <2>2, <2>3, <2>4 DEF PlainTypes
<1>14. UNCHANGED <<worker, rowState>>
  BY DEF Commit
<1>15. Types'
  BY <1>10, <1>11, <1>12, <1>13, <1>14 DEF Inv, Types
<1>16. PickInv' /\ DiscInv'
  BY <1>12, <1>14 DEF Inv, PickInv, DiscInv
<1>17. OpenInv'
  BY <1>3, <1>10 DEF Inv, OpenInv, NoFunnel
<1>18. WorkerKeepsItsRow'
  BY <1>4, <1>10, <1>14 DEF Inv, WorkerKeepsItsRow
<1>19. AnswerInv'
  <2>1. funnel.clean => ~funnel.answered
    BY DEF Inv, AnswerInv
  <2>2. f.clean => ~f.answered
    <3>1. CASE f = NoFunnel
      BY <3>1 DEF NoFunnel
    <3>2. CASE f = funnel
      BY <2>1, <3>2
    <3>3. CASE f.clean = funnel.clean /\ (f.answered => funnel.answered)
      <4>1. f.clean => funnel.clean
        BY <3>3
      <4> QED BY <2>1, <3>3, <4>1
    <3> QED BY <1>3, <3>1, <3>2, <3>3
  <2> QED BY <1>10, <2>2 DEF AnswerInv
<1>20. ReadInv'
  <2> SUFFICES ASSUME NEW s \in Sessions, tx'[s].at = "touch", tx'[s].kind \notin StateOnly
               PROVE  rowDialog' = s /\ Knows(tx[s].read)'
    BY DEF ReadInv, StateOnly
  <2>1. s # r /\ tx'[s] = tx[s] /\ rowDialog' = s /\ Knows(tx[s].read)
    BY <1>11
  <2>2. rowDialog = s
    BY <2>1 DEF Inv, ReadInv
  <2>3. kind \in StateOnly
    BY <1>5, <2>1, <2>2
  <2> QED BY <1>7, <1>10, <2>1, <2>3 DEF Knows
<1>21. PausedInv'
  <2> SUFFICES ASSUME Looked, f.clean PROVE ~paused'
    BY <1>10, <1>14 DEF PausedInv, Looked
  <2>1. rowState = Worker /\ funnel.id # 0 /\ ~funnel.done
    BY DEF Inv, WorkerKeepsItsRow, Looked
  <2>2. f = funnel /\ (plan = read \/ read.id = 0) /\ ~paused
    BY <1>4, <2>1 DEF Inv, PausedInv
  <2>3. kind \notin {"takeover", "watch"}
    <3> SUFFICES ASSUME kind \in {"takeover", "watch"} PROVE FALSE
      OBVIOUS
    <3>1. funnel.id = read.id /\ ~read.done
      BY <1>5, <2>1, <2>2 DEF Knows, StateOnly
    <3>2. plan.done
      BY <1>1, <1>8 DEF TxType, FunnelType
    <3> QED BY <2>1, <2>2, <3>1, <3>2
  <2> QED BY <2>2, <2>3 DEF Commit, WriteDialog
<1> QED BY <1>15, <1>16, <1>17, <1>18, <1>19, <1>20, <1>21 DEF Inv

\* The steps of the worker that end its transaction.
LEMMA WorkerEndsInv ==
  ASSUME Inv,
         \/ StopForPeople \/ HandToManager \/ StopUnasked \/ AgentFails \/ AgentStops
         \/ Misfire \/ AgentSkips \/ DuplicateText \/ SendFails \/ Record \/ RecordRefusal
         \/ \E s \in Sessions : AbortWorker(s)
  PROVE  Inv'
<1> USE DEF dialog, history, bounds
<1>1. funnel \in FunnelType /\ worker \in WorkerType /\ PlainTypes /\ PickInv
  BY DEF Inv, Types
<1>2. Rules \subseteq Nat
  BY Constants
<1> DEFINE Same(f) == /\ f \in FunnelType /\ f.id = funnel.id
                      /\ f.clean = funnel.clean /\ f.answered = funnel.answered
<1>3. Same(funnel) /\ Same(Closed) /\ Same([Closed EXCEPT !.misfires = 0])
  BY <1>1 DEF Closed, FunnelType
<1>4. ASSUME NEW g, Same(g), NEW s \in Int
      PROVE  Same(After(s, g))
  <2>1. NextRule(s) \in Rules \cup {None}
    BY NextRuleType
  <2> HIDE DEF None
  <2> QED BY <1>2, <1>4, <2>1 DEF After, FunnelType
<1>5. Same([funnel EXCEPT !.misfires = 0])
  BY <1>1 DEF FunnelType
<1>6. worker.at \in {"send", "sent", "refused"} =>
        Same(Picked) /\ Same([Picked EXCEPT !.done = TRUE]) /\ worker.pick \in Rules
  BY <1>1, <1>2 DEF Picked, PickInv, FunnelType
<1>7. /\ UNCHANGED <<rowDialog, tx, disc>>
      /\ worker.at # "idle"
      /\ \E f : Same(f) /\ Ends(f)
  <2>1. CASE StopForPeople \/ HandToManager \/ StopUnasked \/ AgentFails \/ AgentStops
    BY <1>3, <2>1 DEF StopForPeople, HandToManager, StopUnasked, AgentFails, AgentStops
  <2>2. CASE Misfire
    <3> DEFINE n == funnel.misfires + 1
               g == [funnel EXCEPT !.misfires = n, !.done = n >= MaxMisfires,
                                   !.due = n >= MaxMisfires]
    <3>1. n \in Nat /\ (n >= MaxMisfires) \in BOOLEAN
      BY <1>1 DEF FunnelType
    <3>2. Same(g)
      <4> HIDE DEF n
      <4> QED BY <1>1, <3>1 DEF FunnelType
    <3> HIDE DEF Same
    <3> QED BY <2>2, <3>2 DEF Misfire
  <2>3. CASE AgentSkips
    <3>1. funnel.step + 2 \in Int
      BY <1>1 DEF FunnelType
    <3>2. Same(After(funnel.step + 2, [funnel EXCEPT !.misfires = 0]))
      <4> HIDE DEF Same
      <4> QED BY <1>4, <1>5, <3>1
    <3> HIDE DEF Same
    <3> QED BY <2>3, <3>2 DEF AgentSkips
  <2>4. CASE DuplicateText \/ Record
    <3>1. worker.pick \in Int /\ Same(Picked)
      <4> HIDE DEF Same
      <4> QED BY <1>2, <1>6, <2>4 DEF DuplicateText, Record
    <3>2. Same(After(worker.pick, Picked))
      <4> HIDE DEF Same
      <4> QED BY <1>4, <3>1
    <3> HIDE DEF Same
    <3> QED BY <2>4, <3>2 DEF DuplicateText, Record
  <2>5. CASE SendFails \/ RecordRefusal
    <3> HIDE DEF Same
    <3> QED BY <1>6, <2>5 DEF SendFails, RecordRefusal
  <2>6. CASE \E s \in Sessions : AbortWorker(s)
    <3>1. worker.at # "idle"
      BY <2>6 DEF AbortWorker, Deadlock, WantsDialog
    <3> HIDE DEF Same
    <3> QED BY <1>3, <2>6, <3>1 DEF AbortWorker
  <2> HIDE DEF Same
  <2> QED BY <2>1, <2>2, <2>3, <2>4, <2>5, <2>6
<1>8. PlainTypes'
  <2>1. sent' \subseteq Rules /\ excused' \in BOOLEAN /\ twice' \in BOOLEAN
    BY <1>1, <1>6 DEF PlainTypes, StopForPeople, HandToManager, StopUnasked, AgentFails,
       AgentStops, Misfire, AgentSkips, DuplicateText, SendFails, Record, RecordRefusal,
       AbortWorker, Taken
  <2>2. /\ paused' \in BOOLEAN /\ blocked' \in BOOLEAN /\ UNCHANGED <<hot, foreign>>
        /\ last' \in {"client", "ai", "curator"} /\ lastPing' \in Rules \cup {None}
        /\ UNCHANGED <<acts, passes, crashes>>
    BY <1>1, <1>6 DEF PlainTypes, StopForPeople, HandToManager, StopUnasked, AgentFails,
       AgentStops, Misfire, AgentSkips, DuplicateText, SendFails, Record, RecordRefusal,
       AbortWorker
  <2> QED BY <1>1, <2>1, <2>2 DEF PlainTypes
<1> QED BY <1>7, <1>8, EndsInv

\* The steps of the worker that keep its transaction open.
LEMMA WorkerGoesOnInv ==
  ASSUME Inv, \/ AskGuard \/ StartAgent \/ VkTakes \/ VkRefuses
              \/ \E s \in Rules : AgentSends(s)
  PROVE  Inv'
<1> USE DEF dialog, history, bounds
<1>1. worker \in WorkerType /\ PlainTypes /\ PickInv /\ tx \in [Sessions -> TxType]
  BY DEF Inv, Types
<1>2. /\ UNCHANGED <<funnel, paused, rowDialog, rowState, disc>>
      /\ worker.at # "idle"
  BY DEF AskGuard, StartAgent, VkTakes, VkRefuses, AgentSends
<1>3. worker' \in WorkerType /\ PickInv' /\ (Looked' => Looked)
  BY <1>1 DEF AskGuard, StartAgent, VkTakes, VkRefuses, AgentSends, WorkerType, PickInv, Looked
<1>4. PlainTypes'
  <2>1. sent' \subseteq Rules /\ excused' \in BOOLEAN /\ twice' \in BOOLEAN
    BY <1>1 DEF PlainTypes, PickInv, AskGuard, StartAgent, VkTakes, VkRefuses, AgentSends, Taken
  <2>2. UNCHANGED <<blocked, hot, foreign, last, lastPing, acts, passes, crashes>>
    BY DEF AskGuard, StartAgent, VkTakes, VkRefuses, AgentSends
  <2> QED BY <1>1, <1>2, <2>1, <2>2 DEF PlainTypes
<1>5. /\ tx' \in [Sessions -> TxType]
      /\ \A s \in Sessions : tx'[s].at = "touch" => tx'[s] = tx[s]
  <2>1. CASE tx' = tx
    BY <1>1, <2>1
  <2>2. CASE tx' = [tx EXCEPT ![Guard] = [NoTx EXCEPT !.at = "begun", !.kind = "watch"]]
    <3> DEFINE new == [NoTx EXCEPT !.at = "begun", !.kind = "watch"]
    <3>1. new \in TxType /\ new.at = "begun"
      BY NoFunnelType DEF NoTx, TxType, Kinds
    <3>2. tx' = [tx EXCEPT ![Guard] = new]
      BY <2>2
    <3> HIDE DEF new
    <3> QED BY <1>1, <3>1, <3>2
  <2> QED BY <2>1, <2>2 DEF AskGuard, StartAgent, VkTakes, VkRefuses, AgentSends
<1> QED BY <1>2, <1>3, <1>4, <1>5, WorkerMovesInv

\* The worker locks a funnel that is open, and looks at the dialog.
LEMMA PickDueInv ==
  ASSUME Inv, PickDue
  PROVE  Inv'
<1> USE DEF dialog, history, bounds
<1>1. worker' \in WorkerType /\ worker'.at = "loaded" /\ worker'.paused = paused
  BY DEF PickDue, Inv, Types, PlainTypes, WorkerType
<1>2. Types'
  BY <1>1 DEF PickDue, Inv, Types, PlainTypes
<1>3. PickInv' /\ WorkerKeepsItsRow' /\ PausedInv'
  BY <1>1 DEF PickDue, Inv, OpenInv, PickInv, WorkerKeepsItsRow, PausedInv, Looked
<1>4. DiscInv' /\ ReadInv' /\ OpenInv' /\ AnswerInv'
  BY Constants DEF PickDue, Inv, DiscInv, ReadInv, Knows, OpenInv, AnswerInv
<1> QED BY <1>2, <1>3, <1>4 DEF Inv

\* A reminder becomes due.
LEMMA DueComesInv ==
  ASSUME Inv, DueComes
  PROVE  Inv'
<1> USE DEF dialog, history, bounds
<1>1. /\ funnel' \in FunnelType /\ funnel'.id = funnel.id /\ funnel'.done = funnel.done
      /\ funnel'.clean = funnel.clean /\ funnel'.answered = funnel.answered
  BY DEF DueComes, Inv, Types, FunnelType
<1>2. Types'
  BY <1>1 DEF DueComes, Inv, Types, PlainTypes
<1>3. PickInv' /\ WorkerKeepsItsRow' /\ PausedInv' /\ DiscInv'
  BY <1>1 DEF DueComes, Inv, PickInv, WorkerKeepsItsRow, PausedInv, DiscInv, Looked
<1>4. ReadInv' /\ OpenInv' /\ AnswerInv'
  BY <1>1 DEF DueComes, Inv, ReadInv, Knows, OpenInv, AnswerInv
<1> QED BY <1>2, <1>3, <1>4 DEF Inv

\* The steps of discovery that leave the funnel as it is.
LEMMA DiscMovesInv ==
  ASSUME Inv, Select \/ Check \/ Detect \/ LoseBatch
  PROVE  Inv'
<1> USE DEF dialog, history, bounds
<1>1. disc \in DiscType /\ DiscInv /\ rowState \in {Worker, Discover, NoOne}
  BY DEF Inv, Types
<1>2. UNCHANGED <<funnel, dialog, lastPing, rowDialog, tx, worker, foreign, history>>
  BY DEF Select, Check, Detect, LoseBatch
<1>3. disc' \in DiscType /\ rowState' \in {Worker, Discover, NoOne} /\ DiscInv'
  <2>1. CASE Select \/ Check
    BY <1>1, <2>1, RestTypes DEF Select, Check, NoPass, DiscType, DiscInv
  <2>2. CASE Detect
    BY <1>1, <2>2 DEF Detect, DiscType, DiscInv
  <2>3. CASE LoseBatch
    BY <1>1, <2>3, RestTypes DEF LoseBatch, Freed, DiscInv
  <2> QED BY <2>1, <2>2, <2>3
<1>4. rowState = Worker => rowState' = Worker
  BY Constants DEF Select, Check, Detect, LoseBatch, Freed
<1>5. Types'
  <2>1. acts' \in Nat /\ passes' \in Nat /\ crashes' \in Nat
    BY DEF Inv, Types, PlainTypes, Select, Check, Detect, LoseBatch
  <2> QED BY <1>2, <1>3, <2>1 DEF Inv, Types, PlainTypes
<1>6. PickInv' /\ WorkerKeepsItsRow' /\ PausedInv'
  BY <1>2, <1>4 DEF Inv, PickInv, WorkerKeepsItsRow, PausedInv, Looked
<1>7. ReadInv' /\ OpenInv' /\ AnswerInv'
  BY <1>2 DEF Inv, ReadInv, Knows, OpenInv, AnswerInv
<1> QED BY <1>3, <1>5, <1>6, <1>7 DEF Inv

\* Discovery commits: a funnel planned past somebody is not clean.
LEMMA CommitBatchInv ==
  ASSUME Inv, CommitBatch
  PROVE  Inv'
<1> USE DEF dialog, history, bounds
<1>1. TypeOK /\ disc \in DiscType /\ funnel \in FunnelType
  BY TypesTogether DEF Inv, Types
<1> DEFINE new == [NewFunnel(FALSE, FALSE) EXCEPT !.answered = disc.answered, !.clean = Undisturbed]
           f == IF disc.inserts THEN new ELSE IF disc.deletes THEN NoFunnel ELSE funnel
<1>2. funnel' = f /\ Replaced(f)
  BY DEF CommitBatch
<1>3. /\ new \in FunnelType /\ new.id # 0 /\ ~new.done
      /\ new.clean = Undisturbed /\ new.answered = disc.answered
  <2> DEFINE g == NewFunnel(FALSE, FALSE)
  <2>1. g \in FunnelType /\ g.id # 0 /\ ~g.done
    BY <1>1, NewFunnelType
  <2>2. Undisturbed \in BOOLEAN /\ disc.answered \in BOOLEAN
    BY <1>1 DEF Undisturbed, DiscType
  <2> HIDE DEF g
  <2>3. [g EXCEPT !.answered = disc.answered, !.clean = Undisturbed] \in FunnelType
    BY <2>1, <2>2 DEF FunnelType
  <2> QED BY <2>1, <2>2, <2>3 DEF FunnelType, g
<1> HIDE DEF new
<1>4. UNCHANGED <<dialog, lastPing, rowDialog, tx, worker, foreign, bounds>> /\ disc' = NoPass
  BY DEF CommitBatch
<1>5. f \in FunnelType
  BY <1>1, <1>3, NoFunnelType
<1>6. rowState = Worker => f = funnel
  BY Constants DEF Inv, DiscInv
<1>7. rowState' \in {Worker, Discover, NoOne} /\ (rowState = Worker => rowState' = Worker)
  BY Constants DEF Inv, Types, CommitBatch, Freed
<1>8. Types'
  <2>1. sent' \subseteq Rules /\ excused' \in BOOLEAN /\ twice' \in BOOLEAN
    BY <1>2 DEF Replaced, Inv, Types, PlainTypes
  <2> QED BY <1>2, <1>4, <1>5, <1>7, <2>1, RestTypes DEF Inv, Types, PlainTypes
<1>9. PickInv' /\ DiscInv'
  BY <1>4, RestTypes DEF Inv, PickInv, DiscInv
<1>10. WorkerKeepsItsRow' /\ PausedInv'
  BY <1>2, <1>4, <1>6, <1>7 DEF Inv, WorkerKeepsItsRow, PausedInv, Looked
<1>11. OpenInv' /\ AnswerInv'
  BY <1>2, <1>3 DEF Inv, OpenInv, AnswerInv, NoFunnel, Undisturbed
<1>12. ReadInv'
  <2> SUFFICES ASSUME NEW s \in Sessions, tx[s].at = "touch", tx[s].kind \notin StateOnly
               PROVE  rowDialog = s /\ Knows(tx[s].read)'
    BY <1>4 DEF ReadInv, StateOnly
  <2>1. rowDialog = s /\ Knows(tx[s].read)
    BY DEF Inv, ReadInv
  <2>2. ~Undisturbed
    BY DEF Undisturbed
  <2>3. CASE disc.inserts
    BY <1>2, <1>3, <2>1, <2>2, <2>3 DEF Knows
  <2>4. CASE ~disc.inserts
    BY <1>2, <1>4, <2>1, <2>4 DEF Knows, NoFunnel
  <2> QED BY <2>1, <2>3, <2>4
<1> QED BY <1>8, <1>9, <1>10, <1>11, <1>12 DEF Inv

\* A manager writes in MAX; the process dies.
LEMMA OutsideInv ==
  ASSUME Inv, ManagerWritesInMax \/ Crash
  PROVE  Inv'
<1> USE DEF dialog, history, bounds
<1>1. CASE ManagerWritesInMax
  <2>1. Types'
    BY <1>1 DEF ManagerWritesInMax, Inv, Types, PlainTypes
  <2>2. PickInv' /\ WorkerKeepsItsRow' /\ PausedInv' /\ DiscInv' /\ ReadInv' /\ OpenInv'
        /\ AnswerInv'
    BY <1>1 DEF ManagerWritesInMax, Inv, PickInv, WorkerKeepsItsRow, PausedInv, Looked,
       DiscInv, ReadInv, Knows, OpenInv, AnswerInv
  <2> QED BY <2>1, <2>2 DEF Inv
<1>2. CASE Crash
  <2>1. /\ tx' = [s \in Sessions |-> NoTx] /\ worker' = AtRest /\ disc' = NoPass
        /\ rowDialog' = NoOne /\ rowState' = NoOne
        /\ UNCHANGED <<funnel, dialog, foreign, sent, twice, lastPing, acts, passes>>
    BY <1>2 DEF Crash
  <2>2. excused' \in BOOLEAN /\ crashes' \in Nat
    BY <1>2 DEF Crash, Inv, Types, PlainTypes
  <2>3. Types'
    BY <2>1, <2>2, RestTypes DEF Inv, Types, PlainTypes
  <2>4. PickInv' /\ WorkerKeepsItsRow' /\ PausedInv' /\ DiscInv'
    BY <2>1, RestTypes DEF PickInv, WorkerKeepsItsRow, PausedInv, Looked, DiscInv
  <2>5. ReadInv' /\ OpenInv' /\ AnswerInv'
    BY <2>1, RestTypes DEF Inv, ReadInv, OpenInv, AnswerInv
  <2> QED BY <2>3, <2>4, <2>5 DEF Inv
<1> QED BY <1>1, <1>2

LEMMA StutterInv ==
  ASSUME Inv, UNCHANGED vars
  PROVE  Inv'
<1> USE DEF vars, dialog, history, bounds
<1>1. Types'
  BY DEF Inv, Types, PlainTypes
<1>2. PickInv' /\ WorkerKeepsItsRow' /\ PausedInv' /\ DiscInv' /\ ReadInv' /\ OpenInv' /\ AnswerInv'
  BY DEF Inv, PickInv, WorkerKeepsItsRow, PausedInv, Looked, DiscInv, ReadInv, Knows, OpenInv,
     AnswerInv
<1> QED BY <1>1, <1>2 DEF Inv

LEMMA NextInv ==
  ASSUME Inv, [Next]_vars
  PROVE  Inv'
<1>1. CASE UNCHANGED vars
  BY <1>1, StutterInv
<1>2. CASE DueComes \/ PickDue \/ ManagerWritesInMax \/ Crash
  BY <1>2, DueComesInv, PickDueInv, OutsideInv
<1>3. CASE WorkerSteps
  BY <1>3, WorkerEndsInv, WorkerGoesOnInv DEF WorkerSteps
<1>4. ASSUME NEW r \in Requests, NEW kind \in Kinds, Begin(r, kind)
      PROVE  Inv'
  BY <1>4, BeginInv
<1>5. ASSUME NEW s \in Sessions, SessionSteps(s) \/ AbortWorker(s) \/ AbortSession(s)
      PROVE  Inv'
  <2>1. CASE Flush(s)
    BY <2>1, FlushInv
  <2>2. CASE Commit(s)
    BY <2>2, CommitInv
  <2>3. CASE Fail(s) \/ AbortSession(s)
    BY <2>3, AbortedInv DEF Fail, AbortSession
  <2>4. CASE AbortWorker(s)
    BY <2>4, WorkerEndsInv
  <2> QED BY <1>5, <2>1, <2>2, <2>3, <2>4 DEF SessionSteps
<1>6. CASE Select \/ Passes
  BY <1>6, DiscMovesInv, CommitBatchInv DEF Passes
<1> QED BY <1>1, <1>2, <1>3, <1>4, <1>5, <1>6 DEF Next

-----------------------------------------------------------------------------
(* Theorems *)

\* The invariant, from which the properties follow.
THEOREM Invariance == Spec => []Inv
<1> QED BY InitInv, NextInv, PTL DEF Spec

\* The rows, the transactions, the worker and discovery hold what the code's types allow:
\* the rule chosen next is always one there is, and a funnel's row an open or an ended one.
THEOREM Typing == Spec => []TypeOK
<1>1. Inv => TypeOK
  BY TypesTogether DEF Inv
<1> QED BY <1>1, Invariance, PTL

\* Nobody deletes or closes the funnel the worker has locked, whichever requests, passes
\* of discovery and restarts meet it.
THEOREM WorkerKeeps == Spec => []WorkerKeepsItsRow
<1>1. Inv => WorkerKeepsItsRow
  BY DEF Inv
<1> QED BY <1>1, Invariance, PTL

\* No reminder is sent to a client who has answered, nor in a dialog a human has taken
\* over, out of a funnel that was planned with nobody in between.
THEOREM PingsHeedPeople == Spec => []NoPingAfterPeople
<1>1. Inv => NoPingAfterPeople
  BY DEF Inv, AnswerInv, PausedInv, Looked, NoPingAfterPeople
<1> QED BY <1>1, Invariance, PTL

(****************************************************************************)
(* No step of a funnel is sent twice, for any sessions, steps, misfires,    *)
(* acts, passes of discovery and restarts.                                  *)
(****************************************************************************)
\* Only one session gives the dialog back at a time.
OneHandBack ==
  /\ \A s, u \in Sessions : tx[s].kind = "giveback" /\ tx[u].kind = "giveback" => s = u
  /\ \A s \in Sessions : tx[s].at = "idle" => tx[s].kind = "none"

\* A funnel that had ended when the hand-back read it is as it was.
Frozen(read) ==
  read.id # 0 /\ read.done /\ funnel.id = read.id => funnel.done /\ funnel.step = read.step
FrozenInv == \A s \in Sessions :
  tx[s].at = "touch" /\ tx[s].kind = "giveback" => Frozen(tx[s].read)

\* What was sent is behind: behind the last reminder stored, behind the next step as
\* long as there is one, and behind the step that is being sent.
Behind(q) ==
  /\ worker.at = "sent" => q <= worker.pick
  /\ worker.at # "sent" => q <= lastPing /\ (~funnel.done => q < funnel.step)
  /\ worker.at = "send" => q < worker.pick

SentInv ==
  /\ ~twice
  /\ funnel.id = 0 => sent = {}
  /\ ~excused => \A q \in sent : Behind(q)

OnceInv == OneHandBack /\ FrozenInv /\ SentInv

-----------------------------------------------------------------------------
(* Operators *)

\* The next rule comes later.
LEMMA NextRuleAbove ==
  ASSUME NEW s \in Int, NextRule(s) # None
  PROVE  NextRule(s) \in Rules /\ NextRule(s) > s
<1> DEFINE later == {r \in Rules : r > s}
<1>1. Rules \subseteq Nat /\ IsFiniteSet(Rules)
  BY Constants
<1>2. later # {} /\ NextRule(s) = CHOOSE r \in later : \A q \in later : r <= q
  BY DEF NextRule
<1>3. \E r \in later : \A q \in later : r <= q
  <2>1. later \subseteq Nat /\ IsFiniteSet(later)
    BY <1>1, FS_Subset
  <2> HIDE DEF later
  <2> QED BY <1>2, <2>1, Smallest
<1>4. NextRule(s) \in later
  <2> HIDE DEF later
  <2> QED BY <1>2, <1>3
<1> QED BY <1>4

\* A session leaves the step of the funnel it finds, and does not reopen it, unless it
\* gives the dialog back: then the step may be the one after the last reminder.
LEMMA WrittenStep ==
  ASSUME TypeOK, NEW s \in Sessions, NEW plan \in Plans(tx[s].kind, tx[s].read),
         CanWrite(tx[s].read, plan),
         LET f == Written(tx[s].kind, tx[s].read, plan) IN f.id = funnel.id /\ f.id # 0
  PROVE  LET f == Written(tx[s].kind, tx[s].read, plan) IN
         \/ f.step = funnel.step /\ (funnel.done => f.done)
         \/ /\ tx[s].kind = "giveback" /\ lastPing = None
         \/ /\ tx[s].kind = "giveback" /\ lastPing # None /\ tx[s].read.id = funnel.id
            /\ tx[s].read.id # 0 /\ NextRule(lastPing) # None
            /\ f.step = IF tx[s].read.step = NextRule(lastPing) THEN funnel.step ELSE NextRule(lastPing)
            /\ f.done = IF tx[s].read.done THEN FALSE ELSE funnel.done
<1> DEFINE read == tx[s].read
           kind == tx[s].kind
           f == Written(kind, read, plan)
<1>1. read \in FunnelType /\ funnel \in FunnelType
  BY DEF TypeOK
<1>2. /\ plan \in FunnelType
      /\ \/ plan = read
         \/ plan = NoFunnel
         \/ /\ plan.id # 0 /\ plan.id # funnel.id /\ plan.id # read.id
         \/ /\ plan.id = read.id
  BY PlansType
<1>3. CASE plan = read
  BY <1>1, <1>3 DEF Written
<1>4. CASE plan # read /\ plan.id = 0
  <2>1. f = NoFunnel \/ f = funnel
    BY <1>4 DEF Written
  <2>2. f = funnel
    BY <2>1 DEF NoFunnel
  <2> QED BY <2>2, <1>1
<1>5. CASE plan # read /\ plan.id # 0 /\ plan.id # read.id
  <2>1. f = plan /\ plan # NoFunnel
    BY <1>5 DEF Written, NoFunnel
  <2> QED BY <1>2, <1>5, <2>1
<1>6. CASE plan # read /\ plan.id # 0 /\ plan.id = read.id
  <2>1. funnel.id = read.id
    BY <1>6 DEF CanWrite
  <2> DEFINE choice(c) == IF plan[c] # read[c] \/ (c = "due" /\ kind = "giveback")
                          THEN plan[c] ELSE funnel[c]
  <2>2. f = [c \in DOMAIN funnel |-> choice(c)]
    BY <1>6 DEF Written
  <2>3. "step" \in DOMAIN funnel /\ "done" \in DOMAIN funnel
    BY <1>1 DEF FunnelType
  <2>4. f.step = choice("step") /\ f.done = choice("done")
    <3> HIDE DEF choice
    <3> QED BY <2>2, <2>3
  <2>5. /\ f.step = IF plan.step # read.step THEN plan.step ELSE funnel.step
        /\ f.done = IF plan.done # read.done THEN plan.done ELSE funnel.done
    BY <2>4
  <2> HIDE DEF f
  <2>6. CASE plan = [read EXCEPT !.done = TRUE]
    <3>1. plan.step = read.step /\ plan.done
      BY <1>1, <2>6 DEF FunnelType
    <3> QED BY <2>5, <3>1 DEF f
  <2>7. CASE plan # [read EXCEPT !.done = TRUE]
    <3>1. plan # NoFunnel
      BY <1>6 DEF NoFunnel
    <3>2. plan # NewFunnel(TRUE, FALSE) /\ plan # NewFunnel(TRUE, TRUE) /\ plan # NewFunnel(FALSE, TRUE)
      BY <1>6, NewFunnelType
    <3>3. kind = "giveback" /\ plan \in HandBack(read)
      BY <1>6, <2>7, <3>1, <3>2 DEF Plans
    <3>4. CASE lastPing # None
      <4>1. /\ NextRule(lastPing) # None
            /\ plan = [read EXCEPT !.step = NextRule(lastPing), !.done = FALSE, !.due = FALSE,
                                   !.resumed = TRUE, !.misfires = 0, !.answered = FALSE]
        BY <1>6, <2>7, <3>2, <3>3, <3>4 DEF HandBack
      <4>2. plan.step = NextRule(lastPing) /\ plan.done = FALSE
        BY <1>1, <4>1 DEF FunnelType
      <4>3. read.done \in BOOLEAN
        BY <1>1 DEF FunnelType
      <4> QED BY <1>6, <2>1, <2>5, <3>3, <3>4, <4>1, <4>2, <4>3 DEF f
    <3> QED BY <3>3, <3>4
  <2> QED BY <2>6, <2>7
<1> QED BY <1>2, <1>3, <1>4, <1>5, <1>6

\* A row with another id than the one read is new to everybody.
LEMMA PlansAreNew ==
  ASSUME TypeOK, NEW s \in Sessions, NEW plan \in Plans(tx[s].kind, tx[s].read),
         plan.id # 0, plan.id # tx[s].read.id
  PROVE  \A u \in Sessions : plan.id # tx[u].read.id
<1> DEFINE read == tx[s].read
           kind == tx[s].kind
<1>1. read \in FunnelType
  BY DEF TypeOK
<1>2. plan # NoFunnel /\ plan # read
  BY DEF NoFunnel
<1>3. [read EXCEPT !.done = TRUE].id = read.id
  BY <1>1 DEF FunnelType
<1>4. \A n : [read EXCEPT !.step = n, !.done = FALSE, !.due = FALSE, !.resumed = TRUE,
                         !.misfires = 0, !.answered = FALSE].id = read.id
  BY <1>1 DEF FunnelType
<1>5. CASE kind = "giveback"
  <2>1. plan \in HandBack(read)
    BY <1>5 DEF Plans
  <2>2. plan \in {NewFunnel(TRUE, TRUE), NewFunnel(FALSE, TRUE)}
    BY <2>1, <1>2, <1>3, <1>4 DEF HandBack
  <2> QED BY <2>2, NewFunnelType
<1>6. CASE kind # "giveback"
  <2>1. plan = NewFunnel(TRUE, FALSE)
    BY <1>2, <1>3, <1>6 DEF Plans
  <2> QED BY <2>1, NewFunnelType
<1> QED BY <1>5, <1>6

\* A row with another id than the one there is the one that was planned.
LEMMA WrittenIsNew ==
  ASSUME TypeOK, NEW s \in Sessions, NEW plan \in Plans(tx[s].kind, tx[s].read),
         CanWrite(tx[s].read, plan),
         LET f == Written(tx[s].kind, tx[s].read, plan) IN f.id # funnel.id /\ f.id # 0
  PROVE  Written(tx[s].kind, tx[s].read, plan) = plan /\ plan.id # tx[s].read.id
<1> DEFINE read == tx[s].read
           kind == tx[s].kind
           f == Written(kind, read, plan)
<1>1. funnel \in FunnelType
  BY DEF TypeOK
<1>2. plan # read
  BY DEF Written
<1>3. plan.id # 0
  BY <1>2 DEF Written, NoFunnel
<1>4. ASSUME plan.id = read.id PROVE FALSE
  <2> DEFINE choice(c) == IF plan[c] # read[c] \/ (c = "due" /\ kind = "giveback")
                          THEN plan[c] ELSE funnel[c]
  <2>1. f = [c \in DOMAIN funnel |-> choice(c)]
    BY <1>2, <1>3, <1>4 DEF Written
  <2>2. "id" \in DOMAIN funnel
    BY <1>1 DEF FunnelType
  <2>3. f.id = choice("id")
    <3> HIDE DEF choice
    <3> QED BY <2>1, <2>2
  <2> QED BY <1>4, <2>3
<1> QED BY <1>2, <1>3, <1>4 DEF Written

LEMMA InitOnce == Init => OnceInv
<1> SUFFICES ASSUME Init PROVE OnceInv
  OBVIOUS
<1>1. \A s \in Sessions : tx[s].at = "idle" /\ tx[s].kind = "none"
  BY DEF Init, NoTx
<1>2. sent = {} /\ ~twice
  BY DEF Init
<1> QED BY <1>1, <1>2 DEF OnceInv, OneHandBack, FrozenInv, SentInv

-----------------------------------------------------------------------------
(* Steps *)

\* Who leaves step, end and memory of the funnel alone leaves what was sent behind.
LEMMA KeepsSent ==
  ASSUME SentInv, UNCHANGED <<sent, twice, lastPing>>, excused => excused',
         funnel'.id = funnel.id, funnel'.done = funnel.done, funnel'.step = funnel.step,
         excused' \/ worker' = worker \/ (worker.at # "sent" /\ worker'.at \notin {"send", "sent"})
  PROVE  SentInv'
<1>1. CASE excused'
  BY <1>1 DEF SentInv
<1>2. CASE ~excused' /\ worker' = worker
  BY <1>2 DEF SentInv, Behind
<1>3. CASE ~excused' /\ worker.at # "sent" /\ worker'.at \notin {"send", "sent"}
  BY <1>3 DEF SentInv, Behind
<1> QED BY <1>1, <1>2, <1>3

\* The same of what the hand-back has read.
LEMMA KeepsFrozen ==
  ASSUME FrozenInv,
         \A s \in Sessions : tx'[s].at = "touch" /\ tx'[s].kind = "giveback" =>
           tx'[s] = tx[s] \/ tx'[s].read = funnel',
         \/ funnel'.id = funnel.id /\ funnel'.done = funnel.done /\ funnel'.step = funnel.step
         \/ \A s \in Sessions : tx[s].read.id # 0 => funnel'.id # tx[s].read.id
  PROVE  FrozenInv'
BY DEF FrozenInv, Frozen

LEMMA BeginOnce ==
  ASSUME Inv, OnceInv, NEW r \in Requests, NEW kind \in Kinds, Begin(r, kind)
  PROVE  OnceInv'
<1> USE DEF dialog, history, bounds
<1>1. /\ UNCHANGED <<funnel, worker, lastPing, history>>
      /\ r \in Sessions /\ tx[r].at = "idle" /\ \A s \in Sessions \ {r} : tx'[s] = tx[s]
  BY DEF Begin, Inv, Types, Sessions
<1>2. /\ tx'[r].at # "idle" /\ tx'[r].kind = kind
      /\ kind = "giveback" => \A s \in Sessions : tx[s].kind # "giveback"
      /\ tx'[r].at = "touch" => kind \in StateOnly
  <2>1. r \in Sessions /\ tx \in [Sessions -> TxType]
    BY <1>1 DEF Inv, Types
  <2> QED BY <2>1 DEF Begin
<1>3. OneHandBack'
  BY <1>1, <1>2 DEF OnceInv, OneHandBack
<1>4. FrozenInv'
  BY <1>1, <1>2, KeepsFrozen DEF OnceInv, StateOnly
<1>5. SentInv'
  BY <1>1, KeepsSent DEF OnceInv
<1> QED BY <1>3, <1>4, <1>5 DEF OnceInv

\* Sessions that read the funnel, or end without writing.
LEMMA SessionOnce ==
  ASSUME Inv, OnceInv, NEW s \in Sessions, Flush(s) \/ Fail(s) \/ AbortSession(s)
  PROVE  OnceInv'
<1> USE DEF dialog, history, bounds
<1>1. /\ UNCHANGED <<funnel, worker, lastPing, history>>
      /\ \A u \in Sessions \ {s} : tx'[u] = tx[u]
      /\ \/ tx'[s].at = "touch" /\ tx'[s].kind = tx[s].kind /\ tx'[s].read = funnel
         \/ tx'[s] = NoTx
  BY DEF Flush, Fail, AbortSession, Aborted, Inv, Types, TxType
<1>2. NoTx.at = "idle" /\ NoTx.kind = "none"
  BY DEF NoTx
<1>3. OneHandBack'
  BY <1>1, <1>2 DEF OnceInv, OneHandBack
<1>4. FrozenInv'
  BY <1>1, <1>2, KeepsFrozen DEF OnceInv
<1>5. SentInv'
  BY <1>1, KeepsSent DEF OnceInv
<1> QED BY <1>3, <1>4, <1>5 DEF OnceInv

\* A commit: what was sent stays behind the funnel it leaves.
LEMMA CommitOnce ==
  ASSUME Inv, OnceInv, NEW s \in Sessions, Commit(s)
  PROVE  OnceInv'
<1> USE DEF dialog, history, bounds
<1> DEFINE read == tx[s].read
           kind == tx[s].kind
<1>1. TypeOK /\ tx \in [Sessions -> TxType] /\ funnel \in FunnelType
  BY TypesTogether DEF Inv, Types
<1>2. PICK plan \in Plans(kind, read) :
        /\ ~MustWait(s, plan) /\ CanWrite(read, plan)
        /\ LET f == Written(kind, read, plan) IN
           /\ funnel' = IF kind = "answer" /\ f.id # 0 THEN [f EXCEPT !.answered = TRUE] ELSE f
           /\ Replaced(f)
  BY DEF Commit
<1> DEFINE f == Written(kind, read, plan)
<1>3. f \in FunnelType
  BY <1>1, <1>2, WrittenType
<1>4. funnel'.id = f.id /\ funnel'.step = f.step /\ funnel'.done = f.done
  <2> HIDE DEF f
  <2> QED BY <1>2, <1>3 DEF FunnelType, f
<1>5. /\ tx[s].at = "touch" /\ tx' = [tx EXCEPT ![s] = NoTx]
      /\ UNCHANGED <<lastPing, rowState, worker>>
  BY DEF Commit
<1>6. /\ tx'[s].at = "idle" /\ tx'[s].kind = "none"
      /\ \A u \in Sessions \ {s} : tx'[u] = tx[u]
  BY <1>1, <1>5 DEF NoTx
<1>7. OneHandBack'
  BY <1>6 DEF OnceInv, OneHandBack
<1>8. worker.at # "idle" => f = funnel
  BY <1>1, <1>2, HeldIsKept DEF Inv, WorkerKeepsItsRow
<1>9. CASE f = funnel
  <2>1. UNCHANGED <<sent, excused, twice>>
    BY <1>2, <1>9 DEF Replaced
  <2>2. FrozenInv'
    BY <1>4, <1>6, <1>9, KeepsFrozen DEF OnceInv
  <2>3. SentInv'
    BY <1>4, <1>5, <1>9, <2>1, KeepsSent DEF OnceInv
  <2> QED BY <1>7, <2>2, <2>3 DEF OnceInv
<1>10. CASE f.id # funnel.id
  <2>1. sent' = {} /\ UNCHANGED twice
    BY <1>2, <1>10 DEF Replaced
  <2>2. SentInv'
    BY <2>1 DEF OnceInv, SentInv
  <2>3. \A u \in Sessions : tx[u].read.id # 0 => f.id # tx[u].read.id
    <3>1. CASE f.id = 0
      BY <3>1
    <3>2. CASE f.id # 0
      <4>1. f = plan /\ plan.id # read.id
        BY <1>1, <1>2, <1>10, <3>2, WrittenIsNew
      <4> QED BY <1>1, <1>2, <3>2, <4>1, PlansAreNew
    <3> QED BY <3>1, <3>2
  <2>4. FrozenInv'
    BY <1>4, <1>6, <2>3, KeepsFrozen DEF OnceInv
  <2> QED BY <1>7, <2>2, <2>4 DEF OnceInv
<1>11. CASE f # funnel /\ f.id = funnel.id /\ f.id = 0
  <2>1. UNCHANGED <<sent, excused, twice>> /\ sent = {}
    BY <1>2, <1>11 DEF Replaced, OnceInv, SentInv
  <2>2. SentInv'
    BY <2>1 DEF OnceInv, SentInv
  <2>3. FrozenInv'
    BY <1>4, <1>6, <1>11, KeepsFrozen DEF OnceInv
  <2> QED BY <1>7, <2>2, <2>3 DEF OnceInv
<1>12. CASE f # funnel /\ f.id = funnel.id /\ f.id # 0
  <2>1. UNCHANGED <<sent, excused, twice>> /\ worker.at = "idle"
    BY <1>2, <1>8, <1>12 DEF Replaced
  <2>2. lastPing \in Rules \cup {None} /\ Rules \subseteq Nat /\ sent \subseteq Rules
    BY Constants DEF Inv, Types, PlainTypes
  <2>3. \A q \in sent : ~excused => lastPing # None /\ q <= lastPing /\ q \in Nat
                                    /\ (~funnel.done => q < funnel.step)
    BY <2>1, <2>2 DEF OnceInv, SentInv, Behind, None
  <2> HIDE DEF f
  <2>4. \/ f.step = funnel.step /\ (funnel.done => f.done)
        \/ kind = "giveback" /\ lastPing = None
        \/ /\ kind = "giveback" /\ lastPing # None /\ read.id = funnel.id
           /\ read.id # 0 /\ NextRule(lastPing) # None
           /\ f.step = IF read.step = NextRule(lastPing) THEN funnel.step ELSE NextRule(lastPing)
           /\ f.done = IF read.done THEN FALSE ELSE funnel.done
    BY <1>1, <1>2, <1>12, WrittenStep DEF f
  <2>5. \A q \in sent : ~excused /\ ~f.done => q < f.step
    <3> SUFFICES ASSUME NEW q \in sent, ~excused, ~f.done PROVE q < f.step
      OBVIOUS
    <3>1. lastPing # None /\ q <= lastPing /\ q \in Nat /\ (~funnel.done => q < funnel.step)
      BY <2>3
    <3>2. CASE f.step = funnel.step /\ (funnel.done => f.done)
      BY <3>1, <3>2
    <3>3. CASE /\ kind = "giveback" /\ read.id = funnel.id /\ read.id # 0 /\ NextRule(lastPing) # None
               /\ f.step = IF read.step = NextRule(lastPing) THEN funnel.step ELSE NextRule(lastPing)
               /\ f.done = IF read.done THEN FALSE ELSE funnel.done
      <4>1. lastPing \in Nat /\ lastPing \in Int /\ funnel.step \in Nat
        BY <1>1, <2>2, <3>1 DEF FunnelType
      <4>2. NextRule(lastPing) \in Nat /\ NextRule(lastPing) > lastPing
        BY <2>2, <3>3, <4>1, NextRuleAbove
      <4>3. read.done => funnel.done /\ funnel.step = read.step
        BY <1>5, <3>3 DEF OnceInv, FrozenInv, Frozen
      <4> QED BY <3>1, <3>3, <4>1, <4>2, <4>3
    <3> QED BY <2>4, <3>1, <3>2, <3>3
  <2>6. SentInv'
    <3>1. \A q \in sent : ~excused => Behind(q)'
      BY <1>4, <1>5, <2>1, <2>3, <2>5 DEF Behind
    <3> QED BY <1>4, <1>12, <2>1, <3>1 DEF OnceInv, SentInv
  <2>7. FrozenInv'
    <3> SUFFICES ASSUME NEW u \in Sessions, tx'[u].at = "touch", tx'[u].kind = "giveback",
                        tx'[u].read.id # 0, tx'[u].read.done, funnel'.id = tx'[u].read.id
                 PROVE  funnel'.done /\ funnel'.step = tx'[u].read.step
      BY DEF FrozenInv, Frozen
    <3>1. u # s /\ tx'[u] = tx[u] /\ kind # "giveback"
      BY <1>6 DEF OnceInv, OneHandBack
    <3>2. funnel.done /\ funnel.step = tx[u].read.step
      BY <1>4, <1>12, <3>1 DEF OnceInv, FrozenInv, Frozen
    <3> QED BY <1>4, <2>4, <3>1, <3>2
  <2> QED BY <1>7, <2>6, <2>7 DEF OnceInv
<1> QED BY <1>9, <1>10, <1>11, <1>12

\* The worker leaves a row that is done, or goes on behind what was sent.
LEMMA EndsOnce ==
  ASSUME Inv, OnceInv, NEW f, Ends(f), f.id = funnel.id, worker.at # "idle",
         UNCHANGED <<tx, twice>>, sent' \subseteq sent, excused => excused',
         excused' \/ (\A q \in sent' : q <= lastPing' /\ (~f.done => q < f.step))
  PROVE  OnceInv'
<1>1. funnel' = f /\ worker'.at = "idle" /\ funnel.id # 0 /\ ~funnel.done
  BY RestTypes DEF Ends, Inv, WorkerKeepsItsRow
<1>2. FrozenInv'
  BY <1>1 DEF OnceInv, FrozenInv, Frozen
<1>3. SentInv'
  BY <1>1 DEF OnceInv, SentInv, Behind
<1>4. OneHandBack'
  BY DEF OnceInv, OneHandBack
<1> QED BY <1>2, <1>3, <1>4 DEF OnceInv

\* The row as it is, with a later step or closed, has its sent steps behind it.
LEMMA StillBehind ==
  ASSUME Inv, OnceInv, worker.at \notin {"idle", "sent"}, ~excused, NEW q \in sent
  PROVE  /\ q \in Nat /\ q <= lastPing /\ q < funnel.step
         /\ worker.at = "send" => q < worker.pick
<1>1. q \in Nat
  BY Constants DEF Inv, Types, PlainTypes
<1> QED BY <1>1 DEF Inv, WorkerKeepsItsRow, OnceInv, SentInv, Behind

\* What the messenger takes it has not taken before.
LEMMA TakenOnce ==
  ASSUME Inv, OnceInv, worker.at = "send", Taken
  PROVE  ~twice'
<1>1. worker.pick \in Nat
  BY Constants DEF Inv, PickInv
<1>2. ~excused => worker.pick \notin sent
  <2> SUFFICES ASSUME ~excused, worker.pick \in sent PROVE FALSE
    OBVIOUS
  <2>1. worker.pick < worker.pick
    BY StillBehind
  <2> QED BY <1>1, <2>1
<1> QED BY <1>2 DEF Taken, OnceInv, SentInv

\* After(s, f) ends the funnel or goes beyond s.
LEMMA AfterGoesOn ==
  ASSUME NEW f \in FunnelType, NEW s \in Nat
  PROVE  LET g == After(s, f) IN g.id = f.id /\ (g.done \/ (g.step \in Nat /\ g.step > s))
<1>1. CASE NextRule(s) = None
  BY <1>1 DEF After, FunnelType
<1>2. CASE NextRule(s) # None
  <2>1. NextRule(s) > s /\ NextRule(s) \in Nat
    <3>1. s \in Int /\ Rules \subseteq Nat
      BY Constants
    <3> QED BY <1>2, <3>1, NextRuleAbove
  <2> QED BY <1>2, <2>1 DEF After, FunnelType
<1> QED BY <1>1, <1>2

LEMMA WorkerEndsOnce ==
  ASSUME Inv, OnceInv,
         \/ StopForPeople \/ HandToManager \/ StopUnasked \/ AgentFails \/ AgentStops
         \/ Misfire \/ AgentSkips \/ DuplicateText \/ SendFails \/ Record \/ RecordRefusal
         \/ \E s \in Sessions : AbortWorker(s)
  PROVE  OnceInv'
<1> USE DEF dialog, history, bounds
<1>1. funnel \in FunnelType /\ worker \in WorkerType /\ PickInv
  BY DEF Inv, Types
<1>2. Rules \subseteq Nat
  BY Constants
<1>3. worker.at \in {"send", "sent", "refused"} =>
        /\ worker.pick \in Nat /\ Picked \in FunnelType
        /\ Picked.id = funnel.id /\ Picked.step = worker.pick
  BY <1>1, <1>2 DEF Picked, PickInv, FunnelType
<1>4. CASE \/ StopForPeople \/ HandToManager \/ StopUnasked \/ AgentFails \/ AgentStops \/ Misfire
           \/ RecordRefusal
  <2>1. /\ worker.at \notin {"idle", "sent"}
        /\ UNCHANGED <<tx, history, lastPing>>
        /\ \E f : Ends(f) /\ f.id = funnel.id /\ (f.step = funnel.step \/ f.done)
    <3>1. CASE \/ StopForPeople \/ HandToManager \/ StopUnasked \/ AgentFails \/ AgentStops
      <4>1. /\ Closed.id = funnel.id /\ Closed.step = funnel.step
            /\ [Closed EXCEPT !.misfires = 0].id = funnel.id
            /\ [Closed EXCEPT !.misfires = 0].step = funnel.step
        BY <1>1 DEF Closed, FunnelType
      <4> QED BY <3>1, <4>1 DEF StopForPeople, HandToManager, StopUnasked, AgentFails, AgentStops
    <3>2. CASE Misfire
      <4> DEFINE n == funnel.misfires + 1
                 g == [funnel EXCEPT !.misfires = n, !.done = n >= MaxMisfires,
                                     !.due = n >= MaxMisfires]
      <4>1. g.id = funnel.id /\ g.step = funnel.step
        BY <1>1 DEF FunnelType
      <4>2. Ends(g) /\ worker.at = "agent" /\ UNCHANGED <<tx, history, lastPing>>
        BY <3>2 DEF Misfire
      <4> HIDE DEF g
      <4> QED BY <4>1, <4>2
    <3>3. CASE RecordRefusal
      <4>1. [Picked EXCEPT !.done = TRUE].id = funnel.id /\ [Picked EXCEPT !.done = TRUE].done
        BY <1>3, <3>3 DEF RecordRefusal, FunnelType
      <4> QED BY <3>3, <4>1 DEF RecordRefusal
    <3> QED BY <1>4, <3>1, <3>2, <3>3
  <2>2. PICK f : Ends(f) /\ f.id = funnel.id /\ (f.step = funnel.step \/ f.done)
    BY <2>1
  <2>3. excused' \/ \A q \in sent' : q <= lastPing' /\ (~f.done => q < f.step)
    BY <2>1, <2>2, StillBehind
  <2> QED BY <2>1, <2>2, <2>3, EndsOnce
<1>5. CASE AgentSkips
  <2> DEFINE g == [funnel EXCEPT !.misfires = 0]
             f == After(funnel.step + 2, g)
  <2>1. g \in FunnelType /\ g.id = funnel.id /\ funnel.step \in Nat /\ funnel.step + 2 \in Nat
    BY <1>1 DEF FunnelType
  <2>2. f.id = funnel.id /\ (f.done \/ (f.step \in Nat /\ f.step > funnel.step + 2))
    BY <2>1, AfterGoesOn
  <2>3. Ends(f) /\ UNCHANGED <<tx, history, lastPing>> /\ worker.at = "agent"
    BY <1>5 DEF AgentSkips
  <2> HIDE DEF f
  <2>4. ASSUME NEW q \in sent, ~excused
        PROVE  q <= lastPing' /\ (~f.done => q < f.step)
    <3>1. q \in Nat /\ q <= lastPing /\ q < funnel.step
      BY <2>3, <2>4, StillBehind
    <3> QED BY <2>1, <2>2, <2>3, <3>1
  <2>5. excused' \/ \A q \in sent' : q <= lastPing' /\ (~f.done => q < f.step)
    BY <2>3, <2>4
  <2> QED BY <2>2, <2>3, <2>5, EndsOnce
<1>6. CASE DuplicateText
  <2> DEFINE f == After(worker.pick, Picked)
  <2>1. /\ Ends(f) /\ UNCHANGED <<tx, history, lastPing>> /\ worker.at = "send"
        /\ f.id = funnel.id /\ (f.done \/ (f.step \in Nat /\ f.step > worker.pick))
    BY <1>3, <1>6, AfterGoesOn DEF DuplicateText
  <2>2. worker.pick \in Nat
    BY <1>3, <2>1
  <2> HIDE DEF f
  <2>3. ASSUME NEW q \in sent, ~excused
        PROVE  q <= lastPing' /\ (~f.done => q < f.step)
    <3>1. q \in Nat /\ q <= lastPing /\ q < worker.pick
      BY <2>1, <2>3, StillBehind
    <3> QED BY <2>1, <2>2, <3>1
  <2>4. excused' \/ \A q \in sent' : q <= lastPing' /\ (~f.done => q < f.step)
    BY <2>1, <2>3
  <2> QED BY <2>1, <2>4, EndsOnce
<1>7. CASE SendFails
  <2>1. /\ Ends(Picked) /\ UNCHANGED <<tx, lastPing>> /\ worker.at = "send"
        /\ Picked.id = funnel.id /\ Picked.step = worker.pick /\ worker.pick \in Nat
    BY <1>3, <1>7 DEF SendFails
  <2>2. CASE UNCHANGED history
    <3>1. excused' \/ \A q \in sent' : q <= lastPing' /\ (~Picked.done => q < Picked.step)
      BY <2>1, <2>2, StillBehind
    <3> QED BY <2>1, <2>2, <3>1, EndsOnce
  <2>3. CASE Taken /\ excused'
    <3>1. worker'.at = "idle" /\ funnel' = Picked
      BY <2>1, RestTypes DEF Ends
    <3>2. ~twice'
      BY <2>1, <2>3, TakenOnce
    <3>3. funnel.id # 0 /\ ~funnel.done
      BY <2>1 DEF Inv, WorkerKeepsItsRow
    <3>4. SentInv'
      BY <2>1, <2>3, <3>1, <3>2, <3>3 DEF SentInv
    <3>5. FrozenInv' /\ OneHandBack'
      BY <2>1, <3>1, <3>3 DEF OnceInv, FrozenInv, Frozen, OneHandBack
    <3> QED BY <3>4, <3>5 DEF OnceInv
  <2> QED BY <1>7, <2>2, <2>3 DEF SendFails
<1>8. CASE Record
  <2> DEFINE f == After(worker.pick, Picked)
  <2>1. /\ Ends(f) /\ UNCHANGED <<tx, history>> /\ worker.at = "sent" /\ lastPing' = worker.pick
        /\ f.id = funnel.id /\ (f.done \/ (f.step \in Nat /\ f.step > worker.pick)) /\ worker.pick \in Nat
    BY <1>3, <1>8, AfterGoesOn DEF Record
  <2> HIDE DEF f
  <2>2. \A q \in sent : q \in Nat /\ (~excused => q <= worker.pick)
    BY <1>2, <2>1 DEF Inv, Types, PlainTypes, OnceInv, SentInv, Behind
  <2>3. excused' \/ \A q \in sent' : q <= lastPing' /\ (~f.done => q < f.step)
    BY <2>1, <2>2
  <2> QED BY <2>1, <2>3, EndsOnce
<1>9. CASE \E s \in Sessions : AbortWorker(s)
  <2>1. /\ Ends(funnel) /\ UNCHANGED <<tx, sent, twice, lastPing>> /\ worker.at # "idle"
        /\ excused' = (excused \/ worker.at = "sent")
    BY <1>9 DEF AbortWorker, Deadlock, WantsDialog
  <2>2. excused' \/ \A q \in sent' : q <= lastPing' /\ (~funnel.done => q < funnel.step)
    BY <2>1, StillBehind
  <2> QED BY <2>1, <2>2, EndsOnce
<1> QED BY <1>4, <1>5, <1>6, <1>7, <1>8, <1>9

\* The worker goes on: what it sends comes after what was sent.
LEMMA WorkerGoesOnOnce ==
  ASSUME Inv, OnceInv,
         \/ AskGuard \/ StartAgent \/ VkTakes \/ VkRefuses
         \/ \E s \in Rules : AgentSends(s)
  PROVE  OnceInv'
<1> USE DEF dialog, history, bounds
<1>1. tx \in [Sessions -> TxType] /\ worker \in WorkerType /\ Guard \in Sessions
  BY DEF Inv, Types, Sessions
<1>2. UNCHANGED <<funnel, lastPing>>
  BY DEF AskGuard, StartAgent, VkTakes, VkRefuses, AgentSends
<1>3. OneHandBack' /\ FrozenInv'
  <2>1. CASE tx' = tx
    BY <1>2, <2>1 DEF OnceInv, OneHandBack, FrozenInv, Frozen
  <2>2. CASE tx' = [tx EXCEPT ![Guard] = [NoTx EXCEPT !.at = "begun", !.kind = "watch"]]
    <3>1. /\ tx'[Guard].at = "begun" /\ tx'[Guard].kind = "watch"
          /\ \A s \in Sessions \ {Guard} : tx'[s] = tx[s]
      BY <1>1, <2>2 DEF NoTx
    <3>2. OneHandBack'
      BY <3>1 DEF OnceInv, OneHandBack
    <3>3. FrozenInv'
      BY <1>2, <3>1, KeepsFrozen DEF OnceInv
    <3> QED BY <3>2, <3>3
  <2> QED BY <2>1, <2>2 DEF AskGuard, StartAgent, VkTakes, VkRefuses, AgentSends
<1>4. CASE AskGuard \/ StartAgent \/ VkRefuses
  <2>1. worker.at # "sent" /\ worker'.at \notin {"send", "sent"} /\ UNCHANGED history
    BY <1>1, <1>4 DEF AskGuard, StartAgent, VkRefuses, WorkerType
  <2>2. SentInv'
    BY <1>2, <2>1, KeepsSent DEF OnceInv
  <2> QED BY <1>3, <2>2 DEF OnceInv
<1>5. ASSUME NEW s \in Rules, AgentSends(s)
      PROVE  OnceInv'
  <2>1. /\ worker.at = "agent" /\ worker'.at = "send" /\ worker'.pick = s
        /\ excused' = (excused \/ s \notin Window(funnel.step)) /\ UNCHANGED <<sent, twice>>
    BY <1>1, <1>5 DEF AgentSends, WorkerType
  <2>2. s \in Nat /\ funnel.step \in Nat
    BY Constants DEF Inv, Types, FunnelType
  <2>3. ASSUME NEW q \in sent, ~excused'
        PROVE  Behind(q)'
    <3>1. ~excused /\ s \in Window(funnel.step)
      BY <2>1, <2>3
    <3>2. q \in Nat /\ q <= lastPing /\ q < funnel.step
      BY <2>1, <2>3, <3>1, StillBehind
    <3>3. funnel.step <= s
      BY <2>2, <3>1 DEF Window
    <3>4. q < s
      BY <2>2, <3>2, <3>3
    <3> QED BY <1>2, <2>1, <3>2, <3>4 DEF Behind
  <2>4. SentInv'
    BY <1>2, <2>1, <2>3 DEF OnceInv, SentInv
  <2> QED BY <1>3, <2>4 DEF OnceInv
<1>6. CASE VkTakes
  <2>1. /\ worker.at = "send" /\ Taken /\ worker'.at = "sent" /\ worker'.pick = worker.pick
        /\ UNCHANGED excused
    BY <1>1, <1>6 DEF VkTakes, WorkerType
  <2>2. worker.pick \in Nat /\ funnel.id # 0
    BY <2>1, Constants DEF Inv, PickInv, WorkerKeepsItsRow
  <2>3. ASSUME NEW q \in sent', ~excused'
        PROVE  q <= worker.pick
    <3>1. q = worker.pick \/ q \in sent
      BY <2>1, <2>3 DEF Taken
    <3>2. q \in sent => q \in Nat /\ q < worker.pick
      BY <2>1, <2>3, StillBehind
    <3> QED BY <2>2, <3>1, <3>2
  <2>4. ~twice'
    BY <2>1, TakenOnce
  <2>5. SentInv'
    BY <1>2, <2>1, <2>2, <2>3, <2>4 DEF SentInv, Behind
  <2> QED BY <1>3, <2>5 DEF OnceInv
<1> QED BY <1>4, <1>5, <1>6

\* Who leaves the funnel's step and what was sent alone.
LEMMA RestOnce ==
  ASSUME Inv, OnceInv,
         \/ DueComes \/ PickDue \/ Select \/ Check \/ Detect \/ LoseBatch
         \/ ManagerWritesInMax \/ UNCHANGED vars
  PROVE  OnceInv'
<1> USE DEF dialog, history, bounds
<1>1. /\ UNCHANGED <<tx, lastPing, history>>
      /\ worker' = worker \/ (worker.at = "idle" /\ worker'.at = "loaded")
  BY DEF DueComes, PickDue, Select, Check, Detect, LoseBatch, ManagerWritesInMax, vars
<1>2. funnel'.id = funnel.id /\ funnel'.done = funnel.done /\ funnel'.step = funnel.step
  BY DEF DueComes, PickDue, Select, Check, Detect, LoseBatch, ManagerWritesInMax, vars,
     Inv, Types, FunnelType
<1>3. OneHandBack'
  BY <1>1 DEF OnceInv, OneHandBack
<1>4. FrozenInv'
  BY <1>1, <1>2, KeepsFrozen DEF OnceInv
<1>5. SentInv'
  BY <1>1, <1>2, KeepsSent DEF OnceInv
<1> QED BY <1>3, <1>4, <1>5 DEF OnceInv

\* Discovery leaves the funnel, or plans one nobody knows.
LEMMA CommitBatchOnce ==
  ASSUME Inv, OnceInv, CommitBatch
  PROVE  OnceInv'
<1> USE DEF dialog, history, bounds
<1>1. TypeOK /\ UNCHANGED <<tx, lastPing, worker>>
  BY TypesTogether DEF CommitBatch, Inv
<1> DEFINE g == NewFunnel(FALSE, FALSE)
           new == [g EXCEPT !.answered = disc.answered, !.clean = Undisturbed]
           f == IF disc.inserts THEN new ELSE IF disc.deletes THEN NoFunnel ELSE funnel
<1>2. funnel' = f /\ Replaced(f)
  BY DEF CommitBatch
<1>3. /\ new.id # 0 /\ new.id # funnel.id /\ \A s \in Sessions : new.id # tx[s].read.id
  <2>1. /\ g \in FunnelType /\ g.id # 0 /\ g.id # funnel.id
        /\ \A s \in Sessions : g.id # tx[s].read.id
    BY <1>1, NewFunnelType
  <2> HIDE DEF g
  <2>2. new.id = g.id
    BY <2>1 DEF FunnelType
  <2> QED BY <2>1, <2>2
<1>4. OneHandBack'
  BY <1>1 DEF OnceInv, OneHandBack
<1> HIDE DEF new
<1>5. CASE ~disc.inserts /\ ~disc.deletes
  <2>1. UNCHANGED <<funnel, history>>
    BY <1>2, <1>5 DEF Replaced
  <2>2. FrozenInv' /\ SentInv'
    BY <1>1, <2>1, KeepsFrozen, KeepsSent DEF OnceInv
  <2> QED BY <1>4, <2>2 DEF OnceInv
<1>6. CASE disc.inserts \/ disc.deletes
  <2>1. /\ funnel'.id = 0 \/ (funnel'.id # funnel.id /\ \A s \in Sessions : funnel'.id # tx[s].read.id)
        /\ sent' = {} /\ UNCHANGED twice
    <3>1. CASE disc.inserts
      BY <1>2, <1>3, <3>1 DEF Replaced
    <3>2. CASE ~disc.inserts
      <4>1. f = NoFunnel /\ NoFunnel.id = 0
        BY <1>6, <3>2 DEF NoFunnel
      <4>2. funnel.id = 0 => sent = {}
        BY DEF OnceInv, SentInv
      <4> QED BY <1>2, <4>1, <4>2 DEF Replaced
    <3> QED BY <3>1, <3>2
  <2>2. FrozenInv'
    BY <1>1, <2>1, KeepsFrozen DEF OnceInv
  <2>3. SentInv'
    BY <2>1 DEF OnceInv, SentInv
  <2> QED BY <1>4, <2>2, <2>3 DEF OnceInv
<1> QED BY <1>5, <1>6

\* A restart forgets nothing but a reminder that was not recorded.
LEMMA CrashOnce ==
  ASSUME Inv, OnceInv, Crash
  PROVE  OnceInv'
<1> USE DEF dialog, history, bounds
<1>1. /\ tx' = [s \in Sessions |-> NoTx] /\ worker'.at = "idle"
      /\ UNCHANGED <<funnel, sent, twice, lastPing>> /\ excused' = (excused \/ worker.at = "sent")
  BY RestTypes DEF Crash
<1>2. NoTx.at = "idle" /\ NoTx.kind = "none"
  BY DEF NoTx
<1>3. OneHandBack' /\ FrozenInv'
  BY <1>1, <1>2 DEF OneHandBack, FrozenInv
<1>4. SentInv'
  BY <1>1, KeepsSent DEF OnceInv
<1> QED BY <1>3, <1>4 DEF OnceInv

LEMMA NextOnce ==
  ASSUME Inv, OnceInv, [Next]_vars
  PROVE  OnceInv'
<1>1. CASE UNCHANGED vars \/ DueComes \/ PickDue \/ ManagerWritesInMax
  BY <1>1, RestOnce
<1>2. CASE Crash
  BY <1>2, CrashOnce
<1>3. CASE WorkerSteps
  BY <1>3, WorkerEndsOnce, WorkerGoesOnOnce DEF WorkerSteps
<1>4. ASSUME NEW r \in Requests, NEW kind \in Kinds, Begin(r, kind)
      PROVE  OnceInv'
  BY <1>4, BeginOnce
<1>5. ASSUME NEW s \in Sessions, SessionSteps(s) \/ AbortWorker(s) \/ AbortSession(s)
      PROVE  OnceInv'
  <2>1. CASE Flush(s) \/ Fail(s) \/ AbortSession(s)
    BY <2>1, SessionOnce
  <2>2. CASE Commit(s)
    BY <2>2, CommitOnce
  <2>3. CASE AbortWorker(s)
    BY <2>3, WorkerEndsOnce
  <2> QED BY <1>5, <2>1, <2>2, <2>3 DEF SessionSteps
<1>6. CASE Select \/ Passes
  BY <1>6, RestOnce, CommitBatchOnce DEF Passes
<1> QED BY <1>1, <1>2, <1>3, <1>4, <1>5, <1>6 DEF Next

-----------------------------------------------------------------------------
\* No step of a funnel is sent twice, whatever the hand-backs, the skipped and the failed
\* reminders in between, unless a reminder that was sent was not recorded or the agent
\* named a step it was not shown.
THEOREM NoPingIsRepeated == Spec => []NoPingTwice
<1>1. OnceInv => NoPingTwice
  BY DEF OnceInv, SentInv, NoPingTwice
<1>2. Inv /\ OnceInv /\ [Next]_vars => OnceInv'
  BY NextOnce
<1> QED BY <1>1, <1>2, InitOnce, Invariance, PTL DEF Spec
=============================================================================
