-------------------------- MODULE StatusFlow_proof --------------------------
(* Theorems about StatusFlow, for any dialogs, sessions, facts and active    *)
(* statuses, and a mailing of any size.                                      *)
EXTENDS StatusFlow, TLAPS

-----------------------------------------------------------------------------
(* The ladder *)

LEMMA LadderSteps ==
  OnLadder = {"interested", "calculated", "clarifying", "hot", "data", "prepay", "order"}
<1>1. DOMAIN Ladder = 1..7
  BY DEF Ladder
<1>2. 1..7 = {1, 2, 3, 4, 5, 6, 7}
  OBVIOUS
<1> QED BY <1>1, <1>2 DEF OnLadder, ToSet, Ladder

LEMMA Ranks ==
  /\ Rank("interested") = 1 /\ Rank("calculated") = 2 /\ Rank("clarifying") = 3
  /\ Rank("hot") = 4 /\ Rank("data") = 5 /\ Rank("prepay") = 6 /\ Rank("order") = 7
<1>1. DOMAIN Ladder = {1, 2, 3, 4, 5, 6, 7}
  BY DEF Ladder
<1>2. /\ Ladder[1] = "interested" /\ Ladder[2] = "calculated" /\ Ladder[3] = "clarifying"
      /\ Ladder[4] = "hot" /\ Ladder[5] = "data" /\ Ladder[6] = "prepay" /\ Ladder[7] = "order"
  BY DEF Ladder
<1>3. \A i \in DOMAIN Ladder : Rank(Ladder[i]) = i
  <2> SUFFICES ASSUME NEW i \in DOMAIN Ladder PROVE Rank(Ladder[i]) = i
    OBVIOUS
  <2>1. \A j \in DOMAIN Ladder : Ladder[j] = Ladder[i] => j = i
    BY <1>1, <1>2
  <2>2. Ladder[i] \in OnLadder
    BY DEF OnLadder, ToSet
  <2> QED BY <2>1, <2>2 DEF Rank
<1> QED BY <1>1, <1>2, <1>3

LEMMA RankType == \A name : Rank(name) \in 0..7
<1> SUFFICES ASSUME NEW name PROVE Rank(name) \in 0..7
  OBVIOUS
<1>1. CASE name \in OnLadder
  BY <1>1, LadderSteps, Ranks
<1>2. CASE name \notin OnLadder
  BY <1>2 DEF Rank
<1> QED BY <1>1, <1>2

\* Side statuses, the managers' own and none at all have no rank.
LEMMA OffLadder ==
  /\ \A name \in Side \cup {Own, "none"} : name \notin OnLadder
  /\ \A name : name \notin OnLadder => Rank(name) = 0
  /\ "-" \notin OnLadder
BY LadderSteps DEF Side, Own, Rank

\* What is earned is on the ladder.
LEMMA EarnedType == \A said, confirmed : Earned(said, confirmed) \in OnLadder
BY LadderSteps DEF Earned

LEMMA MoveType ==
  ASSUME NEW current, NEW target \in OnLadder
  PROVE  /\ Move(current, target) \in {"-", target}
         /\ MoveBack(current, target) \in {"-", target}
         /\ Move(current, target) # "-" =>
              /\ current \in OnLadder \cup {"none"}
              /\ Rank(target) > Rank(current)
BY DEF Move, MoveBack

LEMMA FunnelType ==
  ASSUME NEW before \in Funnels, NEW target, NEW isPaused \in BOOLEAN
  PROVE  /\ FunnelAfter(before, target, isPaused) \in Funnels
         /\ Stopped(before) \in Funnels \ {"checkout", "after_payment"}
BY DEF FunnelAfter, Stopped, Funnels
-----------------------------------------------------------------------------
(* Types *)

LEMMA WorthNames == DOMAIN Worth = {"nothing", "price", "checkout", "contacts", "link"}
BY DEF Worth

LEMMA SaidType ==
  ASSUME NEW by \in {"client", "ai", "curator"}, NEW ok \in BOOLEAN,
         NEW shows \in DOMAIN Worth \cup {"details"}
  PROVE  Said(by, shows, ok) \in Message
BY DEF Said, Message

LEMMA IdleType == Idle \in Local
<1>1. (CHOOSE d \in Dialogs : TRUE) \in Dialogs
  BY Constants
<1>2. <<>> \in Seq(Message)
  OBVIOUS
<1> QED BY <1>1, <1>2 DEF Idle, Local, Statuses

LEMMA LoadedType ==
  ASSUME TypeOK, NEW d \in Dialogs, NEW kind \in {"turn", "silent", "manager", "resync"},
         NEW step \in {"work", "sync", "commit"}
  PROVE  /\ Loaded(d, kind, step) \in Local
         /\ \A sent \in Seq(Message) : [Loaded(d, kind, step) EXCEPT !.sent = sent] \in Local
         /\ Loaded(d, kind, step).target = "-"
         /\ Loaded(d, kind, step).dialog = d
BY IdleType DEF Loaded, Idle, Local, TypeOK

LEMMA InitType == Init => TypeOK
<1> SUFFICES ASSUME Init PROVE TypeOK
  OBVIOUS
<1>1. status \in [Dialogs -> Statuses]
  BY LadderSteps DEF Init, Statuses
<1>2. <<>> \in Seq(Message)
  OBVIOUS
<1>3. my \in [Sessions -> Local]
  BY IdleType DEF Init
<1> QED BY <1>1, <1>2, <1>3, Constants DEF Init, TypeOK, Funnels

LEMMA HappensType == TypeOK /\ Happens => happenings' \in 0..MaxHappenings
BY Constants DEF TypeOK, Happens

\* Sessions that begin.
LEMMA BeginsType ==
  ASSUME TypeOK, NEW s \in Sessions, NEW d \in Dialogs,
         Begin(s, d) \/ ManagerSpeaks(s, d) \/ BeginResync(s, d)
  PROVE  TypeOK'
<1>1. CASE Begin(s, d)
  <2>1. my' \in [Sessions -> Local]
    BY <1>1, LoadedType DEF Begin, TypeOK
  <2> QED BY <1>1, <2>1, HappensType DEF Begin, TypeOK, dialog, told
<1>2. CASE ManagerSpeaks(s, d)
  <2>1. happenings' \in 0..MaxHappenings
    BY <1>2, HappensType DEF ManagerSpeaks
  <2>2. my' \in [Sessions -> Local] /\ seen' \subseteq Dialogs \cup Elsewhere
    <3>1. CASE \E shows \in Facts \cup {"nothing"}, ok \in BOOLEAN :
                 /\ my' = [my EXCEPT ![s] = [Loaded(d, "manager", IF ok THEN "sync" ELSE "commit")
                                               EXCEPT !.sent = <<Said("curator", shows, ok)>>]]
                 /\ UNCHANGED seen
      <4>1. PICK shows \in Facts \cup {"nothing"}, ok \in BOOLEAN :
               /\ my' = [my EXCEPT ![s] = [Loaded(d, "manager", IF ok THEN "sync" ELSE "commit")
                                             EXCEPT !.sent = <<Said("curator", shows, ok)>>]]
               /\ UNCHANGED seen
        BY <3>1
      <4>2. Said("curator", shows, ok) \in Message
        BY SaidType, Constants, WorthNames
      <4>3. <<Said("curator", shows, ok)>> \in Seq(Message)
        BY <4>2
      <4>4. (IF ok THEN "sync" ELSE "commit") \in {"work", "sync", "commit"}
        OBVIOUS
      <4>5. [Loaded(d, "manager", IF ok THEN "sync" ELSE "commit")
               EXCEPT !.sent = <<Said("curator", shows, ok)>>] \in Local
        BY <4>3, <4>4, LoadedType
      <4> QED BY <4>1, <4>5 DEF TypeOK
    <3>2. CASE /\ seen' = seen \cup {d}
               /\ LET live == ManyDialogs(seen') IN
                  my' = [my EXCEPT ![s] = [Loaded(d, "manager", IF live THEN "commit" ELSE "sync") EXCEPT !.sent =
                          <<[Said("curator", "price", TRUE) EXCEPT !.mass = TRUE,
                                                                  !.mailing = IF live THEN "live" ELSE "no"]>>]]
      <4> DEFINE live == ManyDialogs(seen')
                 mass == [Said("curator", "price", TRUE) EXCEPT !.mass = TRUE,
                                                               !.mailing = IF live THEN "live" ELSE "no"]
                 step == IF live THEN "commit" ELSE "sync"
      <4>1. my' = [my EXCEPT ![s] = [Loaded(d, "manager", step) EXCEPT !.sent = <<mass>>]]
        BY <3>2
      <4>2. mass \in Message
        BY WorthNames DEF Said, Message
      <4>3. <<mass>> \in Seq(Message) /\ step \in {"work", "sync", "commit"}
        BY <4>2
      <4> HIDE DEF mass, step
      <4>4. [Loaded(d, "manager", step) EXCEPT !.sent = <<mass>>] \in Local
        BY <4>3, LoadedType
      <4> QED BY <3>2, <4>1, <4>4 DEF TypeOK
    <3> QED BY <1>2, <3>1, <3>2 DEF ManagerSpeaks
  <2> QED BY <1>2, <2>1, <2>2 DEF ManagerSpeaks, TypeOK, dialog, told
<1>3. CASE BeginResync(s, d)
  <2>1. my' \in [Sessions -> Local]
    BY <1>3, LoadedType DEF BeginResync, TypeOK
  <2> QED BY <1>3, <2>1, HappensType DEF BeginResync, TypeOK, dialog, told
<1> QED BY <1>1, <1>2, <1>3

LEMMA WithFailedType ==
  ASSUME NEW said \in Seq(Message), NEW rows
  PROVE  /\ WithFailed(said, rows) \in Seq(Message)
         /\ DOMAIN WithFailed(said, rows) = DOMAIN said
         /\ \A i \in DOMAIN said : LET m == WithFailed(said, rows)[i] IN
              /\ m.by = said[i].by /\ m.shows = said[i].shows
              /\ m.mailing = said[i].mailing /\ m.got = said[i].got
<1>1. /\ Len(said) \in Nat /\ DOMAIN said = 1..Len(said)
      /\ \A i \in DOMAIN said : said[i] \in Message
  OBVIOUS
<1>2. ASSUME NEW m \in Message
      PROVE  LET n == [m EXCEPT !.failed = TRUE] IN
             n \in Message /\ n.by = m.by /\ n.shows = m.shows /\ n.mailing = m.mailing /\ n.got = m.got
  BY DEF Message
<1>3. WithFailed(said, rows) \in [1..Len(said) -> Message]
  BY <1>1, <1>2 DEF WithFailed
<1>4. WithFailed(said, rows) \in Seq(Message)
  BY <1>1, <1>3
<1>5. ASSUME NEW i \in DOMAIN said
      PROVE  LET m == WithFailed(said, rows)[i] IN
             /\ m.by = said[i].by /\ m.shows = said[i].shows
             /\ m.mailing = said[i].mailing /\ m.got = said[i].got
  <2>1. WithFailed(said, rows)[i] = said[i] \/ WithFailed(said, rows)[i] = [said[i] EXCEPT !.failed = TRUE]
    BY DEF WithFailed
  <2>2. said[i] \in Message
    BY <1>1
  <2> QED BY <1>2, <2>1, <2>2
<1> QED BY <1>1, <1>3, <1>4, <1>5

LEMMA SeesType ==
  ASSUME TypeOK, NEW s \in Sessions
  PROVE  /\ my[s] \in Local /\ my[s].dialog \in Dialogs
         /\ messages[my[s].dialog] \in Seq(Message) /\ my[s].sent \in Seq(Message)
         /\ Sees(s) \in Seq(Message)
<1>1. /\ my[s] \in Local /\ my[s].dialog \in Dialogs
      /\ messages[my[s].dialog] \in Seq(Message) /\ my[s].sent \in Seq(Message)
  BY DEF TypeOK, Local
<1>2. WithFailed(messages[my[s].dialog], my[s].rows) \in Seq(Message)
  BY <1>1, WithFailedType
<1> QED BY <1>1, <1>2 DEF Sees

\* The rows of a turn.
LEMMA RowsType ==
  ASSUME NEW n \in Nat, NEW shows \in [1..n -> Facts \cup {"nothing"}]
  PROVE  [i \in 1..n |-> Row(shows[i])] \in Seq(Message)
<1>1. \A i \in 1..n : Row(shows[i]) \in Message
  BY Constants, WorthNames DEF Row, Said, Message
<1>2. [i \in 1..n |-> Row(shows[i])] \in [1..n -> Message]
  BY <1>1
<1> QED BY <1>2

\* The steps of a turn after it has begun and before its conclusion.
Turns(s) == TurnStores(s) \/ TurnSends(s) \/ TurnFails(s) \/ TurnLeaves(s)

LEMMA TurnsType ==
  ASSUME TypeOK, NEW s \in Sessions, Turns(s)
  PROVE  TypeOK'
<1> DEFINE d == my[s].dialog
<1>1. my[s] \in Local /\ d \in Dialogs /\ messages[d] \in Seq(Message)
  BY SeesType
<1>2. CASE TurnStores(s)
  <2>1. PICK n \in 1..MaxParts : \E shows \in [1..n -> Facts \cup {"nothing"}], kept \in SUBSET (1..n) :
          /\ messages' = [messages EXCEPT ![d] = @ \o [i \in 1..n |-> Row(shows[i])]]
          /\ my' = [my EXCEPT ![s].step = "send", ![s].rows = {Len(messages[d]) + i : i \in kept}]
    BY <1>2 DEF TurnStores
  <2>2. PICK shows \in [1..n -> Facts \cup {"nothing"}], kept \in SUBSET (1..n) :
          /\ messages' = [messages EXCEPT ![d] = @ \o [i \in 1..n |-> Row(shows[i])]]
          /\ my' = [my EXCEPT ![s].step = "send", ![s].rows = {Len(messages[d]) + i : i \in kept}]
    BY <2>1
  <2> DEFINE new == [i \in 1..n |-> Row(shows[i])]
             rows == {Len(messages[d]) + i : i \in kept}
  <2>3. new \in Seq(Message) /\ rows \in SUBSET Nat
    BY <1>1, RowsType, Constants
  <2>4. messages' = [messages EXCEPT ![d] = messages[d] \o new]
    BY <2>2
  <2>5. my' = [my EXCEPT ![s] = [my[s] EXCEPT !.step = "send", !.rows = rows]]
    BY <2>2 DEF TypeOK
  <2> HIDE DEF new, rows
  <2>6. messages' \in [Dialogs -> Seq(Message)]
    BY <1>1, <2>3, <2>4 DEF TypeOK
  <2>7. [my[s] EXCEPT !.step = "send", !.rows = rows] \in Local
    BY <1>1, <2>3 DEF Local
  <2> QED BY <1>2, <2>5, <2>6, <2>7 DEF TurnStores, TypeOK, dialog, told
<1>3. CASE TurnSends(s)
  <2>1. PICK i \in my[s].rows :
          /\ messages' = [messages EXCEPT ![d][i].got = TRUE]
          /\ my' = [my EXCEPT ![s].rows = @ \ {i}, ![s].any = TRUE,
                              ![s].step = IF my[s].rows = {i} THEN "sync" ELSE @]
    BY <1>3 DEF TurnSends
  <2> DEFINE step == IF my[s].rows = {i} THEN "sync" ELSE my[s].step
             left == my[s].rows \ {i}
             said == [messages[d] EXCEPT ![i].got = TRUE]
  <2>2. messages' = [messages EXCEPT ![d] = said]
    BY <1>1, <2>1 DEF TypeOK
  <2>3. my' = [my EXCEPT ![s] = [my[s] EXCEPT !.rows = left, !.any = TRUE, !.step = step]]
    BY <2>1 DEF TypeOK
  <2>4. said \in Seq(Message)
    <3>1. \A m \in Message : [m EXCEPT !.got = TRUE] \in Message
      BY DEF Message
    <3>2. Len(messages[d]) \in Nat /\ messages[d] \in [1..Len(messages[d]) -> Message]
      BY <1>1
    <3>3. said \in [1..Len(messages[d]) -> Message]
      BY <3>1, <3>2
    <3> QED BY <3>2, <3>3
  <2>5. step \in {"idle", "work", "send", "sync", "commit"} /\ left \in SUBSET Nat
    BY <1>1 DEF Local
  <2> HIDE DEF step, left, said
  <2>6. [my[s] EXCEPT !.rows = left, !.any = TRUE, !.step = step] \in Local
    BY <1>1, <2>5 DEF Local
  <2>7. messages' \in [Dialogs -> Seq(Message)]
    BY <2>2, <2>4 DEF TypeOK
  <2> QED BY <1>3, <2>3, <2>6, <2>7 DEF TurnSends, TypeOK, dialog, told
<1>4. CASE TurnFails(s)
  <2>1. [my[s] EXCEPT !.step = "sync"] \in Local /\ Idle \in Local
    BY <1>1, IdleType DEF Local
  <2>2. my' \in [Sessions -> Local]
    BY <1>4, <2>1 DEF TurnFails, TypeOK
  <2> DEFINE failed == WithFailed(messages[d], my[s].rows)
  <2>4. failed \in Seq(Message)
    BY <1>1, WithFailedType
  <2>5. messages' = messages \/ messages' = [messages EXCEPT ![d] = failed]
    BY <1>4 DEF TurnFails
  <2> HIDE DEF failed
  <2>3. messages' \in [Dialogs -> Seq(Message)]
    BY <1>1, <2>4, <2>5 DEF TypeOK
  <2> QED BY <1>4, <2>2, <2>3 DEF TurnFails, TypeOK, dialog, told
<1>5. CASE TurnLeaves(s)
  BY <1>5, IdleType DEF TurnLeaves, TypeOK, dialog, told
<1> QED BY <1>2, <1>3, <1>4, <1>5 DEF Turns

\* Sessions that go on.
LEMMA SessionType ==
  ASSUME TypeOK, NEW s \in Sessions,
         SilentSends(s) \/ Sync(s) \/ Commit(s) \/ RollBack(s)
  PROVE  TypeOK'
<1> DEFINE d == my[s].dialog
<1>1. my[s] \in Local /\ d \in Dialogs
  BY DEF TypeOK, Local
<1>3. CASE SilentSends(s)
  <2> DEFINE price == Said("ai", "price", TRUE)
  <2>0. price \in Message
    BY SaidType, WorthNames
  <2>1. <<price>> \in Seq(Message)
    <3> HIDE DEF price
    <3> QED BY <2>0
  <2>2. [my[s] EXCEPT !.step = "sync", !.sent = <<Said("ai", "price", TRUE)>>] \in Local
    BY <1>1, <2>1 DEF Local
  <2>3. my' = [my EXCEPT ![s] = [my[s] EXCEPT !.step = "sync", !.sent = <<Said("ai", "price", TRUE)>>]]
    BY <1>3 DEF SilentSends, TypeOK
  <2> QED BY <1>3, <2>2, <2>3 DEF SilentSends, TypeOK, dialog, told
<1>4. CASE Sync(s)
  <2> DEFINE said == Sees(s)
             earned == Earned(said, paid[d])
             target == IF my[s].kind = "resync" THEN MoveBack(my[s].status, earned)
                                                ELSE Move(my[s].status, earned)
             loose == target # "-" /\ (my[s].hasty \/ \E i \in DOMAIN said : Unsent(said[i], target))
  <2>1. earned \in OnLadder
    BY EarnedType
  <2>2. target \in OnLadder \cup {"-"}
    <3> HIDE DEF earned
    <3> QED BY <2>1, MoveType
  <2>3. /\ my' = [my EXCEPT ![s].step = "commit", ![s].target = target, ![s].hasty =
                    target # "-" /\ (@ \/ \E i \in DOMAIN said : Unsent(said[i], target))]
        /\ announced' = [announced EXCEPT ![d] =
                           IF my[s].kind # "resync" /\ Announced(target, said) THEN @ + 1 ELSE @]
    BY <1>4 DEF Sync
  <2>8. my' = [my EXCEPT ![s].step = "commit", ![s].target = target, ![s].hasty = loose]
    BY <2>3 DEF TypeOK
  <2>9. loose \in BOOLEAN
    OBVIOUS
  <2> HIDE DEF target, said, loose
  <2>4. [my[s] EXCEPT !.step = "commit", !.target = target, !.hasty = loose] \in Local
    BY <1>1, <2>2, <2>9 DEF Local
  <2>5. my' = [my EXCEPT ![s] = [my[s] EXCEPT !.step = "commit", !.target = target, !.hasty = loose]]
    BY <2>8 DEF TypeOK
  <2>6. my' \in [Sessions -> Local]
    BY <2>4, <2>5 DEF TypeOK
  <2>7. announced' \in [Dialogs -> Nat]
    BY <1>1, <2>3 DEF TypeOK
  <2> QED BY <1>4, <2>6, <2>7 DEF Sync, TypeOK, dialog
<1>5. CASE Commit(s)
  <2> DEFINE target == my[s].target
  <2>1. my[s].sent \in Seq(Message) /\ target \in OnLadder \cup {"-"} /\ my[s].paused \in BOOLEAN
    BY <1>1 DEF Local
  <2>2. messages' \in [Dialogs -> Seq(Message)]
    BY <1>1, <1>5, SeesType DEF Commit, TypeOK
  <2>3. status' \in [Dialogs -> Statuses]
    BY <1>1, <1>5, <2>1 DEF Commit, TypeOK, Statuses
  <2>4. byHand' \in [Dialogs -> BOOLEAN] /\ paused' \in [Dialogs -> BOOLEAN]
    BY <1>1, <1>5 DEF Commit, TypeOK
  <2>5. funnel' \in [Dialogs -> Funnels]
    <3> DEFINE before == IF Takes(s) THEN Stopped(funnel[d]) ELSE funnel[d]
               after  == FunnelAfter(before, target, my[s].paused \/ Takes(s))
    <3>1. funnel' = IF my[s].kind = "resync" THEN funnel ELSE [funnel EXCEPT ![d] = after]
      BY <1>5 DEF Commit
    <3>2. before \in Funnels
      BY <1>1, FunnelType DEF TypeOK, Stopped, Funnels
    <3>3. (my[s].paused \/ Takes(s)) \in BOOLEAN
      OBVIOUS
    <3> HIDE DEF before
    <3>4. after \in Funnels
      BY <3>2, <3>3, FunnelType
    <3> HIDE DEF after
    <3> QED BY <3>1, <3>4 DEF TypeOK
  <2>6. stored' \subseteq Dialogs \cup Elsewhere
    BY <1>1, <1>5 DEF Commit, TypeOK
  <2>7. undone' \subseteq Dialogs /\ hasty' \subseteq Dialogs
    BY <1>1, <1>5 DEF Commit, TypeOK, MovedBack
  <2>8. my' \in [Sessions -> Local]
    BY <1>5, IdleType DEF Commit, TypeOK
  <2> QED BY <1>5, <2>2, <2>3, <2>4, <2>5, <2>6, <2>7, <2>8 DEF Commit, TypeOK
<1>6. CASE RollBack(s)
  <2>1. my' \in [Sessions -> Local] /\ undone' \subseteq Dialogs
    BY <1>1, <1>6, IdleType DEF RollBack, TypeOK
  <2> QED BY <1>6, <2>1 DEF RollBack, TypeOK, dialog
<1> QED BY <1>3, <1>4, <1>5, <1>6

\* People, reminders, the model, and the mailing.
LEMMA PeopleType ==
  ASSUME TypeOK, NEW d \in Dialogs,
         ClientWrites(d) \/ ChangeStatus(d) \/ ConfirmPayment(d) \/ SetAiPause(d) \/ SideMark(d)
  PROVE  TypeOK'
<1>1. Named \subseteq Statuses
  BY Constants DEF Statuses
<1>2. CASE ClientWrites(d)
  <2>1. PICK m \in Message : messages' = [messages EXCEPT ![d] = Append(@, m)]
    <3>1. \A shows \in {"nothing", "details"} : Said("client", shows, TRUE) \in Message
      BY SaidType, WorthNames
    <3> QED BY <1>2, <3>1 DEF ClientWrites
  <2>3. messages' \in [Dialogs -> Seq(Message)]
    BY <2>1 DEF TypeOK
  <2> QED BY <1>2, <2>3, HappensType DEF ClientWrites, TypeOK, dialog, told
<1>3. CASE ChangeStatus(d)
  <2>1. PICK name \in Named :
          /\ status' = [status EXCEPT ![d] = name]
          /\ funnel' = [funnel EXCEPT ![d] = CASE name = "prepay" -> "after_payment"
                                               [] name = "order"  -> Stopped(@)
                                               [] OTHER           -> @]
    BY <1>3 DEF ChangeStatus
  <2>2. status' \in [Dialogs -> Statuses]
    BY <1>1, <2>1 DEF TypeOK
  <2>3. funnel' \in [Dialogs -> Funnels]
    <3> DEFINE after == CASE name = "prepay" -> "after_payment"
                          [] name = "order"  -> Stopped(funnel[d])
                          [] OTHER           -> funnel[d]
    <3>1. funnel[d] \in Funnels /\ Stopped(funnel[d]) \in Funnels
      BY FunnelType DEF TypeOK, Stopped, Funnels
    <3>2. after \in Funnels
      BY <3>1 DEF Funnels
    <3>3. funnel' = [funnel EXCEPT ![d] = after]
      BY <2>1
    <3> HIDE DEF after
    <3> QED BY <3>2, <3>3 DEF TypeOK
  <2>4. undone' \subseteq Dialogs /\ byHand' \in [Dialogs -> BOOLEAN]
    BY <1>3 DEF ChangeStatus, TypeOK, MovedBack
  <2> QED BY <1>3, <2>2, <2>3, <2>4, HappensType DEF ChangeStatus, TypeOK
<1>4. CASE ConfirmPayment(d)
  <2>1. paid' \in [Dialogs -> {"no", "yes", "revoked"}]
    BY <1>4 DEF ConfirmPayment, TypeOK
  <2> QED BY <1>4, <2>1, HappensType DEF ConfirmPayment, TypeOK, told
<1>5. CASE SetAiPause(d)
  <2>1. paused' \in [Dialogs -> BOOLEAN]
    BY <1>5 DEF SetAiPause, TypeOK
  <2>2. funnel' \in [Dialogs -> Funnels]
    BY <1>5 DEF SetAiPause, TypeOK, Stopped, Funnels
  <2> QED BY <1>5, <2>1, <2>2, HappensType DEF SetAiPause, TypeOK, told
<1>6. CASE SideMark(d)
  <2>1. status' \in [Dialogs -> Statuses]
    BY <1>1, <1>6 DEF SideMark, TypeOK
  <2>2. paused' \in [Dialogs -> BOOLEAN] /\ byHand' \in [Dialogs -> BOOLEAN]
    BY <1>6 DEF SideMark, TypeOK
  <2>3. undone' \subseteq Dialogs
    BY <1>6 DEF SideMark, TypeOK, MovedBack
  <2> QED BY <1>6, <2>1, <2>2, <2>3, HappensType DEF SideMark, TypeOK
<1> QED BY <1>2, <1>3, <1>4, <1>5, <1>6

\* A message in the version mark_broadcasts leaves it in.
Marked(m) == IF m.mass /\ m.mailing = "no" THEN [m EXCEPT !.mailing = "later"] ELSE m

LEMMA MarkedType ==
  ASSUME TypeOK, MarkBroadcasts
  PROVE  /\ messages' \in [Dialogs -> Seq(Message)]
         /\ \A d \in Dialogs : /\ DOMAIN messages'[d] = DOMAIN messages[d]
                               /\ \A i \in DOMAIN messages[d] : messages'[d][i] = Marked(messages[d][i])
<1>1. \A d \in Dialogs : messages'[d] = [i \in DOMAIN messages[d] |-> Marked(messages[d][i])]
  BY DEF MarkBroadcasts, Marked
<1>2. \A m \in Message : Marked(m) \in Message
  BY DEF Marked, Message
<1>3. ASSUME NEW d \in Dialogs PROVE messages'[d] \in Seq(Message)
  <2>1. messages[d] \in Seq(Message)
    BY DEF TypeOK
  <2>2. /\ Len(messages[d]) \in Nat /\ DOMAIN messages[d] = 1..Len(messages[d])
        /\ \A i \in DOMAIN messages[d] : messages[d][i] \in Message
    BY <2>1
  <2>3. messages'[d] \in [1..Len(messages[d]) -> Message]
    BY <1>1, <1>2, <2>2
  <2> QED BY <2>2, <2>3
<1>4. messages' = [d \in Dialogs |-> messages'[d]]
  BY DEF MarkBroadcasts
<1>5. messages' \in [Dialogs -> Seq(Message)]
  BY <1>3, <1>4
<1> QED BY <1>1, <1>5

LEMMA MailingType ==
  ASSUME TypeOK, Forget \/ MailingElsewhere \/ MarkBroadcasts
  PROVE  TypeOK'
<1>1. CASE Forget
  BY <1>1 DEF Forget, TypeOK, dialog, told
<1>2. CASE MailingElsewhere
  BY <1>2 DEF MailingElsewhere, TypeOK, dialog, told
<1>3. CASE MarkBroadcasts
  <2>3. \A local \in Local : [local EXCEPT !.hasty = TRUE] \in Local
    BY DEF Local
  <2>1. \A s \in Sessions : my[s] \in Local /\ [my[s] EXCEPT !.hasty = TRUE] \in Local
    BY <2>3 DEF TypeOK
  <2>2. my' \in [Sessions -> Local] /\ hasty' \subseteq Dialogs
    BY <1>3, <2>1 DEF MarkBroadcasts, TypeOK
  <2> QED BY <1>3, <2>2, MarkedType DEF MarkBroadcasts, TypeOK, dialog, told
<1> QED BY <1>1, <1>2, <1>3

LEMMA StepType == TypeOK /\ [Next]_vars => TypeOK'
<1> SUFFICES ASSUME TypeOK, [Next]_vars PROVE TypeOK'
  OBVIOUS
<1>1. CASE \E s \in Sessions : Session(s)
  BY <1>1, BeginsType, TurnsType, SessionType DEF Session, Turns
<1>2. CASE \E d \in Dialogs : ClientWrites(d) \/ ChangeStatus(d) \/ ConfirmPayment(d) \/ SetAiPause(d) \/ SideMark(d)
  BY <1>2, PeopleType
<1>3. CASE Forget \/ MailingElsewhere \/ MarkBroadcasts
  BY <1>3, MailingType
<1>4. CASE UNCHANGED vars
  BY <1>4 DEF vars, dialog, told, TypeOK
<1> QED BY <1>1, <1>2, <1>3, <1>4 DEF Next

\* Every variable keeps its type.
THEOREM Typing == Spec => []TypeOK
<1>1. Init => TypeOK
  BY InitType
<1>2. TypeOK /\ [Next]_vars => TypeOK'
  BY StepType
<1> QED BY <1>1, <1>2, PTL DEF Spec
-----------------------------------------------------------------------------
(* What a session knows at its commit *)

\* A status waits for a commit, and unless it comes from resync_statuses it is
\* above the one the session has loaded.
SessionInv ==
  \A s \in Sessions : my[s].target # "-" =>
    /\ my[s].step = "commit"
    /\ my[s].kind # "resync" =>
         /\ my[s].status \in OnLadder \cup {"none"}
         /\ Rank(my[s].target) > Rank(my[s].status)

\* Sessions before their commit have not concluded anything yet.
LEMMA BeginsSession ==
  ASSUME TypeOK, SessionInv, NEW s \in Sessions, NEW d \in Dialogs,
         Begin(s, d) \/ ManagerSpeaks(s, d) \/ BeginResync(s, d) \/ Turns(s) \/ SilentSends(s)
  PROVE  /\ my[s].target = "-" /\ my'[s].target = "-"
         /\ \A q \in Sessions \ {s} : my'[q] = my[q]
         /\ UNCHANGED <<dialog, told>>
<1>1. my[s].target = "-"
  BY DEF SessionInv, Begin, ManagerSpeaks, BeginResync, Turns, TurnStores, TurnSends, TurnFails, TurnLeaves, SilentSends
<1>2. CASE Begin(s, d)
  BY <1>1, <1>2, LoadedType DEF Begin, TypeOK
<1>3. CASE ManagerSpeaks(s, d)
  <2>1. \A step, sent : [Loaded(d, "manager", step) EXCEPT !.sent = sent].target = "-"
    BY DEF Loaded, Idle
  <2>2. \E step, sent : my' = [my EXCEPT ![s] = [Loaded(d, "manager", step) EXCEPT !.sent = sent]]
    BY <1>3 DEF ManagerSpeaks
  <2> QED BY <1>1, <1>3, <2>1, <2>2 DEF ManagerSpeaks, TypeOK
<1>4. CASE BeginResync(s, d)
  BY <1>1, <1>4, LoadedType DEF BeginResync, TypeOK
<1>5. CASE Turns(s)
  <2>1. my[s] \in Local
    BY DEF TypeOK
  <2>2. \A q \in Sessions \ {s} : my'[q] = my[q]
    BY <1>5 DEF Turns, TurnStores, TurnSends, TurnFails, TurnLeaves, TypeOK
  <2>3. UNCHANGED <<dialog, told>>
    BY <1>5 DEF Turns, TurnStores, TurnSends, TurnFails, TurnLeaves
  <2>4. CASE TurnStores(s)
    <3>1. PICK rows : my' = [my EXCEPT ![s].step = "send", ![s].rows = rows]
      BY <2>4 DEF TurnStores
    <3> QED BY <1>1, <2>1, <2>2, <2>3, <3>1 DEF TypeOK, Local
  <2>5. CASE TurnSends(s)
    <3>1. PICK rows, step : my' = [my EXCEPT ![s].rows = rows, ![s].any = TRUE, ![s].step = step]
      BY <2>5 DEF TurnSends, TypeOK
    <3> QED BY <1>1, <2>1, <2>2, <2>3, <3>1 DEF TypeOK, Local
  <2>6. CASE TurnFails(s) \/ TurnLeaves(s)
    <3>1. my' = [my EXCEPT ![s].step = "sync"] \/ my' = [my EXCEPT ![s] = Idle]
      BY <2>6 DEF TurnFails, TurnLeaves
    <3> QED BY <1>1, <2>1, <2>2, <2>3, <3>1 DEF TypeOK, Local, Idle
  <2> QED BY <1>5, <2>4, <2>5, <2>6 DEF Turns
<1>6. CASE SilentSends(s)
  <2>1. my'[s] = [my[s] EXCEPT !.step = "sync", !.sent = <<Said("ai", "price", TRUE)>>]
    BY <1>6 DEF SilentSends, TypeOK
  <2>2. my[s] \in Local /\ \A q \in Sessions \ {s} : my'[q] = my[q]
    BY <1>6 DEF SilentSends, TypeOK
  <2>3. my'[s].target = my[s].target
    BY <2>1, <2>2 DEF Local
  <2>4. UNCHANGED <<dialog, told>>
    BY <1>6 DEF SilentSends
  <2> QED BY <1>1, <2>2, <2>3, <2>4
<1> QED BY <1>2, <1>3, <1>4, <1>5, <1>6

\* The conclusion of sync_status and of resync_statuses.
SyncTarget(s) ==
  LET earned == Earned(Sees(s), paid[my[s].dialog]) IN
  IF my[s].kind = "resync" THEN MoveBack(my[s].status, earned) ELSE Move(my[s].status, earned)

LEMMA SyncSession ==
  ASSUME TypeOK, SessionInv, NEW s \in Sessions, Sync(s)
  PROVE  /\ my[s].target = "-"
         /\ my'[s].step = "commit" /\ my'[s].target = SyncTarget(s)
         /\ my'[s].kind = my[s].kind /\ my'[s].status = my[s].status
         /\ my'[s].dialog = my[s].dialog /\ my'[s].sent = my[s].sent
         /\ SyncTarget(s) # "-" =>
              my'[s].hasty = (my[s].hasty \/ \E i \in DOMAIN Sees(s) : Unsent(Sees(s)[i], SyncTarget(s)))
         /\ \A q \in Sessions \ {s} : my'[q] = my[q]
         /\ SyncTarget(s) \in {"-", Earned(Sees(s), paid[my[s].dialog])}
         /\ SyncTarget(s) # "-" /\ my[s].kind # "resync" =>
              /\ my[s].status \in OnLadder \cup {"none"}
              /\ Rank(SyncTarget(s)) > Rank(my[s].status)
<1>1. my[s].target = "-" /\ my[s] \in Local
  BY DEF SessionInv, Sync, TypeOK
<1> DEFINE loose == SyncTarget(s) # "-" /\ (my[s].hasty \/ \E i \in DOMAIN Sees(s) : Unsent(Sees(s)[i], SyncTarget(s)))
<1>2. my'[s] = [my[s] EXCEPT !.step = "commit", !.target = SyncTarget(s), !.hasty = loose]
  BY DEF Sync, SyncTarget, TypeOK
<1>7. SyncTarget(s) # "-" =>
        loose = (my[s].hasty \/ \E i \in DOMAIN Sees(s) : Unsent(Sees(s)[i], SyncTarget(s)))
  OBVIOUS
<1> HIDE DEF loose
<1>3. \A q \in Sessions \ {s} : my'[q] = my[q]
  BY DEF Sync, TypeOK
<1> DEFINE earned == Earned(Sees(s), paid[my[s].dialog])
<1>4. earned \in OnLadder
  BY EarnedType
<1>5. SyncTarget(s) = IF my[s].kind = "resync" THEN MoveBack(my[s].status, earned) ELSE Move(my[s].status, earned)
  BY DEF SyncTarget
<1>6. /\ SyncTarget(s) \in {"-", earned}
      /\ SyncTarget(s) # "-" /\ my[s].kind # "resync" =>
           /\ my[s].status \in OnLadder \cup {"none"}
           /\ Rank(SyncTarget(s)) > Rank(my[s].status)
  <2> HIDE DEF earned
  <2> QED BY <1>4, <1>5, MoveType
<1> QED BY <1>1, <1>2, <1>3, <1>6, <1>7 DEF Local

LEMMA EndsSession ==
  ASSUME TypeOK, NEW s \in Sessions, Commit(s) \/ RollBack(s)
  PROVE  /\ my'[s] = Idle /\ my'[s].target = "-" /\ my'[s].step = "idle"
         /\ \A q \in Sessions \ {s} : my'[q] = my[q]
<1>1. my' = [my EXCEPT ![s] = Idle]
  BY DEF Commit, RollBack
<1>2. Idle.target = "-" /\ Idle.step = "idle"
  BY DEF Idle
<1>3. my'[s] = Idle /\ \A q \in Sessions \ {s} : my'[q] = my[q]
  BY <1>1 DEF TypeOK
<1> QED BY <1>2, <1>3

\* mark_broadcasts leaves what a session has loaded and concluded.
LEMMA MarkedSessions ==
  ASSUME TypeOK, MarkBroadcasts, NEW s \in Sessions
  PROVE  /\ my'[s].step = my[s].step /\ my'[s].kind = my[s].kind /\ my'[s].dialog = my[s].dialog
         /\ my'[s].status = my[s].status /\ my'[s].target = my[s].target /\ my'[s].sent = my[s].sent
         /\ \/ messages'[my[s].dialog] = messages[my[s].dialog] /\ my'[s] = my[s]
            \/ my[s].step = "idle" /\ my'[s] = my[s]
            \/ my'[s].hasty
<1> DEFINE marked == {d \in Dialogs : messages'[d] # messages[d]}
<1>1. my[s] \in Local
  BY DEF TypeOK
<1>2. my'[s] = IF my[s].step # "idle" /\ my[s].dialog \in marked THEN [my[s] EXCEPT !.hasty = TRUE] ELSE my[s]
  BY DEF MarkBroadcasts
<1>3. my[s].dialog \in Dialogs
  BY <1>1 DEF Local
<1> QED BY <1>1, <1>2, <1>3 DEF Local

LEMMA StepSession == TypeOK /\ SessionInv /\ [Next]_vars => SessionInv'
<1> SUFFICES ASSUME TypeOK, SessionInv, [Next]_vars PROVE SessionInv'
  OBVIOUS
<1>1. ASSUME NEW s \in Sessions, NEW d \in Dialogs,
             Begin(s, d) \/ ManagerSpeaks(s, d) \/ BeginResync(s, d) \/ Turns(s) \/ SilentSends(s)
      PROVE  SessionInv'
  BY <1>1, BeginsSession DEF SessionInv
<1>2. ASSUME NEW s \in Sessions, Sync(s) PROVE SessionInv'
  <2>1. /\ my'[s].step = "commit" /\ my'[s].target = SyncTarget(s)
        /\ my'[s].kind = my[s].kind /\ my'[s].status = my[s].status
        /\ \A q \in Sessions \ {s} : my'[q] = my[q]
    BY <1>2, SyncSession
  <2>2. SyncTarget(s) # "-" /\ my[s].kind # "resync" =>
          my[s].status \in OnLadder \cup {"none"} /\ Rank(SyncTarget(s)) > Rank(my[s].status)
    BY <1>2, SyncSession
  <2> QED BY <2>1, <2>2 DEF SessionInv
<1>3. ASSUME NEW s \in Sessions, Commit(s) \/ RollBack(s) PROVE SessionInv'
  BY <1>3, EndsSession DEF SessionInv
<1>4. CASE \E s \in Sessions : Session(s)
  <2>1. \E d \in Dialogs : TRUE
    BY Constants
  <2> QED BY <1>1, <1>2, <1>3, <1>4, <2>1 DEF Session, Turns
<1>5. CASE UNCHANGED my
  BY <1>5 DEF SessionInv
<1>7. CASE MarkBroadcasts
  BY <1>7, MarkedSessions DEF SessionInv
<1>6. CASE \/ \E d \in Dialogs : ClientWrites(d) \/ ChangeStatus(d) \/ ConfirmPayment(d) \/ SetAiPause(d) \/ SideMark(d)
           \/ Forget \/ MailingElsewhere \/ UNCHANGED vars
  BY <1>5, <1>6 DEF ClientWrites, ChangeStatus, ConfirmPayment, SetAiPause, SideMark, Forget, MailingElsewhere, vars
<1> QED BY <1>4, <1>6, <1>7 DEF Next

LEMMA InitSession == Init => SessionInv
BY DEF Init, SessionInv, Idle
-----------------------------------------------------------------------------
(* The status moves up, and spares who was taken *)

\* What the commit of a session does to a dialog.
LEMMA CommitWrites ==
  ASSUME TypeOK, NEW s \in Sessions, Commit(s), NEW d \in Dialogs
  PROVE  /\ my[s].dialog \in Dialogs
         /\ status'[d] = IF d = my[s].dialog /\ my[s].target # "-" THEN my[s].target ELSE status[d]
         /\ d = my[s].dialog => Committing(s, d)
         /\ d # my[s].dialog => funnel'[d] = funnel[d]
         /\ paused'[d] = IF d = my[s].dialog /\ Takes(s) /\ ~my[s].paused THEN TRUE ELSE paused[d]
<1>1. my[s].dialog \in Dialogs
  BY DEF TypeOK, Local
<1>2. status'[d] = IF d = my[s].dialog /\ my[s].target # "-" THEN my[s].target ELSE status[d]
  BY <1>1 DEF Commit, TypeOK
<1>3. d = my[s].dialog => Committing(s, d)
  BY EndsSession DEF Committing, Commit
<1>4. d # my[s].dialog => funnel'[d] = funnel[d]
  BY <1>1 DEF Commit, TypeOK
<1>5. paused'[d] = IF d = my[s].dialog /\ Takes(s) /\ ~my[s].paused THEN TRUE ELSE paused[d]
  BY <1>1 DEF Commit, TypeOK
<1> QED BY <1>1, <1>2, <1>3, <1>4, <1>5

\* Every other step leaves statuses and funnels alone or is a person's.
LEMMA OthersWrite ==
  ASSUME TypeOK, [Next]_vars, ~\E s \in Sessions : Commit(s), NEW d \in Dialogs
  PROVE  /\ status'[d] = status[d] \/ byHand'[d]
         /\ funnel'[d] = funnel[d] \/ byHand'[d] \/ funnel'[d] \notin {"checkout", "after_payment"}
<1>1. CASE \E s \in Sessions : Session(s)
  BY <1>1 DEF Session, Begin, ManagerSpeaks, BeginResync, TurnStores, TurnSends, TurnFails, TurnLeaves,
                   SilentSends, Sync, RollBack, dialog
<1>2. ASSUME NEW e \in Dialogs, ClientWrites(e) \/ ConfirmPayment(e)
      PROVE  UNCHANGED <<status, funnel>>
  BY <1>2 DEF ClientWrites, ConfirmPayment, dialog
<1>3. ASSUME NEW e \in Dialogs, ChangeStatus(e) \/ SideMark(e)
      PROVE  /\ byHand'[e]
             /\ \A f \in Dialogs \ {e} : status'[f] = status[f] /\ funnel'[f] = funnel[f]
  BY <1>3 DEF ChangeStatus, SideMark, TypeOK
<1>4. ASSUME NEW e \in Dialogs, SetAiPause(e)
      PROVE  /\ UNCHANGED status
             /\ funnel'[d] = funnel[d] \/ funnel'[d] \notin {"checkout", "after_payment"}
  BY <1>4 DEF SetAiPause, TypeOK, Stopped
<1>5. CASE Forget \/ MailingElsewhere \/ MarkBroadcasts \/ UNCHANGED vars
  BY <1>5 DEF Forget, MailingElsewhere, MarkBroadcasts, dialog, vars
<1> QED BY <1>1, <1>2, <1>3, <1>4, <1>5 DEF Next

LEMMA CommitMovesUp ==
  ASSUME TypeOK, SessionInv, NEW s \in Sessions, Commit(s), NEW d \in Dialogs
  PROVE  \/ status'[d] = status[d] \/ StaleStatus(d) \/ Resynced(d)
         \/ status[d] \notin Side \cup {Own} /\ Rank(status'[d]) > Rank(status[d])
<1> SUFFICES ASSUME d = my[s].dialog, my[s].target # "-", ~StaleStatus(d), ~Resynced(d)
             PROVE  status[d] \notin Side \cup {Own} /\ Rank(status'[d]) > Rank(status[d])
  BY CommitWrites
<1>1. Committing(s, d) /\ status'[d] = my[s].target
  BY CommitWrites
<1>2. my[s].status = status[d] /\ my[s].kind # "resync"
  BY <1>1 DEF StaleStatus, Resynced
<1>3. status[d] \in OnLadder \cup {"none"} /\ Rank(my[s].target) > Rank(status[d])
  BY <1>2 DEF SessionInv
<1>4. status[d] \notin Side \cup {Own}
  BY <1>3, OffLadder DEF Side, Own
<1> QED BY <1>1, <1>3, <1>4

LEMMA CommitSparesTheTaken ==
  ASSUME TypeOK, NEW s \in Sessions, Commit(s), NEW d \in Dialogs,
         funnel'[d] \in {"checkout", "after_payment"}, funnel'[d] # funnel[d], paused'[d]
  PROVE  StalePause(d)
<1> SUFFICES ASSUME ~StalePause(d) PROVE FALSE
  OBVIOUS
<1>1. d = my[s].dialog /\ Committing(s, d)
  BY CommitWrites
<1>2. my[s].paused = paused[d]
  BY <1>1 DEF StalePause
<1>3. my[s].paused \in BOOLEAN /\ paused[d] \in BOOLEAN
  BY DEF TypeOK, Local
<1>4. my[s].paused \/ Takes(s)
  BY <1>1, <1>2, <1>3, CommitWrites
<1> DEFINE before == IF Takes(s) THEN Stopped(funnel[d]) ELSE funnel[d]
<1>5. funnel'[d] = FunnelAfter(before, my[s].target, my[s].paused \/ Takes(s))
  BY <1>1 DEF Commit, TypeOK
<1>6. (my[s].paused \/ Takes(s)) = TRUE
  BY <1>4
<1>7. funnel'[d] \in {before, "none", "completed"}
  <2>1. funnel'[d] = FunnelAfter(before, my[s].target, TRUE)
    BY <1>5, <1>6
  <2> HIDE DEF before
  <2> QED BY <2>1 DEF FunnelAfter
<1>8. before \in {funnel[d], "none", "completed"}
  BY DEF Stopped
<1> QED BY <1>7, <1>8

\* But for resync_statuses and people, only a session that was overtaken moves a
\* dialog down or out of a side status: sync_status goes forward only.
THEOREM StatusMovesForward == Spec => StatusMovesUp
<1>1. Init => TypeOK /\ SessionInv
  BY InitType, InitSession
<1>2. TypeOK /\ SessionInv /\ [Next]_vars => (TypeOK /\ SessionInv)'
  BY StepType, StepSession
<1> DEFINE Moves == \A d \in Dialogs :
             \/ status'[d] = status[d] \/ byHand'[d] \/ StaleStatus(d) \/ Resynced(d)
             \/ status[d] \notin Side \cup {Own} /\ Rank(status'[d]) > Rank(status[d])
<1>3. TypeOK /\ SessionInv /\ [Next]_vars => Moves
  <2> SUFFICES ASSUME TypeOK, SessionInv, [Next]_vars, NEW d \in Dialogs
               PROVE \/ status'[d] = status[d] \/ byHand'[d] \/ StaleStatus(d) \/ Resynced(d)
                     \/ status[d] \notin Side \cup {Own} /\ Rank(status'[d]) > Rank(status[d])
    OBVIOUS
  <2>1. CASE \E s \in Sessions : Commit(s)
    BY <2>1, CommitMovesUp
  <2>2. CASE ~\E s \in Sessions : Commit(s)
    BY <2>2, OthersWrite
  <2> QED BY <2>1, <2>2
<1>4. TypeOK /\ SessionInv /\ [Next]_vars => [Moves]_vars
  BY <1>3
<1>5. StatusMovesUp <=> [][Moves]_vars
  BY DEF StatusMovesUp
<1> QED BY <1>1, <1>2, <1>4, <1>5, PTL DEF Spec

\* The ladder starts no reminders in a dialog a person leads, unless he has taken
\* it since the session loaded it (_apply_side_effects).
THEOREM RemindersSpareTheTaken == Spec => FunnelSparesTheTaken
<1> DEFINE Spares == \A d \in Dialogs :
             (funnel'[d] \in {"checkout", "after_payment"} /\ funnel'[d] # funnel[d] /\ paused'[d]) =>
               byHand'[d] \/ StalePause(d)
<1>1. TypeOK /\ [Next]_vars => [Spares]_vars
  <2> SUFFICES ASSUME TypeOK, [Next]_vars, NEW d \in Dialogs,
                      funnel'[d] \in {"checkout", "after_payment"}, funnel'[d] # funnel[d], paused'[d]
               PROVE  byHand'[d] \/ StalePause(d)
    OBVIOUS
  <2>1. CASE \E s \in Sessions : Commit(s)
    BY <2>1, CommitSparesTheTaken
  <2>2. CASE ~\E s \in Sessions : Commit(s)
    BY <2>2, OthersWrite
  <2> QED BY <2>1, <2>2
<1>2. FunnelSparesTheTaken <=> [][Spares]_vars
  BY DEF FunnelSparesTheTaken
<1> QED BY <1>1, <1>2, Typing, PTL DEF Spec

-----------------------------------------------------------------------------
(* The announcement *)

Hot(name) == Rank(name) >= Rank("hot")
BringsHot(s, d) == my[s].dialog = d /\ my[s].target = "hot"

\* A dialog that was announced is hot or further, or about to be.
AnnouncedInv ==
  \A d \in Dialogs : (announced[d] > 0 /\ d \notin undone) =>
    Hot(status[d]) \/ \E s \in Sessions : BringsHot(s, d)

LEMMA InitAnnounced == Init => AnnouncedInv
BY DEF Init, AnnouncedInv

LEMMA SyncAnnounced ==
  ASSUME TypeOK, SessionInv, AnnouncedInv, NEW s \in Sessions, Sync(s)
  PROVE  AnnouncedInv'
<1> SUFFICES ASSUME NEW d \in Dialogs, announced'[d] > 0, d \notin undone'
             PROVE  Hot(status[d])' \/ (\E q \in Sessions : BringsHot(q, d))'
  BY DEF AnnouncedInv
<1>1. /\ my[s].target = "-" /\ my'[s].dialog = my[s].dialog /\ my'[s].target = SyncTarget(s)
      /\ \A q \in Sessions \ {s} : my'[q] = my[q]
  BY SyncSession
<1>2. UNCHANGED <<status, undone>>
  BY DEF Sync, dialog
<1>3. \/ announced'[d] = announced[d]
      \/ d = my[s].dialog /\ SyncTarget(s) = "hot"
  BY DEF Sync, SyncTarget, Announced, TypeOK
<1>4. CASE announced'[d] = announced[d]
  <2>1. Hot(status[d]) \/ \E q \in Sessions : BringsHot(q, d)
    BY <1>2, <1>4 DEF AnnouncedInv
  <2>2. \A q \in Sessions : BringsHot(q, d) => q # s
    BY <1>1 DEF BringsHot
  <2> QED BY <1>1, <1>2, <2>1, <2>2 DEF BringsHot, Hot
<1>5. CASE d = my[s].dialog /\ SyncTarget(s) = "hot"
  BY <1>1, <1>5 DEF BringsHot
<1> QED BY <1>3, <1>4, <1>5

LEMMA EndAnnounced ==
  ASSUME TypeOK, SessionInv, AnnouncedInv, NEW s \in Sessions, Commit(s) \/ RollBack(s)
  PROVE  AnnouncedInv'
<1> SUFFICES ASSUME NEW d \in Dialogs, announced'[d] > 0, d \notin undone'
             PROVE  Hot(status[d])' \/ (\E q \in Sessions : BringsHot(q, d))'
  BY DEF AnnouncedInv
<1>1. \A q \in Sessions \ {s} : my'[q] = my[q]
  BY EndsSession
<1>2. announced' = announced /\ undone \subseteq undone'
  BY DEF Commit, RollBack
<1>3. Hot(status[d]) \/ \E q \in Sessions : BringsHot(q, d)
  BY <1>2 DEF AnnouncedInv
<1>4. CASE ~BringsHot(s, d)
  <2>1. (\E q \in Sessions : BringsHot(q, d)) => (\E q \in Sessions : BringsHot(q, d))'
    BY <1>1, <1>4 DEF BringsHot
  <2>2. Hot(status[d]) => Rank(status'[d]) >= Rank("hot")
    <3>1. CASE Commit(s)
      <4>1. ~(Rank(status'[d]) < Rank(status[d]))
        BY <1>2, <3>1 DEF Commit, MovedBack
      <4> QED BY <4>1, RankType DEF Hot
    <3>2. CASE RollBack(s)
      BY <3>2 DEF RollBack, dialog, Hot
    <3> QED BY <3>1, <3>2
  <2> QED BY <1>3, <2>1, <2>2 DEF Hot
<1>5. CASE BringsHot(s, d)
  <2>1. CASE Commit(s)
    <3>1. status'[d] = "hot"
      BY <1>5, <2>1, CommitWrites DEF BringsHot
    <3> QED BY <3>1, RankType DEF Hot
  <2>2. CASE RollBack(s)
    BY <1>5, <2>2 DEF RollBack, BringsHot
  <2> QED BY <2>1, <2>2
<1> QED BY <1>4, <1>5

LEMMA PeopleAnnounced ==
  ASSUME TypeOK, AnnouncedInv, NEW e \in Dialogs, ChangeStatus(e) \/ SideMark(e)
  PROVE  AnnouncedInv'
<1> SUFFICES ASSUME NEW d \in Dialogs, announced'[d] > 0, d \notin undone'
             PROVE  Hot(status[d])' \/ (\E q \in Sessions : BringsHot(q, d))'
  BY DEF AnnouncedInv
<1>1. UNCHANGED <<announced, my>> /\ undone' = undone \cup MovedBack
  BY DEF ChangeStatus, SideMark
<1>2. Hot(status[d]) \/ \E q \in Sessions : BringsHot(q, d)
  BY <1>1 DEF AnnouncedInv
<1>3. ~(Rank(status'[d]) < Rank(status[d]))
  BY <1>1 DEF MovedBack
<1>4. Hot(status[d]) => Rank(status'[d]) >= Rank("hot")
  BY <1>3, RankType DEF Hot
<1> QED BY <1>1, <1>2, <1>4 DEF Hot, BringsHot

LEMMA StepAnnounced == TypeOK /\ SessionInv /\ AnnouncedInv /\ [Next]_vars => AnnouncedInv'
<1> SUFFICES ASSUME TypeOK, SessionInv, AnnouncedInv, [Next]_vars PROVE AnnouncedInv'
  OBVIOUS
<1>1. ASSUME NEW s \in Sessions, NEW d \in Dialogs,
             Begin(s, d) \/ ManagerSpeaks(s, d) \/ BeginResync(s, d) \/ Turns(s) \/ SilentSends(s)
      PROVE  AnnouncedInv'
  <2>1. /\ my[s].target = "-" /\ my'[s].target = "-"
        /\ \A q \in Sessions \ {s} : my'[q] = my[q]
        /\ UNCHANGED <<status, announced, undone>>
    BY <1>1, BeginsSession DEF dialog, told
  <2> QED BY <2>1 DEF AnnouncedInv, BringsHot, Hot
<1>2. CASE \E s \in Sessions : Session(s)
  <2>1. \E d \in Dialogs : TRUE
    BY Constants
  <2> QED BY <1>1, <1>2, <2>1, SyncAnnounced, EndAnnounced DEF Session, Turns
<1>3. CASE \E d \in Dialogs : ChangeStatus(d) \/ SideMark(d)
  BY <1>3, PeopleAnnounced
<1>4. CASE \/ \E d \in Dialogs : ClientWrites(d) \/ ConfirmPayment(d) \/ SetAiPause(d)
           \/ Forget \/ MailingElsewhere \/ UNCHANGED vars
  <2>1. UNCHANGED <<status, announced, undone, my>>
    BY <1>4 DEF ClientWrites, ConfirmPayment, SetAiPause, Forget, MailingElsewhere, dialog, told, vars
  <2> QED BY <2>1 DEF AnnouncedInv, BringsHot, Hot
<1>5. CASE MarkBroadcasts
  <2>1. UNCHANGED <<status, announced, undone>>
    BY <1>5 DEF MarkBroadcasts, dialog, told
  <2>2. \A s \in Sessions : my'[s].dialog = my[s].dialog /\ my'[s].target = my[s].target
    BY <1>5, MarkedSessions
  <2> QED BY <2>1, <2>2 DEF AnnouncedInv, BringsHot, Hot
<1> QED BY <1>2, <1>3, <1>4, <1>5 DEF Next

\* Only sync_status tells the managers' chat, when it moves a dialog up to hot.
LEMMA WhoAnnounces ==
  ASSUME TypeOK, SessionInv, [Next]_vars, NEW d \in Dialogs, announced'[d] > announced[d]
  PROVE  \E s \in Sessions :
           /\ Sync(s) /\ my[s].dialog = d /\ my[s].kind # "resync"
           /\ Rank("hot") > Rank(my[s].status)
<1>1. announced[d] \in Nat
  BY DEF TypeOK
<1>2. PICK s \in Sessions : Sync(s)
  <2>1. ASSUME NEW s \in Sessions, Session(s), ~Sync(s) PROVE UNCHANGED announced
    BY <2>1 DEF Session, Begin, ManagerSpeaks, BeginResync, TurnStores, TurnSends, TurnFails, TurnLeaves,
                     SilentSends, Commit, RollBack, told
  <2>2. ASSUME NEW e \in Dialogs,
               ClientWrites(e) \/ ChangeStatus(e) \/ ConfirmPayment(e) \/ SetAiPause(e) \/ SideMark(e)
        PROVE  UNCHANGED announced
    BY <2>2 DEF ClientWrites, ChangeStatus, ConfirmPayment, SetAiPause, SideMark, told
  <2>3. ASSUME Forget \/ MailingElsewhere \/ MarkBroadcasts \/ UNCHANGED vars PROVE UNCHANGED announced
    BY <2>3 DEF Forget, MailingElsewhere, MarkBroadcasts, told, vars
  <2>4. ~UNCHANGED announced
    BY <1>1
  <2> QED BY <2>1, <2>2, <2>3, <2>4 DEF Next
<1>3. d = my[s].dialog /\ my[s].kind # "resync" /\ SyncTarget(s) = "hot"
  BY <1>1, <1>2 DEF Sync, SyncTarget, Announced, TypeOK
<1>4. Rank(SyncTarget(s)) > Rank(my[s].status)
  BY <1>2, <1>3, SyncSession
<1> QED BY <1>2, <1>3, <1>4

\* The managers' chat is told once of a hot dialog; a second time needs a session
\* that has loaded the dialog before the first was committed, or a status that was
\* moved back or rolled back (_announce_hot).
THEOREM HotIsAnnouncedOnce == Spec => AnnouncedOnce
<1>1. Init => TypeOK /\ SessionInv /\ AnnouncedInv
  BY InitType, InitSession, InitAnnounced
<1>2. TypeOK /\ SessionInv /\ AnnouncedInv /\ [Next]_vars => (TypeOK /\ SessionInv /\ AnnouncedInv)'
  BY StepType, StepSession, StepAnnounced
<1> DEFINE Once == \A d \in Dialogs :
             (announced[d] > 0 /\ announced'[d] > announced[d]) =>
               d \in undone \/ \E s \in Sessions : Overtaken(s, d)
<1>3. TypeOK /\ SessionInv /\ AnnouncedInv /\ [Next]_vars => [Once]_vars
  <2> SUFFICES ASSUME TypeOK, SessionInv, AnnouncedInv, [Next]_vars, NEW d \in Dialogs,
                      announced[d] > 0, announced'[d] > announced[d], d \notin undone
               PROVE  \E s \in Sessions : Overtaken(s, d)
    OBVIOUS
  <2>1. PICK s \in Sessions : /\ Sync(s) /\ my[s].dialog = d /\ my[s].kind # "resync"
                              /\ Rank("hot") > Rank(my[s].status)
    BY WhoAnnounces
  <2>2. my[s].step = "sync" /\ my'[s].step = "commit"
    BY <2>1, SyncSession DEF Sync
  <2>3. Hot(status[d]) \/ \E q \in Sessions : BringsHot(q, d)
    BY DEF AnnouncedInv
  <2>4. Hot(status[d]) => my[s].status # status[d]
    BY <2>1, RankType DEF Hot
  <2> QED BY <2>1, <2>2, <2>3, <2>4 DEF Overtaken, BringsHot
<1>4. AnnouncedOnce <=> [][Once]_vars
  BY DEF AnnouncedOnce
<1> QED BY <1>1, <1>2, <1>3, <1>4, PTL DEF Spec

-----------------------------------------------------------------------------
(* A status is earned *)

\* The messages that may stand for a status, in a set of messages; order and
\* number do not matter.
Bears(m, all) ==
  /\ m.got /\ m.mailing = "no"
  /\ m.by = "ai" \/ (m.by = "curator" /\ \E c \in all : c.by = "client")
Grounds(all, name, confirmed) ==
  \/ Rank(name) <= 1
  \/ name = "order" /\ confirmed # "no"
  \/ \E m \in all : Bears(m, all) /\ Rank(name) <= Worth[m.shows]

SaidTo(d) == ToSet(messages[d])

\* Statuses that were set by the ladder, and those that wait for a commit.
EarnedInv ==
  /\ \A d \in Dialogs : ~byHand[d] => d \in hasty \/ Grounds(SaidTo(d), status[d], paid[d])
  /\ \A s \in Sessions : my[s].target # "-" =>
       my[s].hasty \/ Grounds(SaidTo(my[s].dialog) \cup ToSet(my[s].sent), my[s].target, paid[my[s].dialog])

\* Messages are added, reach the client and are marked as failed; nothing else of them is
\* lost or changed.
CarriesOver(all, more) ==
  \A m \in all : \E n \in more :
    n.by = m.by /\ n.shows = m.shows /\ n.mailing = m.mailing /\ (m.got => n.got)

LEMMA Carried ==
  /\ \A all, more : all \subseteq more => CarriesOver(all, more)
  /\ \A all, more, new : CarriesOver(all, more) => CarriesOver(all \cup new, more \cup new)
BY DEF CarriesOver

LEMMA SetOfConcat ==
  ASSUME NEW a \in Seq(Message), NEW b \in Seq(Message)
  PROVE  ToSet(a \o b) = ToSet(a) \cup ToSet(b)
<1>1. /\ Len(a) \in Nat /\ Len(b) \in Nat /\ Len(a \o b) = Len(a) + Len(b)
      /\ DOMAIN a = 1..Len(a) /\ DOMAIN b = 1..Len(b) /\ DOMAIN (a \o b) = 1..Len(a \o b)
  OBVIOUS
<1>2. \A i \in 1..Len(a) : (a \o b)[i] = a[i]
  OBVIOUS
<1>3. \A i \in 1..Len(b) : (a \o b)[Len(a) + i] = b[i]
  OBVIOUS
<1>4. \A i \in DOMAIN (a \o b) : i \in 1..Len(a) \/ (i - Len(a)) \in 1..Len(b)
  BY <1>1
<1>5. ASSUME NEW x PROVE x \in ToSet(a \o b) <=> x \in ToSet(a) \cup ToSet(b)
  <2>1. ASSUME x \in ToSet(a \o b) PROVE x \in ToSet(a) \cup ToSet(b)
    <3>1. PICK i \in DOMAIN (a \o b) : x = (a \o b)[i]
      BY <2>1 DEF ToSet
    <3>2. CASE i \in 1..Len(a)
      BY <1>1, <1>2, <3>1, <3>2 DEF ToSet
    <3>3. CASE (i - Len(a)) \in 1..Len(b)
      <4>1. (a \o b)[Len(a) + (i - Len(a))] = b[i - Len(a)]
        BY <1>3, <3>3
      <4>2. Len(a) + (i - Len(a)) = i
        BY <1>1, <3>1
      <4> QED BY <1>1, <3>1, <3>3, <4>1, <4>2 DEF ToSet
    <3> QED BY <1>4, <3>1, <3>2, <3>3
  <2>2. ASSUME x \in ToSet(a) PROVE x \in ToSet(a \o b)
    <3>1. PICK i \in 1..Len(a) : x = a[i]
      BY <1>1, <2>2 DEF ToSet
    <3>2. i \in DOMAIN (a \o b)
      BY <1>1
    <3> QED BY <1>2, <3>1, <3>2 DEF ToSet
  <2>3. ASSUME x \in ToSet(b) PROVE x \in ToSet(a \o b)
    <3>1. PICK i \in 1..Len(b) : x = b[i]
      BY <1>1, <2>3 DEF ToSet
    <3>2. Len(a) + i \in DOMAIN (a \o b)
      BY <1>1
    <3> QED BY <1>3, <3>1, <3>2 DEF ToSet
  <2> QED BY <2>1, <2>2, <2>3
<1> QED BY <1>5

\* Two versions of the same messages.
LEMMA SetOfVersions ==
  ASSUME NEW a, NEW b, DOMAIN a \subseteq DOMAIN b,
         \A i \in DOMAIN a : /\ b[i].by = a[i].by /\ b[i].shows = a[i].shows
                             /\ b[i].mailing = a[i].mailing /\ (a[i].got => b[i].got)
  PROVE  CarriesOver(ToSet(a), ToSet(b))
<1> SUFFICES ASSUME NEW m \in ToSet(a)
             PROVE  \E n \in ToSet(b) :
                      n.by = m.by /\ n.shows = m.shows /\ n.mailing = m.mailing /\ (m.got => n.got)
  BY DEF CarriesOver
<1>1. PICK i \in DOMAIN a : m = a[i]
  BY DEF ToSet
<1>2. b[i] \in ToSet(b)
  BY <1>1 DEF ToSet
<1> QED BY <1>1, <1>2

\* What is said or sent later, and confirmed later, takes nothing away.
LEMMA GroundsKept ==
  ASSUME NEW all, NEW more, CarriesOver(all, more), NEW name,
         NEW confirmed, NEW later, confirmed # "no" => later # "no",
         Grounds(all, name, confirmed)
  PROVE  Grounds(more, name, later)
<1>1. (\E c \in all : c.by = "client") => \E c \in more : c.by = "client"
  BY DEF CarriesOver
<1>2. ASSUME NEW m \in all, Bears(m, all)
      PROVE  \E n \in more : Bears(n, more) /\ n.shows = m.shows
  <2>1. PICK n \in more : n.by = m.by /\ n.shows = m.shows /\ n.mailing = m.mailing /\ (m.got => n.got)
    BY DEF CarriesOver
  <2> QED BY <1>1, <1>2, <2>1 DEF Bears
<1> QED BY <1>2 DEF Grounds

\* What a session sees is what is there and its own, but for the marks of failure.
LEMMA SeesAll ==
  ASSUME TypeOK, NEW s \in Sessions
  PROVE  /\ CarriesOver(SaidTo(my[s].dialog) \cup ToSet(my[s].sent), ToSet(Sees(s)))
         /\ CarriesOver(ToSet(Sees(s)), SaidTo(my[s].dialog) \cup ToSet(my[s].sent))
<1> DEFINE said == messages[my[s].dialog]
           marked == WithFailed(said, my[s].rows)
<1>1. said \in Seq(Message) /\ my[s].sent \in Seq(Message) /\ marked \in Seq(Message)
  BY SeesType, WithFailedType
<1>2. /\ DOMAIN marked = DOMAIN said
      /\ \A i \in DOMAIN said : /\ marked[i].by = said[i].by /\ marked[i].shows = said[i].shows
                                /\ marked[i].mailing = said[i].mailing /\ marked[i].got = said[i].got
  <2> HIDE DEF said
  <2> QED BY <1>1, WithFailedType
<1>3. ToSet(Sees(s)) = ToSet(marked) \cup ToSet(my[s].sent)
  BY <1>1, SetOfConcat DEF Sees
<1> HIDE DEF marked, said
<1>4. CarriesOver(ToSet(said), ToSet(marked)) /\ CarriesOver(ToSet(marked), ToSet(said))
  BY <1>2, SetOfVersions
<1>5. /\ CarriesOver(ToSet(said) \cup ToSet(my[s].sent), ToSet(marked) \cup ToSet(my[s].sent))
      /\ CarriesOver(ToSet(marked) \cup ToSet(my[s].sent), ToSet(said) \cup ToSet(my[s].sent))
  BY <1>4, Carried
<1>6. ToSet(said) = SaidTo(my[s].dialog)
  BY DEF said, SaidTo
<1> QED BY <1>3, <1>5, <1>6

\* What sync_status concludes is shown by one of the messages it has read, which has
\* reached the client or was not sent.
LEMMA EarnedIsGrounded ==
  ASSUME NEW said \in Seq(Message), NEW confirmed \in {"no", "yes", "revoked"}
  PROVE  \/ Grounds(ToSet(said), Earned(said, confirmed), confirmed)
         \/ \E i \in DOMAIN said : Unsent(said[i], Earned(said, confirmed))
<1> DEFINE shown == {said[i].shows : i \in Ours(said)}
           name == Earned(said, confirmed)
<1> SUFFICES ASSUME ~\E i \in DOMAIN said : Unsent(said[i], name)
             PROVE  Grounds(ToSet(said), name, confirmed)
  OBVIOUS
<1>1. ASSUME NEW i \in Ours(said), Rank(name) <= Worth[said[i].shows]
      PROVE  said[i] \in ToSet(said) /\ Bears(said[i], ToSet(said))
  <2>1. i \in DOMAIN said /\ said[i] \in ToSet(said) /\ ~Unsent(said[i], name)
    BY DEF Ours, ToSet
  <2>2. said[i] \in Message
    BY <2>1
  <2>3. said[i].got
    BY <1>1, <2>1, <2>2 DEF Unsent, Ours, Message
  <2> QED BY <2>1, <2>3 DEF Ours, Bears, ToSet, Spoke
<1>2. Worth.link = 6 /\ Worth.contacts = 5 /\ Worth.checkout = 4 /\ Worth.price = 3
  BY DEF Worth
<1>3. ASSUME NEW fact, fact \in shown, Rank(name) <= Worth[fact]
      PROVE  Grounds(ToSet(said), name, confirmed)
  <2>1. PICK i \in Ours(said) : said[i].shows = fact
    BY <1>3
  <2> QED BY <1>1, <1>3, <2>1 DEF Grounds
<1>4. name =
        IF confirmed = "yes" THEN "order"
        ELSE IF "link" \in shown THEN "prepay"
        ELSE IF "contacts" \in shown THEN "data"
        ELSE IF "checkout" \in shown THEN "hot"
        ELSE IF "price" \notin shown THEN "interested"
        ELSE IF \E i \in DOMAIN said : said[i].shows = "details" THEN "clarifying"
        ELSE "calculated"
  BY DEF Earned
<1> HIDE DEF shown, name
<1>5. CASE confirmed = "yes"
  BY <1>4, <1>5 DEF Grounds
<1>6. CASE confirmed # "yes" /\ "link" \in shown
  BY <1>2, <1>3, <1>4, <1>6, Ranks
<1>7. CASE confirmed # "yes" /\ "link" \notin shown /\ "contacts" \in shown
  BY <1>2, <1>3, <1>4, <1>7, Ranks
<1>8. CASE confirmed # "yes" /\ "link" \notin shown /\ "contacts" \notin shown /\ "checkout" \in shown
  BY <1>2, <1>3, <1>4, <1>8, Ranks
<1>9. CASE confirmed # "yes" /\ shown \cap {"link", "contacts", "checkout", "price"} = {}
  BY <1>4, <1>9, Ranks DEF Grounds
<1>10. CASE /\ confirmed # "yes" /\ "price" \in shown
            /\ shown \cap {"link", "contacts", "checkout"} = {}
  <2>1. name \in {"clarifying", "calculated"}
    BY <1>4, <1>10
  <2>2. Rank(name) <= 3
    BY <2>1, Ranks
  <2> QED BY <1>2, <1>3, <1>10, <2>2
<1> QED BY <1>5, <1>6, <1>7, <1>8, <1>9, <1>10

LEMMA InitEarned == Init => EarnedInv
<1> SUFFICES ASSUME Init PROVE EarnedInv
  OBVIOUS
<1>1. \A d \in Dialogs : status[d] \in {"interested", "none"}
  BY DEF Init
<1>2. Rank("interested") <= 1 /\ Rank("none") <= 1
  BY Ranks, OffLadder
<1>3. \A s \in Sessions : my[s].target = "-"
  BY DEF Init, Idle
<1> QED BY <1>1, <1>2, <1>3 DEF EarnedInv, Grounds

\* A step that concludes nothing, and adds to what was said and sent at most.
LEMMA QuietEarned ==
  ASSUME TypeOK, EarnedInv, UNCHANGED hasty,
         \A d \in Dialogs : /\ CarriesOver(SaidTo(d), SaidTo(d)')
                            /\ paid[d] # "no" => paid'[d] # "no"
                            /\ ~byHand'[d] => ~byHand[d] /\ status'[d] = status[d],
         \A s \in Sessions : my'[s].target # "-" =>
           /\ my'[s].target = my[s].target /\ my'[s].hasty = my[s].hasty
           /\ my'[s].dialog = my[s].dialog /\ my'[s].sent = my[s].sent
  PROVE  EarnedInv'
<1>1. ASSUME NEW d \in Dialogs, ~byHand'[d], d \notin hasty'
      PROVE  Grounds(SaidTo(d)', status'[d], paid'[d])
  <2>1. Grounds(SaidTo(d), status[d], paid[d])
    BY <1>1 DEF EarnedInv
  <2>2. Grounds(SaidTo(d)', status[d], paid'[d])
    BY <2>1, GroundsKept
  <2> QED BY <1>1, <2>2
<1>2. ASSUME NEW s \in Sessions, my'[s].target # "-", ~my[s].hasty
      PROVE  Grounds(ToSet(messages'[my[s].dialog]) \cup ToSet(my[s].sent), my[s].target, paid'[my[s].dialog])
  <2>1. my[s].dialog \in Dialogs
    BY DEF TypeOK, Local
  <2>2. Grounds(SaidTo(my[s].dialog) \cup ToSet(my[s].sent), my[s].target, paid[my[s].dialog])
    BY <1>2 DEF EarnedInv
  <2> DEFINE all == SaidTo(my[s].dialog) \cup ToSet(my[s].sent)
             more == ToSet(messages'[my[s].dialog]) \cup ToSet(my[s].sent)
  <2>3. CarriesOver(all, more)
    <3>1. CarriesOver(SaidTo(my[s].dialog), ToSet(messages'[my[s].dialog]))
      BY <2>1 DEF SaidTo
    <3> QED BY <3>1, Carried
  <2>4. Grounds(all, my[s].target, paid[my[s].dialog])
    BY <2>2
  <2> HIDE DEF all, more
  <2>5. Grounds(more, my[s].target, paid'[my[s].dialog])
    BY <2>1, <2>3, <2>4, GroundsKept
  <2> QED BY <2>5 DEF more
<1>3. ASSUME NEW s \in Sessions, my'[s].target # "-", ~my'[s].hasty
      PROVE  Grounds(ToSet(messages'[my'[s].dialog]) \cup ToSet(my'[s].sent), my'[s].target, paid'[my'[s].dialog])
  <2>1. /\ my'[s].target = my[s].target /\ my'[s].hasty = my[s].hasty
        /\ my'[s].dialog = my[s].dialog /\ my'[s].sent = my[s].sent
    BY <1>3
  <2> QED BY <1>2, <1>3, <2>1
<1> QED BY <1>1, <1>3 DEF EarnedInv, SaidTo

\* A message added, in whichever dialog.
LEMMA AddedCarries ==
  ASSUME TypeOK, NEW e \in Dialogs, NEW new \in Seq(Message),
         messages' = [messages EXCEPT ![e] = @ \o new]
  PROVE  \A d \in Dialogs : CarriesOver(SaidTo(d), SaidTo(d)')
<1> SUFFICES ASSUME NEW d \in Dialogs PROVE CarriesOver(ToSet(messages[d]), ToSet(messages'[d]))
  BY DEF SaidTo
<1>1. messages[d] \in Seq(Message)
  BY DEF TypeOK
<1>2. messages'[d] = messages[d] \/ messages'[d] = messages[d] \o new
  BY DEF TypeOK
<1>3. ToSet(messages[d]) \subseteq ToSet(messages[d] \o new)
  BY <1>1, SetOfConcat
<1>4. ToSet(messages[d]) \subseteq ToSet(messages'[d])
  BY <1>2, <1>3
<1> QED BY <1>4, Carried

LEMMA TurnsCarry ==
  ASSUME TypeOK, NEW s \in Sessions, Turns(s)
  PROVE  \A e \in Dialogs : CarriesOver(SaidTo(e), SaidTo(e)')
<1> DEFINE d == my[s].dialog
<1>1. d \in Dialogs /\ messages[d] \in Seq(Message)
  BY SeesType
<1>2. CASE TurnStores(s)
  <2>1. PICK n \in 1..MaxParts : \E shows \in [1..n -> Facts \cup {"nothing"}] :
          messages' = [messages EXCEPT ![d] = @ \o [i \in 1..n |-> Row(shows[i])]]
    BY <1>2 DEF TurnStores
  <2>2. PICK shows \in [1..n -> Facts \cup {"nothing"}] :
          messages' = [messages EXCEPT ![d] = @ \o [i \in 1..n |-> Row(shows[i])]]
    BY <2>1
  <2> DEFINE new == [i \in 1..n |-> Row(shows[i])]
  <2>3. new \in Seq(Message)
    BY RowsType, Constants
  <2>4. messages' = [messages EXCEPT ![d] = @ \o new]
    BY <2>2
  <2> HIDE DEF new
  <2> QED BY <1>1, <2>3, <2>4, AddedCarries
<1>3. CASE TurnSends(s)
  <2>1. PICK i \in my[s].rows : messages' = [messages EXCEPT ![d][i].got = TRUE]
    BY <1>3 DEF TurnSends
  <2>2. /\ DOMAIN messages'[d] = DOMAIN messages[d]
        /\ \A j \in DOMAIN messages[d] : messages'[d][j] \in {messages[d][j], [messages[d][j] EXCEPT !.got = TRUE]}
        /\ \A e \in Dialogs \ {d} : messages'[e] = messages[e]
    BY <1>1, <2>1 DEF TypeOK
  <2>3. \A j \in DOMAIN messages[d] : messages[d][j] \in Message
    BY <1>1
  <2>4. \A j \in DOMAIN messages[d] :
          /\ messages'[d][j].by = messages[d][j].by /\ messages'[d][j].shows = messages[d][j].shows
          /\ messages'[d][j].mailing = messages[d][j].mailing
          /\ messages[d][j].got => messages'[d][j].got
    BY <2>2, <2>3 DEF Message
  <2>5. CarriesOver(ToSet(messages[d]), ToSet(messages'[d]))
    BY <2>2, <2>4, SetOfVersions
  <2> QED BY <2>2, <2>5, Carried DEF SaidTo
<1>4. CASE TurnFails(s) \/ TurnLeaves(s)
  <2> DEFINE failed == WithFailed(messages[d], my[s].rows)
  <2>1. /\ DOMAIN failed = DOMAIN messages[d]
        /\ \A i \in DOMAIN messages[d] :
             /\ failed[i].by = messages[d][i].by /\ failed[i].shows = messages[d][i].shows
             /\ failed[i].mailing = messages[d][i].mailing /\ failed[i].got = messages[d][i].got
    BY <1>1, WithFailedType
  <2>2. \A e \in Dialogs : messages'[e] = messages[e] \/ (e = d /\ messages'[e] = failed)
    BY <1>1, <1>4 DEF TurnFails, TurnLeaves, TypeOK
  <2> HIDE DEF failed
  <2>4. CarriesOver(ToSet(messages[d]), ToSet(failed))
    BY <2>1, SetOfVersions
  <2> QED BY <2>2, <2>4, Carried DEF SaidTo
<1> QED BY <1>2, <1>3, <1>4 DEF Turns

LEMMA BeginsEarned ==
  ASSUME TypeOK, SessionInv, EarnedInv, NEW s \in Sessions, NEW d \in Dialogs,
         Begin(s, d) \/ ManagerSpeaks(s, d) \/ BeginResync(s, d) \/ Turns(s) \/ SilentSends(s)
  PROVE  EarnedInv'
<1>1. /\ my'[s].target = "-" /\ \A q \in Sessions \ {s} : my'[q] = my[q]
      /\ UNCHANGED <<status, byHand, paid>>
  BY BeginsSession DEF dialog
<1>2. UNCHANGED hasty
  BY DEF Begin, ManagerSpeaks, BeginResync, SilentSends, Turns, TurnStores, TurnSends, TurnFails, TurnLeaves
<1>3. \A e \in Dialogs : CarriesOver(SaidTo(e), SaidTo(e)')
  <2>1. CASE Turns(s)
    BY <2>1, TurnsCarry
  <2>2. CASE Begin(s, d) \/ ManagerSpeaks(s, d) \/ BeginResync(s, d) \/ SilentSends(s)
    <3>1. \A e \in Dialogs : SaidTo(e)' = SaidTo(e)
      BY <2>2 DEF Begin, ManagerSpeaks, BeginResync, SilentSends, SaidTo
    <3> QED BY <3>1, Carried
  <2> QED BY <2>1, <2>2
<1> QED BY <1>1, <1>2, <1>3, QuietEarned

LEMMA SyncEarned ==
  ASSUME TypeOK, SessionInv, EarnedInv, NEW s \in Sessions, Sync(s)
  PROVE  EarnedInv'
<1> DEFINE d == my[s].dialog
           said == Sees(s)
           all == SaidTo(d) \cup ToSet(my[s].sent)
<1>1. d \in Dialogs /\ said \in Seq(Message) /\ paid[d] \in {"no", "yes", "revoked"}
  BY SeesType DEF TypeOK
<1>2. CarriesOver(ToSet(said), all)
  BY SeesAll
<1>3. /\ my'[s].target = SyncTarget(s) /\ my'[s].dialog = d /\ my'[s].sent = my[s].sent
      /\ \A q \in Sessions \ {s} : my'[q] = my[q]
      /\ SyncTarget(s) \in {"-", Earned(said, paid[d])}
      /\ SyncTarget(s) # "-" =>
           my'[s].hasty = (my[s].hasty \/ \E i \in DOMAIN said : Unsent(said[i], SyncTarget(s)))
  BY SyncSession
<1>4. ASSUME SyncTarget(s) # "-", ~my'[s].hasty PROVE Grounds(all, SyncTarget(s), paid[d])
  <2>1. SyncTarget(s) = Earned(said, paid[d]) /\ ~\E i \in DOMAIN said : Unsent(said[i], SyncTarget(s))
    BY <1>3, <1>4
  <2> HIDE DEF said, all
  <2>2. Grounds(ToSet(said), Earned(said, paid[d]), paid[d])
    BY <1>1, <2>1, EarnedIsGrounded
  <2> QED BY <1>2, <2>1, <2>2, GroundsKept
<1>5. UNCHANGED <<messages, status, byHand, paid, hasty>>
  BY DEF Sync, dialog
<1>6. \A e \in Dialogs : ~byHand'[e] => e \in hasty' \/ Grounds(ToSet(messages'[e]), status'[e], paid'[e])
  BY <1>5 DEF EarnedInv, SaidTo
<1>7. ASSUME NEW q \in Sessions, my'[q].target # "-", ~my'[q].hasty
      PROVE  Grounds(ToSet(messages'[my'[q].dialog]) \cup ToSet(my'[q].sent), my'[q].target, paid'[my'[q].dialog])
  <2>1. CASE q = s
    BY <1>3, <1>4, <1>5, <1>7, <2>1 DEF SaidTo
  <2>2. CASE q # s
    BY <1>3, <1>5, <1>7, <2>2 DEF EarnedInv, SaidTo
  <2> QED BY <2>1, <2>2
<1> QED BY <1>6, <1>7 DEF EarnedInv, SaidTo

LEMMA CommitEarned ==
  ASSUME TypeOK, EarnedInv, NEW s \in Sessions, Commit(s)
  PROVE  EarnedInv'
<1> DEFINE d == my[s].dialog
           all == SaidTo(d) \cup ToSet(my[s].sent)
<1>1. d \in Dialogs /\ messages[d] \in Seq(Message) /\ my[s].sent \in Seq(Message)
  BY SeesType
<1>2. /\ UNCHANGED paid
      /\ \A e \in Dialogs \ {d} : UNCHANGED <<messages[e], status[e], byHand[e]>>
      /\ messages'[d] = Sees(s)
      /\ my[s].target = "-" => UNCHANGED <<status, byHand, hasty>>
      /\ my[s].target # "-" => status'[d] = my[s].target
  BY <1>1 DEF Commit, TypeOK
<1>3. my[s].target # "-" => hasty' \in {hasty \cup {d}, hasty \ {d}} /\ (d \in hasty' <=> my[s].hasty)
  BY <1>1 DEF Commit
<1>4. CarriesOver(all, ToSet(messages'[d]))
  BY <1>2, SeesAll
<1>5. \A e \in Dialogs : CarriesOver(SaidTo(e), ToSet(messages'[e]))
  <2>1. CarriesOver(SaidTo(d), ToSet(messages'[d]))
    BY <1>4 DEF CarriesOver
  <2>2. \A e \in Dialogs \ {d} : CarriesOver(SaidTo(e), ToSet(messages'[e]))
    BY <1>2, Carried DEF SaidTo
  <2> QED BY <2>1, <2>2
<1>6. my'[s].target = "-" /\ \A q \in Sessions \ {s} : my'[q] = my[q]
  BY EndsSession
<1>7. ASSUME my[s].target = "-" PROVE EarnedInv'
  <2>1. \A e \in Dialogs : CarriesOver(SaidTo(e), SaidTo(e)')
    BY <1>5 DEF SaidTo
  <2> QED BY <1>2, <1>6, <1>7, <2>1, QuietEarned
<1>8. ASSUME my[s].target # "-" PROVE EarnedInv'
  <2>1. ASSUME NEW e \in Dialogs, ~byHand'[e], e \notin hasty'
        PROVE  Grounds(ToSet(messages'[e]), status'[e], paid'[e])
    <3>1. CASE e = d
      <4>1. ~my[s].hasty
        BY <1>3, <1>8, <2>1, <3>1
      <4>2. Grounds(all, my[s].target, paid[d])
        BY <1>8, <4>1 DEF EarnedInv
      <4> HIDE DEF all
      <4>3. Grounds(ToSet(messages'[d]), my[s].target, paid[d])
        BY <1>4, <4>2, GroundsKept
      <4> QED BY <1>2, <1>8, <3>1, <4>3
    <3>2. CASE e # d
      <4>1. e \notin hasty
        BY <1>3, <1>8, <2>1, <3>2
      <4> QED BY <1>2, <2>1, <3>2, <4>1 DEF EarnedInv, SaidTo
    <3> QED BY <3>1, <3>2
  <2>2. ASSUME NEW q \in Sessions, my'[q].target # "-", ~my'[q].hasty
        PROVE  Grounds(ToSet(messages'[my'[q].dialog]) \cup ToSet(my'[q].sent), my'[q].target, paid'[my'[q].dialog])
    <3> DEFINE e == my[q].dialog
               before == SaidTo(e) \cup ToSet(my[q].sent)
               more == ToSet(messages'[e]) \cup ToSet(my[q].sent)
    <3>1. my'[q] = my[q] /\ my[q].target # "-" /\ ~my[q].hasty
      BY <1>6, <2>2
    <3>2. e \in Dialogs
      BY DEF TypeOK, Local
    <3>3. Grounds(before, my[q].target, paid[e])
      BY <3>1 DEF EarnedInv
    <3>4. CarriesOver(before, more)
      BY <1>5, <3>2, Carried
    <3> HIDE DEF before, more
    <3>5. Grounds(more, my[q].target, paid[e])
      BY <3>3, <3>4, GroundsKept
    <3> QED BY <1>2, <3>1, <3>5 DEF more
  <2> QED BY <2>1, <2>2 DEF EarnedInv, SaidTo
<1> QED BY <1>7, <1>8

LEMMA PeopleEarned ==
  ASSUME TypeOK, EarnedInv, NEW e \in Dialogs,
         ClientWrites(e) \/ ChangeStatus(e) \/ ConfirmPayment(e) \/ SetAiPause(e) \/ SideMark(e)
  PROVE  EarnedInv'
<1>1. UNCHANGED <<my, hasty>>
  BY DEF ClientWrites, ChangeStatus, ConfirmPayment, SetAiPause, SideMark
<1>2. \A d \in Dialogs : CarriesOver(SaidTo(d), SaidTo(d)')
  <2>1. CASE ClientWrites(e)
    <3>1. PICK m \in Message : messages' = [messages EXCEPT ![e] = Append(@, m)]
      <4>1. \A shows \in {"nothing", "details"} : Said("client", shows, TRUE) \in Message
        BY SaidType, WorthNames
      <4> QED BY <2>1, <4>1 DEF ClientWrites
    <3>2. Append(messages[e], m) = messages[e] \o <<m>> /\ <<m>> \in Seq(Message)
      BY DEF TypeOK
    <3>3. messages' = [messages EXCEPT ![e] = @ \o <<m>>]
      BY <3>1, <3>2
    <3> QED BY <3>2, <3>3, AddedCarries
  <2>2. CASE ChangeStatus(e) \/ ConfirmPayment(e) \/ SetAiPause(e) \/ SideMark(e)
    <3>1. \A d \in Dialogs : SaidTo(d)' = SaidTo(d)
      BY <2>2 DEF ChangeStatus, ConfirmPayment, SetAiPause, SideMark, SaidTo
    <3> QED BY <3>1, Carried
  <2> QED BY <2>1, <2>2
<1>3. \A d \in Dialogs : paid[d] # "no" => paid'[d] # "no"
  BY DEF ClientWrites, ChangeStatus, ConfirmPayment, SetAiPause, SideMark, TypeOK, dialog
<1>4. \A d \in Dialogs : ~byHand'[d] => ~byHand[d] /\ status'[d] = status[d]
  BY DEF ClientWrites, ChangeStatus, ConfirmPayment, SetAiPause, SideMark, TypeOK, dialog
<1> QED BY <1>1, <1>2, <1>3, <1>4, QuietEarned

\* A dialog with a message that turns out a mailing's is no longer vouched for.
LEMMA MarkedEarned ==
  ASSUME TypeOK, SessionInv, EarnedInv, MarkBroadcasts
  PROVE  EarnedInv'
<1>1. UNCHANGED <<status, byHand, paid>>
  BY DEF MarkBroadcasts, dialog
<1>2. \A d \in Dialogs : d \in hasty' \/ (d \notin hasty /\ messages'[d] = messages[d])
  BY DEF MarkBroadcasts
<1>3. \A d \in Dialogs : ~byHand'[d] => d \in hasty' \/ Grounds(ToSet(messages'[d]), status'[d], paid'[d])
  BY <1>1, <1>2 DEF EarnedInv, SaidTo
<1>4. ASSUME NEW s \in Sessions, my'[s].target # "-", ~my'[s].hasty
      PROVE  Grounds(ToSet(messages'[my'[s].dialog]) \cup ToSet(my'[s].sent), my'[s].target, paid'[my'[s].dialog])
  <2>1. my[s].target # "-" /\ my[s].step = "commit"
    BY <1>4, MarkedSessions DEF SessionInv
  <2>2. messages'[my[s].dialog] = messages[my[s].dialog] /\ my'[s] = my[s]
    BY <1>4, <2>1, MarkedSessions
  <2> QED BY <1>1, <1>4, <2>1, <2>2 DEF EarnedInv, SaidTo
<1> QED BY <1>3, <1>4 DEF EarnedInv, SaidTo

LEMMA StepEarned == TypeOK /\ SessionInv /\ EarnedInv /\ [Next]_vars => EarnedInv'
<1> SUFFICES ASSUME TypeOK, SessionInv, EarnedInv, [Next]_vars PROVE EarnedInv'
  OBVIOUS
<1>1. ASSUME NEW s \in Sessions, RollBack(s) PROVE EarnedInv'
  <2>1. /\ my'[s].target = "-" /\ \A q \in Sessions \ {s} : my'[q] = my[q]
        /\ UNCHANGED <<messages, status, byHand, paid, hasty>>
    BY <1>1, EndsSession DEF RollBack, dialog
  <2>2. \A d \in Dialogs : CarriesOver(SaidTo(d), SaidTo(d)')
    BY <2>1, Carried DEF SaidTo
  <2> QED BY <2>1, <2>2, QuietEarned
<1>2. CASE \E s \in Sessions : Session(s)
  <2>1. \E d \in Dialogs : TRUE
    BY Constants
  <2> QED BY <1>1, <1>2, <2>1, BeginsEarned, SyncEarned, CommitEarned DEF Session, Turns
<1>3. CASE \E d \in Dialogs : ClientWrites(d) \/ ChangeStatus(d) \/ ConfirmPayment(d) \/ SetAiPause(d) \/ SideMark(d)
  BY <1>3, PeopleEarned
<1>4. CASE Forget \/ MailingElsewhere \/ UNCHANGED vars
  <2>1. UNCHANGED <<messages, status, byHand, paid, hasty, my>>
    BY <1>4 DEF Forget, MailingElsewhere, dialog, vars
  <2> QED BY <2>1 DEF EarnedInv, SaidTo
<1>5. CASE MarkBroadcasts
  BY <1>5, MarkedEarned
<1> QED BY <1>2, <1>3, <1>4, <1>5 DEF Next

\* A status the code has set stands on a message that has reached the client, is counted
\* and is not a mailing's, whoever set it and in whatever order the sessions committed;
\* unless a row worth it had been stored and not sent when it was concluded, or a message
\* was found to be a mailing's since (earned_status, sync_status, was_delivered).
THEOREM StatusesAreEarned == Spec => []StatusIsEarned
<1>1. Init => TypeOK /\ SessionInv /\ EarnedInv
  BY InitType, InitSession, InitEarned
<1>2. TypeOK /\ SessionInv /\ EarnedInv /\ [Next]_vars => (TypeOK /\ SessionInv /\ EarnedInv)'
  BY StepType, StepSession, StepEarned
<1>3. TypeOK /\ EarnedInv => StatusIsEarned
  <2> SUFFICES ASSUME TypeOK, EarnedInv, NEW d \in Dialogs, ~byHand[d], d \notin hasty,
                      ~(Rank(status[d]) <= 1), ~(status[d] = "order" /\ paid[d] # "no")
               PROVE  \E i \in DOMAIN messages[d] :
                        LET m == messages[d][i] IN
                        /\ m.got /\ m.mailing = "no"
                        /\ m.by = "ai" \/ (m.by = "curator" /\ Spoke(messages[d]))
                        /\ Rank(status[d]) <= Worth[m.shows]
    BY DEF StatusIsEarned
  <2>1. PICK m \in SaidTo(d) : Bears(m, SaidTo(d)) /\ Rank(status[d]) <= Worth[m.shows]
    BY DEF EarnedInv, Grounds
  <2>2. PICK i \in DOMAIN messages[d] : m = messages[d][i]
    BY DEF SaidTo, ToSet
  <2>3. (\E c \in SaidTo(d) : c.by = "client") => Spoke(messages[d])
    BY DEF SaidTo, ToSet, Spoke
  <2> QED BY <2>1, <2>2, <2>3 DEF Bears
<1> QED BY <1>1, <1>2, <1>3, PTL DEF Spec
=============================================================================
