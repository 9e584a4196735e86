---------------------------- MODULE AiRun_proof ----------------------------
(* Theorems about AiRun, for any texts, scripts, panels and replies.        *)
EXTENDS AiRun, FiniteSetTheorems, TLAPS

(****************************************************************************)
(* Sequences of which some places are kept.                                 *)
(****************************************************************************)
\* What holds of zero, and of a number when it holds of the one before it.
LEMMA Induction ==
  ASSUME NEW n \in Nat, NEW S, 0 \in S, \A k \in 1..n : k - 1 \in S => k \in S
  PROVE  0..n \subseteq S
<1> DEFINE T == {k \in 0..n : k \notin S}
           R == {ss \in Nat \X Nat : ss[1] < ss[2]}
<1> SUFFICES ASSUME T # {} PROVE FALSE
  OBVIOUS
<1>1. PICK t \in T : \A u \in T : ~(<<u, t>> \in R)
  <2>1. IsWellFoundedOn(R, Nat)
    BY NatLessThanWellFounded DEF OpToRel
  <2>2. T \subseteq Nat
    OBVIOUS
  <2> HIDE DEF R, T
  <2> QED BY <2>1, <2>2, WFMin
<1>2. t \in 1..n /\ t - 1 \in 0..n /\ t \notin S
  OBVIOUS
<1>3. t - 1 \notin S
  BY <1>2
<1>4. t - 1 \in T /\ <<t - 1, t>> \in R
  BY <1>2, <1>3
<1> QED BY <1>1, <1>4

\* A function given by its first value and by how each follows from the one before.
Follows(f, n, first, next) == f[0] = first /\ \A k \in 1..n : f[k] = next[k][f[k - 1]]

LEMMA Recursion ==
  ASSUME NEW n \in Nat, NEW T, NEW a \in T, NEW next \in [1..n -> [T -> T]]
  PROVE  \E f \in [0..n -> T] : Follows(f, n, a, next)
<1> DEFINE Good(k, f) == f[0] = a /\ \A j \in 1..k : f[j] = next[j][f[j - 1]]
           S == {k \in 0..n : \E f \in [0..k -> T] : Good(k, f)}
<1>1. 0 \in S
  <2> DEFINE f == [j \in 0..0 |-> a]
  <2>1. f \in [0..0 -> T] /\ Good(0, f)
    OBVIOUS
  <2>2. 0 \in 0..n
    OBVIOUS
  <2> HIDE DEF f, Good
  <2> QED BY <2>1, <2>2
<1>2. ASSUME NEW k \in 1..n, k - 1 \in S
      PROVE  k \in S
  <2>1. PICK f \in [0..k - 1 -> T] : Good(k - 1, f)
    BY <1>2
  <2> DEFINE g == [j \in 0..k |-> IF j = k THEN next[k][f[k - 1]] ELSE f[j]]
  <2>2. next[k][f[k - 1]] \in T
    OBVIOUS
  <2>3. g \in [0..k -> T]
    BY <2>2
  <2>4. Good(k, g)
    <3>1. g[0] = a
      BY <2>1
    <3>2. \A j \in 1..k - 1 : g[j] = f[j] /\ g[j - 1] = f[j - 1]
      OBVIOUS
    <3>3. g[k] = next[k][f[k - 1]] /\ g[k - 1] = f[k - 1]
      OBVIOUS
    <3>4. ASSUME NEW j \in 1..k PROVE g[j] = next[j][g[j - 1]]
      <4>1. CASE j = k
        BY <3>3, <4>1
      <4>2. CASE j # k
        <5>1. j \in 1..k - 1
          BY <4>2
        <5> QED BY <2>1, <3>2, <5>1
      <4> QED BY <4>1, <4>2
    <3> QED BY <3>1, <3>4
  <2>5. k \in 0..n
    OBVIOUS
  <2> HIDE DEF g, Good
  <2> QED BY <2>3, <2>4, <2>5
<1>3. n \in S
  <2> HIDE DEF S
  <2>1. 0..n \subseteq S
    BY <1>1, <1>2, Induction
  <2> QED BY <2>1
<1> QED BY <1>3 DEF Follows

\* Among takes the places one after another.
TakesUpTo(f, s, keep) ==
  /\ f[0] = <<>> /\ Among(s, keep) = f[Len(s)]
  /\ \A k \in 1..Len(s) : f[k] = IF k \in keep THEN Append(f[k - 1], s[k]) ELSE f[k - 1]

LEMMA AmongUnfolds ==
  ASSUME NEW S, NEW s \in Seq(S), NEW keep
  PROVE  \E f \in [0..Len(s) -> Seq(S)] : TakesUpTo(f, s, keep)
<1> DEFINE n == Len(s)
           next == [k \in 1..n |-> [q \in Seq(S) |-> IF k \in keep THEN Append(q, s[k]) ELSE q]]
           upTo[k \in 0..n] ==
             IF k = 0 THEN <<>> ELSE IF k \in keep THEN Append(upTo[k - 1], s[k]) ELSE upTo[k - 1]
           Step(f) == [k \in 0..n |->
             IF k = 0 THEN <<>> ELSE IF k \in keep THEN Append(f[k - 1], s[k]) ELSE f[k - 1]]
<1>1. n \in Nat /\ \A k \in 1..n : s[k] \in S
  OBVIOUS
<1>2. next \in [1..n -> [Seq(S) -> Seq(S)]]
  BY <1>1
<1>3. PICK f \in [0..n -> Seq(S)] : f[0] = <<>> /\ \A k \in 1..n : f[k] = next[k][f[k - 1]]
  <2>1. <<>> \in Seq(S)
    OBVIOUS
  <2>2. n \in Nat
    BY <1>1
  <2> DEFINE T == Seq(S)
             a == <<>>
  <2>3. a \in T /\ next \in [1..n -> [T -> T]]
    BY <1>2, <2>1
  <2>4. \E f \in [0..n -> T] : Follows(f, n, a, next)
    <3> HIDE DEF next, n, T, a
    <3> QED BY <2>2, <2>3, Recursion
  <2> QED BY <2>4 DEF Follows
<1>4. \A k \in 1..n : f[k] = IF k \in keep THEN Append(f[k - 1], s[k]) ELSE f[k - 1]
  <2> SUFFICES ASSUME NEW k \in 1..n
               PROVE  f[k] = IF k \in keep THEN Append(f[k - 1], s[k]) ELSE f[k - 1]
    OBVIOUS
  <2>1. f[k - 1] \in Seq(S)
    OBVIOUS
  <2> QED BY <1>3, <2>1
<1>5. f = Step(f)
  <2> HIDE DEF n, next
  <2>1. f = [k \in 0..n |-> f[k]]
    BY <1>3
  <2>2. ASSUME NEW k \in 0..n PROVE f[k] = Step(f)[k]
    <3>1. CASE k = 0
      BY <1>3, <3>1
    <3>2. CASE k # 0
      <4>1. k \in 1..n
        BY <1>1, <3>2
      <4>2. Step(f)[k] = IF k \in keep THEN Append(f[k - 1], s[k]) ELSE f[k - 1]
        BY <3>2
      <4> QED BY <1>4, <4>1, <4>2
    <3> QED BY <3>1, <3>2
  <2> QED BY <2>1, <2>2
<1>6. upTo = Step(upTo)
  <2> HIDE DEF n, next
  <2>1. \E g : g = Step(g)
    BY <1>5
  <2> QED BY <2>1, Zenon
<1>7. Among(s, keep) = upTo[Len(s)]
  BY DEF Among
<1>8. upTo[0] = <<>>
  <2> HIDE DEF upTo
  <2>1. 0 \in 0..n
    BY <1>1
  <2> QED BY <1>6, <2>1
<1>9. ASSUME NEW k \in 1..n
      PROVE  upTo[k] = IF k \in keep THEN Append(upTo[k - 1], s[k]) ELSE upTo[k - 1]
  <2> HIDE DEF upTo
  <2>1. k \in 0..n /\ k # 0
    BY <1>1
  <2> QED BY <1>6, <2>1
<1>10. \A k \in 0..n : upTo[k] \in Seq(S)
  <2> DEFINE R == {k \in 0..n : upTo[k] \in Seq(S)}
  <2> HIDE DEF upTo
  <2>1. 0 \in R
    <3>1. 0 \in 0..n /\ <<>> \in Seq(S)
      BY <1>1
    <3> QED BY <1>8, <3>1
  <2>2. ASSUME NEW k \in 1..n, k - 1 \in R PROVE k \in R
    <3>1. upTo[k - 1] \in Seq(S) /\ s[k] \in S /\ k \in 0..n
      BY <1>1, <2>2
    <3>2. upTo[k] \in Seq(S)
      <4>1. Append(upTo[k - 1], s[k]) \in Seq(S)
        BY <3>1
      <4> QED BY <1>9, <3>1, <4>1
    <3> QED BY <3>1, <3>2
  <2>3. 0..n \subseteq R
    <3>1. n \in Nat
      BY <1>1
    <3> HIDE DEF R, n
    <3> QED BY <2>1, <2>2, <3>1, Induction
  <2> QED BY <2>3
<1>11. upTo \in [0..n -> Seq(S)]
  <2> HIDE DEF upTo
  <2>1. upTo = [k \in 0..n |-> upTo[k]]
    BY <1>6
  <2> QED BY <1>10, <2>1
<1> HIDE DEF upTo
<1> QED BY <1>7, <1>8, <1>9, <1>11 DEF TakesUpTo

\* The kept places among the first n, in their order.
Orders(at, keep, n) ==
  /\ at \in Seq(Nat)
  /\ \A k \in 1..Len(at) : at[k] \in keep /\ at[k] \in 1..n
  /\ \A k, l \in 1..Len(at) : k < l => at[k] < at[l]
  /\ \A i \in 1..n : i \in keep => \E k \in 1..Len(at) : at[k] = i

\* What Among returns: the values at the kept places, in their order.
LEMMA AmongIs ==
  ASSUME NEW S, NEW s \in Seq(S), NEW keep
  PROVE  /\ Among(s, keep) \in Seq(S)
         /\ \E at : /\ Orders(at, keep, Len(s)) /\ Len(Among(s, keep)) = Len(at)
                    /\ \A l \in 1..Len(at) : Among(s, keep)[l] = s[at[l]]
<1> DEFINE n == Len(s)
           Reads(at, q) == Len(q) = Len(at) /\ \A l \in 1..Len(at) : q[l] = s[at[l]]
<1>0. PICK f \in [0..n -> Seq(S)] : TakesUpTo(f, s, keep)
  BY AmongUnfolds
<1>1. /\ f[0] = <<>> /\ Among(s, keep) = f[n]
      /\ \A k \in 1..n : f[k] = IF k \in keep THEN Append(f[k - 1], s[k]) ELSE f[k - 1]
  BY <1>0 DEF TakesUpTo
<1>2. n \in Nat /\ \A k \in 1..n : s[k] \in S
  OBVIOUS
<1> DEFINE R == {k \in 0..n : \E at : Orders(at, keep, k) /\ Reads(at, f[k])}
<1> HIDE DEF n
<1>3. 0 \in R
  <2>1. Orders(<<>>, keep, 0) /\ Reads(<<>>, f[0])
    BY <1>1 DEF Orders
  <2>2. 0 \in 0..n
    BY <1>2
  <2> HIDE DEF Reads
  <2> QED BY <2>1, <2>2
<1>4. ASSUME NEW k \in 1..n, k - 1 \in R
      PROVE  k \in R
  <2>1. PICK at : Orders(at, keep, k - 1) /\ Reads(at, f[k - 1])
    BY <1>4
  <2>2. k \in 0..n /\ k \in Nat /\ k - 1 \in 0..n /\ s[k] \in S
    BY <1>2
  <2>3. at \in Seq(Nat) /\ f[k - 1] \in Seq(S)
    BY <1>1, <2>1, <2>2 DEF Orders
  <2>4. CASE k \in keep
    <3> DEFINE on == Append(at, k)
               q == Append(f[k - 1], s[k])
    <3>1. f[k] = q
      BY <1>1, <2>4
    <3>2. /\ on \in Seq(Nat) /\ Len(on) = Len(at) + 1 /\ on[Len(on)] = k
          /\ \A l \in 1..Len(at) : on[l] = at[l]
      BY <2>2, <2>3
    <3>3. Reads(on, q)
      <4>1. Len(q) = Len(on) /\ q[Len(on)] = s[k] /\ \A l \in 1..Len(at) : q[l] = f[k - 1][l]
        BY <2>1, <2>2, <2>3
      <4>2. ASSUME NEW l \in 1..Len(on) PROVE q[l] = s[on[l]]
        <5>1. CASE l = Len(on)
          BY <3>2, <4>1, <5>1
        <5>2. CASE l # Len(on)
          <6>1. l \in 1..Len(at)
            BY <2>3, <3>2, <5>2
          <6> QED BY <2>1, <3>2, <4>1, <6>1
        <5> QED BY <5>1, <5>2
      <4> QED BY <4>1, <4>2
    <3>4. Orders(on, keep, k)
      <4> HIDE DEF on
      <4>1. \A l \in 1..Len(on) : l = Len(at) + 1 \/ l \in 1..Len(at)
        BY <2>3, <3>2
      <4>2. \A l \in 1..Len(at) : at[l] \in keep /\ at[l] \in 1..k - 1 /\ l \in 1..Len(on)
        BY <2>1, <2>3, <3>2 DEF Orders
      <4>3. \A l \in 1..Len(on) : on[l] \in keep /\ on[l] \in 1..k
        <5> SUFFICES ASSUME NEW l \in 1..Len(on) PROVE on[l] \in keep /\ on[l] \in 1..k
          OBVIOUS
        <5>1. CASE l = Len(at) + 1
          BY <2>2, <2>4, <3>2, <5>1
        <5>2. CASE l \in 1..Len(at)
          <6>1. on[l] = at[l] /\ at[l] \in keep /\ at[l] \in 1..k - 1
            BY <3>2, <4>2, <5>2
          <6> QED BY <2>2, <6>1
        <5> QED BY <4>1, <5>1, <5>2
      <4>4. \A l, m \in 1..Len(on) : l < m => on[l] < on[m]
        <5> SUFFICES ASSUME NEW l \in 1..Len(on), NEW m \in 1..Len(on), l < m
                     PROVE  on[l] < on[m]
          OBVIOUS
        <5>1. l \in 1..Len(at)
          BY <2>3, <3>2
        <5>2. on[l] = at[l] /\ at[l] \in 1..k - 1
          BY <3>2, <4>2, <5>1
        <5>3. CASE m = Len(at) + 1
          BY <2>2, <3>2, <5>2, <5>3
        <5>4. CASE m \in 1..Len(at)
          BY <2>1, <3>2, <5>1, <5>2, <5>4 DEF Orders
        <5> QED BY <4>1, <5>3, <5>4
      <4>5. \A i \in 1..k : i \in keep => \E l \in 1..Len(on) : on[l] = i
        <5> SUFFICES ASSUME NEW i \in 1..k, i \in keep PROVE \E l \in 1..Len(on) : on[l] = i
          OBVIOUS
        <5>1. CASE i = k
          <6>1. Len(on) \in 1..Len(on)
            BY <2>3, <3>2
          <6> QED BY <3>2, <5>1, <6>1
        <5>2. CASE i # k
          <6>1. i \in 1..k - 1
            BY <2>2, <5>2
          <6>2. PICK l \in 1..Len(at) : at[l] = i
            BY <2>1, <6>1 DEF Orders
          <6> QED BY <3>2, <4>2, <6>2
        <5> QED BY <5>1, <5>2
      <4> QED BY <3>2, <4>3, <4>4, <4>5 DEF Orders
    <3> HIDE DEF on, q, Reads
    <3> QED BY <2>2, <3>1, <3>3, <3>4
  <2>5. CASE k \notin keep
    <3>1. f[k] = f[k - 1]
      BY <1>1, <2>5
    <3>2. Orders(at, keep, k)
      <4>1. \A i \in 1..k : i \in keep => i \in 1..k - 1
        BY <2>2, <2>5
      <4>2. \A l \in 1..Len(at) : at[l] \in 1..k - 1 => at[l] \in 1..k
        BY <2>2
      <4> QED BY <2>1, <4>1, <4>2 DEF Orders
    <3> HIDE DEF Reads
    <3> QED BY <2>1, <2>2, <3>1, <3>2
  <2> QED BY <2>4, <2>5
<1>5. n \in R
  <2> HIDE DEF R
  <2>1. 0..n \subseteq R
    BY <1>2, <1>3, <1>4, Induction
  <2> QED BY <1>2, <2>1
<1>6. PICK at : Orders(at, keep, n) /\ Reads(at, f[n])
  BY <1>5
<1> QED BY <1>1, <1>2, <1>6 DEF n

(****************************************************************************)
(* The tidying of a turn.                                                   *)
(****************************************************************************)
\* The rows of the messages of a turn, in the order of the messages.
Ordered(ps) == \A i, k \in 1..Len(ps) : i < k => ps[i].id < ps[k].id

\* The messages of qs are messages of ps; they state nothing new, and ask nothing
\* new but for the question _ensure_question puts at the end.
Closing == {"city", "color", "size", "where", "now"}
SaysWithin(q, p) == /\ q.id = p.id /\ q.script = p.script
                    /\ q.text.says \subseteq p.text.says
                    /\ ToSet(q.text.asks) \subseteq ToSet(p.text.asks) \cup Closing
Tidies(qs, ps) ==
  /\ qs \in Seq(Parts) /\ Ordered(qs)
  /\ \A k \in 1..Len(qs) : \E i \in 1..Len(ps) : SaysWithin(qs[k], ps[i])

LEMMA TidiesOn ==
  ASSUME NEW as, NEW bs, NEW cs, Tidies(cs, bs), Tidies(bs, as)
  PROVE  Tidies(cs, as)
<1> SUFFICES ASSUME NEW k \in 1..Len(cs) PROVE \E i \in 1..Len(as) : SaysWithin(cs[k], as[i])
  BY DEF Tidies
<1>1. PICK i \in 1..Len(bs) : SaysWithin(cs[k], bs[i])
  BY DEF Tidies
<1>2. PICK l \in 1..Len(as) : SaysWithin(bs[i], as[l])
  BY DEF Tidies
<1> QED BY <1>1, <1>2 DEF SaysWithin

LEMMA AmongTidies ==
  ASSUME NEW ps \in Seq(Parts), Ordered(ps), NEW keep
  PROVE  /\ Tidies(Among(ps, keep), ps)
         /\ \A k \in 1..Len(Among(ps, keep)) : \E i \in 1..Len(ps) : i \in keep /\ Among(ps, keep)[k] = ps[i]
<1>1. PICK at : /\ Orders(at, keep, Len(ps)) /\ Len(Among(ps, keep)) = Len(at)
                /\ \A l \in 1..Len(at) : Among(ps, keep)[l] = ps[at[l]]
  BY AmongIs
<1>2. Among(ps, keep) \in Seq(Parts)
  BY AmongIs
<1>3. Ordered(Among(ps, keep))
  <2> SUFFICES ASSUME NEW i \in 1..Len(at), NEW k \in 1..Len(at), i < k
               PROVE  ps[at[i]].id < ps[at[k]].id
    BY <1>1 DEF Ordered
  <2>1. at[i] < at[k] /\ at[i] \in 1..Len(ps) /\ at[k] \in 1..Len(ps)
    BY <1>1 DEF Orders
  <2> QED BY <2>1 DEF Ordered
<1>4. \A k \in 1..Len(Among(ps, keep)) : \E i \in 1..Len(ps) : i \in keep /\ Among(ps, keep)[k] = ps[i]
  BY <1>1 DEF Orders
<1> QED BY <1>2, <1>3, <1>4 DEF Tidies, SaysWithin

\* Every message gets another text, and those left empty go.
LEMMA RewriteTidies ==
  ASSUME NEW ps \in Seq(Parts), Ordered(ps), NEW qs \in Seq(Parts), Len(qs) = Len(ps),
         \A i \in 1..Len(ps) : SaysWithin(qs[i], ps[i])
  PROVE  /\ Tidies(WithoutEmpty(qs), ps)
         /\ \A k \in 1..Len(WithoutEmpty(qs)) : ~Empty(WithoutEmpty(qs)[k].text)
<1>1. Ordered(qs)
  BY DEF Ordered, SaysWithin
<1> DEFINE keep == {i \in DOMAIN qs : ~Empty(qs[i].text)}
<1>2. WithoutEmpty(qs) = Among(qs, keep)
  BY DEF WithoutEmpty
<1>3. /\ Tidies(Among(qs, keep), qs)
      /\ \A k \in 1..Len(Among(qs, keep)) :
            \E i \in 1..Len(qs) : i \in keep /\ Among(qs, keep)[k] = qs[i]
  <2> HIDE DEF keep
  <2> QED BY <1>1, AmongTidies
<1>4. \A i \in keep : ~Empty(qs[i].text)
  OBVIOUS
<1> HIDE DEF keep
<1>5. Tidies(qs, ps)
  BY <1>1 DEF Tidies
<1>6. Tidies(Among(qs, keep), ps)
  BY <1>3, <1>5, TidiesOn
<1> QED BY <1>2, <1>3, <1>4, <1>6

LEMMA Singles ==
  ASSUME NEW S, NEW x \in S
  PROVE  <<x>> \in Seq(S) /\ Len(<<x>>) = 1 /\ <<x>>[1] = x
OBVIOUS

LEMMA Ends ==
  ASSUME NEW S, NEW s \in Seq(S), s # <<>>
  PROVE  Head(s) \in S /\ Last(s) \in S /\ s[1] \in S /\ 1 \in DOMAIN s /\ Len(s) \in DOMAIN s
BY DEF Last

LEMMA WithTextIs ==
  ASSUME NEW p \in Parts, NEW t \in Texts
  PROVE  /\ WithText(p, t) \in Parts /\ WithText(p, t).id = p.id
         /\ WithText(p, t).script = p.script /\ WithText(p, t).text = t
BY DEF WithText, Parts

LEMMA TextSays ==
  ASSUME NEW t \in Texts, NEW s \in SUBSET Statements
  PROVE  /\ [t EXCEPT !.says = s] \in Texts /\ [t EXCEPT !.says = s].says = s
         /\ [t EXCEPT !.says = s].asks = t.asks
BY DEF Texts

LEMMA TextAsks ==
  ASSUME NEW t \in Texts, NEW a \in Seq(Queries)
  PROVE  /\ [t EXCEPT !.asks = a] \in Texts /\ [t EXCEPT !.asks = a].asks = a
         /\ [t EXCEPT !.asks = a].says = t.says
BY DEF Texts

\* What a sequence of at most one value holds.
LEMMA SinglesHold ==
  ASSUME NEW x
  PROVE  ToSet(<<x>>) = {x} /\ ToSet(<<>>) = {}
BY DEF ToSet

LEMMA EndsHeld ==
  ASSUME NEW S, NEW s \in Seq(S), s # <<>>
  PROVE  Head(s) \in ToSet(s) /\ Last(s) \in ToSet(s)
<1>1. 1 \in DOMAIN s /\ Len(s) \in DOMAIN s /\ Head(s) = s[1]
  OBVIOUS
<1> QED BY <1>1 DEF Last, ToSet

LEMMA AmongHolds ==
  ASSUME NEW S, NEW s \in Seq(S), NEW keep
  PROVE  ToSet(Among(s, keep)) \subseteq ToSet(s)
<1>1. PICK at : /\ Orders(at, keep, Len(s)) /\ Len(Among(s, keep)) = Len(at)
                /\ \A l \in 1..Len(at) : Among(s, keep)[l] = s[at[l]]
  BY AmongIs
<1>2. Among(s, keep) \in Seq(S)
  BY AmongIs
<1> DEFINE q == Among(s, keep)
<1>3. \A x : x \in ToSet(q) => \E l \in 1..Len(at) : q[l] = x
  BY <1>1, <1>2 DEF ToSet
<1> HIDE DEF q
<1> SUFFICES ASSUME NEW x \in ToSet(q) PROVE x \in ToSet(s)
  BY DEF q
<1>4. PICK l \in 1..Len(at) : q[l] = x
  BY <1>3
<1>5. at[l] \in 1..Len(s) /\ x = s[at[l]]
  BY <1>1, <1>4 DEF Orders, q
<1> QED BY <1>5 DEF ToSet

LEMMA PartIs ==
  ASSUME NEW p \in Parts
  PROVE  /\ p.text \in Texts /\ p.id \in Nat /\ p.script \in Scripts \cup {None}
         /\ p.text.says \in SUBSET Statements /\ p.text.asks \in Seq(Queries)
BY DEF Parts, Texts

\* No long paragraph of one text is in the other.
Fresh(t, u) == t.says \cap u.says \cap Long = {}

LEMMA FoldedIs ==
  ASSUME NEW p \in Parts, NEW seen
  PROVE  /\ Folded(p, seen) \in Parts /\ SaysWithin(Folded(p, seen), p)
         /\ \A u \in seen : Fresh(Folded(p, seen).text, u)
<1> DEFINE a == IF p.text.asks = <<>> THEN <<>> ELSE <<Last(p.text.asks)>>
<1>1. a \in Seq(Queries)
  <2>1. p.text.asks \in Seq(Queries) /\ <<>> \in Seq(Queries)
    BY PartIs
  <2>2. p.text.asks # <<>> => <<Last(p.text.asks)>> \in Seq(Queries)
    BY <2>1, Ends, Singles
  <2> QED BY <2>1, <2>2
<1>11. ToSet(a) \subseteq ToSet(p.text.asks)
  <2>1. p.text.asks \in Seq(Queries)
    BY PartIs
  <2>2. CASE p.text.asks = <<>>
    BY <2>2
  <2>3. CASE p.text.asks # <<>>
    <3>1. a = <<Last(p.text.asks)>>
      BY <2>3
    <3> HIDE DEF a
    <3> QED BY <2>1, <2>3, <3>1, EndsHeld, SinglesHold
  <2> QED BY <2>2, <2>3
<1>2. {} \in SUBSET Statements
  OBVIOUS
<1>3. /\ [p.text EXCEPT !.says = {}, !.asks = a] \in Texts
      /\ [p.text EXCEPT !.says = {}, !.asks = a].says = {}
      /\ [p.text EXCEPT !.says = {}, !.asks = a].asks = a
  <2>1. p.text \in Texts
    BY PartIs
  <2> HIDE DEF a
  <2>2. PICK t \in Texts, s \in SUBSET Statements, q \in Seq(Queries) :
          t = p.text /\ s = {} /\ q = a
    BY <1>1, <1>2, <2>1
  <2>3. /\ [t EXCEPT !.says = s, !.asks = q] \in Texts
        /\ [t EXCEPT !.says = s, !.asks = q].says = s
        /\ [t EXCEPT !.says = s, !.asks = q].asks = q
    BY DEF Texts
  <2> QED BY <2>2, <2>3
<1>4. CASE DuplicateOf(p.text, seen) \/ RepeatsChunkOf(p.text, seen)
  <2> DEFINE t == [p.text EXCEPT !.says = {}, !.asks = a]
  <2>1. Folded(p, seen) = WithText(p, t) /\ t \in Texts /\ t.says = {} /\ t.asks = a
    BY <1>3, <1>4 DEF Folded
  <2> HIDE DEF a, t
  <2> QED BY <1>11, <2>1, WithTextIs DEF SaysWithin, Fresh
<1>5. CASE ~(DuplicateOf(p.text, seen) \/ RepeatsChunkOf(p.text, seen))
  BY <1>5 DEF Folded, SaysWithin, RepeatsChunkOf, Fresh
<1> QED BY <1>4, <1>5

LEMMA PricesTidy ==
  ASSUME NEW ps \in Seq(Parts), Ordered(ps)
  PROVE  Tidies(DropConflictingPrices(ps), ps)
<1>1. \A keep : Tidies(Among(ps, keep), ps)
  BY AmongTidies
<1> QED BY <1>1, Zenon DEF DropConflictingPrices

\* An image of a turn, message by message, that keeps the rows and adds no statement.
LEMMA ImageTidies ==
  ASSUME NEW ps \in Seq(Parts), Ordered(ps), NEW qs, qs = [i \in DOMAIN ps |-> qs[i]],
         \A i \in 1..Len(ps) : qs[i] \in Parts /\ SaysWithin(qs[i], ps[i])
  PROVE  /\ qs \in Seq(Parts) /\ Len(qs) = Len(ps) /\ Tidies(WithoutEmpty(qs), ps)
         /\ \A k \in 1..Len(WithoutEmpty(qs)) : ~Empty(WithoutEmpty(qs)[k].text)
<1>1. DOMAIN ps = 1..Len(ps) /\ Len(ps) \in Nat
  OBVIOUS
<1>2. qs \in [1..Len(ps) -> Parts]
  BY <1>1
<1>3. qs \in Seq(Parts) /\ Len(qs) = Len(ps)
  BY <1>1, <1>2
<1> QED BY <1>3, RewriteTidies

LEMMA DuplicatesTidy ==
  ASSUME NEW ps \in Seq(Parts), Ordered(ps)
  PROVE  Tidies(DropDuplicateParts(ps), ps)
<1>1. ASSUME NEW seen
      PROVE  Tidies(WithoutEmpty([i \in DOMAIN ps |-> Folded(ps[i], seen[i - 1])]), ps)
  <2> DEFINE qs == [i \in DOMAIN ps |-> Folded(ps[i], seen[i - 1])]
  <2>1. \A i \in 1..Len(ps) : qs[i] \in Parts /\ SaysWithin(qs[i], ps[i])
    BY FoldedIs
  <2>2. qs = [i \in DOMAIN ps |-> qs[i]]
    OBVIOUS
  <2> HIDE DEF qs
  <2>3. Tidies(WithoutEmpty(qs), ps)
    BY <2>1, <2>2, ImageTidies
  <2> QED BY <2>3 DEF qs
<1> QED BY <1>1, Zenon DEF DropDuplicateParts

LEMMA OffersTidy ==
  ASSUME NEW ps \in Seq(Parts), Ordered(ps)
  PROVE  Tidies(DropRepeatedOffers(ps), ps)
<1> DEFINE qs == [i \in DOMAIN ps |-> WithText(ps[i], [ps[i].text EXCEPT !.says = @ \ {"offer"}])]
<1>1. \A i \in 1..Len(ps) : qs[i] \in Parts /\ SaysWithin(qs[i], ps[i])
  <2> SUFFICES ASSUME NEW i \in 1..Len(ps) PROVE qs[i] \in Parts /\ SaysWithin(qs[i], ps[i])
    OBVIOUS
  <2> DEFINE s == ps[i].text.says \ {"offer"}
       t == [ps[i].text EXCEPT !.says = s]
  <2>1. ps[i] \in Parts /\ s \in SUBSET Statements
    BY PartIs
  <2>2. t \in Texts /\ t.says = s /\ t.asks = ps[i].text.asks
    <3> HIDE DEF s
    <3> QED BY <2>1, PartIs, TextSays
  <2>3. qs[i] = WithText(ps[i], t) /\ s \subseteq ps[i].text.says
    OBVIOUS
  <2> HIDE DEF qs, s, t
  <2> QED BY <2>1, <2>2, <2>3, WithTextIs DEF SaysWithin
<1>2. qs = [i \in DOMAIN ps |-> qs[i]]
  OBVIOUS
<1>3. Tidies(WithoutEmpty(qs), ps)
  <2> HIDE DEF qs
  <2> QED BY <1>1, <1>2, ImageTidies
<1>4. Tidies(ps, ps)
  BY DEF Tidies, SaysWithin
<1> QED BY <1>3, <1>4 DEF DropRepeatedOffers

LEMMA RepeatsTidy ==
  ASSUME NEW ps \in Seq(Parts), Ordered(ps)
  PROVE  Tidies(DropRepeatedQuestions(ps), ps)
<1> DEFINE Kept(i) == {k \in DOMAIN ps[i].text.asks :
                         LET q == ps[i].text.asks[k]
                         IN q \notin AskedIn(ps, i - 1) /\ Once(ps[i].text.asks, q)}
           qs == [i \in DOMAIN ps |->
                    WithText(ps[i], [ps[i].text EXCEPT !.asks = Among(@, Kept(i))])]
<1>1. \A i \in 1..Len(ps) : qs[i] \in Parts /\ SaysWithin(qs[i], ps[i])
  <2> SUFFICES ASSUME NEW i \in 1..Len(ps) PROVE qs[i] \in Parts /\ SaysWithin(qs[i], ps[i])
    OBVIOUS
  <2> DEFINE a == Among(ps[i].text.asks, Kept(i))
  <2> HIDE DEF Kept
  <2>1. ps[i] \in Parts
    OBVIOUS
  <2>2. a \in Seq(Queries)
    BY <2>1, PartIs, AmongIs
  <2> DEFINE t == [ps[i].text EXCEPT !.asks = a]
  <2>3. t \in Texts /\ t.says = ps[i].text.says /\ t.asks = a
    <3> HIDE DEF a
    <3> QED BY <2>1, <2>2, PartIs, TextAsks
  <2>31. ToSet(a) \subseteq ToSet(ps[i].text.asks)
    BY <2>1, PartIs, AmongHolds
  <2>4. qs[i] = WithText(ps[i], t)
    OBVIOUS
  <2> HIDE DEF qs, a, t
  <2> QED BY <2>1, <2>3, <2>31, <2>4, WithTextIs DEF SaysWithin
<1>2. qs = [i \in DOMAIN ps |-> qs[i]]
  OBVIOUS
<1>3. DropRepeatedQuestions(ps) = WithoutEmpty(qs)
  BY DEF DropRepeatedQuestions
<1> HIDE DEF qs
<1> QED BY <1>1, <1>2, <1>3, ImageTidies

(****************************************************************************)
(* The questions of a turn.                                                 *)
(****************************************************************************)
\* No message is empty, and no two of its questions are different ones.
AsksOnce(ps) == /\ \A k \in 1..Len(ps) : ~Empty(ps[k].text)
                /\ \A p, q \in Questions(ps) : p = q

LEMMA OnlyFirstIs ==
  ASSUME NEW ps \in Seq(Parts), NEW i \in 1..Len(ps)
  PROVE  /\ OnlyFirst(ps, i) \in Parts /\ SaysWithin(OnlyFirst(ps, i), ps[i])
         /\ Len(OnlyFirst(ps, i).text.asks) <= 1
         /\ OnlyFirst(ps, i).text.asks # <<>> =>
              AskedIn(ps, i - 1) = {} /\ ps[i].text.asks # <<>>
<1> DEFINE b == ps[i].text.asks
           a == IF b = <<>> \/ AskedIn(ps, i - 1) # {} THEN <<>> ELSE <<Head(b)>>
<1>1. ps[i] \in Parts
  OBVIOUS
<1>2. b \in Seq(Queries)
  BY <1>1, PartIs
<1>3. /\ a \in Seq(Queries) /\ Len(a) <= 1 /\ (a # <<>> => AskedIn(ps, i - 1) = {} /\ b # <<>>)
      /\ ToSet(a) \subseteq ToSet(b)
  <2> HIDE DEF b
  <2>1. CASE b = <<>> \/ AskedIn(ps, i - 1) # {}
    <3>1. a = <<>> /\ <<>> \in Seq(Queries) /\ Len(<<>>) = 0
      BY <2>1
    <3>2. ToSet(<<>>) = {}
      BY SinglesHold
    <3> HIDE DEF a
    <3> QED BY <3>1, <3>2
  <2>2. CASE ~(b = <<>> \/ AskedIn(ps, i - 1) # {})
    <3>1. a = <<Head(b)>>
      BY <2>2
    <3>2. Head(b) \in Queries
      BY <1>2, <2>2, Ends
    <3>3. <<Head(b)>> \in Seq(Queries) /\ Len(<<Head(b)>>) = 1
      BY <3>2, Singles
    <3>4. Head(b) \in ToSet(b)
      BY <1>2, <2>2, EndsHeld
    <3>5. ToSet(a) \subseteq ToSet(b)
      <4> HIDE DEF a
      <4> QED BY <3>1, <3>4, SinglesHold
    <3> QED BY <2>2, <3>1, <3>3, <3>5
  <2> QED BY <2>1, <2>2
<1>4. /\ [ps[i].text EXCEPT !.asks = a] \in Texts /\ [ps[i].text EXCEPT !.asks = a].asks = a
      /\ [ps[i].text EXCEPT !.asks = a].says = ps[i].text.says
  <2> HIDE DEF a
  <2> QED BY <1>1, <1>3, PartIs, TextAsks
<1>5. OnlyFirst(ps, i) = WithText(ps[i], [ps[i].text EXCEPT !.asks = a])
  BY DEF OnlyFirst
<1>6. /\ OnlyFirst(ps, i) \in Parts /\ SaysWithin(OnlyFirst(ps, i), ps[i])
      /\ OnlyFirst(ps, i).text.asks = a
  <2> DEFINE t == [ps[i].text EXCEPT !.asks = a]
  <2>1. t \in Texts /\ t.asks = a /\ t.says = ps[i].text.says /\ OnlyFirst(ps, i) = WithText(ps[i], t)
    BY <1>4, <1>5
  <2>2. ToSet(a) \subseteq ToSet(ps[i].text.asks)
    BY <1>3
  <2> HIDE DEF a, t
  <2> QED BY <1>1, <2>1, <2>2, WithTextIs DEF SaysWithin
<1> HIDE DEF a
<1> QED BY <1>3, <1>6

LEMMA OneQuestionTidies ==
  ASSUME NEW ps \in Seq(Parts), Ordered(ps)
  PROVE  Tidies(KeepOneQuestion(ps), ps) /\ AsksOnce(KeepOneQuestion(ps))
<1> DEFINE qs == [i \in DOMAIN ps |-> OnlyFirst(ps, i)]
           keep == {i \in DOMAIN qs : ~Empty(qs[i].text)}
           es == Among(qs, keep)
<1>1. KeepOneQuestion(ps) = es
  BY DEF KeepOneQuestion, WithoutEmpty
<1>2. \A i \in 1..Len(ps) : qs[i] \in Parts /\ SaysWithin(qs[i], ps[i])
  BY OnlyFirstIs
<1>3. qs = [i \in DOMAIN ps |-> qs[i]]
  OBVIOUS
<1>4. /\ qs \in Seq(Parts) /\ Len(qs) = Len(ps) /\ Tidies(WithoutEmpty(qs), ps)
      /\ \A k \in 1..Len(WithoutEmpty(qs)) : ~Empty(WithoutEmpty(qs)[k].text)
  <2> HIDE DEF qs
  <2> QED BY <1>2, <1>3, ImageTidies
<1>5. WithoutEmpty(qs) = es
  BY DEF WithoutEmpty
<1>6. PICK at : /\ Orders(at, keep, Len(qs)) /\ Len(es) = Len(at)
                /\ \A l \in 1..Len(at) : es[l] = qs[at[l]]
  <2> HIDE DEF qs, keep
  <2> QED BY <1>4, AmongIs
<1>7. ASSUME NEW k \in 1..Len(es)
      PROVE  /\ at[k] \in 1..Len(ps) /\ es[k] = OnlyFirst(ps, at[k])
             /\ es[k].text.asks \in Seq(Queries)
             /\ Len(es[k].text.asks) <= 1
             /\ es[k].text.asks # <<>> =>
                  AskedIn(ps, at[k] - 1) = {} /\ ps[at[k]].text.asks # <<>>
  <2>1. at[k] \in 1..Len(ps) /\ es[k] = qs[at[k]]
    BY <1>4, <1>6 DEF Orders
  <2>2. qs[at[k]] = OnlyFirst(ps, at[k])
    BY <2>1
  <2> HIDE DEF es, qs
  <2> QED BY <2>1, <2>2, OnlyFirstIs, PartIs
<1>8. ASSUME NEW k \in 1..Len(es), NEW l \in 1..Len(es), k < l,
             es[k].text.asks # <<>>, es[l].text.asks # <<>>
      PROVE  FALSE
  <2>1. at[k] < at[l] /\ at[k] \in 1..Len(ps) /\ at[l] \in 1..Len(ps)
    BY <1>6, <1>7, <1>8 DEF Orders
  <2>2. at[k] \in 1..at[l] - 1
    BY <2>1
  <2>3. ps[at[k]].text.asks \in Seq(Queries) /\ ps[at[k]].text.asks # <<>>
    <3>1. ps[at[k]] \in Parts
      BY <2>1
    <3> HIDE DEF es
    <3> QED BY <1>7, <1>8, <3>1, PartIs
  <2>4. ps[at[k]].text.asks[1] \in ToSet(ps[at[k]].text.asks)
    BY <2>3, Ends DEF ToSet
  <2>5. ps[at[k]].text.asks[1] \in AskedIn(ps, at[l] - 1)
    BY <2>2, <2>4 DEF AskedIn
  <2> QED BY <1>7, <1>8, <2>5
<1>9. ASSUME NEW p \in Questions(es), NEW q \in Questions(es)
      PROVE  p = q
  <2>1. PICK k \in 1..Len(es) : \E m \in DOMAIN es[k].text.asks : p = <<k, m>>
    <3> HIDE DEF es
    <3> QED BY <1>4, <1>5 DEF Questions, Tidies
  <2>2. PICK l \in 1..Len(es) : \E m \in DOMAIN es[l].text.asks : q = <<l, m>>
    <3> HIDE DEF es
    <3> QED BY <1>4, <1>5 DEF Questions, Tidies
  <2> HIDE DEF es
  <2>3. /\ es[k].text.asks # <<>> /\ \A m \in DOMAIN es[k].text.asks : m = 1
        /\ es[l].text.asks # <<>> /\ \A m \in DOMAIN es[l].text.asks : m = 1
    BY <1>7, <2>1, <2>2
  <2>4. k = l
    <3>1. ~(k < l) /\ ~(l < k)
      BY <1>8, <2>3
    <3>2. k \in Nat /\ l \in Nat
      OBVIOUS
    <3> QED BY <3>1, <3>2
  <2> QED BY <2>1, <2>2, <2>3, <2>4
<1> HIDE DEF es, qs
<1> QED BY <1>1, <1>4, <1>5, <1>9 DEF AsksOnce

LEMMA EnsureTidies ==
  ASSUME NEW ps \in Seq(Parts), Ordered(ps), AsksOnce(ps)
  PROVE  /\ Tidies(EnsureQuestion(ps), ps) /\ AsksOnce(EnsureQuestion(ps))
         /\ EnsureQuestion(ps) # <<>> /\ stage # "paid" => Questions(EnsureQuestion(ps)) # {}
<1>1. CASE stage = "paid" \/ ps = <<>> \/ AskedIn(ps, Len(ps)) # {}
  <2>1. EnsureQuestion(ps) = ps
    BY <1>1 DEF EnsureQuestion
  <2>2. Tidies(ps, ps)
    BY DEF Tidies, SaysWithin
  <2>3. AskedIn(ps, Len(ps)) # {} => Questions(ps) # {}
    <3> SUFFICES ASSUME NEW x \in AskedIn(ps, Len(ps)) PROVE Questions(ps) # {}
      OBVIOUS
    <3>1. PICK i \in 1..Len(ps) : x \in ToSet(ps[i].text.asks)
      BY DEF AskedIn
    <3>2. PICK k \in DOMAIN ps[i].text.asks : x = ps[i].text.asks[k]
      BY <3>1 DEF ToSet
    <3>3. i \in DOMAIN ps
      OBVIOUS
    <3>4. <<i, k>> \in Questions(ps)
      BY <3>3 DEF Questions
    <3> QED BY <3>4
  <2> QED BY <1>1, <2>1, <2>2, <2>3
<1>2. CASE ~(stage = "paid" \/ ps = <<>> \/ AskedIn(ps, Len(ps)) # {})
  <2> DEFINE n == Len(ps)
             settled == Slots \cup {AskedSlot(t) : t \in History}
             open == Among(SlotQuestions, {i \in DOMAIN SlotQuestions : SlotQuestions[i] \notin settled})
             q == IF AskedSlot(Last(ps).text) = "recipient" THEN "now"
                  ELSE IF open = <<>> THEN "where" ELSE Head(open)
             t == [ps[n].text EXCEPT !.asks = <<q>>]
             es == [ps EXCEPT ![n] = [ps[n] EXCEPT !.text = t]]
  <2>1. EnsureQuestion(ps) = es
    BY <1>2 DEF EnsureQuestion
  <2>2. <<q>> \in Seq(Queries) /\ Len(<<q>>) = 1 /\ q \in Closing
    <3>1. SlotQuestions \in Seq({"city", "color", "size"})
      BY DEF SlotQuestions
    <3>2. open \in Seq({"city", "color", "size"})
      <4>1. \A keep : Among(SlotQuestions, keep) \in Seq({"city", "color", "size"})
        BY <3>1, AmongIs
      <4> HIDE DEF settled
      <4> QED BY <4>1
    <3>3. open # <<>> => Head(open) \in {"city", "color", "size"}
      <4> HIDE DEF open
      <4> QED BY <3>2, Ends
    <3>4. q \in Queries /\ q \in Closing
      <4>1. \A x \in {"city", "color", "size"} : x \in Queries /\ x \in Closing
        BY DEF Queries, Closing
      <4>2. q \in {"now", "where"} \/ (open # <<>> /\ q = Head(open))
        <5> HIDE DEF open
        <5> QED OBVIOUS
      <4>3. \A x \in {"now", "where"} : x \in Queries /\ x \in Closing
        BY DEF Queries, Closing
      <4> HIDE DEF open, q
      <4> QED BY <3>3, <4>1, <4>2, <4>3
    <3> HIDE DEF q
    <3> QED BY <3>4, Singles
  <2>3. n \in 1..Len(ps) /\ ps[n] \in Parts
    BY <1>2
  <2>4. t \in Texts /\ t.asks = <<q>> /\ t.says = ps[n].text.says
    <3> HIDE DEF q
    <3> QED BY <2>2, <2>3, PartIs, TextAsks
  <2>5. ~Empty(t)
    BY <2>2, <2>4 DEF Empty
  <2> DEFINE last == [ps[n] EXCEPT !.text = t]
  <2>6. last \in Parts /\ last.id = ps[n].id /\ last.script = ps[n].script /\ last.text = t
    <3> HIDE DEF t
    <3>1. last = WithText(ps[n], t)
      BY DEF WithText
    <3> HIDE DEF n, last
    <3> QED BY <2>3, <2>4, <3>1, WithTextIs
  <2>7. /\ es \in Seq(Parts) /\ Len(es) = Len(ps) /\ es[n] = last
        /\ \A i \in 1..Len(ps) : i # n => es[i] = ps[i]
    <3> HIDE DEF t
    <3>1. es = [ps EXCEPT ![n] = last]
      OBVIOUS
    <3> HIDE DEF last
    <3> QED BY <2>3, <2>6, <3>1
  <2> HIDE DEF es, last, t
  <2>8. \A i \in 1..Len(ps) : SaysWithin(es[i], ps[i])
    <3>1. ToSet(last.text.asks) = {q}
      <4> HIDE DEF q
      <4> QED BY <2>4, <2>6, SinglesHold
    <3> HIDE DEF q
    <3> QED BY <2>2, <2>4, <2>6, <2>7, <3>1 DEF SaysWithin
  <2>9. Tidies(es, ps)
    BY <2>7, <2>8 DEF Tidies, Ordered, SaysWithin
  <2>10. \A i \in 1..Len(ps) : DOMAIN ps[i].text.asks = {}
    <3> SUFFICES ASSUME NEW i \in 1..Len(ps), NEW k \in DOMAIN ps[i].text.asks PROVE FALSE
      OBVIOUS
    <3>1. ps[i].text.asks[k] \in AskedIn(ps, Len(ps))
      BY DEF AskedIn, ToSet
    <3> QED BY <1>2, <3>1
  <2>11. DOMAIN es[n].text.asks = {1}
    BY <2>2, <2>4, <2>6, <2>7
  <2>12. Questions(es) = {<<n, 1>>}
    <3>1. DOMAIN es = 1..Len(ps)
      BY <2>7
    <3>2. \A i \in 1..Len(ps) : i # n => DOMAIN es[i].text.asks = {}
      BY <2>7, <2>10
    <3> HIDE DEF n
    <3> QED BY <2>3, <2>11, <3>1, <3>2 DEF Questions
  <2>13. AsksOnce(es)
    <3>1. \A i \in 1..Len(es) : ~Empty(es[i].text)
      BY <2>5, <2>6, <2>7 DEF AsksOnce
    <3> QED BY <2>12, <3>1 DEF AsksOnce
  <2> QED BY <2>1, <2>9, <2>12, <2>13
<1> QED BY <1>1, <1>2

\* The tidied turn: a part of what it was, no empty message in it, one question.
LEMMA TidiedIs ==
  ASSUME NEW ps \in Seq(Parts), Ordered(ps)
  PROVE  /\ Len(Tidied(ps)) = 7 /\ Tidied(ps)[1] = ps
         /\ \A k \in 1..7 : Tidies(Tidied(ps)[k], ps)
         /\ Tidies(Tidied(ps)[7], DropDuplicateParts(DropConflictingPrices(ps)))
         /\ AsksOnce(Tidied(ps)[7])
         /\ Tidied(ps)[7] # <<>> /\ stage # "paid" => Questions(Tidied(ps)[7]) # {}
<1> DEFINE a == DropConflictingPrices(ps)
           b == DropDuplicateParts(a)
           c == DropRepeatedOffers(b)
           d == DropRepeatedQuestions(c)
           e == KeepOneQuestion(d)
           f == EnsureQuestion(e)
<1>1. Tidied(ps) = <<ps, a, b, c, d, e, f>>
  BY DEF Tidied
<1>2. Tidies(ps, ps)
  BY DEF Tidies, SaysWithin
<1> HIDE DEF a, b, c, d, e, f
<1>3. Tidies(a, ps)
  BY PricesTidy DEF a
<1>4. Tidies(b, ps)
  <2>1. Tidies(b, a)
    BY <1>3, DuplicatesTidy DEF b, Tidies
  <2> QED BY <1>3, <2>1, TidiesOn
<1>5. Tidies(c, ps) /\ Tidies(c, b)
  <2>1. Tidies(c, b)
    BY <1>4, OffersTidy DEF c, Tidies
  <2> QED BY <1>4, <2>1, TidiesOn
<1>6. Tidies(d, ps) /\ Tidies(d, b)
  <2>1. Tidies(d, c)
    BY <1>5, RepeatsTidy DEF d, Tidies
  <2> QED BY <1>5, <2>1, TidiesOn
<1>7. Tidies(e, ps) /\ Tidies(e, b) /\ AsksOnce(e)
  <2>1. Tidies(e, d) /\ AsksOnce(e)
    BY <1>6, OneQuestionTidies DEF e, Tidies
  <2> QED BY <1>6, <2>1, TidiesOn
<1>8. /\ Tidies(f, ps) /\ Tidies(f, b) /\ AsksOnce(f)
      /\ f # <<>> /\ stage # "paid" => Questions(f) # {}
  <2>1. e \in Seq(Parts) /\ Ordered(e)
    BY <1>7 DEF Tidies
  <2>2. Tidies(f, e) /\ AsksOnce(f) /\ (f # <<>> /\ stage # "paid" => Questions(f) # {})
    BY <1>7, <2>1, EnsureTidies DEF f
  <2> QED BY <1>7, <2>2, TidiesOn
<1>9. /\ Len(Tidied(ps)) = 7 /\ Tidied(ps)[1] = ps /\ Tidied(ps)[2] = a /\ Tidied(ps)[3] = b
      /\ Tidied(ps)[4] = c /\ Tidied(ps)[5] = d /\ Tidied(ps)[6] = e /\ Tidied(ps)[7] = f
  BY <1>1
<1>10. \A k \in 1..7 : Tidies(Tidied(ps)[k], ps)
  <2>1. \A k \in 1..7 : k = 1 \/ k = 2 \/ k = 3 \/ k = 4 \/ k = 5 \/ k = 6 \/ k = 7
    OBVIOUS
  <2> QED BY <1>2, <1>3, <1>4, <1>5, <1>6, <1>7, <1>8, <1>9, <2>1
<1> QED BY <1>8, <1>9, <1>10 DEF a, b

\* Some numbers up to n have a greatest.
LEMMA Greatest ==
  ASSUME NEW n \in Nat, NEW S, S \subseteq 1..n, S # {}
  PROVE  \E m \in S : \A x \in S : x <= m
<1> DEFINE s == [i \in 1..n |-> i]
<1>1. s \in Seq(Nat) /\ Len(s) = n
  OBVIOUS
<1>2. PICK at : Orders(at, S, n)
  <2> HIDE DEF s
  <2> QED BY <1>1, AmongIs
<1>3. PICK x \in S : TRUE
  OBVIOUS
<1>4. at \in Seq(Nat) /\ Len(at) \in 1..Len(at)
  BY <1>2, <1>3 DEF Orders
<1>5. \A y \in S : y <= at[Len(at)]
  <2> SUFFICES ASSUME NEW y \in S PROVE y <= at[Len(at)]
    OBVIOUS
  <2>1. PICK k \in 1..Len(at) : at[k] = y
    BY <1>2 DEF Orders
  <2>2. k < Len(at) => at[k] < at[Len(at)]
    BY <1>2, <1>4 DEF Orders
  <2>3. k < Len(at) \/ k = Len(at)
    BY <1>4
  <2>4. at[k] \in Nat /\ at[Len(at)] \in Nat
    BY <1>4
  <2> QED BY <2>1, <2>2, <2>3, <2>4
<1> QED BY <1>2, <1>4, <1>5 DEF Orders

\* The text a row keeps is the one its message had last.
LEMMA TextOfIs ==
  ASSUME NEW tidied \in Seq(Seq(Parts)), NEW id, Len(tidied) >= 1, id \in IdsOf(tidied[1])
  PROVE  TextOf(tidied, id) \in Texts
<1> DEFINE Holds(s) == \E i \in DOMAIN s : s[i].id = id
           S == {k \in 1..Len(tidied) : Holds(tidied[k])}
           last == CHOOSE k \in DOMAIN tidied : /\ Holds(tidied[k])
                                                /\ \A m \in k + 1..Len(tidied) : ~Holds(tidied[m])
           at == CHOOSE i \in DOMAIN tidied[last] : tidied[last][i].id = id
<1>1. Holds(tidied[1])
  BY DEF IdsOf, ToSet
<1>2. PICK k \in S : \A x \in S : x <= k
  <2>1. 1 \in S /\ S \subseteq 1..Len(tidied) /\ Len(tidied) \in Nat
    BY <1>1
  <2> HIDE DEF S
  <2> QED BY <2>1, Greatest
<1>3. k \in DOMAIN tidied /\ Holds(tidied[k]) /\ \A m \in k + 1..Len(tidied) : ~Holds(tidied[m])
  <2> SUFFICES ASSUME NEW m \in k + 1..Len(tidied), Holds(tidied[m]) PROVE FALSE
    OBVIOUS
  <2>1. m \in S
    OBVIOUS
  <2> QED BY <1>2, <2>1
<1>4. last \in DOMAIN tidied /\ Holds(tidied[last])
  <2> HIDE DEF Holds
  <2> QED BY <1>3
<1>5. at \in DOMAIN tidied[last]
  <2> HIDE DEF last
  <2> QED BY <1>4
<1>6. tidied[last][at] \in Parts
  <2> HIDE DEF last, at
  <2>1. tidied[last] \in Seq(Parts)
    BY <1>4
  <2> QED BY <1>5, <2>1
<1>7. TextOf(tidied, id) = tidied[last][at].text
  BY DEF TextOf
<1> HIDE DEF last, at
<1> QED BY <1>6, <1>7, PartIs

(****************************************************************************)
(* The invariant.                                                           *)
(****************************************************************************)
RowsInv == \A i \in 1..Len(rows) : /\ rows[i].by = "client" => ~rows[i].failed
                                   /\ rows[i].by = "us" => rows[i].kind = None

\* A run is for a text among the messages it knows; whatever was told, it knows.
RunInv == /\ pc # "idle" => /\ msg \in 1..known /\ rows[msg].by = "client"
                            /\ \A i \in 1..Len(rows) : rows[i].told => i <= known
          /\ pc = "greet" => Greets
          /\ pc \in {"ask", "judge", "compose", "save"} => ~Greets
          /\ pc \in {"greet", "ask", "judge"} => ~paused

\* Until they are stored the messages of a turn are numbered by the drafts, and
\* then by the rows of this very run.
PartsInv == /\ pc \notin {"chain", "save", "send"} => parts = <<>> /\ drafts = <<>>
            /\ Ordered(parts)
            /\ pc \in {"chain", "save"} => \A i \in 1..Len(parts) : parts[i].id \in 1..Len(drafts)
            /\ pc = "send" =>
                 \A i \in 1..Len(parts) :
                   /\ parts[i].id \in known + 1..Len(rows)
                   /\ rows[parts[i].id].by = "us" /\ ~rows[parts[i].id].failed

\* A greeting begins with the greeting.
GreetInv == /\ pc = "chain" /\ Greets =>
                 /\ parts # <<>> /\ parts[1].id = 1 /\ parts[1].script = "greet"
                 /\ \A i \in 1..Len(parts) : ~Empty(parts[i].text)
            /\ pc = "send" /\ Greets => parts # <<>> /\ rows[parts[1].id].script = "greet"

\* A reply goes on without a person only if no topic waits for one.
TopicsInv == pc \in {"compose", "chain", "save", "send"} /\ ~Greets /\ ~paused => Topics = {}

Inv == TypeOK /\ RowsInv /\ RunInv /\ PartsInv /\ GreetInv /\ TopicsInv
       /\ OneQuestion /\ TopicIsHeard

(****************************************************************************)
(* What a run knows, and what it concludes from it, stays while it lasts.   *)
(****************************************************************************)
LEMMA SameKnown ==
  ASSUME NEW S, rows \in Seq(S), rows' \in Seq(S), known \in 0..Len(rows), known' = known,
         Len(rows') >= known, \A i \in 1..known : rows'[i] = rows[i]
  PROVE  Known' = Known
<1>1. Known \in Seq(S) /\ Len(Known) = known /\ \A i \in 1..known : Known[i] = rows[i]
  BY DEF Known
<1>2. Known' \in Seq(S) /\ Len(Known') = known /\ \A i \in 1..known : Known'[i] = rows'[i]
  BY DEF Known
<1>3. DOMAIN Known = 1..known /\ DOMAIN Known' = 1..known
  BY <1>1, <1>2
<1>4. Known = [i \in 1..known |-> Known[i]] /\ Known' = [i \in 1..known |-> Known'[i]]
  BY <1>1, <1>2, <1>3
<1>5. \A i \in 1..known : Known'[i] = Known[i]
  BY <1>1, <1>2
<1> HIDE DEF Known
<1> QED BY <1>4, <1>5

LEMMA SameTopics ==
  ASSUME Known' = Known, msg' = msg, rows'[msg] = rows[msg]
  PROVE  Topics' = Topics /\ Greets' = Greets
<1>1. Local' = Local
  BY DEF Local
<1>2. Talk' = Talk
  BY <1>1 DEF Talk
<1>3. Unanswered' = Unanswered
  BY <1>2 DEF Unanswered
<1>4. Topics' = Topics
  BY <1>2, <1>3 DEF Topics
<1>5. Greets' = Greets
  BY DEF Greets
<1> QED BY <1>4, <1>5

LEMMA SameRows ==
  ASSUME UNCHANGED <<rows, known, msg>>
  PROVE  Known' = Known /\ Topics' = Topics /\ Greets' = Greets
<1>1. Known' = Known
  BY DEF Known
<1> QED BY <1>1, SameTopics

(****************************************************************************)
(* The beginning of a run.                                                  *)
(****************************************************************************)
LEMMA NoOutputIs == NoOutput \in Outputs /\ NoChain \in Chains
<1>1. Blank \in Texts
  BY DEF Blank, Texts
<1>2. NoOutput \in Outputs
  BY <1>1 DEF NoOutput, Outputs, Sides, None
<1>3. NoChain \in Chains
  BY DEF NoChain, Chains
<1> QED BY <1>2, <1>3

LEMMA InitKeeps == Init => Inv
<1> SUFFICES ASSUME Init PROVE Inv
  OBVIOUS
<1>1. PICK s \in Starts : rows = s.past /\ panel = s.panel
  BY DEF Init
<1>2. /\ rows \in Seq(Rows) /\ panel \in Panels
      /\ \A i \in DOMAIN rows : /\ rows[i].by = "us" /\ rows[i].kind = None
                                /\ ~(rows[i].failed /\ rows[i].told)
  BY <1>1, Constants DEF Constants
<1>3. /\ paused = FALSE /\ status = None /\ lastScript = None
      /\ pc = "idle" /\ msg = 0 /\ known = 0 /\ try = 1 /\ out = NoOutput
      /\ parts = <<>> /\ drafts = <<>> /\ chain = NoChain /\ quoted \in BOOLEAN
  BY DEF Init
<1>4. TypeOK
  <2>1. msg \in 0..Len(rows) /\ known \in 0..Len(rows)
    BY <1>2, <1>3
  <2>2. parts \in Seq(Parts) /\ drafts \in Seq(Texts) /\ status \in Sides
    BY <1>3 DEF Sides
  <2>3. paused \in BOOLEAN /\ quoted \in BOOLEAN /\ try \in {1, 2} /\ out \in Outputs /\ chain \in Chains
    BY <1>3, NoOutputIs
  <2> QED BY <1>2, <1>3, <2>1, <2>2, <2>3 DEF TypeOK
<1>5. RowsInv /\ RunInv
  BY <1>2, <1>3 DEF RowsInv, RunInv
<1>6. PartsInv /\ GreetInv /\ TopicsInv /\ OneQuestion
  BY <1>3 DEF PartsInv, GreetInv, TopicsInv, OneQuestion, InReply, Ordered
<1>7. TopicIsHeard
  BY <1>2 DEF TopicIsHeard, CuratorTrigger, None
<1> QED BY <1>4, <1>5, <1>6, <1>7 DEF Inv

\* Nothing the client hears changes while a dialog stays with a person or not.
LEMMA HeardStill ==
  ASSUME TopicIsHeard, UNCHANGED rows, paused => paused'
  PROVE  TopicIsHeard'
BY DEF TopicIsHeard, ByGreeting

LEMMA WriteKeeps ==
  ASSUME Inv, NEW k \in Kinds, Write(k)
  PROVE  Inv'
<1> DEFINE new == Row("client", k, Blank, FALSE, None)
<1>1. /\ pc \in {"idle", "ask"} /\ rows' = Append(rows, new)
      /\ UNCHANGED <<paused, status, quoted, lastScript, panel, pc, msg, known, try, stage, out,
                     parts, drafts, chain>>
  BY DEF Write, runVars
<1>2. rows \in Seq(Rows) /\ known \in 0..Len(rows) /\ msg \in 0..Len(rows)
  BY DEF Inv, TypeOK
<1>3. new \in Rows /\ ~new.told /\ ~new.failed /\ new.by = "client"
  <2>1. Blank \in Texts
    BY DEF Blank, Texts
  <2> QED BY <2>1 DEF Row, Rows, None
<1> HIDE DEF new
<1>4. /\ rows' \in Seq(Rows) /\ Len(rows') = Len(rows) + 1 /\ rows'[Len(rows) + 1] = new
      /\ \A i \in 1..Len(rows) : rows'[i] = rows[i]
  BY <1>1, <1>2, <1>3
<1>5. Known' = Known
  BY <1>1, <1>2, <1>4, SameKnown
<1>6. pc = "ask" => Greets' = Greets
  <2>1. pc = "ask" => msg \in 1..Len(rows)
    BY <1>2 DEF Inv, RunInv
  <2> QED BY <1>1, <1>4, <1>5, <2>1, SameTopics
<1>7. TypeOK'
  BY <1>1, <1>2, <1>3, <1>4 DEF Inv, TypeOK
<1>8. RowsInv' /\ RunInv'
  BY <1>1, <1>2, <1>3, <1>4, <1>6 DEF Inv, RowsInv, RunInv
<1>9. PartsInv' /\ GreetInv' /\ TopicsInv' /\ OneQuestion'
  BY <1>1 DEF Inv, PartsInv, GreetInv, TopicsInv, OneQuestion, InReply, Ordered
<1>10. TopicIsHeard'
  <2> SUFFICES ASSUME NEW i \in 1..Len(rows'), NEW j \in 1..Len(rows'), i < j,
                      CuratorTrigger(rows'[i].kind), rows'[j].told, ~paused'
               PROVE  \E m \in i..j : /\ rows'[m].by = "us" /\ ~rows'[m].failed
                                      /\ ~rows'[m].told \/ ByGreeting(rows'[m])
    BY <1>4 DEF TopicIsHeard, ByGreeting
  <2>1. j \in 1..Len(rows) /\ i \in 1..Len(rows)
    BY <1>2, <1>3, <1>4
  <2>2. PICK m \in i..j : /\ rows[m].by = "us" /\ ~rows[m].failed
                          /\ ~rows[m].told \/ ByGreeting(rows[m])
    BY <1>1, <1>2, <1>4, <2>1 DEF Inv, TopicIsHeard
  <2>3. m \in 1..Len(rows)
    BY <1>2, <2>1
  <2> QED BY <1>4, <2>2, <2>3 DEF ByGreeting
<1> QED BY <1>7, <1>8, <1>9, <1>10 DEF Inv

LEMMA BeginKeeps ==
  ASSUME Inv, NEW s \in Stages, Begin(s)
  PROVE  Inv'
<1>1. /\ pc = "idle" /\ ~paused /\ known' = Len(rows) /\ msg' \in ClientRows
      /\ pc' = IF HasOutgoing(rows) THEN "ask" ELSE "greet"
      /\ try' = 1 /\ out' = NoOutput /\ parts' = <<>> /\ drafts' = <<>> /\ chain' = NoChain
      /\ UNCHANGED <<rows, paused, status, quoted, lastScript, panel>>
  BY DEF Begin, dialogVars
<1>2. rows \in Seq(Rows)
  BY DEF Inv, TypeOK
<1>3. msg' \in 1..Len(rows) /\ rows[msg'].by = "client"
  BY <1>1, <1>2 DEF ClientRows
<1>4. Known' = rows
  BY <1>1, <1>2 DEF Known
<1>5. Greets' <=> ~HasOutgoing(rows)
  BY <1>4 DEF Greets
<1>6. TypeOK'
  <2>1. out' \in Outputs /\ chain' \in Chains /\ parts' \in Seq(Parts) /\ drafts' \in Seq(Texts)
    BY <1>1, NoOutputIs
  <2>2. msg' \in 0..Len(rows) /\ known' \in 0..Len(rows)
    BY <1>1, <1>2, <1>3
  <2>3. pc' \in {"ask", "greet"}
    BY <1>1
  <2> QED BY <1>1, <2>1, <2>2, <2>3 DEF Inv, TypeOK
<1>7. RowsInv'
  BY <1>1 DEF Inv, RowsInv
<1>8. RunInv'
  <2>1. msg' \in 1..known' /\ rows'[msg'].by = "client" /\ \A i \in 1..Len(rows') : i <= known'
    BY <1>1, <1>2, <1>3
  <2>2. pc' = "ask" => ~Greets'
    BY <1>1, <1>5
  <2>3. pc' = "greet" => Greets'
    BY <1>1, <1>5
  <2>4. pc' \in {"ask", "greet"}
    BY <1>1
  <2> HIDE DEF Greets
  <2> QED BY <1>1, <2>1, <2>2, <2>3, <2>4 DEF RunInv
<1>9. PartsInv' /\ GreetInv' /\ TopicsInv' /\ OneQuestion'
  <2>1. pc' \in {"ask", "greet"}
    BY <1>1
  <2> QED BY <1>1, <2>1 DEF PartsInv, GreetInv, TopicsInv, OneQuestion, InReply, Ordered
<1>10. TopicIsHeard'
  BY <1>1, HeardStill DEF Inv
<1> QED BY <1>6, <1>7, <1>8, <1>9, <1>10 DEF Inv

\* A run ends: what is left of it concerns nobody.
Ended == /\ pc' = "idle" /\ known' = 0 /\ try' = 1 /\ out' = NoOutput /\ msg' = msg
         /\ parts' = <<>> /\ drafts' = <<>> /\ chain' = NoChain
         /\ UNCHANGED <<paused, status, quoted, lastScript, panel>>

LEMMA EndKeeps ==
  ASSUME Inv, Ended, rows' \in Seq(Rows), Len(rows') = Len(rows), RowsInv', TopicIsHeard',
         \A i \in 1..Len(rows') : ~(rows'[i].failed /\ rows'[i].told)
  PROVE  Inv'
<1>1. TypeOK'
  <2>1. out' \in Outputs /\ chain' \in Chains /\ parts' \in Seq(Parts) /\ drafts' \in Seq(Texts)
    BY NoOutputIs DEF Ended
  <2>2. msg' \in 0..Len(rows') /\ known' \in 0..Len(rows')
    BY DEF Inv, TypeOK, Ended
  <2>3. DOMAIN rows' = 1..Len(rows')
    OBVIOUS
  <2> QED BY <2>1, <2>2, <2>3 DEF Inv, TypeOK, Ended
<1>2. RunInv' /\ PartsInv' /\ GreetInv' /\ TopicsInv' /\ OneQuestion'
  BY DEF Ended, RunInv, PartsInv, GreetInv, TopicsInv, OneQuestion, InReply, Ordered
<1> QED BY <1>1, <1>2 DEF Inv

LEMMA EndsQuietly ==
  ASSUME Inv, EndRun, UNCHANGED <<dialogVars, panel, msg>>
  PROVE  Inv'
<1>1. Ended /\ rows' = rows /\ paused' = paused
  BY DEF EndRun, Ended, dialogVars
<1>2. TopicIsHeard'
  BY <1>1, HeardStill DEF Inv
<1>3. RowsInv'
  BY <1>1 DEF Inv, RowsInv
<1>4. rows' \in Seq(Rows) /\ \A i \in 1..Len(rows') : ~(rows'[i].failed /\ rows'[i].told)
  BY <1>1 DEF Inv, TypeOK
<1> QED BY <1>1, <1>2, <1>3, <1>4, EndKeeps

\* Steps of a run that leave the messages of the dialog alone.
StepInside ==
  /\ pc # "idle" /\ pc' # "idle"
  /\ pc' # "greet" /\ (pc' \in {"ask", "judge", "compose"} => pc \in {"ask", "judge", "compose"})
  /\ UNCHANGED <<rows, msg, known>> /\ (paused => paused')
  /\ (pc' \in {"ask", "judge"} => ~paused')

LEMMA InsideKeeps ==
  ASSUME Inv, StepInside
  PROVE  /\ RowsInv' /\ TopicIsHeard' /\ Known' = Known /\ Topics' = Topics /\ Greets' = Greets
         /\ (pc' = "save" => ~Greets) => RunInv'
<1>1. RowsInv' /\ TopicIsHeard' /\ Known' = Known /\ Topics' = Topics /\ Greets' = Greets
  BY SameRows, HeardStill DEF StepInside, Inv, RowsInv
<1>2. ASSUME pc' = "save" => ~Greets
      PROVE  RunInv'
  BY <1>1, <1>2 DEF Inv, RunInv, StepInside
<1> QED BY <1>1, <1>2

(****************************************************************************)
(* The messages a run puts together.                                        *)
(****************************************************************************)
\* Messages numbered by the drafts of the run.
Numbered(ps, ds) == /\ ps \in Seq(Parts) /\ ds \in Seq(Texts) /\ Ordered(ps)
                    /\ \A i \in 1..Len(ps) : ps[i].id \in 1..Len(ds)

LEMMA PartAdded ==
  ASSUME Numbered(parts, drafts), NEW t \in Texts, NEW s \in Scripts \cup {None}, AddPart(t, s)
  PROVE  /\ Numbered(parts, drafts)' /\ Len(parts') = Len(parts) + 1
         /\ \A i \in 1..Len(parts) : parts'[i] = parts[i]
         /\ parts'[Len(parts) + 1] = [text |-> t, script |-> s, id |-> Len(drafts) + 1]
<1> DEFINE p == [text |-> t, script |-> s, id |-> Len(drafts) + 1]
<1>1. /\ parts \in Seq(Parts) /\ drafts \in Seq(Texts)
      /\ parts' = Append(parts, p) /\ drafts' = Append(drafts, t)
  BY DEF AddPart, Numbered
<1>2. p \in Parts /\ p.id = Len(drafts) + 1
  BY <1>1 DEF Parts
<1>3. /\ parts' \in Seq(Parts) /\ Len(parts') = Len(parts) + 1 /\ parts'[Len(parts) + 1] = p
      /\ \A i \in 1..Len(parts) : parts'[i] = parts[i]
  <2> HIDE DEF p
  <2> QED BY <1>1, <1>2
<1>4. drafts' \in Seq(Texts) /\ Len(drafts') = Len(drafts) + 1
  BY <1>1
<1> HIDE DEF p
<1>5. \A i \in 1..Len(parts') : i = Len(parts) + 1 \/ i \in 1..Len(parts)
  BY <1>1, <1>3
<1>6. \A i \in 1..Len(parts) : parts[i].id \in 1..Len(drafts)
  BY DEF Numbered
<1>7. \A i \in 1..Len(parts') : parts'[i].id \in 1..Len(drafts')
  <2> SUFFICES ASSUME NEW i \in 1..Len(parts') PROVE parts'[i].id \in 1..Len(drafts')
    OBVIOUS
  <2>1. CASE i = Len(parts) + 1
    BY <1>1, <1>2, <1>3, <1>4, <2>1
  <2>2. CASE i \in 1..Len(parts)
    BY <1>1, <1>3, <1>4, <1>6, <2>2
  <2> QED BY <1>5, <2>1, <2>2
<1>8. Ordered(parts')
  <2> SUFFICES ASSUME NEW i \in 1..Len(parts'), NEW k \in 1..Len(parts'), i < k
               PROVE  parts'[i].id < parts'[k].id
    BY DEF Ordered
  <2>1. i \in 1..Len(parts)
    BY <1>1, <1>3
  <2>2. parts'[i].id = parts[i].id /\ parts[i].id \in 1..Len(drafts)
    BY <1>3, <1>6, <2>1
  <2>3. CASE k = Len(parts) + 1
    BY <1>1, <1>2, <1>3, <2>2, <2>3
  <2>4. CASE k \in 1..Len(parts)
    BY <1>3, <2>1, <2>2, <2>4 DEF Numbered, Ordered
  <2> QED BY <1>5, <2>3, <2>4
<1> QED BY <1>3, <1>4, <1>7, <1>8 DEF Numbered, p

LEMMA PhraseIs ==
  ASSUME NEW s \in Scripts
  PROVE  Phrase[s] \in Texts /\ ~Empty(Phrase[s]) /\ s # None
BY Constants DEF Constants

LEMMA GreetKeeps ==
  ASSUME Inv, Greet
  PROVE  Inv'
<1>1. /\ pc = "greet" /\ pc' = "chain" /\ AddPart(Phrase["greet"], "greet")
      /\ out' = [NoOutput EXCEPT !.script = "greet", !.curator = SilentTrigger(Said)]
      /\ chain' = [NoChain EXCEPT !.at = "greet"]
      /\ paused' = CuratorTrigger(Said)
      /\ status' = IF CuratorTrigger(Said) THEN "curator" ELSE status
      /\ lastScript' = "greet"
      /\ UNCHANGED <<rows, quoted, panel, msg, known, try, stage>>
  BY DEF Greet, StoreRun, None
<1>2. "greet" \in Scripts
  BY Constants DEF Constants
<1>3. ~paused /\ parts = <<>> /\ drafts = <<>>
  BY <1>1 DEF Inv, RunInv, PartsInv
<1>4. /\ RowsInv' /\ TopicIsHeard' /\ Known' = Known /\ Topics' = Topics /\ Greets' = Greets /\ RunInv'
  <2>1. StepInside
    BY <1>1, <1>3 DEF StepInside
  <2>2. pc' = "chain"
    BY <1>1
  <2> QED BY <2>1, <2>2, InsideKeeps
<1>5. /\ Numbered(parts', drafts') /\ Len(parts') = 1
      /\ parts'[1] = [text |-> Phrase["greet"], script |-> "greet", id |-> 1]
  <2>1. Numbered(parts, drafts) /\ Len(parts) = 0 /\ Len(drafts) = 0
    BY <1>3 DEF Numbered, Ordered
  <2> QED BY <1>1, <1>2, <2>1, PhraseIs, PartAdded
<1>6. TypeOK'
  <2>1. SilentTrigger(Said) \in BOOLEAN /\ CuratorTrigger(Said) \in BOOLEAN
    BY DEF SilentTrigger, CuratorTrigger
  <2>2. out' \in Outputs
    BY <1>1, <1>2, <2>1, NoOutputIs DEF Outputs
  <2>3. status' \in Sides
    BY <1>1 DEF Inv, TypeOK, Sides
  <2>4. paused' \in BOOLEAN /\ lastScript' \in Scripts \cup {None} /\ pc' = "chain"
    BY <1>1, <1>2, <2>1
  <2>5. chain' \in Chains
    BY <1>1, <1>2 DEF NoChain, Chains
  <2> QED BY <1>1, <1>5, <2>2, <2>3, <2>4, <2>5 DEF Inv, TypeOK, Numbered
<1>7. PartsInv'
  BY <1>1, <1>5 DEF PartsInv, Numbered
<1>8. GreetInv'
  <2>1. parts' # <<>> /\ \A i \in 1..Len(parts') : i = 1
    BY <1>5
  <2> QED BY <1>1, <1>2, <1>5, <2>1, PhraseIs DEF GreetInv
<1>9. TopicsInv' /\ OneQuestion'
  <2>1. Greets'
    BY <1>1, <1>4 DEF Inv, RunInv
  <2> QED BY <1>1, <2>1 DEF TopicsInv, OneQuestion, InReply
<1> QED BY <1>4, <1>6, <1>7, <1>8, <1>9 DEF Inv

LEMMA AskKeeps ==
  ASSUME Inv, NEW r \in Replies, Ask(r)
  PROVE  Inv'
<1>1. /\ pc = "ask" /\ pc' = "judge" /\ out' = r
      /\ UNCHANGED <<rows, paused, status, quoted, lastScript, panel, msg, known, try, stage,
                     parts, drafts, chain>>
  BY DEF Ask, dialogVars
<1>2. RowsInv' /\ TopicIsHeard' /\ RunInv'
  <2>1. StepInside /\ pc' # "save"
    BY <1>1 DEF StepInside, Inv, RunInv
  <2> QED BY <2>1, InsideKeeps
<1>3. TypeOK'
  <2>1. r \in Outputs
    BY Constants DEF Constants
  <2> QED BY <1>1, <2>1 DEF Inv, TypeOK
<1>4. PartsInv' /\ GreetInv' /\ TopicsInv' /\ OneQuestion'
  BY <1>1 DEF Inv, PartsInv, GreetInv, TopicsInv, OneQuestion, InReply, Ordered
<1> QED BY <1>2, <1>3, <1>4 DEF Inv

LEMMA RetryKeeps ==
  ASSUME Inv, Retry
  PROVE  Inv'
<1>1. /\ pc = "judge" /\ pc' = "ask" /\ out' = NoOutput /\ try' = 2
      /\ UNCHANGED <<rows, paused, status, quoted, lastScript, panel, msg, known, stage,
                     parts, drafts, chain>>
  BY DEF Retry, dialogVars
<1>2. RowsInv' /\ TopicIsHeard' /\ RunInv'
  <2>1. StepInside /\ pc' # "save"
    BY <1>1 DEF StepInside, Inv, RunInv
  <2> QED BY <2>1, InsideKeeps
<1>3. TypeOK'
  BY <1>1, NoOutputIs DEF Inv, TypeOK
<1>4. PartsInv' /\ GreetInv' /\ TopicsInv' /\ OneQuestion'
  BY <1>1 DEF Inv, PartsInv, GreetInv, TopicsInv, OneQuestion, InReply, Ordered
<1> QED BY <1>2, <1>3, <1>4 DEF Inv

\* A topic gives the dialog to a person, whatever else is wrong with the reply.
LEMMA SettleKeeps ==
  ASSUME Inv, Settle
  PROVE  Inv'
<1> DEFINE calls == NeedsPerson(out) /\ out.side # "blacklist"
           gives == HoldsReply \/ Released \/ (calls /\ out.side = None)
<1>1. /\ pc = "judge" /\ pc' = "compose" /\ try' = 1
      /\ out' = [out EXCEPT
                   !.script = IF IgnoresRefusal(out) THEN None ELSE @,
                   !.curator = HoldsReply \/ (calls /\ ~Released),
                   !.side = IF HoldsReply \/ Released \/ (calls /\ @ = None) THEN "curator" ELSE @]
      /\ paused' = (out'.curator \/ Released)
      /\ status' = IF out'.side = None THEN status ELSE out'.side
      /\ lastScript' = IF out'.script = None THEN lastScript ELSE out'.script
      /\ UNCHANGED <<rows, quoted, panel, msg, known, stage, parts, drafts, chain>>
  BY DEF Settle, StoreRun
<1>2. out \in Outputs
  BY DEF Inv, TypeOK
<1>3. /\ out'.script \in {out.script, None}
      /\ out'.curator = (HoldsReply \/ (calls /\ ~Released))
      /\ out'.side \in {"curator", out.side}
      /\ out' \in Outputs
  <2>1. (HoldsReply \/ (calls /\ ~Released)) \in BOOLEAN
    OBVIOUS
  <2> HIDE DEF calls
  <2> QED BY <1>1, <1>2, <2>1 DEF Outputs, Sides
<1>4. ~paused
  BY <1>1 DEF Inv, RunInv
<1>5. ~paused' => Topics = {}
  <2> HIDE DEF calls
  <2>1. ~paused' => ~HoldsReply /\ ~Released
    BY <1>1, <1>3
  <2> QED BY <2>1 DEF Released
<1>6. /\ RowsInv' /\ TopicIsHeard' /\ RunInv' /\ Topics' = Topics
  <2>1. StepInside /\ pc' # "save"
    BY <1>1, <1>4 DEF StepInside, Inv, RunInv
  <2> QED BY <2>1, InsideKeeps
<1>7. TypeOK'
  <2>1. paused' \in BOOLEAN
    <3>1. (out'.curator \/ Released) \in BOOLEAN
      OBVIOUS
    <3> QED BY <1>1, <3>1
  <2>2. status' \in Sides
    BY <1>1, <1>3 DEF Inv, TypeOK, Outputs
  <2>3. lastScript' \in Scripts \cup {None}
    BY <1>1, <1>3 DEF Inv, TypeOK, Outputs
  <2> QED BY <1>1, <1>3, <2>1, <2>2, <2>3 DEF Inv, TypeOK
<1>8. PartsInv' /\ GreetInv' /\ OneQuestion'
  BY <1>1 DEF Inv, PartsInv, GreetInv, OneQuestion, InReply, Ordered
<1>9. TopicsInv'
  BY <1>5, <1>6 DEF TopicsInv
<1> QED BY <1>6, <1>7, <1>8, <1>9 DEF Inv

LEMMA PanelIs ==
  ASSUME Inv
  PROVE  /\ panel.active \subseteq Scripts
         /\ \A s \in Scripts : panel.follow[s] \in Scripts \cup {None} /\ Variant(s) \in Scripts
BY Constants DEF Inv, TypeOK, Panels, Constants, Variant

LEMMA SubstituteIs ==
  ASSUME Inv
  PROVE  Substitute \in Scripts \cup {None}
<1>1. Prices => "price" \in Scripts /\ Variant("price") \in Scripts
  BY PanelIs DEF Prices
<1>2. Praises => "praise" \in Scripts
  BY PanelIs DEF Praises
<1>3. Reviews => "review" \in Scripts
  BY PanelIs DEF Reviews
<1>4. ChecksOut => "checkout" \in Scripts
  BY PanelIs DEF ChecksOut
<1> QED BY <1>1, <1>2, <1>3, <1>4 DEF Substitute

\* The statements of a text given are among those that were to be sent.
LEMMA OwnTextIs ==
  ASSUME NEW t \in Texts, NEW s \in Scripts \cup {None}
  PROVE  WithoutGreeting(CarriedOver(t, s)) \in Texts
<1> DEFINE u == CarriedOver(t, s)
           rest == [u EXCEPT !.says = @ \ {"hello"}]
<1>1. u \in Texts
  <2> DEFINE b == t.pics \/ (s # None /\ Phrase[s].pics)
  <2>1. b \in BOOLEAN
    OBVIOUS
  <2>2. u = [t EXCEPT !.pics = b]
    BY DEF CarriedOver
  <2> HIDE DEF b, u
  <2> QED BY <2>1, <2>2 DEF Texts
<1>2. rest \in Texts
  <2> HIDE DEF u
  <2> QED BY <1>1 DEF Texts
<1>3. WithoutGreeting(u) \in {u, rest}
  BY DEF WithoutGreeting
<1> HIDE DEF rest, u
<1>4. WithoutGreeting(u) \in Texts
  BY <1>1, <1>2, <1>3
<1> QED BY <1>4 DEF u

LEMMA ComposeKeeps ==
  ASSUME Inv, Compose
  PROVE  Inv'
<1> DEFINE script == IF Substitute = None THEN out.script ELSE Substitute
           text == IF Substitute = None THEN WithoutGreeting(CarriedOver(out.text, script))
                   ELSE Phrase[Substitute]
<1>1. /\ pc = "compose" /\ pc' = "chain" /\ AddPart(text, None)
      /\ out' = [out EXCEPT !.text = text, !.script = script]
      /\ chain' = [NoChain EXCEPT !.at = IF AwaitsClientAnswer(text) THEN None ELSE script]
      /\ UNCHANGED <<rows, paused, status, quoted, lastScript, panel, msg, known, try, stage>>
  BY DEF Compose, dialogVars
<1>2. out \in Outputs /\ out.text \in Texts /\ out.script \in Scripts \cup {None}
  BY DEF Inv, TypeOK, Outputs
<1>3. script \in Scripts \cup {None}
  BY <1>2, SubstituteIs
<1>4. text \in Texts
  <2>1. CASE Substitute = None
    <3>1. text = WithoutGreeting(CarriedOver(out.text, script))
      BY <2>1
    <3> HIDE DEF script, text
    <3> QED BY <1>2, <1>3, <3>1, OwnTextIs
  <2>2. CASE Substitute # None
    BY <2>2, SubstituteIs, PhraseIs
  <2> QED BY <2>1, <2>2
<1>5. PICK t, s : /\ t \in Texts /\ s \in Scripts \cup {None} /\ AddPart(t, None)
                  /\ out' = [out EXCEPT !.text = t, !.script = s]
                  /\ chain' = [NoChain EXCEPT !.at = IF AwaitsClientAnswer(t) THEN None ELSE s]
  <2> HIDE DEF text, script
  <2> QED BY <1>1, <1>3, <1>4
<1> HIDE DEF text, script
<1>6. parts = <<>> /\ drafts = <<>> /\ ~Greets
  BY <1>1 DEF Inv, PartsInv, RunInv
<1>7. Numbered(parts', drafts')
  <2>1. Numbered(parts, drafts)
    BY <1>6 DEF Numbered, Ordered
  <2> QED BY <1>5, <2>1, PartAdded
<1>8. RowsInv' /\ TopicIsHeard' /\ RunInv' /\ Topics' = Topics /\ Greets' = Greets
  <2>1. StepInside /\ pc' # "save"
    BY <1>1 DEF StepInside
  <2> QED BY <2>1, InsideKeeps
<1>9. TypeOK'
  <2>1. out' \in Outputs /\ chain' \in Chains
    BY <1>2, <1>5 DEF Outputs, NoChain, Chains
  <2> QED BY <1>1, <1>7, <2>1 DEF Inv, TypeOK, Numbered
<1>10. PartsInv' /\ GreetInv' /\ OneQuestion' /\ TopicsInv'
  BY <1>1, <1>6, <1>7, <1>8 DEF Inv, PartsInv, GreetInv, TopicsInv, OneQuestion, InReply, Numbered
<1> QED BY <1>8, <1>9, <1>10 DEF Inv

LEMMA LinkKeeps ==
  ASSUME Inv, Link
  PROVE  Inv'
<1>1. /\ pc = "chain" /\ pc' = "chain" /\ chain.at # None /\ chain.at \in Scripts
      /\ UNCHANGED <<rows, paused, status, quoted, lastScript, panel, msg, known, try, stage, out>>
  BY DEF Link, dialogVars, ChainEnds, Inv, TypeOK, Chains
<1> DEFINE next == panel.follow[chain.at]
           sent == IF next = None THEN None ELSE Variant(next)
           on == IF sent # None /\ panel.follow[sent] # None THEN sent ELSE next
<1>2. /\ next \in Scripts \cup {None} /\ (next # None => sent \in Scripts)
      /\ on \in Scripts \cup {None}
  BY <1>1, PanelIs
<1>3. \/ chain' = [chain EXCEPT !.at = None] /\ UNCHANGED <<parts, drafts>>
      \/ /\ chain' = [chain EXCEPT !.seen = @ \cup {chain.at}, !.at = on]
         /\ UNCHANGED <<parts, drafts>>
      \/ /\ next # None /\ AddPart(Phrase[sent], sent)
         /\ chain' = [chain EXCEPT !.seen = @ \cup {chain.at}, !.at = on, !.got = @ + 1]
  BY DEF Link
<1> HIDE DEF on, sent, next
<1>4. chain' \in Chains
  <2>1. chain \in Chains
    BY DEF Inv, TypeOK
  <2>2. CASE chain' = [chain EXCEPT !.at = None]
    BY <2>1, <2>2 DEF Chains
  <2>3. CASE chain' = [chain EXCEPT !.seen = @ \cup {chain.at}, !.at = on]
    BY <1>1, <1>2, <2>1, <2>3 DEF Chains
  <2>4. CASE chain' = [chain EXCEPT !.seen = @ \cup {chain.at}, !.at = on, !.got = @ + 1]
    <3>1. chain.got + 1 \in Nat /\ chain.seen \cup {chain.at} \in SUBSET Scripts
      BY <1>1, <2>1 DEF Chains
    <3>2. PICK g \in Nat, s \in SUBSET Scripts : chain' = [chain EXCEPT !.seen = s, !.at = on, !.got = g]
      BY <2>4, <3>1
    <3> QED BY <1>2, <2>1, <3>2 DEF Chains
  <2> QED BY <1>3, <2>2, <2>3, <2>4
<1>5. Numbered(parts, drafts)
  BY <1>1 DEF Inv, TypeOK, PartsInv, Numbered
<1>6. /\ Numbered(parts', drafts') /\ Len(parts) <= Len(parts')
      /\ \A i \in 1..Len(parts) : parts'[i] = parts[i]
      /\ (\A i \in 1..Len(parts) : ~Empty(parts[i].text)) =>
           \A i \in 1..Len(parts') : ~Empty(parts'[i].text)
  <2>1. CASE UNCHANGED <<parts, drafts>>
    <3>1. parts' = parts /\ drafts' = drafts /\ Len(parts) \in Nat
      BY <1>5, <2>1 DEF Numbered
    <3> QED BY <1>5, <3>1
  <2>2. CASE next # None /\ AddPart(Phrase[sent], sent)
    <3>1. /\ Numbered(parts', drafts') /\ Len(parts') = Len(parts) + 1
          /\ \A i \in 1..Len(parts) : parts'[i] = parts[i]
          /\ parts'[Len(parts) + 1] = [text |-> Phrase[sent], script |-> sent, id |-> Len(drafts) + 1]
          /\ ~Empty(Phrase[sent])
      BY <1>2, <1>5, <2>2, PhraseIs, PartAdded
    <3>2. Len(parts) \in Nat
      BY <1>5 DEF Numbered
    <3>3. \A i \in 1..Len(parts') : i \in 1..Len(parts) \/ i = Len(parts) + 1
      BY <3>1, <3>2
    <3>4. ~Empty(parts'[Len(parts) + 1].text)
      BY <3>1
    <3> QED BY <3>1, <3>2, <3>3, <3>4
  <2> QED BY <1>3, <2>1, <2>2
<1>7. RowsInv' /\ TopicIsHeard' /\ RunInv' /\ Topics' = Topics /\ Greets' = Greets
  <2>1. StepInside /\ pc' # "save"
    BY <1>1 DEF StepInside
  <2> QED BY <2>1, InsideKeeps
<1>8. TypeOK'
  BY <1>1, <1>4, <1>6 DEF Inv, TypeOK, Numbered
<1>9. GreetInv'
  <2>1. CASE Greets
    <3>1. /\ parts # <<>> /\ parts[1].id = 1 /\ parts[1].script = "greet"
          /\ \A i \in 1..Len(parts) : ~Empty(parts[i].text)
      BY <1>1, <2>1 DEF Inv, GreetInv
    <3>2. 1 \in 1..Len(parts) /\ parts' # <<>>
      BY <1>5, <1>6, <3>1 DEF Numbered
    <3> QED BY <1>1, <1>6, <3>1, <3>2 DEF GreetInv
  <2>2. CASE ~Greets
    BY <1>1, <1>7, <2>2 DEF GreetInv
  <2> QED BY <2>1, <2>2
<1>10. PartsInv' /\ OneQuestion' /\ TopicsInv'
  BY <1>1, <1>6, <1>7 DEF Inv, PartsInv, TopicsInv, OneQuestion, InReply, Numbered
<1> QED BY <1>7, <1>8, <1>9, <1>10 DEF Inv

LEMMA ForceChainKeeps ==
  ASSUME Inv, ForceChain
  PROVE  Inv'
<1>1. /\ pc = "chain" /\ pc' = "chain" /\ Entry \in panel.active
      /\ chain' = [NoChain EXCEPT !.at = Entry, !.forced = TRUE]
      /\ UNCHANGED <<rows, paused, status, quoted, lastScript, panel, msg, known, try, stage, out,
                     parts, drafts>>
  BY DEF ForceChain, CanForce, dialogVars
<1>2. chain' \in Chains
  BY <1>1, PanelIs DEF NoChain, Chains
<1>3. RowsInv' /\ TopicIsHeard' /\ RunInv' /\ Topics' = Topics /\ Greets' = Greets
  <2>1. StepInside /\ pc' # "save"
    BY <1>1 DEF StepInside
  <2> QED BY <2>1, InsideKeeps
<1>4. TypeOK'
  BY <1>1, <1>2 DEF Inv, TypeOK
<1>5. PartsInv' /\ GreetInv' /\ OneQuestion' /\ TopicsInv'
  BY <1>1, <1>3 DEF Inv, PartsInv, GreetInv, TopicsInv, OneQuestion, InReply, Ordered
<1> QED BY <1>3, <1>4, <1>5 DEF Inv

\* What is put after a sequence comes after it.
LEMMA Joined ==
  ASSUME NEW S, NEW s \in Seq(S), NEW t \in Seq(S), NEW q, q = s \o t
  PROVE  /\ q \in Seq(S) /\ Len(q) = Len(s) + Len(t)
         /\ \A i \in 1..Len(s) : q[i] = s[i]
         /\ \A i \in 1..Len(t) : q[Len(s) + i] = t[i]
OBVIOUS

\* Messages of forced scripts at the end of a turn, numbered by their drafts.
PartsOf(f, n) == [i \in DOMAIN f |-> [text |-> Phrase[f[i]], script |-> f[i], id |-> n + i]]
TextsOf(f) == [i \in DOMAIN f |-> Phrase[f[i]]]

LEMMA PartsOfIs ==
  ASSUME NEW f \in Seq(Scripts), NEW n \in Nat
  PROVE  /\ PartsOf(f, n) \in Seq(Parts) /\ Len(PartsOf(f, n)) = Len(f)
         /\ \A i \in 1..Len(f) : /\ PartsOf(f, n)[i].id = n + i
                                 /\ PartsOf(f, n)[i].text = Phrase[f[i]]
                                 /\ PartsOf(f, n)[i].script = f[i]
<1> DEFINE a == PartsOf(f, n)
<1>1. Len(f) \in Nat /\ DOMAIN f = 1..Len(f) /\ \A i \in 1..Len(f) : f[i] \in Scripts
  OBVIOUS
<1>2. \A i \in 1..Len(f) : /\ a[i] \in Parts /\ a[i].id = n + i
                           /\ a[i].text = Phrase[f[i]] /\ a[i].script = f[i]
  <2> SUFFICES ASSUME NEW i \in 1..Len(f)
               PROVE  /\ a[i] \in Parts /\ a[i].id = n + i
                      /\ a[i].text = Phrase[f[i]] /\ a[i].script = f[i]
    OBVIOUS
  <2>1. a[i] = [text |-> Phrase[f[i]], script |-> f[i], id |-> n + i]
    BY <1>1 DEF PartsOf
  <2>2. Phrase[f[i]] \in Texts /\ f[i] \in Scripts /\ n + i \in Nat
    BY <1>1, PhraseIs
  <2> QED BY <2>1, <2>2 DEF Parts
<1>3. a \in [1..Len(f) -> Parts]
  BY <1>1, <1>2 DEF PartsOf
<1> HIDE DEF a
<1>4. a \in Seq(Parts) /\ Len(a) = Len(f)
  BY <1>1, <1>3
<1> QED BY <1>2, <1>4 DEF a

LEMMA ForcedAdded ==
  ASSUME NEW ps, NEW ds, Numbered(ps, ds), NEW f \in Seq(Scripts)
  PROVE  Numbered(ps \o PartsOf(f, Len(ds)), ds \o TextsOf(f))
<1> DEFINE n == Len(ds)
           a == PartsOf(f, n)
           b == TextsOf(f)
<1>1. /\ ps \in Seq(Parts) /\ ds \in Seq(Texts) /\ n \in Nat /\ Len(ps) \in Nat /\ Len(f) \in Nat
      /\ DOMAIN f = 1..Len(f) /\ \A i \in 1..Len(f) : f[i] \in Scripts
      /\ \A i \in 1..Len(ps) : ps[i].id \in 1..n
      /\ \A i, k \in 1..Len(ps) : i < k => ps[i].id < ps[k].id
  BY DEF Numbered, Ordered
<1>2. \A i \in 1..Len(f) : a[i].id = n + i
  BY <1>1, PartsOfIs
<1>3. a \in Seq(Parts) /\ Len(a) = Len(f)
  BY <1>1, PartsOfIs
<1>4. b \in Seq(Texts) /\ Len(b) = Len(f)
  <2>1. b \in [1..Len(f) -> Texts]
    BY <1>1, PhraseIs DEF TextsOf
  <2> HIDE DEF b
  <2> QED BY <1>1, <2>1
<1> HIDE DEF a, b
<1> DEFINE qs == ps \o a
           es == ds \o b
<1>5. /\ qs \in Seq(Parts) /\ Len(qs) = Len(ps) + Len(f)
      /\ \A i \in 1..Len(ps) : qs[i] = ps[i]
      /\ \A i \in Len(ps) + 1..Len(qs) : qs[i] = a[i - Len(ps)] /\ i - Len(ps) \in 1..Len(f)
  <2>1. /\ qs \in Seq(Parts) /\ Len(qs) = Len(ps) + Len(f)
        /\ \A i \in 1..Len(ps) : qs[i] = ps[i]
        /\ \A i \in 1..Len(f) : qs[Len(ps) + i] = a[i]
    <3>1. qs = ps \o a
      OBVIOUS
    <3> HIDE DEF qs
    <3>2. qs \in Seq(Parts) /\ Len(qs) = Len(ps) + Len(a)
      <4>1. ps \in Seq(Parts) /\ a \in Seq(Parts)
        BY <1>1, <1>3
      <4>2. qs \in Seq(Parts)
        BY <3>1, <4>1
      <4>3. Len(qs) = Len(ps) + Len(a)
        BY <3>1, <4>1
      <4> QED BY <4>2, <4>3
    <3>3. \A i \in 1..Len(ps) : qs[i] = ps[i]
      BY <1>1, <1>3, <3>1, Joined
    <3>4. \A i \in 1..Len(a) : qs[Len(ps) + i] = a[i]
      BY <1>1, <1>3, <3>1, Joined
    <3> QED BY <1>3, <3>2, <3>3, <3>4
  <2>2. ASSUME NEW i \in Len(ps) + 1..Len(qs)
        PROVE  qs[i] = a[i - Len(ps)] /\ i - Len(ps) \in 1..Len(f)
    <3> DEFINE k == i - Len(ps)
    <3>1. k \in 1..Len(f) /\ i = Len(ps) + k
      BY <1>1, <2>1
    <3> HIDE DEF qs, k
    <3>2. qs[i] = a[k]
      BY <2>1, <3>1
    <3> QED BY <3>1, <3>2 DEF k
  <2> QED BY <2>1, <2>2
<1>6. es \in Seq(Texts) /\ Len(es) = n + Len(f)
  BY <1>1, <1>4
<1> HIDE DEF qs, es
<1>7. \A i \in 1..Len(qs) : \/ i \in 1..Len(ps) /\ qs[i].id = ps[i].id /\ qs[i].id \in 1..n
                            \/ i \in Len(ps) + 1..Len(qs) /\ qs[i].id = n + (i - Len(ps))
  <2> SUFFICES ASSUME NEW i \in 1..Len(qs)
               PROVE \/ i \in 1..Len(ps) /\ qs[i].id = ps[i].id /\ qs[i].id \in 1..n
                     \/ i \in Len(ps) + 1..Len(qs) /\ qs[i].id = n + (i - Len(ps))
    OBVIOUS
  <2>1. CASE i \in 1..Len(ps)
    BY <1>1, <1>5, <2>1
  <2>2. CASE i \in Len(ps) + 1..Len(qs)
    BY <1>2, <1>5, <2>2
  <2> QED BY <1>1, <1>5, <2>1, <2>2
<1>8. \A i \in 1..Len(qs) : qs[i].id \in 1..Len(es)
  BY <1>1, <1>5, <1>6, <1>7
<1>9. Ordered(qs)
  <2> SUFFICES ASSUME NEW i \in 1..Len(qs), NEW k \in 1..Len(qs), i < k
               PROVE  qs[i].id < qs[k].id
    BY DEF Ordered
  <2>1. CASE k \in 1..Len(ps)
    <3>1. i \in 1..Len(ps)
      BY <1>1, <2>1
    <3> QED BY <1>1, <1>5, <2>1, <3>1
  <2>2. CASE k \in Len(ps) + 1..Len(qs) /\ qs[k].id = n + (k - Len(ps))
    <3>1. CASE i \in 1..Len(ps) /\ qs[i].id \in 1..n
      BY <1>1, <2>2, <3>1
    <3>2. CASE i \in Len(ps) + 1..Len(qs) /\ qs[i].id = n + (i - Len(ps))
      BY <1>1, <2>2, <3>2
    <3> QED BY <1>7, <3>1, <3>2
  <2> QED BY <1>7, <2>1, <2>2
<1>10. Numbered(qs, es)
  BY <1>5, <1>6, <1>8, <1>9 DEF Numbered
<1> QED BY <1>10 DEF qs, es, a, b

LEMMA TailNumbered ==
  ASSUME NEW ps, NEW ds, Numbered(ps, ds), ps # <<>>
  PROVE  Numbered(Tail(ps), ds)
<1>1. /\ ps \in Seq(Parts) /\ Len(ps) \in Nat \ {0} /\ Tail(ps) \in Seq(Parts)
      /\ Len(Tail(ps)) = Len(ps) - 1 /\ \A i \in 1..Len(Tail(ps)) : Tail(ps)[i] = ps[i + 1]
  BY DEF Numbered
<1>2. \A i \in 1..Len(Tail(ps)) : i + 1 \in 1..Len(ps)
  BY <1>1
<1> DEFINE qs == Tail(ps)
<1>3. \A i \in 1..Len(qs) : qs[i].id \in 1..Len(ds)
  BY <1>1, <1>2 DEF Numbered
<1>4. Ordered(qs)
  <2> SUFFICES ASSUME NEW i \in 1..Len(qs), NEW k \in 1..Len(qs), i < k
               PROVE  qs[i].id < qs[k].id
    BY DEF Ordered
  <2>1. i + 1 \in 1..Len(ps) /\ k + 1 \in 1..Len(ps) /\ i + 1 < k + 1
    BY <1>2
  <2>2. ps[i + 1].id < ps[k + 1].id
    BY <2>1 DEF Numbered, Ordered
  <2> QED BY <1>1, <2>2
<1> QED BY <1>1, <1>3, <1>4 DEF Numbered

\* What the code adds to a turn: its messages, but perhaps the first, and then
\* those of forced scripts, the bill and the request for the recipient.
Extended(kept, forced) ==
  /\ kept = parts \/ (kept = Tail(parts) /\ parts # <<>>)
  /\ forced \in Seq(Scripts)
  /\ \A i \in 1..Len(forced) : \/ forced[i] = "link"
                               \/ forced[i] = "contacts" /\ ~Held /\ ~HoldsTurn
  /\ parts' = kept \o PartsOf(forced, Len(drafts)) /\ drafts' = drafts \o TextsOf(forced)
Handed(gives) ==
  /\ out' = IF gives THEN [out EXCEPT !.curator = FALSE] ELSE out
  /\ paused' = (paused \/ gives)
  /\ status' = IF gives THEN "curator" ELSE status

LEMMA ExtendIs ==
  ASSUME Inv, Extend
  PROVE  /\ pc = "chain" /\ pc' = "save" /\ ~Greets /\ chain' = NoChain
         /\ UNCHANGED <<rows, quoted, lastScript, panel, msg, known, try, stage>>
         /\ \E kept, forced : Extended(kept, forced)
         /\ \E gives \in BOOLEAN : Handed(gives)
<1> DEFINE unsaid == /\ AskedInstead /\ Len(parts) > 1 /\ "praise" \in panel.active
                     /\ IsPraiseOnly(out)
           kept == IF unsaid THEN Tail(parts) ELSE parts
           contacts == /\ PaymentChoicePoint /\ Len(kept) = 1 /\ ~HoldsTurn
                       /\ AskedSlot(out.text) # "recipient" /\ "recipient" \notin Slots
                       /\ "contacts" \in panel.active
           told == History \cup {p.text : p \in ToSet(kept)}
           bill == /\ \/ stage = "payment_link"
                      \/ "recipient" \in Slots /\ CheckoutShown(told)
                   /\ ~PaymentLinkSent(told)
           first == IF contacts THEN <<"contacts">> ELSE <<>>
           second == IF bill /\ panel.billing /\ "link" \in panel.active THEN <<"link">> ELSE <<>>
           forced == first \o second
           gives == bill /\ ~panel.billing
<1>1. /\ pc = "chain" /\ pc' = "save" /\ ~Greets /\ chain' = NoChain
      /\ parts' = kept \o PartsOf(forced, Len(drafts)) /\ drafts' = drafts \o TextsOf(forced)
      /\ out' = IF gives THEN [out EXCEPT !.curator = FALSE] ELSE out
      /\ paused' = (paused \/ gives)
      /\ status' = IF gives THEN "curator" ELSE status
      /\ UNCHANGED <<rows, quoted, lastScript, panel, msg, known, try, stage>>
  BY DEF Extend, PartsOf, TextsOf
<1>2. forced \in Seq(Scripts)
  <2>1. first \in Seq(Scripts)
    <3>1. contacts => "contacts" \in Scripts
      BY PanelIs
    <3> HIDE DEF contacts
    <3> QED BY <3>1, Singles
  <2>2. second \in Seq(Scripts)
    <3>1. "link" \in panel.active => "link" \in Scripts
      BY PanelIs
    <3> HIDE DEF bill
    <3> QED BY <3>1, Singles
  <2> HIDE DEF first, second
  <2> QED BY <2>1, <2>2
<1>3. kept = parts \/ (kept = Tail(parts) /\ parts # <<>>)
  <2>1. parts \in Seq(Parts)
    BY DEF Inv, TypeOK
  <2>2. unsaid => parts # <<>>
    BY <2>1
  <2> HIDE DEF unsaid
  <2> QED BY <2>2
<1>7. \A i \in 1..Len(forced) : \/ forced[i] = "link"
                                \/ forced[i] = "contacts" /\ ~Held /\ ~HoldsTurn
  <2>1. contacts => ~Held /\ ~HoldsTurn
    BY DEF PaymentChoicePoint
  <2>2. first = <<>> \/ (first = <<"contacts">> /\ ~Held /\ ~HoldsTurn)
    <3> HIDE DEF contacts
    <3> QED BY <2>1
  <2>3. second = <<>> \/ second = <<"link">>
    <3> HIDE DEF bill
    <3> QED OBVIOUS
  <2> HIDE DEF first, second
  <2> QED BY <2>2, <2>3
<1> HIDE DEF forced, kept
<1>4. Extended(kept, forced)
  BY <1>1, <1>2, <1>3, <1>7 DEF Extended
<1>5. gives \in BOOLEAN
  OBVIOUS
<1> HIDE DEF gives
<1>6. Handed(gives)
  BY <1>1 DEF Handed
<1> QED BY <1>1, <1>4, <1>5, <1>6

\* A message of the extended turn: one of the turn, the bill, or the request for
\* the recipient.
KeptOrForced(p) ==
  \/ \E k \in 1..Len(parts) : p = parts[k]
  \/ p.script = "link"
  \/ p.script = "contacts" /\ ~Held /\ ~HoldsTurn

LEMMA ExtendedParts ==
  ASSUME Inv, Extend
  PROVE  \A i \in 1..Len(parts') : KeptOrForced(parts'[i])
<1>1. PICK kept, forced :
        /\ kept \in {parts, Tail(parts)} /\ (kept # parts => parts # <<>>)
        /\ forced \in Seq(Scripts) /\ parts' = kept \o PartsOf(forced, Len(drafts))
        /\ \A i \in 1..Len(forced) : \/ forced[i] = "link"
                                     \/ forced[i] = "contacts" /\ ~Held /\ ~HoldsTurn
  BY ExtendIs DEF Extended
<1>2. /\ parts \in Seq(Parts) /\ Len(drafts) \in Nat /\ Len(forced) \in Nat
      /\ \A i \in 1..Len(forced) : forced[i] \in Scripts
  BY <1>1 DEF Inv, TypeOK
<1>3. kept \in Seq(Parts) /\ \A i \in 1..Len(kept) : \E k \in 1..Len(parts) : kept[i] = parts[k]
  <2>1. CASE kept = parts
    BY <1>2, <2>1
  <2>2. CASE kept # parts
    <3>1. kept = Tail(parts) /\ parts # <<>>
      BY <1>1, <2>2
    <3>2. /\ Tail(parts) \in Seq(Parts) /\ Len(Tail(parts)) = Len(parts) - 1 /\ Len(parts) \in Nat
          /\ \A i \in 1..Len(Tail(parts)) : Tail(parts)[i] = parts[i + 1]
      BY <1>2, <3>1
    <3>3. \A i \in 1..Len(Tail(parts)) : i + 1 \in 1..Len(parts)
      BY <3>2
    <3> QED BY <3>1, <3>2, <3>3
  <2> QED BY <2>1, <2>2
<1> DEFINE more == PartsOf(forced, Len(drafts))
<1>4. /\ more \in Seq(Parts) /\ Len(more) = Len(forced)
      /\ \A i \in 1..Len(forced) : more[i].text = Phrase[forced[i]] /\ more[i].script = forced[i]
  BY <1>1, <1>2, PartsOfIs
<1>5. parts' = kept \o more
  BY <1>1
<1> HIDE DEF more
<1>6. \A i \in 1..Len(more) : KeptOrForced(more[i])
  BY <1>1, <1>2, <1>4 DEF KeptOrForced
<1>7. \A i \in 1..Len(kept) : KeptOrForced(kept[i])
  BY <1>3 DEF KeptOrForced
<1>8. /\ Len(parts') = Len(kept) + Len(more)
      /\ \A i \in 1..Len(kept) : parts'[i] = kept[i]
      /\ \A i \in 1..Len(more) : parts'[Len(kept) + i] = more[i]
  <2>1. kept \in Seq(Parts) /\ more \in Seq(Parts)
    BY <1>3, <1>4
  <2> QED BY <1>5, <2>1, Joined
<1> SUFFICES ASSUME NEW i \in 1..Len(parts') PROVE KeptOrForced(parts'[i])
  OBVIOUS
<1>9. Len(kept) \in Nat /\ Len(more) \in Nat
  BY <1>3, <1>4
<1>10. CASE i \in 1..Len(kept)
  BY <1>7, <1>8, <1>10
<1>11. CASE i \notin 1..Len(kept)
  <2> DEFINE k == i - Len(kept)
  <2>1. k \in 1..Len(more) /\ i = Len(kept) + k
    BY <1>8, <1>9, <1>11
  <2> HIDE DEF k
  <2> QED BY <1>6, <1>8, <2>1
<1> QED BY <1>10, <1>11

LEMMA ExtendKeeps ==
  ASSUME Inv, Extend
  PROVE  Inv'
<1>1. /\ pc = "chain" /\ pc' = "save" /\ ~Greets /\ chain' = NoChain
      /\ UNCHANGED <<rows, quoted, lastScript, panel, msg, known, try, stage>>
  BY ExtendIs
<1>2. PICK kept, forced : Extended(kept, forced)
  BY ExtendIs
<1>3. Numbered(kept, drafts)
  <2>1. Numbered(parts, drafts)
    BY <1>1 DEF Inv, TypeOK, PartsInv, Numbered
  <2> QED BY <1>2, <2>1, TailNumbered DEF Extended
<1>4. Numbered(parts', drafts')
  BY <1>2, <1>3, ForcedAdded DEF Extended
<1>5. PICK gives \in BOOLEAN : Handed(gives)
  BY ExtendIs
<1>6. RowsInv' /\ TopicIsHeard' /\ RunInv' /\ Topics' = Topics /\ Greets' = Greets
  <2>1. StepInside
    BY <1>1, <1>5 DEF StepInside, Handed
  <2> QED BY <1>1, <2>1, InsideKeeps
<1>7. TypeOK'
  <2>1. out' \in Outputs
    BY <1>5 DEF Inv, TypeOK, Outputs, Handed
  <2>2. status' \in Sides /\ paused' \in BOOLEAN /\ chain' \in Chains
    BY <1>1, <1>5, NoOutputIs DEF Inv, TypeOK, Sides, Handed
  <2> QED BY <1>1, <1>4, <2>1, <2>2 DEF Inv, TypeOK, Numbered
<1>8. PartsInv' /\ GreetInv' /\ OneQuestion' /\ TopicsInv'
  BY <1>1, <1>4, <1>5, <1>6 DEF Handed, Inv, PartsInv, GreetInv, OneQuestion, InReply, TopicsInv, Numbered
<1> QED BY <1>6, <1>7, <1>8 DEF Inv

(****************************************************************************)
(* The turn is stored.                                                      *)
(****************************************************************************)
\* The row of the id-th text of the run.
StoredAs(tidied, id) ==
  IF id \notin IdsOf(parts) THEN Row("us", None, drafts[id], TRUE, None)
  ELSE Row("us", None, TextOf(tidied, id), FALSE, (CHOOSE p \in ToSet(parts) : p.id = id).script)

TidiedTurn == IF Greets THEN <<parts>> ELSE Tidied(parts)

Shifted(ps, n) == [i \in DOMAIN ps |-> [ps[i] EXCEPT !.id = n + @]]

LEMMA TurnIs ==
  ASSUME Inv, Numbered(parts, drafts), Greets => pc = "chain"
  PROVE  /\ TidiedTurn \in Seq(Seq(Parts)) /\ Len(TidiedTurn) >= 1 /\ TidiedTurn[1] = parts
         /\ Tidies(Last(TidiedTurn), parts)
         /\ \A k \in 1..Len(Last(TidiedTurn)) : ~Empty(Last(TidiedTurn)[k].text)
         /\ Greets => Last(TidiedTurn) = parts
         /\ ~Greets => /\ Tidies(Last(TidiedTurn), DropDuplicateParts(DropConflictingPrices(parts)))
                       /\ AsksOnce(Last(TidiedTurn))
                       /\ Last(TidiedTurn) # <<>> /\ stage # "paid" => Questions(Last(TidiedTurn)) # {}
<1>1. parts \in Seq(Parts) /\ Ordered(parts)
  BY DEF Numbered
<1>2. CASE Greets
  <2>1. TidiedTurn = <<parts>>
    BY <1>2 DEF TidiedTurn
  <2>2. <<parts>> \in Seq(Seq(Parts)) /\ Len(<<parts>>) = 1 /\ <<parts>>[1] = parts
    BY <1>1, Singles
  <2>3. Last(TidiedTurn) = parts
    BY <2>1, <2>2 DEF Last
  <2>4. Tidies(parts, parts)
    BY <1>1 DEF Tidies, SaysWithin
  <2>5. \A k \in 1..Len(parts) : ~Empty(parts[k].text)
    BY <1>2 DEF Inv, GreetInv
  <2> QED BY <1>2, <2>1, <2>2, <2>3, <2>4, <2>5
<1>3. CASE ~Greets
  <2>1. TidiedTurn = Tidied(parts)
    BY <1>3 DEF TidiedTurn
  <2> DEFINE t == Tidied(parts)
  <2>2. /\ Len(t) = 7 /\ t[1] = parts /\ \A k \in 1..7 : Tidies(t[k], parts)
        /\ Tidies(t[7], DropDuplicateParts(DropConflictingPrices(parts)))
        /\ AsksOnce(t[7]) /\ (t[7] # <<>> /\ stage # "paid" => Questions(t[7]) # {})
    BY <1>1, TidiedIs
  <2>3. t \in Seq(Seq(Parts))
    <3>1. \A k \in 1..7 : t[k] \in Seq(Parts)
      BY <2>2 DEF Tidies
    <3>2. \E a, b, c, d, e, f, g : t = <<a, b, c, d, e, f, g>>
      BY DEF Tidied
    <3> HIDE DEF t
    <3> QED BY <3>1, <3>2
  <2> HIDE DEF t
  <2>4. Last(t) = t[7]
    BY <2>2, <2>3 DEF Last
  <2>5. TidiedTurn = t
    BY <2>1 DEF t
  <2>6. 7 \in 1..7 /\ Len(t) >= 1
    BY <2>2
  <2> QED BY <1>3, <2>2, <2>3, <2>4, <2>5, <2>6 DEF AsksOnce
<1> QED BY <1>2, <1>3

LEMMA StoredIs ==
  ASSUME Numbered(parts, drafts), NEW tidied \in Seq(Seq(Parts)), Len(tidied) >= 1,
         tidied[1] = parts, NEW id \in 1..Len(drafts)
  PROVE  /\ StoredAs(tidied, id) \in Rows /\ StoredAs(tidied, id).by = "us"
         /\ StoredAs(tidied, id).kind = None /\ ~StoredAs(tidied, id).told
         /\ \A i \in 1..Len(parts) : parts[i].id = id =>
              /\ ~StoredAs(tidied, id).failed
              /\ StoredAs(tidied, id).script = parts[i].script
<1> DEFINE r == StoredAs(tidied, id)
<1>1. parts \in Seq(Parts) /\ drafts \in Seq(Texts) /\ Ordered(parts)
  BY DEF Numbered
<1>2. \A p : p \in ToSet(parts) <=> \E i \in 1..Len(parts) : p = parts[i]
  BY <1>1 DEF ToSet
<1>3. id \in IdsOf(parts) <=> \E i \in 1..Len(parts) : parts[i].id = id
  BY <1>2 DEF IdsOf
<1>4. CASE id \notin IdsOf(parts)
  <2>1. r = Row("us", None, drafts[id], TRUE, None)
    BY <1>4 DEF StoredAs
  <2>2. drafts[id] \in Texts
    BY <1>1
  <2> QED BY <1>3, <1>4, <2>1, <2>2 DEF Row, Rows
<1>5. CASE id \in IdsOf(parts)
  <2> DEFINE p == CHOOSE x \in ToSet(parts) : x.id = id
             t == TextOf(tidied, id)
  <2>1. r = Row("us", None, t, FALSE, p.script)
    BY <1>5 DEF StoredAs
  <2>2. t \in Texts
    BY <1>5, TextOfIs
  <2>3. p \in ToSet(parts) /\ p.id = id
    <3>1. \E x \in ToSet(parts) : x.id = id
      BY <1>2, <1>3, <1>5
    <3> QED BY <3>1
  <2> HIDE DEF p, t
  <2>4. PICK k \in 1..Len(parts) : p = parts[k]
    BY <1>2, <2>3
  <2>5. \A i \in 1..Len(parts) : parts[i].id = id => parts[i] = p
    <3> SUFFICES ASSUME NEW i \in 1..Len(parts), parts[i].id = id PROVE i = k
      BY <2>4
    <3>1. parts[k].id = id /\ id \in Nat
      BY <1>1, <2>3, <2>4
    <3>2. ~(i < k) /\ ~(k < i)
      BY <1>1, <3>1 DEF Ordered
    <3> QED BY <1>1, <3>2
  <2>6. p \in Parts
    BY <1>1, <2>4
  <2>7. p.script \in Scripts \cup {None}
    BY <2>6, PartIs
  <2> QED BY <2>1, <2>2, <2>5, <2>7 DEF Row, Rows
<1> QED BY <1>4, <1>5

LEMMA ShiftedIs ==
  ASSUME NEW ps \in Seq(Parts), Ordered(ps), NEW n \in Nat
  PROVE  /\ Shifted(ps, n) \in Seq(Parts) /\ Len(Shifted(ps, n)) = Len(ps)
         /\ \A i \in 1..Len(ps) : /\ Shifted(ps, n)[i].id = n + ps[i].id
                                  /\ Shifted(ps, n)[i].text = ps[i].text
                                  /\ Shifted(ps, n)[i].script = ps[i].script
         /\ Ordered(Shifted(ps, n)) /\ Questions(Shifted(ps, n)) = Questions(ps)
<1> DEFINE qs == Shifted(ps, n)
<1>1. Len(ps) \in Nat /\ DOMAIN ps = 1..Len(ps) /\ \A i \in 1..Len(ps) : ps[i] \in Parts
  OBVIOUS
<1>2. \A i \in 1..Len(ps) : /\ qs[i] \in Parts /\ qs[i].id = n + ps[i].id
                            /\ qs[i].text = ps[i].text /\ qs[i].script = ps[i].script
  <2> SUFFICES ASSUME NEW i \in 1..Len(ps)
               PROVE  /\ qs[i] \in Parts /\ qs[i].id = n + ps[i].id
                      /\ qs[i].text = ps[i].text /\ qs[i].script = ps[i].script
    OBVIOUS
  <2>1. PICK m \in Nat : m = n + ps[i].id
    BY <1>1, PartIs
  <2>2. qs[i] = [ps[i] EXCEPT !.id = m]
    BY <1>1, <2>1 DEF Shifted
  <2> HIDE DEF qs
  <2> QED BY <1>1, <2>1, <2>2 DEF Parts
<1>3. qs \in Seq(Parts) /\ Len(qs) = Len(ps)
  <2>1. qs \in [1..Len(ps) -> Parts]
    BY <1>1, <1>2 DEF Shifted
  <2> HIDE DEF qs
  <2> QED BY <1>1, <2>1
<1> HIDE DEF qs
<1>4. Ordered(qs)
  <2> SUFFICES ASSUME NEW i \in 1..Len(ps), NEW k \in 1..Len(ps), i < k
               PROVE  qs[i].id < qs[k].id
    BY <1>3 DEF Ordered
  <2>1. ps[i].id < ps[k].id /\ ps[i].id \in Nat /\ ps[k].id \in Nat
    BY <1>1, PartIs DEF Ordered
  <2> QED BY <1>2, <2>1
<1>5. Questions(qs) = Questions(ps)
  <2>1. DOMAIN qs = 1..Len(ps) /\ DOMAIN ps = 1..Len(ps)
    BY <1>1, <1>3
  <2>2. \A i \in 1..Len(ps) : {<<i, k>> : k \in DOMAIN qs[i].text.asks}
                              = {<<i, k>> : k \in DOMAIN ps[i].text.asks}
    BY <1>2
  <2> QED BY <2>1, <2>2 DEF Questions
<1> QED BY <1>2, <1>3, <1>4, <1>5 DEF qs

\* The rows of the run's texts, and the messages that are left of the turn.
StoredRows == [id \in DOMAIN drafts |-> StoredAs(TidiedTurn, id)]
Final == Last(TidiedTurn)

LEMMA SaveIs ==
  ASSUME Inv, Save
  PROVE  /\ pc = "save" \/ (pc = "chain" /\ Greets)
         /\ parts' = Shifted(Final, Len(rows))
         /\ quoted' = (quoted \/ \E i \in DOMAIN drafts : Pins(drafts[i]))
         /\ pc' = "send" /\ drafts' = <<>> /\ chain' = NoChain
         /\ UNCHANGED <<paused, status, lastScript, panel, msg, known, try, stage, out>>
         /\ Numbered(parts, drafts) /\ (Greets => pc = "chain")
         /\ rows \in Seq(Rows) /\ Len(rows) \in Nat /\ drafts \in Seq(Texts) /\ Len(drafts) \in Nat
         /\ known \in 0..Len(rows) /\ msg \in 1..known /\ rows[msg].by = "client"
         /\ StoredRows \in Seq(Rows) /\ Len(StoredRows) = Len(drafts)
         /\ \A id \in 1..Len(drafts) :
              /\ StoredRows[id].by = "us" /\ StoredRows[id].kind = None /\ ~StoredRows[id].told
              /\ \A i \in 1..Len(parts) : parts[i].id = id =>
                   ~StoredRows[id].failed /\ StoredRows[id].script = parts[i].script
         /\ rows' \in Seq(Rows) /\ Len(rows') = Len(rows) + Len(drafts)
         /\ \A i \in 1..Len(rows) : rows'[i] = rows[i]
         /\ \A i \in 1..Len(drafts) : rows'[Len(rows) + i] = StoredRows[i]
         /\ Known' = Known /\ Topics' = Topics /\ Greets' = Greets
         /\ parts' \in Seq(Parts) /\ Len(parts') = Len(Final)
         /\ \A i \in 1..Len(Final) : /\ parts'[i].id = Len(rows) + Final[i].id
                                     /\ parts'[i].text = Final[i].text
                                     /\ parts'[i].script = Final[i].script
         /\ Ordered(parts') /\ Questions(parts') = Questions(Final)
<1> DEFINE n == Len(rows)
           m == Len(drafts)
           final == Final
           new == StoredRows
<1>1. /\ pc = "save" \/ (pc = "chain" /\ Greets)
      /\ rows' = rows \o new /\ parts' = Shifted(final, n)
      /\ quoted' = (quoted \/ \E i \in DOMAIN drafts : Pins(drafts[i]))
      /\ pc' = "send" /\ drafts' = <<>> /\ chain' = NoChain
      /\ UNCHANGED <<paused, status, lastScript, panel, msg, known, try, stage, out>>
  BY DEF Save, StoredAs, Shifted, TidiedTurn, StoredRows, Final
<1>2. Numbered(parts, drafts) /\ (Greets => pc = "chain")
  BY <1>1 DEF Inv, TypeOK, PartsInv, RunInv, Numbered
<1>3. /\ TidiedTurn \in Seq(Seq(Parts)) /\ Len(TidiedTurn) >= 1 /\ TidiedTurn[1] = parts
      /\ Tidies(final, parts) /\ \A k \in 1..Len(final) : ~Empty(final[k].text)
      /\ Greets => final = parts
      /\ ~Greets => AsksOnce(final) /\ (final # <<>> /\ stage # "paid" => Questions(final) # {})
  BY <1>2, TurnIs DEF Final
<1>4. /\ rows \in Seq(Rows) /\ n \in Nat /\ drafts \in Seq(Texts) /\ m \in Nat
      /\ known \in 0..n /\ msg \in 1..known /\ rows[msg].by = "client"
  BY <1>1 DEF Inv, TypeOK, RunInv
<1>5. /\ new \in Seq(Rows) /\ Len(new) = m
      /\ \A id \in 1..m : /\ new[id].by = "us" /\ new[id].kind = None /\ ~new[id].told
                          /\ \A i \in 1..Len(parts) : parts[i].id = id =>
                                ~new[id].failed /\ new[id].script = parts[i].script
  <2>1. DOMAIN drafts = 1..m
    BY <1>4
  <2>2. \A id \in 1..m : new[id] = StoredAs(TidiedTurn, id)
    BY <2>1 DEF StoredRows
  <2>3. \A id \in 1..m : new[id] \in Rows
    BY <1>2, <1>3, <2>2, StoredIs
  <2>4. new \in [1..m -> Rows]
    BY <2>1, <2>3 DEF StoredRows
  <2>5. \A id \in 1..m : /\ new[id].by = "us" /\ new[id].kind = None /\ ~new[id].told
                         /\ \A i \in 1..Len(parts) : parts[i].id = id =>
                              ~new[id].failed /\ new[id].script = parts[i].script
    BY <1>2, <1>3, <2>2, StoredIs
  <2> HIDE DEF new, m
  <2> QED BY <1>4, <2>4, <2>5
<1> HIDE DEF new, final
<1>6. /\ rows' \in Seq(Rows) /\ Len(rows') = n + m
      /\ \A i \in 1..n : rows'[i] = rows[i]
      /\ \A i \in 1..m : rows'[n + i] = new[i]
  <2>0. rows \in Seq(Rows) /\ new \in Seq(Rows) /\ rows' = rows \o new
    BY <1>1, <1>4, <1>5
  <2>1. rows' \in Seq(Rows)
    BY <2>0
  <2>2. Len(rows') = n + m
    <3>1. Len(rows') = Len(rows) + Len(new)
      BY <2>0
    <3> QED BY <1>5, <3>1
  <2>3. \A i \in 1..n : rows'[i] = rows[i]
    BY <1>1, <1>4, <1>5, Joined
  <2>4. \A i \in 1..Len(new) : rows'[n + i] = new[i]
    BY <1>1, <1>4, <1>5, Joined
  <2> QED BY <1>5, <2>1, <2>2, <2>3, <2>4
<1>8. Known' = Known /\ Topics' = Topics /\ Greets' = Greets
  <2>1. Known' = Known
    BY <1>1, <1>4, <1>6, SameKnown
  <2>2. rows'[msg] = rows[msg]
    BY <1>4, <1>6
  <2> QED BY <1>1, <2>1, <2>2, SameTopics
<1>9. /\ parts' \in Seq(Parts) /\ Len(parts') = Len(final)
      /\ \A i \in 1..Len(final) : /\ parts'[i].id = n + final[i].id
                                  /\ parts'[i].text = final[i].text
                                  /\ parts'[i].script = final[i].script
      /\ Ordered(parts') /\ Questions(parts') = Questions(final)
  BY <1>1, <1>3, <1>4, ShiftedIs DEF Tidies
<1> QED BY <1>1, <1>2, <1>4, <1>5, <1>6, <1>8, <1>9 DEF new, final

LEMMA SaveKeeps ==
  ASSUME Inv, Save
  PROVE  Inv'
<1> DEFINE n == Len(rows)
           m == Len(drafts)
           final == Final
           new == StoredRows
<1>1. /\ pc = "save" \/ (pc = "chain" /\ Greets)
      /\ parts' = Shifted(final, n)
      /\ quoted' = (quoted \/ \E i \in DOMAIN drafts : Pins(drafts[i]))
      /\ pc' = "send" /\ drafts' = <<>> /\ chain' = NoChain
      /\ UNCHANGED <<paused, status, lastScript, panel, msg, known, try, stage, out>>
  BY SaveIs
<1>2. Numbered(parts, drafts) /\ (Greets => pc = "chain")
  BY SaveIs
<1>3. /\ TidiedTurn \in Seq(Seq(Parts)) /\ Len(TidiedTurn) >= 1 /\ TidiedTurn[1] = parts
      /\ Tidies(final, parts) /\ \A k \in 1..Len(final) : ~Empty(final[k].text)
      /\ Greets => final = parts
      /\ ~Greets => AsksOnce(final) /\ (final # <<>> /\ stage # "paid" => Questions(final) # {})
  BY <1>2, TurnIs DEF Final
<1>4. /\ rows \in Seq(Rows) /\ n \in Nat /\ drafts \in Seq(Texts) /\ m \in Nat
      /\ known \in 0..n /\ msg \in 1..known /\ rows[msg].by = "client"
  BY SaveIs
<1>5. /\ new \in Seq(Rows) /\ Len(new) = m
      /\ \A id \in 1..m : /\ new[id].by = "us" /\ new[id].kind = None /\ ~new[id].told
                          /\ \A i \in 1..Len(parts) : parts[i].id = id =>
                                ~new[id].failed /\ new[id].script = parts[i].script
  BY SaveIs
<1> HIDE DEF new, final
<1>6. /\ rows' \in Seq(Rows) /\ Len(rows') = n + m
      /\ \A i \in 1..n : rows'[i] = rows[i]
      /\ \A i \in 1..m : rows'[n + i] = new[i]
  BY SaveIs DEF new
<1>7. \A i \in 1..Len(rows') : i \in 1..n \/ \E k \in 1..m : i = n + k
  <2> SUFFICES ASSUME NEW i \in 1..Len(rows'), i \notin 1..n PROVE \E k \in 1..m : i = n + k
    OBVIOUS
  <2>1. i - n \in 1..m /\ i = n + (i - n)
    BY <1>4, <1>6
  <2> QED BY <2>1
<1>71. \A i \in 1..Len(rows') :
         \/ i \in 1..n /\ rows'[i] = rows[i]
         \/ i \notin 1..n /\ rows'[i].by = "us" /\ rows'[i].kind = None /\ ~rows'[i].told
  <2> SUFFICES ASSUME NEW i \in 1..Len(rows'), i \notin 1..n
               PROVE  rows'[i].by = "us" /\ rows'[i].kind = None /\ ~rows'[i].told
    BY <1>6
  <2>1. PICK k \in 1..m : i = n + k
    BY <1>7
  <2> QED BY <1>5, <1>6, <2>1
<1>8. Known' = Known /\ Topics' = Topics /\ Greets' = Greets
  BY SaveIs
<1>9. /\ parts' \in Seq(Parts) /\ Len(parts') = Len(final)
      /\ \A i \in 1..Len(final) : parts'[i].id = n + final[i].id /\ parts'[i].text = final[i].text
      /\ Ordered(parts') /\ Questions(parts') = Questions(final)
  BY SaveIs DEF final
<1>10. \A i \in 1..Len(final) : \E k \in 1..Len(parts) :
          parts[k].id \in 1..m /\ parts'[i].id = n + parts[k].id
  BY <1>2, <1>3, <1>9 DEF Tidies, SaysWithin, Numbered
<1> HIDE DEF m
<1>11. TypeOK'
  <2>1. \A i \in 1..Len(rows') : ~(rows'[i].failed /\ rows'[i].told)
    BY <1>4, <1>71 DEF Inv, TypeOK
  <2>2. quoted' \in BOOLEAN
    BY <1>1 DEF Inv, TypeOK
  <2>3. msg' \in 0..Len(rows') /\ known' \in 0..Len(rows')
    BY <1>1, <1>4, <1>5, <1>6
  <2>4. chain' \in Chains /\ drafts' \in Seq(Texts)
    BY <1>1, NoOutputIs
  <2>5. \A i \in DOMAIN parts' : ~Empty(parts'[i].text)
    BY <1>3, <1>9
  <2>6. DOMAIN rows' = 1..Len(rows')
    BY <1>6
  <2> QED BY <1>1, <1>6, <1>9, <2>1, <2>2, <2>3, <2>4, <2>5, <2>6 DEF Inv, TypeOK
<1>12. RowsInv'
  BY <1>71 DEF Inv, RowsInv
<1>13. RunInv'
  <2>1. msg' \in 1..known' /\ rows'[msg'].by = "client"
    BY <1>1, <1>4, <1>6
  <2>2. \A i \in 1..Len(rows') : rows'[i].told => i <= known'
    BY <1>1, <1>71 DEF Inv, RunInv
  <2> QED BY <1>1, <2>1, <2>2 DEF RunInv
<1>14. PartsInv'
  <2> SUFFICES ASSUME NEW i \in 1..Len(final)
               PROVE  /\ parts'[i].id \in known + 1..Len(rows')
                      /\ rows'[parts'[i].id].by = "us" /\ ~rows'[parts'[i].id].failed
    BY <1>1, <1>9 DEF PartsInv
  <2>1. PICK k \in 1..Len(parts) : parts[k].id \in 1..m /\ parts'[i].id = n + parts[k].id
    BY <1>10
  <2>2. rows'[parts'[i].id] = new[parts[k].id]
    BY <1>6, <2>1
  <2>3. n + parts[k].id \in known + 1..Len(rows')
    <3>1. PICK d \in 1..m : d = parts[k].id
      BY <2>1
    <3>2. n + d \in known + 1..n + m
      <4>1. n \in Nat /\ m \in Nat /\ known \in 0..n
        BY <1>4
      <4> HIDE DEF n
      <4> QED BY <4>1
    <3> QED BY <1>6, <3>1, <3>2
  <2> QED BY <1>5, <2>1, <2>2, <2>3
<1>15. GreetInv'
  <2> SUFFICES ASSUME Greets PROVE parts' # <<>> /\ rows'[parts'[1].id].script = "greet"
    BY <1>1, <1>8 DEF GreetInv
  <2>1. final = parts /\ parts # <<>> /\ parts[1].id = 1 /\ parts[1].script = "greet"
    BY <1>1, <1>2, <1>3 DEF Inv, GreetInv
  <2>2. 1 \in 1..Len(parts) /\ Len(parts) > 0
    BY <1>2, <2>1 DEF Numbered
  <2>3. parts' # <<>> /\ parts'[1].id = n + 1
    BY <1>9, <2>1, <2>2
  <2>4. 1 \in 1..m
    BY <1>2, <2>1, <2>2 DEF Numbered, m
  <2>5. new[1].script = "greet"
    BY <1>5, <2>1, <2>2, <2>4
  <2> QED BY <1>6, <2>3, <2>4, <2>5
<1>16. TopicsInv'
  BY <1>1, <1>8 DEF Inv, TopicsInv
<1>17. OneQuestion'
  <2> SUFFICES ASSUME ~Greets
               PROVE  /\ \A p, q \in Questions(parts') : p = q
                      /\ parts' # <<>> /\ stage # "paid" => Questions(parts') # {}
    BY <1>1, <1>8 DEF OneQuestion, InReply
  <2>1. parts' # <<>> => final # <<>>
    BY <1>3, <1>9 DEF Tidies
  <2> QED BY <1>3, <1>9, <2>1 DEF AsksOnce
<1>18. TopicIsHeard'
  <2> SUFFICES ASSUME NEW i \in 1..Len(rows'), NEW j \in 1..Len(rows'), i < j,
                      CuratorTrigger(rows'[i].kind), rows'[j].told, ~paused'
               PROVE  \E l \in i..j : /\ rows'[l].by = "us" /\ ~rows'[l].failed
                                      /\ ~rows'[l].told \/ ByGreeting(rows'[l])
    BY <1>6 DEF TopicIsHeard, ByGreeting
  <2>1. j \in 1..n
    BY <1>5, <1>6, <1>7
  <2>2. i \in 1..n
    BY <1>4, <2>1
  <2>3. rows'[i] = rows[i] /\ rows'[j] = rows[j] /\ ~paused /\ DOMAIN rows = 1..n
    BY <1>1, <1>4, <1>6, <2>1, <2>2
  <2>4. PICK l \in i..j : /\ rows[l].by = "us" /\ ~rows[l].failed
                          /\ ~rows[l].told \/ ByGreeting(rows[l])
    BY <2>1, <2>2, <2>3 DEF Inv, TopicIsHeard
  <2>5. l \in 1..n
    BY <1>4, <2>1, <2>2
  <2> QED BY <1>6, <2>4, <2>5
<1> QED BY <1>11, <1>12, <1>13, <1>14, <1>15, <1>16, <1>17, <1>18 DEF Inv

(****************************************************************************)
(* The turn is sent, or not.                                                *)
(****************************************************************************)
LEMMA IsSequence ==
  ASSUME NEW S, NEW n \in Nat, NEW f \in [1..n -> S]
  PROVE  f \in Seq(S) /\ Len(f) = n
OBVIOUS

LEMMA RowsAre ==
  ASSUME NEW s \in Seq(Rows)
  PROVE  /\ Len(s) \in Nat /\ DOMAIN s = 1..Len(s)
         /\ \A i \in 1..Len(s) : s[i] \in Rows /\ s[i].by \in {"us", "client"}
<1>1. Len(s) \in Nat /\ DOMAIN s = 1..Len(s) /\ \A i \in 1..Len(s) : s[i] \in Rows
  OBVIOUS
<1>2. \A r \in Rows : r.by \in {"us", "client"}
  BY DEF Rows
<1> QED BY <1>1, <1>2

LEMMA IdsAre ==
  ASSUME NEW ps \in Seq(Parts)
  PROVE  \A x : x \in IdsOf(ps) <=> \E k \in 1..Len(ps) : ps[k].id = x
BY DEF IdsOf, ToSet

\* Only a client's text has a topic, and a run that goes on knows all of them.
LEMMA TriggerIs ==
  ASSUME Inv, NEW i \in 1..Len(rows), CuratorTrigger(rows[i].kind)
  PROVE  /\ rows[i].by = "client" /\ ~rows[i].failed
         /\ pc # "idle" /\ ~Superseded => i <= msg /\ i <= known
<1>1. rows \in Seq(Rows) /\ known \in 0..Len(rows) /\ msg \in 0..Len(rows)
  BY DEF Inv, TypeOK
<1>2. rows[i].by \in {"us", "client"} /\ Len(rows) \in Nat /\ DOMAIN rows = 1..Len(rows)
  BY <1>1, RowsAre
<1>3. rows[i].kind # None
  BY DEF CuratorTrigger, None
<1>4. rows[i].by = "client" /\ ~rows[i].failed
  BY <1>2, <1>3 DEF Inv, RowsInv
<1>5. i \in ClientRows
  BY <1>2, <1>4 DEF ClientRows
<1>6. ~Superseded => i <= msg
  BY <1>1, <1>2, <1>5 DEF Superseded, ClientRows
<1>7. pc # "idle" => msg <= known
  BY <1>1 DEF Inv, RunInv
<1> QED BY <1>1, <1>2, <1>4, <1>6, <1>7

\* A text with a topic, known to the run of a reply, has been followed by a
\* message of ours that ended the batch, or the reply would not go out.
LEMMA TopicsAnswered ==
  ASSUME Inv, pc = "send", ~Greets, ~Superseded, ~paused,
         NEW i \in 1..Len(rows), CuratorTrigger(rows[i].kind)
  PROVE  /\ i <= known
         /\ \E m \in i..known : /\ rows[m].by = "us" /\ ~rows[m].failed
                                /\ ~rows[m].told \/ ByGreeting(rows[m])
<1>1. /\ rows \in Seq(Rows) /\ Len(rows) \in Nat /\ known \in 0..Len(rows)
      /\ msg \in 1..known /\ rows[msg].by = "client"
      /\ \A k \in 1..Len(rows) : rows[k].by \in {"us", "client"}
      /\ DOMAIN rows = 1..Len(rows)
  <2>1. rows \in Seq(Rows) /\ known \in 0..Len(rows) /\ msg \in 1..known /\ rows[msg].by = "client"
    BY DEF Inv, TypeOK, RunInv
  <2> QED BY <2>1, RowsAre
<1>2. rows[i].by = "client" /\ ~rows[i].failed
  BY TriggerIs
<1>3. i <= msg
  BY TriggerIs
<1>4. Topics = {}
  BY DEF Inv, TopicsInv
<1> DEFINE keep == {l \in DOMAIN Known \ {msg} : ~Known[l].failed}
<1>5. Known \in Seq(Rows) /\ Len(Known) = known /\ \A l \in 1..known : Known[l] = rows[l]
  BY <1>1 DEF Known
<1>6. Local \in Seq(Rows) /\ \E at : /\ Orders(at, keep, known) /\ Len(Local) = Len(at)
                                     /\ \A l \in 1..Len(at) : Local[l] = Known[at[l]]
  <2>1. Local = Among(Known, keep)
    BY DEF Local
  <2> HIDE DEF keep
  <2> QED BY <1>5, <2>1, AmongIs
<1>7. PICK at : /\ Orders(at, keep, known) /\ Len(Local) = Len(at)
                /\ \A l \in 1..Len(at) : Local[l] = Known[at[l]]
  BY <1>6
<1> DEFINE n == Len(Local)
<1>8. /\ n \in Nat /\ Talk = Append(Local, rows[msg]) /\ Len(Talk) = n + 1 /\ DOMAIN Talk = 1..n + 1
      /\ Talk[n + 1] = rows[msg] /\ \A l \in 1..n : Talk[l] = Local[l]
  <2>1. rows[msg] \in Rows
    BY <1>1
  <2> QED BY <1>6, <2>1 DEF Talk
<1>9. Topics = {k \in Unanswered : CuratorTrigger(Talk[k].kind)}
  BY DEF Topics
<1>10. Unanswered = {k \in 1..n + 1 : \A l \in k..n + 1 : Talk[l].by = "client"}
  BY <1>8 DEF Unanswered
<1>11. i # msg
  <2> SUFFICES ASSUME i = msg PROVE FALSE
    OBVIOUS
  <2>1. n + 1 \in Unanswered
    <3>1. \A l \in n + 1..n + 1 : l = n + 1
      BY <1>8
    <3> HIDE DEF n
    <3> QED BY <1>1, <1>8, <1>10, <3>1
  <2> QED BY <1>4, <1>8, <1>9, <2>1
<1>12. PICK k \in 1..n : at[k] = i
  <2>1. i \in keep /\ i \in 1..known
    BY <1>1, <1>2, <1>3, <1>5, <1>11
  <2> HIDE DEF keep
  <2> QED BY <1>7, <2>1 DEF Orders
<1>13. Talk[k] = rows[i]
  BY <1>1, <1>3, <1>5, <1>7, <1>8, <1>12
<1>14. PICK l \in k..n + 1 : Talk[l].by # "client"
  <2>1. k \in 1..n + 1
    BY <1>8
  <2> HIDE DEF n
  <2> QED BY <1>4, <1>9, <1>10, <1>13, <2>1
<1>15. l \in 1..n /\ k < l
  <2>1. l # n + 1 /\ l # k
    BY <1>1, <1>2, <1>8, <1>13, <1>14
  <2> HIDE DEF n
  <2> QED BY <1>8, <1>14, <2>1
<1> DEFINE m == at[l]
<1>16. m \in keep /\ m \in 1..known /\ i < m
  <2> HIDE DEF keep
  <2> QED BY <1>7, <1>12, <1>15 DEF Orders
<1>17. rows[m].by = "us" /\ ~rows[m].failed /\ m \in 1..Len(rows)
  <2>1. Talk[l] = rows[m]
    BY <1>5, <1>7, <1>8, <1>15, <1>16
  <2>2. m \in 1..Len(rows) /\ Known[m] = rows[m]
    BY <1>1, <1>5, <1>16
  <2>3. ~Known[m].failed
    BY <1>16
  <2> HIDE DEF m
  <2> QED BY <1>1, <1>14, <2>1, <2>2, <2>3
<1> HIDE DEF m, keep
<1>18. CASE ~rows[m].told
  <2>1. m \in i..known /\ i <= known
    BY <1>1, <1>16
  <2> QED BY <1>17, <1>18, <2>1
<1>19. CASE rows[m].told
  <2>1. PICK u \in i..m : rows[u].by = "us" /\ ~rows[u].failed /\ (~rows[u].told \/ ByGreeting(rows[u]))
    BY <1>1, <1>16, <1>17, <1>19 DEF Inv, TopicIsHeard
  <2>2. u \in i..known /\ i <= known
    BY <1>1, <1>16
  <2> QED BY <2>1, <2>2
<1> QED BY <1>18, <1>19

\* Some messages are marked as told, others as failed.
Marked(told, failed) ==
  /\ rows' \in Seq(Rows) /\ Len(rows') = Len(rows)
  /\ \A i \in 1..Len(rows) :
       /\ rows'[i].by = rows[i].by /\ rows'[i].kind = rows[i].kind
       /\ rows'[i].script = rows[i].script /\ rows'[i].text = rows[i].text
       /\ rows'[i].told <=> rows[i].told \/ i \in told
       /\ rows'[i].failed <=> rows[i].failed \/ i \in failed

LEMMA MarkedIs ==
  ASSUME rows \in Seq(Rows), NEW told, NEW failed,
         rows' = [i \in DOMAIN rows |-> [rows[i] EXCEPT !.told = @ \/ i \in told,
                                                        !.failed = @ \/ i \in failed]]
  PROVE  Marked(told, failed)
<1>1. Len(rows) \in Nat /\ DOMAIN rows = 1..Len(rows) /\ \A i \in 1..Len(rows) : rows[i] \in Rows
  BY RowsAre
<1>2. ASSUME NEW i \in 1..Len(rows)
      PROVE  /\ rows'[i] \in Rows
             /\ rows'[i].by = rows[i].by /\ rows'[i].kind = rows[i].kind
             /\ rows'[i].script = rows[i].script /\ rows'[i].text = rows[i].text
             /\ rows'[i].told <=> rows[i].told \/ i \in told
             /\ rows'[i].failed <=> rows[i].failed \/ i \in failed
  <2> DEFINE r == rows[i]
             a == r.told \/ i \in told
             b == r.failed \/ i \in failed
             s == rows'[i]
  <2>1. s = [r EXCEPT !.told = a, !.failed = b]
    BY <1>1
  <2>2. r \in Rows /\ a \in BOOLEAN /\ b \in BOOLEAN
    BY <1>1
  <2> HIDE DEF r, a, b, s
  <2>3. /\ s \in Rows /\ s.by = r.by /\ s.kind = r.kind /\ s.script = r.script
        /\ s.text = r.text /\ s.told = a /\ s.failed = b
    BY <2>1, <2>2 DEF Rows
  <2> QED BY <2>3 DEF r, a, b, s
<1>3. rows' \in [1..Len(rows) -> Rows]
  BY <1>1, <1>2
<1>4. rows' \in Seq(Rows) /\ Len(rows') = Len(rows)
  BY <1>1, <1>3, IsSequence
<1> QED BY <1>2, <1>4 DEF Marked

\* The messages of the turn are marked, each of them once, and the run ends.
LEMMA MarksKeep ==
  ASSUME Inv, pc = "send", Ended, NEW told, NEW failed, Marked(told, failed),
         told \subseteq IdsOf(parts), failed \subseteq IdsOf(parts), told \cap failed = {},
         \A i, j \in 1..Len(rows) :
           i < j /\ j \in told /\ CuratorTrigger(rows[i].kind) /\ ~paused =>
             \E m \in i..j : /\ rows[m].by = "us" /\ ~rows[m].failed /\ m \notin failed
                             /\ (~rows[m].told /\ m \notin told) \/ ByGreeting(rows[m])
  PROVE  Inv'
<1>1. /\ rows \in Seq(Rows) /\ Len(rows) \in Nat /\ known \in 0..Len(rows) /\ parts \in Seq(Parts)
      /\ DOMAIN rows = 1..Len(rows)
      /\ \A i \in 1..Len(rows) : rows[i].told => i <= known
      /\ \A i \in 1..Len(rows) : ~(rows[i].failed /\ rows[i].told)
  BY DEF Inv, TypeOK, RunInv
<1>2. \A x \in IdsOf(parts) : x \in known + 1..Len(rows) /\ rows[x].by = "us" /\ ~rows[x].failed
  <2> SUFFICES ASSUME NEW x \in IdsOf(parts)
               PROVE  x \in known + 1..Len(rows) /\ rows[x].by = "us" /\ ~rows[x].failed
    OBVIOUS
  <2>1. PICK k \in 1..Len(parts) : x = parts[k].id
    BY <1>1 DEF IdsOf, ToSet
  <2> QED BY <2>1 DEF Inv, PartsInv
<1>3. rows' \in Seq(Rows) /\ Len(rows') = Len(rows) /\ DOMAIN rows' = 1..Len(rows)
  <2>1. rows' \in Seq(Rows) /\ Len(rows') = Len(rows)
    BY DEF Marked
  <2> QED BY <2>1
<1>4. RowsInv'
  BY <1>2, <1>3 DEF Inv, RowsInv, Marked
<1>5. \A i \in 1..Len(rows') : ~(rows'[i].failed /\ rows'[i].told)
  <2> SUFFICES ASSUME NEW i \in 1..Len(rows), rows'[i].failed, rows'[i].told PROVE FALSE
    BY <1>3
  <2>1. (rows[i].told \/ i \in told) /\ (rows[i].failed \/ i \in failed)
    BY DEF Marked
  <2>2. i \in IdsOf(parts) => i > known /\ ~rows[i].failed
    BY <1>1, <1>2
  <2> QED BY <1>1, <2>1, <2>2
<1>6. TopicIsHeard'
  <2> SUFFICES ASSUME NEW i \in 1..Len(rows), NEW j \in 1..Len(rows), i < j,
                      CuratorTrigger(rows[i].kind), rows[j].told \/ j \in told, ~paused
               PROVE  \E m \in i..j : /\ rows[m].by = "us" /\ ~rows[m].failed /\ m \notin failed
                                      /\ (~rows[m].told /\ m \notin told) \/ ByGreeting(rows[m])
    <3> SUFFICES ASSUME NEW i \in 1..Len(rows), NEW j \in 1..Len(rows), i < j,
                        CuratorTrigger(rows'[i].kind), rows'[j].told, ~paused'
                 PROVE  \E m \in i..j : /\ rows'[m].by = "us" /\ ~rows'[m].failed
                                        /\ ~rows'[m].told \/ ByGreeting(rows'[m])
      BY <1>3 DEF TopicIsHeard, ByGreeting
    <3>1. CuratorTrigger(rows[i].kind) /\ (rows[j].told \/ j \in told) /\ ~paused
      BY DEF Marked, Ended
    <3>2. PICK m \in i..j : /\ rows[m].by = "us" /\ ~rows[m].failed /\ m \notin failed
                            /\ (~rows[m].told /\ m \notin told) \/ ByGreeting(rows[m])
      BY <3>1
    <3>3. m \in 1..Len(rows)
      BY <1>1
    <3> QED BY <3>2, <3>3 DEF Marked, ByGreeting
  <2>1. CASE j \in told
    BY <2>1
  <2>2. CASE rows[j].told
    <3>1. PICK m \in i..j : /\ rows[m].by = "us" /\ ~rows[m].failed
                            /\ ~rows[m].told \/ ByGreeting(rows[m])
      BY <1>1, <2>2 DEF Inv, TopicIsHeard
    <3>2. m <= known
      BY <1>1, <2>2
    <3>3. m \notin IdsOf(parts)
      BY <1>1, <1>2, <3>2
    <3> QED BY <3>1, <3>3
  <2> QED BY <2>1, <2>2
<1> QED BY <1>3, <1>4, <1>5, <1>6, EndKeeps

LEMMA GiveWayIs ==
  ASSUME Inv, GiveWay
  PROVE  pc = "send" /\ Ended /\ Marked({}, IdsOf(parts))
<1>1. /\ pc = "send" /\ Ended
      /\ rows' = [i \in DOMAIN rows |-> [rows[i] EXCEPT !.failed = @ \/ i \in IdsOf(parts)]]
  BY DEF GiveWay, EndRun, Ended
<1>2. rows \in Seq(Rows)
  BY DEF Inv, TypeOK
<1>3. rows' = [i \in DOMAIN rows |-> [rows[i] EXCEPT !.told = @ \/ i \in {},
                                                     !.failed = @ \/ i \in IdsOf(parts)]]
  <2>1. \A i \in DOMAIN rows : [rows[i] EXCEPT !.failed = @ \/ i \in IdsOf(parts)]
                               = [rows[i] EXCEPT !.told = @ \/ i \in {},
                                                 !.failed = @ \/ i \in IdsOf(parts)]
    <3> SUFFICES ASSUME NEW i \in DOMAIN rows
                 PROVE  [rows[i] EXCEPT !.failed = @ \/ i \in IdsOf(parts)]
                        = [rows[i] EXCEPT !.told = @ \/ i \in {}, !.failed = @ \/ i \in IdsOf(parts)]
      OBVIOUS
    <3> DEFINE r == rows[i]
               b == r.failed \/ i \in IdsOf(parts)
               a == r.told \/ i \in {}
    <3>1. r \in Rows /\ a = r.told
      <4>1. r \in Rows
        BY <1>2
      <4>2. r.told \in BOOLEAN
        BY <4>1 DEF Rows
      <4> QED BY <4>1, <4>2
    <3> HIDE DEF r, a, b
    <3>2. [r EXCEPT !.failed = b] = [r EXCEPT !.told = r.told, !.failed = b]
      BY <3>1 DEF Rows
    <3>3. [r EXCEPT !.failed = b] = [r EXCEPT !.told = a, !.failed = b]
      BY <3>1, <3>2
    <3> QED BY <3>3 DEF r, a, b
  <2> QED BY <1>1, <2>1
<1>4. Marked({}, IdsOf(parts))
  BY <1>2, <1>3, MarkedIs
<1> QED BY <1>1, <1>4

LEMMA GiveWayKeeps ==
  ASSUME Inv, GiveWay
  PROVE  Inv'
BY GiveWayIs, MarksKeep

\* The messages of the turn that are sent, and those that are not.
Sent(n) == {parts[k].id : k \in 1..n}
Left(n) == {parts[k].id : k \in n + 1..Len(parts)}

LEMMA DeliverIs ==
  ASSUME Inv, NEW n \in 0..Len(parts), Deliver(n)
  PROVE  /\ pc = "send" /\ ~Superseded /\ Ended /\ Marked(Sent(n), Left(n))
         /\ Sent(n) \subseteq IdsOf(parts) /\ Left(n) \subseteq IdsOf(parts)
         /\ Sent(n) \cap Left(n) = {} /\ IdsOf(parts) = {parts[k].id : k \in 1..Len(parts)}
<1> DEFINE told == IdsOf(SubSeq(parts, 1, n))
           failed == IdsOf(SubSeq(parts, n + 1, Len(parts)))
<1>1. /\ pc = "send" /\ ~Superseded /\ Ended
      /\ rows' = [i \in DOMAIN rows |-> [rows[i] EXCEPT !.told = @ \/ i \in told,
                                                        !.failed = @ \/ i \in failed]]
  BY DEF Deliver, EndRun, Ended
<1>2. /\ rows \in Seq(Rows) /\ parts \in Seq(Parts) /\ Len(parts) \in Nat /\ Ordered(parts)
      /\ known \in 0..Len(rows) /\ Len(rows) \in Nat
  BY DEF Inv, TypeOK, PartsInv
<1>3. Marked(told, failed)
  <2> HIDE DEF told, failed
  <2> QED BY <1>1, <1>2, MarkedIs
<1>4. told = {parts[k].id : k \in 1..n}
  <2> DEFINE q == SubSeq(parts, 1, n)
  <2>1. Len(q) = n /\ q \in Seq(Parts) /\ \A k \in 1..n : q[k] = parts[k]
    BY <1>2
  <2>2. told = IdsOf(q)
    OBVIOUS
  <2> HIDE DEF q, told
  <2>3. \A x : x \in told <=> \E k \in 1..n : q[k].id = x
    BY <2>1, <2>2, IdsAre
  <2> QED BY <2>1, <2>3
<1>5. failed = {parts[k].id : k \in n + 1..Len(parts)}
  <2> DEFINE q == SubSeq(parts, n + 1, Len(parts))
  <2>1. /\ Len(q) = Len(parts) - n /\ q \in Seq(Parts)
        /\ \A k \in 1..Len(parts) - n : q[k] = parts[k + n]
    BY <1>2
  <2>0. failed = IdsOf(q)
    OBVIOUS
  <2> HIDE DEF q, failed
  <2>2. \A k \in n + 1..Len(parts) : k - n \in 1..Len(parts) - n /\ q[k - n] = parts[k]
    BY <1>2, <2>1
  <2>3. \A k \in 1..Len(q) : k + n \in n + 1..Len(parts) /\ q[k] = parts[k + n]
    BY <1>2, <2>1
  <2>4. \A x : x \in failed <=> \E k \in 1..Len(q) : q[k].id = x
    BY <2>0, <2>1, IdsAre
  <2>5. ASSUME NEW x \in failed
        PROVE  \E k \in n + 1..Len(parts) : x = parts[k].id
    <3>1. PICK k \in 1..Len(q) : q[k].id = x
      BY <2>4
    <3> QED BY <2>3, <3>1
  <2>6. ASSUME NEW k \in n + 1..Len(parts)
        PROVE  parts[k].id \in failed
    <3>1. k - n \in 1..Len(q) /\ q[k - n] = parts[k]
      BY <1>2, <2>1, <2>2
    <3> QED BY <2>4, <3>1
  <2> QED BY <2>5, <2>6
<1>6. IdsOf(parts) = {parts[k].id : k \in 1..Len(parts)}
  BY <1>2 DEF IdsOf, ToSet
<1> HIDE DEF told, failed
<1>7. told \subseteq IdsOf(parts) /\ failed \subseteq IdsOf(parts)
  BY <1>2, <1>4, <1>5, <1>6
<1>8. told \cap failed = {}
  <2> SUFFICES ASSUME NEW k \in 1..n, NEW l \in n + 1..Len(parts), parts[k].id = parts[l].id
               PROVE  FALSE
    BY <1>4, <1>5
  <2>1. parts[k].id < parts[l].id
    BY <1>2 DEF Ordered
  <2>2. parts[l].id \in Nat
    BY <1>2, PartIs
  <2> QED BY <2>1, <2>2
<1>9. told = Sent(n) /\ failed = Left(n)
  BY <1>4, <1>5 DEF Sent, Left
<1> QED BY <1>1, <1>3, <1>6, <1>7, <1>8, <1>9

LEMMA DeliverKeeps ==
  ASSUME Inv, NEW n \in 0..Len(parts), Deliver(n)
  PROVE  Inv'
<1> DEFINE told == Sent(n)
           failed == Left(n)
<1>1. /\ pc = "send" /\ ~Superseded /\ Ended /\ Marked(told, failed)
      /\ told \subseteq IdsOf(parts) /\ failed \subseteq IdsOf(parts) /\ told \cap failed = {}
  BY DeliverIs
<1>2. /\ rows \in Seq(Rows) /\ parts \in Seq(Parts) /\ Len(parts) \in Nat /\ Ordered(parts)
      /\ known \in 0..Len(rows) /\ Len(rows) \in Nat
  BY DEF Inv, TypeOK, PartsInv
<1>4. told = {parts[k].id : k \in 1..n}
  BY DEF Sent
<1>6. IdsOf(parts) = {parts[k].id : k \in 1..Len(parts)}
  BY DeliverIs
<1> HIDE DEF told, failed
<1>9. ASSUME NEW i \in 1..Len(rows), NEW j \in 1..Len(rows), i < j, j \in told,
             CuratorTrigger(rows[i].kind), ~paused
      PROVE  \E m \in i..j : /\ rows[m].by = "us" /\ ~rows[m].failed /\ m \notin failed
                             /\ (~rows[m].told /\ m \notin told) \/ ByGreeting(rows[m])
  <2>1. PICK k \in 1..n : j = parts[k].id
    BY <1>4, <1>9
  <2>2. \A x \in 1..Len(parts) : parts[x].id \in known + 1..Len(rows)
                                 /\ rows[parts[x].id].by = "us" /\ ~rows[parts[x].id].failed
    BY <1>1 DEF Inv, PartsInv
  <2>3. CASE ~Greets
    <3>1. PICK m \in i..known : /\ rows[m].by = "us" /\ ~rows[m].failed
                                /\ ~rows[m].told \/ ByGreeting(rows[m])
      BY <1>1, <1>9, <2>3, TopicsAnswered
    <3>2. m \in i..j
      BY <1>2, <2>1, <2>2
    <3>3. m \notin IdsOf(parts)
      BY <1>2, <1>6, <2>2
    <3> QED BY <1>1, <3>1, <3>2, <3>3
  <2>4. CASE Greets
    <3> DEFINE m == parts[1].id
    <3>1. parts # <<>> /\ rows[m].script = "greet"
      BY <1>1, <2>4 DEF Inv, GreetInv
    <3>2. 1 \in 1..n /\ 1 \in 1..Len(parts)
      BY <1>2
    <3>3. m \in told /\ m \notin failed /\ m \in known + 1..Len(rows) /\ rows[m].by = "us" /\ ~rows[m].failed
      BY <1>1, <1>4, <2>2, <3>2
    <3>4. m <= j
      <4>1. k = 1 \/ 1 < k
        BY <1>2
      <4>2. k = 1 => m = j
        BY <2>1
      <4>3. 1 < k => m < j
        BY <1>2, <2>1, <3>2 DEF Ordered
      <4> QED BY <1>2, <4>1, <4>2, <4>3, <3>3
    <3>5. i <= known
      BY <1>1, <1>9, TriggerIs
    <3> HIDE DEF m
    <3>6. m \in i..j
      BY <1>2, <3>3, <3>4, <3>5
    <3> QED BY <3>1, <3>3, <3>6 DEF ByGreeting
  <2> QED BY <2>3, <2>4
<1> QED BY <1>1, <1>9, MarksKeep

(****************************************************************************)
(* The invariant and what follows from it.                                  *)
(****************************************************************************)
LEMMA StutterKeeps ==
  ASSUME Inv, UNCHANGED vars
  PROVE  Inv'
<1>1. UNCHANGED <<rows, paused, status, quoted, lastScript, panel, pc, msg, known, try, stage, out,
                  parts, drafts, chain>>
  BY DEF vars, dialogVars, runVars
<1>2. Known' = Known /\ Topics' = Topics /\ Greets' = Greets
  BY <1>1, SameRows
<1>3. TypeOK' /\ RowsInv' /\ RunInv'
  BY <1>1, <1>2 DEF Inv, TypeOK, RowsInv, RunInv
<1>4. PartsInv' /\ GreetInv' /\ TopicsInv'
  BY <1>1, <1>2 DEF Inv, PartsInv, GreetInv, TopicsInv, Ordered
<1>5. OneQuestion'
  BY <1>1, <1>2 DEF Inv, OneQuestion, InReply
<1>6. TopicIsHeard'
  BY <1>1, HeardStill DEF Inv
<1> QED BY <1>3, <1>4, <1>5, <1>6 DEF Inv

LEMMA StepKeeps == Inv /\ [Next]_vars => Inv'
<1> SUFFICES ASSUME Inv, [Next]_vars PROVE Inv'
  OBVIOUS
<1>1. CASE \E k \in Kinds : Write(k)
  BY <1>1, WriteKeeps
<1>2. CASE \E s \in Stages : Begin(s)
  BY <1>2, BeginKeeps
<1>3. CASE Greet
  BY <1>3, GreetKeeps
<1>4. CASE \E r \in Replies : Ask(r)
  BY <1>4, AskKeeps
<1>5. CASE Fail
  BY <1>5, EndsQuietly DEF Fail
<1>6. CASE Retry
  BY <1>6, RetryKeeps
<1>7. CASE Settle
  BY <1>7, SettleKeeps
<1>8. CASE Compose
  BY <1>8, ComposeKeeps
<1>9. CASE Link
  BY <1>9, LinkKeeps
<1>10. CASE ForceChain
  BY <1>10, ForceChainKeeps
<1>11. CASE Extend
  BY <1>11, ExtendKeeps
<1>12. CASE Save
  BY <1>12, SaveKeeps
<1>13. CASE GiveWay
  BY <1>13, GiveWayKeeps
<1>14. CASE Hold
  BY <1>14, EndsQuietly DEF Hold
<1>15. CASE \E n \in 0..Len(parts) : Deliver(n)
  BY <1>15, DeliverKeeps
<1>16. CASE UNCHANGED vars
  BY <1>16, StutterKeeps
<1> QED
  BY <1>1, <1>2, <1>3, <1>4, <1>5, <1>6, <1>7, <1>8, <1>9, <1>10, <1>11, <1>12, <1>13, <1>14,
     <1>15, <1>16 DEF Next

THEOREM Invariance == Spec => []Inv
<1>1. Init => Inv
  BY InitKeeps
<1>2. Inv /\ [Next]_vars => Inv'
  BY StepKeeps
<1> QED BY <1>1, <1>2, PTL DEF Spec

\* Types, and with them what TypeOK says of the marks: no message is both told
\* and marked as failed, and a turn about to be sent holds no empty message.
THEOREM Typing == Spec => []TypeOK
<1>1. Inv => TypeOK
  BY DEF Inv
<1> QED BY <1>1, Invariance, PTL

\* A turn asks one question in all its messages, and before the payment never
\* none, whatever the model answers, however the scripts are linked and whatever
\* they say (tidying of run_ai, _keep_one_question, _ensure_question).
THEOREM TurnsAskOnce == Spec => []OneQuestion
<1>1. Inv => OneQuestion
  BY DEF Inv
<1> QED BY <1>1, Invariance, PTL

\* A manager's topic is not talked over, whatever runs gave way, failed or held
\* their replies between the topic and the message (_pending_client_messages,
\* match_curator_trigger).
THEOREM TopicsAreHeard == Spec => []TopicIsHeard
<1>1. Inv => TopicIsHeard
  BY DEF Inv
<1> QED BY <1>1, Invariance, PTL

(****************************************************************************)
(* What the client has read.                                                *)
(****************************************************************************)
LEMMA AmongHas ==
  ASSUME NEW S, NEW s \in Seq(S), NEW keep
  PROVE  \A x : x \in ToSet(Among(s, keep)) <=> \E i \in 1..Len(s) : i \in keep /\ s[i] = x
<1>1. PICK at : /\ Orders(at, keep, Len(s)) /\ Len(Among(s, keep)) = Len(at)
                /\ \A l \in 1..Len(at) : Among(s, keep)[l] = s[at[l]]
  BY AmongIs
<1>2. Among(s, keep) \in Seq(S)
  BY AmongIs
<1> DEFINE q == Among(s, keep)
<1>3. \A x : x \in ToSet(q) <=> \E l \in 1..Len(at) : q[l] = x
  BY <1>1, <1>2 DEF ToSet
<1> HIDE DEF q
<1>4. ASSUME NEW x, x \in ToSet(q) PROVE \E i \in 1..Len(s) : i \in keep /\ s[i] = x
  <2>1. PICK l \in 1..Len(at) : q[l] = x
    BY <1>3, <1>4
  <2> QED BY <1>1, <2>1 DEF Orders, q
<1>5. ASSUME NEW i \in 1..Len(s), i \in keep PROVE s[i] \in ToSet(q)
  <2>1. PICK l \in 1..Len(at) : at[l] = i
    BY <1>1, <1>5 DEF Orders
  <2> QED BY <1>1, <1>3, <2>1 DEF q
<1> QED BY <1>4, <1>5 DEF q

\* What the run takes the client to have read of us.
LEMMA HistoryIs ==
  ASSUME Inv, pc # "idle"
  PROVE  \A t : t \in History <=> \E m \in 1..known : /\ rows[m].by = "us" /\ ~rows[m].failed
                                                      /\ rows[m].text = t
<1>1. /\ rows \in Seq(Rows) /\ Len(rows) \in Nat /\ known \in 0..Len(rows)
      /\ msg \in 1..known /\ rows[msg].by = "client"
  BY DEF Inv, TypeOK, RunInv
<1>2. Known \in Seq(Rows) /\ Len(Known) = known /\ \A l \in 1..known : Known[l] = rows[l]
  BY <1>1 DEF Known
<1> DEFINE keep == {l \in DOMAIN Known \ {msg} : ~Known[l].failed}
           ours == {i \in DOMAIN Local : Local[i].by = "us"}
<1>3. Local = Among(Known, keep)
  BY DEF Local
<1>4. Told = Among(Local, ours)
  BY DEF Told, Ours
<1>5. Local \in Seq(Rows) /\ \A r : r \in ToSet(Local) <=> \E i \in 1..known : i \in keep /\ Known[i] = r
  <2> HIDE DEF keep
  <2> QED BY <1>2, <1>3, AmongIs, AmongHas
<1>6. \A r : r \in ToSet(Told) <=> \E i \in 1..Len(Local) : i \in ours /\ Local[i] = r
  <2> HIDE DEF ours
  <2> QED BY <1>4, <1>5, AmongHas
<1>7. \A r : r \in ToSet(Local) <=> \E i \in 1..Len(Local) : Local[i] = r
  BY <1>5 DEF ToSet
<1>8. \A r : r \in ToSet(Told) <=> r.by = "us" /\ r \in ToSet(Local)
  BY <1>5, <1>6, <1>7
<1>9. \A i : i \in 1..known /\ i \in keep <=> i \in 1..known /\ i # msg /\ ~rows[i].failed
  BY <1>1, <1>2
<1> HIDE DEF keep, ours
<1>10. \A r : r \in ToSet(Told) <=>
          \E i \in 1..known : rows[i].by = "us" /\ ~rows[i].failed /\ rows[i] = r
  BY <1>1, <1>2, <1>5, <1>8, <1>9
<1> QED BY <1>10 DEF History

LEMMA HistoryIn ==
  ASSUME Inv, pc # "idle"
  PROVE  History \subseteq Texts
<1> SUFFICES ASSUME NEW t \in History PROVE t \in Texts
  OBVIOUS
<1>1. PICK m \in 1..known : rows[m].text = t
  BY HistoryIs
<1>2. rows \in Seq(Rows) /\ known \in 0..Len(rows) /\ Len(rows) \in Nat
  BY DEF Inv, TypeOK
<1>3. rows[m] \in Rows
  BY <1>2
<1> QED BY <1>1, <1>3 DEF Rows

\* The messages of a turn hold no long paragraph of the history, nor of each other.
New(ps) == /\ \A k \in 1..Len(ps) : \A t \in History : Fresh(ps[k].text, t)
           /\ \A k, l \in 1..Len(ps) : k < l => Fresh(ps[k].text, ps[l].text)

\* _drop_duplicate_parts takes the messages one after another.
SeenUpTo(f, ps) ==
  /\ f[0] = History
  /\ \A k \in 1..Len(ps) : f[k] = f[k - 1] \cup {Folded(ps[k], f[k - 1]).text}
  /\ DropDuplicateParts(ps) = WithoutEmpty([i \in DOMAIN ps |-> Folded(ps[i], f[i - 1])])

LEMMA SeenUnfolds ==
  ASSUME NEW ps \in Seq(Parts), History \subseteq Texts
  PROVE  \E f : SeenUpTo(f, ps)
<1> DEFINE seen[n \in 0..Len(ps)] ==
             IF n = 0 THEN History
             ELSE LET before == seen[n - 1] IN before \cup {Folded(ps[n], before).text}
           T == SUBSET Texts
           Then(b, k) == b \cup {Folded(ps[k], b).text}
           next == [k \in 1..Len(ps) |-> [b \in T |-> Then(b, k)]]
           Step(f) == [k \in 0..Len(ps) |->
             IF k = 0 THEN History
             ELSE LET before == f[k - 1] IN before \cup {Folded(ps[k], before).text}]
<1>1. Len(ps) \in Nat /\ History \in T
  OBVIOUS
<1>2. \A b \in T : \A k \in 1..Len(ps) : Then(b, k) \in T
  <2> SUFFICES ASSUME NEW b \in T, NEW k \in 1..Len(ps) PROVE Folded(ps[k], b).text \in Texts
    OBVIOUS
  <2>1. ps[k] \in Parts
    OBVIOUS
  <2>2. Folded(ps[k], b) \in Parts
    BY <2>1, FoldedIs
  <2> QED BY <2>2, PartIs
<1>3. next \in [1..Len(ps) -> [T -> T]]
  <2> HIDE DEF Then, T
  <2> QED BY <1>2
<1>4. PICK f \in [0..Len(ps) -> T] : Follows(f, Len(ps), History, next)
  <2> HIDE DEF next, T
  <2> QED BY <1>1, <1>3, Recursion
<1>5. f[0] = History /\ \A k \in 1..Len(ps) : f[k] = Then(f[k - 1], k)
  <2>1. f[0] = History /\ \A k \in 1..Len(ps) : f[k] = next[k][f[k - 1]]
    BY <1>4 DEF Follows
  <2>2. \A k \in 1..Len(ps) : f[k - 1] \in T
    <3> HIDE DEF T
    <3>1. \A k \in 1..Len(ps) : k - 1 \in 0..Len(ps)
      BY <1>1
    <3> QED BY <3>1
  <2> HIDE DEF Then, T
  <2> QED BY <2>1, <2>2
<1>6. f = Step(f)
  <2>1. f = [k \in 0..Len(ps) |-> f[k]]
    OBVIOUS
  <2>2. ASSUME NEW k \in 0..Len(ps) PROVE f[k] = Step(f)[k]
    <3>1. CASE k = 0
      BY <1>5, <3>1
    <3>2. CASE k # 0
      <4>1. k \in 1..Len(ps)
        BY <1>1, <3>2
      <4> QED BY <1>5, <3>2, <4>1
    <3> QED BY <3>1, <3>2
  <2> QED BY <2>1, <2>2
<1>7. seen = Step(seen)
  <2> HIDE DEF next, T, Then
  <2>1. \E g : g = Step(g)
    BY <1>6
  <2> QED BY <2>1, Zenon
<1>8. DropDuplicateParts(ps) = WithoutEmpty([i \in DOMAIN ps |-> Folded(ps[i], seen[i - 1])])
  BY DEF DropDuplicateParts
<1> HIDE DEF seen
<1>9. seen[0] = History /\ \A k \in 1..Len(ps) : seen[k] = Then(seen[k - 1], k)
  <2>1. 0 \in 0..Len(ps) /\ \A k \in 1..Len(ps) : k \in 0..Len(ps) /\ k # 0
    BY <1>1
  <2> QED BY <1>7, <2>1
<1> QED BY <1>8, <1>9 DEF SeenUpTo

\* What is left of a turn has not been read, in the history or before it in the turn.
LEMMA DuplicatesNew ==
  ASSUME NEW ps \in Seq(Parts), Ordered(ps), History \subseteq Texts
  PROVE  New(DropDuplicateParts(ps))
<1>1. PICK f : SeenUpTo(f, ps)
  BY SeenUnfolds
<1> DEFINE n == Len(ps)
           q(i) == Folded(ps[i], f[i - 1])
           Holds(k) == History \subseteq f[k] /\ \A i \in 1..k : q(i).text \in f[k]
           R == {k \in 0..n : Holds(k)}
<1>2. n \in Nat /\ f[0] = History /\ \A k \in 1..n : f[k] = f[k - 1] \cup {q(k).text}
  BY <1>1 DEF SeenUpTo
<1>3. \A i \in 1..n : /\ q(i) \in Parts /\ SaysWithin(q(i), ps[i])
                      /\ \A u \in f[i - 1] : Fresh(q(i).text, u)
  <2> SUFFICES ASSUME NEW i \in 1..n
               PROVE  /\ q(i) \in Parts /\ SaysWithin(q(i), ps[i])
                      /\ \A u \in f[i - 1] : Fresh(q(i).text, u)
    OBVIOUS
  <2>1. ps[i] \in Parts
    OBVIOUS
  <2> QED BY <2>1, FoldedIs
<1> DEFINE qs == [i \in DOMAIN ps |-> q(i)]
<1>4. DropDuplicateParts(ps) = WithoutEmpty(qs)
  BY <1>1 DEF SeenUpTo
<1>5. qs \in Seq(Parts) /\ Len(qs) = n /\ \A i \in 1..n : qs[i] = q(i)
  <2>1. \A i \in 1..n : qs[i] = q(i)
    OBVIOUS
  <2>2. qs = [i \in DOMAIN ps |-> qs[i]]
    OBVIOUS
  <2> HIDE DEF qs, q
  <2> QED BY <1>3, <2>1, <2>2, ImageTidies
<1> HIDE DEF q, qs
<1>6. 0 \in R
  BY <1>2
<1>7. ASSUME NEW k \in 1..n, k - 1 \in R PROVE k \in R
  <2>1. \A i \in 1..k : i = k \/ i \in 1..k - 1
    BY <1>2
  <2> QED BY <1>2, <1>7, <2>1
<1>8. \A k \in 0..n : Holds(k)
  <2>1. 0..n \subseteq R
    <3> HIDE DEF R, n
    <3> QED BY <1>2, <1>6, <1>7, Induction
  <2> QED BY <2>1
<1>9. \A i \in 1..n : \A t \in History : Fresh(q(i).text, t)
  <2>1. \A i \in 1..n : i - 1 \in 0..n
    BY <1>2
  <2> QED BY <1>3, <1>8, <2>1
<1>10. \A i, j \in 1..n : i < j => Fresh(q(i).text, q(j).text)
  <2> SUFFICES ASSUME NEW i \in 1..n, NEW j \in 1..n, i < j PROVE Fresh(q(i).text, q(j).text)
    OBVIOUS
  <2>1. j - 1 \in 0..n /\ i \in 1..j - 1
    BY <1>2
  <2>2. q(i).text \in f[j - 1]
    BY <1>8, <2>1
  <2> QED BY <1>3, <2>2 DEF Fresh
<1> DEFINE keep == {i \in DOMAIN qs : ~Empty(qs[i].text)}
           rs == Among(qs, keep)
<1>11. WithoutEmpty(qs) = rs
  BY DEF WithoutEmpty
<1> HIDE DEF keep
<1>12. PICK at : /\ Orders(at, keep, n) /\ Len(rs) = Len(at)
                 /\ \A l \in 1..Len(at) : rs[l] = qs[at[l]]
  BY <1>5, AmongIs
<1> HIDE DEF rs
<1>13. \A l \in 1..Len(rs) : at[l] \in 1..n /\ rs[l] = q(at[l])
  BY <1>5, <1>12 DEF Orders
<1>14. \A k, l \in 1..Len(rs) : k < l => at[k] < at[l]
  BY <1>12 DEF Orders
<1>15. New(rs)
  BY <1>9, <1>10, <1>13, <1>14 DEF New
<1> QED BY <1>4, <1>11, <1>15

\* The later filters, which only take text out, leave it so.
LEMMA WithinNew ==
  ASSUME NEW ps \in Seq(Parts), Ordered(ps), NEW qs, Tidies(qs, ps), New(ps)
  PROVE  New(qs)
<1>1. \A k \in 1..Len(qs) : \E i \in 1..Len(ps) : qs[k].id = ps[i].id /\ qs[k].text.says \subseteq ps[i].text.says
  BY DEF Tidies, SaysWithin
<1>2. ASSUME NEW k \in 1..Len(qs), NEW t \in History
      PROVE  Fresh(qs[k].text, t)
  <2>1. PICK i \in 1..Len(ps) : qs[k].text.says \subseteq ps[i].text.says
    BY <1>1
  <2>2. Fresh(ps[i].text, t)
    BY DEF New
  <2> QED BY <2>1, <2>2 DEF Fresh
<1>3. ASSUME NEW k \in 1..Len(qs), NEW l \in 1..Len(qs), k < l
      PROVE  Fresh(qs[k].text, qs[l].text)
  <2>1. PICK i \in 1..Len(ps) : qs[k].id = ps[i].id /\ qs[k].text.says \subseteq ps[i].text.says
    BY <1>1
  <2>2. PICK j \in 1..Len(ps) : qs[l].id = ps[j].id /\ qs[l].text.says \subseteq ps[j].text.says
    BY <1>1
  <2>3. ps[i].id < ps[j].id /\ ps[i].id \in Nat
    <3>1. qs[k].id < qs[l].id
      BY <1>3 DEF Tidies, Ordered
    <3>2. ps[i] \in Parts
      OBVIOUS
    <3> QED BY <2>1, <2>2, <3>1, <3>2, PartIs
  <2>4. i < j \/ j < i
    <3>1. i # j
      BY <2>3
    <3> QED BY <3>1
  <2>5. Fresh(ps[i].text, ps[j].text)
    BY <2>4 DEF New, Fresh
  <2> QED BY <2>1, <2>2, <2>5 DEF Fresh
<1> QED BY <1>2, <1>3 DEF New

(****************************************************************************)
(* The invariant of what is read.                                           *)
(****************************************************************************)
ToldInv == \A i \in 1..Len(rows) : rows[i].told => rows[i].by = "us"

\* The rows hold what is sent, and nothing of a reply has been read.
TurnInv == pc = "send" => /\ \A k \in 1..Len(parts) : rows[parts[k].id].text = parts[k].text
                          /\ ~Greets => New(parts)

\* While a greeting is put together and sent, the client does not write.
FirstInv == pc # "idle" /\ Greets => \A i \in known + 1..Len(rows) : rows[i].by = "us"

ReadInv == ToldInv /\ TurnInv /\ FirstInv /\ ToldOnce

LEMMA GreetsIs ==
  ASSUME Inv
  PROVE  Greets <=> \A i \in 1..known : rows[i].by # "us"
<1>1. rows \in Seq(Rows) /\ known \in 0..Len(rows) /\ Len(rows) \in Nat
  BY DEF Inv, TypeOK
<1>2. DOMAIN Known = 1..known /\ \A l \in 1..known : Known[l] = rows[l]
  BY <1>1 DEF Known
<1> QED BY <1>2 DEF Greets, HasOutgoing

\* A dialog starts before the client has answered.
LEMMA InitRead ==
  ASSUME Init
  PROVE  ReadInv
<1>1. PICK s \in Starts : rows = s.past
  BY DEF Init
<1>2. rows \in Seq(Rows) /\ \A i \in DOMAIN rows : rows[i].by = "us"
  BY <1>1, Constants DEF Constants
<1>3. pc = "idle"
  BY DEF Init
<1>4. ToldInv
  BY <1>2 DEF ToldInv
<1>5. ToldOnce
  <2> SUFFICES ASSUME NEW j \in 1..Len(rows), AnswersOurs(j) PROVE FALSE
    BY <1>2 DEF ToldOnce
  <2>1. PICK m \in 1..j - 1 : rows[m].by = "client"
    BY DEF AnswersOurs
  <2> QED BY <1>2, <2>1
<1> QED BY <1>3, <1>4, <1>5 DEF ReadInv, TurnInv, FirstInv

\* Messages that nobody has been told change nothing.
LEMMA UntoldStays ==
  ASSUME Inv, ReadInv, rows' \in Seq(Rows), Len(rows') >= Len(rows),
         \A i \in 1..Len(rows) : rows'[i] = rows[i],
         \A i \in 1..Len(rows') : i \notin 1..Len(rows) => ~rows'[i].told
  PROVE  ToldInv' /\ ToldOnce'
<1>1. /\ Len(rows) \in Nat /\ Len(rows') \in Nat
      /\ DOMAIN rows = 1..Len(rows) /\ DOMAIN rows' = 1..Len(rows')
  BY DEF Inv, TypeOK
<1>2. ToldInv'
  BY DEF ReadInv, ToldInv
<1>3. ToldOnce'
  <2> SUFFICES ASSUME NEW i \in 1..Len(rows'), NEW j \in 1..Len(rows'), i < j, rows'[i].told,
                      rows'[j].told, AnswersOurs(j)'
               PROVE  rows'[i].text.says \cap rows'[j].text.says \cap Long = {}
    BY <1>1 DEF ToldOnce
  <2>1. i \in 1..Len(rows) /\ j \in 1..Len(rows)
    OBVIOUS
  <2>2. AnswersOurs(j)
    <3>1. PICK k, m \in 1..j - 1 : k < m /\ rows'[k].by = "us" /\ rows'[m].by = "client"
      BY DEF AnswersOurs
    <3>2. k \in 1..Len(rows) /\ m \in 1..Len(rows)
      BY <1>1, <2>1
    <3> QED BY <3>1, <3>2 DEF AnswersOurs
  <2> QED BY <1>1, <2>1, <2>2 DEF ReadInv, ToldOnce
<1> QED BY <1>2, <1>3

\* A step that leaves the rows alone, before the turn is stored or at the end of a run.
LEMMA QuietRead ==
  ASSUME Inv, ReadInv, UNCHANGED rows, pc' # "send",
         pc' = "idle" \/ known' = Len(rows) \/ (pc # "idle" /\ known' = known)
  PROVE  ReadInv'
<1>1. ToldInv' /\ ToldOnce' /\ TurnInv'
  BY DEF ReadInv, ToldInv, ToldOnce, AnswersOurs, TurnInv
<1>2. FirstInv'
  <2>1. CASE pc' = "idle"
    BY <2>1 DEF FirstInv
  <2>2. CASE known' = Len(rows)
    <3>1. Len(rows) \in Nat
      BY DEF Inv, TypeOK
    <3> QED BY <2>2, <3>1 DEF FirstInv
  <2>3. CASE pc # "idle" /\ known' = known
    <3>1. Greets' = Greets
      BY <2>3 DEF Greets, Known
    <3> QED BY <2>3, <3>1 DEF ReadInv, FirstInv
  <2> QED BY <2>1, <2>2, <2>3
<1> QED BY <1>1, <1>2 DEF ReadInv

\* The next script of the chain, the version of it that is sent, and what a link
\* does to the chain and to the turn.
NextLink == panel.follow[chain.at]
SentLink == IF NextLink = None THEN None ELSE Variant(NextLink)

LEMMA LinkIs ==
  ASSUME Inv, Link
  PROVE  /\ pc = "chain" /\ pc' = "chain" /\ chain.at # None /\ chain.at \in Scripts /\ panel \in Panels
         /\ UNCHANGED <<rows, paused, panel, known, msg, out>>
         /\ NextLink \in panel.active => SentLink \in Scripts
         /\ chain'.at = None \/ (NextLink \in panel.active /\ chain'.at \in {NextLink, SentLink})
         /\ \A i \in 1..Len(parts') : \/ i \in 1..Len(parts) /\ parts'[i] = parts[i]
                                      \/ /\ NextLink \in panel.active /\ parts'[i].script = SentLink
                                         /\ ~PassedOver(SentLink)
<1> DEFINE on == IF SentLink # None /\ panel.follow[SentLink] # None THEN SentLink ELSE NextLink
<1>1. /\ pc = "chain" /\ pc' = "chain" /\ chain.at # None /\ chain.at \in Scripts /\ chain \in Chains
      /\ panel \in Panels
      /\ UNCHANGED <<rows, paused, panel, known, msg, out>>
  BY DEF Link, dialogVars, ChainEnds, Inv, TypeOK, Chains
<1>2. NextLink # None => SentLink \in Scripts /\ SentLink # None
  <2>1. NextLink \in Scripts \cup {None}
    BY <1>1, PanelIs DEF NextLink
  <2> QED BY <2>1, PanelIs, PhraseIs DEF SentLink
<1>3. \/ chain' = [chain EXCEPT !.at = None] /\ UNCHANGED <<parts, drafts>>
      \/ NextLink \in panel.active /\ chain' = [chain EXCEPT !.seen = @ \cup {chain.at}, !.at = on]
         /\ UNCHANGED <<parts, drafts>>
      \/ /\ NextLink # None /\ NextLink \in panel.active /\ ~PassedOver(SentLink)
         /\ AddPart(Phrase[SentLink], SentLink)
         /\ chain' = [chain EXCEPT !.seen = @ \cup {chain.at}, !.at = on, !.got = @ + 1]
  BY DEF Link, NextLink, SentLink
<1>4. on \in {NextLink, SentLink}
  OBVIOUS
<1> HIDE DEF on
<1>5. NextLink \in panel.active => SentLink \in Scripts
  BY <1>2, PanelIs, PhraseIs
<1>6. chain'.at = None \/ (NextLink \in panel.active /\ chain'.at = on)
  <2>1. CASE chain' = [chain EXCEPT !.at = None]
    BY <1>1, <2>1 DEF Chains
  <2>2. CASE NextLink \in panel.active /\ chain' = [chain EXCEPT !.seen = @ \cup {chain.at}, !.at = on]
    BY <1>1, <2>2 DEF Chains
  <2>3. CASE NextLink \in panel.active
             /\ chain' = [chain EXCEPT !.seen = @ \cup {chain.at}, !.at = on, !.got = @ + 1]
    BY <1>1, <2>3 DEF Chains
  <2> QED BY <1>3, <2>1, <2>2, <2>3
<1>7. Numbered(parts, drafts) /\ Len(parts) \in Nat
  BY <1>1 DEF Inv, TypeOK, PartsInv, Numbered
<1>8. \A i \in 1..Len(parts') : \/ i \in 1..Len(parts) /\ parts'[i] = parts[i]
                                \/ /\ NextLink \in panel.active /\ parts'[i].script = SentLink
                                   /\ ~PassedOver(SentLink)
  <2>1. CASE UNCHANGED <<parts, drafts>>
    BY <2>1
  <2>2. CASE /\ NextLink # None /\ NextLink \in panel.active /\ ~PassedOver(SentLink)
             /\ AddPart(Phrase[SentLink], SentLink)
    <3>1. /\ Len(parts') = Len(parts) + 1
          /\ \A i \in 1..Len(parts) : parts'[i] = parts[i]
          /\ parts'[Len(parts) + 1] = [text |-> Phrase[SentLink], script |-> SentLink, id |-> Len(drafts) + 1]
      BY <1>2, <1>7, <2>2, PhraseIs, PartAdded
    <3>2. \A i \in 1..Len(parts') : i \in 1..Len(parts) \/ i = Len(parts) + 1
      BY <1>7, <3>1
    <3>3. parts'[Len(parts) + 1].script = SentLink
      BY <3>1
    <3> QED BY <2>2, <3>1, <3>2, <3>3
  <2> QED BY <1>3, <2>1, <2>2
<1>9. chain'.at = None \/ (NextLink \in panel.active /\ chain'.at \in {NextLink, SentLink})
  BY <1>4, <1>6
<1> HIDE DEF NextLink, SentLink
<1> QED BY <1>1, <1>5, <1>8, <1>9

\* A row holds the text its message has at the end of the tidying.
LEMMA LastTextIs ==
  ASSUME NEW tidied \in Seq(Seq(Parts)), Len(tidied) >= 1, Ordered(Last(tidied)),
         NEW k \in 1..Len(Last(tidied))
  PROVE  TextOf(tidied, Last(tidied)[k].id) = Last(tidied)[k].text
<1> DEFINE n == Len(tidied)
           final == Last(tidied)
           id == final[k].id
           Holds(s) == \E i \in DOMAIN s : s[i].id = id
           last == CHOOSE l \in DOMAIN tidied : /\ Holds(tidied[l])
                                                /\ \A m \in l + 1..Len(tidied) : ~Holds(tidied[m])
           at == CHOOSE i \in DOMAIN tidied[last] : tidied[last][i].id = id
<1>1. n \in Nat /\ DOMAIN tidied = 1..n /\ n \in 1..n /\ final = tidied[n] /\ final \in Seq(Parts)
  BY DEF Last
<1>0. k \in 1..Len(final) /\ Ordered(final)
  OBVIOUS
<1> HIDE DEF final
<1>2. DOMAIN final = 1..Len(final) /\ Len(final) \in Nat /\ \A i \in 1..Len(final) : final[i].id \in Nat
  BY <1>1, PartIs
<1>3. Holds(final)
  BY <1>0, <1>2
<1>4. last = n
  <2>0. \A m \in n + 1..n : FALSE
    BY <1>1
  <2>1. Holds(tidied[n]) /\ \A m \in n + 1..n : ~Holds(tidied[m])
    BY <1>1, <1>3, <2>0
  <2>2. ASSUME NEW l \in 1..n, \A m \in l + 1..n : ~Holds(tidied[m]) PROVE l = n
    <3>1. l # n => n \in l + 1..n
      <4>1. n \in Nat /\ l \in 1..n
        BY <1>1
      <4> HIDE DEF n
      <4> QED BY <4>1
    <3> QED BY <2>1, <2>2, <3>1
  <2> HIDE DEF Holds
  <2> QED BY <1>1, <2>1, <2>2
<1>5. at = k
  <2>1. at = CHOOSE i \in DOMAIN final : final[i].id = id
    BY <1>1, <1>4
  <2> HIDE DEF last, at
  <2>2. ASSUME NEW i \in 1..Len(final), final[i].id = id PROVE i = k
    <3>1. ~(i < k) /\ ~(k < i)
      BY <1>0, <1>2, <2>2 DEF Ordered
    <3> QED BY <1>0, <1>2, <3>1
  <2>3. k \in DOMAIN final /\ final[k].id = id
    BY <1>0, <1>2
  <2> QED BY <1>2, <2>1, <2>2, <2>3
<1>6. TextOf(tidied, id) = tidied[last][at].text
  BY DEF TextOf
<1> HIDE DEF last, at
<1> QED BY <1>1, <1>4, <1>5, <1>6 DEF final


\* What is sent has not been read, and an ended run leaves nothing to send.
LEMMA MarksRead ==
  ASSUME Inv, ReadInv, pc = "send", Ended, NEW told, NEW failed, Marked(told, failed),
         told \subseteq IdsOf(parts)
  PROVE  ReadInv'
<1>1. /\ rows \in Seq(Rows) /\ Len(rows) \in Nat /\ known \in 0..Len(rows) /\ parts \in Seq(Parts)
      /\ DOMAIN rows = 1..Len(rows) /\ Ordered(parts)
      /\ \A i \in 1..Len(rows) : rows[i].told => i <= known /\ rows[i].by = "us" /\ ~rows[i].failed
  BY DEF Inv, TypeOK, RunInv, PartsInv, ReadInv, ToldInv
<1>2. ASSUME NEW x \in IdsOf(parts)
      PROVE  /\ x \in known + 1..Len(rows) /\ rows[x].by = "us"
             /\ \E k \in 1..Len(parts) : x = parts[k].id /\ rows[x].text = parts[k].text
  <2>1. PICK k \in 1..Len(parts) : x = parts[k].id
    BY <1>1 DEF IdsOf, ToSet
  <2> QED BY <2>1 DEF Inv, PartsInv, ReadInv, TurnInv
<1>3. Len(rows') = Len(rows) /\ DOMAIN rows' = 1..Len(rows)
  BY DEF Marked
<1>4. ToldInv'
  BY <1>1, <1>2, <1>3 DEF ToldInv, Marked
<1>5. ASSUME NEW i \in 1..Len(rows), NEW j \in 1..Len(rows), i < j, rows'[i].told, rows'[j].told,
             AnswersOurs(j)
      PROVE  Fresh(rows[i].text, rows[j].text)
  <2>1. (rows[i].told \/ i \in told) /\ (rows[j].told \/ j \in told)
    BY <1>5 DEF Marked
  <2>2. CASE rows[j].told
    <3>1. i \notin told
      BY <1>1, <1>2, <1>5, <2>2
    <3> QED BY <1>1, <1>5, <2>1, <2>2, <3>1 DEF ReadInv, ToldOnce, Fresh
  <2>3. CASE j \in told
    <3>1. PICK l \in 1..Len(parts) : j = parts[l].id /\ rows[j].text = parts[l].text
      BY <1>2, <2>3
    <3>2. ~Greets
      <4> SUFFICES ASSUME Greets PROVE FALSE
        OBVIOUS
      <4>1. PICK k, m \in 1..j - 1 : k < m /\ rows[k].by = "us" /\ rows[m].by = "client"
        BY <1>5 DEF AnswersOurs
      <4>2. k \notin 1..known
        BY <4>1, GreetsIs
      <4>3. m \in known + 1..Len(rows)
        BY <1>1, <4>1, <4>2
      <4> QED BY <4>1, <4>3 DEF ReadInv, FirstInv
    <3>3. New(parts)
      BY <3>2 DEF ReadInv, TurnInv
    <3>4. CASE rows[i].told
      <4>1. i \in 1..known
        BY <1>1, <3>4
      <4>2. rows[i].text \in History
        BY <1>1, <3>4, <4>1, HistoryIs
      <4> QED BY <3>1, <3>3, <4>2 DEF New, Fresh
    <3>5. CASE i \in told
      <4>1. PICK k \in 1..Len(parts) : i = parts[k].id /\ rows[i].text = parts[k].text
        BY <1>2, <3>5
      <4>2. k < l \/ l < k
        BY <1>5, <3>1, <4>1
      <4> QED BY <3>1, <3>3, <4>1, <4>2 DEF New, Fresh
    <3> QED BY <2>1, <3>4, <3>5
  <2> QED BY <2>1, <2>2, <2>3
<1>6. ToldOnce'
  <2> SUFFICES ASSUME NEW i \in 1..Len(rows), NEW j \in 1..Len(rows), i < j, rows'[i].told,
                      rows'[j].told, AnswersOurs(j)'
               PROVE  rows'[i].text.says \cap rows'[j].text.says \cap Long = {}
    BY <1>3 DEF ToldOnce
  <2>1. AnswersOurs(j)
    <3>1. PICK k, m \in 1..j - 1 : k < m /\ rows'[k].by = "us" /\ rows'[m].by = "client"
      BY DEF AnswersOurs
    <3>2. k \in 1..Len(rows) /\ m \in 1..Len(rows)
      BY <1>1
    <3> QED BY <3>1, <3>2 DEF AnswersOurs, Marked
  <2>2. rows'[i].text = rows[i].text /\ rows'[j].text = rows[j].text
    BY DEF Marked
  <2> QED BY <1>5, <2>1, <2>2 DEF Fresh
<1> QED BY <1>4, <1>6 DEF ReadInv, TurnInv, FirstInv, Ended

LEMMA SaveRead ==
  ASSUME Inv, ReadInv, Save
  PROVE  ReadInv'
<1>1. /\ pc' = "send" /\ UNCHANGED <<panel, out, known, msg>>
      /\ pc = "save" \/ (pc = "chain" /\ Greets)
      /\ Numbered(parts, drafts) /\ (Greets => pc = "chain")
      /\ rows \in Seq(Rows) /\ Len(rows) \in Nat /\ Len(drafts) \in Nat
      /\ rows' \in Seq(Rows) /\ Len(rows') = Len(rows) + Len(drafts)
      /\ \A i \in 1..Len(rows) : rows'[i] = rows[i]
      /\ \A i \in 1..Len(drafts) : /\ rows'[Len(rows) + i] = StoredRows[i] /\ ~StoredRows[i].told
                                   /\ StoredRows[i].by = "us"
      /\ Known' = Known /\ Greets' = Greets /\ Len(parts') = Len(Final)
      /\ \A i \in 1..Len(Final) : parts'[i].id = Len(rows) + Final[i].id /\ parts'[i].text = Final[i].text
      /\ known \in 0..Len(rows) /\ msg \in 1..known
  BY SaveIs
<1>2. /\ TidiedTurn \in Seq(Seq(Parts)) /\ Len(TidiedTurn) >= 1 /\ Tidies(Final, parts)
      /\ ~Greets => Tidies(Final, DropDuplicateParts(DropConflictingPrices(parts)))
  BY <1>1, TurnIs DEF Final
<1>3. \A i \in 1..Len(rows') : i \notin 1..Len(rows) => ~rows'[i].told /\ rows'[i].by = "us"
  <2> SUFFICES ASSUME NEW i \in 1..Len(rows'), i \notin 1..Len(rows)
               PROVE  ~rows'[i].told /\ rows'[i].by = "us"
    OBVIOUS
  <2> DEFINE k == i - Len(rows)
  <2>1. k \in 1..Len(drafts) /\ i = Len(rows) + k
    BY <1>1
  <2> HIDE DEF k
  <2> QED BY <1>1, <2>1
<1>4. ToldInv' /\ ToldOnce'
  <2>1. Len(rows') >= Len(rows)
    BY <1>1
  <2> QED BY <1>1, <1>3, <2>1, UntoldStays
<1>5. History' = History
  <2>1. rows'[msg] = rows[msg]
    BY <1>1
  <2>2. Local' = Local
    BY <1>1 DEF Local
  <2> QED BY <2>2 DEF History, Told
<1>6. ~Greets => New(parts)'
  <2> SUFFICES ASSUME ~Greets PROVE New(parts)'
    OBVIOUS
  <2> DEFINE a == DropConflictingPrices(parts)
             b == DropDuplicateParts(a)
  <2>1. a \in Seq(Parts) /\ Ordered(a)
    BY <1>1, PricesTidy DEF Tidies, Numbered
  <2>2. b \in Seq(Parts) /\ Ordered(b)
    <3> HIDE DEF a
    <3> QED BY <2>1, DuplicatesTidy DEF Tidies
  <2>3. New(b)
    <3> HIDE DEF a
    <3> QED BY <1>1, <2>1, DuplicatesNew, HistoryIn
  <2>4. Tidies(Final, b)
    BY <1>2
  <2>5. New(Final)
    <3> HIDE DEF b
    <3> QED BY <2>2, <2>3, <2>4, WithinNew
  <2> QED BY <1>1, <1>5, <2>5 DEF New
<1>7. ASSUME NEW k \in 1..Len(Final)
      PROVE  rows'[parts'[k].id].text = parts'[k].text
  <2> DEFINE id == Final[k].id
  <2>1. PICK i \in 1..Len(parts) : parts[i].id = id
    BY <1>2 DEF Tidies, SaysWithin
  <2>2. id \in 1..Len(drafts) /\ id \in IdsOf(parts)
    <3>1. parts \in Seq(Parts)
      BY <1>1 DEF Numbered
    <3> HIDE DEF id
    <3> QED BY <1>1, <2>1, <3>1, IdsAre DEF Numbered
  <2>3. StoredRows[id] = StoredAs(TidiedTurn, id)
    <3>1. DOMAIN drafts = 1..Len(drafts)
      BY <1>1 DEF Numbered
    <3> HIDE DEF id
    <3> QED BY <2>2, <3>1 DEF StoredRows
  <2>4. StoredAs(TidiedTurn, id).text = TextOf(TidiedTurn, id)
    <3> HIDE DEF id
    <3> QED BY <2>2 DEF StoredAs, Row
  <2>5. TextOf(TidiedTurn, id) = Final[k].text
    BY <1>2, LastTextIs DEF Final, Tidies
  <2> QED BY <1>1, <2>2, <2>3, <2>4, <2>5
<1>8. TurnInv'
  BY <1>1, <1>6, <1>7 DEF TurnInv
<1>9. FirstInv'
  <2> SUFFICES ASSUME Greets, NEW i \in known + 1..Len(rows') PROVE rows'[i].by = "us"
    BY <1>1 DEF FirstInv
  <2>1. CASE i \in 1..Len(rows)
    BY <1>1, <2>1 DEF ReadInv, FirstInv
  <2>2. CASE i \notin 1..Len(rows)
    BY <1>1, <1>3, <2>2
  <2> QED BY <2>1, <2>2
<1> QED BY <1>4, <1>8, <1>9 DEF ReadInv

LEMMA WriteRead ==
  ASSUME Inv, Inv', ReadInv, NEW k \in Kinds, Write(k)
  PROVE  ReadInv'
<1> DEFINE new == Row("client", k, Blank, FALSE, None)
<1>1. pc \in {"idle", "ask"} /\ pc' = pc /\ rows' = Append(rows, new)
  BY DEF Write, runVars
<1>2. new \in Rows /\ ~new.told
  <2>1. Blank \in Texts
    BY DEF Blank, Texts
  <2> QED BY <2>1 DEF Row, Rows, None
<1>3. rows \in Seq(Rows)
  BY DEF Inv, TypeOK
<1> HIDE DEF new
<1>4. /\ rows' \in Seq(Rows) /\ Len(rows') = Len(rows) + 1 /\ rows'[Len(rows) + 1] = new
      /\ \A i \in 1..Len(rows) : rows'[i] = rows[i]
  BY <1>1, <1>2, <1>3
<1>5. ToldInv' /\ ToldOnce'
  <2>1. Len(rows') >= Len(rows) /\ \A i \in 1..Len(rows') : i \notin 1..Len(rows) => ~rows'[i].told
    BY <1>2, <1>3, <1>4
  <2> QED BY <1>4, <2>1, UntoldStays
<1>6. TurnInv'
  BY <1>1 DEF TurnInv
<1>7. FirstInv'
  BY <1>1 DEF FirstInv, Inv, RunInv
<1> QED BY <1>5, <1>6, <1>7 DEF ReadInv

LEMMA StillRead ==
  ASSUME ReadInv, UNCHANGED vars
  PROVE  ReadInv'
<1>1. UNCHANGED <<rows, pc, msg, known, parts>>
  BY DEF vars, dialogVars, runVars
<1>2. Known' = Known /\ Greets' = Greets
  BY <1>1, SameRows
<1>3. History' = History
  BY <1>1, <1>2 DEF History, Told, Local
<1>4. ToldInv' /\ ToldOnce' /\ FirstInv'
  BY <1>1, <1>2 DEF ReadInv, ToldInv, ToldOnce, AnswersOurs, FirstInv
<1>5. TurnInv'
  BY <1>1, <1>2, <1>3 DEF ReadInv, TurnInv, New
<1> QED BY <1>4, <1>5 DEF ReadInv

LEMMA StepRead ==
  ASSUME Inv, Inv', ReadInv, [Next]_vars
  PROVE  ReadInv'
<1>1. CASE \E k \in Kinds : Write(k)
  BY <1>1, WriteRead
<1>2. CASE (\E s \in Stages : Begin(s)) \/ Fail \/ Hold
  <2>1. UNCHANGED rows /\ pc' # "send" /\ (pc' = "idle" \/ known' = Len(rows))
    BY <1>2 DEF Begin, Fail, Hold, EndRun, dialogVars
  <2> QED BY <2>1, QuietRead
<1>3. CASE Greet \/ (\E r \in Replies : Ask(r)) \/ Retry \/ Settle \/ Compose
  <2>1. UNCHANGED <<rows, known>> /\ pc # "idle" /\ pc' # "send"
    BY <1>3 DEF Greet, Ask, Retry, Settle, Compose, dialogVars
  <2> QED BY <2>1, QuietRead
<1>4. CASE Link \/ ForceChain \/ Extend
  <2>1. UNCHANGED <<rows, known>> /\ pc # "idle" /\ pc' # "send"
    BY <1>4, LinkIs, ExtendIs DEF ForceChain, dialogVars
  <2> QED BY <2>1, QuietRead
<1>5. CASE Save
  BY <1>5, SaveRead
<1>6. CASE GiveWay
  BY <1>6, GiveWayIs, MarksRead
<1>7. CASE \E n \in 0..Len(parts) : Deliver(n)
  BY <1>7, DeliverIs, MarksRead
<1>8. CASE UNCHANGED vars
  BY <1>8, StillRead
<1> QED
  BY <1>1, <1>2, <1>3, <1>4, <1>5, <1>6, <1>7, <1>8 DEF Next

\* A long paragraph the client has read does not reach him again once he has
\* answered a message of ours, whatever the model answers, however the scripts are
\* linked, and whatever runs gave way, failed or held their replies in between
\* (_drop_duplicate_parts, _find_repeated_chunk, and what run_ai takes for
\* delivered).
THEOREM ParagraphsAreToldOnce == Spec => []ToldOnce
<1>1. Init => ReadInv
  BY InitRead
<1>2. Inv /\ Inv' /\ ReadInv /\ [Next]_vars => ReadInv'
  BY StepRead
<1>3. ReadInv => ToldOnce
  BY DEF ReadInv
<1> QED BY <1>1, <1>2, <1>3, Invariance, PTL DEF Spec

(****************************************************************************)
(* What the client refused or was asked to check.                           *)
(****************************************************************************)
\* What a run concludes from what it knows stays while it lasts.
LEMMA SameRules ==
  ASSUME Known' = Known, msg' = msg, rows'[msg] = rows[msg]
  PROVE  /\ Held' = Held /\ ConfirmationsInARow' = ConfirmationsInARow
         /\ DesignPoint' = DesignPoint /\ PaymentPending' = PaymentPending /\ Greets' = Greets
<1>1. Said' = Said
  BY DEF Said
<1>2. LastOutgoing' = LastOutgoing
  BY DEF LastOutgoing
<1>3. Held' = Held /\ PaymentPending' = PaymentPending
  BY <1>1, <1>2 DEF Held, PaymentPending
<1>4. ConfirmationsInARow' = ConfirmationsInARow
  <2>1. Recent(3)' = Recent(3)
    BY DEF Recent
  <2> QED BY <2>1 DEF ConfirmationsInARow
<1>5. DesignPoint' = DesignPoint
  <2>1. History' = History
    BY DEF History, Told, Local
  <2> QED BY <1>1, <1>2, <1>3, <2>1 DEF DesignPoint, DesignJustConfirmed
<1> QED BY <1>3, <1>4, <1>5 DEF Greets

LEMMA StillRules ==
  ASSUME UNCHANGED <<rows, known, msg>>
  PROVE  /\ Held' = Held /\ ConfirmationsInARow' = ConfirmationsInARow
         /\ DesignPoint' = DesignPoint /\ PaymentPending' = PaymentPending /\ Greets' = Greets
<1>1. Known' = Known
  BY DEF Known
<1> QED BY <1>1, SameRules

\* The checks in a row are a number: the messages after the last that was none.
LEMMA ConfirmationsAre ==
  ASSUME Inv
  PROVE  ConfirmationsInARow \in Nat
<1> DEFINE r == Recent(3)
           n == Len(r)
           Others == {i \in 1..n : ~AsksConfirmation(r[i].text)}
           Counts(k) == /\ \A i \in n - k + 1..n : AsksConfirmation(r[i].text)
                        /\ k = n \/ ~AsksConfirmation(r[n - k].text)
<1>1. r \in Seq(Rows)
  <2>1. Known \in Seq(Rows)
    BY DEF Inv, TypeOK, Known
  <2>2. Ours(Known) \in Seq(Rows)
    BY <2>1, AmongIs DEF Ours
  <2>3. \A s \in Seq(Rows), k \in Nat : Newest(s, k) \in Seq(Rows)
    <3> SUFFICES ASSUME NEW s \in Seq(Rows), NEW k \in Nat PROVE Newest(s, k) \in Seq(Rows)
      OBVIOUS
    <3> DEFINE b == IF Len(s) > k THEN Len(s) - k + 1 ELSE 1
    <3>1. b \in 1..Len(s) + 1 /\ Len(s) \in Nat
      OBVIOUS
    <3>2. Newest(s, k) = SubSeq(s, b, Len(s))
      BY DEF Newest
    <3> HIDE DEF b
    <3> QED BY <3>1, <3>2
  <2>4. Newest(Ours(Known), 3 + Lookback) \in Seq(Rows)
    BY <2>2, <2>3 DEF Lookback
  <2>5. Unmarked(Newest(Ours(Known), 3 + Lookback)) \in Seq(Rows)
    BY <2>4, AmongIs DEF Unmarked
  <2> QED BY <2>3, <2>5 DEF Recent
<1>2. n \in Nat
  BY <1>1
<1>3. \E k \in 0..n : Counts(k)
  <2>1. CASE Others = {}
    <3>1. \A i \in 1..n : AsksConfirmation(r[i].text)
      BY <2>1
    <3>2. Counts(n) /\ n \in 0..n
      <4> HIDE DEF r
      <4> QED BY <1>2, <3>1
    <3> QED BY <3>2
  <2>2. CASE Others # {}
    <3>1. PICK m \in Others : \A x \in Others : x <= m
      <4> HIDE DEF r, n
      <4> QED BY <1>2, <2>2, Greatest
    <3>2. m \in 1..n /\ ~AsksConfirmation(r[m].text)
      OBVIOUS
    <3>3. \A i \in m + 1..n : AsksConfirmation(r[i].text)
      <4> HIDE DEF r, n
      <4> QED BY <1>2, <3>1, <3>2
    <3> DEFINE k == n - m
    <3>4. k \in 0..n /\ n - k = m
      <4> HIDE DEF r, n
      <4> QED BY <1>2, <3>2
    <3> HIDE DEF r, n, Others, k
    <3> QED BY <3>2, <3>3, <3>4
  <2> QED BY <2>1, <2>2
<1>4. ConfirmationsInARow = CHOOSE k \in 0..n : Counts(k)
  BY DEF ConfirmationsInARow
<1> HIDE DEF Counts, n
<1> QED BY <1>2, <1>3, <1>4

\* The script and the text a turn begins with.
TakenScript == IF Substitute = None THEN out.script ELSE Substitute
TakenText == IF Substitute = None THEN WithoutGreeting(CarriedOver(out.text, TakenScript))
             ELSE Phrase[Substitute]

LEMMA ComposeIs ==
  ASSUME Inv, Compose
  PROVE  /\ pc = "compose" /\ pc' = "chain" /\ ~Greets
         /\ UNCHANGED <<rows, paused, panel, msg, known>>
         /\ TakenScript \in Scripts \cup {None} /\ TakenText \in Texts
         /\ out'.text = TakenText /\ out'.script = TakenScript
         /\ out'.side = out.side /\ out'.curator = out.curator
         /\ \A i \in 1..Len(parts') : parts'[i].text = TakenText /\ parts'[i].script = None
         /\ chain'.at = IF AwaitsClientAnswer(TakenText) THEN None ELSE TakenScript
<1>1. /\ pc = "compose" /\ pc' = "chain" /\ AddPart(TakenText, None)
      /\ out' = [out EXCEPT !.text = TakenText, !.script = TakenScript]
      /\ chain' = [NoChain EXCEPT !.at = IF AwaitsClientAnswer(TakenText) THEN None ELSE TakenScript]
      /\ UNCHANGED <<rows, paused, panel, msg, known>>
  BY DEF Compose, dialogVars, TakenText, TakenScript
<1>2. out \in Outputs /\ out.text \in Texts /\ out.script \in Scripts \cup {None}
  BY DEF Inv, TypeOK, Outputs
<1>3. TakenScript \in Scripts \cup {None}
  BY <1>2, SubstituteIs DEF TakenScript
<1>4. TakenText \in Texts
  <2>1. CASE Substitute = None
    <3>1. TakenText = WithoutGreeting(CarriedOver(out.text, TakenScript))
      BY <2>1 DEF TakenText
    <3> QED BY <1>2, <1>3, <3>1, OwnTextIs
  <2>2. CASE Substitute # None
    BY <2>2, SubstituteIs, PhraseIs DEF TakenText
  <2> QED BY <2>1, <2>2
<1>5. parts = <<>> /\ drafts = <<>> /\ ~Greets
  BY <1>1 DEF Inv, PartsInv, RunInv
<1>6. \A i \in 1..Len(parts') : parts'[i].text = TakenText /\ parts'[i].script = None
  BY <1>1, <1>5 DEF AddPart
<1>7. out'.text = TakenText /\ out'.script = TakenScript /\ out'.side = out.side /\ out'.curator = out.curator
  BY <1>1, <1>2 DEF Outputs
<1>8. chain'.at = IF AwaitsClientAnswer(TakenText) THEN None ELSE TakenScript
  BY <1>1 DEF NoChain
<1> QED BY <1>1, <1>3, <1>4, <1>5, <1>6, <1>7, <1>8

\* A turn that begins with a check or with the question for the reason: no script
\* is linked or added to it but the bill.
EndInv ==
  /\ pc = "chain" /\ ~Greets /\ HoldsTurn =>
       chain.at = None /\ \A i \in 1..Len(parts) : parts[i].script = None
  /\ pc \in {"save", "send"} /\ ~Greets /\ HoldsTurn =>
       \A i \in 1..Len(parts) : parts[i].script \in {None, "link"}

LEMMA ExtendEnds ==
  ASSUME Inv, EndInv, Extend
  PROVE  EndInv'
<1>1. /\ pc = "chain" /\ pc' = "save" /\ ~Greets /\ UNCHANGED <<rows, msg, known>>
      /\ \E gives \in BOOLEAN : Handed(gives)
  BY ExtendIs
<1>2. Greets' = Greets
  BY <1>1, StillRules
<1>3. HoldsTurn' = HoldsTurn
  <2>1. out'.text = out.text
    BY <1>1 DEF Handed, Inv, TypeOK, Outputs
  <2> QED BY <2>1 DEF HoldsTurn
<1>4. HoldsTurn => \A i \in 1..Len(parts') : parts'[i].script \in {None, "link"}
  BY <1>1, ExtendedParts DEF EndInv, KeptOrForced
<1> QED BY <1>1, <1>2, <1>3, <1>4 DEF EndInv

LEMMA SaveEnds ==
  ASSUME Inv, EndInv, Save
  PROVE  EndInv'
<1>1. /\ pc = "save" \/ (pc = "chain" /\ Greets)
      /\ pc' = "send" /\ UNCHANGED out /\ Greets' = Greets
      /\ Numbered(parts, drafts) /\ (Greets => pc = "chain") /\ Len(parts') = Len(Final)
      /\ \A i \in 1..Len(Final) : parts'[i].script = Final[i].script
  BY SaveIs
<1>2. Tidies(Final, parts)
  BY <1>1, TurnIs DEF Final
<1>3. ASSUME ~Greets, HoldsTurn
      PROVE  \A k \in 1..Len(parts') : parts'[k].script \in {None, "link"}
  <2>1. \A i \in 1..Len(parts) : parts[i].script \in {None, "link"}
    BY <1>1, <1>3 DEF EndInv
  <2> QED BY <1>1, <1>2, <2>1 DEF Tidies, SaysWithin
<1> QED BY <1>1, <1>3 DEF EndInv, HoldsTurn

\* The steps that begin a run or another attempt, or end it.
BesideTurn == \/ \E s \in Stages : Begin(s)
              \/ Fail \/ Retry \/ GiveWay \/ Hold
              \/ \E n \in 0..Len(parts) : Deliver(n)

LEMMA BesideIs ==
  ASSUME BesideTurn
  PROVE  pc' \in {"ask", "greet", "idle"} /\ UNCHANGED panel
<1>1. CASE \E s \in Stages : Begin(s)
  BY <1>1 DEF Begin
<1>2. CASE Fail \/ Retry \/ GiveWay \/ Hold
  BY <1>2 DEF Fail, Retry, GiveWay, Hold, EndRun
<1>3. CASE \E n \in 0..Len(parts) : Deliver(n)
  <2>1. EndRun /\ UNCHANGED panel
    BY <1>3, Zenon DEF Deliver
  <2> QED BY <2>1 DEF EndRun
<1> QED BY <1>1, <1>2, <1>3 DEF BesideTurn

LEMMA StepEnds ==
  ASSUME Inv, EndInv, [Next]_vars
  PROVE  EndInv'
<1>1. CASE pc' \notin {"chain", "save", "send"}
  BY <1>1 DEF EndInv
<1>2. CASE Greet
  <2>1. pc' = "chain" /\ Greets /\ UNCHANGED <<rows, msg, known>>
    BY <1>2 DEF Greet, Inv, RunInv
  <2> QED BY <2>1, StillRules DEF EndInv
<1>3. CASE Compose
  BY <1>3, ComposeIs DEF EndInv, HoldsTurn
<1>4. CASE Link
  <2>1. /\ pc = "chain" /\ pc' = "chain" /\ chain.at # None /\ UNCHANGED <<rows, msg, known, out>>
    BY <1>4, LinkIs
  <2>2. Greets' = Greets
    BY <2>1, StillRules
  <2> QED BY <2>1, <2>2 DEF EndInv, HoldsTurn
<1>5. CASE ForceChain
  <2>1. /\ pc' = "chain" /\ ~HoldsTurn /\ UNCHANGED out
    BY <1>5 DEF ForceChain, CanForce
  <2> QED BY <2>1 DEF EndInv, HoldsTurn
<1>6. CASE Extend
  BY <1>6, ExtendEnds
<1>7. CASE Save
  BY <1>7, SaveEnds
<1>8. CASE UNCHANGED vars
  <2>1. UNCHANGED <<rows, msg, known, pc, out, parts, chain>>
    BY <1>8 DEF vars, dialogVars, runVars
  <2>2. Greets' = Greets
    BY <2>1, StillRules
  <2> QED BY <2>1, <2>2 DEF EndInv, HoldsTurn
<1>9. CASE \E k \in Kinds : Write(k)
  BY <1>1, <1>9 DEF Write, runVars
<1>10. CASE BesideTurn \/ Settle \/ \E r \in Replies : Ask(r)
  <2>1. pc' \in {"ask", "greet", "judge", "idle", "compose"}
    BY <1>10, BesideIs DEF Settle, Ask
  <2> QED BY <1>1, <2>1
<1> QED
  BY <1>2, <1>3, <1>4, <1>5, <1>6, <1>7, <1>8, <1>9, <1>10 DEF Next, BesideTurn

\* A turn that ends with a check of the design or with the question for the
\* reason has no further step behind it (reply_awaits_client_answer in _run_ai),
\* whatever the model answers and however the scripts are linked.
THEOREM ChecksEndTurns == Spec => [](InReply => CheckEndsTurn)
<1>1. Init => EndInv
  BY DEF Init, EndInv
<1>2. Inv /\ EndInv /\ [Next]_vars => EndInv'
  BY StepEnds
<1>3. Inv /\ EndInv => (InReply => CheckEndsTurn)
  <2> SUFFICES ASSUME Inv, EndInv, InReply, HoldsTurn, NEW p \in ToSet(parts)
               PROVE  p.script \in {None, "link"}
    BY DEF CheckEndsTurn
  <2>1. PICK i \in 1..Len(parts) : p = parts[i]
    BY DEF Inv, TypeOK, ToSet
  <2> QED BY <2>1 DEF EndInv, InReply
<1> QED BY <1>1, <1>2, <1>3, Invariance, PTL DEF Spec

\* A text moves nothing on after a refusal, and asks no check too many.
Heeds(t) == /\ Held => ~AdvancesFunnel(t)
            /\ ConfirmationsInARow >= 2 /\ ~DesignPoint => ~AsksConfirmation(t)

\* The dialog is a person's, or the reply is held for one.
Free == GivenAway \/ out.curator

\* The messages of a turn to a client who refused, and of one after two checks.
StandsStill(p) == /\ p.script = None => ~AdvancesFunnel(p.text)
                  /\ p.script \notin {None, "link"} => out.script # None
                  /\ p.script = "praise" => PaymentPending
ChecksNoMore(p) == p.script = None /\ AsksConfirmation(p.text) =>
                     out.script \in {"price", "kit", "praise"} /\ AsksConfirmation(Phrase[out.script])
TurnStands ==
  /\ Held => /\ out.script \notin AdvancingScripts
             /\ \A i \in 1..Len(parts) : StandsStill(parts[i])
  /\ ConfirmationsInARow >= 2 /\ ~DesignPoint => \A i \in 1..Len(parts) : ChecksNoMore(parts[i])

\* The reply heeds the refusal, and so does the turn that begins with it; after a
\* refusal the chain goes on only from a script of the reply's own.
OwnInv ==
  /\ pc = "compose" /\ ~Free => Heeds(out.text) /\ (Held => out.script \notin AdvancingScripts)
  /\ pc \in {"chain", "save", "send"} /\ ~Greets /\ ~Free => TurnStands
  /\ pc = "chain" /\ ~Greets /\ ~Free /\ Held /\ chain.at # None => out.script # None

\* A text with no more in it than another moves nothing on that one does not.
LEMMA LessSays ==
  ASSUME NEW t, NEW u, u.says \subseteq t.says, ToSet(u.asks) \subseteq ToSet(t.asks) \cup Closing
  PROVE  /\ AdvancesFunnel(u) => AdvancesFunnel(t)
         /\ AsksConfirmation(u) => AsksConfirmation(t)
BY DEF AdvancesFunnel, CheckoutPresented, AsksPaymentChoice, AsksConfirmation, Asks, Closing

LEMMA LessHeeds ==
  ASSUME NEW t, NEW u, Heeds(t), u.says \subseteq t.says, ToSet(u.asks) \subseteq ToSet(t.asks) \cup Closing
  PROVE  Heeds(u)
BY LessSays DEF Heeds

\* A reply that is taken heeds it, or a person is called.
LEMMA SettleHeeds ==
  ASSUME Inv, Settle, ~Free'
  PROVE  /\ Heeds(out.text) /\ out'.text = out.text /\ out'.script = out.script
         /\ Held => out.script \notin AdvancingScripts
<1> DEFINE calls == NeedsPerson(out) /\ out.side # "blacklist"
<1>1. out \in Outputs
  BY DEF Inv, TypeOK
<1>2. /\ out'.text = out.text
      /\ out'.script = IF IgnoresRefusal(out) THEN None ELSE out.script
      /\ out'.curator = (HoldsReply \/ (calls /\ ~Released))
      /\ out'.side = IF HoldsReply \/ Released \/ (calls /\ out.side = None) THEN "curator" ELSE out.side
      /\ paused' = (out'.curator \/ Released)
  BY <1>1 DEF Settle, Outputs
<1>3. ~out'.curator /\ ~paused' /\ out'.side # "blacklist"
  BY DEF Free, GivenAway
<1>4. ~HoldsReply /\ ~Released
  BY <1>2, <1>3
<1>5. ~calls
  BY <1>2, <1>3, <1>4
<1>6. out.side # "blacklist"
  <2> HIDE DEF calls
  <2> QED BY <1>2, <1>3, <1>4, <1>5
<1>7. ~RepeatedConfirmation(out) /\ ~IgnoresRefusal(out)
  BY <1>5, <1>6 DEF NeedsPerson
<1> QED BY <1>2, <1>7 DEF Heeds, RepeatedConfirmation, IgnoresRefusal

LEMMA SettleOwn ==
  ASSUME Inv, Settle
  PROVE  OwnInv'
<1>1. pc' = "compose" /\ UNCHANGED <<rows, panel, msg, known>>
  BY DEF Settle
<1>2. Held' = Held /\ ConfirmationsInARow' = ConfirmationsInARow /\ DesignPoint' = DesignPoint
  BY <1>1, StillRules
<1>3. ~Free' => Heeds(out.text)' /\ (Held' => out'.script \notin AdvancingScripts')
  BY <1>1, <1>2, SettleHeeds DEF Heeds, AdvancingScripts
<1> QED BY <1>1, <1>3 DEF OwnInv

LEMMA OwnWithin ==
  ASSUME NEW t \in Texts, NEW s
  PROVE  /\ WithoutGreeting(CarriedOver(t, s)).says \subseteq t.says
         /\ WithoutGreeting(CarriedOver(t, s)).asks = t.asks
<1> DEFINE u == CarriedOver(t, s)
           rest == [u EXCEPT !.says = @ \ {"hello"}]
           b == t.pics \/ (s # None /\ Phrase[s].pics)
<1>1. u = [t EXCEPT !.pics = b]
  BY DEF CarriedOver
<1> HIDE DEF b
<1>2. u = [says |-> t.says, asks |-> t.asks, pics |-> b]
  <2> HIDE DEF u
  <2> QED BY <1>1 DEF Texts
<1>3. rest = [says |-> t.says \ {"hello"}, asks |-> t.asks, pics |-> b]
  <2> HIDE DEF u
  <2> QED BY <1>2
<1>4. WithoutGreeting(u) \in {u, rest}
  BY DEF WithoutGreeting
<1> HIDE DEF u, rest
<1>5. WithoutGreeting(u).says \subseteq t.says /\ WithoutGreeting(u).asks = t.asks
  BY <1>2, <1>3, <1>4
<1> QED BY <1>5 DEF u

\* At the points of the funnel the client has not refused.
LEMMA PointsAreFree ==
  ASSUME Held
  PROVE  Substitute = None
<1>1. ~PraisePoint /\ ~DesignReviewPoint /\ ~DesignPoint
  BY DEF PraisePoint, DesignReviewPoint, DesignPoint
<1>2. ~AsksPriceOnly(Said)
  BY DEF Held, AsksPriceOnly, PaymentPending, ClientRefused, WantsDesignEdit, IsNonAnswer, HasQuestion
<1> QED BY <1>1, <1>2 DEF Substitute, Prices, Praises, Reviews, ChecksOut

LEMMA ComposeOwn ==
  ASSUME Inv, OwnInv, Compose
  PROVE  OwnInv'
<1>1. /\ pc = "compose" /\ pc' = "chain" /\ UNCHANGED <<rows, paused, panel, msg, known>>
      /\ out'.side = out.side /\ out'.curator = out.curator /\ out'.script = TakenScript
      /\ \A i \in 1..Len(parts') : parts'[i].text = TakenText /\ parts'[i].script = None
      /\ chain'.at \in {None, TakenScript}
      /\ out.text \in Texts
  BY ComposeIs DEF Inv, TypeOK, Outputs
<1>2. /\ Free' = Free /\ Held' = Held /\ ConfirmationsInARow' = ConfirmationsInARow
      /\ DesignPoint' = DesignPoint /\ AdvancingScripts' = AdvancingScripts
  BY <1>1, StillRules DEF Free, GivenAway, AdvancingScripts
<1>3. ASSUME ~Free, Substitute = None
      PROVE  Heeds(TakenText)
  <2>1. TakenText.says \subseteq out.text.says /\ TakenText.asks = out.text.asks
    BY <1>1, <1>3, OwnWithin DEF TakenText
  <2>2. Heeds(out.text)
    BY <1>1, <1>3 DEF OwnInv
  <2> QED BY <2>1, <2>2, LessHeeds
<1>4. ASSUME ~Free, Held
      PROVE  ~AdvancesFunnel(TakenText) /\ TakenScript \notin AdvancingScripts
  <2>1. Substitute = None
    BY <1>4, PointsAreFree
  <2>2. TakenScript = out.script
    BY <2>1 DEF TakenScript
  <2> QED BY <1>1, <1>3, <1>4, <2>1, <2>2 DEF Heeds, OwnInv
<1>5. ASSUME ~Free, ConfirmationsInARow >= 2, ~DesignPoint, AsksConfirmation(TakenText)
      PROVE  TakenScript \in {"price", "kit", "praise"} /\ AsksConfirmation(Phrase[TakenScript])
  <2>1. Substitute # None
    BY <1>3, <1>5 DEF Heeds
  <2>2. ~ChecksOut /\ ~Reviews
    BY <1>5, ConfirmationsAre DEF ChecksOut, Reviews
  <2>3. Substitute \in {"price", "kit", "praise"}
    BY <2>1, <2>2 DEF Substitute, Variant
  <2> QED BY <1>5, <2>1, <2>3 DEF TakenText, TakenScript
<1>6. ~Free => TurnStands'
  <2> SUFFICES ASSUME ~Free PROVE TurnStands'
    OBVIOUS
  <2>1. Held => /\ out'.script \notin AdvancingScripts
                /\ \A i \in 1..Len(parts') : StandsStill(parts[i])'
    BY <1>1, <1>4 DEF StandsStill, None
  <2>2. ConfirmationsInARow >= 2 /\ ~DesignPoint =>
          \A i \in 1..Len(parts') : ChecksNoMore(parts[i])'
    BY <1>1, <1>5 DEF ChecksNoMore
  <2> QED BY <1>2, <2>1, <2>2 DEF TurnStands
<1>7. chain'.at # None => out'.script # None
  BY <1>1
<1> QED BY <1>1, <1>2, <1>6, <1>7 DEF OwnInv

\* What a link or the code adds is not the reply; the praise is passed over where
\* it would follow a refusal.
LEMMA LinkOwn ==
  ASSUME Inv, OwnInv, Link
  PROVE  OwnInv'
<1>1. /\ pc = "chain" /\ pc' = "chain" /\ UNCHANGED <<rows, paused, panel, known, msg, out>>
      /\ chain.at # None
      /\ NextLink \in panel.active => SentLink # None
      /\ \A i \in 1..Len(parts') : \/ i \in 1..Len(parts) /\ parts'[i] = parts[i]
                                   \/ /\ NextLink \in panel.active /\ parts'[i].script = SentLink
                                      /\ ~PassedOver(SentLink)
  BY LinkIs, PhraseIs
<1>2. /\ Free' = Free /\ Held' = Held /\ ConfirmationsInARow' = ConfirmationsInARow
      /\ DesignPoint' = DesignPoint /\ PaymentPending' = PaymentPending /\ Greets' = Greets
      /\ AdvancingScripts' = AdvancingScripts
  BY <1>1, StillRules DEF Free, GivenAway, AdvancingScripts
<1>3. ASSUME ~Greets, ~Free
      PROVE  TurnStands'
  <2>1. TurnStands
    BY <1>1, <1>3 DEF OwnInv
  <2>2. Held => \A i \in 1..Len(parts') : StandsStill(parts[i])'
    <3> SUFFICES ASSUME Held, NEW i \in 1..Len(parts') PROVE StandsStill(parts[i])'
      OBVIOUS
    <3>1. CASE i \in 1..Len(parts) /\ parts'[i] = parts[i]
      BY <1>1, <1>2, <2>1, <3>1 DEF TurnStands, StandsStill
    <3>2. CASE parts'[i].script = SentLink /\ SentLink # None /\ ~PassedOver(SentLink)
      <4>1. out.script # None
        BY <1>1, <1>3 DEF OwnInv
      <4>2. SentLink = "praise" => PaymentPending
        <5>1. SentLink \notin Skip
          BY <1>3, <3>2 DEF PassedOver
        <5>2. SentLink = "praise" => ~(ClientRefused(Said) \/ IsNonAnswer(Said) \/ WantsDesignEdit(Said))
          BY <5>1 DEF Skip
        <5> QED BY <5>2 DEF Held
      <4> QED BY <1>1, <1>2, <3>2, <4>1, <4>2 DEF StandsStill
    <3> QED BY <1>1, <3>1, <3>2
  <2>3. ConfirmationsInARow >= 2 /\ ~DesignPoint =>
          \A i \in 1..Len(parts') : ChecksNoMore(parts[i])'
    BY <1>1, <2>1 DEF TurnStands, ChecksNoMore
  <2> QED BY <1>1, <1>2, <2>1, <2>2, <2>3 DEF TurnStands
<1> QED BY <1>1, <1>2, <1>3 DEF OwnInv

\* A chain is unfolded for the client's own sake only where he did not refuse.
LEMMA ForceChainOwn ==
  ASSUME Inv, OwnInv, ForceChain
  PROVE  OwnInv'
<1>1. /\ pc = "chain" /\ pc' = "chain" /\ Entry \in panel.active
      /\ UNCHANGED <<rows, paused, panel, msg, known, out, parts>>
  BY DEF ForceChain, CanForce, dialogVars
<1>2. /\ Free' = Free /\ Held' = Held /\ ConfirmationsInARow' = ConfirmationsInARow
      /\ DesignPoint' = DesignPoint /\ PaymentPending' = PaymentPending /\ Greets' = Greets
      /\ AdvancingScripts' = AdvancingScripts
  BY <1>1, StillRules DEF Free, GivenAway, AdvancingScripts
<1>3. ~Held
  <2>1. Entry # None
    BY <1>1, PanelIs, PhraseIs
  <2> QED BY <2>1 DEF Entry, PraisePoint, DesignPoint
<1>4. TurnStands' = TurnStands
  BY <1>1, <1>2 DEF TurnStands, StandsStill, ChecksNoMore
<1> QED BY <1>1, <1>2, <1>3, <1>4 DEF OwnInv

\* The bill moves nothing on, and the recipient is asked for after a choice.
LEMMA ExtendOwn ==
  ASSUME Inv, OwnInv, Extend
  PROVE  OwnInv'
<1>1. /\ pc = "chain" /\ pc' = "save" /\ ~Greets /\ UNCHANGED <<rows, panel, msg, known>>
      /\ \E gives \in BOOLEAN : Handed(gives)
  BY ExtendIs
<1>2. /\ Held' = Held /\ ConfirmationsInARow' = ConfirmationsInARow
      /\ DesignPoint' = DesignPoint /\ PaymentPending' = PaymentPending
      /\ AdvancingScripts' = AdvancingScripts
  BY <1>1, StillRules DEF AdvancingScripts
<1>3. (~Free' => ~Free) /\ out'.script = out.script
  BY <1>1 DEF Handed, Free, GivenAway, Inv, TypeOK, Outputs
<1>4. ASSUME ~Free
      PROVE  TurnStands'
  <2>1. TurnStands
    BY <1>1, <1>4 DEF OwnInv
  <2>2. Held => \A i \in 1..Len(parts') : StandsStill(parts[i])'
    <3> SUFFICES ASSUME Held, NEW i \in 1..Len(parts') PROVE StandsStill(parts[i])'
      OBVIOUS
    <3>1. CASE \E k \in 1..Len(parts) : parts'[i] = parts[k]
      BY <1>2, <1>3, <2>1, <3>1 DEF TurnStands, StandsStill
    <3>2. CASE parts'[i].script = "link"
      BY <3>2 DEF StandsStill, None
    <3> QED BY <3>1, <3>2, ExtendedParts DEF KeptOrForced
  <2>3. ConfirmationsInARow >= 2 /\ ~DesignPoint =>
          \A i \in 1..Len(parts') : ChecksNoMore(parts[i])'
    <3> SUFFICES ASSUME ConfirmationsInARow >= 2, ~DesignPoint, NEW i \in 1..Len(parts')
                 PROVE  ChecksNoMore(parts[i])'
      OBVIOUS
    <3>1. CASE \E k \in 1..Len(parts) : parts'[i] = parts[k]
      BY <1>3, <2>1, <3>1 DEF TurnStands, ChecksNoMore
    <3>2. CASE parts'[i].script \in {"link", "contacts"}
      BY <3>2 DEF ChecksNoMore, None
    <3> QED BY <3>1, <3>2, ExtendedParts DEF KeptOrForced
  <2> QED BY <1>2, <1>3, <2>1, <2>2, <2>3 DEF TurnStands
<1> QED BY <1>1, <1>3, <1>4 DEF OwnInv

LEMMA SaveOwn ==
  ASSUME Inv, OwnInv, Save
  PROVE  OwnInv'
<1>1. /\ pc = "save" \/ (pc = "chain" /\ Greets)
      /\ pc' = "send" /\ UNCHANGED <<paused, panel, msg, known, out>>
      /\ Numbered(parts, drafts) /\ (Greets => pc = "chain") /\ Len(parts') = Len(Final)
      /\ \A i \in 1..Len(Final) : parts'[i].text = Final[i].text /\ parts'[i].script = Final[i].script
      /\ Known' = Known /\ Len(rows) \in Nat /\ msg \in 1..known /\ known \in 0..Len(rows)
      /\ \A i \in 1..Len(rows) : rows'[i] = rows[i]
  BY SaveIs
<1>2. /\ Free' = Free /\ Held' = Held /\ ConfirmationsInARow' = ConfirmationsInARow
      /\ DesignPoint' = DesignPoint /\ PaymentPending' = PaymentPending /\ Greets' = Greets
      /\ AdvancingScripts' = AdvancingScripts
  <2>1. rows'[msg] = rows[msg]
    BY <1>1
  <2> QED BY <1>1, <2>1, SameRules DEF Free, GivenAway, AdvancingScripts
<1>3. Tidies(Final, parts)
  BY <1>1, TurnIs DEF Final
<1>4. ASSUME NEW k \in 1..Len(parts')
      PROVE  \E i \in 1..Len(parts) :
               /\ parts'[k].script = parts[i].script
               /\ AdvancesFunnel(parts'[k].text) => AdvancesFunnel(parts[i].text)
               /\ AsksConfirmation(parts'[k].text) => AsksConfirmation(parts[i].text)
  <2>1. k \in 1..Len(Final) /\ parts'[k].text = Final[k].text /\ parts'[k].script = Final[k].script
    BY <1>1
  <2>2. PICK i \in 1..Len(parts) : SaysWithin(Final[k], parts[i])
    BY <1>3, <2>1 DEF Tidies
  <2> DEFINE t == parts[i].text
             u == Final[k].text
  <2>3. u.says \subseteq t.says /\ ToSet(u.asks) \subseteq ToSet(t.asks) \cup Closing
    BY <2>2 DEF SaysWithin
  <2> HIDE DEF t, u
  <2>4. (AdvancesFunnel(u) => AdvancesFunnel(t)) /\ (AsksConfirmation(u) => AsksConfirmation(t))
    BY <2>3, LessSays
  <2> QED BY <2>1, <2>2, <2>4 DEF SaysWithin, t, u
<1>5. ASSUME ~Greets, ~Free
      PROVE  TurnStands'
  <2>1. TurnStands
    BY <1>1, <1>5 DEF OwnInv
  <2>2. Held => \A i \in 1..Len(parts') : StandsStill(parts[i])'
    BY <1>1, <1>2, <1>4, <2>1 DEF TurnStands, StandsStill
  <2>3. ConfirmationsInARow >= 2 /\ ~DesignPoint =>
          \A i \in 1..Len(parts') : ChecksNoMore(parts[i])'
    BY <1>1, <1>4, <2>1 DEF TurnStands, ChecksNoMore
  <2> QED BY <1>1, <1>2, <2>1, <2>2, <2>3 DEF TurnStands
<1> QED BY <1>1, <1>2, <1>5 DEF OwnInv

LEMMA StepOwn ==
  ASSUME Inv, OwnInv, [Next]_vars
  PROVE  OwnInv'
<1>1. CASE pc' \notin {"compose", "chain", "save", "send"}
  BY <1>1 DEF OwnInv
<1>2. CASE Greet
  <2>1. pc' = "chain" /\ Greets /\ UNCHANGED <<rows, msg, known>>
    BY <1>2 DEF Greet, Inv, RunInv
  <2> QED BY <2>1, StillRules DEF OwnInv
<1>3. CASE Settle
  BY <1>3, SettleOwn
<1>4. CASE Compose
  BY <1>4, ComposeOwn
<1>5. CASE Link
  BY <1>5, LinkOwn
<1>6. CASE ForceChain
  BY <1>6, ForceChainOwn
<1>7. CASE Extend
  BY <1>7, ExtendOwn
<1>8. CASE Save
  BY <1>8, SaveOwn
<1>9. CASE UNCHANGED vars
  <2>1. UNCHANGED <<rows, paused, panel, msg, known, pc, out, parts, chain>>
    BY <1>9 DEF vars, dialogVars, runVars
  <2>2. /\ Held' = Held /\ ConfirmationsInARow' = ConfirmationsInARow
        /\ DesignPoint' = DesignPoint /\ PaymentPending' = PaymentPending /\ Greets' = Greets
    BY <2>1, StillRules
  <2>3. Free' = Free /\ AdvancingScripts' = AdvancingScripts
    BY <2>1 DEF Free, GivenAway, AdvancingScripts
  <2>4. Heeds(out.text)' = Heeds(out.text) /\ TurnStands' = TurnStands
    BY <2>1, <2>2, <2>3 DEF Heeds, TurnStands, StandsStill, ChecksNoMore
  <2> QED BY <2>1, <2>2, <2>3, <2>4 DEF OwnInv
<1>10. CASE \E k \in Kinds : Write(k)
  BY <1>1, <1>10 DEF Write, runVars
<1>11. CASE BesideTurn \/ \E r \in Replies : Ask(r)
  <2>1. pc' \in {"ask", "greet", "judge", "idle"}
    BY <1>11, BesideIs DEF Ask
  <2> QED BY <1>1, <2>1
<1> QED
  BY <1>2, <1>3, <1>4, <1>5, <1>6, <1>7, <1>8, <1>9, <1>10, <1>11 DEF Next, BesideTurn

\* A reply that is sent to a client who refused, asked for a change or asked back
\* does not itself move the order on and has no steps behind it but those linked to
\* a script it names, the praise never; a third check of the design in a row is not
\* sent; and nothing follows a check (the gate, the points of the funnel, the chain
\* and the forced scripts of _run_ai), unless the dialog is a person's: whatever the
\* model answers, whatever the scripts say and however they are linked.
THEOREM ClientIsWaitedFor == Spec => []WaitsForTheClient
<1>1. Init => OwnInv
  BY DEF Init, OwnInv
<1>2. Inv /\ OwnInv /\ [Next]_vars => OwnInv'
  BY StepOwn
<1>3. Inv /\ OwnInv /\ (InReply => CheckEndsTurn) => WaitsForTheClient
  <2> SUFFICES ASSUME Inv, OwnInv, Sends, ~GivenAway
               PROVE  RefusalStops /\ NoThirdCheck
    BY DEF WaitsForTheClient, Sends
  <2>1. TurnStands
    BY DEF OwnInv, Sends, InReply, Free
  <2>2. \A p \in ToSet(parts) : \E i \in 1..Len(parts) : p = parts[i]
    BY DEF Inv, TypeOK, ToSet
  <2>3. RefusalStops
    BY <2>1, <2>2 DEF TurnStands, StandsStill, RefusalStops
  <2>4. NoThirdCheck
    BY <2>1, <2>2 DEF TurnStands, ChecksNoMore, NoThirdCheck
  <2> QED BY <2>3, <2>4
<1> QED BY <1>1, <1>2, <1>3, Invariance, ChecksEndTurns, PTL DEF Spec
=============================================================================
