-------------------------- MODULE AuditStateProofs --------------------------
(***************************************************************************)
(* For any number of updates and audits, any settings and histories: the   *)
(* types; an audit tells of one moment; what "degraded" tells its caller   *)
(* is true; the notable list holds the worst.                              *)
(***************************************************************************)
EXTENDS AuditState, RecursionProofs, FiniteSetTheorems, TLAPS

(* Sorted lists of verdicts.  One is told by how many of its verdicts score *)
(* at most x, for each x: c.                                                *)

Scale == 0..100

Tally(c) == c \in [Scale -> Nat] /\ \A x \in Scale : c[x] <= c[100]

Ranked(t, c) == \A x \in Scale : \A i \in 1..Len(t) : t[i].score <= x <=> i <= c[x]

Lists(t, n, c) ==
    /\ t \in Seq(Verdict) /\ Tally(c)
    /\ Len(t) = IF n < c[100] THEN n ELSE c[100]
    /\ Ranked(t, c)

LEMMA ScaleIs == 100 \in Scale /\ \A x \in Scale : x \in Nat /\ x <= 100
  BY DEF Scale

LEMMA TallyIs ==
  ASSUME NEW c, Tally(c)
  PROVE  c[100] \in Nat /\ \A x \in Scale : c[x] \in Nat /\ c[x] <= c[100]
  BY ScaleIs DEF Tally

LEMMA ListsIs ==
  ASSUME NEW t, NEW n \in Nat, NEW c, Lists(t, n, c)
  PROVE  /\ t \in Seq(Verdict) /\ Len(t) \in Nat /\ DOMAIN t = 1..Len(t)
         /\ c[100] \in Nat
         /\ Len(t) = IF n < c[100] THEN n ELSE c[100]
         /\ Tally(c)
<1>1. t \in Seq(Verdict) /\ Tally(c) /\ Len(t) = IF n < c[100] THEN n ELSE c[100]
  BY DEF Lists
<1> QED  BY <1>1, TallyIs

LEMMA ScoreRange == \A v \in Verdict : v.score \in Scale /\ v.score \in Nat
  BY DEF Verdict, Scale

LEMMA Inserted ==
  ASSUME NEW t \in Seq(Verdict), NEW k \in 0..Len(t), NEW v \in Verdict
  PROVE  /\ InsertAt(t, k + 1, v) \in Seq(Verdict)
         /\ Len(InsertAt(t, k + 1, v)) = Len(t) + 1
         /\ \A i \in 1..(Len(t) + 1) :
               InsertAt(t, k + 1, v)[i] = IF i <= k THEN t[i] ELSE IF i = k + 1 THEN v ELSE t[i - 1]
<1> DEFINE head == SubSeq(t, 1, k)
           tail == SubSeq(t, k + 1, Len(t))
<1>0. Len(t) \in Nat /\ k \in Nat /\ (k + 1) - 1 = k  OBVIOUS
<1>1. /\ head \in Seq(Verdict) /\ Len(head) = k
      /\ \A i \in 1..k : head[i] = t[i]
  OBVIOUS
<1>2. /\ tail \in Seq(Verdict) /\ Len(tail) = Len(t) - k
      /\ \A i \in 1..(Len(t) - k) : tail[i] = t[i + k]
  OBVIOUS
<1>3. InsertAt(t, k + 1, v) = head \o <<v>> \o tail
  BY <1>0 DEF InsertAt
<1> HIDE DEF head, tail
<1> DEFINE more == head \o <<v>>
<1>4. /\ more \in Seq(Verdict) /\ Len(more) = k + 1
      /\ \A i \in 1..(k + 1) : more[i] = IF i <= k THEN t[i] ELSE v
  BY <1>1
<1>5. InsertAt(t, k + 1, v) = more \o tail  BY <1>3
<1> HIDE DEF more
<1>6. /\ more \o tail \in Seq(Verdict) /\ Len(more \o tail) = Len(t) + 1
      /\ \A i \in 1..(k + 1) : (more \o tail)[i] = more[i]
      /\ \A i \in (k + 2)..(Len(t) + 1) : (more \o tail)[i] = tail[i - (k + 1)]
  BY <1>2, <1>4
<1>7. ASSUME NEW i \in (k + 2)..(Len(t) + 1) PROVE (more \o tail)[i] = t[i - 1]
  <2>1. i - (k + 1) \in 1..(Len(t) - k) /\ (i - (k + 1)) + k = i - 1  OBVIOUS
  <2> QED  BY <1>2, <1>6, <2>1
<1>8. ASSUME NEW i \in 1..(Len(t) + 1)
      PROVE  (more \o tail)[i] = IF i <= k THEN t[i] ELSE IF i = k + 1 THEN v ELSE t[i - 1]
  <2>1. CASE i \in 1..(k + 1)  BY <1>0, <1>4, <1>6, <2>1
  <2>2. CASE i \in (k + 2)..(Len(t) + 1)
    <3>1. ~(i <= k) /\ i # k + 1  BY <1>0, <2>2
    <3> QED  BY <1>7, <2>2, <3>1
  <2>3. i \in 1..(k + 1) \/ i \in (k + 2)..(Len(t) + 1)  BY <1>0
  <2> QED  BY <2>1, <2>2, <2>3, Zenon
<1> HIDE DEF more
<1>9. PICK w : w = more \o tail  OBVIOUS
<1>10. /\ w \in Seq(Verdict) /\ Len(w) = Len(t) + 1
       /\ \A i \in 1..(Len(t) + 1) :
             w[i] = IF i <= k THEN t[i] ELSE IF i = k + 1 THEN v ELSE t[i - 1]
  <2>1. w \in Seq(Verdict) /\ Len(w) = Len(t) + 1  BY <1>6, <1>9
  <2>2. \A i \in 1..(Len(t) + 1) :
             w[i] = IF i <= k THEN t[i] ELSE IF i = k + 1 THEN v ELSE t[i - 1]
    BY <1>8, <1>9, Zenon
  <2> QED  BY <2>1, <2>2
<1>11. InsertAt(t, k + 1, v) = w  BY <1>5, <1>9, Zenon
<1> QED  BY <1>10, <1>11, Zenon

(* Where ByScore puts a verdict.                                            *)
LEMMA Placed ==
  ASSUME NEW t \in Seq(Verdict), NEW v \in Verdict
  PROVE  \E k \in 0..Len(t) :
            /\ ByScore(t, v) = InsertAt(t, k + 1, v)
            /\ k # 0 => t[k].score <= v.score
            /\ \A i \in (k + 1)..Len(t) : ~(t[i].score <= v.score)
<1> DEFINE atMost == {i \in DOMAIN t : t[i].score <= v.score}
           s      == atMost \cup {0}
           k      == Max(s)
<1>1. ByScore(t, v) = InsertAt(t, k + 1, v)  BY DEF ByScore
<1>2. DOMAIN t = 1..Len(t) /\ Len(t) \in Nat  OBVIOUS
<1>3. k \in s /\ \A i \in s : i <= k
  <2>1. CASE atMost = {}
    <3>1. s = {0}  BY <2>1
    <3>2. 0 \in s /\ \A i \in s : 0 >= i  BY <3>1
    <3>3. k \in s  BY <3>2 DEF Max
    <3> QED  BY <3>1, <3>3
  <2>2. CASE atMost # {}
    <3>1. atMost \in SUBSET (1..Len(t))  BY <1>2
    <3> HIDE DEF atMost
    <3>2. Max(atMost) \in atMost /\ \A i \in atMost : i <= Max(atMost)
      BY <1>2, <2>2, <3>1, MaxOfPositions
    <3>3. Max(atMost) \in s /\ \A i \in s : Max(atMost) >= i
      <4>1. Max(atMost) \in Nat /\ Max(atMost) \in s
        <5> HIDE DEF s
        <5>1. Max(atMost) \in 1..Len(t)  BY <3>1, <3>2
        <5> QED  BY <1>2, <3>2, <5>1 DEF s
      <4>2. \A i \in atMost : i \in Nat /\ Max(atMost) >= i  BY <1>2, <3>1, <3>2, <4>1
      <4> QED  BY <4>1, <4>2
    <3>4. k \in s /\ \A i \in s : k >= i  BY <3>3, Zenon DEF Max
    <3>5. s \subseteq Int  BY <3>1
    <3> QED  BY <3>4, <3>5
  <2> QED  BY <2>1, <2>2
<1> HIDE DEF k
<1>4. k \in 0..Len(t)  BY <1>2, <1>3
<1>5. k # 0 => t[k].score <= v.score  BY <1>3
<1>6. \A i \in (k + 1)..Len(t) : ~(t[i].score <= v.score)
  BY <1>2, <1>3, <1>4
<1> QED  BY <1>1, <1>4, <1>5, <1>6

LEMMA ByScoreTyped == \A t \in Seq(Verdict), v \in Verdict : ByScore(t, v) \in Seq(Verdict)
<1> SUFFICES ASSUME NEW t \in Seq(Verdict), NEW v \in Verdict
             PROVE  ByScore(t, v) \in Seq(Verdict)
  OBVIOUS
<1>1. PICK k \in 0..Len(t) : ByScore(t, v) = InsertAt(t, k + 1, v)  BY Placed
<1>2. InsertAt(t, k + 1, v) \in Seq(Verdict)  BY Inserted
<1> QED  BY <1>1, <1>2

Counting(c, v) == [x \in Scale |-> c[x] + IF v.score <= x THEN 1 ELSE 0]

(* One more verdict in a list of which only the first n are looked at.      *)
LEMMA OneMore ==
  ASSUME NEW n \in Nat, NEW t, NEW c, Lists(t, n, c), NEW v \in Verdict
  PROVE  /\ ByScore(t, v) \in Seq(Verdict) /\ Len(ByScore(t, v)) = Len(t) + 1
         /\ \A x \in Scale : \A i \in 1..Len(ByScore(t, v)) : i <= n =>
               (ByScore(t, v)[i].score <= x <=> i <= Counting(c, v)[x])
<1> DEFINE s == v.score
<1>0. t \in Seq(Verdict) /\ Len(t) \in Nat /\ s \in Nat
  BY ListsIs, ScoreRange
<1>1. PICK k \in 0..Len(t) :
            /\ ByScore(t, v) = InsertAt(t, k + 1, v)
            /\ k # 0 => t[k].score <= s
            /\ \A i \in (k + 1)..Len(t) : ~(t[i].score <= s)
  BY <1>0, Placed
<1>2. PICK u : u = ByScore(t, v)  OBVIOUS
<1>3. /\ u \in Seq(Verdict) /\ Len(u) = Len(t) + 1
      /\ \A i \in 1..(Len(t) + 1) :
            u[i] = IF i <= k THEN t[i] ELSE IF i = k + 1 THEN v ELSE t[i - 1]
  <2>1. ByScore(t, v) = InsertAt(t, k + 1, v)  BY <1>1
  <2>2. /\ InsertAt(t, k + 1, v) \in Seq(Verdict)
        /\ Len(InsertAt(t, k + 1, v)) = Len(t) + 1
        /\ \A i \in 1..(Len(t) + 1) :
             InsertAt(t, k + 1, v)[i] = IF i <= k THEN t[i] ELSE IF i = k + 1 THEN v ELSE t[i - 1]
    BY <1>0, Inserted
  <2> HIDE DEF s
  <2> QED  BY <1>2, <2>1, <2>2, Zenon
<1>4. \A i \in 1..Len(t) : t[i].score \in Nat
  <2>1. \A i \in 1..Len(t) : t[i] \in Verdict  BY <1>0
  <2> QED  BY <2>1, ScoreRange
<1>5. /\ \A x \in Scale : c[x] \in Nat /\ c[x] <= c[100]
      /\ c[100] \in Nat
      /\ Len(t) = IF n < c[100] THEN n ELSE c[100]
      /\ \A x \in Scale : \A i \in 1..Len(t) : t[i].score <= x <=> i <= c[x]
  BY ListsIs, TallyIs DEF Lists, Ranked
<1>6. \A x \in Scale : Counting(c, v)[x] = c[x] + IF s <= x THEN 1 ELSE 0
  BY DEF Counting
<1>m. k \in Nat /\ Len(t) \in Nat  BY <1>0
<1>7. ASSUME NEW x \in Scale, NEW i \in 1..(Len(t) + 1), i <= n
      PROVE  u[i].score <= x <=> i <= Counting(c, v)[x]
  <2> HIDE DEF s
  <2>0. x \in Nat /\ i \in Nat /\ c[x] \in Nat /\ s \in Nat  BY <1>0, <1>5, <1>m, ScaleIs
  <2>1. CASE i <= k
    <3>1. u[i] = t[i] /\ i \in 1..Len(t)  BY <1>0, <1>3, <2>1
    <3>2. t[i].score <= x <=> i <= c[x]  BY <1>5, <3>1
    <3>3. s <= x => i <= c[x]
      <4>1. k \in 1..Len(t) /\ t[k].score <= s  BY <1>0, <1>1, <2>1
      <4>2. s <= x => t[k].score <= x
        <5>1. t[k].score \in Nat  BY <1>4, <4>1
        <5> QED  BY <2>0, <4>1, <5>1
      <4>3. s <= x => k <= c[x]  BY <1>5, <4>1, <4>2
      <4> QED  BY <1>m, <2>0, <2>1, <4>3
    <3>4. Counting(c, v)[x] = c[x] + IF s <= x THEN 1 ELSE 0  BY <1>6
    <3>5. i <= Counting(c, v)[x] <=> i <= c[x]  BY <2>0, <3>3, <3>4
    <3> QED  BY <3>1, <3>2, <3>5
  <2>2. CASE i = k + 1
    <3>1. u[i].score = s
      <4>1. u[i] = v  BY <1>3, <2>2
      <4> QED  BY <4>1 DEF s
    <3>2. s <= x => k <= c[x]
      <4>1. CASE k = 0  BY <2>0, <4>1
      <4>2. CASE k # 0
        <5>1. k \in 1..Len(t) /\ t[k].score <= s  BY <1>0, <1>1, <4>2
        <5>2. s <= x => t[k].score <= x
          <6>1. t[k].score \in Nat  BY <1>4, <5>1
          <6> QED  BY <2>0, <5>1, <6>1
        <5> QED  BY <1>5, <5>1, <5>2
      <4> QED  BY <4>1, <4>2
    <3>3. s > x => ~(k + 1 <= c[x])
      <4>1. CASE k + 1 <= Len(t)
        <5>1. k + 1 \in 1..Len(t) /\ ~(t[k + 1].score <= s)  BY <1>0, <1>1, <4>1
        <5>2. s > x => ~(t[k + 1].score <= x)
          <6>1. t[k + 1].score \in Nat  BY <1>4, <5>1
          <6> QED  BY <2>0, <5>1, <6>1
        <5> QED  BY <1>5, <5>1, <5>2
      <4>2. CASE ~(k + 1 <= Len(t))
        <5>1. k = Len(t)  BY <1>0, <4>2
        <5>2. Len(t) + 1 <= n  BY <1>7, <2>2, <5>1
        <5>3. Len(t) = c[100]  BY <1>m, <1>5, <5>2
        <5>4. c[x] <= c[100] /\ c[x] \in Nat  BY <1>5
        <5> QED  BY <1>m, <5>1, <5>3, <5>4
      <4> QED  BY <4>1, <4>2
    <3>4. Counting(c, v)[x] = c[x] + IF s <= x THEN 1 ELSE 0  BY <1>6
    <3>5. s <= x <=> k + 1 <= Counting(c, v)[x]  BY <1>m, <2>0, <3>2, <3>3, <3>4
    <3> QED  BY <2>2, <3>1, <3>5
  <2>3. CASE i > k + 1
    <3>1. u[i] = t[i - 1] /\ i - 1 \in 1..Len(t) /\ i - 1 \in (k + 1)..Len(t)
      BY <1>0, <1>3, <2>3
    <3>2. t[i - 1].score <= x <=> i - 1 <= c[x]  BY <1>5, <3>1
    <3>3. ~(t[i - 1].score <= s) /\ t[i - 1].score \in Nat  BY <1>1, <1>4, <3>1
    <3>4. s > x => ~(i - 1 <= c[x])  BY <2>0, <3>2, <3>3
    <3>5. Counting(c, v)[x] = c[x] + IF s <= x THEN 1 ELSE 0  BY <1>6
    <3>6. i <= Counting(c, v)[x] <=> i - 1 <= c[x]  BY <2>0, <3>4, <3>5
    <3> QED  BY <3>1, <3>2, <3>6
  <2> QED  BY <1>m, <2>0, <2>1, <2>2, <2>3
<1> QED  BY <1>2, <1>3, <1>7

LEMMA UptoIs ==
  ASSUME NEW s \in Seq(Verdict), NEW n \in Nat
  PROVE  /\ Upto(n, s) \in Seq(Verdict)
         /\ Len(Upto(n, s)) = IF n < Len(s) THEN n ELSE Len(s)
         /\ \A i \in 1..Len(Upto(n, s)) : i \in 1..Len(s) /\ Upto(n, s)[i] = s[i]
  BY DEF Upto

LEMMA CountingIs ==
  ASSUME NEW c, Tally(c), NEW v \in Verdict
  PROVE  Tally(Counting(c, v)) /\ Counting(c, v)[100] = c[100] + 1
<1>1. v.score \in Nat /\ v.score <= 100  BY ScoreRange, ScaleIs
<1>2. \A x \in Scale : Counting(c, v)[x] = c[x] + IF v.score <= x THEN 1 ELSE 0
  BY DEF Counting
<1>3. /\ Counting(c, v) \in [Scale -> Nat]
      /\ \A x \in Scale : Counting(c, v)[x] \in {c[x], c[x] + 1}
  <2>1. \A x \in Scale : c[x] + (IF v.score <= x THEN 1 ELSE 0) \in {c[x], c[x] + 1}
    BY TallyIs
  <2>2. \A x \in Scale : c[x] + (IF v.score <= x THEN 1 ELSE 0) \in Nat
    BY <2>1, TallyIs
  <2> QED  BY <1>2, <2>1, <2>2 DEF Counting
<1>4. Counting(c, v)[100] = c[100] + 1  BY <1>1, <1>2, ScaleIs
<1> QED  BY <1>3, <1>4, TallyIs DEF Tally

(* $push with $sort and $slice keeps the list what it is.                   *)
LEMMA ListsOneMore ==
  ASSUME NEW n \in Nat, NEW t, NEW c, Lists(t, n, c), NEW v \in Verdict
  PROVE  Lists(Upto(n, ByScore(t, v)), n, Counting(c, v))
<1>1. PICK u : u = ByScore(t, v)  OBVIOUS
<1>2. PICK d : d = Counting(c, v)  OBVIOUS
<1>3. /\ u \in Seq(Verdict) /\ Len(u) = Len(t) + 1
      /\ \A x \in Scale : \A i \in 1..Len(u) : i <= n => (u[i].score <= x <=> i <= d[x])
  BY <1>1, <1>2, OneMore
<1>4. Tally(d) /\ d[100] = c[100] + 1
  BY <1>2, CountingIs, ListsIs
<1>5. PICK w : w = Upto(n, u)  OBVIOUS
<1>6. /\ w \in Seq(Verdict) /\ Len(w) = IF n < Len(u) THEN n ELSE Len(u)
      /\ \A i \in 1..Len(w) : i \in 1..Len(u) /\ w[i] = u[i]
  BY <1>3, <1>5, UptoIs
<1>7. Len(t) = IF n < c[100] THEN n ELSE c[100]  BY ListsIs
<1>8. c[100] \in Nat  BY ListsIs
<1>9. Len(w) = IF n < d[100] THEN n ELSE d[100]
  <2>1. Len(t) \in Nat  BY ListsIs
  <2> QED  BY <1>3, <1>4, <1>6, <1>7, <1>8, <2>1
<1>10. ASSUME NEW x \in Scale, NEW i \in 1..Len(w) PROVE w[i].score <= x <=> i <= d[x]
  <2>1. i <= n /\ i \in 1..Len(u) /\ w[i] = u[i]
    <3>1. Len(u) \in Nat /\ Len(w) \in Nat  BY <1>3, <1>6
    <3> QED  BY <1>6, <3>1
  <2> QED  BY <1>3, <2>1
<1>11. Lists(w, n, d)  BY <1>4, <1>6, <1>9, <1>10 DEF Lists, Ranked
<1> QED  BY <1>1, <1>2, <1>5, <1>11

(* All the verdicts.                                                        *)
LEMMA ListsAllMore ==
  ASSUME NEW t, NEW c, Lists(t, c[100], c), NEW v \in Verdict
  PROVE  Lists(ByScore(t, v), Counting(c, v)[100], Counting(c, v))
<1>1. c[100] \in Nat /\ t \in Seq(Verdict) /\ Len(t) = c[100]
  BY TallyIs DEF Lists
<1>2. Lists(t, c[100] + 1, c)
  <2>1. Len(t) = IF c[100] + 1 < c[100] THEN c[100] + 1 ELSE c[100]  BY <1>1
  <2> QED  BY <2>1 DEF Lists
<1>3. Counting(c, v)[100] = c[100] + 1
  <2>1. Tally(c)  BY DEF Lists
  <2> QED  BY <2>1, CountingIs
<1>4. PICK u : u = ByScore(t, v)  OBVIOUS
<1>5. PICK m \in Nat : m = c[100] + 1  BY <1>1
<1>6. u \in Seq(Verdict) /\ Len(u) = m  BY <1>1, <1>2, <1>4, <1>5, OneMore
<1>7. Upto(m, u) = u  BY <1>6 DEF Upto
<1>8. Lists(Upto(m, u), m, Counting(c, v))  BY <1>2, <1>4, <1>5, ListsOneMore
<1> QED  BY <1>3, <1>4, <1>5, <1>7, <1>8

(* The first of all the verdicts.                                           *)
LEMMA ListsCut ==
  ASSUME NEW n \in Nat, NEW t, NEW c, Lists(t, c[100], c)
  PROVE  Lists(Upto(n, t), n, c)
<1>1. t \in Seq(Verdict) /\ c[100] \in Nat /\ Len(t) = c[100]  BY TallyIs DEF Lists
<1>2. PICK w : w = Upto(n, t)  OBVIOUS
<1>3. /\ w \in Seq(Verdict) /\ Len(w) = IF n < Len(t) THEN n ELSE Len(t)
      /\ \A i \in 1..Len(w) : i \in 1..Len(t) /\ w[i] = t[i]
  BY <1>1, <1>2, UptoIs
<1>4. Ranked(w, c)  BY <1>3 DEF Lists, Ranked
<1> QED  BY <1>1, <1>2, <1>3, <1>4 DEF Lists

(* The counts tell the scores.                                              *)
LEMMA SameScores ==
  ASSUME NEW n \in Nat, NEW t, NEW u, NEW c, Lists(t, n, c), Lists(u, n, c)
  PROVE  Scores(t) = Scores(u)
<1>1. /\ t \in Seq(Verdict) /\ u \in Seq(Verdict) /\ Len(t) = Len(u)
      /\ DOMAIN t = 1..Len(t) /\ DOMAIN u = 1..Len(t)
  BY ListsIs
<1>2. ASSUME NEW i \in 1..Len(t) PROVE t[i].score = u[i].score
  <2>1. /\ t[i].score \in Scale /\ u[i].score \in Scale
        /\ t[i].score \in Nat /\ u[i].score \in Nat
    <3>1. t[i] \in Verdict /\ u[i] \in Verdict  BY <1>1
    <3> QED  BY <3>1, ScoreRange
  <2>2. \A x \in Scale : t[i].score <= x <=> u[i].score <= x
    BY <1>1 DEF Lists, Ranked
  <2>3. t[i].score <= t[i].score /\ u[i].score <= u[i].score  BY <2>1
  <2>4. u[i].score <= t[i].score /\ t[i].score <= u[i].score  BY <2>1, <2>2, <2>3
  <2> QED  BY <2>1, <2>4
<1> QED  BY <1>1, <1>2 DEF Scores

(* An empty list.                                                           *)
LEMMA ListsNone ==
  ASSUME NEW n \in Nat
  PROVE  Lists(<<>>, n, [x \in Scale |-> 0])
<1> DEFINE c == [x \in Scale |-> 0]
<1>1. c \in [Scale -> Nat] /\ c[100] = 0 /\ \A x \in Scale : c[x] = 0  BY ScaleIs
<1>2. <<>> \in Seq(Verdict) /\ Len(<<>>) = 0  OBVIOUS
<1> HIDE DEF c
<1>3. Tally(c)  BY <1>1 DEF Tally
<1>4. Ranked(<<>>, c)  BY <1>2 DEF Ranked
<1>5. Lists(<<>>, n, c)  BY <1>1, <1>2, <1>3, <1>4 DEF Lists
<1> QED  BY <1>5 DEF c

-----------------------------------------------------------------------------
(* The folds over a tenant's verdicts, one verdict at a time.               *)

LEMMA TotalIs ==
  ASSUME NEW s \in Seq(Verdict)
  PROVE  \E g \in [0..Len(s) -> Nat] :
            /\ g[0] = 0 /\ g[Len(s)] = ScoreTotal(s)
            /\ \A i \in 1..Len(s) : g[i] = g[i - 1] + s[i].score
<1> DEFINE n == Len(s)
           V == Nat
           base == 0
           step == [i \in 1..n |-> [y \in V |-> y + s[i].score]]
           Computes(it) == it = [p \in SUBSET (1..n) |->
                                IF p = {} THEN 0
                                ELSE it[p \ {Max(p)}] + s[Max(p)].score]
           fold == CHOOSE it : Computes(it)
<1>1. n \in Nat /\ DOMAIN s = 1..n /\ base \in V /\ \A i \in 1..n : s[i] \in Verdict
  OBVIOUS
<1>2. step \in [1..n -> [V -> V]]
  <2>1. \A i \in 1..n : \A y \in V : y + s[i].score \in V  BY <1>1, ScoreRange
  <2> HIDE DEF V, n
  <2> QED  BY <2>1
<1>3. \A i \in 1..n : \A y \in V : step[i][y] = y + s[i].score
  <2> HIDE DEF V, n
  <2> QED  OBVIOUS
<1>4. \A p \in SUBSET (1..n) : p # {} => Max(p) \in 1..n
  BY <1>1, MaxOfPositions
<1>5. ScoreTotal(s) = fold[1..n]
  <2>1. ScoreTotal(s) = fold[DOMAIN s]
    <3>1. DOMAIN s = 1..n  BY <1>1
    <3> QED  BY <3>1, Zenon DEF ScoreTotal, FoldLeft, MapThenFoldSet
  <2> QED  BY <1>1, <2>1
<1>6. base = 0  OBVIOUS
<1> HIDE DEF V, n, base, step, Computes, fold
<1>7. \E it : Computes(it)
  <2>1. PICK it \in [SUBSET (1..n) -> V] : Folds(it, n, base, step)
    BY <1>1, <1>2, FoldExists
  <2>2. ASSUME NEW p \in SUBSET (1..n), p # {}
        PROVE  it[p] = it[p \ {Max(p)}] + s[Max(p)].score
    <3>1. it[p \ {Max(p)}] \in V  OBVIOUS
    <3>2. it[p] = step[Max(p)][it[p \ {Max(p)}]]  BY <2>1, <2>2 DEF Folds
    <3> QED  BY <1>3, <1>4, <2>2, <3>1, <3>2
  <2>3. it[{}] = 0  BY <1>6, <2>1 DEF Folds
  <2>4. Computes(it)  BY <2>2, <2>3 DEF Computes
  <2> QED  BY <2>4
<1>8. Computes(fold)  BY <1>7 DEF fold
<1>9. fold[{}] = base  BY <1>6, <1>8 DEF Computes
<1>10. ASSUME NEW p \in SUBSET (1..n), p # {}, fold[p \ {Max(p)}] \in V
       PROVE  fold[p] = step[Max(p)][fold[p \ {Max(p)}]]
  <2>1. fold[p] = fold[p \ {Max(p)}] + s[Max(p)].score
    BY <1>8, <1>10 DEF Computes
  <2> QED  BY <1>3, <1>4, <1>10, <2>1
<1>11. FoldsIn(V, fold, n, base, step)  BY <1>9, <1>10 DEF FoldsIn
<1>12. PICK g \in [0..n -> V] : /\ g[0] = base /\ g[n] = fold[1..n]
                              /\ \A i \in 1..n : g[i] = step[i][g[i - 1]]
  <2>1. \E g \in [0..n -> V] : Leads(g, n, base, step, fold[1..n])
    BY <1>1, <1>2, <1>11, FoldChain
  <2> QED  BY <2>1 DEF Leads
<1>13. ASSUME NEW i \in 1..n PROVE g[i] = g[i - 1] + s[i].score
  <2>1. g[i - 1] \in V  BY <1>1
  <2> QED  BY <1>3, <1>12, <2>1
<1> QED  BY <1>5, <1>6, <1>12, <1>13 DEF V, n

LEMMA WorstIs ==
  ASSUME NEW s \in Seq(Verdict)
  PROVE  \E g \in [0..Len(s) -> Seq(Verdict)] :
            /\ g[0] = <<>> /\ g[Len(s)] = Worst(s)
            /\ \A i \in 1..Len(s) : g[i] = ByScore(g[i - 1], s[i])
<1> DEFINE n == Len(s)
           V == Seq(Verdict)
           base == <<>>
           step == [i \in 1..n |-> [y \in V |-> ByScore(y, s[i])]]
           Computes(it) == it = [p \in SUBSET (1..n) |->
                                IF p = {} THEN <<>>
                                ELSE ByScore(it[p \ {Max(p)}], s[Max(p)])]
           fold == CHOOSE it : Computes(it)
<1>1. n \in Nat /\ DOMAIN s = 1..n /\ base \in V /\ \A i \in 1..n : s[i] \in Verdict
  OBVIOUS
<1>2. step \in [1..n -> [V -> V]]
  <2>1. \A i \in 1..n : \A y \in V : ByScore(y, s[i]) \in V  BY <1>1, ByScoreTyped
  <2> HIDE DEF V, n
  <2> QED  BY <2>1
<1>3. \A i \in 1..n : \A y \in V : step[i][y] = ByScore(y, s[i])
  <2> HIDE DEF V, n
  <2> QED  OBVIOUS
<1>4. \A p \in SUBSET (1..n) : p # {} => Max(p) \in 1..n
  BY <1>1, MaxOfPositions
<1>5. Worst(s) = fold[1..n]
  <2>1. Worst(s) = fold[DOMAIN s]
    <3>1. DOMAIN s = 1..n  BY <1>1
    <3> QED  BY <3>1, Zenon DEF Worst, FoldLeft, MapThenFoldSet
  <2> QED  BY <1>1, <2>1
<1>6. base = <<>>  OBVIOUS
<1> HIDE DEF V, n, base, step, Computes, fold
<1>7. \E it : Computes(it)
  <2>1. PICK it \in [SUBSET (1..n) -> V] : Folds(it, n, base, step)
    BY <1>1, <1>2, FoldExists
  <2>2. ASSUME NEW p \in SUBSET (1..n), p # {}
        PROVE  it[p] = ByScore(it[p \ {Max(p)}], s[Max(p)])
    <3>1. it[p \ {Max(p)}] \in V  OBVIOUS
    <3>2. it[p] = step[Max(p)][it[p \ {Max(p)}]]  BY <2>1, <2>2 DEF Folds
    <3> QED  BY <1>3, <1>4, <2>2, <3>1, <3>2
  <2>3. it[{}] = <<>>  BY <1>6, <2>1 DEF Folds
  <2>4. Computes(it)  BY <2>2, <2>3 DEF Computes
  <2> QED  BY <2>4
<1>8. Computes(fold)  BY <1>7 DEF fold
<1>9. fold[{}] = base  BY <1>6, <1>8 DEF Computes
<1>10. ASSUME NEW p \in SUBSET (1..n), p # {}, fold[p \ {Max(p)}] \in V
       PROVE  fold[p] = step[Max(p)][fold[p \ {Max(p)}]]
  <2>1. fold[p] = ByScore(fold[p \ {Max(p)}], s[Max(p)])
    BY <1>8, <1>10 DEF Computes
  <2> QED  BY <1>3, <1>4, <1>10, <2>1
<1>11. FoldsIn(V, fold, n, base, step)  BY <1>9, <1>10 DEF FoldsIn
<1>12. PICK g \in [0..n -> V] : /\ g[0] = base /\ g[n] = fold[1..n]
                              /\ \A i \in 1..n : g[i] = step[i][g[i - 1]]
  <2>1. \E g \in [0..n -> V] : Leads(g, n, base, step, fold[1..n])
    BY <1>1, <1>2, <1>11, FoldChain
  <2> QED  BY <2>1 DEF Leads
<1>13. ASSUME NEW i \in 1..n PROVE g[i] = ByScore(g[i - 1], s[i])
  <2>1. g[i - 1] \in V  BY <1>1
  <2> QED  BY <1>3, <1>12, <2>1
<1> QED  BY <1>5, <1>6, <1>12, <1>13 DEF V, n

ListLow(low, v) == IF Low(v) THEN ByScore(low, v) ELSE low

LEMMA WorstLowIs ==
  ASSUME NEW s \in Seq(Verdict)
  PROVE  \E g \in [0..Len(s) -> Seq(Verdict)] :
            /\ g[0] = <<>> /\ g[Len(s)] = WorstLow(s)
            /\ \A i \in 1..Len(s) : g[i] = ListLow(g[i - 1], s[i])
<1> DEFINE n == Len(s)
           V == Seq(Verdict)
           base == <<>>
           step == [i \in 1..n |-> [y \in V |-> ListLow(y, s[i])]]
           Computes(it) == it = [p \in SUBSET (1..n) |->
                                IF p = {} THEN <<>>
                                ELSE ListLow(it[p \ {Max(p)}], s[Max(p)])]
           fold == CHOOSE it : Computes(it)
<1>1. n \in Nat /\ DOMAIN s = 1..n /\ base \in V /\ \A i \in 1..n : s[i] \in Verdict
  OBVIOUS
<1>2. step \in [1..n -> [V -> V]]
  <2>1. \A i \in 1..n : \A y \in V : ListLow(y, s[i]) \in V  BY <1>1, ByScoreTyped DEF ListLow
  <2> HIDE DEF V, n
  <2> QED  BY <2>1
<1>3. \A i \in 1..n : \A y \in V : step[i][y] = ListLow(y, s[i])
  <2> HIDE DEF V, n
  <2> QED  OBVIOUS
<1>4. \A p \in SUBSET (1..n) : p # {} => Max(p) \in 1..n
  BY <1>1, MaxOfPositions
<1>5. WorstLow(s) = fold[1..n]
  <2>1. WorstLow(s) = fold[DOMAIN s]
    <3>1. DOMAIN s = 1..n  BY <1>1
    <3> QED  BY <3>1, Zenon DEF WorstLow, ListLow, FoldLeft, MapThenFoldSet
  <2> QED  BY <1>1, <2>1
<1>6. base = <<>>  OBVIOUS
<1> HIDE DEF V, n, base, step, Computes, fold
<1>7. \E it : Computes(it)
  <2>1. PICK it \in [SUBSET (1..n) -> V] : Folds(it, n, base, step)
    BY <1>1, <1>2, FoldExists
  <2>2. ASSUME NEW p \in SUBSET (1..n), p # {}
        PROVE  it[p] = ListLow(it[p \ {Max(p)}], s[Max(p)])
    <3>1. it[p \ {Max(p)}] \in V  OBVIOUS
    <3>2. it[p] = step[Max(p)][it[p \ {Max(p)}]]  BY <2>1, <2>2 DEF Folds
    <3> QED  BY <1>3, <1>4, <2>2, <3>1, <3>2
  <2>3. it[{}] = <<>>  BY <1>6, <2>1 DEF Folds
  <2>4. Computes(it)  BY <2>2, <2>3 DEF Computes
  <2> QED  BY <2>4
<1>8. Computes(fold)  BY <1>7 DEF fold
<1>9. fold[{}] = base  BY <1>6, <1>8 DEF Computes
<1>10. ASSUME NEW p \in SUBSET (1..n), p # {}, fold[p \ {Max(p)}] \in V
       PROVE  fold[p] = step[Max(p)][fold[p \ {Max(p)}]]
  <2>1. fold[p] = ListLow(fold[p \ {Max(p)}], s[Max(p)])
    BY <1>8, <1>10 DEF Computes
  <2> QED  BY <1>3, <1>4, <1>10, <2>1
<1>11. FoldsIn(V, fold, n, base, step)  BY <1>9, <1>10 DEF FoldsIn
<1>12. PICK g \in [0..n -> V] : /\ g[0] = base /\ g[n] = fold[1..n]
                              /\ \A i \in 1..n : g[i] = step[i][g[i - 1]]
  <2>1. \E g \in [0..n -> V] : Leads(g, n, base, step, fold[1..n])
    BY <1>1, <1>2, <1>11, FoldChain
  <2> QED  BY <2>1 DEF Leads
<1>13. ASSUME NEW i \in 1..n PROVE g[i] = ListLow(g[i - 1], s[i])
  <2>1. g[i - 1] \in V  BY <1>1
  <2> QED  BY <1>3, <1>12, <2>1
<1> QED  BY <1>5, <1>6, <1>12, <1>13 DEF V, n

-----------------------------------------------------------------------------
(* What the folds give for one verdict more.                                *)

LEMMA PrefixSteps ==
  ASSUME NEW s \in Seq(Verdict)
  PROVE  /\ SubSeq(s, 1, 0) = <<>> /\ SubSeq(s, 1, Len(s)) = s
         /\ \A i \in 1..Len(s) : /\ SubSeq(s, 1, i - 1) \in Seq(Verdict) /\ s[i] \in Verdict
                                 /\ SubSeq(s, 1, i) = Append(SubSeq(s, 1, i - 1), s[i])
<1>1. SubSeq(s, 1, 0) = <<>> /\ SubSeq(s, 1, Len(s)) = s  OBVIOUS
<1>2. ASSUME NEW i \in 1..Len(s)
      PROVE  /\ SubSeq(s, 1, i - 1) \in Seq(Verdict) /\ s[i] \in Verdict
             /\ SubSeq(s, 1, i) = Append(SubSeq(s, 1, i - 1), s[i])
  <2>1. Len(s) \in Nat /\ i \in Nat  OBVIOUS
  <2>2. SubSeq(s, 1, i - 1) \in Seq(Verdict) /\ s[i] \in Verdict  BY <2>1
  <2>3. SubSeq(s, 1, i) = Append(SubSeq(s, 1, i - 1), s[i])  BY <2>1
  <2> QED  BY <2>2, <2>3
<1> QED  BY <1>1, <1>2

LEMMA Appended ==
  ASSUME NEW s \in Seq(Verdict), NEW v \in Verdict
  PROVE  /\ Append(s, v) \in Seq(Verdict) /\ Len(Append(s, v)) = Len(s) + 1 /\ Len(s) \in Nat
         /\ DOMAIN s = 1..Len(s) /\ DOMAIN Append(s, v) = 1..(Len(s) + 1)
         /\ \A i \in 1..Len(s) : Append(s, v)[i] = s[i]
         /\ Append(s, v)[Len(s) + 1] = v
OBVIOUS

LEMMA TotalTyped ==
  ASSUME NEW s \in Seq(Verdict)
  PROVE  ScoreTotal(s) \in Nat
<1>1. Len(s) \in Nat  OBVIOUS
<1> QED  BY <1>1, TotalIs

LEMMA TotalNone == ScoreTotal(<<>>) = 0
<1>1. <<>> \in Seq(Verdict) /\ Len(<<>>) = 0  OBVIOUS
<1> QED  BY <1>1, TotalIs

LEMMA TotalMore ==
  ASSUME NEW s \in Seq(Verdict), NEW v \in Verdict
  PROVE  ScoreTotal(Append(s, v)) = ScoreTotal(s) + v.score
<1> DEFINE n == Len(s)
<1>0. n \in Nat /\ n + 1 \in Nat  OBVIOUS
<1>1. PICK g \in [0..n -> Nat] : /\ g[0] = 0 /\ g[n] = ScoreTotal(s)
                                 /\ \A i \in 1..n : g[i] = g[i - 1] + s[i].score
  BY TotalIs
<1>2. PICK m : m = Append(s, v)  OBVIOUS
<1>3. m \in Seq(Verdict) /\ Len(m) = n + 1 /\ m[n + 1] = v /\ \A i \in 1..n : m[i] = s[i]
  BY <1>2, Appended
<1> HIDE DEF n
<1>t. \E h \in [0..Len(m) -> Nat] : /\ h[0] = 0 /\ h[Len(m)] = ScoreTotal(m)
                                   /\ \A i \in 1..Len(m) : h[i] = h[i - 1] + m[i].score
  BY <1>3, TotalIs
<1>4. PICK h \in [0..(n + 1) -> Nat] : /\ h[0] = 0 /\ h[n + 1] = ScoreTotal(m)
                                       /\ \A i \in 1..(n + 1) : h[i] = h[i - 1] + m[i].score
  BY <1>3, <1>t, Zenon
<1> DEFINE P == {i \in 0..n : h[i] = g[i]}
<1>5. 0 \in P  BY <1>0, <1>1, <1>4
<1>6. ASSUME NEW i \in 1..n, i - 1 \in P PROVE i \in P
  <2>1. i \in 1..(n + 1) /\ i \in 0..n  BY <1>0
  <2>2. h[i] = h[i - 1] + m[i].score  BY <1>4, <2>1
  <2>3. g[i] = g[i - 1] + s[i].score  BY <1>1
  <2> QED  BY <1>3, <1>6, <2>1, <2>2, <2>3
<1>7. h[n] = g[n]
  <2> HIDE DEF P
  <2>1. \A i \in 1..n : i - 1 \in P => i \in P  BY <1>6
  <2>2. \A i \in 0..n : i \in P  BY <1>0, <1>5, <2>1, InductionUpTo
  <2>3. n \in 0..n  BY <1>0
  <2>4. n \in P  BY <2>2, <2>3
  <2> QED  BY <2>4 DEF P
<1>8. h[n + 1] = h[n] + v.score
  <2>1. n + 1 \in 1..(n + 1) /\ (n + 1) - 1 = n  BY <1>0
  <2> QED  BY <1>3, <1>4, <2>1
<1> QED  BY <1>1, <1>2, <1>4, <1>7, <1>8

LEMMA WorstTyped ==
  ASSUME NEW s \in Seq(Verdict)
  PROVE  Worst(s) \in Seq(Verdict)
<1>1. Len(s) \in Nat  OBVIOUS
<1>2. PICK g \in [0..Len(s) -> Seq(Verdict)] : g[Len(s)] = Worst(s)  BY WorstIs
<1>3. Len(s) \in 0..Len(s)  BY <1>1
<1> QED  BY <1>2, <1>3

(* How many low verdicts of a list score at most x.                         *)
LowAtMost(s, x) == {i \in DOMAIN s : Low(s[i]) /\ s[i].score <= x}
LowTally(s) == [x \in Scale |-> Cardinality(LowAtMost(s, x))]

LEMMA LowFinite ==
  ASSUME NEW s \in Seq(Verdict), NEW x
  PROVE  IsFiniteSet(LowAtMost(s, x)) /\ Cardinality(LowAtMost(s, x)) \in Nat
<1>1. DOMAIN s = 1..Len(s) /\ Len(s) \in Nat  OBVIOUS
<1>2. IsFiniteSet(1..Len(s))  BY <1>1, FS_Interval
<1>3. LowAtMost(s, x) \in SUBSET (1..Len(s))  BY <1>1 DEF LowAtMost
<1>4. IsFiniteSet(LowAtMost(s, x))  BY <1>2, <1>3, FS_Subset
<1> QED  BY <1>4, FS_CardinalityType

LEMMA LowNone == LowTally(<<>>) = [x \in Scale |-> 0]
<1>1. \A x : LowAtMost(<<>>, x) = {}  BY DEF LowAtMost
<1> QED  BY <1>1, FS_EmptySet DEF LowTally

LEMMA LowMore ==
  ASSUME NEW s \in Seq(Verdict), NEW v \in Verdict
  PROVE  LowTally(Append(s, v)) = IF Low(v) THEN Counting(LowTally(s), v) ELSE LowTally(s)
<1>1. PICK m : m = Append(s, v)  OBVIOUS
<1>2. PICK n \in Nat : n = Len(s)  OBVIOUS
<1>3. /\ DOMAIN s = 1..n /\ DOMAIN m = 1..(n + 1) /\ m[n + 1] = v
      /\ \A i \in 1..n : m[i] = s[i]
  BY <1>1, <1>2, Appended
<1>4. ASSUME NEW x \in Scale
      PROVE  Cardinality(LowAtMost(m, x)) =
               Cardinality(LowAtMost(s, x)) + IF Low(v) /\ v.score <= x THEN 1 ELSE 0
  <2>1. n + 1 \notin LowAtMost(s, x)  BY <1>3 DEF LowAtMost
  <2>2. LowAtMost(m, x) = LowAtMost(s, x) \cup (IF Low(v) /\ v.score <= x THEN {n + 1} ELSE {})
    BY <1>3 DEF LowAtMost
  <2>3. IsFiniteSet(LowAtMost(s, x)) /\ Cardinality(LowAtMost(s, x)) \in Nat  BY LowFinite
  <2>4. CASE Low(v) /\ v.score <= x
    <3>1. LowAtMost(m, x) = LowAtMost(s, x) \cup {n + 1}  BY <2>2, <2>4
    <3>2. Cardinality(LowAtMost(s, x) \cup {n + 1}) = Cardinality(LowAtMost(s, x)) + 1
      BY <2>1, <2>3, FS_AddElement
    <3> QED  BY <2>4, <3>1, <3>2
  <2>5. CASE ~(Low(v) /\ v.score <= x)
    <3>1. LowAtMost(m, x) = LowAtMost(s, x)  BY <2>2, <2>5
    <3> QED  BY <2>3, <2>5, <3>1
  <2> QED  BY <2>4, <2>5
<1>5. LowTally(m) = [x \in Scale |-> Cardinality(LowAtMost(s, x)) +
                                     IF Low(v) /\ v.score <= x THEN 1 ELSE 0]
  BY <1>4 DEF LowTally
<1>6. CASE Low(v)
  BY <1>1, <1>5, <1>6 DEF LowTally, Counting
<1>7. CASE ~Low(v)
  <2>1. \A x \in Scale : Cardinality(LowAtMost(s, x)) \in Nat  BY LowFinite
  <2>2. \A x \in Scale : Cardinality(LowAtMost(s, x)) +
                           (IF Low(v) /\ v.score <= x THEN 1 ELSE 0) = Cardinality(LowAtMost(s, x))
    BY <1>7, <2>1
  <2> QED  BY <1>1, <1>5, <1>7, <2>2 DEF LowTally
<1> QED  BY <1>6, <1>7

(* The reference list holds the low verdicts, sorted.                       *)
LEMMA WorstLowLists ==
  ASSUME NEW s \in Seq(Verdict)
  PROVE  Lists(WorstLow(s), LowTally(s)[100], LowTally(s))
<1>1. PICK n \in Nat : n = Len(s)  OBVIOUS
<1>2. PICK g \in [0..n -> Seq(Verdict)] :
            /\ g[0] = <<>> /\ g[n] = WorstLow(s)
            /\ \A i \in 1..n : g[i] = ListLow(g[i - 1], s[i])
  BY <1>1, WorstLowIs
<1>p. /\ SubSeq(s, 1, 0) = <<>> /\ SubSeq(s, 1, n) = s
      /\ \A i \in 1..n : /\ SubSeq(s, 1, i - 1) \in Seq(Verdict) /\ s[i] \in Verdict
                          /\ SubSeq(s, 1, i) = Append(SubSeq(s, 1, i - 1), s[i])
  BY <1>1, PrefixSteps
<1> DEFINE c(i) == LowTally(SubSeq(s, 1, i))
           P == {i \in 0..n : Lists(g[i], c(i)[100], c(i))}
<1>3. 0 \in P
  <2>1. c(0) = [x \in Scale |-> 0]
    <3> HIDE DEF P
    <3> QED  BY LowNone, <1>p
  <2>2. Lists(<<>>, 0, c(0))  BY <2>1, ListsNone
  <2>3. c(0)[100] = 0  BY <2>1, ScaleIs
  <2>4. Lists(g[0], c(0)[100], c(0))  BY <1>2, <2>2, <2>3
  <2> QED  BY <2>4
<1>4. ASSUME NEW i \in 1..n, i - 1 \in P PROVE i \in P
  <2>1. /\ SubSeq(s, 1, i - 1) \in Seq(Verdict) /\ s[i] \in Verdict
        /\ SubSeq(s, 1, i) = Append(SubSeq(s, 1, i - 1), s[i])
    <3> HIDE DEF P
    <3> QED  BY <1>p
  <2>2. c(i) = IF Low(s[i]) THEN Counting(c(i - 1), s[i]) ELSE c(i - 1)
    BY <2>1, LowMore
  <2>3. g[i] = IF Low(s[i]) THEN ByScore(g[i - 1], s[i]) ELSE g[i - 1]
    BY <1>2 DEF ListLow
  <2>4. PICK t : t = g[i - 1]  OBVIOUS
  <2>5. PICK d : d = c(i - 1)  OBVIOUS
  <2>6. Lists(t, d[100], d)  BY <1>4, <2>4, <2>5
  <2>7. Lists(ByScore(t, s[i]), Counting(d, s[i])[100], Counting(d, s[i]))
    BY <2>1, <2>6, ListsAllMore
  <2>8. Lists(g[i], c(i)[100], c(i))
    <3> HIDE DEF c
    <3>1. CASE Low(s[i])  BY <2>2, <2>3, <2>4, <2>5, <2>7, <3>1
    <3>2. CASE ~Low(s[i])  BY <2>2, <2>3, <2>4, <2>5, <2>6, <3>2
    <3> QED  BY <3>1, <3>2
  <2> QED  BY <2>8
<1>5. n \in P
  <2> HIDE DEF P
  <2>1. \A i \in 1..n : i - 1 \in P => i \in P  BY <1>4
  <2>2. \A i \in 0..n : i \in P  BY <1>3, <2>1, InductionUpTo
  <2> QED  BY <2>2
<1>6. c(n) = LowTally(s)
  <2> HIDE DEF P
  <2> QED  BY <1>p
<1> QED  BY <1>2, <1>5, <1>6

-----------------------------------------------------------------------------
(* The two writes of an update, field by field.                             *)

LEMMA FieldsIs ==
  /\ \A st \in Statuses : FieldOf(st) \in Fields
  /\ \A st, su \in Statuses : FieldOf(st) = FieldOf(su) => st = su
  /\ FieldOf("Compliant") = "inSync" /\ FieldOf("Under Review") = "reviewing"
  /\ FieldOf("Non-Compliant") = "deviation"
  BY DEF FieldOf, Fields, Statuses

LEMMA DocumentIs ==
  ASSUME NEW d \in Document
  PROVE  /\ d.counts \in [Categories -> Nat] /\ d.integrity \in [Fields -> Nat]
         /\ d.scoreSum \in Nat /\ d.scoreCount \in Nat
         /\ d.analyzed \in Seq(Verdict) /\ d.notable \in Seq(Verdict) /\ d.dirty \in BOOLEAN
  BY DEF Document

LEMMA VerdictIs ==
  ASSUME NEW v \in Verdict
  PROVE  /\ v.score \in 0..100 /\ v.status \in Statuses /\ v.category \in Categories
         /\ FieldOf(v.status) \in Fields
<1>1. v.score \in 0..100 /\ v.status \in Statuses /\ v.category \in Categories
  BY DEF Verdict
<1> QED  BY <1>1, FieldsIs

LEMMA PushedIs ==
  ASSUME NEW d \in Document, NEW v \in Verdict
  PROVE  /\ Pushed(d, v) \in Document
         /\ Pushed(d, v).counts = [d.counts EXCEPT ![v.category] = @ + 1]
         /\ Pushed(d, v).integrity = [d.integrity EXCEPT ![FieldOf(v.status)] = @ + 1]
         /\ Pushed(d, v).scoreSum = d.scoreSum + v.score
         /\ Pushed(d, v).scoreCount = d.scoreCount + 1
         /\ Pushed(d, v).analyzed = Append(d.analyzed, v)
         /\ Pushed(d, v).notable = d.notable /\ Pushed(d, v).dirty = TRUE
<1> DEFINE f  == FieldOf(v.status)
           co == [d.counts EXCEPT ![v.category] = @ + 1]
           in == [d.integrity EXCEPT ![f] = @ + 1]
           su == d.scoreSum + v.score
           n  == d.scoreCount + 1
           an == Append(d.analyzed, v)
<1>1. f \in Fields /\ v.category \in Categories /\ v.score \in Nat
  BY VerdictIs, ScoreRange
<1>2. co \in [Categories -> Nat] /\ in \in [Fields -> Nat]
  <2> HIDE DEF f
  <2>1. d.counts \in [Categories -> Nat] /\ d.integrity \in [Fields -> Nat]  BY DocumentIs
  <2> QED  BY <1>1, <2>1
<1>3. su \in Nat /\ n \in Nat  BY <1>1, DocumentIs
<1>4. an \in Seq(Verdict)  BY DocumentIs
<1>e. Pushed(d, v) = [d EXCEPT !.counts = co, !.integrity = in, !.scoreSum = su,
                               !.scoreCount = n, !.analyzed = an, !.dirty = TRUE]
  BY DEF Pushed
<1> HIDE DEF f, co, in, su, n, an
<1>5. /\ Pushed(d, v).counts = co /\ Pushed(d, v).integrity = in
      /\ Pushed(d, v).scoreSum = su /\ Pushed(d, v).scoreCount = n
      /\ Pushed(d, v).analyzed = an /\ Pushed(d, v).notable = d.notable
      /\ Pushed(d, v).dirty = TRUE
      /\ Pushed(d, v) = [counts |-> co, integrity |-> in, scoreSum |-> su, scoreCount |-> n,
                         analyzed |-> an, notable |-> d.notable, dirty |-> TRUE]
  BY <1>e DEF Document
<1>6. d.notable \in Seq(Verdict)  BY DocumentIs
<1>7. Pushed(d, v) \in Document  BY <1>2, <1>3, <1>4, <1>5, <1>6 DEF Document
<1> QED  BY <1>5, <1>7 DEF f, co, in, su, n, an

LEMMA ListedIs ==
  ASSUME NEW d \in Document, NEW v \in Verdict
  PROVE  /\ Listed(d, v) \in Document
         /\ Listed(d, v).counts = d.counts /\ Listed(d, v).integrity = d.integrity
         /\ Listed(d, v).scoreSum = d.scoreSum /\ Listed(d, v).scoreCount = d.scoreCount
         /\ Listed(d, v).analyzed = d.analyzed /\ Listed(d, v).dirty = d.dirty
         /\ Listed(d, v).notable = Upto(NotableCap, ByScore(d.notable, v))
<1> DEFINE no == Upto(NotableCap, ByScore(d.notable, v))
<1>1. no \in Seq(Verdict)
  <2>1. NotableCap \in Nat  BY AuditConstants
  <2>2. ByScore(d.notable, v) \in Seq(Verdict)  BY DocumentIs, ByScoreTyped
  <2> QED  BY <2>1, <2>2, UptoIs
<1>2. Listed(d, v) = [d EXCEPT !.notable = no]  BY DEF Listed
<1> HIDE DEF no
<1>3. /\ Listed(d, v) \in Document
      /\ Listed(d, v).counts = d.counts /\ Listed(d, v).integrity = d.integrity
      /\ Listed(d, v).scoreSum = d.scoreSum /\ Listed(d, v).scoreCount = d.scoreCount
      /\ Listed(d, v).analyzed = d.analyzed /\ Listed(d, v).dirty = d.dirty
      /\ Listed(d, v).notable = no
  BY <1>1, <1>2 DEF Document
<1> QED  BY <1>3 DEF no

LEMMA ZeroIs ==
  /\ ZeroState \in Document
  /\ ZeroState.counts = [c \in Categories |-> 0] /\ ZeroState.integrity = [f \in Fields |-> 0]
  /\ ZeroState.scoreSum = 0 /\ ZeroState.scoreCount = 0
  /\ ZeroState.analyzed = <<>> /\ ZeroState.notable = <<>> /\ ZeroState.dirty = FALSE
<1> DEFINE co == [c \in Categories |-> 0]
           in == [f \in Fields |-> 0]
<1>1. co \in [Categories -> Nat] /\ in \in [Fields -> Nat] /\ <<>> \in Seq(Verdict)  OBVIOUS
<1>2. ZeroState = [counts |-> co, integrity |-> in, scoreSum |-> 0, scoreCount |-> 0,
                   analyzed |-> <<>>, notable |-> <<>>, dirty |-> FALSE]
  BY DEF ZeroState
<1> HIDE DEF co, in
<1>3. ZeroState \in Document  BY <1>1, <1>2 DEF Document
<1> QED  BY <1>2, <1>3 DEF co, in

-----------------------------------------------------------------------------
(* The document an earlier release left, one verdict at a time.             *)

InheritOne(d, v) == [(IF Low(v) THEN Listed(Pushed(d, v), v) ELSE Pushed(d, v))
                         EXCEPT !.analyzed = <<>>]

LEMMA InheritOneIs ==
  ASSUME NEW d \in Document, NEW v \in Verdict
  PROVE  /\ InheritOne(d, v) \in Document
         /\ InheritOne(d, v).counts = [d.counts EXCEPT ![v.category] = @ + 1]
         /\ InheritOne(d, v).integrity = [d.integrity EXCEPT ![FieldOf(v.status)] = @ + 1]
         /\ InheritOne(d, v).scoreSum = d.scoreSum + v.score
         /\ InheritOne(d, v).scoreCount = d.scoreCount + 1
         /\ InheritOne(d, v).analyzed = <<>>
         /\ InheritOne(d, v).notable = IF Low(v) THEN Upto(NotableCap, ByScore(d.notable, v))
                                                 ELSE d.notable
<1>1. PICK p : p = Pushed(d, v)  OBVIOUS
<1>2. /\ p \in Document
      /\ p.counts = [d.counts EXCEPT ![v.category] = @ + 1]
      /\ p.integrity = [d.integrity EXCEPT ![FieldOf(v.status)] = @ + 1]
      /\ p.scoreSum = d.scoreSum + v.score /\ p.scoreCount = d.scoreCount + 1
      /\ p.notable = d.notable
  BY <1>1, PushedIs
<1>3. PICK l : l = IF Low(v) THEN Listed(p, v) ELSE p  OBVIOUS
<1>4. /\ l \in Document
      /\ l.counts = p.counts /\ l.integrity = p.integrity
      /\ l.scoreSum = p.scoreSum /\ l.scoreCount = p.scoreCount
      /\ l.notable = IF Low(v) THEN Upto(NotableCap, ByScore(p.notable, v)) ELSE p.notable
  <2>1. CASE Low(v)  BY <1>2, <1>3, <2>1, ListedIs
  <2>2. CASE ~Low(v)  BY <1>2, <1>3, <2>2
  <2> QED  BY <2>1, <2>2
<1>5. InheritOne(d, v) = [l EXCEPT !.analyzed = <<>>]  BY <1>1, <1>3 DEF InheritOne
<1>6. PICK m : m = [l EXCEPT !.analyzed = <<>>]  OBVIOUS
<1>7. /\ m \in Document
      /\ m.counts = l.counts /\ m.integrity = l.integrity
      /\ m.scoreSum = l.scoreSum /\ m.scoreCount = l.scoreCount
      /\ m.notable = l.notable /\ m.analyzed = <<>>
  <2>1. <<>> \in Seq(Verdict)  OBVIOUS
  <2> QED  BY <1>4, <1>6, <2>1 DEF Document
<1>8. InheritOne(d, v) = m  BY <1>5, <1>6
<1> QED  BY <1>2, <1>4, <1>7, <1>8, Zenon

LEMMA InheritedIs ==
  ASSUME NEW s \in Seq(Verdict)
  PROVE  \E g \in [0..Len(s) -> Document] :
            /\ g[0] = ZeroState /\ g[Len(s)] = Inherited(s)
            /\ \A i \in 1..Len(s) : g[i] = InheritOne(g[i - 1], s[i])
<1> DEFINE n == Len(s)
           V == Document
           base == ZeroState
           step == [i \in 1..n |-> [y \in V |-> InheritOne(y, s[i])]]
           Computes(it) == it = [p \in SUBSET (1..n) |->
                                IF p = {} THEN ZeroState
                                ELSE InheritOne(it[p \ {Max(p)}], s[Max(p)])]
           fold == CHOOSE it : Computes(it)
<1>1. n \in Nat /\ DOMAIN s = 1..n /\ base \in V /\ \A i \in 1..n : s[i] \in Verdict
  BY ZeroIs
<1>2. step \in [1..n -> [V -> V]]
  <2>1. \A i \in 1..n : \A y \in V : InheritOne(y, s[i]) \in V  BY <1>1, InheritOneIs
  <2> HIDE DEF V, n
  <2> QED  BY <2>1
<1>3. \A i \in 1..n : \A y \in V : step[i][y] = InheritOne(y, s[i])
  <2> HIDE DEF V, n
  <2> QED  OBVIOUS
<1>4. \A p \in SUBSET (1..n) : p # {} => Max(p) \in 1..n
  BY <1>1, MaxOfPositions
<1>5. Inherited(s) = fold[1..n]
  <2>1. Inherited(s) = fold[DOMAIN s]
    <3>1. DOMAIN s = 1..n  BY <1>1
    <3> QED  BY <3>1, Zenon DEF Inherited, InheritOne, FoldLeft, MapThenFoldSet
  <2> QED  BY <1>1, <2>1
<1>6. base = ZeroState  OBVIOUS
<1> HIDE DEF V, n, base, step, Computes, fold
<1>7. \E it : Computes(it)
  <2>1. PICK it \in [SUBSET (1..n) -> V] : Folds(it, n, base, step)
    BY <1>1, <1>2, FoldExists
  <2>2. ASSUME NEW p \in SUBSET (1..n), p # {}
        PROVE  it[p] = InheritOne(it[p \ {Max(p)}], s[Max(p)])
    <3>1. it[p \ {Max(p)}] \in V  OBVIOUS
    <3>2. it[p] = step[Max(p)][it[p \ {Max(p)}]]  BY <2>1, <2>2 DEF Folds
    <3> QED  BY <1>3, <1>4, <2>2, <3>1, <3>2
  <2>3. it[{}] = ZeroState  BY <1>6, <2>1 DEF Folds
  <2>4. Computes(it)  BY <2>2, <2>3 DEF Computes
  <2> QED  BY <2>4
<1>8. Computes(fold)  BY <1>7 DEF fold
<1>9. fold[{}] = base  BY <1>6, <1>8 DEF Computes
<1>10. ASSUME NEW p \in SUBSET (1..n), p # {}, fold[p \ {Max(p)}] \in V
       PROVE  fold[p] = step[Max(p)][fold[p \ {Max(p)}]]
  <2>1. fold[p] = InheritOne(fold[p \ {Max(p)}], s[Max(p)])
    BY <1>8, <1>10 DEF Computes
  <2> QED  BY <1>3, <1>4, <1>10, <2>1
<1>11. FoldsIn(V, fold, n, base, step)  BY <1>9, <1>10 DEF FoldsIn
<1>12. PICK g \in [0..n -> V] : /\ g[0] = base /\ g[n] = fold[1..n]
                              /\ \A i \in 1..n : g[i] = step[i][g[i - 1]]
  <2>1. \E g \in [0..n -> V] : Leads(g, n, base, step, fold[1..n])
    BY <1>1, <1>2, <1>11, FoldChain
  <2> QED  BY <2>1 DEF Leads
<1>13. ASSUME NEW i \in 1..n PROVE g[i] = InheritOne(g[i - 1], s[i])
  <2>1. g[i - 1] \in V  BY <1>1
  <2> QED  BY <1>3, <1>12, <2>1
<1> QED  BY <1>5, <1>6, <1>12, <1>13 DEF V, n

-----------------------------------------------------------------------------
(* The average is a score.                                                  *)

LEMMA Division ==
  ASSUME NEW a \in Nat, NEW b \in Nat \ {0}
  PROVE  /\ a \div b \in Nat /\ a % b \in Nat /\ a % b < b
         /\ a = b * (a \div b) + (a % b)
<1>1. a \div b \in Int /\ a % b \in Int /\ a % b >= 0 /\ a % b < b  OBVIOUS
<1>2. a = b * (a \div b) + (a % b)  OBVIOUS
<1>3. a \div b >= 0  BY <1>1, <1>2
<1> QED  BY <1>1, <1>2, <1>3

LEMMA AverageIs ==
  ASSUME NEW a \in Nat, NEW b \in Nat, a <= 100 * b
  PROVE  Average(a, b) \in 0..100
<1>1. CASE b = 0  BY <1>1 DEF Average
<1>2. CASE b # 0
  <2>1. PICK q, r : q = a \div b /\ r = a % b  OBVIOUS
  <2>2. q \in Nat /\ r \in Nat /\ r < b /\ a = b * q + r  BY <1>2, <2>1, Division
  <2>3. q <= 100
    <3>1. SUFFICES ASSUME q >= 101 PROVE FALSE  BY <2>2
    <3>2. b * q >= b * 101  BY <2>2, <3>1
    <3> QED  BY <1>2, <2>2, <3>2
  <2>4. q = 100 => r = 0  BY <2>2
  <2>5. Average(a, b) = IF 2 * r < b \/ (2 * r = b /\ q % 2 = 0) THEN q ELSE q + 1
    BY <1>2, <2>1 DEF Average, Round
  <2>6. q = 100 => Average(a, b) = q  BY <1>2, <2>4, <2>5
  <2> QED  BY <2>2, <2>3, <2>5, <2>6
<1> QED  BY <1>1, <1>2

(* Half to even: the average is the nearest integer.                        *)
LEMMA AverageNearest ==
  ASSUME NEW a \in Nat, NEW b \in Nat \ {0}
  PROVE  Nearest(Average(a, b), a, b)
<1>1. PICK q, r : q = a \div b /\ r = a % b  OBVIOUS
<1>2. q \in Nat /\ r \in Nat /\ r < b /\ a = b * q + r  BY <1>1, Division
<1>3. PICK m : m = Average(a, b)  OBVIOUS
<1>4. m = IF 2 * r < b \/ (2 * r = b /\ q % 2 = 0) THEN q ELSE q + 1
  BY <1>1, <1>3 DEF Average, Round
<1>5. CASE m = q
  <2>1. 2 * r < b \/ (2 * r = b /\ q % 2 = 0)  BY <1>2, <1>4, <1>5
  <2>2. m * b - a = -r  BY <1>2, <1>5
  <2>3. 2 * (m * b - a) = -(2 * r)  BY <1>2, <2>2
  <2> QED  BY <1>2, <1>3, <1>5, <2>1, <2>3 DEF Nearest
<1>6. CASE m = q + 1
  <2>1. 2 * r > b \/ (2 * r = b /\ q % 2 # 0)  BY <1>2, <1>4, <1>6
  <2>2. m * b = b * q + b  BY <1>2, <1>6
  <2>3. m * b - a = b - r  BY <1>2, <2>2
  <2>4. 2 * (m * b - a) = 2 * b - 2 * r  BY <1>2, <2>3
  <2>5. q % 2 # 0 => m % 2 = 0  BY <1>2, <1>6
  <2> QED  BY <1>2, <1>3, <2>1, <2>4, <2>5 DEF Nearest
<1> QED  BY <1>4, <1>5, <1>6

-----------------------------------------------------------------------------
(* The counters of a document tell of a list of verdicts.                   *)

Tallies(d, s) ==
    /\ d.scoreSum = ScoreTotal(s) /\ d.scoreCount = Len(s)
    /\ \A c \in Categories : d.counts[c] > 0 <=> \E v \in ToSet(s) : v.category = c
    /\ \A st \in Statuses : d.integrity[FieldOf(st)] > 0 <=> \E v \in ToSet(s) : v.status = st

LEMMA ToSetMore ==
  ASSUME NEW s \in Seq(Verdict), NEW v \in Verdict
  PROVE  ToSet(Append(s, v)) = ToSet(s) \cup {v}
<1>1. PICK m : m = Append(s, v)  OBVIOUS
<1>2. PICK n \in Nat : n = Len(s)  OBVIOUS
<1>3. /\ DOMAIN s = 1..n /\ DOMAIN m = 1..(n + 1) /\ m[n + 1] = v
      /\ \A i \in 1..n : m[i] = s[i]
  BY <1>1, <1>2, Appended
<1>4. 1..(n + 1) = (1..n) \cup {n + 1}  OBVIOUS
<1>5. {m[i] : i \in 1..(n + 1)} = {s[i] : i \in 1..n} \cup {v}  BY <1>3, <1>4
<1> QED  BY <1>1, <1>3, <1>5 DEF ToSet

LEMMA TalliesNone == Tallies(ZeroState, <<>>)
<1>1. ToSet(<<>>) = {} /\ Len(<<>>) = 0  BY DEF ToSet
<1>2. \A c \in Categories : ZeroState.counts[c] = 0  BY ZeroIs
<1>3. \A st \in Statuses : ZeroState.integrity[FieldOf(st)] = 0  BY ZeroIs, FieldsIs
<1> QED  BY <1>1, <1>2, <1>3, ZeroIs, TotalNone DEF Tallies

(* One verdict counted.                                                     *)
LEMMA TalliesMore ==
  ASSUME NEW d \in Document, NEW e, NEW s \in Seq(Verdict), NEW v \in Verdict, Tallies(d, s),
         e.counts = [d.counts EXCEPT ![v.category] = @ + 1],
         e.integrity = [d.integrity EXCEPT ![FieldOf(v.status)] = @ + 1],
         e.scoreSum = d.scoreSum + v.score,
         e.scoreCount = d.scoreCount + 1
  PROVE  Tallies(e, Append(s, v))
<1>1. d.counts \in [Categories -> Nat] /\ d.integrity \in [Fields -> Nat]  BY DocumentIs
<1>2. v.category \in Categories /\ v.status \in Statuses /\ FieldOf(v.status) \in Fields
  BY VerdictIs
<1>3. PICK m : m = Append(s, v)  OBVIOUS
<1>4. ToSet(m) = ToSet(s) \cup {v}  BY <1>3, ToSetMore
<1>5. Len(m) = Len(s) + 1  BY <1>3, Appended
<1>6. ScoreTotal(m) = ScoreTotal(s) + v.score  BY <1>3, TotalMore
<1>7. ASSUME NEW c \in Categories
      PROVE  e.counts[c] > 0 <=> \E w \in ToSet(m) : w.category = c
  <2>1. d.counts[c] > 0 <=> \E w \in ToSet(s) : w.category = c  BY DEF Tallies
  <2>2. d.counts[c] \in Nat  BY <1>1
  <2>3. e.counts[c] = IF c = v.category THEN d.counts[c] + 1 ELSE d.counts[c]  BY <1>1, <1>2
  <2>4. e.counts[c] > 0 <=> d.counts[c] > 0 \/ c = v.category  BY <2>2, <2>3
  <2> QED  BY <1>4, <2>1, <2>4
<1>8. ASSUME NEW st \in Statuses
      PROVE  e.integrity[FieldOf(st)] > 0 <=> \E w \in ToSet(m) : w.status = st
  <2>0. PICK f \in Fields : f = FieldOf(st)  BY FieldsIs
  <2>1. d.integrity[f] > 0 <=> \E w \in ToSet(s) : w.status = st  BY <2>0 DEF Tallies
  <2>2. d.integrity[f] \in Nat  BY <1>1
  <2>3. e.integrity[f] = IF f = FieldOf(v.status) THEN d.integrity[f] + 1 ELSE d.integrity[f]
    BY <1>1, <1>2
  <2>4. f = FieldOf(v.status) <=> st = v.status  BY <1>2, <2>0, FieldsIs
  <2>5. e.integrity[f] > 0 <=> d.integrity[f] > 0 \/ st = v.status  BY <2>2, <2>3, <2>4
  <2> QED  BY <1>4, <2>0, <2>1, <2>5
<1>9. e.scoreSum = ScoreTotal(m) /\ e.scoreCount = Len(m)  BY <1>5, <1>6 DEF Tallies
<1>10. Tallies(e, m)  BY <1>7, <1>8, <1>9 DEF Tallies
<1> QED  BY <1>3, <1>10

(* The document an earlier release left tells of what it counted, and lists *)
(* the worst of it.                                                         *)
LEMMA InheritedTells ==
  ASSUME NEW s \in Seq(Verdict)
  PROVE  /\ Inherited(s) \in Document /\ Inherited(s).analyzed = <<>>
         /\ Tallies(Inherited(s), s)
         /\ Lists(Inherited(s).notable, NotableCap, LowTally(s))
<1>1. PICK n \in Nat : n = Len(s)  OBVIOUS
<1>2. PICK g \in [0..n -> Document] :
            /\ g[0] = ZeroState /\ g[n] = Inherited(s)
            /\ \A i \in 1..n : g[i] = InheritOne(g[i - 1], s[i])
  BY <1>1, InheritedIs
<1>3. PICK pre : /\ pre[0] = <<>> /\ pre[n] = s
                 /\ \A i \in 1..n : /\ pre[i - 1] \in Seq(Verdict) /\ s[i] \in Verdict
                                    /\ pre[i] = Append(pre[i - 1], s[i])
  <2> DEFINE pre == [i \in 0..n |-> SubSeq(s, 1, i)]
  <2>1. pre[0] = <<>> /\ pre[n] = s  BY <1>1, PrefixSteps
  <2>2. ASSUME NEW i \in 1..n
        PROVE  pre[i - 1] \in Seq(Verdict) /\ s[i] \in Verdict /\ pre[i] = Append(pre[i - 1], s[i])
    <3>1. pre[i] = SubSeq(s, 1, i) /\ pre[i - 1] = SubSeq(s, 1, i - 1)  OBVIOUS
    <3> HIDE DEF pre
    <3>2. /\ SubSeq(s, 1, i - 1) \in Seq(Verdict) /\ s[i] \in Verdict
          /\ SubSeq(s, 1, i) = Append(SubSeq(s, 1, i - 1), s[i])
      BY <1>1, PrefixSteps
    <3> QED  BY <3>1, <3>2, Zenon
  <2> HIDE DEF pre
  <2> QED  BY <2>1, <2>2
<1> DEFINE Good(d, t) == /\ d.analyzed = <<>> /\ Tallies(d, t)
                         /\ Lists(d.notable, NotableCap, LowTally(t))
<1>4. Good(ZeroState, <<>>)
  <2>1. Lists(<<>>, NotableCap, LowTally(<<>>))
    <3>1. NotableCap \in Nat  BY AuditConstants
    <3> QED  BY <3>1, LowNone, ListsNone
  <2> QED  BY <2>1, TalliesNone, ZeroIs
<1>5. ASSUME NEW d \in Document, NEW t \in Seq(Verdict), NEW v \in Verdict, Good(d, t)
      PROVE  Good(InheritOne(d, v), Append(t, v))
  <2>1. PICK e : e = InheritOne(d, v)  OBVIOUS
  <2>2. /\ e.counts = [d.counts EXCEPT ![v.category] = @ + 1]
        /\ e.integrity = [d.integrity EXCEPT ![FieldOf(v.status)] = @ + 1]
        /\ e.scoreSum = d.scoreSum + v.score /\ e.scoreCount = d.scoreCount + 1
        /\ e.analyzed = <<>>
        /\ e.notable = IF Low(v) THEN Upto(NotableCap, ByScore(d.notable, v)) ELSE d.notable
    BY <2>1, InheritOneIs
  <2>3. Tallies(e, Append(t, v))  BY <1>5, <2>2, TalliesMore
  <2>4. Lists(e.notable, NotableCap, LowTally(Append(t, v)))
    <3>1. NotableCap \in Nat  BY AuditConstants
    <3>2. PICK c, no : c = LowTally(t) /\ no = d.notable  OBVIOUS
    <3>3. Lists(no, NotableCap, c)  BY <1>5, <3>2
    <3>4. Lists(Upto(NotableCap, ByScore(no, v)), NotableCap, Counting(c, v))
      BY <3>1, <3>3, ListsOneMore
    <3>5. LowTally(Append(t, v)) = IF Low(v) THEN Counting(c, v) ELSE c  BY <3>2, LowMore
    <3> QED  BY <2>2, <3>2, <3>3, <3>4, <3>5
  <2> QED  BY <2>1, <2>2, <2>3, <2>4
<1> HIDE DEF Good
<1> DEFINE P == {i \in 0..n : Good(g[i], pre[i])}
<1>6. 0 \in P  BY <1>2, <1>3, <1>4
<1>7. ASSUME NEW i \in 1..n, i - 1 \in P PROVE i \in P
  <2>1. g[i - 1] \in Document /\ Good(g[i - 1], pre[i - 1])  BY <1>7
  <2>2. Good(InheritOne(g[i - 1], s[i]), Append(pre[i - 1], s[i]))
    BY <1>3, <1>5, <2>1
  <2>3. g[i] = InheritOne(g[i - 1], s[i]) /\ pre[i] = Append(pre[i - 1], s[i])
    BY <1>2, <1>3
  <2>4. Good(g[i], pre[i])  BY <2>2, <2>3, Zenon
  <2> QED  BY <2>4
<1>8. n \in P
  <2> HIDE DEF P
  <2>1. \A i \in 1..n : i - 1 \in P => i \in P  BY <1>7
  <2>2. \A i \in 0..n : i \in P  BY <1>6, <2>1, InductionUpTo
  <2> QED  BY <2>2
<1>9. Good(g[n], s)  BY <1>3, <1>8
<1>10. g[n] \in Document  OBVIOUS
<1> QED  BY <1>2, <1>9, <1>10 DEF Good

(* The scores of a list add up to 100 for each at most.                     *)
LEMMA TotalBound ==
  ASSUME NEW s \in Seq(Verdict)
  PROVE  ScoreTotal(s) <= 100 * Len(s)
<1>1. PICK n \in Nat : n = Len(s)  OBVIOUS
<1>2. PICK g \in [0..n -> Nat] : /\ g[0] = 0 /\ g[n] = ScoreTotal(s)
                                 /\ \A i \in 1..n : g[i] = g[i - 1] + s[i].score
  BY <1>1, TotalIs
<1> DEFINE P == {i \in 0..n : g[i] <= 100 * i}
<1>3. 0 \in P  BY <1>2
<1>4. ASSUME NEW i \in 1..n, i - 1 \in P PROVE i \in P
  <2>1. g[i - 1] <= 100 * (i - 1) /\ g[i - 1] \in Nat  BY <1>4
  <2>2. s[i].score \in Nat /\ s[i].score <= 100
    <3>1. s[i] \in Verdict  BY <1>1
    <3> QED  BY <3>1, ScoreRange, ScaleIs
  <2>3. g[i] = g[i - 1] + s[i].score  BY <1>2
  <2> QED  BY <2>1, <2>2, <2>3
<1>5. n \in P
  <2> HIDE DEF P
  <2>1. \A i \in 1..n : i - 1 \in P => i \in P  BY <1>4
  <2>2. \A i \in 0..n : i \in P  BY <1>3, <2>1, InductionUpTo
  <2> QED  BY <2>2
<1> QED  BY <1>1, <1>2, <1>5

-----------------------------------------------------------------------------
(* Types.                                                                   *)

Bounded(d) == /\ d.scoreSum <= 100 * d.scoreCount
              /\ Len(d.notable) <= NotableCap
              /\ d.scoreCount = 0 => d.notable = <<>>

TypeInv ==
    /\ TypeOK
    /\ Bounded(doc) /\ \A a \in Audits : Bounded(state[a])
    /\ \A u \in Updates : upc[u] = "notable" => doc.scoreCount > 0

Postures == {"At Risk", "Steady", "Resilient"}

LEMMA PostureTyped ==
  ASSUME NEW d PROVE Posture(d) \in Postures
  BY DEF Posture, DerivePosture, Postures

LEMMA NoReplyTyped == NoReply \in Reply
<1>1. 0 \in 0..100  OBVIOUS
<1> QED  BY <1>1, Zenon DEF NoReply, Reply

LEMMA SourceTyped ==
  ASSUME NEW a \in Audits, state \in [Audits -> Document]
  PROVE  Source(a) \in Seq(Verdict)
<1>1. state[a].analyzed \in Seq(Verdict) /\ state[a].notable \in Seq(Verdict)
  BY DocumentIs
<1> QED  BY <1>1, WorstTyped DEF Source

(* The reply a build gives.                                                 *)
LEMMA BuiltIs ==
  ASSUME NEW a \in Audits, NEW ok \in BOOLEAN, state[a] \in Document, Bounded(state[a])
  PROVE  /\ Built(a, ok) \in Reply /\ [Built(a, ok) EXCEPT !.degraded = TRUE] \in Reply
         /\ Built(a, ok).kind = "audit"
         /\ Built(a, ok).average = Average(state[a].scoreSum, state[a].scoreCount)
         /\ Built(a, ok).posture = Posture(state[a])
         /\ [Built(a, ok) EXCEPT !.degraded = TRUE].kind = "audit"
         /\ [Built(a, ok) EXCEPT !.degraded = TRUE].average =
               Average(state[a].scoreSum, state[a].scoreCount)
         /\ [Built(a, ok) EXCEPT !.degraded = TRUE].posture = Posture(state[a])
<1>1. PICK av, po : /\ av = Average(state[a].scoreSum, state[a].scoreCount)
                    /\ po = Posture(state[a])
  OBVIOUS
<1>2. av \in 0..100  BY <1>1, DocumentIs, AverageIs DEF Bounded
<1>3. po \in {"At Risk", "Steady", "Resilient"}  BY <1>1, PostureTyped DEF Postures
<1>4. PICK b : b = Built(a, ok)  OBVIOUS
<1>5. b = [kind |-> "audit", average |-> av, posture |-> po,
           narrative |-> ok, degraded |-> FALSE]
  BY <1>1, <1>4 DEF Built, NoReply
<1> HIDE DEF Built
<1>6. b \in Reply  BY <1>2, <1>3, <1>5, Zenon DEF Reply
<1>7. b \in Reply /\ [b EXCEPT !.degraded = TRUE] \in Reply
  BY <1>6 DEF Reply
<1>8. /\ b.kind = "audit" /\ b.average = av /\ b.posture = po
      /\ [b EXCEPT !.degraded = TRUE].kind = "audit"
      /\ [b EXCEPT !.degraded = TRUE].average = av
      /\ [b EXCEPT !.degraded = TRUE].posture = po
  BY <1>5
<1> QED  BY <1>1, <1>4, <1>7, <1>8, Zenon

LEMMA PayloadIs ==
  /\ [NoReply EXCEPT !.kind = "payload", !.degraded = TRUE] \in Reply
  /\ [NoReply EXCEPT !.kind = "payload", !.degraded = TRUE].kind = "payload"
<1>1. PICK r : r = NoReply  OBVIOUS
<1>2. r \in Reply  BY <1>1, NoReplyTyped
<1>3. /\ [r EXCEPT !.kind = "payload", !.degraded = TRUE] \in Reply
      /\ [r EXCEPT !.kind = "payload", !.degraded = TRUE].kind = "payload"
  BY <1>2 DEF Reply
<1> QED  BY <1>1, <1>3

LEMMA OutcomesTyped == \A a \in Audits : \A ok \in Outcomes(a) : ok \in BOOLEAN
  BY DEF Outcomes

LEMMA TypeInit == Init => TypeInv
<1> SUFFICES ASSUME Init PROVE TypeInv
  OBVIOUS
<1>1. legacy \in Seq(Verdict) /\ legacy \in Histories  BY AuditConstants DEF Init
<1>2. doc \in Document /\ Bounded(doc)
  <2>1. doc = Inherited(legacy)  BY DEF Init
  <2>2. /\ Inherited(legacy) \in Document /\ Tallies(Inherited(legacy), legacy)
        /\ Lists(Inherited(legacy).notable, NotableCap, LowTally(legacy))
    BY <1>1, InheritedTells
  <2>3. ScoreTotal(legacy) <= 100 * Len(legacy)  BY <1>1, TotalBound
  <2>4. Len(doc.notable) <= NotableCap /\ (doc.scoreCount = 0 => doc.notable = <<>>)
    <3>1. PICK no, c : no = doc.notable /\ c = LowTally(legacy)  OBVIOUS
    <3>2. NotableCap \in Nat  BY AuditConstants
    <3>3. /\ no \in Seq(Verdict) /\ Len(no) \in Nat /\ c[100] \in Nat
          /\ Len(no) = IF NotableCap < c[100] THEN NotableCap ELSE c[100]
      BY <2>1, <2>2, <3>1, <3>2, ListsIs
    <3>4. doc.scoreCount = 0 => c[100] = 0
      <4>1. doc.scoreCount = 0 => legacy = <<>>  BY <1>1, <2>1, <2>2 DEF Tallies
      <4>2. [x \in Scale |-> 0][100] = 0  BY ScaleIs
      <4> QED  BY <3>1, <4>1, <4>2, LowNone
    <3>5. Len(no) = 0 => no = <<>>  BY <3>3
    <3> QED  BY <3>1, <3>2, <3>3, <3>4, <3>5
  <2> QED  BY <2>1, <2>2, <2>3, <2>4 DEF Bounded, Tallies
<1>3. state \in [Audits -> Document] /\ \A a \in Audits : Bounded(state[a])
  <2>1. ZeroState \in Document /\ Bounded(ZeroState)  BY ZeroIs, AuditConstants DEF Bounded
  <2> QED  BY <2>1 DEF Init
<1>4. /\ upc \in [Updates -> {"idle", "notable", "done", "failed"}]
      /\ verdict \in [Updates -> Verdicts]
      /\ apc \in [Audits -> {"idle", "tenantless", "build", "rebuild", "clean", "done"}]
      /\ sample \in [Audits -> Seq(Verdict)]
  BY DEF Init
<1>5. reply \in [Audits -> Reply]  BY NoReplyTyped DEF Init
<1>6. \A u \in Updates : upc[u] # "notable"  BY DEF Init
<1>7. \A d \in {doc} \cup {state[a] : a \in Audits} : Len(d.notable) <= NotableCap
  BY <1>2, <1>3 DEF Bounded
<1> QED  BY <1>1, <1>2, <1>3, <1>4, <1>5, <1>6, <1>7 DEF TypeInv, TypeOK

(* What the steps of updates do to the document.                            *)
LEMMA UpdateSteps ==
  ASSUME TypeInv, NEW u \in Updates
  PROVE  /\ verdict[u] \in Verdict
         /\ Push(u) => \/ doc' = Pushed(doc, verdict[u])
                       \/ doc' = doc /\ upc' = [upc EXCEPT ![u] = "failed"]
         /\ PushNotable(u) => \/ doc' = Listed(doc, verdict[u])
                              \/ doc' = doc /\ upc' = [upc EXCEPT ![u] = "failed"]
         /\ Push(u) \/ PushNotable(u) => UNCHANGED <<legacy, verdict, apc, state, sample, reply>>
<1>1. verdict[u] \in Verdict  BY AuditConstants DEF TypeInv, TypeOK
<1> QED  BY <1>1 DEF Push, PushNotable

LEMMA CleanedIs ==
  ASSUME NEW d \in Document
  PROVE  LET e == [d EXCEPT !.dirty = FALSE]
         IN /\ e \in Document /\ e.counts = d.counts /\ e.integrity = d.integrity
            /\ e.scoreSum = d.scoreSum /\ e.scoreCount = d.scoreCount
            /\ e.analyzed = d.analyzed /\ e.notable = d.notable
  BY DEF Document

LEMMA TypeStep == TypeInv /\ [Next]_vars => TypeInv'
<1> SUFFICES ASSUME TypeInv, [Next]_vars PROVE TypeInv'
  OBVIOUS
<1>t. /\ TypeOK /\ Bounded(doc) /\ \A a \in Audits : Bounded(state[a])
      /\ \A u \in Updates : upc[u] = "notable" => doc.scoreCount > 0
  BY DEF TypeInv
<1>1. ASSUME NEW u \in Updates, Push(u) \/ PushNotable(u) PROVE TypeInv'
  <2>1. verdict[u] \in Verdict /\ UNCHANGED <<legacy, verdict, apc, state, sample, reply>>
    BY <1>1, UpdateSteps
  <2>2. upc' \in [Updates -> {"idle", "notable", "done", "failed"}]
    <3>1. upc \in [Updates -> {"idle", "notable", "done", "failed"}]  BY <1>t DEF TypeOK
    <3> QED  BY <1>1, <3>1 DEF Push, PushNotable
  <2>3. doc \in Document  BY <1>t DEF TypeOK
  <2>4. doc' \in {doc, Pushed(doc, verdict[u]), Listed(doc, verdict[u])}
    BY <1>1, UpdateSteps
  <2>5. Pushed(doc, verdict[u]) \in Document /\ Bounded(Pushed(doc, verdict[u]))
    <3>1. verdict[u].score \in Nat /\ verdict[u].score <= 100  BY <2>1, ScoreRange, ScaleIs
    <3>2. doc.scoreSum \in Nat /\ doc.scoreCount \in Nat  BY <2>3, DocumentIs
    <3>3. /\ Pushed(doc, verdict[u]) \in Document
          /\ Pushed(doc, verdict[u]).scoreSum = doc.scoreSum + verdict[u].score
          /\ Pushed(doc, verdict[u]).scoreCount = doc.scoreCount + 1
      BY <2>1, <2>3, PushedIs
    <3>4. doc.scoreSum + verdict[u].score <= 100 * (doc.scoreCount + 1)
      BY <1>t, <3>1, <3>2 DEF Bounded
    <3>5. Pushed(doc, verdict[u]).notable = doc.notable  BY <2>1, <2>3, PushedIs
    <3>6. Len(doc.notable) <= NotableCap  BY <1>t DEF Bounded
    <3>7. doc.scoreCount + 1 # 0  BY <3>2
    <3> QED  BY <3>3, <3>4, <3>5, <3>6, <3>7 DEF Bounded
  <2>6. ASSUME PushNotable(u)
        PROVE  /\ Listed(doc, verdict[u]) \in Document
               /\ Bounded(Listed(doc, verdict[u]))
               /\ Listed(doc, verdict[u]).scoreCount = doc.scoreCount
    <3>1. /\ Listed(doc, verdict[u]) \in Document
          /\ Listed(doc, verdict[u]).scoreSum = doc.scoreSum
          /\ Listed(doc, verdict[u]).scoreCount = doc.scoreCount
          /\ Listed(doc, verdict[u]).notable = Upto(NotableCap, ByScore(doc.notable, verdict[u]))
      BY <2>1, <2>3, ListedIs
    <3>2. ByScore(doc.notable, verdict[u]) \in Seq(Verdict)
      BY <2>1, <2>3, DocumentIs, ByScoreTyped
    <3>3. Len(Upto(NotableCap, ByScore(doc.notable, verdict[u]))) <= NotableCap
      <4>1. NotableCap \in Nat  BY AuditConstants
      <4>2. PICK t \in Seq(Verdict) : t = ByScore(doc.notable, verdict[u])  BY <3>2
      <4>3. Len(Upto(NotableCap, t)) = IF NotableCap < Len(t) THEN NotableCap ELSE Len(t)
        BY <4>1, UptoIs
      <4> QED  BY <4>1, <4>2, <4>3
    <3>4. doc.scoreCount > 0 /\ doc.scoreCount \in Nat
      BY <1>t, <2>3, <2>6, DocumentIs DEF PushNotable
    <3>5. doc.scoreSum <= 100 * doc.scoreCount  BY <1>t DEF Bounded
    <3> QED  BY <3>1, <3>3, <3>4, <3>5 DEF Bounded
  <2>7. (doc \in Document)' /\ Bounded(doc)'
    <3>1. PICK d : d = doc'  OBVIOUS
    <3>2. \/ d = doc
          \/ d = Pushed(doc, verdict[u])
          \/ PushNotable(u) /\ d = Listed(doc, verdict[u])
      <4>1. CASE Push(u)
        <5>1. doc' = Pushed(doc, verdict[u]) \/ doc' = doc  BY <4>1, UpdateSteps
        <5> QED  BY <3>1, <5>1
      <4>2. CASE PushNotable(u)
        <5>1. doc' = Listed(doc, verdict[u]) \/ doc' = doc  BY <4>2, UpdateSteps
        <5> QED  BY <3>1, <4>2, <5>1
      <4> QED  BY <1>1, <4>1, <4>2
    <3>3. d \in Document /\ Bounded(d)  BY <1>t, <2>3, <2>5, <2>6, <3>2
    <3> QED  BY <3>1, <3>3 DEF Bounded
  <2>9. \A w \in Updates : upc'[w] = "notable" => doc'.scoreCount > 0
    <3>1. doc.scoreCount \in Nat  BY <2>3, DocumentIs
    <3>2. PICK d : d = doc'  OBVIOUS
    <3>3. CASE Push(u)
      <4>1. \/ d = Pushed(doc, verdict[u])
            \/ d = doc /\ upc' = [upc EXCEPT ![u] = "failed"]
        BY <1>1, <3>2, <3>3, UpdateSteps
      <4>2. Pushed(doc, verdict[u]).scoreCount = doc.scoreCount + 1  BY <2>1, <2>3, PushedIs
      <4>3. CASE d = Pushed(doc, verdict[u])
        <5>1. d.scoreCount > 0  BY <3>1, <4>2, <4>3
        <5> QED  BY <3>2, <5>1
      <4>4. CASE d = doc /\ upc' = [upc EXCEPT ![u] = "failed"]
        BY <1>t, <3>2, <4>4 DEF TypeOK
      <4> QED  BY <4>1, <4>3, <4>4
    <3>4. CASE PushNotable(u)
      <4>1. d = Listed(doc, verdict[u]) \/ d = doc  BY <1>1, <3>2, <3>4, UpdateSteps
      <4>2. d.scoreCount = doc.scoreCount  BY <2>6, <3>4, <4>1
      <4>3. upc[u] = "notable" /\ upc \in [Updates -> {"idle", "notable", "done", "failed"}]
        BY <1>t, <3>4 DEF PushNotable, TypeOK
      <4> QED  BY <1>t, <3>2, <4>2, <4>3
    <3> QED  BY <1>1, <3>3, <3>4
  <2>8. /\ (legacy \in Histories)' /\ (verdict \in [Updates -> Verdicts])'
        /\ (apc \in [Audits -> {"idle", "tenantless", "build", "rebuild", "clean", "done"}])'
        /\ (state \in [Audits -> Document])' /\ (sample \in [Audits -> Seq(Verdict)])'
        /\ (reply \in [Audits -> Reply])' /\ (\A a \in Audits : Bounded(state[a]))'
    BY <1>t, <2>1 DEF TypeOK, Bounded
  <2>10. (\A d \in {doc} \cup {state[a] : a \in Audits} : Len(d.notable) <= NotableCap)'
    BY <2>7, <2>8 DEF Bounded
  <2> QED  BY <2>2, <2>7, <2>8, <2>9, <2>10 DEF TypeInv, TypeOK
<1>2. ASSUME NEW a \in Audits, Read(a) PROVE TypeInv'
  <2>1. /\ state' = state \/ state' = [state EXCEPT ![a] = doc]
        /\ reply' = reply \/ FallBackToPayload(a)
        /\ \E l \in {"build", "tenantless", "done"} : Goto(a, l)
        /\ UNCHANGED <<legacy, doc, upc, verdict, sample>>
    BY <1>2 DEF Read, FallBackToPayload
  <2>2. (reply \in [Audits -> Reply])'
    <3>1. reply \in [Audits -> Reply]  BY <1>t DEF TypeOK
    <3> QED  BY <2>1, <3>1, PayloadIs, Zenon DEF FallBackToPayload
  <2>3. (apc \in [Audits -> {"idle", "tenantless", "build", "rebuild", "clean", "done"}])'
    BY <1>t, <2>1 DEF Goto, TypeOK
  <2>4. (state \in [Audits -> Document])' /\ (\A b \in Audits : Bounded(state[b]))'
    <3>1. doc \in Document /\ state \in [Audits -> Document]  BY <1>t DEF TypeOK
    <3>2. \A b \in Audits : state'[b] = state[b] \/ state'[b] = doc  BY <2>1, <3>1
    <3>3. \A b \in Audits : Bounded(state'[b])  BY <1>t, <3>2
    <3> QED  BY <2>1, <3>1, <3>3 DEF Bounded
  <2>5. /\ (legacy \in Histories)' /\ (verdict \in [Updates -> Verdicts])'
        /\ (doc \in Document)' /\ Bounded(doc)' /\ (sample \in [Audits -> Seq(Verdict)])'
        /\ (upc \in [Updates -> {"idle", "notable", "done", "failed"}])'
    BY <1>t, <2>1 DEF TypeOK, Bounded
  <2>8. (\A d \in {doc} \cup {state[b] : b \in Audits} : Len(d.notable) <= NotableCap)'
    BY <2>4, <2>5 DEF Bounded
  <2>9. (\A u \in Updates : upc[u] = "notable" => doc.scoreCount > 0)'
    BY <1>t, <2>1
  <2> QED  BY <2>2, <2>3, <2>4, <2>5, <2>8, <2>9 DEF TypeInv, TypeOK
<1>3. ASSUME NEW a \in Audits, Build(a) \/ Rebuild(a) PROVE TypeInv'
  <2>1. UNCHANGED <<legacy, doc, upc, verdict, state>>  BY <1>3 DEF Build, Rebuild
  <2>2. state \in [Audits -> Document] /\ Bounded(state[a]) /\ state[a] \in Document
    BY <1>t DEF TypeOK
  <2>3. PICK ok \in BOOLEAN :
          \/ reply' = [reply EXCEPT ![a] = Built(a, ok)]
          \/ reply' = [reply EXCEPT ![a] = [Built(a, ok) EXCEPT !.degraded = TRUE]]
    BY <1>3, OutcomesTyped DEF Build, Rebuild
  <2>4. (reply \in [Audits -> Reply])'
    <3>1. reply \in [Audits -> Reply]  BY <1>t DEF TypeOK
    <3>2. Built(a, ok) \in Reply /\ [Built(a, ok) EXCEPT !.degraded = TRUE] \in Reply
      BY <2>2, BuiltIs
    <3> QED  BY <2>3, <3>1, <3>2, Zenon
  <2>5. (sample \in [Audits -> Seq(Verdict)])'
    <3>1. sample \in [Audits -> Seq(Verdict)] /\ SampleCap \in Nat /\ FallbackCap \in Nat
      BY <1>t, AuditConstants DEF TypeOK
    <3>2. Source(a) \in Seq(Verdict)  BY <2>2, SourceTyped
    <3>3. Upto(SampleCap, Source(a)) \in Seq(Verdict) /\ Upto(FallbackCap, Source(a)) \in Seq(Verdict)
      BY <3>1, <3>2, UptoIs
    <3>4. \E t \in Seq(Verdict) : sample' = [sample EXCEPT ![a] = t]
      BY <1>3, <3>2, <3>3 DEF Build, Rebuild
    <3> QED  BY <3>1, <3>4
  <2>6. (apc \in [Audits -> {"idle", "tenantless", "build", "rebuild", "clean", "done"}])'
    <3>1. \E l \in {"rebuild", "clean", "done"} : Goto(a, l)  BY <1>3 DEF Build, Rebuild
    <3> QED  BY <1>t, <3>1 DEF Goto, TypeOK
  <2>7. /\ (legacy \in Histories)' /\ (verdict \in [Updates -> Verdicts])'
        /\ (doc \in Document)' /\ Bounded(doc)'
        /\ (upc \in [Updates -> {"idle", "notable", "done", "failed"}])'
        /\ (state \in [Audits -> Document])' /\ (\A b \in Audits : Bounded(state[b]))'
    BY <1>t, <2>1 DEF TypeOK, Bounded
  <2>8. (\A d \in {doc} \cup {state[b] : b \in Audits} : Len(d.notable) <= NotableCap)'
    BY <2>7 DEF Bounded
  <2>9. (\A u \in Updates : upc[u] = "notable" => doc.scoreCount > 0)'
    BY <1>t, <2>1
  <2> QED  BY <2>4, <2>5, <2>6, <2>7, <2>8, <2>9 DEF TypeInv, TypeOK
<1>4. ASSUME NEW a \in Audits, Clean(a) PROVE TypeInv'
  <2>1. /\ doc' \in {doc, [doc EXCEPT !.dirty = FALSE]}
        /\ reply' = reply \/ FallBackToPayload(a)
        /\ Goto(a, "done")
        /\ UNCHANGED <<legacy, upc, verdict, state, sample>>
    BY <1>4 DEF Clean, FallBackToPayload
  <2>2. (reply \in [Audits -> Reply])'
    <3>1. reply \in [Audits -> Reply]  BY <1>t DEF TypeOK
    <3> QED  BY <2>1, <3>1, PayloadIs, Zenon DEF FallBackToPayload
  <2>3. (apc \in [Audits -> {"idle", "tenantless", "build", "rebuild", "clean", "done"}])'
    BY <1>t, <2>1 DEF Goto, TypeOK
  <2>4. (doc \in Document)' /\ Bounded(doc)'
    <3>1. PICK d : d = doc'  OBVIOUS
    <3>2. doc \in Document  BY <1>t DEF TypeOK
    <3>3. [doc EXCEPT !.dirty = FALSE] \in Document /\ Bounded([doc EXCEPT !.dirty = FALSE])
      BY <1>t, <3>2, CleanedIs DEF Bounded
    <3>4. d \in Document /\ Bounded(d)  BY <1>t, <2>1, <3>1, <3>2, <3>3
    <3> QED  BY <3>1, <3>4 DEF Bounded
  <2>5. /\ (legacy \in Histories)' /\ (verdict \in [Updates -> Verdicts])'
        /\ (upc \in [Updates -> {"idle", "notable", "done", "failed"}])'
        /\ (state \in [Audits -> Document])' /\ (\A b \in Audits : Bounded(state[b]))'
        /\ (sample \in [Audits -> Seq(Verdict)])'
    BY <1>t, <2>1 DEF TypeOK, Bounded
  <2>6. doc'.scoreCount = doc.scoreCount
    <3>1. doc \in Document  BY <1>t DEF TypeOK
    <3> QED  BY <2>1, <3>1, CleanedIs
  <2>8. (\A d \in {doc} \cup {state[b] : b \in Audits} : Len(d.notable) <= NotableCap)'
    BY <2>4, <2>5 DEF Bounded
  <2>9. (\A u \in Updates : upc[u] = "notable" => doc.scoreCount > 0)'
    BY <1>t, <2>1, <2>6
  <2> QED  BY <2>2, <2>3, <2>4, <2>5, <2>8, <2>9 DEF TypeInv, TypeOK
<1>5. CASE UNCHANGED vars
  BY <1>t, <1>5 DEF vars, TypeInv, TypeOK, Bounded
<1> QED  BY <1>1, <1>2, <1>3, <1>4, <1>5 DEF Next

(* The document, the updates and the audits hold values of their types,     *)
(* whatever the updates, the histories and the failures; in particular an   *)
(* average is a score.                                                      *)
THEOREM TypeTheorem == Spec => []TypeOK
<1>1. TypeInv => TypeOK  BY DEF TypeInv
<1> QED  BY TypeInit, TypeStep, <1>1, PTL DEF Spec

-----------------------------------------------------------------------------
(* An audit tells of one moment.                                            *)

(* A document tells of the verdicts it has counted.                         *)
TellsAll(d) == Tallies(d, legacy \o d.analyzed)

(* What an audit read: nothing, or the document at some moment.             *)
Seen(a) == \/ state[a] = ZeroState
           \/ /\ TellsAll(state[a])
              /\ \E n \in 0..Len(doc.analyzed) : state[a].analyzed = SubSeq(doc.analyzed, 1, n)

(* A reply built from what the audit read.                                  *)
FromState(a) ==
    /\ reply[a].average = Average(state[a].scoreSum, state[a].scoreCount)
    /\ reply[a].posture = Posture(state[a])
    /\ sample[a] = Upto(Len(sample[a]), Source(a))

MomentInv ==
    /\ TellsAll(doc)
    /\ \A a \in Audits : Seen(a)
    /\ \A a \in Audits : apc[a] \in {"rebuild", "clean", "done"} /\ reply[a].kind = "audit"
                            => FromState(a)

LEMMA TalliesSame ==
  ASSUME NEW d, NEW e, NEW s, Tallies(d, s), e.counts = d.counts, e.integrity = d.integrity,
         e.scoreSum = d.scoreSum, e.scoreCount = d.scoreCount
  PROVE  Tallies(e, s)
  BY DEF Tallies

(* The posture derived from the counters is that of the verdicts.           *)
LEMMA PostureTells ==
  ASSUME NEW d \in Document, NEW s \in Seq(Verdict), Tallies(d, s)
  PROVE  Posture(d) = PostureOf(s, Average(d.scoreSum, d.scoreCount))
<1> DEFINE V == ToSet(s)
<1>1. V \subseteq Verdict
  <2>1. \A i \in DOMAIN s : s[i] \in Verdict  OBVIOUS
  <2> QED  BY <2>1 DEF ToSet
<1>2. \A v \in V : v.category \in Categories /\ v.status \in Statuses  BY <1>1, VerdictIs
<1> HIDE DEF V
<1>3. /\ d.counts["coop"] > 0 <=> \E v \in V : v.category = "coop"
      /\ d.counts["bcp"] > 0 <=> \E v \in V : v.category = "bcp"
      /\ d.counts["compliance"] > 0 <=> \E v \in V : v.category = "compliance"
  BY DEF Tallies, Categories, V
<1>4. /\ d.counts["coop"] \in Nat /\ d.counts["bcp"] \in Nat /\ d.counts["compliance"] \in Nat
  BY DocumentIs DEF Categories
<1>5. Plans(d.counts) = 0 <=> \A v \in V : v.category = "response"
  <2>1. Plans(d.counts) = 0 <=> /\ ~(d.counts["coop"] > 0) /\ ~(d.counts["bcp"] > 0)
                                /\ ~(d.counts["compliance"] > 0)
    <3>1. PICK x \in Nat, y \in Nat, z \in Nat :
            x = d.counts["coop"] /\ y = d.counts["bcp"] /\ z = d.counts["compliance"]
      BY <1>4
    <3>2. x + y + z = 0 <=> ~(x > 0) /\ ~(y > 0) /\ ~(z > 0)  OBVIOUS
    <3>3. Plans(d.counts) = x + y + z  BY <3>1, Zenon DEF Plans
    <3> QED  BY <3>1, <3>2, <3>3, Zenon
  <2> QED  BY <1>2, <1>3, <2>1 DEF Categories
<1>6. /\ d.integrity["inSync"] > 0 <=> \E v \in V : v.status = "Compliant"
      /\ d.integrity["reviewing"] > 0 <=> \E v \in V : v.status = "Under Review"
      /\ d.integrity["deviation"] > 0 <=> \E v \in V : v.status = "Non-Compliant"
  <2>1. \A st \in Statuses : d.integrity[FieldOf(st)] > 0 <=> \E v \in V : v.status = st
    BY DEF Tallies, V
  <2>2. "Compliant" \in Statuses /\ "Under Review" \in Statuses /\ "Non-Compliant" \in Statuses
    BY DEF Statuses
  <2> QED  BY <2>1, <2>2, FieldsIs
<1>7. /\ d.integrity["inSync"] \in Nat /\ d.integrity["reviewing"] \in Nat
      /\ d.integrity["deviation"] \in Nat
  BY DocumentIs DEF Fields
<1>8. d.integrity["inSync"] + d.integrity["reviewing"] + d.integrity["deviation"] = 0 => V = {}
  <2>1. SUFFICES ASSUME d.integrity["inSync"] + d.integrity["reviewing"]
                                             + d.integrity["deviation"] = 0
                 PROVE  V = {}
    OBVIOUS
  <2>2. /\ ~(d.integrity["inSync"] > 0) /\ ~(d.integrity["reviewing"] > 0)
        /\ ~(d.integrity["deviation"] > 0)
    BY <1>7, <2>1
  <2> QED  BY <1>2, <1>6, <2>2 DEF Statuses
<1>9. PICK av : av = Average(d.scoreSum, d.scoreCount)  OBVIOUS
<1>10. PICK none, low, high, older, some :
          /\ none = (Plans(d.counts) = 0) /\ low = (av < 55) /\ high = (av < 75)
          /\ older = (d.integrity["inSync"] + d.integrity["reviewing"] + d.integrity["deviation"] = 0)
          /\ some = (d.integrity["deviation"] > 0)
  OBVIOUS
<1>11. Posture(d) = IF none \/ some \/ low \/ older THEN "At Risk"
                    ELSE IF d.integrity["reviewing"] > 0 \/ high THEN "Steady"
                    ELSE "Resilient"
  BY <1>9, <1>10 DEF Posture, DerivePosture
<1>12. PostureOf(s, av) =
         IF (\A v \in V : v.category = "response") \/ (\E v \in V : v.status = "Non-Compliant")
            \/ low THEN "At Risk"
         ELSE IF (\E v \in V : v.status = "Under Review") \/ high THEN "Steady"
         ELSE "Resilient"
  BY <1>10 DEF PostureOf, V
<1>13. older => none  BY <1>5, <1>8, <1>10
<1> QED  BY <1>5, <1>6, <1>9, <1>10, <1>11, <1>12, <1>13, Zenon

LEMMA UptoSelf ==
  ASSUME NEW t \in Seq(Verdict)
  PROVE  /\ t = Upto(Len(t), t)
         /\ \A n \in Nat : Upto(n, t) = Upto(Len(Upto(n, t)), t)
<1>1. t = Upto(Len(t), t)  BY DEF Upto
<1>2. ASSUME NEW n \in Nat PROVE Upto(n, t) = Upto(Len(Upto(n, t)), t)
  <2>1. Len(t) \in Nat  OBVIOUS
  <2>2. PICK k \in Nat : k = IF n < Len(t) THEN n ELSE Len(t)  BY <2>1
  <2>3. Len(Upto(n, t)) = k  BY <2>2, UptoIs
  <2>4. Upto(n, t) = SubSeq(t, 1, k)  BY <2>2 DEF Upto
  <2>5. Upto(k, t) = SubSeq(t, 1, k)
    <3>1. (IF k < Len(t) THEN k ELSE Len(t)) = k  BY <2>1, <2>2
    <3> QED  BY <3>1, Zenon DEF Upto
  <2> QED  BY <2>3, <2>4, <2>5
<1> QED  BY <1>1, <1>2

(* What follows for the caller.                                             *)
LEMMA TellsOne ==
  ASSUME NEW a \in Audits, NEW s \in Seq(Verdict), NEW source, state[a] \in Document,
         FromState(a), Tallies(state[a], s), Source(a) = Worst(source)
  PROVE  Tells(a, s, source)
<1>1. Posture(state[a]) = PostureOf(s, Average(state[a].scoreSum, state[a].scoreCount))
  BY PostureTells
<1>2. state[a].scoreSum = ScoreTotal(s) /\ state[a].scoreCount = Len(s)  BY DEF Tallies
<1>3. reply[a].average = Average(ScoreTotal(s), Len(s))  BY <1>2 DEF FromState
<1>4. IF s = <<>> THEN reply[a].average = 0
      ELSE Nearest(reply[a].average, ScoreTotal(s), Len(s))
  <2>1. ScoreTotal(s) \in Nat /\ Len(s) \in Nat /\ (Len(s) = 0 <=> s = <<>>)  BY TotalTyped
  <2>2. s = <<>> => Average(ScoreTotal(s), Len(s)) = 0  BY <2>1 DEF Average
  <2>3. s # <<>> => Nearest(Average(ScoreTotal(s), Len(s)), ScoreTotal(s), Len(s))
    BY <2>1, AverageNearest
  <2> QED  BY <1>3, <2>2, <2>3
<1> QED  BY <1>1, <1>2, <1>4, Zenon DEF FromState, Tells

LEMMA MomentTells == TypeInv /\ MomentInv => AuditTellsOneMoment
<1> SUFFICES ASSUME TypeInv, MomentInv, NEW a \in Audits, apc[a] = "done", reply[a].kind = "audit"
             PROVE  \/ Tells(a, <<>>, <<>>)
                    \/ Tells(a, legacy, state[a].notable)
                    \/ \E n \in 1..Len(doc.analyzed) :
                          Tells(a, legacy \o SubSeq(doc.analyzed, 1, n), SubSeq(doc.analyzed, 1, n))
  BY DEF AuditTellsOneMoment
<1>1. FromState(a) /\ Seen(a)  BY DEF MomentInv
<1>2. /\ state[a] \in Document /\ legacy \in Seq(Verdict) /\ doc.analyzed \in Seq(Verdict)
  <2>1. state \in [Audits -> Document] /\ doc \in Document /\ legacy \in Histories
    BY DEF TypeInv, TypeOK
  <2> QED  BY <2>1, AuditConstants, DocumentIs
<1>3. CASE state[a] = ZeroState
  <2>1. Tallies(state[a], <<>>)  BY <1>3, TalliesNone
  <2>2. Source(a) = Worst(<<>>)  BY <1>3, ZeroIs DEF Source
  <2>3. <<>> \in Seq(Verdict)  OBVIOUS
  <2>4. Tells(a, <<>>, <<>>)  BY <1>1, <1>2, <2>1, <2>2, <2>3, TellsOne
  <2> QED  BY <2>4
<1>4. CASE state[a] # ZeroState
  <2>1. PICK n \in 0..Len(doc.analyzed) : state[a].analyzed = SubSeq(doc.analyzed, 1, n)
    BY <1>1, <1>4 DEF Seen
  <2>2. Tallies(state[a], legacy \o state[a].analyzed)  BY <1>1, <1>4 DEF Seen, TellsAll
  <2>3. PICK an : an = SubSeq(doc.analyzed, 1, n)  OBVIOUS
  <2>4. an \in Seq(Verdict) /\ Len(an) = n /\ state[a].analyzed = an
    BY <1>2, <2>1, <2>3
  <2>5. CASE n = 0
    <3>1. an = <<>>  BY <2>4, <2>5
    <3>2. legacy \o an = legacy  BY <1>2, <3>1
    <3>3. Source(a) = Worst(state[a].notable)  BY <2>4, <3>1 DEF Source
    <3>4. Tallies(state[a], legacy)  BY <2>2, <2>4, <3>2
    <3>5. Tells(a, legacy, state[a].notable)  BY <1>1, <1>2, <3>3, <3>4, TellsOne
    <3> QED  BY <3>5
  <2>6. CASE n # 0
    <3>1. an # <<>> /\ n \in 1..Len(doc.analyzed)  BY <1>2, <2>4, <2>6
    <3>2. legacy \o an \in Seq(Verdict)  BY <1>2, <2>4
    <3>3. Source(a) = Worst(an)  BY <2>4, <3>1 DEF Source
    <3>4. Tallies(state[a], legacy \o an)  BY <2>2, <2>4
    <3>5. Tells(a, legacy \o an, an)  BY <1>1, <1>2, <3>2, <3>3, <3>4, TellsOne
    <3> QED  BY <2>3, <3>1, <3>5
  <2> QED  BY <2>5, <2>6
<1> QED  BY <1>3, <1>4

LEMMA MomentInit == Init => MomentInv
<1> SUFFICES ASSUME Init PROVE MomentInv
  OBVIOUS
<1>1. legacy \in Seq(Verdict)  BY AuditConstants DEF Init
<1>2. doc = Inherited(legacy)  BY DEF Init
<1>3. Tallies(doc, legacy) /\ doc.analyzed = <<>>  BY <1>1, <1>2, InheritedTells
<1>4. legacy \o <<>> = legacy  BY <1>1
<1>5. TellsAll(doc)  BY <1>3, <1>4 DEF TellsAll
<1>6. \A a \in Audits : Seen(a)  BY DEF Init, Seen
<1>7. \A a \in Audits : apc[a] = "idle"  BY DEF Init
<1> QED  BY <1>5, <1>6, <1>7 DEF MomentInv

(* The document after a step of another party than the audit.               *)
LEMMA DocumentGrows ==
  ASSUME TypeInv, MomentInv, NEW v \in Verdict, UNCHANGED legacy,
         \/ doc' = Pushed(doc, v) \/ doc' = Listed(doc, v)
         \/ doc' = [doc EXCEPT !.dirty = FALSE] \/ doc' = doc
  PROVE  /\ TellsAll(doc)'
         /\ \E t \in Seq(Verdict) : doc'.analyzed = doc.analyzed \o t
<1>1. doc \in Document /\ legacy \in Seq(Verdict) /\ doc.analyzed \in Seq(Verdict)
  <2>1. doc \in Document /\ legacy \in Histories  BY DEF TypeInv, TypeOK
  <2> QED  BY <2>1, AuditConstants, DocumentIs
<1>2. Tallies(doc, legacy \o doc.analyzed)  BY DEF MomentInv, TellsAll
<1>3. PICK e : e = doc'  OBVIOUS
<1>4. CASE e = Pushed(doc, v)
  <2>1. /\ e.counts = [doc.counts EXCEPT ![v.category] = @ + 1]
        /\ e.integrity = [doc.integrity EXCEPT ![FieldOf(v.status)] = @ + 1]
        /\ e.scoreSum = doc.scoreSum + v.score /\ e.scoreCount = doc.scoreCount + 1
        /\ e.analyzed = Append(doc.analyzed, v)
    BY <1>1, <1>4, PushedIs
  <2>2. legacy \o doc.analyzed \in Seq(Verdict)  BY <1>1
  <2>3. Tallies(e, Append(legacy \o doc.analyzed, v))  BY <1>1, <1>2, <2>1, <2>2, TalliesMore
  <2>4. Append(legacy \o doc.analyzed, v) = legacy \o Append(doc.analyzed, v)  BY <1>1
  <2>5. Append(doc.analyzed, v) = doc.analyzed \o <<v>>  BY <1>1
  <2>6. Tallies(e, legacy \o e.analyzed)  BY <2>1, <2>3, <2>4, Zenon
  <2>7. <<v>> \in Seq(Verdict) /\ e.analyzed = doc.analyzed \o <<v>>  BY <2>1, <2>5
  <2> QED  BY <1>3, <2>6, <2>7 DEF TellsAll
<1>5. CASE \/ e = Listed(doc, v) \/ e = [doc EXCEPT !.dirty = FALSE] \/ e = doc
  <2>1. /\ e.counts = doc.counts /\ e.integrity = doc.integrity
        /\ e.scoreSum = doc.scoreSum /\ e.scoreCount = doc.scoreCount
        /\ e.analyzed = doc.analyzed
    <3>1. CASE e = Listed(doc, v)  BY <1>1, <3>1, ListedIs
    <3>2. CASE e = [doc EXCEPT !.dirty = FALSE]  BY <1>1, <3>2, CleanedIs
    <3>3. CASE e = doc  BY <3>3
    <3> QED  BY <1>5, <3>1, <3>2, <3>3
  <2>2. Tallies(e, legacy \o e.analyzed)  BY <1>2, <2>1, TalliesSame
  <2>3. <<>> \in Seq(Verdict) /\ doc.analyzed \o <<>> = doc.analyzed  BY <1>1
  <2> QED  BY <1>3, <2>1, <2>2, <2>3 DEF TellsAll
<1> QED  BY <1>3, <1>4, <1>5

(* What an audit has seen, it has still seen.                               *)
LEMMA SeenStays ==
  ASSUME NEW a \in Audits, Seen(a), UNCHANGED legacy, state'[a] = state[a],
         doc.analyzed \in Seq(Verdict),
         \E t \in Seq(Verdict) : doc'.analyzed = doc.analyzed \o t
  PROVE  Seen(a)'
<1>1. PICK t \in Seq(Verdict) : doc'.analyzed = doc.analyzed \o t  OBVIOUS
<1>2. CASE state[a] = ZeroState  BY <1>2 DEF Seen
<1>3. CASE state[a] # ZeroState
  <2>1. TellsAll(state[a])  BY <1>3 DEF Seen
  <2>2. PICK n \in 0..Len(doc.analyzed) : state[a].analyzed = SubSeq(doc.analyzed, 1, n)
    BY <1>3 DEF Seen
  <2>3. PICK an \in Seq(Verdict) : an = doc.analyzed  OBVIOUS
  <2>4. SubSeq(an \o t, 1, n) = SubSeq(an, 1, n) /\ n \in 0..Len(an \o t)
    BY <2>2, <2>3
  <2>5. TellsAll(state[a])'  BY <2>1 DEF TellsAll
  <2>6. doc'.analyzed = an \o t  BY <1>1, <2>3
  <2>7. state'[a].analyzed = SubSeq(doc'.analyzed, 1, n) /\ n \in 0..Len(doc'.analyzed)
    BY <2>2, <2>3, <2>4, <2>6
  <2> QED  BY <2>5, <2>7 DEF Seen
<1> QED  BY <1>2, <1>3

LEMMA FromStateStays ==
  ASSUME NEW a \in Audits, FromState(a), reply'[a] = reply[a], state'[a] = state[a],
         sample'[a] = sample[a]
  PROVE  FromState(a)'
  BY DEF FromState, Source

LEMMA MomentStep == TypeInv /\ MomentInv /\ [Next]_vars => MomentInv'
<1> SUFFICES ASSUME TypeInv, MomentInv, [Next]_vars PROVE MomentInv'
  OBVIOUS
<1>t. /\ doc \in Document /\ doc.analyzed \in Seq(Verdict) /\ state \in [Audits -> Document]
      /\ DOMAIN reply = Audits /\ DOMAIN sample = Audits /\ DOMAIN apc = Audits
      /\ \A b \in Audits : Bounded(state[b])
  BY DocumentIs DEF TypeInv, TypeOK
<1>m. /\ TellsAll(doc) /\ \A b \in Audits : Seen(b)
      /\ \A b \in Audits : apc[b] \in {"rebuild", "clean", "done"} /\ reply[b].kind = "audit"
                              => FromState(b)
  BY DEF MomentInv
<1>s. <<>> \in Seq(Verdict) /\ doc.analyzed \o <<>> = doc.analyzed  BY <1>t
<1>1. ASSUME NEW u \in Updates, Push(u) \/ PushNotable(u) PROVE MomentInv'
  <2>1. /\ verdict[u] \in Verdict /\ UNCHANGED <<legacy, verdict, apc, state, sample, reply>>
        /\ doc' = Pushed(doc, verdict[u]) \/ doc' = Listed(doc, verdict[u]) \/ doc' = doc
    BY <1>1, UpdateSteps
  <2>2. TellsAll(doc)' /\ \E t \in Seq(Verdict) : doc'.analyzed = doc.analyzed \o t
    BY <2>1, DocumentGrows
  <2>3. \A b \in Audits : Seen(b)'
    BY <1>t, <1>m, <2>1, <2>2, SeenStays
  <2>4. \A b \in Audits : FromState(b) => FromState(b)'  BY <2>1, FromStateStays
  <2> QED  BY <1>m, <2>1, <2>2, <2>3, <2>4 DEF MomentInv
<1>2. ASSUME NEW a \in Audits, Read(a) PROVE MomentInv'
  <2>1. /\ UNCHANGED <<legacy, doc, upc, verdict, sample>>
        /\ state' = state \/ state' = [state EXCEPT ![a] = doc]
        /\ \A b \in Audits \ {a} : apc'[b] = apc[b] /\ reply'[b] = reply[b] /\ state'[b] = state[b]
    BY <1>2, <1>t DEF Read, Goto, FallBackToPayload
  <2>2. \/ apc'[a] \in {"build", "tenantless"}
        \/ apc'[a] = "done" /\ reply'[a].kind = "payload"
    BY <1>2, <1>t, PayloadIs DEF Read, Goto, FallBackToPayload
  <2>3. TellsAll(doc)'  BY <1>m, <2>1 DEF TellsAll
  <2>4. ASSUME NEW b \in Audits PROVE Seen(b)'
    <3>1. CASE state'[b] = state[b]  BY <1>m, <1>s, <1>t, <2>1, <3>1, SeenStays
    <3>2. CASE state'[b] = doc
      <4>1. PICK k \in Nat : k = Len(doc.analyzed)  BY <1>t
      <4>2. SubSeq(doc.analyzed, 1, k) = doc.analyzed /\ k \in 0..k  BY <1>t, <4>1
      <4>3. state'[b].analyzed = SubSeq(doc'.analyzed, 1, k) /\ k \in 0..Len(doc'.analyzed)
        BY <2>1, <3>2, <4>1, <4>2
      <4> QED  BY <2>1, <2>3, <3>2, <4>3 DEF Seen, TellsAll
    <3> QED  BY <1>t, <2>1, <3>1, <3>2
  <2>5. ASSUME NEW b \in Audits, apc'[b] \in {"rebuild", "clean", "done"}, reply'[b].kind = "audit"
        PROVE  FromState(b)'
    <3>1. b # a  BY <2>2, <2>5
    <3>2. FromState(b)  BY <1>m, <2>1, <2>5, <3>1
    <3> QED  BY <2>1, <3>1, <3>2, FromStateStays
  <2> QED  BY <2>3, <2>4, <2>5 DEF MomentInv
<1>3. ASSUME NEW a \in Audits, Build(a) \/ Rebuild(a) PROVE MomentInv'
  <2>1. /\ UNCHANGED <<legacy, doc, upc, verdict, state>>
        /\ \A b \in Audits \ {a} : apc'[b] = apc[b] /\ reply'[b] = reply[b] /\ sample'[b] = sample[b]
    BY <1>3, <1>t DEF Build, Rebuild, Goto
  <2>2. PICK ok \in BOOLEAN :
          \/ reply' = [reply EXCEPT ![a] = Built(a, ok)]
          \/ reply' = [reply EXCEPT ![a] = [Built(a, ok) EXCEPT !.degraded = TRUE]]
    BY <1>3, OutcomesTyped DEF Build, Rebuild
  <2>3. /\ reply'[a].average = Average(state[a].scoreSum, state[a].scoreCount)
        /\ reply'[a].posture = Posture(state[a])
    <3>1. state[a] \in Document /\ Bounded(state[a])  BY <1>t
    <3>2. reply'[a] = Built(a, ok) \/ reply'[a] = [Built(a, ok) EXCEPT !.degraded = TRUE]
      BY <1>t, <2>2
    <3> QED  BY <3>1, <3>2, BuiltIs, Zenon
  <2>4. sample'[a] = Upto(Len(sample'[a]), Source(a))
    <3>1. Source(a) \in Seq(Verdict)  BY <1>t, SourceTyped
    <3>2. SampleCap \in Nat /\ FallbackCap \in Nat  BY AuditConstants
    <3>3. sample'[a] \in {Source(a), Upto(SampleCap, Source(a)), Upto(FallbackCap, Source(a))}
      BY <1>3, <1>t DEF Build, Rebuild
    <3> QED  BY <3>1, <3>2, <3>3, UptoSelf
  <2>5. FromState(a)'
    <3>1. Source(a)' = Source(a) /\ state'[a] = state[a]  BY <2>1 DEF Source
    <3>2. Posture(state[a])' = Posture(state[a])  BY <3>1
    <3> QED  BY <2>3, <2>4, <3>1, <3>2 DEF FromState
  <2>6. TellsAll(doc)'  BY <1>m, <2>1 DEF TellsAll
  <2>7. \A b \in Audits : Seen(b)'  BY <1>m, <1>s, <1>t, <2>1, SeenStays
  <2>8. ASSUME NEW b \in Audits, apc'[b] \in {"rebuild", "clean", "done"}, reply'[b].kind = "audit"
        PROVE  FromState(b)'
    <3>1. CASE b = a  BY <2>5, <3>1
    <3>2. CASE b # a
      <4>1. FromState(b)  BY <1>m, <2>1, <2>8, <3>2
      <4> QED  BY <2>1, <3>2, <4>1, FromStateStays
    <3> QED  BY <3>1, <3>2
  <2> QED  BY <2>6, <2>7, <2>8 DEF MomentInv
<1>4. ASSUME NEW a \in Audits, Clean(a) PROVE MomentInv'
  <2>1. /\ UNCHANGED <<legacy, upc, verdict, state, sample>>
        /\ doc' = [doc EXCEPT !.dirty = FALSE] \/ doc' = doc
        /\ \A b \in Audits \ {a} : apc'[b] = apc[b] /\ reply'[b] = reply[b]
        /\ apc[a] = "clean"
        /\ reply'[a] = reply[a] \/ reply'[a].kind = "payload"
    BY <1>4, <1>t, PayloadIs DEF Clean, Goto, FallBackToPayload
  <2>2. TellsAll(doc)'
    <3>1. Tallies(doc, legacy \o doc.analyzed)  BY <1>m DEF TellsAll
    <3>2. PICK e : e = doc'  OBVIOUS
    <3>3. /\ e.counts = doc.counts /\ e.integrity = doc.integrity
          /\ e.scoreSum = doc.scoreSum /\ e.scoreCount = doc.scoreCount
          /\ e.analyzed = doc.analyzed
      BY <1>t, <2>1, <3>2, CleanedIs
    <3>4. Tallies(e, legacy \o e.analyzed)  BY <3>1, <3>3, TalliesSame
    <3> QED  BY <2>1, <3>2, <3>4 DEF TellsAll
  <2>3. \E t \in Seq(Verdict) : doc'.analyzed = doc.analyzed \o t
    BY <1>s, <1>t, <2>1, CleanedIs
  <2>4. \A b \in Audits : Seen(b)'  BY <1>m, <1>t, <2>1, <2>3, SeenStays
  <2>5. ASSUME NEW b \in Audits, apc'[b] \in {"rebuild", "clean", "done"}, reply'[b].kind = "audit"
        PROVE  FromState(b)'
    <3>1. reply'[b] = reply[b]
      <4>1. CASE b = a
        <5>1. "payload" # "audit"  OBVIOUS
        <5> QED  BY <2>1, <2>5, <4>1, <5>1
      <4>2. CASE b # a  BY <2>1, <4>2
      <4> QED  BY <4>1, <4>2
    <3>2. apc[b] \in {"rebuild", "clean", "done"}
      <4>1. CASE b = a  BY <2>1, <4>1
      <4>2. CASE b # a  BY <2>1, <2>5, <4>2
      <4> QED  BY <4>1, <4>2
    <3>3. FromState(b)  BY <1>m, <2>5, <3>1, <3>2
    <3> QED  BY <2>1, <3>1, <3>3, FromStateStays
  <2> QED  BY <2>2, <2>4, <2>5 DEF MomentInv
<1>5. CASE UNCHANGED vars
  <2>1. UNCHANGED <<legacy, doc, apc, state, sample, reply>>  BY <1>5 DEF vars
  <2>2. TellsAll(doc)' /\ \A b \in Audits : Seen(b)'
    BY <1>m, <2>1 DEF TellsAll, Seen
  <2>3. \A b \in Audits : FromState(b) => FromState(b)'  BY <2>1, FromStateStays
  <2> QED  BY <1>m, <2>1, <2>2, <2>3 DEF MomentInv
<1> QED  BY <1>1, <1>2, <1>3, <1>4, <1>5 DEF Next

(* However long the LLM takes and however many updates come meanwhile, an   *)
(* audit's average, posture and sample all tell of one set of documents the *)
(* tenant had at one moment.                                                *)
THEOREM MomentTheorem == Spec => []AuditTellsOneMoment
<1>1. TypeInv /\ MomentInv => AuditTellsOneMoment  BY MomentTells
<1> QED  BY TypeInit, TypeStep, MomentInit, MomentStep, <1>1, PTL DEF Spec

-----------------------------------------------------------------------------
(* What "degraded" tells.                                                   *)

Labels == {"idle", "tenantless", "build", "rebuild", "clean", "done"}

(* What "degraded" tells of an audit that has its response.                 *)
Honest(a) == IF reply[a].degraded
             THEN Len(sample[a]) = FallbackCap /\ FallbackCap < Len(Source(a))
             ELSE /\ sample[a] = Source(a)
                  /\ reply[a].narrative \/ ~ApiKey \/ ~(FallbackCap < Len(Source(a)))

(* An audit builds a second time only from more documents than the cap, and *)
(* is honest from its last build on.                                        *)
HonestInv ==
    /\ apc \in [Audits -> Labels]
    /\ DOMAIN reply = Audits /\ DOMAIN sample = Audits /\ DOMAIN state = Audits
    /\ SampleCap = 0 =>
        \A a \in Audits :
            /\ apc[a] = "rebuild" => FallbackCap < Len(Source(a))
            /\ apc[a] \in {"clean", "done"} /\ reply[a].kind = "audit" => Honest(a)

LEMMA HonestInit == Init => HonestInv
  BY DEF Init, HonestInv, Labels

LEMMA UptoLength ==
  ASSUME NEW s, NEW n \in Nat, n < Len(s)
  PROVE  Len(Upto(n, s)) = n
<1>1. Upto(n, s) = SubSeq(s, 1, n)  BY DEF Upto
<1> QED  BY <1>1

(* A step that is not an audit's.                                           *)
LEMMA HonestByOther ==
  ASSUME HonestInv, UNCHANGED <<apc, state, sample, reply>>
  PROVE  HonestInv'
  BY DEF HonestInv, Honest, Source

LEMMA HonestStep == HonestInv /\ [Next]_vars => HonestInv'
<1> SUFFICES ASSUME HonestInv, [Next]_vars PROVE HonestInv'
  OBVIOUS
<1> USE DEF Labels
<1>1. ASSUME NEW u \in Updates, Push(u) \/ PushNotable(u) PROVE HonestInv'
  BY <1>1, HonestByOther DEF Push, PushNotable
<1>2. ASSUME NEW a \in Audits, Read(a) PROVE HonestInv'
  <2>1. /\ apc' \in [Audits -> Labels] /\ UNCHANGED sample
        /\ DOMAIN reply' = Audits /\ DOMAIN state' = Audits
        /\ \A b \in Audits \ {a} : /\ apc'[b] = apc[b] /\ state'[b] = state[b]
                                   /\ reply'[b] = reply[b]
    BY <1>2 DEF Read, Goto, FallBackToPayload, HonestInv
  <2>2. \/ apc'[a] \in {"build", "tenantless"}
        \/ apc'[a] = "done" /\ reply'[a].kind = "payload"
    BY <1>2 DEF Read, Goto, FallBackToPayload, HonestInv, NoReply
  <2> QED  BY <2>1, <2>2 DEF HonestInv, Honest, Source
<1>3. ASSUME NEW a \in Audits, Build(a) PROVE HonestInv'
  <2>1. PICK ok \in BOOLEAN :
          /\ reply' = [reply EXCEPT ![a] = Built(a, ok)]
          /\ SampleCap = 0 => sample' = [sample EXCEPT ![a] = Source(a)]
          /\ DOMAIN sample' = Audits
          /\ \A b \in Audits \ {a} : sample'[b] = sample[b]
          /\ \/ Goto(a, "rebuild") /\ (SampleCap = 0 => TooLarge(Source(a)))
             \/ /\ Goto(a, "clean") \/ Goto(a, "done")
                /\ SampleCap = 0 => ok \/ ~TooLarge(Source(a))
          /\ UNCHANGED state
    BY <1>3 DEF Build, Outcomes, HonestInv
  <2>2. /\ apc' \in [Audits -> Labels] /\ DOMAIN reply' = Audits
        /\ \A b \in Audits \ {a} : apc'[b] = apc[b] /\ reply'[b] = reply[b]
    BY <2>1 DEF Goto, HonestInv
  <2>3. ~reply'[a].degraded /\ reply'[a].narrative = ok
    BY <2>1 DEF Built, NoReply, HonestInv
  <2>4. ASSUME SampleCap = 0
        PROVE  apc'[a] = "rebuild" => FallbackCap < Len(Source(a))
    BY <2>1, <2>4, AuditConstants DEF Goto, TooLarge, HonestInv
  <2>5. ASSUME SampleCap = 0 PROVE sample'[a] = Source(a)
    BY <2>1, <2>5 DEF HonestInv
  <2>6. ASSUME SampleCap = 0, apc'[a] \in {"clean", "done"} PROVE Honest(a)'
    <3>1. Len(Source(a)) > FallbackCap <=> FallbackCap < Len(Source(a))
      BY Zenon
    <3>2. ok \/ ~ApiKey \/ ~(FallbackCap < Len(Source(a)))
      BY <2>1, <2>2, <2>6 DEF Goto, TooLarge, HonestInv
    <3>3. Source(a)' = Source(a)  BY <2>1 DEF Source
    <3> QED  BY <2>3, <2>5, <2>6, <3>2, <3>3 DEF Honest
  <2> QED  BY <2>1, <2>2, <2>4, <2>6 DEF HonestInv, Honest, Source
<1>4. ASSUME NEW a \in Audits, Rebuild(a) PROVE HonestInv'
  <2>1. PICK ok \in BOOLEAN :
          reply' = [reply EXCEPT ![a] = [Built(a, ok) EXCEPT !.degraded = TRUE]]
    BY <1>4 DEF Rebuild, Outcomes
  <2>2. /\ apc[a] = "rebuild" /\ Goto(a, "clean") /\ UNCHANGED state
        /\ sample' = [sample EXCEPT ![a] = Upto(FallbackCap, Source(a))]
    BY <1>4 DEF Rebuild
  <2>3. reply'[a].degraded
    BY <2>1 DEF Built, NoReply, HonestInv
  <2>4. ASSUME SampleCap = 0 PROVE Honest(a)'
    <3>1. FallbackCap < Len(Source(a))  BY <2>2, <2>4 DEF HonestInv
    <3>2. Len(Upto(FallbackCap, Source(a))) = FallbackCap
      BY <3>1, UptoLength, AuditConstants
    <3> QED  BY <2>2, <2>3, <3>1, <3>2 DEF HonestInv, Honest, Source
  <2>5. /\ apc' \in [Audits -> Labels] /\ apc'[a] = "clean"
        /\ DOMAIN reply' = Audits /\ DOMAIN sample' = Audits
        /\ \A b \in Audits \ {a} : /\ apc'[b] = apc[b] /\ sample'[b] = sample[b]
                                   /\ reply'[b] = reply[b]
    BY <2>1, <2>2 DEF Goto, HonestInv
  <2> QED  BY <2>2, <2>4, <2>5 DEF HonestInv, Honest, Source
<1>5. ASSUME NEW a \in Audits, Clean(a) PROVE HonestInv'
  <2>1. /\ apc' \in [Audits -> Labels] /\ UNCHANGED <<state, sample>>
        /\ DOMAIN reply' = Audits
        /\ \A b \in Audits \ {a} : apc'[b] = apc[b] /\ reply'[b] = reply[b]
    BY <1>5 DEF Clean, Goto, FallBackToPayload, HonestInv
  <2>2. apc[a] = "clean" /\ apc'[a] = "done"
    BY <1>5 DEF Clean, Goto, FallBackToPayload, HonestInv
  <2>3. reply'[a] = reply[a] \/ reply'[a].kind = "payload"
    BY <1>5 DEF Clean, FallBackToPayload, NoReply, HonestInv
  <2> QED  BY <2>1, <2>2, <2>3 DEF HonestInv, Honest, Source
<1>6. CASE UNCHANGED vars
  BY <1>6, HonestByOther DEF vars
<1> QED  BY <1>1, <1>2, <1>3, <1>4, <1>5, <1>6 DEF Next

(* One more verdict in the sorted list.                                     *)
LEMMA ByScoreLength ==
  ASSUME NEW t \in Seq(Verdict), NEW v \in Verdict
  PROVE  Len(ByScore(t, v)) = Len(t) + 1
<1>1. PICK k \in 0..Len(t) : ByScore(t, v) = InsertAt(t, k + 1, v)  BY Placed
<1> QED  BY <1>1, Inserted

(* Sorting loses nothing.                                                   *)
LEMMA WorstLength ==
  ASSUME NEW s \in Seq(Verdict)
  PROVE  Len(Worst(s)) = Len(s)
<1>1. PICK n \in Nat : n = Len(s)  OBVIOUS
<1>2. \A i \in 1..n : s[i] \in Verdict  BY <1>1
<1>3. PICK g \in [0..n -> Seq(Verdict)] : /\ g[0] = <<>> /\ g[n] = Worst(s)
                                         /\ \A i \in 1..n : g[i] = ByScore(g[i - 1], s[i])
  BY <1>1, WorstIs
<1> DEFINE P == {i \in 0..n : Len(g[i]) = i}
<1>4. 0 \in P  BY <1>3
<1>5. ASSUME NEW i \in 1..n, i - 1 \in P PROVE i \in P
  <2>1. g[i - 1] \in Seq(Verdict) /\ Len(g[i - 1]) = i - 1 /\ i \in 0..n  BY <1>5
  <2>2. g[i] = ByScore(g[i - 1], s[i])  BY <1>3
  <2>3. Len(ByScore(g[i - 1], s[i])) = (i - 1) + 1  BY <1>2, <2>1, ByScoreLength
  <2> QED  BY <2>1, <2>2, <2>3
<1>6. n \in P
  <2> HIDE DEF P
  <2>1. \A i \in 1..n : i - 1 \in P => i \in P  BY <1>5
  <2>2. \A i \in 0..n : i \in P  BY <1>4, <2>1, InductionUpTo
  <2> QED  BY <2>2
<1> QED  BY <1>1, <1>3, <1>6

(* What the audit of a tenant without a history reads has every document    *)
(* the counter counts.                                                      *)
LEMMA SourceCounts ==
  ASSUME TypeInv, MomentInv, NEW a \in Audits, legacy = <<>>
  PROVE  Source(a) \in Seq(Verdict) /\ Len(Source(a)) = state[a].scoreCount
<1>1. /\ state \in [Audits -> Document] /\ state[a] \in Document /\ Bounded(state[a])
  BY DEF TypeInv, TypeOK
<1>2. PICK an, no : an = state[a].analyzed /\ no = state[a].notable  OBVIOUS
<1>3. an \in Seq(Verdict) /\ no \in Seq(Verdict)  BY <1>1, <1>2, DocumentIs
<1>4. state[a].scoreCount = Len(an) /\ (Len(an) = 0 => no = <<>>)
  <2>1. CASE state[a] = ZeroState  BY <1>2, <2>1, ZeroIs
  <2>2. CASE state[a] # ZeroState
    <3>1. Tallies(state[a], legacy \o an)  BY <1>2, <2>2 DEF MomentInv, Seen, TellsAll
    <3>2. legacy \o an = an  BY <1>3
    <3>3. state[a].scoreCount = Len(an)  BY <3>1, <3>2 DEF Tallies
    <3> QED  BY <1>1, <1>2, <3>3 DEF Bounded
  <2> QED  BY <2>1, <2>2
<1>5. Source(a) = Worst(IF an # <<>> THEN an ELSE no)  BY <1>2 DEF Source
<1>6. an = <<>> => no = <<>>  BY <1>4
<1>7. Source(a) = Worst(an)  BY <1>5, <1>6
<1> QED  BY <1>1, <1>3, <1>4, <1>7, SourceTyped, WorstLength

LEMMA HonestTells == TypeInv /\ MomentInv /\ HonestInv => DegradedMeansReduced
<1> SUFFICES ASSUME TypeInv, MomentInv, HonestInv, NEW a \in Audits,
                    apc[a] = "done", reply[a].kind = "audit", SampleCap = 0, legacy = <<>>
             PROVE  IF reply[a].degraded
                    THEN Len(sample[a]) = FallbackCap /\ FallbackCap < state[a].scoreCount
                    ELSE /\ Len(sample[a]) = state[a].scoreCount
                         /\ reply[a].narrative \/ ~ApiKey \/ Len(sample[a]) <= FallbackCap
  BY DEF DegradedMeansReduced
<1>1. Honest(a)  BY DEF HonestInv
<1>2. PICK src \in Seq(Verdict) : src = Source(a) /\ Len(src) = state[a].scoreCount
  BY SourceCounts
<1>3. ~(FallbackCap < Len(src)) => Len(src) <= FallbackCap  BY AuditConstants
<1> QED  BY <1>1, <1>2, <1>3 DEF Honest

(* A caller who asked for the whole corpus of a tenant without a history is *)
(* told "degraded" only if the sample was cut to the cap; otherwise it has  *)
(* all documents counted, and unless no retry could help it, the narrative  *)
(* is the LLM's.                                                            *)
THEOREM HonestTheorem == Spec => []DegradedMeansReduced
<1>1. TypeInv /\ MomentInv /\ HonestInv => DegradedMeansReduced  BY HonestTells
<1> QED  BY TypeInit, TypeStep, MomentInit, MomentStep, HonestInit, HonestStep, <1>1, PTL
            DEF Spec

-----------------------------------------------------------------------------
(* The notable list.                                                        *)

(* The low verdicts that are counted and not listed yet.                    *)
Waiting(x) == {u \in Updates : upc[u] = "notable" /\ verdict[u].score <= x}

(* The list holds the worst of c, and c and those waiting are all the low   *)
(* verdicts counted.                                                        *)
ListsBut(c) ==
    /\ Lists(doc.notable, NotableCap, c)
    /\ \A x \in Scale : /\ IsFiniteSet(Waiting(x))
                        /\ c[x] + Cardinality(Waiting(x)) = LowTally(Counted(doc))[x]

NotableInv ==
    (\A u \in Updates : upc[u] # "failed") =>
        /\ \A u \in Updates : upc[u] = "notable" => Low(verdict[u])
        /\ \E c : ListsBut(c)

LEMMA CountedTyped ==
  ASSUME TypeInv
  PROVE  /\ doc \in Document /\ legacy \in Seq(Verdict) /\ Counted(doc) \in Seq(Verdict)
         /\ NotableCap \in Nat
<1>1. doc \in Document /\ legacy \in Histories  BY DEF TypeInv, TypeOK
<1>2. doc.analyzed \in Seq(Verdict) /\ legacy \in Seq(Verdict)
  BY <1>1, DocumentIs, AuditConstants
<1>3. Counted(doc) \in Seq(Verdict)  BY <1>2 DEF Counted
<1> QED  BY <1>1, <1>2, <1>3, AuditConstants

LEMMA NotableLists == TypeInv /\ NotableInv => NotableIsWorst
<1> SUFFICES ASSUME TypeInv, NotableInv, \A u \in Updates : upc[u] \in {"idle", "done"}
             PROVE  Scores(doc.notable) = Scores(Upto(NotableCap, WorstLow(Counted(doc))))
  BY DEF NotableIsWorst
<1>1. PICK c : ListsBut(c)  BY DEF NotableInv
<1>2. PICK L : L = LowTally(Counted(doc))  OBVIOUS
<1>3. \A x : Waiting(x) = {}  BY DEF Waiting
<1>4. Tally(c) /\ Lists(doc.notable, NotableCap, c)  BY <1>1 DEF ListsBut, Lists
<1>5. \A x \in Scale : c[x] = L[x]
  <2>1. ASSUME NEW x \in Scale PROVE c[x] = L[x]
    <3>1. c[x] + Cardinality(Waiting(x)) = L[x]  BY <1>1, <1>2 DEF ListsBut
    <3>2. Cardinality(Waiting(x)) = 0  BY <1>3, FS_EmptySet
    <3>3. c[x] \in Nat  BY <1>4, TallyIs
    <3> QED  BY <3>1, <3>2, <3>3
  <2> QED  BY <2>1
<1>6. c = L
  <2>1. c \in [Scale -> Nat]  BY <1>4 DEF Tally
  <2>2. L = [x \in Scale |-> L[x]]  BY <1>2 DEF LowTally
  <2> QED  BY <1>5, <2>1, <2>2
<1>7. PICK s \in Seq(Verdict) : s = Counted(doc)  BY CountedTyped
<1>8. PICK w : w = WorstLow(s)  OBVIOUS
<1>9. Lists(w, c[100], c)  BY <1>2, <1>6, <1>7, <1>8, WorstLowLists
<1>10. Lists(Upto(NotableCap, w), NotableCap, c)  BY <1>9, CountedTyped, ListsCut
<1> QED  BY <1>4, <1>7, <1>8, <1>10, CountedTyped, SameScores

LEMMA NotableInit == Init => NotableInv
<1> SUFFICES ASSUME Init PROVE NotableInv
  OBVIOUS
<1>1. legacy \in Seq(Verdict)  BY AuditConstants DEF Init
<1>2. doc = Inherited(legacy)  BY DEF Init
<1>3. Lists(doc.notable, NotableCap, LowTally(legacy)) /\ doc.analyzed = <<>>
  BY <1>1, <1>2, InheritedTells
<1>4. Counted(doc) = legacy  BY <1>1, <1>3 DEF Counted
<1>5. \A u \in Updates : upc[u] = "idle"  BY DEF Init
<1>6. \A x : Waiting(x) = {}  BY <1>5 DEF Waiting
<1>7. ASSUME NEW x \in Scale
      PROVE  /\ IsFiniteSet(Waiting(x))
             /\ LowTally(legacy)[x] + Cardinality(Waiting(x)) = LowTally(legacy)[x]
  <2>1. IsFiniteSet(Waiting(x)) /\ Cardinality(Waiting(x)) = 0  BY <1>6, FS_EmptySet
  <2>2. LowTally(legacy)[x] \in Nat  BY <1>1, LowFinite DEF LowTally
  <2> QED  BY <2>1, <2>2
<1>8. ListsBut(LowTally(legacy))  BY <1>3, <1>4, <1>7 DEF ListsBut
<1> QED  BY <1>5, <1>8 DEF NotableInv

(* A step that touches neither the updates nor what they have written.      *)
LEMMA NotableByOther ==
  ASSUME NotableInv, UNCHANGED <<legacy, upc, verdict>>,
         doc'.notable = doc.notable, doc'.analyzed = doc.analyzed
  PROVE  NotableInv'
<1>1. \A x : Waiting(x)' = Waiting(x)  BY DEF Waiting
<1>2. LowTally(Counted(doc))' = LowTally(Counted(doc))
  <2>1. Counted(doc)' = Counted(doc)  BY DEF Counted
  <2> QED  BY <2>1, Zenon DEF LowTally, LowAtMost, Low
<1>3. \A c : Lists(doc.notable, NotableCap, c)' <=> Lists(doc.notable, NotableCap, c)
  BY Zenon DEF Lists, Ranked, Tally
<1>4. \A c : ListsBut(c) => ListsBut(c)'
  BY <1>1, <1>2, <1>3, Zenon DEF ListsBut
<1> QED  BY <1>4, Zenon DEF NotableInv

(* How those waiting change.                                                *)
LEMMA WaitingMore ==
  ASSUME NEW x, NEW u \in Updates, IsFiniteSet(Waiting(x)), upc[u] # "notable",
         upc' = [upc EXCEPT ![u] = "notable"], DOMAIN upc = Updates, UNCHANGED verdict
  PROVE  /\ IsFiniteSet(Waiting(x)')
         /\ Cardinality(Waiting(x)') =
              Cardinality(Waiting(x)) + IF verdict[u].score <= x THEN 1 ELSE 0
         /\ Cardinality(Waiting(x)) \in Nat
<1>1. u \notin Waiting(x)  BY DEF Waiting
<1>2. Waiting(x)' = IF verdict[u].score <= x THEN Waiting(x) \cup {u} ELSE Waiting(x)
  BY DEF Waiting
<1>3. Cardinality(Waiting(x)) \in Nat  BY FS_CardinalityType
<1>4. CASE verdict[u].score <= x
  <2>1. Waiting(x)' = Waiting(x) \cup {u}  BY <1>2, <1>4
  <2>2. /\ IsFiniteSet(Waiting(x) \cup {u})
        /\ Cardinality(Waiting(x) \cup {u}) = Cardinality(Waiting(x)) + 1
    BY <1>1, FS_AddElement
  <2> QED  BY <1>3, <1>4, <2>1, <2>2
<1>5. CASE ~(verdict[u].score <= x)
  <2>1. Waiting(x)' = Waiting(x)  BY <1>2, <1>5
  <2> QED  BY <1>3, <1>5, <2>1
<1> QED  BY <1>4, <1>5

LEMMA WaitingLess ==
  ASSUME NEW x, NEW u \in Updates, IsFiniteSet(Waiting(x)), upc[u] = "notable",
         upc' = [upc EXCEPT ![u] = "done"], DOMAIN upc = Updates, UNCHANGED verdict
  PROVE  /\ IsFiniteSet(Waiting(x)')
         /\ Cardinality(Waiting(x)) =
              Cardinality(Waiting(x)') + IF verdict[u].score <= x THEN 1 ELSE 0
         /\ Cardinality(Waiting(x)') \in Nat
<1>1. Waiting(x)' = Waiting(x) \ {u}  BY DEF Waiting
<1>2. u \in Waiting(x) <=> verdict[u].score <= x  BY DEF Waiting
<1>3. Cardinality(Waiting(x)) \in Nat  BY FS_CardinalityType
<1>4. /\ IsFiniteSet(Waiting(x) \ {u})
      /\ Cardinality(Waiting(x) \ {u}) =
           IF u \in Waiting(x) THEN Cardinality(Waiting(x)) - 1 ELSE Cardinality(Waiting(x))
  BY FS_RemoveElement
<1>5. Cardinality(Waiting(x) \ {u}) \in Nat  BY <1>4, FS_CardinalityType
<1> QED  BY <1>1, <1>2, <1>3, <1>4, <1>5

LEMMA NotableByPush ==
  ASSUME TypeInv, NotableInv, NEW u \in Updates, Push(u)
  PROVE  NotableInv'
<1>t. /\ DOMAIN upc = Updates /\ verdict[u] \in Verdict
      /\ UNCHANGED <<legacy, verdict, apc, state, sample, reply>>
  BY UpdateSteps DEF TypeInv, TypeOK
<1>d. doc \in Document /\ Counted(doc) \in Seq(Verdict)  BY CountedTyped
<1> SUFFICES ASSUME (\A w \in Updates : upc[w] # "failed")'
             PROVE  (/\ \A w \in Updates : upc[w] = "notable" => Low(verdict[w])
                     /\ \E c : ListsBut(c))'
  BY DEF NotableInv
<1> DEFINE v == verdict[u]
<1>1. /\ doc' = Pushed(doc, v) /\ upc[u] = "idle"
      /\ upc' = [upc EXCEPT ![u] = IF Low(v) THEN "notable" ELSE "done"]
  <2>1. upc' # [upc EXCEPT ![u] = "failed"]  BY <1>t
  <2> QED  BY <2>1 DEF Push
<1>2. \A w \in Updates : upc[w] # "failed"
  <2>1. upc'[u] # "failed" /\ \A w \in Updates \ {u} : upc'[w] = upc[w]  BY <1>1, <1>t
  <2> QED  BY <1>1, <2>1
<1>3. PICK c : ListsBut(c)  BY <1>2 DEF NotableInv
<1>4. \A w \in Updates : upc[w] = "notable" => Low(verdict[w])  BY <1>2 DEF NotableInv
<1>5. \A w \in Updates : upc'[w] = "notable" => Low(verdict'[w])
  BY <1>1, <1>4, <1>t DEF Low
<1>6. doc'.notable = doc.notable /\ doc'.analyzed = Append(doc.analyzed, v)
  BY <1>1, <1>d, <1>t, PushedIs
<1>7. Counted(doc)' = Append(Counted(doc), v)
  <2>1. doc.analyzed \in Seq(Verdict) /\ legacy \in Seq(Verdict)  BY CountedTyped, DocumentIs
  <2>2. legacy \o Append(doc.analyzed, v) = Append(legacy \o doc.analyzed, v)  BY <1>t, <2>1
  <2> QED  BY <1>6, <1>t, <2>2 DEF Counted
<1>8. LowTally(Counted(doc))' = LowTally(Append(Counted(doc), v))
  BY <1>7, Zenon DEF LowTally, LowAtMost, Low
<1>9. Tally(c) /\ Lists(doc.notable, NotableCap, c)  BY <1>3 DEF ListsBut, Lists
<1>10. ASSUME NEW x \in Scale
       PROVE  /\ IsFiniteSet(Waiting(x)')
              /\ c[x] + Cardinality(Waiting(x)') = (LowTally(Counted(doc))')[x]
  <2>1. IsFiniteSet(Waiting(x)) /\ c[x] + Cardinality(Waiting(x)) = LowTally(Counted(doc))[x]
    BY <1>3 DEF ListsBut
  <2>2. c[x] \in Nat /\ Cardinality(Waiting(x)) \in Nat  BY <1>9, <2>1, TallyIs, FS_CardinalityType
  <2>3. PICK L : L = LowTally(Counted(doc))  OBVIOUS
  <2>4. LowTally(Append(Counted(doc), v)) = IF Low(v) THEN Counting(L, v) ELSE L
    BY <1>d, <1>t, <2>3, LowMore
  <2>5. CASE Low(v)
    <3>1. upc' = [upc EXCEPT ![u] = "notable"]  BY <1>1, <2>5
    <3>2. /\ IsFiniteSet(Waiting(x)')
          /\ Cardinality(Waiting(x)') = Cardinality(Waiting(x)) + IF v.score <= x THEN 1 ELSE 0
      BY <1>1, <1>t, <2>1, <3>1, WaitingMore
    <3>3. (LowTally(Counted(doc))')[x] = L[x] + IF v.score <= x THEN 1 ELSE 0
      BY <1>8, <2>4, <2>5 DEF Counting
    <3> QED  BY <2>1, <2>2, <2>3, <3>2, <3>3
  <2>6. CASE ~Low(v)
    <3>1. upc' = [upc EXCEPT ![u] = "done"]  BY <1>1, <2>6
    <3>2. Waiting(x)' = Waiting(x)  BY <1>1, <1>t, <3>1 DEF Waiting
    <3> QED  BY <1>8, <2>1, <2>3, <2>4, <2>6, <3>2
  <2> QED  BY <2>5, <2>6
<1>11. Lists(doc.notable, NotableCap, c)'
  BY <1>6, <1>9, Zenon DEF Lists, Ranked, Tally
<1>12. ListsBut(c)'  BY <1>10, <1>11, Zenon DEF ListsBut
<1> QED  BY <1>5, <1>12, Zenon

LEMMA NotableByList ==
  ASSUME TypeInv, NotableInv, NEW u \in Updates, PushNotable(u)
  PROVE  NotableInv'
<1>t. /\ DOMAIN upc = Updates /\ verdict[u] \in Verdict
      /\ UNCHANGED <<legacy, verdict, apc, state, sample, reply>>
  BY UpdateSteps DEF TypeInv, TypeOK
<1>d. doc \in Document /\ Counted(doc) \in Seq(Verdict) /\ NotableCap \in Nat  BY CountedTyped
<1> SUFFICES ASSUME (\A w \in Updates : upc[w] # "failed")'
             PROVE  (/\ \A w \in Updates : upc[w] = "notable" => Low(verdict[w])
                     /\ \E c : ListsBut(c))'
  BY DEF NotableInv
<1> DEFINE v == verdict[u]
<1>1. /\ doc' = Listed(doc, v) /\ upc[u] = "notable"
      /\ upc' = [upc EXCEPT ![u] = "done"]
  <2>1. upc' # [upc EXCEPT ![u] = "failed"]  BY <1>t
  <2> QED  BY <2>1 DEF PushNotable
<1>2. \A w \in Updates : upc[w] # "failed"
  <2>1. upc'[u] # "failed" /\ \A w \in Updates \ {u} : upc'[w] = upc[w]  BY <1>1, <1>t
  <2> QED  BY <1>1, <2>1
<1>3. PICK c : ListsBut(c)  BY <1>2 DEF NotableInv
<1>4. \A w \in Updates : upc[w] = "notable" => Low(verdict[w])  BY <1>2 DEF NotableInv
<1>5. \A w \in Updates : upc'[w] = "notable" => Low(verdict'[w])
  BY <1>1, <1>4, <1>t DEF Low
<1>6. /\ doc'.notable = Upto(NotableCap, ByScore(doc.notable, v))
      /\ doc'.analyzed = doc.analyzed
  BY <1>1, <1>d, <1>t, ListedIs
<1>7. LowTally(Counted(doc))' = LowTally(Counted(doc))
  <2>1. Counted(doc)' = Counted(doc)  BY <1>6, <1>t DEF Counted
  <2> QED  BY <2>1, Zenon DEF LowTally, LowAtMost, Low
<1>8. PICK no : no = doc.notable  OBVIOUS
<1>9. Tally(c) /\ Lists(no, NotableCap, c)  BY <1>3, <1>8 DEF ListsBut, Lists
<1>10. PICK e : e = Counting(c, v)  OBVIOUS
<1>11. Lists(Upto(NotableCap, ByScore(no, v)), NotableCap, e)
  BY <1>9, <1>10, <1>d, <1>t, ListsOneMore
<1>12. ASSUME NEW x \in Scale
       PROVE  /\ IsFiniteSet(Waiting(x)')
              /\ e[x] + Cardinality(Waiting(x)') = (LowTally(Counted(doc))')[x]
  <2>1. IsFiniteSet(Waiting(x)) /\ c[x] + Cardinality(Waiting(x)) = LowTally(Counted(doc))[x]
    BY <1>3 DEF ListsBut
  <2>2. /\ IsFiniteSet(Waiting(x)') /\ Cardinality(Waiting(x)') \in Nat
        /\ Cardinality(Waiting(x)) = Cardinality(Waiting(x)') + IF v.score <= x THEN 1 ELSE 0
    BY <1>1, <1>t, <2>1, WaitingLess
  <2>3. e[x] = c[x] + IF v.score <= x THEN 1 ELSE 0  BY <1>10 DEF Counting
  <2>4. c[x] \in Nat  BY <1>9, TallyIs
  <2> QED  BY <1>7, <2>1, <2>2, <2>3, <2>4
<1>13. Lists(doc.notable, NotableCap, e)'
  BY <1>6, <1>8, <1>11, Zenon DEF Lists, Ranked, Tally
<1>14. ListsBut(e)'  BY <1>12, <1>13, Zenon DEF ListsBut
<1> QED  BY <1>5, <1>14, Zenon

LEMMA NotableStep == TypeInv /\ NotableInv /\ [Next]_vars => NotableInv'
<1> SUFFICES ASSUME TypeInv, NotableInv, [Next]_vars PROVE NotableInv'
  OBVIOUS
<1>d. doc \in Document  BY CountedTyped
<1>1. ASSUME NEW u \in Updates, Push(u) PROVE NotableInv'
  BY <1>1, NotableByPush
<1>2. ASSUME NEW u \in Updates, PushNotable(u) PROVE NotableInv'
  BY <1>2, NotableByList
<1>3. ASSUME NEW a \in Audits, Read(a) \/ Build(a) \/ Rebuild(a) PROVE NotableInv'
  <2>1. UNCHANGED <<legacy, doc, upc, verdict>>  BY <1>3 DEF Read, Build, Rebuild
  <2> QED  BY <2>1, NotableByOther
<1>4. ASSUME NEW a \in Audits, Clean(a) PROVE NotableInv'
  <2>1. UNCHANGED <<legacy, upc, verdict>> /\ doc' \in {doc, [doc EXCEPT !.dirty = FALSE]}
    BY <1>4 DEF Clean
  <2>2. doc'.notable = doc.notable /\ doc'.analyzed = doc.analyzed
    BY <1>d, <2>1, CleanedIs
  <2> QED  BY <2>1, <2>2, NotableByOther
<1>5. CASE UNCHANGED vars
  <2>1. UNCHANGED <<legacy, doc, upc, verdict>>  BY <1>5 DEF vars
  <2> QED  BY <2>1, NotableByOther
<1> QED  BY <1>1, <1>2, <1>3, <1>4, <1>5 DEF Next

(* Once the updates are through, the notable list holds the worst of all    *)
(* the low verdicts, however their two writes interleaved: cutting it at    *)
(* each push loses nothing that belongs in it.                              *)
THEOREM NotableTheorem == Spec => []NotableIsWorst
<1>1. TypeInv /\ NotableInv => NotableIsWorst  BY NotableLists
<1> QED  BY TypeInit, TypeStep, NotableInit, NotableStep, <1>1, PTL DEF Spec

=============================================================================
