---------------------------- MODULE ScoringProofs ----------------------------
(***************************************************************************)
(* The bounds of the signals, the score and the status, for every value    *)
(* of the signals and every setting of the bands.                          *)
(***************************************************************************)
EXTENDS Scoring, TLAPS

LEMMA AlignmentRange ==
  ASSUME NEW available \in BOOLEAN, NEW cosine \in Int
  PROVE  Alignment(available, cosine) \in 0..Unit
  BY DEF Alignment, Clamp, Unit

LEMMA DuplicationRange ==
  ASSUME NEW nearest \in SUBSET Int
  PROVE  Duplication(nearest) \in 0..Unit
<1>1. \A x \in Int : Clamp(0, x, Unit) \in 0..Unit  BY DEF Clamp, Unit
<1>2. CASE nearest = {}  BY <1>2 DEF Duplication, Unit
<1>3. CASE nearest # {}
  <2> DEFINE D == {Clamp(0, x, Unit) : x \in nearest}
  <2>1. D # {} /\ D \subseteq 0..Unit  BY <1>1, <1>3
  <2>2. (CHOOSE d \in D : TRUE) \in D  BY <2>1
  <2> QED  BY <1>3, <2>1, <2>2 DEF Duplication
<1> QED  BY <1>2, <1>3

(* A text of a part of the good length is on the ramp.                      *)
Ramp(a, m) == 1000 + (a * 7000) \div m

LEMMA RampRange ==
  ASSUME NEW a \in Nat, NEW m \in Nat \ {0}, a < m
  PROVE  Ramp(a, m) \in 0..Unit
<1>1. a * 7000 \in Nat /\ a * 7000 <= 7000 * m  OBVIOUS
<1>2. (a * 7000) \div m \in Int /\ (a * 7000) \div m >= 0  BY <1>1
<1>3. (a * 7000) \div m <= 7000  BY <1>1
<1>4. PICK q \in Int : q = (a * 7000) \div m  BY <1>2
<1>5. 1000 + q \in 0..10000
  <2>1. 0 <= q /\ q <= 7000  BY <1>2, <1>3, <1>4
  <2> QED  BY <2>1
<1>6. Ramp(a, m) = 1000 + q  BY <1>4 DEF Ramp
<1> QED  BY <1>5, <1>6 DEF Unit

LEMMA QualityRange ==
  ASSUME NEW e, e.chars \in Nat, NEW q \in Qualities(e)
  PROVE  q \in 0..Unit
<1> DEFINE chars == e.chars
           ramp  == Ramp(chars, MinCharsGood)
<1>1. chars \in Nat /\ MinCharsGood \in Nat \ {0}  BY ScoringAssumption
<1>2. \/ q \in {500} \/ q \in {1000} \/ q \in DeepQualities
      \/ chars < MinCharsGood /\ q = ramp
  BY DEF Qualities, Ramp
<1> HIDE DEF chars
<1>3. CASE q \in {500}  BY <1>3 DEF Unit
<1>4. CASE q \in {1000}  BY <1>4 DEF Unit
<1>5. CASE q \in DeepQualities
  <2>1. q \in 8000..10000  BY <1>5, ScoringAssumption
  <2> QED  BY <2>1 DEF Unit
<1>6. CASE chars < MinCharsGood /\ q = ramp
  <2>1. chars < MinCharsGood  BY <1>6
  <2>2. ramp \in 0..Unit  BY <1>1, <2>1, RampRange
  <2> HIDE DEF ramp
  <2> QED  BY <1>6, <2>2
<1> QED  BY <1>2, <1>3, <1>4, <1>5, <1>6

SignalRange == [content : 0..Unit, name : 0..Unit, quality : 0..Unit, duplication : 0..Unit]

LEMMA WeightedSum ==
  ASSUME NEW a \in Int, NEW b \in Int, NEW c \in Int, NEW d \in Int,
         0 <= a, a <= 10000, 0 <= b, b <= 10000,
         0 <= c, c <= 10000, 0 <= d, d <= 10000,
         NEW raw, raw = a * 50 + b * 19 + c * 19 + d * 12
  PROVE  raw \in Int /\ 0 <= raw /\ raw <= 100 * 10000 /\ (a = 0 => raw <= 50 * 10000)
<1>1. raw <= 100 * 10000  BY SMT
<1>2. 0 <= raw  BY SMT
<1>3. ASSUME a = 0 PROVE raw <= 50 * 10000  BY <1>3, SMT
<1>4. raw \in Int  BY SMT
<1> QED  BY <1>1, <1>2, <1>3, <1>4

LEMMA Points == \A x \in 0..Unit : x \in Int /\ 0 <= x /\ x <= 10000
  BY DEF Unit

(* Without its content signal a document has at most 50 of the 100 points.  *)
LEMMA RawBounds ==
  ASSUME NEW s \in SignalRange
  PROVE  /\ Raw(s) \in Int /\ 0 <= Raw(s) /\ Raw(s) <= 100 * 10000
         /\ s.content = 0 => Raw(s) <= 50 * 10000
<1>0. /\ s.content \in 0..Unit /\ s.name \in 0..Unit
      /\ s.quality \in 0..Unit /\ s.duplication \in 0..Unit
  BY DEF SignalRange
<1> DEFINE a == s.content
           b == s.name
           c == s.quality
           d == s.duplication
<1>1. a \in 0..Unit /\ b \in 0..Unit /\ c \in 0..Unit /\ d \in 0..Unit
  BY <1>0, Zenon
<1>2. Raw(s) = a * 50 + b * 19 + c * 19 + d * 12  BY DEF Raw, Weight
<1> HIDE DEF a, b, c, d
<1>3. /\ a \in Int /\ 0 <= a /\ a <= 10000
      /\ b \in Int /\ 0 <= b /\ b <= 10000
      /\ c \in Int /\ 0 <= c /\ c <= 10000
      /\ d \in Int /\ 0 <= d /\ d <= 10000
  BY <1>1, Points
<1>4. /\ Raw(s) \in Int /\ 0 <= Raw(s) /\ Raw(s) <= 100 * 10000
      /\ a = 0 => Raw(s) <= 50 * 10000
  BY <1>2, <1>3, WeightedSum, SMT
<1>5. a = s.content  BY DEF a
<1> HIDE DEF Raw, Weight
<1> QED  BY <1>4, <1>5

LEMMA RoundedBounds ==
  ASSUME NEW raw \in Int, NEW n \in Rounded(raw)
  PROVE  n \in 0..100 /\ (raw <= 50 * 10000 => n <= 50)
  BY DEF Rounded, Clamp, Unit

Bands(c) == {c.inSync, c.reviewing, c.judgeLow, c.judgeHigh} \subseteq Nat

(* A file that is empty or a scan is capped at 45, not compliant and not    *)
(* shown to the judge, whatever its score and the bands.                    *)
THEOREM CappedTheorem ==
  ASSUME NEW score \in 0..100, NEW e, NEW c, e.empty \/ e.scan
  PROVE  /\ Result(score, e, c).score <= 45
         /\ Result(score, e, c).status # "Compliant"
         /\ Result(score, e, c).judge = FALSE
  BY DEF Result

Results == [status : Statuses, score : 0..100, judge : BOOLEAN]

LEMMA ResultTyped ==
  ASSUME NEW score \in 0..100, NEW e, NEW c, Bands(c)
  PROVE  Result(score, e, c) \in Results
<1>1. InJudgeBand(score, c) \in BOOLEAN  BY DEF InJudgeBand, Bands
<1>2. ScoreToStatus(score, c) \in Statuses  BY DEF ScoreToStatus, Statuses, Bands
<1>3. ASSUME NEW n \in 0..100, NEW t \in Statuses, NEW b \in BOOLEAN
      PROVE  [score |-> n, judge |-> b, status |-> t] \in Results
  BY DEF Results
<1>4. CASE e.empty \/ e.scan
  <2> DEFINE capped == IF score < 45 THEN score ELSE 45
             t == IF capped >= c.reviewing THEN "Under Review" ELSE "Non-Compliant"
  <2>1. capped \in 0..100  OBVIOUS
  <2>2. t \in Statuses  BY DEF Statuses
  <2>3. Result(score, e, c) = [score |-> capped, judge |-> FALSE, status |-> t]
    BY <1>4, Zenon DEF Result
  <2> HIDE DEF capped, t
  <2> QED  BY <1>3, <2>1, <2>2, <2>3
<1>5. CASE ~(e.empty \/ e.scan)
  <2>1. Result(score, e, c) = [score |-> score, judge |-> InJudgeBand(score, c),
                               status |-> ScoreToStatus(score, c)]
    BY <1>5, Zenon DEF Result
  <2> QED  BY <1>1, <1>2, <1>3, <2>1
<1> QED  BY <1>4, <1>5

(* What compute() returns is a verdict; if the content signal is lost it is *)
(* neither compliant nor shown to the judge, where both begin above 50.     *)
THEOREM ComputeTheorem ==
  ASSUME NEW s \in SignalRange, NEW e, NEW c, Bands(c), NEW r \in Compute(s, e, c)
  PROVE  /\ r \in Results
         /\ s.content = 0 /\ c.inSync > 50 /\ c.judgeLow > 50
              => r.status # "Compliant" /\ r.judge = FALSE
<1>1. PICK n \in Rounded(Raw(s)) : r = Result(n, e, c)  BY DEF Compute
<1>2. n \in 0..100 /\ (s.content = 0 => n <= 50)
  <2> DEFINE raw == Raw(s)
  <2>1. raw \in Int /\ n \in Rounded(raw) /\ (s.content = 0 => raw <= 50 * 10000)
    BY RawBounds
  <2> HIDE DEF raw
  <2> QED  BY <2>1, RoundedBounds
<1>3. r \in Results  BY <1>1, <1>2, ResultTyped
<1>4. ASSUME s.content = 0, c.inSync > 50, c.judgeLow > 50
      PROVE  r.status # "Compliant" /\ r.judge = FALSE
  <2>1. CASE e.empty \/ e.scan  BY <2>1, <1>1, <1>2, CappedTheorem
  <2>2. CASE ~(e.empty \/ e.scan)
    <3>1. n <= 50  BY <1>2, <1>4
    <3>2. ScoreToStatus(n, c) # "Compliant"
      BY <3>1, <1>2, <1>4 DEF ScoreToStatus, Bands
    <3>3. InJudgeBand(n, c) = FALSE
      BY <3>1, <1>2, <1>4 DEF InJudgeBand, Bands
    <3> QED  BY <2>2, <1>1, <3>2, <3>3 DEF Result
  <2> QED  BY <2>1, <2>2
<1> QED  BY <1>3, <1>4

(* The judge's words of a status mean that status.                          *)
LEMMA WordsMeanStatus ==
  ASSUME NEW status \in Statuses
  PROVE  NormalizeStatus(WordsOf(status)) = status
  BY DEF Statuses, NormalizeStatus, WordsOf

LEMMA OwnScoreKept ==
  ASSUME NEW score \in 0..100, NEW other
  PROVE  JudgedScore(other, {score}) = score
<1>1. (CHOOSE n \in {score} : TRUE) = score  OBVIOUS
<1> QED  BY <1>1 DEF JudgedScore, Clamp

-----------------------------------------------------------------------------
(* Two scores of nearby signals.                                            *)

(* A score rounds to the nearest whole points, a tie up if it may.          *)
LEMMA RoundsUp ==
  ASSUME NEW raw \in Int, 0 <= raw, raw <= 100 * 10000
  PROVE  \E m \in Rounded(raw) : m \in Nat /\ 2 * raw - 2 * m * 10000 < 10000
<1> DEFINE q == raw \div 10000
           m == IF 2 * raw < (2 * q + 1) * 10000 THEN q ELSE q + 1
<1>1. q \in Nat /\ q * 10000 <= raw /\ raw < q * 10000 + 10000  OBVIOUS
<1>2. Clamp(0, raw, 100 * Unit) = raw  BY DEF Clamp, Unit
<1>3. m \in {q, q + 1} /\ m \in Nat  BY <1>1
<1> HIDE DEF q
<1>4. 2 * m * 10000 <= 2 * raw + 10000 /\ 2 * raw - 10000 < 2 * m * 10000
  BY <1>1
<1>5. 2 * m * Unit \in (2 * raw - Unit)..(2 * raw + Unit)
  BY <1>3, <1>4 DEF Unit
<1>6. m \in Rounded(raw)
  BY <1>2, <1>3, <1>5 DEF Rounded, q, Unit
<1> QED  BY <1>3, <1>4, <1>6

LEMMA RoundedClose ==
  ASSUME NEW low \in Int, 0 <= low, low <= 100 * 10000,
         NEW high \in Int, 0 <= high, high <= 100 * 10000,
         low <= high + 12 * 10000, NEW n \in Rounded(low)
  PROVE  \E m \in Rounded(high) : m \in Nat /\ n <= m + 12
<1>1. PICK m \in Rounded(high) : m \in Nat /\ 2 * high - 2 * m * 10000 < 10000
  BY RoundsUp
<1>2. n \in Int /\ 2 * n * 10000 <= 2 * low + 10000
  BY DEF Rounded, Clamp, Unit
<1>3. n <= m + 12  BY <1>1, <1>2
<1> QED  BY <1>1, <1>3

(* Signals that are no worse but for the duplication make a score that is   *)
(* at most 12 points worse.                                                 *)
LEMMA ScoresClose ==
  ASSUME NEW s \in SignalRange, NEW h \in SignalRange, NEW e, NEW c,
         s.content <= h.content, s.name <= h.name, s.quality = h.quality,
         NEW r \in Compute(s, e, c)
  PROVE  \E best \in Compute(h, e, c) : r.score <= best.score + 12
<1> DEFINE low == Raw(s)
           high == Raw(h)
<1>1. PICK n \in Rounded(low) : r = Result(n, e, c)  BY DEF Compute
<1>2. /\ low \in Int /\ 0 <= low /\ low <= 100 * 10000
      /\ high \in Int /\ 0 <= high /\ high <= 100 * 10000
  BY RawBounds
<1>3. low <= high + 12 * 10000
  <2> DEFINE a == s.content
             b == s.name
             q == s.quality
             d == s.duplication
             x == h.content
             y == h.name
             z == h.duplication
  <2>1. /\ a \in 0..Unit /\ b \in 0..Unit /\ q \in 0..Unit /\ d \in 0..Unit
        /\ x \in 0..Unit /\ y \in 0..Unit /\ z \in 0..Unit
    BY Zenon DEF SignalRange
  <2>2. Unit = 10000  BY DEF Unit
  <2>3. low = a * 50 + b * 19 + q * 19 + d * 12 /\ high = x * 50 + y * 19 + q * 19 + z * 12
    BY DEF Raw, Weight
  <2>4. a <= x /\ b <= y  OBVIOUS
  <2> HIDE DEF a, b, q, d, x, y, z, low, high
  <2>5. /\ a \in Int /\ b \in Int /\ q \in Int /\ x \in Int /\ y \in Int
        /\ d \in Int /\ d <= 10000 /\ z \in Int /\ 0 <= z
    BY <2>1, <2>2
  <2>6. d * 12 <= z * 12 + 12 * 10000  BY <2>5, SMT
  <2>7. a * 50 <= x * 50 /\ b * 19 <= y * 19  BY <2>4, <2>5, SMT
  <2> QED  BY <2>3, <2>5, <2>6, <2>7, SMT
<1> HIDE DEF low, high
<1>4. PICK m \in Rounded(high) : m \in Nat /\ n <= m + 12
  BY <1>2, <1>3, RoundedClose
<1>5. n \in 0..100  BY <1>2, RoundedBounds
<1>6. Result(n, e, c).score <= Result(m, e, c).score + 12
  BY <1>4, <1>5 DEF Result
<1>7. Result(m, e, c) \in Compute(h, e, c)  BY DEF Compute, high
<1> QED  BY <1>1, <1>6, <1>7
=============================================================================
