------------------------------ MODULE Scoring ------------------------------
(***************************************************************************)
(* scoring/signals.py, scoring/integrity.py and scoring/thresholds.py.     *)
(* Signals are integers of 1/10000, weights of 1/100 and the raw score of  *)
(* 1/1000000, so that all but the logarithm and the rounding is exact.     *)
(***************************************************************************)
EXTENDS Integers

CONSTANTS
    MinCharsGood,       \* _MIN_CHARS_GOOD = 500
    DeepQualities       \* values of the logarithmic branch of extraction_quality

ASSUME ScoringAssumption ==
    /\ MinCharsGood \in Nat \ {0}
    /\ DeepQualities \subseteq 8000..10000

Unit     == 10000
Statuses == {"Compliant", "Under Review", "Non-Compliant"}

Clamp(low, x, high) == IF x < low THEN low ELSE IF x > high THEN high ELSE x

(* The default weights of the four signals.                                 *)
Weight == [content |-> 50, name |-> 19, quality |-> 19, duplication |-> 12]

(* Mutant of Alignment: a lost vector is no objection.                      *)
AlignmentByDefault(available, cosine) ==
    IF available THEN Clamp(0, cosine, Unit) ELSE Unit

(* content_alignment, also used for the name: the cosine, 0 if negative or  *)
(* if one of the vectors is missing.                                        *)
Alignment(available, cosine) == IF available THEN Clamp(0, cosine, Unit) ELSE 0

(* extraction_quality: a penalty, a ramp from 0.1 to 0.8, or the logarithm. *)
Qualities(e) ==
    IF e.empty THEN {500}
    ELSE IF e.scan THEN {1000}
    ELSE IF e.chars < MinCharsGood THEN {1000 + (e.chars * 7000) \div MinCharsGood}
    ELSE DeepQualities

(* duplication: of the nearest sibling's distance, if there is one.         *)
Duplication(nearest) ==
    IF nearest = {} THEN Unit ELSE CHOOSE d \in {Clamp(0, x, Unit) : x \in nearest} : TRUE

(* round() of a raw score: on a tie the binary fraction decides.            *)
Rounded(raw) ==
    LET r == Clamp(0, raw, 100 * Unit)
    IN {n \in {r \div Unit, r \div Unit + 1} : 2 * n * Unit \in (2 * r - Unit)..(2 * r + Unit)}

Raw(s) == s.content * Weight.content + s.name * Weight.name
            + s.quality * Weight.quality + s.duplication * Weight.duplication

ScoreToStatus(score, c) ==
    IF score >= c.inSync THEN "Compliant"
    ELSE IF score >= c.reviewing THEN "Under Review"
    ELSE "Non-Compliant"

InJudgeBand(score, c) == c.judgeLow <= score /\ score <= c.judgeHigh

(* Mutant of Result: only scans are capped.                                 *)
ResultCappingScans(score, e, c) ==
    IF e.scan
    THEN LET capped == IF score < 45 THEN score ELSE 45
         IN [score |-> capped, judge |-> FALSE,
             status |-> IF capped >= c.reviewing THEN "Under Review" ELSE "Non-Compliant"]
    ELSE [score |-> score, judge |-> InJudgeBand(score, c),
          status |-> ScoreToStatus(score, c)]

(* The hard override of empty and scanned files, else bands and judge gate. *)
Result(score, e, c) ==
    IF e.empty \/ e.scan
    THEN LET capped == IF score < 45 THEN score ELSE 45
         IN [score |-> capped, judge |-> FALSE,
             status |-> IF capped >= c.reviewing THEN "Under Review" ELSE "Non-Compliant"]
    ELSE [score |-> score, judge |-> InJudgeBand(score, c),
          status |-> ScoreToStatus(score, c)]

(* compute(): the results it may return for these signals.                  *)
Compute(signals, e, c) == {Result(score, e, c) : score \in Rounded(Raw(signals))}

-----------------------------------------------------------------------------
(* The judge's reply.  A status it names is the set of the words            *)
(* _normalize_status looks for that occur in it: "Non-Compliant" has "non"  *)
(* and "compliant", and so a null, which becomes "none", has "non".         *)

WordsOf(status) ==
    CASE status = "Compliant"     -> {"compliant"}
      [] status = "Non-Compliant" -> {"non", "compliant"}
      [] status = "Under Review"  -> {}

(* Mutant of NormalizeStatus: the affirmative form is tested first.         *)
NormalizeAffirmativeFirst(words) ==
    IF words \cap {"compliant", "sync"} # {} THEN "Compliant"
    ELSE IF words \cap {"non", "deviation"} # {} THEN "Non-Compliant"
    ELSE "Under Review"

NormalizeStatus(words) ==
    IF words \cap {"non", "deviation"} # {} THEN "Non-Compliant"
    ELSE IF words \cap {"compliant", "sync"} # {} THEN "Compliant"
    ELSE "Under Review"

(* Mutant of JudgedScore: no clamp.                                         *)
JudgedScoreUnclamped(score, reply) == IF reply = {} THEN score ELSE CHOOSE n \in reply : TRUE

(* The judge's score, if it is a number.                                    *)
JudgedScore(score, reply) ==
    IF reply = {} THEN score ELSE Clamp(0, CHOOSE n \in reply : TRUE, 100)

=============================================================================
