-------------------------------- MODULE Grading --------------------------------
(***************************************************************************)
(* The grades of one student of a tertiary institution: the grading rule   *)
(* set that the institution configures, the grades that ingestResults      *)
(* computes by it or by the fallback rule, and the CGPA and classification *)
(* that recomputeAcademicStanding rolls up when results are published.     *)
(*                                                                         *)
(* A graded record keeps a link to its rule set and not the rule: the      *)
(* roll-up reads the engine and the gradePointMax that the rule set has by *)
(* then.  The fallback rule has no row to link to.                         *)
(***************************************************************************)
EXTENDS Integers, Sequences, FiniteSetsExt

CONSTANTS
    Scores,       \* total scores of a row, in hundredths
    Units,        \* credit units of a row
    Scales,       \* scales an institution may configure: sets of bands
    PointMaxes,   \* values of gradePointMax, 0 for none
    MaxRecords,   \* bounds: graded records, updates of the rule set
    MaxUpdates

Band(min, max, point) == [min |-> min, max |-> max, point |-> point]

VARIABLES
    rule,      \* the row of gradingRuleSet
    records,   \* the student's graded records
    standing,  \* the student's academicStanding
    updates

vars == <<rule, records, standing, updates>>

-----------------------------------------------------------------------------
RuleStatus == {"ABSENT", "DRAFT", "ACTIVE", "ARCHIVED"}

\* tertiary: the engine is TERTIARY_GPA.
Rule == [status : RuleStatus, tertiary : BOOLEAN, scale : Scales, max : PointMaxes]

\* linked: the record has a gradingRuleSetId; records without a grade point are
\* not rolled up and left out.
Record == [point : 0 .. 20, units : Units, linked : BOOLEAN, published : BOOLEAN]

Classes == {"First Class", "Second Class Upper", "Second Class Lower", "Third Class",
            "Pass", "Fail"}

Standing == [cgpa : Nat, max : 0 .. 20, class : Classes \cup {"none"}]

NoStanding == [cgpa |-> 0, max |-> 5, class |-> "none"]

TypeOK ==
    /\ rule \in Rule
    /\ records \in Seq(Record)
    /\ standing \in Standing
    /\ updates \in 0 .. MaxUpdates

Init ==
    /\ rule \in {r \in Rule : r.status = "ABSENT"}
    /\ records = <<>>
    /\ standing = NoStanding
    /\ updates = 0

-----------------------------------------------------------------------------
\* createGradingRuleSet and updateGradingRuleSet: every field as it is asked for.
ConfigureRuleSet ==
    /\ updates < MaxUpdates
    /\ rule' \in {r \in Rule : r.status # "ABSENT"}
    /\ updates' = updates + 1
    /\ UNCHANGED <<records, standing>>

\* defaultGradingRule, for a course-based upload.
DefaultScale ==
    {Band(7000, 10000, 5), Band(6000, 6999, 4), Band(5000, 5999, 3),
     Band(4500, 4999, 2), Band(4000, 4499, 1), Band(0, 3999, 0)}

\* resolveGradingRule: the set that the upload names, unless it is ARCHIVED, or
\* the ACTIVE one of the engine; else the fallback.
Named == rule.status \in {"DRAFT", "ACTIVE"}

Found == rule.status = "ACTIVE" /\ rule.tertiary

\* findBand, of a scale that normalizeScale has sorted by descending minScore.
Matching(scale, score) == {band \in scale : band.min <= score /\ score <= band.max}

FindBand(scale, score) ==
    CHOOSE band \in Matching(scale, score) :
        \A other \in Matching(scale, score) : other.min <= band.min

\* gradeRows and the records of ingestResults; a score without a band is refused.
Ingest(scale, linked) ==
    \E score \in Scores, units \in Units :
        /\ Matching(scale, score) # {}
        /\ records' = Append(records, [point |-> FindBand(scale, score).point,
                                       units |-> units, linked |-> linked,
                                       published |-> FALSE])

IngestResults ==
    /\ Len(records) < MaxRecords
    /\ \/ (Named \/ Found) /\ Ingest(rule.scale, TRUE)
       \/ ~Found /\ Ingest(DefaultScale, FALSE)
    /\ UNCHANGED <<rule, standing, updates>>

-----------------------------------------------------------------------------
\* The sums over the records of a roll-up.
TotalUnits(rows, rolled) == MapThenSumSet(LAMBDA i : rows[i].units, rolled)

QualityPoints(rows, rolled) ==
    MapThenSumSet(LAMBDA i : rows[i].units * rows[i].point, rolled)

\* round(points / units, 4), in ten-thousandths.
Ratio(points, units) == (20000 * points + units) \div (2 * units)

\* The records a roll-up takes: those whose rule set is a tertiary one, or all.
RollUp(rows) ==
    LET tertiary == {i \in DOMAIN rows : rows[i].published /\ rows[i].linked /\ rule.tertiary}
    IN  IF tertiary # {} THEN tertiary ELSE {i \in DOMAIN rows : rows[i].published}

\* resolveGradePointMax: the greatest configured maximum, or a guess by the grade
\* points there are.
ResolveGradePointMax(rows, rolled) ==
    LET points == {rows[i].point : i \in rolled} \ {0} IN
    IF \E i \in rolled : rows[i].linked /\ rule.max > 0 THEN rule.max
    ELSE IF points # {} /\ Max(points) <= 4 THEN 4 ELSE 5

\* classifyCgpa: cgpa in ten-thousandths, of max points, brought to five.
ClassifyCgpa(cgpa, max) ==
    LET AtLeast(bound) == 5 * cgpa >= bound * max IN
    CASE AtLeast(45000) -> "First Class"
      [] ~AtLeast(45000) /\ AtLeast(35000) -> "Second Class Upper"
      [] ~AtLeast(35000) /\ AtLeast(24000) -> "Second Class Lower"
      [] ~AtLeast(24000) /\ AtLeast(15000) -> "Third Class"
      [] ~AtLeast(15000) /\ AtLeast(10000) -> "Pass"
      [] OTHER -> "Fail"

\* recomputeAcademicStanding.
Recomputed(rows) ==
    LET rolled == RollUp(rows)
        cgpa == Ratio(QualityPoints(rows, rolled), TotalUnits(rows, rolled))
        max == ResolveGradePointMax(rows, rolled)
    IN  [cgpa |-> cgpa, max |-> max, class |-> ClassifyCgpa(cgpa, max)]

\* publishBatch, of the batch that record i is in.
Publish(i) ==
    LET rows == [records EXCEPT ![i].published = TRUE] IN
    /\ ~records[i].published
    /\ records' = rows
    /\ standing' = Recomputed(rows)
    /\ UNCHANGED <<rule, updates>>

Next ==
    \/ ConfigureRuleSet
    \/ IngestResults
    \/ \E i \in DOMAIN records : Publish(i)

Spec == Init /\ [][Next]_vars

-----------------------------------------------------------------------------
Published == {i \in DOMAIN records : records[i].published}

\* academic-standing-contract.md: the profile is "normalized to a five-point
\* scale" and "Four-point grading scales are normalized before classification".
\* Results graded by the fallback rule, which is a five-point scale, are
\* classified by their CGPA as it is.
FallbackIsFivePoint ==
    (\A i \in Published : ~records[i].linked) /\ Published # {}
        => standing.class = ClassifyCgpa(standing.cgpa, 5)
=============================================================================
