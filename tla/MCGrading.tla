----------------------------- MODULE MCGrading -----------------------------
(* A four-point scale beside the fallback; scores of an A, a B, a C and an F. *)
EXTENDS Grading

MCScores == {7500, 6500, 5500, 2000}

FourPoint == {Band(7000, 10000, 4), Band(6000, 6999, 3), Band(5000, 5999, 2),
              Band(0, 4999, 0)}

MCScales == {FourPoint}
=============================================================================
