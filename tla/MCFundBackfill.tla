--------------------------- MODULE MCFundBackfill ---------------------------
(* Instances of FundBackfill for TLC. *)
EXTENDS FundBackfill, TLC

\* A call for all funds, and one for the type of the second.
AnyType == {<<1, 2>>, <<2>>}
OneFund == {<<1>>}
Lengths == [s \in Final |-> IF s = "completed" THEN 9 ELSE 21]
\* An upstream without data, a day that is new, days that are there in part.
SomeHistories == {<<>>, <<2>>, <<1, 2, 3>>}
OldHistories == {<<1>>, <<1, 2>>}
Runs == Permutations(RunIds)
=============================================================================
