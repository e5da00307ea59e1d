----------------------------- MODULE MCAnswers ------------------------------
(* Small inputs of Answers.                                                *)
EXTENDS Answers

\* Every row there can be.
Rows == [Column -> Datum]

\* None, too small, small, and too large.
Limits == {-1, 0, 1, maxLimit + 1}
=============================================================================
