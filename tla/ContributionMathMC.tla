-------------------------- MODULE ContributionMathMC --------------------------
(***************************************************************************)
(* Small instances of ContributionMath: a short year, days that go on past *)
(* its end, and refreshes that find anything on any day of a window.       *)
(***************************************************************************)
EXTENDS ContributionMath
=============================================================================
