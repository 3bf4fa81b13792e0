---------------------------- MODULE MCRunBudget ----------------------------
(***************************************************************************)
(* The default times of optimize.ps1, one unit for ten seconds, and a      *)
(* budget of eleven minutes: with it every stage is sometimes admitted and *)
(* sometimes not.  An apply takes up to five hundred seconds.              *)
(***************************************************************************)
EXTENDS RunBudget

=============================================================================
