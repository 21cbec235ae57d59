---------------------------- MODULE MCDateRange ----------------------------
(***************************************************************************)
(* A clock from December 2023 to March 2025 for TLC: every month end, of a *)
(* leap year and of one that is not.                                       *)
(***************************************************************************)
EXTENDS DateRange

\* Midnight, a moment within the day, and its last microsecond.
Moments == 3

December2023 == FirstOfMonth(287) * Moments
March2025    == FirstOfMonth(303) * Moments

=============================================================================
