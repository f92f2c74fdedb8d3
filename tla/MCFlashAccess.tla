--------------------------- MODULE MCFlashAccess ----------------------------
(***************************************************************************)
(* Instances of FlashAccess for TLC: one valid page and one address out of *)
(* range.                                                                  *)
(***************************************************************************)
EXTENDS FlashAccess

MCBudgets == 0 .. 2
MCOneBudget == {2}
=============================================================================
