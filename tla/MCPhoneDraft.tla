---------------------------- MODULE MCPhoneDraft ----------------------------
(***************************************************************************)
(* The instance of PhoneDraft for TLC.                                     *)
(***************************************************************************)
EXTENDS PhoneDraft

FewEvents ==
  [kind \in Events |-> IF kind = "edit" THEN 2 ELSE 1]
=============================================================================
