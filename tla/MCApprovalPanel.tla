--------------------------- MODULE MCApprovalPanel ---------------------------
(***************************************************************************)
(* ApprovalPanel for TLC.  The page keeps its threads apart except for the *)
(* loop that asks about them in turn; one thread with two overlapping      *)
(* polls, two clicks and two proposals shows what can overtake what.       *)
(***************************************************************************)
EXTENDS ApprovalPanel

MCPolls == {1, 2}
=============================================================================
