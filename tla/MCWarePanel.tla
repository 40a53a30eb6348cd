----------------------------- MODULE MCWarePanel ----------------------------
(***************************************************************************)
(* Small instances of WarePanel.tla for TLC.                               *)
(***************************************************************************)
EXTENDS WarePanel, TLC

CONSTANTS c1, c2, c3

TwoListed == <<c1, c2>>
=============================================================================
