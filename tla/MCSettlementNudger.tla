--------------------------- MODULE MCSettlementNudger --------------------------
(* A small instance of SettlementNudger: two healthy markets and a sick one,  *)
(* so that a run can be stopped before it comes to the last market.           *)
EXTENDS SettlementNudger, TLC

CONSTANTS m1, m2, m3
================================================================================
