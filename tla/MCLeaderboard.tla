----------------------------- MODULE MCLeaderboard -----------------------------
(* Small instances of Leaderboard: the sets the configurations substitute. *)
EXTENDS Leaderboard, TLC

CONSTANTS u1, u2, circle, busdc

TwoUsers == {u1, u2}
TwoMints == {circle, busdc}

L(u, m, r, a, p, t) ==
  [user |-> u, metric |-> m, rank |-> r, amount |-> a, period_id |-> p,
   period_type |-> t]

\* Two metrics and two ranks, leaves of both types in one tree, and a rank that
\* two leaves claim.
MixedTree ==
  {L(u1, 0, 1, 1, 0, "Weekly"), L(u2, 0, 1, 2, 0, "Weekly"),
   L(u2, 0, 2, 1, 0, "Weekly"), L(u1, 1, 1, 1, 0, "Weekly"),
   L(u1, 0, 1, 1, 0, "Monthly"), L(u1, 2, 1, 1, 0, "Weekly"),
   L(u1, 0, 3, 1, 0, "Weekly")}

RingTrees == {MixedTree}
================================================================================
