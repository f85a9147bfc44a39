----------------------------- MODULE MCDistribution ----------------------------
(* A small instance of Distribution: two users over the change of the clock   *)
(* and of the month at the start of November.                                 *)
EXTENDS Distribution

CONSTANTS u1, u2

TwoUsers == {u1, u2}
SomeDays == {Ymd(10, 30), Ymd(11, 2)}

player(s, w, n) == [streak |-> s, traded |-> n, won |-> w, wins |-> w, trades |-> n]

\* u1 leads on profit and both tie on the streak; or only profit has a winner.
SomeTables ==
  {[u \in TwoUsers |-> IF u = u1 THEN player(1, 2, 20) ELSE player(1, 1, 20)],
   [u \in TwoUsers |-> IF u = u1 THEN player(0, 2, 19) ELSE player(0, 1, 19)]}

Running == {i \in Attempts : run[i].stage \notin Ended}

\* Attempts that overlap one of the library are followed on the first day of
\* a week, and if they are all of version 2.
LibraryOverlaps ==
  \A i, j \in Running : i # j /\ live(i) =>
    /\ kind = "weekly" /\ day = Min(Days)
    /\ run[i].version = 2 /\ run[j].version = 2
================================================================================
