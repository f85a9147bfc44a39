---------------------------- MODULE MCGridEvolution ----------------------------
(* A small instance of GridEvolution: NVDA around its November earnings, with *)
(* Thanksgiving and the half-day after it.                                    *)
EXTENDS GridEvolution

OneTicker == <<"NVDA">>
From == Ymd(11, 18)
To == Ymd(11, 28)
================================================================================
