------------------------------- MODULE MCIndexer -------------------------------
(* Small instances of Indexer: the sets the configurations substitute. *)
EXTENDS Indexer, TLC

CONSTANTS e1, e2, e3, u1, u2, r1, r2

\* e1 settles YES: u1 holds both sides and wins, u2 loses.  e2 is refunded; u2
\* has an empty account.  e3 settles NO, and its payload is not decoded.
AllEvents == {e1, e2, e3}
Decoded == {e1, e2}
Outcome == (e1 :> "yes") @@ (e2 :> "invalid") @@ (e3 :> "no")
Yes == (e1 :> ((u1 :> 1) @@ (u2 :> 0))) @@ (e2 :> ((u1 :> 1) @@ (u2 :> 0)))
         @@ (e3 :> ((u1 :> 0) @@ (u2 :> 1)))
No == (e1 :> ((u1 :> 1) @@ (u2 :> 1))) @@ (e2 :> ((u1 :> 0) @@ (u2 :> 0)))
         @@ (e3 :> ((u1 :> 1) @@ (u2 :> 0)))
================================================================================
