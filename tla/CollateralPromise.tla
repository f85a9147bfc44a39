--------------------------- MODULE CollateralPromise ---------------------------
(******************************************************************************)
(* What a strike market promises the people who put USDC into it, without     *)
(* wallets, fees, oracles, delegates or administrators: USDC comes in against *)
(* one claim of each side, goes out only against the claims the verdict makes *)
(* worth something, the verdict falls once, and the reserve is closed only    *)
(* when it is empty and nothing is owed.  Market implements it.               *)
(******************************************************************************)
EXTENDS Integers

VARIABLES
  phase,     \* "absent", then "open", then "closed"
  verdict,   \* "Unsettled", then one of the others
  reserve,   \* USDC held
  yesClaims, \* claims that are worth a unit if the verdict is Yes
  noClaims   \* claims that are worth a unit if the verdict is No

promiseVars == <<phase, verdict, reserve, yesClaims, noClaims>>

PromiseTypeOK ==
  /\ phase \in {"absent", "open", "closed"}
  /\ verdict \in {"Unsettled", "Yes", "No", "Invalid"}
  /\ reserve \in Nat
  /\ yesClaims \in Nat
  /\ noClaims \in Nat

Init ==
  /\ phase = "absent"
  /\ verdict = "Unsettled"
  /\ reserve = 0
  /\ yesClaims = 0
  /\ noClaims = 0

Open ==
  /\ phase = "absent"
  /\ phase' = "open"
  /\ UNCHANGED <<verdict, reserve, yesClaims, noClaims>>

(* A unit in makes one claim of each side. *)
Back ==
  LET n == reserve' - reserve IN
  /\ phase = "open"
  /\ verdict = "Unsettled"
  /\ reserve' \in Nat
  /\ n > 0
  /\ yesClaims' = yesClaims + n
  /\ noClaims' = noClaims + n
  /\ UNCHANGED <<phase, verdict>>

(* A unit out takes one claim of each side that may still be worth it.  *)
PayOut ==
  LET n == reserve - reserve' IN
  /\ phase = "open"
  /\ reserve' \in Nat
  /\ n > 0
  /\ yesClaims' = IF verdict = "No" THEN yesClaims ELSE yesClaims - n
  /\ noClaims' = IF verdict = "Yes" THEN noClaims ELSE noClaims - n
  /\ yesClaims' \in Nat
  /\ noClaims' \in Nat
  /\ UNCHANGED <<phase, verdict>>

(* Anybody may add to the reserve without a claim on it. *)
Gift ==
  /\ phase = "open"
  /\ reserve' \in Nat
  /\ reserve' > reserve
  /\ UNCHANGED <<phase, verdict, yesClaims, noClaims>>

(* Holders may always give claims up for nothing. *)
Forfeit ==
  /\ yesClaims' \in 0..yesClaims
  /\ noClaims' \in 0..noClaims
  /\ UNCHANGED <<phase, verdict, reserve>>

Decide ==
  /\ phase = "open"
  /\ verdict = "Unsettled"
  /\ verdict' \in {"Yes", "No", "Invalid"}
  /\ UNCHANGED <<phase, reserve, yesClaims, noClaims>>

Close ==
  /\ phase = "open"
  /\ verdict # "Unsettled"
  /\ reserve = 0
  /\ verdict # "No" => yesClaims = 0
  /\ verdict # "Yes" => noClaims = 0
  /\ phase' = "closed"
  /\ UNCHANGED <<verdict, reserve, yesClaims, noClaims>>

Next == Open \/ Back \/ PayOut \/ Gift \/ Forfeit \/ Decide \/ Close

Spec == Init /\ [][Next]_promiseVars

(* The promise kept: everything that may still be claimed is in the reserve,  *)
(* and nothing is owed once it is closed.                                     *)
Backed ==
  /\ verdict # "No" => yesClaims <= reserve
  /\ verdict # "Yes" => noClaims <= reserve
  /\ phase = "closed" => reserve = 0
================================================================================
