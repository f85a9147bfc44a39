-------------------------------- MODULE Services -------------------------------
(******************************************************************************)
(* The services around the markets, side by side: accounts, notifications,    *)
(* subscriptions, and news and briefings.  They run in the same processes and *)
(* share no state, so a step of one leaves the others alone.                  *)
(******************************************************************************)
EXTENDS Accounts, Notifications, Billing, Briefings

vars == <<accVars, notVars, billVars, aiVars>>

Init == AccInit /\ NotInit /\ BillInit /\ AiInit

AccStep == AccNext /\ UNCHANGED <<notVars, billVars, aiVars>>
NotStep == NotNext /\ UNCHANGED <<accVars, billVars, aiVars>>
BillStep == BillNext /\ UNCHANGED <<accVars, notVars, aiVars>>
AiStep == AiNext /\ UNCHANGED <<accVars, notVars, billVars>>

Next == AccStep \/ NotStep \/ BillStep \/ AiStep

Spec == Init /\ [][Next]_vars
================================================================================
