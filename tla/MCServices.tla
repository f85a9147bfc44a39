------------------------------- MODULE MCServices ------------------------------
(* A small instance of Services.  The parts share no variable and every       *)
(* property reads one of them, so a behaviour of each part with the others at *)
(* rest shows all that the interleavings could.                               *)
EXTENDS Services

CONSTANTS d1, g1, c1, c2, c3

Provider == [i \in {d1, g1} |-> IF i = d1 THEN "discord" ELSE "google"]
Display == [i \in {d1, g1} |-> IF i = d1 THEN "Dee" ELSE None]
Email == [i \in {d1, g1} |-> IF i = d1 THEN "d@x" ELSE None]

(* Of Tuesday 26 May 2026, the day after a holiday, in New York: 00:01,       *)
(* 00:02, 00:07 and 09:30; and 04:00 of the day before.                       *)
Clock == [i \in 1..5 |-> Ymd(5, 25) * MINUTES_PER_DAY + 240 + <<240, 1441, 1442, 1447, 2010>>[i]]
Reports == {Ymd(5, 22), Ymd(5, 27)}

(* A step of one part is taken while the others are at rest. *)
ApartNext ==
  \/ NotInit /\ BillInit /\ AiInit /\ AccStep
  \/ AccInit /\ BillInit /\ AiInit /\ NotStep
  \/ AccInit /\ NotInit /\ AiInit /\ BillStep
  \/ AccInit /\ NotInit /\ BillInit /\ AiStep

Apart ==
  /\ Cardinality(posts) <= IF \A t \in Tabs : loaded(t) THEN 2 ELSE 1
  /\ (IF PushInit THEN 0 ELSE 1) + (IF DiscordInit THEN 0 ELSE 1) + (IF PrefsInit THEN 0 ELSE 1) <= 1
  /\ (IF NewsInit THEN 0 ELSE 1) + (IF BriefInit THEN 0 ELSE 1) + (IF DigestInit THEN 0 ELSE 1) <= 1

ApartSpec == Init /\ [][ApartNext]_vars
================================================================================
