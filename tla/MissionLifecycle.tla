--------------------------- MODULE MissionLifecycle ---------------------------
(***************************************************************************)
(* What the functional specification promises about the missions on        *)
(* record: DRAFT, READY, STARTING, RUNNING, SUCCEEDED in this order, with  *)
(* PAUSING, PAUSED, STARTING and CANCELING, CANCELED, or FAILED, on the    *)
(* way; PAUSED when the slave does not settle in time, and after a restart *)
(* of the server whatever was in progress.  A mission is set in motion     *)
(* only by somebody's order since then.                                    *)
(***************************************************************************)
CONSTANT Mission

VARIABLES
  stage,    \* [Mission -> what the record says of it]
  ordered   \* the missions somebody ordered to move since the boot

InProgress == {"moving", "pausing", "canceling"}
Stage == {"absent", "planned", "paused", "over"} \cup InProgress

Init == stage \in [Mission -> Stage \ InProgress] /\ ordered = {}

Move(m, from, to) ==
  stage[m] \in from /\ stage' = [stage EXCEPT ![m] = to] /\ UNCHANGED ordered

Plan(m)   == Move(m, {"absent"}, "planned")
Pause(m)  == Move(m, {"moving"}, "pausing")
Paused(m) == Move(m, {"moving", "pausing"}, "paused")
Cancel(m) == Move(m, {"moving", "paused"}, "canceling")
Finish(m) == Move(m, {"planned"} \cup InProgress, "over")

Order(m) ==
  /\ stage[m] \in {"planned", "paused"}
  /\ stage' = [stage EXCEPT ![m] = "moving"]
  /\ ordered' = ordered \cup {m}

Recover ==
  /\ stage' = [m \in Mission |-> IF stage[m] \in InProgress THEN "paused" ELSE stage[m]]
  /\ ordered' = {}

Next ==
  \/ Recover
  \/ \E m \in Mission :
       Plan(m) \/ Order(m) \/ Pause(m) \/ Paused(m) \/ Cancel(m) \/ Finish(m)

Spec == Init /\ [][Next]_<<stage, ordered>>
=============================================================================
