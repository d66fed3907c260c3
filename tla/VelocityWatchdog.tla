------------------------- MODULE VelocityWatchdog -------------------------
(***************************************************************************)
(* ManualVelocityWatchdog: the ROS node that alone publishes /cmd_vel.  It *)
(* keeps the stop latch and the mode, forwards manual or Nav2 velocities   *)
(* while they are fresh, and is the action client of Nav2's                *)
(* NavigateToPose.  Its executor has one thread, so each callback is one   *)
(* action; between callbacks Nav2 runs on its own, and the response to a   *)
(* goal, its result and a request to cancel it are messages in flight.     *)
(*                                                                         *)
(* A goal is named by the id of the navigate command it came with.  The    *)
(* server draws a new UUID for each command and never resends one, so the  *)
(* node's suppression of duplicate ids leaves no trace in this model.      *)
(***************************************************************************)
CONSTANTS
  Goal,    (* ids of the navigate commands the robot may receive           *)
  NoGoal   (* Python's "" and None                                         *)

(* output tells the zero velocity and the manual one from those for goals. *)
ASSUME GoalsNamed == NoGoal \notin Goal /\ {"zero", "manual"} \cap Goal = {}

Mode == {"IDLE", "AUTO", "FOLLOW", "MANUAL", "STOPPED"}

VARIABLES
  mode, latched,  (* mode and stop_latched                                 *)
  navId,          (* _nav_command_id: the goal the node considers its own  *)
  handle,         (* _nav_goal_handle, named by its goal                   *)
  canceled,       (* _canceled_navigation_ids                              *)
  manual,         (* _manual against manual_timeout                        *)
  nav,            (* _nav: the goal Nav2 drove for, and is it fresh        *)
  output,         (* what was last published on /cmd_vel                   *)
  phase,          (* Nav2: what became of each goal                        *)
  told,           (* goals whose response the node has handled             *)
  asked,          (* goals the node has asked Nav2 to cancel               *)
  current         (* history: goals sent since the last stop or reset      *)

own    == <<mode, latched, navId, handle, canceled>>
inputs == <<manual, nav>>
nav2   == <<phase, told, asked>>
vars   == <<own, inputs, output, nav2, current>>

TypeOK ==
  /\ mode \in Mode
  /\ latched \in BOOLEAN
  /\ navId \in Goal \cup {NoGoal}
  /\ handle \in Goal \cup {NoGoal}
  /\ canceled \subseteq Goal
  /\ manual \in {"none", "zero", "moving"}
  /\ nav \in [from : Goal \cup {NoGoal}, fresh : BOOLEAN]
  /\ output \in {"zero", "manual"} \cup Goal
  /\ phase \in [Goal -> {"unsent", "sent", "executing", "refused", "ended"}]
  /\ told \subseteq Goal
  /\ asked \subseteq Goal
  /\ current \subseteq Goal

Init ==
  /\ mode = "STOPPED" /\ latched = TRUE
  /\ navId = NoGoal /\ handle = NoGoal /\ canceled = {}
  /\ manual = "none" /\ nav = [from |-> NoGoal, fresh |-> FALSE] /\ output = "zero"
  /\ phase = [g \in Goal |-> "unsent"] /\ told = {} /\ asked = {} /\ current = {}

-----------------------------------------------------------------------------
(* Commands of the server.  A rejected command changes nothing here.       *)

CancelWithoutAsking ==
  /\ canceled' = canceled \cup ({navId} \ {NoGoal})
  /\ navId' = NoGoal
  /\ handle' = NoGoal
  /\ UNCHANGED asked

(* _cancel_navigation: forget the goal; a response still under way is      *)
(* recognised by its id, a known handle is asked to cancel.                *)
CancelNavigation ==
  /\ canceled' = canceled \cup ({navId} \ {NoGoal})
  /\ asked' = asked \cup ({handle} \ {NoGoal})
  /\ navId' = NoGoal
  /\ handle' = NoGoal

Commanded == UNCHANGED <<inputs, output, phase, told>>

StopRobot ==
  /\ CancelNavigation
  /\ latched' = TRUE /\ mode' = "STOPPED"
  /\ current' = {}
  /\ Commanded

ResetKeepsGoal ==
  /\ latched' = FALSE /\ mode' = "IDLE"
  /\ current' = {}
  /\ UNCHANGED <<navId, handle, canceled, asked>>
  /\ Commanded

ResetStop ==
  /\ CancelNavigation
  /\ latched' = FALSE /\ mode' = "IDLE"
  /\ current' = {}
  /\ Commanded

SetMode(m) ==
  /\ m \in Mode
  /\ m # "STOPPED" => ~latched
  /\ latched' = (latched \/ m = "STOPPED")
  /\ IF m = "AUTO" THEN UNCHANGED <<navId, handle, canceled, asked>>
                   ELSE CancelNavigation
  /\ current' = IF m = "STOPPED" THEN {} ELSE current
  /\ mode' = m
  /\ Commanded

CancelCommand ==
  /\ CancelNavigation
  /\ mode' = IF latched THEN mode ELSE "IDLE"
  /\ UNCHANGED <<latched, current>>
  /\ Commanded

(* navigate, accepted: no latch, no goal of its own, Nav2 reachable.       *)
StartNavigation(g) ==
  /\ ~latched
  /\ navId = NoGoal /\ handle = NoGoal
  /\ phase[g] = "unsent"
  /\ phase' = [phase EXCEPT ![g] = "sent"]
  /\ navId' = g
  /\ current' = current \cup {g}
  /\ UNCHANGED <<mode, latched, handle, canceled, inputs, output, told, asked>>

-----------------------------------------------------------------------------
(* Callbacks of the action client                                          *)

FinishNavigation ==
  /\ navId' = NoGoal
  /\ handle' = NoGoal
  /\ mode' = "IDLE"

LateResponseDropped(g) ==
  /\ g \in canceled \/ g # navId
  /\ canceled' = canceled \ {g}
  /\ UNCHANGED <<navId, handle, mode, asked>>

(* A goal the node gave up meanwhile: cancel it if Nav2 took it.           *)
LateResponse(g) ==
  /\ g \in canceled \/ g # navId
  /\ asked' = IF phase[g] \in {"executing", "ended"} THEN asked \cup {g} ELSE asked
  /\ canceled' = canceled \ {g}
  /\ UNCHANGED <<navId, handle, mode>>

GoalTaken(g) ==
  /\ g \notin canceled /\ g = navId
  /\ phase[g] \in {"executing", "ended"}
  /\ handle' = g
  /\ UNCHANGED <<navId, mode, canceled, asked>>

(* Nav2 refused the goal, or sending it failed.                            *)
GoalRefused(g) ==
  /\ g \notin canceled /\ g = navId
  /\ phase[g] = "refused"
  /\ FinishNavigation
  /\ UNCHANGED <<canceled, asked>>

GoalResponse(g) ==
  /\ phase[g] \in {"executing", "ended", "refused"}
  /\ g \notin told
  /\ told' = told \cup {g}
  /\ LateResponse(g) \/ GoalTaken(g) \/ GoalRefused(g)
  /\ UNCHANGED <<latched, inputs, output, phase, current>>

(* The result of a goal whose handle the node once held.  An unavailable   *)
(* result counts as the result of a goal that is no longer executed.       *)
GoalResultUnguarded(g) ==
  /\ phase[g] = "ended" /\ g \in told
  /\ FinishNavigation
  /\ UNCHANGED <<latched, canceled, inputs, output, nav2, current>>

GoalResult(g) ==
  /\ phase[g] = "ended" /\ g \in told
  /\ g = navId
  /\ FinishNavigation
  /\ UNCHANGED <<latched, canceled, inputs, output, nav2, current>>

-----------------------------------------------------------------------------
(* Velocities and the 20 Hz timer                                          *)

ManualInput(v) ==
  /\ manual' = v
  /\ UNCHANGED <<own, nav, output, nav2, current>>

NavInput(from) ==
  /\ from \in Goal => phase[from] = "executing"
  /\ nav' = [from |-> from, fresh |-> TRUE]
  /\ UNCHANGED <<own, manual, output, nav2, current>>

ManualExpires == ManualInput("none")

NavExpires ==
  /\ nav' = [nav EXCEPT !.fresh = FALSE]
  /\ UNCHANGED <<own, manual, output, nav2, current>>

ManualHeld == IF manual = "moving" \/ output = "manual" THEN "manual" ELSE "zero"
ManualVelocity == IF manual = "moving" THEN "manual" ELSE "zero"

NavVelocity == IF nav.fresh /\ nav.from \in Goal THEN nav.from ELSE "zero"

(* Latch, then mode, then the deadman timeout of the velocity it selects.  *)
Arbitrated ==
  CASE ~latched /\ mode = "MANUAL"            -> ManualVelocity
    [] ~latched /\ mode \in {"AUTO", "FOLLOW"} -> NavVelocity
    [] OTHER                                  -> "zero"

PublishOutput ==
  /\ output' = Arbitrated
  /\ UNCHANGED <<own, inputs, nav2, current>>

-----------------------------------------------------------------------------
(* Nav2                                                                    *)

Nav2Decides(g) ==
  /\ phase[g] = "sent"
  /\ \E p \in {"executing", "refused"} : phase' = [phase EXCEPT ![g] = p]
  /\ UNCHANGED <<own, inputs, output, told, asked, current>>

Nav2Ends(g) ==
  /\ phase[g] = "executing"
  /\ phase' = [phase EXCEPT ![g] = "ended"]
  /\ UNCHANGED <<own, inputs, output, told, asked, current>>

(* The action server honours a request to cancel.                          *)
Nav2Cancels(g) == g \in asked /\ Nav2Ends(g)

-----------------------------------------------------------------------------
ModeRequest == Mode \cup {"OTHER"}

Next ==
  \/ StopRobot \/ ResetStop \/ CancelCommand
  \/ \E m \in ModeRequest : SetMode(m)
  \/ \E g \in Goal :
       \/ StartNavigation(g) \/ GoalResponse(g) \/ GoalResult(g)
       \/ Nav2Decides(g) \/ Nav2Ends(g) \/ NavInput(g)
  \/ NavInput(NoGoal) \/ NavExpires
  \/ \E v \in {"zero", "moving"} : ManualInput(v)
  \/ ManualExpires
  \/ PublishOutput

Spec == Init /\ [][Next]_vars

(* The node's timer fires, its executor handles what arrives, and Nav2     *)
(* answers a goal and honours a cancel request.  Nothing makes a goal that *)
(* nobody cancels end, a velocity arrive or a command come.                *)
Fairness ==
  /\ WF_vars(PublishOutput)
  /\ \A g \in Goal :
       WF_vars(GoalResponse(g)) /\ WF_vars(Nav2Decides(g)) /\ WF_vars(Nav2Cancels(g))

FairSpec == Spec /\ Fairness

-----------------------------------------------------------------------------
(* Safety                                                                  *)

(* While the latch is set the node is in STOPPED and follows no goal: a    *)
(* response or a result that comes after the stop neither leaves STOPPED   *)
(* nor brings the goal back.                                               *)
LatchHolds == latched => mode = "STOPPED" /\ navId = NoGoal /\ handle = NoGoal

(* Nav2 never drives for a goal the node has lost sight of: either it is   *)
(* the goal the node can still cancel, or its response will arrive, or it  *)
(* was asked to cancel.                                                    *)
OrphanFree ==
  \A g \in Goal : phase[g] = "executing" => g = handle \/ g \notin told \/ g \in asked

(* The goal the node follows was commanded since the last stop and the     *)
(* last release of the latch, whenever its response arrived.               *)
NoGoalSurvivesStop == {navId, handle} \subseteq current \cup {NoGoal}

(* Liveness                                                                *)

(* A stop reaches Nav2: every goal sent before it ends, also one whose     *)
(* response was under way when the stop came, whatever is commanded next.  *)
StopReachesNav2 ==
  \A g \in Goal :
    (latched /\ phase[g] \in {"sent", "executing"}) ~> (phase[g] \in {"refused", "ended"})

(* Deadman: a manual velocity that is not renewed is not published for     *)
(* ever.                                                                   *)
Deadman == (output = "manual" /\ manual = "none") ~> (output # "manual" \/ manual # "none")
=============================================================================
