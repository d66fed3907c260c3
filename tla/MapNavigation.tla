---------------------------- MODULE MapNavigation ----------------------------
(***************************************************************************)
(* Driving one robot over the static map: NavigationService, which admits  *)
(* a request by what the robot last reported and executes it in three      *)
(* calls; the localization reset, the stop and its reset, as far as they   *)
(* share the dispatcher's single worker; and on the robot the mediator's   *)
(* answers to the calls, AMCL's transform and the gate that starts Nav2    *)
(* once the transform is there.                                            *)
(*                                                                         *)
(* A call that is not answered in time may have been performed or not.     *)
(* The lease, the active map and its free cells and the formation are      *)
(* guards of admission that somebody else moves; they are left out.        *)
(***************************************************************************)
EXTENDS Sequences

CONSTANTS
  Drive,       \* the requests navigate_from_map
  Relocate,    \* those for initial_pose, a localization reset
  Release,     \* those for reset_stop
  Halt,        \* those for stop
  None         \* no request

Request == Drive \cup Relocate \cup Release \cup Halt

ASSUME RequestAssumption ==
  /\ None \notin Request
  /\ Drive \cap (Relocate \cup Release \cup Halt) = {}
  /\ Relocate \cap (Release \cup Halt) = {} /\ Release \cap Halt = {}

VARIABLES
  normal, priority,  \* the lanes of the dispatcher
  running,           \* the request the worker executes
  step,              \* the call it makes next
  state,             \* the state of a request's row
  mode, latched,     \* the mediator's
  goal,              \* _nav_command_id
  located,           \* AMCL was given a pose
  transform,         \* map -> base_footprint exists
  starting, started, \* _request_in_flight and _started of the gate
  asked,             \* its request is with the lifecycle manager
  seen,              \* what the robot last reported, or Unknown
  fenced,            \* history: requests accepted before a stop and not ended by then
  unhalted           \* history: drives whose stop did not reach the robot

lanes == <<normal, priority>>
work == <<running, step, state>>
mediator == <<mode, latched, goal>>
nav2 == <<located, transform, starting, started, asked>>
history == <<fenced, unhalted>>
vars == <<lanes, work, mediator, nav2, seen, history>>

Moving == goal # None /\ mode = "AUTO" /\ ~latched

Unknown == [mode |-> "UNKNOWN", latched |-> TRUE, moving |-> FALSE, ready |-> FALSE]

Report == [mode |-> mode, latched |-> latched, moving |-> Moving,
           ready |-> transform /\ started]

TypeOK ==
  /\ normal \in Seq(Request \ Halt) /\ priority \in Seq(Halt)
  /\ running \in Request \cup {None}
  /\ step \in {"idle", "pose", "mode", "goal", "halt", "call"}
  /\ state \in [Request -> {"new", "ACCEPTED", "RUNNING", "SUCCEEDED", "FAILED"}]
  /\ mode \in {"IDLE", "AUTO", "STOPPED"} /\ latched \in BOOLEAN
  /\ goal \in Drive \cup {None}
  /\ located \in BOOLEAN /\ transform \in BOOLEAN
  /\ starting \in BOOLEAN /\ started \in BOOLEAN /\ asked \in BOOLEAN
  /\ seen \in [mode : {"IDLE", "AUTO", "STOPPED", "UNKNOWN"}, latched : BOOLEAN,
               moving : BOOLEAN, ready : BOOLEAN]
  /\ fenced \subseteq Request /\ unhalted \subseteq Drive

(* The robot has just booted, or was released and localized before this    *)
(* start of the server.                                                    *)
Init ==
  /\ normal = <<>> /\ priority = <<>> /\ running = None /\ step = "idle"
  /\ state = [r \in Request |-> "new"]
  /\ latched \in BOOLEAN /\ mode = (IF latched THEN "STOPPED" ELSE "IDLE")
  /\ goal = None
  /\ located = ~latched /\ transform = ~latched /\ started = ~latched
  /\ starting = FALSE /\ asked = FALSE
  /\ seen = Unknown /\ fenced = {} /\ unhalted = {}
-----------------------------------------------------------------------------
(* Requests are admitted by what was last reported.                        *)

(* _validate *)
MayDrive == seen.ready /\ ~seen.latched /\ seen.mode = "IDLE" /\ ~seen.moving

(* _validate_localization_reset *)
MayRelocate == seen.mode \in {"IDLE", "STOPPED"} /\ ~seen.moving

(* Mutant: a reset is given the lane of the stops.                         *)
QueuedAhead(r) ==
  IF r \in Halt \cup Release THEN priority' = Append(priority, r) /\ UNCHANGED normal
  ELSE normal' = Append(normal, r) /\ UNCHANGED priority

Queued(r) ==
  IF r \in Halt THEN priority' = Append(priority, r) /\ UNCHANGED normal
  ELSE normal' = Append(normal, r) /\ UNCHANGED priority

Submit(r) ==
  /\ state[r] = "new"
  /\ r \in Drive => MayDrive
  /\ r \in Relocate => MayRelocate
  /\ Queued(r)
  /\ state' = [state EXCEPT ![r] = "ACCEPTED"]
  /\ UNCHANGED <<running, step, mediator, nav2, seen, history>>
-----------------------------------------------------------------------------
(* The worker takes a stop first, but it takes one request at a time.      *)
Starts(r) ==
  /\ running' = r /\ step' = (IF r \in Drive THEN "pose" ELSE "call")
  /\ state' = [state EXCEPT ![r] = "RUNNING"]

Pop ==
  /\ running = None
  /\ \/ /\ priority # <<>>
        /\ Starts(Head(priority)) /\ priority' = Tail(priority) /\ UNCHANGED normal
     \/ /\ priority = <<>> /\ normal # <<>>
        /\ Starts(Head(normal)) /\ normal' = Tail(normal) /\ UNCHANGED priority
  /\ UNCHANGED <<mediator, nav2, seen, history>>

Goes(next) == step' = next /\ UNCHANGED <<running, state>>

Ends(how) ==
  /\ step' = "idle" /\ running' = None
  /\ state' = [state EXCEPT ![running] = how]

(* A stop that the robot performs.                                         *)
Stopped ==
  /\ mode' = "STOPPED" /\ latched' = TRUE /\ goal' = None
  /\ fenced' = fenced \cup {r \in Request : state[r] \in {"ACCEPTED", "RUNNING"}}

(* initial_pose is published, nobody answers it, and it may be lost.       *)
CallPose ==
  /\ step = "pose"
  /\ \/ Goes("mode") /\ located' \in {located, TRUE}
     \/ Ends("FAILED") /\ UNCHANGED located
  /\ UNCHANGED <<lanes, mediator, transform, starting, started, asked, seen, history>>

CallMode ==
  /\ step = "mode"
  /\ \/ ~latched /\ mode' = "AUTO" /\ (Goes("goal") \/ Ends("FAILED"))
     \/ Ends("FAILED") /\ UNCHANGED mode
  /\ UNCHANGED <<lanes, latched, goal, nav2, seen, history>>

(* Mutant: a navigate nobody answered is taken for one nobody performed.   *)
RefusedUnlessSilent == Goes("halt") \/ Ends("FAILED")

Refused == Goes("halt")

(* The other calls get an id of their own; the goal goes by the id of its  *)
(* request, which is journaled once.                                       *)
CallGoal ==
  /\ step = "goal"
  /\ \/ /\ ~latched /\ goal = None /\ started /\ goal' = running
        /\ Ends("SUCCEEDED") \/ Refused
     \/ Refused /\ UNCHANGED goal
  /\ UNCHANGED <<lanes, mode, latched, nav2, seen, history>>

(* What becomes of the stop is not looked at.                              *)
CallHalt ==
  /\ step = "halt" /\ Ends("FAILED")
  /\ \/ Stopped /\ UNCHANGED unhalted
     \/ unhalted' = unhalted \cup {running} /\ UNCHANGED <<mediator, fenced>>
  /\ UNCHANGED <<lanes, nav2, seen>>

(* The other requests are one call; whether a stop was confirmed is a      *)
(* matter of CommandDispatch.                                              *)
CallOther ==
  /\ step = "call" /\ \E how \in {"SUCCEEDED", "FAILED"} : Ends(how)
  /\ \/ running \in Halt /\ Stopped /\ UNCHANGED located
     \/ /\ running \in Release /\ mode' = "IDLE" /\ latched' = FALSE /\ goal' = None
        /\ UNCHANGED <<located, fenced>>
     \/ running \in Relocate /\ located' = TRUE /\ UNCHANGED <<mediator, fenced>>
     \/ UNCHANGED <<mediator, located, fenced>>
  /\ UNCHANGED <<lanes, transform, starting, started, asked, seen, unhalted>>
-----------------------------------------------------------------------------
(* protective_stop calls the adapter beside the worker, whatever the latch. *)
ProtectiveStop ==
  /\ Stopped
  /\ UNCHANGED <<lanes, work, nav2, seen, unhalted>>

(* The end of a goal, however it ends.                                     *)
Arrives ==
  /\ goal # None /\ goal' = None /\ mode' = "IDLE"
  /\ UNCHANGED <<lanes, work, latched, nav2, seen, history>>

Telemetry ==
  /\ seen' \in {Report, Unknown} /\ seen' # seen
  /\ UNCHANGED <<lanes, work, mediator, nav2, history>>

(* AMCL has a transform some time after its first pose.                    *)
Localizes ==
  /\ located /\ ~transform /\ transform' = TRUE
  /\ UNCHANGED <<lanes, work, mediator, located, starting, started, asked, seen, history>>

(* The gate: _tick asks for the startup, _startup_done hears of it.        *)
GateTick ==
  /\ ~started /\ ~starting /\ transform
  /\ starting' = TRUE /\ asked' = TRUE
  /\ UNCHANGED <<lanes, work, mediator, located, transform, started, seen, history>>

(* Mutant: only a success ends the request.                                *)
InFlightUntilSuccess(success) == starting' = ~success

InFlightNoMore(success) == starting' = FALSE

GateAnswered(success) ==
  /\ asked /\ asked' = FALSE /\ InFlightNoMore(success)
  /\ started' = success
  /\ UNCHANGED <<lanes, work, mediator, located, transform, seen, history>>
-----------------------------------------------------------------------------
Calls == CallPose \/ CallMode \/ CallGoal \/ CallHalt \/ CallOther

Robot == Arrives \/ Telemetry \/ Localizes

Gate == GateTick \/ \E success \in BOOLEAN : GateAnswered(success)

Next == (\E r \in Request : Submit(r)) \/ Pop \/ Calls \/ ProtectiveStop \/ Robot \/ Gate

Spec == Init /\ [][Next]_vars

(* The gate's timer ticks and finds the manager's service; the lifecycle   *)
(* manager answers every request it was sent and does not refuse for ever. *)
FairSpec ==
  /\ Spec
  /\ WF_vars(GateTick) /\ WF_vars(\E success \in BOOLEAN : GateAnswered(success))
  /\ SF_vars(GateAnswered(TRUE))
-----------------------------------------------------------------------------
(* A drive that is reported failed is not driven: its last call is a stop, *)
(* also when the navigate was performed and only its answer was lost. Only *)
(* a stop that itself did not reach the robot leaves it driving.           *)
RefusedIsHalted == goal # None /\ state[goal] = "FAILED" => goal \in unhalted

(* No drive that was accepted before a stop is driven after it, whatever   *)
(* waits in the lanes: the stop is taken first, and the worker has refused *)
(* what waited by the time it comes to a reset.  Only a reset that was     *)
(* accepted before the stop, too, lets them through.                       *)
NoDriveFromBeforeStop == goal \in fenced => fenced \cap Release # {}

(* A robot that has its transform gets its Nav2, however often the startup *)
(* is refused: the gate asks again, and never gives up.                    *)
GateStarts == transform ~> started
=============================================================================
