# A formal model of the Pinky control platform

This directory holds TLA+ specifications of the control platform in `src/`, the
TLC configurations that check them on small instances, and theorems about them
that TLAPS checks for every instance. Every definition is read off the source;
`PROJECT.json` maps each one to its lines.

## 1. Inventory of the system

One server process (FastAPI, one asyncio event loop, SQLite) lets one operator at
a time drive two robots, a master and a slave that follows it. Robots are reached
through rosbridge; on each robot a ROS node arbitrates between Nav2, the operator
and the stop latch. Paths below are relative to
`src/backend/pinky_control_center/` unless they say otherwise.

| Component | State it keeps | Operations | Talks to |
|---|---|---|---|
| MissionService (`mission_service.py`) | rows of `missions`; in memory `active_id`, `slave_wait_deadline`, `formation_pause_pending/_reason`, the store's `formation_override` | create, edit, action, formation_action (HTTP); execute_mission, execute_formation (worker); protective_pause, tick, consume_adapter_event (runtime tick); recovery in `__init__` | dispatcher (submit), adapter (execute), StateStore |
| CommandDispatcher, CommandQueue (`command_service.py`) | two lanes, `_queued_ids`, `_active_stops`, `_wake`; rows of `commands` | submit, process_next, refresh_stops, protective_stop | adapter, the handlers of missions and navigation |
| SafetyService (`safety_service.py`) | `requested`, `stable_since` per robot | request, observe, states | `/stop`, runtime tick |
| Sessions and lease (`storage.py`, `auth.py`, `api/control.py`, `api/session.py`) | tables `sessions`, `control_leases` | login, logout, acquire, renew, release, owns_lease, expire_security | every mutating request; a loss of control stops both robots |
| runtime_tick (`main.py:142`) | none of its own | every 50 ms: refresh stops, drain adapter events, evaluate alerts, protective pause, mission tick, teleop deadman, lease expiry | all services above and below |
| StateStore (`state_store.py`) | `disconnected` (robots that are shown OFFLINE from then on), `formation_override`, sequence number | snapshot, disconnect | adapter snapshots; read by everybody |
| TeleopService (`teleop_service.py`, websocket in `api/control.py`) | `active`, `entered` per robot, `last_seq` per socket | enter, ingest, tick, protective_stop | adapter (manual velocity), lease |
| AlertService (`alert_service.py`) | `_alerts`, `_active_since` and `_clear_since` per code and robot, rows of `alerts` | evaluate, acknowledge, record_* | runtime tick, which stops the formation for what was raised |
| SettingsService (`settings_service.py`) | versioned settings row, `_update_lock` | current, apply_current, update | adapter |
| NavigationService (`navigation_service.py`) | none; the drive is a command of the dispatcher | submit, execute (initial pose, mode, goal, and a stop when one is refused) | dispatcher, adapter, StateStore |
| RosbridgeAdapter (`adapters/ros.py`) | connection per robot, pending service calls, fragment buffers, telemetry, event queue | connect, close, execute, publish_manual_velocity, handle_publish, snapshot, drain_events | robots |
| CameraService (`camera_service.py`) | viewers, worker tasks, frames | stream, close | adapter |
| ManualVelocityWatchdog (`src/ros/pinky_control_watchdog`) | latch, mode, current goal, canceled ids, last velocities | control commands, manual and Nav2 velocities, goal response and result, 20 Hz output | rosbridge, Nav2, wheels |
| Nav2LifecycleGate (`src/ros/pinky_control_navigation`) | startup request | tick, startup done | Nav2 lifecycle manager |
| Frontend (`src/frontend/src/api.ts`, `Teleop.tsx`) | the command it waits for, last state sequence | waitForCommand, stateSocket | HTTP, websockets |
| MapService, history, configuration | read-only or append-only data | - | - |

What makes this system hard, and where:

- **Two coroutines share rows.** The command worker and the runtime tick each read
  a mission into a private copy, await up to three adapter calls of up to 2 s each,
  and write the copy back (`mission_service.py:94-171`, `320-360`). HTTP handlers
  run between any two awaits.
- **Stops overtake.** Stops take a priority lane, but the command the worker is
  executing goes on, and what is queued behind them stays queued.
- **Messages of Nav2 come late.** A stop may arrive between a goal and the response
  to it; a result may belong to an older goal (`manual_velocity_watchdog.py:223-311`).
- **Restarts.** Mission and command rows survive; lanes, active stops and `active_id`
  do not.
- **Authentication and handling are apart.** The dependency `operator` runs in a
  worker thread, the handler later on the loop, and sessions and leases run out in
  between.
- **Stop confirmation is an observation**, shared by all stops of a robot, with a
  deadline that each new request moves.
- **A call ends in several ways at once.** Its answer, its timeout, a broken socket
  and the closing of the adapter race for one future (`adapters/ros.py:326-340`, `638-680`), and
  a call that nobody answered may have been performed.
- **Conditions flap.** Alerts wait before they are raised and before they are
  resolved, and only a newly raised one stops anything.
- **What is shown is what was.** Admission looks at the last report of a robot, a
  camera tile at the last frame; both outlive the connection unless they are dropped.

What makes each component correct:

| Component | Correctness |
|---|---|
| MissionService | no motion without an operator since the boot; an acknowledged pause holds; a claimed start is served; the mission that is driven is on record as live, has one driver and a waypoint to go to; what is over stays over; halts and timeouts complete |
| Dispatcher, SafetyService | a command is executed at most once and concludes; lanes, ids and rows agree; a refused stop is never reported as done |
| Sessions and lease | one lease, handed over only through a free moment, with fresh ids; an ended session loses it |
| Watchdog node | the latch wins; no goal the node lost sight of; none survives a stop; a stop reaches Nav2 and the wheels; deadman |
| TeleopService | a lost socket, lease or renewal ends in zero velocity or a stop; no older velocity after a newer one |
| AlertService | a condition that lasts is raised, one that is over is cleared, each by its own delay; an acknowledgement is kept; nothing new is driven through |
| SettingsService | outside of an update, what the adapter works with is what is stored |
| NavigationService | a drive reported as failed is not driven; no drive from before a stop is driven after it |
| Nav2LifecycleGate | a localized robot gets its Nav2, however often the startup fails |
| RosbridgeAdapter | each call ends, and by what the robot did, not by what another connection or a late answer says |
| CameraService | one worker while there are viewers; no old picture is shown as live |

`PROJECT.json` lists the hazards line by line with the properties that watch them.

## 2. Plan

Order, by what matters most for motion:

1. `MissionFormation` (+ `_proofs`), and the abstract `MissionLifecycle` of the functional
   specification, which it does not implement (see 7): done.
2. `VelocityWatchdog` (+ `_proofs`): done.
3. `ControlAuthority`, the abstract promise, and `ControlLease`, which implements it (+ `_proofs`): done.
4. `CommandDispatch`, which implements the abstract `CommandJournal` (+ `_proofs`): done.
5. `ManualControl` (+ `_proofs`), which takes the lease from `ControlAuthority`: done.
6. `RosbridgeLink`, and `CameraFeed`, which extends it by the camera of the robot
   (+ `CameraFeed_proofs` for both): done.
7. `AlertLifecycle` (+ `_proofs`) with the ages of StateStore and the reaction of the
   tick; `MapNavigation` (+ `_proofs`) with NavigationService, the localization reset
   and the lifecycle gate; `SettingsService`, proved in
   `ControlLease_proofs`: done.

Left: the reassembly of rosbridge fragments; a composition of dispatcher, missions
and lease, for commands accepted under a lease and executed after its loss; a refinement
for map drives; proofs of the liveness of delayed alerts, of missions and of the lanes.

## 3. The modules

### MissionFormation

`row` is the table `missions` (state and progress), `override`, `active`, `wait` and
`pending` are `formation_override`, `active_id`, `slave_wait_deadline` compared with
the clock, and `formation_pause_pending` with its reason. `worker` and `ticker` are
the two coroutines: where they are (`idle`, suspended at an adapter call, or running
between two awaits), the step of the handler they are in, their private copy of the
row, the calls still to make and whether all were accepted. A row has its plan (`last`,
`laps`) beside its progress, since an edit changes the one and keeps the other. `queue` is the normal
lane, `arrivals` the adapter events not yet drained, `robot`, `goal` and `lost` what
the robots do, `granted` a history of what operators started since the boot, `crossed` one of
the missions that were sent a request while another command of theirs was unfinished.

HTTP handlers are atomic actions (`CreateMission`, `EditMission`, `SubmitMission`,
`SubmitStart`, `SubmitFormation`; a request that is refused after it asked for the
formation is `RefuseRequest`). A command handler is a chain of actions, one per
stretch between awaits: `Start`, then per call `WorkerCall`, then `FollowerStarted`
or `FollowerRefused`, and so on; likewise for the tick (`RuntimeTick`, `RaiseAlert`,
`Protected`, `SettleFormation`, then one disjunct per branch of `_tick`).
`Restart` may come at any moment, also between two calls.

Abstractions. An adapter call takes effect in one step with its answer; a refusal
may have been performed and its answer lost (the 2 s timeout). Checks of map,
connection, pose and settings are refusals, since they change nothing. `resume` is
`start`: the code treats both alike. `navigate` is reported as SUCCEEDED when the
robot accepts it (`adapters/ros.py:346`). A robot refuses navigate while latched or
while it has a goal. `Unobserved` is stale telemetry or a robot marked disconnected.
`FormationMode.STOPPED` is assigned nowhere in the code and therefore absent.
`execute` never raises (it catches and answers), so an exception is a refusal.

An edit may cut the plan of a mission below its progress, when a validation that was
queued twice has turned a mission that ran back into a plan. `HasGoal` is whether the
waypoint to go to still exists; `StartedPastTheEnd` is the start that finds it missing.

`MissionLifecycle` is the life of a mission as `docs/02-functional-spec.md:110` gives it:
planned, moving, pausing, paused and moving again by a new order, canceling, over; paused
after a restart if it was in progress. `StageOf` maps the states of a row to these stages and
`granted` are the orders. The code does not implement it: `LifecycleKept` is refuted (7).

### VelocityWatchdog

The node has a single-threaded executor, so each callback is one action.
`phase[g]` says what Nav2 does with goal `g`, `handle` and `navId` are
`_goal_handle` and `_navigation_id`, `told` and `asked` which goals the node has
heard of and asked to cancel; `manual` and `nav` are the last velocities with their
age abstracted to valid or not. Goals are identified by uuid4 and never sent twice.
`apply_settings`, speed limits, reason codes and the published status are left out:
they influence none of latch, goals and arbitration.

### ControlAuthority and ControlLease

`ControlAuthority` is the promise: at most one grant, a new one only when there is
none, each with a fresh token. `ControlLease` has the tables: `session`, `leases`
(with elapsed rows still in the table until someone deletes them), `issued`, and
`requests` that are authenticated but not handled. `Grant` is `acquire_lease`:
delete what elapsed, keep or refuse, and on a conflict roll the deletion back.
`ExpireSecurity` is `expire_security`. The refinement maps the rows that are still
live to the grant in force and drawn ids to spent tokens.

### CommandDispatch

`row` is the table `commands`, `normal`, `priority`, `queuedIds`, `active` and
`wake` are the dispatcher's fields, `awake` and `worker` the place of the worker
coroutine, `requested` and `stable` the SafetyService with its clock comparisons as
flags (`overdue` after 2 s, `long` after 0.5 s). `Submit` is `create_command`
followed by `submit`, without an await in between; a command is named by the request
it came with, so a retry names it again. The worker's `Take` and each answer are
actions; the code takes the next command without an await after finishing one, the
model allows others in between, which only adds behaviours. The tick's
`RefreshStops` observes any robots at rest: telemetry is arbitrary. `set_mode` takes
the way of `reset_stop` and is not listed apart. The 24 h window of idempotency and
conflicting payloads are left out: a conflict changes nothing. Histories `runs`,
`acked` and `orphans` serve the properties only.

`CommandJournal` is what the sender of a command is promised about its row: it moves
forward only, the command is executed at most once, the end that is recorded is the
last word, and no restart takes anything back. Only a row that nobody has executed is
struck out, when the lane is full (`command_service.py` deletes it again and answers
503). The refinement maps `row` to the journal and what has run to the executed.

### ManualControl

`at`, `last` are the place and `last_seq` of each websocket handler, `held` and
`late` TeleopService's `active` with the age of its packets as a flag, `zeros` and
`tick` the place of the runtime tick, `stops[p]` what the protective stop of
coroutine `p` still has to ask. Several protective stops may be under way, one of
the tick and one of each socket that was lost. The lease is an instance of
`ControlAuthority`, and `lapse` says that `expire_security` has an expiry to report.

`entered` and `active` are one variable: every packet that gets past the socket sets
both, and the 0.3 s of the one always pass before the 1 s of the other. A `Packet` is
received, checked, ingested and published in one step, since the write to the robot
is the handler's first await; its failure is a step of its own (`PublishFailed`),
because others may run before it is known. A robot is `still` or `moving`, or moves
although a stop `refused` or after a failed publish made the server forget it.
`DisconnectSending` is the disconnection noticed by `send_json`, which is outside the
`try`: the handler ends without a protective stop, and only the deadman is left. The
mark StateStore keeps of the robot that was driven is left out: it moves nothing here.

### AlertLifecycle

One robot, since alerts of different robots share nothing. `link`, `age` and `battery`
are what the adapter reports, `marked` is `StateStore.disconnected`, from which
`state_store.py` computes ONLINE, STALE and OFFLINE, and whether the battery is known
(`BatteryShown`: that of a marked robot is not). `alert` is `_alerts` and `row` the
table, `active` and `clearing` are `_active_since` and `_clear_since` as ages that
saturate at the delay of their code. `Tick` is one `runtime_tick`: `evaluate` looks at
every code by `_condition`, whose branches are disjuncts, and `protective_pause`
follows when something was raised that makes motion unsafe. `Acknowledge` writes the
table and the memory, `Restart` reads the table back with its timers gone. The other
codes (poses, transforms, sensors, the follower, refused commands) go through the same
`_condition` with the delays of COMMUNICATION_LOSS and are not told apart. What the
stop of a formation goes through is MissionFormation's; here it is one step.

### RosbridgeLink and CameraFeed

`phase` is where the task `_run` of one robot is, `socket` the connection it opened
last, `registered` and `wire` whether the adapter still holds it and whether it still
carries anything; a socket may be broken long before the task finds out. `call`,
`pending`, `future` and `outcome` are an `execute` with its entry in `_service_calls`,
`request` its request or answer on the wire, `via` the socket it was sent on, `did`
what the robot made of it, `told` the event that was emitted. The verdict on a call is the service's; only where
there is none, because the bridge could not call the service, it is the bridge's own result
(`Accepted`). A future that is set and
an `execute` that returns are two steps, because the awaiting coroutine is resumed
later. Robots share neither sockets nor ids, so one is enough. Messages are received
whole: fragments change only their buffers.

`CameraFeed` adds the frame held by the adapter (`frame`, the socket `shot` it came
on, its `age`) and CameraService: `viewers`, the `queue` of one frame each, and the
`worker`, which is *dead* but registered after a frame it could not scale. A browser
that has `gone` is noticed at the next send.

### MapNavigation

`normal`, `priority`, `running` and `state` are the dispatcher as far as map drives,
localization resets, stops and resets share its single worker, `step` the call the
handler makes next. `mode`, `latched` and `goal` are the mediator's on the robot,
`located` and `transform` AMCL's, `starting`, `started` and `asked` the gate's. `seen`
is what the robot last reported, which is all that admission (`MayDrive`,
`MayRelocate`) looks at. Each call of `execute` is an action whose answer may be lost
after the robot obeyed; whatever is refused ends in a stop whose result nobody reads.
The call that sets the goal carries the id of the request, the others a fresh one. A
protective stop comes at any time, also to a robot that is latched.
`fenced` and `unhalted` are histories for the properties. The lease, the active map
with its free cells and the formation are guards of admission that others move; they
are left out, and so is the confirmation of a stop, which is CommandDispatch's.

### SettingsService

`version` and `active` are the settings row, `applied` what the adapter was given
last, `lock` is `_update_lock`, `page` where the update of each client is. The adapter
may take its time, refuse, or the server may die in between; `ForeignStore` is another
process on the same database. Of the settings only the active map is told apart.

## 4. The runs

| Run | Question | Bounds |
|---|---|---|
| MissionCore | Do requests that overtake one another, an alert, refusals and short plans break what must always hold? | one mission of up to two waypoints, progress within or past its plan, lane of 2, 3 requests, 1 alert (3.2 million states) |
| MissionLive | What does a crash leave, and do commands, halts and timeouts complete? | one mission of one waypoint from its draft on, lane of 2, 4 requests, 1 restart, fairness (249,500 states) |
| Watchdog | Does the node keep latch, goals and velocities apart in every order of messages? | two goals, commands unbounded |
| Lease | Is authority exclusive and fenced, and lost with the session? | two sessions, three lease ids, two requests in flight |
| Dispatch | Is the journal of the commands kept, and each one tracked and concluded? | two commands, stops of one and both robots, lane of 1, 3 requests, 1 restart |
| Manual | Is a robot that moves always in somebody's hands, whatever fails? | one session, two sockets, two sequence numbers, both robots |
| Alerts | Do delays, acknowledgements and restarts keep alerts true to what lasts? | one robot; a code that is raised at once and one that must last; delays 0, 1, 1, 2; 1 restart (331,356 states) |
| Link | Does a call end by what the robot did, and the camera show what is there now? | one navigate, two sockets, one reconnect delay, two viewers of whom one is scaled (117,799 states) |
| MapNavigation | What becomes of a drive around refusals, lost answers and stops? | two drives, one relocation, one reset, one stop, protective stops unbounded (670,980 states) |
| Settings | Do the adapter and the database agree outside of an update? | two maps, two clients, two updates, 1 foreign write, 1 restart (2,988 states) |
| ClaimLifecycleKept | Do the missions on record keep the lifecycle of the functional specification? (see 7) | one mission, 2 requests, 1 alert |
| ClaimLossPausesMission | Does every loss of communication pause the mission, as the requirements say? (see 7) | as Alerts, without restart |

What the passing runs show, property by property:

- `MotionNeedsOperator`: whatever was queued or under way when the server died, it
  drives a mission again only after somebody started it.
- `AcknowledgedPauseHolds`: when all three calls of a pause were acknowledged, the
  robots are latched and the master has no goal, although the tick may have sent one
  between the calls. It needs the stop *and* the cancel: with the cancel alone the
  tick's goal survives (the mutant).
- `StartingIsServed`: a row in STARTING always has a start command behind it, unless its
  plan was cut below its progress (7).
- `ActiveIsLive`, `OneDriver`: the mission that `active_id` names is on record as live, and
  start and tick never drive one mission together, *unless* a request of that mission
  crossed an unfinished command of it. The server does not prevent that, and the user
  interface waits only 3 s (`api.ts:173`) while a command may take longer; what happens
  then is told in 7. The exception is one of the history `crossed`, per mission, and not
  an assumption on the operator: other missions may be asked for anything, and requests
  that cross are part of the run and of the proof.
- `RunningHasGoal`: the tick, which indexes the waypoints of a RUNNING mission without a
  guard (`mission_service.py:124`), finds one, whatever edits came before or between.
- `EndedForGood`: a mission that succeeded, failed or was canceled, and whose row nothing
  queued or under way may still write, keeps its row.
- `CommandsFinish`, `HaltCompletes`, `TimeoutFires`: progress of worker and tick.
- `LatchHolds`, `OrphanFree`, `NoGoalSurvivesStop`, `StopReachesNav2`, `Deadman`: the
  node, with responses, results and cancellations in
  every order around stops, resets and mode changes.
- `FencedAuthority`, `EndedSessionLosesControl`: the lease. A session
  that logged out may still obtain the lease with a request authenticated before;
  the property says that it loses it again, for good.
- `JournalKept`, `LanesMatchRows`, `RunningIsOwned`, `NoFalseSuccess`,
  `CommandsConclude`: the dispatcher, with retries, a full lane, refusals, several
  stops of one robot at once and a restart between any two steps.
- `MovingIsSupervised`, `NewestWins`, `InputEnds`, `LossStopsBoth`: manual control. A
  moving robot has a running deadman, or a zero or a stop on its way; a zero that
  cannot be delivered becomes a protective stop of both. `InputEnds` holds without the
  robots' own deadman (`RobotExpires` has no fairness).
- `AlertsNeedTime`, `AckSurvives`, `DrivenThrough`, `AlertsConclude`: an alert is raised
  and resolved only by what every tick saw for its whole delay; acknowledgements outlive
  ticks and restarts; the formation drives on only through alerts that were ACTIVE
  before it drove; and a condition that stays is raised for good. The last asks the
  battery to be known and to leave the band between the limits, where nothing is decided;
  a robot marked by a protective stop shows neither (7).
- `AcceptedWasDone`, `GoalOfThisConnection`, `LateAnswersAreSilent`, `CallsConclude`: a
  result is never made up, also when the socket is replaced between the request and its
  answer; *timeout*, *failed* and *closed* leave open what the robot does.
- `WorkerFollowsViewers`, `CameraShowsPresent`: the worker is registered exactly while
  there are viewers, and no frame of an earlier connection, or older than 2 s, reaches
  one. The dead worker counts as registered (see 7).
- `RefusedIsHalted`, `NoDriveFromBeforeStop`, `GateStarts`: a drive reported as FAILED
  is not driven unless the stop behind it was lost, too; what was accepted before a stop
  is not driven after it, unless a reset was accepted before the stop as well; a robot
  with a transform gets its Nav2.
- `SettingsAgree`: no refused, failed or interrupted update leaves a trace in the adapter.

Why the bounds suffice. One mission is enough for the races between the coroutines,
since each works on one mission at a time; two waypoints or two laps are the first
instance with an `Advance`. A formation is paired before anything starts, so three requests
are a pair, a start and what crosses it or comes after; four add the validation of a draft,
its repetition, or the creation. A lane of two holds a repeated command. Two goals are the least that make a response or result "older". Three lease
ids allow a grant, its loss, another and a third. Two sockets with two numbers each let an older packet
arrive through the second socket. Two commands with both target sets
give a stop beside a reset, two stops sharing a robot, and a lane that is full after
one. Requests are counted, because an operator who never stops asking postpones the
deadline of a stop for ever. Two codes with different delays let one alert be raised while
the other still waits; a delay of two units is the first that can be interrupted. One
navigate meets two connections, its own and the next; that several calls do not disturb
one another is proved. Two drives, a reset and a stop are the first instance in which
something waits behind the command that runs while a stop arrives. Two clients are
needed for a conflict. Deadlock is not checked where the counted requests run
out and nothing is left to do; the watchdog node has a timer and is checked for it.

## 5. Fairness

- MissionFormation: strong fairness of each coroutine. The event loop resumes ready
  coroutines first in, first out, each adapter call ends within 2 s, and the tick
  sleeps 50 ms; weak fairness would not do, since each coroutine is disabled
  whenever the other holds the loop. `HaltCompletes` asks nothing of the robots: it
  says "or a robot is not at rest".
- VelocityWatchdog: the output timer fires, delivered messages are handled, Nav2
  answers a goal and honours a cancel. Nothing makes an uncanceled goal end.
- ControlLease: handlers run, the watchdog ticks, and a lease that no live session
  could renew runs out.
- CommandDispatch: the worker is resumed, an adapter call is answered or times out,
  a handler returns (which `CommandsFinish` of MissionFormation shows for missions),
  the tick runs, 2 s pass. Robots need not come to rest.
- ManualControl: the tick runs, a coroutine that has begun goes on, a call to a robot
  ends within 2 s, and time passes. No packet has to come and no robot to obey.

- AlertLifecycle: the tick runs and time passes. No message has to come.
- RosbridgeLink: a send ends, as the keepalive of the websocket breaks one that hangs,
  and the 2 s timer of a waiting call fires. Robot, network and `close` owe nothing.
- MapNavigation: the timer of the gate ticks and finds the manager's service, the manager
  answers each request and does not refuse for ever. The gate has no timeout of its own.
- SettingsService has no liveness property.

## 6. Proofs

All theorems are for arbitrary constants under the named assumptions of the modules
(`ConstantsOK`, `PendingBound`, `CommandAssumption`, `TargetAssumption`,
`LimitAssumption`, `GoalsNamed`, `SeqBound`, `CodesAssumption`, `TimesAssumption`,
`CallsAssumption`, `BoundsAssumption`, `ViewersAssumption`, `RequestAssumption`,
`SettingsAssumption`).

| Module | Theorems | The inductive invariant |
|---|---|---|
| MissionFormation_proofs | `Typed`, `OperatorStartsMotion`, `PauseHolds`, `StartsServed`, `GoalsExist`, `EndedStays`, `LiveMissionsOnly`, `SingleDriver` | `Inv`: types; every queued start, the driving copy of either coroutine and `active` name granted missions; a suspended coroutine has a call to make, and only a driving one has a navigate among its calls. Without the last part the invariant is not inductive: a permission given when a command is accepted has to be followed through queue, copy and `active_id` to the robot. `PauseInv` adds that a halt which was accepted so far has each robot latched or its stop still to call, and that a latched master has no goal; `ServedInv` that no copy but that of a start says STARTING, that a worker which takes a command has none, and that the copy of a start has the plan of its row (`StartSeesPlan`), since a row in STARTING is not edited; `GoalInv` that a copy about to be written as RUNNING has a waypoint to go to. For the two theorems on agreement, `WorkerCopy` and `TickerCopy` say what states a copy can have, and `AgreeOn(m)`, for each mission that nobody crossed, what may still happen to its row: at most one command of it is queued or executed, and whether that starts, halts or validates it bounds the state of the row and who may be driving it. What is asked of another mission disturbs it only by taking `active_id` away. `EndedStays` needs `Inv` alone: each writer of a row is the worker, the tick or a handler, and what they name is excluded. |
| VelocityWatchdog_proofs | `Typed`, `Latched`, `NoOrphan`, `StopForgets`; live: `DeadmanActs`, `StopEndsGoals` | types, latch, current goals, and which goals the node has heard of. For `StopEndsGoals`: a goal that a stop found is never the node's own again, so the node asks for its end on the late response if it has not before. |
| ControlLease_proofs, also for SettingsService | `Typed`, `SingleOperator`, `Implements`, `EndedNeverRegains`, `AdapterHasStored`, `NoAppliedUpdateLost`; live: `EndedLosesLease` | types, one row, and every row's id among the drawn ones: a fresh id is then fresh for the abstract token set. The refinement has one lemma per kind of change (a deletion is a loss or a stutter; a grant is a grant, a renewal a stutter). `EndedNeverRegains` needs only that sessions stay ended and requests are made by live ones. The settings have an invariant of their own: exactly the update that holds the lock is past the comparison of versions, and that version is still the row's (`NoAppliedUpdateLost`); the adapter works with what is stored until it takes the new values, and with these until they are stored. |
| CommandDispatch_proofs | `Typed`, `AtMostOnce`, `LanesAgree`, `Owned`, `Honest`, `KeepsJournal`; live: `StopsConclude`, `WorkerComesRound` | `Inv`: beside these, a command waits in one place of one lane only, the state of a row bounds the number of executions, what the worker has collected so far, and that tracked stops were acknowledged by all their robots. `AtMostOnce` needs `LanesAgree`, and that needs the uniqueness of places. For the journal each action of the dispatcher is one of the journal's, or a stutter. `StopsConclude` needs that a stop the dispatcher knows has the clocks of its robots running (`StopsAreClocked`), from its request on. |
| ManualControl_proofs | `Typed`, `Supervised`, `Newest`, `LossIsServed`; live: `LossStopsEach`, `TickComesRound`, `UnrenewedInputEnds` | types, supervision, and that zeros are left only while the tick sends them: else the next tick's set would replace robots still waiting for theirs. `StopInv` adds that a robot which is owed a stop is on the list of some coroutine (`OwedIsServed`), and that a coroutine which still has a list begins no other (`StopsAreWhole`). `TickComesRound` counts the calls a tick has left (`Rank`), which no step of another coroutine raises. |
| AlertLifecycle_proofs | `Typed`, `NoAlertBeforeItsTime`, `AcknowledgedUntilResolved`, `NothingNewIsDrivenThrough`; live: `RaisedForGood` | a running timer was set by a tick that saw its condition and is not ahead of what was seen since (`TimersLag`); table and memory agree (`RowIsAlert`), which makes restarts harmless; only what was raised is acknowledged; what needs no delay is reported at once. |
| CameraFeed_proofs | `Typed`, `NothingMadeUp`, `GoalIsCurrent`, `LateAnswers`, `WorkerIsShared`, `NothingOld`; live: `CallsEnd` | where a request and its answer can be for each place of its call, futures that tell what the robot did, ONLINE exactly while serving, and a frame only of the connection that is up. Proved for any number of calls at once. |
| MapNavigation_proofs | `Typed`, `FailedIsHalted`, `StopFencesDrives`; live: `GateStartsNav2` | rows and lanes agree and a request waits in one place; the goal belongs to the drive that runs or to one that succeeded, or its stop was lost; in the lane everything fenced stands before what came later, and while something fenced could still be driven without a reset from before the stop, the robot is latched. |

No theorem assumes anything of the operator. `OneLease` and `AtMostOnce` are stated by no run,
since `FencedAuthority` and `JournalKept` imply them.

**Liveness.** The provers know nothing of ENABLED, so the live theorems take their
fairness with the guards written out: where `FairSpec` has `WF_vars(A)` they assume
`[]<>~G \/ []<><<A>>_vars`, in which `G` says of the state when `A` can change something.
That `G` is ENABLED `<<A>>_vars` can be read off the actions, since their remaining
conjuncts assign primed variables; it is not proved, but TLC confirms on the instances
of Watchdog, Lease, Manual, Dispatch, Alerts, Link and MapNavigation that the fair
specification implies each of these conditions (`TimerFires`, `ResponseArrives`,
`Nav2Answers`, `Nav2Obeys`, `TickRuns`, `LeasesRunOut`, `TickTurns`, `HandlersTurn`,
`TimePasses`, `TimePassesFor`, `TickFinds`, `WorkerTurns`, `TickSees`, `SendEnds`,
`GateTicks`; `ManagerAccepts` is the strong form). `TickTurns` has no guard: the tick
always has a step that changes something.

`Deadman`, `StopReachesNav2`, `CallsConclude` and `GateStarts` are properties of the runs.
The others are the parts of run properties that need no induction over data: of
`EndedSessionLosesControl`, `LossStopsBoth` and `InputEnds` per session without requests
under way, per robot, and for packets of one robot; of `AlertsConclude` the conditions
without a delay; of `CommandsConclude` the command that is executed and the stop that
waits for its confirmation. `StopsConclude` names what the bound on requests hides in the
run: every request of a stop, a retry as well, starts the 2 s of its robots anew, so while
an operator stops it every second, a robot that keeps moving is never UNCONFIRMED.

Only model-checked:

- `EndedSessionLosesControl`, `LossStopsBoth` and `InputEnds` as a whole. They join the
  theorems above over arbitrarily many requests, or packets and sockets whose sequence
  numbers run out: a count that a proof would have to descend by induction.
- `CommandsConclude` as a whole: a command moves up in its lane, which has any length, and
  the normal lane waits while stops come in, of which a run has finitely many.
- `CommandsFinish`, `HaltCompletes`, `TimeoutFires` and `AlertsConclude`: they descend
  along a queue, a list of calls or a timer, or need strong fairness of two coroutines.

Every safety property of the runs is also proved.

## 7. Where the documents and the code part

Two of them are runs that TLC refutes with a short trace:

- **LifecycleKept**. `docs/02-functional-spec.md:110`: a mission goes from PAUSING to PAUSED
  and moves again by a new start. A protective pause that comes while a start awaits its
  navigate records PAUSING and stops both robots; the start then writes its older copy,
  RUNNING, over it (`mission_service.py:360`). The mission is on record as moving, the
  robots are latched, and a release of the latch lets it go on.
- **LossPausesMission**. `docs/01-requirements.md:57`: a loss of communication pauses the
  formation mission and stops both robots. The tick reacts to newly raised alerts only,
  and an alert stays ACTIVE for 3 s after the connection is back. A loss within that time
  refreshes the old alert (`alert_service.py:70`), and a mission that was resumed
  meanwhile drives on.

Divergences met while modelling that have no run of their own. Missions, stops and
authority:

- `docs/02-functional-spec.md:110`: PAUSING leads to PAUSED, CANCELING to CANCELED. The
  tick awaits its navigate with a copy that says RUNNING and writes it over the PAUSING
  that a pause recorded meanwhile (`mission_service.py:145`). The other way round a cancel
  that was accepted while the mission ran is recorded over its SUCCEEDED
  (`mission_service.py:360`), and is completed if `active_id` still names it, never otherwise.
- A start of a second mission takes `active_id` away from one that is on record as RUNNING
  or PAUSED (`mission_service.py:340`). A RUNNING one, for instance after the overwritten
  pause above, is then supervised by nobody: neither the settle timeout nor a lost
  follower reaches it.
- An edit may cut the plan of a mission below its progress, which it does not reset
  (`mission_service.py:277`); it takes a mission that ran and was turned back into a plan by
  a late validation. Its start fails with an IndexError after `active_id` was set
  (`mission_service.py:341`), and the row stays STARTING: no command is accepted for it,
  until a restart, an alert or a lost follower pauses it.
- Two cancels of a mission that was not started: the second finds CANCELED and records
  CANCELING (`mission_service.py:348`), which nothing completes.
- `mission_service.py:315`: "Claim a start synchronously: distinct concurrent requests
  cannot enqueue two goals". A second validation queued behind the first turns STARTING
  back into READY; a second start is accepted.
- `manual_velocity_watchdog.py:170`: "Releasing the latch must never resume a goal that
  was accepted before the stop". The goal is gone, but its last velocity is not: AUTO
  within `nav_timeout_sec` forwards it.
- `docs/02-functional-spec.md:120`: the server stops the formation when the browser loses
  control. A grant that deletes the elapsed lease before the next tick leaves the tick
  nothing to answer.
- `docs/02-functional-spec.md:107`: the latch is released after both robots were
  confirmed at rest. `reset_stop` looks at the lease only.

- `docs/02-functional-spec.md:110`: CANCELING → CANCELED. After a restart no mission
  is active, and `_tick` finishes the active one only (`mission_service.py:114`): a
  recovered mission that is canceled stays CANCELING.
- `docs/02-functional-spec.md:184`: an input timeout sends the robot a zero velocity.
  After a publish that failed for one robot TeleopService forgets both, and neither
  is sent a zero (`api/control.py:158`; the robots `forgotten` in ManualControl).
- The same line: a closed socket latches a protective stop. A disconnection noticed
  while sending ends the handler without one (`DisconnectSending`).
- A formation in ERROR has no action that leaves it (`mission_service.py:66`); only a
  restart of the server does.
- `docs/02-functional-spec.md:110` says that a restart ends commands with a recovery
  reason; command rows stay ACCEPTED or RUNNING (the `orphans` of CommandDispatch).
- Section 4.1 of that document gives TIMED_OUT for a robot that does not answer in
  2 s; the dispatcher records FAILED. TIMED_OUT is an acknowledged stop that was not
  confirmed.
- Section 4.3: stopping one robot of a formation pauses the mission and stops the
  peer. `/stop` does neither; MissionService does not hear of it.
- `docs/02-functional-spec.md:108`: unpair waits until both robots rest;
  `formation_action` does not look at them.
- A pause under way when the follower is lost overwrites LOST with PAUSED
  (`mission_service.py:359`).
- The settle check starts when the robot accepts the goal, not when it arrives
  (`adapters/ros.py:346`), so a mission may be paused for a slave that is still
  following.
- CONFIRMED may rest on one odometry sample: freshness lasts 1 s, the observation
  must hold 0.5 s.
- A robot disconnected by a protective stop stays OFFLINE until the server restarts
  (`state_store.py:23`); its stops time out, and its battery alert is neither raised nor
  resolved, since its battery counts as unknown (`state_store.py:38`). A socket that never drove
  counts as robot_1's, so closing it marks robot_1.


Alerts, link, camera, map drives and settings:

- `docs/02-functional-spec.md:275`: a battery alert is resolved after 10 s above 25 %. A
  reading between the limits does not reset the timer (`alert_service.py:74`), so the
  10 s need not be in one piece. `AlertsNeedTime` counts the band as not low.
- `docs/02-functional-spec.md:277`: no new drive while a robot is STALE. `start` and
  `resume` look at the formation only.
- COMMAND_REJECTED and PROTECTIVE_STOP_UNCONFIRMED are raised by `record_*` and
  evaluated by nobody: they stay ACTIVE for ever.
- `apply_settings` of RosbridgeAdapter always answers False (`adapters/ros.py:734`), so
  settings cannot be changed with real robots. The mock never suspends in it: what the
  lock protects is the protocol of the adapter, not something today's adapters do.
- A foreign write of the settings row reaches the adapter at the next start only.
- `navigation_service.py:67` refuses a drive beside an active mission, but
  `active_mission` of a snapshot is assigned nowhere. The guard on the formation behind
  it does the work.
- `docs/03-implementation-plan.md:221`: the initial pose is published after the robot was
  stopped. A relocation is admitted by the last report and executed later, possibly
  behind a drive that moves the robot by then. An administrator needs no lease for it.
- Map, mode and rest are checked at admission only. A second drive admitted on an old
  report is refused as NAVIGATION_BUSY by the robot, and the stop that follows a
  refusal ends the first one. A refused mode leaves the new initial pose in place.
- The stop after a refused drive is not checked (`RefusedIsHalted` says what is left).
- The dispatcher has one worker: an operator's stop waits behind a drive or a mission
  command that is in its calls, 2 s for each that is not answered. Protective stops do
  not wait.
- The docstring of the lifecycle gate says that a failed request is retried. One that
  the manager never answers is not: `_request_in_flight` stays set.
- `execute` may return TIMEOUT for a call whose answer arrived in the same turn of the
  loop, after its SUCCEEDED event. `LateAnswersAreSilent` speaks of answers after that.
- A worker that died of a damaged frame stays registered: its viewers, and those who
  join them, get nothing until the last one leaves. A browser that went away while no
  frame comes stays a viewer, since only a send notices it.

## 8. Not modelled

The reassembly of rosbridge fragments (`adapters/ros.py:282-322`), transforms, paths,
scans and the sensor layers of RosbridgeAdapter are left out: they change what is drawn,
not what is driven. So are the shutdown of CameraService, the speed limits and the
published status of the watchdog node. Maps, history, configuration, migrations, launch
files and the rendering of the frontend keep no state that control depends on.
Passwords, roles and CSRF tokens are abstracted to an authenticated request. Failures of
SQLite and exceptions that end the runtime tick are outside the models, which assume that
the tick survives.
