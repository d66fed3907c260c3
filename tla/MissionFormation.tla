------------------------- MODULE MissionFormation -------------------------
(***************************************************************************)
(* MissionService: missions and the formation of a master and a slave      *)
(* robot.  One asyncio event loop interleaves three kinds of code, and     *)
(* only where a coroutine awaits the adapter:                              *)
(*   - the HTTP handlers, which never await: each is one atomic action;    *)
(*   - the command worker, which executes queued commands one at a time;   *)
(*   - the watchdog's runtime tick.                                        *)
(* A coroutine reads a mission row into a private copy, awaits a list of   *)
(* adapter calls and writes the copy back, so the two coroutines can read  *)
(* and write the same row around each other's awaits.                      *)
(* Rows are persisted; everything else in the server is lost on a restart. *)
(***************************************************************************)
EXTENDS Naturals, Sequences

CONSTANTS
  Mission,       (* the missions an operator may create                    *)
  NoMission,     (* Python's None for active_id                            *)
  LastWaypoint,  (* bound: index of the last waypoint of a plan            *)
  LastLap,       (* bound: repeat_count - 1 of a plan                      *)
  QueueLimit,    (* capacity of the normal command lane (100 in the code)  *)
  Boot,          (* row states the database may hold when the server boots *)
  MaxRequests,   (* bound: HTTP mutations in a behaviour                   *)
  MaxAlerts,     (* bound: alerts that become active in a behaviour        *)
  MaxRestarts    (* bound: server restarts in a behaviour                  *)

Robot    == {"master", "slave"}
Final    == {"SUCCEEDED", "CANCELED", "FAILED"}
Resting  == {"NONE", "DRAFT", "READY", "PAUSED"} \cup Final
InFlight == {"STARTING", "RUNNING", "PAUSING", "CANCELING"}
MissionState == Resting \cup InFlight

ASSUME ConstantsOK ==
  /\ NoMission \notin Mission
  /\ {LastWaypoint, LastLap, QueueLimit} \subseteq Nat
  /\ {MaxRequests, MaxAlerts, MaxRestarts} \subseteq Nat
  /\ Boot \subseteq Resting

(* Its plan ends at waypoint last in lap laps; wp and lap are how far it   *)
(* got, which an edit of the plan does not reset.                          *)
Row == [state : MissionState, wp : 0..LastWaypoint, lap : 0..LastLap,
        last : 0..LastWaypoint, laps : 0..LastLap]

(* FormationMode; STOPPED is declared by the code and assigned nowhere.    *)
Mode == {"UNPAIRED", "READY", "FOLLOWING", "PAUSING", "PAUSED", "LOST",
         "REJOINING", "ERROR"}

(* One adapter.execute of the services: a robot and an operation.          *)
Call == [to : Robot,
         do : {"stop", "cancel_navigation", "navigate", "follow_ready",
               "follow_start", "rejoin"}]

Stop(r)   == [to |-> r, do |-> "stop"]
StopBoth  == <<Stop("master"), Stop("slave")>>
CancelOnly == <<[to |-> "master", do |-> "cancel_navigation"], Stop("slave")>>
CancelAndStop ==
  <<[to |-> "master", do |-> "cancel_navigation"], Stop("master"), Stop("slave")>>
Navigate  == <<[to |-> "master", do |-> "navigate"]>>
Follow    == <<[to |-> "slave", do |-> "follow_ready"],
               [to |-> "slave", do |-> "follow_start"]>>
Rejoin    == <<[to |-> "slave", do |-> "rejoin"]>>

MissionOp   == {"validate", "start", "pause", "cancel"}
FormationOp == {"f_pair", "f_unpair", "f_pause", "f_rejoin"}
Command     == [op : MissionOp \cup FormationOp, m : Mission \cup {NoMission}]

VARIABLES
  row,        (* the missions table: state and progress of every mission   *)
  override,   (* state_store.formation_override, "UNSET" before first use  *)
  active,     (* active_id                                                 *)
  wait,       (* slave_wait_deadline against the clock                     *)
  pending,    (* formation_pause_pending with formation_pause_reason       *)
  queue,      (* accepted commands that the worker has not taken           *)
  worker,     (* the command worker: its command and its private copy      *)
  ticker,     (* the runtime tick: likewise                                *)
  arrivals,   (* navigate SUCCEEDED events the tick has not drained        *)
  robot,      (* a robot is free to move, latched ("braking"), or latched  *)
              (* and freshly observed at rest ("stopped")                  *)
  goal,       (* what the master does with the last goal it accepted       *)
  lost,       (* the adapter reports the follower as LOST                  *)
  granted,    (* history: missions an operator started since the boot      *)
  crossed,    (* history: missions that were sent a request while another  *)
              (* command of theirs was queued or executed                  *)
  used        (* bounds: requests, alerts and restarts so far              *)

memory == <<override, active, wait, pending>>
field  == <<robot, goal, lost>>
vars   == <<row, memory, queue, worker, ticker, arrivals, field, granted, crossed, used>>

Coroutine ==
  [at   : {"idle", "await", "run"},
   op   : {"none", "start", "unfollow", "drive", "fail", "pause", "cancel",
           "f_pause", "f_rejoin", "rejoining", "alerts", "protect",
           "protect_lost", "mission", "advance", "lost"},
   m    : Mission \cup {NoMission},
   copy : Row,
   todo : Seq(Call),
   ok   : BOOLEAN]

TypeOK ==
  /\ row \in [Mission -> Row]
  /\ override \in Mode \cup {"UNSET"}
  /\ active \in Mission \cup {NoMission}
  /\ wait \in {"none", "running", "expired", "inf"}
  /\ pending \in {"none", "pause", "lost"}
  /\ queue \in Seq(Command)
  /\ worker \in Coroutine
  /\ ticker \in Coroutine
  /\ arrivals \subseteq Mission \cup {NoMission}
  /\ robot \in [Robot -> {"free", "braking", "stopped"}]
  /\ goal \in {"none", "underway", "reached"}
  /\ lost \in BOOLEAN
  /\ granted \subseteq Mission
  /\ crossed \subseteq Mission
  /\ used \in [requests : Nat, alerts : Nat, restarts : Nat]

-----------------------------------------------------------------------------
(* The event loop.  A coroutine whose "at" is "run" is between two awaits: *)
(* it holds the loop and nothing else in the server runs.                  *)

BlankRow == [state |-> "NONE", wp |-> 0, lap |-> 0, last |-> 0, laps |-> 0]

Idle == [at |-> "idle", op |-> "none", m |-> NoMission, copy |-> BlankRow,
         todo |-> <<>>, ok |-> TRUE]

(* The tick between its first await and the next, before it looks at an    *)
(* alert.                                                                  *)
AtAlerts == [at |-> "run", op |-> "alerts", m |-> NoMission, copy |-> BlankRow,
             todo |-> <<>>, ok |-> TRUE]

Awaiting(op, m, copy, calls) ==
  [at |-> "await", op |-> op, m |-> m, copy |-> copy, todo |-> calls, ok |-> TRUE]

LoopFree == worker.at # "run" /\ ticker.at # "run"

Running(c, op) == c.at = "run" /\ c.op = op

SourceMode == IF lost THEN "LOST" ELSE "UNPAIRED"

(* formation(): the first call freezes what the adapter reports.           *)
Formation == IF override = "UNSET" THEN SourceMode ELSE override

AllFree    == \A r \in Robot : robot[r] = "free"
AllStopped == \A r \in Robot : robot[r] = "stopped"

Store(m, data) == row' = [row EXCEPT ![m] = data]

-----------------------------------------------------------------------------
(* HTTP handlers                                                           *)

Request ==
  /\ LoopFree
  /\ used.requests < MaxRequests
  /\ used' = [used EXCEPT !.requests = @ + 1]
  /\ UNCHANGED <<active, wait, pending, worker, ticker, arrivals, field>>

(* formation() is asked before the checks of create, start and the         *)
(* formation commands: a request they refuse still freezes its answer.     *)
RefuseRequest ==
  /\ LoopFree
  /\ override = "UNSET"
  /\ override' = Formation
  /\ UNCHANGED <<row, active, wait, pending, queue, worker, ticker, arrivals, field,
                 granted, crossed, used>>

Commanded(m) == worker.m = m \/ \E i \in 1..Len(queue) : queue[i].m = m

Concerns(m) == crossed' = IF Commanded(m) THEN crossed \cup {m} ELSE crossed

(* Another plan for what a row records.                                    *)
Plans(r) == [state : {"DRAFT"}, wp : {r.wp}, lap : {r.lap},
             last : 0..LastWaypoint, laps : 0..LastLap]

CreateMission(m) ==
  /\ row[m].state = "NONE"
  /\ Formation = "READY"
  /\ AllFree
  /\ Request
  /\ \E plan \in Plans(BlankRow) : Store(m, plan)
  /\ override' = Formation
  /\ UNCHANGED <<queue, granted, crossed>>

EditMission(m) ==
  /\ row[m].state \in {"DRAFT", "READY"}
  /\ Request
  /\ \E plan \in Plans(row[m]) : Store(m, plan)
  /\ Concerns(m)
  /\ UNCHANGED <<override, queue, granted>>

Enqueue(op, m) ==
  /\ Request
  /\ Len(queue) < QueueLimit
  /\ queue' = Append(queue, [op |-> op, m |-> m])

Accepts(op) ==
  CASE op = "validate" -> {"DRAFT"}
    [] op = "pause"    -> {"RUNNING"}
    [] op = "cancel"   -> {"DRAFT", "READY", "RUNNING", "PAUSED"}

SubmitMission(m, op) ==
  /\ op \in MissionOp \ {"start"}
  /\ row[m].state \in Accepts(op)
  /\ Enqueue(op, m)
  /\ Concerns(m)
  /\ UNCHANGED <<row, override, granted>>

StartableOrFailed == {"READY", "PAUSED", "FAILED"}
Startable == {"READY", "PAUSED"}

(* start and resume: the handler claims the mission before it answers.     *)
SubmitStart(m) ==
  /\ row[m].state \in Startable
  /\ Formation \in {"READY", "PAUSED"}
  /\ Enqueue("start", m)
  /\ Concerns(m)
  /\ override' = Formation
  /\ Store(m, [row[m] EXCEPT !.state = "STARTING"])
  /\ granted' = granted \cup {m}

SubmitFormation(op) ==
  /\ \/ op = "f_pair" /\ Formation = "UNPAIRED" /\ AllFree
     \/ op = "f_unpair" /\ Formation \in {"READY", "PAUSED"}
     \/ op = "f_pause" /\ Formation = "FOLLOWING"
     \/ op = "f_rejoin" /\ Formation = "LOST" /\ AllFree
  /\ Enqueue(op, NoMission)
  /\ override' = Formation
  /\ UNCHANGED <<row, granted, crossed>>

-----------------------------------------------------------------------------
(* Adapter calls.  An accepted call took effect; a refused one was either  *)
(* rejected or performed while its answer was lost (offline, 2 s timeout). *)

Latch(r) ==
  /\ robot' = [robot EXCEPT ![r] = IF @ = "free" THEN "braking" ELSE @]
  /\ goal' = IF r = "master" THEN "none" ELSE goal

Performs(call) ==
  \/ /\ call.do = "stop"
     /\ Latch(call.to)
  \/ /\ call.do = "cancel_navigation"
     /\ goal' = "none"
     /\ UNCHANGED robot
  \/ /\ call.do = "navigate"
     /\ robot["master"] = "free"
     /\ goal # "underway"
     /\ goal' = "underway"
     /\ UNCHANGED robot
  \/ /\ call.do \in {"follow_ready", "follow_start", "rejoin"}
     /\ UNCHANGED <<robot, goal>>

(* What is left to call once the first call was answered: a refused start  *)
(* of the follower abandons the calls behind it.                           *)
RetryRefused(c, accepted) == IF accepted THEN Tail(c.todo) ELSE c.todo
Remaining(c, accepted) ==
  IF ~accepted /\ Head(c.todo).do \in {"follow_ready", "follow_start"}
    THEN <<>> ELSE Tail(c.todo)

Answered(c, accepted) ==
  [c EXCEPT !.todo = Remaining(c, accepted),
            !.ok = @ /\ accepted,
            !.at = IF Remaining(c, accepted) = <<>> THEN "run" ELSE "await"]

(* The adapter reports a navigate as SUCCEEDED when the robot accepts it.  *)
Answers(c, accepted) ==
  /\ c.at = "await"
  /\ LoopFree
  /\ Performs(Head(c.todo)) \/ (~accepted /\ UNCHANGED <<robot, goal>>)
  /\ arrivals' = IF accepted /\ Head(c.todo).do = "navigate"
                   THEN arrivals \cup {c.m} ELSE arrivals
  /\ UNCHANGED <<row, memory, queue, lost, granted, crossed, used>>

WorkerCall ==
  \E accepted \in BOOLEAN :
    Answers(worker, accepted) /\ worker' = Answered(worker, accepted) /\ UNCHANGED ticker

TickerCall ==
  \E accepted \in BOOLEAN :
    Answers(ticker, accepted) /\ ticker' = Answered(ticker, accepted) /\ UNCHANGED worker

-----------------------------------------------------------------------------
(* The command worker: execute_mission and execute_formation               *)

Take(op) ==
  /\ worker.at = "idle"
  /\ LoopFree
  /\ queue # <<>>
  /\ Head(queue).op = op
  /\ queue' = Tail(queue)
  /\ UNCHANGED <<active, wait, pending, ticker, arrivals, field, granted, crossed, used>>

Validate ==
  LET m == Head(queue).m IN
  /\ Take("validate")
  /\ Store(m, [row[m] EXCEPT !.state = "READY"])
  /\ UNCHANGED <<override, worker>>

Start ==
  LET m == Head(queue).m IN
  /\ Take("start")
  /\ worker' = Awaiting("start", m, [row[m] EXCEPT !.state = "STARTING"], Follow)
  /\ override' = Formation
  /\ UNCHANGED row

CancelUnstarted ==
  LET m == Head(queue).m IN
  /\ Take("cancel")
  /\ row[m].state \in {"DRAFT", "READY"}
  /\ Store(m, [row[m] EXCEPT !.state = "CANCELED"])
  /\ UNCHANGED <<override, worker>>

(* pause, and cancel of a mission that was started: the row keeps its old  *)
(* state until the three calls have been answered.                         *)
Halt(op, halting) ==
  LET m == Head(queue).m IN
  /\ Take(op)
  /\ op = "cancel" => row[m].state \notin {"DRAFT", "READY"}
  /\ worker' = Awaiting(op, m, [row[m] EXCEPT !.state = halting], CancelAndStop)
  /\ UNCHANGED <<row, override>>

Pair   == Take("f_pair") /\ override' = "READY" /\ UNCHANGED <<row, worker>>
Unpair == Take("f_unpair") /\ override' = "UNPAIRED" /\ UNCHANGED <<row, worker>>

PauseFormation ==
  /\ Take("f_pause")
  /\ override' = "PAUSING"
  /\ worker' = Awaiting("f_pause", NoMission, BlankRow, CancelAndStop)
  /\ UNCHANGED row

RejoinFormation ==
  /\ Take("f_rejoin")
  /\ override' = "REJOINING"
  /\ worker' = Awaiting("f_rejoin", NoMission, BlankRow, StopBoth)
  /\ UNCHANGED row

(* The worker runs on after its last call was answered.                    *)
WorkerResumes ==
  UNCHANGED <<wait, queue, ticker, arrivals, field, granted, crossed, used>>

(* There is a waypoint to go to: an edit may have left wp past the end.    *)
HasGoal(r) == r.wp <= r.last

StartRecordedEarly ==
  /\ Running(worker, "start") /\ worker.ok
  /\ Store(worker.m, [worker.copy EXCEPT !.state = "RUNNING"])
  /\ override' = "FOLLOWING"
  /\ active' = worker.m
  /\ worker' = IF ~HasGoal(worker.copy) THEN Idle
               ELSE Awaiting("drive", worker.m, [worker.copy EXCEPT !.state = "RUNNING"], Navigate)
  /\ WorkerResumes /\ UNCHANGED pending

FollowerStarted ==
  /\ Running(worker, "start") /\ worker.ok /\ HasGoal(worker.copy)
  /\ override' = "FOLLOWING"
  /\ active' = worker.m
  /\ worker' = Awaiting("drive", worker.m,
                        [worker.copy EXCEPT !.state = "RUNNING"], Navigate)
  /\ WorkerResumes /\ UNCHANGED <<row, pending>>

(* The waypoint is read when the mission is active already: IndexError     *)
(* fails the command and leaves the row as the claim wrote it.             *)
StartedPastTheEnd ==
  /\ Running(worker, "start") /\ worker.ok /\ ~HasGoal(worker.copy)
  /\ override' = "FOLLOWING"
  /\ active' = worker.m
  /\ worker' = Idle
  /\ WorkerResumes /\ UNCHANGED <<row, pending>>

FollowerRefused ==
  /\ Running(worker, "start") /\ ~worker.ok
  /\ worker' = Awaiting("unfollow", worker.m,
                        [worker.copy EXCEPT !.state = "PAUSED"], StopBoth)
  /\ WorkerResumes /\ UNCHANGED <<row, memory>>

Unfollowed ==
  /\ Running(worker, "unfollow")
  /\ Store(worker.m, worker.copy)
  /\ override' = "PAUSED"
  /\ worker' = Idle
  /\ WorkerResumes /\ UNCHANGED <<active, pending>>

Driving ==
  /\ Running(worker, "drive") /\ worker.ok
  /\ Store(worker.m, worker.copy)
  /\ worker' = Idle
  /\ WorkerResumes /\ UNCHANGED memory

(* _navigate was refused: stop both robots, then give the mission up.      *)
Failing(c) == Awaiting("fail", c.m, [c.copy EXCEPT !.state = "FAILED"], StopBoth)

DriveRefused ==
  /\ Running(worker, "drive") /\ ~worker.ok
  /\ worker' = Failing(worker)
  /\ WorkerResumes /\ UNCHANGED <<row, memory>>

DriveFailed ==
  /\ Running(worker, "fail")
  /\ Store(worker.m, worker.copy)
  /\ active' = NoMission
  /\ worker' = Idle
  /\ WorkerResumes /\ UNCHANGED <<override, pending>>

(* Unconfirmed stops keep the formation as it is.                          *)
Halted ==
  /\ Running(worker, "pause") \/ Running(worker, "cancel")
  /\ Store(worker.m, worker.copy)
  /\ override' = IF worker.ok THEN "PAUSED" ELSE override
  /\ worker' = Idle
  /\ WorkerResumes /\ UNCHANGED <<active, pending>>

FormationPaused ==
  /\ Running(worker, "f_pause")
  /\ IF worker.ok THEN pending' = "pause" /\ UNCHANGED override
                  ELSE override' = "ERROR" /\ UNCHANGED pending
  /\ worker' = Idle
  /\ WorkerResumes /\ UNCHANGED <<row, active>>

RejoinStopped ==
  /\ Running(worker, "f_rejoin")
  /\ IF worker.ok
       THEN /\ worker' = Awaiting("rejoining", NoMission, BlankRow, Rejoin)
            /\ UNCHANGED override
       ELSE worker' = Idle /\ override' = "ERROR"
  /\ WorkerResumes /\ UNCHANGED <<row, active, pending>>

Rejoined ==
  /\ Running(worker, "rejoining")
  /\ override' = IF worker.ok THEN "READY" ELSE "ERROR"
  /\ worker' = Idle
  /\ WorkerResumes /\ UNCHANGED <<row, active, pending>>

WorkerStep ==
  \/ WorkerCall
  \/ Validate \/ Start \/ CancelUnstarted
  \/ Halt("pause", "PAUSING") \/ Halt("cancel", "CANCELING")
  \/ Pair \/ Unpair \/ PauseFormation \/ RejoinFormation
  \/ FollowerStarted \/ StartedPastTheEnd \/ FollowerRefused \/ Unfollowed
  \/ Driving \/ DriveRefused \/ DriveFailed \/ Halted
  \/ FormationPaused \/ RejoinStopped \/ Rejoined

-----------------------------------------------------------------------------
(* The watchdog: runtime_tick, protective_pause and tick                   *)

TickerResumes == UNCHANGED <<queue, worker, field, granted, crossed>>

(* Drain the adapter events (master_navigation_succeeded), then look at    *)
(* the alerts.                                                             *)
RuntimeTick ==
  /\ ticker.at = "idle"
  /\ LoopFree
  /\ arrivals' = {}
  /\ wait' = IF active \in arrivals /\ wait = "none" THEN "running" ELSE wait
  /\ ticker' = AtAlerts
  /\ TickerResumes /\ UNCHANGED <<row, override, active, pending, used>>

(* An alert that invalidates safe motion became active: protective_pause.  *)
NothingToPause ==
  Formation \notin {"FOLLOWING", "LOST", "PAUSING"} /\ active = NoMission

MarkPausing ==
  IF active \in Mission /\ row[active].state \in {"RUNNING", "STARTING"}
    THEN Store(active, [row[active] EXCEPT !.state = "PAUSING"])
    ELSE UNCHANGED row

RaiseAlert(followLost) ==
  /\ Running(ticker, "alerts")
  /\ used.alerts < MaxAlerts
  /\ followLost => (lost \/ Formation = "LOST")
  /\ used' = [used EXCEPT !.alerts = @ + 1]
  /\ \/ /\ NothingToPause
        /\ override' = Formation
        /\ UNCHANGED <<row, pending, ticker>>
     \/ /\ ~NothingToPause /\ pending # "none"
        /\ override' = IF followLost THEN "LOST" ELSE Formation
        /\ pending' = IF followLost THEN "lost" ELSE pending
        /\ UNCHANGED <<row, ticker>>
     \/ /\ ~NothingToPause /\ pending = "none"
        /\ MarkPausing
        /\ override' = IF followLost THEN "LOST" ELSE "PAUSING"
        /\ ticker' = Awaiting(IF followLost THEN "protect_lost" ELSE "protect",
                              NoMission, BlankRow, StopBoth)
        /\ UNCHANGED pending
  /\ TickerResumes /\ UNCHANGED <<active, wait, arrivals>>

Protected ==
  /\ Running(ticker, "protect") \/ Running(ticker, "protect_lost")
  /\ pending' = IF ~ticker.ok THEN "none"
                ELSE IF ticker.op = "protect" THEN "pause" ELSE "lost"
  /\ override' = IF ticker.ok THEN override ELSE "ERROR"
  /\ ticker' = AtAlerts
  /\ TickerResumes /\ UNCHANGED <<row, active, wait, arrivals, used>>

(* No further alert: tick completes a formation pause both robots obeyed.  *)
SettleFormation ==
  /\ Running(ticker, "alerts")
  /\ ticker' = [ticker EXCEPT !.op = "mission"]
  /\ IF pending # "none" /\ AllStopped
       THEN /\ override' = IF pending = "lost" THEN "LOST" ELSE "PAUSED"
            /\ pending' = "none"
       ELSE UNCHANGED <<override, pending>>
  /\ TickerResumes /\ UNCHANGED <<row, active, wait, arrivals, used>>

(* The rest of tick looks at the active mission only.                      *)
Ticks(state) ==
  /\ Running(ticker, "mission")
  /\ active \in Mission
  /\ row[active].state \in state
  /\ TickerResumes /\ UNCHANGED <<arrivals, used>>

TimedOutAtRest == wait = "expired" /\ robot["slave"] = "stopped"
SlaveArrived == wait # "none" /\ robot["slave"] = "stopped"
TimedOut == wait = "expired"

LastGoal(r) == r.wp >= r.last /\ r.lap >= r.laps

NextGoal(r) ==
  IF r.wp < r.last THEN [r EXCEPT !.wp = @ + 1]
                   ELSE [r EXCEPT !.wp = 0, !.lap = @ + 1]

(* The slave rests within the tolerance, which no other guard depends on.  *)
Succeed ==
  /\ Ticks({"RUNNING"}) /\ SlaveArrived /\ LastGoal(row[active])
  /\ Store(active, [row[active] EXCEPT !.state = "SUCCEEDED"])
  /\ wait' = "inf" /\ active' = NoMission /\ override' = "READY"
  /\ ticker' = Idle
  /\ UNCHANGED pending

Advance ==
  /\ Ticks({"RUNNING"}) /\ SlaveArrived /\ ~LastGoal(row[active])
  /\ wait' = "inf"
  /\ ticker' = Awaiting("advance", active, NextGoal(row[active]), Navigate)
  /\ UNCHANGED <<row, override, active, pending>>

SettleTimeout ==
  /\ Ticks({"RUNNING"}) /\ TimedOut
  /\ Store(active, [row[active] EXCEPT !.state = "PAUSED"])
  /\ wait' = "none" /\ override' = "PAUSED"
  /\ ticker' = Idle
  /\ UNCHANGED <<active, pending>>

FollowerLost ==
  /\ Ticks({"RUNNING", "STARTING"})
  /\ ~(row[active].state = "RUNNING" /\ TimedOut)
  /\ lost /\ pending = "none"
  /\ override' = "LOST"
  /\ ticker' = Awaiting("lost", active, [row[active] EXCEPT !.state = "PAUSING"], StopBoth)
  /\ UNCHANGED <<row, active, wait, pending>>

OnlyPausing == {"PAUSING"}
Halting == {"PAUSING", "CANCELING"}

FinishHaltKeepsActive ==
  /\ Ticks(Halting) /\ AllStopped
  /\ LET canceled == row[active].state = "CANCELING" IN
     /\ Store(active, [row[active] EXCEPT !.state = IF canceled THEN "CANCELED" ELSE "PAUSED"])
     /\ override' = IF Formation = "LOST" THEN "LOST"
                    ELSE IF canceled THEN "READY" ELSE "PAUSED"
  /\ ticker' = Idle
  /\ UNCHANGED <<active, wait, pending>>

FinishHalt ==
  /\ Ticks(Halting) /\ AllStopped
  /\ LET canceled == row[active].state = "CANCELING" IN
     /\ Store(active, [row[active] EXCEPT !.state = IF canceled THEN "CANCELED" ELSE "PAUSED"])
     /\ override' = IF Formation = "LOST" THEN "LOST"
                    ELSE IF canceled THEN "READY" ELSE "PAUSED"
     /\ active' = IF canceled THEN NoMission ELSE active
  /\ ticker' = Idle
  /\ UNCHANGED <<wait, pending>>

NothingToTick ==
  /\ Running(ticker, "mission")
  /\ active \in Mission =>
       /\ ~(row[active].state = "RUNNING" /\ TimedOut)
       /\ ~(row[active].state \in {"RUNNING", "STARTING"} /\ lost /\ pending = "none")
       /\ ~(row[active].state \in Halting /\ AllStopped)
  /\ ticker' = Idle
  /\ TickerResumes /\ UNCHANGED <<row, memory, arrivals, used>>

Advanced ==
  /\ Running(ticker, "advance") /\ ticker.ok
  /\ Store(ticker.m, ticker.copy)
  /\ wait' = "none"
  /\ ticker' = Idle
  /\ TickerResumes /\ UNCHANGED <<override, active, pending, arrivals, used>>

AdvanceRefused ==
  /\ Running(ticker, "advance") /\ ~ticker.ok
  /\ ticker' = Failing(ticker)
  /\ TickerResumes /\ UNCHANGED <<row, memory, arrivals, used>>

AdvanceFailed ==
  /\ Running(ticker, "fail")
  /\ Store(ticker.m, ticker.copy)
  /\ active' = NoMission
  /\ ticker' = Idle
  /\ TickerResumes /\ UNCHANGED <<override, wait, pending, arrivals, used>>

(* The row written is that of active_id, whatever it has become.           *)
LostStopped ==
  /\ Running(ticker, "lost")
  /\ IF active \in Mission THEN Store(active, ticker.copy) ELSE UNCHANGED row
  /\ ticker' = Idle
  /\ TickerResumes /\ UNCHANGED <<memory, arrivals, used>>

TickerStep ==
  \/ TickerCall \/ RuntimeTick \/ Protected \/ SettleFormation
  \/ Succeed \/ Advance \/ SettleTimeout \/ FollowerLost \/ FinishHalt \/ NothingToTick
  \/ Advanced \/ AdvanceRefused \/ AdvanceFailed \/ LostStopped

-----------------------------------------------------------------------------
(* The robots and the clock                                                *)

Outside == LoopFree /\ UNCHANGED <<row, override, active, pending, queue, worker,
                                   ticker, arrivals, granted, crossed, used>>

(* A latched robot comes to rest and the server observes it.               *)
Rests(r) ==
  /\ robot[r] = "braking"
  /\ robot' = [robot EXCEPT ![r] = "stopped"]
  /\ Outside /\ UNCHANGED <<wait, goal, lost>>

(* Its telemetry goes stale, or a protective stop marked it disconnected:  *)
(* the snapshot no longer shows a fresh pose.                              *)
Unobserved(r) ==
  /\ robot[r] = "stopped"
  /\ robot' = [robot EXCEPT ![r] = "braking"]
  /\ Outside /\ UNCHANGED <<wait, goal, lost>>

(* A stop this service did not ask for: emergency stop, protective stop of *)
(* the control path, the robot's own latch.                                *)
StoppedElsewhere(r) ==
  /\ robot[r] = "free"
  /\ Latch(r)
  /\ Outside /\ UNCHANGED <<wait, lost>>

(* reset_stop: the worker executes it, so no other command is under way.   *)
Released(r) ==
  /\ robot[r] # "free" /\ worker.at = "idle"
  /\ robot' = [robot EXCEPT ![r] = "free"]
  /\ goal' = IF r = "master" THEN "none" ELSE goal
  /\ Outside /\ UNCHANGED <<wait, lost>>

GoalEnds ==
  /\ goal = "underway"
  /\ goal' \in {"reached", "none"}
  /\ Outside /\ UNCHANGED <<wait, robot, lost>>

FollowerChanges ==
  /\ lost' = ~lost
  /\ Outside /\ UNCHANGED <<wait, robot, goal>>

DeadlinePasses ==
  /\ wait = "running"
  /\ wait' = "expired"
  /\ Outside /\ UNCHANGED field

-----------------------------------------------------------------------------
(* A crash and restart of the server, at any moment: rows survive, robots  *)
(* keep doing what they do, everything else is gone.                       *)

RecoveredMoving(r) ==
  IF r.state \in InFlight \ {"STARTING"} THEN [r EXCEPT !.state = "PAUSED"] ELSE r
Recovered(r) == IF r.state \in InFlight THEN [r EXCEPT !.state = "PAUSED"] ELSE r

RestartKeepsQueue ==
  /\ used.restarts < MaxRestarts
  /\ used' = [used EXCEPT !.restarts = @ + 1]
  /\ row' = [m \in Mission |-> Recovered(row[m])]
  /\ override' = "UNSET" /\ active' = NoMission /\ wait' = "none" /\ pending' = "none"
  /\ worker' = Idle /\ ticker' = Idle
  /\ arrivals' = {} /\ granted' = {} /\ crossed' = {}
  /\ UNCHANGED <<field, queue>>

Restart ==
  /\ used.restarts < MaxRestarts
  /\ used' = [used EXCEPT !.restarts = @ + 1]
  /\ row' = [m \in Mission |-> Recovered(row[m])]
  /\ override' = "UNSET" /\ active' = NoMission /\ wait' = "none" /\ pending' = "none"
  /\ queue' = <<>> /\ worker' = Idle /\ ticker' = Idle
  /\ arrivals' = {} /\ granted' = {} /\ crossed' = {}
  /\ UNCHANGED field

-----------------------------------------------------------------------------
(* What a database of earlier boots holds: a validation that came late     *)
(* leaves progress to a mission that may be edited, and an edit of such a  *)
(* mission progress past the end of its plan.                              *)
Persisted == {r \in Row : r.state \in Boot /\ (r.state = "NONE" => r = BlankRow)}

Init ==
  /\ row \in [Mission -> Persisted]
  /\ override = "UNSET" /\ active = NoMission /\ wait = "none" /\ pending = "none"
  /\ queue = <<>> /\ worker = Idle /\ ticker = Idle
  /\ arrivals = {} /\ granted = {} /\ crossed = {}
  /\ robot = [r \in Robot |-> "free"] /\ goal = "none" /\ lost = FALSE
  /\ used = [requests |-> 0, alerts |-> 0, restarts |-> 0]

Operator ==
  \/ RefuseRequest
  \/ \E m \in Mission :
       \/ CreateMission(m) \/ EditMission(m) \/ SubmitStart(m)
       \/ \E op \in MissionOp : SubmitMission(m, op)
  \/ \E op \in FormationOp : SubmitFormation(op)

World ==
  \/ \E r \in Robot : Rests(r) \/ Unobserved(r) \/ StoppedElsewhere(r) \/ Released(r)
  \/ GoalEnds \/ FollowerChanges \/ DeadlinePasses

Next ==
  \/ Operator \/ WorkerStep \/ TickerStep
  \/ \E followLost \in BOOLEAN : RaiseAlert(followLost)
  \/ World \/ Restart

Spec == Init /\ [][Next]_vars

(* Every adapter call is answered within its timeout, and the loop runs    *)
(* ready callbacks first in, first out: a coroutine that another one holds *)
(* off the loop again and again still gets its turn, hence strong fairness.*)
(* Nothing obliges an operator, an alert, a robot to come to rest or to be *)
(* seen there, the follower, the clock or a goal.                          *)
Fairness == SF_vars(WorkerStep) /\ SF_vars(TickerStep)

FairSpec == Spec /\ Fairness

-----------------------------------------------------------------------------
(* Safety                                                                  *)

(* No motion without an operator: whatever was queued, running or waiting  *)
(* when the server died, it drives a mission again only after somebody     *)
(* started that mission since the boot (no automatic resume).              *)
MotionNeedsOperator ==
  /\ active \in Mission => active \in granted
  /\ \A c \in {worker, ticker} :
       c.at = "await" /\ Head(c.todo).do = "navigate" => c.m \in granted

(* An acknowledged pause holds: when a pause or cancel command ends with   *)
(* three acknowledged calls, both robots are latched and the master has no *)
(* goal, although the tick may have sent the next goal between the calls.  *)
AcknowledgedPauseHolds ==
  worker.at = "run" /\ worker.op \in {"pause", "cancel", "f_pause"} /\ worker.ok
    => (\A r \in Robot : robot[r] # "free") /\ goal # "underway"

(* The mission the server drives is never one the database records as over *)
(* or unstarted, unless a request crossed an unfinished command of that    *)
(* mission; what is asked of other missions meanwhile does not matter.     *)
ActiveIsLive ==
  active \in Mission \ crossed => row[active].state \in InFlight \cup {"PAUSED"}

(* With the same exception, the start command and the tick never send      *)
(* goals of one mission at the same time.                                  *)
OneDriver ==
  worker.op = "drive" /\ ticker.op = "advance" /\ worker.m = ticker.m
    => worker.m \in crossed

(* A claimed start is never orphaned: a mission recorded as STARTING has   *)
(* its start command queued or executing, in every interleaving with edits,*)
(* repeated validations, protective pauses and restarts, unless its plan   *)
(* was cut down to less than it had done.                                  *)
StartingIsServed ==
  \A m \in Mission : row[m].state = "STARTING" /\ HasGoal(row[m]) =>
    \/ \E i \in 1..Len(queue) : queue[i] = [op |-> "start", m |-> m]
    \/ worker.m = m /\ worker.op \in {"start", "unfollow", "drive", "fail"}

(* A mission recorded as RUNNING has a waypoint to go to, however its plan *)
(* was edited while older copies of its row were under way: the tick reads *)
(* that waypoint, and an IndexError there would end the watchdog.          *)
RunningHasGoal ==
  \A m \in Mission : row[m].state = "RUNNING" => HasGoal(row[m])

(* What is over stays so: once nothing queued or under way may write the   *)
(* row of a mission that succeeded, failed or was canceled, nothing ever   *)
(* does again, whatever is asked of any mission, and across restarts.      *)
Ended(m) ==
  /\ row[m].state \in Final
  /\ ~Commanded(m)
  /\ ticker.m # m
  /\ ~(ticker.op = "lost" /\ active = m)

EndedForGood ==
  [][\A m \in Mission : Ended(m) => Ended(m)' /\ row'[m] = row[m]]_vars

(* The life of a mission that the specification documents promise.         *)
StageOf == [state \in MissionState |->
  CASE state = "NONE"                   -> "absent"
    [] state \in {"DRAFT", "READY"}      -> "planned"
    [] state \in {"STARTING", "RUNNING"} -> "moving"
    [] state = "PAUSING"                -> "pausing"
    [] state = "PAUSED"                 -> "paused"
    [] state = "CANCELING"              -> "canceling"
    [] OTHER                            -> "over"]

RecordedStage == [m \in Mission |-> StageOf[row[m].state]]

Lifecycle == INSTANCE MissionLifecycle WITH stage <- RecordedStage, ordered <- granted

(* The rows, whatever the coroutines write over each other, keep it.       *)
LifecycleKept == Lifecycle!Spec

(* Liveness                                                                *)

(* Every accepted command is eventually taken, whatever the robots answer. *)
CommandsFinish == (queue # <<>>) ~> (queue = <<>>)

(* A halting mission that the server still tracks comes to a rest state    *)
(* unless a robot is not held at rest.                                     *)
HaltCompletes ==
  \A m \in Mission :
    (row[m].state \in {"PAUSING", "CANCELING"} /\ active = m)
      ~> (row[m].state \notin {"PAUSING", "CANCELING"} \/ active # m \/ ~AllStopped)

(* A mission whose slave did not settle in time does not stay RUNNING.     *)
TimeoutFires ==
  \A m \in Mission :
    (active = m /\ row[m].state = "RUNNING" /\ wait = "expired")
      ~> ~(active = m /\ row[m].state = "RUNNING" /\ wait = "expired")
=============================================================================
