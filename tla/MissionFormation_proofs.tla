---------------------- MODULE MissionFormation_proofs ----------------------
(***************************************************************************)
(* For any number of missions, any capacity of the queue and any bounds:   *)
(* type correctness, MotionNeedsOperator, AcknowledgedPauseHolds,          *)
(* StartingIsServed, RunningHasGoal, ActiveIsLive, OneDriver and           *)
(* EndedForGood.                                                           *)
(* MotionNeedsOperator is not inductive: who may drive is decided when a   *)
(* command is accepted, passes through the queue, the worker's private     *)
(* copy and active_id, and reaches the robot from either coroutine.  The   *)
(* invariant follows that path.                                            *)
(***************************************************************************)
EXTENDS MissionFormation, TLAPS

(* A suspended coroutine has a call to make; only the coroutine that is    *)
(* driving calls navigate, and what it drives was started by an operator.  *)
Coherent(c, driver, g) ==
  /\ c.at = "await" => c.todo # <<>>
  /\ \A i \in 1..Len(c.todo) : c.todo[i].do = "navigate" => c.op = driver
  /\ c.op = driver => c.m \in g

QueueGranted ==
  \A i \in 1..Len(queue) :
    /\ queue[i].op \in MissionOp => queue[i].m \in Mission
    /\ queue[i].op = "start" => queue[i].m \in granted

Inv ==
  /\ TypeOK
  /\ QueueGranted
  /\ Coherent(worker, "drive", granted)
  /\ Coherent(ticker, "advance", granted)
  /\ worker.op = "start" => worker.m \in granted
  /\ active \in Mission => active \in granted

-----------------------------------------------------------------------------
(* The calls of the services, and the rows they write                      *)

StepName == {"none", "start", "unfollow", "drive", "fail", "pause", "cancel",
             "f_pause", "f_rejoin", "rejoining", "alerts", "protect",
             "protect_lost", "mission", "advance", "lost"}

(* The call lists are what they seem; only Navigate navigates.             *)
LEMMA CallLists ==
  /\ \A calls \in {StopBoth, CancelAndStop, Follow, Rejoin} :
       /\ calls \in Seq(Call) /\ calls # <<>>
       /\ \A i \in 1..Len(calls) : calls[i].do # "navigate"
  /\ Navigate \in Seq(Call) /\ Navigate # <<>>
  BY DEF StopBoth, CancelAndStop, Follow, Rejoin, Navigate, Stop, Call, Robot

(* A new list of calls makes a coherent coroutine.                         *)
LEMMA AwaitingOK ==
  ASSUME NEW op \in StepName, NEW m \in Mission \cup {NoMission}, NEW copy \in Row,
         NEW calls \in Seq(Call), calls # <<>>, NEW driver, NEW g,
         op # driver => \A i \in 1..Len(calls) : calls[i].do # "navigate",
         op = driver => m \in g
  PROVE  /\ Awaiting(op, m, copy, calls) \in Coroutine
         /\ Awaiting(op, m, copy, calls).op = op
         /\ Awaiting(op, m, copy, calls).m = m
         /\ Coherent(Awaiting(op, m, copy, calls), driver, g)
  BY DEF Awaiting, Coroutine, StepName, Coherent

(* A list of calls that only halts the robots, or rejoins them, makes a    *)
(* coherent coroutine of either kind.                                      *)
LEMMA HaltingOK ==
  ASSUME NEW op \in StepName \ {"start", "drive", "advance"},
         NEW m \in Mission \cup {NoMission}, NEW copy \in Row,
         NEW calls \in {StopBoth, CancelAndStop, Rejoin},
         NEW driver \in {"drive", "advance"}, NEW g
  PROVE  /\ Awaiting(op, m, copy, calls) \in Coroutine
         /\ Awaiting(op, m, copy, calls).op = op
         /\ Coherent(Awaiting(op, m, copy, calls), driver, g)
<1>1. calls \in Seq(Call) /\ calls # <<>> /\ \A i \in 1..Len(calls) : calls[i].do # "navigate"
  BY CallLists
<1>2. op # driver /\ op \in StepName
  OBVIOUS
<1> QED BY <1>1, <1>2 DEF Awaiting, Coroutine, StepName, Coherent

(* A blank row is a row.                                                   *)
LEMMA BlankOK == BlankRow \in Row
<1>1. 0 \in 0..LastWaypoint /\ 0 \in 0..LastLap
  BY ConstantsOK
<1> QED BY <1>1 DEF BlankRow, Row, MissionState, Resting

(* So is a row with another state.                                         *)
LEMMA StateOK ==
  ASSUME NEW r \in Row, NEW s \in MissionState
  PROVE  [r EXCEPT !.state = s] \in Row
  BY DEF Row

(* A coroutine that is idle or at the alerts is coherent.                  *)
LEMMA IdleOK ==
  ASSUME NEW driver \in {"drive", "advance"}, NEW g
  PROVE  /\ Idle \in Coroutine /\ Idle.op = "none" /\ Coherent(Idle, driver, g)
         /\ AtAlerts \in Coroutine /\ Coherent(AtAlerts, driver, g)
<1>1. <<>> \in Seq(Call) /\ Len(<<>>) = 0
  OBVIOUS
<1>2. Idle \in Coroutine /\ AtAlerts \in Coroutine
  BY <1>1, BlankOK DEF Idle, AtAlerts, Coroutine
<1>3. Coherent(Idle, driver, g)
  BY <1>1 DEF Idle, Coherent
<1>4. Coherent(AtAlerts, driver, g)
  BY <1>1 DEF AtAlerts, Coherent
<1> QED BY <1>2, <1>3, <1>4 DEF Idle

(* An answer leaves a coherent coroutine of the same command.              *)
LEMMA AnsweredOK ==
  ASSUME NEW c \in Coroutine, NEW accepted \in BOOLEAN, NEW driver, NEW g,
         c.at = "await", Coherent(c, driver, g)
  PROVE  /\ Answered(c, accepted) \in Coroutine
         /\ Answered(c, accepted).op = c.op /\ Answered(c, accepted).m = c.m
         /\ Coherent(Answered(c, accepted), driver, g)
<1>1. /\ Remaining(c, accepted) \in Seq(Call)
      /\ \A i \in 1..Len(Remaining(c, accepted)) :
           Remaining(c, accepted)[i].do = "navigate" => c.op = driver
  BY DEF Remaining, Coherent, Coroutine
<1>2. /\ Answered(c, accepted).todo = Remaining(c, accepted)
      /\ Answered(c, accepted).op = c.op /\ Answered(c, accepted).m = c.m
      /\ Answered(c, accepted).copy = c.copy
      /\ Answered(c, accepted).ok = (c.ok /\ accepted)
      /\ Answered(c, accepted).at = IF Remaining(c, accepted) = <<>> THEN "run" ELSE "await"
  BY DEF Answered, Coroutine
<1>3. Answered(c, accepted) \in Coroutine
  BY <1>1 DEF Answered, Coroutine
<1>4. Coherent(Answered(c, accepted), driver, g)
  <2> DEFINE a == Answered(c, accepted)
  <2>1. a.at = "await" => a.todo # <<>>
    BY <1>2
  <2>2. \A i \in 1..Len(a.todo) : a.todo[i].do = "navigate" => a.op = driver
    BY <1>1, <1>2
  <2>3. a.op = driver => a.m \in g
    BY <1>2 DEF Coherent
  <2> HIDE DEF a
  <2>4. Coherent(a, driver, g)
    BY <2>1, <2>2, <2>3 DEF Coherent
  <2> QED BY <2>4 DEF a
<1> QED BY <1>2, <1>3, <1>4

(* So is a row with another plan.                                          *)
LEMMA PlansOK ==
  ASSUME NEW r \in Row, NEW plan \in Plans(r)
  PROVE  plan \in Row /\ plan.state = "DRAFT"
<1>1. "DRAFT" \in MissionState
  BY DEF MissionState, Resting
<1>2. r.wp \in 0..LastWaypoint /\ r.lap \in 0..LastLap
  BY DEF Row
<1> QED BY <1>1, <1>2 DEF Row, Plans

(* The goal after one that was not the last is within the plan.            *)
LEMMA NextGoalOK ==
  ASSUME NEW r \in Row, ~LastGoal(r)
  PROVE  /\ NextGoal(r) \in Row /\ HasGoal(NextGoal(r))
         /\ NextGoal(r).state = r.state
<1>1. LastWaypoint \in Nat /\ LastLap \in Nat
  BY ConstantsOK
<1>2. /\ r.wp \in 0..LastWaypoint /\ r.lap \in 0..LastLap
      /\ r.last \in 0..LastWaypoint /\ r.laps \in 0..LastLap
  BY DEF Row
<1>3. CASE r.wp < r.last
  <2>1. r.wp + 1 \in 0..LastWaypoint /\ r.wp + 1 <= r.last
    BY <1>1, <1>2, <1>3
  <2>2. NextGoal(r) = [r EXCEPT !.wp = @ + 1]
    BY <1>3 DEF NextGoal
  <2> QED BY <2>1, <2>2 DEF Row, HasGoal
<1>4. CASE ~(r.wp < r.last)
  <2>1. 0 \in 0..LastWaypoint /\ r.lap + 1 \in 0..LastLap /\ 0 <= r.last
    BY <1>1, <1>2, <1>4 DEF LastGoal
  <2>2. NextGoal(r) = [r EXCEPT !.wp = 0, !.lap = @ + 1]
    BY <1>4 DEF NextGoal
  <2> QED BY <2>1, <2>2 DEF Row, HasGoal
<1> QED BY <1>3, <1>4

(* The formation is always in some mode.                                   *)
LEMMA FormationOK == TypeOK => Formation \in Mode
  BY DEF TypeOK, Formation, SourceMode, Mode

-----------------------------------------------------------------------------
(* What a step of one actor has to show; the rest of the invariant is      *)
(* about state the step leaves alone.                                      *)

(* Taking the head of the queue leaves a queue of granted starts.          *)
LEMMA TailOK ==
  ASSUME TypeOK, QueueGranted, queue # <<>>
  PROVE  /\ Tail(queue) \in Seq(Command)
         /\ \A i \in 1..Len(Tail(queue)) :
              /\ Tail(queue)[i].op \in MissionOp => Tail(queue)[i].m \in Mission
              /\ Tail(queue)[i].op = "start" => Tail(queue)[i].m \in granted
         /\ Head(queue).op \in MissionOp => Head(queue).m \in Mission
         /\ Head(queue).op = "start" => Head(queue).m \in granted
<1>1. queue \in Seq(Command)
  BY DEF TypeOK
<1>2. Tail(queue) \in Seq(Command) /\ Len(Tail(queue)) = Len(queue) - 1
  BY <1>1
<1>3. \A i \in 1..Len(Tail(queue)) : i + 1 \in 1..Len(queue) /\ Tail(queue)[i] = queue[i + 1]
  BY <1>1, <1>2
<1>4. 1 \in 1..Len(queue) /\ Head(queue) = queue[1]
  BY <1>1
<1> QED BY <1>2, <1>3, <1>4 DEF QueueGranted

(* A step of the worker.                                                   *)
LEMMA WorkerInv ==
  ASSUME Inv,
         UNCHANGED <<wait, ticker, granted, crossed, used>>,
         queue' = queue \/ (queue # <<>> /\ queue' = Tail(queue)),
         row' \in [Mission -> Row],
         override' \in Mode \cup {"UNSET"},
         pending' \in {"none", "pause", "lost"},
         active' \in Mission \cup {NoMission},
         active' \in Mission => active' \in granted,
         arrivals' \subseteq Mission \cup {NoMission},
         UNCHANGED field,
         worker' \in Coroutine,
         Coherent(worker', "drive", granted),
         worker'.op = "start" => worker'.m \in granted
  PROVE  Inv'
<1>1. queue' \in Seq(Command) /\ QueueGranted'
  BY TailOK DEF Inv, TypeOK, QueueGranted
<1>2. TypeOK'
  BY <1>1 DEF Inv, TypeOK, field
<1>3. Coherent(worker, "drive", granted)' /\ Coherent(ticker, "advance", granted)'
  BY DEF Inv, Coherent
<1> QED BY <1>1, <1>2, <1>3 DEF Inv

(* A step of the tick.                                                     *)
LEMMA TickerInv ==
  ASSUME Inv,
         UNCHANGED <<queue, worker, field, granted, crossed>>,
         row' \in [Mission -> Row],
         override' \in Mode \cup {"UNSET"},
         active' \in {active, NoMission},
         wait' \in {"none", "running", "expired", "inf"},
         pending' \in {"none", "pause", "lost"},
         arrivals' \subseteq Mission \cup {NoMission},
         used' \in [requests : Nat, alerts : Nat, restarts : Nat],
         ticker' \in Coroutine,
         Coherent(ticker', "advance", granted)
  PROVE  Inv'
<1>1. TypeOK'
  BY DEF Inv, TypeOK, field
<1>2. QueueGranted' /\ Coherent(worker, "drive", granted)' /\ Coherent(ticker, "advance", granted)'
  BY DEF Inv, QueueGranted, Coherent
<1>3. active' \in Mission => active' \in granted'
  BY ConstantsOK DEF Inv
<1> QED BY <1>1, <1>2, <1>3 DEF Inv

(* A request: it may append one command and grant one mission.             *)
LEMMA RequestInv ==
  ASSUME Inv, Request,
         row' \in [Mission -> Row],
         override' \in Mode \cup {"UNSET"},
         granted' \subseteq Mission, granted \subseteq granted',
         crossed' \subseteq Mission,
         \/ UNCHANGED queue
         \/ \E c \in Command :
              /\ queue' = Append(queue, c)
              /\ c.op \in MissionOp => c.m \in Mission
              /\ c.op = "start" => c.m \in granted'
  PROVE  Inv'
<1>1. used' \in [requests : Nat, alerts : Nat, restarts : Nat]
  BY DEF Request, Inv, TypeOK
<1>2. queue' \in Seq(Command) /\ QueueGranted'
  <2>1. CASE UNCHANGED queue
    BY <2>1 DEF Inv, TypeOK, QueueGranted
  <2>2. ASSUME NEW c \in Command, queue' = Append(queue, c),
               c.op \in MissionOp => c.m \in Mission,
               c.op = "start" => c.m \in granted'
        PROVE  queue' \in Seq(Command) /\ QueueGranted'
    <3>1. queue \in Seq(Command)
      BY DEF Inv, TypeOK
    <3>2. queue' \in Seq(Command) /\ Len(queue') = Len(queue) + 1
      BY <2>2, <3>1
    <3>3. \A i \in 1..Len(queue') :
            \/ i \in 1..Len(queue) /\ queue'[i] = queue[i]
            \/ queue'[i] = c
      BY <2>2, <3>1, <3>2
    <3> QED BY <2>2, <3>2, <3>3 DEF Inv, QueueGranted
  <2> QED BY <2>1, <2>2
<1>3. TypeOK'
  BY <1>1, <1>2 DEF Inv, TypeOK, Request, field
<1>4. Coherent(worker, "drive", granted)' /\ Coherent(ticker, "advance", granted)'
  BY DEF Inv, Coherent, Request
<1> QED BY <1>2, <1>3, <1>4 DEF Inv, Request

-----------------------------------------------------------------------------
(* The steps of the worker                                                 *)

(* A row written by a coroutine is a row, whichever mission it names.      *)
LEMMA StoreOK ==
  ASSUME TypeOK, NEW m, NEW data \in Row, Store(m, data)
  PROVE  row' \in [Mission -> Row]
  BY DEF Store, TypeOK

(* What the worker finds when it takes a command.                          *)
LEMMA TakeOK ==
  ASSUME Inv, NEW op, Take(op)
  PROVE  /\ queue # <<>> /\ queue' = Tail(queue)
         /\ op \in MissionOp => Head(queue).m \in Mission /\ row[Head(queue).m] \in Row
         /\ op = "start" => Head(queue).m \in granted
         /\ UNCHANGED <<active, wait, pending, ticker, arrivals, field, granted, crossed, used>>
<1>1. /\ Head(queue).op \in MissionOp => Head(queue).m \in Mission
      /\ Head(queue).op = "start" => Head(queue).m \in granted
  BY TailOK DEF Inv, Take
<1> QED BY <1>1 DEF Take, Inv, TypeOK

(* Commands that the worker completes without a call.                      *)
LEMMA ImmediateInv ==
  ASSUME Inv, Validate \/ CancelUnstarted \/ Pair \/ Unpair
  PROVE  Inv'
<1>1. /\ queue # <<>> /\ queue' = Tail(queue)
      /\ UNCHANGED <<active, wait, pending, ticker, arrivals, field, granted, crossed, used, worker>>
  BY TakeOK DEF Validate, CancelUnstarted, Pair, Unpair
<1>2. override' \in Mode \cup {"UNSET"}
  BY DEF Validate, CancelUnstarted, Pair, Unpair, Mode, Inv, TypeOK
<1>3. row' \in [Mission -> Row]
  <2>1. CASE Pair \/ Unpair
    BY <2>1 DEF Pair, Unpair, Inv, TypeOK
  <2>2. CASE Validate
    <3>1. row[Head(queue).m] \in Row
      BY <2>2, TakeOK DEF Validate, MissionOp
    <3>2. [row[Head(queue).m] EXCEPT !.state = "READY"] \in Row
      BY <3>1, StateOK DEF MissionState, Resting
    <3> QED BY <2>2, <3>2, StoreOK DEF Validate, Inv
  <2>3. CASE CancelUnstarted
    <3>1. row[Head(queue).m] \in Row
      BY <2>3, TakeOK DEF CancelUnstarted, MissionOp
    <3>2. [row[Head(queue).m] EXCEPT !.state = "CANCELED"] \in Row
      BY <3>1, StateOK DEF MissionState, Resting, Final
    <3> QED BY <2>3, <3>2, StoreOK DEF CancelUnstarted, Inv
  <2> QED BY <2>1, <2>2, <2>3
<1>4. /\ active' \in Mission \cup {NoMission} /\ (active' \in Mission => active' \in granted)
      /\ pending' \in {"none", "pause", "lost"}
      /\ arrivals' \subseteq Mission \cup {NoMission}
      /\ worker' \in Coroutine /\ Coherent(worker', "drive", granted)
      /\ worker'.op = "start" => worker'.m \in granted
  BY <1>1 DEF Inv, TypeOK
<1> QED BY <1>1, <1>2, <1>3, <1>4, WorkerInv

(* Commands that the worker begins with a list of calls.                   *)
LEMMA BeginInv ==
  ASSUME Inv,
         \/ Start \/ Halt("pause", "PAUSING") \/ Halt("cancel", "CANCELING")
         \/ PauseFormation \/ RejoinFormation
  PROVE  Inv'
<1>1. /\ queue # <<>> /\ queue' = Tail(queue)
      /\ UNCHANGED <<active, wait, pending, ticker, arrivals, field, granted, crossed, used, row>>
  BY TakeOK DEF Start, Halt, PauseFormation, RejoinFormation
<1>2. override' \in Mode \cup {"UNSET"}
  BY FormationOK DEF Start, Halt, PauseFormation, RejoinFormation, Mode, Inv, TypeOK
<1>3. /\ worker' \in Coroutine /\ Coherent(worker', "drive", granted)
      /\ worker'.op = "start" => worker'.m \in granted
  <2> DEFINE m == Head(queue).m
             copy(s) == [row[m] EXCEPT !.state = s]
  <2>1. CASE Start
    <3>1. m \in Mission /\ row[m] \in Row /\ m \in granted
      BY <2>1, TakeOK DEF Start, MissionOp
    <3>2. copy("STARTING") \in Row
      BY <3>1, StateOK DEF MissionState, InFlight
    <3>3. worker' = Awaiting("start", m, copy("STARTING"), Follow)
      BY <2>1 DEF Start
    <3>4. Follow \in Seq(Call) /\ Follow # <<>> /\ \A i \in 1..Len(Follow) : Follow[i].do # "navigate"
      BY CallLists
    <3>5. "start" \in StepName /\ "start" # "drive"
      BY DEF StepName
    <3> HIDE DEF m, copy
    <3> QED BY <3>1, <3>2, <3>3, <3>4, <3>5, AwaitingOK
  <2>2. CASE Halt("pause", "PAUSING")
    <3>1. m \in Mission /\ row[m] \in Row
      BY <2>2, TakeOK DEF Halt, MissionOp
    <3>2. copy("PAUSING") \in Row
      BY <3>1, StateOK DEF MissionState, InFlight
    <3>3. worker' = Awaiting("pause", m, copy("PAUSING"), CancelAndStop)
      BY <2>2 DEF Halt
    <3>4. "pause" \in StepName \ {"start", "drive", "advance"}
      BY DEF StepName
    <3> HIDE DEF m, copy
    <3> QED BY <3>1, <3>2, <3>3, <3>4, HaltingOK
  <2>3. CASE Halt("cancel", "CANCELING")
    <3>1. m \in Mission /\ row[m] \in Row
      BY <2>3, TakeOK DEF Halt, MissionOp
    <3>2. copy("CANCELING") \in Row
      BY <3>1, StateOK DEF MissionState, InFlight
    <3>3. worker' = Awaiting("cancel", m, copy("CANCELING"), CancelAndStop)
      BY <2>3 DEF Halt
    <3>4. "cancel" \in StepName \ {"start", "drive", "advance"}
      BY DEF StepName
    <3> HIDE DEF m, copy
    <3> QED BY <3>1, <3>2, <3>3, <3>4, HaltingOK
  <2>4. {"f_pause", "f_rejoin"} \subseteq StepName \ {"start", "drive", "advance"}
    BY DEF StepName
  <2>5. CASE PauseFormation
    BY <2>4, <2>5, HaltingOK, BlankOK DEF PauseFormation
  <2>6. CASE RejoinFormation
    BY <2>4, <2>6, HaltingOK, BlankOK DEF RejoinFormation
  <2> QED BY <2>1, <2>2, <2>3, <2>5, <2>6
<1>4. /\ active' \in Mission \cup {NoMission} /\ (active' \in Mission => active' \in granted)
      /\ pending' \in {"none", "pause", "lost"} /\ row' \in [Mission -> Row]
      /\ arrivals' \subseteq Mission \cup {NoMission}
  BY <1>1 DEF Inv, TypeOK
<1> QED BY <1>1, <1>2, <1>3, <1>4, WorkerInv

(* What the private copy of a coroutine is.                                *)
LEMMA CopyOK ==
  ASSUME NEW c \in Coroutine, NEW s \in MissionState
  PROVE  /\ c.m \in Mission \cup {NoMission} /\ c.copy \in Row
         /\ [c.copy EXCEPT !.state = s] \in Row
  BY StateOK DEF Coroutine

(* Giving a mission up stops both robots.                                  *)
LEMMA FailingOK ==
  ASSUME NEW c \in Coroutine, NEW driver \in {"drive", "advance"}, NEW g
  PROVE  /\ Failing(c) \in Coroutine /\ Failing(c).op = "fail"
         /\ Coherent(Failing(c), driver, g)
<1>1. [c.copy EXCEPT !.state = "FAILED"] \in Row /\ c.m \in Mission \cup {NoMission}
  BY CopyOK DEF MissionState, Resting, Final
<1>2. "fail" \in StepName \ {"start", "drive", "advance"}
  BY DEF StepName
<1> QED BY <1>1, <1>2, HaltingOK DEF Failing

(* What a resumed worker leaves alone.                                     *)
LEMMA ResumeInv ==
  ASSUME Inv, WorkerResumes,
         row' \in [Mission -> Row],
         override' \in Mode \cup {"UNSET"},
         pending' \in {"none", "pause", "lost"},
         active' \in Mission \cup {NoMission},
         active' \in Mission => active' \in granted,
         worker' \in Coroutine,
         Coherent(worker', "drive", granted),
         worker'.op # "start"
  PROVE  Inv'
<1>1. /\ UNCHANGED <<wait, ticker, granted, crossed, used>> /\ queue' = queue /\ UNCHANGED field
      /\ arrivals' \subseteq Mission \cup {NoMission}
  BY DEF WorkerResumes, Inv, TypeOK
<1> QED BY <1>1, WorkerInv

(* The worker resumes: one fact per state of its command.                  *)
LEMMA WorkerResumesInv ==
  ASSUME Inv,
         \/ FollowerStarted \/ StartedPastTheEnd \/ FollowerRefused \/ Unfollowed
         \/ Driving \/ DriveRefused \/ DriveFailed \/ Halted
         \/ FormationPaused \/ RejoinStopped \/ Rejoined
  PROVE  Inv'
<1> DEFINE copy(s) == [worker.copy EXCEPT !.state = s]
<1>1. /\ worker \in Coroutine /\ worker.m \in Mission \cup {NoMission} /\ worker.copy \in Row
      /\ \A s \in MissionState : copy(s) \in Row
  <2>1. worker \in Coroutine
    BY DEF Inv, TypeOK
  <2>2. worker.m \in Mission \cup {NoMission} /\ worker.copy \in Row
    BY <2>1 DEF Coroutine
  <2> QED BY <2>1, <2>2, StateOK
<1>2. /\ row \in [Mission -> Row] /\ override \in Mode \cup {"UNSET"}
      /\ pending \in {"none", "pause", "lost"} /\ active \in Mission \cup {NoMission}
      /\ active \in Mission => active \in granted
  BY DEF Inv, TypeOK
<1>3. {"READY", "FOLLOWING", "PAUSED", "ERROR"} \subseteq Mode
  BY DEF Mode
<1>4. Idle \in Coroutine /\ Idle.op # "start" /\ Coherent(Idle, "drive", granted)
  BY IdleOK
<1>5. {"unfollow", "rejoining"} \subseteq StepName \ {"start", "drive", "advance"}
  BY DEF StepName
<1>6. {"RUNNING", "PAUSED"} \subseteq MissionState
  BY DEF MissionState, Resting, InFlight
<1>7. CASE FollowerStarted
  <2>1. worker.m \in granted
    BY <1>7 DEF FollowerStarted, Running, Inv
  <2>2. copy("RUNNING") \in Row /\ "drive" \in StepName
    BY <1>1, <1>6 DEF StepName
  <2>3. /\ worker' = Awaiting("drive", worker.m, copy("RUNNING"), Navigate)
        /\ active' = worker.m /\ override' = "FOLLOWING"
        /\ WorkerResumes /\ UNCHANGED <<row, pending>>
    BY <1>7 DEF FollowerStarted
  <2> HIDE DEF copy
  <2>4. Navigate \in Seq(Call) /\ Navigate # <<>>
    BY CallLists
  <2>5. worker' \in Coroutine /\ worker'.op # "start" /\ Coherent(worker', "drive", granted)
    BY <1>1, <2>1, <2>2, <2>3, <2>4 DEF Awaiting, Coroutine, StepName, Coherent
  <2> QED BY <1>1, <1>2, <1>3, <2>1, <2>3, <2>5, ResumeInv
<1>8. CASE FollowerRefused
  <2>1. copy("PAUSED") \in Row
    BY <1>1, <1>6
  <2>2. /\ worker' = Awaiting("unfollow", worker.m, copy("PAUSED"), StopBoth)
        /\ WorkerResumes /\ UNCHANGED <<row, override, active, pending>>
    BY <1>8 DEF FollowerRefused, memory
  <2> HIDE DEF copy
  <2>3. worker' \in Coroutine /\ worker'.op # "start" /\ Coherent(worker', "drive", granted)
    BY <1>1, <1>5, <2>1, <2>2, HaltingOK
  <2> QED BY <1>2, <2>2, <2>3, ResumeInv
<1>9. CASE DriveRefused
  <2>1. worker' = Failing(worker) /\ WorkerResumes /\ UNCHANGED <<row, override, active, pending>>
    BY <1>9 DEF DriveRefused, memory
  <2>2. worker' \in Coroutine /\ worker'.op # "start" /\ Coherent(worker', "drive", granted)
    BY <1>1, <2>1, FailingOK
  <2> QED BY <1>2, <2>1, <2>2, ResumeInv
<1>10. CASE RejoinStopped
  <2>1. /\ worker' = Awaiting("rejoining", NoMission, BlankRow, Rejoin) \/ worker' = Idle
        /\ override' \in {override, "ERROR"}
        /\ WorkerResumes /\ UNCHANGED <<row, active, pending>>
    BY <1>10 DEF RejoinStopped
  <2>2. worker' \in Coroutine /\ worker'.op # "start" /\ Coherent(worker', "drive", granted)
    BY <1>4, <1>5, <2>1, BlankOK, HaltingOK
  <2> QED BY <1>2, <1>3, <2>1, <2>2, ResumeInv
<1>11. CASE Unfollowed \/ Driving \/ DriveFailed \/ Halted
  <2>1. /\ Store(worker.m, worker.copy) /\ worker' = Idle /\ WorkerResumes
        /\ override' \in {override, "PAUSED"} /\ UNCHANGED pending
        /\ active' \in {active, NoMission}
    BY <1>11 DEF Unfollowed, Driving, DriveFailed, Halted, memory
  <2>2. row' \in [Mission -> Row]
    BY <1>1, <2>1, StoreOK DEF Inv
  <2> QED BY <1>2, <1>3, <1>4, <2>1, <2>2, ConstantsOK, ResumeInv
<1>12. CASE FormationPaused \/ Rejoined
  <2>1. /\ worker' = Idle /\ WorkerResumes /\ UNCHANGED <<row, active>>
        /\ override' \in {override, "READY", "ERROR"} /\ pending' \in {pending, "pause"}
    BY <1>12 DEF FormationPaused, Rejoined
  <2> QED BY <1>2, <1>3, <1>4, <2>1, ResumeInv
<1>13. CASE StartedPastTheEnd
  <2>1. worker.m \in granted
    BY <1>13 DEF StartedPastTheEnd, Running, Inv
  <2>2. /\ worker' = Idle /\ active' = worker.m /\ override' = "FOLLOWING"
        /\ WorkerResumes /\ UNCHANGED <<row, pending>>
    BY <1>13 DEF StartedPastTheEnd
  <2> QED BY <1>1, <1>2, <1>3, <1>4, <2>1, <2>2, ResumeInv
<1> QED BY <1>7, <1>8, <1>9, <1>10, <1>11, <1>12, <1>13

(* An answered call moves the robots and the caller.                       *)
LEMMA AnswersInv ==
  ASSUME Inv, WorkerCall \/ TickerCall
  PROVE  Inv'
<1> DEFINE Same == UNCHANGED <<row, override, active, wait, pending, queue, granted, crossed, used>>
           Field == /\ robot' \in [Robot -> {"free", "braking", "stopped"}]
                    /\ goal' \in {"none", "underway", "reached"} /\ lost' \in BOOLEAN
                    /\ arrivals' \subseteq Mission \cup {NoMission}
<1>1. ASSUME NEW c \in Coroutine, NEW accepted \in BOOLEAN, Answers(c, accepted)
      PROVE  Same /\ Field /\ c.at = "await"
  <2>1. Same /\ c.at = "await" /\ UNCHANGED lost
    BY <1>1 DEF Answers, memory
  <2>2. arrivals' \subseteq Mission \cup {NoMission}
    BY <1>1 DEF Answers, Coroutine, Inv, TypeOK
  <2>3. robot' \in [Robot -> {"free", "braking", "stopped"}] /\ goal' \in {"none", "underway", "reached"}
    BY <1>1 DEF Answers, Performs, Latch, Inv, TypeOK
  <2> QED BY <2>1, <2>2, <2>3 DEF Inv, TypeOK
<1>2. CASE WorkerCall
  <2>1. PICK accepted \in BOOLEAN :
          Answers(worker, accepted) /\ worker' = Answered(worker, accepted) /\ UNCHANGED ticker
    BY <1>2 DEF WorkerCall
  <2>2. worker \in Coroutine /\ Coherent(worker, "drive", granted)
    BY DEF Inv, TypeOK
  <2>3. Same /\ Field /\ worker.at = "await"
    BY <1>1, <2>1, <2>2
  <2>4. /\ worker' \in Coroutine /\ worker'.op = worker.op /\ worker'.m = worker.m
        /\ Coherent(worker', "drive", granted)
    BY <2>1, <2>2, <2>3, AnsweredOK
  <2>5. TypeOK'
    BY <2>1, <2>3, <2>4 DEF Inv, TypeOK
  <2>6. QueueGranted' /\ Coherent(worker, "drive", granted)' /\ Coherent(ticker, "advance", granted)'
    BY <2>1, <2>3, <2>4 DEF Inv, QueueGranted, Coherent
  <2> QED BY <2>3, <2>4, <2>5, <2>6 DEF Inv
<1>3. CASE TickerCall
  <2>1. PICK accepted \in BOOLEAN :
          Answers(ticker, accepted) /\ ticker' = Answered(ticker, accepted) /\ UNCHANGED worker
    BY <1>3 DEF TickerCall
  <2>2. ticker \in Coroutine /\ Coherent(ticker, "advance", granted)
    BY DEF Inv, TypeOK
  <2>3. Same /\ Field /\ ticker.at = "await"
    BY <1>1, <2>1, <2>2
  <2>4. ticker' \in Coroutine /\ Coherent(ticker', "advance", granted)
    BY <2>1, <2>2, <2>3, AnsweredOK
  <2>5. TypeOK'
    BY <2>1, <2>3, <2>4 DEF Inv, TypeOK
  <2>6. QueueGranted' /\ Coherent(worker, "drive", granted)' /\ Coherent(ticker, "advance", granted)'
    BY <2>1, <2>3, <2>4 DEF Inv, QueueGranted, Coherent
  <2> QED BY <2>1, <2>3, <2>5, <2>6 DEF Inv
<1> QED BY <1>2, <1>3

(* Every step of the worker preserves the invariant.                       *)
LEMMA WorkerStepInv == Inv /\ WorkerStep => Inv'
  BY AnswersInv, ImmediateInv, BeginInv, WorkerResumesInv DEF WorkerStep

-----------------------------------------------------------------------------
(* The steps of the tick                                                   *)

(* The drained events, the alerts and the formation.                       *)
LEMMA WatchdogInv ==
  ASSUME Inv,
         \/ RuntimeTick \/ Protected \/ SettleFormation
         \/ \E followLost \in BOOLEAN : RaiseAlert(followLost)
  PROVE  Inv'
<1>1. /\ row \in [Mission -> Row] /\ override \in Mode \cup {"UNSET"}
      /\ pending \in {"none", "pause", "lost"}
      /\ wait \in {"none", "running", "expired", "inf"}
      /\ used \in [requests : Nat, alerts : Nat, restarts : Nat]
      /\ arrivals \subseteq Mission \cup {NoMission}
      /\ ticker \in Coroutine /\ Coherent(ticker, "advance", granted)
      /\ Formation \in Mode
  BY FormationOK DEF Inv, TypeOK
<1>2. AtAlerts \in Coroutine /\ Coherent(AtAlerts, "advance", granted)
  BY IdleOK
<1>3. {"LOST", "PAUSED", "PAUSING", "ERROR"} \subseteq Mode
  BY DEF Mode
<1>4. CASE RuntimeTick
  <2>1. /\ ticker' = AtAlerts /\ UNCHANGED <<row, override, active, pending, used>>
        /\ wait' \in {wait, "running"} /\ arrivals' = {}
        /\ UNCHANGED <<queue, worker, field, granted, crossed>>
    BY <1>4 DEF RuntimeTick, TickerResumes
  <2> QED BY <1>1, <1>2, <2>1, TickerInv
<1>5. CASE Protected
  <2>1. /\ ticker' = AtAlerts /\ UNCHANGED <<row, active, wait, arrivals, used>>
        /\ override' \in {override, "ERROR"} /\ pending' \in {"none", "pause", "lost"}
        /\ UNCHANGED <<queue, worker, field, granted, crossed>>
    BY <1>5 DEF Protected, TickerResumes
  <2> QED BY <1>1, <1>2, <1>3, <2>1, TickerInv
<1>6. CASE SettleFormation
  <2>1. /\ ticker' = [ticker EXCEPT !.op = "mission"] /\ ticker.op = "alerts"
        /\ UNCHANGED <<row, active, wait, arrivals, used>>
        /\ override' \in {override, "LOST", "PAUSED"} /\ pending' \in {pending, "none"}
        /\ UNCHANGED <<queue, worker, field, granted, crossed>>
    BY <1>6 DEF SettleFormation, Running, TickerResumes
  <2>2. ticker' \in Coroutine /\ Coherent(ticker', "advance", granted)
    BY <1>1, <2>1 DEF Coroutine, Coherent
  <2> QED BY <1>1, <1>3, <2>1, <2>2, TickerInv
<1>7. ASSUME NEW followLost \in BOOLEAN, RaiseAlert(followLost) PROVE Inv'
  <2>1. /\ UNCHANGED <<active, wait, arrivals>> /\ UNCHANGED <<queue, worker, field, granted, crossed>>
        /\ override' \in {Formation, "LOST", "PAUSING"} /\ pending' \in {pending, "lost"}
    BY <1>7 DEF RaiseAlert, TickerResumes
  <2>2. used' \in [requests : Nat, alerts : Nat, restarts : Nat]
    BY <1>1, <1>7 DEF RaiseAlert
  <2>3. row' \in [Mission -> Row]
    <3>1. CASE UNCHANGED row
      BY <1>1, <3>1
    <3>2. CASE active \in Mission /\ Store(active, [row[active] EXCEPT !.state = "PAUSING"])
      <4>1. [row[active] EXCEPT !.state = "PAUSING"] \in Row
        BY <1>1, <3>2, StateOK DEF MissionState, InFlight
      <4> QED BY <3>2, <4>1, StoreOK DEF Inv
    <3> QED BY <1>7, <3>1, <3>2 DEF RaiseAlert, MarkPausing
  <2>4. ticker' \in Coroutine /\ Coherent(ticker', "advance", granted)
    <3>1. \/ UNCHANGED ticker
          \/ \E op \in {"protect", "protect_lost"} :
               ticker' = Awaiting(op, NoMission, BlankRow, StopBoth)
      BY <1>7 DEF RaiseAlert
    <3>2. {"protect", "protect_lost"} \subseteq StepName \ {"start", "drive", "advance"}
      BY DEF StepName
    <3> QED BY <1>1, <3>1, <3>2, BlankOK, HaltingOK
  <2> QED BY <1>1, <1>3, <2>1, <2>2, <2>3, <2>4, TickerInv
<1> QED BY <1>4, <1>5, <1>6, <1>7

(* The active mission.                                                     *)
LEMMA TickInv ==
  ASSUME Inv,
         \/ Succeed \/ Advance \/ SettleTimeout \/ FollowerLost \/ FinishHalt \/ NothingToTick
  PROVE  Inv'
<1>1. /\ row \in [Mission -> Row] /\ override \in Mode \cup {"UNSET"}
      /\ pending \in {"none", "pause", "lost"}
      /\ wait \in {"none", "running", "expired", "inf"}
      /\ used \in [requests : Nat, alerts : Nat, restarts : Nat]
      /\ arrivals \subseteq Mission \cup {NoMission}
  BY DEF Inv, TypeOK
<1>2. Idle \in Coroutine /\ Coherent(Idle, "advance", granted)
  BY IdleOK
<1>3. {"LOST", "READY", "PAUSED"} \subseteq Mode
  BY DEF Mode
<1>4. ASSUME active \in Mission, NEW s \in {"SUCCEEDED", "PAUSED", "CANCELED", "PAUSING"}
      PROVE  [row[active] EXCEPT !.state = s] \in Row
  BY <1>1, <1>4, StateOK DEF MissionState, Resting, InFlight, Final
<1>5. CASE Succeed \/ SettleTimeout \/ FinishHalt
  <2>1. PICK s \in {"SUCCEEDED", "PAUSED", "CANCELED"} :
          /\ active \in Mission /\ Store(active, [row[active] EXCEPT !.state = s])
          /\ ticker' = Idle
    BY <1>5 DEF Succeed, SettleTimeout, FinishHalt, Ticks
  <2>2. /\ active' \in {active, NoMission} /\ UNCHANGED <<arrivals, used, pending>>
        /\ wait' \in {wait, "inf", "none"} /\ override' \in {"LOST", "READY", "PAUSED"}
        /\ UNCHANGED <<queue, worker, field, granted, crossed>>
    BY <1>5 DEF Succeed, SettleTimeout, FinishHalt, Ticks, TickerResumes
  <2>3. row' \in [Mission -> Row]
    BY <1>4, <2>1, StoreOK DEF Inv
  <2> QED BY <1>1, <1>2, <1>3, <2>1, <2>2, <2>3, TickerInv
<1>6. CASE Advance
  <2>1. /\ ticker' = Awaiting("advance", active, NextGoal(row[active]), Navigate)
        /\ active \in Mission /\ ~LastGoal(row[active]) /\ wait' = "inf"
        /\ UNCHANGED <<row, override, active, pending, arrivals, used>>
        /\ UNCHANGED <<queue, worker, field, granted, crossed>>
    BY <1>6 DEF Advance, Ticks, TickerResumes
  <2>2. NextGoal(row[active]) \in Row /\ active \in granted
    BY <1>1, <2>1, NextGoalOK DEF Inv
  <2>3. Navigate \in Seq(Call) /\ Navigate # <<>>
    BY CallLists
  <2>4. ticker' \in Coroutine /\ Coherent(ticker', "advance", granted)
    BY <2>1, <2>2, <2>3 DEF Awaiting, Coroutine, Coherent
  <2> QED BY <1>1, <2>1, <2>4, TickerInv
<1>7. CASE FollowerLost
  <2>1. /\ ticker' = Awaiting("lost", active, [row[active] EXCEPT !.state = "PAUSING"], StopBoth)
        /\ active \in Mission /\ override' = "LOST"
        /\ UNCHANGED <<row, active, wait, pending, arrivals, used>>
        /\ UNCHANGED <<queue, worker, field, granted, crossed>>
    BY <1>7 DEF FollowerLost, Ticks, TickerResumes
  <2>2. "lost" \in StepName \ {"start", "drive", "advance"}
    BY DEF StepName
  <2>3. ticker' \in Coroutine /\ Coherent(ticker', "advance", granted)
    BY <1>4, <2>1, <2>2, HaltingOK
  <2> QED BY <1>1, <1>3, <2>1, <2>3, TickerInv
<1>8. CASE NothingToTick
  <2>1. /\ ticker' = Idle /\ UNCHANGED <<row, override, active, wait, pending, arrivals, used>>
        /\ UNCHANGED <<queue, worker, field, granted, crossed>>
    BY <1>8 DEF NothingToTick, TickerResumes, memory
  <2> QED BY <1>1, <1>2, <2>1, TickerInv
<1> QED BY <1>5, <1>6, <1>7, <1>8

(* The answers the tick awaited.                                           *)
LEMMA TickResumesInv ==
  ASSUME Inv, Advanced \/ AdvanceRefused \/ AdvanceFailed \/ LostStopped
  PROVE  Inv'
<1>1. /\ row \in [Mission -> Row] /\ override \in Mode \cup {"UNSET"}
      /\ pending \in {"none", "pause", "lost"}
      /\ wait \in {"none", "running", "expired", "inf"}
      /\ used \in [requests : Nat, alerts : Nat, restarts : Nat]
      /\ arrivals \subseteq Mission \cup {NoMission}
      /\ ticker \in Coroutine
  BY DEF Inv, TypeOK
<1>2. ticker.copy \in Row
  BY <1>1 DEF Coroutine
<1>3. /\ UNCHANGED <<override, pending, arrivals, used>>
      /\ UNCHANGED <<queue, worker, field, granted, crossed>>
      /\ active' \in {active, NoMission} /\ wait' \in {wait, "none"}
  BY DEF Advanced, AdvanceRefused, AdvanceFailed, LostStopped, TickerResumes, memory
<1>4. row' \in [Mission -> Row]
  <2>1. UNCHANGED row \/ \E m \in Mission \cup {NoMission} : Store(m, ticker.copy)
    BY <1>1 DEF Advanced, AdvanceRefused, AdvanceFailed, LostStopped, Coroutine
  <2> QED BY <1>1, <1>2, <2>1, StoreOK DEF Inv
<1>5. ticker' \in Coroutine /\ Coherent(ticker', "advance", granted)
  <2>1. ticker' = Idle \/ ticker' = Failing(ticker)
    BY DEF Advanced, AdvanceRefused, AdvanceFailed, LostStopped
  <2> QED BY <1>1, <2>1, IdleOK, FailingOK
<1> QED BY <1>1, <1>3, <1>4, <1>5, TickerInv

(* Every step of the tick preserves the invariant.                         *)
LEMMA TickerStepInv == Inv /\ TickerStep => Inv'
  BY AnswersInv, WatchdogInv, TickInv, TickResumesInv DEF TickerStep

-----------------------------------------------------------------------------
(* The operator, the world and restarts                                    *)

(* A request that commands nothing, or appends what it was accepted as.    *)
LEMMA OperatorInv == Inv /\ Operator => Inv'
<1> SUFFICES ASSUME Inv, Operator PROVE Inv'
  OBVIOUS
<1>1. /\ row \in [Mission -> Row] /\ override \in Mode \cup {"UNSET"} /\ Formation \in Mode
      /\ granted \subseteq Mission /\ crossed \subseteq Mission
  BY FormationOK DEF Inv, TypeOK
<1>2. {"DRAFT", "STARTING"} \subseteq MissionState
  BY DEF MissionState, Resting, InFlight
<1>3. ASSUME NEW m \in Mission, CreateMission(m) \/ EditMission(m) PROVE Inv'
  <2>1. Request /\ UNCHANGED <<queue, granted>> /\ override' \in {override, Formation}
        /\ crossed' \subseteq Mission
    BY <1>1, <1>3 DEF CreateMission, EditMission, Concerns
  <2>2. PICK r \in Row : \E plan \in Plans(r) : Store(m, plan)
    BY <1>1, <1>3, BlankOK DEF CreateMission, EditMission
  <2>3. row' \in [Mission -> Row]
    BY <2>2, PlansOK, StoreOK DEF Inv
  <2> QED BY <1>1, <2>1, <2>3, RequestInv
<1>4. ASSUME NEW m \in Mission, SubmitStart(m) PROVE Inv'
  <2>1. /\ Request /\ granted' = granted \cup {m} /\ override' = Formation
        /\ queue' = Append(queue, [op |-> "start", m |-> m])
        /\ Store(m, [row[m] EXCEPT !.state = "STARTING"])
    BY <1>4 DEF SubmitStart, Enqueue
  <2>2. row' \in [Mission -> Row]
    BY <1>1, <1>2, <2>1, StateOK, StoreOK DEF Inv
  <2>3. [op |-> "start", m |-> m] \in Command
    BY DEF Command, MissionOp
  <2>4. \E c \in Command :
          /\ queue' = Append(queue, c)
          /\ c.op \in MissionOp => c.m \in Mission
          /\ c.op = "start" => c.m \in granted'
    BY <2>1, <2>3
  <2>5. /\ granted' \subseteq Mission /\ granted \subseteq granted' /\ crossed' \subseteq Mission
        /\ override' \in Mode \cup {"UNSET"}
    BY <1>1, <1>4, <2>1 DEF SubmitStart, Concerns
  <2> QED BY <2>1, <2>2, <2>4, <2>5, RequestInv
<1>5. ASSUME NEW op \in (MissionOp \ {"start"}) \cup FormationOp, NEW m \in Mission \cup {NoMission},
             op \in MissionOp => m \in Mission,
             Enqueue(op, m), UNCHANGED <<row, granted>>, override' \in {override, Formation},
             crossed' \subseteq Mission
      PROVE  Inv'
  <2>1. Request /\ queue' = Append(queue, [op |-> op, m |-> m])
    BY <1>5 DEF Enqueue
  <2>2. [op |-> op, m |-> m] \in Command /\ op # "start"
    BY DEF Command, FormationOp
  <2>3. \E c \in Command :
          /\ queue' = Append(queue, c)
          /\ c.op \in MissionOp => c.m \in Mission
          /\ c.op = "start" => c.m \in granted'
    BY <1>5, <2>1, <2>2
  <2>4. granted' \subseteq Mission /\ granted \subseteq granted' /\ override' \in Mode \cup {"UNSET"}
    BY <1>1, <1>5
  <2>5. row' \in [Mission -> Row]
    BY <1>1, <1>5
  <2> QED BY <1>5, <2>1, <2>3, <2>4, <2>5, RequestInv
<1>6. ASSUME NEW m \in Mission, NEW op \in MissionOp, SubmitMission(m, op) PROVE Inv'
  BY <1>1, <1>5, <1>6 DEF SubmitMission, Concerns
<1>7. ASSUME NEW op \in FormationOp, SubmitFormation(op) PROVE Inv'
  <2>1. op \notin MissionOp
    BY DEF FormationOp, MissionOp
  <2> QED BY <1>1, <1>5, <1>7, <2>1 DEF SubmitFormation
<1>8. CASE RefuseRequest
  <2>1. /\ UNCHANGED <<row, active, wait, pending, queue, worker, ticker, arrivals, robot, goal,
                       lost, granted, crossed, used>>
        /\ override' \in Mode
    BY <1>1, <1>8 DEF RefuseRequest, field
  <2>2. TypeOK'
    BY <2>1 DEF Inv, TypeOK
  <2>3. QueueGranted' /\ Coherent(worker, "drive", granted)' /\ Coherent(ticker, "advance", granted)'
    BY <2>1 DEF Inv, QueueGranted, Coherent
  <2> QED BY <2>1, <2>2, <2>3 DEF Inv
<1> QED BY <1>3, <1>4, <1>6, <1>7, <1>8 DEF Operator

(* The robots and the clock touch nothing that decides who may drive.      *)
LEMMA WorldInv == Inv /\ World => Inv'
<1> SUFFICES ASSUME Inv, World PROVE Inv'
  OBVIOUS
<1>1. UNCHANGED <<row, override, active, pending, queue, worker, ticker, arrivals, granted, crossed, used>>
  <2>1. Outside
    BY DEF World, Rests, Unobserved, StoppedElsewhere, Released, GoalEnds, FollowerChanges,
           DeadlinePasses
  <2> QED BY <2>1 DEF Outside
<1> DEFINE Field == /\ robot' \in [Robot -> {"free", "braking", "stopped"}]
                    /\ goal' \in {"none", "underway", "reached"} /\ lost' \in BOOLEAN
                    /\ wait' \in {"none", "running", "expired", "inf"}
<1>2. Field
  <2> USE DEF Inv, TypeOK
  <2>1. ASSUME NEW r \in Robot, Rests(r) \/ Unobserved(r)
        PROVE  Field
    BY <2>1 DEF Rests, Unobserved
  <2>2. ASSUME NEW r \in Robot, StoppedElsewhere(r) \/ Released(r)
        PROVE  Field
    BY <2>2 DEF StoppedElsewhere, Released, Latch
  <2>3. CASE GoalEnds \/ FollowerChanges \/ DeadlinePasses
    BY <2>3 DEF GoalEnds, FollowerChanges, DeadlinePasses, field
  <2> QED BY <2>1, <2>2, <2>3 DEF World
<1>3. TypeOK'
  BY <1>1, <1>2 DEF Inv, TypeOK
<1>4. QueueGranted' /\ Coherent(worker, "drive", granted)' /\ Coherent(ticker, "advance", granted)'
  BY <1>1 DEF Inv, QueueGranted, Coherent
<1> QED BY <1>1, <1>3, <1>4 DEF Inv

(* After a restart nothing is under way and nobody may drive.              *)
LEMMA RestartInv == Inv /\ Restart => Inv'
<1> SUFFICES ASSUME Inv, Restart PROVE Inv'
  OBVIOUS
<1>1. row' \in [Mission -> Row]
  <2>1. \A m \in Mission : Recovered(row[m]) \in Row
    BY StateOK DEF Recovered, Inv, TypeOK, MissionState, Resting
  <2> QED BY <2>1 DEF Restart
<1>2. used' \in [requests : Nat, alerts : Nat, restarts : Nat]
  BY DEF Restart, Inv, TypeOK
<1>3. queue' = <<>> /\ <<>> \in Seq(Command) /\ QueueGranted'
  BY DEF Restart, QueueGranted
<1>4. /\ worker' = Idle /\ ticker' = Idle /\ active' = NoMission /\ granted' = {} /\ crossed' = {}
      /\ arrivals' = {} /\ override' = "UNSET" /\ wait' = "none" /\ pending' = "none"
      /\ UNCHANGED field
  BY DEF Restart
<1>5. /\ Idle \in Coroutine /\ Idle.op = "none"
      /\ Coherent(Idle, "drive", {}) /\ Coherent(Idle, "advance", {})
  BY IdleOK
<1>6. TypeOK'
  BY <1>1, <1>2, <1>3, <1>4, <1>5 DEF Inv, TypeOK, field
<1>7. Coherent(worker, "drive", granted)' /\ Coherent(ticker, "advance", granted)'
  BY <1>4, <1>5 DEF Coherent
<1> QED BY <1>3, <1>4, <1>5, <1>6, <1>7, ConstantsOK DEF Inv

(* The initial states satisfy the invariant.                               *)
LEMMA InitInv == Init => Inv
<1> SUFFICES ASSUME Init PROVE Inv
  OBVIOUS
<1>1. row \in [Mission -> Row]
  <2>1. Persisted \subseteq Row
    BY DEF Persisted
  <2> QED BY <2>1 DEF Init
<1>2. /\ Idle \in Coroutine /\ Idle.op = "none"
      /\ Coherent(Idle, "drive", {}) /\ Coherent(Idle, "advance", {})
  BY IdleOK
<1>3. TypeOK
  <2>1. queue \in Seq(Command) /\ worker \in Coroutine /\ ticker \in Coroutine
    BY <1>2 DEF Init
  <2>2. robot \in [Robot -> {"free", "braking", "stopped"}]
    BY DEF Init
  <2>3. used \in [requests : Nat, alerts : Nat, restarts : Nat]
    BY DEF Init
  <2> QED BY <1>1, <2>1, <2>2, <2>3 DEF Init, TypeOK
<1>4. QueueGranted
  BY DEF Init, QueueGranted
<1> QED BY <1>2, <1>3, <1>4, ConstantsOK DEF Init, Inv

(* Every step preserves the invariant.                                     *)
LEMMA NextInv == Inv /\ [Next]_vars => Inv'
<1> SUFFICES ASSUME Inv, [Next]_vars PROVE Inv'
  OBVIOUS
<1>1. CASE UNCHANGED vars
  <2>1. UNCHANGED <<row, override, active, wait, pending, queue, worker, ticker, arrivals,
                    robot, goal, lost, granted, crossed, used>>
    BY <1>1 DEF vars, memory, field
  <2>2. TypeOK'
    BY <2>1 DEF Inv, TypeOK
  <2>3. QueueGranted' /\ Coherent(worker, "drive", granted)' /\ Coherent(ticker, "advance", granted)'
    BY <2>1 DEF Inv, QueueGranted, Coherent
  <2> QED BY <2>1, <2>2, <2>3 DEF Inv
<1>2. CASE Next
  BY <1>2, OperatorInv, WorkerStepInv, TickerStepInv, WatchdogInv, WorldInv, RestartInv DEF Next
<1> QED BY <1>1, <1>2

-----------------------------------------------------------------------------
(* Type correctness and who may drive hold in every reachable state.       *)
THEOREM SpecInv == Spec => []Inv
  BY InitInv, NextInv, PTL DEF Spec

(* Type correctness: rows, the memory of the server and both coroutines    *)
(* keep their shape, however they interleave.                              *)
THEOREM Typed == Spec => []TypeOK
<1>1. Inv => TypeOK
  BY DEF Inv
<1> QED BY <1>1, SpecInv, PTL

(* No goal is sent to a robot, and no mission is supervised, unless an     *)
(* operator started that mission since the server booted.                  *)
THEOREM OperatorStartsMotion == Spec => []MotionNeedsOperator
<1>1. Inv => MotionNeedsOperator
  <2> SUFFICES ASSUME Inv PROVE MotionNeedsOperator
    OBVIOUS
  <2>1. ASSUME NEW c \in Coroutine, NEW driver, Coherent(c, driver, granted),
               c.at = "await", Head(c.todo).do = "navigate"
        PROVE  c.m \in granted
    <3>1. c.todo \in Seq(Call) /\ c.todo # <<>>
      BY <2>1 DEF Coroutine, Coherent
    <3>2. 1 \in 1..Len(c.todo) /\ Head(c.todo) = c.todo[1]
      BY <3>1
    <3> QED BY <2>1, <3>2 DEF Coherent
  <2> QED BY <2>1 DEF Inv, TypeOK, MotionNeedsOperator
<1> QED BY <1>1, SpecInv, PTL

-----------------------------------------------------------------------------
(* An acknowledged pause holds.  What a halt has not called yet is still   *)
(* in its list; what it has called and seen accepted is latched, and only  *)
(* a reset frees a robot, for which the worker has to be idle.             *)
HaltOp == {"pause", "cancel", "f_pause"}

ToCome(c, call) == \E i \in 1..Len(c.todo) : c.todo[i] = call

LatchedHasNoGoal == robot["master"] # "free" => goal # "underway"

HaltLatches ==
  worker.at # "idle" /\ worker.op \in HaltOp /\ worker.ok =>
    \A r \in Robot : robot[r] # "free" \/ ToCome(worker, Stop(r))

PauseInv ==
  /\ worker.at = "run" => worker.todo = <<>>
  /\ LatchedHasNoGoal /\ HaltLatches

(* What a robot does with a call frees no robot and gives no latched one a *)
(* goal, and an accepted stop latches.                                     *)
LEMMA CallsLatch ==
  ASSUME TypeOK, LatchedHasNoGoal, NEW c \in Coroutine, c.todo # <<>>,
         NEW accepted \in BOOLEAN, Answers(c, accepted)
  PROVE  /\ \A r \in Robot : robot[r] # "free" => robot'[r] # "free"
         /\ LatchedHasNoGoal'
         /\ \A r \in Robot : accepted /\ Head(c.todo) = Stop(r) => robot'[r] # "free"
<1> DEFINE call == Head(c.todo)
<1>1. call \in Call
  BY DEF Coroutine
<1>2. CASE ~accepted /\ UNCHANGED <<robot, goal>>
  BY <1>2 DEF LatchedHasNoGoal
<1>3. CASE Performs(call) /\ call.do = "stop"
  <2>1. Latch(call.to)
    BY <1>3 DEF Performs
  <2>2. \A r \in Robot : robot'[r] = IF r = call.to /\ robot[r] = "free" THEN "braking" ELSE robot[r]
    BY <2>1 DEF Latch, TypeOK
  <2>3. goal' = IF call.to = "master" THEN "none" ELSE goal
    BY <2>1 DEF Latch
  <2>4. LatchedHasNoGoal'
    BY <2>2, <2>3 DEF LatchedHasNoGoal, Robot
  <2>5. \A r \in Robot : call = Stop(r) => robot'[r] # "free"
    BY <2>2 DEF Stop
  <2> QED BY <2>2, <2>4, <2>5
<1>4. CASE Performs(call) /\ call.do # "stop"
  <2>1. robot' = robot /\ (goal' = "underway" => goal = "underway" \/ robot["master"] = "free")
    BY <1>4 DEF Performs
  <2> QED BY <1>4, <2>1 DEF LatchedHasNoGoal, Stop
<1> QED BY <1>2, <1>3, <1>4 DEF Answers

(* Whatever leaves the worker alone and frees no robot keeps the promise.  *)
LEMMA OthersKeepPause ==
  ASSUME PauseInv, UNCHANGED worker, LatchedHasNoGoal',
         worker.at = "idle" \/ \A r \in Robot : robot[r] # "free" => robot'[r] # "free"
  PROVE  PauseInv'
BY DEF PauseInv, HaltLatches, ToCome

(* An answer to the worker takes one call off its list.                    *)
LEMMA WorkerCallKeepsPause == Inv /\ PauseInv /\ WorkerCall => PauseInv'
<1> SUFFICES ASSUME Inv, PauseInv, NEW accepted \in BOOLEAN, Answers(worker, accepted),
                    worker' = Answered(worker, accepted)
             PROVE  PauseInv'
  BY DEF WorkerCall
<1>1. worker \in Coroutine /\ worker.at = "await" /\ worker.todo # <<>> /\ TypeOK
  BY DEF Answers, Inv, TypeOK, Coherent
<1>2. /\ \A r \in Robot : robot[r] # "free" => robot'[r] # "free"
      /\ LatchedHasNoGoal'
      /\ \A r \in Robot : accepted /\ Head(worker.todo) = Stop(r) => robot'[r] # "free"
  BY <1>1, CallsLatch DEF PauseInv
<1>3. /\ worker'.todo = Remaining(worker, accepted) /\ worker'.op = worker.op
      /\ worker'.ok = (worker.ok /\ accepted)
      /\ worker'.at = IF Remaining(worker, accepted) = <<>> THEN "run" ELSE "await"
  BY <1>1 DEF Answered, Coroutine
<1>4. HaltLatches'
  <2> SUFFICES ASSUME worker.op \in HaltOp, worker.ok, accepted, NEW r \in Robot
               PROVE  robot'[r] # "free" \/ ToCome(worker', Stop(r))
    BY <1>3 DEF HaltLatches, ToCome, Robot, Stop
  <2>1. robot[r] # "free" \/ ToCome(worker, Stop(r))
    BY <1>1 DEF PauseInv, HaltLatches
  <2>2. CASE robot[r] # "free"
    BY <1>2, <2>2
  <2>3. ASSUME NEW i \in 1..Len(worker.todo), worker.todo[i] = Stop(r)
        PROVE  robot'[r] # "free" \/ ToCome(worker', Stop(r))
    <3>1. worker.todo \in Seq(Call)
      BY <1>1 DEF Coroutine
    <3>2. CASE i = 1
      <4>1. Head(worker.todo) = Stop(r)
        BY <2>3, <3>1, <3>2
      <4> QED BY <1>2, <4>1
    <3>3. CASE i # 1
      <4>1. worker'.todo = Tail(worker.todo)
        BY <1>3 DEF Remaining
      <4>2. i - 1 \in 1..Len(Tail(worker.todo)) /\ Tail(worker.todo)[i - 1] = Stop(r)
        BY <2>3, <3>1, <3>3
      <4> QED BY <4>1, <4>2 DEF ToCome
    <3> QED BY <3>2, <3>3
  <2> QED BY <2>1, <2>2, <2>3 DEF ToCome
<1> QED BY <1>2, <1>3, <1>4 DEF PauseInv

(* A worker that begins or goes on owes both stops, or halts nothing.      *)
LEMMA WorkerKeepsPause ==
  ASSUME PauseInv, UNCHANGED field,
         \/ worker' = worker \/ worker' = Idle
         \/ \E op \in HaltOp : \E m, copy : worker' = Awaiting(op, m, copy, CancelAndStop)
         \/ \E op \in StepName \ HaltOp : \E m, copy, calls : worker' = Awaiting(op, m, copy, calls)
  PROVE  PauseInv'
<1>1. LatchedHasNoGoal'
  BY DEF PauseInv, LatchedHasNoGoal, field
<1>2. CASE worker' = worker
  BY <1>1, <1>2, OthersKeepPause DEF field
<1>3. CASE worker' = Idle
  BY <1>1, <1>3 DEF Idle, PauseInv, HaltLatches, HaltOp
<1>4. ASSUME NEW op \in HaltOp, NEW m, NEW copy, worker' = Awaiting(op, m, copy, CancelAndStop)
      PROVE  PauseInv'
  <2>1. worker'.at = "await" /\ worker'.todo = CancelAndStop
    BY <1>4 DEF Awaiting
  <2>2. /\ 2 \in 1..Len(CancelAndStop) /\ CancelAndStop[2] = Stop("master")
        /\ 3 \in 1..Len(CancelAndStop) /\ CancelAndStop[3] = Stop("slave")
    BY DEF CancelAndStop
  <2>3. \A r \in Robot : ToCome(worker', Stop(r))
    BY <2>1, <2>2 DEF ToCome, Robot
  <2> QED BY <1>1, <2>1, <2>3 DEF PauseInv, HaltLatches, ToCome, Stop
<1>5. ASSUME NEW op \in StepName \ HaltOp, NEW m, NEW copy, NEW calls,
             worker' = Awaiting(op, m, copy, calls)
      PROVE  PauseInv'
  <2>1. worker'.at = "await" /\ worker'.op = op
    BY <1>5 DEF Awaiting
  <2> QED BY <1>1, <2>1 DEF PauseInv, HaltLatches
<1> QED BY <1>2, <1>3, <1>4, <1>5

(* The worker's own steps, other than its calls.                           *)
LEMMA WorkerStepKeepsPause == Inv /\ PauseInv /\ WorkerStep => PauseInv'
<1> SUFFICES ASSUME Inv, PauseInv, WorkerStep PROVE PauseInv'
  OBVIOUS
<1>1. {"start", "drive", "unfollow", "fail", "f_rejoin", "rejoining"} \subseteq StepName \ HaltOp
      /\ {"pause", "cancel", "f_pause"} \subseteq HaltOp
  BY DEF StepName, HaltOp
<1>2. CASE WorkerCall
  BY <1>2, WorkerCallKeepsPause
<1>3. CASE Validate \/ CancelUnstarted \/ Pair \/ Unpair
  BY <1>3, WorkerKeepsPause DEF Validate, CancelUnstarted, Pair, Unpair, Take
<1>4. CASE Start
  <2>1. UNCHANGED field
    BY <1>4 DEF Start, Take
  <2>2. \E m, copy, calls : worker' = Awaiting("start", m, copy, calls)
    BY <1>4 DEF Start
  <2> QED BY <1>1, <2>1, <2>2, WorkerKeepsPause
<1>5. CASE Halt("pause", "PAUSING") \/ Halt("cancel", "CANCELING") \/ PauseFormation
  <2>1. UNCHANGED field
    BY <1>5 DEF Halt, PauseFormation, Take
  <2>2. \E op \in HaltOp : \E m, copy : worker' = Awaiting(op, m, copy, CancelAndStop)
    BY <1>1, <1>5 DEF Halt, PauseFormation
  <2> QED BY <2>1, <2>2, WorkerKeepsPause
<1>6. CASE RejoinFormation
  <2>1. UNCHANGED field
    BY <1>6 DEF RejoinFormation, Take
  <2>2. \E m, copy, calls : worker' = Awaiting("f_rejoin", m, copy, calls)
    BY <1>6 DEF RejoinFormation
  <2> QED BY <1>1, <2>1, <2>2, WorkerKeepsPause
<1>7. CASE FollowerStarted \/ FollowerRefused \/ DriveRefused
  <2>1. UNCHANGED field
    BY <1>7 DEF FollowerStarted, FollowerRefused, DriveRefused, WorkerResumes
  <2>2. \E op \in {"drive", "unfollow", "fail"} : \E m, copy, calls :
          worker' = Awaiting(op, m, copy, calls)
    BY <1>7 DEF FollowerStarted, FollowerRefused, DriveRefused, Failing
  <2> QED BY <1>1, <2>1, <2>2, WorkerKeepsPause
<1>8. CASE \/ StartedPastTheEnd \/ Unfollowed \/ Driving \/ DriveFailed \/ Halted
            \/ FormationPaused \/ Rejoined
  <2>1. UNCHANGED field /\ worker' = Idle
    BY <1>8 DEF StartedPastTheEnd, Unfollowed, Driving, DriveFailed, Halted, FormationPaused, Rejoined, WorkerResumes
  <2> QED BY <2>1, WorkerKeepsPause
<1>9. CASE RejoinStopped
  <2>1. UNCHANGED field
    BY <1>9 DEF RejoinStopped, WorkerResumes
  <2>2. worker' = Idle \/ \E m, copy, calls : worker' = Awaiting("rejoining", m, copy, calls)
    BY <1>9 DEF RejoinStopped
  <2> QED BY <1>1, <2>1, <2>2, WorkerKeepsPause
<1> QED BY <1>2, <1>3, <1>4, <1>5, <1>6, <1>7, <1>8, <1>9 DEF WorkerStep

(* The world latches robots, and frees them only while the worker idles.   *)
LEMMA WorldKeepsPause == Inv /\ PauseInv /\ World => PauseInv'
<1> SUFFICES ASSUME Inv, PauseInv, World PROVE PauseInv'
  OBVIOUS
<1>1. UNCHANGED worker
  BY DEF World, Rests, Unobserved, StoppedElsewhere, Released, GoalEnds, FollowerChanges,
     DeadlinePasses, Outside
<1>2. robot \in [Robot -> {"free", "braking", "stopped"}] /\ LatchedHasNoGoal /\ "master" \in Robot
  BY DEF Inv, TypeOK, PauseInv, Robot
<1>3. ASSUME NEW r \in Robot, Rests(r) \/ Unobserved(r) PROVE PauseInv'
  <2>1. LatchedHasNoGoal' /\ \A q \in Robot : robot[q] # "free" => robot'[q] # "free"
    BY <1>2, <1>3 DEF Rests, Unobserved, LatchedHasNoGoal
  <2> QED BY <1>1, <2>1, OthersKeepPause
<1>4. ASSUME NEW r \in Robot, StoppedElsewhere(r) PROVE PauseInv'
  <2>1. \A q \in Robot : robot[q] # "free" => robot'[q] # "free"
    BY <1>2, <1>4 DEF StoppedElsewhere, Latch
  <2>2. LatchedHasNoGoal'
    BY <1>2, <1>4 DEF StoppedElsewhere, Latch, LatchedHasNoGoal
  <2> QED BY <1>1, <2>1, <2>2, OthersKeepPause
<1>5. ASSUME NEW r \in Robot, Released(r) PROVE PauseInv'
  <2>1. LatchedHasNoGoal' /\ worker.at = "idle"
    BY <1>2, <1>5 DEF Released, LatchedHasNoGoal
  <2> QED BY <1>1, <2>1, OthersKeepPause
<1>6. CASE GoalEnds \/ FollowerChanges \/ DeadlinePasses
  <2>1. robot' = robot /\ LatchedHasNoGoal'
    BY <1>2, <1>6 DEF GoalEnds, FollowerChanges, DeadlinePasses, field, LatchedHasNoGoal
  <2> QED BY <1>1, <2>1, OthersKeepPause
<1> QED BY <1>3, <1>4, <1>5, <1>6 DEF World

(* Every step keeps the promise.                                           *)
LEMMA NextKeepsPause == Inv /\ PauseInv /\ [Next]_vars => PauseInv'
<1> SUFFICES ASSUME Inv, PauseInv, [Next]_vars PROVE PauseInv'
  OBVIOUS
<1>1. LatchedHasNoGoal
  BY DEF PauseInv
<1>2. CASE Operator \/ UNCHANGED vars \/ \E followLost \in BOOLEAN : RaiseAlert(followLost)
  <2>1. UNCHANGED <<worker, field>>
    BY <1>2 DEF Operator, RefuseRequest, CreateMission, EditMission, SubmitStart, SubmitMission,
       SubmitFormation, Enqueue, Request, RaiseAlert, TickerResumes, vars
  <2> QED BY <1>1, <2>1, OthersKeepPause DEF field, LatchedHasNoGoal
<1>3. CASE TickerStep /\ ~TickerCall
  <2>1. UNCHANGED <<worker, field>>
    BY <1>3 DEF TickerStep, RuntimeTick, Protected, SettleFormation, Succeed, Advance,
       SettleTimeout, FollowerLost, FinishHalt, NothingToTick, Ticks, Advanced, AdvanceRefused,
       AdvanceFailed, LostStopped, TickerResumes
  <2> QED BY <1>1, <2>1, OthersKeepPause DEF field, LatchedHasNoGoal
<1>4. CASE TickerCall
  <2>1. PICK accepted \in BOOLEAN : Answers(ticker, accepted) /\ UNCHANGED worker
    BY <1>4 DEF TickerCall
  <2>2. ticker \in Coroutine /\ ticker.todo # <<>> /\ TypeOK
    BY <2>1 DEF Answers, Inv, TypeOK, Coherent
  <2>3. LatchedHasNoGoal' /\ \A r \in Robot : robot[r] # "free" => robot'[r] # "free"
    BY <1>1, <2>1, <2>2, CallsLatch
  <2> QED BY <2>1, <2>3, OthersKeepPause
<1>5. CASE Restart
  BY <1>5, WorkerKeepsPause DEF Restart
<1> QED
  BY <1>2, <1>3, <1>4, <1>5, WorkerStepKeepsPause, WorldKeepsPause DEF Next

(* When a pause or a cancel ends acknowledged, the robots are latched and  *)
(* the master has no goal, whatever the tick sent between its three calls. *)
THEOREM PauseHolds == Spec => []AcknowledgedPauseHolds
<1>1. Init => PauseInv
  BY DEF Init, Idle, PauseInv, LatchedHasNoGoal, HaltLatches, HaltOp
<1>2. PauseInv => AcknowledgedPauseHolds
  BY DEF PauseInv, HaltLatches, LatchedHasNoGoal, AcknowledgedPauseHolds, HaltOp, ToCome, Robot
<1> QED BY <1>1, <1>2, NextKeepsPause, SpecInv, PTL DEF Spec

-----------------------------------------------------------------------------
(* A claimed start is served.  Nobody but the handler of start writes      *)
(* STARTING: the copies the coroutines hold say something else once the    *)
(* start itself is over, and the worker has no command when it takes one.  *)
(* What the start finds past the end of the plan is past it on record too, *)
(* or another start of the mission is queued.                              *)
Serving == {"start", "unfollow", "drive", "fail"}
StartOf(m) == [op |-> "start", m |-> m]
Queued(c) == \E i \in 1..Len(queue) : queue[i] = c

StartSeesPlan ==
  /\ worker.op = "start" /\ worker.m \in Mission
  /\ row[worker.m].state = "STARTING" /\ HasGoal(row[worker.m])
  => HasGoal(worker.copy) \/ Queued(StartOf(worker.m))

ServedInv ==
  /\ worker.at = "idle" => worker.op = "none"
  /\ worker.op # "start" => worker.copy.state # "STARTING"
  /\ ticker.copy.state # "STARTING"
  /\ StartSeesPlan
  /\ StartingIsServed

NoNewStart == \A m \in Mission : row'[m].state = "STARTING" => row'[m] = row[m]

(* A row written with another state starts nothing.                        *)
LEMMA StoreStartsNothing ==
  ASSUME TypeOK, NEW m, NEW data, data.state # "STARTING", Store(m, data)
  PROVE  NoNewStart /\ (m \in Mission => row'[m].state # "STARTING")
BY DEF Store, TypeOK, NoNewStart

(* A step that adds no start, takes no command and lets the worker serve   *)
(* the mission it served keeps every claim.                                *)
LEMMA ServiceGoesOn ==
  ASSUME StartingIsServed, NoNewStart,
         \A m \in Mission : Queued(StartOf(m)) => Queued(StartOf(m))',
         \/ worker'.m = worker.m /\ (worker.op \in Serving => worker'.op \in Serving)
         \/ worker.op \notin Serving
         \/ worker.m \in Mission => row'[worker.m].state # "STARTING"
  PROVE  StartingIsServed'
<1> SUFFICES ASSUME NEW m \in Mission, row'[m].state = "STARTING", HasGoal(row'[m])
             PROVE  Queued(StartOf(m))' \/ (worker'.m = m /\ worker'.op \in Serving)
  BY DEF StartingIsServed, StartOf, Serving, Queued
<1>1. row[m].state = "STARTING" /\ HasGoal(row[m])
  BY DEF NoNewStart
<1>2. Queued(StartOf(m)) \/ (worker.m = m /\ worker.op \in Serving)
  BY <1>1 DEF StartingIsServed, StartOf, Serving, Queued
<1> QED BY <1>2

(* A start under way sees the plan it saw.                                 *)
LEMMA PlanIsSeen ==
  ASSUME StartSeesPlan, NoNewStart,
         \A m \in Mission : Queued(StartOf(m)) => Queued(StartOf(m))',
         \/ worker'.op = worker.op /\ worker'.m = worker.m /\ worker'.copy = worker.copy
         \/ worker'.op # "start"
  PROVE  StartSeesPlan'
<1> SUFFICES ASSUME worker'.op = "start", worker'.m \in Mission,
                    row'[worker'.m].state = "STARTING", HasGoal(row'[worker'.m])
             PROVE  HasGoal(worker'.copy) \/ Queued(StartOf(worker.m))'
  BY DEF StartSeesPlan
<1>1. row[worker.m].state = "STARTING" /\ HasGoal(row[worker.m]) /\ worker.m \in Mission
  BY DEF NoNewStart
<1> QED BY <1>1 DEF StartSeesPlan

(* A worker that takes a command leaves every start in the queue but that  *)
(* one.                                                                    *)
LEMMA TakingLeaves ==
  ASSUME TypeOK, queue # <<>>, queue' = Tail(queue), NEW c, c # Head(queue), Queued(c)
  PROVE  Queued(c)'
<1>1. queue \in Seq(Command)
  BY DEF TypeOK
<1>2. PICK i \in 1..Len(queue) : queue[i] = c
  BY DEF Queued
<1>3. i # 1
  <2>1. Head(queue) = queue[1]
    BY <1>1
  <2> QED BY <1>2, <2>1
<1>4. i - 1 \in 1..Len(queue') /\ queue'[i - 1] = queue[i]
  BY <1>1, <1>3
<1> QED BY <1>2, <1>4 DEF Queued

(* A worker that takes another command than a start served nobody.         *)
LEMMA TakingServes ==
  ASSUME Inv, ServedInv, NEW op, op # "start", Take(op), NoNewStart
  PROVE  StartingIsServed'
<1>1. TypeOK /\ queue # <<>> /\ queue' = Tail(queue) /\ worker.op = "none" /\ Head(queue).op = op
  BY DEF Inv, Take, ServedInv
<1>2. ASSUME NEW m \in Mission, Queued(StartOf(m)) PROVE Queued(StartOf(m))'
  <2>1. Head(queue) # StartOf(m)
    BY <1>1 DEF StartOf
  <2> QED BY <1>1, <1>2, <2>1, TakingLeaves
<1> QED BY <1>1, <1>2, ServiceGoesOn DEF ServedInv, Serving

(* The worker begins a command.                                            *)
LEMMA TakesKeepServed ==
  ASSUME Inv, ServedInv,
         \/ Validate \/ Start \/ CancelUnstarted \/ Halt("pause", "PAUSING")
         \/ Halt("cancel", "CANCELING") \/ Pair \/ Unpair \/ PauseFormation \/ RejoinFormation
  PROVE  ServedInv'
<1> DEFINE m == Head(queue).m
<1>1. TypeOK /\ UNCHANGED ticker
  BY DEF Inv, Validate, Start, CancelUnstarted, Halt, Pair, Unpair, PauseFormation,
         RejoinFormation, Take
<1>2. CASE Start
  <2>1. queue \in Seq(Command) /\ queue # <<>> /\ queue' = Tail(queue)
        /\ worker.op = "none" /\ Head(queue).op = "start" /\ row' = row
    BY <1>1, <1>2 DEF TypeOK, Take, Start, ServedInv
  <2>2. worker'.at = "await" /\ worker'.op = "start" /\ worker'.m = m
    BY <1>2 DEF Start, Awaiting
  <2>3. ASSUME NEW n \in Mission, row[n].state = "STARTING", HasGoal(row[n])
        PROVE  Queued(StartOf(n))' \/ worker'.m = n
    <3>1. Queued(StartOf(n))
      BY <2>1, <2>3 DEF ServedInv, StartingIsServed, StartOf, Queued
    <3>2. CASE Head(queue) = StartOf(n)
      BY <2>2, <3>2 DEF StartOf
    <3>3. CASE Head(queue) # StartOf(n)
      BY <1>1, <2>1, <3>1, <3>3, TakingLeaves
    <3> QED BY <3>2, <3>3
  <2>4. StartingIsServed'
    BY <2>1, <2>2, <2>3 DEF StartingIsServed, StartOf, Queued
  <2>5. StartSeesPlan'
    <3>1. m \in Mission /\ row[m] \in Row
      BY <1>2, TakeOK DEF Start, MissionOp
    <3>2. worker'.copy = [row[m] EXCEPT !.state = "STARTING"]
      BY <1>2 DEF Start, Awaiting
    <3>3. worker'.copy.wp = row[m].wp /\ worker'.copy.last = row[m].last
      BY <3>1, <3>2 DEF Row
    <3> QED BY <2>1, <2>2, <3>3 DEF StartSeesPlan, HasGoal
  <2> QED BY <1>1, <2>2, <2>4, <2>5 DEF ServedInv
<1>3. CASE Validate \/ CancelUnstarted \/ Pair \/ Unpair
  <2>1. UNCHANGED worker /\ NoNewStart
    <3>1. CASE Pair \/ Unpair
      BY <3>1 DEF Pair, Unpair, NoNewStart
    <3>2. CASE Validate
      <4>1. row[m] \in Row
        BY <3>2, TakeOK DEF Validate, MissionOp
      <4>2. [row[m] EXCEPT !.state = "READY"].state # "STARTING"
        BY <4>1 DEF Row
      <4> QED BY <1>1, <3>2, <4>2, StoreStartsNothing DEF Validate
    <3>3. CASE CancelUnstarted
      <4>1. row[m] \in Row
        BY <3>3, TakeOK DEF CancelUnstarted, MissionOp
      <4>2. [row[m] EXCEPT !.state = "CANCELED"].state # "STARTING"
        BY <4>1 DEF Row
      <4> QED BY <1>1, <3>3, <4>2, StoreStartsNothing DEF CancelUnstarted
    <3> QED BY <1>3, <3>1, <3>2, <3>3
  <2>2. StartingIsServed'
    BY <1>3, <2>1, TakingServes DEF Validate, CancelUnstarted, Pair, Unpair
  <2>3. worker.op # "start"
    BY <1>3 DEF ServedInv, Validate, CancelUnstarted, Pair, Unpair, Take
  <2> QED BY <1>1, <2>1, <2>2, <2>3 DEF ServedInv, StartSeesPlan
<1>4. CASE Halt("pause", "PAUSING") \/ Halt("cancel", "CANCELING")
  <2>1. StartingIsServed'
    BY <1>4, TakingServes DEF Halt, NoNewStart
  <2>2. row[m] \in Row
    BY <1>4, TakeOK DEF Halt, MissionOp
  <2>3. worker'.at = "await" /\ worker'.copy.state # "STARTING" /\ worker'.op # "start"
    BY <1>4, <2>2 DEF Halt, Awaiting, Row
  <2> QED BY <1>1, <2>1, <2>3 DEF ServedInv, StartSeesPlan
<1>5. CASE PauseFormation \/ RejoinFormation
  <2>1. StartingIsServed'
    BY <1>5, TakingServes DEF PauseFormation, RejoinFormation, NoNewStart
  <2>2. worker'.at = "await" /\ worker'.copy.state # "STARTING" /\ worker'.op # "start"
    BY <1>5 DEF PauseFormation, RejoinFormation, Awaiting, BlankRow
  <2> QED BY <1>1, <2>1, <2>2 DEF ServedInv, StartSeesPlan
<1> QED BY <1>2, <1>3, <1>4, <1>5

(* The worker goes on with the command it has.                             *)
LEMMA WorkKeepsServed ==
  ASSUME Inv, ServedInv,
         \/ WorkerCall \/ FollowerStarted \/ StartedPastTheEnd \/ FollowerRefused \/ Unfollowed
         \/ Driving \/ DriveRefused \/ DriveFailed \/ Halted
         \/ FormationPaused \/ RejoinStopped \/ Rejoined
  PROVE  ServedInv'
<1>1. TypeOK /\ UNCHANGED <<ticker, queue>> /\ worker \in Coroutine /\ worker.copy \in Row
  BY DEF Inv, TypeOK, Coroutine, WorkerCall, Answers, WorkerResumes, FollowerStarted,
         StartedPastTheEnd, FollowerRefused, Unfollowed, Driving, DriveRefused, DriveFailed, Halted,
         FormationPaused, RejoinStopped, Rejoined
<1>2. Idle.at = "idle" /\ Idle.op = "none" /\ Idle.copy.state # "STARTING"
  BY DEF Idle, BlankRow
<1>3. CASE WorkerCall
  <2>1. row' = row /\ worker'.op = worker.op /\ worker'.m = worker.m
        /\ worker'.copy = worker.copy /\ worker'.at \in {"run", "await"}
    BY <1>1, <1>3 DEF WorkerCall, Answers, Answered, Coroutine
  <2>2. StartingIsServed'
    BY <1>1, <2>1, ServiceGoesOn DEF ServedInv, NoNewStart, Queued
  <2>3. StartSeesPlan'
    BY <1>1, <2>1, PlanIsSeen DEF ServedInv, NoNewStart, Queued
  <2> QED BY <1>1, <2>1, <2>2, <2>3 DEF ServedInv
<1>4. CASE FollowerStarted \/ FollowerRefused \/ DriveRefused
  <2>1. row' = row /\ worker'.at = "await" /\ worker'.op \in {"drive", "unfollow", "fail"}
        /\ worker'.m = worker.m /\ worker'.copy.state # "STARTING"
    BY <1>1, <1>4 DEF FollowerStarted, FollowerRefused, DriveRefused, Failing, Awaiting, Row
  <2>2. StartingIsServed'
    BY <1>1, <2>1, ServiceGoesOn DEF ServedInv, NoNewStart, Serving, Queued
  <2> QED BY <1>1, <2>1, <2>2 DEF ServedInv, StartSeesPlan
<1>5. CASE Unfollowed \/ Driving \/ DriveFailed \/ Halted
  <2>1. worker.op # "start" /\ Store(worker.m, worker.copy) /\ worker' = Idle
    BY <1>5 DEF Unfollowed, Driving, DriveFailed, Halted, Running
  <2>2. NoNewStart /\ (worker.m \in Mission => row'[worker.m].state # "STARTING")
    BY <1>1, <2>1, StoreStartsNothing DEF ServedInv
  <2>3. StartingIsServed'
    BY <1>1, <2>2, ServiceGoesOn DEF ServedInv, Queued
  <2> QED BY <1>1, <1>2, <2>1, <2>3 DEF ServedInv, StartSeesPlan
<1>6. CASE FormationPaused \/ RejoinStopped \/ Rejoined
  <2>1. row' = row /\ worker.op \notin Serving
    BY <1>6 DEF FormationPaused, RejoinStopped, Rejoined, Running, Serving
  <2>2. StartingIsServed'
    BY <1>1, <2>1, ServiceGoesOn DEF ServedInv, NoNewStart, Queued
  <2>3. worker' = Idle \/ worker' = Awaiting("rejoining", NoMission, BlankRow, Rejoin)
    BY <1>6 DEF FormationPaused, RejoinStopped, Rejoined
  <2>4. /\ worker'.at = "idle" => worker'.op = "none"
        /\ worker'.copy.state # "STARTING" /\ worker'.op # "start"
    BY <1>2, <2>3 DEF Awaiting, BlankRow
  <2> QED BY <1>1, <2>2, <2>4 DEF ServedInv, StartSeesPlan
<1>7. CASE StartedPastTheEnd
  <2>1. row' = row /\ worker.op = "start" /\ ~HasGoal(worker.copy) /\ worker' = Idle
    BY <1>7 DEF StartedPastTheEnd, Running
  <2>2. ASSUME NEW m \in Mission, row[m].state = "STARTING", HasGoal(row[m])
        PROVE  Queued(StartOf(m))
    BY <2>1, <2>2 DEF ServedInv, StartSeesPlan, StartingIsServed, StartOf, Queued
  <2>3. StartingIsServed'
    BY <1>1, <2>1, <2>2 DEF StartingIsServed, StartOf, Queued
  <2> QED BY <1>1, <1>2, <2>1, <2>3 DEF ServedInv, StartSeesPlan
<1> QED BY <1>3, <1>4, <1>5, <1>6, <1>7

(* The tick writes no start, and takes none.                               *)
LEMMA TickKeepsServed ==
  ASSUME Inv, ServedInv, TickerStep \/ \E followLost \in BOOLEAN : RaiseAlert(followLost)
  PROVE  ServedInv'
<1>1. TypeOK /\ ticker \in Coroutine /\ ticker.copy \in Row /\ UNCHANGED <<queue, worker>>
  BY DEF Inv, TypeOK, Coroutine, TickerStep, TickerCall, Answers, TickerResumes, RuntimeTick,
         Protected, SettleFormation, Succeed, Advance, SettleTimeout, FollowerLost, FinishHalt,
         NothingToTick, Ticks, Advanced, AdvanceRefused, AdvanceFailed, LostStopped, RaiseAlert
<1>2. /\ Idle.copy.state # "STARTING" /\ AtAlerts.copy.state # "STARTING"
      /\ \A op, calls : Awaiting(op, NoMission, BlankRow, calls).copy.state # "STARTING"
  BY DEF Idle, AtAlerts, Awaiting, BlankRow
<1>3. ASSUME NEW s \in MissionState \ {"STARTING"}, NEW data \in Row
      PROVE  [data EXCEPT !.state = s].state # "STARTING"
  BY DEF Row
<1>4. {"SUCCEEDED", "PAUSED", "CANCELED", "FAILED", "PAUSING"} \subseteq MissionState \ {"STARTING"}
  BY DEF MissionState, Resting, Final, InFlight
<1>5. active \in Mission => row[active] \in Row
  BY <1>1 DEF TypeOK
<1>6. ticker'.copy.state # "STARTING"
  <2>1. CASE TickerCall
    BY <1>1, <2>1 DEF TickerCall, Answered, Coroutine, ServedInv
  <2>2. CASE RuntimeTick \/ Protected \/ Succeed \/ SettleTimeout \/ FinishHalt \/ NothingToTick
             \/ Advanced \/ AdvanceFailed \/ LostStopped
    BY <1>2, <2>2 DEF RuntimeTick, Protected, Succeed, SettleTimeout, FinishHalt, NothingToTick,
                      Advanced, AdvanceFailed, LostStopped
  <2>3. CASE SettleFormation
    BY <1>1, <2>3 DEF SettleFormation, Coroutine, ServedInv
  <2>4. CASE Advance
    <3>1. row[active] \in Row /\ row[active].state = "RUNNING"
      BY <1>5, <2>4 DEF Advance, Ticks
    <3>2. NextGoal(row[active]).state = "RUNNING"
      BY <3>1 DEF NextGoal, Row
    <3> QED BY <2>4, <3>2 DEF Advance, Awaiting
  <2>5. CASE FollowerLost
    BY <1>3, <1>4, <1>5, <2>5 DEF FollowerLost, Ticks, Awaiting
  <2>6. CASE AdvanceRefused
    BY <1>1, <1>3, <1>4, <2>6 DEF AdvanceRefused, Failing, Awaiting
  <2>7. CASE \E followLost \in BOOLEAN : RaiseAlert(followLost)
    <3>1. ticker' = ticker \/ \E op : ticker' = Awaiting(op, NoMission, BlankRow, StopBoth)
      BY <2>7 DEF RaiseAlert
    <3> QED BY <1>2, <3>1 DEF ServedInv
  <2> QED BY <2>1, <2>2, <2>3, <2>4, <2>5, <2>6, <2>7 DEF TickerStep
<1>7. NoNewStart
  <2>1. CASE row' = row
    BY <2>1 DEF NoNewStart
  <2>2. ASSUME NEW data, NEW m, Store(m, data), data.state # "STARTING" PROVE NoNewStart
    BY <1>1, <2>2, StoreStartsNothing
  <2>3. CASE Succeed \/ SettleTimeout
    BY <1>3, <1>4, <1>5, <2>2, <2>3 DEF Succeed, SettleTimeout, Ticks
  <2>4. CASE FinishHalt
    <3> DEFINE s == IF row[active].state = "CANCELING" THEN "CANCELED" ELSE "PAUSED"
    <3>1. s \in MissionState \ {"STARTING"} /\ row[active] \in Row
      BY <1>4, <1>5, <2>4 DEF FinishHalt, Ticks
    <3>2. Store(active, [row[active] EXCEPT !.state = s])
      BY <2>4 DEF FinishHalt
    <3> QED BY <1>3, <2>2, <3>1, <3>2
  <2>5. CASE Advanced \/ AdvanceFailed
    BY <2>2, <2>5 DEF Advanced, AdvanceFailed, ServedInv
  <2>6. CASE LostStopped
    BY <2>1, <2>2, <2>6 DEF LostStopped, ServedInv
  <2>7. CASE MarkPausing
    BY <1>3, <1>4, <1>5, <2>1, <2>2, <2>7 DEF MarkPausing
  <2>8. CASE \E followLost \in BOOLEAN : RaiseAlert(followLost)
    BY <2>1, <2>7, <2>8 DEF RaiseAlert
  <2>9. CASE TickerCall \/ RuntimeTick \/ Protected \/ SettleFormation \/ Advance \/ FollowerLost
             \/ NothingToTick \/ AdvanceRefused
    BY <2>1, <2>9 DEF TickerCall, Answers, RuntimeTick, Protected, SettleFormation, Advance,
                      FollowerLost, NothingToTick, AdvanceRefused
  <2> QED BY <2>3, <2>4, <2>5, <2>6, <2>8, <2>9 DEF TickerStep
<1>8. StartingIsServed' /\ StartSeesPlan'
  BY <1>1, <1>7, ServiceGoesOn, PlanIsSeen DEF ServedInv, Queued
<1> QED BY <1>1, <1>6, <1>8 DEF ServedInv

(* Operators, the world and a restart.                                     *)
LEMMA OthersKeepServed ==
  ASSUME Inv, ServedInv, Operator \/ World \/ Restart \/ UNCHANGED vars
  PROVE  ServedInv'
<1>1. TypeOK
  BY DEF Inv
<1>2. CASE World \/ UNCHANGED vars
  <2>1. UNCHANGED <<row, queue, worker, ticker>>
    BY <1>2 DEF World, Rests, Unobserved, StoppedElsewhere, Released, GoalEnds, FollowerChanges,
                DeadlinePasses, Outside, vars
  <2> QED BY <2>1 DEF ServedInv, StartingIsServed, StartSeesPlan, Queued
<1>3. CASE Restart
  <2>1. \A m \in Mission : row'[m].state # "STARTING"
    BY <1>1, <1>3 DEF Restart, Recovered, InFlight, TypeOK, Row
  <2> QED BY <1>3, <2>1 DEF Restart, ServedInv, StartingIsServed, StartSeesPlan, Idle, BlankRow
<1>4. ASSUME UNCHANGED <<worker, ticker>>, NoNewStart, queue' = queue \/ \E c : queue' = Append(queue, c)
      PROVE  ServedInv'
  <2>1. queue \in Seq(Command)
    BY <1>1 DEF TypeOK
  <2>2. \A i \in 1..Len(queue) : i \in 1..Len(queue') /\ queue'[i] = queue[i]
    BY <1>4, <2>1
  <2>3. StartingIsServed' /\ StartSeesPlan'
    BY <1>4, <2>2, ServiceGoesOn, PlanIsSeen DEF ServedInv, Queued
  <2> QED BY <1>4, <2>3 DEF ServedInv
<1>5. CASE \E m \in Mission : CreateMission(m) \/ EditMission(m)
  <2>1. PICK m \in Mission : CreateMission(m) \/ EditMission(m)
    BY <1>5
  <2>2. PICK r \in Row : \E plan \in Plans(r) : Store(m, plan)
    BY <1>1, <2>1, BlankOK DEF CreateMission, EditMission, TypeOK
  <2>3. NoNewStart
    BY <1>1, <2>2, PlansOK, StoreStartsNothing
  <2> QED BY <1>4, <2>1, <2>3 DEF CreateMission, EditMission, Request
<1>6. CASE \E m \in Mission : \E op \in MissionOp : SubmitMission(m, op)
  BY <1>4, <1>6 DEF SubmitMission, Enqueue, Request, NoNewStart
<1>7. CASE \E op \in FormationOp : SubmitFormation(op)
  BY <1>4, <1>7 DEF SubmitFormation, Enqueue, Request, NoNewStart
<1>9. CASE RefuseRequest
  BY <1>4, <1>9 DEF RefuseRequest, NoNewStart
<1>8. ASSUME NEW m \in Mission, SubmitStart(m)
      PROVE  ServedInv'
  <2>1. queue \in Seq(Command) /\ UNCHANGED <<worker, ticker>>
        /\ queue' = Append(queue, StartOf(m)) /\ StartOf(m) \in Command
    BY <1>1, <1>8 DEF TypeOK, SubmitStart, Enqueue, Request, StartOf, Command, MissionOp
  <2>2. \A i \in 1..Len(queue) : i \in 1..Len(queue') /\ queue'[i] = queue[i]
    BY <2>1
  <2>3. Len(queue) + 1 \in 1..Len(queue') /\ queue'[Len(queue) + 1] = StartOf(m)
    BY <2>1
  <2>4. \A n \in Mission \ {m} : row'[n] = row[n]
    BY <1>1, <1>8 DEF SubmitStart, Store, TypeOK
  <2>5. \A c : Queued(c) => Queued(c)'
    BY <2>2 DEF Queued
  <2>6. Queued(StartOf(m))'
    BY <2>3 DEF Queued
  <2>7. ASSUME NEW n \in Mission \ {m}, row[n].state = "STARTING", HasGoal(row[n])
        PROVE  Queued(StartOf(n))' \/ (worker'.m = n /\ worker'.op \in Serving)
    <3>1. Queued(StartOf(n)) \/ (worker.m = n /\ worker.op \in Serving)
      BY <2>7 DEF ServedInv, StartingIsServed, StartOf, Serving, Queued
    <3> QED BY <2>1, <2>5, <3>1
  <2>8. StartingIsServed'
    BY <2>4, <2>6, <2>7 DEF StartingIsServed, StartOf, Serving, Queued
  <2>9. StartSeesPlan'
    BY <2>1, <2>4, <2>5, <2>6 DEF ServedInv, StartSeesPlan
  <2> QED BY <2>1, <2>8, <2>9 DEF ServedInv
<1> QED BY <1>2, <1>3, <1>5, <1>6, <1>7, <1>8, <1>9 DEF Operator

(* The invariant of the claimed starts.                                    *)
LEMMA SpecServed == Spec => []ServedInv
<1>1. Init => ServedInv
  <2> SUFFICES ASSUME Init PROVE ServedInv
    OBVIOUS
  <2>1. \A m \in Mission : row[m].state # "STARTING"
    BY ConstantsOK DEF Init, Persisted, Resting, Final
  <2> QED BY <2>1 DEF Init, ServedInv, StartingIsServed, StartSeesPlan, Idle, BlankRow
<1>2. Inv /\ ServedInv /\ [Next]_vars => ServedInv'
  BY TakesKeepServed, WorkKeepsServed, TickKeepsServed, OthersKeepServed DEF Next, WorkerStep
<1> QED BY <1>1, <1>2, SpecInv, PTL DEF Spec

(* A mission recorded as STARTING that has a waypoint to go to always has  *)
(* its start command queued or executing, for any number of missions,      *)
(* queue and bounds.                                                       *)
THEOREM StartsServed == Spec => []StartingIsServed
<1>1. ServedInv => StartingIsServed
  BY DEF ServedInv
<1> QED BY <1>1, SpecServed, PTL

-----------------------------------------------------------------------------
(* What runs has a waypoint to go to: the start looks at its copy before   *)
(* it says RUNNING, the tick goes on to a waypoint of the plan it read,    *)
(* and every other copy halts or ends the mission.                         *)
Sane(r) == r.state = "RUNNING" => HasGoal(r)

GoalInv == RunningHasGoal /\ Sane(worker.copy) /\ Sane(ticker.copy)

(* A row stored over another.                                              *)
LEMMA StoreIsSane ==
  ASSUME TypeOK, RunningHasGoal, NEW m, NEW data, Sane(data), Store(m, data)
  PROVE  RunningHasGoal'
BY DEF Store, TypeOK, RunningHasGoal, Sane

(* A row with another state than RUNNING.                                  *)
LEMMA OtherIsSane ==
  ASSUME NEW r \in Row, NEW s, s # "RUNNING"
  PROVE  Sane([r EXCEPT !.state = s])
BY DEF Sane, Row

(* The copies of a coroutine without a mission.                            *)
LEMMA BlankIsSane ==
  /\ Sane(Idle.copy) /\ Sane(AtAlerts.copy)
  /\ \A op, calls : Sane(Awaiting(op, NoMission, BlankRow, calls).copy)
BY DEF Sane, Idle, AtAlerts, Awaiting, BlankRow

(* The worker.                                                             *)
LEMMA WorkIsSane == Inv /\ GoalInv /\ WorkerStep => GoalInv'
<1> SUFFICES ASSUME Inv, GoalInv, WorkerStep PROVE GoalInv'
  OBVIOUS
<1> DEFINE m == Head(queue).m
<1>1. TypeOK /\ worker \in Coroutine /\ worker.copy \in Row
  BY DEF Inv, TypeOK, Coroutine
<1>2. CASE WorkerCall
  <2>1. UNCHANGED <<row, ticker>> /\ worker'.copy = worker.copy
    BY <1>1, <1>2 DEF WorkerCall, Answers, Answered, Coroutine
  <2> QED BY <2>1 DEF GoalInv, RunningHasGoal
<1>3. CASE Validate \/ CancelUnstarted
  <2>1. row[m] \in Row /\ UNCHANGED <<worker, ticker>>
    BY <1>3, TakeOK DEF Validate, CancelUnstarted, MissionOp
  <2>2. RunningHasGoal'
    BY <1>1, <1>3, <2>1, OtherIsSane, StoreIsSane DEF Validate, CancelUnstarted, GoalInv
  <2> QED BY <2>1, <2>2 DEF GoalInv
<1>4. CASE Pair \/ Unpair
  BY <1>4 DEF Pair, Unpair, Take, GoalInv, RunningHasGoal
<1>5. CASE Start
  <2>1. row[m] \in Row /\ UNCHANGED <<row, ticker>>
    BY <1>5, TakeOK DEF Start, MissionOp
  <2>2. worker'.copy = [row[m] EXCEPT !.state = "STARTING"]
    BY <1>5 DEF Start, Awaiting
  <2>3. Sane(worker'.copy)
    BY <2>1, <2>2, OtherIsSane
  <2> QED BY <2>1, <2>3 DEF GoalInv, RunningHasGoal
<1>6. ASSUME NEW op \in {"pause", "cancel"}, NEW s \in {"PAUSING", "CANCELING"}, Halt(op, s)
      PROVE  GoalInv'
  <2>1. row[m] \in Row /\ UNCHANGED <<row, ticker>>
    BY <1>6, TakeOK DEF Halt, MissionOp
  <2>2. worker'.copy = [row[m] EXCEPT !.state = s]
    BY <1>6 DEF Halt, Awaiting
  <2>3. Sane(worker'.copy)
    BY <2>1, <2>2, OtherIsSane
  <2> QED BY <2>1, <2>3 DEF GoalInv, RunningHasGoal
<1>7. CASE PauseFormation \/ RejoinFormation \/ FormationPaused \/ RejoinStopped \/ Rejoined
            \/ StartedPastTheEnd
  <2>1. UNCHANGED <<row, ticker>>
    BY <1>7 DEF PauseFormation, RejoinFormation, FormationPaused, RejoinStopped, Rejoined,
                StartedPastTheEnd, Take, WorkerResumes
  <2>2. worker' = Idle \/ \E op, calls : worker' = Awaiting(op, NoMission, BlankRow, calls)
    BY <1>7 DEF PauseFormation, RejoinFormation, FormationPaused, RejoinStopped, Rejoined,
                StartedPastTheEnd
  <2> QED BY <2>1, <2>2, BlankIsSane DEF GoalInv, RunningHasGoal
<1>8. CASE FollowerStarted
  <2>1. UNCHANGED <<row, ticker>> /\ HasGoal(worker.copy)
        /\ worker'.copy = [worker.copy EXCEPT !.state = "RUNNING"]
    BY <1>8 DEF FollowerStarted, WorkerResumes, Awaiting
  <2>2. Sane(worker'.copy)
    BY <1>1, <2>1 DEF Sane, HasGoal, Row
  <2> QED BY <2>1, <2>2 DEF GoalInv, RunningHasGoal
<1>9. CASE FollowerRefused \/ DriveRefused
  <2>1. UNCHANGED <<row, ticker>>
    BY <1>9 DEF FollowerRefused, DriveRefused, WorkerResumes
  <2>2. \E s \in {"PAUSED", "FAILED"} : worker'.copy = [worker.copy EXCEPT !.state = s]
    BY <1>9 DEF FollowerRefused, DriveRefused, Failing, Awaiting
  <2>3. Sane(worker'.copy)
    BY <1>1, <2>2, OtherIsSane
  <2> QED BY <2>1, <2>3 DEF GoalInv, RunningHasGoal
<1>10. CASE Unfollowed \/ Driving \/ DriveFailed \/ Halted
  <2>1. UNCHANGED ticker /\ worker' = Idle /\ Store(worker.m, worker.copy)
    BY <1>10 DEF Unfollowed, Driving, DriveFailed, Halted, WorkerResumes
  <2>2. RunningHasGoal'
    BY <1>1, <2>1, StoreIsSane DEF GoalInv
  <2> QED BY <2>1, <2>2, BlankIsSane DEF GoalInv
<1> QED BY <1>2, <1>3, <1>4, <1>5, <1>6, <1>7, <1>8, <1>9, <1>10 DEF WorkerStep

(* The tick.                                                               *)
LEMMA TickIsSane ==
  ASSUME Inv, GoalInv, TickerStep \/ \E followLost \in BOOLEAN : RaiseAlert(followLost)
  PROVE  GoalInv'
<1>1. TypeOK /\ ticker \in Coroutine /\ ticker.copy \in Row
      /\ (active \in Mission => row[active] \in Row)
  BY DEF Inv, TypeOK, Coroutine
<1>2. UNCHANGED worker
  BY DEF TickerStep, TickerCall, Answers, TickerResumes, RuntimeTick, Protected, SettleFormation,
         Succeed, Advance, SettleTimeout, FollowerLost, FinishHalt, NothingToTick, Ticks, Advanced,
         AdvanceRefused, AdvanceFailed, LostStopped, RaiseAlert
<1>3. Sane(ticker'.copy)
  <2>1. CASE TickerCall \/ SettleFormation
    <3>1. ticker'.copy = ticker.copy
      BY <1>1, <2>1 DEF TickerCall, Answered, SettleFormation, Coroutine
    <3> QED BY <3>1 DEF GoalInv
  <2>2. CASE RuntimeTick \/ Protected \/ Succeed \/ SettleTimeout \/ FinishHalt \/ NothingToTick
             \/ Advanced \/ AdvanceFailed \/ LostStopped
    BY <2>2, BlankIsSane DEF RuntimeTick, Protected, Succeed, SettleTimeout, FinishHalt,
                             NothingToTick, Advanced, AdvanceFailed, LostStopped
  <2>3. CASE Advance
    <3>1. row[active] \in Row /\ ~LastGoal(row[active])
          /\ ticker'.copy = NextGoal(row[active])
      BY <1>1, <2>3 DEF Advance, Ticks, Awaiting
    <3> QED BY <3>1, NextGoalOK DEF Sane
  <2>4. CASE FollowerLost
    <3>1. row[active] \in Row /\ ticker'.copy = [row[active] EXCEPT !.state = "PAUSING"]
      BY <1>1, <2>4 DEF FollowerLost, Ticks, Awaiting
    <3> QED BY <3>1, OtherIsSane
  <2>5. CASE AdvanceRefused
    <3>1. ticker'.copy = [ticker.copy EXCEPT !.state = "FAILED"]
      BY <2>5 DEF AdvanceRefused, Failing, Awaiting
    <3> QED BY <1>1, <3>1, OtherIsSane
  <2>6. CASE \E followLost \in BOOLEAN : RaiseAlert(followLost)
    <3>1. ticker' = ticker \/ \E op : ticker' = Awaiting(op, NoMission, BlankRow, StopBoth)
      BY <2>6 DEF RaiseAlert
    <3> QED BY <3>1, BlankIsSane DEF GoalInv
  <2> QED BY <2>1, <2>2, <2>3, <2>4, <2>5, <2>6 DEF TickerStep
<1>4. RunningHasGoal'
  <2>1. CASE row' = row
    BY <2>1 DEF GoalInv, RunningHasGoal
  <2>2. ASSUME NEW s \in {"SUCCEEDED", "PAUSED", "CANCELED", "PAUSING"}, active \in Mission,
               Store(active, [row[active] EXCEPT !.state = s])
        PROVE  RunningHasGoal'
    BY <1>1, <2>2, OtherIsSane, StoreIsSane DEF GoalInv
  <2>3. ASSUME NEW m, Store(m, ticker.copy) PROVE RunningHasGoal'
    BY <1>1, <2>3, StoreIsSane DEF GoalInv
  <2>4. CASE Succeed \/ SettleTimeout
    BY <2>2, <2>4 DEF Succeed, SettleTimeout, Ticks
  <2>5. CASE FinishHalt
    <3>1. PICK s \in {"CANCELED", "PAUSED"} : Store(active, [row[active] EXCEPT !.state = s])
      BY <2>5 DEF FinishHalt
    <3> QED BY <2>2, <2>5, <3>1 DEF FinishHalt, Ticks
  <2>6. CASE Advanced \/ AdvanceFailed \/ LostStopped
    BY <2>1, <2>3, <2>6 DEF Advanced, AdvanceFailed, LostStopped
  <2>7. CASE \E followLost \in BOOLEAN : RaiseAlert(followLost)
    BY <2>1, <2>2, <2>7 DEF RaiseAlert, MarkPausing
  <2>8. CASE TickerCall \/ RuntimeTick \/ Protected \/ SettleFormation \/ Advance \/ FollowerLost
             \/ NothingToTick \/ AdvanceRefused
    BY <2>1, <2>8 DEF TickerCall, Answers, RuntimeTick, Protected, SettleFormation, Advance,
                      FollowerLost, NothingToTick, AdvanceRefused
  <2> QED BY <2>4, <2>5, <2>6, <2>7, <2>8 DEF TickerStep
<1> QED BY <1>2, <1>3, <1>4 DEF GoalInv

(* Operators, the world and a restart.                                     *)
LEMMA OthersAreSane ==
  ASSUME Inv, GoalInv, Operator \/ World \/ Restart \/ UNCHANGED vars
  PROVE  GoalInv'
<1>1. TypeOK
  BY DEF Inv
<1>2. CASE World \/ UNCHANGED vars
  <2>1. UNCHANGED <<row, worker, ticker>>
    BY <1>2 DEF World, Rests, Unobserved, StoppedElsewhere, Released, GoalEnds, FollowerChanges,
                DeadlinePasses, Outside, vars
  <2> QED BY <2>1 DEF GoalInv, RunningHasGoal
<1>3. CASE Restart
  <2>1. \A m \in Mission : row'[m].state # "RUNNING"
    BY <1>1, <1>3 DEF Restart, Recovered, InFlight, TypeOK, Row
  <2> QED BY <1>3, <2>1, BlankIsSane DEF Restart, GoalInv, RunningHasGoal
<1>4. ASSUME NEW m \in Mission, CreateMission(m) \/ EditMission(m) PROVE GoalInv'
  <2>1. PICK r \in Row : \E plan \in Plans(r) : Store(m, plan)
    BY <1>1, <1>4, BlankOK DEF CreateMission, EditMission, TypeOK
  <2>2. RunningHasGoal'
    BY <1>1, <2>1, PlansOK, StoreIsSane DEF GoalInv, Sane
  <2> QED BY <1>4, <2>2 DEF CreateMission, EditMission, Request, GoalInv
<1>5. ASSUME NEW m \in Mission, SubmitStart(m) PROVE GoalInv'
  <2>1. row[m] \in Row /\ Store(m, [row[m] EXCEPT !.state = "STARTING"])
        /\ UNCHANGED <<worker, ticker>>
    BY <1>1, <1>5 DEF SubmitStart, Enqueue, Request, TypeOK
  <2>2. RunningHasGoal'
    BY <1>1, <2>1, OtherIsSane, StoreIsSane DEF GoalInv
  <2> QED BY <2>1, <2>2 DEF GoalInv
<1>6. CASE \/ RefuseRequest \/ \E op \in FormationOp : SubmitFormation(op)
           \/ \E m \in Mission : \E op \in MissionOp : SubmitMission(m, op)
  BY <1>6 DEF RefuseRequest, SubmitFormation, SubmitMission, Enqueue, Request, GoalInv, RunningHasGoal
<1> QED BY <1>2, <1>3, <1>4, <1>5, <1>6 DEF Operator

(* A mission recorded as RUNNING has a waypoint to go to, so the tick      *)
(* reads one, for any plans and edits of them.                             *)
THEOREM GoalsExist == Spec => []RunningHasGoal
<1>1. Init => GoalInv
  <2> SUFFICES ASSUME Init PROVE GoalInv
    OBVIOUS
  <2>1. \A m \in Mission : row[m].state # "RUNNING"
    BY ConstantsOK DEF Init, Persisted, Resting, Final
  <2> QED BY <2>1, BlankIsSane DEF Init, GoalInv, RunningHasGoal
<1>2. Inv /\ GoalInv /\ [Next]_vars => GoalInv'
  BY WorkIsSane, TickIsSane, OthersAreSane DEF Next
<1>3. GoalInv => RunningHasGoal
  BY DEF GoalInv
<1> QED BY <1>1, <1>2, <1>3, SpecInv, PTL DEF Spec

-----------------------------------------------------------------------------
(* What is over stays so.  Every write of a row names its mission through  *)
(* the queue, the worker, the tick or active_id; each handler that could   *)
(* bring a mission back there asks for another state first.                *)

(* Steps that write no row of m and do not bring it back into play.        *)
LEMMA StaysEnded ==
  ASSUME NEW m, Ended(m), row'[m] = row[m], worker'.m # m,
         \A i \in 1..Len(queue') : queue'[i].m # m,
         ticker'.m # m, ~(ticker'.op = "lost" /\ active' = m)
  PROVE  Ended(m)' /\ row'[m] = row[m]
BY DEF Ended, Commanded

(* A row is stored over that of another mission.                           *)
LEMMA StoreElsewhere ==
  ASSUME NEW m, NEW x, x # m, NEW data, Store(x, data), TypeOK
  PROVE  m \in Mission => row'[m] = row[m]
BY DEF Store, TypeOK

(* The worker.                                                             *)
LEMMA WorkEndsForGood ==
  ASSUME Inv, WorkerStep, NEW m \in Mission, Ended(m)
  PROVE  Ended(m)' /\ row'[m] = row[m]
<1> DEFINE h == Head(queue).m
<1>1. /\ TypeOK /\ worker \in Coroutine /\ queue \in Seq(Command) /\ worker.m # m
      /\ \A i \in 1..Len(queue) : queue[i].m # m
  BY DEF Inv, TypeOK, Ended, Commanded
<1>2. Idle.m # m /\ NoMission # m
  BY ConstantsOK DEF Idle
<1>3. /\ queue' = queue \/ (queue # <<>> /\ queue' = Tail(queue))
      /\ UNCHANGED ticker
  BY DEF WorkerStep, WorkerCall, Answers, Validate, Start, CancelUnstarted, Halt, Pair, Unpair,
         PauseFormation, RejoinFormation, Take, FollowerStarted, StartedPastTheEnd,
         FollowerRefused, Unfollowed, Driving, DriveRefused, DriveFailed, Halted,
         FormationPaused, RejoinStopped, Rejoined, WorkerResumes
<1>4. \A i \in 1..Len(queue') : queue'[i].m # m
  <2>1. CASE queue' = queue
    BY <1>1, <2>1
  <2>2. CASE queue # <<>> /\ queue' = Tail(queue)
    <3>1. \A i \in 1..Len(queue') : i + 1 \in 1..Len(queue) /\ queue'[i] = queue[i + 1]
      BY <1>1, <2>2
    <3> QED BY <1>1, <3>1
  <2> QED BY <1>3, <2>1, <2>2
<1>5. queue # <<>> => h # m
  <2>1. queue # <<>> => 1 \in 1..Len(queue) /\ Head(queue) = queue[1]
    BY <1>1
  <2> QED BY <1>1, <2>1
<1>6. active' \in {active, NoMission, worker.m}
  BY DEF WorkerStep, WorkerCall, Answers, Validate, Start, CancelUnstarted, Halt, Pair, Unpair,
         PauseFormation, RejoinFormation, Take, FollowerStarted, StartedPastTheEnd,
         FollowerRefused, Unfollowed, Driving, DriveRefused, DriveFailed, Halted,
         FormationPaused, RejoinStopped, Rejoined, memory
<1>7. worker'.m # m
  <2>1. CASE WorkerCall
    BY <1>1, <2>1 DEF WorkerCall, Answered, Coroutine
  <2>2. CASE Validate \/ CancelUnstarted \/ Pair \/ Unpair
    BY <1>1, <2>2 DEF Validate, CancelUnstarted, Pair, Unpair
  <2>3. CASE Start \/ Halt("pause", "PAUSING") \/ Halt("cancel", "CANCELING")
    BY <1>5, <2>3 DEF Start, Halt, Take, Awaiting
  <2>4. CASE FollowerStarted \/ FollowerRefused \/ DriveRefused
    BY <1>1, <2>4 DEF FollowerStarted, FollowerRefused, DriveRefused, Failing, Awaiting
  <2>5. CASE \/ PauseFormation \/ RejoinFormation \/ StartedPastTheEnd \/ Unfollowed \/ Driving
             \/ DriveFailed \/ Halted \/ FormationPaused \/ RejoinStopped \/ Rejoined
    BY <1>2, <2>5 DEF PauseFormation, RejoinFormation, StartedPastTheEnd, Unfollowed, Driving,
                      DriveFailed, Halted, FormationPaused, RejoinStopped, Rejoined, Awaiting
  <2> QED BY <2>1, <2>2, <2>3, <2>4, <2>5 DEF WorkerStep
<1>8. row'[m] = row[m]
  <2>1. CASE Validate \/ CancelUnstarted
    BY <1>1, <1>5, <2>1, StoreElsewhere DEF Validate, CancelUnstarted, Take
  <2>2. CASE Unfollowed \/ Driving \/ DriveFailed \/ Halted
    BY <1>1, <2>2, StoreElsewhere DEF Unfollowed, Driving, DriveFailed, Halted
  <2>3. CASE ~(Validate \/ CancelUnstarted \/ Unfollowed \/ Driving \/ DriveFailed \/ Halted)
    BY <2>3 DEF WorkerStep, WorkerCall, Answers, Start, Halt, Pair, Unpair, PauseFormation,
                RejoinFormation, FollowerStarted, StartedPastTheEnd, FollowerRefused,
                DriveRefused, FormationPaused, RejoinStopped, Rejoined
  <2> QED BY <2>1, <2>2, <2>3
<1>9. ~(ticker'.op = "lost" /\ active' = m) /\ ticker'.m # m
  BY <1>1, <1>2, <1>3, <1>6 DEF Ended
<1> QED BY <1>4, <1>7, <1>8, <1>9, StaysEnded

(* The tick, which looks at an active mission that is under way only.      *)
LEMMA TickEndsForGood ==
  ASSUME Inv, TickerStep \/ \E followLost \in BOOLEAN : RaiseAlert(followLost),
         NEW m \in Mission, Ended(m)
  PROVE  Ended(m)' /\ row'[m] = row[m]
<1>1. /\ TypeOK /\ ticker \in Coroutine /\ ticker.m # m /\ worker.m # m
      /\ \A i \in 1..Len(queue) : queue[i].m # m
  BY DEF Inv, TypeOK, Ended, Commanded
<1>2. Idle.m # m /\ AtAlerts.m # m /\ NoMission # m /\ Idle.op = "none" /\ AtAlerts.op = "alerts"
  BY ConstantsOK DEF Idle, AtAlerts
<1>3. UNCHANGED <<worker, queue>> /\ active' \in {active, NoMission}
  BY DEF TickerStep, TickerCall, Answers, TickerResumes, RuntimeTick, Protected, SettleFormation,
         Succeed, Advance, SettleTimeout, FollowerLost, FinishHalt, NothingToTick, Ticks, Advanced,
         AdvanceRefused, AdvanceFailed, LostStopped, RaiseAlert, memory
<1>4. active = m => row[active].state \notin InFlight
  BY DEF Ended, Final, InFlight
<1>5. Succeed \/ Advance \/ SettleTimeout \/ FollowerLost \/ FinishHalt => active # m
  BY <1>4 DEF Succeed, Advance, SettleTimeout, FollowerLost, FinishHalt, Ticks, InFlight, Halting
<1>6. ticker'.m # m /\ ~(ticker'.op = "lost" /\ active' = m)
  <2>1. CASE TickerCall
    <3>1. ticker'.m = ticker.m /\ ticker'.op = ticker.op /\ active' = active
      BY <1>1, <2>1 DEF TickerCall, Answers, Answered, Coroutine, memory
    <3> QED BY <1>1, <3>1 DEF Ended
  <2>2. CASE RuntimeTick \/ Protected \/ Succeed \/ SettleTimeout \/ FinishHalt \/ NothingToTick
             \/ Advanced \/ AdvanceFailed \/ LostStopped
    <3>1. ticker' \in {Idle, AtAlerts}
      BY <2>2 DEF RuntimeTick, Protected, Succeed, SettleTimeout, FinishHalt,
                  NothingToTick, Advanced, AdvanceFailed, LostStopped
    <3> QED BY <1>2, <3>1
  <2>3. CASE SettleFormation
    BY <1>1, <2>3 DEF SettleFormation, Coroutine
  <2>4. CASE Advance \/ FollowerLost
    BY <1>5, <2>4 DEF Advance, FollowerLost, Awaiting
  <2>5. CASE AdvanceRefused
    BY <1>1, <2>5 DEF AdvanceRefused, Failing, Awaiting
  <2>6. CASE \E followLost \in BOOLEAN : RaiseAlert(followLost)
    <3>1. \/ ticker' = ticker
          \/ \E op \in {"protect", "protect_lost"} :
               ticker' = Awaiting(op, NoMission, BlankRow, StopBoth)
      BY <2>6 DEF RaiseAlert
    <3>2. ticker'.m # m /\ (ticker'.op = "lost" => ticker.op = "lost")
      BY <1>1, <1>2, <3>1 DEF Awaiting
    <3> QED BY <1>2, <1>3, <3>2 DEF Ended
  <2> QED BY <2>1, <2>2, <2>3, <2>4, <2>5, <2>6 DEF TickerStep
<1>7. row'[m] = row[m]
  <2>1. CASE Succeed \/ SettleTimeout \/ FinishHalt
    BY <1>1, <1>5, <2>1, StoreElsewhere DEF Succeed, SettleTimeout, FinishHalt
  <2>2. CASE Advanced \/ AdvanceFailed
    BY <1>1, <2>2, StoreElsewhere DEF Advanced, AdvanceFailed
  <2>3. CASE LostStopped
    <3>1. active # m
      BY <2>3 DEF LostStopped, Running, Ended
    <3> QED BY <1>1, <2>3, <3>1, StoreElsewhere DEF LostStopped
  <2>4. CASE \E followLost \in BOOLEAN : RaiseAlert(followLost)
    <3>1. UNCHANGED row \/ (MarkPausing /\ active # m) \/ (MarkPausing /\ active = m)
      BY <2>4 DEF RaiseAlert
    <3>2. CASE MarkPausing /\ active # m
      BY <1>1, <3>2, StoreElsewhere DEF MarkPausing
    <3>3. CASE MarkPausing /\ active = m
      BY <1>4, <3>3 DEF MarkPausing, InFlight
    <3> QED BY <3>1, <3>2, <3>3
  <2>5. CASE TickerCall \/ RuntimeTick \/ Protected \/ SettleFormation \/ Advance \/ FollowerLost
             \/ NothingToTick \/ AdvanceRefused
    BY <2>5 DEF TickerCall, Answers, RuntimeTick, Protected, SettleFormation, Advance,
                FollowerLost, NothingToTick, AdvanceRefused
  <2> QED BY <2>1, <2>2, <2>3, <2>4, <2>5 DEF TickerStep
<1> QED BY <1>1, <1>3, <1>6, <1>7, StaysEnded

(* Operators, the world and a restart: no request of a mission that is     *)
(* over is accepted, and a restart recovers what was in flight.            *)
LEMMA OthersEndForGood ==
  ASSUME Inv, Operator \/ World \/ Restart \/ UNCHANGED vars, NEW m \in Mission, Ended(m)
  PROVE  Ended(m)' /\ row'[m] = row[m]
<1>1. /\ TypeOK /\ queue \in Seq(Command) /\ row[m].state \in Final
      /\ \A i \in 1..Len(queue) : queue[i].m # m
  BY DEF Inv, TypeOK, Ended, Commanded
<1>2. CASE World \/ UNCHANGED vars
  <2>1. UNCHANGED <<row, active, queue, worker, ticker>>
    BY <1>2 DEF World, Rests, Unobserved, StoppedElsewhere, Released, GoalEnds, FollowerChanges,
                DeadlinePasses, Outside, vars, memory
  <2> QED BY <2>1 DEF Ended, Commanded
<1>3. CASE Restart
  <2>1. row'[m] = row[m] /\ queue' = <<>> /\ worker' = Idle /\ ticker' = Idle
    BY <1>1, <1>3 DEF Restart, Recovered, InFlight, Final
  <2>2. Idle.m # m /\ Idle.op = "none"
    BY ConstantsOK DEF Idle
  <2> QED BY <2>1, <2>2, StaysEnded
<1>4. ASSUME UNCHANGED <<active, worker, ticker>>, row'[m] = row[m],
             queue' = queue \/ \E c \in Command : queue' = Append(queue, c) /\ c.m # m
      PROVE  Ended(m)' /\ row'[m] = row[m]
  <2>1. \A i \in 1..Len(queue') : queue'[i].m # m
    <3>1. CASE queue' = queue
      BY <1>1, <3>1
    <3>2. ASSUME NEW c \in Command, queue' = Append(queue, c), c.m # m
          PROVE  \A i \in 1..Len(queue') : queue'[i].m # m
      <4>1. \A i \in 1..Len(queue') : (i \in 1..Len(queue) /\ queue'[i] = queue[i]) \/ queue'[i] = c
        BY <1>1, <3>2
      <4> QED BY <1>1, <3>2, <4>1
    <3> QED BY <1>4, <3>1, <3>2
  <2> QED BY <1>4, <2>1, StaysEnded DEF Ended, Commanded
<1>5. CASE \E n \in Mission : CreateMission(n) \/ EditMission(n)
  <2>1. PICK n \in Mission : CreateMission(n) \/ EditMission(n)
    BY <1>5
  <2>2. n # m /\ \E data : Store(n, data)
    BY <1>1, <2>1 DEF CreateMission, EditMission, Final
  <2> QED BY <1>1, <1>4, <2>1, <2>2, StoreElsewhere DEF CreateMission, EditMission, Request
<1>6. ASSUME NEW n \in Mission, NEW op \in MissionOp, SubmitMission(n, op)
      PROVE  Ended(m)' /\ row'[m] = row[m]
  <2>1. n # m
    BY <1>1, <1>6 DEF SubmitMission, Accepts, MissionOp, Final
  <2>2. [op |-> op, m |-> n] \in Command
    BY DEF Command
  <2> QED BY <1>4, <1>6, <2>1, <2>2 DEF SubmitMission, Enqueue, Request
<1>7. ASSUME NEW n \in Mission, SubmitStart(n)
      PROVE  Ended(m)' /\ row'[m] = row[m]
  <2>1. n # m
    BY <1>1, <1>7 DEF SubmitStart, Startable, Final
  <2>2. row'[m] = row[m]
    BY <1>1, <1>7, <2>1, StoreElsewhere DEF SubmitStart
  <2>3. [op |-> "start", m |-> n] \in Command
    BY DEF Command, MissionOp
  <2> QED BY <1>4, <1>7, <2>1, <2>2, <2>3 DEF SubmitStart, Enqueue, Request
<1>8. ASSUME NEW op \in FormationOp, SubmitFormation(op)
      PROVE  Ended(m)' /\ row'[m] = row[m]
  <2>1. [op |-> op, m |-> NoMission] \in Command /\ NoMission # m
    BY ConstantsOK DEF Command
  <2> QED BY <1>4, <1>8, <2>1 DEF SubmitFormation, Enqueue, Request
<1>9. CASE RefuseRequest
  BY <1>4, <1>9 DEF RefuseRequest
<1> QED BY <1>2, <1>3, <1>5, <1>6, <1>7, <1>8, <1>9 DEF Operator

(* Once nothing queued or under way may write the row of a mission that    *)
(* succeeded, failed or was canceled, nothing ever does again, for any     *)
(* missions, requests, alerts and restarts.                                *)
THEOREM EndedStays == Spec => EndedForGood
<1>1. Inv /\ [Next]_vars => [\A m \in Mission : Ended(m) => Ended(m)' /\ row'[m] = row[m]]_vars
  BY WorkEndsForGood, TickEndsForGood, OthersEndForGood DEF Next
<1> QED BY <1>1, SpecInv, PTL DEF Spec, EndedForGood

-----------------------------------------------------------------------------
(* What a coroutine is about to write follows from its command.            *)
WorkerCopy ==
  /\ worker.op \in {"pause", "cancel"} => worker.copy.state \in {"PAUSING", "CANCELING"}
  /\ worker.op = "unfollow" => worker.copy.state = "PAUSED"
  /\ worker.op = "drive" => worker.copy.state = "RUNNING"
  /\ worker.op = "fail" => worker.copy.state = "FAILED"
  /\ worker.op \in Serving \cup {"pause", "cancel"} => worker.m \in Mission

TickerCopy ==
  /\ ticker.op = "advance" => ticker.copy.state = "RUNNING"
  /\ ticker.op = "fail" => ticker.copy.state = "FAILED"
  /\ ticker.op = "lost" => ticker.copy.state = "PAUSING"
  /\ ticker.op \in {"advance", "fail"} => ticker.m \in Mission

(* The worker's copy.                                                      *)
LEMMA WorkerCopyKept == Inv /\ ServedInv /\ WorkerCopy /\ WorkerStep => WorkerCopy'
<1> SUFFICES ASSUME Inv, ServedInv, WorkerCopy, WorkerStep PROVE WorkerCopy'
  OBVIOUS
<1> DEFINE h == Head(queue).m
<1>1. worker \in Coroutine /\ worker.copy \in Row
  BY DEF Inv, TypeOK, Coroutine
<1>2. CASE WorkerCall
  <2>1. worker'.op = worker.op /\ worker'.m = worker.m /\ worker'.copy = worker.copy
    BY <1>1, <1>2 DEF WorkerCall, Answered, Coroutine
  <2> QED BY <2>1 DEF WorkerCopy
<1>3. CASE Validate \/ CancelUnstarted \/ Pair \/ Unpair
  BY <1>3 DEF Validate, CancelUnstarted, Pair, Unpair, WorkerCopy
<1>4. CASE Start
  <2>1. worker'.op = "start" /\ worker'.m \in Mission
    BY <1>4, TakeOK DEF Start, Awaiting, MissionOp
  <2> QED BY <2>1 DEF WorkerCopy
<1>5. ASSUME NEW op \in {"pause", "cancel"}, NEW s \in {"PAUSING", "CANCELING"}, Halt(op, s)
      PROVE  WorkerCopy'
  <2>1. worker'.op = op /\ worker'.m = h /\ worker'.copy = [row[h] EXCEPT !.state = s]
    BY <1>5 DEF Halt, Awaiting
  <2>2. h \in Mission /\ row[h] \in Row
    BY <1>5, TakeOK DEF Halt, MissionOp
  <2>3. worker'.copy.state = s
    BY <2>1, <2>2 DEF Row
  <2> QED BY <2>1, <2>2, <2>3 DEF WorkerCopy, Serving
<1>6. CASE \/ PauseFormation \/ RejoinFormation \/ StartedPastTheEnd \/ Unfollowed \/ Driving
           \/ DriveFailed \/ Halted \/ FormationPaused \/ RejoinStopped \/ Rejoined
  <2>1. worker'.op \in {"none", "f_pause", "f_rejoin", "rejoining"}
    BY <1>6 DEF PauseFormation, RejoinFormation, StartedPastTheEnd, Unfollowed, Driving, DriveFailed,
                Halted, FormationPaused, RejoinStopped, Rejoined, Awaiting, Idle
  <2> QED BY <2>1 DEF WorkerCopy, Serving
<1>7. CASE FollowerStarted
  <2>1. worker'.op = "drive" /\ worker'.m = worker.m
        /\ worker'.copy = [worker.copy EXCEPT !.state = "RUNNING"] /\ worker.op = "start"
    BY <1>7 DEF FollowerStarted, Running, Awaiting
  <2>2. worker'.copy.state = "RUNNING" /\ worker.m \in Mission
    BY <1>1, <2>1 DEF Row, WorkerCopy, Serving
  <2> QED BY <2>1, <2>2 DEF WorkerCopy
<1>8. CASE FollowerRefused
  <2>1. worker'.op = "unfollow" /\ worker'.m = worker.m
        /\ worker'.copy = [worker.copy EXCEPT !.state = "PAUSED"] /\ worker.op = "start"
    BY <1>8 DEF FollowerRefused, Running, Awaiting
  <2>2. worker'.copy.state = "PAUSED" /\ worker.m \in Mission
    BY <1>1, <2>1 DEF Row, WorkerCopy, Serving
  <2> QED BY <2>1, <2>2 DEF WorkerCopy
<1>9. CASE DriveRefused
  <2>1. worker'.op = "fail" /\ worker'.m = worker.m
        /\ worker'.copy = [worker.copy EXCEPT !.state = "FAILED"] /\ worker.op = "drive"
    BY <1>9 DEF DriveRefused, Running, Failing, Awaiting
  <2>2. worker'.copy.state = "FAILED" /\ worker.m \in Mission
    BY <1>1, <2>1 DEF Row, WorkerCopy, Serving
  <2> QED BY <2>1, <2>2 DEF WorkerCopy
<1> QED BY <1>2, <1>3, <1>4, <1>5, <1>6, <1>7, <1>8, <1>9 DEF WorkerStep

(* The tick's copy.                                                        *)
LEMMA TickerCopyKept ==
  ASSUME Inv, TickerCopy, TickerStep \/ \E followLost \in BOOLEAN : RaiseAlert(followLost)
  PROVE  TickerCopy'
<1>1. /\ ticker \in Coroutine /\ ticker.copy \in Row
      /\ active \in Mission => row[active] \in Row
  BY DEF Inv, TypeOK, Coroutine
<1>2. CASE TickerCall
  <2>1. ticker'.op = ticker.op /\ ticker'.m = ticker.m /\ ticker'.copy = ticker.copy
    BY <1>1, <1>2 DEF TickerCall, Answered, Coroutine
  <2> QED BY <2>1 DEF TickerCopy
<1>3. CASE \/ RuntimeTick \/ Protected \/ SettleFormation \/ Succeed \/ SettleTimeout \/ FinishHalt
           \/ NothingToTick \/ Advanced \/ AdvanceFailed \/ LostStopped
  <2>1. ticker'.op \in {"none", "alerts", "mission"}
    BY <1>1, <1>3 DEF RuntimeTick, Protected, SettleFormation, Succeed, SettleTimeout, FinishHalt,
                NothingToTick, Advanced, AdvanceFailed, LostStopped, Idle, AtAlerts, Coroutine
  <2> QED BY <2>1 DEF TickerCopy
<1>4. CASE Advance
  <2>1. row[active] \in Row /\ row[active].state = "RUNNING" /\ ~LastGoal(row[active])
        /\ ticker'.op = "advance" /\ ticker'.m = active /\ active \in Mission
        /\ ticker'.copy = NextGoal(row[active])
    BY <1>1, <1>4 DEF Advance, Ticks, Awaiting
  <2> QED BY <2>1, NextGoalOK DEF TickerCopy
<1>5. CASE FollowerLost
  <2>1. row[active] \in Row /\ ticker'.op = "lost"
        /\ ticker'.copy = [row[active] EXCEPT !.state = "PAUSING"]
    BY <1>1, <1>5 DEF FollowerLost, Ticks, Awaiting
  <2> QED BY <2>1 DEF TickerCopy, Row
<1>6. CASE AdvanceRefused
  <2>1. ticker'.op = "fail" /\ ticker'.m = ticker.m /\ ticker.op = "advance"
        /\ ticker'.copy = [ticker.copy EXCEPT !.state = "FAILED"]
    BY <1>6 DEF AdvanceRefused, Running, Failing, Awaiting
  <2> QED BY <1>1, <2>1 DEF TickerCopy, Row
<1>7. CASE \E followLost \in BOOLEAN : RaiseAlert(followLost)
  <2>1. ticker' = ticker \/ ticker'.op \in {"protect", "protect_lost"}
    BY <1>7 DEF RaiseAlert, Awaiting
  <2> QED BY <2>1 DEF TickerCopy
<1> QED BY <1>2, <1>3, <1>4, <1>5, <1>6, <1>7 DEF TickerStep

(* Both, in every reachable state.                                         *)
LEMMA SpecCopies == Spec => [](WorkerCopy /\ TickerCopy)
<1>1. Init => WorkerCopy /\ TickerCopy
  BY DEF Init, Idle, WorkerCopy, TickerCopy, Serving
<1>2. ASSUME Inv, ServedInv, WorkerCopy, TickerCopy, [Next]_vars
      PROVE  WorkerCopy' /\ TickerCopy'
  <2>1. CASE WorkerStep
    <3>1. UNCHANGED ticker
      BY <2>1 DEF WorkerStep, WorkerCall, Answers, Validate, Start, CancelUnstarted, Halt, Pair,
         Unpair, PauseFormation, RejoinFormation, Take, FollowerStarted, StartedPastTheEnd,
         FollowerRefused, Unfollowed, Driving, DriveRefused, DriveFailed, Halted,
         FormationPaused, RejoinStopped, Rejoined, WorkerResumes
    <3> QED BY <1>2, <2>1, <3>1, WorkerCopyKept DEF TickerCopy
  <2>2. CASE TickerStep \/ \E followLost \in BOOLEAN : RaiseAlert(followLost)
    <3>1. UNCHANGED worker
      BY <2>2 DEF TickerStep, TickerCall, Answers, TickerResumes, RuntimeTick, Protected,
         SettleFormation, Succeed, Advance, SettleTimeout, FollowerLost, FinishHalt, NothingToTick,
         Ticks, Advanced, AdvanceRefused, AdvanceFailed, LostStopped, RaiseAlert
    <3> QED BY <1>2, <2>2, <3>1, TickerCopyKept DEF WorkerCopy
  <2>3. CASE Operator \/ World \/ UNCHANGED vars
    <3>1. UNCHANGED <<worker, ticker>>
      BY <2>3 DEF Operator, RefuseRequest, CreateMission, EditMission, SubmitStart, SubmitMission,
         SubmitFormation, Enqueue, Request, World, Rests, Unobserved, StoppedElsewhere, Released,
         GoalEnds, FollowerChanges, DeadlinePasses, Outside, vars
    <3> QED BY <1>2, <3>1 DEF WorkerCopy, TickerCopy
  <2>4. CASE Restart
    BY <2>4 DEF Restart, Idle, WorkerCopy, TickerCopy, Serving
  <2> QED BY <1>2, <2>1, <2>2, <2>3, <2>4 DEF Next
<1> QED BY <1>1, <1>2, SpecInv, SpecServed, PTL DEF Spec

-----------------------------------------------------------------------------
(* The two coroutines agree about every mission whose commands never       *)
(* crossed: one command of it at most is queued or executed, and the state *)
(* on record says what the tick may do with the mission meanwhile.         *)
Alone(m) ==
  /\ \A i, j \in 1..Len(queue) : queue[i].m = m /\ queue[j].m = m => i = j
  /\ worker.m = m => \A i \in 1..Len(queue) : queue[i].m # m

Claims(m) == Queued(StartOf(m)) \/ (worker.op \in Serving /\ worker.m = m)
Validates(m) == Queued([op |-> "validate", m |-> m])
Drives(m) == ticker.op \in {"advance", "fail"} /\ ticker.m = m

Live == InFlight \cup {"PAUSED"}

AgreeOn(m) ==
  /\ Alone(m)
  /\ Claims(m) => row[m].state \in {"STARTING", "PAUSING", "PAUSED"}
  /\ Validates(m) => row[m].state = "DRAFT"
  /\ Drives(m) => ~Claims(m) /\ row[m].state \in {"RUNNING", "PAUSING", "CANCELING"}
  /\ active = m => row[m].state \in Live

Agree == \A m \in Mission \ crossed : AgreeOn(m)

(* A step that does not concern m, or goes on with its command.            *)
LEMMA Reads ==
  ASSUME NEW m, AgreeOn(m), Alone(m)', row'[m] = row[m],
         Claims(m)' => Claims(m), Validates(m)' => Validates(m), Drives(m)' => Drives(m),
         active' = m => active = m \/ Claims(m)
  PROVE  AgreeOn(m)'
BY DEF AgreeOn, Live, InFlight

(* A step that ends the command of m.                                      *)
LEMMA Ends ==
  ASSUME NEW m, Alone(m)', ~Claims(m)', ~Validates(m)',
         Drives(m)' => row'[m].state \in {"RUNNING", "PAUSING", "CANCELING"},
         active' = m => row'[m].state \in Live
  PROVE  AgreeOn(m)'
BY DEF AgreeOn

(* The commands left when the head of the queue is taken.                  *)
LEMMA TakeAlone ==
  ASSUME TypeOK, queue # <<>>, queue' = Tail(queue), NEW m, Alone(m),
         worker'.m = m => worker.m = m \/ Head(queue).m = m
  PROVE  /\ Alone(m)' /\ \A c : Queued(c)' => Queued(c)
         /\ Head(queue).m = m => \A c : Queued(c)' => c.m # m
         /\ Queued(Head(queue))
<1>1. queue \in Seq(Command)
  BY DEF TypeOK
<1>2. \A i \in 1..Len(queue') : i + 1 \in 1..Len(queue) /\ queue'[i] = queue[i + 1]
  BY <1>1
<1>3. 1 \in 1..Len(queue) /\ Head(queue) = queue[1]
  BY <1>1
<1>4. ASSUME Head(queue).m = m, NEW i \in 1..Len(queue') PROVE queue'[i].m # m
  <2>1. i + 1 # 1
    OBVIOUS
  <2> QED BY <1>2, <1>3, <1>4, <2>1 DEF Alone
<1>5. Alone(m)'
  <2>1. ASSUME NEW i \in 1..Len(queue'), NEW j \in 1..Len(queue'), queue'[i].m = m, queue'[j].m = m
        PROVE  i = j
    <3>1. i + 1 = j + 1
      BY <1>2, <2>1 DEF Alone
    <3> QED BY <3>1
  <2>2. ASSUME worker'.m = m, NEW i \in 1..Len(queue') PROVE queue'[i].m # m
    BY <1>2, <1>4, <2>2 DEF Alone
  <2> QED BY <2>1, <2>2 DEF Alone
<1>6. \A c : Queued(c)' => Queued(c)
  BY <1>2 DEF Queued
<1> QED BY <1>3, <1>4, <1>5, <1>6 DEF Queued

(* The worker takes a command.                                             *)
LEMMA TakesAgree ==
  ASSUME Inv, ServedInv, NEW m \in Mission, AgreeOn(m),
         \/ Validate \/ Start \/ CancelUnstarted \/ Halt("pause", "PAUSING")
         \/ Halt("cancel", "CANCELING") \/ Pair \/ Unpair \/ PauseFormation \/ RejoinFormation
  PROVE  AgreeOn(m)'
<1> DEFINE h == Head(queue).m
<1>1. TypeOK /\ NoMission # m /\ Alone(m)
  BY ConstantsOK DEF Inv, AgreeOn
<1>2. /\ queue # <<>> /\ queue' = Tail(queue) /\ UNCHANGED <<ticker, active>>
      /\ worker.op = "none" /\ Head(queue) \in Command
  <2>1. queue # <<>> /\ queue' = Tail(queue) /\ UNCHANGED <<ticker, active>> /\ worker.at = "idle"
    BY DEF Validate, Start, CancelUnstarted, Halt, Pair, Unpair, PauseFormation,
           RejoinFormation, Take
  <2>2. queue \in Seq(Command)
    BY <1>1 DEF TypeOK
  <2>3. Head(queue) \in Command
    BY <2>1, <2>2
  <2> QED BY <2>1, <2>3 DEF ServedInv
<1>3. worker'.m = m => worker.m = m \/ h = m
  BY <1>1 DEF Validate, Start, CancelUnstarted, Halt, Pair, Unpair, PauseFormation, RejoinFormation,
              Awaiting
<1>4. /\ Alone(m)' /\ \A c : Queued(c)' => Queued(c)
      /\ h = m => \A c : Queued(c)' => c.m # m
      /\ Queued(Head(queue))
  BY <1>1, <1>2, <1>3, TakeAlone
<1>5. (Drives(m)' <=> Drives(m)) /\ (Validates(m)' => Validates(m)) /\ active' = active
  BY <1>2, <1>4 DEF Drives, Validates
<1>6. CASE Validate \/ CancelUnstarted
  <2>2. UNCHANGED worker /\ (\E data : Store(h, data))
    BY <1>6 DEF Validate, CancelUnstarted
  <2>3. Claims(m)' => Claims(m)
    BY <1>4, <2>2 DEF Claims
  <2>4. CASE h # m
    <3>1. row'[m] = row[m]
      BY <1>1, <2>2, <2>4, StoreElsewhere
    <3> QED BY <1>4, <1>5, <2>3, <3>1, Reads
  <2>5. CASE h = m
    <3>1. row[m].state \in {"DRAFT", "READY"}
      <4>1. CASE Validate
        <5>1. Head(queue) = [op |-> "validate", m |-> m]
          BY <1>2, <2>5, <4>1 DEF Validate, Take, Command
        <5> QED BY <1>4, <5>1 DEF Validates, AgreeOn
      <4>2. CASE CancelUnstarted
        BY <2>5, <4>2 DEF CancelUnstarted
      <4> QED BY <1>6, <4>1, <4>2
    <3>2. ~Drives(m) /\ active # m /\ ~Claims(m)
      BY <3>1 DEF AgreeOn, Live, InFlight
    <3>3. ~Validates(m)'
      BY <1>4, <2>5 DEF Validates
    <3> QED BY <1>4, <1>5, <2>3, <3>2, <3>3, Ends
  <2> QED BY <2>4, <2>5
<1>7. CASE Start
  <2>1. row' = row /\ worker'.op = "start" /\ worker'.m = h /\ Head(queue).op = "start"
    BY <1>7 DEF Start, Take, Awaiting
  <2>2. Claims(m)' => Claims(m)
    <3>1. CASE h = m
      <4>1. Head(queue) = StartOf(m)
        BY <1>2, <2>1, <3>1 DEF StartOf, Command
      <4> QED BY <1>4, <4>1 DEF Claims
    <3>2. CASE h # m
      BY <1>4, <2>1, <3>2 DEF Claims
    <3> QED BY <3>1, <3>2
  <2> QED BY <1>4, <1>5, <2>1, <2>2, Reads
<1>8. CASE \/ Halt("pause", "PAUSING") \/ Halt("cancel", "CANCELING")
           \/ Pair \/ Unpair \/ PauseFormation \/ RejoinFormation
  <2>1. row' = row /\ worker'.op \in {"none", "pause", "cancel", "f_pause", "f_rejoin"}
    BY <1>2, <1>8 DEF Halt, Pair, Unpair, PauseFormation, RejoinFormation, Awaiting
  <2>2. Claims(m)' => Claims(m)
    BY <1>4, <2>1 DEF Claims, Serving
  <2> QED BY <1>4, <1>5, <2>1, <2>2, Reads
<1> QED BY <1>6, <1>7, <1>8

(* The worker goes on with a command, or ends it.                          *)
LEMMA WorkAgrees ==
  ASSUME Inv, WorkerCopy, NEW m \in Mission, AgreeOn(m),
         \/ WorkerCall \/ FollowerStarted \/ StartedPastTheEnd \/ FollowerRefused \/ Unfollowed
         \/ Driving \/ DriveRefused \/ DriveFailed \/ Halted
         \/ FormationPaused \/ RejoinStopped \/ Rejoined
  PROVE  AgreeOn(m)'
<1>1. TypeOK /\ UNCHANGED <<ticker, queue>> /\ worker \in Coroutine /\ NoMission # m /\ Alone(m)
  BY ConstantsOK DEF Inv, TypeOK, WorkerCall, Answers, WorkerResumes, FollowerStarted,
         StartedPastTheEnd, FollowerRefused, Unfollowed, Driving, DriveRefused, DriveFailed, Halted,
         FormationPaused, RejoinStopped, Rejoined, AgreeOn
<1>2. Idle.op = "none" /\ Idle.m = NoMission
  BY DEF Idle
<1>3. /\ Drives(m)' <=> Drives(m)
      /\ Validates(m)' <=> Validates(m)
      /\ Queued(StartOf(m))' <=> Queued(StartOf(m))
  BY <1>1 DEF Drives, Validates, Queued
<1>4. worker'.m \in {worker.m, NoMission} => Alone(m)'
  BY <1>1 DEF Alone
<1>5. CASE WorkerCall
  <2>1. row' = row /\ active' = active /\ worker'.op = worker.op /\ worker'.m = worker.m
    BY <1>1, <1>5 DEF WorkerCall, Answers, Answered, Coroutine, memory
  <2> QED BY <1>3, <1>4, <2>1, Reads DEF Claims
<1>6. CASE FollowerStarted \/ StartedPastTheEnd \/ FollowerRefused \/ DriveRefused
  <2>1. row' = row /\ worker.op \in Serving /\ active' \in {active, worker.m}
    BY <1>6 DEF FollowerStarted, StartedPastTheEnd, FollowerRefused, DriveRefused, Running,
                Serving, memory
  <2>2. worker'.m \in {worker.m, NoMission} /\ (worker'.m = m => worker.m = m)
    BY <1>1, <1>2, <1>6 DEF FollowerStarted, StartedPastTheEnd, FollowerRefused, DriveRefused,
                            Failing, Awaiting
  <2>3. (Claims(m)' => Claims(m)) /\ (active' = m => active = m \/ Claims(m))
    BY <1>3, <2>1, <2>2 DEF Claims
  <2> QED BY <1>3, <1>4, <2>1, <2>2, <2>3, Reads
<1>7. CASE Unfollowed \/ Driving \/ DriveFailed \/ Halted
  <2>1. Store(worker.m, worker.copy) /\ worker' = Idle /\ active' \in {active, NoMission}
    BY <1>7 DEF Unfollowed, Driving, DriveFailed, Halted, memory
  <2>2. Claims(m)' => Queued(StartOf(m))
    BY <1>2, <1>3, <2>1 DEF Claims, Serving
  <2>3. CASE worker.m # m
    <3>1. row'[m] = row[m]
      BY <1>1, <2>1, <2>3, StoreElsewhere
    <3> QED BY <1>1, <1>2, <1>3, <1>4, <2>1, <2>2, <3>1, Reads DEF Claims
  <2>4. CASE worker.m = m
    <3>1. row'[m] = worker.copy
      BY <1>1, <2>1, <2>4 DEF Store, TypeOK
    <3>2. ~Queued(StartOf(m)) /\ ~Validates(m)
      BY <1>1, <2>4 DEF Alone, Queued, StartOf, Validates
    <3>3. Drives(m) => worker.copy.state \in {"RUNNING", "PAUSING", "CANCELING"}
      <4>1. CASE Halted
        BY <4>1 DEF Halted, Running, WorkerCopy
      <4>2. CASE Unfollowed \/ Driving \/ DriveFailed
        <5>1. Claims(m)
          BY <2>4, <4>2 DEF Unfollowed, Driving, DriveFailed, Running, Claims, Serving
        <5> QED BY <5>1 DEF AgreeOn
      <4> QED BY <1>7, <4>1, <4>2
    <3>4. active' = m => worker.copy.state \in Live
      BY <1>1, <1>7 DEF Unfollowed, Driving, DriveFailed, Halted, Running, WorkerCopy, Live, InFlight
    <3> QED BY <1>2, <1>3, <1>4, <2>1, <2>2, <3>1, <3>2, <3>3, <3>4, Ends
  <2> QED BY <2>3, <2>4
<1>8. CASE FormationPaused \/ RejoinStopped \/ Rejoined
  <2>1. row' = row /\ active' = active /\ worker'.op \in {"none", "rejoining"}
        /\ worker'.m = NoMission
    BY <1>2, <1>8 DEF FormationPaused, RejoinStopped, Rejoined, Awaiting
  <2>2. Claims(m)' => Claims(m)
    BY <1>3, <2>1 DEF Claims, Serving
  <2> QED BY <1>3, <1>4, <2>1, <2>2, Reads
<1> QED BY <1>5, <1>6, <1>7, <1>8

(* The tick leaves the commands alone.                                     *)
LEMMA TickLeaves ==
  ASSUME UNCHANGED <<queue, worker>>, NEW m
  PROVE  /\ Alone(m)' <=> Alone(m)
         /\ Claims(m)' <=> Claims(m)
         /\ Validates(m)' <=> Validates(m)
BY DEF Alone, Claims, Validates, Queued

(* It reads the row of m ...                                               *)
LEMMA TickReads ==
  ASSUME UNCHANGED <<queue, worker>>, NEW m \in Mission, AgreeOn(m), row'[m] = row[m],
         active' \in {active, NoMission}, Drives(m)' => Drives(m)
  PROVE  AgreeOn(m)'
<1>1. Alone(m)' /\ (Claims(m)' => Claims(m)) /\ (Validates(m)' => Validates(m))
  BY TickLeaves DEF AgreeOn
<1>2. active' = m => active = m
  BY ConstantsOK
<1> QED BY <1>1, <1>2, Reads

(* ... or writes it: m is active or driven.                                *)
LEMMA TickWrites ==
  ASSUME UNCHANGED <<queue, worker>>, NEW m \in Mission, AgreeOn(m), row[m].state \in Live,
         Claims(m) => row'[m].state \in {"STARTING", "PAUSING", "PAUSED"},
         Drives(m)' => ~Claims(m) /\ row'[m].state \in {"RUNNING", "PAUSING", "CANCELING"},
         active' = m => row'[m].state \in Live
  PROVE  AgreeOn(m)'
<1>1. Alone(m)' /\ (Claims(m)' <=> Claims(m)) /\ (Validates(m)' <=> Validates(m))
  BY TickLeaves DEF AgreeOn
<1>2. ~Validates(m)
  BY DEF AgreeOn, Live, InFlight
<1> QED BY <1>1, <1>2 DEF AgreeOn

LEMMA TickAgrees ==
  ASSUME Inv, TickerCopy, NEW m \in Mission, AgreeOn(m),
         TickerStep \/ \E followLost \in BOOLEAN : RaiseAlert(followLost)
  PROVE  AgreeOn(m)'
<1>1. TypeOK /\ ticker \in Coroutine /\ UNCHANGED <<queue, worker>> /\ row[m] \in Row
      /\ active' \in {active, NoMission} /\ NoMission # m
  BY ConstantsOK DEF Inv, TypeOK, TickerStep, TickerCall, Answers, TickerResumes, RuntimeTick,
         Protected, SettleFormation, Succeed, Advance, SettleTimeout, FollowerLost, FinishHalt,
         NothingToTick, Ticks, Advanced, AdvanceRefused, AdvanceFailed, LostStopped, RaiseAlert, memory
<1>2. Idle.op = "none" /\ AtAlerts.op = "alerts"
  BY DEF Idle, AtAlerts
<1>3. active = m => row[m].state \in Live
  BY DEF AgreeOn
<1>4. ASSUME NEW x, NEW data, Store(x, data), x # m, ~Drives(m)' PROVE AgreeOn(m)'
  <2>1. row'[m] = row[m]
    BY <1>1, <1>4, StoreElsewhere
  <2> QED BY <1>1, <1>4, <2>1, TickReads
<1>5. ASSUME NEW s, Store(m, [row[m] EXCEPT !.state = s])
      PROVE  row'[m].state = s
  BY <1>1, <1>5 DEF Store, TypeOK, Row
<1>6. CASE TickerCall \/ AdvanceRefused
  <2>1. CASE TickerCall
    <3>1. row' = row /\ ticker'.op = ticker.op /\ ticker'.m = ticker.m
      BY <1>1, <2>1 DEF TickerCall, Answers, Answered, Coroutine
    <3> QED BY <1>1, <3>1, TickReads DEF Drives
  <2>2. CASE AdvanceRefused
    <3>1. row' = row /\ ticker.op = "advance" /\ ticker'.m = ticker.m
      BY <2>2 DEF AdvanceRefused, Running, Failing, Awaiting
    <3> QED BY <1>1, <3>1, TickReads DEF Drives
  <2> QED BY <1>6, <2>1, <2>2
<1>7. CASE RuntimeTick \/ Protected \/ SettleFormation \/ NothingToTick \/ FollowerLost
  <2>1. row' = row /\ ticker'.op \in {"none", "alerts", "mission", "lost"}
    BY <1>1, <1>2, <1>7 DEF RuntimeTick, Protected, SettleFormation, NothingToTick, FollowerLost,
                            Coroutine, Awaiting
  <2> QED BY <1>1, <2>1, TickReads DEF Drives
<1>8. CASE \E followLost \in BOOLEAN : RaiseAlert(followLost)
  <2>1. active' = active /\ ticker'.op \in {"alerts", "protect", "protect_lost"}
    BY <1>8 DEF RaiseAlert, Running, Awaiting
  <2>2. ~Drives(m)'
    BY <2>1 DEF Drives
  <2>3. row' = row \/ MarkPausing
    BY <1>8 DEF RaiseAlert
  <2>4. CASE row' = row
    BY <1>1, <2>2, <2>4, TickReads
  <2>5. CASE MarkPausing /\ row' # row /\ active # m
    BY <1>4, <2>2, <2>5 DEF MarkPausing
  <2>6. CASE MarkPausing /\ row' # row /\ active = m
    <3>1. row'[m].state = "PAUSING"
      BY <1>5, <2>6 DEF MarkPausing
    <3> QED BY <1>1, <1>3, <2>2, <2>6, <3>1, TickWrites DEF Live, InFlight
  <2> QED BY <2>3, <2>4, <2>5, <2>6
<1>9. CASE Succeed \/ SettleTimeout
  <2>1. /\ active \in Mission /\ row[active].state = "RUNNING" /\ ticker' = Idle
        /\ \E s \in {"SUCCEEDED", "PAUSED"} :
             Store(active, [row[active] EXCEPT !.state = s]) /\ (s = "PAUSED" \/ active' = NoMission)
    BY <1>9 DEF Succeed, SettleTimeout, Ticks
  <2>2. ~Drives(m)'
    BY <1>2, <2>1 DEF Drives
  <2>3. CASE active # m
    BY <1>4, <2>1, <2>2, <2>3
  <2>4. CASE active = m
    <3>1. /\ row'[m].state \in {"SUCCEEDED", "PAUSED"}
          /\ active' = m => row'[m].state = "PAUSED"
      BY <1>1, <1>5, <2>1, <2>4
    <3>2. ~Claims(m)
      BY <2>1, <2>4 DEF AgreeOn
    <3> QED BY <1>1, <1>3, <2>2, <2>4, <3>1, <3>2, TickWrites DEF Live
  <2> QED BY <2>3, <2>4
<1>10. CASE FinishHalt
  <2>1. /\ active \in Mission /\ row[active].state \in {"PAUSING", "CANCELING"} /\ ticker' = Idle
        /\ active' = IF row[active].state = "CANCELING" THEN NoMission ELSE active
    BY <1>10 DEF FinishHalt, Ticks, Halting
  <2> DEFINE s == IF row[active].state = "CANCELING" THEN "CANCELED" ELSE "PAUSED"
  <2>2. Store(active, [row[active] EXCEPT !.state = s])
    BY <1>10 DEF FinishHalt
  <2>3. ~Drives(m)'
    BY <1>2, <2>1 DEF Drives
  <2>4. CASE active # m
    BY <1>4, <2>2, <2>3, <2>4
  <2>5. CASE active = m
    <3>1. row'[m].state = s
      BY <1>5, <2>2, <2>5
    <3>2. row[m].state = "CANCELING" => ~Claims(m)
      BY DEF AgreeOn
    <3> QED BY <1>1, <1>3, <2>1, <2>3, <2>5, <3>1, <3>2, TickWrites DEF Live
  <2> QED BY <2>4, <2>5
<1>11. CASE Advance
  <2>1. /\ active \in Mission /\ row[active].state = "RUNNING" /\ row' = row
        /\ ticker'.m = active
    BY <1>11 DEF Advance, Ticks, Awaiting
  <2>2. CASE active # m
    BY <1>1, <2>1, <2>2, TickReads DEF Drives
  <2>3. CASE active = m
    <3>1. ~Claims(m)
      BY <2>1, <2>3 DEF AgreeOn
    <3> QED BY <1>1, <1>3, <2>1, <2>3, <3>1, TickWrites
  <2> QED BY <2>2, <2>3
<1>12. CASE Advanced \/ AdvanceFailed
  <2>1. /\ ticker.op \in {"advance", "fail"} /\ Store(ticker.m, ticker.copy) /\ ticker' = Idle
        /\ \/ ticker.copy.state = "RUNNING"
           \/ active' = NoMission
    BY <1>12 DEF Advanced, AdvanceFailed, Running, TickerCopy
  <2>2. ~Drives(m)'
    BY <1>2, <2>1 DEF Drives
  <2>3. CASE ticker.m # m
    BY <1>4, <2>1, <2>2, <2>3
  <2>4. CASE ticker.m = m
    <3>1. Drives(m)
      BY <2>1, <2>4 DEF Drives
    <3>2. ~Claims(m) /\ row[m].state \in Live
      BY <3>1 DEF AgreeOn, Live, InFlight
    <3>3. row'[m] = ticker.copy
      BY <1>1, <2>1, <2>4 DEF Store, TypeOK
    <3> QED BY <1>1, <2>1, <2>2, <3>2, <3>3, TickWrites DEF Live, InFlight
  <2> QED BY <2>3, <2>4
<1>13. CASE LostStopped
  <2>1. /\ ticker.copy.state = "PAUSING" /\ ticker' = Idle /\ active' = active
        /\ IF active \in Mission THEN Store(active, ticker.copy) ELSE UNCHANGED row
    BY <1>13 DEF LostStopped, Running, TickerCopy, memory
  <2>2. ~Drives(m)'
    BY <1>2, <2>1 DEF Drives
  <2>3. CASE active = m
    <3>1. row'[m] = ticker.copy
      BY <1>1, <2>1, <2>3 DEF Store, TypeOK
    <3> QED BY <1>1, <1>3, <2>1, <2>2, <2>3, <3>1, TickWrites DEF Live, InFlight
  <2>4. CASE active # m
    BY <1>1, <1>4, <2>1, <2>2, <2>4, TickReads
  <2> QED BY <2>3, <2>4
<1> QED
  BY <1>6, <1>7, <1>8, <1>9, <1>10, <1>11, <1>12, <1>13 DEF TickerStep

(* A request of m is the only one, or m joins those whose commands crossed.*)
LEMMA AppendAlone ==
  ASSUME TypeOK, UNCHANGED worker, NEW c \in Command, queue' = Append(queue, c),
         NEW m, Alone(m), c.m = m => ~Commanded(m)
  PROVE  Alone(m)' /\ \A d : Queued(d)' => Queued(d) \/ d = c
<1>1. queue \in Seq(Command)
  BY DEF TypeOK
<1>2. \A i \in 1..Len(queue') : \/ i \in 1..Len(queue) /\ queue'[i] = queue[i]
                                \/ i = Len(queue') /\ queue'[i] = c
  BY <1>1
<1>3. \A d : Queued(d)' => Queued(d) \/ d = c
  BY <1>2 DEF Queued
<1>4. ASSUME NEW i \in 1..Len(queue'), NEW j \in 1..Len(queue'), queue'[i].m = m, queue'[j].m = m
      PROVE  i = j
  <2>1. CASE c.m = m
    BY <1>2, <1>4, <2>1 DEF Commanded
  <2>2. CASE c.m # m
    BY <1>2, <1>4, <2>2 DEF Alone
  <2> QED BY <2>1, <2>2
<1>5. ASSUME worker.m = m, NEW i \in 1..Len(queue') PROVE queue'[i].m # m
  BY <1>2, <1>5 DEF Alone, Commanded
<1> QED BY <1>3, <1>4, <1>5 DEF Alone

(* Operators, the world and a restart.                                     *)
LEMMA OthersAgree ==
  ASSUME Inv, Agree, Operator \/ World \/ Restart \/ UNCHANGED vars
  PROVE  Agree'
<1> SUFFICES ASSUME NEW m \in Mission, m \notin crossed' PROVE AgreeOn(m)'
  BY DEF Agree
<1>1. TypeOK /\ row[m] \in Row /\ NoMission # m
  BY ConstantsOK DEF Inv, TypeOK
<1>2. CASE World \/ UNCHANGED vars
  <2>1. UNCHANGED <<row, active, queue, worker, ticker, crossed>>
    BY <1>2 DEF World, Rests, Unobserved, StoppedElsewhere, Released, GoalEnds, FollowerChanges,
                DeadlinePasses, Outside, vars, memory
  <2> QED BY <2>1 DEF Agree, AgreeOn, Alone, Claims, Validates, Queued, Drives
<1>3. CASE Restart
  <2>1. /\ queue' = <<>> /\ worker' = Idle /\ ticker' = Idle /\ active' = NoMission
        /\ Idle.op = "none" /\ Idle.m = NoMission
    BY <1>3 DEF Restart, Idle
  <2> QED BY <1>1, <2>1 DEF AgreeOn, Alone, Claims, Validates, Queued, Drives, Serving
<1>4. ASSUME Operator PROVE AgreeOn(m) /\ UNCHANGED <<active, worker, ticker>>
  BY <1>4 DEF Operator, RefuseRequest, CreateMission, EditMission, SubmitStart, SubmitMission,
              SubmitFormation, Enqueue, Request, Concerns, Agree
<1>5. ASSUME Operator, UNCHANGED queue, row'[m] = row[m] PROVE AgreeOn(m)'
  <2>1. /\ Alone(m)' <=> Alone(m)
        /\ Claims(m)' <=> Claims(m)
        /\ Validates(m)' <=> Validates(m)
        /\ Drives(m)' <=> Drives(m)
    BY <1>4, <1>5 DEF Alone, Claims, Validates, Queued, Drives
  <2> QED BY <1>4, <1>5, <2>1, Reads DEF AgreeOn
<1>6. ASSUME Operator, NEW n \in Mission \cup {NoMission}, NEW op \in MissionOp \cup FormationOp,
             queue' = Append(queue, [op |-> op, m |-> n]), n = m => ~Commanded(m)
      PROVE  /\ Alone(m)' /\ (Drives(m)' <=> Drives(m)) /\ UNCHANGED active
             /\ Claims(m)' => Claims(m) \/ (n = m /\ op = "start")
             /\ Validates(m)' => Validates(m) \/ (n = m /\ op = "validate")
  <2>1. [op |-> op, m |-> n] \in Command
    BY DEF Command
  <2>2. Alone(m)' /\ \A d : Queued(d)' => Queued(d) \/ d = [op |-> op, m |-> n]
    BY <1>1, <1>4, <1>6, <2>1, AppendAlone DEF AgreeOn
  <2>3. Queued(StartOf(m))' => Queued(StartOf(m)) \/ (n = m /\ op = "start")
    <3>1. StartOf(m) = [op |-> op, m |-> n] => n = m /\ op = "start"
      BY DEF StartOf
    <3> QED BY <2>2, <3>1
  <2>4. Validates(m)' => Validates(m) \/ (n = m /\ op = "validate")
    <3>1. [op |-> "validate", m |-> m] = [op |-> op, m |-> n] => n = m /\ op = "validate"
      OBVIOUS
    <3> QED BY <2>2, <3>1 DEF Validates
  <2> QED BY <1>4, <1>6, <2>2, <2>3, <2>4 DEF Drives, Claims
<1>7. ASSUME NEW n \in Mission, CreateMission(n) \/ EditMission(n) PROVE AgreeOn(m)'
  <2>1. Operator /\ UNCHANGED queue /\ row[n].state \in {"NONE", "DRAFT", "READY"}
    BY <1>7 DEF Operator, CreateMission, EditMission
  <2>2. PICK r \in Row : \E plan \in Plans(r) : Store(n, plan)
    BY <1>1, <1>7, BlankOK DEF CreateMission, EditMission, TypeOK
  <2>3. CASE n # m
    <3>1. row'[m] = row[m]
      BY <1>1, <2>2, <2>3, StoreElsewhere
    <3> QED BY <1>5, <2>1, <3>1
  <2>4. CASE n = m
    <3>1. row'[m].state = "DRAFT"
      BY <1>1, <2>2, <2>4, PlansOK DEF Store, TypeOK
    <3>2. ~Claims(m) /\ ~Drives(m) /\ active # m /\ Alone(m)
      BY <1>4, <2>1, <2>4 DEF AgreeOn, Live, InFlight
    <3>3. /\ Alone(m)' <=> Alone(m)
          /\ Claims(m)' <=> Claims(m)
          /\ Drives(m)' <=> Drives(m)
      BY <1>4, <2>1 DEF Alone, Claims, Queued, Drives
    <3> QED BY <1>4, <2>1, <3>1, <3>2, <3>3 DEF AgreeOn
  <2> QED BY <2>3, <2>4
<1>8. ASSUME NEW n \in Mission, NEW op \in MissionOp, SubmitMission(n, op) PROVE AgreeOn(m)'
  <2>1. /\ Operator /\ queue' = Append(queue, [op |-> op, m |-> n]) /\ row' = row
        /\ op # "start" /\ row[n].state \in Accepts(op)
    BY <1>8 DEF Operator, SubmitMission, Enqueue
  <2>2. n = m => ~Commanded(m)
    BY <1>8 DEF SubmitMission, Concerns
  <2>3. /\ Alone(m)' /\ (Drives(m)' <=> Drives(m)) /\ UNCHANGED active
        /\ Claims(m)' => Claims(m)
        /\ Validates(m)' => Validates(m) \/ (n = m /\ op = "validate")
    BY <1>6, <2>1, <2>2
  <2>4. n = m /\ op = "validate" => row[m].state = "DRAFT"
    BY <2>1 DEF Accepts
  <2> QED BY <1>4, <2>1, <2>3, <2>4 DEF AgreeOn
<1>9. ASSUME NEW op \in FormationOp, SubmitFormation(op) PROVE AgreeOn(m)'
  <2>1. Operator /\ queue' = Append(queue, [op |-> op, m |-> NoMission]) /\ row' = row
    BY <1>9 DEF Operator, SubmitFormation, Enqueue
  <2>2. /\ Alone(m)' /\ (Drives(m)' <=> Drives(m)) /\ UNCHANGED active
        /\ Claims(m)' => Claims(m)
        /\ Validates(m)' => Validates(m)
    BY <1>1, <1>6, <2>1
  <2> QED BY <1>4, <2>1, <2>2, Reads
<1>10. ASSUME NEW n \in Mission, SubmitStart(n) PROVE AgreeOn(m)'
  <2>1. /\ Operator /\ queue' = Append(queue, [op |-> "start", m |-> n])
        /\ row[n].state \in {"READY", "PAUSED"} /\ Store(n, [row[n] EXCEPT !.state = "STARTING"])
    BY <1>10 DEF Operator, SubmitStart, Startable, Enqueue
  <2>2. n = m => ~Commanded(m)
    BY <1>10 DEF SubmitStart, Concerns
  <2>3. /\ Alone(m)' /\ (Drives(m)' <=> Drives(m)) /\ UNCHANGED active
        /\ Claims(m)' => Claims(m) \/ n = m
        /\ Validates(m)' => Validates(m)
    BY <1>6, <2>1, <2>2 DEF MissionOp
  <2>4. CASE n # m
    <3>1. row'[m] = row[m]
      BY <1>1, <2>1, <2>4, StoreElsewhere
    <3> QED BY <1>4, <2>1, <2>3, <2>4, <3>1, Reads
  <2>5. CASE n = m
    <3>1. row'[m].state = "STARTING"
      BY <1>1, <2>1, <2>5 DEF Store, TypeOK, Row
    <3>2. ~Drives(m) /\ ~Validates(m)
      BY <1>4, <2>1, <2>5 DEF AgreeOn
    <3> QED BY <2>3, <3>1, <3>2 DEF AgreeOn, Live, InFlight
  <2> QED BY <2>4, <2>5
<1>11. CASE RefuseRequest
  <2>1. Operator /\ UNCHANGED <<queue, row>>
    BY <1>11 DEF Operator, RefuseRequest
  <2> QED BY <1>5, <2>1
<1> QED BY <1>2, <1>3, <1>7, <1>8, <1>9, <1>10, <1>11 DEF Operator

LEMMA SpecAgrees == Spec => []Agree
<1>1. Init => Agree
  BY ConstantsOK DEF Init, Idle, Agree, AgreeOn, Alone, Claims, Validates, Queued, Drives, Serving
<1>2. ASSUME Inv, ServedInv, WorkerCopy, TickerCopy, Agree, [Next]_vars PROVE Agree'
  <2>1. CASE WorkerStep
    <3>1. UNCHANGED crossed
      BY <2>1 DEF WorkerStep, WorkerCall, Answers, Validate, Start, CancelUnstarted, Halt, Pair,
         Unpair, PauseFormation, RejoinFormation, Take, FollowerStarted, StartedPastTheEnd,
         FollowerRefused, Unfollowed, Driving, DriveRefused, DriveFailed, Halted,
         FormationPaused, RejoinStopped, Rejoined, WorkerResumes
    <3>2. ASSUME NEW m \in Mission, AgreeOn(m) PROVE AgreeOn(m)'
      BY <1>2, <2>1, <3>2, TakesAgree, WorkAgrees DEF WorkerStep
    <3> QED BY <1>2, <3>1, <3>2 DEF Agree
  <2>2. CASE TickerStep \/ \E followLost \in BOOLEAN : RaiseAlert(followLost)
    <3>1. UNCHANGED crossed
      BY <2>2 DEF TickerStep, TickerCall, Answers, TickerResumes, RuntimeTick, Protected,
         SettleFormation, Succeed, Advance, SettleTimeout, FollowerLost, FinishHalt, NothingToTick,
         Ticks, Advanced, AdvanceRefused, AdvanceFailed, LostStopped, RaiseAlert
    <3> QED BY <1>2, <2>2, <3>1, TickAgrees DEF Agree
  <2> QED BY <1>2, <2>1, <2>2, OthersAgree DEF Next
<1> QED BY <1>1, <1>2, SpecInv, SpecServed, SpecCopies, PTL DEF Spec

(* The mission the server drives is never one the database records as over *)
(* or unstarted, unless a request of that mission crossed an unfinished    *)
(* command of it; other missions may be asked for anything meanwhile.      *)
THEOREM LiveMissionsOnly == Spec => []ActiveIsLive
<1>1. Agree => ActiveIsLive
  BY DEF Agree, AgreeOn, ActiveIsLive, Live
<1> QED BY <1>1, SpecAgrees, PTL

(* With the same exception, the start command and the tick never send      *)
(* goals of one mission at the same time.                                  *)
THEOREM SingleDriver == Spec => []OneDriver
<1>1. WorkerCopy /\ Agree => OneDriver
  <2> SUFFICES ASSUME WorkerCopy, Agree, worker.op = "drive", ticker.op = "advance",
                      worker.m = ticker.m, worker.m \notin crossed
               PROVE  FALSE
    BY DEF OneDriver
  <2>1. worker.m \in Mission
    BY DEF WorkerCopy, Serving
  <2>2. Claims(worker.m) /\ Drives(worker.m)
    BY DEF Claims, Drives, Serving
  <2> QED BY <2>1, <2>2 DEF Agree, AgreeOn
<1> QED BY <1>1, SpecAgrees, SpecCopies, PTL
=============================================================================
