-------------------------- MODULE CameraFeed_proofs --------------------------
(***************************************************************************)
(* The connection, its calls and the camera, for any number of calls,      *)
(* delays, sockets and viewers.  That no result is made up rests on where  *)
(* the request of a call can be: nothing is on the wire before the call is *)
(* sent, nothing after its event is told, and the robot performs it once.  *)
(* That nothing old is shown rests on what is forgotten with a connection. *)
(***************************************************************************)
EXTENDS CameraFeed, TLAPS

(* What the call, its future, its request and its event say of each other. *)
CallsAgree ==
  \A c \in Call :
    /\ call[c] \in {"idle", "sending"} =>
         request[c] = "none" /\ did[c] = "none" /\ future[c] \in {"none", "closed"}
    /\ c \in pending => call[c] \in {"sending", "waiting"}
    /\ call[c] # "done" => outcome[c] = "none"
    /\ outcome[c] = "offline" => request[c] = "none"
    /\ request[c] = "sent" => did[c] = "none"
    /\ request[c] = "answered" => did[c] \in Answer
    /\ told[c] # "none" => request[c] = "none" /\ did[c] # "none"

(* What a future was set to is what the robot did and what was told of it. *)
FuturesAreHonest ==
  \A c \in Call :
    /\ future[c] = "accepted" => did[c] = "accepted" /\ told[c] = "SUCCEEDED"
    /\ future[c] = "refused" => did[c] \in {"refused", "unserved"} /\ told[c] = "REJECTED"

(* The state of the robot says ONLINE exactly while the task serves it.    *)
OnlineIsServing == online <=> phase = "serving"

LinkInv ==
  /\ TypeOK /\ CallsAgree /\ FuturesAreHonest /\ OnlineIsServing
  /\ AcceptedWasDone /\ GoalOfThisConnection

(* A frame is held only while its connection is up.                        *)
FrameOfThisConnection == frame # "none" => phase = "serving" /\ shot = socket

Inv == LinkInv /\ CameraTypeOK /\ FrameOfThisConnection /\ WorkerFollowsViewers

USE CallsAssumption, BoundsAssumption

(* The initial state of the link satisfies its invariant.                  *)
LEMMA InitLink == Init => LinkInv
<1> SUFFICES ASSUME Init PROVE LinkInv
  OBVIOUS
<1>1. retry \in 0..Delays /\ socket \in 0..MaxSockets /\ via \in [Call -> 0..MaxSockets]
  BY DEF Init
<1>2. TypeOK
  BY <1>1 DEF Init, TypeOK
<1> QED
  BY <1>2 DEF Init, LinkInv, CallsAgree, FuturesAreHonest, OnlineIsServing,
     AcceptedWasDone, GoalOfThisConnection

(* A step of the task that leaves the calls alone, and forgets the state   *)
(* of the robot unless the connection stays what it is.                    *)
LEMMA TaskKeepsInv ==
  ASSUME LinkInv, UNCHANGED calls, TypeOK', OnlineIsServing',
         goal' \in {goal, NoCall}, goal' # NoCall => online' /\ socket' = socket
  PROVE  LinkInv'
<1>1. CallsAgree' /\ FuturesAreHonest' /\ AcceptedWasDone'
  BY DEF LinkInv, calls, CallsAgree, FuturesAreHonest, AcceptedWasDone
<1>2. GoalOfThisConnection'
  BY DEF LinkInv, calls, GoalOfThisConnection
<1> QED BY <1>1, <1>2 DEF LinkInv

(* Receiving keeps the type of the link.                                   *)
LEMMA ReceivedKeepsLink ==
  ASSUME TypeOK, Received
  PROVE  /\ phase' = phase /\ phase = "serving" /\ socket' = socket
         /\ registered' = registered /\ wire' = wire
         /\ stable' \in BOOLEAN /\ retry' \in 0..Delays
  BY DEF TypeOK, Received

(* Every step of the task preserves the invariant of the link.             *)
LEMMA RunKeepsInv ==
  ASSUME LinkInv, Run
  PROVE  LinkInv'
<1> USE DEF LinkInv, OnlineIsServing, calls, shown
<1>1. CASE Opened
  <2>1. socket' \in 0..MaxSockets
    BY <1>1 DEF Opened, TypeOK
  <2>2. TypeOK'
    BY <1>1, <2>1 DEF Opened, TypeOK
  <2>3. goal = NoCall
    BY <1>1 DEF Opened, GoalOfThisConnection
  <2> QED BY <1>1, <2>2, <2>3, TaskKeepsInv DEF Opened
<1>2. CASE OpenFails \/ Fails
  <2>1. retry' \in 0..Delays
    BY <1>2 DEF OpenFails, Fails, BacksOff, TypeOK
  <2>2. TypeOK'
    BY <1>2, <2>1 DEF OpenFails, Fails, BacksOff, Forgotten, TypeOK
  <2> QED BY <1>2, <2>2, TaskKeepsInv DEF OpenFails, Fails, BacksOff, Forgotten
<1>3. CASE Reopens
  <2>1. TypeOK' /\ goal = NoCall
    BY <1>3 DEF Reopens, TypeOK, GoalOfThisConnection
  <2> QED BY <1>3, <2>1, TaskKeepsInv DEF Reopens
<1>4. CASE Breaks
  <2>1. TypeOK'
    BY <1>4 DEF Breaks, TypeOK
  <2>2. goal # NoCall => online
    BY DEF GoalOfThisConnection
  <2> QED BY <1>4, <2>1, <2>2, TaskKeepsInv DEF Breaks
<1>5. CASE Telemetry
  <2>1. TypeOK'
    BY <1>5, ReceivedKeepsLink DEF Telemetry, TypeOK
  <2>2. goal # NoCall => online
    BY DEF GoalOfThisConnection
  <2> QED BY <1>5, <2>1, <2>2, ReceivedKeepsLink, TaskKeepsInv DEF Telemetry
<1> QED BY <1>1, <1>2, <1>3, <1>4, <1>5 DEF Run

(* close wakes every call that waits with a result that claims nothing.    *)
LEMMA CloseKeepsInv ==
  ASSUME LinkInv, Close
  PROVE  LinkInv'
<1> USE DEF LinkInv, Close, Forgotten
<1>1. TypeOK'
  BY DEF TypeOK, Verdict, Answer
<1>2. CallsAgree' /\ FuturesAreHonest'
  BY DEF TypeOK, CallsAgree, FuturesAreHonest
<1>3. AcceptedWasDone'
  BY DEF AcceptedWasDone
<1> QED BY <1>1, <1>2, <1>3 DEF OnlineIsServing, GoalOfThisConnection

(* A call that ends takes its result from its future, or claims nothing.   *)
LEMMA EndedKeepsInv ==
  ASSUME LinkInv, NEW c \in Call, NEW how, Ended(c, how),
         UNCHANGED <<link, shown, future, via, request, did, told>>,
         \/ how = "offline" /\ call[c] = "idle"
         \/ how \in {"failed", "timeout"} /\ call[c] \in {"sending", "waiting"}
         \/ how = future[c] /\ call[c] = "waiting" /\ how # "none"
  PROVE  LinkInv'
<1> USE DEF LinkInv, Ended, link, shown
<1>1. TypeOK'
  BY DEF TypeOK, Verdict, Answer
<1>2. CallsAgree'
  BY DEF TypeOK, CallsAgree, Verdict, Answer
<1>3. AcceptedWasDone'
  <2> SUFFICES ASSUME NEW d \in Call
               PROVE  /\ outcome'[d] = "accepted" => did'[d] = "accepted" /\ told'[d] = "SUCCEEDED"
                      /\ outcome'[d] = "refused" =>
                           did'[d] \in {"refused", "unserved"} /\ told'[d] = "REJECTED"
                      /\ outcome'[d] = "offline" => did'[d] = "none" /\ told'[d] = "none"
    BY DEF AcceptedWasDone
  <2>1. CASE d # c
    BY <2>1 DEF TypeOK, AcceptedWasDone
  <2>2. CASE d = c
    BY <2>2 DEF TypeOK, Verdict, Answer, CallsAgree, FuturesAreHonest
  <2> QED BY <2>1, <2>2
<1> QED BY <1>1, <1>2, <1>3 DEF FuturesAreHonest, OnlineIsServing, GoalOfThisConnection

(* Every step of a caller preserves the invariant of the link.             *)
LEMMA CallerKeepsInv ==
  ASSUME LinkInv, NEW c \in Call, Caller(c)
  PROVE  LinkInv'
<1>1. CASE Execute(c) /\ ~registered
  BY <1>1, EndedKeepsInv DEF Execute
<1>2. CASE SendFails(c) \/ TimesOut(c) \/ Returns(c)
  BY <1>2, EndedKeepsInv DEF SendFails, TimesOut, Returns
<1>3. CASE Execute(c) /\ registered
  <2> USE <1>3 DEF LinkInv, Execute, link, shown
  <2>1. TypeOK'
    BY DEF TypeOK
  <2>2. CallsAgree'
    BY DEF TypeOK, CallsAgree
  <2>3. goal # c
    BY DEF GoalOfThisConnection, CallsAgree
  <2>4. GoalOfThisConnection'
    BY <2>3 DEF TypeOK, GoalOfThisConnection
  <2> QED
    BY <2>1, <2>2, <2>4 DEF FuturesAreHonest, OnlineIsServing, AcceptedWasDone
<1>4. CASE Sent(c)
  <2> USE <1>4 DEF LinkInv, Sent, link, shown
  <2>1. TypeOK'
    BY DEF TypeOK
  <2>2. CallsAgree'
    BY DEF TypeOK, CallsAgree
  <2> QED
    BY <2>1, <2>2 DEF FuturesAreHonest, OnlineIsServing, AcceptedWasDone, GoalOfThisConnection
<1> QED BY <1>1, <1>2, <1>3, <1>4 DEF Caller

(* What the robot does to a request, and what is lost of it.               *)
LEMMA RobotKeepsInv ==
  ASSUME LinkInv, NEW c \in Call, Performs(c) \/ Lost(c)
  PROVE  LinkInv'
<1> USE DEF LinkInv, link, shown
<1>1. CASE Performs(c)
  <2> USE <1>1 DEF Performs
  <2>1. PICK a \in Answer : did' = [did EXCEPT ![c] = a]
    OBVIOUS
  <2>2. TypeOK'
    BY <2>1 DEF TypeOK
  <2>3. CallsAgree'
    BY <2>1 DEF TypeOK, CallsAgree, Verdict, Answer
  <2>4. FuturesAreHonest' /\ AcceptedWasDone'
    BY <2>1 DEF TypeOK, CallsAgree, FuturesAreHonest, AcceptedWasDone
  <2> QED BY <2>2, <2>3, <2>4 DEF OnlineIsServing, GoalOfThisConnection
<1>2. CASE Lost(c)
  <2> USE <1>2 DEF Lost
  <2>1. TypeOK' /\ CallsAgree'
    BY DEF TypeOK, CallsAgree
  <2> QED
    BY <2>1 DEF FuturesAreHonest, OnlineIsServing, AcceptedWasDone, GoalOfThisConnection
<1> QED BY <1>1, <1>2

(* An answer sets the future only to what the robot did.                   *)
LEMMA AnsweredKeepsInv ==
  ASSUME LinkInv, NEW c \in Call, Answered(c)
  PROVE  LinkInv'
<1> USE DEF LinkInv
<1>1. /\ phase' = phase /\ phase = "serving" /\ socket' = socket
      /\ registered' = registered /\ wire' = wire
      /\ stable' \in BOOLEAN /\ retry' \in 0..Delays
      /\ online' = online /\ call' = call /\ outcome' = outcome /\ via' = via /\ did' = did
      /\ request' = [request EXCEPT ![c] = "none"]
      /\ request[c] = "answered" /\ did[c] \in Answer /\ told[c] = "none" /\ via[c] = socket
  BY ReceivedKeepsLink DEF Answered, CallsAgree
<1>2. CASE ~Expected(c)
  <2>1. UNCHANGED <<pending, future, told, goal>>
    BY <1>2 DEF Answered
  <2>2. TypeOK' /\ CallsAgree'
    BY <1>1, <2>1 DEF TypeOK, CallsAgree
  <2> QED
    BY <1>1, <2>1, <2>2 DEF FuturesAreHonest, OnlineIsServing, AcceptedWasDone,
       GoalOfThisConnection
<1>3. CASE Expected(c)
  <2>1. /\ pending' = pending \ {c}
        /\ future' = [future EXCEPT ![c] = IF Accepted(c) THEN "accepted" ELSE "refused"]
        /\ told' = [told EXCEPT ![c] = IF Accepted(c) THEN "SUCCEEDED" ELSE "REJECTED"]
        /\ goal' = IF ~Accepted(c) THEN goal ELSE IF c \in Navigation THEN c ELSE NoCall
    BY <1>3 DEF Answered
  <2>2. call[c] = "waiting" /\ outcome[c] = "none"
    BY <1>1, <1>3 DEF Expected, CallsAgree, TypeOK, Verdict, Answer
  <2>3. TypeOK'
    <3>1. future' \in [Call -> Verdict \cup {"none", "closed"}]
      BY <2>1 DEF TypeOK, Verdict
    <3> QED BY <1>1, <2>1, <3>1 DEF TypeOK
  <2>4. CallsAgree'
    BY <1>1, <2>1, <2>2 DEF TypeOK, CallsAgree, Verdict, Answer
  <2>5. FuturesAreHonest'
    BY <1>1, <2>1 DEF TypeOK, FuturesAreHonest, Accepted, HasVerdict, BridgeResult, Verdict, Answer
  <2>6. AcceptedWasDone'
    BY <1>1, <2>1, <2>2 DEF TypeOK, AcceptedWasDone
  <2>7. GoalOfThisConnection'
    BY <1>1, <2>1 DEF TypeOK, GoalOfThisConnection, OnlineIsServing, Accepted, HasVerdict
  <2> QED BY <1>1, <2>3, <2>4, <2>5, <2>6, <2>7 DEF OnlineIsServing
<1> QED BY <1>2, <1>3

(* Every step of the link preserves its invariant.                         *)
LEMMA NextLink == LinkInv /\ Next => LinkInv'
BY RunKeepsInv, CloseKeepsInv, CallerKeepsInv, RobotKeepsInv, AnsweredKeepsInv
   DEF Next, Wire

(* The initial state satisfies the invariant.                              *)
LEMMA InitInv == CameraInit => Inv
BY InitLink DEF CameraInit, Inv, CameraTypeOK, FrameOfThisConnection, WorkerFollowsViewers

(* The camera changes nothing of the link.                                 *)
LEMMA LinkUnchanged == LinkInv /\ UNCHANGED vars => LinkInv'
BY DEF LinkInv, TypeOK, CallsAgree, FuturesAreHonest, OnlineIsServing, AcceptedWasDone,
   GoalOfThisConnection, vars, link, shown, calls

(* A viewer who leaves is the last one, or leaves others with the worker.  *)
LEMMA LeaveKeepsInv ==
  ASSUME Inv, NEW v \in Viewer, Leave(v)
  PROVE  Inv'
<1> USE DEF Inv, Leave, adapter
<1>1. LinkInv'
  BY LinkUnchanged
<1>2. CameraTypeOK' /\ WorkerFollowsViewers'
  BY DEF CameraTypeOK, WorkerFollowsViewers, Alone
<1>3. FrameOfThisConnection'
  BY DEF FrameOfThisConnection, vars, link
<1> QED BY <1>1, <1>2, <1>3

(* Every step preserves the invariant.                                     *)
LEMMA NextInv == Inv /\ [CameraNext]_<<vars, camera>> => Inv'
<1> SUFFICES ASSUME Inv, [CameraNext]_<<vars, camera>> PROVE Inv'
  OBVIOUS
<1> USE DEF Inv
<1>1. CASE LinkStep
  <2>1. LinkInv'
    BY <1>1, NextLink DEF LinkStep
  <2>2. CameraTypeOK' /\ WorkerFollowsViewers'
    BY <1>1 DEF LinkStep, service, CameraTypeOK, WorkerFollowsViewers
  <2>3. CASE frame' # "none"
    <3>1. frame' = frame /\ shot' = shot /\ ~Disconnecting /\ phase = "serving" /\ shot = socket
      BY <1>1, <2>3 DEF LinkStep, FrameOfThisConnection
    <3>2. phase' = "serving" /\ socket' = socket
      BY <1>1, <3>1 DEF LinkStep, Disconnecting, Next, Run, Caller, Wire, Opened, OpenFails,
         Fails, BacksOff, Reopens, Breaks, Telemetry, Received, Execute, Sent, SendFails,
         TimesOut, Returns, Performs, Lost, Answered, Close, link
    <3> QED BY <2>1, <2>2, <3>1, <3>2 DEF FrameOfThisConnection
  <2> QED BY <2>1, <2>2, <2>3 DEF FrameOfThisConnection
<1>2. CASE Captured
  <2>1. Telemetry
    BY <1>2 DEF Captured, Telemetry
  <2>2. LinkInv'
    BY <2>1, NextLink DEF Next, Run
  <2>3. socket' = socket /\ phase' = phase /\ phase = "serving" /\ socket \in 0..MaxSockets
    BY <1>2 DEF Captured, Received, LinkInv, TypeOK
  <2> QED
    BY <1>2, <2>2, <2>3 DEF Captured, service, CameraTypeOK, WorkerFollowsViewers,
       FrameOfThisConnection
<1>3. CASE GrowsStale \/ Produce
  <2>1. LinkInv' /\ phase' = phase /\ socket' = socket /\ shot' = shot
    BY <1>3, LinkUnchanged DEF GrowsStale, Produce, vars, link
  <2>2. CASE GrowsStale
    BY <2>1, <2>2 DEF GrowsStale, service, CameraTypeOK, WorkerFollowsViewers,
       FrameOfThisConnection
  <2>3. CASE Produce
    <3>1. queue' \subseteq viewers /\ worker' \in {"running", "dead"}
      BY <2>3 DEF Produce, CameraTypeOK
    <3> QED
      BY <2>1, <2>3, <3>1 DEF Produce, CameraTypeOK, WorkerFollowsViewers,
         FrameOfThisConnection
  <2> QED BY <1>3, <2>2, <2>3
<1>4. ASSUME NEW v \in Viewer, Join(v) \/ Send(v) \/ GoesAway(v) PROVE Inv'
  <2>1. CASE Send(v) /\ v \in gone
    BY <2>1, LeaveKeepsInv DEF Send
  <2>2. CASE ~(Send(v) /\ v \in gone)
    <3>1. LinkInv' /\ phase' = phase /\ socket' = socket
      BY <1>4, <2>2, LinkUnchanged DEF Join, Send, GoesAway, vars, link
    <3> QED
      BY <1>4, <2>2, <3>1 DEF Join, Send, GoesAway, adapter, CameraTypeOK,
         WorkerFollowsViewers, FrameOfThisConnection
  <2> QED BY <2>1, <2>2
<1>5. CASE UNCHANGED <<vars, camera>>
  BY <1>5, LinkUnchanged DEF vars, link, camera, adapter, service, CameraTypeOK,
     WorkerFollowsViewers, FrameOfThisConnection
<1> QED BY <1>1, <1>2, <1>3, <1>4, <1>5 DEF CameraNext

(* The invariant holds in every behaviour.                                 *)
THEOREM SpecInv == CameraSpec => []Inv
<1> QED BY InitInv, NextInv, PTL DEF CameraSpec

(* Types, for any calls, delays and viewers.                               *)
THEOREM Typed == CameraSpec => [](TypeOK /\ CameraTypeOK)
<1>1. Inv => TypeOK /\ CameraTypeOK
  BY DEF Inv, LinkInv
<1> QED BY <1>1, SpecInv, PTL

(* execute never makes up a result: what it returns the robot did, and the *)
(* event that was emitted says the same.                                   *)
THEOREM NothingMadeUp == CameraSpec => []AcceptedWasDone
<1>1. Inv => AcceptedWasDone
  BY DEF Inv, LinkInv
<1> QED BY <1>1, SpecInv, PTL

(* The goal on the map was accepted over the connection that is up now.    *)
THEOREM GoalIsCurrent == CameraSpec => []GoalOfThisConnection
<1>1. Inv => GoalOfThisConnection
  BY DEF Inv, LinkInv
<1> QED BY <1>1, SpecInv, PTL

(* An answer that comes after execute gave up changes nothing: only an     *)
(* answer sets an event or a goal, and only that of a call still pending.  *)
THEOREM LateAnswers == CameraSpec => LateAnswersAreSilent
<1> DEFINE Silent(c) ==
      call[c] = "done" => told'[c] = told[c] /\ (goal' = c => goal = c)
<1>1. ASSUME Inv, [CameraNext]_<<vars, camera>>, NEW c \in Call PROVE Silent(c)
  <2> SUFFICES ASSUME call[c] = "done" PROVE told'[c] = told[c] /\ (goal' = c => goal = c)
    OBVIOUS
  <2>1. c \notin pending /\ told \in [Call -> {"none", "SUCCEEDED", "REJECTED"}]
    BY <1>1 DEF Inv, LinkInv, CallsAgree, TypeOK
  <2>2. CASE LinkStep
    <3>1. ASSUME NEW d \in Call, Answered(d) PROVE told'[c] = told[c] /\ (goal' = c => goal = c)
      BY <2>1, <3>1 DEF Answered, Expected
    <3> QED
      BY <2>2, <3>1 DEF LinkStep, Next, Run, Caller, Wire, Opened, OpenFails, Fails, BacksOff,
         Forgotten, Reopens, Breaks, Telemetry, Execute, Sent, SendFails, TimesOut, Returns,
         Performs, Lost, Close, shown, calls
  <2>3. CASE ~LinkStep
    BY <1>1, <2>3 DEF CameraNext, Captured, GrowsStale, Produce, Join, Send, Leave, GoesAway,
       vars, shown, calls
  <2> QED BY <2>2, <2>3
<1>2. Inv /\ [CameraNext]_<<vars, camera>>
        => [\A c \in Call : call[c] = "done" =>
              told'[c] = told[c] /\ (goal' = c => goal = c)]_vars
  BY <1>1
<1> QED BY <1>2, SpecInv, PTL DEF CameraSpec, LateAnswersAreSilent

(* A worker is registered exactly while the robot has viewers.             *)
THEOREM WorkerIsShared == CameraSpec => []WorkerFollowsViewers
<1>1. Inv => WorkerFollowsViewers
  BY DEF Inv
<1> QED BY <1>1, SpecInv, PTL

(* What is queued for a viewer came over the connection that is up now, at *)
(* most two seconds ago.                                                   *)
THEOREM NothingOld == CameraSpec => CameraShowsPresent
<1>1. Inv /\ [CameraNext]_<<vars, camera>>
        => [queue' \subseteq queue \/ (online /\ shot = socket /\ age = "fresh")]_<<vars, camera>>
  <2> SUFFICES ASSUME Inv, CameraNext
               PROVE  queue' \subseteq queue \/ (online /\ shot = socket /\ age = "fresh")
    OBVIOUS
  <2>1. CASE Produce
    <3>1. CASE Shown = "none"
      BY <2>1, <3>1 DEF Produce
    <3>2. CASE Shown # "none"
      BY <3>2 DEF Shown, Inv, LinkInv, OnlineIsServing, FrameOfThisConnection
    <3> QED BY <3>1, <3>2
  <2>2. CASE ~Produce
    BY <2>2 DEF CameraNext, LinkStep, Captured, GrowsStale, Join, Send, Leave, GoesAway, service
  <2> QED BY <2>1, <2>2
<1> QED BY <1>1, SpecInv, PTL DEF CameraSpec, CameraShowsPresent
-----------------------------------------------------------------------------
(* Liveness.  The fairness of the calls with the guards written out, as    *)
(* the provers know nothing of ENABLED: a send over a socket of before or  *)
(* a broken one fails, every other one ends, and the timer always fires.   *)

SendEnds(c) ==
  []<>(call[c] # "sending") \/ []<><<LinkStep /\ (Sent(c) \/ SendFails(c))>>_vars

TimerFires(c) == []<>(call[c] # "waiting") \/ []<><<LinkStep /\ TimesOut(c)>>_vars

(* A call only goes forward.                                               *)
LEMMA CallGoesOn ==
  ASSUME Inv, [CameraNext]_<<vars, camera>>, NEW c \in Call
  PROVE  /\ call[c] = "sending" => call'[c] \in {"sending", "waiting", "done"}
         /\ call[c] = "waiting" => call'[c] \in {"waiting", "done"}
<1>1. call \in [Call -> {"idle", "sending", "waiting", "done"}]
  BY DEF Inv, LinkInv, TypeOK
<1>2. CASE call' = call
  BY <1>2
<1>3. ASSUME NEW d \in Call, Caller(d)
      PROVE  /\ call[c] = "sending" => call'[c] \in {"sending", "waiting", "done"}
             /\ call[c] = "waiting" => call'[c] \in {"waiting", "done"}
  BY <1>1, <1>3 DEF Caller, Execute, Sent, SendFails, TimesOut, Returns, Ended
<1>4. CASE LinkStep
  <2>1. Run \/ Close \/ (\E d \in Call : Wire(d)) => call' = call
    BY DEF Run, Wire, Opened, OpenFails, Fails, Reopens, Breaks, Telemetry, Performs, Lost,
           Answered, Close, calls
  <2> QED BY <1>2, <1>3, <1>4, <2>1 DEF LinkStep, Next
<1>5. CASE ~LinkStep
  <2>1. call' = call
    BY <1>5 DEF CameraNext, Captured, GrowsStale, Produce, Join, Send, Leave, GoesAway, vars, calls
  <2> QED BY <1>2, <2>1
<1> QED BY <1>4, <1>5

(* Every call ends, whatever the robot, the network, the adapter and the   *)
(* other calls do.                                                         *)
THEOREM CallsEnd ==
  CameraSpec /\ (\A c \in Call : SendEnds(c) /\ TimerFires(c)) => CallsConclude
<1> DEFINE Fair(c) == SendEnds(c) /\ TimerFires(c)
           Open(c) == call[c] \in {"sending", "waiting"}
           Done(c) == call[c] = "done"
<1>1. ASSUME NEW c \in Call
      PROVE  CameraSpec /\ Fair(c) => (Open(c) ~> Done(c))
  <2> DEFINE O == Open(c)
             D == Done(c)
             Sends == call[c] = "sending"
             Waits == call[c] = "waiting"
             SendsNot == call[c] # "sending"
             WaitsNot == call[c] # "waiting"
  <2>1. O => Sends \/ Waits
    OBVIOUS
  <2>2. Inv /\ Sends /\ [CameraNext]_<<vars, camera>> => Sends' \/ Waits' \/ D'
    BY CallGoesOn
  <2>3. Inv /\ Waits /\ [CameraNext]_<<vars, camera>> => Waits' \/ D'
    BY CallGoesOn
  <2>4. Inv /\ <<LinkStep /\ (Sent(c) \/ SendFails(c))>>_vars => Waits' \/ D'
    BY DEF Sent, SendFails, Ended, Inv, LinkInv, TypeOK
  <2>5. Inv /\ <<LinkStep /\ TimesOut(c)>>_vars => D'
    BY DEF TimesOut, Ended, Inv, LinkInv, TypeOK
  <2>6. (Sends => ~SendsNot) /\ (Waits => ~WaitsNot)
    OBVIOUS
  <2>7. Fair(c) => /\ []<>SendsNot \/ []<><<LinkStep /\ (Sent(c) \/ SendFails(c))>>_vars
                   /\ []<>WaitsNot \/ []<><<LinkStep /\ TimesOut(c)>>_vars
    BY DEF SendEnds, TimerFires
  <2>8. (Open(c) ~> Done(c)) <=> (O ~> D)
    OBVIOUS
  <2> HIDE DEF Fair, Open, Done
  <2> HIDE DEF O, D, Sends, Waits, SendsNot, WaitsNot
  <2> QED BY <2>1, <2>2, <2>3, <2>4, <2>5, <2>6, <2>7, <2>8, SpecInv, PTL DEF CameraSpec
<1>2. CallsConclude <=> \A c \in Call : (Open(c) ~> Done(c))
  BY DEF CallsConclude
<1> HIDE DEF Fair, Open, Done
<1>3. (\A c \in Call : Fair(c)) /\ CameraSpec => \A c \in Call : (Open(c) ~> Done(c))
  BY <1>1
<1>4. (\A c \in Call : SendEnds(c) /\ TimerFires(c)) <=> \A c \in Call : Fair(c)
  BY DEF Fair
<1> QED BY <1>2, <1>3, <1>4
=============================================================================
