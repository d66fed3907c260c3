--------------------------- MODULE ManualControl ---------------------------
(***************************************************************************)
(* Driving a robot by hand: the teleop websockets, TeleopService with its  *)
(* deadman, the part of runtime_tick that ends what nobody renews, and     *)
(* protective_stop.  The lease is the one ControlAuthority specifies; the  *)
(* robots obey, or a call to them fails.                                   *)
(*                                                                         *)
(* A robot is TeleopService's business from the first packet to the tick   *)
(* that ends it: enter and ingest set entered and active together, and the *)
(* 0.3 s since the last accepted packet always pass before the 1 s since   *)
(* the last packet.  StateStore.disconnect, which marks the robot that was  *)
(* driven as lost for those who look at it, moves nothing here.            *)
(***************************************************************************)
EXTENDS Naturals

CONSTANTS
  Session, LeaseId,   \* of ControlAuthority
  Tab,                \* the sockets a session may open, each once
  Tick,               \* the runtime tick, beside the handlers of the sockets
  MaxSeq              \* bound: sequence numbers of a socket

ASSUME SeqBound == MaxSeq \in Nat

Robot == {"robot_1", "robot_2"}
Socket == [session : Session, tab : Tab]
Caller == Socket \cup {Tick}   \* the coroutines that may be in a protective stop

ASSUME TickIsNoSocket == Tick \notin Socket

VARIABLES
  authority, spent,   \* of ControlAuthority
  lapse,              \* a lease that ran out awaits expire_security
  at,                 \* [Socket -> ...] where its handler is
  last,               \* [Socket -> last_seq], 0 for -1
  held,               \* [Robot -> number of its last accepted packet], 0 for none
  late,               \* robots whose last accepted packet is older than 0.3 s
  tick,               \* where the runtime tick is
  zeros,              \* robots the tick has yet to send a zero velocity
  stops,              \* [Caller -> robots its protective stop has yet to ask]
  robot,              \* [Robot -> ...] whether it moves by hand, and if it does
                      \* although a stop failed or after it was forgotten
  owed                \* history: robots to be asked to stop since a loss of control

lease == <<authority, spent>>
teleop == <<held, late>>
handlers == <<at, last>>
watchdog == <<tick, zeros>>
vars == <<lease, lapse, handlers, teleop, watchdog, stops, robot, owed>>

Lease == INSTANCE ControlAuthority

Init ==
  /\ Lease!Init /\ lapse = FALSE
  /\ at = [s \in Socket |-> "open"] /\ last = [s \in Socket |-> 0]
  /\ held = [r \in Robot |-> 0] /\ late = {}
  /\ tick = "idle" /\ zeros = {} /\ stops = [p \in Caller |-> {}]
  /\ robot = [r \in Robot |-> "still"]
  /\ owed = {}

-----------------------------------------------------------------------------
(* The lease.  It may run out, which expire_security reports unless the    *)
(* next grant is faster (ControlLease), or be released.                    *)

Acquire(s, t) ==
  /\ Lease!Grant(s, t) /\ lapse' = FALSE
  /\ UNCHANGED <<handlers, teleop, watchdog, stops, robot, owed>>

LoseLease ==
  /\ Lease!Lose /\ lapse' \in {TRUE, lapse}
  /\ UNCHANGED <<handlers, teleop, watchdog, stops, robot, owed>>

-----------------------------------------------------------------------------
(* TeleopService and protective_stop.                                      *)

Drop(robots) ==
  /\ held' = [r \in Robot |-> IF r \in robots THEN 0 ELSE held[r]]
  /\ late' = late \ robots

ProtectiveStop(p) ==
  /\ Drop(Robot)
  /\ stops' = [stops EXCEPT ![p] = Robot]

NextStop(p) == IF "robot_1" \in stops[p] THEN "robot_1" ELSE "robot_2"

AfterRefusalNone(p, accepted) == IF accepted THEN stops[p] \ {NextStop(p)} ELSE {}

(* A refusal or an exception does not keep the other robot from its stop.  *)
AfterRefusal(p, accepted) == stops[p] \ {NextStop(p)}

AskToStop(p, accepted) ==
  LET r == NextStop(p) IN
  /\ stops[p] # {}
  /\ stops' = [stops EXCEPT ![p] = AfterRefusal(p, accepted)]
  /\ robot' = [robot EXCEPT ![r] = IF accepted \/ @ = "still" THEN "still" ELSE "refused"]
  /\ owed' = owed \ {r}
  /\ UNCHANGED <<lease, lapse, handlers, teleop, watchdog>>

Stopping(p) == \E accepted \in BOOLEAN : AskToStop(p, accepted)

-----------------------------------------------------------------------------
(* The websocket handler.                                                  *)

(* A packet may carry a zero velocity, and a latched robot ignores it.     *)
Driven(r) == \E motion \in {"still", "moving"} : robot' = [robot EXCEPT ![r] = motion]
Zeroed(r) == robot' = [robot EXCEPT ![r] = "still"]

NewerThanSocket(r, n) == TRUE

(* ingest rejects what is not newer than the packet of any socket.         *)
Newer(r, n) == n > held[r]

Ingest(r, n) == held' = [held EXCEPT ![r] = n] /\ late' = late \ {r}

(* A packet that is not newer than the socket's last one, or comes without *)
(* the lease, changes nothing.                                             *)
Packet(s, r, n) ==
  /\ at[s] = "open" /\ n > last[s]
  /\ \E grant \in authority : grant.by = s.session
  /\ last' = [last EXCEPT ![s] = n]
  /\ \/ ~Newer(r, n) /\ UNCHANGED <<at, teleop, robot>>
     \/ Newer(r, n) /\ Ingest(r, n) /\ Driven(r) /\ UNCHANGED at
     \/ /\ Newer(r, n) /\ Ingest(r, n)
        /\ at' = [at EXCEPT ![s] = "failed"]
        /\ UNCHANGED robot
  /\ UNCHANGED <<lease, lapse, watchdog, stops, owed>>

(* publish_manual_velocity could not write: TeleopService forgets both     *)
(* robots, and nothing is sent to them.                                    *)
PublishFailed(s) ==
  /\ at[s] = "failed" /\ at' = [at EXCEPT ![s] = "open"]
  /\ Drop(Robot)
  /\ robot' = [r \in Robot |-> IF robot[r] = "moving" THEN "forgotten" ELSE robot[r]]
  /\ UNCHANGED <<lease, lapse, last, watchdog, stops, owed>>

Closes(s) ==
  /\ at[s] = "open" /\ at' = [at EXCEPT ![s] = "closed"]
  /\ last' = [last EXCEPT ![s] = 0]
  /\ UNCHANGED <<lease, lapse, watchdog, robot>>

(* The handler learns of the disconnection when it receives ...            *)
Disconnect(s) == Closes(s) /\ ProtectiveStop(s) /\ owed' = Robot

(* ... or when it sends, which ends the handler.                           *)
DisconnectSending(s) == Closes(s) /\ UNCHANGED <<teleop, stops, owed>>

Handler(s) ==
  \/ PublishFailed(s) \/ Disconnect(s) \/ DisconnectSending(s)
  \/ \E r \in Robot, n \in 1..MaxSeq : Packet(s, r, n)

-----------------------------------------------------------------------------
(* The runtime tick: the deadman, then the loss of the lease.              *)

Expired == {r \in late : held[r] # 0}

DeadmanForgetsAll ==
  /\ tick = "idle" /\ tick' = "zero"
  /\ zeros' = Expired /\ Drop(Robot)
  /\ UNCHANGED <<lease, lapse, handlers, stops, robot, owed>>

Deadman ==
  /\ tick = "idle" /\ tick' = "zero"
  /\ zeros' = Expired /\ Drop(Expired)
  /\ UNCHANGED <<lease, lapse, handlers, stops, robot, owed>>

ZeroIgnoresFailure(r) ==
  /\ tick = "zero" /\ stops[Tick] = {} /\ r \in zeros
  /\ zeros' = zeros \ {r}
  /\ UNCHANGED robot \/ Zeroed(r)
  /\ UNCHANGED <<teleop, stops, lease, lapse, handlers, tick, owed>>

(* A zero that cannot be delivered is followed by a protective stop.       *)
Zero(r) ==
  /\ tick = "zero" /\ stops[Tick] = {} /\ r \in zeros
  /\ zeros' = zeros \ {r}
  /\ \/ Zeroed(r) /\ UNCHANGED <<teleop, stops>>
     \/ ProtectiveStop(Tick) /\ UNCHANGED robot
  /\ UNCHANGED <<lease, lapse, handlers, tick, owed>>

ExpireSecurity ==
  /\ tick = "zero" /\ stops[Tick] = {} /\ zeros = {}
  /\ IF lapse
     THEN /\ lapse' = FALSE /\ tick' = "end" /\ owed' = Robot
          /\ ProtectiveStop(Tick)
     ELSE tick' = "idle" /\ UNCHANGED <<lapse, owed, teleop, stops>>
  /\ UNCHANGED <<lease, handlers, zeros, robot>>

TickEnds ==
  /\ tick = "end" /\ stops[Tick] = {} /\ tick' = "idle"
  /\ UNCHANGED <<lease, lapse, handlers, teleop, zeros, stops, robot, owed>>

RuntimeTick == Deadman \/ (\E r \in Robot : Zero(r)) \/ ExpireSecurity \/ TickEnds

-----------------------------------------------------------------------------
(* The clock, and the robots' own deadman.                                 *)

GrowsLate(r) ==
  /\ held[r] # 0 /\ r \notin late /\ late' = late \cup {r}
  /\ UNCHANGED <<lease, lapse, handlers, held, watchdog, stops, robot, owed>>

RobotExpires(r) ==
  /\ robot[r] # "still" /\ robot' = [robot EXCEPT ![r] = "still"]
  /\ UNCHANGED <<lease, lapse, handlers, teleop, watchdog, stops, owed>>

Next ==
  \/ \E s \in Session, t \in LeaseId : Acquire(s, t)
  \/ LoseLease
  \/ \E s \in Socket : Handler(s)
  \/ \E p \in Caller : Stopping(p)
  \/ RuntimeTick
  \/ \E r \in Robot : GrowsLate(r) \/ RobotExpires(r)

Spec == Init /\ [][Next]_vars

(* A coroutine that has begun goes on, a call to a robot ends within 2 s,  *)
(* the tick runs every 50 ms, and time passes.  No packet has to come.     *)
Fairness ==
  /\ WF_vars(RuntimeTick \/ Stopping(Tick))
  /\ \A s \in Socket : WF_vars(PublishFailed(s) \/ Stopping(s))
  /\ \A r \in Robot : WF_vars(GrowsLate(r))

FairSpec == Spec /\ Fairness
-----------------------------------------------------------------------------
TypeOK ==
  /\ authority \subseteq [by : Session, token : LeaseId] /\ spent \subseteq LeaseId
  /\ lapse \in BOOLEAN
  /\ at \in [Socket -> {"open", "failed", "closed"}]
  /\ last \in [Socket -> 0..MaxSeq]
  /\ held \in [Robot -> 0..MaxSeq] /\ late \subseteq {r \in Robot : held[r] # 0}
  /\ tick \in {"idle", "zero", "end"} /\ zeros \subseteq Robot
  /\ stops \in [Caller -> SUBSET Robot]
  /\ robot \in [Robot -> {"still", "moving", "forgotten", "refused"}]
  /\ owed \subseteq Robot

(* The robots somebody in the server still has in hand.                    *)
InHand == {r \in Robot : held[r] # 0 \/ r \in zeros \/ \E p \in Caller : r \in stops[p]}

(* A robot that moves by hand is in the server's hands: its deadman runs,  *)
(* a zero or a stop is on its way.  Only a stop that failed, and a failed  *)
(* publish, may leave it alone.                                            *)
MovingIsSupervised ==
  \A r \in Robot : robot[r] = "moving" => r \in InHand

(* While a robot is driven, no older packet replaces a newer one, whatever *)
(* sockets they come from.                                                 *)
NewestWins ==
  [][\A r \in Robot : held[r] # 0 /\ held'[r] # 0 => held'[r] >= held[r]]_vars

(* What nobody renews ends, also when the zero cannot be delivered and     *)
(* with the robot's own deadman out of order.                              *)
InputEnds == \A r \in Robot : robot[r] = "moving" ~> robot[r] # "moving"

(* A socket that is lost, and a lease that is seen to have run out, bring  *)
(* both robots a stop, although calls fail and protective stops of several *)
(* coroutines run at once.                                                 *)
LossStopsBoth == owed # {} ~> owed = {}
=============================================================================
