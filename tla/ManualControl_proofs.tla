------------------------ MODULE ManualControl_proofs ------------------------
(***************************************************************************)
(* A robot that moves by hand is supervised, for any number of sessions,   *)
(* tabs and packets.  That a robot leaves one pair of hands only for       *)
(* another (deadman, zero, protective stop) is inductive once no tick      *)
(* begins before the zeros of the one before it are sent.  Then, under     *)
(* the fairness of ManualControl: a robot that is to be stopped is asked,  *)
(* the tick comes round, and an input that nobody renews ends.             *)
(***************************************************************************)
EXTENDS ManualControl, TLAPS

(* A tick ends with nothing left to zero.                                  *)
ZerosAreSent == tick # "zero" => zeros = {}

Inv == TypeOK /\ MovingIsSupervised /\ ZerosAreSent

(* The initial state satisfies the invariant.                              *)
LEMMA InitInv == Init => Inv
<1> SUFFICES ASSUME Init PROVE Inv
  OBVIOUS
<1>1. authority = {} /\ spent = {}
  BY DEF Init, Lease!Init
<1>2. held \in [Robot -> 0..MaxSeq] /\ last \in [Socket -> 0..MaxSeq]
  BY SeqBound DEF Init
<1>3. TypeOK
  BY <1>1, <1>2 DEF Init, TypeOK
<1>4. MovingIsSupervised
  BY DEF Init, MovingIsSupervised
<1> QED BY <1>3, <1>4 DEF Init, Inv, ZerosAreSent

(* A protective stop forgets both robots and owes both a call.             *)
LEMMA StopTakesOver ==
  ASSUME TypeOK, NEW p \in Caller, ProtectiveStop(p)
  PROVE  /\ held' \in [Robot -> 0..MaxSeq] /\ late' = {}
         /\ stops' \in [Caller -> SUBSET Robot] /\ InHand' = Robot
  <1>1. held' = [r \in Robot |-> 0] /\ late' = {}
    BY DEF TypeOK, ProtectiveStop, Drop
  <1>2. stops' \in [Caller -> SUBSET Robot] /\ stops'[p] = Robot
    BY DEF TypeOK, ProtectiveStop
  <1> QED BY <1>1, <1>2, SeqBound DEF InHand

(* Every step preserves the invariant.                                     *)
LEMMA NextInv == Inv /\ [Next]_vars => Inv'
<1> SUFFICES ASSUME Inv, [Next]_vars PROVE Inv'
  OBVIOUS
<1> USE SeqBound DEF Inv
<1>0. ZerosAreSent'
  BY DEF ZerosAreSent, Next, vars, Acquire, LoseLease, Handler, Packet, PublishFailed,
     Disconnect, DisconnectSending, Closes, Stopping, AskToStop, RuntimeTick, Deadman,
     Zero, ExpireSecurity, TickEnds, GrowsLate, RobotExpires, watchdog
<1> USE <1>0
<1>1. ASSUME NEW s \in Session, NEW t \in LeaseId, Acquire(s, t) PROVE Inv'
  <2>1. /\ authority' = {[by |-> s, token |-> t]} /\ spent' = spent \cup {t}
        /\ lapse' = FALSE
        /\ UNCHANGED <<handlers, teleop, watchdog, stops, robot, owed>>
    BY <1>1 DEF Acquire, Lease!Grant
  <2>2. authority' \subseteq [by : Session, token : LeaseId]
    BY <2>1
  <2>3. TypeOK'
    BY <2>1, <2>2 DEF TypeOK, handlers, teleop, watchdog
  <2> QED BY <2>1, <2>3 DEF MovingIsSupervised, InHand, teleop, watchdog
<1>2. CASE LoseLease
  BY <1>2 DEF LoseLease, Lease!Lose, TypeOK, MovingIsSupervised, InHand, handlers,
     teleop, watchdog
<1>3. ASSUME NEW s \in Socket, NEW r \in Robot, NEW n \in 1..MaxSeq, Packet(s, r, n)
      PROVE  Inv'
  <2> USE DEF Packet
  <2>1. CASE ~Newer(r, n) /\ UNCHANGED <<at, teleop, robot>>
    BY <1>3, <2>1 DEF TypeOK, MovingIsSupervised, InHand, lease, teleop, watchdog
  <2>2. CASE Newer(r, n) /\ Ingest(r, n) /\ (Driven(r) \/ UNCHANGED robot)
    <3>1. held' = [held EXCEPT ![r] = n] /\ late' = late \ {r} /\ n # 0
      BY <2>2 DEF Ingest
    <3>2. TypeOK'
      BY <1>3, <2>2, <3>1 DEF Driven, TypeOK, lease, watchdog
    <3>3. \A q \in Robot : q # r => robot'[q] = robot[q]
      BY <2>2 DEF Driven, TypeOK
    <3>4. MovingIsSupervised'
      BY <1>3, <3>1, <3>3 DEF MovingIsSupervised, InHand, TypeOK, watchdog
    <3> QED BY <3>2, <3>4
  <2> QED BY <1>3, <2>1, <2>2
<1>4. ASSUME NEW s \in Socket, PublishFailed(s) PROVE Inv'
  BY <1>4 DEF PublishFailed, Drop, TypeOK, MovingIsSupervised, InHand, lease, watchdog
<1>5. ASSUME NEW s \in Socket, Disconnect(s) PROVE Inv'
  <2>1. s \in Caller /\ ProtectiveStop(s)
    BY <1>5 DEF Disconnect, Caller
  <2>2. TypeOK'
    BY <1>5, <2>1, StopTakesOver DEF Disconnect, Closes, TypeOK, lease, watchdog
  <2> QED BY <2>1, <2>2, StopTakesOver DEF MovingIsSupervised
<1>6. ASSUME NEW s \in Socket, DisconnectSending(s) PROVE Inv'
  BY <1>6 DEF DisconnectSending, Closes, TypeOK, MovingIsSupervised, InHand, lease,
     teleop, watchdog
<1>7. ASSUME NEW p \in Caller, Stopping(p) PROVE Inv'
  <2> PICK accepted \in BOOLEAN : AskToStop(p, accepted)
    BY <1>7 DEF Stopping
  <2> DEFINE r == NextStop(p)
  <2>1. r \in Robot
    BY DEF NextStop, Robot
  <2>2. /\ stops' = [stops EXCEPT ![p] = @ \ {r}]
        /\ robot' = [robot EXCEPT ![r] = IF accepted \/ @ = "still" THEN "still" ELSE "refused"]
        /\ owed' = owed \ {r}
        /\ UNCHANGED <<lease, lapse, handlers, teleop, watchdog>>
    BY DEF AskToStop, AfterRefusal
  <2> HIDE DEF r
  <2>3. TypeOK'
    BY <2>1, <2>2 DEF TypeOK, lease, handlers, teleop, watchdog
  <2>4. robot'[r] # "moving" /\ \A q \in Robot : q # r => robot'[q] = robot[q]
    BY <2>1, <2>2 DEF TypeOK
  <2>5. \A q \in Robot : q # r /\ q \in InHand => q \in InHand'
    BY <2>2 DEF InHand, TypeOK, teleop, watchdog
  <2> QED BY <2>3, <2>4, <2>5 DEF MovingIsSupervised
<1>8. CASE Deadman
  <2>1. /\ tick' = "zero" /\ zeros' = Expired
        /\ held' = [r \in Robot |-> IF r \in Expired THEN 0 ELSE held[r]]
        /\ late' = late \ Expired
        /\ UNCHANGED <<lease, lapse, handlers, stops, robot, owed>>
    BY <1>8 DEF Deadman, Drop
  <2>2. tick = "idle" /\ Expired \subseteq Robot
    BY <1>8 DEF Deadman, Expired, TypeOK
  <2>3. TypeOK'
    BY <2>1, <2>2 DEF TypeOK, lease, handlers
  <2>4. \A r \in Robot : r \in InHand => r \in InHand'
    BY <2>1, <2>2 DEF InHand, ZerosAreSent
  <2> QED BY <2>1, <2>3, <2>4 DEF MovingIsSupervised
<1>9. ASSUME NEW r \in Robot, Zero(r) PROVE Inv'
  <2> USE DEF Zero
  <2>1. CASE Zeroed(r) /\ UNCHANGED <<teleop, stops>>
    BY <1>9, <2>1 DEF Zeroed, TypeOK, MovingIsSupervised, InHand, lease, handlers, teleop
  <2>2. CASE ProtectiveStop(Tick) /\ UNCHANGED robot
    <3>1. TypeOK'
      BY <1>9, <2>2, StopTakesOver DEF Caller, TypeOK, lease, handlers
    <3> QED BY <2>2, <3>1, StopTakesOver DEF Caller, MovingIsSupervised
  <2> QED BY <1>9, <2>1, <2>2
<1>10. CASE ExpireSecurity
  <2> USE DEF ExpireSecurity
  <2>1. CASE lapse
    <3>1. ProtectiveStop(Tick)
      BY <1>10, <2>1
    <3>2. TypeOK'
      BY <1>10, <2>1, <3>1, StopTakesOver DEF Caller, TypeOK, lease, handlers
    <3> QED BY <3>1, <3>2, StopTakesOver DEF Caller, MovingIsSupervised
  <2>2. CASE ~lapse
    BY <1>10, <2>2 DEF TypeOK, MovingIsSupervised, InHand, lease, handlers, teleop
  <2> QED BY <2>1, <2>2
<1>11. CASE TickEnds
  BY <1>11 DEF TickEnds, TypeOK, MovingIsSupervised, InHand, lease, handlers, teleop
<1>12. ASSUME NEW r \in Robot, GrowsLate(r) PROVE Inv'
  BY <1>12 DEF GrowsLate, TypeOK, MovingIsSupervised, InHand, lease, handlers, watchdog
<1>13. ASSUME NEW r \in Robot, RobotExpires(r) PROVE Inv'
  BY <1>13 DEF RobotExpires, TypeOK, MovingIsSupervised, InHand, lease, handlers,
     teleop, watchdog
<1>14. CASE UNCHANGED vars
  BY <1>14 DEF vars, TypeOK, MovingIsSupervised, InHand, lease, handlers, teleop, watchdog
<1> QED BY <1>1, <1>2, <1>3, <1>4, <1>5, <1>6, <1>7, <1>8, <1>9, <1>10, <1>11, <1>12,
           <1>13, <1>14 DEF Next, Handler, RuntimeTick

(* The inductive invariant holds in every behaviour.                       *)
THEOREM SpecInv == Spec => []Inv
  BY InitInv, NextInv, PTL DEF Spec

(* Type correctness, for any sessions, tabs and sequence numbers.          *)
THEOREM Typed == Spec => []TypeOK
<1>1. Inv => TypeOK
  BY DEF Inv
<1> QED BY <1>1, SpecInv, PTL

(* Whatever sockets close, publishes fail and stops overlap, a robot that  *)
(* the server has not forgotten is in its hands while it moves.            *)
THEOREM Supervised == Spec => []MovingIsSupervised
<1>1. Inv => MovingIsSupervised
  BY DEF Inv
<1> QED BY <1>1, SpecInv, PTL

(* While a robot is driven, no older packet replaces a newer one, whatever *)
(* number of sockets race.                                                 *)
THEOREM Newest == Spec => NewestWins
<1> DEFINE Monotone == \A r \in Robot : held[r] # 0 /\ held'[r] # 0 => held'[r] >= held[r]
<1>1. Inv /\ [Next]_vars => [Monotone]_vars
  <2> SUFFICES ASSUME Inv, Next PROVE Monotone
    OBVIOUS
  <2> USE SeqBound DEF Inv, TypeOK
  <2>1. CASE UNCHANGED held
    BY <2>1
  <2>2. ASSUME NEW robots, Drop(robots) PROVE Monotone
    BY <2>2 DEF Drop
  <2>3. ASSUME NEW r \in Robot, NEW n \in 1..MaxSeq, Newer(r, n), Ingest(r, n)
        PROVE  Monotone
    BY <2>3 DEF Newer, Ingest
  <2> HIDE DEF Inv, TypeOK, Monotone
  <2> QED BY <2>1, <2>2, <2>3 DEF Next, Handler, RuntimeTick, Acquire, LoseLease, Packet,
          PublishFailed, Disconnect, DisconnectSending, ProtectiveStop, Stopping, AskToStop,
          Deadman, Zero, ExpireSecurity, TickEnds, GrowsLate, RobotExpires, teleop
<1> QED BY <1>1, SpecInv, PTL DEF Spec, NewestWins

-----------------------------------------------------------------------------
(* Losses of control                                                       *)

(* A robot that is to be asked to stop is in the list of some coroutine.   *)
OwedIsServed == \A r \in owed : \E p \in Caller : r \in stops[p]

(* Who is in a protective stop can begin no other: the socket is closed,   *)
(* and the tick is not over.                                               *)
StopsAreWhole ==
  /\ \A s \in Socket : stops[s] # {} => at[s] = "closed"
  /\ stops[Tick] # {} => tick # "idle"

StopInv == OwedIsServed /\ StopsAreWhole

(* A step of the stop of p: it asks the next robot.                        *)
Asks(p) ==
  /\ stops' = [stops EXCEPT ![p] = @ \ {NextStop(p)}]
  /\ owed' = owed \ {NextStop(p)}
  /\ robot'[NextStop(p)] # "moving"

LEMMA StoppingAsks ==
  ASSUME TypeOK, NEW p \in Caller, Stopping(p)
  PROVE  /\ Asks(p) /\ stops[p] # {} /\ NextStop(p) \in stops[p]
         /\ UNCHANGED <<lease, lapse, handlers, teleop, watchdog>>
         /\ \A r \in Robot \ {NextStop(p)} : robot'[r] = robot[r]
<1> PICK accepted \in BOOLEAN : AskToStop(p, accepted)
  BY DEF Stopping
<1>1. NextStop(p) \in Robot /\ stops[p] \subseteq Robot
  BY DEF NextStop, Robot, TypeOK
<1>2. NextStop(p) \in stops[p]
  BY <1>1 DEF NextStop, Robot, AskToStop
<1> QED BY <1>1, <1>2 DEF AskToStop, AfterRefusal, Asks, TypeOK

(* A step that is no call of a protective stop, and begins none.           *)
LEMMA StopsUntouched ==
  ASSUME StopInv, UNCHANGED <<stops, owed>>,
         \A s \in Socket : at[s] = "closed" => at'[s] = "closed",
         tick # "idle" /\ stops[Tick] # {} => tick' # "idle"
  PROVE  StopInv'
BY DEF StopInv, OwedIsServed, StopsAreWhole

(* A protective stop begins.                                               *)
LEMMA StopBegins ==
  ASSUME TypeOK, StopInv, NEW p \in Caller, stops[p] = {}, ProtectiveStop(p),
         owed' \in {owed, Robot},
         \A s \in Socket : at[s] = "closed" \/ s = p => at'[s] = "closed",
         p # Tick => tick' = tick, p = Tick => tick' # "idle"
  PROVE  StopInv'
<1>1. stops' = [stops EXCEPT ![p] = Robot]
  BY DEF ProtectiveStop
<1>2. OwedIsServed'
  BY <1>1 DEF TypeOK, StopInv, OwedIsServed
<1>3. StopsAreWhole'
  BY <1>1, TickIsNoSocket DEF TypeOK, StopInv, StopsAreWhole, Caller
<1> QED BY <1>2, <1>3 DEF StopInv

LEMMA NextStopInv == Inv /\ StopInv /\ [Next]_vars => StopInv'
<1> SUFFICES ASSUME Inv, StopInv, [Next]_vars PROVE StopInv'
  OBVIOUS
<1>0. TypeOK
  BY DEF Inv
<1>1. ASSUME NEW p \in Caller, Stopping(p) PROVE StopInv'
  <2>1. Asks(p) /\ NextStop(p) \in stops[p] /\ UNCHANGED <<at, tick>>
    BY <1>0, <1>1, StoppingAsks DEF handlers, watchdog
  <2>2. OwedIsServed'
    BY <1>0, <2>1 DEF Asks, StopInv, OwedIsServed, TypeOK
  <2>3. StopsAreWhole'
    BY <1>0, <2>1, TickIsNoSocket DEF Asks, StopInv, StopsAreWhole, TypeOK, Caller
  <2> QED BY <2>2, <2>3 DEF StopInv
<1>2. ASSUME NEW s \in Socket, Disconnect(s) PROVE StopInv'
  <2>1. s \in Caller /\ stops[s] = {} /\ ProtectiveStop(s) /\ owed' = Robot /\ tick' = tick
        /\ at' = [at EXCEPT ![s] = "closed"] /\ s # Tick
    BY <1>2, TickIsNoSocket DEF Disconnect, Closes, StopInv, StopsAreWhole, Caller, watchdog
  <2>2. \A q \in Socket : at[q] = "closed" \/ q = s => at'[q] = "closed"
    BY <1>0, <2>1 DEF TypeOK
  <2> QED BY <1>0, <2>1, <2>2, StopBegins
<1>3. ASSUME NEW r \in Robot, Zero(r) PROVE StopInv'
  BY <1>0, <1>3, StopBegins, StopsUntouched, TickIsNoSocket DEF Zero, handlers, Caller
<1>4. CASE ExpireSecurity
  BY <1>0, <1>4, StopBegins, StopsUntouched, TickIsNoSocket DEF ExpireSecurity, handlers, Caller
<1>5. CASE Deadman \/ TickEnds
  BY <1>5, StopsUntouched DEF Deadman, TickEnds, handlers
<1>6. ASSUME NEW s \in Socket, PublishFailed(s) \/ DisconnectSending(s)
      PROVE StopInv'
  BY <1>0, <1>6, StopsUntouched DEF PublishFailed, DisconnectSending, Closes, TypeOK, watchdog
<1>7. ASSUME NEW s \in Socket, NEW r \in Robot, NEW n \in 1..MaxSeq, Packet(s, r, n)
      PROVE StopInv'
  BY <1>0, <1>7, StopsUntouched DEF Packet, TypeOK, watchdog
<1>8. CASE \/ \E s \in Session, t \in LeaseId : Acquire(s, t)
           \/ LoseLease \/ UNCHANGED vars
           \/ \E r \in Robot : GrowsLate(r) \/ RobotExpires(r)
  BY <1>8, StopsUntouched DEF Acquire, LoseLease, vars, GrowsLate, RobotExpires, handlers, watchdog
<1> QED BY <1>1, <1>2, <1>3, <1>4, <1>5, <1>6, <1>7, <1>8 DEF Next, Handler, RuntimeTick

LEMMA SpecStops == Spec => []StopInv
<1>1. Init => StopInv
  BY DEF Init, StopInv, OwedIsServed, StopsAreWhole, Caller
<1> QED BY <1>1, NextStopInv, SpecInv, PTL DEF Spec

(* Whatever calls fail and however many protective stops overlap, a robot  *)
(* that has not been asked to stop since the loss of control is on the     *)
(* list of a coroutine that will ask it.                                   *)
THEOREM LossIsServed == Spec => []OwedIsServed
<1>1. StopInv => OwedIsServed
  BY DEF StopInv
<1> QED BY <1>1, SpecStops, PTL

-----------------------------------------------------------------------------
(* Fairness, with the conditions under which the actions can be taken      *)
(* written out: the tick always has something to do.                       *)
Turn(p) == IF p = Tick THEN RuntimeTick \/ Stopping(Tick) ELSE PublishFailed(p) \/ Stopping(p)

TickTurns == []<><<RuntimeTick \/ Stopping(Tick)>>_vars

HandlersTurn ==
  [](\A s \in Socket :
       <>(at[s] # "failed" /\ stops[s] = {}) \/ <><<PublishFailed(s) \/ Stopping(s)>>_vars)

TimePasses(r) == []<>~(held[r] # 0 /\ r \notin late) \/ []<><<GrowsLate(r)>>_vars

(* A protective stop goes on call by call, whoever else is in one.         *)
LEMMA Unhindered ==
  ASSUME Inv, StopInv, NEW p \in Caller, stops[p] # {}, [Next]_vars
  PROVE  stops'[p] = stops[p] \/ Asks(p)
<1>0. TypeOK
  BY DEF Inv
<1>1. ASSUME NEW q \in Caller, Stopping(q) PROVE stops'[p] = stops[p] \/ Asks(p)
  BY <1>0, <1>1, StoppingAsks DEF Asks, TypeOK
<1>2. ASSUME NEW q \in Caller, ProtectiveStop(q), stops[q] = {} PROVE stops'[p] = stops[p]
  BY <1>0, <1>2 DEF ProtectiveStop, TypeOK
<1>3. ASSUME NEW s \in Socket, Disconnect(s) PROVE stops'[p] = stops[p]
  BY <1>2, <1>3 DEF Disconnect, Closes, StopInv, StopsAreWhole, Caller
<1>4. CASE ExpireSecurity \/ \E r \in Robot : Zero(r)
  BY <1>2, <1>4 DEF Zero, ExpireSecurity, Caller
<1> QED BY <1>1, <1>3, <1>4 DEF Next, Handler, RuntimeTick, Acquire, LoseLease, Packet, PublishFailed,
        DisconnectSending, Deadman, TickEnds, GrowsLate, RobotExpires, vars

LEMMA TurnAsks ==
  ASSUME Inv, StopInv, NEW p \in Caller, stops[p] # {}, Turn(p)
  PROVE  Asks(p)
<1>1. TypeOK
  BY DEF Inv
<1>2. CASE p = Tick
  BY <1>1, <1>2, StoppingAsks DEF Turn, StopInv, StopsAreWhole, RuntimeTick, Deadman, Zero,
     ExpireSecurity, TickEnds
<1>3. CASE p # Tick
  BY <1>1, <1>3, StoppingAsks DEF Turn, StopInv, StopsAreWhole, PublishFailed, Caller
<1> QED BY <1>2, <1>3

(* It asks one robot and then the other.                                   *)
LEMMA StopEnds ==
  ASSUME NEW p \in Caller, NEW r \in Robot
  PROVE  [](Inv /\ StopInv) /\ [][Next]_vars /\ [](<>(stops[p] = {}) \/ <><<Turn(p)>>_vars)
           => [](r \in stops[p] => <>(r \notin owed /\ robot[r] # "moving"))
<1> DEFINE Both   == Inv /\ StopInv
           First  == r \in stops[p] /\ NextStop(p) = r
           Second == r \in stops[p] /\ NextStop(p) # r
           Listed == r \in stops[p]
           Empty  == stops[p] = {}
           Asked  == r \notin owed /\ robot[r] # "moving"
           T      == Turn(p)
<1>0. r = "robot_1" \/ r = "robot_2"
  BY DEF Robot
<1>1. ASSUME Both, Listed, Asks(p)
      PROVE  (First => Asked') /\ (Second => First')
  BY <1>0, <1>1 DEF Asks, NextStop, Inv, TypeOK
<1>2. Both /\ First /\ [Next]_vars => First' \/ Asked'
  BY <1>1, Unhindered DEF NextStop
<1>3. Both /\ Second /\ [Next]_vars => Second' \/ First'
  BY <1>1, Unhindered DEF NextStop
<1>4. Both /\ First /\ <<T>>_vars => Asked'
  BY <1>1, TurnAsks
<1>5. Both /\ Second /\ <<T>>_vars => First'
  BY <1>1, TurnAsks
<1>6. (First \/ Second => ~Empty) /\ (Listed => First \/ Second)
  OBVIOUS
<1> HIDE DEF Both, First, Second, Listed, Empty, Asked, T
<1>7. []Both /\ [][Next]_vars /\ [](<>Empty \/ <><<T>>_vars) => [](Listed => <>Asked)
  BY <1>2, <1>3, <1>4, <1>5, <1>6, PTL
<1> QED BY <1>7 DEF Both, Listed, Empty, Asked, T

(* What the behaviours of the theorems below satisfy at every moment.      *)
Proceeds == [](Inv /\ StopInv) /\ [][Next]_vars /\ TickTurns /\ HandlersTurn

Heeds(p, r) == [](r \in stops[p] => <>(r \notin owed /\ robot[r] # "moving"))

LEMMA ListedIsAsked ==
  ASSUME NEW p \in Caller, NEW r \in Robot
  PROVE  Proceeds => Heeds(p, r)
<1> DEFINE X(s) == <>(at[s] # "failed" /\ stops[s] = {}) \/ <><<PublishFailed(s) \/ Stopping(s)>>_vars
           Empty == stops[p] = {}
           Gone  == at[p] # "failed" /\ stops[p] = {}
           T     == Turn(p)
           Goes  == [](<>Empty \/ <><<T>>_vars)
<1>1. Proceeds => Goes
  <2>1. CASE p = Tick
    <3> DEFINE A == RuntimeTick \/ Stopping(Tick)
    <3>1. <<A>>_vars => <<T>>_vars
      BY <2>1 DEF Turn
    <3>2. TickTurns => []<><<A>>_vars
      BY DEF TickTurns
    <3> HIDE DEF A, T, Empty
    <3> QED BY <3>1, <3>2, PTL DEF Proceeds
  <2>2. CASE p # Tick
    <3> DEFINE A == PublishFailed(p) \/ Stopping(p)
               H == \A s \in Socket : X(s)
    <3>1. <<A>>_vars => <<T>>_vars
      BY <2>2 DEF Turn
    <3>2. Gone => Empty
      OBVIOUS
    <3>3. HandlersTurn => []H
      BY DEF HandlersTurn
    <3>4. H => X(p)
      <4> HIDE DEF X
      <4> QED BY <2>2 DEF Caller
    <3>5. X(p) => <>Gone \/ <><<A>>_vars
      OBVIOUS
    <3> HIDE DEF A, T, Empty, Gone, H, X
    <3> QED BY <3>1, <3>2, <3>3, <3>4, <3>5, PTL DEF Proceeds
  <2> QED BY <2>1, <2>2
<1>2. Goes => [](<>(stops[p] = {}) \/ <><<Turn(p)>>_vars)
  OBVIOUS
<1> HIDE DEF Goes
<1>3. Proceeds => [](r \in stops[p] => <>(r \notin owed /\ robot[r] # "moving"))
  BY <1>1, <1>2, StopEnds DEF Proceeds
<1> QED BY <1>3 DEF Heeds

(* A robot that is on anybody's list.                                      *)
LEMMA AnyListedIsAsked ==
  ASSUME NEW r \in Robot
  PROVE  Proceeds => []((\E p \in Caller : r \in stops[p]) => <>(r \notin owed /\ robot[r] # "moving"))
<1> DEFINE Asked     == r \notin owed /\ robot[r] # "moving"
           Listed(p) == r \in stops[p]
           Ev        == <>Asked
           Some      == \E p \in Caller : Listed(p)
<1>1. \A p \in Caller : Proceeds => Heeds(p, r)
  BY ListedIsAsked
<1>2. ASSUME NEW p \in Caller PROVE Heeds(p, r) => (Listed(p) => Ev)
  <2>1. Heeds(p, r) => [](Listed(p) => <>Asked)
    BY DEF Heeds
  <2> HIDE DEF Listed, Asked
  <2> QED BY <2>1, PTL
<1>3. Proceeds => (Some => Ev)
  <2> HIDE DEF Ev, Listed
  <2> QED BY <1>1, <1>2
<1>4. Proceeds => []Proceeds
  BY PTL DEF Proceeds, TickTurns, HandlersTurn
<1> HIDE DEF Some, Asked
<1>5. Proceeds => [](Some => Ev)
  BY <1>3, <1>4, PTL
<1> QED BY <1>5 DEF Some, Asked

LEMMA SpecProceeds == Spec /\ TickTurns /\ HandlersTurn => Proceeds
<1> HIDE DEF TickTurns, HandlersTurn
<1> QED BY SpecInv, SpecStops, PTL DEF Spec, Proceeds

(* A socket that is lost, and a lease that is seen to have run out, bring  *)
(* each robot a stop, however many sockets close and whatever calls fail.  *)
THEOREM LossStopsEach ==
  ASSUME NEW r \in Robot
  PROVE  Spec /\ TickTurns /\ HandlersTurn => (r \in owed ~> r \notin owed)
<1> DEFINE Owed == r \in owed
           Some == \E p \in Caller : r \in stops[p]
           Asked == r \notin owed /\ robot[r] # "moving"
<1>1. StopInv /\ Owed => Some
  BY DEF StopInv, OwedIsServed
<1>2. Asked => ~Owed
  OBVIOUS
<1>3. Proceeds => [](Some => <>Asked)
  BY AnyListedIsAsked
<1>4. Spec /\ TickTurns /\ HandlersTurn => Proceeds
  BY SpecProceeds
<1>5. (r \notin owed) <=> ~Owed
  OBVIOUS
<1>6. Proceeds => [](Inv /\ StopInv)
  BY DEF Proceeds
<1> HIDE DEF Owed, Some, Asked
<1>7. Spec /\ TickTurns /\ HandlersTurn => (Owed ~> ~Owed)
  BY <1>1, <1>2, <1>3, <1>4, <1>6, PTL
<1> QED BY <1>7, <1>5, PTL DEF Owed

-----------------------------------------------------------------------------
(* How far the tick is from its end: the robots it has yet to zero and to  *)
(* stop.  A zero that fails is given up for two stops.                     *)
Count(S) == (IF "robot_1" \in S THEN 1 ELSE 0) + (IF "robot_2" \in S THEN 1 ELSE 0)

Rank ==
  IF tick = "idle" THEN 0
  ELSE IF tick = "end" THEN 1 + Count(stops[Tick])
  ELSE 4 * (1 + Count(zeros)) + Count(stops[Tick])

LEMMA Counts ==
  /\ \A S \in SUBSET Robot : Count(S) \in 0..2
  /\ \A S \in SUBSET Robot : \A r \in S : Count(S \ {r}) = Count(S) - 1
BY DEF Count, Robot

LEMMA RankOK == TypeOK => Rank \in 0..14
<1> SUFFICES ASSUME TypeOK PROVE Rank \in 0..14
  OBVIOUS
<1>1. Count(stops[Tick]) \in 0..2 /\ Count(zeros) \in 0..2
  BY Counts DEF TypeOK, Caller
<1> QED BY <1>1 DEF TypeOK, Rank

LEMMA RankFalls ==
  ASSUME Inv, StopInv, [Next]_vars, tick # "idle"
  PROVE  /\ Rank' <= Rank /\ Rank' \in Nat
         /\ RuntimeTick \/ Stopping(Tick) => Rank' < Rank
<1>0. TypeOK /\ TypeOK'
  BY NextInv DEF Inv
<1>1. /\ Count(stops[Tick]) \in 0..2 /\ Count(zeros) \in 0..2
      /\ Count(stops'[Tick]) \in 0..2 /\ Count(zeros') \in 0..2
  BY <1>0, Counts DEF TypeOK, Caller
<1>2. ASSUME Stopping(Tick)
      PROVE  Rank' < Rank
  <2>1. /\ stops' = [stops EXCEPT ![Tick] = @ \ {NextStop(Tick)}] /\ NextStop(Tick) \in stops[Tick]
        /\ UNCHANGED <<tick, zeros>>
    BY <1>0, <1>2, StoppingAsks DEF Asks, Caller, watchdog
  <2>2. Count(stops'[Tick]) = Count(stops[Tick]) - 1
    BY <1>0, <2>1, Counts DEF TypeOK, Caller
  <2> QED BY <1>0, <1>1, <2>1, <2>2 DEF Rank, TypeOK
<1>3. ASSUME NEW r \in Robot, Zero(r)
      PROVE  Rank' < Rank
  <2>1. /\ tick = "zero" /\ tick' = "zero" /\ stops[Tick] = {} /\ r \in zeros /\ zeros' = zeros \ {r}
    BY <1>3 DEF Zero
  <2>2. Count(zeros') = Count(zeros) - 1
    BY <1>0, <2>1, Counts DEF TypeOK
  <2> QED BY <1>1, <2>1, <2>2 DEF Rank
<1>4. CASE ExpireSecurity \/ TickEnds
  <2>1. (tick = "zero" /\ tick' \in {"end", "idle"}) \/ (tick = "end" /\ tick' = "idle")
    BY <1>4 DEF ExpireSecurity, TickEnds
  <2> QED BY <1>1, <2>1 DEF Rank
<1>5. ASSUME UNCHANGED watchdog, stops'[Tick] = stops[Tick]
      PROVE  Rank' = Rank
  BY <1>5 DEF Rank, watchdog
<1>6. ASSUME NEW s \in Socket, Stopping(s) \/ Handler(s)
      PROVE  UNCHANGED watchdog /\ stops'[Tick] = stops[Tick]
  BY <1>0, <1>6, StoppingAsks, TickIsNoSocket DEF Asks, TypeOK, Caller, Handler, Packet, PublishFailed,
     Disconnect, DisconnectSending, Closes, ProtectiveStop
<1>7. ASSUME \/ \E s \in Session, t \in LeaseId : Acquire(s, t)
             \/ LoseLease \/ UNCHANGED vars
             \/ \E r \in Robot : GrowsLate(r) \/ RobotExpires(r)
      PROVE  UNCHANGED watchdog /\ stops'[Tick] = stops[Tick]
  BY <1>7 DEF Acquire, LoseLease, vars, GrowsLate, RobotExpires
<1>8. ~Deadman
  BY DEF Deadman
<1>9. Rank \in Nat /\ Rank' \in Nat
  <2>1. Rank \in 0..14
    BY <1>0, RankOK
  <2>2. (Rank \in 0..14)'
    BY <1>0, RankOK, PTL
  <2> QED BY <2>1, <2>2
<1>10. CASE RuntimeTick \/ Stopping(Tick)
  BY <1>2, <1>3, <1>4, <1>8, <1>9, <1>10 DEF RuntimeTick
<1>11. CASE ~(RuntimeTick \/ Stopping(Tick))
  <2>1. UNCHANGED watchdog /\ stops'[Tick] = stops[Tick]
    BY <1>6, <1>7, <1>11 DEF Next, Caller
  <2> QED BY <1>5, <1>9, <1>11, <2>1
<1> QED BY <1>10, <1>11

(* Rank falls to i stages and j calls, again and again.                    *)
Reaches(i, j) == []<>(Rank <= 4 * i + j)

(* No level is left but for a lower one.                                   *)
LEMMA RankDescends ==
  ASSUME NEW i \in 0..3, NEW j \in 0..3, NEW m \in 0..3, NEW n \in 0..3,
         4 * i + j = 4 * m + n + 1
  PROVE  Proceeds => (Reaches(i, j) => Reaches(m, n))
<1> DEFINE Both == Inv /\ StopInv
           High == Rank = 4 * i + j
           Up   == Rank <= 4 * i + j
           Low  == Rank <= 4 * m + n
           T    == RuntimeTick \/ Stopping(Tick)
<1>0. /\ 4 * i + j \in Nat /\ 4 * m + n \in Nat
      /\ Both => Rank \in Nat /\ (High => tick # "idle")
  BY RankOK DEF Inv, Rank
<1>1. Both => (Up <=> High \/ Low)
  BY <1>0
<1>2. Both /\ High /\ [Next]_vars => High' \/ Low'
  <2> SUFFICES ASSUME Both, High, [Next]_vars PROVE High' \/ Low'
    OBVIOUS
  <2>1. Rank' <= Rank /\ Rank' \in Nat
    BY <1>0, RankFalls
  <2> QED BY <1>0, <2>1
<1>3. Both /\ High /\ [Next]_vars /\ <<T>>_vars => Low'
  <2> SUFFICES ASSUME Both, High, [Next]_vars, T PROVE Low'
    OBVIOUS
  <2>1. Rank' < Rank /\ Rank' \in Nat
    BY <1>0, RankFalls
  <2> QED BY <1>0, <2>1
<1>4. Proceeds => []Both /\ [][Next]_vars /\ []<><<T>>_vars
  BY DEF Proceeds, TickTurns
<1> HIDE DEF Both, High, Low, Up, T
<1>5. Proceeds => ([]<>Up => []<>Low)
  BY <1>1, <1>2, <1>3, <1>4, PTL
<1> QED BY <1>5 DEF Up, Low, Reaches

LEMMA StagesDescend ==
  /\ \A i \in 0..3, j \in 0..2 : Proceeds => (Reaches(i, j + 1) => Reaches(i, j))
  /\ \A i \in 0..2 : Proceeds => (Reaches(i + 1, 0) => Reaches(i, 3))
<1>1. ASSUME NEW i \in 0..3, NEW j \in 0..2
      PROVE  Proceeds => (Reaches(i, j + 1) => Reaches(i, j))
  <2>1. j \in 0..3 /\ j + 1 \in 0..3 /\ 4 * i + (j + 1) = 4 * i + j + 1
    OBVIOUS
  <2> QED BY <2>1, RankDescends
<1>2. ASSUME NEW i \in 0..2
      PROVE  Proceeds => (Reaches(i + 1, 0) => Reaches(i, 3))
  <2>1. 0 \in 0..3 /\ 3 \in 0..3 /\ i \in 0..3 /\ i + 1 \in 0..3
        /\ 4 * (i + 1) + 0 = 4 * i + 3 + 1
    OBVIOUS
  <2> QED BY <2>1, RankDescends
<1> QED BY <1>1, <1>2

LEMMA TickReturns == Proceeds => []<>(tick = "idle")
<1> DEFINE Top == Rank <= 4 * 3 + 3
           Zer == Rank <= 4 * 0 + 0
           Id  == tick = "idle"
<1>1. Inv => Top
  BY RankOK DEF Inv
<1>2. Inv /\ Zer => Id
  <2>1. Inv /\ tick \in {"zero", "end"} => Rank > 0
    BY Counts DEF Inv, TypeOK, Rank, Caller
  <2> QED BY <2>1, RankOK DEF Inv, TypeOK
<1>3. Proceeds => Reaches(3, 3)
  <2>1. Proceeds => []Inv
    BY PTL DEF Proceeds
  <2>2. Reaches(3, 3) <=> []<>Top
    BY DEF Reaches
  <2> HIDE DEF Top
  <2> QED BY <1>1, <2>1, <2>2, PTL
<1>4. \A i \in 0..3 : Proceeds => (Reaches(i, 3) => Reaches(i, 0))
  BY StagesDescend
<1>5. Proceeds => (Reaches(3, 3) => Reaches(0, 0))
  <2>1. Proceeds => (Reaches(3, 3) => Reaches(2, 3))
    BY <1>4, StagesDescend
  <2>2. Proceeds => (Reaches(2, 3) => Reaches(1, 3))
    BY <1>4, StagesDescend
  <2>3. Proceeds => (Reaches(1, 3) => Reaches(0, 0))
    BY <1>4, StagesDescend
  <2> QED BY <2>1, <2>2, <2>3
<1>6. Reaches(0, 0) <=> []<>Zer
  BY DEF Reaches
<1>7. Proceeds => []Inv
  BY PTL DEF Proceeds
<1> HIDE DEF Zer, Id
<1>8. Proceeds => []<>Id
  BY <1>2, <1>3, <1>5, <1>6, <1>7, PTL
<1> QED BY <1>8 DEF Id

(* Whatever calls fail, the tick comes to its end and begins anew.         *)
THEOREM TickComesRound == Spec /\ TickTurns /\ HandlersTurn => []<>(tick = "idle")
BY SpecProceeds, TickReturns

-----------------------------------------------------------------------------
(* The end of an input that nobody renews                                  *)

PacketFor(r) == \E s \in Socket, n \in 1..MaxSeq : Packet(s, r, n)

Listed(r) == \E p \in Caller : r \in stops[p]

(* What becomes of a robot that a step lets go of: it comes to a rest, is  *)
(* on a list, or was sent another packet.                                  *)
LetGo(r) == robot'[r] # "moving" \/ Listed(r)' \/ PacketFor(r)

LEMMA StopLists ==
  ASSUME TypeOK, NEW p \in Caller, ProtectiveStop(p), NEW r \in Robot
  PROVE  Listed(r)'
BY DEF TypeOK, ProtectiveStop, Listed

(* A zero that is to be sent stays so until it is sent, or a stop begins.  *)
LEMMA ZeroKept ==
  ASSUME Inv, NEW r \in Robot, r \in zeros, [Next]_vars
  PROVE  r \in zeros' \/ LetGo(r)
<1>0. TypeOK /\ tick = "zero"
  BY DEF Inv, ZerosAreSent
<1>1. ASSUME NEW q \in Robot, Zero(q) PROVE r \in zeros' \/ LetGo(r)
  <2>1. zeros' = zeros \ {q}
    BY <1>1 DEF Zero
  <2>2. CASE q = r /\ Zeroed(q)
    BY <1>0, <2>2 DEF Zeroed, TypeOK, LetGo
  <2>3. CASE ProtectiveStop(Tick)
    BY <1>0, <2>3, StopLists DEF Caller, LetGo
  <2> QED BY <1>1, <2>1, <2>2, <2>3 DEF Zero
<1>2. ASSUME NEW p \in Caller, Stopping(p) PROVE zeros' = zeros
  BY <1>0, <1>2, StoppingAsks DEF watchdog
<1>3. ~Deadman /\ ~ExpireSecurity /\ ~TickEnds
  BY <1>0 DEF Deadman, ExpireSecurity, TickEnds
<1> QED BY <1>1, <1>2, <1>3 DEF Next, vars, Acquire, LoseLease, Handler, Packet, PublishFailed,
     Disconnect, DisconnectSending, Closes, RuntimeTick, GrowsLate, RobotExpires, watchdog

(* An input that has expired is the deadman's, ...                         *)
LEMMA LateKept ==
  ASSUME Inv, NEW r \in Robot, r \in late, [Next]_vars
  PROVE  /\ r \in late' \/ r \in zeros' \/ LetGo(r)
         /\ tick = "idle" /\ tick' # "idle" => r \in zeros' \/ LetGo(r)
<1>0. TypeOK /\ r \in Expired /\ held[r] # 0
  BY DEF Inv, TypeOK, Expired
<1>1. CASE Deadman
  BY <1>0, <1>1 DEF Deadman
<1>2. ASSUME NEW s \in Socket, NEW q \in Robot, NEW n \in 1..MaxSeq, Packet(s, q, n)
      PROVE  (r \in late' \/ LetGo(r)) /\ tick' = tick
  BY <1>0, <1>2 DEF Packet, Ingest, LetGo, PacketFor, teleop, watchdog
<1>3. ASSUME NEW s \in Socket, PublishFailed(s)
      PROVE  LetGo(r) /\ tick' = tick
  BY <1>3 DEF PublishFailed, LetGo, watchdog
<1>4. ASSUME NEW p \in Caller, ProtectiveStop(p)
      PROVE  LetGo(r)
  BY <1>0, <1>4, StopLists DEF LetGo
<1>5. ASSUME NEW s \in Socket, Disconnect(s) \/ DisconnectSending(s)
      PROVE  (r \in late' \/ LetGo(r)) /\ tick' = tick
  BY <1>4, <1>5 DEF Disconnect, DisconnectSending, Closes, Caller, teleop, watchdog
<1>6. ASSUME ExpireSecurity \/ TickEnds \/ \E q \in Robot : Zero(q)
      PROVE  (r \in late' \/ LetGo(r)) /\ tick # "idle"
  BY <1>4, <1>6 DEF ExpireSecurity, TickEnds, Zero, Caller, teleop
<1>7. ASSUME NEW p \in Caller, Stopping(p)
      PROVE  r \in late' /\ tick' = tick
  BY <1>0, <1>7, StoppingAsks DEF teleop, watchdog
<1>8. ASSUME \/ \E s \in Session, t \in LeaseId : Acquire(s, t)
             \/ LoseLease \/ UNCHANGED vars
             \/ \E q \in Robot : GrowsLate(q) \/ RobotExpires(q)
      PROVE  r \in late' /\ tick' = tick
  BY <1>8 DEF Acquire, LoseLease, vars, GrowsLate, RobotExpires, teleop, watchdog
<1> QED BY <1>1, <1>2, <1>3, <1>5, <1>6, <1>7, <1>8 DEF Next, Handler, RuntimeTick

(* ... and one that is held expires.                                       *)
LEMMA HeldKept ==
  ASSUME Inv, NEW r \in Robot, held[r] # 0, [Next]_vars
  PROVE  held'[r] # 0 \/ r \in zeros' \/ LetGo(r)
<1>0. TypeOK
  BY DEF Inv
<1>1. CASE r \in late
  BY <1>0, <1>1, LateKept, NextInv DEF Inv, TypeOK
<1>2. CASE r \notin late
  <2>1. CASE Deadman
    BY <1>0, <1>2, <2>1 DEF Deadman, Drop, Expired
  <2>2. ASSUME NEW s \in Socket, NEW q \in Robot, NEW n \in 1..MaxSeq, Packet(s, q, n)
        PROVE  held'[r] # 0 \/ LetGo(r)
    BY <1>0, <2>2 DEF Packet, Ingest, LetGo, PacketFor, teleop, TypeOK
  <2>3. ASSUME NEW s \in Socket, PublishFailed(s)
        PROVE  LetGo(r)
    BY <2>3 DEF PublishFailed, LetGo
  <2>4. ASSUME NEW p \in Caller, ProtectiveStop(p)
        PROVE  LetGo(r)
    BY <1>0, <2>4, StopLists DEF LetGo
  <2>5. ASSUME NEW s \in Socket, Disconnect(s) \/ DisconnectSending(s)
        PROVE  held' = held \/ LetGo(r)
    BY <2>4, <2>5 DEF Disconnect, DisconnectSending, Caller, teleop
  <2>6. ASSUME ExpireSecurity \/ TickEnds \/ \E q \in Robot : Zero(q)
        PROVE  held' = held \/ LetGo(r)
    BY <2>4, <2>6 DEF ExpireSecurity, TickEnds, Zero, Caller, teleop
  <2>7. ASSUME NEW p \in Caller, Stopping(p)
        PROVE  held' = held
    BY <1>0, <2>7, StoppingAsks DEF teleop
  <2>8. ASSUME \/ \E s \in Session, t \in LeaseId : Acquire(s, t)
               \/ LoseLease \/ UNCHANGED vars
               \/ \E q \in Robot : GrowsLate(q) \/ RobotExpires(q)
        PROVE  held' = held
    BY <2>8 DEF Acquire, LoseLease, vars, GrowsLate, RobotExpires, teleop
  <2> QED BY <2>1, <2>2, <2>3, <2>5, <2>6, <2>7, <2>8 DEF Next, Handler, RuntimeTick
<1> QED BY <1>1, <1>2

(* A robot that moves by hand stops unless packets come for it again and   *)
(* again: with time, its input expires, the tick takes it for a zero, and  *)
(* a zero that fails for a stop.                                           *)
InputRenewed(r) == []<><<PacketFor(r)>>_vars

THEOREM UnrenewedInputEnds ==
  ASSUME NEW r \in Robot
  PROVE  Spec /\ TickTurns /\ HandlersTurn /\ TimePasses(r)
           => InputRenewed(r) \/ []<>(robot[r] # "moving")
<1> DEFINE Rest == robot[r] # "moving"
           Held == held[r] # 0
           Late == r \in late
           Fresh == held[r] # 0 /\ r \notin late
           Zer == r \in zeros
           Stp == Listed(r)
           Id == tick = "idle"
           P == PacketFor(r)
           G == GrowsLate(r)
           T == RuntimeTick \/ Stopping(Tick)
           Asked == r \notin owed /\ robot[r] # "moving"
<1>1. Inv => Rest \/ Held \/ Zer \/ Stp
  BY DEF Inv, MovingIsSupervised, InHand, Listed
<1>2. Inv /\ Zer => ~Id
  BY DEF Inv, ZerosAreSent
<1>3. Inv => (Late => Held) /\ (Held => Late \/ Fresh)
  BY DEF Inv, TypeOK
<1>4. Inv /\ Zer /\ [Next]_vars => Zer' \/ Rest' \/ Stp' \/ <<P>>_vars
  <2>1. Zer /\ UNCHANGED vars => Zer'
    BY DEF vars, watchdog
  <2> QED BY <2>1, ZeroKept DEF LetGo
<1>5. Inv /\ Late /\ [Next]_vars => Late' \/ Zer' \/ Rest' \/ Stp' \/ <<P>>_vars
  <2>1. Late /\ UNCHANGED vars => Late'
    BY DEF vars, teleop
  <2> QED BY <2>1, LateKept DEF LetGo
<1>6. Inv /\ Late /\ Id /\ [Next]_vars => Id' \/ Zer' \/ Rest' \/ Stp' \/ <<P>>_vars
  <2>1. Id /\ UNCHANGED vars => Id'
    BY DEF vars, watchdog
  <2> QED BY <2>1, LateKept DEF LetGo
<1>7. Inv /\ Held /\ [Next]_vars => Held' \/ Zer' \/ Rest' \/ Stp' \/ <<P>>_vars
  <2>1. Held /\ UNCHANGED vars => Held'
    BY DEF vars, teleop
  <2> QED BY <2>1, HeldKept DEF LetGo
<1>8. Inv /\ StopInv /\ Id /\ <<T>>_vars => ~Id'
  BY DEF Stopping, AskToStop, StopInv, StopsAreWhole, RuntimeTick, Deadman, Zero, ExpireSecurity,
         TickEnds
<1>9. Fresh /\ <<G>>_vars => Late'
  BY DEF GrowsLate
<1>10. Asked => Rest
  OBVIOUS
<1>11. Proceeds => [](Stp => <>Asked)
  BY AnyListedIsAsked DEF Listed
<1>12. Proceeds => []<>Id
  BY TickReturns
<1>13. Proceeds => [](Inv /\ StopInv) /\ [][Next]_vars /\ []<><<T>>_vars
  BY DEF Proceeds, TickTurns
<1>14. TimePasses(r) => []<>~Fresh \/ []<><<G>>_vars
  BY DEF TimePasses
<1>15. InputRenewed(r) <=> []<><<P>>_vars
  BY DEF InputRenewed
<1>16. Spec /\ TickTurns /\ HandlersTurn => Proceeds
  BY SpecProceeds
<1> HIDE DEF Rest, Held, Late, Fresh, Zer, Stp, Id, P, G, T, Asked
<1>17. Spec /\ TickTurns /\ HandlersTurn /\ TimePasses(r) => InputRenewed(r) \/ []<>Rest
  BY <1>1, <1>2, <1>3, <1>4, <1>5, <1>6, <1>7, <1>8, <1>9, <1>10, <1>11, <1>12, <1>13, <1>14,
     <1>15, <1>16, PTL
<1> QED BY <1>17 DEF Rest
=============================================================================
