--------------------------- MODULE RosbridgeLink ---------------------------
(***************************************************************************)
(* RosbridgeAdapter's side of one robot: the task that opens a websocket,  *)
(* serves it, and after a failure waits and opens the next one; and the    *)
(* service calls that execute makes over whatever socket is registered.    *)
(* The robots share no socket and no call id, so one of them is enough.    *)
(*                                                                         *)
(* A call is awaited in three places: its send, its answer (at most two    *)
(* seconds) and its turn once the answer is there.  Meanwhile the socket   *)
(* breaks, the answer overtakes the timeout or is overtaken by it, or the  *)
(* adapter is closed.  Requests and answers on the wire are lost with it.  *)
(***************************************************************************)
EXTENDS Integers

CONSTANTS
  Call,        \* the commands given to execute
  Navigation,  \* those that are navigate; the others are stops
  NoCall,      \* Python's None
  Delays,      \* the number of reconnect delays
  MaxSockets   \* bound: sockets opened

ASSUME CallsAssumption == Navigation \subseteq Call /\ NoCall \notin Call
ASSUME BoundsAssumption == Delays \in Nat \ {0} /\ MaxSockets \in Nat

VARIABLES
  phase,       \* where the task _run is
  socket,      \* the socket it opened last, 0 before the first
  registered,  \* _sockets holds it
  wire,        \* and it still carries messages
  retry,       \* retry, as far as min(retry, ...) tells
  stable,      \* stable_connection
  online,      \* the state of the robot says ONLINE
  goal,        \* the goal in that state, by its command
  call,        \* where each execute is
  pending,     \* the entries of _service_calls
  future,      \* what the future of a call was set to
  outcome,     \* what execute returned
  via,         \* the socket a call was sent on
  request,     \* the request and its answer on the wire
  did,         \* what the robot made of it
  told         \* the command event emitted for it

link == <<phase, socket, registered, wire, retry, stable>>
shown == <<online, goal>>
calls == <<call, pending, future, outcome, via, request, did, told>>
vars == <<link, shown, calls>>

(* The verdict of a service, and the answer of a bridge that could not call *)
(* the service: its result is false and its values hold no verdict.        *)
Verdict == {"accepted", "refused"}
Answer == Verdict \cup {"unserved"}

TypeOK ==
  /\ phase \in {"opening", "serving", "backoff", "closed"}
  /\ socket \in 0..MaxSockets
  /\ registered \in BOOLEAN /\ wire \in BOOLEAN
  /\ retry \in 0..Delays /\ stable \in BOOLEAN
  /\ online \in BOOLEAN /\ goal \in Call \cup {NoCall}
  /\ call \in [Call -> {"idle", "sending", "waiting", "done"}]
  /\ pending \subseteq Call
  /\ future \in [Call -> Verdict \cup {"none", "closed"}]
  /\ outcome \in [Call -> Verdict \cup {"none", "offline", "failed", "timeout",
                                        "closed"}]
  /\ via \in [Call -> 0..MaxSockets]
  /\ request \in [Call -> {"none", "sent", "answered"}]
  /\ did \in [Call -> Answer \cup {"none"}]
  /\ told \in [Call -> {"none", "SUCCEEDED", "REJECTED"}]

Init ==
  /\ phase = "opening" /\ socket = 0 /\ registered = FALSE /\ wire = FALSE
  /\ retry = 0 /\ stable = FALSE
  /\ online = FALSE /\ goal = NoCall
  /\ call = [c \in Call |-> "idle"] /\ pending = {}
  /\ future = [c \in Call |-> "none"] /\ outcome = future
  /\ via = [c \in Call |-> 0] /\ request = future /\ did = future
  /\ told = future
-----------------------------------------------------------------------------
(* _run *)

(* _mark_disconnected, and one that leaves the goal in the state. *)
ForgottenButGoal == online' = FALSE /\ UNCHANGED goal

Forgotten == online' = FALSE /\ goal' = NoCall

Opened ==
  /\ phase = "opening" /\ socket < MaxSockets
  /\ phase' = "serving" /\ socket' = socket + 1
  /\ registered' = TRUE /\ wire' = TRUE /\ stable' = FALSE
  /\ online' = TRUE
  /\ UNCHANGED <<retry, goal, calls>>

(* The exception handler, which sleeps before its finally clause runs.     *)
BacksOff ==
  /\ phase' = "backoff"
  /\ retry' = IF retry < Delays THEN retry + 1 ELSE retry
  /\ Forgotten

OpenFails ==
  /\ phase = "opening"
  /\ BacksOff
  /\ UNCHANGED <<socket, registered, wire, stable, calls>>

(* recv fails once the wire is broken, and a message that cannot be handled *)
(* ends the reading of a wire that is not.                                 *)
Fails ==
  /\ phase = "serving"
  /\ BacksOff
  /\ UNCHANGED <<socket, registered, wire, stable, calls>>

Reopens ==
  /\ phase = "backoff"
  /\ phase' = "opening" /\ registered' = FALSE /\ wire' = FALSE
  /\ UNCHANGED <<socket, retry, stable, shown, calls>>

Breaks ==
  /\ wire /\ wire' = FALSE
  /\ UNCHANGED <<phase, socket, registered, retry, stable, shown, calls>>

(* A message is received: only now is the connection worth a fresh start.  *)
Received ==
  /\ phase = "serving" /\ wire
  /\ stable' = TRUE
  /\ retry' = IF stable THEN retry ELSE 0
  /\ UNCHANGED <<phase, socket, registered, wire>>

Telemetry == Received /\ UNCHANGED <<shown, calls>>
-----------------------------------------------------------------------------
(* execute *)
Ended(c, how) ==
  /\ call' = [call EXCEPT ![c] = "done"]
  /\ outcome' = [outcome EXCEPT ![c] = how]
  /\ pending' = pending \ {c}

Execute(c) ==
  /\ call[c] = "idle"
  /\ IF registered
     THEN /\ call' = [call EXCEPT ![c] = "sending"]
          /\ pending' = pending \cup {c}
          /\ via' = [via EXCEPT ![c] = socket]
          /\ UNCHANGED outcome
     ELSE Ended(c, "offline") /\ UNCHANGED via
  /\ UNCHANGED <<link, shown, future, request, did, told>>

(* A send over a broken socket may still seem to succeed, until the task   *)
(* that reads from it has noticed.                                         *)
Sent(c) ==
  /\ call[c] = "sending" /\ via[c] = socket /\ (wire \/ phase = "serving")
  /\ call' = [call EXCEPT ![c] = "waiting"]
  /\ request' = [request EXCEPT ![c] = IF wire THEN "sent" ELSE "none"]
  /\ UNCHANGED <<link, shown, pending, future, outcome, via, did, told>>

SendFails(c) ==
  /\ call[c] = "sending"
  /\ via[c] # socket \/ ~wire
  /\ Ended(c, "failed")
  /\ UNCHANGED <<link, shown, future, via, request, did, told>>

(* Mutant: wait_for without its two seconds. *)
NoTimeout(c) == FALSE /\ UNCHANGED vars

(* The timer may fire after the answer was set and before the call had its *)
(* turn: wait_for then still raises the timeout.                           *)
TimesOut(c) ==
  /\ call[c] = "waiting"
  /\ Ended(c, "timeout")
  /\ UNCHANGED <<link, shown, future, via, request, did, told>>

Returns(c) ==
  /\ call[c] = "waiting" /\ future[c] # "none"
  /\ Ended(c, future[c])
  /\ UNCHANGED <<link, shown, future, via, request, did, told>>

(* The robot, its answer, and what never arrives.                          *)
Performs(c) ==
  /\ request[c] = "sent"
  /\ did' \in {[did EXCEPT ![c] = a] : a \in Answer}
  /\ request' = [request EXCEPT ![c] = "answered"]
  /\ UNCHANGED <<link, shown, call, pending, future, outcome, via, told>>

Lost(c) ==
  /\ request[c] # "none" /\ (via[c] # socket \/ ~wire)
  /\ request' = [request EXCEPT ![c] = "none"]
  /\ UNCHANGED <<link, shown, call, pending, future, outcome, via, did, told>>

(* _complete_service_call *)

(* Mutant: it forgets to look whether the call is still registered. *)
ExpectedByAll(c) == via[c] = socket /\ future[c] = "none"

Expected(c) ==
  c \in pending /\ via[c] = socket /\ future[c] = "none"

(* The result of the bridge says only that it could call the service.      *)
BridgeResult(c) == did[c] # "unserved"

HasVerdict(c) == did[c] \in Verdict

(* Mutant: what the service says in its answer is not looked at. *)
AcceptedByBridge(c) == BridgeResult(c)

Accepted(c) == IF HasVerdict(c) THEN did[c] = "accepted" ELSE BridgeResult(c)

Answered(c) ==
  /\ request[c] = "answered" /\ via[c] = socket
  /\ Received
  /\ request' = [request EXCEPT ![c] = "none"]
  /\ IF Expected(c)
     THEN /\ pending' = pending \ {c}
          /\ future' = [future EXCEPT
               ![c] = IF Accepted(c) THEN "accepted" ELSE "refused"]
          /\ told' = [told EXCEPT
               ![c] = IF Accepted(c) THEN "SUCCEEDED" ELSE "REJECTED"]
          /\ goal' = IF ~Accepted(c) THEN goal
                     ELSE IF c \in Navigation THEN c ELSE NoCall
     ELSE UNCHANGED <<pending, future, told, goal>>
  /\ UNCHANGED <<online, call, outcome, via, did>>

(* close *)
Close ==
  /\ phase # "closed"
  /\ phase' = "closed" /\ registered' = FALSE /\ wire' = FALSE
  /\ future' = [c \in Call |-> IF c \in pending /\ future[c] = "none"
                               THEN "closed" ELSE future[c]]
  /\ pending' = {}
  /\ Forgotten
  /\ UNCHANGED <<socket, retry, stable, call, outcome, via, request, did, told>>

Run == Opened \/ OpenFails \/ Fails \/ Reopens \/ Breaks \/ Telemetry
Caller(c) == Execute(c) \/ Sent(c) \/ SendFails(c) \/ TimesOut(c) \/ Returns(c)
Wire(c) == Performs(c) \/ Lost(c) \/ Answered(c)
Next == Run \/ Close \/ \E c \in Call : Caller(c) \/ Wire(c)

Spec == Init /\ [][Next]_vars

(* The event loop runs what is ready: a send ends, an elapsed timer fires.  *)
(* Nothing is asked of the robot, of the network or of Close.              *)
FairSpec ==
  /\ Spec
  /\ \A c \in Call : WF_vars(Sent(c) \/ SendFails(c)) /\ WF_vars(TimesOut(c))
-----------------------------------------------------------------------------
(* A result is never made up: accepted means that the robot accepted this  *)
(* very command and that its event said so, refused that the robot or its  *)
(* bridge did not take it, and offline that it never heard of it.  Only a  *)
(* timeout, a failed send and a closed adapter leave open what the robot   *)
(* does.                                                                   *)
AcceptedWasDone ==
  \A c \in Call :
    /\ outcome[c] = "accepted" => did[c] = "accepted" /\ told[c] = "SUCCEEDED"
    /\ outcome[c] = "refused" =>
         did[c] \in {"refused", "unserved"} /\ told[c] = "REJECTED"
    /\ outcome[c] = "offline" => did[c] = "none" /\ told[c] = "none"

(* The goal on the map is one that the robot accepted over the connection  *)
(* that is up now: nothing of an earlier connection is shown again, and an *)
(* answer of an earlier connection sets no goal.                           *)
GoalOfThisConnection ==
  goal # NoCall =>
    online /\ via[goal] = socket /\ goal \in Navigation /\ told[goal] = "SUCCEEDED"

(* The answer to a call that execute gave up on is dropped: no event says  *)
(* later that a command succeeded which its caller was told has failed.    *)
LateAnswersAreSilent ==
  [][\A c \in Call : call[c] = "done" => told'[c] = told[c] /\ (goal' = c => goal = c)]_vars

(* Every call ends, whatever the robot, the network and the adapter do.    *)
CallsConclude ==
  \A c \in Call : call[c] \in {"sending", "waiting"} ~> call[c] = "done"
=============================================================================
