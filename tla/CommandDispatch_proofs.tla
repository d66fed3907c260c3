----------------------- MODULE CommandDispatch_proofs -----------------------
(***************************************************************************)
(* The safety properties of CommandDispatch for any commands, any sets of  *)
(* targets and any bounds.  ExecutedOnce rests on LanesMatchRows, and this *)
(* on the fact that no command waits twice: Take removes one entry of a    *)
(* lane and the id from _queued_ids.  NoFalseSuccess rests on what the     *)
(* worker has collected so far and on what the active stops collected.     *)
(* With these the dispatcher implements CommandJournal.                    *)
(***************************************************************************)
EXTENDS CommandDispatch, SequenceTheorems, TLAPS

(* No command waits twice, neither in one lane nor in both.                *)
Elements(q) == {q[i] : i \in 1..Len(q)}
Distinct(q) == \A i, j \in 1..Len(q) : q[i] = q[j] => i = j
WaitsOnce ==
  /\ Distinct(normal) /\ Distinct(priority)
  /\ Elements(normal) \cap Elements(priority) = {}

(* What was executed has left ACCEPTED for good.                           *)
RunsMatchRows ==
  \A c \in Command :
    /\ runs[c] <= 1
    /\ row[c].state \in {"NONE", "ACCEPTED"} => runs[c] = 0 /\ acked[c] = {}

(* Missions name no robots, stops and resets name some.                    *)
TargetsMatchOperation ==
  \A c \in Command : row[c].op = "mission" <=> row[c].targets = {}

(* The worker's bookkeeping: the robots left to ask and those that         *)
(* acknowledged make up the targets, unless one refused.                   *)
WorkerCollects ==
  /\ worker.cmd = NoCommand => worker = Idle
  /\ worker.cmd \in Command =>
       /\ row[worker.cmd].state = "RUNNING"
       /\ worker.cmd \notin active \cup orphans
       /\ worker.todo \subseteq row[worker.cmd].targets
       /\ row[worker.cmd].op # "mission" => worker.todo # {}
       /\ ~worker.rejected =>
            acked[worker.cmd] = row[worker.cmd].targets \ worker.todo

(* A stop that waits for its confirmation was acknowledged by every target.*)
ActiveIsAcknowledged ==
  \A c \in active :
    /\ row[c].state = "RUNNING" /\ row[c].op = "stop"
    /\ acked[c] = row[c].targets /\ c \notin orphans

OrphansAreUnfinished ==
  \A c \in orphans : row[c].state \in Unfinished

Inv ==
  /\ TypeOK /\ LanesMatchRows /\ RunningIsOwned /\ NoFalseSuccess
  /\ WaitsOnce /\ RunsMatchRows /\ TargetsMatchOperation
  /\ WorkerCollects /\ ActiveIsAcknowledged /\ OrphansAreUnfinished

(* The initial state satisfies the invariant.                              *)
LEMMA InitInv == Init => Inv
<1> SUFFICES ASSUME Init PROVE Inv
  OBVIOUS
<1> USE CommandAssumption, LimitAssumption DEF Init
<1>1. TypeOK
  <2>1. row \in [Command -> Row] /\ worker \in [cmd : Command \cup {NoCommand}, todo : SUBSET Robot, rejected : BOOLEAN]
    BY DEF Row, BlankRow, Operation, Unfinished, Robot, Idle
  <2>2. normal \in Seq(Command) /\ priority \in Seq(Command) /\ Len(normal) <= QueueLimit
    OBVIOUS
  <2>3. /\ requested \in [Robot -> {"no", "pending", "overdue"}]
        /\ stable \in [Robot -> {"no", "since", "long"}]
        /\ runs \in [Command -> Nat] /\ acked \in [Command -> SUBSET Robot]
    BY DEF Blank
  <2>4. requests \in 0..MaxRequests /\ restarts \in 0..MaxRestarts
    OBVIOUS
  <2> QED BY <2>1, <2>2, <2>3, <2>4 DEF TypeOK
<1>2. LanesMatchRows /\ RunningIsOwned /\ NoFalseSuccess
  BY DEF LanesMatchRows, RunningIsOwned, NoFalseSuccess, Waiting, BlankRow, Idle
<1>3. WaitsOnce /\ RunsMatchRows /\ TargetsMatchOperation
  BY DEF WaitsOnce, Elements, Distinct, RunsMatchRows, TargetsMatchOperation, BlankRow
<1>4. WorkerCollects /\ ActiveIsAcknowledged /\ OrphansAreUnfinished
  BY DEF WorkerCollects, ActiveIsAcknowledged, OrphansAreUnfinished, Idle
<1> QED BY <1>1, <1>2, <1>3, <1>4 DEF Inv

(* A lane to which a command is appended holds it besides what it held.    *)
LEMMA AppendLane ==
  ASSUME NEW q \in Seq(Command), NEW c \in Command, c \notin Elements(q), Distinct(q),
         NEW s, s = Append(q, c)
  PROVE  /\ s \in Seq(Command) /\ Len(s) = Len(q) + 1
         /\ Distinct(s) /\ Elements(s) = Elements(q) \cup {c}
<1> USE DEF Elements, Distinct
<1>1. s \in Seq(Command) /\ Len(s) = Len(q) + 1 /\ Len(q) \in Nat
  OBVIOUS
<1>2. \A i \in 1..Len(s) : s[i] = IF i = Len(q) + 1 THEN c ELSE q[i]
  OBVIOUS
<1>3. \A i, j \in 1..Len(s) : s[i] = s[j] => i = j
  BY <1>1, <1>2
<1>4. {s[i] : i \in 1..Len(s)} = {q[i] : i \in 1..Len(q)} \cup {c}
  BY <1>1, <1>2
<1> QED BY <1>1, <1>3, <1>4

(* A lane whose head is removed holds what it held but for the head.       *)
LEMMA TailLane ==
  ASSUME NEW q \in Seq(Command), q # <<>>, Distinct(q),
         NEW s, s = Tail(q), NEW h, h = Head(q)
  PROVE  /\ s \in Seq(Command) /\ Len(s) <= Len(q)
         /\ Distinct(s) /\ Elements(s) = Elements(q) \ {h} /\ h \in Elements(q)
<1> USE DEF Elements, Distinct
<1>1. s \in Seq(Command) /\ Len(s) = Len(q) - 1 /\ Len(q) \in Nat \ {0} /\ h = q[1]
  OBVIOUS
<1>2. \A i \in 1..Len(s) : s[i] = q[i + 1] /\ i + 1 \in 1..Len(q)
  BY <1>1
<1>3. \A i, j \in 1..Len(s) : s[i] = s[j] => i = j
  BY <1>1, <1>2
<1>4. \A i \in 2..Len(q) : i - 1 \in 1..Len(s) /\ q[i] = s[i - 1]
  BY <1>1, <1>2
<1>5. {s[i] : i \in 1..Len(s)} \subseteq {q[i] : i \in 1..Len(q)} \ {q[1]}
  BY <1>1, <1>2
<1>6. {q[i] : i \in 1..Len(q)} \ {q[1]} \subseteq {s[i] : i \in 1..Len(s)}
  <2> SUFFICES ASSUME NEW i \in 1..Len(q), q[i] # q[1]
               PROVE  q[i] \in {s[j] : j \in 1..Len(s)}
    OBVIOUS
  <2>1. i \in 2..Len(q)
    BY <1>1
  <2> QED BY <2>1, <1>4
<1>7. h \in {q[i] : i \in 1..Len(q)} /\ Len(s) <= Len(q)
  BY <1>1
<1> QED BY <1>1, <1>3, <1>5, <1>6, <1>7

(* A request preserves the invariant, whatever it does to SafetyService.   *)
LEMMA SubmitInv ==
  ASSUME Inv, NEW c \in Command, NEW op \in Operation, NEW targets \in SUBSET Robot,
         op = "mission" <=> targets = {}, Submit(c, op, targets),
         requested' \in [Robot -> {"no", "pending", "overdue"}],
         stable' \in [Robot -> {"no", "since", "long"}]
  PROVE  Inv'
<1> DEFINE r == Created(c, op, targets)
<1> USE DEF Inv
<1>1. /\ r \in Row /\ requests' \in 0..MaxRequests
      /\ r.op = op /\ r.targets = targets /\ BlankRow \in Row
  BY LimitAssumption DEF Submit, Created, TypeOK, Row, Unfinished, BlankRow, Operation
<1>2. UNCHANGED <<awake, worker, active, runs, acked, restarts>>
  BY DEF Submit, execution
<1>3. CASE MustQueue(c, r)
  <2>1. /\ r.state = "ACCEPTED" /\ row[c].state \in {"NONE", "ACCEPTED"}
        /\ c \notin queuedIds /\ c \notin Waiting
        /\ runs[c] = 0 /\ acked[c] = {}
        /\ c # worker.cmd /\ c \notin active
    BY <1>3 DEF MustQueue, Created, TypeOK, Row, LanesMatchRows, RunsMatchRows,
       WorkerCollects, ActiveIsAcknowledged
  <2>2. CASE ~Full(r)
    <3>1. Enqueued(c, r)
      BY <1>3, <2>2 DEF Submit
    <3>2. /\ row' = [row EXCEPT ![c] = r] /\ row' \in [Command -> Row]
          /\ queuedIds' = queuedIds \cup {c} /\ orphans' = orphans \ {c} /\ wake' = TRUE
      BY <3>1, <1>1 DEF Enqueued, TypeOK
    <3>3. /\ normal' \in Seq(Command) /\ priority' \in Seq(Command)
          /\ Len(normal') <= QueueLimit /\ WaitsOnce' /\ Waiting' = Waiting \cup {c}
      <4>1. /\ normal \in Seq(Command) /\ priority \in Seq(Command) /\ Len(normal) <= QueueLimit
            /\ Waiting = Elements(normal) \cup Elements(priority)
            /\ Waiting' = Elements(normal') \cup Elements(priority')
        BY DEF TypeOK, Waiting, Elements
      <4>2. CASE r.op = "stop"
        <5>1. priority' = Append(priority, c) /\ normal' = normal
          BY <3>1, <4>2 DEF Enqueued
        <5>2. /\ priority' \in Seq(Command) /\ Distinct(priority')
              /\ Elements(priority') = Elements(priority) \cup {c}
          BY <2>1, <4>1, <5>1, AppendLane DEF WaitsOnce
        <5> QED BY <2>1, <4>1, <5>1, <5>2 DEF WaitsOnce
      <4>3. CASE r.op # "stop"
        <5>1. normal' = Append(normal, c) /\ priority' = priority
          BY <3>1, <4>3 DEF Enqueued
        <5>2. /\ normal' \in Seq(Command) /\ Len(normal') = Len(normal) + 1
              /\ Distinct(normal') /\ Elements(normal') = Elements(normal) \cup {c}
          BY <2>1, <4>1, <5>1, AppendLane DEF WaitsOnce
        <5>3. Len(normal') <= QueueLimit
          BY <4>1, <4>3, <2>2, <5>2, LimitAssumption DEF Full
        <5> QED BY <2>1, <4>1, <5>1, <5>2, <5>3 DEF WaitsOnce
      <4> QED BY <4>2, <4>3
    <3>4. TypeOK'
      BY <1>1, <1>2, <3>2, <3>3 DEF TypeOK
    <3>5. LanesMatchRows'
      BY <2>1, <3>2, <3>3 DEF LanesMatchRows, TypeOK
    <3>6. RunningIsOwned' /\ NoFalseSuccess'
      BY <1>2, <2>1, <3>2 DEF RunningIsOwned, NoFalseSuccess, TypeOK
    <3>7. RunsMatchRows' /\ TargetsMatchOperation'
      BY <1>1, <1>2, <2>1, <3>2 DEF RunsMatchRows, TargetsMatchOperation, TypeOK
    <3>8. WorkerCollects'
      BY <1>2, <2>1, <3>2 DEF WorkerCollects, TypeOK
    <3>9. ActiveIsAcknowledged' /\ OrphansAreUnfinished'
      BY <1>2, <2>1, <3>2 DEF ActiveIsAcknowledged, OrphansAreUnfinished, TypeOK
    <3> QED BY <3>3, <3>4, <3>5, <3>6, <3>7, <3>8, <3>9
  <2>3. CASE Full(r)
    <3>1. /\ row' = [row EXCEPT ![c] = BlankRow] /\ row' \in [Command -> Row]
          /\ orphans' = orphans \ {c} /\ UNCHANGED <<normal, priority, queuedIds, wake>>
      BY <1>1, <1>3, <2>3 DEF Submit, lanes, TypeOK
    <3>2. TypeOK' /\ WaitsOnce'
      BY <1>1, <1>2, <3>1 DEF TypeOK, WaitsOnce
    <3>3. LanesMatchRows'
      <4>1. Waiting' = Waiting
        BY <3>1 DEF Waiting
      <4> QED BY <2>1, <3>1, <4>1 DEF LanesMatchRows, TypeOK, BlankRow
    <3>4. RunningIsOwned' /\ NoFalseSuccess'
      BY <1>2, <2>1, <3>1 DEF RunningIsOwned, NoFalseSuccess, TypeOK, BlankRow
    <3>5. RunsMatchRows' /\ TargetsMatchOperation'
      BY <1>2, <2>1, <3>1 DEF RunsMatchRows, TargetsMatchOperation, TypeOK, BlankRow
    <3>6. WorkerCollects'
      BY <1>2, <2>1, <3>1 DEF WorkerCollects, TypeOK
    <3>7. ActiveIsAcknowledged' /\ OrphansAreUnfinished'
      BY <1>2, <2>1, <3>1 DEF ActiveIsAcknowledged, OrphansAreUnfinished, TypeOK
    <3> QED BY <3>2, <3>3, <3>4, <3>5, <3>6, <3>7
  <2> QED BY <2>2, <2>3
<1>4. CASE ~MustQueue(c, r)
  <2>1. UNCHANGED <<row, normal, priority, queuedIds, wake, orphans>>
    BY <1>4 DEF Submit, lanes
  <2>2. TypeOK'
    BY <1>1, <1>2, <2>1 DEF TypeOK
  <2>3. LanesMatchRows' /\ RunningIsOwned' /\ NoFalseSuccess' /\ WaitsOnce'
    BY <1>2, <2>1 DEF LanesMatchRows, RunningIsOwned, NoFalseSuccess, WaitsOnce, Waiting
  <2>4. RunsMatchRows' /\ TargetsMatchOperation' /\ WorkerCollects'
    BY <1>2, <2>1 DEF RunsMatchRows, TargetsMatchOperation, WorkerCollects, Idle
  <2>5. ActiveIsAcknowledged' /\ OrphansAreUnfinished'
    BY <1>2, <2>1 DEF ActiveIsAcknowledged, OrphansAreUnfinished
  <2> QED BY <2>2, <2>3, <2>4, <2>5
<1> QED BY <1>3, <1>4

(* The next command leaves its lane, and was in no other place of either.  *)
LEMMA PopLanes ==
  ASSUME normal \in Seq(Command), priority \in Seq(Command), WaitsOnce,
         Len(normal) <= QueueLimit, NEW c \in Command, Pops(c)
  PROVE  /\ normal' \in Seq(Command) /\ priority' \in Seq(Command)
         /\ Len(normal') <= QueueLimit /\ WaitsOnce'
         /\ Waiting' = Waiting \ {c} /\ c \in Waiting
<1>1. /\ Waiting = Elements(normal) \cup Elements(priority)
      /\ Waiting' = Elements(normal') \cup Elements(priority')
  BY DEF Waiting, Elements
<1>2. CASE /\ priority # <<>> /\ c = Head(priority)
           /\ priority' = Tail(priority) /\ UNCHANGED normal
  <2>1. /\ priority' \in Seq(Command) /\ Distinct(priority')
        /\ Elements(priority') = Elements(priority) \ {c} /\ c \in Elements(priority)
    BY <1>2, TailLane DEF WaitsOnce
  <2> QED BY <1>1, <1>2, <2>1 DEF WaitsOnce
<1>3. CASE /\ priority = <<>> /\ normal # <<>> /\ c = Head(normal)
           /\ normal' = Tail(normal) /\ UNCHANGED priority
  <2>1. /\ normal' \in Seq(Command) /\ Distinct(normal') /\ Len(normal') <= Len(normal)
        /\ Elements(normal') = Elements(normal) \ {c} /\ c \in Elements(normal)
    BY <1>3, TailLane DEF WaitsOnce
  <2>2. Len(normal') <= QueueLimit
    BY <2>1, LimitAssumption
  <2> QED BY <1>1, <1>3, <2>1, <2>2 DEF WaitsOnce
<1> QED BY <1>2, <1>3 DEF Pops

(* The worker takes the next command: from the priority lane if it can.    *)
LEMMA TakeInv == ASSUME Inv, NEW c \in Command, Take(c) PROVE Inv'
<1> USE DEF Inv
<1>1. /\ queuedIds' = queuedIds \ {c} /\ row' = [row EXCEPT ![c].state = "RUNNING"]
      /\ runs' = [runs EXCEPT ![c] = @ + 1]
      /\ worker' = [cmd |-> c, todo |-> row[c].targets, rejected |-> FALSE]
      /\ worker = Idle
      /\ UNCHANGED <<wake, awake, active, requested, stable, acked, orphans, requests, restarts>>
  BY DEF Take, safety, bounds
<1>2. /\ normal' \in Seq(Command) /\ priority' \in Seq(Command)
      /\ Len(normal') <= QueueLimit /\ WaitsOnce'
      /\ Waiting' = Waiting \ {c} /\ c \in Waiting
  <2>1. Pops(c) /\ normal \in Seq(Command) /\ priority \in Seq(Command)
        /\ Len(normal) <= QueueLimit
    BY DEF Take, TypeOK
  <2> QED BY <2>1, PopLanes
<1>3. /\ row[c].state = "ACCEPTED" /\ c \notin orphans /\ c \in queuedIds
      /\ runs[c] = 0 /\ acked[c] = {} /\ c \notin active
  BY <1>1, <1>2 DEF LanesMatchRows, RunsMatchRows, ActiveIsAcknowledged
<1>4. TypeOK'
  <2>a. row[c] \in Row
    BY DEF TypeOK
  <2>0. [row[c] EXCEPT !.state = "RUNNING"] \in Row
    BY <2>a DEF Row, Unfinished
  <2>1. row' \in [Command -> Row] /\ runs' \in [Command -> Nat]
    BY <1>1, <2>0 DEF TypeOK
  <2>2. worker' \in [cmd : Command \cup {NoCommand}, todo : SUBSET Robot, rejected : BOOLEAN]
    BY <1>1 DEF TypeOK, Row
  <2> QED BY <1>1, <1>2, <2>1, <2>2 DEF TypeOK
<1>5. LanesMatchRows'
  BY <1>1, <1>2, <1>3 DEF LanesMatchRows, TypeOK, Row
<1>6. RunningIsOwned' /\ NoFalseSuccess'
  BY CommandAssumption, <1>1, <1>3 DEF RunningIsOwned, NoFalseSuccess, TypeOK, Row, Idle
<1>7. RunsMatchRows' /\ TargetsMatchOperation'
  BY <1>1, <1>3 DEF RunsMatchRows, TargetsMatchOperation, TypeOK, Row
<1>8. WorkerCollects'
  BY CommandAssumption, <1>1, <1>3 DEF WorkerCollects, TargetsMatchOperation, TypeOK, Row
<1>9. ActiveIsAcknowledged' /\ OrphansAreUnfinished'
  BY <1>1, <1>3 DEF ActiveIsAcknowledged, OrphansAreUnfinished, TypeOK, Row, Unfinished
<1> QED BY <1>2, <1>4, <1>5, <1>6, <1>7, <1>8, <1>9

(* A robot answered, and with the last answer the command is concluded.    *)
LEMMA AnsweredInv == ASSUME Inv, NEW accepted \in BOOLEAN, Answered(accepted) PROVE Inv'
<1> USE DEF Inv
<1> DEFINE c == worker.cmd
           r == NextTarget(worker.todo)
           rejected == worker.rejected \/ ~accepted
           left == worker.todo \ {r}
<1>1. /\ c \in Command /\ row[c].state = "RUNNING" /\ c \notin active \cup orphans
      /\ worker.todo \subseteq row[c].targets /\ r \in worker.todo /\ r \in Robot
      /\ ~worker.rejected => acked[c] = row[c].targets \ worker.todo
      /\ row[c] \in Row /\ acked[c] \subseteq row[c].targets \cup acked[c]
      /\ rejected \in BOOLEAN /\ left \subseteq Robot /\ acked[c] \in SUBSET Robot
  BY DEF Answered, WorkerCollects, Idle, TypeOK, NextTarget, Robot
<1>2. /\ acked' = IF accepted THEN [acked EXCEPT ![c] = @ \cup {r}] ELSE acked
      /\ UNCHANGED <<normal, priority, queuedIds, wake, awake, requested, stable, runs,
                     orphans, requests, restarts>>
  BY DEF Answered, lanes, safety, bounds
<1>3. /\ acked' \in [Command -> SUBSET Robot] /\ \A d \in Command \ {c} : acked'[d] = acked[d]
      /\ ~rejected => acked'[c] = row[c].targets \ left
  BY <1>1, <1>2 DEF TypeOK
<1>4. WaitsOnce' /\ Waiting' = Waiting
  BY <1>2 DEF WaitsOnce, Waiting
<1>5. CASE left # {}
  <2>1. /\ worker' = [cmd |-> c, todo |-> left, rejected |-> rejected]
        /\ row' = row /\ active' = active
    BY <1>5 DEF Answered, TypeOK
  <2>2. TypeOK'
    BY <1>1, <1>2, <1>3, <2>1 DEF TypeOK
  <2>3. LanesMatchRows' /\ RunningIsOwned'
    BY <1>2, <1>4, <2>1 DEF LanesMatchRows, RunningIsOwned
  <2>4. NoFalseSuccess' /\ RunsMatchRows' /\ TargetsMatchOperation'
    BY <1>1, <1>2, <1>3, <2>1 DEF NoFalseSuccess, RunsMatchRows, TargetsMatchOperation
  <2>5. WorkerCollects'
    BY CommandAssumption, <1>1, <1>2, <1>3, <1>5, <2>1 DEF WorkerCollects
  <2>6. ActiveIsAcknowledged' /\ OrphansAreUnfinished'
    BY <1>1, <1>2, <1>3, <2>1 DEF ActiveIsAcknowledged, OrphansAreUnfinished, TypeOK
  <2> QED BY <1>4, <2>2, <2>3, <2>4, <2>5, <2>6
<1>6. CASE left = {}
  <2>1. worker' = Idle /\ Conclude(c, rejected)
    BY <1>6 DEF Answered
  <2>2. CASE row[c].op = "stop" /\ ~rejected
    <3>1. active' = active \cup {c} /\ row' = row
      BY <2>1, <2>2 DEF Conclude
    <3>2. TypeOK'
      BY <1>1, <1>2, <1>3, <2>1, <3>1 DEF TypeOK, Idle
    <3>3. LanesMatchRows' /\ RunningIsOwned'
      BY CommandAssumption, <1>1, <1>2, <1>4, <2>1, <3>1 DEF LanesMatchRows, RunningIsOwned, Idle
    <3>4. NoFalseSuccess' /\ RunsMatchRows' /\ TargetsMatchOperation'
      BY <1>1, <1>2, <1>3, <3>1 DEF NoFalseSuccess, RunsMatchRows, TargetsMatchOperation
    <3>5. WorkerCollects'
      BY CommandAssumption, <2>1 DEF WorkerCollects, Idle
    <3>6. ActiveIsAcknowledged'
      <4>1. acked'[c] = row[c].targets
        BY <1>3, <1>6, <2>2
      <4> QED BY <1>1, <1>2, <1>3, <2>2, <3>1, <4>1 DEF ActiveIsAcknowledged, TypeOK
    <3>7. OrphansAreUnfinished'
      BY <1>2, <3>1 DEF OrphansAreUnfinished
    <3> QED BY <1>4, <3>2, <3>3, <3>4, <3>5, <3>6, <3>7
  <2>3. CASE ~(row[c].op = "stop" /\ ~rejected)
    <3>0. /\ row' = [row EXCEPT ![c].state = IF rejected THEN "FAILED" ELSE "SUCCEEDED"]
          /\ active' = active
      BY <2>1, <2>3 DEF Conclude
    <3>1. /\ row' = [row EXCEPT ![c].state = IF rejected THEN "FAILED" ELSE "SUCCEEDED"]
          /\ active' = active /\ row' \in [Command -> Row]
      <4>1. /\ [row[c] EXCEPT !.state = "FAILED"] \in Row
            /\ [row[c] EXCEPT !.state = "SUCCEEDED"] \in Row
        BY <1>1 DEF Row
      <4> QED BY <3>0, <4>1 DEF TypeOK
    <3>2. TypeOK'
      BY <1>1, <1>2, <1>3, <2>1, <3>1 DEF TypeOK, Idle
    <3>3. LanesMatchRows' /\ RunningIsOwned'
      BY CommandAssumption, <1>1, <1>2, <1>4, <2>1, <3>1
      DEF LanesMatchRows, RunningIsOwned, Idle, TypeOK, Row
    <3>4. NoFalseSuccess' /\ RunsMatchRows' /\ TargetsMatchOperation'
      BY <1>1, <1>2, <1>3, <2>3, <3>1
      DEF NoFalseSuccess, RunsMatchRows, TargetsMatchOperation, TypeOK, Row
    <3>5. WorkerCollects'
      BY CommandAssumption, <2>1 DEF WorkerCollects, Idle
    <3>6. ActiveIsAcknowledged' /\ OrphansAreUnfinished'
      BY <1>1, <1>2, <1>3, <3>1 DEF ActiveIsAcknowledged, OrphansAreUnfinished, TypeOK, Row
    <3> QED BY <1>4, <3>2, <3>3, <3>4, <3>5, <3>6
  <2> QED BY <2>2, <2>3
<1> QED BY <1>5, <1>6

(* A mission or formation handler returned.                                *)
LEMMA HandlerInv ==
  ASSUME Inv, NEW accepted \in BOOLEAN, HandlerReturns(accepted) PROVE Inv'
<1> USE DEF Inv
<1> DEFINE c == worker.cmd
<1>1. /\ c \in Command /\ row[c] \in Row /\ row[c].state = "RUNNING" /\ row[c].op = "mission"
      /\ c \notin active \cup orphans /\ worker' = Idle
      /\ row' = [row EXCEPT ![c].state = IF accepted THEN "SUCCEEDED" ELSE "FAILED"]
      /\ UNCHANGED <<normal, priority, queuedIds, wake, awake, active, requested, stable, runs,
                     acked, orphans, requests, restarts>>
  BY DEF HandlerReturns, WorkerCollects, TypeOK, lanes, safety, history, bounds
<1>2. row' \in [Command -> Row]
  <2>1. /\ [row[c] EXCEPT !.state = "FAILED"] \in Row
        /\ [row[c] EXCEPT !.state = "SUCCEEDED"] \in Row
    BY <1>1 DEF Row
  <2> QED BY <1>1, <2>1 DEF TypeOK
<1>3. WaitsOnce' /\ Waiting' = Waiting
  BY <1>1 DEF WaitsOnce, Waiting
<1>4. TypeOK'
  BY <1>1, <1>2 DEF TypeOK, Idle
<1>5. LanesMatchRows' /\ RunningIsOwned'
  BY CommandAssumption, <1>1, <1>3 DEF LanesMatchRows, RunningIsOwned, Idle, TypeOK, Row
<1>6. NoFalseSuccess' /\ RunsMatchRows' /\ TargetsMatchOperation'
  BY <1>1 DEF NoFalseSuccess, RunsMatchRows, TargetsMatchOperation, TypeOK, Row
<1>7. WorkerCollects' /\ ActiveIsAcknowledged' /\ OrphansAreUnfinished'
  BY CommandAssumption, <1>1 DEF WorkerCollects, ActiveIsAcknowledged, OrphansAreUnfinished, Idle, TypeOK, Row
<1> QED BY <1>3, <1>4, <1>5, <1>6, <1>7

(* refresh_stops concludes active stops only.                              *)
LEMMA RefreshInv == ASSUME Inv, RefreshStops PROVE Inv'
<1> USE DEF Inv
<1>1. UNCHANGED <<normal, priority, queuedIds, wake, awake, worker, requested, runs, acked,
                  orphans, requests, restarts>>
  BY DEF RefreshStops, lanes, history, bounds
<1>2. /\ active' \subseteq active
      /\ \A c \in Command : c \notin active \/ c \in active' => row'[c] = row[c]
      /\ \A c \in active \ active' : row'[c] = [row[c] EXCEPT !.state = "SUCCEEDED"]
                                   \/ row'[c] = [row[c] EXCEPT !.state = "TIMED_OUT"]
  BY DEF RefreshStops, TypeOK
<1>3. \A c \in Command : row[c] \in Row
  BY DEF TypeOK
<1>4. \A c \in Command :
        /\ row'[c] \in Row /\ row'[c].op = row[c].op /\ row'[c].targets = row[c].targets
        /\ c \in active \ active' => row'[c].state \in {"SUCCEEDED", "TIMED_OUT"}
  <2> SUFFICES ASSUME NEW c \in Command
               PROVE  /\ row'[c] \in Row /\ row'[c].op = row[c].op
                      /\ row'[c].targets = row[c].targets
                      /\ c \in active \ active' => row'[c].state \in {"SUCCEEDED", "TIMED_OUT"}
    OBVIOUS
  <2>1. row[c] \in Row
    BY <1>3
  <2>2. CASE c \in active \ active'
    <3>1. /\ [row[c] EXCEPT !.state = "SUCCEEDED"] \in Row
          /\ [row[c] EXCEPT !.state = "TIMED_OUT"] \in Row
      BY <2>1 DEF Row
    <3>2. \A s \in {"SUCCEEDED", "TIMED_OUT"} :
            /\ [row[c] EXCEPT !.state = s].op = row[c].op
            /\ [row[c] EXCEPT !.state = s].targets = row[c].targets
            /\ [row[c] EXCEPT !.state = s].state = s
      BY <2>1 DEF Row
    <3> QED BY <1>2, <2>2, <3>1, <3>2
  <2>3. CASE c \notin active \ active'
    BY <1>2, <2>1, <2>3
  <2> QED BY <2>2, <2>3
<1>5. TypeOK'
  <2>1. row' \in [Command -> Row]
    BY <1>4 DEF RefreshStops
  <2>2. stable' \in [Robot -> {"no", "since", "long"}]
    BY DEF RefreshStops, Observed, TypeOK
  <2> QED BY <1>1, <1>2, <2>1, <2>2 DEF TypeOK
<1>6. WaitsOnce' /\ Waiting' = Waiting
  BY <1>1 DEF WaitsOnce, Waiting
<1>7. \A c \in active : row[c].state = "RUNNING" /\ c \notin orphans /\ c # worker.cmd
                         /\ row[c].op = "stop" /\ acked[c] = row[c].targets /\ c \in Command
  BY DEF ActiveIsAcknowledged, WorkerCollects, TypeOK
<1>8. LanesMatchRows' /\ RunningIsOwned'
  BY <1>1, <1>2, <1>4, <1>6, <1>7 DEF LanesMatchRows, RunningIsOwned
<1>9. NoFalseSuccess' /\ RunsMatchRows' /\ TargetsMatchOperation'
  BY <1>1, <1>2, <1>4, <1>7 DEF NoFalseSuccess, RunsMatchRows, TargetsMatchOperation
<1>10. WorkerCollects'
  BY <1>1, <1>2, <1>4 DEF WorkerCollects, Idle
<1>11. ActiveIsAcknowledged' /\ OrphansAreUnfinished'
  BY <1>1, <1>2, <1>4, <1>7 DEF ActiveIsAcknowledged, OrphansAreUnfinished, TypeOK
<1> QED BY <1>5, <1>6, <1>8, <1>9, <1>10, <1>11

(* A restart keeps the rows and loses everything else.                     *)
LEMMA RestartInv == ASSUME Inv, Restart PROVE Inv'
<1> USE DEF Inv
<1>1. /\ normal' = <<>> /\ priority' = <<>> /\ queuedIds' = {} /\ active' = {}
      /\ wake' = FALSE /\ awake' = FALSE /\ worker' = Idle
      /\ requested' = Blank("no") /\ stable' = Blank("no")
      /\ orphans' = {c \in Command : row[c].state \in Unfinished}
      /\ UNCHANGED <<row, runs, acked, requests>> /\ restarts' \in 0..MaxRestarts
  BY LimitAssumption DEF Restart, TypeOK
<1>2. TypeOK'
  <2>1. worker' \in [cmd : Command \cup {NoCommand}, todo : SUBSET Robot, rejected : BOOLEAN]
    BY <1>1 DEF Idle
  <2>2. normal' \in Seq(Command) /\ priority' \in Seq(Command) /\ Len(normal') <= QueueLimit
    BY <1>1, LimitAssumption
  <2>3. /\ requested' \in [Robot -> {"no", "pending", "overdue"}]
        /\ stable' \in [Robot -> {"no", "since", "long"}]
    BY <1>1 DEF Blank
  <2> QED BY <1>1, <2>1, <2>2, <2>3 DEF TypeOK
<1>3. LanesMatchRows' /\ RunningIsOwned' /\ WaitsOnce'
  BY CommandAssumption, <1>1
  DEF LanesMatchRows, RunningIsOwned, WaitsOnce, Waiting, Elements, Distinct, Unfinished, Idle
<1>4. NoFalseSuccess' /\ RunsMatchRows' /\ TargetsMatchOperation'
  BY <1>1 DEF NoFalseSuccess, RunsMatchRows, TargetsMatchOperation
<1>5. WorkerCollects' /\ ActiveIsAcknowledged' /\ OrphansAreUnfinished'
  BY CommandAssumption, <1>1 DEF WorkerCollects, ActiveIsAcknowledged, OrphansAreUnfinished, Idle
<1> QED BY <1>2, <1>3, <1>4, <1>5

(* Steps that touch neither rows, lanes nor what the worker holds.         *)
LEMMA QuietInv ==
  ASSUME Inv, TypeOK',
         UNCHANGED <<row, normal, priority, queuedIds, worker, active, runs, acked, orphans>>
  PROVE  Inv'
BY DEF Inv, LanesMatchRows, RunningIsOwned, NoFalseSuccess, WaitsOnce, RunsMatchRows,
       TargetsMatchOperation, WorkerCollects, ActiveIsAcknowledged, OrphansAreUnfinished,
       Waiting, Idle

(* Every step preserves the invariant.                                     *)
LEMMA NextInv == Inv /\ [Next]_vars => Inv'
<1> SUFFICES ASSUME Inv, [Next]_vars PROVE Inv'
  OBVIOUS
<1>1. TypeOK
  BY DEF Inv
<1>2. ASSUME NEW c \in Command, NEW targets \in TargetSets, RequestStop(c, targets)
      PROVE  Inv'
  <2>1. /\ targets \in SUBSET Robot /\ targets # {} /\ Submit(c, "stop", targets)
        /\ requested' \in [Robot -> {"no", "pending", "overdue"}]
        /\ stable' \in [Robot -> {"no", "since", "long"}]
    BY <1>1, <1>2, TargetAssumption DEF RequestStop, TypeOK
  <2> QED BY <2>1, SubmitInv DEF Operation
<1>3. ASSUME NEW c \in Command, NEW targets \in TargetSets, RequestReset(c, targets)
      PROVE  Inv'
  <2>1. /\ targets \in SUBSET Robot /\ targets # {} /\ Submit(c, "reset_stop", targets)
        /\ requested' \in [Robot -> {"no", "pending", "overdue"}]
        /\ stable' \in [Robot -> {"no", "since", "long"}]
    BY <1>1, <1>3, TargetAssumption DEF RequestReset, safety, TypeOK
  <2> QED BY <2>1, SubmitInv DEF Operation
<1>4. ASSUME NEW c \in Command, RequestMission(c) PROVE Inv'
  <2>1. /\ Submit(c, "mission", {})
        /\ requested' \in [Robot -> {"no", "pending", "overdue"}]
        /\ stable' \in [Robot -> {"no", "since", "long"}]
    BY <1>1, <1>4 DEF RequestMission, safety, TypeOK
  <2> QED BY <2>1, SubmitInv DEF Operation
<1>5. CASE Wake \/ Sleep
  BY <1>1, <1>5, QuietInv DEF Wake, Sleep, lanes, safety, history, bounds, TypeOK
<1>6. ASSUME NEW r \in Robot, DeadlinePasses(r) PROVE Inv'
  <2>1. /\ requested' \in [Robot -> {"no", "pending", "overdue"}]
        /\ UNCHANGED <<row, normal, priority, queuedIds, wake, awake, worker, active, stable,
                       runs, acked, orphans, requests, restarts>>
    BY <1>1, <1>6 DEF DeadlinePasses, lanes, execution, history, bounds, TypeOK
  <2>2. TypeOK'
    BY <1>1, <2>1 DEF TypeOK
  <2> QED BY <2>1, <2>2, QuietInv
<1>7. CASE UNCHANGED vars
  <2>1. UNCHANGED <<row, normal, priority, queuedIds, wake, awake, worker, active, requested,
                    stable, runs, acked, orphans, requests, restarts>>
    BY <1>7 DEF vars, lanes, execution, safety, history, bounds
  <2>2. TypeOK'
    BY <1>1, <2>1 DEF TypeOK
  <2> QED BY <2>1, <2>2, QuietInv
<1> QED BY <1>2, <1>3, <1>4, <1>5, <1>6, <1>7, TakeInv, AnsweredInv, HandlerInv, RefreshInv,
           RestartInv DEF Next, Operator, WorkerStep
-----------------------------------------------------------------------------
(* The inductive invariant holds in every behaviour.                       *)
THEOREM SpecInv == Spec => []Inv
  BY InitInv, NextInv, PTL DEF Spec

(* Type correctness for any commands, targets and limits; in particular    *)
(* the normal lane never exceeds its capacity.                             *)
THEOREM Typed == Spec => []TypeOK
<1>1. Inv => TypeOK
  BY DEF Inv
<1> QED BY <1>1, SpecInv, PTL

(* A command is executed at most once, however often its request is        *)
(* repeated and however often the server restarts.                         *)
THEOREM AtMostOnce == Spec => []ExecutedOnce
<1>1. Inv => ExecutedOnce
  BY DEF Inv, RunsMatchRows, ExecutedOnce
<1> QED BY <1>1, SpecInv, PTL

(* The lanes, _queued_ids and the rows of the database agree.              *)
THEOREM LanesAgree == Spec => []LanesMatchRows
<1>1. Inv => LanesMatchRows
  BY DEF Inv
<1> QED BY <1>1, SpecInv, PTL

(* Every RUNNING command is somebody's, or a restart orphaned it.          *)
THEOREM Owned == Spec => []RunningIsOwned
<1>1. Inv => RunningIsOwned
  BY DEF Inv
<1> QED BY <1>1, SpecInv, PTL

(* No stop is reported as succeeded that a robot did not acknowledge.      *)
THEOREM Honest == Spec => []NoFalseSuccess
<1>1. Inv => NoFalseSuccess
  BY DEF Inv
<1> QED BY <1>1, SpecInv, PTL
-----------------------------------------------------------------------------
(* Implementation of CommandJournal                                        *)

States == [c \in Command |-> row[c].state]
Begun == {c \in Command : runs[c] > 0}
Kept == Journal!Next \/ UNCHANGED <<States, Begun>>

(* A request is accepted, struck out or changes nothing on record.         *)
LEMMA SubmitKept ==
  ASSUME Inv, NEW c \in Command, NEW op, NEW targets, Submit(c, op, targets)
  PROVE  Kept
<1> DEFINE r == Created(c, op, targets)
<1>1. UNCHANGED Begun
  BY DEF Begun, Submit
<1>2. CASE UNCHANGED row
  BY <1>1, <1>2 DEF Kept, States
<1>3. CASE row[c].state = "NONE" /\ row' = [row EXCEPT ![c] = r] /\ r.state = "ACCEPTED"
  <2>1. States' = [States EXCEPT ![c] = "ACCEPTED"] /\ States[c] = "NONE"
    BY <1>3 DEF States, Inv, TypeOK
  <2> QED BY <1>1, <2>1 DEF Kept, Journal!Next, Journal!Accept, States, Begun
<1>4. CASE row[c].state = "ACCEPTED" /\ row' = [row EXCEPT ![c] = BlankRow]
  <2>1. States' = [States EXCEPT ![c] = "NONE"] /\ States[c] = "ACCEPTED"
    BY <1>4 DEF States, BlankRow, Inv, TypeOK
  <2> QED BY <1>1, <2>1 DEF Kept, Journal!Next, Journal!Strike, States, Begun
<1>5. CASE row[c].state = "NONE" /\ row' = [row EXCEPT ![c] = BlankRow]
  <2>1. States' = States
    BY <1>5 DEF States, BlankRow, Inv, TypeOK
  <2> QED BY <1>1, <2>1 DEF Kept
<1>6. CASE row[c].state = "ACCEPTED" /\ row' = [row EXCEPT ![c] = r] /\ r = row[c]
  <2>1. row' = row
    BY <1>6 DEF Inv, TypeOK
  <2> QED BY <1>2, <2>1
<1>7. CASE MustQueue(c, r)
  <2>1. r.state = "ACCEPTED" /\ (row[c].state = "NONE" \/ (row[c].state = "ACCEPTED" /\ r = row[c]))
    BY <1>7 DEF MustQueue, Created
  <2>2. row' = [row EXCEPT ![c] = r] \/ row' = [row EXCEPT ![c] = BlankRow]
    BY <1>7 DEF Submit, Enqueued
  <2> HIDE DEF r
  <2> QED BY <1>3, <1>4, <1>5, <1>6, <2>1, <2>2
<1>8. CASE ~MustQueue(c, r)
  BY <1>2, <1>8 DEF Submit
<1> QED BY <1>7, <1>8

(* What the worker takes was accepted and has not been executed before.    *)
LEMMA TakeKept == ASSUME Inv, NEW c \in Command, Take(c) PROVE Kept
<1>1. c \in Waiting
  <2>1. Pops(c) /\ normal \in Seq(Command) /\ priority \in Seq(Command)
        /\ Len(normal) <= QueueLimit /\ WaitsOnce
    BY DEF Take, Inv, TypeOK
  <2> QED BY <2>1, PopLanes
<1>2. row[c].state = "ACCEPTED" /\ runs[c] = 0
  BY <1>1 DEF Inv, LanesMatchRows, RunsMatchRows
<1>3. States' = [States EXCEPT ![c] = "RUNNING"] /\ States[c] = "ACCEPTED"
  BY <1>2 DEF Take, States, Inv, TypeOK, Row
<1>4. Begun' = Begun \cup {c} /\ c \notin Begun
  BY <1>2 DEF Take, Begun, Inv, TypeOK
<1> QED BY <1>3, <1>4 DEF Kept, Journal!Next, Journal!Execute, States, Begun

(* Only rows that are RUNNING change otherwise, and to their end.          *)
LEMMA ConclusionKept ==
  ASSUME Inv, row' \in [Command -> Row], UNCHANGED runs,
         \A c \in Command : row'[c].state # row[c].state =>
           row[c].state = "RUNNING" /\ row'[c].state \in {"SUCCEEDED", "FAILED", "TIMED_OUT"}
  PROVE  Kept
<1>1. /\ DOMAIN States' = Command /\ UNCHANGED Begun
      /\ \A c \in Command : States'[c] = States[c]
           \/ (States[c] = "RUNNING" /\ States'[c] \in Journal!Ending)
  BY DEF States, Begun, Journal!Ending
<1> QED BY <1>1 DEF Kept, Journal!Next, Journal!Conclude, States, Begun

(* The worker ends the command it executes.                                *)
LEMMA EndKept ==
  ASSUME Inv, Inv', NEW c \in Command, row[c].state = "RUNNING", UNCHANGED runs,
         NEW s \in {"SUCCEEDED", "FAILED"}, row' = [row EXCEPT ![c].state = s]
  PROVE  Kept
<1>1. row' \in [Command -> Row] /\ \A d \in Command : row[d] \in Row
  BY DEF Inv, TypeOK
<1>2. row'[c].state = s /\ \A d \in Command : d # c => row'[d] = row[d]
  BY <1>1 DEF Inv, TypeOK, Row
<1> QED BY <1>1, <1>2, ConclusionKept

(* Every step of the dispatcher is a step of the journal or changes        *)
(* nothing there.                                                          *)
LEMMA StepKept == Inv /\ Inv' /\ [Next]_vars => [Journal!Next]_<<States, Begun>>
<1> SUFFICES ASSUME Inv, Inv', [Next]_vars PROVE Kept
  BY DEF Kept
<1>0. row' \in [Command -> Row]
  BY DEF Inv, TypeOK
<1>1. ASSUME UNCHANGED <<row, runs>> PROVE Kept
  BY <1>1 DEF Kept, States, Begun
<1>2. ASSUME NEW accepted \in BOOLEAN, Answered(accepted) PROVE Kept
  <2>1. worker.cmd \in Command /\ row[worker.cmd].state = "RUNNING" /\ runs' = runs
    BY <1>2 DEF Answered, Inv, TypeOK, WorkerCollects, Idle
  <2>2. \/ row' = row
        \/ \E s \in {"FAILED", "SUCCEEDED"} : row' = [row EXCEPT ![worker.cmd].state = s]
    BY <1>2 DEF Answered, Conclude
  <2> QED BY <1>1, <2>1, <2>2, EndKept
<1>3. ASSUME NEW accepted \in BOOLEAN, HandlerReturns(accepted) PROVE Kept
  <2>1. /\ worker.cmd \in Command /\ row[worker.cmd].state = "RUNNING" /\ runs' = runs
        /\ row' = [row EXCEPT ![worker.cmd].state = IF accepted THEN "SUCCEEDED" ELSE "FAILED"]
    BY <1>3 DEF HandlerReturns, Inv, TypeOK, WorkerCollects, history
  <2> QED BY <2>1, EndKept
<1>4. CASE RefreshStops
  <2>1. \A c \in Command : row'[c] = row[c] \/
          (c \in active /\ \E s \in {"SUCCEEDED", "TIMED_OUT"} : row'[c] = [row[c] EXCEPT !.state = s])
    BY <1>4 DEF RefreshStops
  <2>2. \A c \in active : row[c].state = "RUNNING"
    BY DEF Inv, ActiveIsAcknowledged
  <2>3. \A c \in Command : row[c] \in Row
    BY DEF Inv, TypeOK
  <2>4. \A c \in Command : row'[c].state # row[c].state =>
           row[c].state = "RUNNING" /\ row'[c].state \in {"SUCCEEDED", "FAILED", "TIMED_OUT"}
    BY <2>1, <2>2, <2>3 DEF Row
  <2>5. runs' = runs
    BY <1>4 DEF RefreshStops, history
  <2> QED BY <1>0, <2>4, <2>5, ConclusionKept
<1>5. ASSUME NEW c \in Command, NEW targets \in TargetSets,
             RequestStop(c, targets) \/ RequestReset(c, targets)
      PROVE  Kept
  BY <1>5, SubmitKept DEF RequestStop, RequestReset
<1>6. ASSUME NEW c \in Command, RequestMission(c) PROVE Kept
  BY <1>6, SubmitKept DEF RequestMission
<1>7. CASE Wake \/ Sleep \/ Restart \/ UNCHANGED vars \/ \E r \in Robot : DeadlinePasses(r)
  BY <1>1, <1>7 DEF Wake, Sleep, Restart, DeadlinePasses, history, vars
<1> QED BY <1>2, <1>3, <1>4, <1>5, <1>6, <1>7, TakeKept DEF Next, Operator, WorkerStep

(* The dispatcher implements the journal, for any commands, lanes and      *)
(* bounds: what was accepted stays on record, is executed at most once and *)
(* ends once, whatever is repeated, refused, confirmed late or restarted.  *)
THEOREM KeepsJournal == Spec => JournalKept
<1>1. Init => Journal!Init
  BY DEF Init, Journal!Init, BlankRow
<1>2. Inv /\ Inv' /\ [Next]_vars
        => [Journal!Next]_<<[c \in Command |-> row[c].state], {c \in Command : runs[c] > 0}>>
  BY StepKept DEF States, Begun
<1> QED BY <1>1, <1>2, SpecInv, PTL DEF Spec, JournalKept, Journal!Spec
-----------------------------------------------------------------------------
(* Liveness of stops                                                       *)

(* A stop that is tracked has the clocks of its robots running.            *)
Tracked(c) == c \in queuedIds \cup active \/ c = worker.cmd

Clocked(c) == row[c].op = "stop" => \A r \in row[c].targets : requested[r] # "no"

StopsAreClocked == \A c \in Command : Tracked(c) => Clocked(c)

SameCommand(c) == row'[c].op = row[c].op /\ row'[c].targets = row[c].targets

(* What executes, observes and restarts changes the states of rows only.   *)
LEMMA OnlyStatesChange ==
  ASSUME Inv, WorkerStep \/ RefreshStops \/ Restart \/ UNCHANGED vars
              \/ \E r \in Robot : DeadlinePasses(r),
         NEW c \in Command
  PROVE  SameCommand(c)
<1>1. row \in [Command -> Row]
  BY DEF Inv, TypeOK
<1>2. ASSUME NEW d, NEW s, row' = [row EXCEPT ![d].state = s] PROVE SameCommand(c)
  BY <1>1, <1>2 DEF SameCommand, Row
<1>3. CASE UNCHANGED row
  BY <1>3 DEF SameCommand
<1>4. ASSUME NEW accepted \in BOOLEAN, Answered(accepted) \/ HandlerReturns(accepted)
      PROVE  SameCommand(c)
  BY <1>2, <1>3, <1>4 DEF Answered, HandlerReturns, Conclude
<1>5. ASSUME NEW d \in Command, Take(d) PROVE SameCommand(c)
  BY <1>2, <1>5 DEF Take
<1>6. CASE RefreshStops
  BY <1>1, <1>6 DEF RefreshStops, SameCommand, Row
<1>7. CASE Wake \/ Sleep \/ Restart \/ UNCHANGED vars \/ \E r \in Robot : DeadlinePasses(r)
  BY <1>3, <1>7 DEF Wake, Sleep, Restart, DeadlinePasses, vars
<1> QED BY <1>4, <1>5, <1>6, <1>7 DEF WorkerStep

(* A request leaves every tracked command as it is.                        *)
LEMMA RequestsLeaveTracked ==
  ASSUME Inv, NEW c \in Command, NEW op, NEW targets, Submit(c, op, targets),
         NEW d \in Command, Tracked(d)
  PROVE  row'[d] = row[d]
<1>1. row \in [Command -> Row]
  BY DEF Inv, TypeOK
<1>2. row[d].state \in Unfinished /\ (row[d].state = "ACCEPTED" => d \in queuedIds)
  BY DEF Inv, Tracked, LanesMatchRows, RunningIsOwned, Unfinished
<1>3. CASE MustQueue(c, Created(c, op, targets))
  <2>1. d # c
    BY <1>2, <1>3 DEF MustQueue, Created, Unfinished
  <2> QED BY <1>1, <1>3, <2>1 DEF Submit, Enqueued
<1>4. CASE ~MustQueue(c, Created(c, op, targets))
  BY <1>4 DEF Submit
<1> QED BY <1>3, <1>4

(* What a request adds to the tracked commands is its own.                 *)
LEMMA RequestsTrackTheirOwn ==
  ASSUME Inv, NEW c \in Command, NEW op, NEW targets, Submit(c, op, targets),
         NEW d \in Command, Tracked(d)', ~Tracked(d)
  PROVE  d = c /\ row'[d].op = op /\ row'[d].targets = targets
<1>1. row \in [Command -> Row] /\ active' = active /\ worker' = worker
  BY DEF Inv, TypeOK, Submit, execution
<1>2. d \in queuedIds' /\ d \notin queuedIds
  BY <1>1 DEF Tracked
<1>3. MustQueue(c, Created(c, op, targets)) /\ Enqueued(c, Created(c, op, targets))
  BY <1>2 DEF Submit, lanes
<1>4. d = c /\ row'[c] = Created(c, op, targets)
  BY <1>1, <1>2, <1>3 DEF Enqueued
<1> QED BY <1>4 DEF Submit

(* Only restarts stop clocks, and they track nothing.                      *)
LEMMA ClocksKept == Inv /\ StopsAreClocked /\ [Next]_vars => StopsAreClocked'
<1> SUFFICES ASSUME Inv, StopsAreClocked, [Next]_vars, NEW c \in Command, Tracked(c)',
                    row'[c].op = "stop", NEW r \in row'[c].targets
             PROVE  requested'[r] # "no"
  BY DEF StopsAreClocked, Clocked
<1>0. row \in [Command -> Row] /\ row' \in [Command -> Row]
      /\ requested \in [Robot -> {"no", "pending", "overdue"}]
  BY NextInv DEF Inv, TypeOK
<1>1. r \in Robot
  BY <1>0 DEF Row
<1>2. ASSUME Tracked(c), SameCommand(c), requested[r] # "no" => requested'[r] # "no"
      PROVE  requested'[r] # "no"
  BY <1>2 DEF StopsAreClocked, Clocked, SameCommand
<1>3. ASSUME NEW d \in Command, NEW targets \in TargetSets, RequestStop(d, targets)
      PROVE  requested'[r] # "no"
  <2>1. requested' = [q \in Robot |-> IF q \in targets THEN "pending" ELSE requested[q]]
        /\ Submit(d, "stop", targets)
    BY <1>3 DEF RequestStop
  <2>2. CASE Tracked(c)
    BY <1>1, <1>2, <2>1, <2>2, RequestsLeaveTracked DEF SameCommand
  <2>3. CASE ~Tracked(c)
    BY <1>1, <2>1, <2>3, RequestsTrackTheirOwn
  <2> QED BY <2>2, <2>3
<1>4. ASSUME NEW d \in Command, NEW targets, NEW op, op # "stop", Submit(d, op, targets),
             requested' = requested
      PROVE  requested'[r] # "no"
  <2>1. CASE Tracked(c)
    BY <1>2, <1>4, <2>1, RequestsLeaveTracked DEF SameCommand
  <2>2. CASE ~Tracked(c)
    BY <1>4, <2>2, RequestsTrackTheirOwn
  <2> QED BY <2>1, <2>2
<1>5. CASE WorkerStep
  <2>1. requested' = requested
    BY <1>5 DEF WorkerStep, Wake, Sleep, Take, Answered, HandlerReturns, safety
  <2>2. Tracked(c)
    <3>1. ASSUME NEW d \in Command, Take(d) PROVE Tracked(c)
      <4>1. normal \in Seq(Command) /\ priority \in Seq(Command)
            /\ Len(normal) <= QueueLimit /\ WaitsOnce /\ Pops(d)
        BY <3>1 DEF Inv, TypeOK, Take
      <4>2. d \in queuedIds
        BY <4>1, PopLanes DEF Inv, LanesMatchRows
      <4> QED BY <3>1, <4>2 DEF Take, Tracked
    <3>2. ASSUME NEW accepted \in BOOLEAN, Answered(accepted) \/ HandlerReturns(accepted)
          PROVE  Tracked(c)
      <4>1. c # NoCommand
        BY CommandAssumption
      <4>2. queuedIds' = queuedIds /\ active' \subseteq active \cup {worker.cmd}
        <5>1. ASSUME NEW d, NEW rejected, Conclude(d, rejected)
              PROVE  active' \subseteq active \cup {d}
          BY <5>1 DEF Conclude
        <5>2. CASE Answered(accepted)
          BY <5>1, <5>2 DEF Answered, lanes
        <5>3. CASE HandlerReturns(accepted)
          BY <5>3 DEF HandlerReturns, lanes
        <5> QED BY <3>2, <5>2, <5>3
      <4>3. worker'.cmd \in {worker.cmd, NoCommand}
        <5>1. worker \in [cmd : Command \cup {NoCommand}, todo : SUBSET Robot, rejected : BOOLEAN]
          BY DEF Inv, TypeOK
        <5>2. CASE worker' = Idle
          BY <5>2 DEF Idle
        <5>3. CASE worker' # Idle
          BY <3>2, <5>1, <5>3 DEF Answered, HandlerReturns
        <5> QED BY <5>2, <5>3
      <4> QED BY <4>1, <4>2, <4>3 DEF Tracked
    <3>3. Wake \/ Sleep => Tracked(c)
      BY DEF Wake, Sleep, Tracked, lanes
    <3> QED BY <1>5, <3>1, <3>2, <3>3 DEF WorkerStep
  <2> QED BY <1>2, <1>5, <2>1, <2>2, OnlyStatesChange
<1>6. CASE RefreshStops
  <2>1. Tracked(c) /\ requested' = requested
    BY <1>6 DEF RefreshStops, Tracked, lanes
  <2> QED BY <1>2, <1>6, <2>1, OnlyStatesChange
<1>7. ASSUME NEW q \in Robot, DeadlinePasses(q) PROVE requested'[r] # "no"
  <2>1. Tracked(c) /\ (requested[r] # "no" => requested'[r] # "no")
    BY <1>0, <1>1, <1>7 DEF DeadlinePasses, Tracked, lanes, execution
  <2> QED BY <1>2, <1>7, <2>1, OnlyStatesChange
<1>8. CASE Restart
  BY <1>8, CommandAssumption DEF Restart, Tracked, Idle
<1>9. CASE UNCHANGED vars
  <2>1. Tracked(c) /\ requested' = requested
    BY <1>9 DEF vars, lanes, execution, safety, Tracked
  <2> QED BY <1>2, <1>9, <2>1, OnlyStatesChange
<1>10. CASE Operator
  BY <1>3, <1>4, <1>10 DEF Operator, RequestReset, RequestMission, safety
<1> QED BY <1>5, <1>6, <1>7, <1>8, <1>9, <1>10 DEF Next

(* A robot that a stop still waits for runs against its 2 s, unless they   *)
(* have passed; they begin anew only with another stop.                    *)
DueFor(c, r) == r \notin row[c].targets \/ requested[r] = "overdue"

AnotherStop == \E d \in Command, targets \in TargetSets : RequestStop(d, targets)

LEMMA DueStays ==
  ASSUME Inv, [Next]_vars, ~AnotherStop, NEW c \in Command, c \in active, c \in active',
         NEW r \in Robot, DueFor(c, r)
  PROVE  DueFor(c, r)'
<1>1. SUFFICES ASSUME row'[c].targets = row[c].targets,
                      requested[r] = "overdue" => requested'[r] = "overdue"
               PROVE  DueFor(c, r)'
  <2>0. requested \in [Robot -> {"no", "pending", "overdue"}] /\ Tracked(c)
    BY DEF Inv, TypeOK, Tracked
  <2>1. ASSUME NEW d \in Command, NEW targets, NEW op, Submit(d, op, targets)
        PROVE  row'[c].targets = row[c].targets
    BY <2>0, <2>1, RequestsLeaveTracked
  <2>2. CASE Operator
    BY <2>1, <2>2 DEF Operator, AnotherStop, RequestReset, RequestMission, safety
  <2>3. CASE WorkerStep
    <3>1. requested' = requested
      BY <2>3 DEF WorkerStep, Wake, Sleep, Take, Answered, HandlerReturns, safety
    <3> QED BY <2>3, <3>1, OnlyStatesChange DEF SameCommand
  <2>4. CASE RefreshStops
    <3>1. requested' = requested
      BY <2>4 DEF RefreshStops
    <3> QED BY <2>4, <3>1, OnlyStatesChange DEF SameCommand
  <2>5. ASSUME NEW q \in Robot, DeadlinePasses(q)
        PROVE  /\ row'[c].targets = row[c].targets
               /\ requested[r] = "overdue" => requested'[r] = "overdue"
    <3>1. requested[r] = "overdue" => requested'[r] = "overdue"
      BY <2>0, <2>5 DEF DeadlinePasses
    <3> QED BY <2>5, <3>1 DEF DeadlinePasses
  <2>6. CASE Restart
    BY <2>6 DEF Restart
  <2>7. CASE UNCHANGED vars
    BY <2>7 DEF vars, safety
  <2> QED BY <2>2, <2>3, <2>4, <2>5, <2>6, <2>7 DEF Next
<1> QED BY <1>1 DEF DueFor

(* A tick that finds the 2 s of all its robots passed concludes a stop.    *)
LEMMA TickConcludes ==
  ASSUME RefreshStops, NEW c \in Command, \A r \in row[c].targets : requested[r] = "overdue"
  PROVE  c \notin active'
<1>1. Succeeds(c) \/ TimesOut(c)
  BY DEF TimesOut
<1> QED BY <1>1 DEF RefreshStops

(* What weak fairness of the clock of a robot and of the tick give: 2 s    *)
(* that run pass, and a tick comes while a stop is overdue.                *)
Overdue(c) == c \in active /\ \A r \in row[c].targets : requested[r] = "overdue"

TimePassesFor(r) == []<>(requested[r] # "pending") \/ []<><<DeadlinePasses(r)>>_vars
TickFinds(c) == []<>~Overdue(c) \/ []<><<RefreshStops>>_vars

LEMMA ClocksRun == Spec => []StopsAreClocked
<1>1. Init => StopsAreClocked
  BY CommandAssumption DEF Init, StopsAreClocked, Tracked, Idle
<1> QED BY <1>1, ClocksKept, SpecInv, PTL DEF Spec

(* While a stop waits and no other stop is requested, the 2 s of each of   *)
(* its robots pass for good.                                               *)
DueInTheEnd(c, r) ==
  []<>(c \notin active) \/ []<><<AnotherStop>>_vars \/ <>[]DueFor(c, r)

LEMMA BecomesDue ==
  ASSUME NEW c \in Command, NEW r \in Robot
  PROVE  Spec /\ TimePassesFor(r) => DueInTheEnd(c, r)
<1> DEFINE Waits == c \in active
           WaitsNot == c \notin active
           RunsNot == requested[r] # "pending"
           Due == DueFor(c, r)
<1>1. Waits <=> ~WaitsNot
  OBVIOUS
<1>2. Inv /\ StopsAreClocked /\ Waits /\ RunsNot => Due
  BY DEF Inv, TypeOK, Row, StopsAreClocked, Clocked, Tracked, ActiveIsAcknowledged, DueFor
<1>3. <<DeadlinePasses(r)>>_vars /\ Inv => Due'
  BY DEF DeadlinePasses, DueFor, Inv, TypeOK
<1>4. Inv /\ [Next]_vars /\ ~<<AnotherStop>>_vars /\ Waits /\ Waits' /\ Due => Due'
  <2>1. Inv /\ AnotherStop => <<AnotherStop>>_vars
    <3>1. ASSUME Inv, NEW d, NEW op, NEW targets, Submit(d, op, targets) PROVE requests' # requests
      BY <3>1, LimitAssumption DEF Submit, Inv, TypeOK
    <3> QED BY <3>1 DEF AnotherStop, RequestStop, vars, bounds
  <2> QED BY <2>1, DueStays
<1>5. TimePassesFor(r) <=> ([]<>RunsNot \/ []<><<DeadlinePasses(r)>>_vars)
  BY DEF TimePassesFor
<1> HIDE DEF Waits, WaitsNot, RunsNot, Due
<1>6. Spec /\ TimePassesFor(r) => []<>WaitsNot \/ []<><<AnotherStop>>_vars \/ <>[]Due
  BY <1>1, <1>2, <1>3, <1>4, <1>5, SpecInv, ClocksRun, PTL DEF Spec
<1> QED BY <1>6 DEF WaitsNot, Due, DueInTheEnd

(* Stops end: an acknowledged stop is concluded, confirmed or not, unless  *)
(* further stops are requested again and again, each of which starts the   *)
(* 2 s of its robots anew.  A restart takes the stop from the dispatcher.  *)
THEOREM StopsConclude ==
  ASSUME NEW c \in Command
  PROVE  Spec /\ TimePassesFor("robot_1") /\ TimePassesFor("robot_2") /\ TickFinds(c)
           => []<>(c \notin active) \/ []<><<AnotherStop>>_vars
<1> DEFINE WaitsNot == c \notin active
           Due1 == DueFor(c, "robot_1")
           Due2 == DueFor(c, "robot_2")
           Late == Overdue(c)
           LateNot == ~Overdue(c)
<1>1. "robot_1" \in Robot /\ "robot_2" \in Robot
  BY DEF Robot
<1>2. Spec /\ TimePassesFor("robot_1") => DueInTheEnd(c, "robot_1")
  BY <1>1, BecomesDue
<1>3. Spec /\ TimePassesFor("robot_2") => DueInTheEnd(c, "robot_2")
  BY <1>1, BecomesDue
<1>4. Inv /\ ~WaitsNot /\ Due1 /\ Due2 => Late
  BY DEF Inv, TypeOK, Row, Robot, DueFor, Overdue
<1>5. <<RefreshStops>>_vars /\ Late => WaitsNot'
  BY TickConcludes DEF Overdue
<1>6. Late => ~LateNot
  OBVIOUS
<1>7. TickFinds(c) <=> ([]<>LateNot \/ []<><<RefreshStops>>_vars)
  BY DEF TickFinds
<1>8. /\ DueInTheEnd(c, "robot_1") <=> ([]<>WaitsNot \/ []<><<AnotherStop>>_vars \/ <>[]Due1)
      /\ DueInTheEnd(c, "robot_2") <=> ([]<>WaitsNot \/ []<><<AnotherStop>>_vars \/ <>[]Due2)
  BY DEF DueInTheEnd
<1> HIDE DEF WaitsNot, Due1, Due2, Late, LateNot
<1>9. Spec /\ TimePassesFor("robot_1") /\ TimePassesFor("robot_2") /\ TickFinds(c)
        => []<>WaitsNot \/ []<><<AnotherStop>>_vars
  BY <1>2, <1>3, <1>4, <1>5, <1>6, <1>7, <1>8, SpecInv, PTL DEF Spec
<1> QED BY <1>9 DEF WaitsNot

(* The worker does not wait for ever: what weak fairness of its steps      *)
(* gives while it executes a command.                                      *)
Works == worker # Idle
WorksNot == worker = Idle

WorkerTurns == []<>WorksNot \/ []<><<WorkerStep>>_vars

AsksBoth == worker.todo = Robot
AsksLast == \A q, r \in worker.todo : q = r

(* A worker that executes a command is in its inner loop.                  *)
WorksAwake == Works => awake

LEMMA StaysAwake == WorksAwake /\ [Next]_vars => WorksAwake'
<1> SUFFICES ASSUME WorksAwake, [Next]_vars PROVE WorksAwake'
  OBVIOUS
<1> USE DEF WorksAwake, Works
<1>1. CASE WorkerStep
  <2>1. ASSUME NEW c \in Command, Take(c) PROVE awake'
    BY <2>1 DEF Take
  <2>2. ASSUME NEW accepted \in BOOLEAN, Answered(accepted) \/ HandlerReturns(accepted)
        PROVE  awake' = awake /\ (worker' = Idle \/ Works)
    <3>1. Idle.todo = {}
      BY DEF Idle
    <3> QED BY <2>2, <3>1 DEF Answered, HandlerReturns
  <2> QED BY <1>1, <2>1, <2>2 DEF WorkerStep, Wake, Sleep
<1>2. CASE UNCHANGED <<awake, worker>> \/ Restart
  BY <1>2 DEF Restart
<1> QED
  BY <1>1, <1>2 DEF Next, Operator, RequestStop, RequestReset, RequestMission, Submit,
                    execution, RefreshStops, DeadlinePasses, vars

LEMMA StaysAwakeInv == Spec => []WorksAwake
<1>1. Init => WorksAwake
  BY DEF Init, WorksAwake, Works
<1> QED BY <1>1, StaysAwake, PTL DEF Spec

(* An answer, or the end of a handler, leaves one robot to ask or none,    *)
(* and after the last the worker is free.                                  *)
LEMMA EachTurnAsksLess ==
  ASSUME Inv, [Next]_vars, WorksAwake, Works
  PROVE  /\ worker' \in {worker, Idle} \/ AsksLast'
         /\ WorkerStep => WorksNot' \/ (AsksBoth /\ AsksLast')
         /\ AsksBoth \/ AsksLast
<1> USE DEF Works, WorksNot
<1>1. worker \in [cmd : Command \cup {NoCommand}, todo : SUBSET Robot, rejected : BOOLEAN]
  BY DEF Inv, TypeOK
<1>2. AsksBoth \/ AsksLast
  BY <1>1 DEF AsksBoth, AsksLast, Robot
<1>3. ASSUME NEW accepted \in BOOLEAN, Answered(accepted)
      PROVE  WorksNot' \/ (AsksBoth /\ AsksLast')
  <2>1. CASE worker.todo \ {NextTarget(worker.todo)} = {}
    BY <1>3, <2>1 DEF Answered
  <2>2. CASE worker.todo \ {NextTarget(worker.todo)} # {}
    <3>1. worker'.todo = worker.todo \ {NextTarget(worker.todo)}
      BY <1>1, <1>3, <2>2 DEF Answered
    <3>2. AsksBoth
      BY <1>1, <2>2 DEF AsksBoth, NextTarget, Robot
    <3> QED BY <3>1, <3>2 DEF AsksBoth, AsksLast, NextTarget, Robot
  <2> QED BY <2>1, <2>2
<1>4. ASSUME NEW accepted \in BOOLEAN, HandlerReturns(accepted) PROVE WorksNot'
  BY <1>4 DEF HandlerReturns
<1>5. CASE WorkerStep
  <2>1. ~Sleep /\ ~(\E c \in Command : Take(c))
    BY DEF Sleep, Take
  <2>2. ~Wake
    BY DEF Wake, WorksAwake
  <2> QED BY <1>2, <1>3, <1>4, <1>5, <2>1, <2>2 DEF WorkerStep
<1>6. CASE ~WorkerStep
  <2>1. worker' = worker \/ worker' = Idle
    BY <1>6 DEF Next, Operator, RequestStop, RequestReset, RequestMission, Submit, execution,
                RefreshStops, DeadlinePasses, Restart, vars
  <2> QED BY <1>2, <1>6, <2>1
<1> QED BY <1>2, <1>5, <1>6

(* The worker comes round: whatever it executes ends, and it is free for   *)
(* the next command again and again.                                       *)
THEOREM WorkerComesRound == Spec /\ WorkerTurns => []<>(worker = Idle)
<1> DEFINE W == Works
           N == WorksNot
           Last == AsksLast
           A == WorksAwake
<1>1. W <=> ~N
  BY DEF Works, WorksNot
<1>2. Inv /\ A /\ [Next]_vars /\ W /\ ~N' /\ Last => Last'
  <2> SUFFICES ASSUME Inv, A, [Next]_vars, W, ~N', Last PROVE Last'
    OBVIOUS
  <2>1. worker' \in {worker, Idle} \/ Last'
    BY EachTurnAsksLess
  <2>2. CASE worker' = worker
    BY <2>2 DEF AsksLast
  <2> QED BY <2>1, <2>2 DEF WorksNot
<1>3. Inv /\ A /\ [Next]_vars /\ <<WorkerStep>>_vars /\ W /\ ~N' => Last'
  BY EachTurnAsksLess
<1>4. Inv /\ A /\ [Next]_vars /\ <<WorkerStep>>_vars /\ W /\ Last => N'
  BY EachTurnAsksLess DEF AsksBoth, AsksLast, Robot
<1>5. WorkerTurns <=> ([]<>N \/ []<><<WorkerStep>>_vars)
  BY DEF WorkerTurns
<1>6. Spec => []A
  BY StaysAwakeInv
<1> HIDE DEF W, N, Last, A
<1>7. Spec /\ WorkerTurns => []<>N
  BY <1>1, <1>2, <1>3, <1>4, <1>5, <1>6, SpecInv, PTL DEF Spec
<1> QED BY <1>7 DEF N, WorksNot
=============================================================================
