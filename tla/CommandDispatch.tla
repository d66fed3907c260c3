-------------------------- MODULE CommandDispatch --------------------------
(***************************************************************************)
(* The path of a command from its request to its end, and what overtakes   *)
(* it: CommandDispatcher with its two lanes and its rows in the database,  *)
(* SafetyService and refresh_stops, which conclude stops from what the     *)
(* telemetry shows, and a restart of the server.                           *)
(*                                                                         *)
(* One action is one stretch of a coroutine between two awaits.  Requests  *)
(* have passed the checks of session and lease (ControlLease); what the    *)
(* robots do is in VelocityWatchdog and MissionFormation, here they only   *)
(* answer, and the telemetry shows them at rest or not.                    *)
(***************************************************************************)
EXTENDS Naturals, Sequences, FiniteSets

CONSTANTS
  Command,      \* the identities of commands; a request names one, a retry names it again
  NoCommand,
  TargetSets,   \* the sets of robots a stop or a reset may name
  QueueLimit,   \* the capacity of the normal lane
  MaxRequests,  \* bound: requests, first ones and retries together
  MaxRestarts   \* bound: restarts of the server

Robot == {"robot_1", "robot_2"}

ASSUME CommandAssumption == NoCommand \notin Command
ASSUME TargetAssumption == TargetSets \subseteq (SUBSET Robot) \ {{}}
ASSUME LimitAssumption ==
  /\ QueueLimit \in Nat /\ MaxRequests \in Nat
  /\ MaxRestarts \in Nat

Operation == {"stop", "reset_stop", "mission"}
Unfinished == {"ACCEPTED", "RUNNING"}
Row == [state : Unfinished \cup {"NONE", "SUCCEEDED", "FAILED", "TIMED_OUT"},
        op : Operation, targets : SUBSET Robot]
BlankRow == [state |-> "NONE", op |-> "mission", targets |-> {}]

VARIABLES
  \* the database
  row,           \* [Command -> Row], state NONE where there is no row
  \* CommandDispatcher
  normal, priority, queuedIds, active,
  wake,          \* the event _wake
  awake,         \* the worker is in its inner loop
  worker,        \* the command it executes, the robots left to ask, any refusal
  \* SafetyService
  requested,     \* [Robot -> ...] a stop request, and whether its 2 s have passed
  stable,        \* [Robot -> ...] observed at rest since; "long" after 0.5 s
  \* what happened, for the properties
  runs,          \* [Command -> number of times the command was executed]
  acked,         \* [Command -> robots that acknowledged it]
  orphans,       \* unfinished commands that a restart took from the dispatcher
  requests, restarts

lanes == <<normal, priority, queuedIds, wake>>
execution == <<awake, worker, active>>
safety == <<requested, stable>>
history == <<runs, acked, orphans>>
bounds == <<requests, restarts>>
vars == <<row, lanes, execution, safety, history, bounds>>

Idle == [cmd |-> NoCommand, todo |-> {}, rejected |-> FALSE]
Blank(value) == [r \in Robot |-> value]
NextTarget(todo) == IF "robot_1" \in todo THEN "robot_1" ELSE "robot_2"

Init ==
  /\ row = [c \in Command |-> BlankRow]
  /\ normal = <<>> /\ priority = <<>> /\ queuedIds = {} /\ active = {}
  /\ wake = FALSE /\ awake = FALSE /\ worker = Idle
  /\ requested = Blank("no") /\ stable = Blank("no")
  /\ runs = [c \in Command |-> 0] /\ acked = [c \in Command |-> {}] /\ orphans = {}
  /\ requests = 0 /\ restarts = 0

(***************************************************************************)
(* Requests.  create_command returns the row of an earlier request with    *)
(* the same id and payload; submit enqueues a command that is ACCEPTED and *)
(* in neither lane.  A full normal lane deletes the row.                   *)
(***************************************************************************)
Created(c, op, targets) ==
  IF row[c].state = "NONE"
  THEN [state |-> "ACCEPTED", op |-> op, targets |-> targets] ELSE row[c]

Enqueued(c, r) ==
  /\ row' = [row EXCEPT ![c] = r]
  /\ queuedIds' = queuedIds \cup {c} /\ wake' = TRUE /\ orphans' = orphans \ {c}
  /\ IF r.op = "stop" THEN priority' = Append(priority, c) /\ UNCHANGED normal
                      ELSE normal' = Append(normal, c) /\ UNCHANGED priority

Full(r) == r.op # "stop" /\ Len(normal) >= QueueLimit

MustQueueUnclaimed(c, r) == c \notin queuedIds

MustQueueAgain(c, r) == r.state = "ACCEPTED"

MustQueue(c, r) == c \notin queuedIds /\ r.state = "ACCEPTED"

Submit(c, op, targets) ==
  LET r == Created(c, op, targets) IN
  /\ requests < MaxRequests /\ requests' = requests + 1
  /\ r.op = op /\ r.targets = targets
  /\ \/ MustQueue(c, r) /\ ~Full(r) /\ Enqueued(c, r)
     \/ /\ MustQueue(c, r) /\ Full(r)
        /\ row' = [row EXCEPT ![c] = BlankRow] /\ orphans' = orphans \ {c}
        /\ UNCHANGED lanes
     \/ ~MustQueue(c, r) /\ UNCHANGED <<row, lanes, orphans>>
  /\ UNCHANGED <<execution, runs, acked, restarts>>

(* POST /stop needs no lease; it starts the 2 s of its robots anew, also   *)
(* when the request is a retry.                                            *)
RequestStop(c, targets) ==
  /\ Submit(c, "stop", targets)
  /\ requested' = [r \in Robot |-> IF r \in targets THEN "pending" ELSE requested[r]]
  /\ UNCHANGED stable

RequestReset(c, targets) == Submit(c, "reset_stop", targets) /\ UNCHANGED safety

RequestMission(c) == Submit(c, "mission", {}) /\ UNCHANGED safety

Operator ==
  \E c \in Command :
    \/ \E targets \in TargetSets : RequestStop(c, targets) \/ RequestReset(c, targets)
    \/ RequestMission(c)

(***************************************************************************)
(* The worker.  It sleeps until _wake is set, clears it and executes until *)
(* both lanes are empty, the priority lane first.                          *)
(***************************************************************************)
Wake ==
  /\ ~awake /\ wake
  /\ awake' = TRUE /\ wake' = FALSE
  /\ UNCHANGED <<row, normal, priority, queuedIds, worker, active, safety,
                 history, bounds>>

Sleep ==
  /\ awake /\ worker = Idle /\ priority = <<>> /\ normal = <<>>
  /\ awake' = FALSE
  /\ UNCHANGED <<row, lanes, worker, active, safety,
                 history, bounds>>

Pops(c) ==
  \/ /\ priority # <<>> /\ c = Head(priority)
     /\ priority' = Tail(priority) /\ UNCHANGED normal
  \/ /\ priority = <<>> /\ normal # <<>> /\ c = Head(normal)
     /\ normal' = Tail(normal) /\ UNCHANGED priority

Take(c) ==
  /\ awake /\ worker = Idle
  /\ Pops(c)
  /\ queuedIds' = queuedIds \ {c}
  /\ row' = [row EXCEPT ![c].state = "RUNNING"]
  /\ runs' = [runs EXCEPT ![c] = @ + 1]
  /\ worker' = [cmd |-> c, todo |-> row[c].targets, rejected |-> FALSE]
  /\ UNCHANGED <<wake, awake, active, safety, acked,
                 orphans, bounds>>

ConcludeUntracked(c, rejected) ==
  /\ row' = IF row[c].op = "stop" /\ ~rejected THEN row
            ELSE [row EXCEPT ![c].state = IF rejected THEN "FAILED" ELSE "SUCCEEDED"]
  /\ UNCHANGED active

ConcludeAnyStop(c, rejected) ==
  IF row[c].op = "stop" THEN active' = active \cup {c} /\ UNCHANGED row
  ELSE /\ row' = [row EXCEPT ![c].state = IF rejected THEN "FAILED" ELSE "SUCCEEDED"]
       /\ UNCHANGED active

(* Acknowledged stops stay RUNNING until refresh_stops concludes them.     *)
Conclude(c, rejected) ==
  IF row[c].op = "stop" /\ ~rejected
  THEN active' = active \cup {c} /\ UNCHANGED row
  ELSE /\ row' = [row EXCEPT ![c].state = IF rejected THEN "FAILED" ELSE "SUCCEEDED"]
       /\ UNCHANGED active

(* An answer that misses the 2 s of the adapter, and an exception, count   *)
(* as a refusal.                                                           *)
Answered(accepted) ==
  LET c == worker.cmd
      r == NextTarget(worker.todo)
      rejected == worker.rejected \/ ~accepted
      left == worker.todo \ {r} IN
  /\ worker.todo # {}
  /\ acked' = IF accepted THEN [acked EXCEPT ![c] = @ \cup {r}] ELSE acked
  /\ IF left = {}
     THEN worker' = Idle /\ Conclude(c, rejected)
     ELSE /\ worker' = [worker EXCEPT !.todo = left, !.rejected = rejected]
          /\ UNCHANGED <<row, active>>
  /\ UNCHANGED <<lanes, awake, safety, runs, orphans,
                 bounds>>

(* A mission or formation handler ran to its end or raised.                *)
HandlerReturns(accepted) ==
  /\ worker.cmd # NoCommand /\ row[worker.cmd].op = "mission"
  /\ row' = [row EXCEPT ![worker.cmd].state = IF accepted THEN "SUCCEEDED" ELSE "FAILED"]
  /\ worker' = Idle
  /\ UNCHANGED <<lanes, awake, active, safety, history,
                 bounds>>

WorkerStep ==
  \/ Wake \/ Sleep
  \/ \E c \in Command : Take(c)
  \/ \E accepted \in BOOLEAN : Answered(accepted) \/ HandlerReturns(accepted)

(***************************************************************************)
(* The tick: refresh_stops observes both robots and concludes the stops    *)
(* whose robots are all CONFIRMED, or all CONFIRMED or UNCONFIRMED.  The   *)
(* telemetry shows any robots at rest: it may be late or missing.  Of the  *)
(* robots that were at rest at an earlier tick, some have been for 0.5 s.  *)
(* The awaits of the tick only delay the next one.                         *)
(***************************************************************************)
Observed(shown, long) ==
  [r \in Robot |->
     IF requested[r] = "no" THEN stable[r]
     ELSE IF r \notin shown THEN "no"
     ELSE IF stable[r] = "no" THEN "since"
     ELSE IF r \in long THEN "long" ELSE stable[r]]

Confirmed(r) == stable[r] = "long"
Succeeds(c) == \A r \in row[c].targets : Confirmed(r)'
TimesOutTogether(c) ==
  \A r \in row[c].targets : ~Confirmed(r)' /\ requested[r] = "overdue"

TimesOut(c) ==
  ~Succeeds(c) /\ \A r \in row[c].targets : Confirmed(r)' \/ requested[r] = "overdue"

RefreshStops ==
  /\ \E shown, long \in SUBSET Robot : stable' = Observed(shown, long)
  /\ row' = [c \in Command |->
               IF c \in active /\ Succeeds(c) THEN [row[c] EXCEPT !.state = "SUCCEEDED"]
               ELSE IF c \in active /\ TimesOut(c) THEN [row[c] EXCEPT !.state = "TIMED_OUT"]
               ELSE row[c]]
  /\ active' = {c \in active : ~Succeeds(c) /\ ~TimesOut(c)}
  /\ UNCHANGED <<lanes, awake, worker, requested, history,
                 bounds>>

(***************************************************************************)
(* Time and a restart.                                                     *)
(***************************************************************************)
DeadlinePasses(r) ==
  /\ requested[r] = "pending" /\ requested' = [requested EXCEPT ![r] = "overdue"]
  /\ UNCHANGED <<row, lanes, execution, stable, history, bounds>>

Restart ==
  /\ restarts < MaxRestarts /\ restarts' = restarts + 1
  /\ normal' = <<>> /\ priority' = <<>> /\ queuedIds' = {} /\ active' = {}
  /\ wake' = FALSE /\ awake' = FALSE /\ worker' = Idle
  /\ requested' = Blank("no") /\ stable' = Blank("no")
  /\ orphans' = {c \in Command : row[c].state \in Unfinished}
  /\ UNCHANGED <<row, runs, acked, requests>>

Next ==
  \/ Operator \/ WorkerStep \/ RefreshStops
  \/ \E r \in Robot : DeadlinePasses(r)
  \/ Restart

Spec == Init /\ [][Next]_vars

(* The worker is a coroutine that the event loop resumes: an adapter call  *)
(* answers or gives up after 2 s, a handler returns (CommandsFinish of     *)
(* MissionFormation).  The tick runs every 50 ms and time passes.          *)
Fairness ==
  /\ WF_vars(WorkerStep) /\ WF_vars(RefreshStops)
  /\ \A r \in Robot : WF_vars(DeadlinePasses(r))

FairSpec == Spec /\ Fairness
-----------------------------------------------------------------------------
TypeOK ==
  /\ row \in [Command -> Row]
  /\ normal \in Seq(Command) /\ priority \in Seq(Command)
  /\ queuedIds \subseteq Command /\ active \subseteq Command
  /\ wake \in BOOLEAN /\ awake \in BOOLEAN
  /\ worker \in [cmd : Command \cup {NoCommand}, todo : SUBSET Robot, rejected : BOOLEAN]
  /\ requested \in [Robot -> {"no", "pending", "overdue"}]
  /\ stable \in [Robot -> {"no", "since", "long"}]
  /\ runs \in [Command -> Nat] /\ acked \in [Command -> SUBSET Robot]
  /\ orphans \subseteq Command
  /\ requests \in 0..MaxRequests /\ restarts \in 0..MaxRestarts
  /\ Len(normal) <= QueueLimit

Waiting == {normal[i] : i \in 1..Len(normal)} \cup {priority[i] : i \in 1..Len(priority)}

(* Idempotent requests: however often a request is repeated, and whatever  *)
(* restarts lie between, its command is executed at most once.             *)
ExecutedOnce == \A c \in Command : runs[c] <= 1

(* The rows and the executions are a CommandJournal: repeated requests, a  *)
(* full lane, stops that are concluded later and restarts take back        *)
(* nothing that was promised.                                              *)
Journal == INSTANCE CommandJournal WITH
  journal <- [c \in Command |-> row[c].state],
  executed <- {c \in Command : runs[c] > 0}

JournalKept == Journal!Spec

(* The lanes, _queued_ids and the rows agree: a command waits in exactly   *)
(* one place of one lane when its row is ACCEPTED, and a row that no lane  *)
(* holds was left behind by a restart.                                     *)
LanesMatchRows ==
  /\ Waiting = queuedIds
  /\ \A c \in Command :
       c \in queuedIds <=> row[c].state = "ACCEPTED" /\ c \notin orphans

(* A RUNNING command is in the worker's hands or waits for its stop to be  *)
(* confirmed, unless a restart took it from both.                          *)
RunningIsOwned ==
  \A c \in Command :
    row[c].state = "RUNNING" /\ c \notin orphans
      <=> c = worker.cmd \/ c \in active

(* A stop that one of its robots refused or did not answer in time is not  *)
(* reported as succeeded, nor as one that only waits for its confirmation. *)
NoFalseSuccess ==
  \A c \in Command :
    row[c].op = "stop" /\ row[c].state \in {"SUCCEEDED", "TIMED_OUT"}
      => acked[c] = row[c].targets

(* Every command comes to an end, a stop also when its robot is never seen *)
(* at rest, unless the server restarts.                                    *)
CommandsConclude ==
  \A c \in Command :
    row[c].state \in Unfinished /\ c \notin orphans
      ~> row[c].state \notin Unfinished \/ c \in orphans
=============================================================================
