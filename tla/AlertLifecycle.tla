--------------------------- MODULE AlertLifecycle ---------------------------
(***************************************************************************)
(* AlertService with what it reads and what it triggers: the ages that     *)
(* StateStore turns into ONLINE, STALE and OFFLINE, one durable alert per  *)
(* code and robot, the timers that keep it from flapping, the              *)
(* acknowledgement, and the reaction of runtime_tick, which stops the      *)
(* formation once for every alert that becomes active.  The model follows  *)
(* one robot: alerts of different robots share nothing.  Time passes in    *)
(* units; every timer is the time since it was set, and saturates.  What   *)
(* the stop itself goes through is MissionFormation's; here it is one step *)
(* of a formation that is driving, stopping or standing.  Of the codes the *)
(* connection and the battery are here, and the report of a refused stop;  *)
(* poses, transforms, sensors, the follower and refused commands go through *)
(* the same _condition with the delays of COMMUNICATION_LOSS.              *)
(***************************************************************************)
EXTENDS Integers, FiniteSets

CONSTANTS
  Codes,         \* the codes evaluated on every tick
  StaleAfter,    \* silence after which the connection counts as STALE
  OfflineAfter,  \* silence after which it counts as OFFLINE
  ClearAfter,    \* how long an ordinary condition must be gone
  BatteryAfter,  \* how long a battery must be low, or recovered
  MaxRestarts    \* bound: restarts of the server

Stopping == {"COMMUNICATION_LOSS", "COMMUNICATION_STALE", "BATTERY_CRITICAL"}
Unconfirmed == "PROTECTIVE_STOP_UNCONFIRMED"

ASSUME CodesAssumption == Codes \subseteq Stopping
ASSUME TimesAssumption ==
  /\ StaleAfter \in Nat /\ OfflineAfter \in Nat /\ StaleAfter < OfflineAfter
  /\ ClearAfter \in Nat /\ BatteryAfter \in Nat
  /\ MaxRestarts \in Nat

VARIABLES
  link,      \* the rosbridge connection of the robot
  age,       \* time since its last message
  battery,   \* low, high, or unclear: between the limits, stale or missing
  marked,    \* the robot is in StateStore.disconnected
  alert,     \* AlertService._alerts
  row,       \* the table alerts
  active,    \* AlertService._active_since, as an age
  clearing,  \* AlertService._clear_since, as an age
  seen,      \* what the ticks saw of a condition, and for how long (ghost)
  motion,    \* what the formation does
  masked,    \* alerts that are ACTIVE since before it drove (ghost)
  restarts

robot == <<link, age, battery, marked>>
timers == <<active, clearing, seen>>
vars == <<robot, alert, row, timers, motion, masked, restarts>>

Key == Codes \cup {Unconfirmed}
Battery == {"low", "unclear", "high"}
Off == -1

(* The delays of a code.  Only a battery has to be low for a while, and no  *)
(* timer needs to count further than the delay of its code.                *)
ActivateDelay(c) == IF c = "BATTERY_CRITICAL" THEN BatteryAfter ELSE 0
ClearDelay(c) == IF c = "BATTERY_CRITICAL" THEN BatteryAfter ELSE ClearAfter

Older(c, t) == IF t = Off \/ t = ClearDelay(c) THEN t ELSE t + 1

NoAlert == [state |-> "NONE", acked |-> FALSE]
Raised == [state |-> "ACTIVE", acked |-> FALSE]

TypeOK ==
  /\ link \in {"up", "down"} /\ age \in 0..OfflineAfter + 1
  /\ battery \in Battery
  /\ marked \in BOOLEAN
  /\ alert \in [Key -> [state : {"NONE", "ACTIVE", "RESOLVED"},
                        acked : BOOLEAN]]
  /\ row \in [Key -> [state : {"NONE", "ACTIVE", "RESOLVED"},
                      acked : BOOLEAN]]
  /\ active \in [Codes -> Int] /\ clearing \in [Codes -> Int]
  /\ seen \in [Codes -> [bad : BOOLEAN, for : Int]]
  /\ \A c \in Codes : /\ {active[c], clearing[c]} \subseteq Off..ClearDelay(c)
                     /\ seen[c].for \in 0..ClearDelay(c)
  /\ motion \in {"driving", "stopping", "standing"}
  /\ masked \subseteq Codes
  /\ restarts \in 0..MaxRestarts
-----------------------------------------------------------------------------
(* What a snapshot says of the robot.                                      *)

(* StateStore._offline and _fresh_robot *)
Connection ==
  IF marked \/ link = "down" \/ age > OfflineAfter THEN "OFFLINE"
  ELSE IF age > StaleAfter THEN "STALE" ELSE "ONLINE"

PoseFresh == ~marked /\ link = "up" /\ age <= StaleAfter

(* A mark hides the battery as well: its freshness becomes UNKNOWN, which  *)
(* is evidence of neither a low nor a recovered battery.                   *)
BatteryShown == IF marked THEN "unclear" ELSE battery

(* The conditions of evaluate *)
Bad(c) ==
  \/ c = "COMMUNICATION_LOSS" /\ Connection = "OFFLINE"
  \/ c = "COMMUNICATION_STALE" /\ Connection = "STALE"
  \/ c = "BATTERY_CRITICAL" /\ BatteryShown = "low"

(* clear_when: a battery has recovered only above 25 percent *)
MayClear(c) == c = "BATTERY_CRITICAL" => BatteryShown = "high"

IsActive(c) == alert[c].state = "ACTIVE"
-----------------------------------------------------------------------------
Init ==
  /\ link = "down" /\ age = 0
  /\ battery = "unclear" /\ marked = FALSE
  /\ alert = [c \in Key |-> NoAlert] /\ row = alert
  /\ active = [c \in Codes |-> Off] /\ clearing = active
  /\ seen = [c \in Codes |-> [bad |-> FALSE, for |-> 0]]
  /\ motion = "standing" /\ masked = {} /\ restarts = 0

(* The robot, its battery and its connection; time. *)
Connect ==
  /\ link = "down" /\ link' = "up"
  /\ UNCHANGED <<age, battery, marked, alert, row, timers, motion, masked,
                 restarts>>

Disconnect ==
  /\ link = "up" /\ link' = "down"
  /\ age' = 0 /\ battery' = "unclear"
  /\ UNCHANGED <<marked, alert, row, timers, motion, masked, restarts>>

Hear ==
  /\ link = "up" /\ age' = 0
  /\ battery' \in Battery
  /\ UNCHANGED <<link, marked, alert, row, timers, motion, masked, restarts>>

Pass ==
  /\ age' = IF link = "up" /\ age <= OfflineAfter THEN age + 1 ELSE age
  /\ battery' \in {battery, "unclear"}
  /\ active' = [c \in Codes |-> Older(c, active[c])]
  /\ clearing' = [c \in Codes |-> Older(c, clearing[c])]
  /\ seen' = [c \in Codes |-> [seen[c] EXCEPT !.for = Older(c, @)]]
  /\ UNCHANGED <<link, marked, alert, row, motion, masked, restarts>>

(* main.protective_stop marks the robot and nothing takes the mark back:   *)
(* from now on a snapshot shows it OFFLINE and its battery UNKNOWN;        *)
(* the mission is told nothing, it learns of the stop from the alert.      *)
Mark ==
  /\ ~marked /\ marked' = TRUE
  /\ UNCHANGED <<link, age, battery, alert, row, timers, motion, masked,
                 restarts>>
-----------------------------------------------------------------------------
(* _condition *)
Started(c) == IF active[c] = Off THEN 0 ELSE active[c]

(* Mutant: every evaluation restarts the timer. *)
ClearedSinceNow(c) == 0

Cleared(c) == IF clearing[c] = Off THEN 0 ELSE clearing[c]

Activates(c) == Bad(c) /\ ~IsActive(c) /\ Started(c) >= ActivateDelay(c)
Clears(c) == ~Bad(c) /\ IsActive(c) /\ MayClear(c)
Resolves(c) == Clears(c) /\ Cleared(c) >= ClearDelay(c)

AlertNext(c) ==
  IF Activates(c) THEN Raised
  ELSE IF Resolves(c) THEN [alert[c] EXCEPT !.state = "RESOLVED"]
  ELSE alert[c]

(* Mutant: a condition that is gone does not reset the timer. *)
ActiveKept(c) == IF Bad(c) /\ ~IsActive(c) THEN Started(c) ELSE active[c]

ActiveNext(c) == IF Bad(c) /\ ~IsActive(c) THEN Started(c) ELSE Off

ClearingNext(c) ==
  IF Bad(c) \/ Resolves(c) THEN Off
  ELSE IF Clears(c) THEN Cleared(c) ELSE clearing[c]

Writes(c) == Activates(c) \/ (Bad(c) /\ IsActive(c)) \/ Resolves(c)

(* runtime_tick: evaluate, then a protective pause for every new alert that *)
(* makes motion unsafe, and an alert of its own when a stop is refused.    *)
(* Mutant: the alerts that took their time are forgotten. *)
NewOrdinary == {c \in Codes \cap Stopping : Activates(c) /\ ActivateDelay(c) = 0}

New == {c \in Codes \cap Stopping : Activates(c)}

Tick ==
  \E refused \in BOOLEAN :
    LET reports == refused /\ New # {}
        next == [c \in Key |->
          IF c # Unconfirmed THEN AlertNext(c)
          ELSE IF reports /\ ~IsActive(c) THEN Raised ELSE alert[c]]
    IN /\ alert' = next
       /\ row' = [c \in Key |->
            IF (IF c = Unconfirmed THEN reports ELSE Writes(c))
            THEN next[c] ELSE row[c]]
       /\ active' = [c \in Codes |-> ActiveNext(c)]
       /\ clearing' = [c \in Codes |-> ClearingNext(c)]
       /\ seen' = [c \in Codes |->
            IF seen[c].bad = Bad(c) THEN seen[c]
            ELSE [bad |-> Bad(c), for |-> 0]]
       /\ motion' = IF New # {} /\ motion = "driving" THEN "stopping"
                    ELSE motion
       /\ masked' = {c \in masked : next[c].state = "ACTIVE"}
       /\ UNCHANGED <<robot, restarts>>

(* acknowledge_alert *)
Acknowledged(c) ==
  /\ row[c].state # "NONE"
  /\ row' = [row EXCEPT ![c].acked = TRUE]

(* Mutant: the memory does not follow. *)
AcknowledgeRow(c) ==
  /\ Acknowledged(c)
  /\ UNCHANGED <<robot, alert, timers, motion, masked, restarts>>

(* acknowledge: the row decides, the memory follows. *)
Acknowledge(c) ==
  /\ Acknowledged(c)
  /\ alert' = [alert EXCEPT ![c] = row'[c]]
  /\ UNCHANGED <<robot, timers, motion, masked, restarts>>
-----------------------------------------------------------------------------
(* The formation, as far as alerts matter: starting and resuming look at   *)
(* the formation's state, never at the alerts.                             *)
Drive ==
  /\ motion = "standing" /\ link = "up" /\ motion' = "driving"
  /\ masked' = {c \in Codes : IsActive(c)}
  /\ UNCHANGED <<robot, alert, row, timers, restarts>>

Halt ==
  /\ motion = "driving" /\ motion' \in {"stopping", "standing"}
  /\ UNCHANGED <<robot, alert, row, timers, masked, restarts>>

StopConfirmed ==
  /\ motion = "stopping" /\ PoseFresh /\ motion' = "standing"
  /\ UNCHANGED <<robot, alert, row, timers, masked, restarts>>

(* A new AlertService reads the rows; timers, marks and the formation go.  *)
Restart ==
  /\ restarts < MaxRestarts /\ restarts' = restarts + 1
  /\ alert' = row
  /\ active' = [c \in Codes |-> Off] /\ clearing' = active'
  /\ seen' = [c \in Codes |-> [bad |-> FALSE, for |-> 0]]
  /\ marked' = FALSE /\ motion' = "standing" /\ masked' = {}
  /\ link' = "down" /\ age' = 0 /\ battery' = "unclear"
  /\ UNCHANGED row

Next ==
  \/ Connect \/ Disconnect \/ Hear \/ Pass \/ Mark
  \/ Tick
  \/ \E c \in Key : Acknowledge(c)
  \/ Drive \/ Halt \/ StopConfirmed
  \/ Restart

Spec == Init /\ [][Next]_vars

(* The watchdog task ticks for ever, and time passes.                      *)
FairSpec == Spec /\ WF_vars(Tick) /\ WF_vars(Pass)
-----------------------------------------------------------------------------
(* A condition becomes an alert only after every tick saw it for its whole *)
(* delay, and an alert is resolved only after no tick saw the condition for *)
(* its whole delay: observations that come and go restart the timers, and  *)
(* so do acknowledgements, disconnects and restarts in between.            *)
AlertsNeedTime ==
  [][\A c \in Codes :
       /\ alert[c].state # "ACTIVE" /\ alert'[c].state = "ACTIVE" =>
            seen'[c].bad /\ seen'[c].for >= ActivateDelay(c)
       /\ alert[c].state = "ACTIVE" /\ alert'[c].state # "ACTIVE" =>
            ~seen'[c].bad /\ seen'[c].for >= ClearDelay(c)]_vars

(* What an operator acknowledged stays acknowledged in the table until the *)
(* alert was resolved and came back, whatever the ticks write in between.  *)
AckSurvives ==
  [][\A c \in Key : row[c].acked /\ ~row'[c].acked =>
       row[c].state = "RESOLVED" /\ row'[c].state = "ACTIVE"]_vars

(* The formation drives on through an alert that makes motion unsafe only  *)
(* if that alert is ACTIVE since before it drove: alerts are reported when *)
(* they begin, nothing looks at the ones that last.                        *)
DrivenThrough ==
  motion = "driving" =>
    \A c \in Codes :
      IsActive(c) \/ (seen[c].bad /\ ActivateDelay(c) = 0) => c \in masked

(* A condition that is seen to stay is raised for good, one that is seen   *)
(* gone for good is resolved: no order of ticks and messages keeps a timer *)
(* from running out.  Nothing is promised for the battery of a marked      *)
(* robot, which is seen neither low nor recovered.                         *)
AlertsConclude ==
  \A c \in Codes :
    /\ <>[]Bad(c) => <>[]IsActive(c)
    /\ <>[](~Bad(c) /\ MayClear(c)) => <>[](~IsActive(c))

(* docs/01-requirements.md: when communication is lost the formation       *)
(* mission pauses.  A loss that begins before the alert of an earlier one  *)
(* is resolved raises nothing, and the mission drives on.                  *)
LossPausesMission ==
  [][\A c \in Codes \cap {"COMMUNICATION_LOSS"} :
       motion = "driving" /\ ~seen[c].bad /\ seen'[c].bad /\ ~marked =>
         motion' # "driving"]_vars
=============================================================================
