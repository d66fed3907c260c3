------------------------ MODULE AlertLifecycle_proofs ------------------------
(***************************************************************************)
(* The life of alerts for any delays, codes and number of restarts.  The   *)
(* two timers of a code are never ahead of what the ticks saw (TimersLag): *)
(* this makes an elapsed timer mean that the condition held, or was gone,  *)
(* for its whole delay.  That the table and the memory agree (RowIsAlert)  *)
(* makes acknowledgements and restarts harmless.                           *)
(***************************************************************************)
EXTENDS AlertLifecycle, TLAPS

(* A timer that runs was set by a tick that saw the condition, or saw it   *)
(* gone, and no tick has seen otherwise since.                             *)
TimersLag ==
  \A c \in Codes :
    /\ active[c] # Off => seen[c].bad /\ active[c] <= seen[c].for
    /\ clearing[c] # Off => ~seen[c].bad /\ clearing[c] <= seen[c].for

(* The memory of the service and the table say the same.                   *)
RowIsAlert == row = alert

(* Only an alert that was raised can be acknowledged.                      *)
AckedWasRaised == \A c \in Key : alert[c].acked => alert[c].state # "NONE"

(* What needs no time is reported as soon as a tick sees it.               *)
SeenIsReported ==
  \A c \in Codes : seen[c].bad /\ ActivateDelay(c) = 0 => IsActive(c)

Inv ==
  /\ TypeOK /\ TimersLag /\ RowIsAlert /\ AckedWasRaised /\ SeenIsReported
  /\ DrivenThrough

AlertType == [state : {"NONE", "ACTIVE", "RESOLVED"}, acked : BOOLEAN]

(* Delays are natural numbers.                                             *)
LEMMA DelaysAreNat ==
  ASSUME NEW c \in Codes
  PROVE  ActivateDelay(c) \in Nat /\ ClearDelay(c) \in Nat
BY TimesAssumption DEF ActivateDelay, ClearDelay

(* Every evaluated code stops motion, and Unconfirmed is none of them.     *)
LEMMA CodesStop == Codes \cap Stopping = Codes /\ Unconfirmed \notin Codes
BY CodesAssumption DEF Stopping, Unconfirmed

(* The initial state satisfies the invariant.                              *)
LEMMA InitInv == Init => Inv
<1> SUFFICES ASSUME Init PROVE Inv
  OBVIOUS
<1>1. age \in 0..OfflineAfter + 1 /\ restarts \in 0..MaxRestarts
  BY TimesAssumption DEF Init
<1>2. \A c \in Codes : /\ active[c] = Off /\ clearing[c] = Off
                       /\ seen[c] = [bad |-> FALSE, for |-> 0]
  BY DEF Init
<1>3. active \in [Codes -> Int] /\ clearing \in [Codes -> Int]
  BY DEF Init, Off
<1>4. seen \in [Codes -> [bad : BOOLEAN, for : Int]]
  BY DEF Init
<1>5. \A c \in Codes : /\ {active[c], clearing[c]} \subseteq Off..ClearDelay(c)
                       /\ seen[c].for \in 0..ClearDelay(c)
  BY <1>2, DelaysAreNat DEF Off
<1>6. alert \in [Key -> AlertType] /\ row = alert
  BY DEF Init, NoAlert, AlertType
<1>7. TypeOK
  BY <1>1, <1>3, <1>4, <1>5, <1>6 DEF Init, TypeOK, Battery, AlertType
<1>8. TimersLag /\ SeenIsReported
  BY <1>2 DEF TimersLag, SeenIsReported
<1>9. RowIsAlert /\ AckedWasRaised /\ DrivenThrough
  BY <1>6 DEF Init, NoAlert, RowIsAlert, AckedWasRaised, DrivenThrough
<1> QED BY <1>7, <1>8, <1>9 DEF Inv

(* Time moves the timers of a code and what the ticks saw alike.           *)
LEMMA OlderIsMonotone ==
  ASSUME NEW c \in Codes, NEW s \in Off..ClearDelay(c), NEW t \in 0..ClearDelay(c)
  PROVE  /\ Older(c, s) \in Off..ClearDelay(c) /\ Older(c, t) \in 0..ClearDelay(c)
         /\ Older(c, s) = Off <=> s = Off
         /\ s <= t => Older(c, s) <= Older(c, t)
BY DelaysAreNat DEF Older, Off

(* Time preserves the invariant.                                           *)
LEMMA PassKeepsInv == Inv /\ Pass => Inv'
<1> SUFFICES ASSUME Inv, Pass PROVE Inv'
  OBVIOUS
<1> USE DEF Inv, Pass
<1>1. ASSUME NEW c \in Codes
      PROVE  /\ active'[c] = Older(c, active[c]) /\ clearing'[c] = Older(c, clearing[c])
             /\ seen'[c].bad = seen[c].bad /\ seen'[c].for = Older(c, seen[c].for)
             /\ active[c] \in Off..ClearDelay(c) /\ clearing[c] \in Off..ClearDelay(c)
             /\ seen[c].for \in 0..ClearDelay(c)
             /\ seen'[c] \in [bad : BOOLEAN, for : {Older(c, seen[c].for)}]
  BY DEF TypeOK
<1>2. ASSUME NEW c \in Codes
      PROVE  /\ {active'[c], clearing'[c]} \subseteq Off..ClearDelay(c)
             /\ seen'[c].for \in 0..ClearDelay(c)
  BY <1>1, OlderIsMonotone
<1>3. active' \in [Codes -> Int] /\ clearing' \in [Codes -> Int]
  BY <1>1, <1>2, DelaysAreNat DEF Off
<1>4. seen' \in [Codes -> [bad : BOOLEAN, for : Int]]
  <2>1. \A c \in Codes : seen'[c] \in [bad : BOOLEAN, for : Int]
    BY <1>1, <1>2, DelaysAreNat
  <2> QED BY <2>1
<1>5. age' \in 0..OfflineAfter + 1
  BY TimesAssumption DEF TypeOK
<1>6. TypeOK'
  BY <1>2, <1>3, <1>4, <1>5 DEF TypeOK, Battery
<1>7. TimersLag'
  BY <1>1, OlderIsMonotone DEF TimersLag
<1>8. SeenIsReported' /\ DrivenThrough'
  BY <1>1 DEF SeenIsReported, DrivenThrough, IsActive
<1> QED BY <1>6, <1>7, <1>8 DEF RowIsAlert, AckedWasRaised

(* What a tick does to the alert of a code.                                *)
LEMMA TickOfCode ==
  ASSUME Inv, Tick, NEW c \in Codes
  PROVE  /\ alert'[c] = AlertNext(c) /\ row'[c] = alert'[c]
         /\ alert[c] \in AlertType /\ alert'[c] \in AlertType
<1> USE DEF Inv
<1>1. c \in Key /\ c # Unconfirmed
  BY CodesStop DEF Key
<1>2. PICK refused \in BOOLEAN :
        /\ alert'[c] = AlertNext(c)
        /\ row'[c] = IF Writes(c) THEN AlertNext(c) ELSE row[c]
  BY <1>1 DEF Tick
<1>3. row'[c] = alert'[c]
  BY <1>1, <1>2 DEF RowIsAlert, Writes, AlertNext
<1>4. alert[c] \in AlertType
  BY <1>1 DEF TypeOK, AlertType
<1>5. alert'[c] \in AlertType
  BY <1>2, <1>4 DEF AlertNext, Raised, AlertType
<1> QED BY <1>2, <1>3, <1>4, <1>5

(* What it does to the timers of the code.                                 *)
LEMMA TickOfTimers ==
  ASSUME Inv, Tick, NEW c \in Codes
  PROVE  /\ active'[c] = ActiveNext(c) /\ clearing'[c] = ClearingNext(c)
         /\ Started(c) \in 0..ClearDelay(c) /\ Cleared(c) \in 0..ClearDelay(c)
         /\ active'[c] \in Off..ClearDelay(c) /\ clearing'[c] \in Off..ClearDelay(c)
<1>1. active'[c] = ActiveNext(c) /\ clearing'[c] = ClearingNext(c)
  BY DEF Tick
<1>2. active[c] \in Off..ClearDelay(c) /\ clearing[c] \in Off..ClearDelay(c)
  BY DEF Inv, TypeOK
<1>3. Started(c) \in 0..ClearDelay(c) /\ Cleared(c) \in 0..ClearDelay(c)
  BY <1>2, DelaysAreNat DEF Started, Cleared, Off
<1>4. active'[c] \in Off..ClearDelay(c) /\ clearing'[c] \in Off..ClearDelay(c)
  BY <1>1, <1>2, <1>3, DelaysAreNat DEF ActiveNext, ClearingNext, Off
<1> QED BY <1>1, <1>3, <1>4

(* What it sees of the condition.                                          *)
LEMMA TickOfSeen ==
  ASSUME Inv, Tick, NEW c \in Codes
  PROVE  /\ seen'[c].bad <=> Bad(c)
         /\ (seen[c].bad <=> Bad(c)) => seen'[c] = seen[c]
         /\ seen'[c] \in [bad : BOOLEAN, for : Int] /\ seen'[c].for \in 0..ClearDelay(c)
<1>1. seen'[c] = IF seen[c].bad = Bad(c) THEN seen[c] ELSE [bad |-> Bad(c), for |-> 0]
  BY DEF Tick
<1>2. seen[c] \in [bad : BOOLEAN, for : Int] /\ seen[c].for \in 0..ClearDelay(c)
  BY DEF Inv, TypeOK
<1>3. Bad(c) \in BOOLEAN
  BY DEF Bad
<1> QED BY <1>1, <1>2, <1>3, DelaysAreNat

(* A tick that activates an alert saw its condition for the whole delay,   *)
(* one that resolves it saw none for the whole delay.                      *)
LEMMA TickNeedsTime ==
  ASSUME Inv, Tick, NEW c \in Codes
  PROVE  /\ active'[c] # Off => seen'[c].bad /\ active'[c] <= seen'[c].for
         /\ clearing'[c] # Off => ~seen'[c].bad /\ clearing'[c] <= seen'[c].for
         /\ Activates(c) => seen'[c].bad /\ seen'[c].for >= ActivateDelay(c)
         /\ Resolves(c) => ~seen'[c].bad /\ seen'[c].for >= ClearDelay(c)
<1>1. /\ active[c] # Off => seen[c].bad /\ active[c] <= seen[c].for
      /\ clearing[c] # Off => ~seen[c].bad /\ clearing[c] <= seen[c].for
  BY DEF Inv, TimersLag
<1>2. seen'[c].for \in Int /\ 0 <= seen'[c].for
  BY TickOfSeen, DelaysAreNat
<1>3. ASSUME Bad(c) PROVE seen'[c].bad /\ Started(c) <= seen'[c].for
  <2>1. CASE active[c] = Off
    BY <1>2, <1>3, <2>1, TickOfSeen DEF Started
  <2>2. CASE active[c] # Off
    <3>1. seen'[c] = seen[c]
      BY <1>1, <1>3, <2>2, TickOfSeen
    <3> QED BY <1>1, <2>2, <3>1 DEF Started
  <2> QED BY <2>1, <2>2
<1>4. ASSUME ~Bad(c)
      PROVE  /\ ~seen'[c].bad /\ Cleared(c) <= seen'[c].for
             /\ clearing[c] # Off => clearing[c] <= seen'[c].for
  <2>1. CASE clearing[c] = Off
    BY <1>2, <1>4, <2>1, TickOfSeen DEF Cleared
  <2>2. CASE clearing[c] # Off
    <3>1. seen'[c] = seen[c]
      BY <1>1, <1>4, <2>2, TickOfSeen
    <3> QED BY <1>1, <2>2, <3>1 DEF Cleared
  <2> QED BY <2>1, <2>2
<1>5. /\ Started(c) \in Int /\ Cleared(c) \in Int
      /\ ActivateDelay(c) \in Int /\ ClearDelay(c) \in Int
  BY TickOfTimers, DelaysAreNat
<1>6. active'[c] # Off => seen'[c].bad /\ active'[c] <= seen'[c].for
  BY <1>3, TickOfTimers DEF ActiveNext
<1>7. clearing'[c] # Off => ~seen'[c].bad /\ clearing'[c] <= seen'[c].for
  BY <1>4, TickOfTimers DEF ClearingNext
<1>8. Activates(c) => seen'[c].bad /\ seen'[c].for >= ActivateDelay(c)
  BY <1>2, <1>3, <1>5 DEF Activates
<1>9. Resolves(c) => ~seen'[c].bad /\ seen'[c].for >= ClearDelay(c)
  BY <1>2, <1>4, <1>5 DEF Resolves, Clears
<1> QED BY <1>6, <1>7, <1>8, <1>9

(* The alert that reports refused stops.                                   *)
LEMMA TickOfReport ==
  ASSUME Inv, Tick
  PROVE  /\ row'[Unconfirmed] = alert'[Unconfirmed]
         /\ \/ alert'[Unconfirmed] = alert[Unconfirmed]
            \/ alert'[Unconfirmed] = Raised /\ ~IsActive(Unconfirmed)
BY DEF Inv, RowIsAlert, Tick, Key

(* The tick preserves the invariant.                                       *)
LEMMA TickKeepsInv == Inv /\ Tick => Inv'
<1> SUFFICES ASSUME Inv, Tick PROVE Inv'
  OBVIOUS
<1>1. Key = Codes \cup {Unconfirmed}
  BY DEF Key
<1>2. /\ DOMAIN alert' = Key /\ alert' = [c \in Key |-> alert'[c]]
      /\ row' = [c \in Key |-> row'[c]]
      /\ active' = [c \in Codes |-> active'[c]] /\ clearing' = [c \in Codes |-> clearing'[c]]
      /\ seen' = [c \in Codes |-> seen'[c]]
  BY DEF Tick
<1>3. \A c \in Key : row'[c] = alert'[c] /\ alert'[c] \in AlertType
  <2>1. alert[Unconfirmed] \in AlertType /\ Raised \in AlertType
    BY <1>1 DEF Inv, TypeOK, Raised, AlertType
  <2>2. alert'[Unconfirmed] \in AlertType
    BY <2>1, TickOfReport
  <2> QED BY <1>1, <2>2, TickOfCode, TickOfReport
<1>4. RowIsAlert' /\ alert' \in [Key -> AlertType] /\ row' \in [Key -> AlertType]
  BY <1>2, <1>3 DEF RowIsAlert
<1>5. active' \in [Codes -> Int] /\ clearing' \in [Codes -> Int]
  <2>1. \A c \in Codes : active'[c] \in Int /\ clearing'[c] \in Int
    BY TickOfTimers, DelaysAreNat DEF Off
  <2> QED BY <1>2, <2>1
<1>6. seen' \in [Codes -> [bad : BOOLEAN, for : Int]]
  <2>1. \A c \in Codes : seen'[c] \in [bad : BOOLEAN, for : Int]
    BY TickOfSeen
  <2> QED BY <1>2, <2>1
<1>7. /\ UNCHANGED <<link, age, battery, marked, restarts>>
      /\ motion' = IF New # {} /\ motion = "driving" THEN "stopping" ELSE motion
      /\ masked' = {c \in masked : alert'[c].state = "ACTIVE"}
  <2>1. masked \subseteq Key
    BY <1>1 DEF Inv, TypeOK
  <2> QED BY <2>1 DEF Tick, robot
<1>8. \A c \in Codes : /\ {active'[c], clearing'[c]} \subseteq Off..ClearDelay(c)
                       /\ seen'[c].for \in 0..ClearDelay(c)
  BY TickOfTimers, TickOfSeen
<1>9. TypeOK'
  BY <1>4, <1>5, <1>6, <1>7, <1>8 DEF Inv, TypeOK, AlertType
<1>10. TimersLag'
  BY TickNeedsTime DEF TimersLag
<1>11. AckedWasRaised'
  <2>1. \A c \in Codes : alert'[c].acked => alert'[c].state # "NONE"
    <3> TAKE c \in Codes
    <3>1. alert[c].acked => alert[c].state # "NONE"
      BY <1>1 DEF Inv, AckedWasRaised
    <3>2. CASE Activates(c)
      <4>1. alert'[c] = Raised
        BY <3>2, TickOfCode DEF AlertNext
      <4> QED BY <4>1 DEF Raised
    <3>3. CASE ~Activates(c) /\ Resolves(c)
      BY <3>3, TickOfCode DEF AlertNext, AlertType
    <3>4. CASE ~Activates(c) /\ ~Resolves(c)
      BY <3>1, <3>4, TickOfCode DEF AlertNext
    <3> QED BY <3>2, <3>3, <3>4
  <2>2. alert'[Unconfirmed].acked => alert'[Unconfirmed].state # "NONE"
    BY <1>1, TickOfReport DEF Inv, AckedWasRaised, Raised
  <2> QED BY <1>1, <2>1, <2>2 DEF AckedWasRaised
<1>12. ASSUME NEW c \in Codes, seen'[c].bad, ActivateDelay(c) = 0
       PROVE  IsActive(c)' /\ (Activates(c) \/ IsActive(c))
  <2>1. Bad(c) /\ Started(c) >= 0
    BY <1>12, TickOfSeen, TickOfTimers, DelaysAreNat
  <2>2. Activates(c) \/ IsActive(c)
    BY <1>12, <2>1 DEF Activates
  <2>3. AlertNext(c).state = "ACTIVE"
    BY <2>1, <2>2 DEF AlertNext, Raised, IsActive, Resolves, Clears
  <2> QED BY <2>2, <2>3, TickOfCode DEF IsActive
<1>13. SeenIsReported'
  BY <1>12 DEF SeenIsReported, ActivateDelay
<1>14. DrivenThrough'
  <2> SUFFICES ASSUME motion' = "driving", NEW c \in Codes,
                      IsActive(c)' \/ (seen'[c].bad /\ ActivateDelay(c) = 0)
               PROVE  c \in masked'
    BY DEF DrivenThrough, ActivateDelay
  <2>1. motion = "driving" /\ ~Activates(c)
    BY <1>7, CodesStop DEF New
  <2>2. IsActive(c)'
    BY <1>12
  <2>3. IsActive(c)
    <3>1. AlertNext(c).state = "ACTIVE"
      BY <2>2, TickOfCode DEF IsActive
    <3>2. CASE Resolves(c)
      BY <3>2 DEF Resolves, Clears
    <3>3. CASE ~Resolves(c)
      BY <2>1, <3>1, <3>3 DEF AlertNext, IsActive
    <3> QED BY <3>2, <3>3
  <2>4. c \in masked
    BY <2>1, <2>3 DEF Inv, DrivenThrough
  <2> QED BY <1>7, <2>2, <2>4 DEF IsActive
<1> QED BY <1>4, <1>9, <1>10, <1>11, <1>13, <1>14 DEF Inv

(* Acknowledging changes nothing but the mark of the acknowledgement.      *)
LEMMA AcknowledgeChangesMark ==
  ASSUME Inv, NEW c \in Key, Acknowledge(c)
  PROVE  /\ alert' = row' /\ alert' \in [Key -> AlertType]
         /\ \A d \in Key : alert'[d].state = alert[d].state
         /\ \A d \in Key : alert'[d].acked => alert[d].acked \/ alert[d].state # "NONE"
         /\ \A d \in Key : alert[d].acked => alert'[d].acked
<1> USE DEF Inv, Acknowledge, Acknowledged
<1>1. alert \in [Key -> AlertType] /\ row = alert
  BY DEF TypeOK, RowIsAlert, AlertType
<1>2. row' = [row EXCEPT ![c].acked = TRUE] /\ row[c].state # "NONE"
  OBVIOUS
<1>3. row' \in [Key -> AlertType]
  BY <1>1, <1>2 DEF AlertType
<1>4. alert' = row'
  BY <1>1, <1>2, <1>3
<1> QED BY <1>1, <1>2, <1>3, <1>4 DEF AlertType

(* The alerts of an invariant state may be acknowledged.                   *)
LEMMA AcknowledgeKeepsInv ==
  ASSUME Inv, NEW c \in Key, Acknowledge(c)
  PROVE  Inv'
<1>1. UNCHANGED <<link, age, battery, marked, active, clearing, seen, motion, masked, restarts>>
  BY DEF Acknowledge, robot, timers
<1>2. TypeOK'
  BY <1>1, AcknowledgeChangesMark DEF Inv, TypeOK, AlertType
<1>3. \A d \in Codes : IsActive(d)' <=> IsActive(d)
  BY AcknowledgeChangesMark DEF IsActive, Key
<1>4. AckedWasRaised' /\ RowIsAlert'
  BY AcknowledgeChangesMark DEF Inv, AckedWasRaised, RowIsAlert
<1> QED
  BY <1>1, <1>2, <1>3, <1>4 DEF Inv, TimersLag, SeenIsReported, DrivenThrough, ActivateDelay

(* A new service knows what the old one wrote.                             *)
LEMMA RestartKeepsInv == Inv /\ Restart => Inv'
<1> SUFFICES ASSUME Inv, Restart PROVE Inv'
  OBVIOUS
<1>1. \A c \in Codes : /\ active'[c] = Off /\ clearing'[c] = Off
                       /\ seen'[c] = [bad |-> FALSE, for |-> 0]
  BY DEF Restart
<1>2. active' \in [Codes -> Int] /\ clearing' \in [Codes -> Int]
      /\ seen' \in [Codes -> [bad : BOOLEAN, for : Int]]
  BY DEF Restart, Off
<1>3. \A c \in Codes : /\ {active'[c], clearing'[c]} \subseteq Off..ClearDelay(c)
                       /\ seen'[c].for \in 0..ClearDelay(c)
  BY <1>1, DelaysAreNat DEF Off
<1>4. alert' = alert /\ row' = row
  BY DEF Restart, Inv, RowIsAlert
<1>5. age' \in 0..OfflineAfter + 1 /\ restarts' \in 0..MaxRestarts
  BY TimesAssumption DEF Restart, Inv, TypeOK
<1>6. TypeOK'
  BY <1>2, <1>3, <1>4, <1>5 DEF Restart, Inv, TypeOK, Battery
<1> QED
  BY <1>1, <1>4, <1>6 DEF Restart, Inv, TimersLag, RowIsAlert, AckedWasRaised,
     SeenIsReported, DrivenThrough

(* Every step preserves the invariant.                                     *)
LEMMA NextInv == Inv /\ [Next]_vars => Inv'
<1> SUFFICES ASSUME Inv, [Next]_vars PROVE Inv'
  OBVIOUS
<1>1. CASE Connect \/ Disconnect \/ Hear \/ Mark
  <2>1. UNCHANGED <<alert, row, active, clearing, seen, motion, masked, restarts>>
    BY <1>1 DEF Connect, Disconnect, Hear, Mark, timers
  <2>2. link' \in {"up", "down"} /\ battery' \in Battery /\ marked' \in BOOLEAN
    BY <1>1 DEF Inv, TypeOK, Connect, Disconnect, Hear, Mark, Battery
  <2>3. age' \in 0..OfflineAfter + 1
    BY <1>1, TimesAssumption DEF Inv, TypeOK, Connect, Disconnect, Hear, Mark
  <2>4. TypeOK'
    BY <2>1, <2>2, <2>3 DEF Inv, TypeOK
  <2> QED
    BY <2>1, <2>4 DEF Inv, TimersLag, RowIsAlert, AckedWasRaised, SeenIsReported, IsActive,
       DrivenThrough
<1>2. CASE Drive \/ Halt \/ StopConfirmed
  <2>1. UNCHANGED <<robot, alert, row, timers, restarts>>
    BY <1>2 DEF Drive, Halt, StopConfirmed
  <2>2. motion' \in {"driving", "stopping", "standing"} /\ masked' \subseteq Codes
    BY <1>2 DEF Inv, TypeOK, Drive, Halt, StopConfirmed
  <2>3. DrivenThrough'
    BY <1>2, <2>1 DEF Inv, DrivenThrough, SeenIsReported, Drive, Halt, StopConfirmed,
       IsActive, timers
  <2>4. TypeOK'
    BY <2>1, <2>2 DEF Inv, TypeOK, robot, timers
  <2> QED
    BY <2>1, <2>3, <2>4 DEF Inv, TimersLag, RowIsAlert, AckedWasRaised, SeenIsReported,
       IsActive, timers
<1>3. CASE UNCHANGED vars
  BY <1>3 DEF vars, robot, timers, Inv, TypeOK, TimersLag, RowIsAlert, AckedWasRaised,
     SeenIsReported, IsActive, DrivenThrough
<1> QED
  BY <1>1, <1>2, <1>3, PassKeepsInv, TickKeepsInv, AcknowledgeKeepsInv, RestartKeepsInv
     DEF Next

(* The invariant holds in every behaviour.                                 *)
THEOREM SpecInv == Spec => []Inv
<1> QED BY InitInv, NextInv, PTL DEF Spec

(* Types, for any delays and restarts: no timer leaves its range.          *)
THEOREM Typed == Spec => []TypeOK
<1>1. Inv => TypeOK
  BY DEF Inv
<1> QED BY <1>1, SpecInv, PTL

(* A formation drives only through alerts that are older than its drive.   *)
THEOREM NothingNewIsDrivenThrough == Spec => []DrivenThrough
<1>1. Inv => DrivenThrough
  BY DEF Inv
<1> QED BY <1>1, SpecInv, PTL

(* No step but a tick raises or resolves an alert.                         *)
LEMMA OnlyTicksChangeStates ==
  ASSUME Inv, [Next]_vars, ~Tick, NEW c \in Key
  PROVE  alert'[c].state = alert[c].state /\ (alert[c].acked => alert'[c].acked)
<1>1. CASE \E d \in Key : Acknowledge(d)
  BY <1>1, AcknowledgeChangesMark
<1>2. CASE ~(\E d \in Key : Acknowledge(d))
  <2>1. alert' = alert
    BY <1>2 DEF Inv, RowIsAlert, Next, Connect, Disconnect, Hear, Pass, Mark, Drive, Halt,
       StopConfirmed, Restart, vars
  <2> QED BY <2>1
<1> QED BY <1>1, <1>2

(* An alert is raised and resolved only by a condition that every tick saw *)
(* for its whole delay, whatever happened in between.                      *)
THEOREM NoAlertBeforeItsTime == Spec => AlertsNeedTime
<1> DEFINE Timely(c) ==
      /\ alert[c].state # "ACTIVE" /\ alert'[c].state = "ACTIVE" =>
           seen'[c].bad /\ seen'[c].for >= ActivateDelay(c)
      /\ alert[c].state = "ACTIVE" /\ alert'[c].state # "ACTIVE" =>
           ~seen'[c].bad /\ seen'[c].for >= ClearDelay(c)
<1>1. ASSUME Inv, [Next]_vars, NEW c \in Codes PROVE Timely(c)
  <2>1. CASE Tick
    <3>1. alert'[c].state # alert[c].state =>
            \/ Activates(c) /\ alert'[c].state = "ACTIVE"
            \/ Resolves(c) /\ alert[c].state = "ACTIVE"
      <4>1. CASE Activates(c)
        <5>1. alert'[c] = Raised
          BY <1>1, <2>1, <4>1, TickOfCode DEF AlertNext
        <5> QED BY <4>1, <5>1 DEF Raised
      <4>2. CASE ~Activates(c) /\ Resolves(c)
        BY <4>2 DEF Resolves, Clears, IsActive
      <4>3. CASE ~Activates(c) /\ ~Resolves(c)
        BY <1>1, <2>1, <4>3, TickOfCode DEF AlertNext
      <4> QED BY <4>1, <4>2, <4>3
    <3>2. /\ Activates(c) => seen'[c].bad /\ seen'[c].for >= ActivateDelay(c) /\ ~IsActive(c)
          /\ Resolves(c) => ~seen'[c].bad /\ seen'[c].for >= ClearDelay(c)
      BY <1>1, <2>1, TickNeedsTime DEF Activates
    <3>3. ~(Activates(c) /\ Resolves(c))
      BY DEF Activates, Resolves, Clears
    <3>4. Resolves(c) => alert'[c].state = "RESOLVED"
      <4>1. alert[c] \in AlertType
        BY <1>1 DEF Inv, TypeOK, Key, AlertType
      <4> QED BY <1>1, <2>1, <3>3, <4>1, TickOfCode DEF AlertNext, AlertType
    <3> QED BY <3>1, <3>2, <3>4 DEF IsActive
  <2>2. CASE ~Tick
    BY <1>1, <2>2, OnlyTicksChangeStates DEF Key
  <2> QED BY <2>1, <2>2
<1>2. Inv /\ [Next]_vars => [\A c \in Codes : Timely(c)]_vars
  BY <1>1
<1> QED BY <1>2, SpecInv, PTL DEF Spec, AlertsNeedTime

(* An acknowledgement lasts as long as the alert does.                     *)
THEOREM AcknowledgedUntilResolved == Spec => AckSurvives
<1> DEFINE Kept(c) ==
      row[c].acked /\ ~row'[c].acked => row[c].state = "RESOLVED" /\ row'[c].state = "ACTIVE"
<1>1. ASSUME Inv, [Next]_vars, NEW c \in Key PROVE Kept(c)
  <2>1. Inv' /\ row = alert /\ row' = alert'
    BY <1>1, NextInv DEF Inv, RowIsAlert
  <2>2. alert[c] \in AlertType /\ (alert[c].acked => alert[c].state # "NONE")
    BY <1>1 DEF Inv, TypeOK, AckedWasRaised, AlertType
  <2>3. CASE Tick
    <3>1. alert'[c].acked # alert[c].acked => alert'[c] = Raised /\ ~IsActive(c)
      <4>1. CASE c \in Codes
        BY <1>1, <2>2, <2>3, <4>1, TickOfCode DEF AlertNext, Activates, AlertType
      <4>2. CASE c = Unconfirmed
        BY <1>1, <2>3, <4>2, TickOfReport
      <4> QED BY <4>1, <4>2 DEF Key
    <3>2. alert[c].acked /\ ~alert'[c].acked =>
            alert[c].state = "RESOLVED" /\ alert'[c].state = "ACTIVE"
      <4>1. ~IsActive(c) /\ alert[c].state # "NONE" => alert[c].state = "RESOLVED"
        BY <2>2 DEF IsActive, AlertType
      <4>2. Raised.state = "ACTIVE"
        BY DEF Raised
      <4> QED BY <2>2, <3>1, <4>1, <4>2
    <3> QED BY <2>1, <3>2
  <2>4. CASE ~Tick
    BY <1>1, <2>1, <2>4, OnlyTicksChangeStates
  <2> QED BY <2>3, <2>4
<1>2. Inv /\ [Next]_vars => [\A c \in Key : Kept(c)]_vars
  BY <1>1
<1> QED BY <1>2, SpecInv, PTL DEF Spec, AckSurvives
-----------------------------------------------------------------------------
(* Liveness.  What WF of the tick gives for a condition without a delay:   *)
(* while it lasts and has no alert, a tick always has something to change. *)
TickSees(c) == []<>(~Bad(c) \/ IsActive(c)) \/ []<><<Tick>>_vars

(* The half of AlertsConclude that no timer delays: a lost or stale        *)
(* connection that stays is reported for good.  Nothing but a tick that    *)
(* sees it gone takes the alert away, neither operators nor restarts.      *)
THEOREM RaisedForGood ==
  ASSUME NEW c \in Codes, ActivateDelay(c) = 0
  PROVE  Spec /\ TickSees(c) => (<>[]Bad(c) => <>[]IsActive(c))
<1> DEFINE B == Bad(c)
           A == IsActive(c)
           Rest == ~Bad(c) \/ IsActive(c)
<1>1. Inv /\ B /\ <<Tick>>_vars => A'
  <2> SUFFICES ASSUME Inv, B, Tick PROVE A'
    OBVIOUS
  <2>1. Started(c) >= 0
    BY TickOfTimers, DelaysAreNat
  <2>2. CASE A
    <3>1. alert'[c] = alert[c]
      BY <2>2, TickOfCode DEF AlertNext, Activates, Resolves, Clears
    <3> QED BY <2>2, <3>1 DEF IsActive
  <2>3. CASE ~A
    <3>1. Activates(c)
      BY <2>1, <2>3 DEF Activates
    <3>2. alert'[c] = Raised
      BY <3>1, TickOfCode DEF AlertNext
    <3> QED BY <3>2 DEF IsActive, Raised
  <2> QED BY <2>2, <2>3
<1>2. Inv /\ B /\ A /\ [Next]_vars => A'
  <2> SUFFICES ASSUME Inv, B, A, [Next]_vars PROVE A'
    OBVIOUS
  <2>1. CASE Tick
    <3>1. alert'[c] = alert[c]
      BY <2>1, TickOfCode DEF AlertNext, Activates, Resolves, Clears
    <3> QED BY <3>1 DEF IsActive
  <2>2. CASE ~Tick
    <3>1. c \in Key
      BY CodesStop DEF Key
    <3> QED BY <2>2, <3>1, OnlyTicksChangeStates DEF IsActive
  <2> QED BY <2>1, <2>2
<1>3. Rest <=> ~B \/ A
  OBVIOUS
<1>4. TickSees(c) => []<>Rest \/ []<><<Tick>>_vars
  BY DEF TickSees
<1>5. (<>[]Bad(c) => <>[]IsActive(c)) <=> (<>[]B => <>[]A)
  OBVIOUS
<1> HIDE DEF B, A, Rest
<1> QED BY <1>1, <1>2, <1>3, <1>4, <1>5, SpecInv, PTL DEF Spec
=============================================================================
