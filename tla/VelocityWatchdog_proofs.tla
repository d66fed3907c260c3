---------------------- MODULE VelocityWatchdog_proofs ----------------------
(***************************************************************************)
(* The safety properties of the watchdog, for any number of goals.  None   *)
(* is inductive alone: LatchHolds needs that the handle belongs to the     *)
(* node's own goal, OrphanFree also that a response is handled only after  *)
(* Nav2 decided, so that no goal starts executing behind the node's back.  *)
(***************************************************************************)
EXTENDS VelocityWatchdog, TLAPS

(* A handle is always that of the goal the node considers its own.         *)
HandleIsOwn == handle # NoGoal => handle = navId

(* A response the node has handled is one that Nav2 gave.                  *)
ToldIsDecided == \A g \in told : phase[g] \in {"executing", "refused", "ended"}

Inv ==
  /\ TypeOK
  /\ LatchHolds
  /\ OrphanFree
  /\ NoGoalSurvivesStop
  /\ HandleIsOwn
  /\ ToldIsDecided

(* The initial state satisfies the invariant.                              *)
LEMMA InitInv == Init => Inv
  BY DEF Init, Inv, TypeOK, Mode, LatchHolds, OrphanFree, NoGoalSurvivesStop,
         HandleIsOwn, ToldIsDecided

(* _cancel_navigation leaves nothing tracked and nothing untracked that    *)
(* Nav2 executes unasked.                                                  *)
LEMMA CancelInv ==
  ASSUME Inv, CancelNavigation, UNCHANGED <<phase, told>>
  PROVE  /\ navId' = NoGoal /\ handle' = NoGoal
         /\ canceled' \subseteq Goal /\ asked' \subseteq Goal
         /\ OrphanFree' /\ HandleIsOwn' /\ ToldIsDecided'
  BY DEF Inv, CancelNavigation, TypeOK, OrphanFree, HandleIsOwn, ToldIsDecided

(* Every callback preserves the invariant.                                 *)
LEMMA NextInv == Inv /\ [Next]_vars => Inv'
<1> SUFFICES ASSUME Inv, [Next]_vars PROVE Inv'
  OBVIOUS
<1> USE GoalsNamed DEF Inv
<1>1. CASE StopRobot
  BY <1>1, CancelInv DEF StopRobot, Commanded, inputs, TypeOK, Mode, LatchHolds, NoGoalSurvivesStop
<1>2. CASE ResetStop
  BY <1>2, CancelInv DEF ResetStop, Commanded, inputs, TypeOK, Mode, LatchHolds, NoGoalSurvivesStop
<1>3. CASE CancelCommand
  BY <1>3, CancelInv DEF CancelCommand, Commanded, inputs, TypeOK, Mode, LatchHolds, NoGoalSurvivesStop
<1>4. ASSUME NEW m \in ModeRequest, SetMode(m) PROVE Inv'
  <2>1. CASE m = "AUTO"
    BY <1>4, <2>1 DEF SetMode, Commanded, inputs, TypeOK, Mode, LatchHolds, OrphanFree,
       NoGoalSurvivesStop, HandleIsOwn, ToldIsDecided
  <2>2. CASE m # "AUTO"
    BY <1>4, <2>2, CancelInv DEF SetMode, Commanded, inputs, TypeOK, Mode, LatchHolds,
       NoGoalSurvivesStop
  <2> QED BY <2>1, <2>2
<1>5. ASSUME NEW g \in Goal, StartNavigation(g) PROVE Inv'
  BY <1>5 DEF StartNavigation, inputs, TypeOK, Mode, LatchHolds, OrphanFree,
     NoGoalSurvivesStop, HandleIsOwn, ToldIsDecided
<1>6. ASSUME NEW g \in Goal, GoalResponse(g) PROVE Inv'
  <2> USE DEF GoalResponse, own, inputs
  <2>1. CASE LateResponse(g)
    BY <1>6, <2>1 DEF LateResponse, TypeOK, LatchHolds, OrphanFree,
       NoGoalSurvivesStop, HandleIsOwn, ToldIsDecided
  <2>2. CASE GoalTaken(g)
    BY <1>6, <2>2 DEF GoalTaken, TypeOK, LatchHolds, OrphanFree,
       NoGoalSurvivesStop, HandleIsOwn, ToldIsDecided
  <2>3. CASE GoalRefused(g)
    BY <1>6, <2>3 DEF GoalRefused, FinishNavigation, TypeOK, Mode, LatchHolds, OrphanFree,
       NoGoalSurvivesStop, HandleIsOwn, ToldIsDecided
  <2> QED BY <1>6, <2>1, <2>2, <2>3
<1>7. ASSUME NEW g \in Goal, GoalResult(g) PROVE Inv'
  BY <1>7 DEF GoalResult, FinishNavigation, inputs, nav2, TypeOK, Mode, LatchHolds, OrphanFree,
     NoGoalSurvivesStop, HandleIsOwn, ToldIsDecided
<1>8. ASSUME NEW g \in Goal, Nav2Decides(g) PROVE Inv'
  BY <1>8 DEF Nav2Decides, own, inputs, TypeOK, LatchHolds, OrphanFree,
     NoGoalSurvivesStop, HandleIsOwn, ToldIsDecided
<1>9. ASSUME NEW g \in Goal, Nav2Ends(g) PROVE Inv'
  BY <1>9 DEF Nav2Ends, own, inputs, TypeOK, LatchHolds, OrphanFree,
     NoGoalSurvivesStop, HandleIsOwn, ToldIsDecided
<1>10. ASSUME NEW g \in Goal \cup {NoGoal}, NavInput(g) PROVE Inv'
  BY <1>10 DEF NavInput, own, nav2, TypeOK, LatchHolds, OrphanFree,
     NoGoalSurvivesStop, HandleIsOwn, ToldIsDecided
<1>11. CASE NavExpires
  BY <1>11 DEF NavExpires, own, nav2, TypeOK, LatchHolds, OrphanFree,
     NoGoalSurvivesStop, HandleIsOwn, ToldIsDecided
<1>12. ASSUME NEW v \in {"zero", "moving", "none"}, ManualInput(v) PROVE Inv'
  BY <1>12 DEF ManualInput, own, nav2, TypeOK, LatchHolds, OrphanFree,
     NoGoalSurvivesStop, HandleIsOwn, ToldIsDecided
<1>13. CASE PublishOutput
  BY <1>13 DEF PublishOutput, Arbitrated, ManualVelocity, NavVelocity, own, inputs, nav2,
     TypeOK, LatchHolds, OrphanFree, NoGoalSurvivesStop, HandleIsOwn, ToldIsDecided
<1>14. CASE UNCHANGED vars
  BY <1>14 DEF vars, own, inputs, nav2, TypeOK, LatchHolds, OrphanFree,
     NoGoalSurvivesStop, HandleIsOwn, ToldIsDecided
<1> QED
  BY <1>1, <1>2, <1>3, <1>4, <1>5, <1>6, <1>7, <1>8, <1>9, <1>10, <1>11, <1>12, <1>13, <1>14
     DEF Next, ManualExpires

(* The invariant holds in every behaviour of the watchdog.                 *)
THEOREM SpecInv == Spec => []Inv
  BY InitInv, NextInv, PTL DEF Spec

(* Every variable keeps its type.                                          *)
THEOREM Typed == Spec => []TypeOK
  BY SpecInv, PTL DEF Inv

(* The latch holds against late responses and results of Nav2.             *)
THEOREM Latched == Spec => []LatchHolds
  BY SpecInv, PTL DEF Inv

(* Nav2 never drives for a goal the node lost sight of.                    *)
THEOREM NoOrphan == Spec => []OrphanFree
  BY SpecInv, PTL DEF Inv

(* No goal of before a stop or a release is followed after it.             *)
THEOREM StopForgets == Spec => []NoGoalSurvivesStop
  BY SpecInv, PTL DEF Inv

-----------------------------------------------------------------------------
(* Liveness.  WF of VelocityWatchdog with the guards of the actions        *)
(* written out, as the provers know nothing of ENABLED.                    *)

TimerFires == []<>(output = Arbitrated) \/ []<><<PublishOutput>>_vars

ResponseArrives(g) ==
  []<>(phase[g] \in {"unsent", "sent"} \/ g \in told) \/ []<><<GoalResponse(g)>>_vars

Nav2Answers(g) == []<>(phase[g] # "sent") \/ []<><<Nav2Decides(g)>>_vars

Nav2Obeys(g) ==
  []<>~(phase[g] = "executing" /\ g \in asked) \/ []<><<Nav2Cancels(g)>>_vars

(* A manual velocity that is not renewed is not published for ever: while  *)
(* it is, the timer has something to change.                               *)
THEOREM DeadmanActs == Spec /\ TimerFires => Deadman
<1> DEFINE Stale == output = "manual" /\ manual = "none"
           Over  == output # "manual" \/ manual # "none"
           Done  == output = Arbitrated
<1>1. Stale \/ Over
  OBVIOUS
<1>2. Inv /\ Stale => ~Done
  BY GoalsNamed DEF Arbitrated, ManualVelocity, NavVelocity
<1>3. Inv /\ Stale /\ <<PublishOutput>>_vars => Over'
  BY GoalsNamed DEF PublishOutput, Arbitrated, ManualVelocity, NavVelocity
<1>4. TimerFires => []<>Done \/ []<><<PublishOutput>>_vars
  BY DEF TimerFires
<1>5. Deadman <=> (Stale ~> Over)
  BY DEF Deadman
<1> HIDE DEF Stale, Over, Done
<1> QED BY <1>1, <1>2, <1>3, <1>4, <1>5, SpecInv, PTL DEF Spec

(* A goal that was sent and is no longer the node's own never becomes its  *)
(* own again, and what the node asked for stays asked.                     *)
StaysForgotten(g) ==
  /\ phase'[g] # "unsent"
  /\ navId # g => navId' # g
  /\ g \in asked => g \in asked'
  /\ phase[g] = "executing" => phase'[g] \in {"executing", "ended"}

LEMMA GoalStaysForgotten ==
  ASSUME Inv, [Next]_vars, NEW g \in Goal, phase[g] # "unsent"
  PROVE  StaysForgotten(g)
<1> USE GoalsNamed DEF Inv, TypeOK, StaysForgotten
<1>1. ASSUME NEW h \in Goal, StartNavigation(h) PROVE StaysForgotten(g)
  BY <1>1 DEF StartNavigation
<1>2. ASSUME CancelNavigation, UNCHANGED phase PROVE StaysForgotten(g)
  BY <1>2 DEF CancelNavigation
<1>3. ASSUME UNCHANGED <<own, asked, phase>> PROVE StaysForgotten(g)
  BY <1>3 DEF own
<1>4. ASSUME NEW h \in Goal, GoalResponse(h) PROVE StaysForgotten(g)
  BY <1>4 DEF GoalResponse, LateResponse, GoalTaken, GoalRefused, FinishNavigation
<1>5. ASSUME NEW h \in Goal, GoalResult(h) PROVE StaysForgotten(g)
  BY <1>5 DEF GoalResult, FinishNavigation, nav2
<1>6. ASSUME NEW h \in Goal, Nav2Decides(h) \/ Nav2Ends(h) PROVE StaysForgotten(g)
  BY <1>6 DEF Nav2Decides, Nav2Ends, own
<1>7. ASSUME NEW m \in ModeRequest, SetMode(m) PROVE StaysForgotten(g)
  BY <1>2, <1>7 DEF SetMode, Commanded
<1> QED BY <1>1, <1>2, <1>3, <1>4, <1>5, <1>6, <1>7
        DEF Next, StopRobot, ResetStop, CancelCommand, Commanded, NavInput, NavExpires,
            ManualInput, ManualExpires, PublishOutput, nav2, vars

(* A stop reaches Nav2: every goal that was sent before it ends, for any   *)
(* number of goals and whatever is commanded next.  Forgotten is what a    *)
(* stop leaves behind, and stays; then Nav2 answers, the node asks on the  *)
(* late response, if it has not asked before, and Nav2 obeys.              *)
THEOREM StopEndsGoals ==
  Spec /\ (\A g \in Goal : ResponseArrives(g) /\ Nav2Answers(g) /\ Nav2Obeys(g))
    => StopReachesNav2
<1> DEFINE Fair(g) == ResponseArrives(g) /\ Nav2Answers(g) /\ Nav2Obeys(g)
           Stopped(g) == latched /\ phase[g] \in {"sent", "executing"}
           Over(g) == phase[g] \in {"refused", "ended"}
<1>1. ASSUME NEW g \in Goal
      PROVE  Spec /\ Fair(g) => (Stopped(g) ~> Over(g))
  <2> DEFINE S == Stopped(g)
             O == Over(g)
             Forgotten == phase[g] # "unsent" /\ navId # g
             Sent == phase[g] = "sent"
             Runs == phase[g] = "executing"
             Told == g \in told
             Asked == g \in asked
             Early == phase[g] \in {"unsent", "sent"} \/ g \in told
             Unsent == phase[g] # "sent"
             Unasked == ~(phase[g] = "executing" /\ g \in asked)
  <2>1. Inv /\ S => Forgotten
    BY GoalsNamed DEF Inv, LatchHolds
  <2>2. Inv /\ Forgotten => O \/ Sent \/ Runs
    BY DEF Inv, TypeOK
  <2>3. Inv /\ [Next]_vars /\ Forgotten => Forgotten' /\ (Asked => Asked') /\ (Runs => Runs' \/ O')
    BY GoalStaysForgotten DEF StaysForgotten
  <2>4. Inv /\ Forgotten /\ Runs /\ Told => Asked
    BY GoalsNamed DEF Inv, OrphanFree, HandleIsOwn
  <2>5. Forgotten /\ Sent => ~Unsent
    OBVIOUS
  <2>6. Inv /\ Sent /\ <<Nav2Decides(g)>>_vars => Runs' \/ O'
    BY DEF Nav2Decides, Inv, TypeOK
  <2>7. Runs /\ ~Told => ~Early
    OBVIOUS
  <2>8. Forgotten /\ Runs /\ <<GoalResponse(g)>>_vars => Asked'
    BY DEF GoalResponse, LateResponse, GoalTaken, GoalRefused
  <2>9. Runs /\ Asked => ~Unasked
    OBVIOUS
  <2>10. Inv /\ Runs /\ <<Nav2Cancels(g)>>_vars => O'
    BY DEF Nav2Cancels, Nav2Ends, Inv, TypeOK
  <2>11. Fair(g) => /\ []<>Early \/ []<><<GoalResponse(g)>>_vars
                    /\ []<>Unsent \/ []<><<Nav2Decides(g)>>_vars
                    /\ []<>Unasked \/ []<><<Nav2Cancels(g)>>_vars
    BY DEF ResponseArrives, Nav2Answers, Nav2Obeys
  <2>12. (Stopped(g) ~> Over(g)) <=> (S ~> O)
    OBVIOUS
  <2> HIDE DEF Fair, Stopped, Over
  <2> HIDE DEF S, O, Forgotten, Sent, Runs, Told, Asked, Early, Unsent, Unasked
  <2> QED BY <2>1, <2>2, <2>3, <2>4, <2>5, <2>6, <2>7, <2>8, <2>9, <2>10, <2>11, <2>12,
             SpecInv, PTL DEF Spec
<1>2. StopReachesNav2 <=> \A g \in Goal : (Stopped(g) ~> Over(g))
  BY DEF StopReachesNav2
<1> HIDE DEF Fair, Stopped, Over
<1>3. (\A g \in Goal : Fair(g)) /\ Spec => \A g \in Goal : (Stopped(g) ~> Over(g))
  BY <1>1
<1>4. (\A g \in Goal : ResponseArrives(g) /\ Nav2Answers(g) /\ Nav2Obeys(g)) <=> \A g \in Goal : Fair(g)
  BY DEF Fair
<1> QED BY <1>2, <1>3, <1>4
=============================================================================
