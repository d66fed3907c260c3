------------------------- MODULE MapNavigation_proofs -------------------------
(***************************************************************************)
(* Two promises about drives, for any number of requests: what was         *)
(* reported failed is halted, and what was accepted before a stop is not   *)
(* driven after it.  The second needs the order of the normal lane: what a *)
(* stop fenced stands before whatever came later (Fences), so a reset that *)
(* came later runs when nothing fenced waits any more.                     *)
(***************************************************************************)
EXTENDS MapNavigation, Integers, TLAPS

InLane(r, lane) == \E i \in 1..Len(lane) : lane[i] = r

Distinct(lane) == \A i, j \in 1..Len(lane) : i < j => lane[i] # lane[j]

(* The members of F come first.                                            *)
FirstComes(F, lane) ==
  \A i, j \in 1..Len(lane) : i < j /\ lane[j] \in F => lane[i] \in F

(* The row of a request says where it is.                                  *)
RowsAgree ==
  /\ \A r \in Request : state[r] = "RUNNING" <=> running = r
  /\ \A r \in Request : state[r] = "ACCEPTED" <=> InLane(r, normal) \/ InLane(r, priority)
  /\ Distinct(normal) /\ Distinct(priority)
  /\ step = "idle" <=> running = None
  /\ step \in {"pose", "mode", "goal", "halt"} => running \in Drive

(* The robot drives for a request that succeeded, for the one the worker   *)
(* is about to halt, or for one whose halt never arrived.                  *)
GoalIsAccountedFor ==
  goal # None =>
    \/ state[goal] = "SUCCEEDED"
    \/ running = goal /\ step = "halt"
    \/ goal \in unhalted

Waits(r) == state[r] \in {"ACCEPTED", "RUNNING"}

(* The requests fenced by a stop stand before those that came after it.    *)
Fences ==
  /\ \A r \in fenced : state[r] # "new"
  /\ FirstComes(fenced, normal)
  /\ \A r \in fenced : InLane(r, normal) /\ running \in Request \ Halt => running \in fenced

(* Nothing fenced waits once the latch is released.                        *)
LatchHoldsFence ==
  fenced \cap Release = {} =>
    goal \notin fenced /\ \A d \in fenced \cap Drive : Waits(d) => latched

Inv == TypeOK /\ RowsAgree /\ GoalIsAccountedFor /\ Fences /\ LatchHoldsFence

(* The kinds of requests are disjoint, and None is none of them.           *)
LEMMA Kinds ==
  /\ None \notin Request /\ Request \ Halt = Drive \cup Relocate \cup Release
  /\ Drive \cap Halt = {} /\ Release \cap Halt = {} /\ Drive \cap Release = {}
  /\ Drive \subseteq Request /\ Release \subseteq Request /\ Halt \subseteq Request
BY RequestAssumption DEF Request
-----------------------------------------------------------------------------
(* A request that is queued is last in its lane.                           *)
LEMMA AppendLane ==
  ASSUME NEW S, NEW lane \in Seq(S), NEW x \in S
  PROVE  /\ Append(lane, x) \in Seq(S)
         /\ \A r : InLane(r, Append(lane, x)) <=> InLane(r, lane) \/ r = x
         /\ Distinct(lane) /\ ~InLane(x, lane) => Distinct(Append(lane, x))
         /\ \A F : FirstComes(F, lane) /\ x \notin F => FirstComes(F, Append(lane, x))
<1>1. /\ Append(lane, x) \in Seq(S) /\ Len(lane) \in Nat
      /\ Len(Append(lane, x)) = Len(lane) + 1
      /\ \A i \in 1..Len(lane) : Append(lane, x)[i] = lane[i]
      /\ Append(lane, x)[Len(lane) + 1] = x
  OBVIOUS
<1>2. ASSUME NEW r PROVE InLane(r, Append(lane, x)) <=> InLane(r, lane) \/ r = x
  BY <1>1 DEF InLane
<1>3. ASSUME Distinct(lane), ~InLane(x, lane) PROVE Distinct(Append(lane, x))
  BY <1>1, <1>3 DEF Distinct, InLane
<1>4. ASSUME NEW F, FirstComes(F, lane), x \notin F PROVE FirstComes(F, Append(lane, x))
  BY <1>1, <1>4 DEF FirstComes
<1> QED BY <1>1, <1>2, <1>3, <1>4

(* The request that is taken stood first, and nothing of it is left.       *)
LEMMA TailLane ==
  ASSUME NEW S, NEW lane \in Seq(S), lane # <<>>
  PROVE  /\ Tail(lane) \in Seq(S) /\ Head(lane) \in S
         /\ \A r : InLane(r, lane) <=> InLane(r, Tail(lane)) \/ r = Head(lane)
         /\ Distinct(lane) => Distinct(Tail(lane)) /\ ~InLane(Head(lane), Tail(lane))
         /\ \A F : FirstComes(F, lane) =>
              /\ FirstComes(F, Tail(lane))
              /\ \A r \in F : InLane(r, Tail(lane)) => Head(lane) \in F
<1>1. /\ Tail(lane) \in Seq(S) /\ Head(lane) = lane[1] /\ Head(lane) \in S
      /\ Len(lane) \in Nat /\ Len(lane) > 0 /\ Len(Tail(lane)) = Len(lane) - 1
      /\ \A i \in 1..(Len(lane) - 1) : Tail(lane)[i] = lane[i + 1]
  OBVIOUS
<1>2. ASSUME NEW r PROVE InLane(r, lane) <=> InLane(r, Tail(lane)) \/ r = Head(lane)
  <2>1. ASSUME NEW i \in 1..Len(lane), lane[i] = r PROVE InLane(r, Tail(lane)) \/ r = Head(lane)
    <3>1. CASE i = 1
      BY <1>1, <2>1, <3>1
    <3>2. CASE i # 1
      <4>1. i - 1 \in 1..Len(Tail(lane)) /\ Tail(lane)[i - 1] = r
        BY <1>1, <2>1, <3>2
      <4> QED BY <4>1 DEF InLane
    <3> QED BY <3>1, <3>2
  <2>2. ASSUME NEW i \in 1..Len(Tail(lane)), Tail(lane)[i] = r PROVE InLane(r, lane)
    <3>1. i + 1 \in 1..Len(lane) /\ lane[i + 1] = r
      BY <1>1, <2>2
    <3> QED BY <3>1 DEF InLane
  <2>3. InLane(Head(lane), lane)
    BY <1>1 DEF InLane
  <2> QED BY <2>1, <2>2, <2>3 DEF InLane
<1>3. ASSUME Distinct(lane) PROVE Distinct(Tail(lane)) /\ ~InLane(Head(lane), Tail(lane))
  <2>1. Distinct(Tail(lane))
    BY <1>1, <1>3 DEF Distinct
  <2>2. ASSUME NEW i \in 1..Len(Tail(lane)) PROVE Tail(lane)[i] # Head(lane)
    <3>1. 1 \in 1..Len(lane) /\ i + 1 \in 1..Len(lane) /\ 1 < i + 1
      BY <1>1
    <3> QED BY <1>1, <1>3, <3>1 DEF Distinct
  <2> QED BY <2>1, <2>2 DEF InLane
<1>4. ASSUME NEW F, FirstComes(F, lane)
      PROVE  /\ FirstComes(F, Tail(lane))
             /\ \A r \in F : InLane(r, Tail(lane)) => Head(lane) \in F
  <2>1. FirstComes(F, Tail(lane))
    BY <1>1, <1>4 DEF FirstComes
  <2>2. ASSUME NEW i \in 1..Len(Tail(lane)), Tail(lane)[i] \in F PROVE Head(lane) \in F
    <3>1. 1 \in 1..Len(lane) /\ i + 1 \in 1..Len(lane) /\ 1 < i + 1 /\ lane[i + 1] \in F
      BY <1>1, <2>2
    <3> QED BY <1>1, <1>4, <3>1 DEF FirstComes
  <2> QED BY <2>1, <2>2 DEF InLane
<1> QED BY <1>1, <1>2, <1>3, <1>4

(* What waits in the lanes is a request of their kind.                     *)
LEMMA LaneMembers ==
  ASSUME TypeOK, NEW r
  PROVE  /\ InLane(r, normal) => r \in Request \ Halt
         /\ InLane(r, priority) => r \in Halt
BY DEF TypeOK, InLane
-----------------------------------------------------------------------------
(* The initial state satisfies the invariant.                              *)
LEMMA InitInv == Init => Inv
<1> SUFFICES ASSUME Init PROVE Inv
  OBVIOUS
<1>1. TypeOK
  <2>1. normal \in Seq(Request \ Halt) /\ priority \in Seq(Halt)
    BY DEF Init
  <2>2. /\ latched \in BOOLEAN /\ located \in BOOLEAN /\ transform \in BOOLEAN
        /\ started \in BOOLEAN
    BY DEF Init
  <2>3. mode \in {"IDLE", "STOPPED"}
    BY DEF Init
  <2>4. seen \in [mode : {"IDLE", "AUTO", "STOPPED", "UNKNOWN"}, latched : BOOLEAN,
                  moving : BOOLEAN, ready : BOOLEAN]
    BY DEF Init, Unknown
  <2> QED BY <2>1, <2>2, <2>3, <2>4 DEF Init, TypeOK
<1>2. RowsAgree
  BY Kinds DEF Init, RowsAgree, InLane, Distinct
<1>3. Fences
  BY DEF Init, Fences, FirstComes
<1> QED BY <1>1, <1>2, <1>3 DEF Init, Inv, GoalIsAccountedFor, LatchHoldsFence

(* A request that is admitted was new, and no stop has fenced it.          *)
LEMMA SubmitKeepsInv ==
  ASSUME Inv, NEW r \in Request, Submit(r)
  PROVE  Inv'
<1> USE DEF Inv, Submit
<1>1. state[r] = "new" /\ state' = [state EXCEPT ![r] = "ACCEPTED"] /\ r \notin fenced
  BY DEF Fences
<1>2. UNCHANGED <<running, step, mode, latched, goal, located, transform, starting, started,
                  asked, seen, fenced, unhalted>>
  BY DEF mediator, nav2, history
<1>3. running # r /\ ~InLane(r, normal) /\ ~InLane(r, priority)
  BY <1>1 DEF RowsAgree
<1>4. /\ normal' \in Seq(Request \ Halt) /\ priority' \in Seq(Halt)
      /\ Distinct(normal') /\ Distinct(priority')
      /\ \A q : InLane(q, normal') \/ InLane(q, priority')
                  <=> InLane(q, normal) \/ InLane(q, priority) \/ q = r
      /\ \A q : q # r => (InLane(q, normal') <=> InLane(q, normal))
      /\ FirstComes(fenced, normal')
  <2>1. CASE r \in Halt
    <3>1. priority' = Append(priority, r) /\ normal' = normal
      BY <2>1 DEF Queued
    <3> QED BY <1>3, <2>1, <3>1, AppendLane DEF TypeOK, RowsAgree, Fences
  <2>2. CASE r \notin Halt
    <3>1. normal' = Append(normal, r) /\ priority' = priority /\ r \in Request \ Halt
      BY <2>2 DEF Queued
    <3> QED BY <1>1, <1>3, <3>1, AppendLane DEF TypeOK, RowsAgree, Fences
  <2> QED BY <2>1, <2>2
<1>5. TypeOK'
  BY <1>1, <1>2, <1>4 DEF TypeOK
<1>6. RowsAgree'
  BY <1>1, <1>2, <1>3, <1>4 DEF TypeOK, RowsAgree
<1>7. GoalIsAccountedFor'
  BY <1>1, <1>2 DEF TypeOK, GoalIsAccountedFor
<1>8. Fences'
  BY <1>1, <1>2, <1>4 DEF TypeOK, Fences
<1>9. LatchHoldsFence'
  BY <1>1, <1>2 DEF TypeOK, LatchHoldsFence, Waits
<1> QED BY <1>5, <1>6, <1>7, <1>8, <1>9

(* What the worker takes from the normal lane stood before what is left.   *)
LEMMA PopKeepsInv == Inv /\ Pop => Inv'
<1> SUFFICES ASSUME Inv, Pop PROVE Inv'
  OBVIOUS
<1> USE DEF Inv
<1>1. UNCHANGED <<mode, latched, goal, located, transform, starting, started, asked, seen,
                  fenced, unhalted>> /\ running = None
  BY DEF Pop, mediator, nav2, history
<1>2. PICK r \in Request :
        /\ Starts(r)
        /\ \/ priority # <<>> /\ r = Head(priority) /\ priority' = Tail(priority)
              /\ normal' = normal
           \/ normal # <<>> /\ r = Head(normal) /\ normal' = Tail(normal)
              /\ priority' = priority
  <2>1. priority # <<>> => Head(priority) \in Request
    BY Kinds DEF TypeOK
  <2>2. normal # <<>> => Head(normal) \in Request
    BY DEF TypeOK
  <2> QED BY <2>1, <2>2 DEF Pop
<1>3. /\ normal' \in Seq(Request \ Halt) /\ priority' \in Seq(Halt)
      /\ Distinct(normal') /\ Distinct(priority')
      /\ InLane(r, normal) \/ InLane(r, priority)
      /\ ~InLane(r, normal') /\ ~InLane(r, priority')
      /\ \A q : q # r => /\ InLane(q, normal') <=> InLane(q, normal)
                         /\ InLane(q, priority') <=> InLane(q, priority)
      /\ FirstComes(fenced, normal')
      /\ r \notin Halt => \A q \in fenced : InLane(q, normal') => r \in fenced
  <2>1. CASE priority # <<>> /\ r = Head(priority) /\ priority' = Tail(priority)
             /\ normal' = normal
    <3>1. r \in Halt /\ InLane(r, priority)
      BY <2>1, TailLane DEF TypeOK
    <3>2. ~InLane(r, normal)
      BY <3>1, LaneMembers
    <3> QED BY <2>1, <3>1, <3>2, TailLane DEF TypeOK, RowsAgree, Fences
  <2>2. CASE normal # <<>> /\ r = Head(normal) /\ normal' = Tail(normal)
             /\ priority' = priority
    <3>1. r \notin Halt /\ InLane(r, normal)
      BY <2>2, TailLane DEF TypeOK
    <3>2. ~InLane(r, priority)
      BY <3>1, LaneMembers
    <3> QED BY <2>2, <3>1, <3>2, TailLane DEF TypeOK, RowsAgree, Fences
  <2> QED BY <1>2, <2>1, <2>2
<1>4. /\ running' = r /\ step' \in {"pose", "call"} /\ (step' = "pose" => r \in Drive)
      /\ state' = [state EXCEPT ![r] = "RUNNING"] /\ state[r] = "ACCEPTED" /\ r # None
  BY <1>2, <1>3, Kinds DEF Starts, RowsAgree
<1>5. TypeOK'
  BY <1>1, <1>3, <1>4 DEF TypeOK
<1>6. RowsAgree'
  <2>1. ASSUME NEW q \in Request PROVE state'[q] = "RUNNING" <=> running' = q
    BY <1>1, <1>4, Kinds DEF TypeOK, RowsAgree
  <2>2. ASSUME NEW q \in Request
        PROVE  state'[q] = "ACCEPTED" <=> InLane(q, normal') \/ InLane(q, priority')
    BY <1>3, <1>4 DEF TypeOK, RowsAgree
  <2> QED BY <1>3, <1>4, <2>1, <2>2 DEF RowsAgree
<1>7. GoalIsAccountedFor'
  BY <1>1, <1>4 DEF TypeOK, GoalIsAccountedFor
<1>8. Fences'
  BY <1>1, <1>3, <1>4 DEF TypeOK, Fences
<1>9. LatchHoldsFence'
  BY <1>1, <1>4 DEF TypeOK, LatchHoldsFence, Waits
<1> QED BY <1>5, <1>6, <1>7, <1>8, <1>9

(* A stop fences whatever waits, and leaves the robot latched.             *)
LEMMA StopFences ==
  ASSUME Inv, Stopped, UNCHANGED lanes
  PROVE  /\ latched' = TRUE /\ goal' = None /\ fenced' \subseteq Request
         /\ FirstComes(fenced', normal')
         /\ \A r \in Request : Waits(r) => r \in fenced'
         /\ \A r \in fenced' : state[r] # "new"
         /\ goal' \notin fenced'
<1>1. ASSUME NEW r \in Request, Waits(r) PROVE r \in fenced'
  BY <1>1 DEF Stopped, Waits
<1>2. FirstComes(fenced', normal')
  <2>1. \A i \in 1..Len(normal) : normal[i] \in Request /\ InLane(normal[i], normal)
    BY DEF Inv, TypeOK, InLane
  <2>2. \A i \in 1..Len(normal) : normal[i] \in fenced'
    BY <1>1, <2>1 DEF Inv, RowsAgree, Waits
  <2> QED BY <2>2 DEF FirstComes, lanes
<1>3. fenced' \subseteq Request /\ goal' = None
  BY DEF Stopped, Inv, TypeOK
<1> QED BY <1>1, <1>2, <1>3, Kinds DEF Stopped, Inv, Fences

(* The worker goes on with its request or ends it.                         *)
LEMMA WorkKeepsRows ==
  ASSUME Inv, running # None, UNCHANGED lanes,
         \/ \E next \in {"mode", "goal", "halt"} : Goes(next) /\ running \in Drive
         \/ \E how \in {"SUCCEEDED", "FAILED"} : Ends(how)
  PROVE  /\ RowsAgree' /\ running \in Request /\ running' \in {running, None}
         /\ state' \in [Request -> {"new", "ACCEPTED", "RUNNING", "SUCCEEDED", "FAILED"}]
         /\ step' \in {"idle", "pose", "mode", "goal", "halt", "call"}
         /\ \A r \in Request : state'[r] = "new" <=> state[r] = "new"
         /\ \A r \in Request : Waits(r)' => Waits(r)
         /\ \A r \in Request : r # running => state'[r] = state[r]
<1> USE DEF Inv
<1>1. running \in Request /\ state[running] = "RUNNING"
  BY DEF TypeOK, RowsAgree
<1>2. CASE \E next \in {"mode", "goal", "halt"} : Goes(next) /\ running \in Drive
  BY <1>1, <1>2, Kinds DEF Goes, TypeOK, RowsAgree, lanes, Waits
<1>3. CASE \E how \in {"SUCCEEDED", "FAILED"} : Ends(how)
  <2>1. PICK how \in {"SUCCEEDED", "FAILED"} : state' = [state EXCEPT ![running] = how]
                                               /\ step' = "idle" /\ running' = None
    BY <1>3 DEF Ends
  <2>2. state' \in [Request -> {"new", "ACCEPTED", "RUNNING", "SUCCEEDED", "FAILED"}]
    BY <2>1 DEF TypeOK
  <2>3. \A r \in Request : state'[r] = IF r = running THEN how ELSE state[r]
    BY <2>1 DEF TypeOK
  <2>4. RowsAgree'
    BY <1>1, <2>1, <2>3, Kinds DEF RowsAgree, lanes
  <2> QED BY <1>1, <2>1, <2>2, <2>3, <2>4 DEF Waits
<1> QED BY <1>2, <1>3

(* Whatever ends another request leaves the goal accounted for.            *)
LEMMA GoalStaysAccountedFor ==
  ASSUME Inv, running # None, step # "halt", UNCHANGED <<lanes, goal, unhalted>>,
         \/ \E next \in {"mode", "goal", "halt"} : Goes(next) /\ running \in Drive
         \/ \E how \in {"SUCCEEDED", "FAILED"} : Ends(how)
  PROVE  GoalIsAccountedFor'
<1> SUFFICES ASSUME goal # None
             PROVE  state'[goal] = "SUCCEEDED" \/ goal \in unhalted
  BY DEF GoalIsAccountedFor
<1>1. goal \in Request
  BY Kinds DEF Inv, TypeOK
<1>2. CASE goal \in unhalted
  BY <1>2
<1>3. CASE state[goal] = "SUCCEEDED"
  <2>1. goal # running
    BY <1>1, <1>3 DEF Inv, RowsAgree
  <2>2. state'[goal] = state[goal]
    BY <1>1, <2>1, WorkKeepsRows
  <2> QED BY <1>3, <2>2
<1> QED BY <1>2, <1>3 DEF Inv, GoalIsAccountedFor

(* A call of the worker that stops nothing and releases nothing.           *)
LEMMA QuietCallKeepsInv ==
  ASSUME Inv, running # None, UNCHANGED <<lanes, latched, fenced, unhalted>>,
         \/ \E next \in {"mode", "goal", "halt"} : Goes(next) /\ running \in Drive
         \/ \E how \in {"SUCCEEDED", "FAILED"} : Ends(how),
         TypeOK', GoalIsAccountedFor',
         goal' = goal \/ (~latched /\ goal' = running /\ running \in Drive)
  PROVE  Inv'
<1> USE DEF Inv
<1>1. RowsAgree' /\ running \in Request /\ running' \in {running, None}
      /\ (\A r \in Request : state'[r] = "new" <=> state[r] = "new")
      /\ (\A r \in Request : Waits(r)' => Waits(r))
  BY WorkKeepsRows
<1>2. Fences'
  BY <1>1, Kinds DEF Fences, TypeOK, lanes
<1>3. Waits(running)
  BY <1>1 DEF RowsAgree, Waits
<1>4. LatchHoldsFence'
  BY <1>1, <1>3, Kinds DEF LatchHoldsFence, TypeOK
<1> QED BY <1>1, <1>2, <1>4

(* A stop, by the worker or beside it.                                     *)
LEMMA StoppedKeepsInv ==
  ASSUME Inv, Stopped, UNCHANGED lanes, TypeOK', RowsAgree', running' \in {running, None},
         \A r \in Request : state'[r] = "new" <=> state[r] = "new"
  PROVE  Inv'
<1> USE DEF Inv
<1>1. /\ latched' = TRUE /\ goal' = None /\ FirstComes(fenced', normal')
      /\ \A r \in Request : Waits(r) => r \in fenced'
      /\ \A r \in fenced' : r \in Request /\ state[r] # "new"
      /\ goal' \notin fenced'
  BY StopFences
<1>2. running' # None => running' \in fenced'
  <2>1. running # None => running \in Request /\ Waits(running)
    BY DEF TypeOK, RowsAgree, Waits
  <2> QED BY <1>1, <2>1
<1>3. Fences'
  BY <1>1, <1>2, Kinds DEF Fences
<1> QED BY <1>1, <1>3 DEF GoalIsAccountedFor, LatchHoldsFence

(* A reset that no stop fenced finds nothing fenced waiting.               *)
LEMMA ReleaseKeepsInv ==
  ASSUME Inv, running \in Release, UNCHANGED <<lanes, fenced>>, latched' = FALSE, goal' = None,
         TypeOK', \E how \in {"SUCCEEDED", "FAILED"} : Ends(how)
  PROVE  Inv'
<1> USE DEF Inv
<1>1. running # None /\ running \in Request \ Halt /\ running \notin Drive
  BY Kinds
<1>2. RowsAgree' /\ running' = None
      /\ (\A r \in Request : state'[r] = "new" <=> state[r] = "new")
      /\ (\A r \in Request : Waits(r)' => Waits(r))
      /\ (\A r \in Request : r # running => state'[r] = state[r])
  BY <1>1, WorkKeepsRows DEF Ends
<1>3. Fences'
  BY <1>2, Kinds DEF Fences, TypeOK, lanes
<1>4. ASSUME fenced \cap Release = {}, NEW d \in fenced \cap Drive PROVE ~Waits(d)'
  <2> SUFFICES ASSUME Waits(d)' PROVE FALSE
    OBVIOUS
  <2>1. d \in Request /\ d # running /\ Waits(d)
    BY <1>1, <1>2, Kinds
  <2>2. state[d] = "ACCEPTED"
    BY <2>1 DEF Waits, RowsAgree
  <2>3. InLane(d, normal)
    BY <2>1, <2>2, LaneMembers, Kinds DEF RowsAgree
  <2> QED BY <1>1, <1>4, <2>3 DEF Fences
<1>5. LatchHoldsFence'
  <2>1. goal' \notin fenced'
    BY Kinds DEF TypeOK
  <2> QED BY <1>4, <2>1 DEF LatchHoldsFence
<1> QED BY <1>2, <1>3, <1>5 DEF GoalIsAccountedFor

(* Every call of the worker preserves the invariant.                       *)
LEMMA CallsKeepInv == Inv /\ Calls => Inv'
<1> SUFFICES ASSUME Inv, Calls PROVE Inv'
  OBVIOUS
<1> USE DEF Inv
<1>1. running # None /\ running \in Request
  BY DEF Calls, CallPose, CallMode, CallGoal, CallHalt, CallOther, TypeOK, RowsAgree
<1>2. state[running] = "RUNNING"
  BY <1>1 DEF RowsAgree
<1>3. CASE CallPose
  <2>1. \/ \E next \in {"mode", "goal", "halt"} : Goes(next) /\ running \in Drive
        \/ \E how \in {"SUCCEEDED", "FAILED"} : Ends(how)
    BY <1>3 DEF CallPose, RowsAgree
  <2>2. TypeOK'
    <3>1. located' \in BOOLEAN /\ UNCHANGED <<lanes, mediator, transform, starting, started,
                                               asked, seen, history>>
      BY <1>3 DEF CallPose, TypeOK
    <3>2. running' \in Request \cup {None}
          /\ step' \in {"idle", "pose", "mode", "goal", "halt", "call"}
          /\ state' \in [Request -> {"new", "ACCEPTED", "RUNNING", "SUCCEEDED", "FAILED"}]
      BY <1>1, <2>1, <3>1, WorkKeepsRows
    <3> QED BY <3>1, <3>2 DEF TypeOK, lanes, mediator, history
  <2>3. GoalIsAccountedFor'
    BY <1>1, <1>3, <2>1, GoalStaysAccountedFor DEF CallPose, mediator, history
  <2> QED BY <1>1, <1>3, <2>1, <2>2, <2>3, QuietCallKeepsInv DEF CallPose, mediator, history
<1>4. CASE CallMode
  <2>1. \/ \E next \in {"mode", "goal", "halt"} : Goes(next) /\ running \in Drive
        \/ \E how \in {"SUCCEEDED", "FAILED"} : Ends(how)
    BY <1>4 DEF CallMode, RowsAgree
  <2>2. TypeOK'
    BY <1>4, <2>1, <1>1, WorkKeepsRows DEF CallMode, TypeOK, lanes, nav2, history
  <2>3. GoalIsAccountedFor'
    BY <1>1, <1>4, <2>1, GoalStaysAccountedFor DEF CallMode, history
  <2> QED BY <1>1, <1>4, <2>1, <2>2, <2>3, QuietCallKeepsInv DEF CallMode, history
<1>5. CASE CallGoal
  <2>1. \/ \E next \in {"mode", "goal", "halt"} : Goes(next) /\ running \in Drive
        \/ \E how \in {"SUCCEEDED", "FAILED"} : Ends(how)
    BY <1>5 DEF CallGoal, Refused, RowsAgree
  <2>2. running \in Drive
    BY <1>5 DEF CallGoal, RowsAgree
  <2>3. TypeOK'
    BY <1>5, <2>1, <2>2, <1>1, WorkKeepsRows DEF CallGoal, TypeOK, lanes, nav2, history
  <2>4. GoalIsAccountedFor'
    <3>1. CASE goal' = running /\ Ends("SUCCEEDED")
      BY <1>1, <3>1 DEF Ends, GoalIsAccountedFor, TypeOK
    <3>2. CASE goal' = running /\ Refused
      BY <3>2 DEF Refused, Goes, GoalIsAccountedFor
    <3>3. CASE goal' = goal /\ Refused
      BY <1>5, <3>3 DEF CallGoal, Refused, Goes, GoalIsAccountedFor, history
    <3> QED BY <1>5, <3>1, <3>2, <3>3 DEF CallGoal
  <2> QED
    BY <1>1, <1>5, <2>1, <2>2, <2>3, <2>4, QuietCallKeepsInv DEF CallGoal, history
<1>6. CASE CallHalt
  <2>1. Ends("FAILED") /\ running \in Drive
    BY <1>6 DEF CallHalt, RowsAgree
  <2>2. RowsAgree' /\ running' = None
        /\ state' \in [Request -> {"new", "ACCEPTED", "RUNNING", "SUCCEEDED", "FAILED"}]
        /\ (\A r \in Request : state'[r] = "new" <=> state[r] = "new")
        /\ (\A r \in Request : Waits(r)' => Waits(r))
        /\ (\A r \in Request : r # running => state'[r] = state[r])
    BY <1>1, <1>6, <2>1, WorkKeepsRows DEF CallHalt, Ends
  <2>3. CASE Stopped /\ UNCHANGED unhalted
    <3>1. TypeOK'
      BY <1>6, <2>1, <2>2, <2>3 DEF CallHalt, Ends, Stopped, TypeOK, lanes, nav2
    <3> QED BY <1>6, <2>2, <2>3, <3>1, StoppedKeepsInv DEF CallHalt
  <2>4. CASE unhalted' = unhalted \cup {running} /\ UNCHANGED <<mediator, fenced>>
    <3>1. TypeOK'
      BY <1>6, <2>1, <2>2, <2>4 DEF CallHalt, Ends, TypeOK, lanes, nav2, mediator
    <3>2. GoalIsAccountedFor'
      BY <2>2, <2>4, Kinds DEF GoalIsAccountedFor, TypeOK, mediator
    <3>3. Fences'
      BY <1>6, <2>2, <2>4, Kinds DEF CallHalt, Fences, TypeOK, lanes
    <3>4. LatchHoldsFence'
      BY <2>2, <2>4, Kinds DEF LatchHoldsFence, TypeOK, mediator
    <3> QED BY <2>2, <3>1, <3>2, <3>3, <3>4
  <2> QED BY <1>6, <2>3, <2>4 DEF CallHalt
<1>7. CASE CallOther
  <2>1. \E how \in {"SUCCEEDED", "FAILED"} : Ends(how)
    BY <1>7 DEF CallOther
  <2>2. RowsAgree' /\ running' = None /\ step' = "idle"
        /\ state' \in [Request -> {"new", "ACCEPTED", "RUNNING", "SUCCEEDED", "FAILED"}]
        /\ (\A r \in Request : state'[r] = "new" <=> state[r] = "new")
        /\ (\A r \in Request : r # running => state'[r] = state[r])
    BY <1>1, <1>7, <2>1, WorkKeepsRows DEF CallOther, Ends
  <2>3. CASE Stopped
    <3>1. TypeOK'
      BY <1>7, <2>2, <2>3 DEF CallOther, Stopped, TypeOK, lanes
    <3> QED BY <1>7, <2>2, <2>3, <3>1, StoppedKeepsInv DEF CallOther
  <2>4. CASE running \in Release /\ mode' = "IDLE" /\ latched' = FALSE /\ goal' = None
             /\ UNCHANGED <<located, fenced>>
    <3>1. TypeOK'
      BY <1>7, <2>2, <2>4 DEF CallOther, TypeOK, lanes
    <3> QED BY <1>7, <2>1, <2>4, <3>1, ReleaseKeepsInv DEF CallOther
  <2>5. CASE UNCHANGED <<mediator, fenced>> /\ located' \in BOOLEAN
    <3>1. TypeOK'
      BY <1>7, <2>2, <2>5 DEF CallOther, TypeOK, lanes, mediator
    <3>2. GoalIsAccountedFor'
      BY <1>1, <1>7, <2>1, <2>5, GoalStaysAccountedFor DEF CallOther, mediator
    <3> QED
      BY <1>1, <1>7, <2>1, <2>5, <3>1, <3>2, QuietCallKeepsInv DEF CallOther, mediator
  <2> QED BY <1>7, <2>3, <2>4, <2>5 DEF CallOther, TypeOK
<1> QED BY <1>3, <1>4, <1>5, <1>6, <1>7 DEF Calls

(* Steps of the robot, which end goals and start none.                     *)
LEMMA RobotKeepsInv ==
  ASSUME Inv, UNCHANGED <<lanes, work, latched, history>>, goal' \in {goal, None}, TypeOK'
  PROVE  Inv'
<1> USE DEF Inv, lanes, work, history
<1>1. RowsAgree' /\ Fences'
  BY DEF RowsAgree, Fences
<1>2. None \notin fenced
  BY Kinds DEF TypeOK
<1> QED
  BY <1>1, <1>2 DEF GoalIsAccountedFor, LatchHoldsFence, Waits

(* Every step preserves the invariant.                                     *)
LEMMA NextInv == Inv /\ [Next]_vars => Inv'
<1> SUFFICES ASSUME Inv, [Next]_vars PROVE Inv'
  OBVIOUS
<1>1. CASE ProtectiveStop
  <2>1. TypeOK'
    BY <1>1 DEF ProtectiveStop, Stopped, Inv, TypeOK, lanes, work, nav2
  <2>2. RowsAgree' /\ running' = running /\ state' = state
    BY <1>1 DEF ProtectiveStop, Inv, RowsAgree, lanes, work
  <2> QED BY <1>1, <2>1, <2>2, StoppedKeepsInv DEF ProtectiveStop
<1>2. CASE Robot
  <2>1. UNCHANGED <<lanes, work, latched, history>> /\ goal' \in {goal, None}
    BY <1>2 DEF Robot, Arrives, Telemetry, Localizes, mediator
  <2>2. seen' \in [mode : {"IDLE", "AUTO", "STOPPED", "UNKNOWN"}, latched : BOOLEAN,
                   moving : BOOLEAN, ready : BOOLEAN]
    <3>1. /\ mode \in {"IDLE", "AUTO", "STOPPED"} /\ latched \in BOOLEAN
          /\ Moving \in BOOLEAN /\ (transform /\ started) \in BOOLEAN
      BY DEF Inv, TypeOK, Moving
    <3>2. CASE seen' = Report
      BY <3>1, <3>2 DEF Report
    <3>3. CASE seen' = Unknown
      BY <3>3 DEF Unknown
    <3>4. CASE seen' = seen
      BY <3>4 DEF Inv, TypeOK
    <3> QED BY <1>2, <3>2, <3>3, <3>4 DEF Robot, Arrives, Telemetry, Localizes, nav2
  <2>3. /\ UNCHANGED <<located, starting, started, asked>> /\ transform' \in BOOLEAN
        /\ mode' \in {"IDLE", "AUTO", "STOPPED"}
    BY <1>2 DEF Robot, Arrives, Telemetry, Localizes, Inv, TypeOK, mediator, nav2
  <2>4. TypeOK'
    BY <2>1, <2>2, <2>3 DEF Inv, TypeOK, lanes, work, history
  <2> QED BY <2>1, <2>4, RobotKeepsInv
<1>3. CASE Gate \/ UNCHANGED vars
  <2>1. UNCHANGED <<lanes, work, latched, history>> /\ goal' = goal
    BY <1>3 DEF Gate, GateTick, GateAnswered, mediator, vars
  <2>2. starting' \in BOOLEAN /\ started' \in BOOLEAN /\ asked' \in BOOLEAN
    BY <1>3 DEF Gate, GateTick, GateAnswered, InFlightNoMore, Inv, TypeOK, nav2, vars
  <2>3. UNCHANGED <<mode, located, transform, seen>>
    BY <1>3 DEF Gate, GateTick, GateAnswered, mediator, nav2, vars
  <2>4. TypeOK'
    BY <2>1, <2>2, <2>3 DEF Inv, TypeOK, lanes, work, history
  <2> QED BY <2>1, <2>4, RobotKeepsInv
<1> QED
  BY <1>1, <1>2, <1>3, SubmitKeepsInv, PopKeepsInv, CallsKeepInv DEF Next

(* The invariant holds in every behaviour.                                 *)
THEOREM SpecInv == Spec => []Inv
<1> QED BY InitInv, NextInv, PTL DEF Spec

(* Types, for any requests.                                                *)
THEOREM Typed == Spec => []TypeOK
<1>1. Inv => TypeOK
  BY DEF Inv
<1> QED BY <1>1, SpecInv, PTL

(* A drive that is reported failed is halted, unless its halt was lost.    *)
THEOREM FailedIsHalted == Spec => []RefusedIsHalted
<1>1. Inv => RefusedIsHalted
  BY Kinds DEF Inv, TypeOK, GoalIsAccountedFor, RefusedIsHalted, RowsAgree
<1> QED BY <1>1, SpecInv, PTL

(* No drive that was accepted before a stop is driven after it, unless a   *)
(* reset was accepted before that stop, too.                               *)
THEOREM StopFencesDrives == Spec => []NoDriveFromBeforeStop
<1>1. Inv => NoDriveFromBeforeStop
  BY DEF Inv, LatchHoldsFence, NoDriveFromBeforeStop
<1> QED BY <1>1, SpecInv, PTL
-----------------------------------------------------------------------------
(* Liveness.  The fairness of the gate's timer and of a manager that does  *)
(* not refuse for ever, with the guards written out, as the provers know   *)
(* nothing of ENABLED.                                                     *)

GateIsDue == transform /\ ~started /\ ~starting

GateTicks == []<>~GateIsDue \/ []<><<GateTick>>_vars

ManagerAccepts == <>[]~asked \/ []<><<GateAnswered(TRUE)>>_vars

(* A request in flight is one that the manager has.                        *)
FlightIsAsked == starting = asked

LEMMA FlightKept == FlightIsAsked /\ [Next]_vars => FlightIsAsked'
<1> SUFFICES ASSUME FlightIsAsked, [Next]_vars PROVE FlightIsAsked'
  OBVIOUS
<1>1. CASE GateTick
  BY <1>1 DEF GateTick, FlightIsAsked
<1>2. CASE \E success \in BOOLEAN : GateAnswered(success)
  BY <1>2 DEF GateAnswered, InFlightNoMore, FlightIsAsked
<1>3. CASE UNCHANGED <<starting, asked>>
  BY <1>3 DEF FlightIsAsked
<1> QED
  BY <1>1, <1>2, <1>3
     DEF Next, Gate, Submit, Pop, Calls, CallPose, CallMode, CallGoal, CallHalt, CallOther,
         ProtectiveStop, Robot, Arrives, Telemetry, Localizes, nav2, vars

(* A transform stays.                                                      *)
LEMMA TransformStays == transform /\ [Next]_vars => transform'
BY DEF Next, Gate, GateTick, GateAnswered, Submit, Pop, Calls, CallPose, CallMode, CallGoal,
       CallHalt, CallOther, ProtectiveStop, Robot, Arrives, Telemetry, Localizes, nav2, vars

(* A localized robot gets its Nav2: as long as it has none, a request is   *)
(* under way or due, and the manager, asked again and again, accepts one   *)
(* in the end.  That every request is answered follows and is not needed.  *)
THEOREM GateStartsNav2 == Spec /\ GateTicks /\ ManagerAccepts => GateStarts
<1> DEFINE T == transform
           S == started
           A == asked
           F == FlightIsAsked
           Due == GateIsDue
<1>1. Spec => F /\ [][Next]_vars
  BY DEF Spec, Init, FlightIsAsked
<1>2. F /\ [Next]_vars => F'
  BY FlightKept
<1>3. T /\ [Next]_vars => T'
  BY TransformStays
<1>4. F /\ T /\ ~S /\ ~A => Due
  BY DEF GateIsDue, FlightIsAsked
<1>5. <<GateTick>>_vars => A'
  BY DEF GateTick
<1>6. <<GateAnswered(TRUE)>>_vars => S'
  BY DEF GateAnswered
<1>7. GateTicks <=> ([]<>~Due \/ []<><<GateTick>>_vars)
  BY DEF GateTicks
<1>8. ManagerAccepts <=> (<>[]~A \/ []<><<GateAnswered(TRUE)>>_vars)
  BY DEF ManagerAccepts
<1>9. GateStarts <=> (T ~> S)
  BY DEF GateStarts
<1> HIDE DEF T, S, A, F, Due
<1> QED BY <1>1, <1>2, <1>3, <1>4, <1>5, <1>6, <1>7, <1>8, <1>9, PTL
=============================================================================
