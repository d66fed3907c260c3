------------------------- MODULE ControlAuthority -------------------------
(***************************************************************************)
(* What the control lease promises: at most one session may operate the    *)
(* robots, authority changes hands only through a moment when nobody has   *)
(* it, and each grant carries a token that no earlier grant carried, so a  *)
(* client that lost its grant cannot act on the next one.                  *)
(***************************************************************************)
CONSTANTS Session, LeaseId

VARIABLES
  authority,  (* the grant in force, if any: a set of at most one          *)
  spent       (* tokens of all grants so far                               *)

Init == authority = {} /\ spent = {}

Grant(s, t) ==
  /\ authority = {}
  /\ t \notin spent
  /\ authority' = {[by |-> s, token |-> t]}
  /\ spent' = spent \cup {t}

Lose ==
  /\ authority # {}
  /\ authority' = {}
  /\ UNCHANGED spent

Next == Lose \/ \E s \in Session, t \in LeaseId : Grant(s, t)

Spec == Init /\ [][Next]_<<authority, spent>>
=============================================================================
