--------------------------- MODULE CommandJournal ---------------------------
(***************************************************************************)
(* What whoever sends commands is promised about the record that he reads: *)
(* a command is on it once it was accepted, is executed at most once, and  *)
(* the end that is written there is the last word.  No restart of the      *)
(* server takes anything of this back.  Only a command that nobody has     *)
(* executed may be struck out, when there is no room for it; it may then   *)
(* be sent again.                                                          *)
(***************************************************************************)
CONSTANT Command

VARIABLES
  journal,   \* [Command -> the state of its row]
  executed   \* the commands whose execution has begun

Ending == {"SUCCEEDED", "FAILED", "TIMED_OUT"}

Init == journal = [c \in Command |-> "NONE"] /\ executed = {}

Accept(c) ==
  /\ journal[c] = "NONE" /\ journal' = [journal EXCEPT ![c] = "ACCEPTED"]
  /\ UNCHANGED executed

Strike(c) ==
  /\ journal[c] = "ACCEPTED" /\ journal' = [journal EXCEPT ![c] = "NONE"]
  /\ UNCHANGED executed

Execute(c) ==
  /\ journal[c] = "ACCEPTED" /\ c \notin executed
  /\ journal' = [journal EXCEPT ![c] = "RUNNING"]
  /\ executed' = executed \cup {c}

(* One look at the robots may conclude several stops.                      *)
Conclude ==
  /\ DOMAIN journal' = Command
  /\ \A c \in Command :
       journal'[c] = journal[c] \/ (journal[c] = "RUNNING" /\ journal'[c] \in Ending)
  /\ UNCHANGED executed

Next == Conclude \/ \E c \in Command : Accept(c) \/ Strike(c) \/ Execute(c)

Spec == Init /\ [][Next]_<<journal, executed>>
=============================================================================
