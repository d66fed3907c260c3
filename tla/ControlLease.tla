--------------------------- MODULE ControlLease ---------------------------
(***************************************************************************)
(* Login sessions and the control lease: the tables sessions and           *)
(* control_leases of Storage, the handlers that use them and the watchdog  *)
(* that cleans them up.  A request is authenticated in a worker thread and *)
(* handled later on the event loop; the clock and other requests run in    *)
(* between.  Tokens of sessions and ids of leases are drawn at random and  *)
(* never repeat.                                                           *)
(***************************************************************************)
EXTENDS Naturals, FiniteSets

CONSTANTS
  Session,    (* the session tokens of a behaviour                         *)
  LeaseId,    (* the lease ids of a behaviour                              *)
  MaxPending  (* bound: requests between authentication and handler        *)

ASSUME PendingBound == MaxPending \in Nat

VARIABLES
  session,   (* "expired": past expires_at, its row not yet deleted        *)
  leases,    (* rows of control_leases; live: expires_at is still ahead    *)
  issued,    (* lease ids drawn so far                                     *)
  requests   (* authenticated requests whose handler has not run           *)

vars == <<session, leases, issued, requests>>

Lease   == [id : LeaseId, owner : Session, live : BOOLEAN]
Request == [by : Session, op : {"acquire", "logout"}]
             \cup [by : Session, op : {"renew", "release"}, id : LeaseId]

TypeOK ==
  /\ session \in [Session -> {"none", "live", "expired", "gone"}]
  /\ leases \subseteq Lease
  /\ issued \subseteq LeaseId
  /\ requests \subseteq Request

Init ==
  /\ session = [s \in Session |-> "none"]
  /\ leases = {} /\ issued = {} /\ requests = {}

Live == {l \in leases : l.live}

-----------------------------------------------------------------------------
(* Sessions.  Logging in also deletes the sessions that ran out.           *)

Purged == [s \in Session |-> IF session[s] = "expired" THEN "gone" ELSE session[s]]

Login(s) ==
  /\ session[s] = "none"
  /\ session' = [Purged EXCEPT ![s] = "live"]
  /\ UNCHANGED <<leases, issued, requests>>

Authenticate(r) ==
  /\ session[r.by] = "live"
  /\ r \notin requests /\ Cardinality(requests) < MaxPending
  /\ requests' = requests \cup {r}
  /\ UNCHANGED <<session, leases, issued>>

Logout(r) ==
  /\ r.op = "logout"
  /\ leases' = {l \in leases : l.owner # r.by}
  /\ session' = [session EXCEPT ![r.by] = "gone"]
  /\ UNCHANGED issued

-----------------------------------------------------------------------------
(* The lease.  Granting deletes what ran out, keeps the id of a lease that *)
(* its owner still holds, and on a conflict rolls the deletion back.       *)

GrantOver(s, kept) ==
  \/ /\ kept = {}
     /\ \E id \in LeaseId \ issued :
          /\ leases' = {[id |-> id, owner |-> s, live |-> TRUE]}
          /\ issued' = issued \cup {id}
  \/ /\ \E l \in kept : l.owner = s
     /\ leases' = {[l EXCEPT !.live = TRUE] : l \in kept}
     /\ UNCHANGED issued
  \/ /\ \E l \in kept : l.owner # s
     /\ UNCHANGED <<leases, issued>>

GrantRevives(s) == GrantOver(s, leases)
Grant(s)        == GrantOver(s, Live)

Acquire(r) ==
  /\ r.op = "acquire"
  /\ Grant(r.by)
  /\ UNCHANGED session

Renew(r) ==
  /\ r.op = "renew"
  /\ IF \E l \in Live : l.id = r.id /\ l.owner = r.by
       THEN Grant(r.by) ELSE UNCHANGED <<leases, issued>>
  /\ UNCHANGED session

Release(r) ==
  /\ r.op = "release"
  /\ leases' = {l \in leases : ~(l.id = r.id /\ l.owner = r.by)}
  /\ UNCHANGED <<session, issued>>

Handle(r) ==
  /\ r \in requests
  /\ requests' = requests \ {r}
  /\ Acquire(r) \/ Renew(r) \/ Release(r) \/ Logout(r)

-----------------------------------------------------------------------------
(* The clock and the watchdog                                              *)

LeaseElapses(l) ==
  /\ l \in Live
  /\ leases' = (leases \ {l}) \cup {[l EXCEPT !.live = FALSE]}
  /\ UNCHANGED <<session, issued, requests>>

SessionElapses(s) ==
  /\ session[s] = "live"
  /\ session' = [session EXCEPT ![s] = "expired"]
  /\ UNCHANGED <<leases, issued, requests>>

(* expire_security: a lease that ran out and a lease whose session ran out *)
(* are losses of control; runtime_tick answers a loss by stopping both     *)
(* robots.                                                                 *)
LostBySession == {l \in leases : session[l.owner] = "expired"}
Lost == {l \in leases : ~l.live \/ session[l.owner] = "expired"}

ExpireSecurity ==
  /\ Lost # {} \/ Purged # session
  /\ leases' = leases \ Lost
  /\ session' = Purged
  /\ UNCHANGED <<issued, requests>>

-----------------------------------------------------------------------------
Next ==
  \/ \E s \in Session : Login(s) \/ SessionElapses(s)
  \/ \E r \in Request : Authenticate(r)
  \/ \E r \in requests : Handle(r)
  \/ \E l \in leases : LeaseElapses(l)
  \/ ExpireSecurity

Spec == Init /\ [][Next]_vars

(* Handlers run, the watchdog ticks, and a lease that no live session can  *)
(* renew runs out.  A lease that is renewed in time never has to.          *)
Unattended == \E l \in Live : session[l.owner] # "live" /\ LeaseElapses(l)

Fairness ==
  /\ WF_vars(ExpireSecurity)
  /\ WF_vars(Unattended)
  /\ \A r \in Request : WF_vars(Handle(r))

FairSpec == Spec /\ Fairness

-----------------------------------------------------------------------------
(* At most one row: the grant's LIMIT 1 always sees every competitor.      *)
OneLease == \A k, l \in leases : k = l

(* The tables implement the promise of ControlAuthority: leases that are   *)
(* live are the grant in force, lease ids are its tokens.                  *)
Authority == INSTANCE ControlAuthority WITH
  authority <- {[by |-> l.owner, token |-> l.id] : l \in Live},
  spent <- issued

FencedAuthority == Authority!Spec

(* A session that ended loses the lease for good, although a request it    *)
(* made before may still take or renew the lease afterwards.               *)
EndedSessionLosesControl ==
  \A s \in Session :
    session[s] \in {"expired", "gone"} ~> [](\A l \in leases : l.owner # s)
=============================================================================
