------------------------ MODULE ControlLease_proofs ------------------------
(***************************************************************************)
(* For any number of sessions and leases: the table of leases has one row  *)
(* at most, and it implements ControlAuthority.  The implementation proof  *)
(* needs OneLease: a row that goes takes all authority with it.  The last  *)
(* part is about another row that requests read, await and then write: the *)
(* active settings, for any number of pages.                               *)
(***************************************************************************)
EXTENDS ControlLease, SettingsService, TLAPS

(* The id of a stored lease was drawn, so a new one differs from it.       *)
IdsIssued == \A l \in leases : l.id \in issued

Inv == TypeOK /\ OneLease /\ IdsIssued

-----------------------------------------------------------------------------
(* Granting leaves one row, of a drawn id.                                 *)
LEMMA GrantInv ==
  ASSUME Inv, NEW s \in Session, Grant(s)
  PROVE  /\ leases' \subseteq Lease /\ issued' \subseteq LeaseId
         /\ OneLease' /\ IdsIssued'
<1> USE DEF Inv, TypeOK, OneLease, IdsIssued
<1>1. CASE Live = {} /\ \E id \in LeaseId \ issued :
             /\ leases' = {[id |-> id, owner |-> s, live |-> TRUE]}
             /\ issued' = issued \cup {id}
  BY <1>1 DEF Lease
<1>2. CASE leases' = {[l EXCEPT !.live = TRUE] : l \in Live} /\ UNCHANGED issued
  <2>1. \A l \in Live : l \in leases /\ [l EXCEPT !.live = TRUE] = l
    BY DEF Live, Lease
  <2>2. leases' \subseteq leases
    BY <1>2, <2>1
  <2> QED BY <1>2, <2>2
<1>3. CASE UNCHANGED <<leases, issued>>
  BY <1>3
<1> QED BY <1>1, <1>2, <1>3 DEF Grant, GrantOver

(* Deleting rows preserves the invariant.                                  *)
LEMMA DeleteInv ==
  ASSUME Inv, leases' \subseteq leases, UNCHANGED issued
  PROVE  leases' \subseteq Lease /\ OneLease' /\ IdsIssued'
  BY DEF Inv, TypeOK, OneLease, IdsIssued

(* Every request has an author.                                            *)
LEMMA Author == \A r \in Request : r.by \in Session
  BY DEF Request

(* The initial state satisfies the invariant.                              *)
LEMMA InitInv == Init => Inv
  BY DEF Init, Inv, TypeOK, OneLease, IdsIssued

(* Every step preserves the invariant.                                     *)
LEMMA NextInv == Inv /\ [Next]_vars => Inv'
<1> SUFFICES ASSUME Inv, [Next]_vars PROVE Inv'
  OBVIOUS
<1> USE DEF Inv
<1>0. Purged \in [Session -> {"none", "live", "expired", "gone"}]
  BY DEF Purged, TypeOK
<1>1. ASSUME NEW s \in Session, Login(s) PROVE Inv'
  BY <1>0, <1>1 DEF Login, TypeOK, OneLease, IdsIssued
<1>2. ASSUME NEW s \in Session, SessionElapses(s) PROVE Inv'
  BY <1>2 DEF SessionElapses, TypeOK, OneLease, IdsIssued
<1>3. ASSUME NEW r \in Request, Authenticate(r) PROVE Inv'
  BY <1>3 DEF Authenticate, TypeOK, OneLease, IdsIssued
<1>4. ASSUME NEW r \in requests, Handle(r) PROVE Inv'
  <2>1. r \in Request /\ r.by \in Session
    BY Author DEF TypeOK
  <2>2. requests' \subseteq Request
    BY <1>4 DEF Handle, TypeOK
  <2>3. CASE Acquire(r)
    BY <2>1, <2>2, <2>3, GrantInv DEF Acquire, TypeOK
  <2>4. CASE Renew(r)
    <3>1. CASE Grant(r.by)
      BY <2>1, <2>2, <2>4, <3>1, GrantInv DEF Renew, TypeOK
    <3>2. CASE UNCHANGED <<leases, issued>>
      BY <2>2, <2>4, <3>2 DEF Renew, TypeOK, OneLease, IdsIssued
    <3> QED BY <2>4, <3>1, <3>2 DEF Renew
  <2>5. CASE Release(r)
    <3>1. leases' \subseteq leases
      BY <2>5 DEF Release
    <3> QED BY <2>2, <2>5, <3>1, DeleteInv DEF Release, TypeOK
  <2>6. CASE Logout(r)
    <3>1. leases' \subseteq leases
      BY <2>6 DEF Logout
    <3> QED BY <2>1, <2>2, <2>6, <3>1, DeleteInv DEF Logout, TypeOK
  <2> QED BY <1>4, <2>3, <2>4, <2>5, <2>6 DEF Handle
<1>5. ASSUME NEW l \in leases, LeaseElapses(l) PROVE Inv'
  <2>1. leases = {l} /\ l \in Lease
    BY DEF OneLease, TypeOK
  <2>2. leases' = {[l EXCEPT !.live = FALSE]}
    BY <1>5, <2>1 DEF LeaseElapses
  <2>3. [l EXCEPT !.live = FALSE] \in Lease /\ [l EXCEPT !.live = FALSE].id = l.id
    BY <2>1 DEF Lease
  <2>4. leases' \subseteq Lease /\ OneLease' /\ IdsIssued'
    BY <1>5, <2>2, <2>3 DEF LeaseElapses, OneLease, IdsIssued
  <2> QED BY <1>5, <2>4 DEF LeaseElapses, TypeOK
<1>6. CASE ExpireSecurity
  <2>1. leases' \subseteq leases
    BY <1>6 DEF ExpireSecurity
  <2> QED BY <1>0, <1>6, <2>1, DeleteInv DEF ExpireSecurity, TypeOK
<1>7. CASE UNCHANGED vars
  BY <1>7 DEF vars, TypeOK, OneLease, IdsIssued
<1> QED BY <1>1, <1>2, <1>3, <1>4, <1>5, <1>6, <1>7 DEF Next

(* The invariant holds in every behaviour.                                 *)
THEOREM SpecInv == Spec => []Inv
  BY InitInv, NextInv, PTL DEF Spec

(* Every variable keeps its type.                                          *)
THEOREM Typed == Spec => []TypeOK
  BY SpecInv, PTL DEF Inv

(* The table never holds two leases, so no two sessions operate at once.   *)
THEOREM SingleOperator == Spec => []OneLease
  BY SpecInv, PTL DEF Inv

-----------------------------------------------------------------------------
(* Implementation of ControlAuthority                                      *)

Held == {[by |-> l.owner, token |-> l.id] : l \in Live}

(* Authority is empty exactly when no lease is live.                       *)
LEMMA HeldEmpty == Held = {} <=> Live = {}
  BY DEF Held

(* Deleting the row ends all authority or leaves it as it is.              *)
LEMMA DeleteLoses ==
  ASSUME Inv, leases' \subseteq leases, UNCHANGED issued
  PROVE  Authority!Lose \/ UNCHANGED <<Held, issued>>
<1>1. leases' = leases \/ leases' = {}
  BY DEF Inv, OneLease
<1>2. CASE leases' = leases
  BY <1>2 DEF Held, Live
<1>3. CASE leases' = {}
  <2>1. Live' = {} /\ Held' = {}
    BY <1>3 DEF Live, Held
  <2> QED BY <2>1 DEF Authority!Lose, Held
<1> QED BY <1>1, <1>2, <1>3

(* Granting is a grant of the abstract specification, or changes nothing.  *)
LEMMA GrantRefines ==
  ASSUME Inv, NEW s \in Session, Grant(s)
  PROVE  (\E t \in LeaseId : Authority!Grant(s, t)) \/ UNCHANGED <<Held, issued>>
<1>1. ASSUME NEW t \in LeaseId \ issued, Live = {},
             leases' = {[id |-> t, owner |-> s, live |-> TRUE]},
             issued' = issued \cup {t}
      PROVE  Authority!Grant(s, t)
  <2>1. Live' = {[id |-> t, owner |-> s, live |-> TRUE]}
    BY <1>1 DEF Live
  <2>2. Held' = {[by |-> s, token |-> t]}
    BY <2>1 DEF Held
  <2> QED BY <1>1, <2>2, HeldEmpty DEF Authority!Grant, Held
<1>2. CASE leases' = {[l EXCEPT !.live = TRUE] : l \in Live} /\ UNCHANGED issued
  <2>1. \A l \in Live : [l EXCEPT !.live = TRUE] = l /\ l.live
    BY DEF Inv, TypeOK, Live, Lease
  <2>2. leases' = Live
    BY <1>2, <2>1
  <2>3. Live' = Live
    BY <2>1, <2>2 DEF Live
  <2> QED BY <1>2, <2>3 DEF Held
<1>3. CASE UNCHANGED <<leases, issued>>
  BY <1>3 DEF Held, Live
<1> QED BY <1>1, <1>2, <1>3 DEF Grant, GrantOver

(* Initially nobody has authority.                                         *)
LEMMA InitRefines == Init => Authority!Init
  BY DEF Init, Authority!Init, Live

(* Every step of the tables is a step of ControlAuthority or a stutter.    *)
LEMMA StepRefines == Inv /\ [Next]_vars => [Authority!Next]_<<Held, issued>>
<1> SUFFICES ASSUME Inv, [Next]_vars
             PROVE  Authority!Next \/ UNCHANGED <<Held, issued>>
  OBVIOUS
<1>1. ASSUME UNCHANGED <<leases, issued>> PROVE UNCHANGED <<Held, issued>>
  BY <1>1 DEF Held, Live
<1>2. ASSUME NEW r \in requests, Handle(r)
      PROVE  Authority!Next \/ UNCHANGED <<Held, issued>>
  <2>1. r.by \in Session
    BY Author DEF Inv, TypeOK
  <2>2. CASE Acquire(r)
    BY <2>1, <2>2, GrantRefines DEF Acquire, Authority!Next
  <2>3. CASE Renew(r)
    BY <1>1, <2>1, <2>3, GrantRefines DEF Renew, Authority!Next
  <2>4. CASE Release(r)
    <3>1. leases' \subseteq leases
      BY <2>4 DEF Release
    <3> QED BY <2>4, <3>1, DeleteLoses DEF Release, Authority!Next
  <2>5. CASE Logout(r)
    <3>1. leases' \subseteq leases
      BY <2>5 DEF Logout
    <3> QED BY <2>5, <3>1, DeleteLoses DEF Logout, Authority!Next
  <2> QED BY <1>2, <2>2, <2>3, <2>4, <2>5 DEF Handle
<1>3. ASSUME NEW l \in leases, LeaseElapses(l) PROVE Authority!Next
  <2>1. leases = {l} /\ l \in Lease /\ Live # {}
    BY <1>3 DEF Inv, OneLease, TypeOK, LeaseElapses
  <2>2. leases' = {[l EXCEPT !.live = FALSE]}
    BY <1>3, <2>1 DEF LeaseElapses
  <2>3. Live' = {}
    BY <2>1, <2>2 DEF Live, Lease
  <2> QED BY <1>3, <2>1, <2>3, HeldEmpty
          DEF Held, LeaseElapses, Authority!Next, Authority!Lose
<1>4. CASE ExpireSecurity
  <2>1. leases' \subseteq leases
    BY <1>4 DEF ExpireSecurity
  <2> QED BY <1>4, <2>1, DeleteLoses DEF ExpireSecurity, Authority!Next
<1> QED
  BY <1>1, <1>2, <1>3, <1>4 DEF Next, Login, SessionElapses, Authenticate, vars

(* The lease tables implement the abstract authority: at most one holder,  *)
(* changes of hands only through nobody, a new token for each grant.       *)
THEOREM Implements == Spec => FencedAuthority
<1>1. Inv /\ [Next]_vars
        => [Authority!Next]_<<{[by |-> l.owner, token |-> l.id] : l \in Live}, issued>>
  BY StepRefines DEF Held
<1> QED BY InitRefines, <1>1, SpecInv, PTL DEF Spec, FencedAuthority, Authority!Spec

-----------------------------------------------------------------------------
(* Sessions that ended                                                     *)

Ended(s) == session[s] \in {"expired", "gone"}
Asking(s) == \E r \in requests : r.by = s
Holding(s) == \E l \in leases : l.owner = s
HoldingLive(s) == \E l \in Live : l.owner = s

(* Nothing revives a session that ended, and nothing is asked for in its   *)
(* name after that.                                                        *)
LEMMA EndedStays ==
  ASSUME Inv, [Next]_vars, NEW s \in Session, Ended(s)
  PROVE  Ended(s)' /\ \A r \in requests' : r.by = s => r \in requests
<1> USE DEF Inv, TypeOK, Ended, Purged
<1>1. ASSUME NEW t \in Session, Login(t) \/ SessionElapses(t)
      PROVE  Ended(s)' /\ requests' = requests
  BY <1>1 DEF Login, SessionElapses
<1>2. ASSUME NEW r \in Request, Authenticate(r)
      PROVE  Ended(s)' /\ requests' = requests \cup {r} /\ r.by # s
  BY <1>2 DEF Authenticate
<1>3. ASSUME NEW r \in requests, Handle(r)
      PROVE  Ended(s)' /\ requests' \subseteq requests
  <2>1. r.by \in Session
    BY Author
  <2> QED BY <1>3, <2>1 DEF Handle, Acquire, Renew, Release, Logout
<1>4. ASSUME NEW l \in leases, LeaseElapses(l) PROVE Ended(s)' /\ requests' = requests
  BY <1>4 DEF LeaseElapses
<1>5. CASE ExpireSecurity
  BY <1>5 DEF ExpireSecurity
<1>6. CASE UNCHANGED vars
  BY <1>6 DEF vars
<1> QED BY <1>1, <1>2, <1>3, <1>4, <1>5, <1>6 DEF Next

(* Only a handler of its own request gives a session a lease, or makes one *)
(* of its leases live again.                                               *)
LEMMA OnlyOwnRequestGrants ==
  ASSUME Inv, [Next]_vars, NEW s \in Session, ~Asking(s)
  PROVE  /\ Holding(s)' => Holding(s)
         /\ HoldingLive(s)' => HoldingLive(s)
<1> USE DEF Holding, HoldingLive, Live
<1>1. CASE leases' \subseteq leases
  BY <1>1
<1>2. ASSUME NEW r \in requests, Grant(r.by)
      PROVE  \A l \in leases' : l.owner = s => l \in leases
  <2>1. r.by # s
    BY DEF Asking
  <2>2. \A l \in Live : l \in leases /\ [l EXCEPT !.live = TRUE] = l
    BY DEF Inv, TypeOK, Lease
  <2>3. leases' \subseteq leases \/ \A l \in leases' : l.owner = r.by
    <3>1. {[l EXCEPT !.live = TRUE] : l \in Live} \subseteq leases
      BY <2>2
    <3> QED BY <1>2, <3>1 DEF Grant, GrantOver
  <2> QED BY <2>1, <2>3
<1>3. ASSUME NEW r \in requests, Handle(r)
      PROVE  \A l \in leases' : l.owner = s => l \in leases
  BY <1>2, <1>3 DEF Handle, Acquire, Renew, Release, Logout
<1>4. ASSUME NEW l \in leases, LeaseElapses(l)
      PROVE  /\ Holding(s)' => Holding(s)
             /\ HoldingLive(s)' => HoldingLive(s)
  BY <1>4 DEF LeaseElapses, Inv, TypeOK, Lease
<1> QED BY <1>1, <1>3, <1>4 DEF Next, Login, SessionElapses, Authenticate, ExpireSecurity, vars

(* Safety: once a session has ended and its requests are answered, a lease *)
(* it does not hold it never gets.                                         *)
THEOREM EndedNeverRegains ==
  ASSUME NEW s \in Session
  PROVE  Spec => [](Ended(s) /\ ~Asking(s) /\ ~Holding(s) => []~Holding(s))
<1>1. Inv /\ [Next]_vars /\ Ended(s) /\ ~Asking(s) /\ ~Holding(s)
        => (Ended(s) /\ ~Asking(s) /\ ~Holding(s))'
  BY EndedStays, OnlyOwnRequestGrants DEF Asking
<1> QED BY <1>1, SpecInv, PTL DEF Spec

(* Fairness of the tick and of the clock of leases that nobody can renew:  *)
(* WF of ControlLease with the guards of the actions written out, as the   *)
(* provers know nothing of ENABLED.                                        *)
TickRuns == []<>(Lost = {} /\ Purged = session) \/ []<><<ExpireSecurity>>_vars
LeasesRunOut == []<>(\A l \in Live : session[l.owner] = "live") \/ []<><<Unattended>>_vars

(* Liveness: the lease of a session that has ended, whose requests are     *)
(* answered, goes within the tick and its time to live, and stays gone.    *)
THEOREM EndedLosesLease ==
  ASSUME NEW s \in Session
  PROVE  Spec /\ TickRuns /\ LeasesRunOut
           => (Ended(s) /\ ~Asking(s) ~> []~Holding(s))
<1> DEFINE P == Ended(s) /\ ~Asking(s)
           L == HoldingLive(s)
           H == Holding(s)
           GT == Lost = {} /\ Purged = session
           GL == \A l \in Live : session[l.owner] = "live"
<1>1. Inv /\ [Next]_vars /\ P => P'
  BY EndedStays DEF Asking
<1>2. Inv /\ [Next]_vars /\ P => (~L => ~L') /\ (~H => ~H')
  BY OnlyOwnRequestGrants
<1>3. Inv /\ P /\ L => ~GL
  BY DEF HoldingLive, Ended
<1>4. Inv /\ P /\ L /\ <<Unattended>>_vars => ~L'
  <2> SUFFICES ASSUME Inv, P, L, Unattended PROVE ~L'
    OBVIOUS
  <2> PICK l \in Live : LeaseElapses(l)
    BY DEF Unattended
  <2>1. leases = {l} /\ l \in Lease
    BY DEF Inv, TypeOK, OneLease, Live
  <2>2. leases' = {[l EXCEPT !.live = FALSE]}
    BY <2>1 DEF LeaseElapses
  <2> QED BY <2>1, <2>2 DEF HoldingLive, Live, Lease
<1>5. Inv /\ P /\ ~L /\ H => ~GT
  BY DEF HoldingLive, Holding, Live, Lost, Inv, TypeOK
<1>6. Inv /\ P /\ ~L /\ H /\ <<ExpireSecurity>>_vars => ~H'
  BY DEF HoldingLive, Holding, Live, Lost, ExpireSecurity
<1>7. TickRuns => []<>GT \/ []<><<ExpireSecurity>>_vars
  BY DEF TickRuns
<1>8. LeasesRunOut => []<>GL \/ []<><<Unattended>>_vars
  BY DEF LeasesRunOut
<1>9. (Ended(s) /\ ~Asking(s) ~> []~Holding(s)) <=> (P ~> []~H)
  OBVIOUS
<1>10. L => H
  BY DEF HoldingLive, Holding, Live
<1> HIDE DEF P, L, H, GT, GL
<1> QED BY <1>1, <1>2, <1>3, <1>4, <1>5, <1>6, <1>7, <1>8, <1>9, <1>10, SpecInv, PTL DEF Spec
-----------------------------------------------------------------------------
(* Settings                                                                *)

Updating == {"applying", "storing"}

(* The lock is held by the one update that is past the comparison.         *)
LockIsHeld == \A u \in Client : page[u] \in Updating <=> lock = u

(* The version that was compared is still the version of the row: what the *)
(* adapter was given is never refused by the database.                     *)
AppliedIsStored ==
  foreign = 0 => \A u \in Client : page[u] \in Updating => wanted[u].version = version

(* Until it takes the new values the adapter has the stored ones.          *)
AdapterFollows ==
  foreign = 0 => \A u \in Client :
    /\ page[u] = "applying" => applied = active
    /\ page[u] = "storing" => applied = wanted[u].map

SettingsInv ==
  SettingsTypeOK /\ LockIsHeld /\ AppliedIsStored /\ AdapterFollows /\ SettingsAgree

(* The first start satisfies the invariant.                                *)
LEMMA SettingsInitInv == SettingsInit => SettingsInv
  BY SettingsAssumption DEF SettingsInit, SettingsInv, SettingsTypeOK, LockIsHeld, Updating,
     AppliedIsStored, AdapterFollows, SettingsAgree

(* Every step of an update, another process and a restart preserve it.     *)
LEMMA SettingsNextInv == SettingsInv /\ [SettingsNext]_settings => SettingsInv'
<1> SUFFICES ASSUME SettingsInv, [SettingsNext]_settings PROVE SettingsInv'
  OBVIOUS
<1> USE SettingsAssumption
    DEF SettingsInv, SettingsTypeOK, LockIsHeld, Updating, AppliedIsStored, AdapterFollows,
        SettingsAgree
<1>1. CASE ForeignStore
  BY <1>1 DEF ForeignStore
<1>2. CASE RestartSettings
  BY <1>2 DEF RestartSettings
<1>3. ASSUME NEW u \in Client, Asks(u) PROVE SettingsInv'
  <2> PICK m \in Map : wanted' = [wanted EXCEPT ![u] = [version |-> version, map |-> m]]
    BY <1>3 DEF Asks
  <2>1. wanted' \in [Client -> [version : Nat, map : Map]]
    OBVIOUS
  <2> QED BY <1>3, <2>1 DEF Asks
<1>4. ASSUME NEW u \in Client, NEW safe \in BOOLEAN, Enters(u, safe) PROVE SettingsInv'
  BY <1>4 DEF Enters, LockFree
<1>5. ASSUME NEW u \in Client, Applies(u) PROVE SettingsInv'
  BY <1>5 DEF Applies
<1>6. ASSUME NEW u \in Client, ApplyFails(u) PROVE SettingsInv'
  BY <1>6 DEF ApplyFails, Leaves
<1>7. ASSUME NEW u \in Client, Stores(u) PROVE SettingsInv'
  BY <1>7 DEF Stores, Leaves
<1>8. CASE UNCHANGED settings
  BY <1>8 DEF settings
<1> QED BY <1>1, <1>2, <1>3, <1>4, <1>5, <1>6, <1>7, <1>8 DEF SettingsNext

(* Whatever pages update at once, whatever fails and wherever the server   *)
(* dies: between updates the adapter works with the stored settings, until *)
(* another process writes them.                                            *)
THEOREM AdapterHasStored == SettingsSpec => []SettingsAgree
<1>1. SettingsInv => SettingsAgree
  BY DEF SettingsInv
<1> QED BY <1>1, SettingsInitInv, SettingsNextInv, PTL DEF SettingsSpec

(* An update that the adapter took is never lost to a newer version: of    *)
(* the concurrent updates of one version the database stores the one that  *)
(* was applied.                                                            *)
THEOREM NoAppliedUpdateLost == SettingsSpec => []AppliedIsStored
<1>1. SettingsInv => AppliedIsStored
  BY DEF SettingsInv
<1> QED BY <1>1, SettingsInitInv, SettingsNextInv, PTL DEF SettingsSpec
=============================================================================
