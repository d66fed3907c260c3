--------------------------- MODULE SettingsService ---------------------------
(***************************************************************************)
(* The active settings: one versioned row in the database, and a copy that *)
(* the adapter was given.  An update compares the version its client read, *)
(* has the adapter apply the values and only then stores them, and holds   *)
(* one lock meanwhile; the adapter may take its time to answer.  Of the    *)
(* settings only the active map is told apart.                             *)
(***************************************************************************)
EXTENDS Integers

CONSTANTS
  Map,         \* the maps
  Client,      \* the settings pages
  Nobody,      \* who holds a lock that is free
  MaxVersion,  \* bound: the version up to which updates are asked for
  MaxForeign,  \* bound: writes of another process
  MaxRestarts  \* bound: restarts of the server

ASSUME SettingsAssumption ==
  Map # {} /\ Nobody \notin Client /\ MaxVersion \in Nat /\ MaxForeign \in Nat
  /\ MaxRestarts \in Nat

VARIABLES
  version, active,   \* the row of active_settings
  applied,           \* what the adapter was given last
  lock,              \* who holds _update_lock
  page,              \* where the update of a client is
  wanted,            \* the version and the map in its request
  foreign,           \* writes of another process since the last start
  restarts

settings == <<version, active, applied, lock, page, wanted, foreign, restarts>>

SettingsTypeOK ==
  /\ version \in Nat /\ active \in Map /\ applied \in Map
  /\ lock \in Client \cup {Nobody}
  /\ page \in [Client -> {"idle", "asking", "applying", "storing"}]
  /\ wanted \in [Client -> [version : Nat, map : Map]]
  /\ foreign \in Nat /\ restarts \in Nat

SettingsInit ==
  /\ version = 1 /\ active \in Map /\ applied = active
  /\ lock = Nobody /\ page = [u \in Client |-> "idle"]
  /\ wanted = [u \in Client |-> [version |-> 1, map |-> active]]
  /\ foreign = 0 /\ restarts = 0
-----------------------------------------------------------------------------
(* A page sends back the version it read with the map its user chose.      *)
Asks(u) ==
  /\ page[u] = "idle" /\ version <= MaxVersion
  /\ page' = [page EXCEPT ![u] = "asking"]
  /\ \E m \in Map : wanted' = [wanted EXCEPT ![u] = [version |-> version, map |-> m]]
  /\ UNCHANGED <<version, active, applied, lock, foreign, restarts>>

(* Mutant: the update takes no lock.                                       *)
Unlocked == TRUE
LockFree == lock = Nobody

(* safe is what _can_change finds.                                         *)
Enters(u, safe) ==
  /\ page[u] = "asking" /\ LockFree
  /\ IF wanted[u].version = version /\ safe
     THEN lock' = u /\ page' = [page EXCEPT ![u] = "applying"]
     ELSE page' = [page EXCEPT ![u] = "idle"] /\ UNCHANGED lock
  /\ UNCHANGED <<version, active, applied, wanted, foreign, restarts>>

Leaves(u) == lock' = Nobody /\ page' = [page EXCEPT ![u] = "idle"]

Applies(u) ==
  /\ page[u] = "applying"
  /\ applied' = wanted[u].map
  /\ page' = [page EXCEPT ![u] = "storing"]
  /\ UNCHANGED <<version, active, lock, wanted, foreign, restarts>>

ApplyFails(u) ==
  /\ page[u] = "applying"
  /\ Leaves(u)
  /\ UNCHANGED <<version, active, applied, wanted, foreign, restarts>>

(* update_settings: the version must still be the one that was compared.   *)
Stores(u) ==
  /\ page[u] = "storing"
  /\ IF version = wanted[u].version
     THEN version' = version + 1 /\ active' = wanted[u].map
     ELSE UNCHANGED <<version, active>>
  /\ Leaves(u)
  /\ UNCHANGED <<applied, wanted, foreign, restarts>>

(* Another process of the host writes the row; the adapter is not told.    *)
ForeignStore ==
  /\ foreign < MaxForeign /\ foreign' = foreign + 1
  /\ version' = version + 1 /\ active' \in Map
  /\ UNCHANGED <<applied, lock, page, wanted, restarts>>

(* A crash, and apply_current when the server is up again.                 *)
RestartSettings ==
  /\ restarts < MaxRestarts /\ restarts' = restarts + 1
  /\ lock' = Nobody /\ page' = [u \in Client |-> "idle"]
  /\ applied' = active /\ foreign' = 0
  /\ UNCHANGED <<version, active, wanted>>

SettingsNext ==
  \/ ForeignStore \/ RestartSettings
  \/ \E u \in Client :
       \/ Asks(u) \/ Applies(u) \/ ApplyFails(u) \/ Stores(u)
       \/ \E safe \in BOOLEAN : Enters(u, safe)

SettingsSpec == SettingsInit /\ [][SettingsNext]_settings
-----------------------------------------------------------------------------
(* Whenever no update is under way the adapter works with the values that  *)
(* are stored: a refused, a failed and a lost update leave no trace in it, *)
(* nor does a crash in the middle of one.                                  *)
SettingsAgree == lock = Nobody /\ foreign = 0 => applied = active
=============================================================================
