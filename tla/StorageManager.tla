---------------------------- MODULE StorageManager ----------------------------
(***************************************************************************)
(* The in-memory manager (internal/storage/manager.go).  Its maps work     *)
(* alike: a map under a lock, a capacity, and the entry created first      *)
(* makes room.  A map is the set of its keys here; when a record was       *)
(* created is looked up in a function the caller passes.                   *)
(***************************************************************************)
EXTENDS Naturals, FiniteSets

CONSTANT MaxSize       \* maxSize of the manager

ASSUME StorageAssumption == MaxSize \in Nat \ {0}

\* Mutant: the comparison is the wrong way round.
Oldest_Youngest(keys, created) ==
  {k \in keys : \A l \in keys : created[k] >= created[l]}

\* removeOldest. Map iteration is unordered, so any of several records created
\* in the same second may go.
Oldest(keys, created) ==
  {k \in keys : \A l \in keys : created[k] <= created[l]}

\* SaveSession, SaveClient, SaveGrant, SaveToken, SaveLogoutSession and
\* SaveCredentialOffer make room whenever the map is full ...
SaveEvicting(keys, k, created) ==
  IF Cardinality(keys) >= MaxSize
  THEN {(keys \ {old}) \cup {k} : old \in Oldest(keys, created)}
  ELSE {keys \cup {k}}

\* ... SaveDeferral and SaveNotification for a record the map does not hold.
SaveKeeping(keys, k, created) ==
  IF k \in keys THEN {keys} ELSE SaveEvicting(keys, k, created)
=============================================================================
