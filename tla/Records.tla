------------------------------ MODULE Records ------------------------------
(***************************************************************************)
(* The registration, logout and credential endpoints of one provider over  *)
(* one manager.                                                            *)
(***************************************************************************)
EXTENDS LogoutSessions, CredentialIssuance

CONSTANTS
  Configs,       \* the configurations of the provider
  URIs           \* post-logout redirect URIs

vars == <<requestVars, registrationVars, logoutVars, issuanceVars>>

Init == RequestsInit(Configs) /\ RegistrationInit /\ LogoutInit /\ IssuanceInit

Next ==
  \/ Tick /\ UNCHANGED <<registrationVars, logoutVars, issuanceVars>>
  \/ RegistrationNext /\ UNCHANGED <<logoutVars, issuanceVars>>
  \/ LogoutNext(URIs) /\ UNCHANGED <<registrationVars, issuanceVars>>
  \/ IssuanceNext /\ UNCHANGED <<registrationVars, logoutVars>>

Spec == Init /\ [][Next]_vars

-----------------------------------------------------------------------------
(* Properties. *)

\* Record k of a map was created, and fewer than room others are as young.
Recent(records, k, room) ==
  /\ records[k].created # 0
  /\ ~config.inMemory \/
     Cardinality({l \in Requests \ {k} : records[l].created >= records[k].created}) < room

\* What a caller was told exists is found by its next request, however handlers
\* save, save again and save late, until it is removed or MaxSize younger
\* records made the in-memory manager forget it. Where handlers save records
\* again, a place is lost: at capacity, saving a stored client or session, or a
\* deferral that was evicted meanwhile, evicts a younger record.
RecentRecordsKept ==
  \A k \in Requests :
    /\ k \notin removed /\ Recent(clients, k, MaxSize - 1) => k \in storedClients
    /\ Recent(sessions, k, MaxSize - 1) => k \in storedSessions
    /\ Recent(deferrals, k, MaxSize - 1) => k \in storedDeferrals
    /\ Recent(notifications, k, MaxSize) => k \in storedNotifications
=============================================================================
