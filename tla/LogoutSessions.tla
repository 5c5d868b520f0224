--------------------------- MODULE LogoutSessions ---------------------------
(***************************************************************************)
(* RP-initiated logout (internal/logout): a session is created for the     *)
(* request, the embedder's policy runs, maybe several times and for as     *)
(* long as it likes, and a successful logout sends the browser to the      *)
(* post-logout redirect URI.  The clients are those of Registration, which *)
(* change while a session is pending.                                      *)
(*                                                                         *)
(* The client of a request is the one it names or its ID token hint is     *)
(* for; a request without a client can have no redirect URI and ends on    *)
(* the default page: it shares nothing and is left out.                    *)
(***************************************************************************)
EXTENDS Registration

CONSTANT SessionTimeout    \* LogoutSessionTimeoutSecs

VARIABLES
  sessions,         \* the logout session of every request that created one
  storedSessions,   \* the IDs the manager holds
  redirects         \* where which request sent the browser

logoutVars == <<sessions, storedSessions, redirects>>

NoSession == [client |-> None, uri |-> None, status |-> None, expires |-> 0, created |-> 0]

\* The manager's SaveLogoutSession.
SaveLogoutSession(s, record) ==
  /\ sessions' = [sessions EXCEPT ![s] = record]
  /\ storedSessions' \in SavedEvicting(storedSessions, s, Created(sessions'))

\* validatePostLogoutRedirectURI: none, or one registered for the client.
RedirectURIs(id) == clients[id].meta.uris \cup {None}

\* initLogout, up to the call of the policy that set itself up for the request.
initLogout(r, id, uri) ==
  /\ Enabled("logout")
  /\ Found(id)
  /\ uri \in RedirectURIs(id)
  /\ LET ls == [client |-> id, uri |-> uri, status |-> "pending",
                expires |-> now + SessionTimeout, created |-> now]
     IN Begin(r, "logout", r, ls, "policy") /\ SaveLogoutSession(r, ls)
  /\ UNCHANGED redirects

\* continueLogout: the callback of a session. Its status is not looked at, so
\* the policy runs again for a session that succeeded or failed.
continueLogout(r, s) ==
  /\ Enabled("logout")
  /\ s \in storedSessions
  /\ now < sessions[s].expires
  /\ Begin(r, "logout", s, sessions[s], "policy")
  /\ UNCHANGED logoutVars

\* logout: the policy returns, the session is saved with its status.
logout(r, status) ==
  /\ At(r, "policy")
  /\ LET ls == [View(r, sessions) EXCEPT !.status = status] IN
     /\ SaveLogoutSession(req[r].on, ls)
     /\ IF status = "success" /\ ls.uri # None THEN GoTo(r, "redirect") ELSE End(r)
  /\ UNCHANGED redirects

\* A manager that is not in memory fails to save the session.
failLogout(r) ==
  /\ At(r, "policy") /\ ~config.inMemory
  /\ End(r)
  /\ UNCHANGED logoutVars

\* Mutant: the URI that was persisted with the session is trusted.
currentPostLogoutRedirectURI_Persisted(ls) == {ls.uri}

\* currentPostLogoutRedirectURI: the session's URI, if it is registered for the
\* client now.
currentPostLogoutRedirectURI(ls) ==
  IF Found(ls.client) THEN clients[ls.client].meta.uris \cap {ls.uri} ELSE {}

\* The rest of a successful logout: the browser is sent on, or sees an error.
redirect(r) ==
  /\ At(r, "redirect")
  /\ LET ls == View(r, sessions) IN
     redirects' = redirects \cup
       {[by |-> r, client |-> ls.client, uri |-> u] : u \in currentPostLogoutRedirectURI(ls)}
  /\ End(r)
  /\ UNCHANGED <<sessions, storedSessions>>

LogoutInit ==
  /\ sessions = [r \in Requests |-> NoSession]
  /\ storedSessions = {}
  /\ redirects = {}

LogoutNext(uris) ==
  \E r \in Requests :
    \/ \E id \in Requests, uri \in uris \cup {None} : initLogout(r, id, uri)
    \/ \E s \in Requests : continueLogout(r, s)
    \/ \E status \in {"success", "pending", "failure"} : logout(r, status)
    \/ failLogout(r) \/ redirect(r)

-----------------------------------------------------------------------------
(* Properties. *)

\* However long a logout takes and whatever happens to the registration
\* meanwhile, the browser is only sent to a URI that was in the metadata the
\* client last registered or updated to, and never on behalf of a client that was
\* removed, unless requests about the registration overlapped (then one may
\* have saved the metadata of before the other).
RedirectsWanted ==
  [][\A x \in redirects' \ redirects :
       x.client \notin overlapped =>
         /\ x.uri \in wanted[x.client].uris
         /\ x.client \notin removed]_redirects
=============================================================================
