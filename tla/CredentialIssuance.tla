------------------------- MODULE CredentialIssuance -------------------------
(***************************************************************************)
(* The credential, deferred credential and notification endpoints          *)
(* (internal/vc).  A request comes with an access token of a grant; what   *)
(* is checked before anything is decided (that the token is active, the    *)
(* configuration, its scopes, proofs, encryption) accepts or refuses it.   *)
(* Issue and IsDeferred are the embedder's.                                *)
(***************************************************************************)
EXTENDS Requests

CONSTANT Grants

VARIABLES
  deferrals,       \* the deferral of every request that was deferred
  storedDeferrals,
  notifications,   \* the notification of every request that issued
  storedNotifications,
  issued,          \* the requests a credential was issued for
  answered,        \* the requests the wallet received an answer to
  notified         \* the notifications handed to the embedder

issuanceVars ==
  <<deferrals, storedDeferrals, notifications, storedNotifications,
    issued, answered, notified>>

NoDeferral == [grant |-> None, consumed |-> FALSE, created |-> 0]
NoNotification == [grant |-> None, created |-> 0]

\* The manager's SaveDeferral.
SaveDeferral(d, record) ==
  /\ deferrals' = [deferrals EXCEPT ![d] = record]
  /\ storedDeferrals' \in
       SavedKeeping(storedDeferrals, d, [k \in Requests |-> deferrals'[k].created])

\* issue, when the embedder defers the credential: the deferral is saved and
\* its ID returned as the transaction ID.
deferIssue(r, g) ==
  /\ Enabled("vc")
  /\ LET d == [grant |-> g, consumed |-> FALSE, created |-> now] IN
     Begin(r, "issue", r, d, "answer") /\ SaveDeferral(r, d)
  /\ UNCHANGED <<notifications, storedNotifications, issued, answered, notified>>

\* issue, when the credential is not deferred.
issue(r, g) ==
  /\ Enabled("vc")
  /\ Begin(r, "issue", None, [NoDeferral EXCEPT !.grant = g], "issuing")
  /\ UNCHANGED issuanceVars

\* Mutant: a deferral that was consumed is served again.
Redeemable_Consumed(d, g) == d \in storedDeferrals /\ deferrals[d].grant = g

\* The deferral of the request exists, is the grant's and not yet consumed.
Redeemable(d, g) ==
  d \in storedDeferrals /\ deferrals[d].grant = g /\ ~deferrals[d].consumed

\* deferredCredential, up to the call of IsDeferred.
deferredCredential(r, d, g) ==
  /\ Enabled("vc")
  /\ d \in answered
  /\ Redeemable(d, g)
  /\ Begin(r, "poll", d, deferrals[d], "polled")
  /\ UNCHANGED issuanceVars

\* Still pending: the deferral is saved as it was loaded.
stillPending(r) ==
  /\ At(r, "polled")
  /\ SaveDeferral(req[r].on, View(r, deferrals))
  /\ GoTo(r, "answer")
  /\ UNCHANGED <<notifications, storedNotifications, issued, answered, notified>>

\* Not pending any more: the deferral is saved as consumed before anything is
\* issued.
consume(r) ==
  /\ At(r, "polled")
  /\ SaveDeferral(req[r].on, [View(r, deferrals) EXCEPT !.consumed = TRUE])
  /\ GoTo(r, "issuing")
  /\ UNCHANGED <<notifications, storedNotifications, issued, answered, notified>>

\* The embedder issues a credential for every proof key.
issueCredentials(r) ==
  /\ At(r, "issuing")
  /\ issued' = issued \cup {r}
  /\ GoTo(r, IF Enabled("notifications") THEN "notify" ELSE "answer")
  /\ UNCHANGED <<deferrals, storedDeferrals, notifications, storedNotifications,
                 answered, notified>>

\* The notification the wallet may refer to is saved, then the wallet is told.
saveNotification(r) ==
  /\ At(r, "notify")
  /\ notifications' = [notifications EXCEPT ![r] =
                         [grant |-> req[r].copy.grant, created |-> now]]
  /\ storedNotifications' \in
       SavedKeeping(storedNotifications, r,
             [k \in Requests |-> notifications'[k].created])
  /\ GoTo(r, "answer")
  /\ UNCHANGED <<deferrals, storedDeferrals, issued, answered, notified>>

\* IsDeferred or Issue fails, or a manager that is not in memory.
failIssuance(r) ==
  /\ At(r, "polled") \/ At(r, "issuing") \/ (At(r, "notify") /\ ~config.inMemory)
  /\ End(r)
  /\ UNCHANGED issuanceVars

\* The answer, encrypted if the wallet asked for that, reaches the wallet ...
answer(r) ==
  /\ At(r, "answer")
  /\ answered' = answered \cup {r}
  /\ End(r)
  /\ UNCHANGED <<deferrals, storedDeferrals, notifications, storedNotifications,
                 issued, notified>>

\* ... or is lost: encrypting or writing it fails.
failAnswer(r) == At(r, "answer") /\ End(r) /\ UNCHANGED issuanceVars

\* notify: the wallet reports on a notification ID it received.
notify(r, n, g) ==
  /\ Enabled("notifications")
  /\ n \in answered \cap storedNotifications
  /\ notifications[n].grant = g
  /\ At(r, "idle") /\ End(r)
  /\ notified' = notified \cup {n}
  /\ UNCHANGED <<deferrals, storedDeferrals, notifications, storedNotifications,
                 issued, answered>>

IssuanceInit ==
  /\ deferrals = [r \in Requests |-> NoDeferral]
  /\ notifications = [r \in Requests |-> NoNotification]
  /\ storedDeferrals = {} /\ storedNotifications = {}
  /\ issued = {} /\ answered = {} /\ notified = {}

IssuanceNext ==
  \E r \in Requests :
    \/ \E g \in Grants : deferIssue(r, g) \/ issue(r, g)
    \/ \E d \in Requests, g \in Grants : deferredCredential(r, d, g) \/ notify(r, d, g)
    \/ stillPending(r) \/ consume(r)
    \/ issueCredentials(r) \/ saveNotification(r)
    \/ failIssuance(r) \/ answer(r) \/ failAnswer(r)

-----------------------------------------------------------------------------
(* Properties. *)

\* A deferred credential is issued at most once per transaction ID, whatever is
\* polled, lost or failing, as long as polls of it do not overlap (two that do
\* may both find it unconsumed, and with copies a poll that is still pending
\* may save it unconsumed again).
OneIssuancePerDeferral ==
  \A d \in Requests \ overlapped : Cardinality({r \in issued : req[r].on = d}) <= 1
=============================================================================
