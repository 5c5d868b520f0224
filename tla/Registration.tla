---------------------------- MODULE Registration ----------------------------
(***************************************************************************)
(* Dynamic client registration and its management (internal/dcr): create,  *)
(* update, fetch (which may rotate the credentials) and remove.            *)
(*                                                                         *)
(* Of a client's metadata the model keeps what a handler looks at: whether *)
(* its authentication method needs a secret, and its post-logout redirect  *)
(* URIs.  client.Resolve and HandleDynamicClient accept or refuse; how     *)
(* long a secret lives is left out.                                        *)
(***************************************************************************)
EXTENDS Requests

CONSTANT Metas         \* metadata clients send: [secret, uris]

VARIABLES
  clients,         \* the record of every client, by ID
  storedClients,   \* the IDs the manager holds
  held,            \* the token and the secret each client received last
  delivered,       \* every registration token each client received
  lost,            \* the clients an answer got lost to
  removed,         \* the clients whose removal was carried out
  wanted           \* the metadata of each client that last took effect

registrationVars == <<clients, storedClients, held, delivered, lost, removed, wanted>>

\* The record of a client before it registers.
NoClient == [token |-> None, secret |-> None, meta |-> None, created |-> 0]

Created(records) == [k \in Requests |-> records[k].created]

\* The manager's SaveClient.
SaveClient(id, record) ==
  /\ clients' = [clients EXCEPT ![id] = record]
  /\ storedClients' \in SavedEvicting(storedClients, id, Created(clients'))

\* create. The initial access token, the metadata and the embedder's hook are
\* checked before anything is generated.
create(r, meta) ==
  /\ Enabled("dcr")
  /\ Begin(r, "create", r, None, "respond")
  /\ SaveClient(r, [token |-> r, secret |-> IF meta.secret THEN r ELSE None,
                    meta |-> meta, created |-> now])
  /\ wanted' = [wanted EXCEPT ![r] = meta]
  /\ UNCHANGED <<held, delivered, lost, removed>>

\* Mutant: a record that was removed is still found.
Found_Removed(id) == clients[id].created # 0

\* The manager's Client.
Found(id) == id \in storedClients

\* protected: the client proves itself with one of the tokens it received.
protected(r, id, op) ==
  /\ Enabled("dcr")
  /\ Found(id)
  /\ clients[id].token \in delivered[id]
  /\ Begin(r, op, id, clients[id], "loaded")
  /\ UNCHANGED registrationVars

\* The registration token update and fetch leave in record c.
RotatedToken(r, c) == IF config.rotateToken THEN r ELSE c.token

\* The handler assigns the changed record and goes on to stage. Only the
\* in-memory manager's record changes before it is saved.
Assign(r, c, stage) ==
  /\ req' = [req EXCEPT ![r] = [op |-> @.op, stage |-> stage, on |-> @.on, copy |-> c]]
  /\ clients' = IF config.inMemory THEN [clients EXCEPT ![req[r].on] = c] ELSE clients
  /\ wanted' = IF config.inMemory THEN [wanted EXCEPT ![req[r].on] = c.meta] ELSE wanted
  /\ UNCHANGED <<config, now, overlapped, storedClients, held, delivered, lost, removed>>

\* update, from the accepted metadata to the save.
update(r, meta) ==
  /\ At(r, "loaded") /\ req[r].op = "update"
  /\ LET c == View(r, clients) IN
     Assign(r, [c EXCEPT
       !.meta = meta,
       !.token = RotatedToken(r, c),
       !.secret = CASE ~meta.secret -> None
                    [] meta.secret /\ (c.secret = None \/ config.rotateSecret) -> r
                    [] OTHER -> @], "save")

\* Mutant: whether there is something to save is decided by the secret alone.
fetch_SecretOnly(r) ==
  /\ At(r, "loaded") /\ req[r].op = "fetch"
  /\ LET c == View(r, clients)
         rotatesSecret == c.meta.secret /\ config.rotateSecret
     IN Assign(r, [c EXCEPT !.token = RotatedToken(r, c),
                            !.secret = IF rotatesSecret THEN r ELSE @],
               IF rotatesSecret THEN "save" ELSE "respond")

\* fetch, which saves only what it rotated.
fetch(r) ==
  /\ At(r, "loaded") /\ req[r].op = "fetch"
  /\ LET c == View(r, clients)
         rotatesSecret == c.meta.secret /\ config.rotateSecret
     IN Assign(r, [c EXCEPT !.token = RotatedToken(r, c),
                            !.secret = IF rotatesSecret THEN r ELSE @],
               IF rotatesSecret \/ config.rotateToken THEN "save" ELSE "respond")

\* The save at the end of update and fetch.
saveChanged(r) ==
  /\ At(r, "save")
  /\ SaveClient(req[r].on, View(r, clients))
  /\ wanted' = IF req[r].op = "update" THEN [wanted EXCEPT ![req[r].on] = req[r].copy.meta]
                                      ELSE wanted
  /\ GoTo(r, "respond")
  /\ UNCHANGED <<held, delivered, lost, removed>>

\* remove, after protected.
remove(r) ==
  /\ At(r, "loaded") /\ req[r].op = "remove"
  /\ storedClients' = storedClients \ {req[r].on}
  /\ removed' = removed \cup {req[r].on}
  /\ End(r)
  /\ UNCHANGED <<clients, held, delivered, lost, wanted>>

\* The metadata is refused, or a manager that is not in memory fails.
failRegistration(r) ==
  /\ \/ At(r, "loaded") /\ (req[r].op = "update" \/ ~config.inMemory)
     \/ At(r, "save") /\ ~config.inMemory
  /\ End(r)
  /\ UNCHANGED registrationVars

\* The answer reaches the client: the whole registration after a create,
\* otherwise the credentials that are new.
respond(r) ==
  /\ At(r, "respond") /\ req[r].op \in {"create", "update", "fetch"}
  /\ LET id == req[r].on
         c == IF req[r].op = "create" THEN clients[id] ELSE req[r].copy
     IN
     /\ held' = [held EXCEPT ![id] =
          [token |-> IF c.token = r THEN r ELSE @.token,
           secret |-> IF c.secret = r \/ ~c.meta.secret THEN c.secret ELSE @.secret]]
     /\ delivered' = [delivered EXCEPT ![id] = @ \cup ({c.token} \cap {r})]
  /\ End(r)
  /\ UNCHANGED <<clients, storedClients, lost, removed, wanted>>

\* The answer gets lost on its way.
loseAnswer(r) ==
  /\ At(r, "respond") /\ req[r].op \in {"create", "update", "fetch"}
  /\ lost' = lost \cup {req[r].on}
  /\ End(r)
  /\ UNCHANGED <<clients, storedClients, held, delivered, removed, wanted>>

RegistrationInit ==
  /\ clients = [r \in Requests |-> NoClient]
  /\ storedClients = {}
  /\ held = [r \in Requests |-> [token |-> None, secret |-> None]]
  /\ delivered = [r \in Requests |-> {}]
  /\ lost = {} /\ removed = {}
  /\ wanted = [r \in Requests |-> None]

RegistrationNext ==
  \E r \in Requests :
    \/ \E meta \in Metas : create(r, meta) \/ update(r, meta)
    \/ \E id \in Requests, op \in {"update", "fetch", "remove"} : protected(r, id, op)
    \/ fetch(r) \/ saveChanged(r) \/ remove(r)
    \/ failRegistration(r) \/ respond(r) \/ loseAnswer(r)

-----------------------------------------------------------------------------
(* Properties. *)

Settled(id) == \A r \in Requests : req[r].on = id => ~InProgress(r)

\* A client keeps access to its registration: once its requests are answered,
\* and no answer was lost, the registration token in storage is one it was
\* given, and if its requests did not overlap, token and secret in storage are
\* the ones it was given last, through rotations and changes of its
\* authentication method.
ClientKeepsAccess ==
  \A id \in storedClients \ lost :
    Settled(id) =>
      /\ clients[id].token \in delivered[id]
      /\ id \notin overlapped =>
           held[id] = [token |-> clients[id].token, secret |-> clients[id].secret]

\* A client that was removed does not come back, unless two requests for it
\* were in progress at the same time.
RemovedForGood == storedClients \cap removed \subseteq overlapped
=============================================================================
