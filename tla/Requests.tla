------------------------------ MODULE Requests ------------------------------
(***************************************************************************)
(* What the handlers of internal/dcr, internal/logout and internal/vc have *)
(* in common: a request loads a record through the configured manager,     *)
(* works on it while others run, saves it and answers.                     *)
(*                                                                         *)
(* Two kinds of manager are told apart.  The in-memory one hands out the   *)
(* record it stores, so what a handler assigns is seen before it is saved, *)
(* its saves never fail and may evict.  Any other one (a database) hands   *)
(* out copies, its saves may fail, the last one wins, and nothing is       *)
(* evicted.                                                                *)
(*                                                                         *)
(* IDs, tokens and secrets are random: each is named by the request that   *)
(* generated it.  A request that is refused before it changed anything     *)
(* leaves no trace and is not a step.                                      *)
(***************************************************************************)
EXTENDS StorageManager

CONSTANTS
  Requests,      \* the HTTP requests; each is one goroutine
  None,
  MaxTime        \* bound of the clock

ASSUME RequestsAssumption == None \notin Requests /\ MaxTime \in Nat

VARIABLES
  config,      \* the provider's configuration, fixed when it starts
  now,         \* the clock, in seconds
  req,         \* the goroutine of every request, see Arrival
  overlapped   \* the records two requests worked on at the same time

requestVars == <<config, now, req, overlapped>>

\* A request before it arrives; later, what it does, how far it is, the record
\* it is about and the handler's copy of it.
Arrival == [op |-> None, stage |-> "idle", on |-> None, copy |-> None]

Enabled(feature) == feature \in config.features
InProgress(r) == req[r].stage \notin {"idle", "done"}

\* Request r arrives for operation op on record id, which it found to be copy.
Begin(r, op, id, copy, stage) ==
  /\ req[r].stage = "idle"
  /\ req' = [req EXCEPT ![r] = [op |-> op, stage |-> stage, on |-> id, copy |-> copy]]
  /\ overlapped' = overlapped \cup
       {o \in {id} \ {None} : \E q \in Requests \ {r} : InProgress(q) /\ req[q].on = o}
  /\ UNCHANGED <<config, now>>

At(r, stage) == req[r].stage = stage

GoTo(r, stage) ==
  /\ req' = [req EXCEPT ![r].stage = stage]
  /\ UNCHANGED <<config, now, overlapped>>

\* The handler returns; which record it was about is remembered.
End(r) ==
  /\ req' = [req EXCEPT ![r] = [Arrival EXCEPT !.stage = "done", !.on = req[r].on]]
  /\ UNCHANGED <<config, now, overlapped>>

\* The handler's view of the record it loaded: the record of the in-memory
\* manager itself, or the copy any other manager returned.
View(r, records) == IF config.inMemory THEN records[req[r].on] ELSE req[r].copy

\* The key sets a manager may have after saving k, see StorageManager; any
\* manager but the in-memory one keeps everything.
SavedEvicting(keys, k, created) ==
  IF config.inMemory THEN SaveEvicting(keys, k, created) ELSE {keys \cup {k}}

SavedKeeping(keys, k, created) ==
  IF config.inMemory THEN SaveKeeping(keys, k, created) ELSE {keys \cup {k}}

Tick == now < MaxTime /\ now' = now + 1 /\ UNCHANGED <<config, req, overlapped>>

RequestsInit(configs) ==
  /\ config \in configs
  /\ now = 1
  /\ req = [r \in Requests |-> Arrival]
  /\ overlapped = {}
=============================================================================
