# TLA+ verification of go-oidc

go-oidc is a configurable OpenID Provider library: an embedder creates a
`provider.Provider` from options, callbacks and a storage manager, and mounts
its HTTP handlers. This directory holds TLA+ models of the provider's stateful
protocols, TLC runs that check them on small instances, and TLAPS proofs of the
central properties for every instance.

All paths below are relative to `src/`. `PROJECT.json` gives, for every
definition that models code, the file and the lines it stands for.

## 1. The system

### 1.1 Components

| Component | Source | State it keeps | Operations |
|---|---|---|---|
| Token endpoint | `internal/token/{token,auth_code,ciba,device,pre_auth_code,refresh_token,client_credentials,jwt_bearer,exchange,model,validation,pop}.go` | grants and access tokens, through the managers | redeem a code, refresh (with rotation), direct grants, issue |
| Revocation, introspection | `internal/token/{revoke,introspection}.go` | the same | revoke an access or refresh token; report whether a token is active |
| Device and CIBA flows | `internal/authorize/{device,ciba}.go`, `internal/token/{device,ciba}.go` | authentication sessions, grants | open a request, verify or resolve it out of band, notify, poll |
| Authorization endpoint, PAR | `internal/authorize/{authorize,par,validation,model}.go` | authentication sessions | push, begin, resume, complete |
| In-memory manager | `internal/storage/manager.go` | eight bounded maps, each under a lock | save, look up, delete, evict the oldest |
| Strict human authorization | `internal/authorize/{strict_admission,human_interaction}.go`, `internal/token/human_authorization.go`, `pkg/goidc/human_authorization.go` | continuations and decisions of an external authority | admit, interact, complete, redeem, introspect |
| Human refresh delivery | `internal/token/human_refresh_delivery.go`, `pkg/goidc/human_refresh_delivery.go` | prepared deliveries | prepare, activate, retry |
| DPoP | `internal/dpop/util.go`, `internal/oidc/context.go` | nonces, JTI reservations (callbacks) | validate a proof, challenge with a nonce |
| Client authentication, resolution | `internal/client/*.go` | clients, JTIs, cached keys | authenticate, resolve |
| Dynamic client registration | `internal/dcr/*.go` | clients, registration tokens | create, update, read, delete |
| Logout | `internal/logout/*.go` | logout sessions | begin, continue |
| OpenID Federation | `internal/federation/*.go` | none of its own (cached statements) | resolve a trust chain, merge and apply metadata policies, register |
| Verifiable credentials | `internal/vc/*.go` | offers, deferrals, notifications | offer, issue, defer, notify |
| Userinfo, discovery, JAR, configuration, encodings | `internal/{userinfo,discovery,oidc,joseutil,hashutil,strutil,timeutil}`, `pkg/provider` | none | pure functions and configuration |

### 1.2 How they interact

Every HTTP request is served by a goroutine of its own; there is no lock above
the managers. A handler looks a record up, works on it (often calling embedder
callbacks in between), and saves it. The manager interfaces of `pkg/goidc` do
not say whether a lookup returns the stored record or a copy, and both occur:
`internal/storage` returns the pointer in its map, so an assignment to a field
is visible to every goroutine before any save; a manager over a database
returns a copy, so a save overwrites whatever others saved since the load. The
operator `SharedRecords` of the models selects between the two (a constant of
`TokenEndpoint` and `DecoupledFlow`, the initial choice `manager` of `AuthorizationEndpoint`,
`config.inMemory` of `Requests`), and the properties are checked (or proved) for
both where they hold for both.

Sessions, grants and tokens are the shared state: the authorization endpoint
and the decoupled flows create grants, the token endpoint redeems and refreshes
them, revocation and failed redemptions revoke them, introspection and userinfo
read them. Clients are shared too: registration and federation write them, every
endpoint authenticates them, and a logout asks again at its end where it may
send the browser. The strict human profile keeps its state with an external
authority (`goidc.HumanAuthorizationAuthority`) whose transitions are atomic;
what is concurrent there is the provider around them. JTIs and nonces are kept
by external consumers in the same way.

### 1.3 What is hard

* **check-then-act across manager calls**: the consumed flag of a code, the
  existing grant of an `auth_req_id`, the status of a session are read in one
  call and written in a later one;
* **whole-record saves of stale copies**: consumption, revocation and rotation
  of the same grant may be undone by a late save;
* **partial failure**: a handler that fails after it changed a record, after it
  created an access token, or after it saved a session but not its grant;
* **crashes** between two manager calls, with a durable manager;
* **deadlines**: codes, sessions, grants, refresh tokens and access tokens each
  have one, and several flows carry one over from an earlier record;
* **lost messages**: CIBA notifications, answers that carry a rotated
  registration token, a code or a refresh token;
* **two clocks**: the provider's and the authority's, apart by a skew;
* **state that others change between two steps**: a client's registration, its
  published keys, the statements of a federation;
* **capacity**: the in-memory maps evict the oldest record.

The hazards, each at its line and with the properties that cover it, are listed
in `PROJECT.json`; those no property covers yet say why.

## 2. Modules

| Module | Models | Extends / composed with |
|---|---|---|
| `TokenEndpoint` | token endpoint, revocation, introspection | `StorageManager`; refines `CodeLifecycle` |
| `CodeLifecycle` | what the token endpoint promises about a one-use code | |
| `DecoupledFlow` | device and CIBA requests, their approval and polling | |
| `AuthorizationEndpoint` | PAR, authorization, callback | |
| `HumanAuthorization` | sign-in of the strict human profile | |
| `HumanRefreshDelivery` | recoverable delivery of refresh tokens to strict human clients | |
| `ClientAuthentication` | client authentication, DPoP, JTI reservation, nonces | |
| `MetadataPolicy` | the policy operators of OpenID Federation, as operators | |
| `Federation` | trust chains and the registrations they lead to | `MetadataPolicy` |
| `StorageManager` | the maps of the in-memory manager, as operators | |
| `Requests` | what the handlers of the next three have in common | `StorageManager` |
| `Registration` | dynamic client registration | `Requests` |
| `LogoutSessions` | RP-initiated logout | `Registration` (its clients) |
| `CredentialIssuance` | credentials, deferrals, notifications | `Requests` |
| `Records` | the three endpoints of one provider | `LogoutSessions`, `CredentialIssuance` |
| `..._proofs` | TLAPS proofs (eight modules, section 4) | the module named; `TokenEndpoint_proofs`, `DecoupledFlow_proofs` and `HumanAuthorization_proofs` extend its `MC` module, which has the history they speak of |
| `MC...` | instances, histories and symmetry sets for TLC | the module named |

Definitions named `X_Something` under a comment `Mutant:` are deliberately
wrong variants of `X`; no specification uses them. They record that each
property is able to fail: substituting the variant for `X` must make TLC report
the property violated under the same configuration.

### 2.1 TokenEndpoint

State: the record of each grant (`grants`) and which of them the manager holds
(`stored`), every access token issued (`tokens`, JWTs included, although the provider stores only opaque ones), the
refresh token values generated and delivered, the clock, and per goroutine its
place in the handler (`pc`), its request (`req`) and its copy of the grant
(`loaded`, unused when records are shared).

| Action | Code |
|---|---|
| `CreateCodeGrant` | `NewGrant` called by the authorization endpoint, `GrantCIBARequest`, `authenticateDevice`, `CreatePreAuthCodeGrant`; with `front`, the token of a hybrid response or of a CIBA push |
| `DirectGrant` | `generateClientCredentialsToken`, `generateJWTBearerToken`, `generateExchangeToken` and the pre-authorized code of an external issuer |
| `BeginRedeem` | lookup by code and all checks up to the first change of the grant; a failed check leads to `revoking` |
| `Consume` | `...ConsumedAt = now`, the binding of the grant, `SaveGrant` |
| `IssueAndRespond` | `Issue`, `MakeIDToken`, the response |
| `RevokeGrant` | `RevokedAt = now; SaveGrant` at the end of a failed redemption or of a revocation |
| `BeginRefresh`, `SaveRefreshed` | `generateLegacyRefreshToken` up to its checks, then rotation, `HandleGrant`, `SaveGrant` |
| `RevokeRefreshToken`, `RevokeJWT`, `RevokeOpaque` | the three paths of `Revoke` |
| `Crash` | the process dies in the middle of a request |

`AuthCodeConsumedAt`, `RevokedAt` and their kin are only ever compared with
zero, so they are Booleans; deadlines keep their values, with the code's own
comparisons (`now >= ExpiresAt` for records, strictly greater for the `exp` of
a JWT). The checks on the request alone (PKCE, redirect URI, scopes, resources,
authorization details, transaction code) are one Boolean input. A key stands
for a DPoP or mTLS thumbprint. A Go data race on a shared record is treated as
an atomic write of each field.

A save at capacity drops the oldest grant (`Saving`, with `SaveEvicting` of
`StorageManager`); a handler that loaded the dropped grant still has a pointer to
it, and its save brings the grant back. The code has a consequence no property
excludes: the tokens of an evicted grant are inactive
(`introspection.go:51-54`), and active again after such a late save
(`refresh_token.go:124`). `EndedForever` says that nothing which expired or was
revoked comes back this way. The eviction of opaque tokens (`manager.go:273`) is
left out: it only ends tokens. `CreatedAt` of a grant behind a pre-authorized
code is the embedder's; it is the time of the call here.

### 2.2 CodeLifecycle

Three steps per code: created, spent for good, tokens issued afterwards. The
mapping takes a grant's kind, consumption and revocation to the life of its
code and counts the access tokens issued in exchange for it.

### 2.3 DecoupledFlow

A session per handle (`device_code` or `auth_req_id`), the grants and tokens
created for it, and two kinds of goroutine: approvers (the verification page,
`GrantCIBARequest`, `DenyCIBARequest`) and polls. The approver's calls to the
manager, the policy and the notification endpoint are separate actions; the
device flow saves its verdict before the grant exists, CIBA afterwards, and the
model keeps that difference.

| Action | Code |
|---|---|
| `PollNoGrant`, `PollSession` | the poll finds no grant, then reads the session |
| `PollGranted` | the poll finds a grant: a revoked one is answered, one it may redeem is kept in hand, and anything wrong leads to `revoking` |
| `ConsumeHandle` | `...ConsumedAt = now; SaveGrant` |
| `IssueAndRespond` | `Issue`, `MakeIDToken`, the response |
| `PollFails` | a failing save, `Issue` or ID token, the last one with the access token created |
| `RevokeGrant` | `RevokedAt = now; SaveGrant` |

Other polls and approvers run between any two of these. Two polls that overlap
both pass the check of `AuthReqIDConsumedAt` (`ciba.go:248`) or
`DeviceCodeConsumedAt` and both get a token, as two redemptions of an
authorization code do; `contended` records such polls. `SharedRecords` selects
what a lookup of the grant returns, `FALSE` in the runs and either in the proofs.
Nothing is evicted here. `deadline`, `ready` and `settled` record what was
promised, announced and finally answered to the client.

### 2.4 AuthorizationEndpoint

A session is pushed (`PushAuth`) or created by the request itself
(`InitAuthDirect`); `InitAuthPushed` is `initAuth` with a `request_uri`,
including the assignments it makes to a session it does not save;
`ContinueAuth` is the callback; `Authenticate`, `RejectWithoutPolicy` and
`CreateGrant` are the stages of `authenticate`. One parameter, with two values
and "absent", stands for every parameter `mergeParams` treats alike. `manager`
is the kind of manager, chosen initially. `begun`, `aborted`, `denied` and
`pushed` are history; eviction of sessions is left out (one that is gone is refused); a session counts as aborted only when it was resumed
while no other goroutine was working on it, since the fate of a session two
requests work on is decided by the later save.

### 2.5 Records: registration, logout and credentials

`StorageManager` has the maps of the in-memory manager as operators on their key
sets: `SaveEvicting` makes room on every save at capacity (also when the record
is already stored, as `SaveClient` and `SaveLogoutSession` do), `SaveKeeping`
only for new records (`SaveDeferral`, `SaveNotification`). `Oldest` is a set,
because creation times are seconds and Go's map iteration is unordered.

`Requests` has the goroutines: `Begin` is a request that loaded its record,
`GoTo` and `End` its progress, `View` the record the handler works on: the
stored one or its copy. `overlapped` is history: the records that two requests
worked on at the same time.

| Action | Code |
|---|---|
| `create`, `update`, `fetch`, `remove` after `protected` | the functions of `internal/dcr/util.go`; the save at the end of `update` and `fetch` is `saveChanged`, since other requests run between the assignment and the save |
| `respond`, `loseAnswer`, `failRegistration` | the answer, the answer lost, a refusal or a failing manager |
| `initLogout`, `continueLogout`, `logout`, `redirect` | `internal/logout`: up to the policy, the policy's return and save, and the redirect, whose URI is validated again against the client as it is then |
| `deferIssue`, `issue`, `deferredCredential` | `internal/vc`: the two outcomes of a credential request, and a poll up to `IsDeferred` |
| `stillPending`, `consume`, `issueCredentials`, `saveNotification`, `answer`, `notify` | the rest of a poll or an issuance, in the order of the code: the deferral is saved as consumed before the credential is issued |

`wanted`, `held`, `delivered` and `lost` are history: what the clients asked for
and received.

### 2.6 HumanRefreshDelivery

Three parties. The authority is the embedder's
`HumanAuthorizationAuthority`: its four methods are atomic steps, written from
the interface's comments and the authority of the repository's flow tests, and
marked external in `PROJECT.json`. The client is external too and follows the
README of the repository: it keeps its token and the successor it invented
until it is told tokens or an abort (it also lets go when the authority has no
pending delivery to abort, because what is then still in flight cannot activate
one). The provider is in between: `Send` and `SendRevoke` stand for the form,
the client assertion and the sealed input, `Call` for the authority call,
`Respond` for everything after it: the checks of the decision against the
provider's clock, the lifetimes on the wire, signing and the response.
`CallFails` and `RespondFails` are failures before and after the transition,
lost requests and lost responses included. The authority's clock is `now`; the
provider's differs by `drift`, any value within the accepted skew. A receipt
belongs to its successor and is not modelled apart from it. The ordinary
refresh grant refuses these tokens without a change of state and has no action.

### 2.7 HumanAuthorization

The flow of `AuthorizationRequestProfileHumanConfidentialBFF`. The authority's
five transitions (`StorePAR`, `ConsumePARAndStartContinuation`, `ConfirmBrowser`,
`CompleteAuthorization`, `RedeemAuthorizationCode`, marked external) are atomic and written from the interface of `pkg/goidc/human_authorization.go` and
the authority of the flow tests. The provider's part of a request is split
where the authority is called: `SendPAR`, `SendStart`, `SendConfirm`,
`SendComplete` and `SendRedeem` are the admission of the request against the
registration, read once and cloned, and the call; `RespondPAR` ... are the
checks of the decision against the clone and the provider's clock, and the
answer. `Rotate` changes the registration between any two of them, `Lose` loses
an answer, `CallFails` is a failing authority. Browsers hold links (`held`) and
one cookie each; `OpenElsewhere` takes a link to another browser.

### 2.8 ClientAuthentication

A request arrives with a credential or a certificate and maybe a DPoP proof
(`Arrive`), fetches or finds the client's keys (`FetchKeys`), verifies
(`Verify`), reserves the JTI (`Reserve`), is marked as attributed and bound
(`Bind`), validates the proof (`ValidateJWT`), its nonce (`ValidateNonce`),
reserves its JTI (`ReserveProof`) and is answered (`Respond`). The consumer of
JTIs and the nonce manager are the embedder's and external: the consumer is
assumed to be atomic, to refuse a use whose reservation would already have
expired, and to forget a reservation (`Forget`) only after its expiry. It may
fail before or after it reserved; the provider refuses the request then. Of a
JWT the model keeps its ID, its key, whether a `kid` names the key, and its
times, with the code's comparisons.

### 2.9 Federation and MetadataPolicy

`MetadataPolicy` translates the seven operators, `Validate`, `Merge` and `Apply`
of `internal/federation/policy.go` for one attribute and lifts them to the
policies of clients and providers. Values keep what Go's zero values do: an
empty intersection is the zero value, and the nil of a `[]string` is a list
while the nil of an `any` is not. Lists carry their number of entries, because
`compareSlices` asks for equal lengths and one-way membership: `[a,b]` agrees with
`[a,a]`. A scope is a string that the policies see as a list
(`policy.go:1001-1005`, `Names`), so an absent one is never missing for `default`
or `essential`. `Satisfies` is the reference definition: what each operator asks
of a value, independent of merging.

`Federation` is the search for a chain (`FetchEntityConfiguration`,
`FetchAuthorityConfiguration`, `FetchSubordinateStatement`, `CircularHint`,
`NoHintLeft`), the chain handed over by the client (`ParseTrustChain`), its
resolution (`Resolve`) and the registration (`Save`, `Reject`). The recursion of
the code is the `stack`; every fetch is a step, and what is published may be
different in each. What the code does with names, keys and deadlines is kept, even
where one would expect more of it:

* an entity is who its configuration says it is. The `iss` of a fetched
  configuration is not compared with the URL it was fetched from
  (`util.go:332-358`): circular hints are found by URL (`url`), while statements,
  the test for an anchor (`util.go:315`) and the ID of the registered client
  (`util.go:139`) go by the self-asserted name (`ent`);
* a configuration posted with a `trust_chain` header takes the first place of the
  chain in the header (`registration.go:28`) and is only known to be signed with
  its own keys;
* after the policies, `client.Resolve` (`util.go:134`) adapts a client's metadata
  without asking them again: it clears attributes of features that are off, fills
  omitted ones with defaults and resolves choices (`ClientResolve`, as any choice
  of what is cleared and filled). A policy `subset_of [client_credentials]` over
  omitted `grant_types` registers `[authorization_code]`;
* a registration is stored with the deadline of its shortest statement, but only
  `authorize.go:49` and `par.go:49` read it, with automatic registration enabled.
  Every other endpoint, and those two otherwise, use a stored registration as it
  is (`client/util.go:37-38`, `authorize.go:32-34`): `Begin` and `Fresh` are
  the two places that do read it, and no property claims more;
* the depth of a chain is counted on the way back from an anchor
  (`util.go:319-325`, `UnwindTo`).

The JWKS of an entity is one key. A chain of a configuration and an anchor's
configuration only makes `firstSubordinateStatement` panic (`util.go:526`);
`net/http` recovers, and the model treats the request as failed.

## 3. Runs

| Run | Shows |
|---|---|
| `token_shared` | Two concurrent requests, two grants of an in-memory manager that holds one, failures. The access token left by a redemption that failed later is dead once the grant is at rest (`UnsentCodeTokensDie`); a token that expired or was revoked is never active again (`EndedForever`). |
| `token_copies` | Two concurrent requests, copies, failing saves, crashes. Tokens exist only for codes spent in storage (`IssuedImpliesSpent`), spent codes stay spent under stale saves (`SpentForever`), a code whose requests do not overlap yields one token (`RedeemedAtMostOnceSerially`), and the endpoint implements `CodeLifecycle`. |
| `token_refresh` | Concurrent redemptions, rotations and revocations without failures: nobody is locked out of a live grant (`StoredRefreshTokenDelivered`), a replayed code ends with all tokens of the grant dead (`ReplayKillsTokens`), and a chain of refreshes whose requests do not overlap keeps the binding (`BindingContinuitySerially`). |
| `decoupled_flows` | Two approvers that fail and retry and two polls, stage by stage: an announced approval is found by later polls (`AnnouncedMeansRedeemable`), only a poll within the window of the request is given tokens (`RedeemedInWindow`), a CIBA request that no two goroutines resolve or redeem at a time yields one token (`OneTokenPerRequest`), and a client that keeps polling is told something final (`RequestsSettle`). |
| `authorize_requests` | Two concurrent requests on one session, both kinds of manager, failing saves: what the client pushed wins (`PushedParametersWin`), a direct authorization yields a grant only from a request accepted within the session lifetime (`BoundedAuthorization`), a session resumed before its authorization began is dead (`AbortedNeverGranted`). |
| `refresh_delivery` | A client that retries, gives up and begins again; two requests in flight; a failure before or after the transition; clocks within the skew. The active token is always one the client keeps (`NeverLockedOut`); no tokens for requests sent after an acknowledged revocation (`NoTokensAfterRevocation`); `expires_in` is positive, limited, and close to the authority's deadline (`WireLifetimes`); every delivery settles (`DeliveriesSettle`). |
| `human_authorization` | A flow whose links are opened in two browsers while the registration is rotated, answers are lost and the clocks are apart: a code only comes through the browser that started the flow (`CodeStaysInBrowser`), goes only to the registration that pushed it (`AdmittedRegistrationOnly`), is not lost to the skew alone (`SkewBurnsNoCode`), and a confirmed browser gets to the next stage although an answer was lost (`ConfirmationReachesBrowser`). |
| `client_authentication` | Every method, two overlapping requests, keys that rotate, nonces and reservations that expire: a JWT is accepted once (`UsedAtMostOnce`), a withdrawn key is refused by the next request unless a stored client caches its keys (`RetiredKeyRefused`), and an attestation alone makes nobody the client (`AttributionSound`). |
| `federation` | Any hints, cycles and dead ends, configurations that name somebody else than their URL, changing keys and lifetimes, chains handed over: a chain that leads to a registration is unbroken by name and key (`ChainSound`), and every resolution ends (`ResolutionEnds`, for hints that name finitely many URLs). Every pair of policies of up to two operators on an attribute of each Go type, merged, applied and adapted by `client.Resolve`: what is registered satisfies each policy of the chain, or was cleared, filled where no superior asks for a value, or chosen among what the provider supports (`PoliciesHonoured`). |
| `records` | Registration, logout and credential requests, two at a time, with failures and lost answers, over the in-memory manager at capacity or over copies: the registration token in storage is one the client was given, and exactly the one it holds if its requests did not overlap (`ClientKeepsAccess`), a removed client stays removed (`RemovedForGood`), a browser is not sent to a withdrawn URI (`RedirectsWanted`), a deferral is issued once (`OneIssuancePerDeferral`), young records are found (`RecentRecordsKept`). |

`BoundedAuthorization` speaks of sessions that were not pushed. For a pushed
one every presentation of its `request_uri` while the session is pending sets
`ExpiresAt` anew (`authorize.go:203`), so its authorization has no bound
counted from the first presentation.

What fails when requests overlap, by design or not, is excluded with a history
variable (`contended`, `overlapped`) rather than by serving one request at a
time, so that the property is checked in the presence of every other race:

* two redemptions of one code that overlap both succeed (the run `token_reuse`);
* two polls of one `auth_req_id` or device code that overlap both get tokens;
* a device code verified twice at the same time has two grants, each redeemed;
* an update or a read of a client that overlaps its removal saves it again
  (`dcr/util.go`), and of two overlapping rotations the last save decides which
  registration token works (one that was delivered, in any case: the first part
  of `ClientKeepsAccess` holds under overlap too);
* two overlapping polls of a deferral both find it unconsumed (`vc/util.go:508`)
  and both issue.

A deferral is marked consumed before its credential is issued
(`vc/util.go:537`), while `pkg/goidc/vc.go:228` says that `ConsumedAt` is set
"once the deferral has been resolved and its credential(s) issued": when
`Issue` fails afterwards, the wallet's next poll is refused. The model keeps the
code's order; `OneIssuancePerDeferral` is the property that order is for.

`RecentRecordsKept` allows for one record less than the capacity where handlers
save records again, because `SaveClient` and `SaveLogoutSession` evict another
record at capacity even when the one they save is already stored.

Two runs show where the code departs from what the repository says of it
(`PROJECT.json`, `findings`, quotes the lines):

* `token_reuse`: two concurrent redemptions of one authorization code both
  succeed and nothing is revoked (the check and the assignment of
  `AuthCodeConsumedAt` are not one step);
* `authorize_ends`: the callback of a failed session runs its policy again and
  may end with a grant.

### 3.1 Bounds

Two goroutines are enough for the races of interest: each is between a pair of
handlers on one record. Two clients, one of them public, and one or two keys
give owner and stranger, bound and unbound, same and other key. One grant (or
session, or handle) suffices because handlers touch a single one; only
`token_shared` has two, over a manager that holds one (`MaxSize` 1), so that
each save evicts the other grant; the code to grant relation is one to one
except in the device flow, whose model lets a handle have several grants. The
clock runs until each kind of deadline can pass (lifetimes 1 and 2, `MaxTime` 2
to 4). `MaxTokens`, `MaxRefreshTokens` and `MaxGrants` allow a redemption, a
replay and refreshes of the result; a request begins only when its results still
fit, so a bound never stops a handler half way. In `decoupled_flows` two
approvers overlap, and an approver and a poll; two polls overlap once they found
the grant, with no approver at work (`Crowd`), since nothing an approver does
then touches that grant; a ping, whose polls are served like those of a poll, is
left out of that. `refresh_delivery` has two successors, so that a stale request
of the first delivery meets the second, and a clock that passes the pending and
the family deadline with a skew of one. `human_authorization` has one flow, two
browsers and the two extreme drifts of the clocks (`MCInit`), since every
comparison is monotonic in the drift; the starting browser is fixed because
browsers are interchangeable (`StartsInAnyBrowser`). `client_authentication`
varies only what a method looks at (`Relevant`) and lets the clock pass the end
of a JWT, its leeway and its reservation. `federation` has a leaf, two
intermediates and an anchor, depth 3, and restricts how many of the fetched
statements are out of the ordinary at a time (`Budget`); its lifetimes end
before, at and after the leeway. Chains that set policies are straight
(`Straight`): two superiors, each with a policy on one and the same attribute or
none, which each attribute's own key (`PolicyKey`) keeps apart from the others,
over a leaf that sets nothing, something or everything; one attribute has a
default, one has a default and choices, one can be cleared. `records` has four
requests, at most two of them in progress at a time (`Pairwise`): enough to
register, change or remove a client, overtake that, and come back later, or to
defer, poll twice and notify. Its manager holds two records, so that the third
save evicts.

`CHECK_DEADLOCK FALSE` is set where an instance ends when its time, its requests
and its room are used up; `federation`, which never ends, checks for deadlock.
Symmetry is over goroutines, grants and keys only, never in runs that check
liveness; there, `decoupled_flows` starts the second goroutine of a kind only while
the first is at work.

`DecoupledFlow`, `AuthorizationEndpoint` and `HumanRefreshDelivery` state a
`TypeOK` that documents their variables; the runs spend their time on the other
properties.

### 3.2 Fairness

`TokenEndpoint!FairSpec` assumes weak fairness of a goroutine that has begun to
serve a request: the Go scheduler runs it again. It assumes nothing about new
requests. `DecoupledFlow!FairSpec` adds that time passes, that storage and the signer
do not fail for ever (strong fairness of `Succeed`) and that the client goes on
polling, strongly fair because a poll can start only while a goroutine
of the instance is free; RFC 8628 and CIBA ask the client to poll, and without
it nothing settles on the client's side. `HumanRefreshDelivery!FairSpec` assumes
that goroutines run on (weakly fair) and that a client that has not settled
goes on asking (strongly fair, since a request needs a free goroutine of the
instance); failures are bounded by `MaxFaults`, which says that they end.
`HumanAuthorization!Fairness` assumes that a request that was decided is
answered, and that a browser whose form got no answer posts it again.
`Federation!FairSpec` assumes that a fetch is answered or fails, which the HTTP
client's timeout gives; `MCFederation!WeaklyFair` is the same assumption in a
form TLC evaluates quickly.

## 4. Proofs

TLC checks the runs' instances; the theorems below hold for every value of the
constants that satisfies the assumptions named, which TLC evaluates in every run.
Each invariant was checked by TLC on the run's instance before it was proved,
and each proof that a step preserves it has one lemma or case per action.

### 4.1 Token endpoint

`TokenEndpoint_proofs` proves, for any sets of clients, grants, codes, requests
and keys, any lifetimes and both kinds of manager:

* `TypeCorrect`: `Spec => []TypeOK`;
* `IssuanceSafe`: `Spec => []IssuedImpliesSpent`;
* `CodesStaySpent`: `Spec => SpentForever`;
* `Implements`: `Spec => ImplementsLifecycle`, the refinement;
* `EndedStaysEnded`: `Spec => EndedForever`, assuming `SharedRecords`, for a
  manager of any capacity;
* `UnsentTokensDead`: `Spec => []UnsentCodeTokensDie`, assuming `SharedRecords`;
* `NobodyLockedOut`: `Spec => []StoredRefreshTokenDelivered`, assuming `~Failures`;
* `OneTokenPerCode`: `MCSpec => []RedeemedAtMostOnceSerially` and
* `BindingKept`: `MCSpec => []BindingContinuitySerially`, for finitely many requests.

Assumed: `ConstantsAssumption` of `TokenEndpoint`, which TLC evaluates in every
run. The hypotheses of the later theorems are those of the runs that check the
properties, or weaker. `SharedRecords` is the in-memory manager: with copies a
refresh that loaded the grant before its revocation saves it unrevoked. `~Failures`
excludes a refresh that fails after the rotation was saved (`HandleGrant`, `Issue`,
a crash): the code sends no response then and keeps the new refresh token. `IsFiniteSet(Requests)` is there because the history
of contention counts the goroutines on a grant.

The properties are not inductive. What a handler will save is in its copy, so
the inductive invariant `IInv` says of each goroutine what its copy and its
place imply. `RequestInv`: a goroutine past its lookup serves a grant that
exists, with a copy of the stored kind, and a redemption is on a grant that has
a code. `WriterInv`: a refresh about to overwrite a grant that has a code holds
a spent copy, and a goroutine that has saved its consumption works under a
grant that is spent in storage. The reason refreshes are harmless is that a
refresh token is delivered only for a spent code or a direct grant
(`DeliveredInv`), so a refresh can only have loaded a spent grant; and tokens
keep pointing to grants that exist (`TokensInv`). The proof
that a step preserves `IInv` has one lemma per action. The refinement follows
from `CodesStaySpent` and from `IssuedImpliesSpent`, one case per way a step
changes a grant or the tokens of a code.

The remaining properties rest on one description of what a step can do to
goroutines, grants and tokens, the step forms (`Waited`, `Created`, `Arrived`,
`Consumed`, `SavedRefreshed`, `Responded`, `Revoked`, `Crashed`; lemma `StepForms`), so
each of their invariants has one case per form. `UnsentInv`: the grant of a token
that was not sent is revoked, or a goroutine is about to revoke it.
`RefreshInv`: the refresh token a grant stores, and any that a goroutine may
store later, has been delivered or is in a response about to leave, unless
nobody has asked for the grant's first one yet. `SerialInv`, of a grant that was
never contended: one goroutine at most works on it; if that redeems the code,
nothing was issued for it yet; its copy has the stored binding; and each token
of the grant fits that binding. `ExchangedInv` supplies that a refreshed token is
under a spent grant, so no redemption follows a refresh.

### 4.2 Registration, logout, credentials

`Records_proofs` proves, for any set of requests, metadata, URIs and
configurations and either kind of manager of any capacity:

* `RemovalsLast`: `Spec => []RemovedForGood`: a client that was removed is stored
  again only if two requests for it were in progress at the same time;
* `AccessKept`: `Spec => []ClientKeepsAccess`;
* `RedirectsCurrent`: `Spec => RedirectsWanted`;
* `DeferralsIssueOnce`: `Spec => []OneIssuancePerDeferral`;
* `RecentlyCreatedKept`: `Spec => []RecentRecordsKept`, for finitely many requests
  (it counts them).

Assumed: `RequestsAssumption` of `Requests` and `StorageAssumption` of
`StorageManager`. `RemovedForGood` is not inductive,
because a handler with the client in its hands will save it. `RemovalInv` adds:
two requests in progress on one record are in `overlapped` (`Paired`); a request
about a removed client is on record as well (`Late`), which a removal establishes
for whoever works on the client at that moment and which no later request can
break, since it would have to find the client stored; and the ID of a request
that has not arrived is nobody's (`Fresh`), so a new client is none that was
removed. `Bystander` takes care of the steps of the other endpoints, which
share goroutines and clock with registration.

`ClientsInv` follows a registration through the hands of a request that is alone
with it (`AloneOK`): its copy is what is stored until it changes the record, and
afterwards what is stored is what the answer will show, each credential in it
either new, and then in the answer, or the one the client holds already
(`NewOrHeld`). Hence the metadata in storage is always what the client wanted,
which is what a logout finds when it looks the client up again. Whatever the
manager and whatever overlaps, a registration token that is stored, or that a
late save may store, was delivered or is in an answer on its way (`TokensOK`,
`ClientCopyOK`); with the in-memory manager the record in hand is the stored one or
one that was evicted, and `InUse` says which records a goroutine may still save. `DeferralsInv` says of a deferral whose polls do not overlap
that whoever is about to issue has saved it as consumed and is the first
(`DeferralOK`).

`RecentInv` states the capacity of each of the four maps as a fact about the times
its records were created at and the keys it holds (`MapOK`), and that what a
handler will save again was created when the record it loaded was (`CopyOK`): a
late save makes no record younger. The counting is in `EvictedIsOld`: an entry
that `removeOldest` picks from a full map has `MaxSize - 1` others as young as it,
and the saved record besides if that one is new. The spare place is lost where a
handler saves a record again: a client or session that the map holds, or a
deferral that was evicted meanwhile, takes the place of a younger one. Only
notifications, which are saved once, have all `MaxSize` places.

### 4.3 Client authentication

`ClientAuthentication_proofs`, for any requests, registrations, credentials,
proofs and lifetimes:

* `JWTsAcceptedOnce`: `Spec => []UsedAtMostOnce`, by `Accounted`: a JWT that was
  accepted is still reserved, or past the last moment at which it verifies, so
  forgetting its reservation admits nothing;
* `WithdrawnKeysRefused`: `Spec => []RetiredKeyRefused`, by `KeysInv`: what a request
  verifies with was published since it arrived, unless it came from the cache;
* `AttestationIsNotEnough`: `Spec => []AttributionSound`, by `ProvenInv`: a request
  past verification has proven a key or secret, or is an attested one on its way
  to the validation of its proof.

Assumed: `ClientAuthenticationAssumption`. The consumer of JTIs is external and atomic,
as section 2.8 says; the theorem rests on that.

### 4.4 Human refresh delivery

`HumanRefreshDelivery_proofs`, for any tokens, requests, faults, lifetimes and
skew:

* `TypeCorrect`: `Spec => []TypeOK`;
* `ClientKeepsActiveToken`: `Spec => []NeverLockedOut`;
* `LogoutEndsTokens`: `Spec => []NoTokensAfterRevocation`;
* `LifetimesBounded`: `Spec => []WireLifetimes`.

Assumed: `DeliveryAssumption`. The client may forget its predecessor when it is told tokens, and its successor
when it is told an abort or a refusal; that neither is the active token needs to
know what every request in flight can still do. `Holding` says which token is
active, `SentOK` that an activation on its way is about the successor the client
keeps or about a delivery that has ended, `DecidedOK` that a decision not yet
reported still agrees with the authority, and `RefusedOK` that a refused abort is
final: no activation that could succeed is on its way. `RevocationOK` is the same
for revocations.

### 4.5 Strict human authorization

`HumanAuthorization_proofs`, for any flows, browsers, redirect URIs, rotations,
faults, lifetimes and skew:

* `TypeCorrect`: `Spec => []TypeOK`;
* `SkewIsHarmless`: `Spec => []SkewBurnsNoCode`;
* `CodesAndTokensAsAdmitted`: `Spec => AdmittedRegistrationOnly`;
* `CodesStayInBrowser`: `HistorySpec => []CodeStaysInBrowser`, where `HistorySpec`
  (`MCHumanAuthorization`) is `Spec` with the history of who started which flow.

Assumed: `HumanAssumption` (at least one browser and redirect URI). `DecisionOK`
ties a decision that is not yet answered to its flow: made no later
than now and naming the revision the flow was pushed under. `HistoryInv` says that
a cookie is with a browser that started its flow and that a flow is completed
only for such a browser. The proof is for every drift within the skew, where the
run takes the two extremes.

### 4.6 Federation

`Federation_proofs`, for chains of any length, any entities, hints, keys, lifetimes,
policies and metadata:

* `MetadataUnderAllPolicies`: `Spec => []PoliciesHonoured`, for any defaults,
  choices and attributes the provider clears;
* `ChainsUnbroken`: `Spec => []ChainSound`.

Assumed: `FederationAssumption`. The core of the first is about operators, not
steps. `MergeKeepsBoth`: a value that satisfies merged operators satisfies those
of the superior and those of the subordinate. `AppliedSatisfies`: what applying
accepted operators to a value yields satisfies them (`AppliedAttribute`, scopes
included). `RegisteredSatisfies`: adapting metadata that satisfies a policy departs
from it only as `PoliciesHonoured` allows. The policy of a chain is a
recursive function of its length, and the library's induction theorems cannot
be used here; `SetInduction` is induction over a *set* of numbers, from the
well-foundedness of the naturals, and is enough for `ChainOfPolicies` (every
policy of the chain is among what was merged). `Searching` is the invariant
of the search: the branch on the stack is linked by name and key, one statement
per link, and asks no URL twice; `Chained` is what it leaves behind, and what a
chain that was handed over has to be.

### 4.7 Device and CIBA flows

`DecoupledFlow_proofs`, for any handles, goroutines, lifetimes, with or without
failures:

* `RedemptionBounded`: `Spec => []RedeemedInWindow`;
* `AnnouncementsHold`: `Spec => []AnnouncedMeansRedeemable`;
* `OneTokenUncontended`: `MCSpec => []OneTokenPerRequest`, where `MCSpec`
  (`MCDecoupledFlow`) is `Spec` with the history `contended`.

Assumed: `FlowAssumption`, with finitely many approvers and polls because
`contended` counts them; the manager may return the stored grants or copies.
`Inv` ties grants, tokens and goroutines to how their handle was opened and
to its deadline; a poll that may redeem asked before it (`HeldOK`), and the copy in
its hands is one of the handle's grants. `SinglesOK` says of an uncontended CIBA
request that it has at most one grant and one token, that the token consumed the
grant, that whoever is about to create a grant, to push or to issue a token finds
none, and that no copy in a poll's hands would undo the consumption when it is
saved.

### 4.8 Authorization endpoint

`AuthorizationEndpoint_proofs`, for any sessions, goroutines, parameters and
lifetimes, either kind of manager, with or without failures:

* `PushedParametersPrevail`: `Spec => []PushedParametersWin`;
* `AuthorizationsBounded`: `Spec => []BoundedAuthorization`;
* `AbortedStaysDead`: `Spec => AbortedNeverGranted`.

Assumed: `EndpointAssumption`, with a positive session lifetime
(`nonZeroOrDefault`, `pkg/provider/provider.go:277`). What may be saved later is in the goroutines'
hands, so `SessionOK` is asked of every record, stored or held: it carries what
was pushed, a direct one has the deadline of its beginning, and one whose
callback came too early has no policy, hence fails wherever it is taken up.

### 4.9 Only model-checked

Out of the prover's reach are the liveness properties (`ReplayKillsTokens`,
`RequestsSettle`, `DeliveriesSettle`, `ConfirmationReachesBrowser`,
`ResolutionEnds`): fairness and ENABLED. Every invariant and action property of a
passing run is a theorem. The two runs that expect a violation
(`token_reuse`, `authorize_ends`) stay with TLC by their nature.

## 5. Not modelled

* Parsing, signatures, encryption, HTTP and JSON: pure functions around
  libraries; their outcome is an input of the actions.
* Scopes, resources, authorization details, claims: compared as sets by
  stateless validators; one Boolean input.
* Failures of a manager's lookups: they answer with an error and change nothing.
* Userinfo and discovery: read-only.
* Request objects (JAR): they only supply parameters, which are inputs.
* Provider options: they set fields whose values are the CONSTANTS of the modules
  or `config`; their combination is checked once, when the provider starts.
* Federation: trust marks and the provider's own entity configuration. The rules
  by which `client.Resolve` refuses metadata, and by which it decides what to
  clear or fill, are a choice of the model (section 2.9).
* Eviction, other than of grants (2.1) and of the records of 2.5: of authentication
  sessions and opaque tokens, whose loss is an answer that they do not exist.
* Credential offers: written once and only read afterwards.
* The encoding of cookies, capabilities and tokens of the strict profile, and its
  admission grammar: stateless; a request that is refused leaves no trace.
* The composition of client authentication with federation at the PAR endpoint: a
  client whose federated registration has expired is authenticated once with the
  stored record and again with the renewed one (`par.go:49`, `par.go:410`), so
  with a JTI consumer the second reservation of its assertion is a replay and
  the request is refused. Each module has its half of this; no run combines them.

## 6. Plan

The invariants and action properties of the runs are proved. What could follow:

1. The safety half of the liveness properties: that a goroutine never waits for
   a step nobody can take, as an invariant on its stages.
2. Statements about several components at once, first the composition of client
   authentication with federation at the PAR endpoint (section 5).
3. `MetadataPolicy`: that combining policies is associative on what it accepts, so
   that a chain may be combined from either end.
