----------------------------- MODULE Federation -----------------------------
(***************************************************************************)
(* Registration of clients through OpenID Federation.  A request names a   *)
(* client that is not registered, or whose registration has expired: the   *)
(* provider searches a chain of statements from the client's own           *)
(* configuration up to a trust anchor, depth first along the authority     *)
(* hints, resolves the client's metadata under the policies of the chain   *)
(* and saves it until the first of the statements expires.                 *)
(*                                                                         *)
(* Every fetch is a step of its own, and what it returns is published by   *)
(* somebody else: names, keys, lifetimes, hints and policies are any of    *)
(* the instance's, and may differ from what was published one step before. *)
(* An entity is who its own configuration says it is: nothing compares     *)
(* that name with the URL the configuration was fetched from.              *)
(*                                                                         *)
(* The JWKS of an entity is one key, which signs what the entity issues.   *)
(***************************************************************************)
EXTENDS MetadataPolicy, Sequences, SequencesExt

CONSTANTS
  Leaf, Authorities, Anchors, None,
  Published,   \* configurations: [iss, key, life, hints, meta]
  Vouched,     \* subordinate statements: [iss, sub, by, key, life, policy, maxPath, names, allowed, meta]
  Handed,      \* those in the chains that clients hand over
  MaxHanded,   \* the number of them in such a chain
  Default,     \* what the provider fills omitted attributes of a client with
  Clearable,   \* the attributes of features that are off, or that the client does not use
  ChoicesOf,   \* the attribute that lists the client's choices for another one
  Supported,   \* the values the provider supports of an attribute with choices
  OpenIDFedClientRegTypes,
  OpenIDFedTrustChainMaxDepth,
  Leeway, MaxTime

Entities == Authorities \cup {Leaf}

\* parseAuthorityConfiguration: of an authority name, key and hints are used.
\* The circularity check knows it by its URL.
parseAuthorityConfiguration(url, c) ==
  [url |-> url, ent |-> c.iss, key |-> c.key, exp |-> 0, hints |-> c.hints, meta |-> << >>]

ASSUME FederationAssumption ==
  /\ Anchors \subseteq Authorities /\ Leaf \notin Authorities
  /\ DOMAIN Default \subseteq ClientAttributes /\ Clearable \subseteq ClientAttributes
  /\ DOMAIN ChoicesOf \subseteq ClientAttributes
  /\ OpenIDFedClientRegTypes \subseteq {"automatic", "explicit"}
  /\ OpenIDFedTrustChainMaxDepth \in Nat /\ MaxHanded \in Nat
  /\ Leeway \in Nat /\ MaxTime \in Nat
  /\ \A c \in Published :
       /\ c.iss \in Entities /\ c.life \in Int
       /\ c.hints \in Seq(Entities) /\ DOMAIN c.meta \subseteq Attributes
       /\ \A e \in Entities : parseAuthorityConfiguration(e, c) # None
  /\ \A s \in Vouched \cup Handed : s.iss \in Entities /\ s.sub \in Entities /\ s.life \in Int

VARIABLES
  now,
  pc, kind,  \* the goroutine, and the endpoint it serves
  stack,     \* the entities from the leaf up, each with the hints it has left
  subs,      \* subs[i] is the statement about stack[i]
  auth,      \* the authority whose statement is asked for, or the anchor of a
             \* chain that was handed over
  found,     \* the resolved entity
  stored     \* the deadline of Leaf's registration in the client manager

vars == <<now, pc, kind, stack, subs, auth, found, stored>>

\* Automatic registration at the authorization or the PAR endpoint, explicit
\* registration, and the resolution of an entity for the embedder.
Kinds == {"automatic", "explicit", "resolve"}
NoResult == [meta |-> << >>, expires |-> 0]

\* claims.ValidateWithLeeway accepts a statement until Leeway after its end.
Current(s) == s.life >= -Leeway

\* parseEntityConfiguration: a configuration is issued by the entity it is
\* about and signed with that entity's key, whatever URL it comes from.
parseEntityConfiguration(c) ==
  [url |-> c.iss, ent |-> c.iss, key |-> c.key, exp |-> now + c.life, hints |-> c.hints,
   meta |-> c.meta]

parseSubordinateStatement(s) ==
  [iss |-> s.iss, sub |-> s.sub, by |-> s.by, key |-> s.key, exp |-> now + s.life,
   policy |-> s.policy, maxPath |-> s.maxPath, names |-> s.names, allowed |-> s.allowed,
   meta |-> s.meta]

\* The issuer, the subject and the key that the caller expects.
Expected(s, iss, sub, by) == s.by = by /\ s.iss = iss /\ s.sub = sub

Fail ==
  /\ pc' = "idle" /\ kind' = "none"
  /\ stack' = << >> /\ subs' = << >> /\ auth' = None /\ found' = NoResult

-----------------------------------------------------------------------------
\* The registration in the client manager is still good.
Fresh == now < stored

\* initAuth, pushAuth, handleExplicitRegistration, Resolve: a client is looked
\* for in the federation unless its registration is fresh. Without automatic
\* registration a stored one is served as it is, whatever its deadline, and so
\* it is at every other endpoint.
Begin(k) ==
  /\ pc = "idle"
  /\ k \in OpenIDFedClientRegTypes \cup {"resolve"}
  /\ k = "automatic" => ~Fresh
  /\ kind' = k /\ pc' = "config"
  /\ UNCHANGED <<now, stack, subs, auth, found, stored>>

\* fetchEntityConfiguration, or the configuration posted for registration:
\* whose it is, it says itself.
FetchEntityConfiguration ==
  /\ pc = "config"
  /\ \/ Fail
     \/ \E c \in Published :
          /\ Current(c)
          /\ stack' = <<parseEntityConfiguration(c)>>
          /\ pc' = "hints"
          /\ UNCHANGED <<kind, subs, auth, found>>
  /\ UNCHANGED <<now, stored>>

Top == Last(stack)
OnPath == {stack[i].url : i \in 1..Len(stack)}

\* The loop goes on with the next hint.
DropHint(s) == [s EXCEPT ![Len(s)].hints = Tail(@)]

\* buildTrustChainFromConfig is out of hints: its caller tries the next of its
\* own, and the first call fails.
NoHintLeft ==
  /\ pc = "hints" /\ Top.hints = << >>
  /\ IF Len(stack) = 1
     THEN Fail
     ELSE /\ stack' = Front(stack) /\ subs' = Front(subs)
          /\ UNCHANGED <<pc, kind, auth, found>>
  /\ UNCHANGED <<now, stored>>

\* Mutant: a circular hint is tried for ever.
CircularHint_Kept ==
  /\ pc = "hints" /\ Top.hints # << >> /\ Head(Top.hints) \in OnPath
  /\ auth' = IF auth = None THEN Top ELSE None
  /\ UNCHANGED <<now, pc, kind, stack, subs, found, stored>>

\* The hint is the client's name or a hint taken on this branch
\* (ErrCircularDependency).
CircularHint ==
  /\ pc = "hints" /\ Top.hints # << >> /\ Head(Top.hints) \in OnPath
  /\ stack' = DropHint(stack)
  /\ UNCHANGED <<now, pc, kind, subs, auth, found, stored>>

FetchAuthorityConfiguration ==
  /\ pc = "hints" /\ Top.hints # << >> /\ Head(Top.hints) \notin OnPath
  /\ stack' = DropHint(stack)
  /\ \/ UNCHANGED <<pc, auth>>
     \/ \E c \in Published :
          /\ Current(c)
          /\ auth' = parseAuthorityConfiguration(Head(Top.hints), c)
          /\ pc' = "subordinate"
  /\ UNCHANGED <<now, kind, subs, found, stored>>

\* Mutant: any key will do.
SignedFor_Any(s, c) == TRUE

\* The configuration is signed with the key its superior vouches for.
SignedFor(s, c) == s.key = c.key

\* buildTrustChainBranch as it returns from an anchor: the call that prepends
\* the statement that makes the chain too long fails, and its caller goes on.
UnwindTo == Len(stack) + 2 - (IF OpenIDFedTrustChainMaxDepth >= 2
                              THEN OpenIDFedTrustChainMaxDepth + 1 ELSE 3)
TooDeep == UnwindTo >= 1

FetchSubordinateStatement ==
  /\ pc = "subordinate"
  /\ \/ /\ pc' = "hints" /\ auth' = None
        /\ UNCHANGED <<stack, subs>>
     \/ \E s \in Vouched :
          /\ Expected(s, auth.ent, Top.ent, auth.key) /\ Current(s) /\ SignedFor(s, Top)
          /\ ValidatePolicy(s.policy)
          /\ auth' = None
          /\ \/ /\ auth.ent \in Anchors /\ TooDeep
                /\ pc' = "hints"
                /\ stack' = SubSeq(stack, 1, UnwindTo)
                /\ subs' = SubSeq(subs, 1, UnwindTo - 1)
             \/ /\ auth.ent \in Anchors => ~TooDeep
                /\ pc' = IF auth.ent \in Anchors THEN "resolve" ELSE "hints"
                /\ stack' = Append(stack, auth)
                /\ subs' = Append(subs, parseSubordinateStatement(s))
  /\ UNCHANGED <<now, kind, found, stored>>

\* Each statement is about the issuer of the one before and signed with the key
\* that the one after it vouches for.
Linked(h) ==
  /\ h[Len(h)].iss \in Anchors
  /\ \A i \in 1..Len(h) : Current(h[i]) /\ ValidatePolicy(h[i].policy)
  /\ \A i \in 2..Len(h) : Expected(h[i - 1], h[i].sub, h[i - 1].sub, h[i].key)

\* parseTrustChain: the client hands over the whole chain, and the anchor's
\* configuration is fetched. There is no limit to its length; without a
\* statement in it the request ends in a panic, as if the fetch had failed.
\* A configuration posted with a chain in its header takes the place of the
\* one in the chain.
ParseTrustChain ==
  /\ pc = "config" /\ kind # "resolve"
  /\ \E n \in 1..MaxHanded : \E h \in [1..n -> Handed] :
       /\ Linked(h)
       /\ \E c, anchor \in Published :
            /\ Current(c) /\ Current(anchor)
            /\ c.iss = h[1].sub /\ SignedFor(h[1], c)
            /\ kind = "automatic" => c.iss = Leaf
            /\ h[n].by = anchor.key
            /\ auth' = parseAuthorityConfiguration(h[n].iss, anchor)
            /\ \/ stack' = <<parseEntityConfiguration(c)>>
               \/ \E posted \in Published :
                    /\ kind = "explicit" /\ posted.iss = c.iss /\ Current(posted)
                    /\ stack' = <<parseEntityConfiguration(posted)>>
       /\ subs' = [i \in 1..n |-> parseSubordinateStatement(h[i])]
  /\ pc' = "resolve"
  /\ UNCHANGED <<now, kind, found, stored>>

-----------------------------------------------------------------------------
(* trustChain.resolve *)

\* The policies from the anchor's down to that of the immediate superior.
PolicyFrom ==
  LET p[i \in 1..(Len(subs) + 1)] ==
        IF i > Len(subs) THEN NoPolicy ELSE MergePolicy(p[i + 1], subs[i].policy)
  IN  p

ResolvedExpiry ==
  LET exps == {stack[1].exp} \cup {subs[i].exp : i \in 1..Len(subs)}
  IN  CHOOSE e \in exps : \A d \in exps : e <= d

\* Each superior limits the intermediates below it and the names of entities.
ConstraintsHold ==
  \A i \in 1..Len(subs) :
    /\ i - 1 <= subs[i].maxPath
    /\ \A j \in 1..i : subs[j].sub \in subs[i].names

\* The immediate superior limits the entity types as well: allowed are their
\* attributes.
ResolvedMetadata(policies) ==
  ApplyPolicy(policies[1],
              Restrict(MergeMetadata(subs[1].meta, stack[1].meta),
                       subs[1].allowed \cap DOMAIN stack[1].meta))

PoliciesHold(policies, meta) ==
  /\ \A i \in 1..Len(subs) : ~PolicyConflict(policies[i]) /\ ValidatePolicy(policies[i])
  /\ \A a \in DOMAIN meta : meta[a] # Error

-----------------------------------------------------------------------------
(* resolveClient: the registration. *)

\* An entity that is no client is not registered.
IsClient(meta) == ClientAttributes \subseteq DOMAIN meta

\* What is set has to be one of the client's choices, and gives way to another
\* of them if the provider does not support it.
resolveChoice(a, meta) ==
  LET declared == {Scalar(x) : x \in meta[ChoicesOf[a]].els} IN
  CASE declared = {} -> {meta[a]}
    [] declared # {} /\ meta[a] \notin declared \cup {Zero} -> {}
    [] declared # {} /\ meta[a] \in declared \cap Supported[a] -> {meta[a]}
    [] OTHER -> declared \cap Supported[a]

ResolvedChoices(meta) ==
  {c \in [DOMAIN ChoicesOf -> UNION {resolveChoice(a, meta) : a \in DOMAIN ChoicesOf}] :
     \A a \in DOMAIN ChoicesOf : c[a] \in resolveChoice(a, meta)}

Absent(v) == v \in {Zero, List({})}

\* client.Resolve, after the policies were applied: choices are resolved,
\* omitted attributes filled, and those without a use cleared. Which of them
\* are depends on the others.
Registered(meta, cleared, filled, choice) ==
  [a \in DOMAIN meta |->
     LET v == IF a \in DOMAIN ChoicesOf THEN choice[a] ELSE meta[a] IN
     CASE a \in cleared -> Zero
       [] a \notin cleared /\ a \in filled /\ Absent(v) -> Default[a]
       [] OTHER -> v]

ClientResolve(meta) ==
  {Registered(meta, cleared, filled, choice) :
     cleared \in SUBSET Clearable, filled \in SUBSET DOMAIN Default,
     choice \in ResolvedChoices(meta)}

Resolve ==
  LET policies == PolicyFrom
      meta == ResolvedMetadata(policies)
      outcomes == IF ~(ConstraintsHold /\ PoliciesHold(policies, meta)) THEN {}
                  ELSE IF kind = "resolve" THEN {meta}
                  ELSE IF IsClient(meta) THEN ClientResolve(meta) ELSE {} IN
  /\ pc = "resolve"
  /\ IF outcomes = {}
     THEN Fail
     ELSE \E m \in outcomes :
            /\ found' = [meta |-> m, expires |-> ResolvedExpiry]
            /\ pc' = "save"
            /\ UNCHANGED <<kind, stack, subs, auth>>
  /\ UNCHANGED <<now, stored>>

\* registerClientExplicitly, initAuth, pushAuth: the client is saved under the
\* name in its configuration once the rest of the request was validated.
Save ==
  /\ pc = "save"
  /\ stored' = IF kind # "resolve" /\ stack[1].ent = Leaf THEN found.expires ELSE stored
  /\ Fail
  /\ UNCHANGED now

\* The metadata, a trust mark, the registration type or the request is refused.
Reject ==
  /\ pc = "save"
  /\ Fail
  /\ UNCHANGED <<now, stored>>

Tick ==
  /\ now < MaxTime
  /\ now' = now + 1
  /\ UNCHANGED <<pc, kind, stack, subs, auth, found, stored>>

Init ==
  /\ now = Leeway
  /\ pc = "idle" /\ kind = "none"
  /\ stack = << >> /\ subs = << >> /\ auth = None /\ found = NoResult
  /\ stored = 0

Serve ==
  \/ FetchEntityConfiguration \/ ParseTrustChain \/ NoHintLeft \/ CircularHint
  \/ FetchAuthorityConfiguration \/ FetchSubordinateStatement \/ Resolve \/ Save \/ Reject

Next == Tick \/ Serve \/ \E k \in Kinds : Begin(k)

Spec == Init /\ [][Next]_vars

\* Every fetch is answered or fails.
FairSpec == Spec /\ WF_vars(Serve)

-----------------------------------------------------------------------------
(* Properties. *)

\* How a registration may depart from the policies: an attribute without a use
\* is cleared, one that no superior requires to be present is filled, and one
\* with choices takes a value that the provider supports.
Adapted(a) ==
  \/ a \in Clearable /\ found.meta[a] = Zero
  \/ /\ a \in DOMAIN Default /\ found.meta[a] = Default[a]
     /\ \E v \in {Zero, List({})} : \A i \in 1..Len(subs) : Satisfies(Type[a], subs[i].policy[a], v)
  \/ a \in DOMAIN ChoicesOf /\ found.meta[a] \in Supported[a]

\* The metadata an entity is resolved to satisfies the policy of every superior
\* of its chain, however the policies combine: what merging, validating and
\* applying let through is what each of them asked for. A client is registered
\* with that metadata as client.Resolve adapts it, which no policy restrains:
\* a value that a superior excludes appears only where it could have been
\* omitted (or is a choice), and what a superior requires stays unless it has
\* no use at this provider.
PoliciesHonoured ==
  pc = "save" =>
    \A i \in 1..Len(subs) : \A a \in DOMAIN found.meta :
      \/ Satisfies(Type[a], subs[i].policy[a], found.meta[a])
      \/ kind # "resolve" /\ Adapted(a)

\* The configuration the chain ends with.
TrustAnchorConfig == IF auth = None THEN Last(stack) ELSE auth

\* The chain behind a registration is unbroken by name and by key, from the
\* client up to one that calls itself a trust anchor: each statement is about
\* the issuer of the one below and signed with the key that the one above
\* vouches for, although names, keys and hints change between the fetches. If
\* the provider searched the chain, no URL was asked twice for it and it is no
\* longer than allowed. The client's configuration is signed with the key its
\* immediate superior vouches for, unless it was posted with a chain in its
\* header.
ChainSound ==
  pc = "save" =>
    /\ subs[1].sub = stack[1].ent
    /\ \A i \in 2..Len(subs) : subs[i].sub = subs[i - 1].iss /\ subs[i].key = subs[i - 1].by
    /\ subs[Len(subs)].iss \in Anchors /\ subs[Len(subs)].by = TrustAnchorConfig.key
    /\ auth = None =>
         /\ \A i, j \in 1..Len(stack) : i # j => stack[i].url # stack[j].url
         /\ Len(subs) + 1 <= OpenIDFedTrustChainMaxDepth \/ Len(subs) = 1
    /\ auth = None \/ kind = "automatic" => subs[1].key = stack[1].key

\* A resolution ends, whatever the hints are, as long as they name finitely
\* many URLs: a branch never asks one twice. (An endless supply of authorities
\* keeps a search going: its depth is counted on the way back from an anchor.)
ResolutionEnds == pc # "idle" ~> pc = "idle"
=============================================================================
