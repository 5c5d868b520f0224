---------------------------- MODULE MCFederation ----------------------------
(* An instance of Federation for TLC. *)
EXTENDS Federation

CONSTANTS leaf, i1, i2, ta, none

MCClientAttributes == {"grants", "custom", "scope", "method", "methods"}
MCType == [grants |-> "list", custom |-> "any", scope |-> "scope", method |-> "scalar",
           methods |-> "list", endpoint |-> "scalar"]
MCDefault == [grants |-> List({"b"}), method |-> Scalar("s")]
MCChoicesOf == [method |-> "methods"]
MCSupported == [method |-> {Scalar("s")}]

-----------------------------------------------------------------------------
(* Policies of at most two operators on one attribute. *)

Single(a) ==
  LET lists == {List({"a"}), List({"a", "b"})}
      scalars == {Scalar("s"), Scalar("t")}
      oneOfs == [oneOf : [set : {TRUE}, vals : {{Scalar("s")}, scalars}]]
      bounds == [subsetOf : lists] \cup [supersetOf : {List({"a"})}] \cup [add : {List({"b"})}]
      values(S) == [value : [set : {TRUE}, v : S]]
      twice == [List({"a"}) EXCEPT !.len = 2]
  IN  [essential : {TRUE}] \cup
      CASE Type[a] = "list" -> bounds \cup values(lists \cup {twice, Zero}) \cup [default : lists]
        [] Type[a] = "scope" -> bounds \cup values({List({"a"}), Zero}) \cup [default : {List({"a"})}]
        [] Type[a] = "scalar" -> oneOfs \cup values(scalars) \cup [default : scalars]
        [] Type[a] = "any" -> bounds \cup oneOfs \cup [default : {Scalar("s"), List({"a"})}]

Overridden(ops, o) == [f \in DOMAIN ops |-> IF f \in DOMAIN o THEN o[f] ELSE ops[f]]

Policies(a) ==
  {NoPolicy} \cup {[NoPolicy EXCEPT ![a] = Overridden(Overridden(NoOps, o), p)]
                     : o \in Single(a), p \in Single(a)}

-----------------------------------------------------------------------------
NoLimit == Cardinality(Entities)

Statement(p) ==
  [iss |-> p[1], sub |-> p[2], by |-> 1, key |-> 1, life |-> 2, policy |-> NoPolicy,
   maxPath |-> NoLimit, names |-> Entities, allowed |-> Attributes, meta |-> << >>]
StraightPairs == {<<i1, leaf>>, <<ta, leaf>>, <<ta, i1>>}
Odd(s) ==
  {[s EXCEPT !.life = n] : n \in {-2, -1}}
  \cup {[s EXCEPT !.key = 2], [s EXCEPT !.by = 2], [s EXCEPT !.maxPath = 0],
        [s EXCEPT !.names = Entities \ {i1}], [s EXCEPT !.allowed = ProviderAttributes],
        [s EXCEPT !.meta = [grants |-> List({"b"})]]}
SearchVouched ==
  {Statement(p) : p \in Entities \X Entities}
  \cup UNION {Odd(Statement(p)) : p \in Authorities \X Entities}

\* The key of those who set policies on an attribute: i1 and its superior, each
\* with any policy or none.
PolicyKey == [grants |-> 3, custom |-> 4, scope |-> 5, method |-> 6, endpoint |-> 7]
PolicyKeys == {PolicyKey[a] : a \in DOMAIN PolicyKey}
PolicyVouched ==
  UNION {{[Statement(p) EXCEPT !.policy = q, !.by = PolicyKey[a], !.key = PolicyKey[a]] :
            p \in {<<i1, leaf>>, <<ta, i1>>}, q \in {q \in Policies(a) : ValidatePolicy(q)}} :
         a \in DOMAIN PolicyKey}
MCVouched == SearchVouched \cup PolicyVouched

MCHanded ==
  LET s == {Statement(p) : p \in StraightPairs} IN
  s \cup {[t EXCEPT !.key = 2] : t \in s} \cup {[t EXCEPT !.by = 2] : t \in s}
  \cup {[t EXCEPT !.life = 1] : t \in s}

NoMeta == [grants |-> Zero, custom |-> Zero, scope |-> List({}), method |-> Zero,
           methods |-> Zero, endpoint |-> Zero]
Config(e) == [iss |-> e, key |-> 1, life |-> 2, hints |-> <<i1, ta>>,
              meta |-> [NoMeta EXCEPT !.grants = List({"a"}), !.method = Scalar("s"),
                                      !.endpoint = Scalar("s")]]
SearchPublished ==
  {Config(e) : e \in Entities} \cup {[Config(e) EXCEPT !.key = 2] : e \in Entities}
  \cup {[Config(e) EXCEPT !.hints = h] : e \in Entities,
         h \in {<<i1>>, <<ta>>, <<i2, leaf>>, <<i2, ta>>, << >>}}
  \cup {[Config(leaf) EXCEPT !.life = 1], [Config(leaf) EXCEPT !.meta = [endpoint |-> Zero]]}

PolicyConfig(e, k, h, m) == [Config(e) EXCEPT !.key = k, !.hints = h, !.meta = m]
PolicyPublished ==
  {PolicyConfig(e, k, <<ta>>, NoMeta) : e \in {i1, ta}, k \in PolicyKeys}
  \cup {PolicyConfig(leaf, k, <<i1>>, m) : k \in PolicyKeys,
         m \in {NoMeta,
                [NoMeta EXCEPT !.grants = List({"a"}), !.custom = Scalar("s"),
                               !.scope = List({"a"}), !.methods = List({"s", "t"})],
                [NoMeta EXCEPT !.grants = List({"a", "b"}), !.custom = List({"a"}),
                               !.method = Scalar("t"), !.methods = List({"s", "t"}),
                               !.endpoint = Scalar("s")]}}
MCPublished == SearchPublished \cup PolicyPublished

\* In at most Budget respects the fetched statements are out of the ordinary.
OddConfig(x, e) ==
  (IF x.ent # x.url THEN 1 ELSE 0)
  + (IF \/ x.key # 1 \/ x.exp \notin {0, e} \/ x.meta \notin {<< >>, Config(leaf).meta}
        \/ x.hints \notin {<<i1, ta>>, <<ta>>, << >>}
     THEN 1 ELSE 0)
OddSub(x, e) ==
  IF \/ x.by # 1 \/ x.key # 1 \/ x.exp # e \/ x.meta # << >>
     \/ x.maxPath # NoLimit \/ x.names # Entities \/ x.allowed # Attributes
  THEN 1 ELSE 0
Oddities(e) ==
  FoldLeft(LAMBDA n, x : n + OddConfig(x, e),
           FoldLeft(LAMBDA n, x : n + OddSub(x, e), 0, subs'), stack')
  + (IF stack' # << >> /\ stack'[1].ent # leaf THEN 1 ELSE 0)

Budget == CASE stored # 0 -> 0
            [] stored = 0 /\ now = Leeway -> IF kind = "automatic" THEN 2 ELSE 1
            [] OTHER -> 0

Odds == Len(stack') + Len(subs') <= Len(stack) + Len(subs) \/ Oddities(now + 2) <= Budget

\* A chain is one to search or one to combine the policies of, on one attribute.
Straight == kind' # "automatic" /\ now' = Leeway /\ stored' = 0

KeysInUse ==
  {stack[i].key : i \in 1..Len(stack)} \cup (IF auth = None THEN {} ELSE {auth.key})
MCNext ==
  /\ Next
  /\ IF KeysInUse' \cap PolicyKeys = {}
     THEN Odds
     ELSE Cardinality(KeysInUse') = 1 /\ Straight

\* WF_vars(Serve), as TLC evaluates it quickly: Serve is enabled whenever a
\* request is served, and is what happens then while the clock stands still.
Serving == pc # "idle" /\ UNCHANGED now
WeaklyFair == []<>(pc = "idle") \/ []<><<Serving>>_vars

MCFairSpec == Init /\ [][MCNext]_vars /\ WeaklyFair
=============================================================================
