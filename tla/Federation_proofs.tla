------------------------- MODULE Federation_proofs -------------------------
(***************************************************************************)
(* Proofs about Federation and MetadataPolicy: chains of any length, any   *)
(* entities, names, hints, keys, lifetimes, policies and metadata, and any *)
(* way a provider adapts it.                                               *)
(***************************************************************************)
EXTENDS Federation, FiniteSetTheorems, WellFoundedInduction, TLAPS

-----------------------------------------------------------------------------
(* Policies: merging and applying. *)

\* Merging operators loses nothing: a value that satisfies the merged
\* operators satisfies those of the superior and those of the subordinate
\* (Merge of the operators in operator.go).
LEMMA MergeKeepsBoth ==
  ASSUME NEW t, NEW high, NEW low, NEW v, ~Conflict(Merge(t, high, low)),
         Satisfies(t, Merge(t, high, low), v)
  PROVE  Satisfies(t, high, v) /\ Satisfies(t, low, v)
<1> DEFINE m == Merge(t, high, low)
<1>1. /\ m.value = mergeValue(t, high, low) /\ m.add = Joined(t, high.add, low.add)
      /\ m.default = mergeDefault(t, high, low) /\ m.oneOf = mergeOneOf(high, low)
      /\ m.subsetOf = mergeSubsetOf(t, high, low)
      /\ m.supersetOf = Joined(t, high.supersetOf, low.supersetOf)
      /\ m.essential <=> high.essential \/ low.essential
  BY DEF Merge, mergeAdd, mergeSupersetOf
<1>2. /\ m.value.v # Error /\ m.add # Error /\ m.default # Error /\ m.subsetOf # Error
      /\ m.supersetOf # Error /\ Error \notin m.oneOf.vals
  BY DEF Conflict
<1>3. /\ m.value.set => compare(t, v, m.value.v)
      /\ IsSet(m.add) => m.add.els \subseteq v.els
      /\ (IsSet(m.default) \/ m.essential) /\ t # "scope" => v # Zero
      /\ m.oneOf.set => v \in m.oneOf.vals
      /\ IsSet(m.subsetOf) => v.shape # "scalar" /\ v.els \subseteq m.subsetOf.els
      /\ IsSet(m.supersetOf) => v.shape # "scalar" /\ m.supersetOf.els \subseteq v.els
  BY DEF Satisfies
<1> HIDE DEF m
<1>4. /\ high.value.set => compare(t, v, high.value.v)
      /\ low.value.set => compare(t, v, low.value.v)
  <2>1. CASE high.value.set /\ low.value.set
    <3>1. compare(t, high.value.v, low.value.v) /\ m.value = high.value
      BY <1>1, <1>2, <2>1 DEF mergeValue
    <3>2. compare(t, v, high.value.v)
      BY <1>3, <2>1, <3>1
    <3>3. compare(t, v, low.value.v)
      BY <3>1, <3>2 DEF compare
    <3>4. QED
      BY <3>2, <3>3
  <2>2. CASE ~(high.value.set /\ low.value.set)
    BY <1>1, <1>3, <2>2 DEF mergeValue
  <2>3. QED
    BY <2>1, <2>2
<1>5. ASSUME NEW h, NEW l, Joined(t, h, l) # Error,
             NEW els, IsSet(Joined(t, h, l)) => Joined(t, h, l).els \subseteq els
      PROVE  (IsSet(h) => h.els \subseteq els) /\ (IsSet(l) => l.els \subseteq els)
  <2>1. CASE IsSet(h) /\ IsSet(l)
    <3>1. Joined(t, h, l) = mergeSlices(t, h, l)
      BY <2>1 DEF Joined
    <3>2. Joined(t, h, l) = List(h.els \cup l.els)
      BY <1>5, <3>1 DEF mergeSlices
    <3>3. Joined(t, h, l).els = h.els \cup l.els /\ IsSet(Joined(t, h, l))
      BY <3>2 DEF List, IsSet, Zero
    <3>4. QED
      BY <1>5, <3>3
  <2>2. CASE ~(IsSet(h) /\ IsSet(l))
    BY <1>5, <2>2 DEF Joined
  <2>3. QED
    BY <2>1, <2>2
<1>6. /\ IsSet(high.add) => high.add.els \subseteq v.els
      /\ IsSet(low.add) => low.add.els \subseteq v.els
  BY <1>1, <1>2, <1>3, <1>5
<1>7. /\ IsSet(high.supersetOf) => high.supersetOf.els \subseteq v.els
      /\ IsSet(low.supersetOf) => low.supersetOf.els \subseteq v.els
  BY <1>1, <1>2, <1>3, <1>5
<1>8. IsSet(high.supersetOf) \/ IsSet(low.supersetOf) => v.shape # "scalar"
  <2>1. IsSet(high.supersetOf) \/ IsSet(low.supersetOf) => IsSet(m.supersetOf)
    BY <1>1, <1>2 DEF Joined, mergeSlices, List, IsSet, Zero
  <2>2. QED
    BY <1>3, <2>1
<1>9. /\ IsSet(high.default) \/ high.essential \/ IsSet(low.default) \/ low.essential
      /\ t # "scope"
      => v # Zero
  <2>1. IsSet(high.default) \/ IsSet(low.default) => IsSet(m.default)
    BY <1>1, <1>2 DEF mergeDefault, IsSet
  <2>2. QED
    BY <1>1, <1>3, <2>1
<1>10. (high.oneOf.set => v \in high.oneOf.vals) /\ (low.oneOf.set => v \in low.oneOf.vals)
  <2>1. CASE high.oneOf.set /\ low.oneOf.set
    <3>1. m.oneOf.set /\ m.oneOf.vals = high.oneOf.vals \cap low.oneOf.vals
      BY <1>1, <1>2, <2>1 DEF mergeOneOf
    <3>2. QED
      BY <1>3, <3>1
  <2>2. CASE ~(high.oneOf.set /\ low.oneOf.set)
    BY <1>1, <1>3, <2>2 DEF mergeOneOf
  <2>3. QED
    BY <2>1, <2>2
<1>11. /\ IsSet(high.subsetOf) => v.shape # "scalar" /\ v.els \subseteq high.subsetOf.els
       /\ IsSet(low.subsetOf) => v.shape # "scalar" /\ v.els \subseteq low.subsetOf.els
  <2>1. CASE IsSet(high.subsetOf) /\ IsSet(low.subsetOf)
    <3> DEFINE both == intersectSlices(t, high.subsetOf, low.subsetOf)
    <3>1. m.subsetOf = both /\ both # Error /\ both # Zero
      BY <1>1, <1>2, <2>1 DEF mergeSubsetOf
    <3>2. both = List(high.subsetOf.els \cap low.subsetOf.els)
      BY <3>1 DEF intersectSlices
    <3>3. IsSet(m.subsetOf) /\ m.subsetOf.els = high.subsetOf.els \cap low.subsetOf.els
      BY <3>1, <3>2 DEF List, IsSet
    <3>4. QED
      BY <1>3, <3>3
  <2>2. CASE ~(IsSet(high.subsetOf) /\ IsSet(low.subsetOf))
    BY <1>1, <1>3, <2>2 DEF mergeSubsetOf
  <2>3. QED
    BY <2>1, <2>2
<1>12. QED
  BY <1>4, <1>6, <1>7, <1>8, <1>9, <1>10, <1>11 DEF Satisfies

\* What applying valid operators lets through satisfies them (Apply of the
\* operators in operator.go).
LEMMA AppliedSatisfies ==
  ASSUME NEW t, NEW ops, NEW w, Validate(t, ops), Apply(t, ops, w) # Error
  PROVE  Satisfies(t, ops, Apply(t, ops, w))
<1> DEFINE v == Apply(t, ops, w)
           added == applyAdd(t, ops, applyValue(ops, w))
           chosen == applyDefault(ops, added)
           known == applyOneOf(ops, chosen)
           small == applySubsetOf(t, ops, known)
           bounded == applySupersetOf(t, ops, small)
<1>1. v = applyEssential(ops, bounded) /\ added # Error /\ known # Error /\ bounded # Error
  BY DEF Apply
<1>2. v # Error
  OBVIOUS
<1> HIDE DEF v, bounded
<1>3. v = bounded /\ (ops.essential => v # Zero)
  BY <1>1, <1>2 DEF applyEssential
<1> USE DEF bounded
<1> HIDE DEF small
<1>4. bounded = small /\ (IsSet(ops.supersetOf) => isSubset(t, ops.supersetOf, v))
  BY <1>1, <1>3 DEF applySupersetOf
<1> USE DEF small
<1> HIDE DEF bounded, known
<1>5. small = known /\ (IsSet(ops.subsetOf) => isSubset(t, v, ops.subsetOf))
  BY <1>1, <1>3, <1>4 DEF applySubsetOf
<1> USE DEF known
<1> HIDE DEF small, chosen
<1>6. known = chosen /\ (ops.oneOf.set => v \in ops.oneOf.vals)
  BY <1>1, <1>3, <1>4, <1>5 DEF applyOneOf
<1> HIDE DEF known
<1>7. v = chosen
  BY <1>3, <1>4, <1>5, <1>6
<1> USE DEF chosen
<1> HIDE DEF added
<1>8. IF IsSet(ops.default) /\ added = Zero THEN v = ops.default ELSE v = added
  BY <1>7 DEF applyDefault
<1> USE DEF added
<1> HIDE DEF chosen
<1>9. ops.value.set => compare(t, v, ops.value.v)
  <2>1. ops.value.set => ~IsSet(ops.add) /\ ~IsSet(ops.default)
    BY DEF Validate, validateValue
  <2>2. ops.value.set => v = ops.value.v
    BY <1>8, <2>1 DEF applyAdd, applyValue
  <2>3. QED
    BY <2>2 DEF compare
<1>10. IsSet(ops.add) => ops.add.els \subseteq v.els
  <2>1. SUFFICES ASSUME IsSet(ops.add) PROVE ops.add.els \subseteq v.els
    OBVIOUS
  <2> DEFINE u == applyValue(ops, w)
  <2>2. added = mergeSlices(t, u, ops.add)
    BY <2>1 DEF applyAdd
  <2> HIDE DEF added, u
  <2>3. added = List(u.els \cup ops.add.els)
    BY <1>1, <2>2 DEF mergeSlices
  <2>4. added # Zero /\ added.els = u.els \cup ops.add.els
    BY <2>3 DEF List, Zero
  <2>5. QED
    BY <1>8, <2>4
<1> HIDE DEF added
<1>11. IsSet(ops.default) => v # Zero
  BY <1>8 DEF IsSet
<1>12. /\ IsSet(ops.subsetOf) => v.shape # "scalar" /\ v.els \subseteq ops.subsetOf.els
       /\ IsSet(ops.supersetOf) => v.shape # "scalar" /\ ops.supersetOf.els \subseteq v.els
  BY <1>4, <1>5 DEF isSubset, isSlice
<1>13. Satisfies(t, ops, v)
  BY <1>3, <1>6, <1>9, <1>10, <1>11, <1>12 DEF Satisfies
<1>14. QED
  BY <1>13 DEF v

\* A scope is only missing where the value of the policy is, and the list of no
\* names that stands for it then satisfies the operators as well (Apply of the
\* client policy).
LEMMA AppliedAttribute ==
  ASSUME NEW t, NEW ops, NEW w, Validate(t, ops), ApplyAttribute(t, ops, w) # Error
  PROVE  Satisfies(t, ops, ApplyAttribute(t, ops, w))
<1>1. CASE t # "scope"
  BY <1>1, AppliedSatisfies DEF ApplyAttribute
<1>2. CASE t = "scope"
  <2> DEFINE names == Names(w)
             u == Apply(t, ops, names)
  <2>1. ApplyAttribute(t, ops, w) = Names(u) /\ names # Zero
    BY <1>2 DEF ApplyAttribute, Names, List, Zero
  <2>2. u # Error
    BY <2>1 DEF Names, Zero, Error
  <2> HIDE DEF names
  <2>3. Satisfies(t, ops, u)
    BY <2>2, AppliedSatisfies
  <2>4. CASE u # Zero
    BY <2>1, <2>3, <2>4 DEF Names
  <2>5. CASE u = Zero
    <3>1. Names(u) = List({}) /\ List({}).els = {} /\ List({}).shape = "list"
      BY <2>5 DEF Names, List
    <3>2. List({}).len = 0
      BY FS_EmptySet DEF List
    <3>3. ~ops.oneOf.set
      <4> SUFFICES ASSUME ops.oneOf.set PROVE FALSE
        OBVIOUS
      <4>1. ~ops.value.set /\ ~IsSet(ops.add)
        BY DEF Validate, validateValue, validateAdd
      <4>2. applyAdd(t, ops, applyValue(ops, names)) = names
        BY <4>1 DEF applyAdd, applyValue
      <4>3. applyDefault(ops, names) = names
        BY <2>1 DEF applyDefault
      <4>4. u = names
        BY <2>2, <4>2, <4>3 DEF Apply, applyOneOf, applySubsetOf, applySupersetOf, applyEssential
      <4>5. QED
        BY <2>1, <2>5, <4>4
    <3> DEFINE n == List({})
    <3>4. ops.value.set => compare(t, n, ops.value.v)
      BY <1>2, <2>3, <2>5, <3>1, <3>2 DEF Satisfies, compare, isSlice, Zero
    <3>5. /\ IsSet(ops.add) => ops.add.els \subseteq n.els
          /\ IsSet(ops.subsetOf) => n.shape # "scalar" /\ n.els \subseteq ops.subsetOf.els
          /\ IsSet(ops.supersetOf) => n.shape # "scalar" /\ ops.supersetOf.els \subseteq n.els
      BY <2>3, <2>5, <3>1 DEF Satisfies, Zero
    <3> HIDE DEF n, u
    <3>6. Satisfies(t, ops, n)
      BY <1>2, <3>3, <3>4, <3>5 DEF Satisfies
    <3>7. QED
      BY <2>1, <3>1, <3>6 DEF n, u
  <2>6. QED
    BY <2>4, <2>5
<1>3. QED
  BY <1>1, <1>2

-----------------------------------------------------------------------------
(* Induction, over sets of numbers rather than predicates. *)

\* A set of naturals with zero and the successor of every member holds all of
\* them.
LEMMA SetInduction ==
  ASSUME NEW T, T \subseteq Nat, 0 \in T, \A n \in T : n + 1 \in T
  PROVE  T = Nat
<1> SUFFICES ASSUME Nat \ T # {} PROVE FALSE
  OBVIOUS
<1>1. PICK m \in Nat \ T : \A k \in Nat \ T : ~(<<k, m>> \in OpToRel(<, Nat))
  BY WFMin, NatLessThanWellFounded
<1>2. m # 0 /\ m - 1 \in Nat
  OBVIOUS
<1>3. <<m - 1, m>> \in OpToRel(<, Nat)
  BY <1>2 DEF OpToRel
<1>4. m - 1 \in T
  BY <1>1, <1>2, <1>3
<1>5. (m - 1) + 1 \in T
  BY <1>4
<1>6. QED
  BY <1>2, <1>5

\* The policies merged from the anchor down: the recursion of PolicyFrom has a
\* solution (the loop of trustChain.resolve).
LEMMA PolicyFromDef ==
  ASSUME Len(subs) \in Nat
  PROVE  PolicyFrom = [i \in 1..(Len(subs) + 1) |->
                         IF i > Len(subs) THEN NoPolicy
                         ELSE MergePolicy(PolicyFrom[i + 1], subs[i].policy)]
<1> DEFINE L == Len(subs)
           Solves(f, k) == f = [i \in k..(L + 1) |->
                                  IF i > L THEN NoPolicy ELSE MergePolicy(f[i + 1], subs[i].policy)]
           T == {n \in Nat : n <= L => \E f : Solves(f, L + 1 - n)}
<1>1. 0 \in T
  <2> DEFINE f == [i \in (L + 1)..(L + 1) |-> NoPolicy]
  <2>1. Solves(f, L + 1 - 0)
    OBVIOUS
  <2>2. QED
    BY <2>1
<1>2. ASSUME NEW n \in T PROVE n + 1 \in T
  <2>1. SUFFICES ASSUME n + 1 <= L PROVE \E f : Solves(f, L + 1 - (n + 1))
    OBVIOUS
  <2>2. PICK f : Solves(f, L + 1 - n)
    BY <2>1, <1>2
  <2> DEFINE k == L - n
             g == [i \in k..(L + 1) |-> IF i = k THEN MergePolicy(f[k + 1], subs[k].policy) ELSE f[i]]
  <2>3. k \in Nat /\ k >= 1 /\ k <= L /\ L + 1 - n = k + 1 /\ L + 1 - (n + 1) = k
    BY <2>1
  <2> HIDE DEF k
  <2>4. Solves(f, k + 1)
    BY <2>2, <2>3
  <2>5. ASSUME NEW i \in k..(L + 1)
        PROVE  g[i] = IF i > L THEN NoPolicy ELSE MergePolicy(g[i + 1], subs[i].policy)
    <3>1. CASE i = k
      BY <2>3, <3>1
    <3>2. CASE i # k
      <4>1. i \in (k + 1)..(L + 1) /\ g[i] = f[i]
        BY <2>3, <3>2
      <4>2. f[i] = IF i > L THEN NoPolicy ELSE MergePolicy(f[i + 1], subs[i].policy)
        BY <2>4, <4>1
      <4>3. i <= L => g[i + 1] = f[i + 1]
        BY <2>3, <4>1
      <4>4. QED
        BY <2>3, <4>1, <4>2, <4>3
    <3>3. QED
      BY <3>1, <3>2
  <2>6. Solves(g, k)
    BY <2>5
  <2>7. QED
    BY <2>3, <2>6
<1>3. T = Nat
  <2>1. T \subseteq Nat
    OBVIOUS
  <2> HIDE DEF T
  <2>2. QED
    BY <1>1, <1>2, <2>1, SetInduction
<1>4. \E f : Solves(f, 1)
  <2>1. L \in T
    BY <1>3
  <2>2. \E f : Solves(f, L + 1 - L)
    BY <2>1
  <2>3. L + 1 - L = 1
    OBVIOUS
  <2>4. QED
    BY <2>2, <2>3
<1>5. Solves(PolicyFrom, 1)
  BY <1>4 DEF PolicyFrom
<1>6. QED
  BY <1>5
\* Merging policies merges the operators of every attribute.
LEMMA MergedAttribute ==
  ASSUME NEW high, NEW low, NEW a \in Attributes
  PROVE  MergePolicy(high, low)[a] = Merge(Type[a], high[a], low[a])
  BY DEF MergePolicy, MergeClientPolicy, MergeProviderPolicy, Attributes

\* A value that satisfies the merged policies of the whole chain satisfies the
\* policy of every superior, if no merge on the way failed.
LEMMA ChainOfPolicies ==
  ASSUME Len(subs) \in Nat, NEW a \in Attributes, NEW v,
         \A i \in 1..Len(subs) : ~PolicyConflict(PolicyFrom[i]),
         Satisfies(Type[a], PolicyFrom[1][a], v)
  PROVE  \A i \in 1..Len(subs) : Satisfies(Type[a], subs[i].policy[a], v)
<1> DEFINE T == {n \in Nat : n <= Len(subs) => Satisfies(Type[a], PolicyFrom[n + 1][a], v)}
<1>1. ASSUME NEW i \in 1..Len(subs), Satisfies(Type[a], PolicyFrom[i][a], v)
      PROVE  /\ Satisfies(Type[a], PolicyFrom[i + 1][a], v)
             /\ Satisfies(Type[a], subs[i].policy[a], v)
  <2>1. PolicyFrom[i] = MergePolicy(PolicyFrom[i + 1], subs[i].policy)
    <3> DEFINE F(j) == IF j > Len(subs) THEN NoPolicy
                       ELSE MergePolicy(PolicyFrom[j + 1], subs[j].policy)
    <3>1. PolicyFrom = [j \in 1..(Len(subs) + 1) |-> F(j)]
      BY PolicyFromDef
    <3>2. i \in 1..(Len(subs) + 1) /\ ~(i > Len(subs))
      OBVIOUS
    <3> HIDE DEF F
    <3>3. PolicyFrom[i] = F(i)
      BY <3>1, <3>2
    <3>4. QED
      BY <3>2, <3>3 DEF F
  <2> DEFINE h == PolicyFrom[i + 1][a]
             l == subs[i].policy[a]
  <2>2. PolicyFrom[i][a] = Merge(Type[a], h, l)
    BY <2>1, MergedAttribute
  <2>3. ~Conflict(PolicyFrom[i][a])
    BY DEF PolicyConflict
  <2> HIDE DEF h, l
  <2>4. Satisfies(Type[a], h, v) /\ Satisfies(Type[a], l, v)
    BY <1>1, <2>2, <2>3, MergeKeepsBoth
  <2>5. QED
    BY <2>4 DEF h, l
<1>2. 0 \in T
  OBVIOUS
<1>3. ASSUME NEW n \in T PROVE n + 1 \in T
  <2>1. SUFFICES ASSUME n + 1 <= Len(subs) PROVE Satisfies(Type[a], PolicyFrom[(n + 1) + 1][a], v)
    OBVIOUS
  <2>2. n + 1 \in 1..Len(subs) /\ Satisfies(Type[a], PolicyFrom[n + 1][a], v)
    BY <2>1
  <2>3. QED
    BY <1>1, <2>2
<1>4. T = Nat
  <2>1. T \subseteq Nat
    OBVIOUS
  <2> HIDE DEF T
  <2>2. QED
    BY <1>2, <1>3, <2>1, SetInduction
<1>5. ASSUME NEW i \in 1..Len(subs) PROVE Satisfies(Type[a], subs[i].policy[a], v)
  <2>1. i - 1 \in Nat /\ i - 1 <= Len(subs) /\ (i - 1) + 1 = i
    OBVIOUS
  <2>2. Satisfies(Type[a], PolicyFrom[(i - 1) + 1][a], v)
    BY <1>4, <2>1
  <2>3. Satisfies(Type[a], PolicyFrom[i][a], v)
    BY <2>1, <2>2
  <2>4. QED
    BY <1>1, <2>3
<1>6. QED
  BY <1>5

\* The metadata that trustChain.resolve returns satisfies the policy of every
\* superior of the chain.
LEMMA ResolvedSatisfies ==
  ASSUME Len(subs) \in Nat, DOMAIN stack[1].meta \subseteq Attributes,
         NEW meta, meta = ResolvedMetadata(PolicyFrom), PoliciesHold(PolicyFrom, meta)
  PROVE  \A i \in 1..Len(subs) : \A a \in DOMAIN meta :
           Satisfies(Type[a], subs[i].policy[a], meta[a])
<1>1. SUFFICES ASSUME NEW i \in 1..Len(subs), NEW a \in DOMAIN meta
      PROVE  Satisfies(Type[a], subs[i].policy[a], meta[a])
  OBVIOUS
<1> DEFINE p == PolicyFrom[1]
           S == subs[1].allowed \cap DOMAIN stack[1].meta
           w == Restrict(MergeMetadata(subs[1].meta, stack[1].meta), S)
<1>2. DOMAIN w = S /\ meta = ApplyPolicy(p, w)
  BY DEF ResolvedMetadata, Restrict
<1> HIDE DEF w
<1>3. DOMAIN meta = S /\ a \in S /\ a \in Attributes
  BY <1>2 DEF ApplyPolicy
<1>4. Validate(Type[a], p[a]) /\ meta[a] # Error
  BY <1>3 DEF PoliciesHold, ValidatePolicy, ValidateClientPolicy, ValidateProviderPolicy, Attributes
<1>5. /\ a \in ClientAttributes => meta[a] = ApplyAttribute(Type[a], p[a], w[a])
      /\ a \notin ClientAttributes => meta[a] = Apply(Type[a], p[a], w[a])
  BY <1>2, <1>3 DEF ApplyPolicy, ApplyClientPolicy, ApplyProviderPolicy, Attributes
<1> HIDE DEF p, S
<1>6. Satisfies(Type[a], p[a], meta[a])
  <2>1. CASE a \in ClientAttributes
    BY <1>4, <1>5, <2>1, AppliedAttribute
  <2>2. CASE a \notin ClientAttributes
    BY <1>4, <1>5, <2>2, AppliedSatisfies
  <2>3. QED
    BY <2>1, <2>2
<1>7. \A k \in 1..Len(subs) : ~PolicyConflict(PolicyFrom[k])
  BY DEF PoliciesHold
<1>8. QED
  BY <1>1, <1>3, <1>6, <1>7, ChainOfPolicies DEF p

\* Adapted(a) of the metadata that is to be registered.
AdaptedTo(m, a) ==
  \/ a \in Clearable /\ m[a] = Zero
  \/ /\ a \in DOMAIN Default /\ m[a] = Default[a]
     /\ \E v \in {Zero, List({})} : \A i \in 1..Len(subs) : Satisfies(Type[a], subs[i].policy[a], v)
  \/ a \in DOMAIN ChoicesOf /\ m[a] \in Supported[a]

\* client.Resolve departs from metadata that satisfies the policies only where
\* an attribute is without a use, could have been omitted or has choices.
LEMMA RegisteredSatisfies ==
  ASSUME NEW meta, NEW m \in ClientResolve(meta),
         \A i \in 1..Len(subs) : \A a \in DOMAIN meta :
           Satisfies(Type[a], subs[i].policy[a], meta[a])
  PROVE  \A i \in 1..Len(subs) : \A a \in DOMAIN m :
           Satisfies(Type[a], subs[i].policy[a], m[a]) \/ AdaptedTo(m, a)
<1> DEFINE Val(choice, a) == IF a \in DOMAIN ChoicesOf THEN choice[a] ELSE meta[a]
<1>1. PICK cleared \in SUBSET Clearable, filled \in SUBSET DOMAIN Default,
           choice \in ResolvedChoices(meta) : m = Registered(meta, cleared, filled, choice)
  BY DEF ClientResolve
<1>2. m = [a \in DOMAIN meta |->
             CASE a \in cleared -> Zero
               [] a \notin cleared /\ a \in filled /\ Absent(Val(choice, a)) -> Default[a]
               [] OTHER -> Val(choice, a)]
  BY <1>1 DEF Registered
<1>3. SUFFICES ASSUME NEW i \in 1..Len(subs), NEW a \in DOMAIN meta
      PROVE  Satisfies(Type[a], subs[i].policy[a], m[a]) \/ AdaptedTo(m, a)
  <2>1. DOMAIN m = DOMAIN meta
    BY <1>2
  <2>2. QED
    BY <2>1
<1> DEFINE v == Val(choice, a)
<1>4. v = meta[a] \/ (a \in DOMAIN ChoicesOf /\ v \in Supported[a] /\ v # Zero /\ v # List({}))
  <2>1. CASE a \in DOMAIN ChoicesOf
    <3>1. v \in resolveChoice(a, meta)
      BY <2>1 DEF ResolvedChoices
    <3> HIDE DEF v
    <3>2. \A x : Scalar(x) # Zero /\ Scalar(x) # List({})
      BY DEF Scalar, Zero, List
    <3>3. QED
      BY <2>1, <3>1, <3>2 DEF resolveChoice
  <2>2. CASE a \notin DOMAIN ChoicesOf
    BY <2>2
  <2>3. QED
    BY <2>1, <2>2
<1>5. \/ m[a] = Zero /\ a \in Clearable
      \/ m[a] = Default[a] /\ a \in DOMAIN Default /\ Absent(v)
      \/ m[a] = v
  BY <1>2
<1> HIDE DEF v
<1>6. CASE m[a] = Zero /\ a \in Clearable
  BY <1>6 DEF AdaptedTo
<1>7. CASE m[a] = Default[a] /\ a \in DOMAIN Default /\ Absent(v)
  <2>1. v = meta[a] /\ v \in {Zero, List({})}
    BY <1>4, <1>7 DEF Absent
  <2>2. \A k \in 1..Len(subs) : Satisfies(Type[a], subs[k].policy[a], v)
    BY <2>1
  <2>3. \E z \in {Zero, List({})} : \A k \in 1..Len(subs) : Satisfies(Type[a], subs[k].policy[a], z)
    BY <2>1, <2>2
  <2>4. QED
    BY <1>7, <2>3 DEF AdaptedTo
<1>8. CASE m[a] = v
  BY <1>4, <1>8 DEF AdaptedTo
<1>9. QED
  BY <1>5, <1>6, <1>7, <1>8

-----------------------------------------------------------------------------
(* The search. *)

Said == Vouched \cup Handed

Nodes ==
  [url : Entities, ent : Entities, key : {c.key : c \in Published}, exp : Int,
   hints : Seq(Entities), meta : {c.meta : c \in Published} \cup {<< >>}]

Statements ==
  [iss : Entities, sub : Entities, by : {s.by : s \in Said}, key : {s.key : s \in Said},
   exp : Int, policy : {s.policy : s \in Said}, maxPath : {s.maxPath : s \in Said},
   names : {s.names : s \in Said}, allowed : {s.allowed : s \in Said},
   meta : {s.meta : s \in Said}]

Typed ==
  /\ now \in Nat
  /\ pc \in {"idle", "config", "hints", "subordinate", "resolve", "save"}
  /\ stack \in Seq(Nodes) /\ subs \in Seq(Statements)
  /\ auth \in Nodes \cup {None}

\* Nothing is left of an earlier search.
Clean == pc \in {"idle", "config"} => stack = << >> /\ subs = << >> /\ auth = None

\* The branch the search is on: each statement is about the entity at its place
\* and its key, by the one above it and with that one's key, and no URL is on
\* it twice.
Branch(st, sb) ==
  /\ Len(st) >= 1 /\ Len(sb) = Len(st) - 1
  /\ \A i \in 1..Len(sb) : /\ sb[i].sub = st[i].ent /\ sb[i].iss = st[i + 1].ent
                           /\ sb[i].key = st[i].key /\ sb[i].by = st[i + 1].key
  /\ \A i, j \in 1..Len(st) : i # j => st[i].url # st[j].url

Searching ==
  /\ pc \in {"hints", "subordinate"} => Branch(stack, subs)
  /\ pc = "hints" => auth = None
  /\ pc = "subordinate" =>
       auth \in Nodes /\ \A i \in 1..Len(stack) : stack[i].url # auth.url

\* The chain the search found, or the client handed over.
Chained ==
  pc \in {"resolve", "save"} =>
    /\ Len(stack) >= 1 /\ Len(subs) >= 1
    /\ subs[1].sub = stack[1].ent
    /\ \A i \in 2..Len(subs) : subs[i].sub = subs[i - 1].iss /\ subs[i].key = subs[i - 1].by
    /\ subs[Len(subs)].iss \in Anchors /\ subs[Len(subs)].by = TrustAnchorConfig.key
    /\ auth = None =>
         /\ \A i, j \in 1..Len(stack) : i # j => stack[i].url # stack[j].url
         /\ Len(subs) + 1 <= OpenIDFedTrustChainMaxDepth \/ Len(subs) = 1
    /\ auth = None \/ kind = "automatic" => subs[1].key = stack[1].key

Inv == Typed /\ Clean /\ Searching /\ Chained /\ PoliciesHonoured

\* parseEntityConfiguration and parseAuthorityConfiguration return nodes.
LEMMA ConfigurationTyped ==
  ASSUME now \in Nat, NEW e \in Entities, NEW c \in Published
  PROVE  /\ parseEntityConfiguration(c) \in Nodes
         /\ parseEntityConfiguration(c).ent = c.iss /\ parseEntityConfiguration(c).key = c.key
         /\ parseAuthorityConfiguration(e, c) \in Nodes
         /\ parseAuthorityConfiguration(e, c).url = e
         /\ parseAuthorityConfiguration(e, c).key = c.key
         /\ parseAuthorityConfiguration(e, c) # None
<1>1. /\ c.life \in Int /\ c.hints \in Seq(Entities) /\ now + c.life \in Int
      /\ c.iss \in Entities
  BY FederationAssumption
<1>2. parseAuthorityConfiguration(e, c) # None
  BY FederationAssumption
<1>3. /\ parseEntityConfiguration(c) \in Nodes
      /\ parseEntityConfiguration(c).ent = c.iss /\ parseEntityConfiguration(c).key = c.key
  BY <1>1 DEF Nodes, parseEntityConfiguration
<1>4. /\ parseAuthorityConfiguration(e, c) \in Nodes
      /\ parseAuthorityConfiguration(e, c).url = e /\ parseAuthorityConfiguration(e, c).key = c.key
  BY <1>1 DEF Nodes, parseAuthorityConfiguration
<1>5. QED
  BY <1>2, <1>3, <1>4

\* parseSubordinateStatement returns a statement.
LEMMA StatementTyped ==
  ASSUME now \in Nat, NEW s \in Said
  PROVE  /\ parseSubordinateStatement(s) \in Statements
         /\ parseSubordinateStatement(s).iss = s.iss /\ parseSubordinateStatement(s).by = s.by
         /\ parseSubordinateStatement(s).sub = s.sub /\ parseSubordinateStatement(s).key = s.key
<1>1. s.life \in Int /\ now + s.life \in Int /\ s.iss \in Entities /\ s.sub \in Entities
  BY FederationAssumption DEF Said
<1>2. QED
  BY <1>1 DEF Statements, parseSubordinateStatement

\* A search that fails leaves nothing behind.
LEMMA FailStep == ASSUME now' \in Nat, Fail PROVE Inv'
<1>1. pc' = "idle" /\ stack' = << >> /\ subs' = << >> /\ auth' = None
  BY DEF Fail
<1>2. Typed'
  BY <1>1 DEF Typed
<1>3. Clean' /\ Searching' /\ Chained' /\ PoliciesHonoured'
  BY <1>1 DEF Clean, Searching, Chained, PoliciesHonoured
<1>4. QED
  BY <1>2, <1>3 DEF Inv

\* Outside of the last stages a step concerns the branch alone.
LEMMA SearchStep ==
  ASSUME Inv, now' = now, pc' \in {"config", "hints", "subordinate"},
         stack' \in Seq(Nodes), subs' \in Seq(Statements), auth' \in Nodes \cup {None},
         Clean', Searching'
  PROVE  Inv'
<1>1. Typed'
  BY DEF Inv, Typed
<1>2. Chained' /\ PoliciesHonoured'
  BY DEF Chained, PoliciesHonoured
<1>3. QED
  BY <1>1, <1>2 DEF Inv

\* Begin asks for the client's configuration and touches no chain.
LEMMA BeginStep == ASSUME NEW k \in Kinds PROVE Inv /\ Begin(k) => Inv'
<1> SUFFICES ASSUME Inv, Begin(k) PROVE Inv'
  OBVIOUS
<1>1. pc = "idle" /\ pc' = "config" /\ UNCHANGED <<now, stack, subs, auth, found, stored>>
  BY DEF Begin
<1>2. Clean' /\ Searching'
  BY <1>1 DEF Inv, Clean, Searching
<1>3. QED
  BY <1>1, <1>2, SearchStep DEF Inv, Typed

\* The search starts with the client's configuration.
LEMMA FetchEntityConfigurationStep == Inv /\ FetchEntityConfiguration => Inv'
<1> SUFFICES ASSUME Inv, FetchEntityConfiguration PROVE Inv'
  OBVIOUS
<1>1. pc = "config" /\ UNCHANGED <<now, stored>>
  BY DEF FetchEntityConfiguration
<1>2. CASE Fail
  BY <1>1, <1>2, FailStep DEF Inv, Typed
<1>3. ASSUME NEW c \in Published, stack' = <<parseEntityConfiguration(c)>>, pc' = "hints",
             UNCHANGED <<kind, subs, auth, found>>
      PROVE  Inv'
  <2> DEFINE n == parseEntityConfiguration(c)
  <2>1. n \in Nodes
    BY ConfigurationTyped DEF Inv, Typed, Entities
  <2> HIDE DEF n
  <2>2. stack' = <<n>> /\ stack' \in Seq(Nodes) /\ Len(stack') = 1 /\ stack'[1] = n
    BY <1>3, <2>1 DEF n
  <2>3. subs' = << >> /\ auth' = None
    BY <1>1, <1>3 DEF Inv, Clean
  <2>4. Clean' /\ Searching'
    BY <1>3, <2>1, <2>2, <2>3 DEF Clean, Searching, Branch
  <2>5. QED
    BY <1>1, <1>3, <2>2, <2>3, <2>4, SearchStep
<1>4. QED
  BY <1>2, <1>3 DEF FetchEntityConfiguration

\* The nodes of a branch keep everything but their hints.
LEMMA DropHintBranch ==
  ASSUME stack \in Seq(Nodes), subs \in Seq(Statements), Branch(stack, subs), Top.hints # << >>
  PROVE  /\ DropHint(stack) \in Seq(Nodes) /\ Len(DropHint(stack)) = Len(stack)
         /\ \A i \in 1..Len(stack) : DropHint(stack)[i].url = stack[i].url
         /\ Branch(DropHint(stack), subs)
         /\ Head(Top.hints) \in Entities
<1> DEFINE n == Len(stack)
<1>1. n \in Nat /\ n >= 1 /\ n \in 1..n /\ Top = stack[n] /\ Top \in Nodes
  BY DEF Branch, Top, Last
<1>2. Top.hints \in Seq(Entities)
  BY <1>1 DEF Nodes
<1>3. Tail(Top.hints) \in Seq(Entities) /\ Head(Top.hints) \in Entities
  BY <1>2
<1>4. DropHint(stack) = [stack EXCEPT ![n] = [stack[n] EXCEPT !.hints = Tail(stack[n].hints)]]
  BY DEF DropHint
<1> DEFINE m == [stack[n] EXCEPT !.hints = Tail(stack[n].hints)]
<1>5. m \in Nodes /\ m.url = stack[n].url /\ m.ent = stack[n].ent /\ m.key = stack[n].key
  BY <1>1, <1>3 DEF Nodes
<1> HIDE DEF m
<1>6. DropHint(stack) = [stack EXCEPT ![n] = m]
  BY <1>4 DEF m
<1>7. DropHint(stack) \in Seq(Nodes) /\ Len(DropHint(stack)) = n
  BY <1>1, <1>5, <1>6
<1>8. \A i \in 1..n : /\ DropHint(stack)[i].url = stack[i].url
                      /\ DropHint(stack)[i].ent = stack[i].ent
                      /\ DropHint(stack)[i].key = stack[i].key
  BY <1>1, <1>5, <1>6
<1>9. Branch(DropHint(stack), subs)
  <2>1. Len(subs) \in Nat
    OBVIOUS
  <2> HIDE DEF n
  <2>2. \A i \in 1..Len(subs) : i \in 1..n /\ i + 1 \in 1..n
    BY <1>1, <2>1 DEF Branch, n
  <2> DEFINE d == DropHint(stack)
  <2>3. n = Len(stack)
    BY DEF n
  <2> HIDE DEF d
  <2>4. Len(d) >= 1 /\ Len(subs) = Len(d) - 1
    BY <1>1, <1>7, <1>8, <2>3 DEF Branch, d
  <2>5. \A i \in 1..Len(subs) : /\ subs[i].sub = d[i].ent /\ subs[i].iss = d[i + 1].ent
                                /\ subs[i].key = d[i].key /\ subs[i].by = d[i + 1].key
    BY <1>8, <2>2 DEF Branch, d
  <2>6. \A i, j \in 1..Len(d) : i # j => d[i].url # d[j].url
    BY <1>7, <1>8, <2>3 DEF Branch, d
  <2>7. QED
    BY <2>4, <2>5, <2>6 DEF Branch, d
<1>10. QED
  BY <1>3, <1>7, <1>8, <1>9

\* A hint that leads back to a URL of the path is dropped.
LEMMA CircularHintStep == Inv /\ CircularHint => Inv'
<1> SUFFICES ASSUME Inv, CircularHint PROVE Inv'
  OBVIOUS
<1>1. /\ pc = "hints" /\ Top.hints # << >> /\ stack' = DropHint(stack)
      /\ UNCHANGED <<now, pc, kind, subs, auth, found, stored>>
  BY DEF CircularHint
<1>2. stack \in Seq(Nodes) /\ subs \in Seq(Statements) /\ Branch(stack, subs) /\ auth = None
  BY <1>1 DEF Inv, Typed, Searching
<1>3. stack' \in Seq(Nodes) /\ Branch(stack, subs)'
  BY <1>1, <1>2, DropHintBranch
<1>4. Clean' /\ Searching'
  BY <1>1, <1>2, <1>3 DEF Clean, Searching
<1>5. QED
  BY <1>1, <1>2, <1>3, <1>4, SearchStep
\* A branch cut off above its k-th entity is a branch.
LEMMA PrefixBranch ==
  ASSUME stack \in Seq(Nodes), subs \in Seq(Statements), Branch(stack, subs),
         NEW k \in 1..Len(stack)
  PROVE  /\ SubSeq(stack, 1, k) \in Seq(Nodes) /\ SubSeq(subs, 1, k - 1) \in Seq(Statements)
         /\ Branch(SubSeq(stack, 1, k), SubSeq(subs, 1, k - 1))
<1> DEFINE st == SubSeq(stack, 1, k)
           sb == SubSeq(subs, 1, k - 1)
<1>1. /\ Len(stack) \in Nat /\ k \in Nat /\ k >= 1 /\ k <= Len(stack) /\ k - 1 \in Nat
      /\ Len(subs) = Len(stack) - 1
  BY DEF Branch
<1>2. st \in Seq(Nodes) /\ Len(st) = k /\ \A i \in 1..k : st[i] = stack[i]
  BY <1>1
<1>3. sb \in Seq(Statements) /\ Len(sb) = k - 1 /\ \A i \in 1..(k - 1) : sb[i] = subs[i]
  BY <1>1
<1> HIDE DEF st, sb
<1>4. Len(st) >= 1 /\ Len(sb) = Len(st) - 1
  BY <1>1, <1>2, <1>3 DEF Branch
<1>5. \A i \in 1..Len(sb) : /\ sb[i].sub = st[i].ent /\ sb[i].iss = st[i + 1].ent
                           /\ sb[i].key = st[i].key /\ sb[i].by = st[i + 1].key
  <2>1. ASSUME NEW i \in 1..(k - 1)
        PROVE  i \in 1..Len(subs) /\ st[i] = stack[i] /\ st[i + 1] = stack[i + 1] /\ sb[i] = subs[i]
    BY <1>1, <1>2, <1>3
  <2>2. QED
    BY <1>3, <2>1 DEF Branch
<1>6. \A i, j \in 1..Len(st) : i # j => st[i].url # st[j].url
  BY <1>1, <1>2 DEF Branch
<1>7. QED
  BY <1>2, <1>3, <1>4, <1>5, <1>6 DEF Branch, st, sb

\* The search goes back to the entity below.
LEMMA NoHintLeftStep == Inv /\ NoHintLeft => Inv'
<1> SUFFICES ASSUME Inv, NoHintLeft PROVE Inv'
  OBVIOUS
<1>1. pc = "hints" /\ UNCHANGED <<now, stored>>
  BY DEF NoHintLeft
<1>2. stack \in Seq(Nodes) /\ subs \in Seq(Statements) /\ Branch(stack, subs) /\ auth = None
  BY <1>1 DEF Inv, Typed, Searching
<1>3. CASE Len(stack) = 1
  BY <1>1, <1>3, FailStep DEF NoHintLeft, Inv, Typed
<1>4. CASE Len(stack) # 1
  <2>1. stack' = Front(stack) /\ subs' = Front(subs) /\ UNCHANGED <<pc, kind, auth, found>>
    BY <1>4 DEF NoHintLeft
  <2> DEFINE k == Len(stack) - 1
  <2>2. k \in 1..Len(stack) /\ Len(subs) - 1 = k - 1
    BY <1>2, <1>4 DEF Branch
  <2>3. stack' = SubSeq(stack, 1, k) /\ subs' = SubSeq(subs, 1, k - 1)
    BY <2>1, <2>2 DEF Front
  <2>4. stack' \in Seq(Nodes) /\ subs' \in Seq(Statements) /\ Branch(stack, subs)'
    BY <1>2, <2>2, <2>3, PrefixBranch
  <2>5. Clean' /\ Searching'
    BY <1>1, <1>2, <2>1, <2>4 DEF Clean, Searching
  <2>6. QED
    BY <1>1, <1>2, <2>1, <2>4, <2>5, SearchStep
<1>5. QED
  BY <1>3, <1>4

\* An authority that is not on the branch is asked for its configuration.
LEMMA FetchAuthorityConfigurationStep == Inv /\ FetchAuthorityConfiguration => Inv'
<1> SUFFICES ASSUME Inv, FetchAuthorityConfiguration PROVE Inv'
  OBVIOUS
<1>1. /\ pc = "hints" /\ Top.hints # << >> /\ Head(Top.hints) \notin OnPath
      /\ stack' = DropHint(stack) /\ UNCHANGED <<now, kind, subs, found, stored>>
  BY DEF FetchAuthorityConfiguration
<1>2. stack \in Seq(Nodes) /\ subs \in Seq(Statements) /\ Branch(stack, subs) /\ auth = None
  BY <1>1 DEF Inv, Typed, Searching
<1>3. /\ stack' \in Seq(Nodes) /\ Branch(stack, subs)' /\ Len(stack') = Len(stack)
      /\ \A i \in 1..Len(stack) : stack'[i].url = stack[i].url
      /\ Head(Top.hints) \in Entities
  BY <1>1, <1>2, DropHintBranch
<1>4. CASE UNCHANGED <<pc, auth>>
  <2>1. Clean' /\ Searching'
    BY <1>1, <1>2, <1>3, <1>4 DEF Clean, Searching
  <2>2. QED
    BY <1>1, <1>2, <1>3, <1>4, <2>1, SearchStep
<1>5. ASSUME NEW c \in Published, auth' = parseAuthorityConfiguration(Head(Top.hints), c),
             pc' = "subordinate"
      PROVE  Inv'
  <2>1. auth' \in Nodes /\ auth'.url = Head(Top.hints)
    BY <1>3, <1>5, ConfigurationTyped DEF Inv, Typed
  <2>2. \A i \in 1..Len(stack') : stack'[i].url # auth'.url
    BY <1>1, <1>3, <2>1 DEF OnPath
  <2>3. Clean' /\ Searching'
    BY <1>3, <1>5, <2>1, <2>2 DEF Clean, Searching
  <2>4. QED
    BY <1>1, <1>2, <1>3, <1>5, <2>1, <2>3, SearchStep
<1>6. QED
  BY <1>4, <1>5 DEF FetchAuthorityConfiguration

\* A branch and a statement about its last entity, by an authority that is not
\* on it.
LEMMA LongerBranch ==
  ASSUME stack \in Seq(Nodes), subs \in Seq(Statements), Branch(stack, subs),
         NEW n \in Nodes, \A i \in 1..Len(stack) : stack[i].url # n.url,
         NEW s \in Statements, s.iss = n.ent, s.by = n.key, s.sub = Top.ent, s.key = Top.key
  PROVE  /\ Append(stack, n) \in Seq(Nodes) /\ Append(subs, s) \in Seq(Statements)
         /\ Branch(Append(stack, n), Append(subs, s))
<1> DEFINE k == Len(stack)
           st == Append(stack, n)
           sb == Append(subs, s)
<1>1. k \in Nat /\ k >= 1 /\ Len(subs) = k - 1 /\ Top = stack[k]
  BY DEF Branch, Top, Last
<1>2. st \in Seq(Nodes) /\ Len(st) = k + 1 /\ (\A i \in 1..k : st[i] = stack[i]) /\ st[k + 1] = n
  BY <1>1
<1>3. sb \in Seq(Statements) /\ Len(sb) = k /\ (\A i \in 1..(k - 1) : sb[i] = subs[i]) /\ sb[k] = s
  BY <1>1
<1> HIDE DEF st, sb
<1>4. Len(st) >= 1 /\ Len(sb) = Len(st) - 1
  BY <1>1, <1>2, <1>3 DEF Branch
<1>5. \A i \in 1..Len(sb) : /\ sb[i].sub = st[i].ent /\ sb[i].iss = st[i + 1].ent
                           /\ sb[i].key = st[i].key /\ sb[i].by = st[i + 1].key
  <2>1. ASSUME NEW i \in 1..k
        PROVE  /\ sb[i].sub = st[i].ent /\ sb[i].iss = st[i + 1].ent
               /\ sb[i].key = st[i].key /\ sb[i].by = st[i + 1].key
    <3>1. CASE i = k
      BY <1>1, <1>2, <1>3, <3>1
    <3>2. CASE i # k
      <4>1. i \in 1..Len(subs) /\ sb[i] = subs[i] /\ st[i] = stack[i] /\ st[i + 1] = stack[i + 1]
        BY <1>1, <1>2, <1>3, <3>2
      <4>2. QED
        BY <4>1 DEF Branch
    <3>3. QED
      BY <3>1, <3>2
  <2>2. QED
    BY <1>3, <2>1
<1>6. \A i, j \in 1..Len(st) : i # j => st[i].url # st[j].url
  <2>1. ASSUME NEW i \in 1..(k + 1), NEW j \in 1..(k + 1), i # j PROVE st[i].url # st[j].url
    <3>1. CASE i \in 1..k /\ j \in 1..k
      BY <1>2, <2>1, <3>1 DEF Branch
    <3>2. CASE i = k + 1 /\ j \in 1..k
      BY <1>2, <3>2
    <3>3. CASE i \in 1..k /\ j = k + 1
      BY <1>2, <3>3
    <3>4. QED
      BY <1>1, <2>1, <3>1, <3>2, <3>3
  <2>2. QED
    BY <1>2, <2>1
<1>7. QED
  BY <1>2, <1>3, <1>4, <1>5, <1>6 DEF Branch, st, sb

\* A complete chain is handed to trustChain.resolve.
LEMMA CompleteStep ==
  ASSUME Inv, now' = now, pc' = "resolve",
         stack' \in Seq(Nodes), subs' \in Seq(Statements), auth' \in Nodes \cup {None},
         Chained'
  PROVE  Inv'
<1>1. Typed'
  BY DEF Inv, Typed
<1>2. Clean' /\ Searching' /\ PoliciesHonoured'
  BY DEF Clean, Searching, PoliciesHonoured
<1>3. QED
  BY <1>1, <1>2 DEF Inv

\* The statement of an authority ends the search, makes the chain too long, or
\* is one more step towards an anchor.
LEMMA FetchSubordinateStatementStep == Inv /\ FetchSubordinateStatement => Inv'
<1> SUFFICES ASSUME Inv, FetchSubordinateStatement PROVE Inv'
  OBVIOUS
<1>1. pc = "subordinate" /\ UNCHANGED <<now, kind, found, stored>>
  BY DEF FetchSubordinateStatement
<1>2. /\ stack \in Seq(Nodes) /\ subs \in Seq(Statements) /\ Branch(stack, subs)
      /\ auth \in Nodes /\ (\A i \in 1..Len(stack) : stack[i].url # auth.url)
      /\ now \in Nat
  BY <1>1 DEF Inv, Typed, Searching
<1>3. CASE pc' = "hints" /\ auth' = None /\ UNCHANGED <<stack, subs>>
  <2>1. Clean' /\ Searching'
    BY <1>2, <1>3 DEF Clean, Searching
  <2>2. QED
    BY <1>1, <1>2, <1>3, <2>1, SearchStep
<1>4. CASE /\ TooDeep /\ auth' = None /\ pc' = "hints"
           /\ stack' = SubSeq(stack, 1, UnwindTo) /\ subs' = SubSeq(subs, 1, UnwindTo - 1)
  <2>1. Len(stack) \in Nat /\ Len(stack) >= 1
    BY <1>2 DEF Branch
  <2>2. UnwindTo \in 1..Len(stack)
    BY <1>4, <2>1, FederationAssumption DEF UnwindTo, TooDeep
  <2>3. stack' \in Seq(Nodes) /\ subs' \in Seq(Statements) /\ Branch(stack, subs)'
    BY <1>2, <1>4, <2>2, PrefixBranch
  <2>4. Clean' /\ Searching'
    BY <1>4, <2>3 DEF Clean, Searching
  <2>5. QED
    BY <1>1, <1>4, <2>3, <2>4, SearchStep
<1>5. ASSUME NEW s \in Vouched, Expected(s, auth.ent, Top.ent, auth.key), SignedFor(s, Top),
             auth' = None, auth.ent \in Anchors => ~TooDeep,
             pc' = IF auth.ent \in Anchors THEN "resolve" ELSE "hints",
             stack' = Append(stack, auth), subs' = Append(subs, parseSubordinateStatement(s))
      PROVE  Inv'
  <2> DEFINE stmt == parseSubordinateStatement(s)
             longer == Append(subs, stmt)
             higher == Append(stack, auth)
  <2>1. Len(stack) \in Nat /\ Len(stack) >= 1 /\ Top \in Nodes
    BY <1>2 DEF Branch, Top, Last
  <2>2. /\ stmt \in Statements /\ stmt.iss = auth.ent /\ stmt.by = auth.key
        /\ stmt.sub = Top.ent /\ stmt.key = Top.key
    BY <1>2, <1>5, StatementTyped DEF SignedFor, Expected, Said
  <2>3. stack' = higher /\ subs' = longer
    BY <1>5
  <2> HIDE DEF stmt
  <2>4. higher \in Seq(Nodes) /\ longer \in Seq(Statements) /\ Branch(higher, longer)
    BY <1>2, <2>2, LongerBranch
  <2>5. /\ Len(longer) = Len(stack) /\ longer[Len(longer)] = stmt
        /\ Len(higher) = Len(stack) + 1 /\ higher[Len(higher)] = auth
    BY <1>2, <2>1, <2>2 DEF Branch
  <2> HIDE DEF longer, higher
  <2>6. CASE auth.ent \notin Anchors
    <3>1. pc' = "hints"
      BY <1>5, <2>6
    <3>2. Clean' /\ Searching'
      BY <1>5, <2>3, <2>4, <3>1 DEF Clean, Searching
    <3>3. QED
      BY <1>1, <1>5, <2>3, <2>4, <3>1, <3>2, SearchStep
  <2>7. CASE auth.ent \in Anchors
    <3>1. pc' = "resolve" /\ ~TooDeep
      BY <1>5, <2>7
    <3>2. longer[1].sub = higher[1].ent /\ longer[1].key = higher[1].key
      BY <2>1, <2>4, <2>5 DEF Branch
    <3>3. \A i \in 2..Len(longer) :
            longer[i].sub = longer[i - 1].iss /\ longer[i].key = longer[i - 1].by
      <4>1. ASSUME NEW i \in 2..Len(longer)
            PROVE  longer[i].sub = longer[i - 1].iss /\ longer[i].key = longer[i - 1].by
        <5>1. i \in 1..Len(longer) /\ i - 1 \in 1..Len(longer) /\ (i - 1) + 1 = i
          BY <2>1, <2>5
        <5>2. /\ longer[i].sub = higher[i].ent /\ longer[i - 1].iss = higher[(i - 1) + 1].ent
              /\ longer[i].key = higher[i].key /\ longer[i - 1].by = higher[(i - 1) + 1].key
          BY <2>4, <5>1 DEF Branch
        <5>3. QED
          BY <5>1, <5>2
      <4>2. QED
        BY <4>1
    <3>4. \A i, j \in 1..Len(higher) : i # j => higher[i].url # higher[j].url
      BY <2>4 DEF Branch
    <3>5. Len(longer) + 1 <= OpenIDFedTrustChainMaxDepth \/ Len(longer) = 1
      BY <2>1, <2>5, <3>1, FederationAssumption DEF TooDeep, UnwindTo
    <3>6. longer[Len(longer)].iss \in Anchors /\ longer[Len(longer)].by = auth.key
      BY <2>2, <2>5, <2>7
    <3>7. TrustAnchorConfig' = auth
      BY <1>5, <2>3, <2>5 DEF TrustAnchorConfig, Last
    <3>8. Len(higher) >= 1 /\ Len(longer) >= 1
      BY <2>1, <2>5
    <3>9. Chained'
      BY <1>5, <2>3, <3>2, <3>3, <3>4, <3>5, <3>6, <3>7, <3>8 DEF Chained
    <3>10. QED
      BY <1>1, <1>5, <2>3, <2>4, <3>1, <3>9, CompleteStep
  <2>8. QED
    BY <2>6, <2>7
<1>6. QED
  BY <1>3, <1>4, <1>5 DEF FetchSubordinateStatement

\* The client hands over the chain.
LEMMA ParseTrustChainStep == Inv /\ ParseTrustChain => Inv'
<1> SUFFICES ASSUME Inv, ParseTrustChain PROVE Inv'
  OBVIOUS
<1>1. pc' = "resolve" /\ UNCHANGED <<now, kind, found, stored>> /\ now \in Nat
  BY DEF ParseTrustChain, Inv, Typed
<1>2. PICK n \in 1..MaxHanded : \E h \in [1..n -> Handed] :
        /\ Linked(h)
        /\ \E c, anchor \in Published :
             /\ c.iss = h[1].sub /\ SignedFor(h[1], c)
             /\ h[n].by = anchor.key
             /\ auth' = parseAuthorityConfiguration(h[n].iss, anchor)
             /\ \/ stack' = <<parseEntityConfiguration(c)>>
                \/ \E posted \in Published :
                     /\ kind = "explicit" /\ posted.iss = c.iss
                     /\ stack' = <<parseEntityConfiguration(posted)>>
        /\ subs' = [i \in 1..n |-> parseSubordinateStatement(h[i])]
  BY DEF ParseTrustChain
<1>3. PICK h \in [1..n -> Handed] :
        /\ Linked(h)
        /\ \E c, anchor \in Published :
             /\ c.iss = h[1].sub /\ SignedFor(h[1], c)
             /\ h[n].by = anchor.key
             /\ auth' = parseAuthorityConfiguration(h[n].iss, anchor)
             /\ \/ stack' = <<parseEntityConfiguration(c)>>
                \/ \E posted \in Published :
                     /\ kind = "explicit" /\ posted.iss = c.iss
                     /\ stack' = <<parseEntityConfiguration(posted)>>
        /\ subs' = [i \in 1..n |-> parseSubordinateStatement(h[i])]
  BY <1>2
<1>4. PICK c \in Published : \E anchor \in Published :
        /\ c.iss = h[1].sub /\ SignedFor(h[1], c)
        /\ h[n].by = anchor.key
        /\ auth' = parseAuthorityConfiguration(h[n].iss, anchor)
        /\ \/ stack' = <<parseEntityConfiguration(c)>>
           \/ \E posted \in Published :
                /\ kind = "explicit" /\ posted.iss = c.iss
                /\ stack' = <<parseEntityConfiguration(posted)>>
  BY <1>3
<1>5. PICK anchor \in Published :
        /\ c.iss = h[1].sub /\ SignedFor(h[1], c)
        /\ h[n].by = anchor.key
        /\ auth' = parseAuthorityConfiguration(h[n].iss, anchor)
        /\ \/ stack' = <<parseEntityConfiguration(c)>>
           \/ \E posted \in Published :
                /\ kind = "explicit" /\ posted.iss = c.iss
                /\ stack' = <<parseEntityConfiguration(posted)>>
  BY <1>4
<1>6. PICK node \in Nodes :
        /\ stack' = <<node>> /\ node.ent = h[1].sub
        /\ kind = "automatic" => node.key = h[1].key
  <2>1. CASE stack' = <<parseEntityConfiguration(c)>>
    BY <1>1, <1>5, <2>1, ConfigurationTyped, FederationAssumption DEF SignedFor
  <2>2. CASE \E posted \in Published :
               /\ kind = "explicit" /\ posted.iss = c.iss
               /\ stack' = <<parseEntityConfiguration(posted)>>
    BY <1>1, <1>5, <2>2, ConfigurationTyped, FederationAssumption
  <2>3. QED
    BY <1>5, <2>1, <2>2
<1>7. n \in Nat /\ n >= 1 /\ n \in 1..n /\ 1 \in 1..n
  BY FederationAssumption
<1>8. stack' \in Seq(Nodes) /\ Len(stack') = 1 /\ stack'[1] = node
  <2>1. <<node>> \in Seq(Nodes) /\ Len(<<node>>) = 1 /\ <<node>>[1] = node
    OBVIOUS
  <2>2. stack' = <<node>>
    BY <1>6
  <2>3. QED
    BY <2>1, <2>2
<1>9. /\ h[n].iss \in Anchors
      /\ \A i \in 2..n : h[i - 1].iss = h[i].sub /\ h[i - 1].by = h[i].key
  <2>1. h \in Seq(Handed) /\ Len(h) = n
    BY <1>7
  <2>2. QED
    BY <1>3, <2>1 DEF Linked, Expected
<1>10. auth' \in Nodes /\ auth' # None /\ auth'.key = h[n].by
  BY <1>1, <1>5, <1>9, ConfigurationTyped, FederationAssumption DEF Entities
<1>11. ASSUME NEW i \in 1..n
       PROVE  /\ subs'[i] \in Statements /\ subs'[i].iss = h[i].iss /\ subs'[i].sub = h[i].sub
              /\ subs'[i].key = h[i].key /\ subs'[i].by = h[i].by
  <2>1. h[i] \in Said
    BY DEF Said
  <2>2. subs'[i] = parseSubordinateStatement(h[i])
    BY <1>3
  <2>3. QED
    BY <1>1, <2>1, <2>2, StatementTyped
<1>12. subs' \in Seq(Statements) /\ Len(subs') = n
  BY <1>3, <1>7, <1>11
<1>13. Chained'
  <2>1. /\ subs'[1].sub = h[1].sub /\ subs'[1].key = h[1].key
        /\ subs'[n].iss = h[n].iss /\ subs'[n].by = h[n].by
    BY <1>7, <1>11
  <2>2. \A i \in 2..n : subs'[i].sub = subs'[i - 1].iss /\ subs'[i].key = subs'[i - 1].by
    BY <1>7, <1>9, <1>11
  <2>3. TrustAnchorConfig' = auth'
    BY <1>10 DEF TrustAnchorConfig
  <2>4. kind' = kind
    BY <1>1
  <2>5. QED
    BY <1>6, <1>7, <1>8, <1>9, <1>10, <1>12, <2>1, <2>2, <2>3, <2>4 DEF Chained
<1>14. QED
  BY <1>1, <1>8, <1>10, <1>12, <1>13, CompleteStep

\* The chain is resolved, or refused.
LEMMA ResolveStep == Inv /\ Resolve => Inv'
<1> SUFFICES ASSUME Inv, Resolve PROVE Inv'
  OBVIOUS
<1> DEFINE meta == ResolvedMetadata(PolicyFrom)
<1>1. pc = "resolve" /\ UNCHANGED <<now, stored>>
  BY DEF Resolve
<1>2. CASE Fail
  BY <1>1, <1>2, FailStep DEF Inv, Typed
<1>3. ASSUME NEW m, PoliciesHold(PolicyFrom, meta),
             m = meta \/ (kind # "resolve" /\ m \in ClientResolve(meta)),
             found' = [meta |-> m, expires |-> ResolvedExpiry],
             pc' = "save", UNCHANGED <<kind, stack, subs, auth>>
      PROVE  Inv'
  <2>1. stack \in Seq(Nodes) /\ subs \in Seq(Statements) /\ Len(stack) >= 1 /\ Len(subs) \in Nat
    BY <1>1 DEF Inv, Typed, Chained
  <2>2. stack[1] \in Nodes
    BY <2>1
  <2>3. DOMAIN stack[1].meta \subseteq Attributes
    <3>1. stack[1].meta \in {c.meta : c \in Published} \cup {<< >>}
      BY <2>2 DEF Nodes
    <3>2. DOMAIN << >> = {}
      OBVIOUS
    <3>3. QED
      BY <3>1, <3>2, FederationAssumption
  <2> HIDE DEF meta
  <2>4. \A i \in 1..Len(subs) : \A a \in DOMAIN meta :
          Satisfies(Type[a], subs[i].policy[a], meta[a])
    BY <1>3, <2>1, <2>3, ResolvedSatisfies DEF meta
  <2>5. PoliciesHonoured'
    <3>1. CASE m = meta
      BY <1>3, <2>4, <3>1 DEF PoliciesHonoured, Satisfies
    <3>2. CASE kind # "resolve" /\ m \in ClientResolve(meta)
      <4>1. \A i \in 1..Len(subs) : \A a \in DOMAIN m :
              \/ Satisfies(Type[a], subs[i].policy[a], m[a])
              \/ AdaptedTo(m, a)
        BY <2>4, <3>2, RegisteredSatisfies
      <4>2. found'.meta = m /\ subs' = subs /\ kind' # "resolve"
        BY <1>3, <3>2
      <4>3. QED
        BY <4>1, <4>2 DEF PoliciesHonoured, Adapted, AdaptedTo, Satisfies
    <3>3. QED
      BY <1>3, <3>1, <3>2
  <2>6. Typed' /\ Clean' /\ Searching'
    BY <1>1, <1>3 DEF Inv, Typed, Clean, Searching
  <2>7. Chained'
    <3>1. TrustAnchorConfig' = TrustAnchorConfig
      BY <1>3 DEF TrustAnchorConfig, Last
    <3>2. QED
      BY <1>1, <1>3, <3>1 DEF Inv, Chained
  <2>8. QED
    BY <2>5, <2>6, <2>7 DEF Inv
<1>4. ASSUME NEW outcomes, NEW m \in outcomes,
             outcomes = IF ~(ConstraintsHold /\ PoliciesHold(PolicyFrom, meta)) THEN {}
                        ELSE IF kind = "resolve" THEN {meta}
                        ELSE IF IsClient(meta) THEN ClientResolve(meta) ELSE {}
      PROVE  /\ PoliciesHold(PolicyFrom, meta)
             /\ m = meta \/ (kind # "resolve" /\ m \in ClientResolve(meta))
  <2> HIDE DEF meta
  <2>1. QED
    BY <1>4
<1>5. QED
  <2> HIDE DEF meta
  <2>1. QED
    BY <1>2, <1>3, <1>4 DEF Resolve, meta

\* The registration is saved.
LEMMA SaveStep == Inv /\ Save => Inv'
BY FailStep DEF Save, Inv, Typed

-----------------------------------------------------------------------------
(* The theorems. *)

\* Nothing is being resolved at first.
LEMMA InitInv == Init => Inv
<1> SUFFICES ASSUME Init PROVE Inv
  OBVIOUS
<1> USE DEF Init
<1>1. Typed
  BY FederationAssumption DEF Typed
<1>2. Clean /\ Searching /\ Chained /\ PoliciesHonoured
  BY DEF Clean, Searching, Chained, PoliciesHonoured
<1>3. QED
  BY <1>1, <1>2 DEF Inv

\* Every step of a resolution keeps the invariant.
LEMMA NextInv == Inv /\ [Next]_vars => Inv'
<1> SUFFICES ASSUME Inv, [Next]_vars PROVE Inv'
  OBVIOUS
<1>1. CASE Tick \/ UNCHANGED vars
  <2>1. UNCHANGED <<pc, kind, stack, subs, auth, found, stored>> /\ now' \in Nat
    BY <1>1 DEF Tick, vars, Inv, Typed
  <2>2. Typed' /\ Clean' /\ Searching' /\ Chained'
    <3>1. TrustAnchorConfig' = TrustAnchorConfig
      BY <2>1 DEF TrustAnchorConfig, Last
    <3>2. Typed' /\ Clean' /\ Searching'
      BY <2>1 DEF Inv, Typed, Clean, Searching, Branch
    <3>3. Chained'
      BY <2>1, <3>1 DEF Inv, Chained
    <3>4. QED
      BY <3>2, <3>3
  <2>3. PoliciesHonoured'
    BY <2>1 DEF Inv, PoliciesHonoured, Satisfies, Adapted
  <2>4. QED
    BY <2>2, <2>3 DEF Inv
<1>2. CASE Serve
  <2>1. CASE Reject
    BY <2>1, FailStep DEF Reject, Inv, Typed
  <2>2. CASE FetchEntityConfiguration \/ ParseTrustChain \/ NoHintLeft \/ CircularHint
    BY <2>2, FetchEntityConfigurationStep, ParseTrustChainStep, NoHintLeftStep, CircularHintStep
  <2>3. CASE FetchAuthorityConfiguration \/ FetchSubordinateStatement \/ Resolve \/ Save
    BY <2>3, FetchAuthorityConfigurationStep, FetchSubordinateStatementStep, ResolveStep, SaveStep
  <2>4. QED
    BY <1>2, <2>1, <2>2, <2>3 DEF Serve
<1>3. ASSUME NEW k \in Kinds, Begin(k) PROVE Inv'
  BY <1>3, BeginStep
<1>4. QED
  BY <1>1, <1>2, <1>3 DEF Next

\* The invariant holds throughout.
LEMMA Invariant == Spec => []Inv
  BY InitInv, NextInv, PTL DEF Spec

\* However the policies of a chain of any length combine, the metadata an
\* entity is resolved to satisfies each of them, scope by its words (Merge,
\* Validate, Apply), and a registered client departs from that only where
\* client.Resolve clears, fills or chooses (trustChain.resolve, resolveClient).
THEOREM MetadataUnderAllPolicies == Spec => []PoliciesHonoured
<1>1. Inv => PoliciesHonoured
  BY DEF Inv
<1>2. QED
  BY <1>1, Invariant, PTL

\* A chain that is resolved is unbroken by name and by key from the client to
\* one that calls itself an anchor, and one the provider searched asks no URL
\* twice and is no longer than allowed (buildTrustChainBranch, parseTrustChain).
THEOREM ChainsUnbroken == Spec => []ChainSound
<1>1. Inv => ChainSound
  BY DEF Inv, Chained, ChainSound
<1>2. QED
  BY <1>1, Invariant, PTL
=============================================================================
