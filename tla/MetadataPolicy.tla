--------------------------- MODULE MetadataPolicy ---------------------------
(***************************************************************************)
(* Metadata policies of OpenID Federation: the operators a superior puts   *)
(* on an attribute of the metadata of its subordinates, how the operators  *)
(* of several superiors are merged, checked and applied.                   *)
(*                                                                         *)
(* A list is the set of its elements and the number of its entries, which  *)
(* matters only where two of them are compared. The type of an attribute   *)
(* matters where Go compares with its zero value: the nil of a []string is *)
(* a list, the nil of an `any` is not. A scope is a string of names that   *)
(* the policies see as a list.                                             *)
(***************************************************************************)
EXTENDS Integers, FiniteSets, Functions

CONSTANTS
  ClientAttributes, ProviderAttributes,
  Type            \* the Go type of each attribute: "list", "scalar", "any" or "scope"

Attributes == ClientAttributes \cup ProviderAttributes

ASSUME MetadataAssumption == Type \in [Attributes -> {"list", "scalar", "any", "scope"}]

Zero == [shape |-> "zero", els |-> {}, len |-> 0]
Error == [shape |-> "error", els |-> {}, len |-> 0]
Scalar(x) == [shape |-> "scalar", els |-> {x}, len |-> 1]
List(S) == [shape |-> "list", els |-> S, len |-> Cardinality(S)]

IsSet(v) == v # Zero
isSlice(t, v) == v.shape = "list" \/ (v.shape = "zero" /\ t \in {"list", "scope"})

mergeSlices(t, v, w) ==
  IF isSlice(t, v) /\ isSlice(t, w) THEN List(v.els \cup w.els) ELSE Error

\* An empty intersection is the zero value. Entries that the second list
\* repeats stay, but nothing counts them afterwards.
intersectSlices(t, v, w) ==
  CASE ~(isSlice(t, v) /\ isSlice(t, w)) -> Error
    [] isSlice(t, v) /\ isSlice(t, w) /\ v.els \cap w.els = {} -> Zero
    [] OTHER -> List(v.els \cap w.els)

isSubset(t, v, w) == isSlice(t, v) /\ isSlice(t, w) /\ v.els \subseteq w.els

\* Two lists are taken for the same if they have as many entries and those of
\* the second are in the first, whatever else the first holds.
compare(t, v, w) ==
  IF isSlice(t, v) /\ isSlice(t, w) THEN v.len = w.len /\ w.els \subseteq v.els ELSE v = w

\* The operators on one attribute. The list of one_of is nil when it is not
\* set; its members are scalars (lists among them cannot be merged).
NoOps == [value |-> [set |-> FALSE, v |-> Zero], add |-> Zero, default |-> Zero,
          oneOf |-> [set |-> FALSE, vals |-> {}], subsetOf |-> Zero, supersetOf |-> Zero,
          essential |-> FALSE]

-----------------------------------------------------------------------------
(* Validate: which operators go together. *)

validateSupersetOf(t, ops) == IsSet(ops.supersetOf) => isSlice(t, ops.supersetOf)

validateSubsetOf(t, ops) ==
  IsSet(ops.subsetOf) =>
    /\ isSlice(t, ops.subsetOf)
    /\ IsSet(ops.supersetOf) => isSubset(t, ops.supersetOf, ops.subsetOf)

validateOneOf(ops) == ops.oneOf.set => ~IsSet(ops.subsetOf) /\ ~IsSet(ops.supersetOf)

validateDefault(t, ops) ==
  IsSet(ops.default) =>
    /\ ops.oneOf.set => ops.default \in ops.oneOf.vals
    /\ IsSet(ops.subsetOf) => isSubset(t, ops.default, ops.subsetOf)
    /\ IsSet(ops.supersetOf) => isSubset(t, ops.supersetOf, ops.default)

validateAdd(t, ops) ==
  IsSet(ops.add) =>
    /\ isSlice(t, ops.add)
    /\ ~ops.oneOf.set
    /\ IsSet(ops.subsetOf) => isSubset(t, ops.add, ops.subsetOf)
    /\ IsSet(ops.supersetOf) => isSubset(t, ops.supersetOf, ops.add)

validateValue(ops) ==
  ops.value.set =>
    /\ ~IsSet(ops.add) /\ ~IsSet(ops.default) /\ ~ops.oneOf.set
    /\ ~IsSet(ops.subsetOf) /\ ~IsSet(ops.supersetOf)

Validate(t, ops) ==
  /\ validateSupersetOf(t, ops) /\ validateSubsetOf(t, ops) /\ validateOneOf(ops)
  /\ validateDefault(t, ops) /\ validateAdd(t, ops) /\ validateValue(ops)

-----------------------------------------------------------------------------
(* Apply: the value of an attribute under the operators, or Error. *)

applyValue(ops, v) == IF ops.value.set THEN ops.value.v ELSE v
applyAdd(t, ops, v) == IF IsSet(ops.add) THEN mergeSlices(t, v, ops.add) ELSE v
applyDefault(ops, v) == IF IsSet(ops.default) /\ v = Zero THEN ops.default ELSE v
applyOneOf(ops, v) == IF ops.oneOf.set /\ v \notin ops.oneOf.vals THEN Error ELSE v
applySubsetOf(t, ops, v) ==
  IF IsSet(ops.subsetOf) /\ ~isSubset(t, v, ops.subsetOf) THEN Error ELSE v
applySupersetOf(t, ops, v) ==
  IF IsSet(ops.supersetOf) /\ ~isSubset(t, ops.supersetOf, v) THEN Error ELSE v
applyEssential(ops, v) == IF ops.essential /\ v = Zero THEN Error ELSE v

Apply(t, ops, v) ==
  LET added == applyAdd(t, ops, applyValue(ops, v))
      known == applyOneOf(ops, applyDefault(ops, added))
      bounded == applySupersetOf(t, ops, applySubsetOf(t, ops, known))
  IN  IF Error \in {added, known, bounded} THEN Error ELSE applyEssential(ops, bounded)

-----------------------------------------------------------------------------
(* Merge: the operators of a superior with those of one below it. *)

\* What both sides set has to agree, and the superior's stays; what one side
\* sets stays.
mergeValue(t, high, low) ==
  CASE ~high.value.set -> low.value
    [] high.value.set /\ ~low.value.set -> high.value
    [] OTHER -> IF compare(t, high.value.v, low.value.v)
                THEN high.value ELSE [set |-> TRUE, v |-> Error]

mergeDefault(t, high, low) ==
  CASE ~IsSet(high.default) -> low.default
    [] IsSet(high.default) /\ ~IsSet(low.default) -> high.default
    [] OTHER -> IF compare(t, high.default, low.default) THEN high.default ELSE Error

Joined(t, high, low) ==
  CASE ~IsSet(high) -> low
    [] IsSet(high) /\ ~IsSet(low) -> high
    [] OTHER -> mergeSlices(t, high, low)

mergeAdd(t, high, low) == Joined(t, high.add, low.add)
mergeSupersetOf(t, high, low) == Joined(t, high.supersetOf, low.supersetOf)

mergeOneOf(high, low) ==
  CASE ~high.oneOf.set -> low.oneOf
    [] high.oneOf.set /\ ~low.oneOf.set -> high.oneOf
    [] OTHER -> LET both == high.oneOf.vals \cap low.oneOf.vals IN
                [set |-> TRUE, vals |-> IF both = {} THEN {Error} ELSE both]

\* Mutant: the operator of the subordinate replaces its superior's.
mergeSubsetOf_Low(t, high, low) == IF IsSet(low.subsetOf) THEN low.subsetOf ELSE high.subsetOf

mergeSubsetOf(t, high, low) ==
  CASE ~IsSet(high.subsetOf) -> low.subsetOf
    [] IsSet(high.subsetOf) /\ ~IsSet(low.subsetOf) -> high.subsetOf
    [] OTHER -> LET both == intersectSlices(t, high.subsetOf, low.subsetOf) IN
                IF both = Zero THEN Error ELSE both

Merge(t, high, low) ==
  [value |-> mergeValue(t, high, low), add |-> mergeAdd(t, high, low),
   default |-> mergeDefault(t, high, low), oneOf |-> mergeOneOf(high, low),
   subsetOf |-> mergeSubsetOf(t, high, low), supersetOf |-> mergeSupersetOf(t, high, low),
   essential |-> high.essential \/ low.essential]

\* Merging failed.
Conflict(ops) ==
  Error \in {ops.value.v, ops.add, ops.default, ops.subsetOf, ops.supersetOf} \cup ops.oneOf.vals

-----------------------------------------------------------------------------
(* Policies: the operators on every attribute of clients and providers.     *)
(* The code has no loop over the attributes of an entity type, but one call *)
(* for each, and a map for the custom ones.                                 *)

NoPolicy == [a \in Attributes |-> NoOps]

ValidateClientPolicy(p) == \A a \in ClientAttributes : Validate(Type[a], p[a])
ValidateProviderPolicy(p) == \A a \in ProviderAttributes : Validate(Type[a], p[a])
ValidatePolicy(p) == ValidateClientPolicy(p) /\ ValidateProviderPolicy(p)

MergeClientPolicy(high, low) == [a \in ClientAttributes |-> Merge(Type[a], high[a], low[a])]
MergeProviderPolicy(high, low) == [a \in ProviderAttributes |-> Merge(Type[a], high[a], low[a])]
MergePolicy(high, low) ==
  LET c == MergeClientPolicy(high, low)
      p == MergeProviderPolicy(high, low)
  IN  [a \in Attributes |-> IF a \in ClientAttributes THEN c[a] ELSE p[a]]
PolicyConflict(p) == \E a \in Attributes : Conflict(p[a])

\* strings.Fields and strings.Join: the list of no names stands for an absent
\* scope, so that no default and no essential ever finds one missing.
Names(v) == IF v = Zero THEN List({}) ELSE v
ApplyAttribute(t, ops, v) ==
  IF t = "scope" THEN Names(Apply(t, ops, Names(v))) ELSE Apply(t, ops, v)

\* Metadata is a function from the attributes of the entity types an entity
\* has; a policy applies to those alone.
ApplyClientPolicy(p, meta) ==
  [a \in ClientAttributes \cap DOMAIN meta |-> ApplyAttribute(Type[a], p[a], meta[a])]
ApplyProviderPolicy(p, meta) ==
  [a \in ProviderAttributes \cap DOMAIN meta |-> Apply(Type[a], p[a], meta[a])]
ApplyPolicy(p, meta) ==
  LET c == ApplyClientPolicy(p, meta)
      q == ApplyProviderPolicy(p, meta)
  IN  [a \in DOMAIN meta |-> IF a \in ClientAttributes THEN c[a] ELSE q[a]]

\* metadata.Merge: a superior overrides values of its subordinate and adds no
\* entity type.
Overrides(t, v) == IF t = "scope" THEN v.els # {} ELSE IsSet(v)
MergeMetadata(sub, config) ==
  [a \in DOMAIN config |->
     IF a \in DOMAIN sub /\ Overrides(Type[a], sub[a]) THEN sub[a] ELSE config[a]]

-----------------------------------------------------------------------------
\* What a superior can rely on, whatever the policies of the others are: the
\* reference for the three algorithms together. The value of one above it
\* stands for its own if compare takes them for the same, and a scope may be
\* absent although it is essential.
Satisfies(t, ops, v) ==
  /\ ops.value.set => compare(t, v, ops.value.v)
  /\ IsSet(ops.add) => ops.add.els \subseteq v.els
  /\ (IsSet(ops.default) \/ ops.essential) /\ t # "scope" => v # Zero
  /\ ops.oneOf.set => v \in ops.oneOf.vals
  /\ IsSet(ops.subsetOf) => v.shape # "scalar" /\ v.els \subseteq ops.subsetOf.els
  /\ IsSet(ops.supersetOf) => v.shape # "scalar" /\ ops.supersetOf.els \subseteq v.els
=============================================================================
