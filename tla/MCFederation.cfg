SPECIFICATION MCFairSpec
CONSTANTS
  leaf = leaf
  i1 = i1
  i2 = i2
  ta = ta
  none = none
  Leaf = leaf
  Authorities = {i1, i2, ta}
  Anchors = {ta}
  None = none
  ClientAttributes <- MCClientAttributes
  ProviderAttributes = {"endpoint"}
  Type <- MCType
  Published <- MCPublished
  Vouched <- MCVouched
  Handed <- MCHanded
  MaxHanded = 2
  Default <- MCDefault
  Clearable = {"custom"}
  ChoicesOf <- MCChoicesOf
  Supported <- MCSupported
  OpenIDFedClientRegTypes = {"automatic", "explicit"}
  OpenIDFedTrustChainMaxDepth = 3
  Leeway = 1
  MaxTime = 3
INVARIANTS PoliciesHonoured ChainSound
PROPERTIES ResolutionEnds
