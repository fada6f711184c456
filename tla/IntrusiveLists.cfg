\* Two lists that share the hooks of four values.
SPECIFICATION ListsSpec
CONSTANTS
  Lists = {l1, l2}
  Values = {v1, v2, v3, v4}
  Null = Null
INVARIANTS
  AllLinksMatch
  LifetimeExact
PROPERTIES
  NoRecursiveDestruction
