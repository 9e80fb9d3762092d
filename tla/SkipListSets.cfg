SPECIFICATION Spec
CONSTANTS
  N = 4
  MaxHeight = 3
  Values = {v1, v2}
  None = None
INVARIANTS ListInv QueriesAgree SetsAgree
PROPERTY ImplementsMap
