SPECIFICATION Spec
CONSTANTS
  MaxTokens = 7
  MaxDepth = 2
  MaxStores = 1
  Kinds = {"store", "switch"}
  Forms = {"update in switch"}
INVARIANT ReadsDefined
