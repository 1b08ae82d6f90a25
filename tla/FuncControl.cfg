SPECIFICATION Spec
CONSTANTS
  MaxTokens = 8
  MaxDepth = 3
  MaxStores = 2
  Kinds = {"store", "if", "ifelse", "loop", "switch", "call", "break", "continue", "return"}
  Forms = {}
INVARIANTS CodeFollowsSource EdgesMatchBranches PhisComplete
PROPERTY EventsReached
