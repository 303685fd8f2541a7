CONSTANTS
  MaxOpen = 2
  Name = {"a", "b"}
  MaxDepth = 2
  MaxIno = 3
  MaxSize = 2
SPECIFICATION Spec
INVARIANTS
  DescriptorsAgree
  ListedOnce
PROPERTIES
  NothingElseLost
  FailureKeepsFiles
