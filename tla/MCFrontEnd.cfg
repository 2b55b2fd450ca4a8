CONSTANTS
  Names = {Node, Element, Mixin}
  Attrs = {PrimaryGlobal}
  Null = Null
  MaxDefinitions = 3
  N = 3
  Undeclared = 0
  MaxDepth = 4
SPECIFICATION FrontSpec
SYMMETRY Symmetry
INVARIANTS NodesGatherText AttrsOfFirstMention MembersOfText
CHECK_DEADLOCK FALSE
