CONSTANTS
  Files = {dom, html}
  Root = dom
  MaxLines = 3
  MaxOpen = 4
  Classes = {Node}
  Types <- MCTypes
  Idents <- MCIdents
  MaxStatements = 20
  MaxTotal = 4
SPECIFICATION MCSpec
INVARIANTS LocationsFollowBuffers StatementsLocated MethodsReachClassIfCustomary FirstMethodWins
PROPERTIES ParseEnds
CHECK_DEADLOCK FALSE
