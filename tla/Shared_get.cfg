SPECIFICATION Spec
CONSTANTS
  Paths <- MCPaths
  Trees <- MCTrees
  Rank <- MCRank
  Sizes = {1, 5}
  Hidden = {".h"}
  Unit = 2
  MaxChanges = 2
INVARIANTS ErrorTrue ListTrue Reaches
