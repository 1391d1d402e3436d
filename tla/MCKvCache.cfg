SPECIFICATION FairSpec
CONSTANTS
  Block = {"a1", "a2", "a3", "b3", "b4", "c1", "c2", "d1", "d2", "e1", "e2", "e3", "e4", "e5"}
  Prompts <- MCPrompts
  NumBlocks = 6
  Watermark = 1
  EvictBlocks = 1
INVARIANTS
  LruMatchesTable
  NoIdLeaks
  SavedCanBeHit
PROPERTIES
  SavesReturn
