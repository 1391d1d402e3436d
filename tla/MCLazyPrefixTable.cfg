SPECIFICATION TableSpec
CONSTANTS
  HashId = {1, 2, 3, 4, 5}
  Prompts <- MCPrompts
  Capacity = 1
  WindowSize = 6
  MinSamples = 2
  RatioFrom = 2
  HotPercent = 34
  ColdPercent = 20
INVARIANTS
  TableInv
PROPERTIES
  OnlyShorterPromptsShrink
