SPECIFICATION FairSpec
CONSTANTS
  Texts = {x, y}
  NoText = NoText
  CountMod = 2
  Typists = {1}
  MaxTyped = 3
  MaxStarts = 1
  Corrupted = {}
  MaxPrinted = 0
  Faults = {"loss"}
PROPERTY LinkFairSpec
