SPECIFICATION Spec
CONSTANTS
  Texts = {x, y}
  NoText = NoText
  CountMod = 2
  Typists = {1}
  MaxTyped = 1
  MaxStarts = 2
  Corrupted = {1}
  MaxPrinted = 2
  Faults = {"loss", "stuck", "garbage"}
INVARIANTS TypeOK PrintedWasFetched
CHECK_DEADLOCK FALSE
