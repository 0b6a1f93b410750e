SPECIFICATION Spec
CONSTANTS
  Texts = {x, y}
  NoText = NoText
  CountMod = 2
  Typists = {1, 2}
  MaxTyped = 2
  MaxStarts = 1
  Corrupted = {}
  MaxPrinted = 0
  Faults = {"loss", "interrupt", "stuck", "garbage", "close"}
INVARIANTS AckedIsPrinted OneOutstanding AckedMessagePrinted
PROPERTY LinkSpec
CHECK_DEADLOCK FALSE
