SPECIFICATION Spec
CONSTANTS
  Writers = {w1, w2}
  Readers = {}
  NoThread = NoThread
  Buffers = {b1, b2}
  Scratch = Scratch
  NoBuf = NoBuf
  MemWords = 1
  Messages = {m1, m2}
  NoData = NoData
  Sizes = {4}
  Masks = {3}
  CycleCounts = {0}
  LenMod = 8
  WaitMod = 3
  TimeoutTurns = 2
  MaxCalls = 2
INVARIANT ReportedSent
