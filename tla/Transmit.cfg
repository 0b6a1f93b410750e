SPECIFICATION FairSpec
CONSTANTS
  Writers = {w}
  Readers = {r1, r2}
  NoThread = NoThread
  Buffers = {b1}
  Scratch = Scratch
  NoBuf = NoBuf
  MemWords = 2
  Messages = {m1, m2}
  NoData = NoData
  Sizes = {4, 7}
  Masks = {2}
  CycleCounts = {0, 1}
  LenMod = 8
  WaitMod = 3
  TimeoutTurns = 1
  MaxCalls = 2
INVARIANTS TypeOK ReadsLiveMemory OnAirAsWritten
PROPERTY CallsReturn
