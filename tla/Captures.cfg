SPECIFICATION FairSpec
CONSTANTS
  Readers = {t1}
  Tuners = {t2}
  Pokers = {}
  Mappers = {}
  NoThread = NoThread
  NoBuf = NoBuf
  Sizes = {4, 9}
  MapSizes = {4}
  Confs = {}
  Torn = Torn
  Modes = {0, 1}
  CanTimeout = FALSE
  Buffers = {b1}
  KernelVirt = KernelVirt
  BufWords = 3
  NoWord = NoWord
  NumConfRegs = 1
  ConfWords = {c0, Torn}
  ResetConf = c0
  ResetSel <- AllZeroSel
  SkidDepth = 2
  ChainDepth = 1
  MaxCnts = {2}
  LenMod = 256
INVARIANTS CaptureComplete CaptureAligned NoDanglingDma LockReleased
PROPERTIES CallsReturn
