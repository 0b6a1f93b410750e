SPECIFICATION Spec
CONSTANTS
  Readers = {t1}
  Tuners = {t2}
  Pokers = {}
  Mappers = {}
  NoThread = NoThread
  NoBuf = NoBuf
  Sizes = {4}
  MapSizes = {4}
  Confs = {c1}
  Torn = Torn
  Modes = {0, 1}
  CanTimeout = TRUE
  Buffers = {b1}
  KernelVirt = KernelVirt
  BufWords = 1
  NoWord = NoWord
  NumConfRegs = 1
  ConfWords = {c0, c1, Torn}
  ResetConf = c0
  ResetSel <- AllZeroSel
  SkidDepth = 1
  ChainDepth = 1
  MaxCnts = {1}
  LenMod = 256
INVARIANTS LockReleased
