SPECIFICATION Spec
CONSTANTS
  Readers = {t1}
  Tuners = {t1, t2}
  Pokers = {t2}
  Mappers = {t2}
  NoThread = NoThread
  NoBuf = NoBuf
  Sizes = {4}
  MapSizes = {4}
  Confs = {c1}
  Torn = Torn
  Modes = {0, 1}
  CanTimeout = TRUE
  Buffers = {b1}
  KernelVirt = KernelVirt
  BufWords = 1
  NoWord = NoWord
  NumConfRegs = 2
  ConfWords = {c0, c1, Torn}
  ResetConf = c0
  ResetSel <- AllZeroSel
  SkidDepth = 1
  ChainDepth = 1
  MaxCnts = {1}
  LenMod = 256
INVARIANTS TypeOK HoldsLock ConfWhole MuxAgree
PROPERTIES BreakBeforeMake QuietCapture ServiceSpec
