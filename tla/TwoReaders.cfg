SPECIFICATION Spec
CONSTANTS
  Readers = {t1, t2}
  Tuners = {}
  Pokers = {}
  Mappers = {}
  NoThread = NoThread
  NoBuf = NoBuf
  Sizes = {4}
  MapSizes = {4}
  Confs = {c1}
  Torn = Torn
  Modes = {0}
  CanTimeout = FALSE
  Buffers = {b1, b2}
  KernelVirt = KernelVirt
  BufWords = 1
  NoWord = NoWord
  NumConfRegs = 1
  ConfWords = {c0, c1, Torn}
  ResetConf = c0
  ResetSel <- BypassSelected
  SkidDepth = 1
  ChainDepth = 0
  MaxCnts = {1}
  LenMod = 256
INVARIANTS CaptureComplete
