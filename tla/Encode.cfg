SPECIFICATION Spec
CONSTANTS
  ByteBits = 8
  StateBits = 16
  FrameBytes = 24
  CcConstr <- NineTaps
  CcLength = 9
  Beyond = {0, 255}
  CodedBytes = 48
  PointsPerByte = 4
  NFft = 64
  NSym = 3
  NCp = 10
  NOut = 216
  PilotLayouts <- SomePilots
  Infos <- AllInfos
  Payloads <- TwoPayloads
  DebugByte = 102
INVARIANTS TypeOK HeaderWhole BodyIsCode OutputFits PilotsInPlace DataInOrder SymbolsWithPrefix
