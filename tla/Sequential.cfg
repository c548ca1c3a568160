SPECIFICATION SequentialSpec
CONSTANTS
  Byte = {fend, fesc, tfend, tfesc, letter}
  letter = letter
  HDLC_FLAG = fend
  HDLC_ESC = fesc
  Masked <- MCMasked
  RNS_FRAMING_MAX_PACKET = 2
  MaxFrames = 2
  MaxFrameLen = 3
  KissByte = {fend, fesc, tfend, tfesc, data, config, byteA, byteB, byteC}
  FEND = fend
  FESC = fesc
  TFEND = tfend
  TFESC = tfesc
  CMD_DATA = data
  CMD_CONFIG = config
  data = data
  config = config
  byteA = byteA
  byteB = byteB
  byteC = byteC
  Frames <- MCFrames
  KISS_FRAME_MAX = 4
  RX_STREAM_SIZE = 8
  MaxWrite = 12
  MaxLeave = 1
  ByteBits = 2
  MaxBits = 3
  MaxCodes = 9
  HlitBits = 2
  HdistBits = 2
  HclenBits = 2
  ClBits = 2
  LenBase <- MCLenBase
  LenExtra <- MCLenExtra
  DistBase <- MCDistBase
  DistExtra <- MCDistExtra
  Beyond <- MCBeyond
  FixedLit <- MCFixedLit
  FixedDist <- MCFixedDist
  CodeOrder <- MCCodeOrder
  Streams <- MCStreams
  OutCap = 6
  CLOCK = 16
  BUTTON_TASK_MS = 1
  BUTTON_DEBOUNCE_MS = 2
  BUTTON_PAIRING_HOLD = 4
  BUTTON_FACTORY_RESET_HOLD = 8
  MaxDelay = 3
  MaxHold = 12
  SLIP_END = fend
  SLIP_ESC = fesc
  SLIP_ESC_END = tfend
  SLIP_ESC_ESC = tfesc
  Datagram <- MCDatagram
  SLIP_BUF_SIZE = 3
  MaxAccidents = 2
  Tag <- MCTag
  Letter = other
  Snippet = snippet
  lt = lt
  body = body
  gt = gt
  STREAM_HOLD = 3
  PROXY_CHUNK_SZ = 2
  HTML_BUF_INIT = 2
  HTML_BUF_CAP = 4
  MaxPage = 6
  ApAddr = {a1, a2}
  WIFI_AP_IP = a1
  StaAddr = {s1}
  NoAddr = NoAddr
  hostname = hostname
  RouterName = RouterName
  ProbeHost = ProbeHost
  OtherHost = OtherHost
  NoHost = NoHost
  POINTER = 3
  MaxName = 5
  RESP_ROOM = 8
  MaxChanges = 3
  PressTicks = 1
  PairingTicks = 30
  ResetTicks = 300
  StartDelay = 30
  BatteryBlinks = {33, 35, 40, 45, 50}
  FactoryBlink = 20
  FactoryDelay = 21
  LED_TICK = 1
  CONNECTED_MV = 3
  BATTERY_FULL_MV = 11
  MaxMv = 12
  MinMv = 4
  EMA_SHARE = 2
  BATTERY_TREND_EVERY = 3
  BATTERY_TREND_MV = 2
  Client = {c1, c2}
  NoClient = NoClient
  Page = {p1, p2}
  NoPage = NoPage
  Slots = 1
  CacheEntries = 1
  PerClientMax = 1
  PerClientWindow = 1
  MaxTime = 2
  MaxRequests = 4
  MaxBodies = 1
INVARIANTS NeverBusy RateLimit FramesArrive CommandsArrive LineRecovers PageUnpacked SnippetOnce Captive HeldLongEnough PanelAnswers TrendIsTrue
PROPERTY AlwaysAdvances
CHECK_DEADLOCK FALSE
