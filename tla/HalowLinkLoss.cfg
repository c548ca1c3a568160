SPECIFICATION Spec
CONSTANTS
  flag = flag
  esc = esc
  flagMasked = flagMasked
  escMasked = escMasked
  letter = letter
  Byte = {flag, esc, flagMasked, escMasked, letter}
  HDLC_FLAG = flag
  HDLC_ESC = esc
  Masked <- MCMasked
  RNS_FRAMING_MAX_PACKET = 2
  Fd = {fd1, fd2}
  NoFd = NoFd
  RadioFrame <- MCRadioFrame
  MaxTx = 1
  MaxConn = 1
INVARIANT TakenIsWritten
