CONSTANTS
  A = A
  B = B
  toShort = toShort
  toLong = toLong
  longCast = longCast
  shortCast = shortCast
  Null = Null
  Node = {A, B}
  Server = NoServer
  Packet = {toShort, toLong}
  Src <- MCSrc
  Dst <- MCDst
  AddrRadio <- MCAddrRadio
  Origin <- MCSrc
  SeqId <- MCSeqId
  MaxTries = 1
  PowerSelects = TRUE
SPECIFICATION Spec
INVARIANTS
  DataOnAddressRadio
