CONSTANTS
  A = A
  B = B
  toShort = toShort
  toLong = toLong
  longCast = longCast
  shortCast = shortCast
  Null = Null
  Node = {A, B}
  Server = A
  Packet = {toShort, longCast, shortCast}
  Src <- MCSrc
  Dst <- MCDst
  AddrRadio <- MCAddrRadio
  Origin <- MCSrc
  SeqId <- MCSeqId
  MaxTries = 1
  PowerSelects = FALSE
SPECIFICATION FairSpec
PROPERTIES
  SendsEnd
  MaySendAgain
  Sleeps
INVARIANTS ServerAlwaysListens
