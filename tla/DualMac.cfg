CONSTANTS
  A = A
  B = B
  toShort = toShort
  toLong = toLong
  longCast = longCast
  shortCast = shortCast
  Null = Null
  Node = {A, B}
  Server = NoServer
  Packet = {toShort, longCast, shortCast}
  Src <- MCSrc
  Dst <- MCDst
  AddrRadio <- MCAddrRadio
  Origin <- MCSrc
  SeqId <- MCSeqId
  MaxTries = 2
  PowerSelects = FALSE
SPECIFICATION Spec
INVARIANTS
  TypeOK
  DataOnAddressRadio
  AcksOnRadioOfQuestion
  DeliveredOnce
  OksArePaidFor
  AwakeTwoCycles
PROPERTIES
  FlagsFollowRadios
