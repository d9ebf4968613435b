----------------------------- MODULE MCDualMac -----------------------------
(***************************************************************************)
(* Instances of DualMac for TLC.  toShort and toLong are numbered data from *)
(* A to the short and the long address of B; longCast is a broadcast of B   *)
(* on the long radio, shortCast one of A on the short radio.                *)
(***************************************************************************)
EXTENDS DualMac

CONSTANTS A, B, toShort, toLong, longCast, shortCast

MCSrc == [k \in Packet |-> IF k = longCast THEN B ELSE A]
MCDst == [k \in Packet |-> IF k \in {longCast, shortCast} THEN Null ELSE B]
MCAddrRadio ==
  [k \in Packet |-> IF k \in {toLong, longCast} THEN "LONG_RADIO" ELSE "SHORT_RADIO"]
MCSeqId == [k \in Packet |-> CASE k = toShort -> 1 [] k = toLong -> 2 [] OTHER -> 0]
=============================================================================
