---------------------------- MODULE Csma_proofs ----------------------------
(***************************************************************************)
(* Proofs about the CSMA layer, for every set of destinations and packets, *)
(* every size of the pools and every retry limit.                          *)
(*                                                                         *)
(* The five outcomes of a transmission reduce to two steps on the queue:   *)
(* its head is reported and leaves, or it is tried again with retries to   *)
(* spare (lemma TransmitCases).  Every invariant is then shown for four    *)
(* kinds of step: a packet is queued, refused, reported, or retried.       *)
(***************************************************************************)
EXTENDS Csma, SequenceTheorems, FiniteSetTheorems, TLAPS

\* send_packet never stores 0 in max_transmissions.
LEMMA MaxTransmissionsType ==
  ASSUME NEW p \in Packet
  PROVE  MaxTransmissions(p) \in Nat \ {0}
BY CsmaAssumption DEF MaxTransmissions

\* One of the outcomes of transmit_packet_list.
TransmitStep(a, p) ==
  \/ TransmitOk(a, p)
  \/ TransmitNoack(a, p)
  \/ TransmitCollision(a, p)
  \/ TransmitErr(a, p)
  \/ TransmitFatal(a, p)

\* packet_sent reports the head packet, with at most one more transmission.
Reported(a, p) ==
  \E status \in RdcStatus, tx \in Nat :
    tx <= transmissions[a] + 1 /\ TxDone(a, p, status, tx)

\* What noack and collision make of the counters: one more transmission and no
\* collision, or one more collision.
Counted(a, tx, coll) ==
  \/ tx = transmissions[a] + 1 /\ coll = 0
  \/ tx = transmissions[a] /\ coll = collisions[a] + 1

\* packet_sent backs off with retries left.
Retried(a, p) ==
  \E tx \in Nat, coll \in Nat :
    /\ tx < MaxTransmissions(p)
    /\ coll <= MaxBackoff
    /\ Counted(a, tx, coll)
    /\ Rexmit(a, tx, coll)

\* noack and collision report the packet, or back off with retries left.
LEMMA DoneOrRexmitCases ==
  ASSUME TypeOK, NEW a \in Addr, NEW p \in Packet, NEW status \in RdcStatus,
         NEW tx \in Nat, NEW coll \in Nat, coll <= MaxBackoff,
         Counted(a, tx, coll), DoneOrRexmit(a, p, status, tx, coll)
  PROVE  Reported(a, p) \/ Retried(a, p)
<1>1. CASE tx >= MaxTransmissions(p)
  <2>1. TxDone(a, p, status, tx)
    BY <1>1 DEF DoneOrRexmit
  <2>2. tx <= transmissions[a] + 1
    BY DEF Counted, TypeOK
  <2> QED BY <2>1, <2>2 DEF Reported
<1>2. CASE ~(tx >= MaxTransmissions(p))
  <2>1. Rexmit(a, tx, coll)
    BY <1>2 DEF DoneOrRexmit
  <2>2. tx < MaxTransmissions(p)
    BY <1>2, MaxTransmissionsType
  <2> QED BY <2>1, <2>2 DEF Retried
<1> QED BY <1>1, <1>2

\* Whatever the RDC answers, the head packet is reported or is tried again.
LEMMA TransmitCases ==
  ASSUME TypeOK, NEW a \in Addr, NEW p \in Packet, TransmitStep(a, p)
  PROVE  Transmit(a, p) /\ (Reported(a, p) \/ Retried(a, p))
<1> USE CsmaAssumption DEF CSMA_MIN_BE
<1>0. transmissions[a] \in Nat /\ collisions[a] \in Nat
  BY DEF TypeOK
<1>1. CASE TransmitOk(a, p)
  <2>1. Transmit(a, p) /\ TxDone(a, p, "MAC_TX_OK", transmissions[a] + 1)
    BY <1>1 DEF TransmitOk, TxOk
  <2> QED BY <1>0, <2>1 DEF Reported, RdcStatus
<1>2. CASE TransmitNoack(a, p)
  <2>1. Transmit(a, p)
    BY <1>2 DEF TransmitNoack
  <2>2. DoneOrRexmit(a, p, "MAC_TX_NOACK", transmissions[a] + 1, 0)
    BY <1>2 DEF TransmitNoack, Noack
  <2>3. /\ "MAC_TX_NOACK" \in RdcStatus /\ transmissions[a] + 1 \in Nat
        /\ 0 <= MaxBackoff /\ Counted(a, transmissions[a] + 1, 0)
    BY <1>0 DEF RdcStatus, Counted
  <2> QED BY <2>1, <2>2, <2>3, DoneOrRexmitCases
<1>3. CASE TransmitCollision(a, p)
  <2>0. Transmit(a, p) /\ Collision(a, p)
    BY <1>3 DEF TransmitCollision
  <2>1. "MAC_TX_COLLISION" \in RdcStatus
    BY DEF RdcStatus
  <2>2. CASE collisions[a] + 1 > MaxBackoff
    <3>1. DoneOrRexmit(a, p, "MAC_TX_COLLISION", transmissions[a] + 1, 0)
      BY <2>0, <2>2 DEF Collision
    <3>2. 0 <= MaxBackoff /\ Counted(a, transmissions[a] + 1, 0)
      BY DEF Counted
    <3> QED BY <1>0, <2>0, <2>1, <3>1, <3>2, DoneOrRexmitCases
  <2>3. CASE ~(collisions[a] + 1 > MaxBackoff)
    <3>1. DoneOrRexmit(a, p, "MAC_TX_COLLISION", transmissions[a], collisions[a] + 1)
      BY <2>0, <2>3 DEF Collision
    <3>2. /\ collisions[a] + 1 \in Nat /\ collisions[a] + 1 <= MaxBackoff
          /\ Counted(a, transmissions[a], collisions[a] + 1)
      BY <1>0, <2>3 DEF Counted
    <3> QED BY <1>0, <2>0, <2>1, <3>1, <3>2, DoneOrRexmitCases
  <2> QED BY <2>2, <2>3
<1>4. CASE TransmitErr(a, p)
  <2>1. Transmit(a, p) /\ TxDone(a, p, "MAC_TX_ERR", transmissions[a])
    BY <1>4 DEF TransmitErr, TxError
  <2> QED BY <1>0, <2>1 DEF Reported, RdcStatus
<1>5. CASE TransmitFatal(a, p)
  <2>1. Transmit(a, p) /\ TxDone(a, p, "MAC_TX_ERR_FATAL", transmissions[a])
    BY <1>5 DEF TransmitFatal, TxError
  <2> QED BY <1>0, <2>1 DEF Reported, RdcStatus
<1> QED BY <1>1, <1>2, <1>3, <1>4, <1>5 DEF TransmitStep

-----------------------------------------------------------------------------
(* Allocation and roll back *)

\* The pools with a free count each are closed under memb_free.
LEMMA GiveType ==
  ASSUME NEW pools \in [Pool -> Nat], NEW m \in Pool
  PROVE  Give(pools, m) \in [Pool -> Nat]
BY DEF Give

\* memb_alloc of a pool that has a block left.
LEMMA TakeType ==
  ASSUME NEW pools \in [Pool -> Nat], NEW m \in Pool, pools[m] > 0
  PROVE  Take(pools, m) \in [Pool -> Nat]
BY DEF Take

\* memb_free of a block just allocated restores the pool.
LEMMA GiveBack ==
  ASSUME NEW pools \in [Pool -> Nat], NEW m \in Pool
  PROVE  Give(Take(pools, m), m) = pools
<1> DEFINE taken == Take(pools, m)
           given == Give(taken, m)
<1>1. taken \in [Pool -> Int] /\ taken[m] = pools[m] - 1
  BY DEF Take
<1>2. \A x \in Pool \ {m} : taken[x] = pools[x]
  BY DEF Take
<1> HIDE DEF taken
<1>3. given \in [Pool -> Int] /\ given[m] = (pools[m] - 1) + 1
  BY <1>1 DEF Give
<1>4. \A x \in Pool \ {m} : given[x] = pools[x]
  BY <1>1, <1>2 DEF Give
<1>5. (pools[m] - 1) + 1 = pools[m]
  OBVIOUS
<1> HIDE DEF given
<1>6. \A x \in Pool : given[x] = pools[x]
  BY <1>3, <1>4, <1>5
<1>7. given = pools
  BY <1>3, <1>6
<1> QED BY <1>7 DEF given, taken

\* The pools once the destination has a neighbour entry.
LEMMA WithNeighborType ==
  ASSUME TypeOK, NEW a \in Addr, HasNeighbor(a)
  PROVE  WithNeighbor(a) \in [Pool -> Nat]
BY TakeType DEF WithNeighbor, HasNeighbor, TypeOK, Pool

\* Wherever the allocation of a packet fails, the blocks taken before are freed:
\* the pools are left as with the neighbour entry alone, which goes if unused.
LEMMA RollBackFrees ==
  ASSUME TypeOK, NEW a \in Addr, HasNeighbor(a), ~BlocksLeft(a)
  PROVE  RolledBack(a) = IF queued_packet_list[a] = <<>> THEN Give(WithNeighbor(a), "neighbor")
                         ELSE WithNeighbor(a)
<1> DEFINE n == WithNeighbor(a)
<1>0. "packet" \in Pool /\ "metadata" \in Pool
  BY DEF Pool
<1>1. n \in [Pool -> Nat]
  BY WithNeighborType
<1>2. CASE ~(n["packet"] > 0)
  BY <1>2 DEF RolledBack
<1>3. CASE n["packet"] > 0
  <2>1. WithPacket(a) \in [Pool -> Nat]
    BY <1>0, <1>1, <1>3, TakeType DEF WithPacket
  <2>2. Give(WithMetadata(a), "metadata") = WithPacket(a)
    BY <1>0, <2>1, GiveBack DEF WithMetadata
  <2>3. Give(WithPacket(a), "packet") = n
    BY <1>0, <1>1, GiveBack DEF WithPacket
  <2> HIDE DEF n
  <2> QED BY <1>3, <2>2, <2>3 DEF RolledBack, n
<1> QED BY <1>2, <1>3

\* What every failing path of send_packet has in common.
LEMMA RefusedShape ==
  ASSUME NEW p \in Packet, NEW a \in Addr, SendRefused(p, a)
  PROVE  Refused(p)
BY DEF SendRefused, SendNoNeighbor, SendQueueFull, SendRolledBack

\* The pools after a failing path of send_packet.
LEMMA RefusedMemb ==
  ASSUME TypeOK, NEW p \in Packet, NEW a \in Addr, SendRefused(p, a)
  PROVE  \/ memb' = memb
         \/ HasNeighbor(a) /\ memb' = WithNeighbor(a)
         \/ "neighbor" \in Pool /\ HasNeighbor(a) /\ memb' = Give(WithNeighbor(a), "neighbor")
<1>1. "neighbor" \in Pool
  BY DEF Pool
<1> QED
  BY <1>1, RollBackFrees DEF SendRefused, SendNoNeighbor, SendQueueFull, SendRolledBack

\* A refused packet leaves no trace: each failing path frees what it took, and
\* the neighbour entry it frees is the one it allocated, because one that was
\* there before has packets.
LEMMA RefusedLeaves ==
  ASSUME TypeOK, TimerIffQueued, NEW p \in Packet, NEW a \in Addr, SendRefused(p, a)
  PROVE  /\ memb' = memb
         /\ neighbor_list' = neighbor_list
         /\ \A b \in neighbor_list :
              transmissions'[b] = transmissions[b] /\ collisions'[b] = collisions[b]
<1>1. memb \in [Pool -> Nat] /\ "neighbor" \in Pool
  BY DEF TypeOK, Pool
<1>2. a \in neighbor_list <=> queued_packet_list[a] # <<>>
  BY DEF TimerIffQueued
<1>3. CASE SendNoNeighbor(p, a)
  BY <1>3 DEF SendNoNeighbor
<1>4. CASE SendQueueFull(p, a)
  <2>1. queued_packet_list[a] # <<>>
    BY <1>4, EmptySeq, CsmaAssumption DEF SendQueueFull, HasRoom
  <2> QED BY <1>2, <1>4, <2>1 DEF SendQueueFull, WithNeighbor, InitNeighbor
<1>5. CASE SendRolledBack(p, a)
  <2>1. memb' = IF queued_packet_list[a] = <<>> THEN Give(WithNeighbor(a), "neighbor")
                ELSE WithNeighbor(a)
    BY <1>5, RollBackFrees DEF SendRolledBack
  <2>2. Give(Take(memb, "neighbor"), "neighbor") = memb
    BY <1>1, GiveBack
  <2>3. memb' = memb
    BY <1>2, <2>1, <2>2 DEF WithNeighbor
  <2>4. neighbor_list' = neighbor_list
    BY <1>2, <1>5 DEF SendRolledBack
  <2>5. \A b \in neighbor_list :
          transmissions'[b] = transmissions[b] /\ collisions'[b] = collisions[b]
    BY <1>5 DEF SendRolledBack, InitNeighbor, TypeOK
  <2> QED BY <2>3, <2>4, <2>5
<1> QED BY <1>3, <1>4, <1>5 DEF SendRefused

-----------------------------------------------------------------------------
(* Type correctness *)

\* Queueing a packet keeps the types; so do the four other kinds of step below.
LEMMA TypeSendQueued ==
  ASSUME TypeOK, NEW p \in Packet, NEW a \in Addr, SendQueued(p, a)
  PROVE  TypeOK'
<1> USE DEF SendQueued, TypeOK
<1>1. queued_packet_list' \in [Addr -> Seq(Packet)]
  <2>1. Append(queued_packet_list[a], p) \in Seq(Packet)
    OBVIOUS
  <2> QED BY <2>1
<1>2. memb' \in [Pool -> Nat]
  <2>0. "packet" \in Pool /\ "metadata" \in Pool /\ "queuebuf" \in Pool
    BY DEF Pool
  <2>1. WithNeighbor(a) \in [Pool -> Nat]
    BY WithNeighborType
  <2>2. WithPacket(a) \in [Pool -> Nat]
    BY <2>0, <2>1, TakeType DEF WithPacket, BlocksLeft
  <2>3. WithMetadata(a) \in [Pool -> Nat]
    BY <2>0, <2>2, TakeType DEF WithMetadata, BlocksLeft
  <2> QED BY <2>0, <2>3, TakeType DEF WithQueuebuf, BlocksLeft
<1>3. fate' \in [Packet -> Fate]
  BY DEF Fate
<1>4. transmissions' \in [Addr -> Nat] /\ collisions' \in [Addr -> Nat]
  BY DEF InitNeighbor, CSMA_MIN_BE
<1>5. neighbor_list' \in SUBSET Addr /\ transmit_timer' \in SUBSET Addr
  OBVIOUS
<1>6. radio' \in [Packet -> Radio]
  OBVIOUS
<1> QED BY <1>1, <1>2, <1>3, <1>4, <1>5, <1>6

\* Refusing a packet keeps the types.
LEMMA TypeSendRefused ==
  ASSUME TypeOK, NEW p \in Packet, NEW a \in Addr, SendRefused(p, a)
  PROVE  TypeOK'
<1>1. Refused(p)
  BY RefusedShape
<1>2. memb' \in [Pool -> Nat]
  <2>1. CASE memb' = memb
    BY <2>1 DEF TypeOK
  <2>2. CASE HasNeighbor(a) /\ memb' = WithNeighbor(a)
    BY <2>2, WithNeighborType
  <2>3. CASE /\ "neighbor" \in Pool
             /\ HasNeighbor(a)
             /\ memb' = Give(WithNeighbor(a), "neighbor")
    BY <2>3, WithNeighborType, GiveType
  <2> QED BY <2>1, <2>2, <2>3, RefusedMemb
<1>3. neighbor_list' \in SUBSET Addr
  BY DEF SendRefused, SendNoNeighbor, SendQueueFull, SendRolledBack, TypeOK
<1>4. transmissions' \in [Addr -> Nat] /\ collisions' \in [Addr -> Nat]
  BY DEF SendRefused, SendNoNeighbor, SendQueueFull, SendRolledBack, InitNeighbor, TypeOK,
         CSMA_MIN_BE
<1>5. fate' \in [Packet -> Fate] /\ callbacks' \in [Packet -> Nat] /\ num_tx' \in [Packet -> Nat]
  BY <1>1 DEF Refused, Callback, TypeOK, Fate, RdcStatus
<1> QED BY <1>1, <1>2, <1>3, <1>4, <1>5 DEF Refused, TypeOK

\* The variables Transmit itself assigns, whatever the outcome.
LEMMA TypeTransmit ==
  ASSUME TypeOK, NEW a \in Addr, NEW p \in Packet, Transmit(a, p)
  PROVE  /\ radio' \in [Packet -> Radio]
         /\ others' \in Nat
         /\ long_range_radio' \in Radio
         /\ attempts' \in [Packet -> Nat]
<1>1. radio[p] \in Radio /\ attempts[p] + 1 \in Nat
  BY DEF TypeOK
<1> QED BY <1>1 DEF TypeOK, Transmit

\* Reporting the head of a queue keeps the types.
LEMMA TypeReported ==
  ASSUME TypeOK, NEW a \in Addr, NEW p \in Packet, Transmit(a, p), Reported(a, p)
  PROVE  TypeOK'
<1>0. PICK status \in RdcStatus, tx \in Nat : TxDone(a, p, status, tx)
  BY DEF Reported
<1> DEFINE rest == Tail(queued_packet_list[a])
<1>1. rest \in Seq(Packet)
  BY DEF Transmit, TypeOK
<1>2. FreePacket(a)
  BY <1>0 DEF TxDone
<1>3. queued_packet_list' \in [Addr -> Seq(Packet)]
  BY <1>1, <1>2 DEF FreePacket, TypeOK
<1>4. memb' \in [Pool -> Nat]
  <2>1. memb' = Released(rest)
    BY <1>2 DEF FreePacket
  <2>2. ASSUME NEW m \in Pool
        PROVE  (IF m = "neighbor" /\ rest # <<>> THEN memb[m] ELSE memb[m] + 1) \in Nat
    BY DEF TypeOK
  <2> HIDE DEF rest
  <2> QED BY <2>1, <2>2 DEF Released
<1>5. neighbor_list' \in SUBSET Addr /\ transmit_timer' \in SUBSET Addr
  BY <1>2 DEF FreePacket, TypeOK
<1>6. collisions' \in [Addr -> Nat]
  BY <1>2 DEF FreePacket, TypeOK, CSMA_MIN_BE
<1>7. transmissions' \in [Addr -> Nat]
  BY <1>0 DEF TxDone, TypeOK
<1>8. fate' \in [Packet -> Fate] /\ callbacks' \in [Packet -> Nat] /\ num_tx' \in [Packet -> Nat]
  BY <1>0 DEF TxDone, Callback, TypeOK, Fate
<1> QED BY <1>3, <1>4, <1>5, <1>6, <1>7, <1>8, TypeTransmit DEF TypeOK

\* Backing off keeps the types.
LEMMA TypeRetried ==
  ASSUME TypeOK, NEW a \in Addr, NEW p \in Packet, Transmit(a, p), Retried(a, p)
  PROVE  TypeOK'
<1>1. PICK tx, coll \in Nat : Rexmit(a, tx, coll)
  BY DEF Retried
<1>2. /\ transmissions' \in [Addr -> Nat]
      /\ collisions' \in [Addr -> Nat]
      /\ transmit_timer' \in SUBSET Addr
  BY <1>1 DEF Rexmit, TypeOK
<1>3. /\ neighbor_list' \in SUBSET Addr
      /\ queued_packet_list' \in [Addr -> Seq(Packet)]
      /\ memb' \in [Pool -> Nat]
  BY <1>1 DEF Rexmit, TypeOK
<1>4. /\ fate' \in [Packet -> Fate]
      /\ callbacks' \in [Packet -> Nat]
      /\ num_tx' \in [Packet -> Nat]
  BY <1>1 DEF Rexmit, TypeOK
<1> QED BY <1>2, <1>3, <1>4, TypeTransmit DEF TypeOK

\* What the rest of the stack does between two CSMA events.
Environment ==
  \/ OtherAlloc
  \/ OtherFree
  \/ \E r \in Radio : SwitchRadio(r)

\* What the rest of the stack does keeps the types.
LEMMA TypeEnvironment == ASSUME TypeOK, Environment PROVE TypeOK'
<1>1. CASE OtherAlloc
  <2>1. memb' \in [Pool -> Nat]
    BY <1>1 DEF OtherAlloc, TypeOK, Pool
  <2> QED BY <1>1, <2>1 DEF OtherAlloc, TypeOK, queueVars, historyVars
<1>2. CASE OtherFree
  <2>1. memb' \in [Pool -> Nat] /\ others' \in Nat
    BY <1>2 DEF OtherFree, TypeOK, Pool
  <2> QED BY <1>2, <2>1 DEF OtherFree, TypeOK, queueVars, historyVars
<1>3. CASE \E r \in Radio : SwitchRadio(r)
  BY <1>3 DEF SwitchRadio, TypeOK, queueVars, historyVars
<1> QED BY <1>1, <1>2, <1>3 DEF Environment

\* Next, as the kinds of step the proofs distinguish.
LEMMA NextCases ==
  ASSUME TypeOK, [Next]_vars
  PROVE  \/ \E p \in Packet, a \in Addr : SendQueued(p, a)
         \/ \E p \in Packet, a \in Addr : SendRefused(p, a)
         \/ \E p \in Packet, a \in Addr : Transmit(a, p) /\ Reported(a, p)
         \/ \E p \in Packet, a \in Addr : Transmit(a, p) /\ Retried(a, p)
         \/ Environment
         \/ UNCHANGED vars
<1>1. CASE \E a \in Addr : TransmitPacketList(a)
  <2>1. PICK a \in Addr, p \in Packet : TransmitStep(a, p)
    BY <1>1 DEF TransmitPacketList, TransmitStep
  <2> QED BY <2>1, TransmitCases
<1>2. \A p \in Packet : Receivers[p] \subseteq Addr
  BY CsmaAssumption
<1> QED BY <1>1, <1>2 DEF Next, Environment

\* The state of the CSMA layer is well typed in every behaviour.
THEOREM TypeCorrect == Spec => []TypeOK
<1>1. Init => TypeOK
  BY CsmaAssumption DEF Init, TypeOK, Fate, RdcStatus, Radio, PoolSize, CSMA_MIN_BE
<1>2. TypeOK /\ [Next]_vars => TypeOK'
  <2> SUFFICES ASSUME TypeOK, [Next]_vars PROVE TypeOK'
    OBVIOUS
  <2>1. CASE UNCHANGED vars
    BY <2>1 DEF vars, queueVars, historyVars, TypeOK
  <2> QED
    BY <2>1, NextCases, TypeSendQueued, TypeSendRefused, TypeReported, TypeRetried,
       TypeEnvironment
<1> QED BY <1>1, <1>2, PTL DEF Spec

-----------------------------------------------------------------------------
(* The timers *)

\* One step keeps timers and neighbour entries in line with the queues.
LEMMA TimerStep ==
  ASSUME TypeOK, TimerIffQueued, [Next]_vars
  PROVE  TimerIffQueued'
<1>1. ASSUME NEW p \in Packet, NEW a \in Addr, SendQueued(p, a)
      PROVE  TimerIffQueued'
  <2>0. queued_packet_list[a] \in Seq(Packet)
    BY DEF TypeOK
  <2>1. Append(queued_packet_list[a], p) # <<>>
    BY <2>0, AppendProperties
  <2> QED BY <1>1, <2>1 DEF SendQueued, TypeOK, TimerIffQueued
<1>2. ASSUME NEW p \in Packet, NEW a \in Addr, SendRefused(p, a)
      PROVE  TimerIffQueued'
  BY <1>2, RefusedLeaves, RefusedShape DEF Refused, TimerIffQueued
<1>3. ASSUME NEW p \in Packet, NEW a \in Addr, Transmit(a, p), Reported(a, p)
      PROVE  TimerIffQueued'
  <2>1. FreePacket(a)
    BY <1>3 DEF Reported, TxDone
  <2>2. a \in neighbor_list
    BY <1>3 DEF Transmit, TimerIffQueued
  <2> DEFINE rest == Tail(queued_packet_list[a])
  <2>3. queued_packet_list' = [queued_packet_list EXCEPT ![a] = rest]
    BY <2>1 DEF FreePacket
  <2>4. CASE rest = <<>>
    BY <2>1, <2>3, <2>4 DEF FreePacket, TypeOK, TimerIffQueued
  <2>5. CASE rest # <<>>
    BY <2>1, <2>2, <2>3, <2>5 DEF FreePacket, TypeOK, TimerIffQueued
  <2> QED BY <2>4, <2>5
<1>4. ASSUME NEW p \in Packet, NEW a \in Addr, Transmit(a, p), Retried(a, p)
      PROVE  TimerIffQueued'
  BY <1>4 DEF Transmit, Retried, Rexmit, TypeOK, TimerIffQueued
<1>5. CASE Environment
  BY <1>5 DEF Environment, OtherAlloc, OtherFree, SwitchRadio, queueVars, TimerIffQueued
<1>6. CASE UNCHANGED vars
  BY <1>6 DEF vars, queueVars, TimerIffQueued
<1> QED BY <1>1, <1>2, <1>3, <1>4, <1>5, <1>6, NextCases

\* In every behaviour a destination has a running timer and a neighbour entry
\* exactly while it has packets.
THEOREM TimersCorrect == Spec => []TimerIffQueued
<1>1. Init => TimerIffQueued
  BY DEF Init, TimerIffQueued
<1>2. TypeOK /\ TimerIffQueued /\ [Next]_vars => TimerIffQueued'
  BY TimerStep
<1> QED BY <1>1, <1>2, TypeCorrect, PTL DEF Spec

-----------------------------------------------------------------------------
(* The retries *)

\* One step leaves retries to the head of every queue.
LEMMA RetriesStep ==
  ASSUME TypeOK, TimerIffQueued, RetriesLeft, [Next]_vars
  PROVE  RetriesLeft'
<1> USE CsmaAssumption DEF CSMA_MIN_BE
<1>0. MaxBackoff \in Nat /\ \A p \in Packet : MaxTransmissions(p) \in Nat \ {0}
  BY MaxTransmissionsType
<1>1. ASSUME NEW p \in Packet, NEW a \in Addr, SendQueued(p, a)
      PROVE  RetriesLeft'
  <2> SUFFICES ASSUME NEW b \in neighbor_list'
               PROVE  /\ transmissions'[b] < MaxTransmissions(Head(queued_packet_list'[b]))
                      /\ collisions'[b] <= MaxBackoff
    BY DEF RetriesLeft
  <2>1. CASE b # a
    BY <1>1, <2>1 DEF SendQueued, InitNeighbor, TypeOK, RetriesLeft
  <2>2. CASE b = a /\ a \in neighbor_list
    <3>1. queued_packet_list[a] # <<>>
      BY <2>2 DEF TimerIffQueued
    <3>2. Head(Append(queued_packet_list[a], p)) = Head(queued_packet_list[a])
      BY <3>1 DEF TypeOK
    <3> QED BY <1>1, <2>2, <3>2 DEF SendQueued, InitNeighbor, TypeOK, RetriesLeft
  <2>3. CASE b = a /\ a \notin neighbor_list
    <3>1. queued_packet_list[a] = <<>>
      BY <2>3 DEF TimerIffQueued
    <3>2. Head(Append(queued_packet_list[a], p)) = p
      BY <3>1
    <3>3. transmissions'[a] = 0 /\ collisions'[a] = 0 /\ queued_packet_list'[a] = Append(queued_packet_list[a], p)
      BY <1>1, <2>3 DEF SendQueued, InitNeighbor, TypeOK
    <3> QED BY <1>0, <2>3, <3>2, <3>3
  <2> QED BY <2>1, <2>2, <2>3
<1>2. ASSUME NEW p \in Packet, NEW a \in Addr, SendRefused(p, a)
      PROVE  RetriesLeft'
  <2>1. UNCHANGED queued_packet_list
    BY <1>2, RefusedShape DEF Refused
  <2> QED BY <1>2, <2>1, RefusedLeaves DEF RetriesLeft, MaxTransmissions
<1>3. ASSUME NEW p \in Packet, NEW a \in Addr, Transmit(a, p), Reported(a, p)
      PROVE  RetriesLeft'
  <2>0. PICK status \in RdcStatus, tx \in Nat : TxDone(a, p, status, tx)
    BY <1>3 DEF Reported
  <2> DEFINE q == queued_packet_list[a]
  <2>1. q \in Seq(Packet) /\ q # <<>>
    BY <1>3 DEF Transmit, TypeOK
  <2> SUFFICES ASSUME NEW b \in neighbor_list'
               PROVE  /\ transmissions'[b] < MaxTransmissions(Head(queued_packet_list'[b]))
                      /\ collisions'[b] <= MaxBackoff
    BY DEF RetriesLeft
  <2>2. CASE b # a
    BY <2>0, <2>2 DEF TxDone, FreePacket, TypeOK, RetriesLeft
  <2>3. CASE b = a /\ Tail(q) # <<>>
    <3>1. Len(q) > 1 /\ Head(Tail(q)) \in Packet
      BY <2>1, <2>3
    <3>2. transmissions'[a] = 0 /\ collisions'[a] = 0 /\ queued_packet_list'[a] = Tail(q)
      BY <2>0, <3>1 DEF TxDone, FreePacket, TypeOK
    <3> QED BY <1>0, <2>3, <3>1, <3>2
  <2>4. CASE b = a /\ Tail(q) = <<>>
    <3>1. a \notin neighbor_list'
      BY <2>0, <2>4 DEF TxDone, FreePacket
    <3> QED BY <2>4, <3>1
  <2> QED BY <2>2, <2>3, <2>4
<1>4. ASSUME NEW p \in Packet, NEW a \in Addr, Transmit(a, p), Retried(a, p)
      PROVE  RetriesLeft'
  BY <1>4 DEF Transmit, Retried, Rexmit, TypeOK, RetriesLeft
<1>5. CASE Environment
  BY <1>5 DEF Environment, OtherAlloc, OtherFree, SwitchRadio, queueVars, RetriesLeft
<1>6. CASE UNCHANGED vars
  BY <1>6 DEF vars, queueVars, RetriesLeft
<1> QED BY <1>1, <1>2, <1>3, <1>4, <1>5, <1>6, NextCases

\* Whenever a queue's timer runs, its head has retries left, so that noack and
\* collision can always reach tx_done, and the uint8_t counters never wrap.
THEOREM RetriesCorrect == Spec => []RetriesLeft
<1>1. Init => RetriesLeft
  BY DEF Init, RetriesLeft
<1>2. TypeOK /\ TimerIffQueued /\ RetriesLeft /\ [Next]_vars => RetriesLeft'
  BY RetriesStep
<1> QED BY <1>1, <1>2, TypeCorrect, TimersCorrect, PTL DEF Spec

-----------------------------------------------------------------------------
(* The contents of the queues *)

\* The packet transmit_packet_list hands to the RDC is one that waits.
LEMMA HeadWaits ==
  ASSUME TypeOK, QueuesMatchFate, NEW a \in Addr, NEW p \in Packet, Transmit(a, p)
  PROVE  /\ queued_packet_list[a] \in Seq(Packet)
         /\ queued_packet_list[a] # <<>>
         /\ Len(queued_packet_list[a]) \in Nat \ {0}
         /\ DOMAIN queued_packet_list[a] = 1..Len(queued_packet_list[a])
         /\ queued_packet_list[a][1] = p
         /\ fate[p] = "queued"
<1> DEFINE q == queued_packet_list[a]
<1>1. q \in Seq(Packet) /\ q # <<>> /\ p = Head(q)
  BY DEF Transmit, TypeOK
<1>2. Len(q) \in Nat \ {0} /\ DOMAIN q = 1..Len(q)
  BY <1>1, EmptySeq, LenProperties
<1>3. q[1] = p
  BY <1>1
<1>4. fate[q[1]] = "queued"
  BY <1>2 DEF QueuesMatchFate
<1> QED BY <1>1, <1>2, <1>3, <1>4

\* A packet goes from its queue to the upper layer in one step.
LEMMA ReportedQueue ==
  ASSUME TypeOK, NEW a \in Addr, NEW p \in Packet, Transmit(a, p), Reported(a, p)
  PROVE  /\ \A b \in Addr \ {a} : queued_packet_list'[b] = queued_packet_list[b]
         /\ queued_packet_list'[a] = Tail(queued_packet_list[a])
         /\ Len(queued_packet_list'[a]) = Len(queued_packet_list[a]) - 1
         /\ DOMAIN queued_packet_list'[a] = 1..(Len(queued_packet_list[a]) - 1)
         /\ \A i \in DOMAIN queued_packet_list'[a] :
               queued_packet_list'[a][i] = queued_packet_list[a][i + 1]
         /\ fate'[p] \in RdcStatus
         /\ \A o \in Packet \ {p} : fate'[o] = fate[o]
<1> DEFINE q == queued_packet_list[a]
<1>1. PICK status \in RdcStatus, tx \in Nat : TxDone(a, p, status, tx)
  BY DEF Reported
<1>2. q \in Seq(Packet) /\ q # <<>>
  BY DEF Transmit, TypeOK
<1>3. queued_packet_list' = [queued_packet_list EXCEPT ![a] = Tail(q)]
  BY <1>1 DEF TxDone, FreePacket
<1>4. /\ Tail(q) \in Seq(Packet)
      /\ Len(Tail(q)) = Len(q) - 1
      /\ \A i \in 1..Len(Tail(q)) : Tail(q)[i] = q[i + 1]
  BY <1>2, HeadTailProperties
<1>5. DOMAIN Tail(q) = 1..(Len(q) - 1)
  BY <1>4, LenProperties
<1>6. queued_packet_list'[a] = Tail(q) /\ \A b \in Addr \ {a} : queued_packet_list'[b] = queued_packet_list[b]
  BY <1>3 DEF TypeOK
<1>7. fate' = [fate EXCEPT ![p] = status]
  BY <1>1 DEF TxDone, Callback
<1>8. fate'[p] \in RdcStatus /\ \A o \in Packet \ {p} : fate'[o] = fate[o]
  BY <1>7 DEF TypeOK
<1> HIDE DEF q
<1> QED BY <1>4, <1>5, <1>6, <1>8 DEF q

\* Reporting the head of a queue takes exactly that packet out of the queues.
LEMMA QueuesReported ==
  ASSUME TypeOK, QueuesMatchFate, NEW a \in Addr, NEW p \in Packet,
         Transmit(a, p), Reported(a, p)
  PROVE  QueuesMatchFate'
<1> DEFINE Q == queued_packet_list
           n == Len(queued_packet_list[a])
           \* where an element of the new queue of b was in the old one
           was(b, i) == IF b = a THEN i + 1 ELSE i
<1>1. n \in Nat \ {0} /\ DOMAIN Q[a] = 1..n /\ Q[a][1] = p /\ fate[p] = "queued"
  BY HeadWaits
<1>2. \A b \in Addr : DOMAIN Q[b] = 1..Len(Q[b]) /\ Len(Q[b]) \in Nat
  BY LenProperties DEF TypeOK
<1>3. ASSUME NEW b \in Addr, NEW i \in DOMAIN Q'[b]
      PROVE  /\ was(b, i) \in DOMAIN Q[b]
             /\ i \in Nat
             /\ Q'[b][i] = Q[b][was(b, i)]
             /\ Q'[b][i] # p
  <2>1. CASE b = a
    <3>1. i \in 1..(n - 1) /\ Q'[a][i] = Q[a][i + 1]
      BY <2>1, ReportedQueue
    <3>2. i + 1 \in DOMAIN Q[a] /\ i + 1 # 1 /\ 1 \in DOMAIN Q[a]
      BY <1>1, <3>1
    <3>3. Q[a][i + 1] # p
      BY <1>1, <3>2 DEF QueuesMatchFate
    <3> QED BY <2>1, <3>1, <3>2, <3>3
  <2>2. CASE b # a
    <3>1. Q'[b] = Q[b]
      BY <2>2, ReportedQueue
    <3>2. Q[b][i] # p
      BY <1>1, <2>2, <3>1 DEF QueuesMatchFate
    <3> QED BY <1>2, <2>2, <3>1, <3>2
  <2> QED BY <2>1, <2>2
<1>4. \A b \in Addr : \A i \in DOMAIN Q[b] : Q[b][i] \in Packet
  BY <1>2, ElementOfSeq DEF TypeOK
<1>5. \A o \in Packet \ {p} : fate'[o] = fate[o]
  BY ReportedQueue
<1>6. \A b \in Addr : \A i \in DOMAIN Q'[b] : fate'[Q'[b][i]] = "queued"
  BY <1>3, <1>4, <1>5 DEF QueuesMatchFate
<1>7. ASSUME NEW b \in Addr, NEW c \in Addr,
             NEW i \in DOMAIN Q'[b], NEW j \in DOMAIN Q'[c], Q'[b][i] = Q'[c][j]
      PROVE  b = c /\ i = j
  <2>1. b = c /\ was(b, i) = was(c, j)
    BY <1>3, <1>7 DEF QueuesMatchFate
  <2> QED BY <1>3, <2>1
<1>8. ASSUME NEW o \in QueuedPackets'
      PROVE  \E b \in Addr : \E i \in DOMAIN Q'[b] : Q'[b][i] = o
  <2>1. o \in Packet /\ fate'[o] = "queued"
    BY DEF QueuedPackets
  <2>2. o # p
    BY <2>1, ReportedQueue DEF RdcStatus
  <2>0. PICK b \in Addr : \E i \in DOMAIN Q[b] : Q[b][i] = o
    BY <1>5, <2>1, <2>2 DEF QueuesMatchFate, QueuedPackets
  <2>3. PICK i \in DOMAIN Q[b] : Q[b][i] = o
    BY <2>0
  <2>4. CASE b = a
    <3>1. i \in 2..n
      BY <1>1, <1>2, <2>2, <2>3, <2>4
    <3>2. i - 1 \in 1..(n - 1) /\ (i - 1) + 1 = i
      BY <1>1, <3>1
    <3>3. i - 1 \in DOMAIN Q'[a] /\ Q'[a][i - 1] = Q[a][i]
      BY <3>2, ReportedQueue
    <3> QED BY <2>3, <2>4, <3>3
  <2>5. CASE b # a
    BY <2>3, <2>5, ReportedQueue
  <2> QED BY <2>4, <2>5
<1> HIDE DEF was, n
<1> QED BY <1>6, <1>7, <1>8 DEF QueuesMatchFate

\* Queueing a packet puts it in one place of one queue.
LEMMA QueuesSendQueued ==
  ASSUME TypeOK, QueuesMatchFate, NEW p \in Packet, NEW a \in Addr, SendQueued(p, a)
  PROVE  QueuesMatchFate'
<1> DEFINE Q == queued_packet_list
           n == Len(queued_packet_list[a])
<1>1. \A b \in Addr : DOMAIN Q[b] = 1..Len(Q[b]) /\ Len(Q[b]) \in Nat
  BY LenProperties DEF TypeOK
<1>2. Q[a] \in Seq(Packet)
  BY DEF TypeOK
<1>3. /\ Append(Q[a], p) \in Seq(Packet)
      /\ Len(Append(Q[a], p)) = n + 1
      /\ \A i \in 1..n : Append(Q[a], p)[i] = Q[a][i]
      /\ Append(Q[a], p)[n + 1] = p
  BY <1>2, AppendProperties
<1>4. DOMAIN Append(Q[a], p) = 1..(n + 1)
  BY <1>3, LenProperties
<1>5. Q'[a] = Append(Q[a], p) /\ \A b \in Addr \ {a} : Q'[b] = Q[b]
  BY DEF SendQueued, TypeOK
<1>6. fate[p] = "new" /\ fate'[p] = "queued" /\ \A o \in Packet \ {p} : fate'[o] = fate[o]
  BY DEF SendQueued, TypeOK
<1>7. \A b \in Addr : \A i \in DOMAIN Q[b] : Q[b][i] \in Packet /\ Q[b][i] # p
  BY <1>1, <1>6, ElementOfSeq DEF QueuesMatchFate, TypeOK
\* an element of a queue is the new one, or was at the same place before
<1>8. ASSUME NEW b \in Addr, NEW i \in DOMAIN Q'[b]
      PROVE  \/ b = a /\ i = n + 1 /\ Q'[b][i] = p
             \/ i \in DOMAIN Q[b] /\ Q'[b][i] = Q[b][i] /\ Q'[b][i] \in Packet \ {p}
  <2>1. CASE b = a
    <3>1. i \in 1..n \/ i = n + 1
      BY <1>1, <1>4, <1>5, <2>1
    <3> QED BY <1>1, <1>3, <1>5, <1>7, <2>1, <3>1
  <2>2. CASE b # a
    BY <1>5, <1>7, <2>2
  <2> QED BY <2>1, <2>2
<1>9. \A b \in Addr : \A i \in DOMAIN Q[b] : i \in DOMAIN Q'[b] /\ Q'[b][i] = Q[b][i]
  BY <1>1, <1>3, <1>4, <1>5
<1>10. n + 1 \in DOMAIN Q'[a] /\ Q'[a][n + 1] = p
  BY <1>1, <1>3, <1>4, <1>5
<1> HIDE DEF n
<1>11. \A b \in Addr : \A i \in DOMAIN Q'[b] : fate'[Q'[b][i]] = "queued"
  BY <1>6, <1>8 DEF QueuesMatchFate
<1>12. \A b, c \in Addr : \A i \in DOMAIN Q'[b], j \in DOMAIN Q'[c] :
         Q'[b][i] = Q'[c][j] => b = c /\ i = j
  BY <1>8 DEF QueuesMatchFate
<1>13. \A o \in QueuedPackets' : \E b \in Addr : \E i \in DOMAIN Q'[b] : Q'[b][i] = o
  BY <1>6, <1>9, <1>10 DEF QueuesMatchFate, QueuedPackets
<1> QED BY <1>11, <1>12, <1>13 DEF QueuesMatchFate

\* One step keeps the queues equal to the packets that wait.
LEMMA QueuesStep ==
  ASSUME TypeOK, QueuesMatchFate, [Next]_vars
  PROVE  QueuesMatchFate'
<1>1. ASSUME NEW p \in Packet, NEW a \in Addr, SendRefused(p, a)
      PROVE  QueuesMatchFate'
  <2>1. fate[p] = "new" /\ fate' = [fate EXCEPT ![p] = "MAC_TX_ERR"] /\ UNCHANGED queued_packet_list
    BY <1>1, RefusedShape DEF Refused, Callback
  <2>2. \A a1 \in Addr : \A i \in DOMAIN queued_packet_list[a1] : queued_packet_list[a1][i] \in Packet
    BY LenProperties, ElementOfSeq DEF TypeOK
  <2>3. \A b \in Addr : \A i \in DOMAIN queued_packet_list[b] :
          fate'[queued_packet_list[b][i]] = "queued"
    BY <2>1, <2>2 DEF QueuesMatchFate, TypeOK
  <2>4. QueuedPackets' = QueuedPackets
    BY <2>1 DEF QueuedPackets, TypeOK
  <2> QED BY <2>1, <2>3, <2>4 DEF QueuesMatchFate
<1>2. ASSUME NEW p \in Packet, NEW a \in Addr, Transmit(a, p), Retried(a, p)
      PROVE  QueuesMatchFate'
  BY <1>2 DEF Retried, Rexmit, QueuesMatchFate, QueuedPackets
<1>3. CASE Environment
  BY <1>3 DEF Environment, OtherAlloc, OtherFree, SwitchRadio, queueVars, historyVars,
              QueuesMatchFate, QueuedPackets
<1>4. CASE UNCHANGED vars
  BY <1>4 DEF vars, queueVars, historyVars, QueuesMatchFate, QueuedPackets
<1> QED BY <1>1, <1>2, <1>3, <1>4, NextCases, QueuesSendQueued, QueuesReported

\* In every behaviour the queues hold exactly the accepted packets that are not
\* yet reported, each once.
THEOREM QueuesCorrect == Spec => []QueuesMatchFate
<1>1. Init => QueuesMatchFate
  BY DEF Init, QueuesMatchFate, QueuedPackets
<1>2. TypeOK /\ QueuesMatchFate /\ [Next]_vars => QueuesMatchFate'
  BY QueuesStep
<1> QED BY <1>1, <1>2, TypeCorrect, PTL DEF Spec

-----------------------------------------------------------------------------
(* The callbacks *)

\* One step calls back once for a packet that leaves, and for no other.
LEMMA CallbackStep ==
  ASSUME TypeOK, QueuesMatchFate, OneCallback, [Next]_vars
  PROVE  OneCallback'
<1> USE DEF OneCallback
<1>1. ASSUME NEW p \in Packet, NEW a \in Addr, SendQueued(p, a)
      PROVE  OneCallback'
  BY <1>1 DEF SendQueued, TypeOK, RdcStatus
<1>2. ASSUME NEW p \in Packet, NEW a \in Addr, SendRefused(p, a)
      PROVE  OneCallback'
  <2>1. /\ fate[p] = "new" /\ fate' = [fate EXCEPT ![p] = "MAC_TX_ERR"]
        /\ callbacks' = [callbacks EXCEPT ![p] = @ + 1]
    BY <1>2, RefusedShape DEF Refused, Callback
  <2>2. fate \in [Packet -> Fate] /\ callbacks \in [Packet -> Nat]
    BY DEF TypeOK
  <2>3. callbacks[p] = 0 /\ "MAC_TX_ERR" \in RdcStatus
    BY <2>1 DEF RdcStatus
  <2> QED BY ONLY OneCallback, <2>1, <2>2, <2>3 DEF OneCallback
<1>3. ASSUME NEW p \in Packet, NEW a \in Addr, Transmit(a, p), Reported(a, p)
      PROVE  OneCallback'
  <2>1. PICK status \in RdcStatus, tx \in Nat : TxDone(a, p, status, tx)
    BY <1>3 DEF Reported
  <2>2. fate[p] = "queued"
    BY <1>3, HeadWaits
  <2>3. /\ fate' = [fate EXCEPT ![p] = status]
        /\ callbacks' = [callbacks EXCEPT ![p] = @ + 1]
    BY <2>1 DEF TxDone, Callback
  <2>4. fate \in [Packet -> Fate] /\ callbacks \in [Packet -> Nat]
    BY DEF TypeOK
  <2>5. callbacks[p] = 0
    BY <2>2 DEF RdcStatus
  <2> QED BY ONLY OneCallback, <2>1, <2>3, <2>4, <2>5 DEF OneCallback
<1>4. ASSUME NEW p \in Packet, NEW a \in Addr, Transmit(a, p), Retried(a, p)
      PROVE  OneCallback'
  BY <1>4 DEF Retried, Rexmit
<1>5. CASE Environment
  BY <1>5 DEF Environment, OtherAlloc, OtherFree, SwitchRadio, historyVars
<1>6. CASE UNCHANGED vars
  BY <1>6 DEF vars, historyVars
<1> QED BY <1>1, <1>2, <1>3, <1>4, <1>5, <1>6, NextCases

\* In every behaviour the sent callback is made once for each packet that has
\* left the queues, and for no other.
THEOREM CallbacksCorrect == Spec => []OneCallback
<1>1. Init => OneCallback
  BY DEF Init, OneCallback, RdcStatus
<1>2. TypeOK /\ QueuesMatchFate /\ OneCallback /\ [Next]_vars => OneCallback'
  BY CallbackStep
<1> QED BY <1>1, <1>2, TypeCorrect, QueuesCorrect, PTL DEF Spec

\* A packet not yet passed to send_packet was never transmitted.
NewUntried ==
  \A p \in Packet : fate[p] = "new" => attempts[p] = 0

\* One step hands no packet to the RDC that was not queued.
LEMMA NewUntriedStep ==
  ASSUME TypeOK, QueuesMatchFate, NewUntried, [Next]_vars
  PROVE  NewUntried'
<1> USE DEF NewUntried
<1>1. ASSUME NEW p \in Packet, NEW a \in Addr, SendQueued(p, a)
      PROVE  NewUntried'
  BY <1>1 DEF SendQueued, TypeOK
<1>2. ASSUME NEW p \in Packet, NEW a \in Addr, SendRefused(p, a)
      PROVE  NewUntried'
  BY <1>2, RefusedShape DEF Refused, Callback, TypeOK
<1>3. ASSUME NEW p \in Packet, NEW a \in Addr, Transmit(a, p), Reported(a, p)
      PROVE  NewUntried'
  <2>1. fate'[p] # "new" /\ \A o \in Packet \ {p} : fate'[o] = fate[o]
    BY <1>3, ReportedQueue DEF RdcStatus
  <2> QED BY <1>3, <2>1 DEF Transmit, TypeOK
<1>4. ASSUME NEW p \in Packet, NEW a \in Addr, Transmit(a, p), Retried(a, p)
      PROVE  NewUntried'
  <2>1. fate[p] = "queued"
    BY <1>4, HeadWaits
  <2> QED BY <1>4, <2>1 DEF Transmit, Retried, Rexmit, TypeOK
<1>5. CASE Environment
  BY <1>5 DEF Environment, OtherAlloc, OtherFree, SwitchRadio, historyVars
<1>6. CASE UNCHANGED vars
  BY <1>6 DEF vars, historyVars
<1> QED BY <1>1, <1>2, <1>3, <1>4, <1>5, <1>6, NextCases

\* In every behaviour a packet not yet passed to send_packet was never transmitted.
LEMMA NewUntriedCorrect == Spec => []NewUntried
<1>1. Init => NewUntried
  BY DEF Init, NewUntried
<1>2. TypeOK /\ QueuesMatchFate /\ NewUntried /\ [Next]_vars => NewUntried'
  BY NewUntriedStep
<1> QED BY <1>1, <1>2, TypeCorrect, QueuesCorrect, PTL DEF Spec

-----------------------------------------------------------------------------
(* The pools *)

\* Finiteness is what makes the counts of PoolsBalance meaningful.
FinitePools == IsFiniteSet(neighbor_list) /\ IsFiniteSet(QueuedPackets)

\* A block that is taken moves from the free to the used ones.
LEMMA BlockTaken ==
  ASSUME NEW free \in Nat, NEW used \in Nat, NEW size, free + used = size,
         NEW free1, NEW used1, free1 = free - 1, used1 = used + 1
  PROVE  free1 + used1 = size
OBVIOUS

\* A block that is given back moves from the used to the free ones.
LEMMA BlockReturned ==
  ASSUME NEW free \in Nat, NEW used \in Nat, NEW size, free + used = size,
         NEW free1, NEW used1, free1 = free + 1, used1 = used - 1
  PROVE  free1 + used1 = size
OBVIOUS

\* Queueing a packet takes one block of each pool it uses.
LEMMA PoolsSendQueued ==
  ASSUME TypeOK, FinitePools, PoolsBalance, NEW p \in Packet, NEW a \in Addr, SendQueued(p, a)
  PROVE  FinitePools' /\ PoolsBalance'
<1>memb. memb \in [Pool -> Nat]
  BY DEF TypeOK
<1>0. /\ NeighborQueues \in Nat /\ QueuebufNum \in Nat /\ others \in Nat
      /\ memb["neighbor"] \in Nat /\ memb["packet"] \in Nat
      /\ memb["metadata"] \in Nat /\ memb["queuebuf"] \in Nat
      /\ memb["queuebuf"] + others \in Nat
  <2>1. memb \in [Pool -> Nat] /\ others \in Nat
    BY DEF TypeOK
  <2> QED BY ONLY <2>1, CsmaAssumption DEF Pool
<1>1. QueuedPackets' = QueuedPackets \cup {p} /\ p \notin QueuedPackets
  BY DEF SendQueued, QueuedPackets, TypeOK
<1>2. /\ IsFiniteSet(QueuedPackets')
      /\ Cardinality(QueuedPackets) \in Nat
      /\ Cardinality(QueuedPackets') = Cardinality(QueuedPackets) + 1
  BY <1>1, FS_AddElement, FS_CardinalityType DEF FinitePools
<1>3. /\ IsFiniteSet(neighbor_list')
      /\ Cardinality(neighbor_list) \in Nat
      /\ Cardinality(neighbor_list') = IF a \in neighbor_list THEN Cardinality(neighbor_list)
                                       ELSE Cardinality(neighbor_list) + 1
  BY FS_AddElement, FS_CardinalityType DEF FinitePools, SendQueued
<1>4. /\ memb'["neighbor"] = IF a \in neighbor_list THEN memb["neighbor"] ELSE memb["neighbor"] - 1
      /\ memb'["packet"] = memb["packet"] - 1
      /\ memb'["metadata"] = memb["metadata"] - 1
      /\ memb'["queuebuf"] = memb["queuebuf"] - 1
  BY <1>memb DEF SendQueued, WithQueuebuf, WithMetadata, WithPacket, WithNeighbor, Take, Pool
<1>5. others' = others
  BY DEF SendQueued
<1>6. PoolsBalance'
  <2>sums. /\ memb["neighbor"] + Cardinality(neighbor_list) = NeighborQueues
        /\ memb["packet"] + Cardinality(QueuedPackets) = QueuebufNum
        /\ memb["metadata"] + Cardinality(QueuedPackets) = QueuebufNum
        /\ (memb["queuebuf"] + others) + Cardinality(QueuedPackets) = QueuebufNum
    BY DEF PoolsBalance
  <2>packets. /\ Cardinality(QueuedPackets) \in Nat
        /\ Cardinality(QueuedPackets') = Cardinality(QueuedPackets) + 1
    BY <1>2
  <2>1. memb'["neighbor"] + Cardinality(neighbor_list') = NeighborQueues
    <3>1. memb["neighbor"] \in Nat /\ Cardinality(neighbor_list) \in Nat
      BY <1>0, <1>3
    <3>2. CASE /\ memb'["neighbor"] = memb["neighbor"] - 1
               /\ Cardinality(neighbor_list') = Cardinality(neighbor_list) + 1
      BY ONLY <2>sums, <3>1, <3>2, BlockTaken
    <3>3. CASE /\ memb'["neighbor"] = memb["neighbor"]
               /\ Cardinality(neighbor_list') = Cardinality(neighbor_list)
      BY <2>sums, <3>3
    <3> QED BY <3>2, <3>3, <1>3, <1>4
  <2>2. memb'["packet"] + Cardinality(QueuedPackets') = QueuebufNum
    <3>1. memb["packet"] \in Nat /\ memb'["packet"] = memb["packet"] - 1
      BY <1>0, <1>4
    <3> QED BY ONLY <2>sums, <2>packets, <3>1, BlockTaken
  <2>3. memb'["metadata"] + Cardinality(QueuedPackets') = QueuebufNum
    <3>1. memb["metadata"] \in Nat /\ memb'["metadata"] = memb["metadata"] - 1
      BY <1>0, <1>4
    <3> QED BY ONLY <2>sums, <2>packets, <3>1, BlockTaken
  <2>4. memb'["queuebuf"] + others' + Cardinality(QueuedPackets') = QueuebufNum
    <3>1. /\ memb["queuebuf"] + others \in Nat
          /\ memb'["queuebuf"] + others' = (memb["queuebuf"] + others) - 1
      BY <1>0, <1>4, <1>5
    <3> QED BY ONLY <2>sums, <2>packets, <3>1, BlockTaken
  <2> QED BY <2>1, <2>2, <2>3, <2>4 DEF PoolsBalance
<1> QED BY <1>2, <1>3, <1>6 DEF FinitePools

\* free_packet gives back the blocks of the packet, and the last one's neighbour entry.
LEMMA PoolsReported ==
  ASSUME TypeOK, TimerIffQueued, QueuesMatchFate, FinitePools, PoolsBalance,
         NEW a \in Addr, NEW p \in Packet, Transmit(a, p), Reported(a, p)
  PROVE  FinitePools' /\ PoolsBalance'
<1> DEFINE rest == Tail(queued_packet_list[a])
<1>0. /\ NeighborQueues \in Nat /\ QueuebufNum \in Nat /\ others \in Nat
      /\ memb["neighbor"] \in Nat /\ memb["packet"] \in Nat
      /\ memb["metadata"] \in Nat /\ memb["queuebuf"] \in Nat
      /\ memb["queuebuf"] + others \in Nat
  <2>1. memb \in [Pool -> Nat] /\ others \in Nat
    BY DEF TypeOK
  <2> QED BY ONLY <2>1, CsmaAssumption DEF Pool
<1>1. QueuedPackets' = QueuedPackets \ {p} /\ p \in QueuedPackets
  BY ReportedQueue, HeadWaits DEF QueuedPackets, RdcStatus
<1>2. /\ IsFiniteSet(QueuedPackets')
      /\ Cardinality(QueuedPackets) \in Nat
      /\ Cardinality(QueuedPackets') = Cardinality(QueuedPackets) - 1
  <2>1. IsFiniteSet(QueuedPackets)
    BY DEF FinitePools
  <2> QED BY ONLY <1>1, <2>1, FS_RemoveElement, FS_CardinalityType
<1>3. a \in neighbor_list
  BY DEF Transmit, TimerIffQueued
<1>4. FreePacket(a)
  BY DEF Reported, TxDone
<1>5. /\ IsFiniteSet(neighbor_list')
      /\ Cardinality(neighbor_list) \in Nat
      /\ Cardinality(neighbor_list') = IF rest = <<>> THEN Cardinality(neighbor_list) - 1
                                       ELSE Cardinality(neighbor_list)
  BY <1>3, <1>4, FS_RemoveElement, FS_CardinalityType DEF FinitePools, FreePacket
<1>6. memb' = Released(rest)
  BY <1>4 DEF FreePacket
<1> HIDE DEF rest
<1>7. /\ memb'["neighbor"] = IF rest = <<>> THEN memb["neighbor"] + 1 ELSE memb["neighbor"]
      /\ memb'["packet"] = memb["packet"] + 1
      /\ memb'["metadata"] = memb["metadata"] + 1
      /\ memb'["queuebuf"] = memb["queuebuf"] + 1
  BY <1>6 DEF Released, Pool
<1>8. others' = others
  BY DEF Transmit
<1>9. PoolsBalance'
  <2>sums. /\ memb["neighbor"] + Cardinality(neighbor_list) = NeighborQueues
        /\ memb["packet"] + Cardinality(QueuedPackets) = QueuebufNum
        /\ memb["metadata"] + Cardinality(QueuedPackets) = QueuebufNum
        /\ (memb["queuebuf"] + others) + Cardinality(QueuedPackets) = QueuebufNum
    BY DEF PoolsBalance
  <2>packets. /\ Cardinality(QueuedPackets) \in Nat
        /\ Cardinality(QueuedPackets') = Cardinality(QueuedPackets) - 1
    BY <1>2
  <2>1. memb'["neighbor"] + Cardinality(neighbor_list') = NeighborQueues
    <3>1. memb["neighbor"] \in Nat /\ Cardinality(neighbor_list) \in Nat
      BY <1>0, <1>5
    <3>2. CASE /\ memb'["neighbor"] = memb["neighbor"] + 1
               /\ Cardinality(neighbor_list') = Cardinality(neighbor_list) - 1
      BY ONLY <2>sums, <3>1, <3>2, BlockReturned
    <3>3. CASE /\ memb'["neighbor"] = memb["neighbor"]
               /\ Cardinality(neighbor_list') = Cardinality(neighbor_list)
      BY <2>sums, <3>3
    <3> QED BY <3>2, <3>3, <1>5, <1>7
  <2>2. memb'["packet"] + Cardinality(QueuedPackets') = QueuebufNum
    <3>1. memb["packet"] \in Nat /\ memb'["packet"] = memb["packet"] + 1
      BY <1>0, <1>7
    <3> QED BY ONLY <2>sums, <2>packets, <3>1, BlockReturned
  <2>3. memb'["metadata"] + Cardinality(QueuedPackets') = QueuebufNum
    <3>1. memb["metadata"] \in Nat /\ memb'["metadata"] = memb["metadata"] + 1
      BY <1>0, <1>7
    <3> QED BY ONLY <2>sums, <2>packets, <3>1, BlockReturned
  <2>4. memb'["queuebuf"] + others' + Cardinality(QueuedPackets') = QueuebufNum
    <3>1. /\ memb["queuebuf"] + others \in Nat
          /\ memb'["queuebuf"] + others' = (memb["queuebuf"] + others) + 1
      BY <1>0, <1>7, <1>8
    <3> QED BY ONLY <2>sums, <2>packets, <3>1, BlockReturned
  <2> QED BY <2>1, <2>2, <2>3, <2>4 DEF PoolsBalance
<1> QED BY <1>2, <1>5, <1>9 DEF FinitePools

\* One step keeps the pools balanced.
LEMMA PoolsStep ==
  ASSUME TypeOK, TimerIffQueued, QueuesMatchFate, FinitePools, PoolsBalance, [Next]_vars
  PROVE  FinitePools' /\ PoolsBalance'
<1>0. /\ QueuebufNum \in Nat /\ others \in Nat /\ \A m \in Pool : memb[m] \in Nat
      /\ memb \in [Pool -> Nat] /\ Cardinality(QueuedPackets) \in Nat
  BY CsmaAssumption, FS_CardinalityType DEF TypeOK, FinitePools
<1>1. ASSUME NEW p \in Packet, NEW a \in Addr, SendRefused(p, a)
      PROVE  FinitePools' /\ PoolsBalance'
  <2>1. QueuedPackets' = QueuedPackets
    BY <1>1, RefusedShape DEF Refused, Callback, QueuedPackets, TypeOK
  <2>2. memb' = memb /\ neighbor_list' = neighbor_list /\ others' = others
    BY <1>1, RefusedLeaves, RefusedShape DEF Refused
  <2> QED BY <2>1, <2>2 DEF FinitePools, PoolsBalance
<1>2. ASSUME NEW p \in Packet, NEW a \in Addr, Transmit(a, p), Retried(a, p)
      PROVE  FinitePools' /\ PoolsBalance'
  <2>1. QueuedPackets' = QueuedPackets
    BY <1>2 DEF Retried, Rexmit, QueuedPackets
  <2> QED BY <1>2, <2>1 DEF Transmit, Retried, Rexmit, FinitePools, PoolsBalance
<1>3. CASE OtherAlloc
  <2>1. QueuedPackets' = QueuedPackets /\ neighbor_list' = neighbor_list
    BY <1>3 DEF OtherAlloc, historyVars, queueVars, QueuedPackets
  <2>2. /\ memb'["queuebuf"] + others' = memb["queuebuf"] + others
        /\ \A m \in Pool \ {"queuebuf"} : memb'[m] = memb[m]
    BY <1>0, <1>3 DEF OtherAlloc, Pool
  <2>3. memb'["queuebuf"] \in Nat /\ others' \in Nat
    BY <1>0, <1>3 DEF OtherAlloc, Pool
  <2> QED BY <1>0, <2>1, <2>2, <2>3 DEF FinitePools, PoolsBalance, Pool
<1>4. CASE OtherFree
  <2>1. QueuedPackets' = QueuedPackets /\ neighbor_list' = neighbor_list
    BY <1>4 DEF OtherFree, historyVars, queueVars, QueuedPackets
  <2>2. /\ memb'["queuebuf"] + others' = memb["queuebuf"] + others
        /\ \A m \in Pool \ {"queuebuf"} : memb'[m] = memb[m]
    BY <1>0, <1>4 DEF OtherFree, Pool
  <2>3. memb'["queuebuf"] \in Nat /\ others' \in Nat
    BY <1>0, <1>4 DEF OtherFree, Pool
  <2> QED BY <1>0, <2>1, <2>2, <2>3 DEF FinitePools, PoolsBalance, Pool
<1>5. CASE \E r \in Radio : SwitchRadio(r)
  BY <1>5 DEF SwitchRadio, queueVars, historyVars, FinitePools, PoolsBalance, QueuedPackets
<1>6. CASE UNCHANGED vars
  BY <1>6 DEF vars, queueVars, historyVars, FinitePools, PoolsBalance, QueuedPackets
<1> QED BY <1>1, <1>2, <1>3, <1>4, <1>5, <1>6, NextCases, PoolsSendQueued, PoolsReported
        DEF Environment

\* In every behaviour the free blocks and the blocks in use of each pool add up to
\* its size: send_packet, its roll back and free_packet leak nothing.
THEOREM PoolsCorrect == Spec => []PoolsBalance
<1>1. Init => FinitePools /\ PoolsBalance
  <2> SUFFICES ASSUME Init PROVE FinitePools /\ PoolsBalance
    OBVIOUS
  <2>1. QueuedPackets = {} /\ neighbor_list = {} /\ others = 0
    BY DEF Init, QueuedPackets
  <2>2. /\ memb["neighbor"] = NeighborQueues /\ memb["packet"] = QueuebufNum
        /\ memb["metadata"] = QueuebufNum /\ memb["queuebuf"] = QueuebufNum
    BY DEF Init, PoolSize, Pool
  <2> QED BY <2>1, <2>2, FS_EmptySet, CsmaAssumption DEF FinitePools, PoolsBalance
<1>2. TypeOK /\ TimerIffQueued /\ QueuesMatchFate /\ FinitePools /\ PoolsBalance /\ [Next]_vars
        => FinitePools' /\ PoolsBalance'
  BY PoolsStep
<1> QED BY <1>1, <1>2, TypeCorrect, TimersCorrect, QueuesCorrect, PTL DEF Spec

-----------------------------------------------------------------------------
(* The number of attempts *)

\* What the counters of a destination say of its head packet: every full run of
\* MaxBackoff + 1 collisions, and every noack, is one transmission.
HeadAttempts ==
  \A a \in neighbor_list :
    attempts[Head(queued_packet_list[a])]
      <= transmissions[a] * (MaxBackoff + 1) + collisions[a]

\* Only the head of a queue has been handed to the RDC.
OthersUntried ==
  \A a \in Addr : \A i \in DOMAIN queued_packet_list[a] :
    i # 1 => attempts[queued_packet_list[a][i]] = 0

AttemptsInv == HeadAttempts /\ OthersUntried /\ AttemptsBounded

\* One step of the counters makes room for one more attempt.
LEMMA CountersGrow ==
  ASSUME NEW tx \in Nat, NEW coll \in 0..MaxBackoff, NEW tx1 \in Nat, NEW coll1 \in Nat,
         \/ tx1 = tx + 1 /\ coll1 = 0
         \/ tx1 = tx /\ coll1 = coll + 1
  PROVE  tx * (MaxBackoff + 1) + coll + 1 <= tx1 * (MaxBackoff + 1) + coll1
<1>1. MaxBackoff \in Nat /\ coll \in Nat /\ coll <= MaxBackoff
  BY CsmaAssumption
<1>2. (tx + 1) * (MaxBackoff + 1) = tx * (MaxBackoff + 1) + MaxBackoff + 1
  BY <1>1
<1>3. tx * (MaxBackoff + 1) \in Nat
  BY <1>1
<1> QED BY <1>1, <1>2, <1>3

\* With retries left there is room for one more attempt under the bound.
LEMMA RoomForOne ==
  ASSUME NEW tx \in Nat, NEW coll \in 0..MaxBackoff, NEW limit \in Nat, tx < limit
  PROVE  tx * (MaxBackoff + 1) + coll + 1 <= limit * (MaxBackoff + 1)
<1>1. MaxBackoff \in Nat /\ coll \in Nat /\ coll <= MaxBackoff
  BY CsmaAssumption
<1>2. PICK d \in Nat : limit = tx + 1 + d
  <2>1. limit - tx - 1 \in Nat /\ limit = tx + 1 + (limit - tx - 1)
    OBVIOUS
  <2> QED BY <2>1
<1>3. limit * (MaxBackoff + 1) = tx * (MaxBackoff + 1) + MaxBackoff + 1 + d * (MaxBackoff + 1)
  BY <1>1, <1>2
<1>4. tx * (MaxBackoff + 1) \in Nat /\ d * (MaxBackoff + 1) \in Nat
  BY <1>1
<1> QED BY <1>1, <1>3, <1>4

\* transmit_packet_list adds one attempt, to the head of one queue.
LEMMA AttemptsTransmit ==
  ASSUME TypeOK, TimerIffQueued, QueuesMatchFate, RetriesLeft, AttemptsInv,
         NEW a \in Addr, NEW p \in Packet, Transmit(a, p)
  PROVE  /\ transmissions[a] \in Nat /\ collisions[a] \in 0..MaxBackoff
         /\ attempts' = [attempts EXCEPT ![p] = @ + 1]
         /\ attempts[p] \in Nat
         /\ attempts[p] + 1 <= transmissions[a] * (MaxBackoff + 1) + collisions[a] + 1
         /\ AttemptsBounded'
<1>1. a \in neighbor_list /\ p = Head(queued_packet_list[a])
  BY DEF Transmit, TimerIffQueued
<1>2. /\ transmissions[a] \in Nat /\ collisions[a] \in 0..MaxBackoff
      /\ transmissions[a] < MaxTransmissions(p)
  BY <1>1, CsmaAssumption DEF TypeOK, RetriesLeft
<1>3. attempts[p] \in Nat /\ attempts' = [attempts EXCEPT ![p] = @ + 1]
  BY DEF Transmit, TypeOK
<1>4. attempts[p] <= transmissions[a] * (MaxBackoff + 1) + collisions[a]
  BY <1>1 DEF AttemptsInv, HeadAttempts
<1>5. transmissions[a] * (MaxBackoff + 1) \in Nat /\ collisions[a] \in Nat
  BY <1>2, CsmaAssumption
<1>6. attempts[p] + 1 <= transmissions[a] * (MaxBackoff + 1) + collisions[a] + 1
  BY <1>3, <1>4, <1>5
<1>7. MaxTransmissions(p) \in Nat
  BY MaxTransmissionsType
<1>8. transmissions[a] * (MaxBackoff + 1) + collisions[a] + 1
        <= MaxTransmissions(p) * (MaxBackoff + 1)
  BY <1>2, <1>7, RoomForOne
<1>9. MaxTransmissions(p) * (MaxBackoff + 1) \in Nat
  BY <1>7, CsmaAssumption
<1>10. attempts[p] + 1 <= MaxTransmissions(p) * (MaxBackoff + 1)
  BY <1>3, <1>5, <1>6, <1>8, <1>9
<1>11. AttemptsBounded'
  <2> SUFFICES ASSUME NEW o \in Packet
               PROVE  attempts'[o] <= MaxTransmissions(o) * (MaxBackoff + 1)
    BY DEF AttemptsBounded, MaxTransmissions
  <2>1. CASE o = p
    BY <1>3, <1>10, <2>1 DEF TypeOK
  <2>2. CASE o # p
    BY <1>3, <2>2 DEF TypeOK, AttemptsInv, AttemptsBounded
  <2> QED BY <2>1, <2>2
<1> QED BY <1>2, <1>3, <1>6, <1>11

\* Reporting the head keeps the count of attempts within its bound.
LEMMA AttemptsReported ==
  ASSUME TypeOK, TimerIffQueued, QueuesMatchFate, RetriesLeft, AttemptsInv,
         NEW a \in Addr, NEW p \in Packet, Transmit(a, p), Reported(a, p)
  PROVE  HeadAttempts' /\ OthersUntried'
<1> DEFINE Q == queued_packet_list
           n == Len(queued_packet_list[a])
<1>1. /\ n \in Nat \ {0} /\ DOMAIN Q[a] = 1..n /\ Q[a][1] = p /\ Q[a] \in Seq(Packet)
  BY HeadWaits
<1>2. PICK status \in RdcStatus, tx \in Nat : TxDone(a, p, status, tx)
  BY DEF Reported
<1>3. \A b \in Addr : DOMAIN Q[b] = 1..Len(Q[b]) /\ Len(Q[b]) \in Nat /\ Q[b] \in Seq(Packet)
  BY LenProperties DEF TypeOK
<1>4. \A o \in Packet \ {p} : attempts'[o] = attempts[o]
  BY AttemptsTransmit DEF TypeOK
<1>5. \A b \in Addr : \A i \in DOMAIN Q[b] : Q[b][i] \in Packet /\ (Q[b][i] = p => b = a /\ i = 1)
  <2>1. \A b \in Addr : \A i \in DOMAIN Q[b] : Q[b][i] \in Packet
    BY <1>3, ElementOfSeq
  <2>2. 1 \in DOMAIN Q[a]
    BY <1>1
  <2> QED BY <1>1, <2>1, <2>2 DEF QueuesMatchFate
<1>6. HeadAttempts'
  <2> SUFFICES ASSUME NEW b \in neighbor_list'
               PROVE  attempts'[Head(Q'[b])]
                        <= transmissions'[b] * (MaxBackoff + 1) + collisions'[b]
    BY DEF HeadAttempts
  <2>1. b \in neighbor_list /\ b \in Addr
    BY <1>2 DEF TxDone, FreePacket, TypeOK
  <2>2. CASE b # a
    <3>1. Q[b] # <<>> /\ Q'[b] = Q[b]
      BY <2>1, <2>2, ReportedQueue DEF TimerIffQueued
    <3>2. Head(Q[b]) = Q[b][1] /\ 1 \in DOMAIN Q[b]
      BY <1>3, <2>1, <3>1, EmptySeq
    <3>3. Head(Q[b]) \in Packet \ {p}
      BY <1>5, <2>1, <2>2, <3>2
    <3>4. transmissions'[b] = transmissions[b] /\ collisions'[b] = collisions[b]
      BY <1>2, <2>1, <2>2 DEF TxDone, FreePacket, TypeOK
    <3> QED BY <1>4, <2>1, <3>1, <3>3, <3>4 DEF AttemptsInv, HeadAttempts
  <2>3. CASE b = a
    <3>1. Tail(Q[a]) # <<>>
      BY <1>2, <2>1, <2>3 DEF TxDone, FreePacket
    <3>2. n > 1
      <4>1. Len(Tail(Q[a])) = n - 1 /\ Tail(Q[a]) \in Seq(Packet)
        BY <1>1, HeadTailProperties
      <4>2. n - 1 # 0
        BY <3>1, <4>1, EmptySeq
      <4>3. \A m \in Nat \ {0} : m - 1 # 0 => m > 1
        OBVIOUS
      <4> QED BY <1>1, <4>2, <4>3
    <3>3. transmissions'[a] = 0 /\ collisions'[a] = 0
      BY <1>2, <3>2 DEF TxDone, FreePacket, TypeOK, CSMA_MIN_BE
    <3>4. Q'[a] = Tail(Q[a]) /\ 1 \in DOMAIN Q'[a] /\ Q'[a][1] = Q[a][2]
      <4>1. 1 \in DOMAIN Q'[a]
        BY <1>1, <3>2, ReportedQueue
      <4> QED BY <4>1, ReportedQueue
    <3>5. Head(Q'[a]) = Q[a][2]
      BY <3>4
    <3>6. 2 \in DOMAIN Q[a]
      BY <1>1, <3>2
    <3>7. attempts[Q[a][2]] = 0 /\ Q[a][2] \in Packet \ {p}
      BY <1>5, <3>6 DEF AttemptsInv, OthersUntried
    <3>8. 0 * (MaxBackoff + 1) + 0 = 0
      BY CsmaAssumption
    <3> QED BY <1>4, <2>3, <3>3, <3>5, <3>7, <3>8
  <2> QED BY <2>2, <2>3
<1>7. OthersUntried'
  <2> SUFFICES ASSUME NEW b \in Addr, NEW i \in DOMAIN Q'[b], i # 1
               PROVE  attempts'[Q'[b][i]] = 0
    BY DEF OthersUntried
  <2>1. CASE b # a
    <3>1. Q'[b] = Q[b]
      BY <2>1, ReportedQueue
    <3> QED BY <1>4, <1>5, <2>1, <3>1 DEF AttemptsInv, OthersUntried
  <2>2. CASE b = a
    <3>1. i \in 1..(n - 1) /\ Q'[a][i] = Q[a][i + 1]
      BY <2>2, ReportedQueue
    <3>2. i + 1 \in DOMAIN Q[a] /\ i + 1 # 1
      BY <1>1, <3>1
    <3> QED BY <1>4, <1>5, <2>2, <3>1, <3>2 DEF AttemptsInv, OthersUntried
  <2> QED BY <2>1, <2>2
<1> QED BY <1>6, <1>7

\* Backing off keeps the head's attempts equal to what the counters say.
LEMMA AttemptsRetried ==
  ASSUME TypeOK, TimerIffQueued, QueuesMatchFate, RetriesLeft, AttemptsInv,
         NEW a \in Addr, NEW p \in Packet, Transmit(a, p), Retried(a, p)
  PROVE  HeadAttempts' /\ OthersUntried'
<1> DEFINE Q == queued_packet_list
<1>1. PICK tx \in Nat, coll \in Nat :
        coll <= MaxBackoff /\ Counted(a, tx, coll) /\ Rexmit(a, tx, coll)
  BY DEF Retried
<1>2. Q' = Q /\ neighbor_list' = neighbor_list /\ p = Head(Q[a]) /\ a \in neighbor_list
  BY <1>1 DEF Rexmit, Transmit, TimerIffQueued
<1>3. \A b \in Addr : DOMAIN Q[b] = 1..Len(Q[b]) /\ Len(Q[b]) \in Nat /\ Q[b] \in Seq(Packet)
  BY LenProperties DEF TypeOK
<1>4. \A o \in Packet \ {p} : attempts'[o] = attempts[o]
  BY AttemptsTransmit DEF TypeOK
<1>5. \A b \in Addr : \A i \in DOMAIN Q[b] : Q[b][i] \in Packet /\ (Q[b][i] = p => b = a /\ i = 1)
  <2>1. \A b \in Addr : \A i \in DOMAIN Q[b] : Q[b][i] \in Packet
    BY <1>3, ElementOfSeq
  <2>2. 1 \in DOMAIN Q[a] /\ Q[a][1] = p
    BY HeadWaits
  <2> QED BY <2>1, <2>2 DEF QueuesMatchFate
<1>6. HeadAttempts'
  <2> SUFFICES ASSUME NEW b \in neighbor_list
               PROVE  attempts'[Head(Q[b])]
                        <= transmissions'[b] * (MaxBackoff + 1) + collisions'[b]
    BY <1>2 DEF HeadAttempts
  <2>1. b \in Addr
    BY DEF TypeOK
  <2>2. CASE b # a
    <3>1. Q[b] # <<>>
      BY <2>1 DEF TimerIffQueued
    <3>2. Head(Q[b]) = Q[b][1] /\ 1 \in DOMAIN Q[b]
      BY <1>3, <2>1, <3>1, EmptySeq
    <3>3. Head(Q[b]) \in Packet \ {p}
      BY <1>5, <2>1, <2>2, <3>2
    <3>4. transmissions'[b] = transmissions[b] /\ collisions'[b] = collisions[b]
      BY <1>1, <2>1, <2>2 DEF Rexmit, TypeOK
    <3> QED BY <1>4, <3>3, <3>4 DEF AttemptsInv, HeadAttempts
  <2>3. CASE b = a
    <3>1. transmissions'[a] = tx /\ collisions'[a] = coll
      BY <1>1 DEF Rexmit, TypeOK
    <3>2. /\ transmissions[a] \in Nat /\ collisions[a] \in 0..MaxBackoff
          /\ attempts'[p] = attempts[p] + 1 /\ attempts[p] \in Nat
          /\ attempts[p] + 1 <= transmissions[a] * (MaxBackoff + 1) + collisions[a] + 1
      BY AttemptsTransmit DEF TypeOK
    <3>3. transmissions[a] * (MaxBackoff + 1) + collisions[a] + 1 <= tx * (MaxBackoff + 1) + coll
      BY <1>1, <3>2, CountersGrow DEF Counted
    <3>4. /\ transmissions[a] * (MaxBackoff + 1) \in Nat /\ collisions[a] \in Nat
          /\ tx * (MaxBackoff + 1) \in Nat
      BY <3>2, CsmaAssumption
    <3>5. attempts[p] + 1 <= tx * (MaxBackoff + 1) + coll
      BY <3>2, <3>3, <3>4
    <3> QED BY <1>2, <2>3, <3>1, <3>2, <3>5
  <2> QED BY <2>2, <2>3
<1>7. OthersUntried'
  BY <1>2, <1>4, <1>5 DEF AttemptsInv, OthersUntried
<1> QED BY <1>6, <1>7

\* A packet that is queued has not been attempted.
LEMMA AttemptsSendQueued ==
  ASSUME TypeOK, TimerIffQueued, QueuesMatchFate, NewUntried, AttemptsInv,
         NEW p \in Packet, NEW a \in Addr, SendQueued(p, a)
  PROVE  HeadAttempts' /\ OthersUntried'
<1> DEFINE Q == queued_packet_list
           n == Len(queued_packet_list[a])
<1>1. \A b \in Addr : DOMAIN Q[b] = 1..Len(Q[b]) /\ Len(Q[b]) \in Nat /\ Q[b] \in Seq(Packet)
  BY LenProperties DEF TypeOK
<1>2. /\ Append(Q[a], p) \in Seq(Packet)
      /\ Len(Append(Q[a], p)) = n + 1
      /\ \A i \in 1..n : Append(Q[a], p)[i] = Q[a][i]
      /\ Append(Q[a], p)[n + 1] = p
      /\ Head(Append(Q[a], p)) = IF Q[a] = <<>> THEN p ELSE Head(Q[a])
  BY <1>1, AppendProperties, HeadTailAppend
<1>3. DOMAIN Append(Q[a], p) = 1..(n + 1)
  BY <1>2, LenProperties
<1>4. /\ Q'[a] = Append(Q[a], p) /\ \A b \in Addr \ {a} : Q'[b] = Q[b]
      /\ attempts' = attempts
      /\ attempts[p] = 0
  BY DEF SendQueued, NewUntried, TypeOK
<1>5. HeadAttempts'
  <2> SUFFICES ASSUME NEW b \in neighbor_list'
               PROVE  attempts[Head(Q'[b])]
                        <= transmissions'[b] * (MaxBackoff + 1) + collisions'[b]
    BY <1>4 DEF HeadAttempts
  <2>1. CASE b # a
    <3>1. b \in neighbor_list /\ b \in Addr
      BY <2>1 DEF SendQueued, TypeOK
    <3>2. transmissions'[b] = transmissions[b] /\ collisions'[b] = collisions[b]
      BY <2>1, <3>1 DEF SendQueued, InitNeighbor, TypeOK
    <3> QED BY <1>4, <2>1, <3>1, <3>2 DEF AttemptsInv, HeadAttempts
  <2>2. CASE b = a /\ a \in neighbor_list
    <3>1. Q[a] # <<>>
      BY <2>2 DEF TimerIffQueued
    <3>2. Head(Q'[a]) = Head(Q[a])
      BY <1>2, <1>4, <3>1
    <3>3. transmissions' = transmissions /\ collisions' = collisions
      BY <2>2 DEF SendQueued, InitNeighbor
    <3> QED BY <2>2, <3>2, <3>3 DEF AttemptsInv, HeadAttempts
  <2>3. CASE b = a /\ a \notin neighbor_list
    <3>1. Q[a] = <<>>
      BY <2>3 DEF TimerIffQueued
    <3>2. Head(Q'[a]) = p
      BY <1>2, <1>4, <3>1
    <3>3. transmissions'[a] = 0 /\ collisions'[a] = 0
      BY <2>3 DEF SendQueued, InitNeighbor, TypeOK, CSMA_MIN_BE
    <3>4. 0 * (MaxBackoff + 1) + 0 = 0
      BY CsmaAssumption
    <3> QED BY <1>4, <2>3, <3>2, <3>3, <3>4
  <2> QED BY <2>1, <2>2, <2>3
<1>6. OthersUntried'
  <2> SUFFICES ASSUME NEW b \in Addr, NEW i \in DOMAIN Q'[b], i # 1
               PROVE  attempts[Q'[b][i]] = 0
    BY <1>4 DEF OthersUntried
  <2>1. CASE b # a
    BY <1>4, <2>1 DEF AttemptsInv, OthersUntried
  <2>2. CASE b = a
    <3>1. i \in 1..n \/ i = n + 1
      BY <1>1, <1>3, <1>4, <2>2
    <3>2. CASE i = n + 1
      BY <1>2, <1>4, <2>2, <3>2
    <3>3. CASE i \in 1..n
      <4>1. Q'[a][i] = Q[a][i] /\ i \in DOMAIN Q[a]
        BY <1>1, <1>2, <1>4, <3>3
      <4> QED BY <2>2, <4>1 DEF AttemptsInv, OthersUntried
    <3> QED BY <3>1, <3>2, <3>3
  <2> QED BY <2>1, <2>2
<1> QED BY <1>5, <1>6

\* One step keeps the attempts of every head equal to what its counters say.
LEMMA AttemptsStep ==
  ASSUME TypeOK, TimerIffQueued, QueuesMatchFate, RetriesLeft, NewUntried, AttemptsInv,
         [Next]_vars
  PROVE  AttemptsInv'
<1>1. ASSUME NEW p \in Packet, NEW a \in Addr, SendQueued(p, a)
      PROVE  AttemptsInv'
  <2>1. AttemptsBounded'
    BY <1>1 DEF SendQueued, AttemptsInv, AttemptsBounded, MaxTransmissions
  <2> QED BY <1>1, <2>1, AttemptsSendQueued DEF AttemptsInv
<1>2. ASSUME NEW p \in Packet, NEW a \in Addr, SendRefused(p, a)
      PROVE  AttemptsInv'
  <2>1. UNCHANGED <<queued_packet_list, attempts>>
    BY <1>2, RefusedShape DEF Refused
  <2> QED BY <1>2, <2>1, RefusedLeaves DEF AttemptsInv, HeadAttempts, OthersUntried,
             AttemptsBounded, MaxTransmissions
<1>3. ASSUME NEW p \in Packet, NEW a \in Addr, Transmit(a, p), Reported(a, p)
      PROVE  AttemptsInv'
  BY <1>3, AttemptsTransmit, AttemptsReported DEF AttemptsInv
<1>4. ASSUME NEW p \in Packet, NEW a \in Addr, Transmit(a, p), Retried(a, p)
      PROVE  AttemptsInv'
  BY <1>4, AttemptsTransmit, AttemptsRetried DEF AttemptsInv
<1>5. CASE Environment
  BY <1>5 DEF Environment, OtherAlloc, OtherFree, SwitchRadio, queueVars, historyVars,
              AttemptsInv, HeadAttempts, OthersUntried, AttemptsBounded, MaxTransmissions
<1>6. CASE UNCHANGED vars
  BY <1>6 DEF vars, queueVars, historyVars,
              AttemptsInv, HeadAttempts, OthersUntried, AttemptsBounded, MaxTransmissions
<1> QED BY <1>1, <1>2, <1>3, <1>4, <1>5, <1>6, NextCases

\* In every behaviour no packet is handed to the RDC more than max_transmissions
\* times (CSMA_MAX_BACKOFF + 1).
THEOREM AttemptsCorrect == Spec => []AttemptsBounded
<1>1. Init => AttemptsInv
  <2> SUFFICES ASSUME Init PROVE AttemptsInv
    OBVIOUS
  <2>1. HeadAttempts /\ OthersUntried
    BY DEF Init, HeadAttempts, OthersUntried
  <2>2. ASSUME NEW p \in Packet
        PROVE  attempts[p] <= MaxTransmissions(p) * (MaxBackoff + 1)
    <3>1. MaxTransmissions(p) * (MaxBackoff + 1) \in Nat
      BY MaxTransmissionsType, CsmaAssumption
    <3> QED BY <3>1 DEF Init
  <2> QED BY <2>1, <2>2 DEF AttemptsInv, AttemptsBounded
<1>2. TypeOK /\ TimerIffQueued /\ QueuesMatchFate /\ RetriesLeft /\ NewUntried /\ AttemptsInv
        /\ [Next]_vars => AttemptsInv'
  BY AttemptsStep
<1>3. AttemptsInv => AttemptsBounded
  BY DEF AttemptsInv
<1> QED BY <1>1, <1>2, <1>3, TypeCorrect, TimersCorrect, QueuesCorrect, RetriesCorrect,
           NewUntriedCorrect, PTL DEF Spec

-----------------------------------------------------------------------------
(* The count the sent callback is given *)

\* What CountsOwnAttempts needs to be inductive: n->transmissions of a destination
\* counts transmissions of its present head only, so it must be reset whenever
\* another packet becomes the head.
CountsOfHead ==
  \A a \in neighbor_list : transmissions[a] <= attempts[Head(queued_packet_list[a])]

CountsInv == CountsOfHead /\ CountsOwnAttempts

\* Reporting a packet gives its own count, and the next head starts from 0.
LEMMA CountsReported ==
  ASSUME TypeOK, TimerIffQueued, QueuesMatchFate, CountsInv,
         NEW a \in Addr, NEW p \in Packet, Transmit(a, p), Reported(a, p)
  PROVE  CountsInv'
<1> DEFINE Q == queued_packet_list
<1>1. PICK status \in RdcStatus, tx \in Nat :
        tx <= transmissions[a] + 1 /\ TxDone(a, p, status, tx)
  BY DEF Reported
<1>2. a \in neighbor_list /\ p = Head(Q[a]) /\ Q[a] # <<>> /\ Q[a] \in Seq(Packet)
  BY DEF Transmit, TimerIffQueued, TypeOK
<1>3. /\ attempts \in [Packet -> Nat] /\ attempts' = [attempts EXCEPT ![p] = @ + 1]
      /\ transmissions \in [Addr -> Nat] /\ num_tx \in [Packet -> Nat]
      /\ attempts' \in [Packet -> Nat]
  BY TypeTransmit DEF Transmit, TypeOK
<1>4. transmissions[a] <= attempts[p]
  BY <1>2 DEF CountsInv, CountsOfHead
<1> DEFINE left == IF Len(Q[a]) > 1 THEN 0 ELSE tx
<1>5. left \in Nat /\ left <= attempts'[p]
  BY <1>1, <1>3, <1>4
<1>6. /\ num_tx' = [num_tx EXCEPT ![p] = left]
      /\ transmissions' = [transmissions EXCEPT ![a] = left]
      /\ fate' = [fate EXCEPT ![p] = status]
  BY <1>1 DEF TxDone, Callback
<1> HIDE DEF left
<1>7. CountsOwnAttempts'
  <2> SUFFICES ASSUME NEW o \in Packet, attempts'[o] > 0, fate'[o] \in RdcStatus
               PROVE  num_tx'[o] <= attempts'[o]
    BY DEF CountsOwnAttempts
  <2>1. CASE o = p
    BY <1>3, <1>5, <1>6, <2>1
  <2>2. CASE o # p
    BY <1>3, <1>6, <2>2 DEF CountsInv, CountsOwnAttempts, TypeOK
  <2> QED BY <2>1, <2>2
<1>8. CountsOfHead'
  <2> SUFFICES ASSUME NEW b \in neighbor_list'
               PROVE  transmissions'[b] <= attempts'[Head(Q'[b])]
    BY DEF CountsOfHead
  <2>1. b \in neighbor_list /\ b \in Addr
    BY <1>1 DEF TxDone, FreePacket, TypeOK
  <2>2. CASE b # a
    <3>1. Q'[b] = Q[b] /\ Q[b] # <<>> /\ Q[b] \in Seq(Packet)
      BY <2>1, <2>2, ReportedQueue DEF TimerIffQueued, TypeOK
    <3>2. Head(Q[b]) \in Packet
      BY <3>1
    <3>3. transmissions[b] <= attempts[Head(Q[b])]
      BY <2>1 DEF CountsInv, CountsOfHead
    <3>4. transmissions'[b] = transmissions[b] /\ attempts'[Head(Q[b])] >= attempts[Head(Q[b])]
      BY <1>3, <1>6, <2>1, <2>2, <3>2
    <3>5. transmissions[b] \in Nat /\ attempts[Head(Q[b])] \in Nat /\ attempts'[Head(Q[b])] \in Nat
      BY <1>3, <2>1, <3>2
    <3> QED BY <3>1, <3>3, <3>4, <3>5
  <2>3. CASE b = a
    <3>1. Tail(Q[a]) # <<>> /\ Q'[a] = Tail(Q[a])
      BY <1>1, <2>1, <2>3, ReportedQueue DEF TxDone, FreePacket
    <3>2. Len(Q[a]) > 1 /\ Head(Tail(Q[a])) \in Packet
      BY <1>2, <3>1
    <3>3. transmissions'[a] = 0
      BY <1>3, <1>6, <3>2 DEF left
    <3>4. attempts'[Head(Q'[a])] \in Nat
      BY <1>3, <3>1, <3>2
    <3> QED BY <2>3, <3>3, <3>4
  <2> QED BY <2>2, <2>3
<1> QED BY <1>7, <1>8 DEF CountsInv

\* Backing off counts at most the attempt just made.
LEMMA CountsRetried ==
  ASSUME TypeOK, TimerIffQueued, QueuesMatchFate, CountsInv,
         NEW a \in Addr, NEW p \in Packet, Transmit(a, p), Retried(a, p)
  PROVE  CountsInv'
<1> DEFINE Q == queued_packet_list
<1>1. PICK tx \in Nat, coll \in Nat : Counted(a, tx, coll) /\ Rexmit(a, tx, coll)
  BY DEF Retried
<1>2. /\ a \in neighbor_list /\ p = Head(Q[a]) /\ Q' = Q /\ neighbor_list' = neighbor_list
      /\ fate' = fate /\ num_tx' = num_tx /\ fate[p] = "queued"
  BY <1>1, HeadWaits DEF Transmit, Rexmit, TimerIffQueued
<1>3. /\ attempts \in [Packet -> Nat] /\ attempts' = [attempts EXCEPT ![p] = @ + 1]
      /\ transmissions \in [Addr -> Nat]
  BY DEF Transmit, TypeOK
<1>4. transmissions[a] <= attempts[p]
  BY <1>2 DEF CountsInv, CountsOfHead
<1>5. transmissions' = [transmissions EXCEPT ![a] = tx] /\ tx <= transmissions[a] + 1
  BY <1>1, <1>3 DEF Rexmit, Counted
<1>6. CountsOwnAttempts'
  <2> SUFFICES ASSUME NEW o \in Packet, attempts'[o] > 0, fate[o] \in RdcStatus
               PROVE  num_tx[o] <= attempts'[o]
    BY <1>2 DEF CountsOwnAttempts
  <2>1. o # p
    BY <1>2 DEF RdcStatus
  <2> QED BY <1>3, <2>1 DEF CountsInv, CountsOwnAttempts
<1>7. CountsOfHead'
  <2> SUFFICES ASSUME NEW b \in neighbor_list
               PROVE  transmissions'[b] <= attempts'[Head(Q[b])]
    BY <1>2 DEF CountsOfHead
  <2>1. b \in Addr
    BY DEF TypeOK
  <2>2. CASE b # a
    <3>1. Q[b] # <<>> /\ Q[b] \in Seq(Packet)
      BY <2>1 DEF TimerIffQueued, TypeOK
    <3>2. Head(Q[b]) \in Packet
      BY <3>1
    <3>3. transmissions[b] <= attempts[Head(Q[b])]
      BY DEF CountsInv, CountsOfHead
    <3>4. transmissions'[b] = transmissions[b] /\ attempts'[Head(Q[b])] >= attempts[Head(Q[b])]
      BY <1>3, <1>5, <2>1, <2>2, <3>2
    <3>5. /\ transmissions[b] \in Nat /\ attempts[Head(Q[b])] \in Nat
          /\ attempts'[Head(Q[b])] \in Nat
      BY <1>3, <2>1, <3>2
    <3> QED BY <3>3, <3>4, <3>5
  <2>3. CASE b = a
    BY <1>2, <1>3, <1>4, <1>5, <2>3
  <2> QED BY <2>2, <2>3
<1> QED BY <1>6, <1>7 DEF CountsInv

\* A packet that is queued is counted from 0, or waits behind a head that stays.
LEMMA CountsSendQueued ==
  ASSUME TypeOK, TimerIffQueued, CountsInv, NEW p \in Packet, NEW a \in Addr, SendQueued(p, a)
  PROVE  CountsInv'
<1> DEFINE Q == queued_packet_list
<1>1. /\ attempts' = attempts /\ num_tx' = num_tx /\ attempts \in [Packet -> Nat]
      /\ fate' = [fate EXCEPT ![p] = "queued"]
      /\ Q' = [Q EXCEPT ![a] = Append(Q[a], p)]
      /\ neighbor_list' = neighbor_list \cup {a}
  BY DEF SendQueued, TypeOK
<1>2. CountsOwnAttempts'
  BY <1>1 DEF CountsInv, CountsOwnAttempts, TypeOK, RdcStatus
<1>3. CountsOfHead'
  <2> SUFFICES ASSUME NEW b \in neighbor_list'
               PROVE  transmissions'[b] <= attempts[Head(Q'[b])]
    BY <1>1 DEF CountsOfHead
  <2>1. CASE b # a
    <3>1. b \in neighbor_list /\ b \in Addr /\ Q'[b] = Q[b]
      BY <1>1, <2>1 DEF TypeOK
    <3>2. transmissions'[b] = transmissions[b]
      BY <2>1, <3>1 DEF SendQueued, InitNeighbor, TypeOK
    <3> QED BY <3>1, <3>2 DEF CountsInv, CountsOfHead
  <2>2. CASE b = a /\ a \in neighbor_list
    <3>1. Q[a] # <<>> /\ Q[a] \in Seq(Packet)
      BY <2>2 DEF TimerIffQueued, TypeOK
    <3>2. Q'[a] = Append(Q[a], p)
      BY <1>1 DEF TypeOK
    <3>3. Head(Q'[a]) = Head(Q[a])
      BY <3>1, <3>2, HeadTailAppend
    <3>4. transmissions' = transmissions
      BY <2>2 DEF SendQueued, InitNeighbor
    <3> QED BY <2>2, <3>3, <3>4 DEF CountsInv, CountsOfHead
  <2>3. CASE b = a /\ a \notin neighbor_list
    <3>1. Q[a] = <<>> /\ Q'[a] = Append(Q[a], p)
      BY <1>1, <2>3 DEF TimerIffQueued, TypeOK
    <3>2. Head(Q'[a]) = p
      BY <3>1
    <3>3. transmissions'[a] = 0
      BY <2>3 DEF SendQueued, InitNeighbor, TypeOK
    <3> QED BY <1>1, <2>3, <3>2, <3>3
  <2> QED BY <2>1, <2>2, <2>3
<1> QED BY <1>2, <1>3 DEF CountsInv

\* One step keeps every count within the attempts made.
LEMMA CountsStep ==
  ASSUME TypeOK, TimerIffQueued, QueuesMatchFate, NewUntried, CountsInv, [Next]_vars
  PROVE  CountsInv'
<1>1. ASSUME NEW p \in Packet, NEW a \in Addr, SendRefused(p, a)
      PROVE  CountsInv'
  <2>1. /\ UNCHANGED <<queued_packet_list, attempts>> /\ fate[p] = "new"
        /\ fate' = [fate EXCEPT ![p] = "MAC_TX_ERR"] /\ num_tx' = [num_tx EXCEPT ![p] = 1]
    BY <1>1, RefusedShape DEF Refused, Callback
  <2>2. attempts[p] = 0
    BY <2>1 DEF NewUntried
  <2>3. CountsOwnAttempts'
    BY <2>1, <2>2 DEF CountsInv, CountsOwnAttempts, TypeOK
  <2>4. CountsOfHead'
    BY <1>1, <2>1, RefusedLeaves DEF CountsInv, CountsOfHead
  <2> QED BY <2>3, <2>4 DEF CountsInv
<1>2. CASE Environment
  BY <1>2 DEF Environment, OtherAlloc, OtherFree, SwitchRadio, queueVars, historyVars,
              CountsInv, CountsOfHead, CountsOwnAttempts
<1>3. CASE UNCHANGED vars
  BY <1>3 DEF vars, queueVars, historyVars, CountsInv, CountsOfHead, CountsOwnAttempts
<1> QED BY <1>1, <1>2, <1>3, NextCases, CountsSendQueued, CountsReported, CountsRetried

\* In every behaviour a packet that was transmitted is reported with no more
\* transmissions than it was given attempts: none of an earlier packet's are
\* charged to it.
THEOREM CountsCorrect == Spec => []CountsOwnAttempts
<1>1. Init => CountsInv
  BY DEF Init, CountsInv, CountsOfHead, CountsOwnAttempts
<1>2. TypeOK /\ TimerIffQueued /\ QueuesMatchFate /\ NewUntried /\ CountsInv /\ [Next]_vars
        => CountsInv'
  BY CountsStep
<1>3. CountsInv => CountsOwnAttempts
  BY DEF CountsInv
<1> QED BY <1>1, <1>2, <1>3, TypeCorrect, TimersCorrect, QueuesCorrect, NewUntriedCorrect,
           PTL DEF Spec

-----------------------------------------------------------------------------
(* CSMA implements the MAC service *)

\* One step of CSMA is a step of the MAC service or leaves its variables unchanged.
LEMMA MacStep ==
  ASSUME TypeOK, [Next]_vars
  PROVE  [MAC!Next]_(MAC!vars)
<1>1. ASSUME NEW p \in Packet, NEW a \in Addr, SendQueued(p, a)
      PROVE  MAC!Next
  BY <1>1 DEF SendQueued, MAC!Next, MAC!Accept
<1>2. ASSUME NEW p \in Packet, NEW a \in Addr, SendRefused(p, a)
      PROVE  MAC!Next
  BY <1>2, RefusedShape DEF Refused, Callback, MAC!Next, MAC!Refuse
<1>3. ASSUME NEW p \in Packet, NEW a \in Addr, Transmit(a, p), Reported(a, p)
      PROVE  MAC!Next
  BY <1>3 DEF Transmit, Reported, TxDone, FreePacket, Callback, MAC!Next, MAC!Report
<1>4. ASSUME NEW p \in Packet, NEW a \in Addr, Transmit(a, p), Retried(a, p)
      PROVE  UNCHANGED MAC!vars
  BY <1>4 DEF Retried, Rexmit, MAC!vars
<1>5. CASE Environment
  BY <1>5 DEF Environment, OtherAlloc, OtherFree, SwitchRadio, queueVars, historyVars, MAC!vars
<1>6. CASE UNCHANGED vars
  BY <1>6 DEF vars, queueVars, historyVars, MAC!vars
<1> QED BY <1>1, <1>2, <1>3, <1>4, <1>5, <1>6, NextCases

\* Every behaviour of CSMA is, with its pools, timers, retries and radios hidden,
\* a behaviour of the MAC service: FIFO per destination, one report per packet.
THEOREM CsmaImplementsMac == Spec => ImplementsMac
<1>1. Init => MAC!Init
  BY DEF Init, MAC!Init
<1>2. TypeOK /\ [Next]_vars => [MAC!Next]_(MAC!vars)
  BY MacStep
<1> QED BY <1>1, <1>2, TypeCorrect, PTL DEF Spec, ImplementsMac, MAC!Spec

\* A report concerns the oldest packet of its destination.
LEMMA MacReports ==
  ASSUME TypeOK, QueuesMatchFate, [Next]_vars, NEW p \in Packet,
         fate'[p] # fate[p] \/ callbacks'[p] # callbacks[p]
  PROVE  \/ fate[p] = "new"
         \/ \E a \in Addr : queued_packet_list[a] # <<>> /\ p = Head(queued_packet_list[a])
<1>1. [MAC!Next]_(MAC!vars)
  BY MacStep
<1>2. fate \in [Packet -> Fate]
        /\ callbacks \in [Packet -> Nat]
  BY DEF TypeOK
<1>3. ASSUME NEW a \in Addr, MAC!Report(a)
      PROVE  queued_packet_list[a] # <<>> /\ p = Head(queued_packet_list[a])
  BY <1>2, <1>3 DEF MAC!Report
<1>4. ASSUME NEW k \in Packet, MAC!Refuse(k)
      PROVE  fate[p] = "new"
  BY <1>2, <1>4 DEF MAC!Refuse
<1>5. ASSUME NEW k \in Packet, NEW a \in Addr, MAC!Accept(k, a)
      PROVE  fate[p] = "new"
  BY <1>2, <1>5 DEF MAC!Accept
<1>6. ~ UNCHANGED MAC!vars
  BY DEF MAC!vars
<1> QED
  BY <1>1, <1>3, <1>4, <1>5, <1>6 DEF MAC!Next

\* A packet is never reported before one that was accepted earlier for the
\* same destination, whatever retries, roll backs and full pools come between.
NoOvertaking ==
  \A a \in Addr : \A i, j \in DOMAIN queued_packet_list[a] :
    i < j => callbacks'[queued_packet_list[a][j]] = callbacks[queued_packet_list[a][j]]

THEOREM ReportsInOrder == Spec => [][NoOvertaking]_vars
<1>1. TypeOK /\ QueuesMatchFate /\ [Next]_vars => NoOvertaking
  <2> SUFFICES ASSUME TypeOK, QueuesMatchFate, [Next]_vars, NEW a \in Addr,
                      NEW i \in DOMAIN queued_packet_list[a],
                      NEW j \in DOMAIN queued_packet_list[a], i < j,
                      callbacks'[queued_packet_list[a][j]] # callbacks[queued_packet_list[a][j]]
               PROVE  FALSE
    BY DEF NoOvertaking
  <2> DEFINE p == queued_packet_list[a][j]
  <2>1. queued_packet_list \in [Addr -> Seq(Packet)]
    BY DEF TypeOK
  <2>2. p \in Packet /\ i \in Nat /\ j \in Nat /\ i >= 1
    BY <2>1
  <2>3. fate[p] = "queued"
    BY DEF QueuesMatchFate
  <2>4. PICK b \in Addr : queued_packet_list[b] # <<>> /\ p = Head(queued_packet_list[b])
    BY <2>2, <2>3, MacReports
  <2>5. 1 \in DOMAIN queued_packet_list[b] /\ queued_packet_list[b][1] = p
    BY <2>1, <2>4
  <2>6. j = 1
    BY <2>5 DEF QueuesMatchFate
  <2> QED
    BY <2>2, <2>6
<1> QED BY <1>1, TypeCorrect, QueuesCorrect, PTL DEF Spec

\* What a packet's sent callback has reported is final: no later step of CSMA
\* changes the outcome or calls back again.
OutcomeFinal ==
  \A p \in Packet :
    fate[p] \notin {"new", "queued"} => fate'[p] = fate[p] /\ callbacks'[p] = callbacks[p]

THEOREM OutcomesAreFinal == Spec => [][OutcomeFinal]_vars
<1>1. TypeOK /\ QueuesMatchFate /\ [Next]_vars => OutcomeFinal
  <2> SUFFICES ASSUME TypeOK, QueuesMatchFate, [Next]_vars, NEW p \in Packet,
                      fate[p] \notin {"new", "queued"},
                      fate'[p] # fate[p] \/ callbacks'[p] # callbacks[p]
               PROVE  FALSE
    BY DEF OutcomeFinal
  <2>1. PICK a \in Addr : queued_packet_list[a] # <<>> /\ p = Head(queued_packet_list[a])
    BY MacReports
  <2>2. 1 \in DOMAIN queued_packet_list[a] /\ queued_packet_list[a][1] = p
    BY <2>1 DEF TypeOK
  <2> QED
    BY <2>2 DEF QueuesMatchFate
<1> QED BY <1>1, TypeCorrect, QueuesCorrect, PTL DEF Spec
============================================================================
