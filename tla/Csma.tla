-------------------------------- MODULE Csma --------------------------------
(***************************************************************************)
(* The CSMA layer of SEDA-Net (core/net/mac/csma.c) with DUAL_RADIO: one   *)
(* FIFO of packets per destination, a transmit timer per destination, four *)
(* fixed-size pools, and the retry rules of IEEE 802.15.4.                 *)
(*                                                                         *)
(* csma.c runs in one cooperative thread: send_packet is called by the     *)
(* upper layer, transmit_packet_list by the ctimer of a destination, and   *)
(* transmit_packet_list calls the RDC synchronously, which calls           *)
(* packet_sent before it returns.  Each of the two is one action.  The     *)
(* upper layer may call send_packet from inside the sent callback; the     *)
(* callback is the last statement of tx_done and of send_packet, so that   *)
(* is the same as calling it right after.                                  *)
(*                                                                         *)
(* The 16-bit MAC sequence number by which packet_sent finds its packet is *)
(* abstracted to the packet's identity: fewer than 65535 packets are sent  *)
(* while one waits, and the RDC restores it before it calls back.          *)
(***************************************************************************)
EXTENDS Integers, Sequences, FiniteSets

CONSTANTS
  Addr,            \* the link-layer addresses packets are sent to
  Packet,          \* the packets of one behaviour, each passed to send_packet once
  Receivers,       \* the addresses each packet may be for, PACKETBUF_ADDR_RECEIVER
  Requested,       \* PACKETBUF_ATTR_MAX_MAC_TRANSMISSIONS of each packet
  NeighborQueues,  \* CSMA_MAX_NEIGHBOR_QUEUES, the size of neighbor_memb
  QueuebufNum,     \* QUEUEBUF_NUM, the size of the three other pools
  FrameRetries,    \* CSMA_MAX_MAX_FRAME_RETRIES
  MaxBackoff       \* CSMA_MAX_BACKOFF

\* max_transmissions, transmissions and collisions are uint8_t: these bounds are
\* what keeps the three of them from wrapping (see RetriesLeft).
ASSUME CsmaAssumption ==
  /\ Receivers \in [Packet -> SUBSET Addr]
  /\ Requested \in [Packet -> 0..255]
  /\ NeighborQueues \in Nat \ {0}
  /\ QueuebufNum \in Nat \ {0}
  /\ FrameRetries \in 0..254
  /\ MaxBackoff \in 0..254

Radio == {"LONG_RADIO", "SHORT_RADIO"}

\* CSMA_MIN_BE of csma.c, also the value the collision counter is reset to.
CSMA_MIN_BE == 0

\* The statuses dualmac's send_packet and qsend_packet return.  They never
\* return MAC_TX_DEFERRED, the one status packet_sent would ignore.
RdcStatus ==
  {"MAC_TX_OK", "MAC_TX_COLLISION", "MAC_TX_NOACK", "MAC_TX_ERR", "MAC_TX_ERR_FATAL"}

\* What has become of a packet: not yet passed to send_packet, in a queue, or
\* reported to the upper layer with a status.
Fate == {"new", "queued"} \cup RdcStatus

VARIABLES
  neighbor_list,       \* the addresses that have a struct neighbor_queue
  queued_packet_list,  \* queued_packet_list of each address
  transmissions,       \* n->transmissions of each address
  collisions,          \* n->collisions of each address
  transmit_timer,      \* the addresses whose n->transmit_timer is running
  radio,               \* q->radio of each packet
  memb,                \* free blocks of each pool
  others,              \* queuebufs the rest of the stack holds
  long_range_radio,    \* the radio selected in dual_radio.c
  fate,                \* history: what has become of each packet
  callbacks,           \* history: sent callbacks made for each packet
  num_tx,              \* history: the count the sent callback was given
  attempts             \* history: times the packet was handed to the RDC

queueVars   == <<neighbor_list, queued_packet_list, transmissions, collisions,
                 transmit_timer>>
historyVars == <<fate, callbacks, num_tx, attempts>>
vars == <<queueVars, radio, memb, others, long_range_radio, historyVars>>

Pool == {"neighbor", "packet", "metadata", "queuebuf"}
PoolSize == [m \in Pool |-> IF m = "neighbor" THEN NeighborQueues ELSE QueuebufNum]

Init ==
  /\ neighbor_list = {}
  /\ queued_packet_list = [a \in Addr |-> <<>>]
  /\ transmissions = [a \in Addr |-> 0]
  /\ collisions = [a \in Addr |-> CSMA_MIN_BE]
  /\ transmit_timer = {}
  /\ radio = [p \in Packet |-> "SHORT_RADIO"]
  /\ memb = PoolSize
  /\ others = 0
  /\ long_range_radio = "SHORT_RADIO"
  /\ fate = [p \in Packet |-> "new"]
  /\ callbacks = [p \in Packet |-> 0]
  /\ num_tx = [p \in Packet |-> 0]
  /\ attempts = [p \in Packet |-> 0]

-----------------------------------------------------------------------------
(* send_packet *)

\* max_transmissions as send_packet fills it in.
MaxTransmissions(p) == IF Requested[p] = 0 THEN FrameRetries + 1 ELSE Requested[p]

\* mac_call_sent_callback: the upper layer learns the status and the count.
Callback(p, status, num) ==
  /\ fate' = [fate EXCEPT ![p] = status]
  /\ callbacks' = [callbacks EXCEPT ![p] = @ + 1]
  /\ num_tx' = [num_tx EXCEPT ![p] = num]

\* memb_alloc and memb_free of a block of pool m, at some point of a handler.
Take(pools, m) == [pools EXCEPT ![m] = @ - 1]
Give(pools, m) == [pools EXCEPT ![m] = @ + 1]

\* The pools after each allocation of send_packet; a neighbour entry is taken only
\* if a has none.
WithNeighbor(a) == IF a \in neighbor_list THEN memb ELSE Take(memb, "neighbor")
WithPacket(a)   == Take(WithNeighbor(a), "packet")
WithMetadata(a) == Take(WithPacket(a), "metadata")
WithQueuebuf(a) == Take(WithMetadata(a), "queuebuf")

HasNeighbor(a) == a \in neighbor_list \/ memb["neighbor"] > 0
HasRoom(a) == Len(queued_packet_list[a]) < QueuebufNum

\* The three allocations inside the queue's length check all succeed.
BlocksLeft(a) ==
  /\ WithNeighbor(a)["packet"] > 0
  /\ WithPacket(a)["metadata"] > 0
  /\ WithMetadata(a)["queuebuf"] > 0

\* Mutant of RolledBack: the metadata block is not freed when no queuebuf is left.
RolledBackLeaky(a) ==
  LET qFreed  == Give(IF WithPacket(a)["metadata"] > 0 THEN WithMetadata(a)
                      ELSE WithPacket(a), "packet")
      blocks  == IF WithNeighbor(a)["packet"] > 0 THEN qFreed ELSE WithNeighbor(a)
  IN IF queued_packet_list[a] = <<>> THEN Give(blocks, "neighbor") ELSE blocks

\* The pools at the end of send_packet's nested failure branches: what had been
\* taken when an allocation failed is freed, the last block first, and the
\* neighbour entry goes if its queue is empty, whoever allocated it.
RolledBack(a) ==
  LET ptrFreed == Give(WithMetadata(a), "metadata")
      qFreed   == Give(IF WithPacket(a)["metadata"] > 0 THEN ptrFreed
                       ELSE WithPacket(a), "packet")
      blocks   == IF WithNeighbor(a)["packet"] > 0 THEN qFreed ELSE WithNeighbor(a)
  IN IF queued_packet_list[a] = <<>> THEN Give(blocks, "neighbor") ELSE blocks

\* The counters of a neighbour entry that send_packet allocates.
InitNeighbor(a) ==
  /\ transmissions' =
       IF a \in neighbor_list THEN transmissions ELSE [transmissions EXCEPT ![a] = 0]
  /\ collisions' =
       IF a \in neighbor_list THEN collisions ELSE [collisions EXCEPT ![a] = CSMA_MIN_BE]

\* Mutant of SendQueued: the return after queueing is missing, and send_packet
\* falls through to its error callback.
SendQueuedNoReturn(p, a) ==
  /\ fate[p] = "new"
  /\ HasNeighbor(a) /\ HasRoom(a) /\ BlocksLeft(a)
  /\ neighbor_list' = neighbor_list \cup {a}
  /\ InitNeighbor(a)
  /\ queued_packet_list' = [queued_packet_list EXCEPT ![a] = Append(@, p)]
  /\ transmit_timer' = transmit_timer \cup {a}
  /\ radio' = [radio EXCEPT ![p] = long_range_radio]
  /\ memb' = WithQueuebuf(a)
  /\ Callback(p, "MAC_TX_ERR", 1)
  /\ UNCHANGED <<others, long_range_radio, attempts>>

\* send_packet, the packet is queued; the timer is set only for a queue's head.
SendQueued(p, a) ==
  /\ fate[p] = "new"
  /\ HasNeighbor(a) /\ HasRoom(a) /\ BlocksLeft(a)
  /\ neighbor_list' = neighbor_list \cup {a}
  /\ InitNeighbor(a)
  /\ queued_packet_list' = [queued_packet_list EXCEPT ![a] = Append(@, p)]
  /\ transmit_timer' =
       IF queued_packet_list[a] = <<>> THEN transmit_timer \cup {a} ELSE transmit_timer
  /\ radio' = [radio EXCEPT ![p] = long_range_radio]
  /\ memb' = WithQueuebuf(a)
  /\ fate' = [fate EXCEPT ![p] = "queued"]
  /\ UNCHANGED <<others, long_range_radio, callbacks, num_tx, attempts>>

\* What every failing path of send_packet ends with.
Refused(p) ==
  /\ fate[p] = "new"
  /\ Callback(p, "MAC_TX_ERR", 1)
  /\ UNCHANGED <<queued_packet_list, transmit_timer, radio, others, long_range_radio,
                 attempts>>

\* send_packet, there is no neighbour entry left.
SendNoNeighbor(p, a) ==
  /\ ~HasNeighbor(a)
  /\ UNCHANGED <<neighbor_list, transmissions, collisions, memb>>
  /\ Refused(p)

\* send_packet, the queue of a is full: the neighbour entry stays.
SendQueueFull(p, a) ==
  /\ HasNeighbor(a) /\ ~HasRoom(a)
  /\ neighbor_list' = neighbor_list \cup {a}
  /\ InitNeighbor(a)
  /\ memb' = WithNeighbor(a)
  /\ Refused(p)

\* send_packet, no packet, metadata or queue buffer is left: roll back.
SendRolledBack(p, a) ==
  /\ HasNeighbor(a) /\ HasRoom(a) /\ ~BlocksLeft(a)
  /\ neighbor_list' =
       IF queued_packet_list[a] = <<>> THEN neighbor_list \ {a} ELSE neighbor_list \cup {a}
  /\ InitNeighbor(a)
  /\ memb' = RolledBack(a)
  /\ Refused(p)

SendRefused(p, a) == SendNoNeighbor(p, a) \/ SendQueueFull(p, a) \/ SendRolledBack(p, a)

-----------------------------------------------------------------------------
(* transmit_packet_list, the RDC's synchronous answer, packet_sent *)

\* The pools once free_packet has released the head of a's queue.
Released(rest) ==
  [m \in Pool |-> IF m = "neighbor" /\ rest # <<>> THEN memb[m] ELSE memb[m] + 1]

\* Mutant of FreePacket: the next packet's transmission is not scheduled.
FreePacketNoReschedule(a) ==
  LET rest == Tail(queued_packet_list[a]) IN
  /\ queued_packet_list' = [queued_packet_list EXCEPT ![a] = rest]
  /\ memb' = Released(rest)
  /\ transmit_timer' = transmit_timer \ {a}
  /\ collisions' = [collisions EXCEPT ![a] = CSMA_MIN_BE]
  /\ neighbor_list' = IF rest = <<>> THEN neighbor_list \ {a} ELSE neighbor_list

\* Mutant of FreePacket: the newest packet of the queue is removed, not the one sent.
FreePacketNewest(a) ==
  LET rest == SubSeq(queued_packet_list[a], 1, Len(queued_packet_list[a]) - 1) IN
  /\ queued_packet_list' = [queued_packet_list EXCEPT ![a] = rest]
  /\ memb' = Released(rest)
  /\ collisions' = [collisions EXCEPT ![a] = CSMA_MIN_BE]
  /\ transmit_timer' = IF rest = <<>> THEN transmit_timer \ {a} ELSE transmit_timer \cup {a}
  /\ neighbor_list' = IF rest = <<>> THEN neighbor_list \ {a} ELSE neighbor_list

\* free_packet: the next packet starts afresh, or the neighbour entry goes.
FreePacket(a) ==
  LET rest == Tail(queued_packet_list[a]) IN
  /\ queued_packet_list' = [queued_packet_list EXCEPT ![a] = rest]
  /\ memb' = Released(rest)
  /\ collisions' = [collisions EXCEPT ![a] = CSMA_MIN_BE]
  /\ IF rest = <<>>
     THEN /\ transmit_timer' = transmit_timer \ {a}
          /\ neighbor_list' = neighbor_list \ {a}
     ELSE /\ transmit_timer' = transmit_timer \cup {a}
          /\ neighbor_list' = neighbor_list

\* Mutant of TxDone: free_packet forgets to reset n->transmissions.
TxDoneNoReset(a, p, status, tx) ==
  /\ FreePacket(a)
  /\ transmissions' = [transmissions EXCEPT ![a] = tx]
  /\ Callback(p, status, tx)

\* tx_done: free_packet, then the callback with n->transmissions as
\* free_packet left it: reset if another packet waits.
TxDone(a, p, status, tx) ==
  LET left == IF Len(queued_packet_list[a]) > 1 THEN 0 ELSE tx IN
  /\ FreePacket(a)
  /\ transmissions' = [transmissions EXCEPT ![a] = left]
  /\ Callback(p, status, left)

\* Mutant of Rexmit: the retry is not scheduled.
RexmitNoTimer(a, tx, coll) ==
  /\ transmissions' = [transmissions EXCEPT ![a] = tx]
  /\ collisions' = [collisions EXCEPT ![a] = coll]
  /\ transmit_timer' = transmit_timer \ {a}
  /\ UNCHANGED <<neighbor_list, queued_packet_list, memb, fate, callbacks, num_tx>>

\* rexmit: back off, and try the same packet again.
Rexmit(a, tx, coll) ==
  /\ transmissions' = [transmissions EXCEPT ![a] = tx]
  /\ collisions' = [collisions EXCEPT ![a] = coll]
  /\ transmit_timer' = transmit_timer \cup {a}
  /\ UNCHANGED <<neighbor_list, queued_packet_list, memb, fate, callbacks, num_tx>>

\* Mutant of DoneOrRexmit: one retry too many.
DoneOrRexmitLate(a, p, status, tx, coll) ==
  IF tx > MaxTransmissions(p) THEN TxDone(a, p, status, tx) ELSE Rexmit(a, tx, coll)

\* tx_done or rexmit, as noack and collision choose.
DoneOrRexmit(a, p, status, tx, coll) ==
  IF tx >= MaxTransmissions(p) THEN TxDone(a, p, status, tx) ELSE Rexmit(a, tx, coll)

Noack(a, p) ==
  DoneOrRexmit(a, p, "MAC_TX_NOACK", transmissions[a] + 1, CSMA_MIN_BE)

\* Mutant of Collision: a run of collisions does not count as a transmission.
CollisionForever(a, p) ==
  IF collisions[a] + 1 > MaxBackoff
  THEN DoneOrRexmit(a, p, "MAC_TX_COLLISION", transmissions[a], CSMA_MIN_BE)
  ELSE DoneOrRexmit(a, p, "MAC_TX_COLLISION", transmissions[a], collisions[a] + 1)

Collision(a, p) ==
  IF collisions[a] + 1 > MaxBackoff
  THEN DoneOrRexmit(a, p, "MAC_TX_COLLISION", transmissions[a] + 1, CSMA_MIN_BE)
  ELSE DoneOrRexmit(a, p, "MAC_TX_COLLISION", transmissions[a], collisions[a] + 1)

TxOk(a, p) == TxDone(a, p, "MAC_TX_OK", transmissions[a] + 1)

\* The default branch of packet_sent: an RDC error drops the packet at once.
TxError(a, p, status) == TxDone(a, p, status, transmissions[a])

\* transmit_packet_list selects the packet's radio and calls the RDC.
Transmit(a, p) ==
  /\ a \in transmit_timer
  /\ queued_packet_list[a] # <<>>
  /\ p = Head(queued_packet_list[a])
  /\ long_range_radio' = radio[p]
  /\ attempts' = [attempts EXCEPT ![p] = @ + 1]
  /\ UNCHANGED <<radio, others>>

TransmitOk(a, p) ==
  /\ Transmit(a, p)
  /\ memb["queuebuf"] > 0
  /\ TxOk(a, p)

TransmitNoack(a, p) ==
  /\ Transmit(a, p)
  /\ memb["queuebuf"] > 0
  /\ Noack(a, p)

\* The RDC reports a collision it saw while strobing, or does not even try
\* while someone_is_sending.
TransmitCollision(a, p) ==
  /\ Transmit(a, p)
  /\ Collision(a, p)

\* The RDC needs a queuebuf of its own while it sends: MAC_TX_ERR if none is left.
TransmitErr(a, p) ==
  /\ Transmit(a, p)
  /\ memb["queuebuf"] = 0
  /\ TxError(a, p, "MAC_TX_ERR")

\* The framer cannot build the header.
TransmitFatal(a, p) ==
  /\ Transmit(a, p)
  /\ TxError(a, p, "MAC_TX_ERR_FATAL")

-----------------------------------------------------------------------------
(* The rest of the stack *)

\* Another module takes a queuebuf, or gives one back.
OtherAlloc ==
  /\ memb["queuebuf"] > 0
  /\ memb' = [memb EXCEPT !["queuebuf"] = @ - 1]
  /\ others' = others + 1
  /\ UNCHANGED <<queueVars, radio, long_range_radio, historyVars>>

\* Mutant of OtherFree: a queuebuf is given back twice.
OtherFreeTwice ==
  /\ memb' = [memb EXCEPT !["queuebuf"] = @ + 1]
  /\ others' = others - 1
  /\ UNCHANGED <<queueVars, radio, long_range_radio, historyVars>>

OtherFree ==
  /\ others > 0
  /\ memb' = [memb EXCEPT !["queuebuf"] = @ + 1]
  /\ others' = others - 1
  /\ UNCHANGED <<queueVars, radio, long_range_radio, historyVars>>

\* Routing, or the duty cycle, selects a radio between two CSMA events.
SwitchRadio(r) ==
  /\ r # long_range_radio
  /\ long_range_radio' = r
  /\ UNCHANGED <<queueVars, radio, memb, others, historyVars>>

TransmitPacketList(a) ==
  \E p \in Packet :
    \/ TransmitOk(a, p)
    \/ TransmitNoack(a, p)
    \/ TransmitCollision(a, p)
    \/ TransmitErr(a, p)
    \/ TransmitFatal(a, p)

Next ==
  \/ \E p \in Packet : \E a \in Receivers[p] : SendQueued(p, a) \/ SendRefused(p, a)
  \/ \E a \in Addr : TransmitPacketList(a)
  \/ OtherAlloc
  \/ OtherFree
  \/ \E r \in Radio : SwitchRadio(r)

Spec == Init /\ [][Next]_vars

\* A ctimer that is set expires, and the main loop then runs its callback.
Fairness == \A a \in Addr : WF_vars(TransmitPacketList(a))

FairSpec == Spec /\ Fairness

-----------------------------------------------------------------------------
(* Properties *)

\* Types; the counters of csma.c are natural numbers here, RetriesLeft bounds them.
TypeOK ==
  /\ neighbor_list \in SUBSET Addr
  /\ queued_packet_list \in [Addr -> Seq(Packet)]
  /\ transmissions \in [Addr -> Nat]
  /\ collisions \in [Addr -> Nat]
  /\ transmit_timer \in SUBSET Addr
  /\ radio \in [Packet -> Radio]
  /\ memb \in [Pool -> Nat]
  /\ others \in Nat
  /\ long_range_radio \in Radio
  /\ fate \in [Packet -> Fate]
  /\ callbacks \in [Packet -> Nat]
  /\ num_tx \in [Packet -> Nat]
  /\ attempts \in [Packet -> Nat]

\* The transmit timer runs exactly for the destinations that have packets: no
\* queue is left without a timer after any outcome of packet_sent, and no timer
\* runs on a neighbour entry free_packet has given back to neighbor_memb.
TimerIffQueued ==
  \A a \in Addr :
    /\ a \in transmit_timer <=> queued_packet_list[a] # <<>>
    /\ a \in neighbor_list <=> queued_packet_list[a] # <<>>

QueuedPackets == {p \in Packet : fate[p] = "queued"}

\* The queues hold exactly the packets accepted and not yet reported, each in one
\* place of one queue: what tx_done reports is what free_packet removes.
QueuesMatchFate ==
  /\ \A a \in Addr : \A i \in DOMAIN queued_packet_list[a] :
        fate[queued_packet_list[a][i]] = "queued"
  /\ \A a, b \in Addr :
        \A i \in DOMAIN queued_packet_list[a], j \in DOMAIN queued_packet_list[b] :
          queued_packet_list[a][i] = queued_packet_list[b][j] => a = b /\ i = j
  /\ \A p \in QueuedPackets :
        \E a \in Addr : \E i \in DOMAIN queued_packet_list[a] : queued_packet_list[a][i] = p

\* Every pool's free blocks and the blocks in use add up to its size: no path
\* through send_packet, its roll back and free_packet leaks a block of
\* neighbor_memb, packet_memb, metadata_memb or the queuebuf pool.
PoolsBalance ==
  /\ memb["neighbor"] + Cardinality(neighbor_list) = NeighborQueues
  /\ memb["packet"] + Cardinality(QueuedPackets) = QueuebufNum
  /\ memb["metadata"] + Cardinality(QueuedPackets) = QueuebufNum
  /\ memb["queuebuf"] + others + Cardinality(QueuedPackets) = QueuebufNum

\* The head of a queue has retries left whenever its timer runs, so that
\* noack and collision always reach tx_done after finitely many rounds.
RetriesLeft ==
  \A a \in neighbor_list :
    /\ transmissions[a] < MaxTransmissions(Head(queued_packet_list[a]))
    /\ collisions[a] <= MaxBackoff

\* The upper layer is called back exactly once per packet, and only for a
\* packet that has left the queues.
OneCallback ==
  \A p \in Packet : callbacks[p] = IF fate[p] \in RdcStatus THEN 1 ELSE 0

\* No packet is handed to the RDC more than max_transmissions times
\* (CSMA_MAX_BACKOFF + 1), although every noack resets the collision counter.
AttemptsBounded ==
  \A p \in Packet : attempts[p] <= MaxTransmissions(p) * (MaxBackoff + 1)

\* The upper layer is never told of more transmissions of a packet than were made:
\* n->transmissions, which tx_done reads when free_packet may have reset it already
\* (and then it reports 0), never counts those of an earlier packet.
CountsOwnAttempts ==
  \A p \in Packet : attempts[p] > 0 /\ fate[p] \in RdcStatus => num_tx[p] <= attempts[p]

\* The service the network layer sees, with the retries, pools, timers and radios
\* of this module hidden.
MAC == INSTANCE MacService WITH
  Status <- RdcStatus, waiting <- queued_packet_list, outcome <- fate, reports <- callbacks

\* CSMA implements the MAC service: per destination, first accepted is first
\* reported, no packet is skipped or reported twice across the resets and the
\* re-scheduling of free_packet.
ImplementsMac == MAC!Spec

\* It also implements it with its promise of progress: a packet passed to
\* send_packet is reported in the end, whatever the RDC answers.
ImplementsFairMac == MAC!FairSpec

=============================================================================
