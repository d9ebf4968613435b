------------------------------- MODULE DualMac -------------------------------
(***************************************************************************)
(* The duty-cycled RDC layer of SEDA-Net: core/net/mac/dualmac/dualmac.c   *)
(* over the two radios that platform/*/dual_*.c select and power, in the   *)
(* configuration DUAL_RADIO, DATA_ACK, STROBE_CNT_MODE 0, WAKEUP_RADIO 0,  *)
(* CROSS_OPT_VERSION1 0.                                                   *)
(*                                                                         *)
(* A node runs one cooperative thread.  send_packet busy-waits for strobe  *)
(* acks and data acks, so while a node sends only its radios receive; the  *)
(* power cycle timer, the strobe_wait process and input_packet wait for    *)
(* the send to end.  Every other handler is one action.  The functions     *)
(* that only change a node's own record are operators on that record,      *)
(* composed in the order of the code.                                      *)
(*                                                                         *)
(* A frame is heard by any subset of the nodes whose radio is powered and  *)
(* whose receive buffer is empty: losses and collisions are in the choice. *)
(* Durations are abstracted: any timer may fire after any other step.      *)
(***************************************************************************)
EXTENDS Integers, FiniteSets

CONSTANTS
  Node,          \* the nodes
  Server,        \* SERVER_NODE, the data sink: it runs NETSTACK_MAC.off(1)
  Packet,        \* the packets of one behaviour
  Src, Dst,      \* sender and receiver of each packet; Null is the broadcast address
  AddrRadio,     \* the radio of each packet's link-layer address
  Origin,        \* the node whose application data each packet carries
  SeqId,         \* recv_id of that data, 0 if the packet carries none
  MaxTries,      \* bound on the calls the CSMA layer makes for one packet
  PowerSelects,  \* zoul, z1: powering a radio selects its driver; cooja: it does not
  Null           \* no frame, and the broadcast address

Radio == {"LONG_RADIO", "SHORT_RADIO"}
LONG_RADIO == {"LONG_RADIO"}
SHORT_RADIO == {"SHORT_RADIO"}
BOTH_RADIO == Radio

\* A frame: its type and the packet it belongs to, which fixes its addresses.
Frame == [type : {"STROBE", "STROBE_ACK", "DATA", "DATA_ACK"}, of : Packet]

ASSUME DualMacAssumption ==
  /\ Null \notin Node /\ Null \notin Frame
  /\ Src \in [Packet -> Node]
  /\ Dst \in [Packet -> Node \cup {Null}]
  /\ AddrRadio \in [Packet -> {"LONG_RADIO", "SHORT_RADIO"}]
  /\ Origin \in [Packet -> Node]
  /\ SeqId \in [Packet -> Nat]
  /\ MaxTries \in Nat
  /\ PowerSelects \in BOOLEAN

Receiver(f) == IF f.type \in {"STROBE_ACK", "DATA_ACK"} THEN Src[f.of] ELSE Dst[f.of]

Status == {"MAC_TX_OK", "MAC_TX_COLLISION", "MAC_TX_NOACK", "MAC_TX_ERR", "MAC_TX_ERR_FATAL"}

\* The statics of dualmac.c and of dual_conf.c at a node.  on holds radio_is_on
\* and radio_long_is_on, hw the radios really powered, rx their receive buffers.
\* strobe_wait: the process is alive, which is when is_short_waiting is 1.
Mac == [long_range_radio : Radio,
        dualmac_is_on : BOOLEAN,
        on : SUBSET Radio,
        hw : SUBSET Radio,
        rx : [Radio -> Frame \cup {Null}],
        waiting_for_packet : 0..2,
        someone_is_sending : 0..2,
        strobe_wait : BOOLEAN]

\* The locals of send_packet; pc says where it busy-waits.
Sending == [pc : {"strobe", "data", "ack"}, packet : Packet, was_short : BOOLEAN,
            strobed : BOOLEAN, collisions : BOOLEAN]

VARIABLES
  mac,        \* the statics of each node
  sending,    \* the locals of send_packet at each node, Null when it is not running
  cycle,      \* what cpowercycle does when its timer fires: "on", "off", or it is not set
  id_array,   \* the last recv_id each node accepted of each origin
  status,     \* what the last send of each packet returned
  tries,      \* history: sends of each packet
  air,        \* history: the frames transmitted, with the radio used
  delivered,  \* history: times NETSTACK_MAC.input was given each unicast packet
  credit,     \* history: data acks sent to each node less the sends it ended with OK
  awake       \* history: consecutive off phases a node stayed on, hearing nothing,
              \* not counting those of radios powered since boot behind clear flags

historyVars == <<tries, air, delivered, credit, awake>>
vars == <<mac, sending, cycle, id_array, status, historyVars>>

\* After dualmac_init, and turn_off(1) at the server.  Both radios boot powered.
Init ==
  /\ mac = [n \in Node |->
       [long_range_radio |-> "SHORT_RADIO", dualmac_is_on |-> n # Server,
        on |-> {}, hw |-> BOTH_RADIO, rx |-> [r \in Radio |-> Null],
        waiting_for_packet |-> 0, someone_is_sending |-> 0, strobe_wait |-> FALSE]]
  /\ sending = [n \in Node |-> Null]
  /\ cycle = [n \in Node |-> "on"]
  /\ id_array = [n \in Node |-> [o \in Node |-> 0]]
  /\ status = [p \in Packet |-> "none"]
  /\ tries = [p \in Packet |-> 0]
  /\ air = {}
  /\ delivered = [p \in Packet |-> 0]
  /\ credit = [n \in Node |-> 0]
  /\ awake = [n \in Node |-> 0]

-----------------------------------------------------------------------------
(* The radios: dual_radio_switch, dual_radio_turn_on/off, dual_radio_on/off *)

dual_radio_switch(m, r) == [m EXCEPT !.long_range_radio = r]

\* The radio left selected once target has been powered: for BOTH, SHORT is last.
LastPowered(m, target) ==
  IF ~PowerSelects THEN m.long_range_radio
  ELSE IF "SHORT_RADIO" \in target THEN "SHORT_RADIO" ELSE "LONG_RADIO"

dual_radio_turn_on(m, target) ==
  [dual_radio_switch(m, LastPowered(m, target)) EXCEPT !.hw = @ \cup target]

\* Mutant of dual_radio_turn_off: the driver selected last is turned off, no other.
TurnOffOne(m, target) ==
  [dual_radio_switch(m, LastPowered(m, target)) EXCEPT
     !.hw = @ \ (IF target = BOTH_RADIO THEN SHORT_RADIO ELSE target)]

dual_radio_turn_off(m, target) ==
  [dual_radio_switch(m, LastPowered(m, target)) EXCEPT !.hw = @ \ target]

dual_radio_on(m, target) ==
  IF m.dualmac_is_on /\ m.on # BOTH_RADIO
  THEN [dual_radio_turn_on(m, target) EXCEPT !.on = @ \cup target]
  ELSE m

\* Mutant of dual_radio_off: dualmac_is_on is not asked.
RadioOffUnasked(m, target) ==
  [dual_radio_turn_off(m, target) EXCEPT !.on = @ \ target]

dual_radio_off(m, target) ==
  IF m.dualmac_is_on /\ m.on # {}
  THEN [dual_radio_turn_off(m, target) EXCEPT !.on = @ \ target]
  ELSE m

\* A frame in the buffer of a radio that is off when the code yields is gone.
Settled(m) == [m EXCEPT !.rx = [r \in Radio |-> IF r \in m.hw THEN @[r] ELSE Null]]

\* Node n's record becomes m; nothing is transmitted.
Becomes(n, m) == mac' = [mac EXCEPT ![n] = Settled(m)]

\* Node n transmits f on radio r (radio_send), and its record becomes m.  Where
\* the channel is not clear radio_send returns RADIO_TX_COLLISION, which dualmac
\* does not look at: f is then a frame no node hears, although air records it.
Transmits(n, r, f, m) ==
  /\ \E hearers \in SUBSET {h \in Node \ {n} : r \in mac[h].hw /\ mac[h].rx[r] = Null} :
       mac' = [h \in Node |-> IF h = n THEN Settled(m)
                              ELSE IF h \in hearers THEN [mac[h] EXCEPT !.rx[r] = f]
                              ELSE mac[h]]
  /\ air' = air \cup {[type |-> f.type, of |-> f.of, radio |-> r]}

Idle(n) == sending[n] = Null

-----------------------------------------------------------------------------
(* qsend_list, qsend_packet and send_packet *)

\* The CSMA layer calls qsend_list: it keeps a packet until OK or an error.
Calls(n, p) ==
  /\ Idle(n)
  /\ Src[p] = n
  /\ status[p] \in {"none", "MAC_TX_COLLISION", "MAC_TX_NOACK"}
  /\ tries[p] < MaxTries
  /\ tries' = [tries EXCEPT ![p] = @ + 1]

\* qsend_packet: a strobe was heard and its data was not.
SendBusy(n, p) ==
  /\ Calls(n, p)
  /\ mac[n].someone_is_sending # 0
  /\ Becomes(n, dual_radio_switch(mac[n], AddrRadio[p]))
  /\ status' = [status EXCEPT ![p] = "MAC_TX_COLLISION"]
  /\ UNCHANGED <<sending, cycle, id_array, air, delivered, credit, awake>>

\* send_packet: no header could be created, or no queuebuf is left.
SendError(n, p) ==
  /\ Calls(n, p)
  /\ mac[n].someone_is_sending = 0
  /\ Becomes(n, dual_radio_switch(mac[n], AddrRadio[p]))
  /\ \E s \in {"MAC_TX_ERR", "MAC_TX_ERR_FATAL"} : status' = [status EXCEPT ![p] = s]
  /\ UNCHANGED <<sending, cycle, id_array, air, delivered, credit, awake>>

\* send_packet up to its first busy wait: the radios are turned off, then the
\* selected radio decides was_short, then the long radio listens for strobe acks.
SendBegin(n, p) ==
  /\ Calls(n, p)
  /\ mac[n].someone_is_sending = 0
  /\ LET off   == dual_radio_off(dual_radio_switch(mac[n], AddrRadio[p]), BOTH_RADIO)
         short == off.long_range_radio = "SHORT_RADIO"
     IN /\ Becomes(n, dual_radio_on(dual_radio_switch(off, "LONG_RADIO"), LONG_RADIO))
        /\ sending' = [sending EXCEPT ![n] =
             [pc |-> IF Dst[p] = Null /\ short THEN "data" ELSE "strobe",
              packet |-> p, was_short |-> short, strobed |-> FALSE, collisions |-> FALSE]]
  /\ UNCHANGED <<cycle, id_array, status, air, delivered, credit, awake>>

\* The radios NETSTACK_RADIO.read() takes a frame from while send_packet waits.
Readable(n) ==
  {r \in IF PowerSelects THEN {mac[n].long_range_radio} ELSE Radio : mac[n].rx[r] # Null}

Read(n, r) == [mac[n] EXCEPT !.rx[r] = Null]

\* A frame read while waiting for the strobe ack: the ack ends the train, another
\* strobe is a collision, anything else is swallowed.
StrobeRead(n) ==
  /\ ~Idle(n) /\ sending[n].pc = "strobe"
  /\ \E r \in Readable(n) :
       /\ Becomes(n, Read(n, r))
       /\ LET f == mac[n].rx[r] IN
          sending' = [sending EXCEPT
            ![n].pc = IF f.type = "STROBE_ACK" /\ Receiver(f) = n THEN "data" ELSE @,
            ![n].collisions = @ \/ f.type = "STROBE"]
  /\ UNCHANGED <<cycle, id_array, status, historyVars>>

\* The wait is over and a strobe is sent: never to the server, not after a collision.
StrobeSend(n) ==
  /\ ~Idle(n) /\ sending[n].pc = "strobe" /\ ~sending[n].collisions
  /\ LET p == sending[n].packet IN
       /\ Dst[p] # Server
       /\ Transmits(n, mac[n].long_range_radio, [type |-> "STROBE", of |-> p],
            IF Dst[p] = Null THEN dual_radio_off(mac[n], LONG_RADIO)
            ELSE dual_radio_on(mac[n], LONG_RADIO))
  /\ sending' = [sending EXCEPT ![n].strobed = TRUE]
  /\ UNCHANGED <<cycle, id_array, status, tries, delivered, credit, awake>>

\* Mutant of StrobesOver: the loop has no time limit.
StrobesOverUntimed(n) ==
  /\ ~Idle(n)
  /\ sending[n].pc = "data" \/ sending[n].collisions

\* The strobe loop ends: an ack, a collision, the server as receiver, a timeout.
StrobesOver(n) ==
  /\ ~Idle(n)
  /\ \/ sending[n].pc = "data"
     \/ /\ sending[n].pc = "strobe"
        /\ sending[n].collisions \/ Dst[sending[n].packet] = Server \/ sending[n].strobed

\* Mutant of SwitchedBack: the radio is not switched back.
SwitchedBackNot(n) == dual_radio_off(mac[n], LONG_RADIO)

\* The radio goes off and is switched back to the original one.
SwitchedBack(n) ==
  LET off == dual_radio_off(mac[n], LONG_RADIO)
  IN IF sending[n].was_short THEN dual_radio_switch(off, "SHORT_RADIO") ELSE off

\* Where the data is sent and its ack awaited.
DataTarget(n) == IF sending[n].was_short THEN SHORT_RADIO ELSE LONG_RADIO

\* send_packet returns s, and qsend_packet passes it to the CSMA layer.
Returns(n, s) ==
  /\ status' = [status EXCEPT ![sending[n].packet] = s]
  /\ sending' = [sending EXCEPT ![n] = Null]

SendCollided(n) ==
  /\ StrobesOver(n)
  /\ sending[n].collisions
  /\ Becomes(n, [SwitchedBack(n) EXCEPT !.someone_is_sending = @ + 1])
  /\ Returns(n, "MAC_TX_COLLISION")
  /\ UNCHANGED <<cycle, id_array, historyVars>>

DataFrame(n) == [type |-> "DATA", of |-> sending[n].packet]

SendBroadcast(n) ==
  /\ StrobesOver(n)
  /\ ~sending[n].collisions
  /\ Dst[sending[n].packet] = Null
  /\ Transmits(n, SwitchedBack(n).long_range_radio, DataFrame(n), SwitchedBack(n))
  /\ Returns(n, "MAC_TX_OK")
  /\ UNCHANGED <<cycle, id_array, tries, delivered, credit, awake>>

SendUnicast(n) ==
  /\ StrobesOver(n)
  /\ ~sending[n].collisions
  /\ Dst[sending[n].packet] # Null
  /\ Transmits(n, SwitchedBack(n).long_range_radio, DataFrame(n),
       dual_radio_on(SwitchedBack(n), DataTarget(n)))
  /\ sending' = [sending EXCEPT ![n].pc = "ack"]
  /\ UNCHANGED <<cycle, id_array, status, tries, delivered, credit, awake>>

\* A frame read while waiting for the data ack: any data ack to this node is it.
AckRead(n) ==
  /\ ~Idle(n) /\ sending[n].pc = "ack"
  /\ \E r \in Readable(n) :
       LET f == mac[n].rx[r] IN
       IF f.type = "DATA_ACK" /\ Receiver(f) = n
       THEN /\ Becomes(n, dual_radio_off(Read(n, r), DataTarget(n)))
            /\ Returns(n, "MAC_TX_OK")
            /\ credit' = [credit EXCEPT ![n] = @ - 1]
       ELSE /\ Becomes(n, Read(n, r))
            /\ UNCHANGED <<sending, status, credit>>
  /\ UNCHANGED <<cycle, id_array, tries, air, delivered, awake>>

\* Mutant of AckTimeout: the send fails only without strobe ack, and got_strobe_ack
\* has been set after the strobes.
AckTimeoutOk(n) ==
  /\ ~Idle(n) /\ sending[n].pc = "ack"
  /\ Becomes(n, dual_radio_off(mac[n], DataTarget(n)))
  /\ Returns(n, "MAC_TX_OK")
  /\ credit' = [credit EXCEPT ![n] = @ - 1]
  /\ UNCHANGED <<cycle, id_array, tries, air, delivered, awake>>

AckTimeout(n) ==
  /\ ~Idle(n) /\ sending[n].pc = "ack"
  /\ Becomes(n, dual_radio_off(mac[n], DataTarget(n)))
  /\ Returns(n, "MAC_TX_NOACK")
  /\ UNCHANGED <<cycle, id_array, historyVars>>

-----------------------------------------------------------------------------
(* cpowercycle and the strobe_wait process *)

\* cschedule_powercycle: the timer is set again only if dualmac is on.
Rescheduled(n, next) == IF mac[n].dualmac_is_on THEN next ELSE "unset"

\* Mutant of PowercycleOn: someone_is_sending is compared with 1, not 0.
PowercycleOnLate(n) ==
  /\ Idle(n) /\ cycle[n] = "on"
  /\ LET heard == [mac[n] EXCEPT !.someone_is_sending = IF @ > 1 THEN @ - 1 ELSE @]
     IN Becomes(n, IF heard.waiting_for_packet = 0
                   THEN dual_radio_on(heard, LONG_RADIO) ELSE heard)
  /\ cycle' = [cycle EXCEPT ![n] = Rescheduled(n, "off")]
  /\ UNCHANGED <<sending, id_array, status, historyVars>>

PowercycleOn(n) ==
  /\ Idle(n) /\ cycle[n] = "on"
  /\ LET heard == [mac[n] EXCEPT !.someone_is_sending = IF @ > 0 THEN @ - 1 ELSE 0]
     IN Becomes(n, IF heard.waiting_for_packet = 0
                   THEN dual_radio_on(heard, LONG_RADIO) ELSE heard)
  /\ cycle' = [cycle EXCEPT ![n] = Rescheduled(n, "off")]
  /\ UNCHANGED <<sending, id_array, status, historyVars>>

\* Mutants of CycleOver: the limit is one higher; waiting_for_packet is reset but
\* the radios stay on; waiting_for_packet is not incremented.
CycleOverThree(m) ==
  CASE m.waiting_for_packet = 0 -> dual_radio_off(m, BOTH_RADIO)
    [] m.waiting_for_packet \in {1, 2} -> [m EXCEPT !.waiting_for_packet = @ + 1]
    [] OTHER -> dual_radio_off([m EXCEPT !.waiting_for_packet = 0], BOTH_RADIO)

CycleOverAwake(m) ==
  CASE m.waiting_for_packet = 0 -> dual_radio_off(m, BOTH_RADIO)
    [] m.waiting_for_packet = 1 -> [m EXCEPT !.waiting_for_packet = 2]
    [] m.waiting_for_packet = 2 -> [m EXCEPT !.waiting_for_packet = 0]

CycleOverWaiting(m) ==
  IF m.waiting_for_packet = 0 THEN dual_radio_off(m, BOTH_RADIO) ELSE m

\* The record once the on time of a cycle is over.
CycleOver(m) ==
  CASE m.waiting_for_packet = 0 -> dual_radio_off(m, BOTH_RADIO)
    [] m.waiting_for_packet = 1 -> [m EXCEPT !.waiting_for_packet = 2]
    [] m.waiting_for_packet = 2 ->
         dual_radio_off([m EXCEPT !.waiting_for_packet = 0], BOTH_RADIO)

PowercycleOff(n) ==
  /\ Idle(n) /\ cycle[n] = "off"
  /\ Becomes(n, CycleOver(mac[n]))
  /\ cycle' = [cycle EXCEPT ![n] = Rescheduled(n, "on")]
  /\ awake' = [awake EXCEPT ![n] =
       IF CycleOver(mac[n]).hw # {} /\ CycleOver(mac[n]).hw = CycleOver(mac[n]).on
       THEN @ + 1 ELSE 0]
  /\ UNCHANGED <<sending, id_array, status, tries, air, delivered, credit>>

\* strobe_wait with is_short_waiting 1: its etimer fires and the process ends.
StrobeWaitOver(n) ==
  /\ Idle(n) /\ mac[n].strobe_wait
  /\ Becomes(n, [dual_radio_off(mac[n], SHORT_RADIO) EXCEPT
                   !.waiting_for_packet = 0, !.strobe_wait = FALSE])
  /\ UNCHANGED <<sending, cycle, id_array, status, historyVars>>

-----------------------------------------------------------------------------
(* input_packet *)

\* The radio driver gives input_packet the frame f of radio r.
Inputs(n, r, f) ==
  /\ Idle(n)
  /\ mac[n].rx[r] = f
  /\ awake' = [awake EXCEPT ![n] = 0]

\* Data: whoever was sending has finished.
DataHeard(n, r) == [Read(n, r) EXCEPT !.someone_is_sending = 0]

\* We have received the final packet, so we can go back to being asleep.
Asleep(m) == [dual_radio_off(m, BOTH_RADIO) EXCEPT !.waiting_for_packet = 0]

\* Broadcast data.  On the long radio the copy on the short one is waited for;
\* process_start does nothing when strobe_wait is already running.
InputBroadcast(n, r, p) ==
  /\ Inputs(n, r, [type |-> "DATA", of |-> p])
  /\ Dst[p] = Null
  /\ Becomes(n, IF r = "LONG_RADIO"
       THEN [dual_radio_on(dual_radio_off(DataHeard(n, r), LONG_RADIO), SHORT_RADIO)
               EXCEPT !.waiting_for_packet = 1, !.strobe_wait = TRUE]
       ELSE Asleep(DataHeard(n, r)))
  /\ UNCHANGED <<sending, cycle, id_array, status, tries, air, delivered, credit>>

\* Mutant of Duplicated: the comparison is strict.
DuplicatedStrict(n, p) == n # Server /\ SeqId[p] # 0 /\ id_array[n][Origin[p]] > SeqId[p]

\* Application data that is no newer than what this node has accepted of its origin.
Duplicated(n, p) == n # Server /\ SeqId[p] # 0 /\ id_array[n][Origin[p]] >= SeqId[p]

\* Unicast data for this node: it is acknowledged on the radio it came from,
\* and passed up unless it is a duplicate.  queuebuf_new_from_packetbuf, which
\* keeps the data while the ack is built, does not fail here.
InputUnicast(n, r, p) ==
  /\ Inputs(n, r, [type |-> "DATA", of |-> p])
  /\ Dst[p] = n
  /\ LET m == dual_radio_switch(Asleep(DataHeard(n, r)), r)
     IN Transmits(n, m.long_range_radio, [type |-> "DATA_ACK", of |-> p], m)
  /\ id_array' =
       IF n # Server /\ SeqId[p] # 0 /\ ~Duplicated(n, p)
       THEN [id_array EXCEPT ![n][Origin[p]] = SeqId[p]] ELSE id_array
  /\ delivered' =
       IF Duplicated(n, p) THEN delivered ELSE [delivered EXCEPT ![p] = @ + 1]
  /\ credit' = [credit EXCEPT ![Src[p]] = @ + 1]
  /\ UNCHANGED <<sending, cycle, status, tries>>

\* Mutant of StrobeHeard: the strobe's radio is not selected.
StrobeHeardNoSwitch(n, r) == [Read(n, r) EXCEPT !.someone_is_sending = 2]

\* A strobe: someone is about to send, and the strobe's radio is selected.
StrobeHeard(n, r) ==
  dual_radio_switch([Read(n, r) EXCEPT !.someone_is_sending = 2], r)

\* A strobe for this node: the radio of the address strobed for is turned on and
\* the strobe ack goes out on the radio selected then.
InputStrobe(n, r, p) ==
  /\ Inputs(n, r, [type |-> "STROBE", of |-> p])
  /\ Dst[p] = n
  /\ LET off == dual_radio_off([StrobeHeard(n, r) EXCEPT
                  !.someone_is_sending = 1, !.waiting_for_packet = 1], BOTH_RADIO)
         m   == dual_radio_on(off, {AddrRadio[p]})
     IN Transmits(n, m.long_range_radio, [type |-> "STROBE_ACK", of |-> p], m)
  /\ UNCHANGED <<sending, cycle, id_array, status, tries, delivered, credit>>

\* A broadcast strobe: the node stays awake for the data.
InputBroadcastStrobe(n, r, p) ==
  /\ Inputs(n, r, [type |-> "STROBE", of |-> p])
  /\ Dst[p] = Null
  /\ Becomes(n, [StrobeHeard(n, r) EXCEPT !.waiting_for_packet = 1])
  /\ UNCHANGED <<sending, cycle, id_array, status, tries, air, delivered, credit>>

\* Frames for other nodes, and acks that come too late.
InputOther(n, r, f) ==
  /\ Inputs(n, r, f)
  /\ f.type \in {"STROBE_ACK", "DATA_ACK"} \/ Receiver(f) \notin {n, Null}
  /\ Becomes(n, CASE f.type = "DATA" -> DataHeard(n, r)
                  [] f.type = "STROBE" -> StrobeHeard(n, r)
                  [] OTHER -> Read(n, r))
  /\ UNCHANGED <<sending, cycle, id_array, status, tries, air, delivered, credit>>

Input(n) ==
  \E r \in Radio :
    \/ \E p \in Packet :
         \/ InputBroadcast(n, r, p)
         \/ InputUnicast(n, r, p)
         \/ InputStrobe(n, r, p)
         \/ InputBroadcastStrobe(n, r, p)
    \/ \E f \in Frame : InputOther(n, r, f)

-----------------------------------------------------------------------------
Send(n) ==
  \E p \in Packet : SendBusy(n, p) \/ SendError(n, p) \/ SendBegin(n, p)

SendEnds(n) == SendCollided(n) \/ SendBroadcast(n) \/ SendUnicast(n)

Cycles(n) == PowercycleOn(n) \/ PowercycleOff(n)

Next ==
  \E n \in Node :
    \/ Send(n)
    \/ StrobeRead(n) \/ StrobeSend(n) \/ SendEnds(n)
    \/ AckRead(n) \/ AckTimeout(n)
    \/ Cycles(n) \/ StrobeWaitOver(n)
    \/ Input(n)

Spec == Init /\ [][Next]_vars

\* Timers fire, busy waits end and the event loop runs its handlers; that the
\* CSMA layer sends, and that anything is heard, is not assumed.
Fairness ==
  \A n \in Node :
    /\ WF_vars(StrobeSend(n))
    /\ WF_vars(SendEnds(n))
    /\ WF_vars(AckTimeout(n))
    /\ WF_vars(Cycles(n))
    /\ WF_vars(StrobeWaitOver(n))
    /\ WF_vars(Input(n))

FairSpec == Spec /\ Fairness

-----------------------------------------------------------------------------
(* Properties *)

\* Types; waiting_for_packet and someone_is_sending stay within 0..2 although
\* send_packet, cpowercycle and input_packet each change them.
TypeOK ==
  /\ mac \in [Node -> Mac]
  /\ sending \in [Node -> Sending \cup {Null}]
  /\ cycle \in [Node -> {"on", "off", "unset"}]
  /\ id_array \in [Node -> [Node -> Nat]]
  /\ status \in [Packet -> Status \cup {"none"}]
  /\ tries \in [Packet -> 0..MaxTries]
  /\ delivered \in [Packet -> Nat]
  /\ credit \in [Node -> Int]
  /\ awake \in [Node -> Nat]

\* Data leaves on the radio of the address it is sent to: send_packet strobes on
\* the long radio and must come back ("Switch the radio back to the original one").
DataOnAddressRadio ==
  \A f \in air : f.type = "DATA" => f.radio = AddrRadio[f.of]

\* An ack is sent where its receiver listens: on a radio the strobe or the data
\* it answers was sent on ("Turn on the radio to listen for the strobe ACK").
Question(type) == IF type = "STROBE_ACK" THEN "STROBE" ELSE "DATA"
AcksOnRadioOfQuestion ==
  \A f \in air : f.type \in {"STROBE_ACK", "DATA_ACK"} =>
    [type |-> Question(f.type), of |-> f.of, radio |-> f.radio] \in air

\* input_packet passes application data up once, however often the sender, whose
\* data ack was lost, sends it again; the server leaves that to its application.
DeliveredOnce ==
  \A p \in Packet : Dst[p] # Server /\ SeqId[p] # 0 => delivered[p] <= 1

\* Every send a node ends with MAC_TX_OK was paid for by a data ack sent to it.
OksArePaidFor == \A n \in Node : credit[n] >= 0

\* "We should not be awake for more than two consecutive power cycles without
\* having heard a packet": at the second off phase the radios do go off.
AwakeTwoCycles == \A n \in Node \ {Server} : awake[n] <= 1

\* "The data sink runs with a 100% duty cycle": nothing the server sends or
\* receives turns a radio of its own off.
ServerAlwaysListens == \A n \in Node : n = Server => mac[n].hw = BOTH_RADIO

\* The flags of dualmac.c say which radios are powered.  Both radios boot powered
\* with clear flags; no later step leaves a radio on behind a clear flag, or off
\* behind a set one.
FlagsFollowRadios ==
  [][\A n \in Node :
       /\ mac[n].on \subseteq mac[n].hw => mac'[n].on \subseteq mac'[n].hw
       /\ (mac'[n].hw \ mac'[n].on) \subseteq (mac[n].hw \ mac[n].on)]_vars

\* A node that waits for a packet has a radio on to hear it: "We turn on the
\* radio in anticipation of the incoming packet."
WaitsListening ==
  \A n \in Node : Idle(n) /\ mac[n].waiting_for_packet # 0 => mac[n].hw # {}

\* What input_packet drops as a duplicate was passed up before.
DropsOnlyDuplicates ==
  \A p \in Packet : [type |-> "DATA_ACK", of |-> p, radio |-> AddrRadio[p]] \in air
                      => delivered[p] > 0

\* A send ends: whatever is heard or lost, send_packet does not keep the node.
SendsEnd == \A n \in Node : sending[n] # Null ~> sending[n] = Null

\* A duty-cycled node that heard a strobe is again allowed to send.
MaySendAgain ==
  \A n \in Node \ {Server} :
    mac[n].someone_is_sending # 0 ~> mac[n].someone_is_sending = 0

\* A duty-cycled node sleeps again and again.
Sleeps == \A n \in Node \ {Server} : []<>(mac[n].hw = {})
==============================================================================
