--------------------------- MODULE DualMac_proofs ---------------------------
(***************************************************************************)
(* Proofs about DualMac, for any nodes and packets.  The lemmas say what    *)
(* the operators on a node's record keep; each action is then a composition *)
(* of them.                                                                 *)
(***************************************************************************)
EXTENDS DualMac, TLAPS

\* From m to m2 no radio is left on behind a clear flag, or off behind a set one.
FlagsKept(m, m2) ==
  /\ m.on \subseteq m.hw => m2.on \subseteq m2.hw
  /\ (m2.hw \ m2.on) \subseteq (m.hw \ m.on)

\* m2 holds no frame that m does not.
BuffersKept(m, m2) == \A r \in Radio : m2.rx[r] \in {m.rx[r], Null}

\* m2 differs from m in its radios at most: in hw, on and, on zoul, the selection.
Keeps(m, m2) ==
  /\ m2 \in Mac
  /\ m2.rx = m.rx
  /\ m2.dualmac_is_on = m.dualmac_is_on
  /\ m2.waiting_for_packet = m.waiting_for_packet
  /\ m2.someone_is_sending = m.someone_is_sending
  /\ m2.strobe_wait = m.strobe_wait
  /\ PowerSelects = FALSE => m2.long_range_radio = m.long_range_radio
  /\ m.dualmac_is_on = FALSE => m2.hw = m.hw
  /\ FlagsKept(m, m2)

\* What one step may do to the record of a node that does not take it: its
\* receive buffers hold what they held, or the frame f on radio r.
Overhears(m, m2, r, f) ==
  /\ m2 \in Mac
  /\ m2.long_range_radio = m.long_range_radio
  /\ m2.dualmac_is_on = m.dualmac_is_on
  /\ m2.on = m.on
  /\ m2.hw = m.hw
  /\ m2.waiting_for_packet = m.waiting_for_packet
  /\ m2.someone_is_sending = m.someone_is_sending
  /\ \A x \in Radio : m2.rx[x] = m.rx[x] \/ (x = r /\ m2.rx[x] = f)

\* Powering a radio on or off leaves the rest of a node's record alone.
LEMMA RadioKeeps ==
  ASSUME NEW m \in Mac, NEW target \in SUBSET Radio
  PROVE  /\ Keeps(m, dual_radio_on(m, target))
         /\ Keeps(m, dual_radio_off(m, target))
<1>1. LastPowered(m, target) \in Radio
  BY DEF LastPowered, Radio, Mac
<1>2. Keeps(m, dual_radio_on(m, target))
  <2>1. CASE m.dualmac_is_on /\ m.on # BOTH_RADIO
    <3>1. dual_radio_on(m, target) =
            [m EXCEPT !.long_range_radio = LastPowered(m, target),
                      !.hw = m.hw \cup target, !.on = m.on \cup target]
      BY <2>1 DEF dual_radio_on, dual_radio_turn_on, dual_radio_switch, Mac
    <3>2. dual_radio_on(m, target) \in Mac
      BY <1>1, <3>1 DEF Mac
    <3>3. /\ dual_radio_on(m, target).long_range_radio = LastPowered(m, target)
          /\ dual_radio_on(m, target).rx = m.rx
          /\ dual_radio_on(m, target).dualmac_is_on = m.dualmac_is_on
          /\ dual_radio_on(m, target).waiting_for_packet = m.waiting_for_packet
          /\ dual_radio_on(m, target).someone_is_sending = m.someone_is_sending
          /\ dual_radio_on(m, target).strobe_wait = m.strobe_wait
      BY <3>1 DEF Mac
    <3>4. PowerSelects = FALSE => LastPowered(m, target) = m.long_range_radio
      BY DEF LastPowered
    <3>5. FlagsKept(m, dual_radio_on(m, target))
      BY <3>1 DEF FlagsKept, Mac
    <3> QED BY <2>1, <3>2, <3>3, <3>4, <3>5 DEF Keeps
  <2>2. CASE ~(m.dualmac_is_on /\ m.on # BOTH_RADIO)
    BY <2>2 DEF dual_radio_on, Keeps, FlagsKept
  <2> QED BY <2>1, <2>2
<1>3. Keeps(m, dual_radio_off(m, target))
  <2>1. CASE m.dualmac_is_on /\ m.on # {}
    <3>1. dual_radio_off(m, target) =
            [m EXCEPT !.long_range_radio = LastPowered(m, target),
                      !.hw = m.hw \ target, !.on = m.on \ target]
      BY <2>1 DEF dual_radio_off, dual_radio_turn_off, dual_radio_switch, Mac
    <3>2. dual_radio_off(m, target) \in Mac
      BY <1>1, <3>1 DEF Mac
    <3>3. /\ dual_radio_off(m, target).long_range_radio = LastPowered(m, target)
          /\ dual_radio_off(m, target).rx = m.rx
          /\ dual_radio_off(m, target).dualmac_is_on = m.dualmac_is_on
          /\ dual_radio_off(m, target).waiting_for_packet = m.waiting_for_packet
          /\ dual_radio_off(m, target).someone_is_sending = m.someone_is_sending
          /\ dual_radio_off(m, target).strobe_wait = m.strobe_wait
      BY <3>1 DEF Mac
    <3>4. PowerSelects = FALSE => LastPowered(m, target) = m.long_range_radio
      BY DEF LastPowered
    <3>5. FlagsKept(m, dual_radio_off(m, target))
      BY <3>1 DEF FlagsKept, Mac
    <3> QED BY <2>1, <3>2, <3>3, <3>4, <3>5 DEF Keeps
  <2>2. CASE ~(m.dualmac_is_on /\ m.on # {})
    BY <2>2 DEF dual_radio_off, Keeps, FlagsKept
  <2> QED BY <2>1, <2>2
<1> QED BY <1>2, <1>3

\* Settling a record only empties the buffers of radios that are off.
LEMMA SettledKeeps ==
  ASSUME NEW m \in Mac
  PROVE  /\ Settled(m) \in Mac
         /\ Settled(m).long_range_radio = m.long_range_radio
         /\ Settled(m).dualmac_is_on = m.dualmac_is_on
         /\ Settled(m).on = m.on
         /\ Settled(m).hw = m.hw
         /\ Settled(m).waiting_for_packet = m.waiting_for_packet
         /\ Settled(m).someone_is_sending = m.someone_is_sending
         /\ \A x \in Radio : Settled(m).rx[x] \in {m.rx[x], Null}
BY DEF Settled, Mac

\* A step of node n that transmits nothing.
LEMMA BecomesChanges ==
  ASSUME mac \in [Node -> Mac], NEW n \in Node, NEW m \in Mac, Becomes(n, m)
  PROVE  /\ mac' \in [Node -> Mac]
         /\ mac'[n] = Settled(m)
         /\ \A h \in Node : h # n => mac'[h] = mac[h]
BY SettledKeeps DEF Becomes

\* A step of node n that transmits f on r.
LEMMA TransmitsChanges ==
  ASSUME mac \in [Node -> Mac], NEW n \in Node, NEW m \in Mac, NEW r \in Radio,
         NEW f \in Frame, Transmits(n, r, f, m)
  PROVE  /\ mac' \in [Node -> Mac]
         /\ mac'[n] = Settled(m)
         /\ \A h \in Node : h # n => Overhears(mac[h], mac'[h], r, f)
         /\ air' = air \cup {[type |-> f.type, of |-> f.of, radio |-> r]}
<1>1. PICK hearers \in SUBSET {h \in Node \ {n} : r \in mac[h].hw /\ mac[h].rx[r] = Null} :
        mac' = [h \in Node |-> IF h = n THEN Settled(m)
                               ELSE IF h \in hearers THEN [mac[h] EXCEPT !.rx[r] = f]
                               ELSE mac[h]]
  BY DEF Transmits
<1>2. \A h \in Node : [mac[h] EXCEPT !.rx[r] = f] \in Mac
  BY DEF Mac
<1>3. \A h \in Node : /\ Overhears(mac[h], mac[h], r, f)
                      /\ Overhears(mac[h], [mac[h] EXCEPT !.rx[r] = f], r, f)
  BY <1>2 DEF Overhears, Mac
<1>4. Settled(m) \in Mac
  BY SettledKeeps
<1>5. mac' \in [Node -> Mac] /\ mac'[n] = Settled(m)
  BY <1>1, <1>2, <1>4
<1>6. \A h \in Node : h # n => Overhears(mac[h], mac'[h], r, f)
  BY <1>1, <1>3
<1>7. air' = air \cup {[type |-> f.type, of |-> f.of, radio |-> r]}
  BY DEF Transmits
<1> QED BY <1>5, <1>6, <1>7

-----------------------------------------------------------------------------
(* The records the handlers build *)

\* m is a record a node with record a may reach in one step: duty cycling is not
\* switched on or off, without it no radio is powered on or off, the flags go with
\* the radios, and frames are taken from the buffers but not put there.
Derived(a, m) ==
  /\ m \in Mac
  /\ m.dualmac_is_on = a.dualmac_is_on
  /\ a.dualmac_is_on = FALSE => m.hw = a.hw
  /\ FlagsKept(a, m)
  /\ BuffersKept(a, m)

\* m has the counter of heard strobes and, on cooja, the selected radio of a.
Undisturbed(a, m) ==
  /\ m.someone_is_sending = a.someone_is_sending
  /\ PowerSelects = FALSE => m.long_range_radio = a.long_range_radio

\* Turning radios on or off derives a record; so do the operators of the lemmas below.
LEMMA DerivedByRadio ==
  ASSUME NEW a, NEW m, Derived(a, m), NEW target \in SUBSET Radio
  PROVE  /\ Derived(a, dual_radio_on(m, target))
         /\ Derived(a, dual_radio_off(m, target))
         /\ Undisturbed(m, dual_radio_on(m, target))
         /\ Undisturbed(m, dual_radio_off(m, target))
<1>1. m \in Mac
  BY DEF Derived
<1>2. Keeps(m, dual_radio_on(m, target)) /\ Keeps(m, dual_radio_off(m, target))
  BY <1>1, RadioKeeps
<1>3. \A k : Keeps(m, k) => Derived(a, k) /\ Undisturbed(m, k)
  BY DEF Derived, Undisturbed, Keeps, FlagsKept, BuffersKept
<1> QED BY <1>2, <1>3

\* Selecting a radio derives a record.
LEMMA DerivedBySwitch ==
  ASSUME NEW a, NEW m, Derived(a, m), NEW r \in Radio
  PROVE  /\ Derived(a, dual_radio_switch(m, r))
         /\ dual_radio_switch(m, r).long_range_radio = r
         /\ dual_radio_switch(m, r).someone_is_sending = m.someone_is_sending
BY DEF Derived, FlagsKept, BuffersKept, dual_radio_switch, Mac

\* Reading a frame derives a record.
LEMMA DerivedByRead ==
  ASSUME mac \in [Node -> Mac], NEW n \in Node, NEW r \in Radio
  PROVE  /\ Derived(mac[n], Read(n, r))
         /\ Undisturbed(mac[n], Read(n, r))
         /\ \A x \in Radio : Read(n, r).rx[x] \in {mac[n].rx[x], Null}
BY DEF Derived, FlagsKept, BuffersKept, Undisturbed, Read, Mac

\* Setting waiting_for_packet derives a record.
LEMMA DerivedByWaiting ==
  ASSUME NEW a, NEW m, Derived(a, m), NEW w \in {0, 1, 2}
  PROVE  /\ Derived(a, [m EXCEPT !.waiting_for_packet = w])
         /\ Undisturbed(m, [m EXCEPT !.waiting_for_packet = w])
BY DEF Derived, FlagsKept, BuffersKept, Undisturbed, Mac

\* Starting or ending strobe_wait derives a record.
LEMMA DerivedByStrobeWait ==
  ASSUME NEW a, NEW m, Derived(a, m), NEW w \in {0, 1, 2}, NEW s \in BOOLEAN
  PROVE  /\ Derived(a, [m EXCEPT !.waiting_for_packet = w, !.strobe_wait = s])
         /\ Undisturbed(m, [m EXCEPT !.waiting_for_packet = w, !.strobe_wait = s])
<1> DEFINE k == [m EXCEPT !.waiting_for_packet = w, !.strobe_wait = s]
<1>1. m \in Mac
  BY DEF Derived
<1>2. k \in Mac
  <2>1. [m EXCEPT !.waiting_for_packet = w] \in Mac
    BY <1>1 DEF Mac
  <2>2. k = [[m EXCEPT !.waiting_for_packet = w] EXCEPT !.strobe_wait = s]
    BY <1>1 DEF Mac
  <2>3. \A x \in Mac : [x EXCEPT !.strobe_wait = s] \in Mac
    BY Zenon DEF Mac
  <2> QED BY <2>1, <2>2, <2>3
<1>3. /\ k.dualmac_is_on = m.dualmac_is_on
      /\ k.hw = m.hw /\ k.on = m.on /\ k.rx = m.rx
      /\ k.someone_is_sending = m.someone_is_sending
      /\ k.long_range_radio = m.long_range_radio
  BY <1>1 DEF Mac
<1> QED BY <1>2, <1>3 DEF Derived, FlagsKept, BuffersKept, Undisturbed

\* Setting someone_is_sending derives a record.
LEMMA DerivedBySomeone ==
  ASSUME NEW a, NEW m, Derived(a, m), NEW w \in {0, 1, 2}
  PROVE  /\ Derived(a, [m EXCEPT !.someone_is_sending = w])
         /\ [m EXCEPT !.someone_is_sending = w].long_range_radio = m.long_range_radio
         /\ [m EXCEPT !.someone_is_sending = w].someone_is_sending = w
BY DEF Derived, FlagsKept, BuffersKept, Undisturbed, Mac

\* The record send_packet leaves before it sends the data.
LEMMA DerivedBySwitchedBack ==
  ASSUME mac \in [Node -> Mac], NEW n \in Node
  PROVE  /\ Derived(mac[n], SwitchedBack(n))
         /\ SwitchedBack(n).someone_is_sending = mac[n].someone_is_sending
         /\ PowerSelects = FALSE /\ mac[n].long_range_radio = "LONG_RADIO" =>
              SwitchedBack(n).long_range_radio =
                IF sending[n].was_short THEN "SHORT_RADIO" ELSE "LONG_RADIO"
<1> DEFINE off == dual_radio_off(mac[n], LONG_RADIO)
<1>1. Derived(mac[n], mac[n])
  BY DEF Derived, FlagsKept, BuffersKept
<1>2. LONG_RADIO \in SUBSET Radio
  BY DEF LONG_RADIO, Radio
<1>3. Derived(mac[n], off) /\ Undisturbed(mac[n], off)
  BY <1>1, <1>2, DerivedByRadio
<1>4. "SHORT_RADIO" \in Radio
  BY DEF Radio
<1>5. /\ Derived(mac[n], dual_radio_switch(off, "SHORT_RADIO"))
      /\ dual_radio_switch(off, "SHORT_RADIO").long_range_radio = "SHORT_RADIO"
      /\ dual_radio_switch(off, "SHORT_RADIO").someone_is_sending = off.someone_is_sending
  BY <1>3, <1>4, DerivedBySwitch
<1>6. SwitchedBack(n) =
        IF sending[n].was_short THEN dual_radio_switch(off, "SHORT_RADIO") ELSE off
  BY DEF SwitchedBack
<1> HIDE DEF off
<1> QED BY <1>3, <1>5, <1>6 DEF Undisturbed

\* Going back to being asleep derives a record.
LEMMA DerivedByAsleep ==
  ASSUME NEW a, NEW m, Derived(a, m)
  PROVE  Derived(a, Asleep(m)) /\ Undisturbed(m, Asleep(m))
<1>1. BOTH_RADIO \in SUBSET Radio
  BY DEF BOTH_RADIO
<1>2. /\ Derived(a, dual_radio_off(m, BOTH_RADIO))
      /\ Undisturbed(m, dual_radio_off(m, BOTH_RADIO))
  BY <1>1, DerivedByRadio
<1>3. Derived(a, Asleep(m)) /\ Undisturbed(dual_radio_off(m, BOTH_RADIO), Asleep(m))
  BY <1>2, DerivedByWaiting DEF Asleep
<1> QED BY <1>2, <1>3 DEF Undisturbed

\* Both phases of cpowercycle derive a record.
LEMMA DerivedByCycle ==
  ASSUME NEW m \in Mac
  PROVE  Derived(m, CycleOver(m)) /\ Undisturbed(m, CycleOver(m))
<1>1. BOTH_RADIO \in SUBSET Radio
  BY DEF BOTH_RADIO
<1>2. m.waiting_for_packet \in {0, 1, 2}
  BY DEF Mac
<1>3. Derived(m, m)
  BY DEF Derived, FlagsKept, BuffersKept
<1>4. CASE m.waiting_for_packet = 0
  <2>1. CycleOver(m) = dual_radio_off(m, BOTH_RADIO)
    BY <1>4 DEF CycleOver
  <2> QED BY <1>1, <1>3, <2>1, DerivedByRadio
<1>5. CASE m.waiting_for_packet = 1
  <2>1. CycleOver(m) = [m EXCEPT !.waiting_for_packet = 2]
    BY <1>5 DEF CycleOver
  <2>2. /\ Derived(m, [m EXCEPT !.waiting_for_packet = 2])
        /\ Undisturbed(m, [m EXCEPT !.waiting_for_packet = 2])
    BY <1>3, DerivedByWaiting
  <2> QED BY <2>1, <2>2
<1>6. CASE m.waiting_for_packet = 2
  <2> DEFINE heard == [m EXCEPT !.waiting_for_packet = 0]
  <2>1. CycleOver(m) = dual_radio_off(heard, BOTH_RADIO)
    BY <1>6 DEF CycleOver
  <2>2. Derived(m, heard) /\ Undisturbed(m, heard)
    BY <1>3, DerivedByWaiting
  <2> HIDE DEF heard
  <2>3. /\ Derived(m, dual_radio_off(heard, BOTH_RADIO))
        /\ Undisturbed(heard, dual_radio_off(heard, BOTH_RADIO))
    BY <1>1, <2>2, DerivedByRadio
  <2> QED BY <2>1, <2>2, <2>3 DEF Undisturbed
<1> QED BY <1>2, <1>4, <1>5, <1>6

\* What input_packet does first, for data and for strobes, derives a record.
LEMMA DerivedByHearing ==
  ASSUME mac \in [Node -> Mac], NEW n \in Node, NEW r \in Radio
  PROVE  /\ Derived(mac[n], DataHeard(n, r))
         /\ Derived(mac[n], StrobeHeard(n, r))
         /\ StrobeHeard(n, r).long_range_radio = r
<1>1. Derived(mac[n], Read(n, r))
  BY DerivedByRead
<1>2. /\ Derived(mac[n], [Read(n, r) EXCEPT !.someone_is_sending = 0])
      /\ Derived(mac[n], [Read(n, r) EXCEPT !.someone_is_sending = 2])
  BY <1>1, DerivedBySomeone
<1> QED BY <1>2, DerivedBySwitch DEF DataHeard, StrobeHeard

-----------------------------------------------------------------------------
(* The inductive invariant and the steps that preserve it *)

\* A node that sends heard no strobe since it began, and on cooja it keeps the
\* long radio selected, and in was_short the radio of the packet's address, until
\* it sends the data.
Sends(m, s) ==
  /\ m.someone_is_sending = 0
  /\ PowerSelects = FALSE =>
       /\ s.was_short <=> AddrRadio[s.packet] = "SHORT_RADIO"
       /\ s.pc # "ack" => m.long_range_radio = "LONG_RADIO"

SendInv == \A n \in Node : sending[n] # Null => Sends(mac[n], sending[n])

IndInv == TypeOK /\ SendInv

\* What a step does to the record of a node that does not take it.
Bystander(m, m2) ==
  /\ m2.long_range_radio = m.long_range_radio
  /\ m2.dualmac_is_on = m.dualmac_is_on
  /\ m2.on = m.on
  /\ m2.hw = m.hw
  /\ m2.waiting_for_packet = m.waiting_for_packet
  /\ m2.someone_is_sending = m.someone_is_sending

\* What a step of node n does to the records: its own becomes derived, and in the
\* others only the buffers may change.
StepOf(n) ==
  /\ mac' \in [Node -> Mac]
  /\ Derived(mac[n], mac'[n])
  /\ \A h \in Node : h # n => Bystander(mac[h], mac'[h])

\* A step of n to a derived record, silent or not.
LEMMA RecordStep ==
  ASSUME mac \in [Node -> Mac], NEW n \in Node, NEW m, Derived(mac[n], m),
         Becomes(n, m) \/ \E r \in Radio, f \in Frame : Transmits(n, r, f, m)
  PROVE  /\ StepOf(n)
         /\ mac'[n].long_range_radio = m.long_range_radio
         /\ mac'[n].someone_is_sending = m.someone_is_sending
<1>1. m \in Mac
  BY DEF Derived
<1>2. /\ Derived(mac[n], Settled(m))
      /\ Settled(m).long_range_radio = m.long_range_radio
      /\ Settled(m).someone_is_sending = m.someone_is_sending
  BY <1>1, SettledKeeps DEF Derived, FlagsKept, BuffersKept
<1>3. \A h \in Node : Bystander(mac[h], mac[h])
  BY DEF Bystander
<1>4. CASE Becomes(n, m)
  <2>1. mac' \in [Node -> Mac] /\ mac'[n] = Settled(m)
    BY <1>1, <1>4, BecomesChanges
  <2>2. \A h \in Node : h # n => mac'[h] = mac[h]
    BY <1>1, <1>4, BecomesChanges
  <2> QED BY <1>2, <1>3, <2>1, <2>2 DEF StepOf
<1>5. ASSUME NEW r \in Radio, NEW f \in Frame, Transmits(n, r, f, m)
      PROVE  /\ StepOf(n)
             /\ mac'[n].long_range_radio = m.long_range_radio
             /\ mac'[n].someone_is_sending = m.someone_is_sending
  <2>1. mac' \in [Node -> Mac] /\ mac'[n] = Settled(m)
    BY <1>1, <1>5, TransmitsChanges
  <2>2. \A h \in Node : h # n => Overhears(mac[h], mac'[h], r, f)
    BY <1>1, <1>5, TransmitsChanges
  <2>3. \A h \in Node : h # n => Bystander(mac[h], mac'[h])
    BY <2>2 DEF Overhears, Bystander
  <2> QED BY <1>2, <2>1, <2>3 DEF StepOf
<1> QED BY <1>4, <1>5

\* Steps that leave send_packet's locals alone, of a node that is not sending.
LEMMA IdleStep ==
  ASSUME SendInv, NEW n \in Node, StepOf(n), Idle(n), UNCHANGED sending
  PROVE  SendInv'
BY DEF SendInv, StepOf, Bystander, Idle, Sends

\* Steps of a sending node: only its own locals change, and it still Sends.
LEMMA SendingStep ==
  ASSUME SendInv, NEW n \in Node, StepOf(n),
         \A h \in Node : h # n => sending'[h] = sending[h],
         sending'[n] # Null => Sends(mac'[n], sending'[n])
  PROVE  SendInv'
BY DEF SendInv, StepOf, Bystander, Sends

\* Steps that begin or refuse a send.
LEMMA SendSteps ==
  ASSUME IndInv, NEW n \in Node, NEW p \in Packet,
         SendBusy(n, p) \/ SendError(n, p) \/ SendBegin(n, p)
  PROVE  StepOf(n) /\ IndInv'
<1> USE DEF IndInv
<1>1. mac \in [Node -> Mac] /\ Derived(mac[n], mac[n])
  BY DEF TypeOK, Derived, FlagsKept, BuffersKept
<1>2. AddrRadio[p] \in Radio /\ "LONG_RADIO" \in Radio
  BY DualMacAssumption DEF Radio
<1>3. Derived(mac[n], dual_radio_switch(mac[n], AddrRadio[p]))
  BY <1>1, <1>2, DerivedBySwitch
<1>4. tries' \in [Packet -> 0..MaxTries]
  <2>1. tries[p] < MaxTries /\ tries' = [tries EXCEPT ![p] = tries[p] + 1]
    BY DEF SendBusy, SendError, SendBegin, Calls
  <2>2. tries[p] + 1 \in 0..MaxTries
    BY <2>1, DualMacAssumption DEF TypeOK
  <2> QED BY <2>1, <2>2 DEF TypeOK
<1>5. CASE SendBusy(n, p) \/ SendError(n, p)
  <2>1. StepOf(n)
    BY <1>1, <1>3, <1>5, RecordStep DEF SendBusy, SendError
  <2>2. SendInv'
    BY <1>5, <2>1, IdleStep DEF SendBusy, SendError, Calls
  <2>3. TypeOK'
    BY <1>4, <1>5, <2>1 DEF SendBusy, SendError, StepOf, TypeOK, Status
  <2> QED BY <2>1, <2>2, <2>3
<1>6. CASE SendBegin(n, p)
  <2> DEFINE off == dual_radio_off(dual_radio_switch(mac[n], AddrRadio[p]), BOTH_RADIO)
             m   == dual_radio_on(dual_radio_switch(off, "LONG_RADIO"), LONG_RADIO)
             s   == [pc |-> IF Dst[p] = Null /\ off.long_range_radio = "SHORT_RADIO"
                            THEN "data" ELSE "strobe",
                     packet |-> p, was_short |-> off.long_range_radio = "SHORT_RADIO",
                     strobed |-> FALSE, collisions |-> FALSE]
  <2>1. LONG_RADIO \in SUBSET Radio /\ BOTH_RADIO \in SUBSET Radio
    BY DEF LONG_RADIO, BOTH_RADIO, Radio
  <2>2. /\ Derived(mac[n], off)
        /\ Undisturbed(dual_radio_switch(mac[n], AddrRadio[p]), off)
    BY <1>3, <2>1, DerivedByRadio
  <2>3. /\ dual_radio_switch(mac[n], AddrRadio[p]).long_range_radio = AddrRadio[p]
        /\ dual_radio_switch(mac[n], AddrRadio[p]).someone_is_sending =
             mac[n].someone_is_sending
    BY <1>1, <1>2, DerivedBySwitch
  <2>4. /\ off.someone_is_sending = mac[n].someone_is_sending
        /\ PowerSelects = FALSE => off.long_range_radio = AddrRadio[p]
    BY <2>2, <2>3 DEF Undisturbed
  <2>5. Becomes(n, m) /\ sending' = [sending EXCEPT ![n] = s]
    BY <1>6 DEF SendBegin
  <2> HIDE DEF off
  <2>6. /\ Derived(mac[n], dual_radio_switch(off, "LONG_RADIO"))
        /\ dual_radio_switch(off, "LONG_RADIO").long_range_radio = "LONG_RADIO"
        /\ dual_radio_switch(off, "LONG_RADIO").someone_is_sending =
             off.someone_is_sending
    BY <1>2, <2>2, DerivedBySwitch
  <2>7. Derived(mac[n], m) /\ Undisturbed(dual_radio_switch(off, "LONG_RADIO"), m)
    BY <2>1, <2>6, DerivedByRadio
  <2>8. /\ m.someone_is_sending = mac[n].someone_is_sending
        /\ PowerSelects = FALSE => m.long_range_radio = "LONG_RADIO"
    BY <2>4, <2>6, <2>7 DEF Undisturbed
  <2> HIDE DEF m
  <2>9. /\ StepOf(n)
        /\ mac'[n].long_range_radio = m.long_range_radio
        /\ mac'[n].someone_is_sending = m.someone_is_sending
    BY <1>1, <2>5, <2>7, RecordStep
  <2>10. s \in Sending
    BY DEF Sending
  <2>11. mac[n].someone_is_sending = 0
    BY <1>6 DEF SendBegin
  <2>12. Sends(mac'[n], s)
    <3>1. s.was_short <=> off.long_range_radio = "SHORT_RADIO"
      OBVIOUS
    <3>2. s.packet = p
      OBVIOUS
    <3> HIDE DEF s
    <3> QED BY <2>4, <2>8, <2>9, <2>11, <3>1, <3>2 DEF Sends
  <2>13. sending' \in [Node -> Sending \cup {Null}]
    BY <2>5, <2>10 DEF TypeOK
  <2> HIDE DEF s
  <2>14. sending'[n] = s /\ \A h \in Node : h # n => sending'[h] = sending[h]
    BY <2>5 DEF TypeOK
  <2>15. SendInv'
    BY <2>9, <2>12, <2>14, SendingStep
  <2>16. TypeOK'
    BY <1>4, <1>6, <2>9, <2>13 DEF SendBegin, StepOf, TypeOK, Status
  <2> QED BY <2>9, <2>15, <2>16
<1> QED BY <1>5, <1>6

\* The strobe loop.
LEMMA StrobeSteps ==
  ASSUME IndInv, NEW n \in Node, StrobeRead(n) \/ StrobeSend(n)
  PROVE  StepOf(n) /\ IndInv'
<1> USE DEF IndInv
<1>1. mac \in [Node -> Mac] /\ Derived(mac[n], mac[n])
  BY DEF TypeOK, Derived, FlagsKept, BuffersKept
<1>2. /\ sending[n] # Null /\ sending[n].pc = "strobe"
      /\ sending[n] \in Sending /\ Sends(mac[n], sending[n])
  BY DEF StrobeRead, StrobeSend, Idle, TypeOK, SendInv
<1>3. CASE StrobeRead(n)
  <2>1. PICK r \in Readable(n) :
          /\ Becomes(n, Read(n, r))
          /\ LET f == mac[n].rx[r] IN
             sending' = [sending EXCEPT
               ![n].pc = IF f.type = "STROBE_ACK" /\ Receiver(f) = n THEN "data" ELSE @,
               ![n].collisions = @ \/ f.type = "STROBE"]
    BY <1>3 DEF StrobeRead
  <2>2. mac[n].long_range_radio \in Radio
    BY <1>1 DEF Mac
  <2>3. r \in Radio
    BY <2>1, <2>2 DEF Readable
  <2>4. Derived(mac[n], Read(n, r)) /\ Undisturbed(mac[n], Read(n, r))
    BY <1>1, <2>3, DerivedByRead
  <2>5. /\ StepOf(n)
        /\ mac'[n].long_range_radio = Read(n, r).long_range_radio
        /\ mac'[n].someone_is_sending = Read(n, r).someone_is_sending
    BY <1>1, <2>1, <2>4, RecordStep
  <2>6. PICK c \in {"strobe", "data"}, k \in BOOLEAN :
          sending' = [sending EXCEPT ![n] = [sending[n] EXCEPT !.pc = c, !.collisions = k]]
    <3> DEFINE f == mac[n].rx[r]
               c == IF f.type = "STROBE_ACK" /\ Receiver(f) = n THEN "data" ELSE "strobe"
               k == sending[n].collisions \/ f.type = "STROBE"
    <3>1. sending' = [sending EXCEPT ![n] = [sending[n] EXCEPT !.pc = c, !.collisions = k]]
      BY <1>2, <2>1 DEF Sending, TypeOK
    <3> QED BY <3>1
  <2>7. /\ [sending[n] EXCEPT !.pc = c, !.collisions = k] \in Sending
        /\ [sending[n] EXCEPT !.pc = c, !.collisions = k].packet = sending[n].packet
        /\ [sending[n] EXCEPT !.pc = c, !.collisions = k].was_short = sending[n].was_short
    BY <1>2 DEF Sending
  <2>8. sending' \in [Node -> Sending \cup {Null}]
    BY <2>6, <2>7 DEF TypeOK
  <2>9. /\ sending'[n].packet = sending[n].packet
        /\ sending'[n].was_short = sending[n].was_short
        /\ \A h \in Node : h # n => sending'[h] = sending[h]
    BY <2>6, <2>7 DEF TypeOK
  <2>10. Sends(mac'[n], sending'[n])
    BY <1>2, <2>4, <2>5, <2>9 DEF Sends, Undisturbed
  <2>11. SendInv'
    BY <2>5, <2>9, <2>10, SendingStep
  <2>12. TypeOK'
    BY <1>3, <2>5, <2>8 DEF StrobeRead, StepOf, TypeOK, historyVars
  <2> QED BY <2>5, <2>11, <2>12
<1>4. CASE StrobeSend(n)
  <2> DEFINE p == sending[n].packet
             m == IF Dst[p] = Null THEN dual_radio_off(mac[n], LONG_RADIO)
                  ELSE dual_radio_on(mac[n], LONG_RADIO)
  <2>1. /\ p \in Packet
        /\ mac[n].long_range_radio \in Radio
        /\ [type |-> "STROBE", of |-> p] \in Frame
    BY <1>1, <1>2 DEF Sending, Mac, Frame
  <2>2. LONG_RADIO \in SUBSET Radio
    BY DEF LONG_RADIO, Radio
  <2>3. Derived(mac[n], m) /\ Undisturbed(mac[n], m)
    BY <1>1, <2>2, DerivedByRadio
  <2>4. /\ Transmits(n, mac[n].long_range_radio, [type |-> "STROBE", of |-> p], m)
        /\ sending' = [sending EXCEPT ![n].strobed = TRUE]
    BY <1>4 DEF StrobeSend
  <2> HIDE DEF m, p
  <2>5. /\ StepOf(n)
        /\ mac'[n].long_range_radio = m.long_range_radio
        /\ mac'[n].someone_is_sending = m.someone_is_sending
    BY <1>1, <2>1, <2>3, <2>4, RecordStep
  <2>6. /\ [sending[n] EXCEPT !.strobed = TRUE] \in Sending
        /\ [sending[n] EXCEPT !.strobed = TRUE].packet = sending[n].packet
        /\ [sending[n] EXCEPT !.strobed = TRUE].was_short = sending[n].was_short
    BY <1>2 DEF Sending
  <2>7. /\ sending' \in [Node -> Sending \cup {Null}]
        /\ sending'[n].packet = sending[n].packet
        /\ sending'[n].was_short = sending[n].was_short
        /\ \A h \in Node : h # n => sending'[h] = sending[h]
    BY <2>4, <2>6 DEF TypeOK
  <2>8. Sends(mac'[n], sending'[n])
    BY <1>2, <2>3, <2>5, <2>7 DEF Sends, Undisturbed
  <2>9. SendInv'
    BY <2>5, <2>7, <2>8, SendingStep
  <2>10. TypeOK'
    BY <1>4, <2>5, <2>7 DEF StrobeSend, StepOf, TypeOK
  <2> QED BY <2>5, <2>9, <2>10
<1> QED BY <1>3, <1>4

\* What Returns leaves of send_packet's locals.
LEMMA ReturnsTypes ==
  ASSUME TypeOK, NEW n \in Node, NEW s \in Status, Returns(n, s)
  PROVE  /\ status' \in [Packet -> Status \cup {"none"}]
         /\ sending' \in [Node -> Sending \cup {Null}]
         /\ sending'[n] = Null
         /\ \A h \in Node : h # n => sending'[h] = sending[h]
BY DEF Returns, TypeOK

\* The data is sent, or is not after a collision.
LEMMA DataSteps ==
  ASSUME IndInv, NEW n \in Node, SendEnds(n)
  PROVE  StepOf(n) /\ IndInv'
<1> USE DEF IndInv
<1>1. mac \in [Node -> Mac] /\ Derived(mac[n], mac[n])
  BY DEF TypeOK, Derived, FlagsKept, BuffersKept
<1>2. /\ sending[n] # Null /\ sending[n] \in Sending /\ Sends(mac[n], sending[n])
  BY DEF SendEnds, SendCollided, SendBroadcast, SendUnicast, StrobesOver, Idle, TypeOK, SendInv
<1>3. /\ Derived(mac[n], SwitchedBack(n))
      /\ SwitchedBack(n).someone_is_sending = 0
      /\ SwitchedBack(n).long_range_radio \in Radio
  BY <1>1, <1>2, DerivedBySwitchedBack DEF Sends, Derived, Mac
<1>4. DataFrame(n) \in Frame
  BY <1>2 DEF DataFrame, Frame, Sending
<1>5. CASE SendCollided(n)
  <2> DEFINE m == [SwitchedBack(n) EXCEPT !.someone_is_sending = 1]
  <2>1. Derived(mac[n], m)
    BY <1>3, DerivedBySomeone
  <2>2. [SwitchedBack(n) EXCEPT !.someone_is_sending = @ + 1] = m
    BY <1>3
  <2>3. Becomes(n, m) /\ Returns(n, "MAC_TX_COLLISION")
    BY <1>5, <2>2 DEF SendCollided
  <2> HIDE DEF m
  <2>4. StepOf(n)
    BY <1>1, <2>1, <2>3, RecordStep
  <2>5. /\ status' \in [Packet -> Status \cup {"none"}]
        /\ sending' \in [Node -> Sending \cup {Null}]
        /\ sending'[n] = Null
        /\ \A h \in Node : h # n => sending'[h] = sending[h]
    BY <2>3, ReturnsTypes DEF Status
  <2>6. SendInv'
    BY <2>4, <2>5, SendingStep
  <2>7. TypeOK'
    BY <1>5, <2>4, <2>5 DEF SendCollided, StepOf, TypeOK, historyVars
  <2> QED BY <2>4, <2>6, <2>7
<1>6. CASE SendBroadcast(n)
  <2>1. StepOf(n)
    BY <1>1, <1>3, <1>4, <1>6, RecordStep DEF SendBroadcast
  <2>2. /\ status' \in [Packet -> Status \cup {"none"}]
        /\ sending' \in [Node -> Sending \cup {Null}]
        /\ sending'[n] = Null
        /\ \A h \in Node : h # n => sending'[h] = sending[h]
    BY <1>6, ReturnsTypes DEF Status, SendBroadcast
  <2>3. SendInv'
    BY <2>1, <2>2, SendingStep
  <2>4. TypeOK'
    BY <1>6, <2>1, <2>2 DEF SendBroadcast, StepOf, TypeOK
  <2> QED BY <2>1, <2>3, <2>4
<1>7. CASE SendUnicast(n)
  <2> DEFINE m == dual_radio_on(SwitchedBack(n), DataTarget(n))
  <2>1. DataTarget(n) \in SUBSET Radio
    BY DEF DataTarget, SHORT_RADIO, LONG_RADIO, Radio
  <2>2. Derived(mac[n], m) /\ Undisturbed(SwitchedBack(n), m)
    BY <1>3, <2>1, DerivedByRadio
  <2>3. /\ Transmits(n, SwitchedBack(n).long_range_radio, DataFrame(n), m)
        /\ sending' = [sending EXCEPT ![n].pc = "ack"]
    BY <1>7 DEF SendUnicast
  <2> HIDE DEF m
  <2>4. StepOf(n) /\ mac'[n].someone_is_sending = m.someone_is_sending
    BY <1>1, <1>3, <1>4, <2>2, <2>3, RecordStep
  <2>5. /\ [sending[n] EXCEPT !.pc = "ack"] \in Sending
        /\ [sending[n] EXCEPT !.pc = "ack"].packet = sending[n].packet
        /\ [sending[n] EXCEPT !.pc = "ack"].was_short = sending[n].was_short
        /\ [sending[n] EXCEPT !.pc = "ack"].pc = "ack"
    BY <1>2 DEF Sending
  <2>6. /\ sending' \in [Node -> Sending \cup {Null}]
        /\ sending'[n].packet = sending[n].packet
        /\ sending'[n].was_short = sending[n].was_short
        /\ sending'[n].pc = "ack"
        /\ \A h \in Node : h # n => sending'[h] = sending[h]
    BY <2>3, <2>5 DEF TypeOK
  <2>7. Sends(mac'[n], sending'[n])
    BY <1>2, <1>3, <2>2, <2>4, <2>6 DEF Sends, Undisturbed
  <2>8. SendInv'
    BY <2>4, <2>6, <2>7, SendingStep
  <2>9. TypeOK'
    BY <1>7, <2>4, <2>6 DEF SendUnicast, StepOf, TypeOK
  <2> QED BY <2>4, <2>8, <2>9
<1> QED BY <1>5, <1>6, <1>7 DEF SendEnds

\* The wait for the data ack.
LEMMA AckSteps ==
  ASSUME IndInv, NEW n \in Node, AckRead(n) \/ AckTimeout(n)
  PROVE  StepOf(n) /\ IndInv'
<1> USE DEF IndInv
<1>1. mac \in [Node -> Mac] /\ Derived(mac[n], mac[n])
  BY DEF TypeOK, Derived, FlagsKept, BuffersKept
<1>2. /\ sending[n] # Null /\ sending[n] \in Sending /\ Sends(mac[n], sending[n])
  BY DEF AckRead, AckTimeout, Idle, TypeOK, SendInv
<1>3. DataTarget(n) \in SUBSET Radio
  BY DEF DataTarget, SHORT_RADIO, LONG_RADIO, Radio
<1>4. CASE AckTimeout(n)
  <2>1. Derived(mac[n], dual_radio_off(mac[n], DataTarget(n)))
    BY <1>1, <1>3, DerivedByRadio
  <2>2. StepOf(n)
    BY <1>1, <1>4, <2>1, RecordStep DEF AckTimeout
  <2>3. /\ status' \in [Packet -> Status \cup {"none"}]
        /\ sending' \in [Node -> Sending \cup {Null}]
        /\ sending'[n] = Null
        /\ \A h \in Node : h # n => sending'[h] = sending[h]
    BY <1>4, ReturnsTypes DEF Status, AckTimeout
  <2>4. SendInv'
    BY <2>2, <2>3, SendingStep
  <2>5. TypeOK'
    BY <1>4, <2>2, <2>3 DEF AckTimeout, StepOf, TypeOK, historyVars
  <2> QED BY <2>2, <2>4, <2>5
<1>5. CASE AckRead(n)
  <2>1. PICK r \in Readable(n) :
          LET f == mac[n].rx[r] IN
          IF f.type = "DATA_ACK" /\ Receiver(f) = n
          THEN /\ Becomes(n, dual_radio_off(Read(n, r), DataTarget(n)))
               /\ Returns(n, "MAC_TX_OK")
               /\ credit' = [credit EXCEPT ![n] = @ - 1]
          ELSE /\ Becomes(n, Read(n, r))
               /\ UNCHANGED <<sending, status, credit>>
    BY <1>5 DEF AckRead
  <2>2. mac[n].long_range_radio \in Radio
    BY <1>1 DEF Mac
  <2>3. r \in Radio
    BY <2>1, <2>2 DEF Readable
  <2>4. Derived(mac[n], Read(n, r)) /\ Undisturbed(mac[n], Read(n, r))
    BY <1>1, <2>3, DerivedByRead
  <2>5. Derived(mac[n], dual_radio_off(Read(n, r), DataTarget(n)))
    BY <1>3, <2>4, DerivedByRadio
  <2>6. CASE /\ Becomes(n, dual_radio_off(Read(n, r), DataTarget(n)))
             /\ Returns(n, "MAC_TX_OK")
             /\ credit' = [credit EXCEPT ![n] = @ - 1]
    <3>1. StepOf(n)
      BY <1>1, <2>5, <2>6, RecordStep
    <3>2. /\ status' \in [Packet -> Status \cup {"none"}]
          /\ sending' \in [Node -> Sending \cup {Null}]
          /\ sending'[n] = Null
          /\ \A h \in Node : h # n => sending'[h] = sending[h]
      BY <2>6, ReturnsTypes DEF Status
    <3>3. SendInv'
      BY <3>1, <3>2, SendingStep
    <3>4. credit' \in [Node -> Int]
      BY <2>6 DEF TypeOK
    <3>5. TypeOK'
      BY <1>5, <3>1, <3>2, <3>4 DEF AckRead, StepOf, TypeOK
    <3> QED BY <3>1, <3>3, <3>5
  <2>7. CASE Becomes(n, Read(n, r)) /\ UNCHANGED <<sending, status, credit>>
    <3>1. /\ StepOf(n)
          /\ mac'[n].long_range_radio = Read(n, r).long_range_radio
          /\ mac'[n].someone_is_sending = Read(n, r).someone_is_sending
      BY <1>1, <2>4, <2>7, RecordStep
    <3>2. Sends(mac'[n], sending'[n])
      BY <1>2, <2>4, <2>7, <3>1 DEF Sends, Undisturbed
    <3>3. SendInv'
      BY <2>7, <3>1, <3>2, SendingStep
    <3>4. TypeOK'
      BY <1>5, <2>7, <3>1 DEF AckRead, StepOf, TypeOK
    <3> QED BY <3>1, <3>3, <3>4
  <2> QED BY <2>1, <2>6, <2>7
<1> QED BY <1>4, <1>5

\* The power cycle timer and the strobe_wait process.
LEMMA TimerSteps ==
  ASSUME IndInv, NEW n \in Node, Cycles(n) \/ StrobeWaitOver(n)
  PROVE  StepOf(n) /\ IndInv'
<1> USE DEF IndInv
<1>1. mac \in [Node -> Mac] /\ Derived(mac[n], mac[n]) /\ mac[n] \in Mac
  BY DEF TypeOK, Derived, FlagsKept, BuffersKept
<1>2. Idle(n) /\ UNCHANGED sending
  BY DEF Cycles, PowercycleOn, PowercycleOff, StrobeWaitOver
<1>3. StepOf(n) => SendInv'
  BY <1>2, IdleStep
<1>4. CASE PowercycleOn(n)
  <2> DEFINE k == IF mac[n].someone_is_sending > 0 THEN mac[n].someone_is_sending - 1 ELSE 0
             heard == [mac[n] EXCEPT !.someone_is_sending = k]
             m == IF heard.waiting_for_packet = 0
                  THEN dual_radio_on(heard, LONG_RADIO) ELSE heard
  <2>1. k \in {0, 1, 2}
    BY <1>1 DEF Mac
  <2> HIDE DEF k
  <2>2. Derived(mac[n], heard)
    BY <1>1, <2>1, DerivedBySomeone
  <2>3. LONG_RADIO \in SUBSET Radio
    BY DEF LONG_RADIO, Radio
  <2>4. Becomes(n, m)
    BY <1>4 DEF PowercycleOn, k
  <2> HIDE DEF heard
  <2>5. Derived(mac[n], m)
    BY <2>2, <2>3, DerivedByRadio
  <2> HIDE DEF m
  <2>6. StepOf(n)
    BY <1>1, <2>4, <2>5, RecordStep
  <2>7. TypeOK'
    BY <1>4, <2>6 DEF PowercycleOn, Rescheduled, StepOf, TypeOK, historyVars
  <2> QED BY <1>3, <2>6, <2>7
<1>5. CASE PowercycleOff(n)
  <2>1. Derived(mac[n], CycleOver(mac[n]))
    BY <1>1, DerivedByCycle
  <2>2. StepOf(n)
    BY <1>1, <1>5, <2>1, RecordStep DEF PowercycleOff
  <2>3. awake' \in [Node -> Nat]
    BY <1>5 DEF PowercycleOff, TypeOK
  <2>4. TypeOK'
    BY <1>5, <2>2, <2>3 DEF PowercycleOff, Rescheduled, StepOf, TypeOK
  <2> QED BY <1>3, <2>2, <2>4
<1>6. CASE StrobeWaitOver(n)
  <2> DEFINE off == dual_radio_off(mac[n], SHORT_RADIO)
             m == [off EXCEPT !.waiting_for_packet = 0, !.strobe_wait = FALSE]
  <2>1. SHORT_RADIO \in SUBSET Radio
    BY DEF SHORT_RADIO, Radio
  <2>2. Derived(mac[n], off)
    BY <1>1, <2>1, DerivedByRadio
  <2>3. Becomes(n, m)
    BY <1>6 DEF StrobeWaitOver
  <2> HIDE DEF off
  <2>4. Derived(mac[n], m)
    BY <2>2, DerivedByStrobeWait
  <2> HIDE DEF m
  <2>5. StepOf(n)
    BY <1>1, <2>3, <2>4, RecordStep
  <2>6. TypeOK'
    BY <1>6, <2>5 DEF StrobeWaitOver, StepOf, TypeOK, historyVars
  <2> QED BY <1>3, <2>5, <2>6
<1> QED BY <1>4, <1>5, <1>6 DEF Cycles

\* Data received.
LEMMA InputDataSteps ==
  ASSUME IndInv, NEW n \in Node, NEW r \in Radio, NEW p \in Packet,
         InputBroadcast(n, r, p) \/ InputUnicast(n, r, p)
  PROVE  StepOf(n) /\ IndInv'
<1> USE DEF IndInv
<1>1. mac \in [Node -> Mac]
  BY DEF TypeOK
<1>2. Idle(n) /\ UNCHANGED sending
  BY DEF InputBroadcast, InputUnicast, Inputs
<1>3. StepOf(n) => SendInv'
  BY <1>2, IdleStep
<1>4. Derived(mac[n], DataHeard(n, r))
  BY <1>1, DerivedByHearing
<1>5. Derived(mac[n], Asleep(DataHeard(n, r)))
  BY <1>4, DerivedByAsleep
<1>6. awake' \in [Node -> Nat]
  BY DEF InputBroadcast, InputUnicast, Inputs, TypeOK
<1>7. CASE InputBroadcast(n, r, p)
  <2> DEFINE on == dual_radio_on(dual_radio_off(DataHeard(n, r), LONG_RADIO), SHORT_RADIO)
             m == [on EXCEPT !.waiting_for_packet = 1, !.strobe_wait = TRUE]
  <2>1. SHORT_RADIO \in SUBSET Radio /\ LONG_RADIO \in SUBSET Radio
    BY DEF SHORT_RADIO, LONG_RADIO, Radio
  <2>2. Derived(mac[n], dual_radio_off(DataHeard(n, r), LONG_RADIO))
    BY <1>4, <2>1, DerivedByRadio
  <2>3. Derived(mac[n], on)
    BY <2>1, <2>2, DerivedByRadio
  <2>4. Becomes(n, m) \/ Becomes(n, Asleep(DataHeard(n, r)))
    BY <1>7 DEF InputBroadcast
  <2> HIDE DEF on
  <2>5. Derived(mac[n], m)
    BY <2>3, DerivedByStrobeWait
  <2> HIDE DEF m
  <2>6. StepOf(n)
    BY <1>1, <1>5, <2>4, <2>5, RecordStep
  <2>7. TypeOK'
    BY <1>6, <1>7, <2>6 DEF InputBroadcast, StepOf, TypeOK
  <2> QED BY <1>3, <2>6, <2>7
<1>8. CASE InputUnicast(n, r, p)
  <2> DEFINE m == dual_radio_switch(Asleep(DataHeard(n, r)), r)
  <2>1. Derived(mac[n], m) /\ m.long_range_radio = r
    BY <1>5, DerivedBySwitch
  <2>2. Transmits(n, m.long_range_radio, [type |-> "DATA_ACK", of |-> p], m)
    BY <1>8 DEF InputUnicast
  <2>3. [type |-> "DATA_ACK", of |-> p] \in Frame
    BY DEF Frame
  <2> HIDE DEF m
  <2>4. StepOf(n)
    BY <1>1, <2>1, <2>2, <2>3, RecordStep
  <2>5. id_array' \in [Node -> [Node -> Nat]]
    <3>1. Origin[p] \in Node /\ SeqId[p] \in Nat
      BY DualMacAssumption
    <3>2. id_array' \in {id_array, [id_array EXCEPT ![n][Origin[p]] = SeqId[p]]}
      BY <1>8 DEF InputUnicast
    <3> QED BY <3>1, <3>2 DEF TypeOK
  <2>6. delivered' \in [Packet -> Nat]
    BY <1>8 DEF InputUnicast, TypeOK
  <2>7. credit' \in [Node -> Int]
    <3>1. Src[p] \in Node
      BY DualMacAssumption
    <3>2. credit' = [credit EXCEPT ![Src[p]] = credit[Src[p]] + 1]
      BY <1>8 DEF InputUnicast
    <3>3. credit[Src[p]] + 1 \in Int
      BY <3>1 DEF TypeOK
    <3> QED BY <3>1, <3>2, <3>3 DEF TypeOK
  <2>8. TypeOK'
    BY <1>6, <1>8, <2>4, <2>5, <2>6, <2>7 DEF InputUnicast, StepOf, TypeOK
  <2> QED BY <1>3, <2>4, <2>8
<1> QED BY <1>7, <1>8

\* Strobes received, and frames of others.
LEMMA InputStrobeSteps ==
  ASSUME IndInv, NEW n \in Node, NEW r \in Radio,
         \/ \E p \in Packet : InputStrobe(n, r, p) \/ InputBroadcastStrobe(n, r, p)
         \/ \E f \in Frame : InputOther(n, r, f)
  PROVE  StepOf(n) /\ IndInv'
<1> USE DEF IndInv
<1>1. mac \in [Node -> Mac]
  BY DEF TypeOK
<1>2. Idle(n) /\ UNCHANGED sending
  BY DEF InputStrobe, InputBroadcastStrobe, InputOther, Inputs
<1>3. StepOf(n) => SendInv'
  BY <1>2, IdleStep
<1>4. /\ Derived(mac[n], DataHeard(n, r))
      /\ Derived(mac[n], StrobeHeard(n, r))
      /\ Derived(mac[n], Read(n, r))
  BY <1>1, DerivedByHearing, DerivedByRead
<1>5. awake' \in [Node -> Nat]
  <2>1. awake' = [awake EXCEPT ![n] = 0]
    BY DEF InputStrobe, InputBroadcastStrobe, InputOther, Inputs
  <2> QED BY <2>1 DEF TypeOK
<1>6. ASSUME NEW p \in Packet, InputStrobe(n, r, p)
      PROVE  StepOf(n) /\ IndInv'
  <2> DEFINE one == [StrobeHeard(n, r) EXCEPT !.someone_is_sending = 1]
             heard == [StrobeHeard(n, r) EXCEPT
                         !.someone_is_sending = 1, !.waiting_for_packet = 1]
             off == dual_radio_off(heard, BOTH_RADIO)
             m == dual_radio_on(off, {AddrRadio[p]})
  <2>1. BOTH_RADIO \in SUBSET Radio /\ {AddrRadio[p]} \in SUBSET Radio
    BY DualMacAssumption DEF BOTH_RADIO, Radio
  <2>2. Derived(mac[n], one)
    BY <1>4, DerivedBySomeone
  <2>3. heard = [one EXCEPT !.waiting_for_packet = 1]
    BY <1>4 DEF Derived, Mac
  <2>4. Transmits(n, m.long_range_radio, [type |-> "STROBE_ACK", of |-> p], m)
    BY <1>6 DEF InputStrobe
  <2>5. [type |-> "STROBE_ACK", of |-> p] \in Frame
    BY DEF Frame
  <2> HIDE DEF one, heard
  <2>6. Derived(mac[n], heard)
    BY <2>2, <2>3, DerivedByWaiting
  <2>7. Derived(mac[n], off)
    BY <2>1, <2>6, DerivedByRadio
  <2> HIDE DEF off
  <2>8. Derived(mac[n], m)
    BY <2>1, <2>7, DerivedByRadio
  <2> HIDE DEF m
  <2>9. m.long_range_radio \in Radio
    BY <2>8 DEF Derived, Mac
  <2>10. StepOf(n)
    BY <1>1, <2>4, <2>5, <2>8, <2>9, RecordStep
  <2>11. TypeOK'
    BY <1>5, <1>6, <2>10 DEF InputStrobe, StepOf, TypeOK
  <2> QED BY <1>3, <2>10, <2>11
<1>7. ASSUME NEW p \in Packet, InputBroadcastStrobe(n, r, p)
      PROVE  StepOf(n) /\ IndInv'
  <2>1. Derived(mac[n], [StrobeHeard(n, r) EXCEPT !.waiting_for_packet = 1])
    BY <1>4, DerivedByWaiting
  <2>2. StepOf(n)
    BY <1>1, <1>7, <2>1, RecordStep DEF InputBroadcastStrobe
  <2>3. TypeOK'
    BY <1>5, <1>7, <2>2 DEF InputBroadcastStrobe, StepOf, TypeOK
  <2> QED BY <1>3, <2>2, <2>3
<1>8. ASSUME NEW f \in Frame, InputOther(n, r, f)
      PROVE  StepOf(n) /\ IndInv'
  <2>1. \/ Becomes(n, DataHeard(n, r))
        \/ Becomes(n, StrobeHeard(n, r))
        \/ Becomes(n, Read(n, r))
    BY <1>8 DEF InputOther, Frame
  <2>2. StepOf(n)
    BY <1>1, <1>4, <2>1, RecordStep
  <2>3. TypeOK'
    BY <1>5, <1>8, <2>2 DEF InputOther, StepOf, TypeOK
  <2> QED BY <1>3, <2>2, <2>3
<1> QED BY <1>6, <1>7, <1>8

\* Every step is a step of one node, and preserves the invariant.
LEMMA EachStep ==
  ASSUME IndInv, Next
  PROVE  IndInv' /\ \E n \in Node : StepOf(n)
<1>1. PICK n \in Node :
        \/ Send(n)
        \/ StrobeRead(n) \/ StrobeSend(n) \/ SendEnds(n)
        \/ AckRead(n) \/ AckTimeout(n)
        \/ Cycles(n) \/ StrobeWaitOver(n)
        \/ Input(n)
  BY DEF Next
<1>2. CASE Send(n)
  BY <1>2, SendSteps DEF Send
<1>3. CASE StrobeRead(n) \/ StrobeSend(n)
  BY <1>3, StrobeSteps
<1>4. CASE SendEnds(n)
  BY <1>4, DataSteps
<1>5. CASE AckRead(n) \/ AckTimeout(n)
  BY <1>5, AckSteps
<1>6. CASE Cycles(n) \/ StrobeWaitOver(n)
  BY <1>6, TimerSteps
<1>7. CASE Input(n)
  <2>1. PICK r \in Radio :
          \/ \E p \in Packet : InputBroadcast(n, r, p) \/ InputUnicast(n, r, p)
          \/ \E p \in Packet : InputStrobe(n, r, p) \/ InputBroadcastStrobe(n, r, p)
          \/ \E f \in Frame : InputOther(n, r, f)
    BY <1>7 DEF Input
  <2>2. CASE \E p \in Packet : InputBroadcast(n, r, p) \/ InputUnicast(n, r, p)
    BY <2>2, InputDataSteps
  <2>3. CASE \/ \E p \in Packet : InputStrobe(n, r, p) \/ InputBroadcastStrobe(n, r, p)
             \/ \E f \in Frame : InputOther(n, r, f)
    BY <2>3, InputStrobeSteps
  <2> QED BY <2>1, <2>2, <2>3
<1> QED BY <1>1, <1>2, <1>3, <1>4, <1>5, <1>6, <1>7

\* The inductive invariant holds after dualmac_init.
LEMMA InitIndInv == Init => IndInv
<1> SUFFICES ASSUME Init PROVE IndInv
  OBVIOUS
<1>1. mac \in [Node -> Mac]
  BY DEF Init, Mac, BOTH_RADIO, Radio
<1>2. id_array \in [Node -> [Node -> Nat]]
  BY DEF Init
<1>3. tries \in [Packet -> 0..MaxTries]
  BY DualMacAssumption DEF Init
<1>4. TypeOK
  <2>1. /\ sending \in [Node -> Sending \cup {Null}]
        /\ cycle \in [Node -> {"on", "off", "unset"}]
        /\ status \in [Packet -> Status \cup {"none"}]
    BY DEF Init
  <2>2. /\ delivered \in [Packet -> Nat]
        /\ credit \in [Node -> Int]
        /\ awake \in [Node -> Nat]
    BY DEF Init
  <2> QED BY <1>1, <1>2, <1>3, <2>1, <2>2 DEF TypeOK
<1>5. SendInv
  BY DEF Init, SendInv
<1> QED BY <1>4, <1>5 DEF IndInv

\* The inductive invariant holds in every behaviour.
LEMMA Inductive == Spec => []IndInv
<1>1. IndInv /\ UNCHANGED vars => IndInv'
  BY DEF IndInv, TypeOK, SendInv, Sends, vars, historyVars
<1>2. IndInv /\ [Next]_vars => IndInv'
  BY <1>1, EachStep
<1> QED BY <1>2, InitIndInv, PTL DEF Spec

-----------------------------------------------------------------------------
(* The theorems *)

\* The types hold in every behaviour: in particular waiting_for_packet and
\* someone_is_sending never exceed 2, whatever send_packet, cpowercycle and
\* input_packet do in turn.
THEOREM TypeCorrect == Spec => []TypeOK
<1>1. IndInv => TypeOK
  BY DEF IndInv
<1> QED BY <1>1, Inductive, PTL

\* Why the server's radios are never powered off: no handler
\* of dualmac.c reaches the radios of a node whose dualmac_is_on is 0.
ServerInv ==
  \A n \in Node : n = Server => mac[n].dualmac_is_on = FALSE /\ mac[n].hw = BOTH_RADIO

\* In every behaviour the sink's radios are both powered, whatever it sends,
\* receives or answers: turn_off(1) gives it a 100% duty cycle.
THEOREM ServerListens == Spec => []ServerAlwaysListens
<1>1. Init => ServerInv
  <2> SUFFICES ASSUME Init, NEW n \in Node, n = Server
               PROVE  mac[n].dualmac_is_on = FALSE /\ mac[n].hw = BOTH_RADIO
    BY DEF ServerInv
  <2>1. mac[n].dualmac_is_on = (n # Server) /\ mac[n].hw = BOTH_RADIO
    BY DEF Init
  <2>2. (n # Server) = FALSE
    OBVIOUS
  <2> QED BY <2>1, <2>2
<1>2. IndInv /\ ServerInv /\ Next => ServerInv'
  BY EachStep DEF ServerInv, StepOf, Bystander, Derived
<1>3. ServerInv /\ UNCHANGED vars => ServerInv'
  BY DEF ServerInv, vars
<1>4. ServerInv => ServerAlwaysListens
  BY DEF ServerInv, ServerAlwaysListens
<1> QED BY <1>1, <1>2, <1>3, <1>4, Inductive, PTL DEF Spec

\* The frames a step adds to air, where it adds one that carries data.
LEMMA DataStep ==
  ASSUME IndInv, PowerSelects = FALSE, Next, DataOnAddressRadio
  PROVE  DataOnAddressRadio'
<1> SUFFICES ASSUME NEW f \in air', f.type = "DATA", f \notin air
             PROVE  f.radio = AddrRadio[f.of]
  BY DEF DataOnAddressRadio
<1>1. ASSUME NEW n \in Node, NEW r, NEW g, NEW m, Transmits(n, r, g, m), g.type # "DATA"
      PROVE  FALSE
  BY <1>1 DEF Transmits
<1>2. PICK n \in Node :
        \/ UNCHANGED air
        \/ \E r, m, p : \/ Transmits(n, r, [type |-> "STROBE", of |-> p], m)
                        \/ Transmits(n, r, [type |-> "DATA_ACK", of |-> p], m)
                        \/ Transmits(n, r, [type |-> "STROBE_ACK", of |-> p], m)
        \/ SendBroadcast(n) \/ SendUnicast(n)
  <2>1. PICK n \in Node :
          \/ Send(n)
          \/ StrobeRead(n) \/ StrobeSend(n) \/ SendEnds(n)
          \/ AckRead(n) \/ AckTimeout(n)
          \/ Cycles(n) \/ StrobeWaitOver(n)
          \/ Input(n)
    BY DEF Next
  <2>2. CASE Send(n)
    BY <2>2 DEF Send, SendBusy, SendError, SendBegin
  <2>3. CASE StrobeRead(n) \/ AckRead(n) \/ AckTimeout(n)
    BY <2>3 DEF StrobeRead, AckRead, AckTimeout, historyVars
  <2>4. CASE StrobeSend(n)
    BY <2>4 DEF StrobeSend
  <2>5. CASE SendEnds(n)
    BY <2>5 DEF SendEnds, SendCollided, historyVars
  <2>6. CASE Cycles(n) \/ StrobeWaitOver(n)
    BY <2>6 DEF Cycles, PowercycleOn, PowercycleOff, StrobeWaitOver, historyVars
  <2>7. CASE Input(n)
    <3>1. PICK r \in Radio :
            \/ \E p \in Packet : \/ InputBroadcast(n, r, p)
                                 \/ InputUnicast(n, r, p)
                                 \/ InputStrobe(n, r, p)
                                 \/ InputBroadcastStrobe(n, r, p)
            \/ \E k \in Frame : InputOther(n, r, k)
      BY <2>7 DEF Input
    <3>2. ASSUME NEW p \in Packet, InputBroadcast(n, r, p) \/ InputBroadcastStrobe(n, r, p)
          PROVE  UNCHANGED air
      BY <3>2 DEF InputBroadcast, InputBroadcastStrobe
    <3>3. ASSUME NEW p \in Packet, InputUnicast(n, r, p)
          PROVE  \E x, m : Transmits(n, x, [type |-> "DATA_ACK", of |-> p], m)
      BY <3>3 DEF InputUnicast
    <3>4. ASSUME NEW p \in Packet, InputStrobe(n, r, p)
          PROVE  \E x, m : Transmits(n, x, [type |-> "STROBE_ACK", of |-> p], m)
      BY <3>4 DEF InputStrobe
    <3>5. ASSUME NEW k \in Frame, InputOther(n, r, k)
          PROVE  UNCHANGED air
      BY <3>5 DEF InputOther
    <3> QED BY <3>1, <3>2, <3>3, <3>4, <3>5
  <2> QED BY <2>1, <2>2, <2>3, <2>4, <2>5, <2>6, <2>7
<1>3. SendBroadcast(n) \/ SendUnicast(n)
  BY <1>1, <1>2
<1>4. /\ StrobesOver(n) /\ sending[n] # Null
      /\ \E m : Transmits(n, SwitchedBack(n).long_range_radio, DataFrame(n), m)
  BY <1>3 DEF SendBroadcast, SendUnicast, StrobesOver, Idle
<1>5. /\ sending[n].pc # "ack" /\ sending[n] \in Sending
      /\ Sends(mac[n], sending[n]) /\ mac \in [Node -> Mac]
  BY <1>4 DEF StrobesOver, IndInv, SendInv, TypeOK
<1>6. /\ mac[n].long_range_radio = "LONG_RADIO"
      /\ sending[n].was_short <=> AddrRadio[sending[n].packet] = "SHORT_RADIO"
  BY <1>5 DEF Sends
<1>7. SwitchedBack(n).long_range_radio =
        IF sending[n].was_short THEN "SHORT_RADIO" ELSE "LONG_RADIO"
  BY <1>5, <1>6, DerivedBySwitchedBack
<1>8. AddrRadio[sending[n].packet] \in {"LONG_RADIO", "SHORT_RADIO"}
  BY <1>5, DualMacAssumption DEF Sending
<1>9. SwitchedBack(n).long_range_radio = AddrRadio[sending[n].packet]
  BY <1>6, <1>7, <1>8
<1>10. f = [type |-> "DATA", of |-> sending[n].packet,
            radio |-> SwitchedBack(n).long_range_radio]
  BY <1>4 DEF Transmits, DataFrame
<1> QED BY <1>9, <1>10

\* Where powering a radio does not select it (cooja), data always leaves on the
\* radio of its address, after the strobes on the long radio.  Where it does
\* (zoul, z1) the theorem fails: see the run dualmac_zoul_data.
THEOREM DataOnRightRadio == PowerSelects = FALSE => (Spec => []DataOnAddressRadio)
<1> SUFFICES ASSUME PowerSelects = FALSE PROVE Spec => []DataOnAddressRadio
  OBVIOUS
<1>1. Init => DataOnAddressRadio
  BY DEF Init, DataOnAddressRadio
<1>2. IndInv /\ DataOnAddressRadio /\ Next => DataOnAddressRadio'
  BY DataStep
<1>3. DataOnAddressRadio /\ UNCHANGED vars => DataOnAddressRadio'
  BY DEF DataOnAddressRadio, vars, historyVars
<1> QED BY <1>1, <1>2, <1>3, Inductive, PTL DEF Spec

\* A node that passed application data up has a high-water mark no lower than it.
Marked(p) == delivered[p] # 0 => delivered[p] = 1 /\ id_array[Dst[p]][Origin[p]] >= SeqId[p]

DuplicateInv ==
  \A p \in Packet : Dst[p] \in Node /\ Dst[p] # Server /\ SeqId[p] # 0 => Marked(p)

\* Only data for a node is passed up, so a broadcast is never counted.
BroadcastInv == \A p \in Packet : Dst[p] = Null => delivered[p] = 0

\* Application data is passed up at most once by every node but the server, in
\* every behaviour: however many data acks are lost and sends repeated.
THEOREM DeliveredAtMostOnce == Spec => []DeliveredOnce
<1> DEFINE Inv == DuplicateInv /\ BroadcastInv
<1>1. Init => Inv
  BY DualMacAssumption DEF Init, DuplicateInv, BroadcastInv, Marked
<1>2. IndInv /\ Inv /\ Next => Inv'
  <2> SUFFICES ASSUME IndInv, Inv, Next PROVE Inv'
    OBVIOUS
  <2>1. PICK n \in Node :
          \/ Send(n)
          \/ StrobeRead(n) \/ StrobeSend(n) \/ SendEnds(n)
          \/ AckRead(n) \/ AckTimeout(n)
          \/ Cycles(n) \/ StrobeWaitOver(n)
          \/ Input(n)
    BY DEF Next
  <2>2. UNCHANGED <<id_array, delivered>> => Inv'
    BY DEF DuplicateInv, BroadcastInv, Marked
  <2>3. CASE Send(n)
    BY <2>2, <2>3 DEF Send, SendBusy, SendError, SendBegin
  <2>4. CASE StrobeRead(n) \/ StrobeSend(n) \/ AckRead(n) \/ AckTimeout(n)
    BY <2>2, <2>4 DEF StrobeRead, StrobeSend, AckRead, AckTimeout, historyVars
  <2>5. CASE SendEnds(n)
    BY <2>2, <2>5 DEF SendEnds, SendCollided, SendBroadcast, SendUnicast, historyVars
  <2>6. CASE Cycles(n) \/ StrobeWaitOver(n)
    BY <2>2, <2>6 DEF Cycles, PowercycleOn, PowercycleOff, StrobeWaitOver, historyVars
  <2>7. ASSUME NEW r \in Radio, NEW p \in Packet,
               \/ InputBroadcast(n, r, p) \/ InputStrobe(n, r, p)
               \/ InputBroadcastStrobe(n, r, p)
        PROVE  UNCHANGED <<id_array, delivered>>
    BY <2>7 DEF InputBroadcast, InputStrobe, InputBroadcastStrobe
  <2>8. ASSUME NEW r \in Radio, NEW f \in Frame, InputOther(n, r, f)
        PROVE  UNCHANGED <<id_array, delivered>>
    BY <2>8 DEF InputOther
  <2>9. ASSUME NEW r \in Radio, NEW p \in Packet, InputUnicast(n, r, p)
        PROVE  Inv'
    <3>1. /\ Dst[p] = n
          /\ id_array' = IF n # Server /\ SeqId[p] # 0 /\ ~Duplicated(n, p)
                         THEN [id_array EXCEPT ![n][Origin[p]] = SeqId[p]] ELSE id_array
          /\ delivered' = IF Duplicated(n, p) THEN delivered
                          ELSE [delivered EXCEPT ![p] = delivered[p] + 1]
      BY <2>9 DEF InputUnicast
    <3>2. /\ id_array \in [Node -> [Node -> Nat]] /\ delivered \in [Packet -> Nat]
          /\ SeqId \in [Packet -> Nat] /\ Origin \in [Packet -> Node] /\ Null \notin Node
      BY DualMacAssumption DEF IndInv, TypeOK
    <3>3. CASE Duplicated(n, p)
      BY <2>2, <3>1, <3>3
    <3>4. CASE ~Duplicated(n, p)
      <4>1. delivered' = [delivered EXCEPT ![p] = delivered[p] + 1]
        BY <3>1, <3>4
      <4>2. ASSUME n # Server, SeqId[p] # 0 PROVE id_array[n][Origin[p]] < SeqId[p]
        BY <3>2, <3>4, <4>2 DEF Duplicated
      <4>3. \A h, o \in Node : id_array'[h][o] >= id_array[h][o]
        <5>1. CASE n # Server /\ SeqId[p] # 0
          <6>1. id_array' = [id_array EXCEPT ![n][Origin[p]] = SeqId[p]]
            BY <3>1, <3>4, <5>1
          <6>2. id_array[n][Origin[p]] < SeqId[p]
            BY <4>2, <5>1
          <6> QED BY <3>2, <6>1, <6>2
        <5>2. CASE ~(n # Server /\ SeqId[p] # 0)
          BY <3>1, <3>2, <5>2
        <5> QED BY <5>1, <5>2
      <4>4. ASSUME NEW k \in Packet, Dst[k] \in Node, Dst[k] # Server, SeqId[k] # 0
            PROVE  Marked(k)'
        <5>1. delivered[k] # 0 => delivered[k] = 1 /\ id_array[Dst[k]][Origin[k]] >= SeqId[k]
          BY <4>4 DEF DuplicateInv, Marked
        <5>2. CASE k = p
          <6>1. id_array[n][Origin[p]] < SeqId[p]
            BY <3>1, <4>2, <4>4, <5>2
          <6>2. delivered[p] = 0
            BY <3>1, <3>2, <5>1, <5>2, <6>1
          <6>3. delivered'[p] = 1
            BY <3>2, <4>1, <6>2
          <6>4. id_array'[n][Origin[p]] = SeqId[p]
            BY <3>1, <3>2, <3>4, <4>4, <5>2
          <6> QED BY <3>1, <3>2, <5>2, <6>3, <6>4 DEF Marked
        <5>3. CASE k # p
          <6>1. delivered'[k] = delivered[k]
            BY <3>2, <4>1, <5>3
          <6>2. id_array'[Dst[k]][Origin[k]] >= id_array[Dst[k]][Origin[k]]
            BY <3>2, <4>3, <4>4
          <6>3. /\ id_array'[Dst[k]][Origin[k]] \in Nat
                /\ id_array[Dst[k]][Origin[k]] \in Nat
                /\ SeqId[k] \in Nat
            BY <3>1, <3>2, <4>4
          <6> QED BY <5>1, <6>1, <6>2, <6>3 DEF Marked
        <5> QED BY <5>2, <5>3
      <4>5. DuplicateInv'
        BY <4>4 DEF DuplicateInv
      <4>6. BroadcastInv'
        BY <3>1, <3>2, <4>1 DEF BroadcastInv
      <4> QED BY <4>5, <4>6
    <3> QED BY <3>3, <3>4
  <2>10. CASE Input(n)
    BY <2>2, <2>7, <2>8, <2>9, <2>10 DEF Input
  <2> QED BY <2>1, <2>3, <2>4, <2>5, <2>6, <2>10
<1>3. Inv /\ UNCHANGED vars => Inv'
  BY DEF DuplicateInv, BroadcastInv, Marked, vars, historyVars
<1>4. Inv => DeliveredOnce
  BY DualMacAssumption DEF DuplicateInv, BroadcastInv, Marked, DeliveredOnce
<1> QED BY <1>1, <1>2, <1>3, <1>4, Inductive, PTL DEF Spec
==============================================================================
