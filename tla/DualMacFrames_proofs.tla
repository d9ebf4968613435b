------------------------ MODULE DualMacFrames_proofs ------------------------
(***************************************************************************)
(* More proofs about DualMac: what holds of its power, of the frames that  *)
(* are on the air or in a receive buffer, and of the data acks that end    *)
(* sends, for any nodes and packets.                                       *)
(***************************************************************************)
EXTENDS DualMac_proofs

\* The record of a node in every step: the one that takes it, or a bystander.
LEMMA EachRecord ==
  ASSUME IndInv, Next
  PROVE  \E n \in Node : StepOf(n) /\ \A h \in Node \ {n} : Bystander(mac[h], mac'[h])
BY EachStep DEF StepOf

\* In every behaviour the flags follow the radios: no step leaves a radio on
\* behind a clear flag, where it stays on for ever, or off behind a set one.
THEOREM FlagsAreFollowed == Spec => FlagsFollowRadios
<1>1. ASSUME IndInv, [Next]_vars
      PROVE  \A n \in Node :
               /\ mac[n].on \subseteq mac[n].hw => mac'[n].on \subseteq mac'[n].hw
               /\ (mac'[n].hw \ mac'[n].on) \subseteq (mac[n].hw \ mac[n].on)
  <2>1. CASE Next
    BY <1>1, <2>1, EachRecord DEF StepOf, Bystander, Derived, FlagsKept
  <2>2. CASE UNCHANGED vars
    BY <2>2 DEF vars
  <2> QED BY <1>1, <2>1, <2>2
<1> QED BY <1>1, Inductive, PTL DEF Spec, FlagsFollowRadios

-----------------------------------------------------------------------------
(* Power cycles: who stays awake, and why no longer than two of them *)

\* A duty-cycled node that stayed on through an off phase is at its second one, or
\* waits for nothing any more.
AwakeInv ==
  \A n \in Node \ {Server} :
    /\ mac[n].dualmac_is_on
    /\ awake[n] \in {0, 1}
    /\ awake[n] = 1 => mac[n].waiting_for_packet # 1

\* Powering and selecting radios leaves waiting_for_packet alone.
LEMMA RadioWaits ==
  ASSUME NEW m \in Mac, NEW target \in SUBSET Radio, NEW r \in Radio
  PROVE  /\ dual_radio_on(m, target) \in Mac
         /\ dual_radio_on(m, target).waiting_for_packet = m.waiting_for_packet
         /\ dual_radio_off(m, target) \in Mac
         /\ dual_radio_off(m, target).waiting_for_packet = m.waiting_for_packet
         /\ dual_radio_switch(m, r) \in Mac
         /\ dual_radio_switch(m, r).waiting_for_packet = m.waiting_for_packet
<1>1. Keeps(m, dual_radio_on(m, target)) /\ Keeps(m, dual_radio_off(m, target))
  BY RadioKeeps
<1>2. /\ dual_radio_switch(m, r) \in Mac
      /\ dual_radio_switch(m, r).waiting_for_packet = m.waiting_for_packet
  BY DEF dual_radio_switch, Mac
<1> QED BY <1>1, <1>2 DEF Keeps

\* A step of n to a record m that waits for w.
LEMMA WaitsFor ==
  ASSUME mac \in [Node -> Mac], NEW n \in Node, NEW m \in Mac,
         Becomes(n, m) \/ \E r \in Radio, f \in Frame : Transmits(n, r, f, m)
  PROVE  mac'[n].waiting_for_packet = m.waiting_for_packet
<1>1. Settled(m).waiting_for_packet = m.waiting_for_packet
  BY SettledKeeps
<1>2. mac'[n] = Settled(m)
  BY BecomesChanges, TransmitsChanges
<1> QED BY <1>1, <1>2

\* send_packet leaves waiting_for_packet alone.
LEMMA SendWaits ==
  ASSUME IndInv, NEW n \in Node,
         \/ Send(n) \/ StrobeRead(n) \/ StrobeSend(n) \/ SendEnds(n)
         \/ AckRead(n) \/ AckTimeout(n)
  PROVE  mac'[n].waiting_for_packet = mac[n].waiting_for_packet /\ UNCHANGED awake
<1> DEFINE Same(m) == m \in Mac /\ m.waiting_for_packet = mac[n].waiting_for_packet
           Goal == mac'[n].waiting_for_packet = mac[n].waiting_for_packet
<1>1. mac \in [Node -> Mac] /\ sending \in [Node -> Sending \cup {Null}] /\ mac[n] \in Mac
  BY DEF IndInv, TypeOK
<1>2. /\ LONG_RADIO \in SUBSET Radio /\ SHORT_RADIO \in SUBSET Radio
      /\ BOTH_RADIO \in SUBSET Radio /\ DataTarget(n) \in SUBSET Radio
      /\ "LONG_RADIO" \in Radio /\ "SHORT_RADIO" \in Radio
  BY DEF LONG_RADIO, SHORT_RADIO, BOTH_RADIO, DataTarget, Radio
<1>3. ASSUME NEW m, Same(m), NEW target \in SUBSET Radio, NEW r \in Radio
      PROVE  /\ Same(dual_radio_on(m, target)) /\ Same(dual_radio_off(m, target))
             /\ Same(dual_radio_switch(m, r))
  BY <1>3, RadioWaits
<1>4. \A m : Same(m) /\ Becomes(n, m) => Goal
  BY <1>1, WaitsFor
<1>5. \A m, r, f : Same(m) /\ r \in Radio /\ f \in Frame /\ Transmits(n, r, f, m) => Goal
  BY <1>1, WaitsFor
<1>6. Same(mac[n])
  BY <1>1
<1>7. \A r \in Radio : Same(Read(n, r))
  BY <1>1 DEF Read, Mac
<1>8. Same(SwitchedBack(n)) /\ SwitchedBack(n).long_range_radio \in Radio
  <2>1. Same(SwitchedBack(n))
    BY <1>2, <1>3, <1>6 DEF SwitchedBack
  <2> QED BY <2>1 DEF Mac
<1>9. \A r \in Readable(n) : r \in Radio
  BY <1>1 DEF Readable, Mac
<1> HIDE DEF Same
<1>10. CASE Send(n)
  <2>1. PICK p \in Packet : SendBusy(n, p) \/ SendError(n, p) \/ SendBegin(n, p)
    BY <1>10 DEF Send
  <2>2. AddrRadio[p] \in Radio
    BY DualMacAssumption DEF Radio
  <2>3. Same(dual_radio_switch(mac[n], AddrRadio[p]))
    BY <1>3, <1>6, <2>2, <1>2
  <2>4. CASE SendBusy(n, p) \/ SendError(n, p)
    BY <1>4, <2>3, <2>4 DEF SendBusy, SendError
  <2>5. CASE SendBegin(n, p)
    <3> DEFINE off == dual_radio_off(dual_radio_switch(mac[n], AddrRadio[p]), BOTH_RADIO)
    <3>1. Same(off)
      BY <1>2, <1>3, <2>3
    <3>2. /\ Becomes(n, dual_radio_on(dual_radio_switch(off, "LONG_RADIO"), LONG_RADIO))
          /\ UNCHANGED awake
      BY <2>5 DEF SendBegin
    <3> HIDE DEF off
    <3>3. Same(dual_radio_on(dual_radio_switch(off, "LONG_RADIO"), LONG_RADIO))
      BY <1>2, <1>3, <3>1
    <3> QED BY <1>4, <3>2, <3>3
  <2> QED BY <2>1, <2>4, <2>5
<1>11. CASE StrobeRead(n)
  BY <1>4, <1>7, <1>9, <1>11 DEF StrobeRead, historyVars
<1>12. CASE StrobeSend(n)
  <2>1. [type |-> "STROBE", of |-> sending[n].packet] \in Frame
    BY <1>1, <1>12 DEF StrobeSend, Idle, Sending, Frame
  <2>2. mac[n].long_range_radio \in Radio
    BY <1>1 DEF Mac
  <2>3. Same(dual_radio_off(mac[n], LONG_RADIO)) /\ Same(dual_radio_on(mac[n], LONG_RADIO))
    BY <1>2, <1>3, <1>6
  <2> QED BY <1>5, <1>12, <2>1, <2>2, <2>3 DEF StrobeSend
<1>13. CASE SendEnds(n)
  <2>1. DataFrame(n) \in Frame
    BY <1>1, <1>13 DEF SendEnds, SendCollided, SendBroadcast, SendUnicast, StrobesOver, Idle,
                       DataFrame, Frame, Sending
  <2>2. CASE SendCollided(n)
    <3>1. mac[n].someone_is_sending = 0
      BY <2>2 DEF SendCollided, StrobesOver, Idle, IndInv, SendInv, Sends
    <3>2. SwitchedBack(n).someone_is_sending = 0
      BY <1>1, <3>1, DerivedBySwitchedBack
    <3>3. Same([SwitchedBack(n) EXCEPT !.someone_is_sending = @ + 1])
      BY <1>8, <3>2 DEF Same, Mac
    <3> QED BY <1>4, <2>2, <3>3 DEF SendCollided, historyVars
  <2>3. CASE SendBroadcast(n)
    BY <1>5, <1>8, <2>1, <2>3 DEF SendBroadcast
  <2>4. CASE SendUnicast(n)
    <3>1. Same(dual_radio_on(SwitchedBack(n), DataTarget(n)))
      BY <1>2, <1>3, <1>8
    <3> QED BY <1>5, <1>8, <2>1, <2>4, <3>1 DEF SendUnicast
  <2> QED BY <1>13, <2>2, <2>3, <2>4 DEF SendEnds
<1>14. CASE AckRead(n)
  <2>1. \A r \in Readable(n) : /\ Same(Read(n, r))
                               /\ Same(dual_radio_off(Read(n, r), DataTarget(n)))
    BY <1>2, <1>3, <1>7, <1>9
  <2>2. \E r \in Readable(n) : \/ Becomes(n, Read(n, r))
                               \/ Becomes(n, dual_radio_off(Read(n, r), DataTarget(n)))
    BY <1>14 DEF AckRead
  <2> QED BY <1>4, <1>14, <2>1, <2>2 DEF AckRead
<1>15. CASE AckTimeout(n)
  <2>1. Same(dual_radio_off(mac[n], DataTarget(n)))
    BY <1>2, <1>3, <1>6
  <2> QED BY <1>4, <1>15, <2>1 DEF AckTimeout, historyVars
<1> QED BY <1>10, <1>11, <1>12, <1>13, <1>14, <1>15

\* The step in which a node goes through an off phase.
LEMMA OffPhase ==
  ASSUME IndInv, AwakeInv, NEW n \in Node \ {Server}, PowercycleOff(n)
  PROVE  awake'[n] \in {0, 1} /\ (awake'[n] = 1 => mac'[n].waiting_for_packet # 1)
<1> DEFINE m == mac[n]
           k == CycleOver(m)
<1>1. mac \in [Node -> Mac] /\ m \in Mac /\ awake \in [Node -> Nat] /\ n \in Node
  BY DEF IndInv, TypeOK
<1>2. m.waiting_for_packet \in {0, 1, 2} /\ m.dualmac_is_on /\ awake[n] \in {0, 1}
  BY <1>1 DEF Mac, AwakeInv
<1>3. /\ Becomes(n, k)
      /\ awake' = [awake EXCEPT ![n] = IF k.hw # {} /\ k.hw = k.on THEN awake[n] + 1 ELSE 0]
  BY DEF PowercycleOff
<1>4. k \in Mac
  BY <1>1, DerivedByCycle DEF Derived
<1>5. mac'[n].waiting_for_packet = k.waiting_for_packet
  BY <1>1, <1>3, <1>4, WaitsFor
\* Turning both radios off leaves none on that the flags know of.
<1>6. ASSUME NEW x \in Mac, x.dualmac_is_on
      PROVE  LET o == dual_radio_off(x, BOTH_RADIO) IN ~(o.hw # {} /\ o.hw = o.on)
  <2> DEFINE o == dual_radio_off(x, BOTH_RADIO)
  <2>1. CASE x.on = {}
    BY <2>1 DEF dual_radio_off
  <2>2. CASE x.on # {}
    <3>1. o = [x EXCEPT !.long_range_radio = LastPowered(x, BOTH_RADIO),
                        !.hw = x.hw \ BOTH_RADIO, !.on = x.on \ BOTH_RADIO]
      BY <1>6, <2>2 DEF dual_radio_off, dual_radio_turn_off, dual_radio_switch, Mac
    <3>2. o.hw = x.hw \ BOTH_RADIO
      BY <3>1 DEF Mac
    <3>3. x.hw \ BOTH_RADIO = {}
      BY DEF Mac, BOTH_RADIO
    <3> QED BY <3>2, <3>3
  <2> QED BY <2>1, <2>2
<1>7. CASE m.waiting_for_packet = 0
  <2>1. k = dual_radio_off(m, BOTH_RADIO)
    BY <1>7 DEF CycleOver
  <2>2. awake'[n] = 0
    BY <1>1, <1>2, <1>3, <1>6, <2>1
  <2> QED BY <2>2
<1>8. CASE m.waiting_for_packet = 1
  <2>1. k = [m EXCEPT !.waiting_for_packet = 2]
    BY <1>8 DEF CycleOver
  <2>2. k.waiting_for_packet = 2
    BY <1>1, <2>1 DEF Mac
  <2>3. awake[n] = 0
    BY <1>2, <1>8 DEF AwakeInv
  <2>4. awake'[n] \in {0, 1}
    BY <1>1, <1>3, <2>3
  <2> QED BY <1>5, <2>2, <2>4
<1>9. CASE m.waiting_for_packet = 2
  <2> DEFINE x == [m EXCEPT !.waiting_for_packet = 0]
  <2>1. k = dual_radio_off(x, BOTH_RADIO)
    BY <1>9 DEF CycleOver
  <2>2. x \in Mac /\ x.dualmac_is_on
    <3>1. Derived(m, m)
      BY <1>1 DEF Derived, FlagsKept, BuffersKept
    <3>2. Derived(m, x)
      BY <3>1, DerivedByWaiting
    <3> QED BY <1>2, <3>2 DEF Derived
  <2> HIDE DEF x
  <2>3. ~(k.hw # {} /\ k.hw = k.on)
    BY <1>6, <2>1, <2>2
  <2>4. awake'[n] = 0
    BY <1>1, <1>3, <2>3
  <2> QED BY <2>4
<1> QED BY <1>2, <1>7, <1>8, <1>9

\* "We should not be awake for more than two consecutive power cycles without
\* having heard a packet": in every behaviour of every duty-cycled node.
THEOREM AwakeAtMostTwoCycles == Spec => []AwakeTwoCycles
<1>1. ASSUME Init PROVE AwakeInv
  <2> SUFFICES ASSUME NEW n \in Node \ {Server}
               PROVE  mac[n].dualmac_is_on /\ awake[n] = 0
    BY DEF AwakeInv
  <2>1. mac[n].dualmac_is_on = (n # Server) /\ awake[n] = 0
    BY <1>1 DEF Init
  <2>2. (n # Server) = TRUE
    OBVIOUS
  <2> QED BY <2>1, <2>2
<1>2. ASSUME IndInv, AwakeInv, Next PROVE AwakeInv'
  <2>1. PICK n \in Node :
          \/ Send(n)
          \/ StrobeRead(n) \/ StrobeSend(n) \/ SendEnds(n)
          \/ AckRead(n) \/ AckTimeout(n)
          \/ Cycles(n) \/ StrobeWaitOver(n)
          \/ Input(n)
    BY <1>2 DEF Next
  <2>2. StepOf(n)
    BY <1>2, <2>1, SendSteps, StrobeSteps, DataSteps, AckSteps, TimerSteps,
       InputDataSteps, InputStrobeSteps DEF Send, Input
  <2>3. awake \in [Node -> Nat] /\ mac \in [Node -> Mac]
    BY <1>2 DEF IndInv, TypeOK
  <2>4. SUFFICES
          ASSUME n # Server, \A h \in Node : h # n => awake'[h] = awake[h]
          PROVE  awake'[n] \in {0, 1} /\ (awake'[n] = 1 => mac'[n].waiting_for_packet # 1)
    <3>1. \A h \in Node : h # n => awake'[h] = awake[h]
      <4>1. awake' = awake \/ \E k \in Nat : awake' = [awake EXCEPT ![n] = k]
        <5>1. CASE Input(n)
          <6>1. awake' = [awake EXCEPT ![n] = 0]
            BY <5>1 DEF Input, InputBroadcast, InputUnicast, InputStrobe,
                        InputBroadcastStrobe, InputOther, Inputs
          <6> QED BY <6>1
        <5>2. CASE PowercycleOff(n)
          BY <2>3, <5>2 DEF PowercycleOff
        <5>3. CASE PowercycleOn(n) \/ StrobeWaitOver(n)
          BY <5>3 DEF PowercycleOn, StrobeWaitOver, historyVars
        <5> QED BY <1>2, <2>1, <5>1, <5>2, <5>3, SendWaits DEF Cycles
      <4> QED BY <2>3, <4>1
    <3>2. \A h \in Node : mac'[h].dualmac_is_on = mac[h].dualmac_is_on
      BY <2>2 DEF StepOf, Derived, Bystander
    <3>3. \A h \in Node : h # n => mac'[h].waiting_for_packet = mac[h].waiting_for_packet
      BY <2>2 DEF StepOf, Bystander
    <3> QED BY <1>2, <2>4, <3>1, <3>2, <3>3 DEF AwakeInv
  <2>5. CASE \/ Send(n) \/ StrobeRead(n) \/ StrobeSend(n) \/ SendEnds(n)
             \/ AckRead(n) \/ AckTimeout(n)
    BY <1>2, <2>4, <2>5, SendWaits DEF AwakeInv
  <2>6. CASE PowercycleOn(n)
    <3> DEFINE s == IF mac[n].someone_is_sending > 0 THEN mac[n].someone_is_sending - 1 ELSE 0
               heard == [mac[n] EXCEPT !.someone_is_sending = s]
    <3>1. heard \in Mac /\ heard.waiting_for_packet = mac[n].waiting_for_packet
      <4>1. s \in {0, 1, 2}
        BY <2>3 DEF Mac
      <4> HIDE DEF s
      <4>2. Derived(mac[n], mac[n])
        BY <2>3 DEF Derived, FlagsKept, BuffersKept
      <4>3. heard \in Mac
        BY <4>1, <4>2, DerivedBySomeone DEF Derived
      <4>4. heard.waiting_for_packet = mac[n].waiting_for_packet
        BY <2>3 DEF Mac
      <4> QED BY <4>3, <4>4
    <3>2. /\ Becomes(n, IF heard.waiting_for_packet = 0
                        THEN dual_radio_on(heard, LONG_RADIO) ELSE heard)
          /\ UNCHANGED awake
      BY <2>6 DEF PowercycleOn, historyVars
    <3>3. LONG_RADIO \in SUBSET Radio
      BY DEF LONG_RADIO, Radio
    <3> HIDE DEF heard
    <3>4. /\ dual_radio_on(heard, LONG_RADIO) \in Mac
          /\ dual_radio_on(heard, LONG_RADIO).waiting_for_packet = heard.waiting_for_packet
      BY <3>1, <3>3, RadioWaits DEF Radio
    <3>5. mac'[n].waiting_for_packet = mac[n].waiting_for_packet
      BY <2>3, <3>1, <3>2, <3>4, WaitsFor
    <3> QED BY <1>2, <2>4, <3>2, <3>5 DEF AwakeInv
  <2>7. CASE PowercycleOff(n)
    BY <1>2, <2>4, <2>7, OffPhase
  <2>8. CASE StrobeWaitOver(n)
    <3> DEFINE off == dual_radio_off(mac[n], SHORT_RADIO)
               m == [off EXCEPT !.waiting_for_packet = 0, !.strobe_wait = FALSE]
    <3>1. SHORT_RADIO \in SUBSET Radio
      BY DEF SHORT_RADIO, Radio
    <3>2. off \in Mac
      BY <2>3, <3>1, RadioWaits DEF Radio
    <3>3. Becomes(n, m) /\ UNCHANGED awake
      BY <2>8 DEF StrobeWaitOver, historyVars
    <3> HIDE DEF off
    <3>4. Derived(off, m) /\ m.waiting_for_packet = 0
      <4>1. Derived(off, off)
        BY <3>2 DEF Derived, FlagsKept, BuffersKept
      <4>2. Derived(off, m)
        BY <4>1, DerivedByStrobeWait
      <4> QED BY <3>2, <4>2 DEF Mac
    <3>5. mac'[n].waiting_for_packet = 0
      BY <2>3, <3>3, <3>4, WaitsFor DEF Derived
    <3> QED BY <1>2, <2>4, <3>3, <3>5 DEF AwakeInv
  <2>9. CASE Input(n)
    <3>1. awake' = [awake EXCEPT ![n] = 0]
      BY <2>9 DEF Input, InputBroadcast, InputUnicast, InputStrobe,
                  InputBroadcastStrobe, InputOther, Inputs
    <3> QED BY <2>3, <3>1
  <2> QED BY <2>1, <2>5, <2>6, <2>7, <2>8, <2>9 DEF Cycles
<1>3. AwakeInv /\ UNCHANGED vars => AwakeInv'
  BY DEF AwakeInv, vars, historyVars
<1>4. AwakeInv => AwakeTwoCycles
  BY DEF AwakeInv, AwakeTwoCycles
<1> QED BY <1>1, <1>2, <1>3, <1>4, Inductive, PTL DEF Spec

-----------------------------------------------------------------------------
(* Frames on the air and in the receive buffers *)

\* What a step of n transmits: nothing, a strobe or data, or an ack.
Silent(n) == UNCHANGED air /\ \E m : Becomes(n, m)
Emits(n, r, f) == \E m : Transmits(n, r, f, m)
Asks(n) ==
  \E r \in Radio, f \in Frame : Emits(n, r, f) /\ f.type \in {"STROBE", "DATA"}
Answers(n) ==
  \E r \in Radio, p \in Packet : InputUnicast(n, r, p) \/ InputStrobe(n, r, p)

\* Every step is one of a node that transmits at most one frame; the data acks are
\* counted when one is sent and when one ends a send.
LEMMA NodeStep ==
  ASSUME IndInv, Next
  PROVE  \E n \in Node :
           /\ StepOf(n)
           /\ Silent(n) \/ Asks(n) \/ Answers(n)
           /\ \/ UNCHANGED credit
              \/ AckRead(n)
              \/ \E r \in Radio, p \in Packet : InputUnicast(n, r, p)
<1>1. PICK n \in Node :
        \/ Send(n)
        \/ StrobeRead(n) \/ StrobeSend(n) \/ SendEnds(n)
        \/ AckRead(n) \/ AckTimeout(n)
        \/ Cycles(n) \/ StrobeWaitOver(n)
        \/ Input(n)
  BY DEF Next
<1>2. StepOf(n)
  BY <1>1, SendSteps, StrobeSteps, DataSteps, AckSteps, TimerSteps,
     InputDataSteps, InputStrobeSteps DEF Send, Input
<1>3. /\ mac \in [Node -> Mac] /\ sending \in [Node -> Sending \cup {Null}]
      /\ mac[n].long_range_radio \in Radio
  BY DEF IndInv, TypeOK, Mac
<1>4. CASE Send(n)
  BY <1>1, <1>2, <1>4 DEF Send, SendBusy, SendError, SendBegin, Silent
<1>5. CASE StrobeRead(n) \/ AckTimeout(n)
  BY <1>1, <1>2, <1>5 DEF StrobeRead, AckTimeout, Silent, historyVars
<1>6. CASE StrobeSend(n)
  <2> DEFINE f == [type |-> "STROBE", of |-> sending[n].packet]
  <2>1. f \in Frame /\ f.type = "STROBE"
    BY <1>3, <1>6 DEF StrobeSend, Idle, Sending, Frame
  <2>2. (\E m : Transmits(n, mac[n].long_range_radio, f, m)) /\ UNCHANGED credit
    BY <1>6 DEF StrobeSend
  <2> HIDE DEF f
  <2>3. Asks(n)
    BY <1>3, <2>1, <2>2 DEF Asks, Emits
  <2> QED BY <1>1, <1>2, <2>2, <2>3
<1>7. CASE SendEnds(n)
  <2>1. DataFrame(n) \in Frame /\ DataFrame(n).type = "DATA"
    BY <1>3, <1>7 DEF SendEnds, SendCollided, SendBroadcast, SendUnicast, StrobesOver, Idle,
                      DataFrame, Frame, Sending
  <2>2. SwitchedBack(n).long_range_radio \in Radio
    BY <1>3, DerivedBySwitchedBack DEF Derived, Mac
  <2>3. SendCollided(n) => Silent(n) /\ UNCHANGED credit
    BY DEF SendCollided, Silent, historyVars
  <2>4. SendBroadcast(n) \/ SendUnicast(n) => Asks(n) /\ UNCHANGED credit
    BY <2>1, <2>2 DEF SendBroadcast, SendUnicast, Asks, Emits
  <2> QED BY <1>1, <1>2, <1>7, <2>3, <2>4 DEF SendEnds
<1>8. CASE AckRead(n)
  <2>1. Silent(n)
    BY <1>8 DEF AckRead, Silent
  <2> QED BY <1>1, <1>2, <1>8, <2>1
<1>9. CASE Cycles(n) \/ StrobeWaitOver(n)
  BY <1>1, <1>2, <1>9 DEF Cycles, PowercycleOn, PowercycleOff, StrobeWaitOver, Silent, historyVars
<1>10. CASE Input(n)
  <2>1. PICK r \in Radio :
          \/ \E p \in Packet : \/ InputBroadcast(n, r, p) \/ InputUnicast(n, r, p)
                               \/ InputStrobe(n, r, p) \/ InputBroadcastStrobe(n, r, p)
          \/ \E f \in Frame : InputOther(n, r, f)
    BY <1>10 DEF Input
  <2>2. CASE \/ \E p \in Packet : InputBroadcast(n, r, p) \/ InputBroadcastStrobe(n, r, p)
             \/ \E f \in Frame : InputOther(n, r, f)
    <3>1. Silent(n) /\ UNCHANGED credit
      BY <2>2 DEF InputBroadcast, InputBroadcastStrobe, InputOther, Silent
    <3> QED BY <1>1, <1>2, <3>1
  <2>3. CASE \E p \in Packet : InputUnicast(n, r, p)
    BY <1>1, <1>2, <2>3 DEF Answers
  <2>4. CASE \E p \in Packet : InputStrobe(n, r, p)
    <3>1. UNCHANGED credit
      BY <2>4 DEF InputStrobe
    <3> QED BY <1>1, <1>2, <2>4, <3>1 DEF Answers
  <2> QED BY <2>1, <2>2, <2>3, <2>4
<1> QED BY <1>1, <1>4, <1>5, <1>6, <1>7, <1>8, <1>9, <1>10

\* The record of a node that does not take the step stays, or its buffers ...
LEMMA SilenceHeard ==
  ASSUME mac \in [Node -> Mac], NEW n \in Node, NEW m, Becomes(n, m), NEW h \in Node, h # n
  PROVE  mac'[h] = mac[h]
BY DEF Becomes

\* ... may have taken the one frame transmitted, where it had none.
LEMMA FrameHeard ==
  ASSUME mac \in [Node -> Mac], NEW n \in Node, NEW r \in Radio, NEW f \in Frame,
         Emits(n, r, f), NEW h \in Node, h # n, NEW x \in Radio
  PROVE  \/ mac'[h].rx[x] = mac[h].rx[x]
         \/ x = r /\ mac[h].rx[x] = Null /\ mac'[h].rx[x] = f
<1>1. PICK m : Transmits(n, r, f, m)
  BY DEF Emits
<1>2. PICK hearers \in SUBSET {k \in Node \ {n} : r \in mac[k].hw /\ mac[k].rx[r] = Null} :
        mac' = [k \in Node |-> IF k = n THEN Settled(m)
                               ELSE IF k \in hearers THEN [mac[k] EXCEPT !.rx[r] = f]
                               ELSE mac[k]]
  BY <1>1 DEF Transmits
<1>3. CASE h \in hearers
  <2>1. mac'[h] = [mac[h] EXCEPT !.rx[r] = f] /\ mac[h].rx[r] = Null /\ mac[h] \in Mac
    BY <1>2, <1>3
  <2>2. mac'[h].rx = [mac[h].rx EXCEPT ![r] = f]
    BY <2>1 DEF Mac
  <2>3. mac'[h].rx[x] = IF x = r THEN f ELSE mac[h].rx[x]
    BY <2>1, <2>2 DEF Mac
  <2> QED BY <2>1, <2>3
<1>4. CASE h \notin hearers
  BY <1>2, <1>4
<1> QED BY <1>3, <1>4

\* A frame in a receive buffer was transmitted on the radio of that buffer.
OnAir(f, r) == [type |-> f.type, of |-> f.of, radio |-> r] \in air
HeardInv == \A n \in Node, r \in Radio : mac[n].rx[r] # Null => OnAir(mac[n].rx[r], r)

\* The frame an answer acknowledges, and the ack itself: where powering a radio does
\* not select it, on the radio of the question.
LEMMA AnswerSent ==
  ASSUME IndInv, NEW n \in Node, NEW r \in Radio, NEW p \in Packet,
         InputUnicast(n, r, p) \/ InputStrobe(n, r, p)
  PROVE  \E a \in {"STROBE_ACK", "DATA_ACK"}, x \in Radio :
           /\ mac[n].rx[r] = [type |-> Question(a), of |-> p]
           /\ Emits(n, x, [type |-> a, of |-> p])
           /\ PowerSelects = FALSE => x = r
           /\ a = IF InputUnicast(n, r, p) THEN "DATA_ACK" ELSE "STROBE_ACK"
<1>1. mac \in [Node -> Mac]
  BY DEF IndInv, TypeOK
<1>2. /\ Derived(mac[n], DataHeard(n, r))
      /\ Derived(mac[n], StrobeHeard(n, r))
      /\ StrobeHeard(n, r).long_range_radio = r
  BY <1>1, DerivedByHearing
<1>3. CASE InputUnicast(n, r, p)
  <2> DEFINE m == dual_radio_switch(Asleep(DataHeard(n, r)), r)
  <2>1. m.long_range_radio = r
    BY <1>2, DerivedByAsleep, DerivedBySwitch
  <2>2. /\ mac[n].rx[r] = [type |-> "DATA", of |-> p]
        /\ Transmits(n, m.long_range_radio, [type |-> "DATA_ACK", of |-> p], m)
    BY <1>3 DEF InputUnicast, Inputs
  <2> HIDE DEF m
  <2> QED BY <1>3, <2>1, <2>2 DEF Question, Emits
<1>4. CASE InputStrobe(n, r, p) /\ ~InputUnicast(n, r, p)
  <2> DEFINE one == [StrobeHeard(n, r) EXCEPT !.someone_is_sending = 1]
             heard == [StrobeHeard(n, r) EXCEPT
                         !.someone_is_sending = 1, !.waiting_for_packet = 1]
             off == dual_radio_off(heard, BOTH_RADIO)
             m == dual_radio_on(off, {AddrRadio[p]})
  <2>1. BOTH_RADIO \in SUBSET Radio /\ {AddrRadio[p]} \in SUBSET Radio
    BY DualMacAssumption DEF BOTH_RADIO, Radio
  <2>2. Derived(mac[n], one) /\ one.long_range_radio = r
    BY <1>2, DerivedBySomeone
  <2>3. heard = [one EXCEPT !.waiting_for_packet = 1]
    BY <1>2 DEF Derived, Mac
  <2>4. /\ mac[n].rx[r] = [type |-> "STROBE", of |-> p]
        /\ Transmits(n, m.long_range_radio, [type |-> "STROBE_ACK", of |-> p], m)
    BY <1>4 DEF InputStrobe, Inputs
  <2> HIDE DEF one, heard
  <2>5. Derived(mac[n], heard) /\ (PowerSelects = FALSE => heard.long_range_radio = r)
    BY <2>2, <2>3, DerivedByWaiting DEF Undisturbed
  <2>6. Derived(mac[n], off) /\ (PowerSelects = FALSE => off.long_range_radio = r)
    BY <2>1, <2>5, DerivedByRadio DEF Undisturbed
  <2> HIDE DEF off
  <2>7. Derived(mac[n], m) /\ (PowerSelects = FALSE => m.long_range_radio = r)
    BY <2>1, <2>6, DerivedByRadio DEF Undisturbed
  <2> HIDE DEF m
  <2>8. m.long_range_radio \in Radio
    BY <2>7 DEF Derived, Mac
  <2> QED BY <1>4, <2>4, <2>7, <2>8 DEF Question, Emits
<1> QED BY <1>3, <1>4

\* A step adds what it transmits to the air, and fills buffers with nothing else.
LEMMA AirStep ==
  ASSUME IndInv, NEW n \in Node, StepOf(n), Silent(n) \/ Asks(n) \/ Answers(n)
  PROVE  /\ air \subseteq air'
         /\ \A h \in Node, x \in Radio :
              mac'[h].rx[x] \in {mac[h].rx[x], Null} \/ OnAir(mac[h].rx[x], x)'
<1>1. mac \in [Node -> Mac]
  BY DEF IndInv, TypeOK
<1>2. \A x \in Radio : mac'[n].rx[x] \in {mac[n].rx[x], Null}
  BY DEF StepOf, Derived, BuffersKept
<1>3. CASE Silent(n)
  BY <1>1, <1>2, <1>3, SilenceHeard DEF Silent
<1>4. CASE Asks(n) \/ Answers(n)
  <2>1. PICK r \in Radio, f \in Frame : Emits(n, r, f)
    <3>1. ASSUME Answers(n) PROVE \E r \in Radio, f \in Frame : Emits(n, r, f)
      <4>1. PICK r \in Radio, p \in Packet : InputUnicast(n, r, p) \/ InputStrobe(n, r, p)
        BY <3>1 DEF Answers
      <4>2. PICK a \in {"STROBE_ACK", "DATA_ACK"}, x \in Radio :
              Emits(n, x, [type |-> a, of |-> p])
        BY <4>1, AnswerSent
      <4>3. [type |-> a, of |-> p] \in Frame
        BY DEF Frame
      <4> QED BY <4>2, <4>3
    <3> QED BY <1>4, <3>1 DEF Asks
  <2>2. air' = air \cup {[type |-> f.type, of |-> f.of, radio |-> r]}
    BY <2>1 DEF Transmits, Emits
  <2>3. ASSUME NEW h \in Node, h # n, NEW x \in Radio
        PROVE  mac'[h].rx[x] = mac[h].rx[x] \/ OnAir(mac[h].rx[x], x)'
    <3>1. mac'[h].rx[x] = mac[h].rx[x] \/ (x = r /\ mac'[h].rx[x] = f)
      BY <1>1, <2>1, <2>3, FrameHeard
    <3>2. CASE x = r /\ mac'[h].rx[x] = f
      BY <2>2, <3>2 DEF OnAir
    <3> QED BY <3>1, <3>2
  <2> QED BY <1>2, <2>2, <2>3
<1> QED BY <1>3, <1>4

\* Where powering a radio does not select it (cooja), an ack always goes out on a
\* radio its question was sent on, whatever handlers ran in between and whatever
\* radio they left selected.  Where it does (zoul, z1) this is false.
THEOREM AcksOnRightRadio == PowerSelects = FALSE => (Spec => []AcksOnRadioOfQuestion)
<1> SUFFICES ASSUME PowerSelects = FALSE PROVE Spec => []AcksOnRadioOfQuestion
  OBVIOUS
<1> DEFINE Inv == HeardInv /\ AcksOnRadioOfQuestion
<1>1. Init => Inv
  <2> SUFFICES ASSUME Init PROVE \A n \in Node, r \in Radio : mac[n].rx[r] = Null
    BY DEF Init, HeardInv, AcksOnRadioOfQuestion
  <2> QED BY DEF Init
<1>2. ASSUME IndInv, Inv, Next PROVE Inv'
  <2>1. PICK n \in Node : StepOf(n) /\ (Silent(n) \/ Asks(n) \/ Answers(n))
    BY <1>2, NodeStep
  <2>2. air \subseteq air'
    BY <1>2, <2>1, AirStep
  <2>3. HeardInv'
    <3> SUFFICES ASSUME NEW h \in Node, NEW r \in Radio, mac'[h].rx[r] # Null
                 PROVE  OnAir(mac[h].rx[r], r)'
      BY DEF HeardInv
    <3>1. mac'[h].rx[r] = mac[h].rx[r] \/ OnAir(mac[h].rx[r], r)'
      BY <1>2, <2>1, AirStep
    <3>2. CASE mac'[h].rx[r] = mac[h].rx[r]
      BY <1>2, <2>2, <3>2 DEF HeardInv, OnAir
    <3> QED BY <3>1, <3>2
  <2>4. CASE Silent(n)
    BY <1>2, <2>3, <2>4 DEF Silent, AcksOnRadioOfQuestion
  <2>5. CASE Asks(n)
    <3>1. PICK r \in Radio, f \in Frame :
            /\ f.type \in {"STROBE", "DATA"}
            /\ air' = air \cup {[type |-> f.type, of |-> f.of, radio |-> r]}
      BY <2>5 DEF Asks, Emits, Transmits
    <3>2. \A g \in air' : g.type \in {"STROBE_ACK", "DATA_ACK"} => g \in air
      BY <3>1
    <3> QED BY <1>2, <2>2, <2>3, <3>2 DEF AcksOnRadioOfQuestion
  <2>6. CASE Answers(n)
    <3>1. PICK r \in Radio, p \in Packet : InputUnicast(n, r, p) \/ InputStrobe(n, r, p)
      BY <2>6 DEF Answers
    <3>2. PICK a \in {"STROBE_ACK", "DATA_ACK"}, x \in Radio :
            /\ mac[n].rx[r] = [type |-> Question(a), of |-> p]
            /\ Emits(n, x, [type |-> a, of |-> p])
            /\ PowerSelects = FALSE => x = r
            /\ a = IF InputUnicast(n, r, p) THEN "DATA_ACK" ELSE "STROBE_ACK"
      BY <1>2, <3>1, AnswerSent
    <3>3. air' = air \cup {[type |-> a, of |-> p, radio |-> r]}
      BY <3>2 DEF Emits, Transmits
    <3>4. [type |-> Question(a), of |-> p, radio |-> r] \in air
      <4>1. [type |-> Question(a), of |-> p] # Null
        <5>1. Question(a) \in {"STROBE", "DATA"}
          BY DEF Question
        <5>2. [type |-> Question(a), of |-> p] \in Frame
          BY <5>1 DEF Frame
        <5> QED BY <5>2, DualMacAssumption
      <4>2. OnAir(mac[n].rx[r], r)
        BY <1>2, <3>2, <4>1 DEF HeardInv
      <4> QED BY <3>2, <4>2 DEF OnAir
    <3>5. \A g \in air' : g \in air \/ g = [type |-> a, of |-> p, radio |-> r]
      BY <3>3
    <3> QED BY <1>2, <2>2, <2>3, <3>4, <3>5 DEF AcksOnRadioOfQuestion
  <2> QED BY <2>1, <2>4, <2>5, <2>6
<1>3. Inv /\ UNCHANGED vars => Inv'
  BY DEF HeardInv, OnAir, AcksOnRadioOfQuestion, vars, historyVars
<1>4. Inv => AcksOnRadioOfQuestion
  OBVIOUS
<1> QED BY <1>1, <1>2, <1>3, <1>4, Inductive, PTL DEF Spec

-----------------------------------------------------------------------------
(* Every send that ends with OK was acknowledged *)

\* The data acks for a node that wait in its receive buffers.
IsAck(n, f) == f # Null /\ f.type = "DATA_ACK" /\ Src[f.of] = n
AckIn(n, r) == IF IsAck(n, mac[n].rx[r]) THEN 1 ELSE 0

\* Each of them still has to be counted against the acks sent to the node.
CreditInv ==
  \A n \in Node : credit[n] >= AckIn(n, "LONG_RADIO") + AckIn(n, "SHORT_RADIO")

\* Buffers that are emptied, or filled with anything but an ack for h, hold no more.
LEMMA NoMoreAcks ==
  ASSUME NEW h \in Node, NEW r \in Radio,
         mac'[h].rx[r] = mac[h].rx[r] \/ ~IsAck(h, mac'[h].rx[r])
  PROVE  AckIn(h, r)' \in 0..AckIn(h, r)
BY DEF AckIn, IsAck

\* In every step but one that sends a data ack, and at every node but the one it is
\* for, the buffers hold no more data acks than before.
LEMMA AcksWaiting ==
  ASSUME IndInv, NEW n \in Node, StepOf(n), Silent(n) \/ Asks(n) \/ Answers(n),
         NEW h \in Node,
         \A r \in Radio, p \in Packet : InputUnicast(n, r, p) => Src[p] # h
  PROVE  \A x \in Radio : AckIn(h, x)' \in 0..AckIn(h, x)
<1> SUFFICES ASSUME NEW x \in Radio
             PROVE  mac'[h].rx[x] = mac[h].rx[x] \/ ~IsAck(h, mac'[h].rx[x])
  BY NoMoreAcks
<1>1. mac \in [Node -> Mac]
  BY DEF IndInv, TypeOK
<1>2. CASE h = n
  BY <1>2 DEF StepOf, Derived, BuffersKept, IsAck
<1>3. CASE h # n /\ Silent(n)
  BY <1>1, <1>3, SilenceHeard DEF Silent
<1>4. ASSUME h # n, NEW r \in Radio, NEW f \in Frame, Emits(n, r, f),
             ~IsAck(h, f)
      PROVE  mac'[h].rx[x] = mac[h].rx[x] \/ ~IsAck(h, mac'[h].rx[x])
  BY <1>1, <1>4, FrameHeard
<1>5. CASE h # n /\ Asks(n)
  BY <1>4, <1>5 DEF Asks, IsAck
<1>6. CASE h # n /\ Answers(n)
  <2>1. PICK r \in Radio, p \in Packet : InputUnicast(n, r, p) \/ InputStrobe(n, r, p)
    BY <1>6 DEF Answers
  <2>2. PICK a \in {"STROBE_ACK", "DATA_ACK"}, y \in Radio :
          /\ Emits(n, y, [type |-> a, of |-> p])
          /\ a = IF InputUnicast(n, r, p) THEN "DATA_ACK" ELSE "STROBE_ACK"
    BY <2>1, AnswerSent
  <2>3. [type |-> a, of |-> p] \in Frame
    BY DEF Frame
  <2>4. ~IsAck(h, [type |-> a, of |-> p])
    BY <2>2 DEF IsAck
  <2> QED BY <1>4, <1>6, <2>2, <2>3, <2>4
<1> QED BY <1>2, <1>3, <1>5, <1>6

\* The step that sends a data ack: its receiver may find it in one of its buffers.
LEMMA AckHeard ==
  ASSUME IndInv, NEW n \in Node, NEW r \in Radio, NEW p \in Packet, StepOf(n),
         InputUnicast(n, r, p)
  PROVE  \E y \in Radio :
           /\ AckIn(Src[p], y)' \in 0..AckIn(Src[p], y) + 1
           /\ \A x \in Radio \ {y} : AckIn(Src[p], x)' \in 0..AckIn(Src[p], x)
<1> DEFINE h == Src[p]
<1>1. mac \in [Node -> Mac] /\ h \in Node
  BY DualMacAssumption DEF IndInv, TypeOK
<1>2. PICK y \in Radio : Emits(n, y, [type |-> "DATA_ACK", of |-> p])
  BY AnswerSent
<1>3. [type |-> "DATA_ACK", of |-> p] \in Frame
  BY DEF Frame
<1>4. AckIn(h, y)' \in 0..AckIn(h, y) + 1
  BY DEF AckIn
<1>5. ASSUME NEW x \in Radio \ {y} PROVE AckIn(h, x)' \in 0..AckIn(h, x)
  <2>1. CASE h = n
    BY <1>1, <2>1, NoMoreAcks DEF StepOf, Derived, BuffersKept, IsAck
  <2>2. CASE h # n
    <3>1. mac'[h].rx[x] = mac[h].rx[x]
      BY <1>1, <1>2, <1>3, <2>2, FrameHeard
    <3> QED BY <1>1, <3>1, NoMoreAcks
  <2> QED BY <2>1, <2>2
<1> QED BY <1>4, <1>5

\* The step that takes a data ack out of a buffer to end a send.
LEMMA AckTaken ==
  ASSUME IndInv, CreditInv, NEW n \in Node, StepOf(n), AckRead(n),
         \A x \in Radio : AckIn(n, x)' \in 0..AckIn(n, x)
  PROVE  /\ \A h \in Node \ {n} : credit'[h] = credit[h]
         /\ credit'[n] >= AckIn(n, "LONG_RADIO")' + AckIn(n, "SHORT_RADIO")'
<1>1. mac \in [Node -> Mac] /\ credit \in [Node -> Int]
  BY DEF IndInv, TypeOK
<1>2. credit[n] >= AckIn(n, "LONG_RADIO") + AckIn(n, "SHORT_RADIO")
  BY DEF CreditInv
<1>3. /\ AckIn(n, "LONG_RADIO")' \in 0..AckIn(n, "LONG_RADIO")
      /\ AckIn(n, "SHORT_RADIO")' \in 0..AckIn(n, "SHORT_RADIO")
  BY DEF Radio
<1>4. /\ AckIn(n, "LONG_RADIO") \in {0, 1} /\ AckIn(n, "SHORT_RADIO") \in {0, 1}
      /\ AckIn(n, "LONG_RADIO")' \in {0, 1} /\ AckIn(n, "SHORT_RADIO")' \in {0, 1}
  BY DEF AckIn
<1>5. CASE UNCHANGED credit
  BY <1>1, <1>2, <1>3, <1>4, <1>5
<1>6. CASE ~UNCHANGED credit
  <2>1. PICK r \in Readable(n) :
          /\ mac[n].rx[r].type = "DATA_ACK" /\ Receiver(mac[n].rx[r]) = n
          /\ Becomes(n, dual_radio_off(Read(n, r), DataTarget(n)))
          /\ credit' = [credit EXCEPT ![n] = @ - 1]
    BY <1>6 DEF AckRead
  <2>2. r \in Radio /\ mac[n].rx[r] # Null
    BY <1>1, <2>1 DEF Readable, Mac
  <2>3. AckIn(n, r) = 1
    BY <2>1, <2>2 DEF AckIn, IsAck, Receiver
  <2>4. AckIn(n, r)' = 0
    <3> DEFINE m == dual_radio_off(Read(n, r), DataTarget(n))
    <3>1. Read(n, r) \in Mac /\ Read(n, r).rx[r] = Null
      BY <1>1, <2>2 DEF Read, Mac
    <3>2. DataTarget(n) \in SUBSET Radio
      BY DEF DataTarget, LONG_RADIO, SHORT_RADIO, Radio
    <3>3. Keeps(Read(n, r), m)
      BY <3>1, <3>2, RadioKeeps
    <3>4. m \in Mac /\ m.rx[r] = Null
      BY <3>1, <3>3 DEF Keeps
    <3> HIDE DEF m
    <3>5. mac'[n] = Settled(m)
      BY <1>1, <2>1, <3>4, BecomesChanges DEF m
    <3>6. mac'[n].rx[r] = Null
      BY <2>2, <3>4, <3>5, SettledKeeps
    <3> QED BY <3>6 DEF AckIn, IsAck
  <2>5. r = "LONG_RADIO" \/ r = "SHORT_RADIO"
    BY <2>2 DEF Radio
  <2>6. credit'[n] = credit[n] - 1 /\ \A h \in Node \ {n} : credit'[h] = credit[h]
    BY <1>1, <2>1
  <2> HIDE DEF AckIn
  <2>7. credit'[n] >= AckIn(n, "LONG_RADIO")' + AckIn(n, "SHORT_RADIO")'
    <3>1. CASE r = "LONG_RADIO"
      BY <1>1, <1>2, <1>3, <1>4, <2>3, <2>4, <2>6, <3>1
    <3>2. CASE r = "SHORT_RADIO"
      BY <1>1, <1>2, <1>3, <1>4, <2>3, <2>4, <2>6, <3>2
    <3> QED BY <2>5, <3>1, <3>2
  <2> QED BY <2>6, <2>7
<1> QED BY <1>5, <1>6

\* In every behaviour, and whichever radio powering selects, a node ends no more
\* sends with OK than it was sent data acks.
THEOREM OksWerePaidFor == Spec => []OksArePaidFor
<1>1. ASSUME Init PROVE CreditInv
  <2> SUFFICES ASSUME NEW n \in Node
               PROVE  credit[n] >= AckIn(n, "LONG_RADIO") + AckIn(n, "SHORT_RADIO")
    BY DEF CreditInv
  <2>1. credit[n] = 0 /\ \A r \in Radio : mac[n].rx[r] = Null
    BY <1>1 DEF Init
  <2>2. "LONG_RADIO" \in Radio /\ "SHORT_RADIO" \in Radio
    BY DEF Radio
  <2> QED BY <2>1, <2>2 DEF AckIn, IsAck
<1>2. ASSUME IndInv, CreditInv, Next PROVE CreditInv'
  <2>1. PICK n \in Node :
          /\ StepOf(n)
          /\ Silent(n) \/ Asks(n) \/ Answers(n)
          /\ \/ UNCHANGED credit
             \/ AckRead(n)
             \/ \E r \in Radio, p \in Packet : InputUnicast(n, r, p)
    BY <1>2, NodeStep
  <2>2. credit \in [Node -> Int]
    BY <1>2 DEF IndInv, TypeOK
  <2>3. \A h \in Node, x \in Radio : AckIn(h, x) \in {0, 1} /\ AckIn(h, x)' \in {0, 1}
    BY DEF AckIn
  <2>4. "LONG_RADIO" \in Radio /\ "SHORT_RADIO" \in Radio
    BY DEF Radio
  <2> SUFFICES ASSUME NEW h \in Node
               PROVE  credit'[h] >= AckIn(h, "LONG_RADIO")' + AckIn(h, "SHORT_RADIO")'
    BY DEF CreditInv
  <2>5. credit[h] \in Int /\ credit[h] >= AckIn(h, "LONG_RADIO") + AckIn(h, "SHORT_RADIO")
    BY <1>2, <2>2 DEF CreditInv
  <2>6. ASSUME credit'[h] >= credit[h], credit'[h] \in Int,
               \A x \in Radio : AckIn(h, x)' \in 0..AckIn(h, x)
        PROVE  credit'[h] >= AckIn(h, "LONG_RADIO")' + AckIn(h, "SHORT_RADIO")'
    <3>1. /\ AckIn(h, "LONG_RADIO")' \in 0..AckIn(h, "LONG_RADIO")
          /\ AckIn(h, "SHORT_RADIO")' \in 0..AckIn(h, "SHORT_RADIO")
      BY <2>4, <2>6
    <3> HIDE DEF AckIn
    <3> QED BY <2>3, <2>4, <2>5, <2>6, <3>1
  <2>7. CASE \E r \in Radio, p \in Packet : InputUnicast(n, r, p)
    <3>1. PICK r \in Radio, p \in Packet : InputUnicast(n, r, p)
      BY <2>7
    <3>2. credit' = [credit EXCEPT ![Src[p]] = @ + 1] /\ Src[p] \in Node
      BY <3>1, DualMacAssumption DEF InputUnicast
    <3>3. CASE h = Src[p]
      <4>1. PICK y \in Radio :
              /\ AckIn(h, y)' \in 0..AckIn(h, y) + 1
              /\ \A x \in Radio \ {y} : AckIn(h, x)' \in 0..AckIn(h, x)
        BY <1>2, <2>1, <3>1, <3>3, AckHeard
      <4>2. credit'[h] = credit[h] + 1
        BY <2>2, <3>2, <3>3
      <4> HIDE DEF AckIn
      <4>3. CASE y = "LONG_RADIO"
        <5>1. AckIn(h, "SHORT_RADIO")' \in 0..AckIn(h, "SHORT_RADIO")
          BY <2>4, <4>1, <4>3
        <5> QED BY <2>3, <2>4, <2>5, <4>1, <4>2, <4>3, <5>1
      <4>4. CASE y = "SHORT_RADIO"
        <5>1. AckIn(h, "LONG_RADIO")' \in 0..AckIn(h, "LONG_RADIO")
          BY <2>4, <4>1, <4>4
        <5> QED BY <2>3, <2>4, <2>5, <4>1, <4>2, <4>4, <5>1
      <4> QED BY <4>3, <4>4 DEF Radio
    <3>4. CASE h # Src[p]
      <4>1. credit'[h] = credit[h]
        BY <2>2, <3>2, <3>4
      <4>2. \A s \in Radio, q \in Packet : InputUnicast(n, s, q) => Src[q] # h
        <5> SUFFICES ASSUME NEW s \in Radio, NEW q \in Packet, InputUnicast(n, s, q),
                            Src[q] = h
                     PROVE  FALSE
          OBVIOUS
        <5>1. credit' = [credit EXCEPT ![h] = @ + 1]
          BY DEF InputUnicast
        <5> QED BY <2>2, <2>5, <4>1, <5>1
      <4>3. \A x \in Radio : AckIn(h, x)' \in 0..AckIn(h, x)
        BY <1>2, <2>1, <4>2, AcksWaiting
      <4> QED BY <2>5, <2>6, <4>1, <4>3
    <3> QED BY <3>3, <3>4
  <2>8. CASE ~\E r \in Radio, p \in Packet : InputUnicast(n, r, p)
    <3>1. \A k \in Node, x \in Radio : AckIn(k, x)' \in 0..AckIn(k, x)
      BY <1>2, <2>1, <2>8, AcksWaiting
    <3>2. CASE UNCHANGED credit
      BY <2>5, <2>6, <3>1, <3>2
    <3>3. CASE AckRead(n)
      <4>1. /\ \A k \in Node \ {n} : credit'[k] = credit[k]
            /\ credit'[n] >= AckIn(n, "LONG_RADIO")' + AckIn(n, "SHORT_RADIO")'
        BY <1>2, <2>1, <3>1, <3>3, AckTaken
      <4> QED BY <2>5, <2>6, <3>1, <4>1
    <3> QED BY <2>1, <2>8, <3>2, <3>3
  <2> QED BY <2>7, <2>8
<1>3. CreditInv /\ UNCHANGED vars => CreditInv'
  BY DEF CreditInv, AckIn, vars, historyVars
<1>4. IndInv /\ CreditInv => OksArePaidFor
  <2> SUFFICES ASSUME IndInv, CreditInv, NEW n \in Node PROVE credit[n] >= 0
    BY DEF OksArePaidFor
  <2>1. credit[n] \in Int
    BY DEF IndInv, TypeOK
  <2>2. credit[n] >= AckIn(n, "LONG_RADIO") + AckIn(n, "SHORT_RADIO")
    BY DEF CreditInv
  <2>3. AckIn(n, "LONG_RADIO") \in {0, 1} /\ AckIn(n, "SHORT_RADIO") \in {0, 1}
    BY DEF AckIn
  <2> QED BY <2>1, <2>2, <2>3
<1> QED BY <1>1, <1>2, <1>3, <1>4, Inductive, PTL DEF Spec
=============================================================================
