----------------------------- MODULE MacService -----------------------------
(***************************************************************************)
(* What the MAC layer promises the network layer (core/net/mac/mac.h): a   *)
(* packet passed to send is either refused with an error or accepted into  *)
(* the FIFO of its destination, and the sent callback is made exactly once *)
(* for each packet, in the order of acceptance per destination.            *)
(*                                                                         *)
(* The pools, the timers, the retries, the backoff and the radios are not  *)
(* visible: Csma implements this specification.                            *)
(***************************************************************************)
EXTENDS Sequences, Naturals

CONSTANTS Addr, Packet, Status

VARIABLES
  waiting,   \* the packets accepted for each destination and not yet reported
  outcome,   \* what has become of each packet
  reports    \* sent callbacks made for each packet

vars == <<waiting, outcome, reports>>

Init ==
  /\ waiting = [a \in Addr |-> <<>>]
  /\ outcome = [p \in Packet |-> "new"]
  /\ reports = [p \in Packet |-> 0]

Accept(p, a) ==
  /\ outcome[p] = "new"
  /\ waiting' = [waiting EXCEPT ![a] = Append(@, p)]
  /\ outcome' = [outcome EXCEPT ![p] = "queued"]
  /\ UNCHANGED reports

Refuse(p) ==
  /\ outcome[p] = "new"
  /\ outcome' = [outcome EXCEPT ![p] = "MAC_TX_ERR"]
  /\ reports' = [reports EXCEPT ![p] = @ + 1]
  /\ UNCHANGED waiting

\* The oldest packet of a destination is reported.
Report(a) ==
  /\ waiting[a] # <<>>
  /\ \E status \in Status : outcome' = [outcome EXCEPT ![Head(waiting[a])] = status]
  /\ reports' = [reports EXCEPT ![Head(waiting[a])] = @ + 1]
  /\ waiting' = [waiting EXCEPT ![a] = Tail(@)]

Next ==
  \/ \E p \in Packet, a \in Addr : Accept(p, a)
  \/ \E p \in Packet : Refuse(p)
  \/ \E a \in Addr : Report(a)

Spec == Init /\ [][Next]_vars

\* Whatever waits is reported in the end.
FairSpec == Spec /\ \A a \in Addr : WF_vars(Report(a))
=============================================================================
