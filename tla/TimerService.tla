---------------------------- MODULE TimerService ----------------------------
(***************************************************************************)
(* What Contiki's kernel promises to the code that uses events and timers: *)
(* events are handed over one by one in the order in which they were       *)
(* posted, a timer's event is posted only when the timer is due, and the   *)
(* event of a timer that is due and left alone is posted in the end.       *)
(* Process lists, polls and call stacks are the kernel's own business.     *)
(***************************************************************************)
EXTENDS Naturals, Sequences

CONSTANTS
  Timer,      \* the timers of all processes
  Message,    \* an event that is not a timer's
  NumEvents   \* PROCESS_CONF_NUMEVENTS

VARIABLES
  now,    \* the clock
  armed,  \* timers that are set and have not expired
  due,    \* when each timer expires
  queue   \* events posted and not handed over: a timer, or Message

vars == <<now, armed, due, queue>>

Init ==
  /\ now = 0
  /\ armed = {}
  /\ due \in [Timer -> Nat]
  /\ queue = << >>

\* A timer is set, or set again, to a new time.
Arm(t) ==
  /\ armed' = armed \union {t}
  /\ due'[t] \in Nat
  /\ due' = [due EXCEPT ![t] = due'[t]]
  /\ UNCHANGED <<now, queue>>

\* Timers are stopped, or lose the process they belong to.
Cancel ==
  /\ armed' \in SUBSET armed
  /\ UNCHANGED <<now, due, queue>>

Expire(t) ==
  /\ t \in armed
  /\ due[t] <= now
  /\ Len(queue) < NumEvents
  /\ armed' = armed \ {t}
  /\ queue' = Append(queue, t)
  /\ UNCHANGED <<now, due>>

Post ==
  /\ Len(queue) < NumEvents
  /\ queue' = Append(queue, Message)
  /\ UNCHANGED <<now, armed, due>>

Deliver ==
  /\ queue # << >>
  /\ queue' = Tail(queue)
  /\ UNCHANGED <<now, armed, due>>

Tick ==
  /\ now' = now + 1
  /\ UNCHANGED <<armed, due, queue>>

Next ==
  \/ \E t \in Timer : Arm(t) \/ Expire(t)
  \/ Cancel \/ Post \/ Deliver \/ Tick

Spec == Init /\ [][Next]_vars

Progress ==
  /\ WF_vars(Deliver)
  /\ \A t \in Timer : SF_vars(Expire(t))
=============================================================================
