--------------------------- MODULE Kernel_proofs ---------------------------
(***************************************************************************)
(* Proofs about the kernel, for any processes, timers and intervals, any   *)
(* size of the event queue and any depth of the call stack.                *)
(***************************************************************************)
EXTENDS Kernel, TLAPS

\* The three stages of exit_process.
IsExit(frame) == frame.runs \in {"untold", "told", "exit"}

\* Protocol processes are the only ones to be exited, and nothing runs above
\* a walk that does not end.
StackOK ==
  \A i \in DOMAIN stack :
    /\ stack[i].runs = "circle" => stack[i].proc = None /\ i = Len(stack)
    /\ stack[i].runs # "circle" => stack[i].proc \in AllProcess
    /\ IsExit(stack[i]) => stack[i].proc \in Process

\* A process that is being exited is still listed, is not started, and runs
\* nothing above its exit.
ExitsOnce ==
  exits # "twice" => \A i \in DOMAIN stack : IsExit(stack[i]) =>
    /\ stack[i].proc \in process_list /\ state[stack[i].proc] = "none"
    /\ \A j \in DOMAIN stack : i < j => stack[j].proc # stack[i].proc

\* As long as no process is exited inside itself, no process is executed
\* inside itself and do_poll walks along listed processes.
FramesDiffer ==
  exits = "outside" =>
    /\ \A i, j \in DOMAIN stack : stack[i].proc = stack[j].proc => i = j
    /\ toPoll \subseteq process_list

\* The two processes of the kernel are always started, and the event timers
\* inside callback timers notify ctimer_process.
KernelStarted ==
  /\ {etimer_process, ctimer_process} \subseteq process_list
  /\ \A c \in Ctimer \intersect timerlist : tp[c] = ctimer_process

\* From the time etimer_process has heard of an exit, the process that exits
\* has no timers but those that are adrift: its own calls are those of a
\* process that is not started any more.
Told(p) == \E i \in DOMAIN stack : stack[i].proc = p /\ stack[i].runs \in {"told", "exit"}
ToldHaveNoTimers == exits # "twice" => \A t \in timerlist \ adrift : ~Told(tp[t])

Structure == StackOK /\ ListedIffStarted /\ ExitsOnce /\ FramesDiffer
TimersOK == KernelStarted /\ ListedTimersNotify /\ ToldHaveNoTimers

\* What every step preserves together.
KernelInv == TypeOK /\ Structure /\ TimersOK

----------------------------------------------------------------------------
(***************************************************************************)
(* The call stack.                                                         *)
(***************************************************************************)
LEMMA Names ==
  /\ Process \subseteq AllProcess /\ Polled \subseteq Process /\ None \notin AllProcess
  /\ etimer_process \in AllProcess /\ ctimer_process \in AllProcess
  /\ etimer_process \notin Process /\ ctimer_process \notin Process
  /\ Etimer \subseteq Timer /\ Ctimer \subseteq Timer /\ Etimer \intersect Ctimer = {}
  /\ NumEvents \in Nat /\ MaxTime \in Nat /\ MaxPosts \in Nat
BY KernelAssumption DEF AllProcess, Timer

LEMMA TopType ==
  ASSUME stack \in Seq(Frame), stack # << >>
  PROVE  /\ Top \in Frame /\ Top = stack[Len(stack)]
         /\ Len(stack) \in DOMAIN stack /\ Len(stack) \in Nat
         /\ DOMAIN stack = 1..Len(stack)
BY DEF Top

LEMMA Pushed ==
  ASSUME stack \in Seq(Frame), NEW f \in Frame, stack' = Append(stack, f)
  PROVE  /\ stack' \in Seq(Frame) /\ Len(stack) \in Nat /\ Len(stack') = Len(stack) + 1
         /\ DOMAIN stack = 1..Len(stack)
         /\ DOMAIN stack' = DOMAIN stack \union {Len(stack) + 1}
         /\ stack'[Len(stack) + 1] = f
         /\ \A i \in DOMAIN stack : stack'[i] = stack[i]
         /\ \A x : Executing(x)' <=> (Executing(x) \/ (f.proc = x /\ f.runs = "handler"))
         /\ \A x : Exiting(x)' <=> (Exiting(x) \/ (f.proc = x /\ IsExit(f)))
         /\ f.runs \notin {"told", "exit"} => \A x : Told(x)' => Told(x)
<1>1. /\ stack' \in Seq(Frame) /\ Len(stack) \in Nat /\ Len(stack') = Len(stack) + 1
      /\ DOMAIN stack = 1..Len(stack) /\ DOMAIN stack' = 1..(Len(stack) + 1)
      /\ stack'[Len(stack) + 1] = f
      /\ \A i \in 1..Len(stack) : stack'[i] = stack[i]
  OBVIOUS
<1>2. DOMAIN stack' = DOMAIN stack \union {Len(stack) + 1}
  BY <1>1
<1>3. \A i \in DOMAIN stack : stack'[i] = stack[i]
  BY <1>1
<1>4. ASSUME NEW x
      PROVE  Executing(x)' <=> (Executing(x) \/ (f.proc = x /\ f.runs = "handler"))
  BY <1>1, <1>2, <1>3 DEF Executing
<1>5. ASSUME NEW x PROVE Exiting(x)' <=> (Exiting(x) \/ (f.proc = x /\ IsExit(f)))
  BY <1>1, <1>2, <1>3 DEF Exiting, IsExit
<1>6. ASSUME f.runs \notin {"told", "exit"}, NEW x PROVE Told(x)' => Told(x)
  BY <1>1, <1>2, <1>3, <1>6 DEF Told
<1> QED BY <1>1, <1>2, <1>3, <1>4, <1>5, <1>6

LEMMA Popped ==
  ASSUME stack \in Seq(Frame), stack # << >>, stack' = Under
  PROVE  /\ stack' \in Seq(Frame) /\ Len(stack') = Len(stack) - 1
         /\ \A i \in DOMAIN stack' : i \in DOMAIN stack /\ i < Len(stack) /\ stack'[i] = stack[i]
         /\ \A x : Executing(x)' => Executing(x)
         /\ \A x : Exiting(x)' => Exiting(x)
         /\ \A x : Told(x)' => Told(x)
         /\ \A x : x # Top.proc => (Executing(x)' <=> Executing(x)) /\ (Exiting(x)' <=> Exiting(x))
<1>1. Len(stack) \in Nat \ {0} /\ DOMAIN stack = 1..Len(stack)
  OBVIOUS
<1>2. /\ stack' \in Seq(Frame) /\ Len(stack') = Len(stack) - 1
      /\ DOMAIN stack' = 1..(Len(stack) - 1)
      /\ \A i \in 1..(Len(stack) - 1) : stack'[i] = stack[i]
  BY <1>1 DEF Under
<1>3. \A i \in DOMAIN stack' : i \in DOMAIN stack /\ i < Len(stack) /\ stack'[i] = stack[i]
  BY <1>1, <1>2
<1>4. \A i \in DOMAIN stack : i = Len(stack) \/ i \in DOMAIN stack'
  BY <1>1, <1>2
<1>5. \A x : /\ Executing(x)' => Executing(x)
             /\ Exiting(x)' => Exiting(x)
             /\ Told(x)' => Told(x)
  BY <1>3 DEF Executing, Exiting, Told
<1>6. ASSUME NEW x, x # Top.proc
      PROVE  (Executing(x) => Executing(x)') /\ (Exiting(x) => Exiting(x)')
  BY <1>3, <1>4, <1>6 DEF Executing, Exiting, Top
<1> QED BY <1>2, <1>3, <1>5, <1>6

LEMMA Went ==
  ASSUME stack \in Seq(Frame), stack # << >>, NEW place \in {"untold", "told", "exit"},
         Goto(place)
  PROVE  /\ stack' \in Seq(Frame) /\ Len(stack') = Len(stack) /\ DOMAIN stack' = DOMAIN stack
         /\ \A i \in DOMAIN stack : i # Len(stack) => stack'[i] = stack[i]
         /\ stack'[Len(stack)].proc = Top.proc /\ stack'[Len(stack)].runs = place
<1>1. /\ Top \in Frame /\ Len(stack) \in DOMAIN stack /\ DOMAIN stack = 1..Len(stack)
      /\ Top = stack[Len(stack)]
  BY TopType
<1>2. [Top EXCEPT !.runs = place] \in Frame
  BY <1>1 DEF Frame
<1>3. stack' = [stack EXCEPT ![Len(stack)] = [Top EXCEPT !.runs = place]]
  BY <1>1 DEF Goto, Top
<1>4. /\ stack' \in Seq(Frame) /\ Len(stack') = Len(stack) /\ DOMAIN stack' = DOMAIN stack
      /\ \A i \in DOMAIN stack : i # Len(stack) => stack'[i] = stack[i]
      /\ stack'[Len(stack)] = [Top EXCEPT !.runs = place]
  BY <1>1, <1>2, <1>3
<1>5. [Top EXCEPT !.runs = place].proc = Top.proc /\ [Top EXCEPT !.runs = place].runs = place
  BY <1>1 DEF Frame
<1> QED BY <1>4, <1>5

----------------------------------------------------------------------------
(***************************************************************************)
(* Type correctness.                                                       *)
(***************************************************************************)
LEMMA UpdatedTimeType ==
  ASSUME NEW list \in SUBSET Timer, NEW ends \in [Timer -> Nat]
  PROVE  UpdatedTime(list, ends) \subseteq Nat
BY DEF UpdatedTime

LEMMA PollType ==
  ASSUME TypeOK, NEW p \in AllProcess, process_poll(p)
  PROVE  needspoll' \in [AllProcess -> BOOLEAN] /\ poll_requested' \in BOOLEAN
BY DEF TypeOK, process_poll, polls

LEMMA FrameType ==
  ASSUME NEW p \in AllProcess, NEW ctx \in AllProcess \union {None},
         NEW r \in {"handler", "untold"}
  PROVE  [proc |-> p, ctx |-> ctx, runs |-> r] \in Frame
BY DEF Frame

LEMMA CircleType == [proc |-> None, ctx |-> None, runs |-> "circle"] \in Frame
BY DEF Frame

LEMMA CurrentType ==
  ASSUME TypeOK
  PROVE  Current \in AllProcess \union {None}
BY TopType DEF TypeOK, Current, Frame

LEMMA AddTimerType ==
  ASSUME TypeOK, NEW t \in Timer, NEW e \in Nat, NEW p \in AllProcess \union {None},
         AddTimer(t, e, p)
  PROVE  /\ timerlist' \subseteq Timer /\ due' \in [Timer -> Nat] /\ adrift' \subseteq timerlist'
         /\ tp' \in [Timer -> AllProcess \union {None}] /\ next_expiration' \in Nat
         /\ needspoll' \in [AllProcess -> BOOLEAN] /\ poll_requested' \in BOOLEAN
         /\ stack' \in Seq(Frame) /\ exits' = exits
<1>1. timerlist' \subseteq Timer /\ due' \in [Timer -> Nat] /\ adrift' \subseteq timerlist'
  BY DEF TypeOK, AddTimer
<1>2. tp' \in [Timer -> AllProcess \union {None}]
  BY DEF TypeOK, AddTimer
<1>3. next_expiration' \in Nat
  <2> DEFINE l == timerlist'  d == due'
  <2>1. /\ next_expiration' = next_expiration \/ next_expiration' \in UpdatedTime(l, d)
        /\ l \in SUBSET Timer /\ d \in [Timer -> Nat]
    BY <1>1 DEF AddTimer
  <2> HIDE DEF l, d
  <2> QED BY <2>1, UpdatedTimeType DEF TypeOK
<1>4. needspoll' \in [AllProcess -> BOOLEAN] /\ poll_requested' \in BOOLEAN
  BY PollType, Names DEF AddTimer
<1>5. stack' \in Seq(Frame) /\ exits' = exits
  <2>1. CASE Circles(t)
    <3>1. stack \in Seq(Frame)
      BY DEF TypeOK
    <3> QED BY <2>1, <3>1, CircleType, Pushed DEF AddTimer
  <2>2. CASE ~Circles(t)
    BY <2>2 DEF AddTimer, execution, TypeOK
  <2> QED BY <2>1, <2>2
<1> QED BY <1>1, <1>2, <1>3, <1>4, <1>5

LEMMA RemoveTimerType ==
  ASSUME TypeOK, NEW t \in Timer, RemoveTimer(t)
  PROVE  /\ timerlist' \subseteq Timer /\ due' \in [Timer -> Nat] /\ adrift' \subseteq timerlist'
         /\ tp' \in [Timer -> AllProcess \union {None}] /\ next_expiration' \in Nat
<1>1. /\ timerlist' \subseteq Timer /\ due' \in [Timer -> Nat] /\ adrift' \subseteq timerlist'
      /\ tp' \in [Timer -> AllProcess \union {None}]
  BY DEF TypeOK, RemoveTimer
<1>2. next_expiration' \in Nat
  <2> DEFINE l == timerlist'
  <2>1. l \in SUBSET Timer /\ due \in [Timer -> Nat]
    BY <1>1 DEF TypeOK
  <2>2. next_expiration' = next_expiration \/ next_expiration' \in UpdatedTime(l, due)
    BY DEF RemoveTimer
  <2> HIDE DEF l
  <2> QED BY <2>1, <2>2, UpdatedTimeType DEF TypeOK
<1> QED BY <1>1, <1>2

LEMMA FromType ==
  ASSUME TypeOK, NEW t \in Timer
  PROVE  FromNow(t) \in Nat /\ FromEnd(t) \in Nat
BY KernelAssumption DEF TypeOK, FromNow, FromEnd

LEMMA HeadTailType ==
  ASSUME NEW S, NEW s \in Seq(S), s # << >>, NEW n \in Nat, Len(s) <= n
  PROVE  Head(s) \in S /\ Tail(s) \in Seq(S) /\ Len(Tail(s)) <= n
OBVIOUS

LEMMA CallType ==
  ASSUME TypeOK, NEW p \in AllProcess, NEW ctx \in AllProcess \union {None}, Call(p, ctx)
  PROVE  /\ stack' \in Seq(Frame) /\ exits' = exits
         /\ state' \in [AllProcess -> {"none", "running", "called"}]
<1>1. stack \in Seq(Frame)
  BY DEF TypeOK
<1>2. stack' \in Seq(Frame)
  BY <1>1, FrameType, Pushed DEF Call
<1> QED BY <1>2 DEF Call, TypeOK

LEMMA UnlinkType ==
  ASSUME TypeOK, NEW p, Unlink(p)
  PROVE  process_list' \subseteq AllProcess /\ toPoll' \subseteq AllProcess
BY DEF TypeOK, Unlink

LEMMA TypeStep ==
  ASSUME TypeOK, [Next]_vars
  PROVE  TypeOK'
<1> USE DEF timers, ctimers, processes, polls, execution
<1>1. ASSUME NEW t \in Etimer, etimer_set(t) PROVE TypeOK'
  <2>1. \E e \in Nat : AddTimer(t, e, Current)
    BY <1>1, Names, FromType DEF etimer_set
  <2> QED BY <1>1, <2>1, Names, CurrentType, AddTimerType DEF etimer_set, TypeOK
<1>2. ASSUME NEW t \in Etimer, etimer_stop(t) PROVE TypeOK'
  BY <1>2, Names, RemoveTimerType DEF etimer_stop, TypeOK
<1>3. ASSUME NEW c \in Ctimer, ctimer_set(c) PROVE TypeOK'
  <2>1. \E e \in Nat : AddTimer(c, e, ctimer_process)
    BY <1>3, Names, FromType DEF ctimer_set
  <2>2. cp' \in [Ctimer -> AllProcess \union {None}] /\ ctimer_list' \subseteq Ctimer
    BY <1>3, CurrentType DEF ctimer_set, TypeOK
  <2> QED BY <1>3, <2>1, <2>2, Names, AddTimerType DEF ctimer_set, TypeOK
<1>4. ASSUME NEW c \in Ctimer, ctimer_stop(c) PROVE TypeOK'
  BY <1>4, Names, RemoveTimerType DEF ctimer_stop, TypeOK
<1>5. ASSUME NEW p \in Process, process_post(p) PROVE TypeOK'
  <2>1. [to |-> p, ev |-> "MSG", timer |-> None] \in Event
    BY Names DEF Event
  <2> QED BY <1>5, <2>1, Names DEF process_post, TypeOK
<1>6. ASSUME NEW p \in Process, process_start(p) PROVE TypeOK'
  <2>1. /\ stack' \in Seq(Frame) /\ exits' = exits
        /\ state' \in [AllProcess -> {"none", "running", "called"}]
    BY <1>6, Names, CallType DEF process_start
  <2>2. process_list' \subseteq AllProcess /\ toPoll' \subseteq AllProcess
    BY <1>6, Names DEF process_start, TypeOK
  <2> QED BY <1>6, <2>1, <2>2 DEF process_start, TypeOK
<1>7. ASSUME NEW p \in Process, process_exit(p) PROVE TypeOK'
  <2>1. stack' \in Seq(Frame)
    <3>1. stack \in Seq(Frame)
      BY DEF TypeOK
    <3> QED BY <1>7, <3>1, Names, CurrentType, FrameType, Pushed DEF process_exit
  <2>4. exits' \in {"outside", "inside", "twice"}
    BY <1>7 DEF process_exit, TypeOK
  <2>2. process_list' \subseteq AllProcess /\ toPoll' \subseteq AllProcess
    BY <1>7, UnlinkType DEF process_exit, TypeOK
  <2>3. state' \in [AllProcess -> {"none", "running", "called"}]
    BY <1>7 DEF process_exit, TypeOK
  <2> QED BY <1>7, <2>1, <2>2, <2>3, <2>4 DEF process_exit, TypeOK
<1>8. ASSUME NEW p \in Process, Hears(p) PROVE TypeOK'
  BY <1>8, Names, CallType DEF Hears, TypeOK
<1>9. CASE EtimerHears
  <2>1. stack' \in Seq(Frame)
    BY <1>9, Went DEF EtimerHears, InExit, TypeOK
  <2> QED BY <1>9, <2>1 DEF EtimerHears, TypeOK
<1>10. CASE ExitHandler
  <2>1. stack' \in Seq(Frame)
    BY <1>10, Went DEF ExitHandler, InExit, TypeOK
  <2> QED BY <1>10, <2>1 DEF ExitHandler, TypeOK
<1>11. CASE Unlinks
  <2>1. stack' \in Seq(Frame)
    BY <1>11, Popped DEF Unlinks, InExit, TypeOK
  <2> QED BY <1>11, <2>1, UnlinkType DEF Unlinks, TypeOK
<1>12. CASE Return
  <2>1. stack' \in Seq(Frame)
    BY <1>12, Popped DEF Return, InHandler, TypeOK
  <2> QED BY <1>12, <2>1 DEF Return, TypeOK
<1>13. CASE ReturnEnded
  <2>1. stack # << >> /\ stack \in Seq(Frame)
    BY <1>13 DEF ReturnEnded, InHandler, TypeOK
  <2>2. stack' \in Seq(Frame)
    <3>1. Goto("untold") \/ stack' = Under
      BY <1>13 DEF ReturnEnded
    <3> QED BY <2>1, <3>1, Went, Popped
  <2>3. process_list' \subseteq AllProcess /\ toPoll' \subseteq AllProcess
    BY <1>13, UnlinkType DEF ReturnEnded, TypeOK
  <2>4. state' \in [AllProcess -> {"none", "running", "called"}]
    BY <1>13 DEF ReturnEnded, TypeOK
  <2> QED BY <1>13, <2>2, <2>3, <2>4 DEF ReturnEnded, TypeOK
<1>14. ASSUME NEW t \in Timer, EtimerFires(t) PROVE TypeOK'
  <2>1. [to |-> tp[t], ev |-> "TIMER", timer |-> t] \in Event
    BY DEF Event, TypeOK
  <2>2. next_expiration' \in Nat /\ timerlist' \subseteq Timer
    <3> DEFINE l == timerlist'
    <3>1. l \in SUBSET Timer /\ due \in [Timer -> Nat] /\ next_expiration' \in UpdatedTime(l, due)
      BY <1>14 DEF EtimerFires, TypeOK
    <3> HIDE DEF l
    <3>2. next_expiration' \in Nat
      BY <3>1, UpdatedTimeType
    <3> QED BY <3>1, <3>2 DEF l
  <2>3. tp' \in [Timer -> AllProcess \union {None}] /\ adrift' \subseteq timerlist'
    BY <1>14 DEF EtimerFires, TypeOK
  <2>4. queue' \in Seq(Event) /\ Len(queue') <= NumEvents
    BY <1>14, <2>1, Names DEF EtimerFires, TypeOK
  <2> QED BY <1>14, <2>2, <2>3, <2>4 DEF EtimerFires, TypeOK
<1>15. CASE EtimerReturns
  <2>1. stack' \in Seq(Frame)
    BY <1>15, Popped DEF EtimerReturns, InEtimer, TypeOK
  <2>2. needspoll' \in [AllProcess -> BOOLEAN] /\ poll_requested' \in BOOLEAN
    BY <1>15, Names, PollType DEF EtimerReturns, TypeOK
  <2> QED BY <1>15, <2>1, <2>2 DEF EtimerReturns, TypeOK
<1>16. CASE Booted \/ process_run \/ CastPolls \/ CastEnds
  BY <1>16 DEF Booted, process_run, CastPolls, CastEnds, TypeOK
<1>17. CASE do_event
  <2> DEFINE e == Head(queue)
  <2>1. CASE queue = << >>
    BY <1>17, <2>1 DEF do_event, TypeOK
  <2>2. CASE queue # << >>
    <3>1. queue' = Tail(queue)
      BY <1>17, <2>2 DEF do_event
    <3>2. queue' \in Seq(Event) /\ Len(queue') <= NumEvents /\ e \in Event
      BY <2>2, <3>1, Names, HeadTailType DEF TypeOK
    <3>3. ctimer_list' \subseteq Ctimer
      BY <1>17, <2>2 DEF do_event, TypeOK
    <3>4. /\ stack' \in Seq(Frame) /\ exits' = exits
          /\ state' \in [AllProcess -> {"none", "running", "called"}]
      <4>1. CASE e.to \in Process /\ Call(e.to, e.to)
        BY <4>1, Names, CallType
      <4>2. CASE e.timer \in ctimer_list /\ Call(ctimer_process, cp[e.timer])
        BY <4>2, Names, CallType DEF TypeOK
      <4>3. CASE UNCHANGED <<execution, state>>
        BY <4>3 DEF TypeOK
      <4> QED BY <1>17, <2>2, <4>1, <4>2, <4>3 DEF do_event
    <3> QED BY <1>17, <2>2, <3>2, <3>3, <3>4 DEF do_event, TypeOK
  <2> QED BY <2>1, <2>2
<1>18. ASSUME NEW p \in AllProcess, PollStep(p) PROVE TypeOK'
  <2>1. /\ stack' \in Seq(Frame) /\ exits' = exits
        /\ state' \in [AllProcess -> {"none", "running", "called"}]
    BY <1>18, CallType DEF PollStep, TypeOK
  <2> QED BY <1>18, <2>1 DEF PollStep, TypeOK
<1>19. ASSUME NEW p \in Process, CastStep(p) PROVE TypeOK'
  BY <1>19, Names, CallType DEF CastStep, TypeOK
<1>20. CASE Tick
  <2>1. needspoll' \in [AllProcess -> BOOLEAN] /\ poll_requested' \in BOOLEAN
    BY <1>20, Names, PollType DEF Tick, TypeOK
  <2> QED BY <1>20, <2>1, Names DEF Tick, TypeOK
<1>21. ASSUME NEW p \in Polled, Interrupt(p) PROVE TypeOK'
  <2>1. needspoll' \in [AllProcess -> BOOLEAN] /\ poll_requested' \in BOOLEAN
    BY <1>21, Names, PollType DEF Interrupt
  <2> QED BY <1>21, <2>1 DEF Interrupt, TypeOK
<1>22. CASE UNCHANGED vars
  BY <1>22 DEF vars, TypeOK
<1> QED
  BY <1>1, <1>2, <1>3, <1>4, <1>5, <1>6, <1>7, <1>8, <1>9, <1>10, <1>11, <1>12, <1>13,
     <1>14, <1>15, <1>16, <1>17, <1>18, <1>19, <1>20, <1>21, <1>22 DEF Next

----------------------------------------------------------------------------
(***************************************************************************)
(* The call stack, the process list and the processes' states.             *)
(***************************************************************************)
LEMMA FrameKinds ==
  ASSUME TypeOK, Structure, NEW i \in DOMAIN stack
  PROVE  /\ stack[i].runs = "handler" => Executing(stack[i].proc)
         /\ IsExit(stack[i]) => Exiting(stack[i].proc)
         /\ stack[i].runs = "handler" \/ stack[i].runs = "circle" \/ IsExit(stack[i])
         /\ stack[i].runs # "circle" => stack[i].proc \in AllProcess
<1>1. stack[i] \in Frame
  BY DEF TypeOK
<1>2. stack[i].runs \in {"handler", "untold", "told", "exit", "circle"}
  BY <1>1 DEF Frame
<1> QED BY <1>2 DEF Executing, Exiting, IsExit, Structure, StackOK

\* The same for the handler or exit that runs.
LEMMA TopKinds ==
  ASSUME TypeOK, Structure, stack # << >>
  PROVE  /\ Top.runs = "handler" => Executing(Top.proc)
         /\ IsExit(Top) => Exiting(Top.proc) /\ Top.proc \in Process
         /\ Top.runs = "handler" \/ Top.runs = "circle" \/ IsExit(Top)
         /\ Top.runs # "circle" => Top.proc \in AllProcess
         /\ Top.runs = "circle" => Top.proc = None
<1>1. Len(stack) \in DOMAIN stack /\ Top = stack[Len(stack)]
  BY TopType DEF TypeOK
<1> QED BY <1>1, FrameKinds DEF Structure, StackOK

\* A process that is being exited has left state and timers, not the list.
LEMMA ExitingListed ==
  ASSUME Structure, exits # "twice", NEW p, Exiting(p)
  PROVE  p \in process_list /\ state[p] = "none"
BY DEF Structure, ExitsOnce, Exiting, IsExit

\* As long as no process is exited inside itself, what do_poll has called
\* stays on the list.
LEMMA NotStrayed ==
  ASSUME TypeOK, Structure, exits = "outside", stack # << >> => Top.runs # "circle"
  PROVE  ~Strayed
<1> SUFFICES ASSUME stack # << >> PROVE stack[1].proc \in process_list
  BY DEF Strayed
<1>1. 1 \in DOMAIN stack /\ Top = stack[Len(stack)]
  BY TopType DEF TypeOK
<1>2. stack[1].runs # "circle"
  BY <1>1 DEF Structure, StackOK
<1>3. CASE stack[1].runs = "handler"
  BY <1>1, <1>2, <1>3, FrameKinds DEF Structure, ListedIffStarted
<1>4. CASE IsExit(stack[1])
  BY <1>1, <1>4, FrameKinds, ExitingListed
<1> QED BY <1>1, <1>2, <1>3, <1>4, FrameKinds

LEMMA StructureStays ==
  ASSUME Structure, UNCHANGED <<process_list, state, stack, exits>>,
         toPoll' \subseteq toPoll \union process_list
  PROVE  Structure'
<1> USE DEF Structure
<1>1. \A x : (Executing(x)' <=> Executing(x)) /\ (Exiting(x)' <=> Exiting(x))
  BY DEF Executing, Exiting
<1>2. StackOK' /\ ExitsOnce' /\ FramesDiffer'
  BY DEF StackOK, ExitsOnce, FramesDiffer
<1>3. ListedIffStarted'
  BY <1>1 DEF ListedIffStarted
<1> QED BY <1>2, <1>3

\* A handler starts running.
LEMMA StructureCalls ==
  ASSUME TypeOK, Structure, NEW p \in AllProcess, NEW ctx \in AllProcess \union {None},
         Call(p, ctx), exits # "twice" => ~Exiting(p), stack # << >> => Top.runs # "circle",
         process_list' = process_list \/ process_list' = process_list \union {p},
         exits = "outside" =>
           ~Executing(p) /\ p \in process_list' /\ toPoll' \subseteq process_list'
  PROVE  Structure'
<1> USE DEF Structure
<1> DEFINE f == [proc |-> p, ctx |-> ctx, runs |-> "handler"]
           n == Len(stack) + 1
<1>1. /\ stack \in Seq(Frame) /\ f \in Frame /\ stack' = Append(stack, f)
      /\ exits' = exits /\ state' = [state EXCEPT ![p] = "called"]
  BY FrameType DEF Call, TypeOK
<1>2. /\ DOMAIN stack = 1..Len(stack) /\ DOMAIN stack' = DOMAIN stack \union {n}
      /\ Len(stack) \in Nat /\ Len(stack') = n
      /\ stack'[n].proc = p /\ stack'[n].runs = "handler"
      /\ \A i \in DOMAIN stack : stack'[i] = stack[i]
      /\ \A x : Executing(x)' <=> (Executing(x) \/ x = p)
      /\ \A x : Exiting(x)' <=> Exiting(x)
  <2> HIDE DEF f
  <2>1. f.proc = p /\ f.runs = "handler" /\ ~IsExit(f)
    BY DEF f, IsExit
  <2> QED BY <1>1, <2>1, Pushed
<1> HIDE DEF f
<1>3. \A i \in DOMAIN stack : stack[i].runs # "circle"
  BY <1>2, TopType DEF TypeOK, StackOK
<1>4. StackOK'
  BY <1>2, <1>3 DEF StackOK, IsExit
<1>5. ExitsOnce'
  <2> SUFFICES ASSUME exits # "twice", NEW i \in DOMAIN stack', IsExit(stack'[i])
               PROVE  /\ stack'[i].proc \in process_list' /\ state'[stack'[i].proc] = "none"
                      /\ \A j \in DOMAIN stack' : i < j => stack'[j].proc # stack'[i].proc
    BY <1>1 DEF ExitsOnce, IsExit
  <2>1. i \in DOMAIN stack /\ stack'[i] = stack[i] /\ IsExit(stack[i])
    BY <1>2 DEF IsExit
  <2>2. stack[i].proc # p /\ stack[i].proc \in AllProcess
    BY <1>3, <2>1, FrameKinds
  <2>3. /\ stack[i].proc \in process_list /\ state[stack[i].proc] = "none"
        /\ \A j \in DOMAIN stack : i < j => stack[j].proc # stack[i].proc
    BY <2>1 DEF ExitsOnce
  <2> QED BY <1>1, <1>2, <2>1, <2>2, <2>3 DEF TypeOK
<1>6. FramesDiffer'
  <2> SUFFICES ASSUME exits = "outside"
               PROVE  /\ \A i, j \in DOMAIN stack' : stack'[i].proc = stack'[j].proc => i = j
                      /\ toPoll' \subseteq process_list'
    BY <1>1 DEF FramesDiffer
  <2>1. \A i \in DOMAIN stack : stack[i].proc # p
    BY <1>3, FrameKinds
  <2> QED BY <1>2, <2>1 DEF FramesDiffer
<1>7. ListedIffStarted'
  <2> SUFFICES ASSUME NEW x \in AllProcess
               PROVE  /\ x \in process_list' =>
                           \/ state'[x] = "running"
                           \/ state'[x] = "called" /\ Executing(x)'
                           \/ state'[x] = "none" /\ Exiting(x)'
                      /\ exits = "outside" =>
                           /\ x \notin process_list' => state'[x] = "none"
                           /\ Executing(x)' => state'[x] = "called"
    BY <1>1 DEF ListedIffStarted
  <2> QED BY <1>1, <1>2 DEF ListedIffStarted, TypeOK
<1> QED BY <1>4, <1>5, <1>6, <1>7

\* update_time starts to walk along a circle.
LEMMA StructureCircles ==
  ASSUME TypeOK, Structure, stack # << >> => Top.runs # "circle",
         stack' = Append(stack, [proc |-> None, ctx |-> None, runs |-> "circle"]),
         UNCHANGED <<process_list, state, exits, toPoll>>
  PROVE  Structure'
<1> USE DEF Structure
<1> DEFINE f == [proc |-> None, ctx |-> None, runs |-> "circle"]
           n == Len(stack) + 1
<1>1. stack \in Seq(Frame) /\ f \in Frame /\ stack' = Append(stack, f)
  BY CircleType DEF TypeOK
<1>2. /\ DOMAIN stack = 1..Len(stack) /\ DOMAIN stack' = DOMAIN stack \union {n}
      /\ Len(stack) \in Nat /\ Len(stack') = n
      /\ stack'[n].proc = None /\ stack'[n].runs = "circle"
      /\ \A i \in DOMAIN stack : stack'[i] = stack[i]
      /\ \A x : Executing(x)' <=> Executing(x)
      /\ \A x : Exiting(x)' <=> Exiting(x)
  <2> HIDE DEF f
  <2>1. f.proc = None /\ f.runs = "circle" /\ ~IsExit(f)
    BY DEF f, IsExit
  <2> QED BY <1>1, <2>1, Pushed
<1> HIDE DEF f
<1>3. \A i \in DOMAIN stack : stack[i].runs # "circle" /\ stack[i].proc # None
  BY <1>2, TopType, Names DEF TypeOK, StackOK
<1>4. StackOK'
  BY <1>2, <1>3 DEF StackOK, IsExit
<1>5. ExitsOnce'
  BY <1>2, <1>3 DEF ExitsOnce, IsExit
<1>6. FramesDiffer'
  BY <1>2, <1>3 DEF FramesDiffer
<1>7. ListedIffStarted'
  BY <1>2 DEF ListedIffStarted
<1> QED BY <1>4, <1>5, <1>6, <1>7

\* A handler returns.
LEMMA StructureReturns ==
  ASSUME TypeOK, Structure, stack # << >>, Top.runs = "handler", stack' = Under,
         state' = [state EXCEPT ![Top.proc] = "running"],
         UNCHANGED <<process_list, exits, toPoll>>
  PROVE  Structure'
<1> USE DEF Structure
<1>1. /\ \A i \in DOMAIN stack' : i \in DOMAIN stack /\ i < Len(stack) /\ stack'[i] = stack[i]
      /\ \A x : Executing(x)' => Executing(x)
      /\ \A x : x # Top.proc => (Executing(x)' <=> Executing(x)) /\ (Exiting(x)' <=> Exiting(x))
      /\ Len(stack') = Len(stack) - 1 /\ DOMAIN stack' \subseteq 1..Len(stack')
  BY Popped DEF TypeOK
<1>2. Top = stack[Len(stack)] /\ Len(stack) \in DOMAIN stack /\ DOMAIN stack \subseteq Nat
  BY TopType DEF TypeOK
<1>3. PICK p \in AllProcess : p = Top.proc /\ Executing(p)
  BY TopKinds
<1>4. StackOK'
  BY <1>1, <1>2 DEF StackOK, IsExit
<1>5. ExitsOnce'
  <2> SUFFICES ASSUME exits # "twice", NEW i \in DOMAIN stack', IsExit(stack'[i])
               PROVE  /\ stack'[i].proc \in process_list' /\ state'[stack'[i].proc] = "none"
                      /\ \A j \in DOMAIN stack' : i < j => stack'[j].proc # stack'[i].proc
    BY DEF ExitsOnce, IsExit
  <2>1. i \in DOMAIN stack /\ i < Len(stack) /\ stack'[i] = stack[i] /\ IsExit(stack[i])
    BY <1>1 DEF IsExit
  <2>2. /\ stack[i].proc \in process_list /\ state[stack[i].proc] = "none"
        /\ \A j \in DOMAIN stack : i < j => stack[j].proc # stack[i].proc
    BY <2>1 DEF ExitsOnce
  <2>3. stack[i].proc # Top.proc
    BY <1>2, <2>1, <2>2
  <2> QED BY <1>1, <2>1, <2>2, <2>3 DEF TypeOK
<1>6. FramesDiffer'
  BY <1>1 DEF FramesDiffer
<1>7. ListedIffStarted'
  <2>1. exits = "outside" => ~Executing(p)'
    BY <1>1, <1>2, <1>3 DEF FramesDiffer, Executing
  <2>2. exits = "outside" => p \in process_list
    BY <1>3 DEF ListedIffStarted
  <2> SUFFICES ASSUME NEW x \in AllProcess
               PROVE  /\ x \in process_list =>
                           \/ state'[x] = "running"
                           \/ state'[x] = "called" /\ Executing(x)'
                           \/ state'[x] = "none" /\ Exiting(x)'
                      /\ exits = "outside" =>
                           /\ x \notin process_list => state'[x] = "none"
                           /\ Executing(x)' => state'[x] = "called"
    BY DEF ListedIffStarted
  <2>3. CASE x = p
    BY <1>3, <2>1, <2>2, <2>3 DEF TypeOK
  <2>4. CASE x # p
    BY <1>1, <1>3, <2>4 DEF ListedIffStarted, TypeOK
  <2> QED BY <2>3, <2>4
<1> QED BY <1>4, <1>5, <1>6, <1>7

\* exit_process goes on.
LEMMA StructureGoes ==
  ASSUME TypeOK, Structure, stack # << >>, IsExit(Top), NEW place \in {"told", "exit"},
         Goto(place), UNCHANGED <<process_list, state, exits, toPoll>>
  PROVE  Structure'
<1> USE DEF Structure
<1>1. /\ Len(stack') = Len(stack) /\ DOMAIN stack' = DOMAIN stack
      /\ Len(stack) \in DOMAIN stack /\ Top = stack[Len(stack)]
      /\ \A i \in DOMAIN stack : stack'[i].proc = stack[i].proc
      /\ \A i \in DOMAIN stack : IsExit(stack'[i]) <=> IsExit(stack[i])
      /\ \A i \in DOMAIN stack : stack'[i].runs = "handler" <=> stack[i].runs = "handler"
      /\ \A i \in DOMAIN stack : stack'[i].runs = "circle" <=> stack[i].runs = "circle"
  BY TopType, Went DEF TypeOK, IsExit
<1>2. \A x : (Executing(x)' <=> Executing(x)) /\ (Exiting(x)' <=> Exiting(x))
  BY <1>1 DEF Executing, Exiting, IsExit
<1>3. StackOK'
  BY <1>1 DEF StackOK, IsExit
<1>4. ExitsOnce'
  BY <1>1 DEF ExitsOnce, IsExit
<1>5. FramesDiffer'
  BY <1>1 DEF FramesDiffer
<1>6. ListedIffStarted'
  BY <1>2 DEF ListedIffStarted
<1> QED BY <1>3, <1>4, <1>5, <1>6

\* A process is exited by a handler.
LEMMA StructureExits ==
  ASSUME TypeOK, Structure, NEW p \in Process, process_exit(p)
  PROVE  Structure'
<1> USE DEF Structure
<1>1. /\ p \in AllProcess /\ p \in process_list
      /\ stack # << >> => Top.runs # "circle"
      /\ stack \in Seq(Frame) /\ Current \in AllProcess \union {None}
  BY Names, CurrentType DEF process_exit, Calling, InHandler, TypeOK
<1>2. CASE /\ state[p] # "none" /\ state' = [state EXCEPT ![p] = "none"]
           /\ stack' = Append(stack, [proc |-> p, ctx |-> Current, runs |-> "untold"])
           /\ UNCHANGED <<process_list, toPoll>>
  <2> DEFINE f == [proc |-> p, ctx |-> Current, runs |-> "untold"]
             n == Len(stack) + 1
  <2>1. /\ DOMAIN stack = 1..Len(stack) /\ DOMAIN stack' = DOMAIN stack \union {n}
        /\ Len(stack) \in Nat /\ Len(stack') = n
        /\ stack'[n].proc = p /\ stack'[n].runs = "untold"
        /\ \A i \in DOMAIN stack : stack'[i] = stack[i]
        /\ \A x : Executing(x)' <=> Executing(x)
        /\ \A x : Exiting(x)' <=> (Exiting(x) \/ x = p)
    <3>1. f \in Frame /\ stack' = Append(stack, f)
      BY <1>1, <1>2, FrameType
    <3>2. f.proc = p /\ f.runs = "untold" /\ IsExit(f)
      BY DEF IsExit
    <3> HIDE DEF f
    <3> QED BY <1>1, <3>1, <3>2, Pushed
  <2> HIDE DEF f
  <2>2. \A i \in DOMAIN stack : stack[i].runs # "circle"
    BY <1>1, <2>1, TopType DEF StackOK
  <2>3. exits' # "twice" => ~Exiting(p) /\ exits # "twice"
    BY DEF process_exit
  <2>4. exits' = "outside" => ~Executing(p) /\ ~Exiting(p) /\ exits = "outside"
    BY DEF process_exit
  <2>5. StackOK'
    BY <1>1, <2>1, <2>2 DEF StackOK, IsExit
  <2>6. ExitsOnce'
    <3> SUFFICES ASSUME exits' # "twice", NEW i \in DOMAIN stack', IsExit(stack'[i])
                 PROVE  /\ stack'[i].proc \in process_list' /\ state'[stack'[i].proc] = "none"
                        /\ \A j \in DOMAIN stack' : i < j => stack'[j].proc # stack'[i].proc
      BY DEF ExitsOnce, IsExit
    <3>1. CASE i = n
      BY <1>1, <1>2, <2>1, <3>1 DEF TypeOK
    <3>2. CASE i # n
      <4>1. i \in DOMAIN stack /\ stack'[i] = stack[i] /\ IsExit(stack[i])
        BY <2>1, <3>2 DEF IsExit
      <4>2. stack[i].proc # p /\ stack[i].proc \in AllProcess
        BY <2>2, <2>3, <4>1, FrameKinds
      <4>3. /\ stack[i].proc \in process_list /\ state[stack[i].proc] = "none"
            /\ \A j \in DOMAIN stack : i < j => stack[j].proc # stack[i].proc
        BY <2>3, <4>1 DEF ExitsOnce
      <4> QED BY <1>2, <2>1, <4>1, <4>2, <4>3 DEF TypeOK
    <3> QED BY <3>1, <3>2
  <2>7. FramesDiffer'
    <3> SUFFICES ASSUME exits' = "outside"
                 PROVE  /\ \A i, j \in DOMAIN stack' : stack'[i].proc = stack'[j].proc => i = j
                        /\ toPoll' \subseteq process_list'
      BY DEF FramesDiffer
    <3>1. \A i \in DOMAIN stack : stack[i].proc # p
      BY <2>2, <2>4, FrameKinds
    <3> QED BY <1>2, <2>1, <2>4, <3>1 DEF FramesDiffer
  <2>8. ListedIffStarted'
    BY <1>1, <1>2, <2>1, <2>4 DEF ListedIffStarted, TypeOK
  <2> QED BY <2>5, <2>6, <2>7, <2>8
<1>3. CASE state[p] = "none" /\ Unlink(p) /\ UNCHANGED <<state, stack>>
  <2>1. Exiting(p)
    BY <1>1, <1>3 DEF ListedIffStarted
  <2>2. exits' = "twice" /\ process_list' = process_list \ {p}
    BY <1>3, <2>1 DEF process_exit, Unlink
  <2>3. \A x : (Executing(x)' <=> Executing(x)) /\ (Exiting(x)' <=> Exiting(x))
    BY <1>3 DEF Executing, Exiting
  <2>4. ListedIffStarted'
    BY <1>3, <2>2, <2>3 DEF ListedIffStarted
  <2>5. StackOK' /\ ExitsOnce' /\ FramesDiffer'
    BY <1>3, <2>2 DEF StackOK, ExitsOnce, FramesDiffer
  <2> QED BY <2>4, <2>5
<1> QED BY <1>2, <1>3 DEF process_exit, processes

\* exit_process ends.
LEMMA StructureUnlinks ==
  ASSUME TypeOK, Structure, Unlinks
  PROVE  Structure'
<1> USE DEF Structure
<1>1. stack # << >> /\ IsExit(Top) /\ stack' = Under /\ UNCHANGED <<state, exits>>
  BY DEF Unlinks, InExit, IsExit
<1>2. /\ \A i \in DOMAIN stack' : i \in DOMAIN stack /\ i < Len(stack) /\ stack'[i] = stack[i]
      /\ \A x : Executing(x)' => Executing(x)
      /\ \A x : x # Top.proc => (Executing(x)' <=> Executing(x)) /\ (Exiting(x)' <=> Exiting(x))
      /\ Len(stack') = Len(stack) - 1 /\ DOMAIN stack' \subseteq 1..Len(stack')
  BY <1>1, Popped DEF TypeOK
<1>3. Top = stack[Len(stack)] /\ Len(stack) \in DOMAIN stack /\ DOMAIN stack \subseteq Nat
  BY <1>1, TopType DEF TypeOK
<1>4. PICK p \in Process : p = Top.proc /\ Exiting(p)
  BY <1>1, TopKinds
<1>5. process_list' = process_list \ {p}
  BY <1>4 DEF Unlinks, Unlink
<1>6. exits = "outside" => toPoll' = toPoll \ {p}
  BY <1>1, <1>4, NotStrayed DEF Unlinks, Unlink, IsExit
<1>7. exits # "twice" => state[p] = "none"
  BY <1>4, ExitingListed
<1>8. StackOK'
  BY <1>2, <1>3 DEF StackOK, IsExit
<1>9. ExitsOnce'
  <2> SUFFICES ASSUME exits # "twice", NEW i \in DOMAIN stack', IsExit(stack'[i])
               PROVE  /\ stack'[i].proc \in process_list' /\ state'[stack'[i].proc] = "none"
                      /\ \A j \in DOMAIN stack' : i < j => stack'[j].proc # stack'[i].proc
    BY <1>1 DEF ExitsOnce, IsExit
  <2>1. i \in DOMAIN stack /\ i < Len(stack) /\ stack'[i] = stack[i] /\ IsExit(stack[i])
    BY <1>2 DEF IsExit
  <2>2. /\ stack[i].proc \in process_list /\ state[stack[i].proc] = "none"
        /\ \A j \in DOMAIN stack : i < j => stack[j].proc # stack[i].proc
    BY <2>1 DEF ExitsOnce
  <2>3. stack[i].proc # p
    BY <1>3, <1>4, <2>1, <2>2
  <2> QED BY <1>1, <1>2, <1>5, <2>1, <2>2, <2>3
<1>10. FramesDiffer'
  BY <1>1, <1>2, <1>5, <1>6 DEF FramesDiffer
<1>11. ListedIffStarted'
  <2> SUFFICES ASSUME NEW x \in AllProcess
               PROVE  /\ x \in process_list' =>
                           \/ state[x] = "running"
                           \/ state[x] = "called" /\ Executing(x)'
                           \/ state[x] = "none" /\ Exiting(x)'
                      /\ exits = "outside" =>
                           /\ x \notin process_list' => state[x] = "none"
                           /\ Executing(x)' => state[x] = "called"
    BY <1>1 DEF ListedIffStarted
  <2> QED BY <1>2, <1>4, <1>5, <1>7 DEF ListedIffStarted
<1> QED BY <1>8, <1>9, <1>10, <1>11

\* A protothread ends: its process is not being exited already.
LEMMA EndsOnce ==
  ASSUME TypeOK, Structure, ReturnEnded, exits # "twice"
  PROVE  ~Exiting(Top.proc)
<1>1. stack # << >> /\ Top.runs = "handler"
  BY DEF ReturnEnded, InHandler
<1>2. Top = stack[Len(stack)] /\ Len(stack) \in DOMAIN stack /\ DOMAIN stack = 1..Len(stack)
  BY <1>1, TopType DEF TypeOK
<1> QED BY <1>1, <1>2 DEF Structure, ExitsOnce, Exiting, IsExit

LEMMA StructureEnds ==
  ASSUME TypeOK, Structure, ReturnEnded
  PROVE  Structure'
<1> USE DEF Structure
<1>1. stack # << >> /\ Top.runs = "handler" /\ UNCHANGED exits
  BY DEF ReturnEnded, InHandler
<1>2. PICK p \in Process : p = Top.proc /\ Executing(p) /\ p \in AllProcess
  BY <1>1, TopKinds, Names DEF ReturnEnded
<1>3. /\ Top = stack[Len(stack)] /\ Len(stack) \in DOMAIN stack /\ Len(stack) \in Nat
      /\ DOMAIN stack = 1..Len(stack)
  BY <1>1, TopType DEF TypeOK
<1>4. exits # "twice" => ~Exiting(p)
  BY <1>2, EndsOnce
<1>5. CASE /\ p \in process_list /\ state[p] # "none" /\ state' = [state EXCEPT ![p] = "none"]
           /\ Goto("untold") /\ UNCHANGED <<process_list, toPoll>>
  <2>1. /\ Len(stack') = Len(stack) /\ DOMAIN stack' = DOMAIN stack
        /\ \A i \in DOMAIN stack : i # Len(stack) => stack'[i] = stack[i]
        /\ stack'[Len(stack)].proc = p /\ stack'[Len(stack)].runs = "untold"
    BY <1>1, <1>2, <1>5, Went DEF TypeOK
  <2>2. /\ \A x : Executing(x)' => Executing(x)
        /\ \A x : x # p => (Executing(x)' <=> Executing(x))
        /\ \A x : Exiting(x)' <=> (Exiting(x) \/ x = p)
    <3>1. ASSUME NEW x
          PROVE  /\ Executing(x)' => Executing(x)
                 /\ x # p => (Executing(x)' <=> Executing(x))
      BY <1>1, <1>2, <1>3, <2>1 DEF Executing
    <3>2. ASSUME NEW x PROVE Exiting(x)' <=> (Exiting(x) \/ x = p)
      BY <1>1, <1>2, <1>3, <2>1 DEF Exiting
    <3> QED BY <3>1, <3>2
  <2>3. StackOK'
    BY <1>2, <1>3, <2>1 DEF StackOK, IsExit
  <2>4. ExitsOnce'
    <3> SUFFICES ASSUME exits # "twice", NEW i \in DOMAIN stack', IsExit(stack'[i])
                 PROVE  /\ stack'[i].proc \in process_list /\ state'[stack'[i].proc] = "none"
                        /\ \A j \in DOMAIN stack' : i < j => stack'[j].proc # stack'[i].proc
      BY <1>1, <1>5 DEF ExitsOnce, IsExit
    <3>1. CASE i = Len(stack)
      BY <1>2, <1>3, <1>5, <2>1, <3>1 DEF TypeOK
    <3>2. CASE i # Len(stack)
      <4>1. i \in DOMAIN stack /\ stack'[i] = stack[i] /\ IsExit(stack[i])
        BY <2>1, <3>2 DEF IsExit
      <4>2. /\ stack[i].proc \in process_list /\ state[stack[i].proc] = "none"
            /\ \A j \in DOMAIN stack : i < j => stack[j].proc # stack[i].proc
        BY <4>1 DEF ExitsOnce
      <4>3. stack[i].proc # p
        BY <1>4, <4>1, FrameKinds
      <4> QED BY <1>2, <1>3, <1>5, <2>1, <4>1, <4>2, <4>3 DEF TypeOK
    <3> QED BY <3>1, <3>2
  <2>5. FramesDiffer'
    <3>1. \A i \in DOMAIN stack : stack'[i].proc = stack[i].proc
      BY <1>2, <1>3, <2>1
    <3> QED BY <1>1, <1>5, <2>1, <3>1 DEF FramesDiffer
  <2>6. ListedIffStarted'
    <3>1. exits = "outside" => ~Executing(p)'
      BY <1>2, <1>3, <2>1 DEF FramesDiffer, Executing
    <3> QED BY <1>1, <1>2, <1>5, <2>2, <3>1 DEF ListedIffStarted, TypeOK
  <2> QED BY <2>3, <2>4, <2>5, <2>6
<1>6. ASSUME stack' = Under, UNCHANGED state,
             process_list' = process_list \ {p}, exits # "outside",
             exits = "twice" \/ p \notin process_list
      PROVE  Structure'
  <2>1. /\ \A i \in DOMAIN stack' : i \in DOMAIN stack /\ i < Len(stack) /\ stack'[i] = stack[i]
        /\ \A x : x # p => (Executing(x)' <=> Executing(x)) /\ (Exiting(x)' <=> Exiting(x))
        /\ Len(stack') = Len(stack) - 1 /\ DOMAIN stack' \subseteq 1..Len(stack')
    BY <1>1, <1>2, <1>6, Popped DEF TypeOK
  <2>2. StackOK'
    BY <1>3, <2>1 DEF StackOK, IsExit
  <2>3. ExitsOnce'
    <3> SUFFICES ASSUME exits # "twice", NEW i \in DOMAIN stack', IsExit(stack'[i])
                 PROVE  /\ stack'[i].proc \in process_list /\ state[stack'[i].proc] = "none"
                        /\ \A j \in DOMAIN stack' : i < j => stack'[j].proc # stack'[i].proc
      BY <1>1, <1>6 DEF ExitsOnce, IsExit
    <3>1. i \in DOMAIN stack /\ stack'[i] = stack[i] /\ IsExit(stack[i])
      BY <2>1 DEF IsExit
    <3> QED BY <2>1, <3>1 DEF ExitsOnce
  <2>4. FramesDiffer'
    BY <1>1, <1>6 DEF FramesDiffer
  <2>5. ListedIffStarted'
    BY <1>1, <1>6, <2>1 DEF ListedIffStarted
  <2> QED BY <2>2, <2>3, <2>4, <2>5
<1>7. CASE p \in process_list /\ state[p] = "none" /\ Unlink(p) /\ stack' = Under /\ UNCHANGED state
  <2>1. Exiting(p) /\ exits # "outside"
    BY <1>2, <1>7 DEF ListedIffStarted
  <2> QED BY <1>4, <1>6, <1>7, <2>1 DEF Unlink
<1>8. CASE p \notin process_list /\ stack' = Under /\ UNCHANGED processes
  BY <1>2, <1>6, <1>8 DEF processes, ListedIffStarted
<1> QED BY <1>2, <1>5, <1>7, <1>8 DEF ReturnEnded

LEMMA EmptyStack ==
  ASSUME stack = << >>
  PROVE  \A x : ~Executing(x) /\ ~Exiting(x)
BY DEF Executing, Exiting

LEMMA StructureAdds ==
  ASSUME TypeOK, Structure, Calling, NEW t, NEW e, NEW p, AddTimer(t, e, p),
         UNCHANGED processes
  PROVE  Structure'
<1>1. stack # << >> => Top.runs # "circle"
  BY DEF Calling, InHandler
<1>2. CASE Circles(t)
  BY <1>1, <1>2, StructureCircles DEF AddTimer, processes
<1>3. CASE ~Circles(t)
  BY <1>3, StructureStays DEF AddTimer, processes, execution
<1> QED BY <1>2, <1>3

LEMMA StructureStep ==
  ASSUME TypeOK, Structure, KernelStarted, [Next]_vars
  PROVE  Structure'
<1> USE DEF processes, execution
<1>0. ASSUME UNCHANGED <<process_list, state, stack, exits>>,
             toPoll' \subseteq toPoll \union process_list
      PROVE  Structure'
  BY <1>0, StructureStays
\* Between two handlers, a process on the list or one that waits is called.
<1>1. ASSUME stack = << >>, NEW p \in AllProcess, NEW ctx \in AllProcess \union {None},
             Call(p, ctx), UNCHANGED process_list, toPoll' \subseteq toPoll,
             exits = "outside" => p \in process_list
      PROVE  Structure'
  <2>1. ~Executing(p) /\ ~Exiting(p)
    BY <1>1, EmptyStack
  <2>2. exits = "outside" => toPoll' \subseteq process_list'
    BY <1>1 DEF Structure, FramesDiffer
  <2> QED BY <1>1, <2>1, <2>2, StructureCalls
<1>2. ASSUME NEW t \in Timer, etimer_set(t) \/ ctimer_set(t) PROVE Structure'
  BY <1>2, StructureAdds DEF etimer_set, ctimer_set
<1>3. ASSUME NEW t \in Timer, etimer_stop(t) \/ ctimer_stop(t) \/ EtimerFires(t)
      PROVE  Structure'
  BY <1>0, <1>3 DEF etimer_stop, ctimer_stop, EtimerFires
<1>4. ASSUME NEW p \in Process, process_post(p) PROVE Structure'
  BY <1>0, <1>4 DEF process_post
<1>5. ASSUME NEW p \in Process, process_start(p) PROVE Structure'
  <2>1. /\ stack # << >> => Top.runs # "circle"
        /\ p \notin process_list /\ process_list' = process_list \union {p}
    BY <1>5 DEF process_start, Calling, InHandler
  <2>2. exits # "twice" => ~Exiting(p)
    BY <2>1, ExitingListed
  <2>3. exits = "outside" => ~Executing(p)
    BY <2>1, Names DEF Structure, ListedIffStarted
  <2>4. exits = "outside" => toPoll' \subseteq process_list'
    BY <1>5, <2>1, NotStrayed DEF process_start, Structure, FramesDiffer
  <2> QED BY <1>5, <2>1, <2>2, <2>3, <2>4, Names, StructureCalls DEF process_start
<1>6. ASSUME NEW p \in Process, process_exit(p) PROVE Structure'
  BY <1>6, StructureExits
<1>7. ASSUME NEW p \in Process, Hears(p) PROVE Structure'
  <2>1. Top.runs # "circle" /\ state[p] = "running"
    BY <1>7 DEF Hears, InExit
  <2>2. exits # "twice" => ~Exiting(p)
    BY <2>1, ExitingListed
  <2>3. exits = "outside" => ~Executing(p) /\ p \in process_list /\ toPoll \subseteq process_list
    BY <2>1, Names DEF Structure, ListedIffStarted, FramesDiffer
  <2> QED BY <1>7, <2>1, <2>2, <2>3, Names, StructureCalls DEF Hears
<1>8. CASE EtimerHears \/ ExitHandler
  BY <1>8, StructureGoes DEF EtimerHears, ExitHandler, InExit, IsExit
<1>9. CASE Unlinks
  BY <1>9, StructureUnlinks
<1>10. CASE Return
  BY <1>10, StructureReturns DEF Return, InHandler
<1>11. CASE ReturnEnded
  BY <1>11, StructureEnds
<1>12. CASE EtimerReturns
  <2>1. stack # << >> /\ Top.proc = etimer_process /\ Top.runs = "handler"
    BY <1>12, TopKinds, Names DEF EtimerReturns, InEtimer
  <2> QED BY <1>12, <2>1, StructureReturns DEF EtimerReturns
<1>13. CASE do_event
  <2> DEFINE e == Head(queue)
  <2>1. stack = << >> /\ UNCHANGED <<process_list, toPoll>>
    BY <1>13 DEF do_event
  <2>2. CASE UNCHANGED <<execution, state>>
    BY <1>0, <2>1, <2>2
  <2>3. CASE e.to \in Process /\ state[e.to] = "running" /\ Call(e.to, e.to)
    BY <1>1, <2>1, <2>3, Names DEF Structure, ListedIffStarted
  <2>4. CASE e.timer \in ctimer_list /\ Call(ctimer_process, cp[e.timer])
    <3>1. cp[e.timer] \in AllProcess \union {None}
      BY <2>4 DEF TypeOK
    <3> QED BY <1>1, <2>1, <2>4, <3>1, Names DEF KernelStarted
  <2> QED BY <1>13, <2>2, <2>3, <2>4 DEF do_event
<1>14. ASSUME NEW p \in AllProcess, PollStep(p) PROVE Structure'
  <2>1. CASE needspoll[p]
    BY <1>1, <1>14, <2>1 DEF PollStep, Structure, FramesDiffer
  <2>2. CASE ~needspoll[p]
    BY <1>0, <1>14, <2>2 DEF PollStep
  <2> QED BY <2>1, <2>2
<1>15. ASSUME NEW p \in Process, CastStep(p) PROVE Structure'
  BY <1>1, <1>15, Names DEF CastStep, Structure, ListedIffStarted
<1>16. CASE Booted \/ process_run \/ CastPolls \/ CastEnds \/ Tick \/ UNCHANGED vars
  BY <1>0, <1>16 DEF Booted, process_run, CastPolls, CastEnds, Tick, vars
<1>17. ASSUME NEW p \in Polled, Interrupt(p) PROVE Structure'
  BY <1>0, <1>17 DEF Interrupt
<1> QED
  BY <1>2, <1>3, <1>4, <1>5, <1>6, <1>7, <1>8, <1>9, <1>10, <1>11, <1>12, <1>13,
     <1>14, <1>15, <1>16, <1>17, Names DEF Next

----------------------------------------------------------------------------
(***************************************************************************)
(* Listed timers.                                                          *)
(***************************************************************************)
\* No timer is added or left without its process.
LEMMA TimersStay ==
  ASSUME TimersOK, UNCHANGED tp, timerlist' \subseteq timerlist,
         timerlist' \ adrift' \subseteq timerlist \ adrift,
         process_list \subseteq process_list', exits' # "twice" => exits # "twice",
         \A x : Told(x)' => Told(x)
  PROVE  TimersOK'
BY DEF TimersOK, KernelStarted, ListedTimersNotify, ToldHaveNoTimers

\* A process is started, or a process that waits gets an event.
LEMMA TimersCall ==
  ASSUME TypeOK, TimersOK, NEW p \in AllProcess, NEW ctx \in AllProcess \union {None},
         Call(p, ctx), UNCHANGED timers, process_list \subseteq process_list'
  PROVE  TimersOK'
<1> DEFINE f == [proc |-> p, ctx |-> ctx, runs |-> "handler"]
<1>1. f \in Frame /\ f.runs = "handler" /\ stack' = Append(stack, f) /\ stack \in Seq(Frame)
  BY FrameType DEF Call, TypeOK
<1> HIDE DEF f
<1>2. \A x : Told(x)' => Told(x)
  BY <1>1, Pushed
<1> QED BY <1>2, TimersStay DEF Call, timers

\* A timer is set: its process is on the list and started, or it is adrift.
LEMMA TimersAdd ==
  ASSUME KernelInv, NEW t \in Timer, NEW e, NEW p \in AllProcess \union {None},
         AddTimer(t, e, p), t \in Ctimer => p = ctimer_process,
         UNCHANGED process_list
  PROVE  TimersOK'
<1> USE DEF KernelInv, TimersOK
<1>1. \A x : Told(x)' => Told(x)
  <2>1. CASE Circles(t)
    <3> DEFINE f == [proc |-> None, ctx |-> None, runs |-> "circle"]
    <3>1. f \in Frame /\ f.runs = "circle" /\ stack' = Append(stack, f) /\ stack \in Seq(Frame)
      BY <2>1, CircleType DEF AddTimer, TypeOK
    <3> HIDE DEF f
    <3> QED BY <3>1, Pushed
  <2>2. CASE ~Circles(t)
    BY <2>2 DEF AddTimer, execution, Told
  <2> QED BY <2>1, <2>2
<1>2. /\ exits' = exits /\ timerlist' = timerlist \union {t} /\ tp' = [tp EXCEPT ![t] = p]
      /\ adrift' = IF Owned(p) THEN adrift \ {t} ELSE adrift \union {t}
  BY DEF AddTimer, execution
<1>3. exits # "twice" /\ Owned(p) => ~Told(p)
  BY ExitingListed DEF Owned, Told, Exiting
<1>4. KernelStarted'
  BY <1>2 DEF KernelStarted, TypeOK
<1>5. ListedTimersNotify'
  BY <1>2 DEF ListedTimersNotify, Owned, TypeOK
<1>6. ToldHaveNoTimers'
  <2>1. ASSUME exits # "twice", NEW u \in timerlist' \ adrift', NEW x, Told(x)
        PROVE  tp'[u] # x
    <3>1. CASE u = t
      BY <1>2, <1>3, <2>1, <3>1 DEF TypeOK
    <3>2. CASE u # t
      BY <1>2, <2>1, <3>2 DEF ToldHaveNoTimers, TypeOK
    <3> QED BY <3>1, <3>2
  <2>2. ASSUME exits # "twice", NEW u \in timerlist' \ adrift', NEW x, Told(x)'
        PROVE  tp'[u] # x
    BY <1>1, <2>1, <2>2
  <2> QED BY <1>2, <2>2 DEF ToldHaveNoTimers, Told
<1> QED BY <1>4, <1>5, <1>6

LEMMA TimersStep ==
  ASSUME KernelInv, [Next]_vars
  PROVE  TimersOK'
<1> USE DEF timers, processes, execution
<1>a. TypeOK /\ Structure /\ TimersOK
  BY DEF KernelInv
<1>0. ASSUME UNCHANGED tp, timerlist' \subseteq timerlist,
             timerlist' \ adrift' \subseteq timerlist \ adrift,
             process_list \subseteq process_list', UNCHANGED <<stack, exits>>
      PROVE  TimersOK'
  BY <1>0, <1>a, TimersStay DEF Told
<1>1. ASSUME NEW t \in Etimer, etimer_set(t) PROVE TimersOK'
  BY <1>1, <1>a, Names, CurrentType, TimersAdd DEF etimer_set
<1>2. ASSUME NEW c \in Ctimer, ctimer_set(c) PROVE TimersOK'
  BY <1>2, Names, TimersAdd DEF ctimer_set
<1>3. ASSUME NEW t \in Timer, UNCHANGED <<process_list, stack, exits>>,
             timerlist' = timerlist \ {t}, tp' = [tp EXCEPT ![t] = None],
             adrift' = adrift \ {t}
      PROVE  TimersOK'
  BY <1>3, <1>a DEF TimersOK, KernelStarted, ListedTimersNotify, ToldHaveNoTimers, Told, TypeOK
<1>4. ASSUME NEW t \in Timer, etimer_stop(t) \/ ctimer_stop(t) \/ EtimerFires(t)
      PROVE  TimersOK'
  BY <1>3, <1>4 DEF etimer_stop, ctimer_stop, RemoveTimer, EtimerFires
<1>5. ASSUME NEW p \in Process, process_post(p) PROVE TimersOK'
  BY <1>0, <1>5 DEF process_post
<1>6. ASSUME NEW p \in Process, process_start(p) PROVE TimersOK'
  BY <1>6, <1>a, Names, TimersCall DEF process_start
<1>7. ASSUME NEW p \in Process, process_exit(p) PROVE TimersOK'
  <2>1. CASE /\ stack' = Append(stack, [proc |-> p, ctx |-> Current, runs |-> "untold"])
             /\ UNCHANGED process_list
    <3> DEFINE f == [proc |-> p, ctx |-> Current, runs |-> "untold"]
    <3>1. f \in Frame /\ f.runs = "untold" /\ stack' = Append(stack, f) /\ stack \in Seq(Frame)
      BY <2>1, <1>a, Names, CurrentType, FrameType DEF TypeOK
    <3> HIDE DEF f
    <3>2. \A x : Told(x)' => Told(x)
      BY <3>1, Pushed
    <3> QED BY <1>7, <1>a, <2>1, <3>2, TimersStay DEF process_exit
  <2>2. CASE state[p] = "none" /\ Unlink(p)
    <3>1. p \in process_list
      BY <1>7 DEF process_exit
    <3>2. Exiting(p)
      BY <1>a, <2>2, <3>1, Names DEF Structure, ListedIffStarted
    <3>3. exits' = "twice" /\ process_list' = process_list \ {p} /\ UNCHANGED <<timerlist, tp>>
      BY <1>7, <2>2, <3>2 DEF process_exit, Unlink
    <3> QED BY <1>a, <3>3, Names
            DEF TimersOK, KernelStarted, ListedTimersNotify, ToldHaveNoTimers
  <2> QED BY <1>7, <2>1, <2>2 DEF process_exit
<1>8. ASSUME NEW p \in Process, Hears(p) PROVE TimersOK'
  BY <1>8, <1>a, Names, TimersCall DEF Hears
<1>9. CASE EtimerHears
  <2> PICK p \in Process : p = Top.proc
    BY <1>9, <1>a, TopKinds DEF EtimerHears, InExit, IsExit
  <2>1. /\ timerlist' = {t \in timerlist : tp[t] # p} /\ adrift' = adrift \intersect timerlist'
        /\ UNCHANGED <<tp, process_list, exits>> /\ Goto("told") /\ stack # << >>
    BY <1>9 DEF EtimerHears, InExit
  <2>2. /\ DOMAIN stack' = DOMAIN stack /\ stack'[Len(stack)].proc = p
        /\ \A i \in DOMAIN stack : i # Len(stack) => stack'[i] = stack[i]
    BY <1>a, <2>1, Went DEF TypeOK
  <2>3. ASSUME NEW x, Told(x)' PROVE Told(x) \/ x = p
    BY <2>2, <2>3 DEF Told
  <2> QED BY <1>a, <2>1, <2>3 DEF TimersOK, KernelStarted, ListedTimersNotify, ToldHaveNoTimers
<1>10. CASE ExitHandler
  <2>1. /\ DOMAIN stack' = DOMAIN stack /\ stack'[Len(stack)].proc = stack[Len(stack)].proc
        /\ \A i \in DOMAIN stack : i # Len(stack) => stack'[i] = stack[i]
        /\ stack[Len(stack)].runs = "told" /\ Len(stack) \in DOMAIN stack
    BY <1>10, <1>a, TopType, Went DEF ExitHandler, InExit, TypeOK
  <2>2. \A x : Told(x)' => Told(x)
    BY <2>1 DEF Told
  <2> QED BY <1>10, <1>a, <2>2, TimersStay DEF ExitHandler
<1>11. CASE Unlinks
  <2>1. stack # << >> /\ Top.runs \in {"told", "exit"}
    BY <1>11 DEF Unlinks, InExit
  <2> PICK p \in Process : p = Top.proc
    BY <1>a, <2>1, TopKinds DEF IsExit
  <2>2. /\ process_list' = process_list \ {p} /\ UNCHANGED <<timers, exits>> /\ stack' = Under
    BY <1>11 DEF Unlinks, Unlink
  <2>3. \A x : Told(x)' => Told(x)
    BY <1>a, <2>1, <2>2, Popped DEF TypeOK
  <2>4. Told(p)
    BY <1>a, <2>1, TopType DEF Told, TypeOK
  <2> QED BY <1>a, <2>2, <2>3, <2>4, Names
          DEF TimersOK, KernelStarted, ListedTimersNotify, ToldHaveNoTimers
<1>12. ASSUME stack # << >>, stack' = Under, UNCHANGED <<timers, process_list, exits>>
       PROVE  TimersOK'
  BY <1>12, <1>a, Popped, TimersStay DEF TypeOK
<1>13. CASE Return \/ EtimerReturns
  BY <1>12, <1>13 DEF Return, InHandler, EtimerReturns, InEtimer
<1>14. CASE ReturnEnded
  <2> PICK p \in Process : p = Top.proc
    BY <1>14 DEF ReturnEnded
  <2>1. stack # << >> /\ UNCHANGED <<timers, exits>>
    BY <1>14 DEF ReturnEnded, InHandler
  <2>2. CASE Goto("untold") /\ UNCHANGED process_list
    <3>1. /\ DOMAIN stack' = DOMAIN stack /\ stack'[Len(stack)].runs = "untold"
          /\ \A i \in DOMAIN stack : i # Len(stack) => stack'[i] = stack[i]
      BY <1>a, <2>1, <2>2, Went DEF TypeOK
    <3>2. \A x : Told(x)' => Told(x)
      BY <3>1 DEF Told
    <3> QED BY <1>a, <2>1, <2>2, <3>2, TimersStay
  <2>3. CASE p \in process_list /\ state[p] = "none" /\ Unlink(p)
    <3>1. Exiting(p)
      BY <1>a, <2>3, Names DEF Structure, ListedIffStarted
    <3>2. exits = "twice"
      BY <1>14, <1>a, <3>1, EndsOnce
    <3> QED BY <1>a, <2>1, <2>3, <3>2, Names
            DEF TimersOK, KernelStarted, ListedTimersNotify, ToldHaveNoTimers, Unlink
  <2>4. CASE UNCHANGED process_list /\ stack' = Under
    BY <1>12, <2>1, <2>4
  <2> QED BY <1>14, <2>2, <2>3, <2>4 DEF ReturnEnded
<1>15. CASE do_event
  <2>1. CASE UNCHANGED execution
    BY <1>0, <1>15, <2>1 DEF do_event
  <2>2. CASE Head(queue).to \in Process /\ Call(Head(queue).to, Head(queue).to)
    BY <1>15, <1>a, <2>2, Names, TimersCall DEF do_event
  <2>3. CASE Head(queue).timer \in ctimer_list /\ Call(ctimer_process, cp[Head(queue).timer])
    <3>1. cp[Head(queue).timer] \in AllProcess \union {None}
      BY <1>a, <2>3 DEF TypeOK
    <3> QED BY <1>15, <1>a, <2>3, <3>1, Names, TimersCall DEF do_event
  <2> QED BY <1>15, <2>1, <2>2, <2>3 DEF do_event
<1>16. ASSUME NEW p \in AllProcess, PollStep(p) PROVE TimersOK'
  BY <1>0, <1>16, <1>a, TimersCall DEF PollStep
<1>17. ASSUME NEW p \in Process, CastStep(p) PROVE TimersOK'
  BY <1>17, <1>a, Names, TimersCall DEF CastStep
<1>18. CASE Booted \/ process_run \/ CastPolls \/ CastEnds \/ Tick \/ UNCHANGED vars
  BY <1>0, <1>18 DEF Booted, process_run, CastPolls, CastEnds, Tick, vars
<1>19. ASSUME NEW p \in Polled, Interrupt(p) PROVE TimersOK'
  BY <1>0, <1>19 DEF Interrupt
<1> QED
  BY <1>1, <1>2, <1>4, <1>5, <1>6, <1>7, <1>8, <1>9, <1>10, <1>11, <1>13, <1>14, <1>15,
     <1>16, <1>17, <1>18, <1>19, Names DEF Next

(***************************************************************************)
(* KernelInv is an invariant of the kernel.                                *)
(***************************************************************************)
LEMMA InitKernelInv == Init => KernelInv
<1> SUFFICES ASSUME Init PROVE KernelInv
  OBVIOUS
<1> USE KernelAssumption DEF Init
<1>1. TypeOK
  <2>1. /\ process_list \subseteq AllProcess
        /\ state \in [AllProcess -> {"none", "running", "called"}]
    BY DEF AllProcess
  <2>2. queue \in Seq(Event) /\ Len(queue) = 0 /\ stack \in Seq(Frame)
    OBVIOUS
  <2>3. /\ due \in [Timer -> Nat] /\ tp \in [Timer -> AllProcess \union {None}]
        /\ cp \in [Ctimer -> AllProcess \union {None}]
        /\ needspoll \in [AllProcess -> BOOLEAN]
    OBVIOUS
  <2>4. /\ timerlist \subseteq Timer /\ ctimer_list \subseteq Ctimer /\ toPoll \subseteq AllProcess
        /\ adrift \subseteq timerlist /\ exits \in {"outside", "inside", "twice"}
        /\ poll_requested \in BOOLEAN /\ pc \in {"boot", "run", "poll", "cast"}
    OBVIOUS
  <2>5. /\ now \in 0..MaxTime /\ posts \in 0..MaxPosts /\ next_expiration \in Nat
        /\ Len(queue) <= NumEvents
    BY <2>2
  <2> QED BY <2>1, <2>2, <2>3, <2>4, <2>5 DEF TypeOK
<1>2. StackOK /\ ExitsOnce /\ FramesDiffer /\ TimersOK
  BY DEF StackOK, ExitsOnce, FramesDiffer, TimersOK, KernelStarted, ListedTimersNotify,
         ToldHaveNoTimers
<1>3. ListedIffStarted
  <2>1. \A x : ~Executing(x)
    BY EmptyStack
  <2>2. ASSUME NEW x \in AllProcess
        PROVE  \/ x \in process_list /\ state[x] = "running"
               \/ x \notin process_list /\ state[x] = "none"
    BY DEF AllProcess
  <2> QED BY <2>1, <2>2 DEF ListedIffStarted
<1> QED BY <1>1, <1>2, <1>3 DEF KernelInv, Structure

LEMMA KernelInvStep == KernelInv /\ [Next]_vars => KernelInv'
BY TypeStep, StructureStep, TimersStep DEF KernelInv, TimersOK

LEMMA KernelInvAlways == Spec => []KernelInv
BY InitKernelInv, KernelInvStep, PTL DEF Spec

\* The kernel's variables keep their types, whatever calls handlers make and
\* however handlers start and exit each other and themselves (process.c,
\* etimer.c, ctimer.c).
THEOREM TypeCorrect == Spec => []TypeOK
BY KernelInvAlways, PTL DEF KernelInv

\* process.c: a listed process waits, is executed or is being exited; and one
\* off the list is not started, as long as no process was exited inside itself.
THEOREM ProcessListMatchesStates == Spec => []ListedIffStarted
BY KernelInvAlways, PTL DEF KernelInv, Structure

\* etimer.c: no timer that was set for a started process stays on the list
\* without it, as long as no process is exited while it is being exited.
THEOREM ListedTimersAreNotified == Spec => []ListedTimersNotify
BY KernelInvAlways, PTL DEF KernelInv, TimersOK

----------------------------------------------------------------------------
(***************************************************************************)
(* Callbacks and polls.                                                    *)
(***************************************************************************)
LEMMA CallbacksStep ==
  ASSUME KernelInv, CallbacksComing, [Next]_vars
  PROVE  CallbacksComing'
<1> USE DEF timers, ctimers, processes, polls, execution
<1>a. TypeOK /\ TimersOK /\ queue \in Seq(Event) /\ ctimer_list \subseteq Ctimer
  BY DEF KernelInv, TypeOK
<1>0. ASSUME ctimer_list' \subseteq ctimer_list, UNCHANGED queue,
             \A c \in ctimer_list' \intersect timerlist : c \in timerlist'
      PROVE  CallbacksComing'
  BY <1>0 DEF CallbacksComing
<1>1. ASSUME NEW m \in Event, queue' = Append(queue, m), ctimer_list' = ctimer_list,
             \A c \in ctimer_list : c \in timerlist =>
                c \in timerlist' \/ (m.timer = c /\ m.to = ctimer_process)
      PROVE  CallbacksComing'
  <2>1. /\ \A i \in DOMAIN queue : i \in DOMAIN queue' /\ queue'[i] = queue[i]
        /\ Len(queue) + 1 \in DOMAIN queue' /\ queue'[Len(queue) + 1] = m
    BY <1>a, <1>1
  <2> QED BY <1>1, <2>1 DEF CallbacksComing
<1>2. ASSUME NEW t \in Timer, EtimerFires(t) PROVE CallbacksComing'
  <2> DEFINE m == [to |-> tp[t], ev |-> "TIMER", timer |-> t]
  <2>1. m \in Event
    BY <1>a DEF Event, TypeOK
  <2>2. /\ queue' = Append(queue, m) /\ timerlist' = timerlist \ {t} /\ t \in timerlist
        /\ ctimer_list' = ctimer_list
    BY <1>2 DEF EtimerFires
  <2>3. t \in Ctimer => m.to = ctimer_process
    BY <1>a, <2>2 DEF TimersOK, KernelStarted
  <2> QED BY <1>1, <1>a, <2>1, <2>2, <2>3
<1>3. ASSUME NEW p \in Process, process_post(p) PROVE CallbacksComing'
  <2> DEFINE m == [to |-> p, ev |-> "MSG", timer |-> None]
  <2>1. m \in Event
    BY Names DEF Event
  <2>2. queue' = Append(queue, m) /\ timerlist' = timerlist /\ ctimer_list' = ctimer_list
    BY <1>3 DEF process_post
  <2> QED BY <1>1, <2>1, <2>2
<1>4. CASE do_event
  <2>1. CASE queue = << >>
    BY <1>0, <1>4, <2>1 DEF do_event
  <2>2. CASE queue # << >>
    <3> DEFINE e == Head(queue)
    <3>1. queue' = Tail(queue) /\ timerlist' = timerlist
      BY <1>4, <2>2 DEF do_event
    <3>2. \A i \in DOMAIN queue : i = 1 \/ (i - 1 \in DOMAIN queue' /\ queue'[i - 1] = queue[i])
      BY <1>a, <2>2, <3>1
    <3>3. \A c \in ctimer_list' : c \in ctimer_list /\ ~(e.to = ctimer_process /\ e.timer = c)
      BY <1>4, Names, <2>2 DEF do_event
    <3>4. e = queue[1]
      BY <1>a, <2>2
    <3> QED BY <3>1, <3>2, <3>3, <3>4 DEF CallbacksComing
  <2> QED BY <2>1, <2>2
<1>5. CASE EtimerHears
  <2> PICK p \in Process : p = Top.proc
    BY <1>5, <1>a, TopKinds DEF EtimerHears, InExit, IsExit, KernelInv
  <2>1. \A c \in ctimer_list \intersect timerlist : tp[c] = ctimer_process
    BY <1>a DEF TimersOK, KernelStarted
  <2>2. timerlist' = {t \in timerlist : tp[t] # p} /\ UNCHANGED <<queue, ctimer_list>>
    BY <1>5 DEF EtimerHears
  <2>3. \A c \in ctimer_list \intersect timerlist : c \in timerlist'
    BY <2>1, <2>2, Names
  <2> QED BY <1>0, <2>2, <2>3
<1>6. ASSUME NEW c \in Ctimer, ctimer_set(c) PROVE CallbacksComing'
  <2>1. \E e : AddTimer(c, e, ctimer_process)
    BY <1>6 DEF ctimer_set
  <2>2. timerlist' = timerlist \union {c} /\ ctimer_list' = ctimer_list \union {c} /\ queue' = queue
    BY <1>6, <2>1 DEF ctimer_set, AddTimer
  <2> QED BY <2>2 DEF CallbacksComing
<1>7. ASSUME NEW c \in Ctimer, ctimer_stop(c) PROVE CallbacksComing'
  BY <1>0, <1>7 DEF ctimer_stop, RemoveTimer
<1>8. ASSUME NEW t \in Etimer, etimer_set(t) PROVE CallbacksComing'
  <2>1. \E e : AddTimer(t, e, Current)
    BY <1>8 DEF etimer_set
  <2> QED BY <1>0, <1>8, <2>1 DEF etimer_set, AddTimer
<1>9. ASSUME NEW t \in Etimer, etimer_stop(t) PROVE CallbacksComing'
  <2>1. t \notin ctimer_list
    BY <1>a, Names
  <2> QED BY <1>0, <1>9, <2>1 DEF etimer_stop, RemoveTimer
<1>10. ASSUME NEW p \in Process, process_start(p) \/ process_exit(p) \/ Hears(p) \/ CastStep(p)
       PROVE  CallbacksComing'
  BY <1>0, <1>10 DEF process_start, process_exit, Hears, CastStep
<1>11. CASE ExitHandler \/ Unlinks \/ Return \/ ReturnEnded \/ EtimerReturns
  BY <1>0, <1>11 DEF ExitHandler, Unlinks, Return, ReturnEnded, EtimerReturns
<1>12. ASSUME NEW p \in AllProcess, PollStep(p) \/ Interrupt(p) PROVE CallbacksComing'
  BY <1>0, <1>12 DEF PollStep, Interrupt
<1>13. CASE Booted \/ process_run \/ CastPolls \/ CastEnds \/ Tick \/ UNCHANGED vars
  BY <1>0, <1>13 DEF Booted, process_run, CastPolls, CastEnds, Tick, vars
<1> QED
  BY <1>2, <1>3, <1>4, <1>5, <1>6, <1>7, <1>8, <1>9, <1>10, <1>11, <1>12, <1>13, Names DEF Next

\* ctimer.c: a callback that is set is not lost.
THEOREM CallbacksAreNotLost == Spec => []CallbacksComing
<1>1. Init => CallbacksComing
  BY DEF Init, CallbacksComing
<1> QED BY <1>1, KernelInvAlways, CallbacksStep, PTL DEF Spec

\* A poll of etimer_process that is marked in needspoll is not forgotten, and
\* do_poll looks at processes only inside process_run.
PollHeard ==
  /\ needspoll[etimer_process] => poll_requested \/ etimer_process \in toPoll
  /\ toPoll # {} => pc \in {"poll", "cast"}

LEMMA PolledProcess ==
  ASSUME KernelInv, process_poll(etimer_process)
  PROVE  needspoll'[etimer_process] /\ poll_requested'
<1>1. ~Exiting(etimer_process)
  BY Names DEF KernelInv, Structure, StackOK, Exiting, IsExit
<1>2. state[etimer_process] # "none"
  BY <1>1, Names DEF KernelInv, Structure, ListedIffStarted, TimersOK, KernelStarted
<1> QED BY <1>2, Names DEF process_poll, KernelInv, TypeOK

LEMMA PollHeardStep ==
  ASSUME KernelInv, PollHeard, [Next]_vars
  PROVE  PollHeard'
<1> USE DEF timers, ctimers, processes, polls
<1>a. etimer_process \in process_list
  BY DEF KernelInv, TimersOK, KernelStarted
<1>0. ASSUME NEW p \in AllProcess, process_poll(p) \/ UNCHANGED polls, UNCHANGED pc,
             toPoll' \subseteq toPoll \/ pc \in {"poll", "cast"},
             etimer_process \in toPoll => etimer_process \in toPoll'
      PROVE  PollHeard'
  BY <1>0 DEF process_poll, PollHeard, KernelInv, TypeOK
<1>1. CASE process_run \/ CastPolls
  BY <1>1, <1>a DEF process_run, CastPolls, PollHeard
<1>2. ASSUME NEW p \in AllProcess, PollStep(p) PROVE PollHeard'
  BY <1>2, Names DEF PollStep, PollHeard, KernelInv, TypeOK
<1>3. CASE do_event \/ Booted \/ CastEnds \/ UNCHANGED vars
  BY <1>3 DEF do_event, Booted, CastEnds, PollHeard, vars
<1>4. ASSUME NEW p \in Process, UNCHANGED <<polls, pc>>, Unlink(p) PROVE PollHeard'
  BY <1>0, <1>4, Names DEF Unlink
<1>5. ASSUME NEW p \in Process, process_exit(p) PROVE PollHeard'
  BY <1>0, <1>4, <1>5, Names DEF process_exit
<1>6. CASE Unlinks
  <2>1. Top.proc \in Process
    BY <1>6, TopKinds DEF Unlinks, InExit, IsExit, KernelInv
  <2> QED BY <1>4, <1>6, <2>1 DEF Unlinks
<1>7. CASE ReturnEnded
  BY <1>0, <1>4, <1>7, Names DEF ReturnEnded
<1>8. ASSUME NEW p \in Process, process_start(p) PROVE PollHeard'
  <2>1. /\ toPoll' = toPoll \/ (Strayed /\ toPoll' = toPoll \union process_list)
        /\ UNCHANGED <<polls, pc>>
    BY <1>8 DEF process_start
  <2> QED BY <1>0, <2>1, Names DEF Strayed
<1>9. ASSUME NEW t \in Timer, etimer_set(t) \/ ctimer_set(t) \/ etimer_stop(t) \/ ctimer_stop(t)
      PROVE  PollHeard'
  <2>1. process_poll(etimer_process) \/ UNCHANGED polls
    BY <1>9 DEF etimer_set, ctimer_set, AddTimer, etimer_stop, ctimer_stop
  <2> QED BY <1>0, <1>9, <2>1, Names DEF etimer_set, ctimer_set, etimer_stop, ctimer_stop
<1>10. ASSUME NEW p \in Process, process_post(p) \/ Hears(p) \/ CastStep(p) PROVE PollHeard'
  BY <1>0, <1>10, Names DEF process_post, Hears, CastStep
<1>11. CASE EtimerHears \/ ExitHandler \/ Return \/ (\E t \in Timer : EtimerFires(t))
  BY <1>0, <1>11, Names DEF EtimerHears, ExitHandler, Return, EtimerFires
<1>12. CASE EtimerReturns \/ Tick
  <2>1. process_poll(etimer_process) \/ UNCHANGED polls
    BY <1>12 DEF EtimerReturns, Tick
  <2> QED BY <1>0, <1>12, <2>1, Names DEF EtimerReturns, Tick
<1>13. ASSUME NEW p \in Polled, Interrupt(p) PROVE PollHeard'
  BY <1>0, <1>13, Names DEF Interrupt
<1> QED
  BY <1>1, <1>2, <1>3, <1>5, <1>6, <1>7, <1>8, <1>9, <1>10, <1>11, <1>12, <1>13, Names DEF Next

\* An expired timer that is still listed is being served or marked.
ExpiredServed ==
  (\E t \in timerlist : Expired(t)) => Executing(etimer_process) \/ needspoll[etimer_process]

LEMMA ExpiredServedStep ==
  ASSUME KernelInv, ExpiredServed, [Next]_vars
  PROVE  ExpiredServed'
<1> USE DEF timers, ctimers, processes, polls, execution
<1>a. TypeOK /\ Structure /\ stack \in Seq(Frame) /\ needspoll \in [AllProcess -> BOOLEAN]
  BY DEF KernelInv, TypeOK
\* Nothing expires, and what is marked or served stays so.
<1>0. ASSUME UNCHANGED <<now, due>>, timerlist' \subseteq timerlist,
             Executing(etimer_process) => Executing(etimer_process)',
             needspoll[etimer_process] => Executing(etimer_process)' \/ needspoll'[etimer_process]
      PROVE  ExpiredServed'
  BY <1>0 DEF ExpiredServed, Expired
<1>1. ASSUME process_poll(etimer_process) PROVE ExpiredServed'
  BY <1>1, PolledProcess DEF ExpiredServed
<1>2. ASSUME NEW p \in AllProcess, process_poll(p) \/ UNCHANGED polls
      PROVE  needspoll[etimer_process] => needspoll'[etimer_process]
  BY <1>2, <1>a, Names DEF process_poll
<1>3. ASSUME UNCHANGED stack PROVE Executing(etimer_process) => Executing(etimer_process)'
  BY <1>3 DEF Executing
<1>4. ASSUME NEW f \in Frame, stack' = Append(stack, f)
      PROVE  /\ Executing(etimer_process) => Executing(etimer_process)'
             /\ f.proc = etimer_process /\ f.runs = "handler" => Executing(etimer_process)'
  BY <1>4, <1>a, Pushed
<1>5. ASSUME NEW p \in AllProcess, NEW ctx \in AllProcess \union {None}, Call(p, ctx)
      PROVE  /\ Executing(etimer_process) => Executing(etimer_process)'
             /\ p = etimer_process => Executing(etimer_process)'
  <2> DEFINE f == [proc |-> p, ctx |-> ctx, runs |-> "handler"]
  <2>1. f \in Frame /\ f.runs = "handler" /\ f.proc = p /\ stack' = Append(stack, f)
    BY <1>5, FrameType DEF Call
  <2> HIDE DEF f
  <2> QED BY <1>4, <2>1
<1>6. ASSUME stack # << >>, Top.proc # etimer_process,
             stack' = Under \/ \E place \in {"untold", "told", "exit"} : Goto(place)
      PROVE  Executing(etimer_process) => Executing(etimer_process)'
  <2>1. CASE stack' = Under
    BY <1>6, <1>a, <2>1, Popped
  <2>2. CASE \E place \in {"untold", "told", "exit"} : Goto(place)
    <3>1. /\ DOMAIN stack' = DOMAIN stack
          /\ \A i \in DOMAIN stack : i # Len(stack) => stack'[i] = stack[i]
      BY <1>6, <1>a, <2>2, Went
    <3> QED BY <1>6, <3>1 DEF Executing, Top
  <2> QED BY <1>6, <2>1, <2>2
<1>7. ASSUME NEW t \in Timer, etimer_set(t) \/ ctimer_set(t) PROVE ExpiredServed'
  BY <1>1, <1>7 DEF etimer_set, ctimer_set, AddTimer
<1>8. ASSUME NEW t \in Timer, etimer_stop(t) \/ ctimer_stop(t) \/ EtimerFires(t)
      PROVE  ExpiredServed'
  BY <1>0, <1>3, <1>8 DEF etimer_stop, ctimer_stop, RemoveTimer, EtimerFires
<1>9. ASSUME NEW p \in Process, process_post(p) PROVE ExpiredServed'
  BY <1>0, <1>3, <1>9 DEF process_post
<1>10. ASSUME NEW p \in Process, process_start(p) \/ Hears(p) \/ CastStep(p) PROVE ExpiredServed'
  BY <1>0, <1>5, <1>10, Names DEF process_start, Hears, CastStep
<1>11. ASSUME NEW p \in Process, process_exit(p) PROVE ExpiredServed'
  <2>1. [proc |-> p, ctx |-> Current, runs |-> "untold"] \in Frame
    BY <1>a, Names, CurrentType, FrameType
  <2>2. Executing(etimer_process) => Executing(etimer_process)'
    BY <1>3, <1>4, <1>11, <2>1 DEF process_exit
  <2> QED BY <1>0, <1>11, <2>2 DEF process_exit
<1>12. CASE EtimerHears \/ ExitHandler \/ Unlinks
  <2>1. stack # << >> /\ Top.proc # etimer_process
    BY <1>12, <1>a, TopKinds, Names DEF EtimerHears, ExitHandler, Unlinks, InExit, IsExit
  <2>2. Executing(etimer_process) => Executing(etimer_process)'
    BY <1>6, <1>12, <2>1 DEF EtimerHears, ExitHandler, Unlinks
  <2> QED BY <1>0, <1>12, <2>2 DEF EtimerHears, ExitHandler, Unlinks
<1>13. CASE Return \/ ReturnEnded
  <2>1. stack # << >> /\ Top.proc # etimer_process
    BY <1>13 DEF Return, ReturnEnded, InHandler
  <2>2. Executing(etimer_process) => Executing(etimer_process)'
    BY <1>6, <1>13, <2>1 DEF Return, ReturnEnded
  <2> QED BY <1>0, <1>13, <2>2 DEF Return, ReturnEnded
<1>14. CASE EtimerReturns
  <2>1. CASE process_poll(etimer_process)
    BY <1>1, <2>1
  <2>2. CASE needspoll[etimer_process] /\ UNCHANGED polls
    BY <2>2 DEF ExpiredServed
  <2>3. CASE \A t \in timerlist : ~Expired(t)
    BY <1>14, <2>3 DEF EtimerReturns, ExpiredServed, Expired
  <2> QED BY <1>14, <2>1, <2>2, <2>3 DEF EtimerReturns
<1>15. ASSUME NEW p \in AllProcess, PollStep(p) PROVE ExpiredServed'
  <2>1. Executing(etimer_process) => Executing(etimer_process)'
    BY <1>3, <1>5, <1>15 DEF PollStep
  <2>2. needspoll[etimer_process] => Executing(etimer_process)' \/ needspoll'[etimer_process]
    BY <1>5, <1>15, <1>a, Names DEF PollStep
  <2> QED BY <1>0, <1>15, <2>1, <2>2 DEF PollStep
<1>16. CASE do_event
  <2>1. ~Executing(etimer_process)
    BY <1>16, EmptyStack DEF do_event
  <2> QED BY <1>0, <1>16, <2>1 DEF do_event
<1>17. CASE Tick
  <2>1. CASE timerlist = {}
    BY <1>17, <2>1 DEF Tick, ExpiredServed
  <2>2. CASE timerlist # {}
    BY <1>1, <1>17, <2>2 DEF Tick
  <2> QED BY <2>1, <2>2
<1>18. CASE Booted \/ process_run \/ CastPolls \/ CastEnds \/ UNCHANGED vars
  BY <1>0, <1>3, <1>18 DEF Booted, process_run, CastPolls, CastEnds, vars
<1>19. ASSUME NEW p \in Polled, Interrupt(p) PROVE ExpiredServed'
  BY <1>0, <1>2, <1>3, <1>19, Names DEF Interrupt
<1> QED
  BY <1>7, <1>8, <1>9, <1>10, <1>11, <1>12, <1>13, <1>14, <1>15, <1>16, <1>17, <1>18, <1>19,
     Names DEF Next

\* process.c and etimer.c: requests to poll are never lost, so that expired
\* timers are served.
THEOREM ExpiredTimersArePolled == Spec => []ExpiredTimersPolled
<1>1. Init => PollHeard /\ ExpiredServed
  BY DEF Init, PollHeard, ExpiredServed, AllProcess
<1>2. PollHeard /\ ExpiredServed => ExpiredTimersPolled
  BY DEF PollHeard, ExpiredServed, ExpiredTimersPolled
<1> QED BY <1>1, <1>2, KernelInvAlways, PollHeardStep, ExpiredServedStep, PTL DEF Spec

----------------------------------------------------------------------------
(***************************************************************************)
(* The wake-up time a sleeping mote is given.                              *)
(***************************************************************************)
\* next_expiration is not after the end of any listed timer still ahead: those that
\* have ended are left out of it, for their distances have wrapped.
\* Only update_time on a list that is a circle leaves it out of date.
NextKnown ==
  ListHasAnEnd => \A t \in timerlist : next_expiration <= due[t] \/ due[t] < now

LEMMA UpdatedTimeKnown ==
  ASSUME NEW list, NEW ends, NEW next \in UpdatedTime(list, ends), NEW t \in list,
         ~(ends[t] < now), now \in Nat, ends \in [Timer -> Nat], list \subseteq Timer
  PROVE  next <= ends[t]
BY DEF UpdatedTime

\* A timer is added, removed or fired.
LEMMA NextUpdated ==
  ASSUME TypeOK', next_expiration' \in UpdatedTime(timerlist', due'), UNCHANGED now
  PROVE  NextKnown'
<1> DEFINE l == timerlist'
           d == due'
           x == next_expiration'
<1>1. l \subseteq Timer /\ d \in [Timer -> Nat] /\ now \in Nat /\ now' = now
  BY DEF TypeOK
<1>2. x \in UpdatedTime(l, d)
  OBVIOUS
<1> HIDE DEF l, d, x
<1>3. \A t \in l : x <= d[t] \/ d[t] < now
  BY <1>1, <1>2, UpdatedTimeKnown
<1> QED BY <1>1, <1>3 DEF NextKnown, l, d, x

\* A walk along a circle does not end: only interrupts go on.
LEMMA CircleStays ==
  ASSUME KernelInv, ~ListHasAnEnd, [Next]_vars
  PROVE  ~ListHasAnEnd'
<1> USE DEF execution
<1>1. /\ stack # << >> /\ Top.runs = "circle" /\ Top.proc = None
      /\ ~Calling /\ ~InHandler /\ ~InEtimer
  BY TopKinds, Names DEF ListHasAnEnd, InExit, Calling, InHandler, InEtimer, KernelInv
<1>2. UNCHANGED stack
  BY <1>1 DEF Next, vars, etimer_set, etimer_stop, ctimer_set, ctimer_stop, process_post,
     process_start, process_exit, Hears, EtimerHears, ExitHandler, Unlinks, InExit, Interrupt,
     Return, ReturnEnded, EtimerFires, EtimerReturns, Booted, process_run, do_event, PollStep,
     CastStep, CastPolls, CastEnds, Tick
<1> QED BY <1>1, <1>2 DEF ListHasAnEnd, InExit, Top

LEMMA NextKnownStep ==
  ASSUME KernelInv, KernelInv', NextKnown, [Next]_vars
  PROVE  NextKnown'
<1> USE DEF timers, ctimers, processes, polls
<1>a. TypeOK /\ TypeOK'
  BY DEF KernelInv
<1>b. CASE ~ListHasAnEnd
  BY <1>b, CircleStays DEF NextKnown
<1>c. CASE ListHasAnEnd
  \* Timers leave the list, or the clock goes on.
  <2>0. ASSUME timerlist' \subseteq timerlist, UNCHANGED <<due, next_expiration>>,
               now' \in {now, now + 1}
        PROVE  NextKnown'
    <3> SUFFICES ASSUME NEW t \in timerlist' PROVE next_expiration <= due[t] \/ due[t] < now'
      BY <2>0 DEF NextKnown
    <3>1. due[t] \in Nat /\ now \in Nat
      BY <2>0, <1>a DEF TypeOK
    <3> QED BY <2>0, <3>1, <1>c DEF NextKnown
  <2>1. ASSUME NEW t \in Timer, NEW e, NEW p, AddTimer(t, e, p), UNCHANGED now
        PROVE  NextKnown'
    <3>1. CASE Circles(t)
      <4> DEFINE f == [proc |-> None, ctx |-> None, runs |-> "circle"]
      <4>1. stack \in Seq(Frame) /\ f \in Frame /\ f.runs = "circle" /\ stack' = Append(stack, f)
        BY <2>1, <3>1, <1>a, CircleType DEF AddTimer, TypeOK
      <4> HIDE DEF f
      <4>2. stack' # << >> /\ stack'[Len(stack')].runs = "circle"
        BY <4>1, Pushed
      <4> QED BY <4>2 DEF NextKnown, ListHasAnEnd, InExit, Top
    <3>2. CASE ~Circles(t)
      BY <2>1, <3>2, <1>a, NextUpdated DEF AddTimer
    <3> QED BY <3>1, <3>2
  <2>2. ASSUME NEW t \in Timer, RemoveTimer(t), UNCHANGED now PROVE NextKnown'
    <3>1. CASE t \in timerlist
      <4>1. next_expiration' \in UpdatedTime(timerlist', due')
        BY <2>2, <3>1 DEF RemoveTimer
      <4> QED BY <2>2, <1>a, <4>1, NextUpdated
    <3>2. CASE t \notin timerlist
      BY <2>0, <2>2, <3>2 DEF RemoveTimer
    <3> QED BY <3>1, <3>2
  <2>3. ASSUME NEW t \in Etimer, etimer_set(t) \/ etimer_stop(t) PROVE NextKnown'
    BY <2>1, <2>2, <2>3, Names DEF etimer_set, etimer_stop
  <2>4. ASSUME NEW c \in Ctimer, ctimer_set(c) \/ ctimer_stop(c) PROVE NextKnown'
    BY <2>1, <2>2, <2>4, Names DEF ctimer_set, ctimer_stop
  <2>5. ASSUME NEW p \in Process,
               \/ process_post(p) \/ process_start(p) \/ process_exit(p)
               \/ Hears(p) \/ CastStep(p)
        PROVE  NextKnown'
    BY <2>0, <2>5 DEF process_post, process_start, process_exit, Hears, CastStep
  <2>6. ASSUME NEW p \in AllProcess, Interrupt(p) \/ PollStep(p) PROVE NextKnown'
    BY <2>0, <2>6 DEF Interrupt, PollStep
  <2>7. CASE EtimerHears \/ ExitHandler \/ Unlinks \/ Return \/ ReturnEnded \/ EtimerReturns
    BY <2>0, <2>7 DEF EtimerHears, ExitHandler, Unlinks, Return, ReturnEnded, EtimerReturns
  <2>8. ASSUME NEW t \in Timer, EtimerFires(t) PROVE NextKnown'
    <3>1. next_expiration' \in UpdatedTime(timerlist', due')
      BY <2>8 DEF EtimerFires
    <3> QED BY <2>8, <1>a, <3>1, NextUpdated DEF EtimerFires
  <2>9. CASE Booted \/ process_run \/ do_event \/ CastPolls \/ CastEnds \/ UNCHANGED vars
    BY <2>0, <2>9 DEF Booted, process_run, do_event, CastPolls, CastEnds, vars
  <2>10. CASE Tick
    BY <2>0, <2>10 DEF Tick
  <2> QED
    BY <2>3, <2>4, <2>5, <2>6, <2>7, <2>8, <2>9, <2>10, Names DEF Next
<1> QED BY <1>b, <1>c

\* etimer.c and main: when nothing is left to do, every listed timer is still ahead
\* and the mote wakes up no later than the first of them.
THEOREM MotesWakeInTime == Spec => []SleepsUntilNext
<1>1. Init => PollHeard /\ ExpiredServed /\ NextKnown
  BY DEF Init, PollHeard, ExpiredServed, NextKnown, AllProcess
<1>2. KernelInv /\ PollHeard /\ ExpiredServed /\ NextKnown => SleepsUntilNext
  <2> SUFFICES ASSUME KernelInv, PollHeard, ExpiredServed, NextKnown, Idle,
                      NEW t \in timerlist
               PROVE  now < due[t] /\ next_expiration <= due[t]
    BY DEF SleepsUntilNext
  <2>1. ~Executing(etimer_process) /\ ~needspoll[etimer_process] /\ ListHasAnEnd
    BY EmptyStack DEF Idle, PollHeard, ListHasAnEnd, InExit
  <2>2. ~Expired(t)
    BY <2>1 DEF ExpiredServed
  <2>3. due[t] \in Nat /\ now \in Nat
    BY DEF KernelInv, TypeOK
  <2> QED BY <2>1, <2>2, <2>3 DEF Expired, NextKnown
<1> QED BY <1>1, <1>2, KernelInvAlways, PollHeardStep, ExpiredServedStep, NextKnownStep,
           PTL DEF Spec

----------------------------------------------------------------------------
(***************************************************************************)
(* The kernel implements TimerService.                                     *)
(***************************************************************************)
Handed == [i \in DOMAIN queue |-> queue[i].timer]

LEMMA HandedType ==
  ASSUME queue \in Seq(Event)
  PROVE  Handed \in Seq(Timer \union {None}) /\ Len(Handed) = Len(queue)
<1>1. \A i \in 1..Len(queue) : queue[i].timer \in Timer \union {None}
  <2> SUFFICES ASSUME NEW i \in 1..Len(queue) PROVE queue[i].timer \in Timer \union {None}
    OBVIOUS
  <2>1. queue[i] \in Event
    OBVIOUS
  <2> QED BY <2>1 DEF Event
<1>2. Len(queue) \in Nat /\ DOMAIN queue = 1..Len(queue)
  OBVIOUS
<1> QED BY <1>1, <1>2 DEF Handed

LEMMA TailDef ==
  ASSUME NEW S, NEW s \in Seq(S), s # << >>
  PROVE  Tail(s) = [i \in 1..(Len(s) - 1) |-> s[i + 1]]
<1>1. Tail(s) \in Seq(S) /\ Len(Tail(s)) = Len(s) - 1 /\ Len(s) \in Nat
  OBVIOUS
<1>2. Tail(s) = [i \in 1..(Len(s) - 1) |-> Tail(s)[i]]
  <2> DEFINE u == Tail(s)
  <2>1. u \in Seq(S) /\ Len(u) = Len(s) - 1
    BY <1>1
  <2> HIDE DEF u
  <2>2. u = [i \in 1..Len(u) |-> u[i]]
    BY <2>1
  <2>3. u = [i \in 1..(Len(s) - 1) |-> u[i]]
    BY <2>1, <2>2
  <2> QED BY <2>3 DEF u
<1>3. \A i \in 1..(Len(s) - 1) : Tail(s)[i] = s[i + 1]
  BY <1>1
<1> QED BY <1>2, <1>3

LEMMA HandedAppend ==
  ASSUME NEW m \in Event, queue \in Seq(Event), queue' = Append(queue, m)
  PROVE  Handed' = Append(Handed, m.timer)
<1>1. Handed \in Seq(Timer \union {None}) /\ Len(Handed) = Len(queue)
  BY HandedType
<1>2. /\ DOMAIN Handed' = 1..(Len(queue) + 1)
      /\ \A i \in 1..(Len(queue) + 1) : Handed'[i] = queue'[i].timer
  BY DEF Handed
<1>3. /\ Append(Handed, m.timer) \in Seq(Timer \union {None})
      /\ Len(Append(Handed, m.timer)) = Len(queue) + 1
      /\ \A i \in 1..(Len(queue) + 1) : Append(Handed, m.timer)[i] = queue'[i].timer
  BY <1>1 DEF Handed, Event
<1>4. Handed' = [i \in 1..(Len(queue) + 1) |-> queue'[i].timer]
  BY DEF Handed
<1>5. Append(Handed, m.timer) = [i \in 1..(Len(queue) + 1) |-> Append(Handed, m.timer)[i]]
  BY <1>3
<1> QED BY <1>3, <1>4, <1>5

LEMMA HandedTail ==
  ASSUME queue \in Seq(Event), queue # << >>, queue' = Tail(queue)
  PROVE  Handed # << >> /\ Handed' = Tail(Handed)
<1>1. Handed \in Seq(Timer \union {None}) /\ Len(Handed) = Len(queue) /\ Handed # << >>
  BY HandedType
<1>2. Handed' = [i \in 1..(Len(queue) - 1) |-> queue[i + 1].timer]
  BY DEF Handed
<1>3. Tail(Handed) = [i \in 1..(Len(queue) - 1) |-> Handed[i + 1]]
  BY <1>1, TailDef
<1>4. \A i \in 1..(Len(queue) - 1) : Handed[i + 1] = queue[i + 1].timer
  BY DEF Handed
<1> QED BY <1>1, <1>2, <1>3, <1>4

LEMMA ServiceArms ==
  ASSUME KernelInv, NEW t \in Timer, NEW e \in Nat, NEW p, AddTimer(t, e, p),
         UNCHANGED <<now, queue>>
  PROVE  Service!Arm(t)
BY DEF AddTimer, Service!Arm, KernelInv, TypeOK

LEMMA ServiceStutters ==
  ASSUME UNCHANGED <<now, timerlist, due, queue>>
  PROVE  UNCHANGED Service!vars
BY DEF Service!vars

LEMMA ServiceCancels ==
  ASSUME UNCHANGED <<now, due, queue>>, timerlist' \subseteq timerlist
  PROVE  Service!Cancel
BY DEF Service!Cancel

LEMMA ServiceStep ==
  ASSUME KernelInv, [Next]_vars
  PROVE  [Service!Next]_Service!vars
<1> USE DEF timers, ctimers, processes, polls, execution
<1>a. queue \in Seq(Event) /\ Len(Handed) = Len(queue)
  BY HandedType DEF KernelInv, TypeOK
<1>1. ASSUME NEW t \in Etimer, etimer_set(t) PROVE Service!Next
  <2>1. \E e \in Nat : AddTimer(t, e, Current)
    BY <1>1, Names, FromType DEF etimer_set, KernelInv
  <2>2. Service!Arm(t)
    BY <1>1, <2>1, Names, ServiceArms DEF etimer_set
  <2> QED BY <2>2, Names DEF Service!Next
<1>2. ASSUME NEW c \in Ctimer, ctimer_set(c) PROVE Service!Next
  <2>1. \E e \in Nat : AddTimer(c, e, ctimer_process)
    BY <1>2, Names, FromType DEF ctimer_set, KernelInv
  <2>2. Service!Arm(c)
    BY <1>2, <2>1, Names, ServiceArms DEF ctimer_set
  <2> QED BY <2>2, Names DEF Service!Next
<1>3. ASSUME NEW t \in Timer, etimer_stop(t) \/ ctimer_stop(t) PROVE Service!Next
  <2>1. Service!Cancel
    BY <1>3, ServiceCancels DEF etimer_stop, ctimer_stop, RemoveTimer
  <2> QED BY <2>1 DEF Service!Next
<1>4. CASE EtimerHears
  <2>1. Service!Cancel
    BY <1>4, ServiceCancels DEF EtimerHears
  <2> QED BY <2>1 DEF Service!Next
<1>5. ASSUME NEW p \in Process, process_post(p) PROVE Service!Next
  <2> DEFINE m == [to |-> p, ev |-> "MSG", timer |-> None]
  <2>1. m \in Event /\ m.timer = None /\ queue' = Append(queue, m)
    BY <1>5, Names DEF process_post, Event
  <2>2. Handed' = Append(Handed, None)
    BY <1>a, <2>1, HandedAppend
  <2>3. Service!Post
    BY <1>5, <1>a, <2>2 DEF process_post, Service!Post, Handed
  <2> QED BY <2>3 DEF Service!Next
<1>6. ASSUME NEW t \in Timer, EtimerFires(t) PROVE Service!Next
  <2> DEFINE m == [to |-> tp[t], ev |-> "TIMER", timer |-> t]
  <2>1. m \in Event /\ m.timer = t /\ queue' = Append(queue, m)
    BY <1>6 DEF EtimerFires, Event, KernelInv, TypeOK
  <2>2. Handed' = Append(Handed, t)
    BY <1>a, <2>1, HandedAppend
  <2>3. Service!Expire(t)
    BY <1>6, <1>a, <2>2 DEF EtimerFires, Expired, Service!Expire, Handed
  <2> QED BY <2>3 DEF Service!Next
<1>7. CASE do_event
  <2>1. CASE queue = << >>
    BY <1>7, <2>1, ServiceStutters DEF do_event
  <2>2. CASE queue # << >>
    <3>1. Handed # << >> /\ Handed' = Tail(Handed)
      BY <1>7, <1>a, <2>2, HandedTail DEF do_event
    <3>2. Service!Deliver
      BY <1>7, <3>1 DEF do_event, Service!Deliver, Handed
    <3> QED BY <3>2 DEF Service!Next
  <2> QED BY <2>1, <2>2
<1>8. CASE Tick
  <2>1. Service!Tick
    BY <1>8 DEF Tick, Service!Tick
  <2> QED BY <2>1 DEF Service!Next
<1>9. ASSUME NEW p \in Process, process_start(p) \/ process_exit(p) \/ Hears(p) \/ CastStep(p)
      PROVE  UNCHANGED Service!vars
  BY <1>9, ServiceStutters DEF process_start, process_exit, Hears, CastStep
<1>10. ASSUME NEW p \in AllProcess, PollStep(p) \/ Interrupt(p) PROVE UNCHANGED Service!vars
  BY <1>10, ServiceStutters DEF PollStep, Interrupt
<1>11. CASE ExitHandler \/ Unlinks \/ Return \/ ReturnEnded \/ EtimerReturns
  BY <1>11, ServiceStutters DEF ExitHandler, Unlinks, Return, ReturnEnded, EtimerReturns
<1>12. CASE Booted \/ process_run \/ CastPolls \/ CastEnds \/ UNCHANGED vars
  BY <1>12, ServiceStutters DEF Booted, process_run, CastPolls, CastEnds, vars
<1> QED
  BY <1>1, <1>2, <1>3, <1>4, <1>5, <1>6, <1>7, <1>8, <1>9, <1>10, <1>11, <1>12, Names DEF Next

\* Every behaviour of the kernel is one the timer service allows: events are
\* handed over in the order in which they were posted, none is made up or
\* lost, and no timer's event is posted before the timer is due.
THEOREM KernelImplementsTimers == Spec => ImplementsTimers
<1>1. Init => Service!Init
  <2> SUFFICES ASSUME Init PROVE Service!Init
    OBVIOUS
  <2>1. due \in [Timer -> Nat] /\ now = 0 /\ timerlist = {}
    BY DEF Init
  <2>2. [i \in DOMAIN queue |-> queue[i].timer] = << >>
    BY DEF Init
  <2> QED BY <2>1, <2>2 DEF Service!Init
<1>2. KernelInv /\ [Next]_vars => [Service!Next]_Service!vars
  BY ServiceStep
<1> QED BY <1>1, <1>2, KernelInvAlways, PTL DEF Spec, ImplementsTimers, Service!Spec
=============================================================================
