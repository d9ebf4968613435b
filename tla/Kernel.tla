------------------------------- MODULE Kernel -------------------------------
(***************************************************************************)
(* Contiki's kernel as the stack of this repository uses it: the event     *)
(* queue, the process list and the polls of core/sys/process.c, the event  *)
(* timers of etimer.c and the callback timers of ctimer.c.  One thread     *)
(* runs handlers to completion; the clock and the radio interrupt it       *)
(* between any two kernel calls.                                           *)
(*                                                                         *)
(* A handler makes any kernel calls, one action each, and then returns.    *)
(* Calls that run handlers push them on the stack: process_start runs the  *)
(* process it starts, and process_exit those that hear of the exit and the *)
(* one that exits, which may be any that is being executed already.        *)
(*                                                                         *)
(* The three linked lists are sets: their orders decide only who is served *)
(* first.  Each timer has one fixed interval.                              *)
(***************************************************************************)
EXTENDS Naturals, Sequences, FiniteSets

CONSTANTS
  Process,    \* processes of the protocols and applications
  Polled,     \* those that a driver polls
  Etimer,     \* their event timers
  Ctimer,     \* callback timers, each with the event timer inside it
  Interval,   \* the interval each timer is set with
  NumEvents,  \* PROCESS_CONF_NUMEVENTS
  MaxTime,    \* bound: ticks of the clock
  MaxPosts,   \* bound: events posted by handlers
  MaxDepth,   \* bound: handlers and exits inside each other, the C stack
  None        \* NULL, PROCESS_NONE, PROCESS_BROADCAST

etimer_process == "etimer_process"
ctimer_process == "ctimer_process"

Timer == Etimer \union Ctimer
AllProcess == Process \union {etimer_process, ctimer_process}

ASSUME KernelAssumption ==
  /\ None \notin AllProcess /\ None \notin Timer
  /\ etimer_process \notin Process /\ ctimer_process \notin Process
  /\ Polled \subseteq Process
  /\ Etimer \intersect Ctimer = {}
  /\ Interval \in [Timer -> Nat \ {0}]
  /\ NumEvents \in Nat \ {0}
  /\ MaxTime \in Nat /\ MaxPosts \in Nat /\ MaxDepth \in Nat

VARIABLES
  now,              \* clock_time()
  timerlist,        \* etimer.c: timers on the list
  due,              \* timer.start + timer.interval of each timer
  tp,               \* etimer.p: the process an event timer notifies
  next_expiration,  \* etimer.c
  adrift,           \* history: timers on the list that were set where no
                    \* started process was the current one
  ctimer_list,      \* ctimer.c: callback timers on the list
  cp,               \* ctimer.p: the process a callback runs for
  process_list,     \* process.c: started processes
  state,            \* PROCESS_STATE_NONE, RUNNING, CALLED
  needspoll,
  poll_requested,
  queue,            \* process.c: events, from fevent on
  stack,            \* handlers and exits being executed
  exits,            \* history: whether a process was exited inside itself
  toPoll,           \* processes do_poll has still to look at
  pc,               \* where main and process_run are
  posts             \* events posted by handlers so far

timers == <<timerlist, due, tp, next_expiration, adrift>>
ctimers == <<ctimer_list, cp>>
processes == <<process_list, state, toPoll>>
polls == <<needspoll, poll_requested>>
execution == <<stack, exits>>
vars == <<now, timers, ctimers, processes, polls, queue, execution, pc, posts>>

----------------------------------------------------------------------------
Event == [to : AllProcess \union {None}, ev : {"MSG", "TIMER"},
          timer : Timer \union {None}]

\* What is being executed, and process_current below it or, in a handler that
\* call_process runs, in it: a handler; exit_process before and after
\* etimer_process has heard of the exit; the handler of the exiting process,
\* with PROCESS_EVENT_EXIT; update_time on a list closed to a circle.
Frame == [proc : AllProcess \union {None}, ctx : AllProcess \union {None},
          runs : {"handler", "untold", "told", "exit", "circle"}]

Top == stack[Len(stack)]
Under == SubSeq(stack, 1, Len(stack) - 1)

\* Code that may call the kernel is running: a handler, or main at boot.
InHandler == /\ stack # << >>
             /\ Top.runs \in {"handler", "exit"} /\ Top.proc # etimer_process
Calling == InHandler \/ (stack = << >> /\ pc = "boot")

\* process_current
Current ==
  IF stack = << >> THEN None ELSE IF Top.runs = "exit" THEN Top.proc ELSE Top.ctx

Executing(p) == \E i \in DOMAIN stack : stack[i].proc = p /\ stack[i].runs = "handler"
Exiting(p) == \E i \in DOMAIN stack :
                stack[i].proc = p /\ stack[i].runs \in {"untold", "told", "exit"}
\* Mutant of Expired: the last tick is not waited for.
ExpiredEarly(t) == due[t] <= now + 1
Expired(t) == due[t] <= now

\* update_time: the distances to the timers' ends wrap, so that a timer
\* whose end has passed seems to be the farthest.
UpdatedTime(list, ends) ==
  LET ahead == {t \in list : now <= ends[t]}
      nearest == IF ahead # {} THEN ahead ELSE list
  IN  IF list = {} THEN {0}
      ELSE {ends[t] : t \in {u \in nearest : \A v \in nearest : ends[u] <= ends[v]}}

process_poll(p) ==
  IF state[p] # "none"
  THEN /\ needspoll' = [needspoll EXCEPT ![p] = TRUE]
       /\ poll_requested' = TRUE
  ELSE UNCHANGED polls

----------------------------------------------------------------------------
Init ==
  /\ now = 0
  /\ timerlist = {} /\ due = [t \in Timer |-> 0]
  /\ tp = [t \in Timer |-> None] /\ next_expiration = 0 /\ adrift = {}
  /\ ctimer_list = {} /\ cp = [c \in Ctimer |-> None]
  /\ process_list = {etimer_process, ctimer_process}
  /\ state = [p \in AllProcess |-> IF p \in Process THEN "none" ELSE "running"]
  /\ needspoll = [p \in AllProcess |-> FALSE] /\ poll_requested = FALSE
  /\ queue = << >> /\ stack = << >> /\ exits = "outside" /\ toPoll = {}
  /\ pc = "boot" /\ posts = 0

(***************************************************************************)
(* Kernel calls of a handler.                                              *)
(***************************************************************************)
Owned(p) == p \in process_list /\ state[p] # "none"

\* Mutant of AddTimer: no update_time.
AddTimerNoUpdate(t, e, p) ==
  /\ process_poll(etimer_process)
  /\ due' = [due EXCEPT ![t] = e]
  /\ tp' = [tp EXCEPT ![t] = p]
  /\ timerlist' = timerlist \union {t}
  /\ adrift' = IF Owned(p) THEN adrift \ {t} ELSE adrift \union {t}
  /\ UNCHANGED <<next_expiration, execution>>

\* A timer whose p is PROCESS_NONE is not looked for on the list: one that is
\* there is linked a second time, and update_time follows the circle for ever.
Circles(t) == t \in timerlist /\ tp[t] = None

\* add_timer and update_time for a timer that now ends at e.
AddTimer(t, e, p) ==
  /\ process_poll(etimer_process)
  /\ due' = [due EXCEPT ![t] = e]
  /\ tp' = [tp EXCEPT ![t] = p]
  /\ timerlist' = timerlist \union {t}
  /\ adrift' = IF Owned(p) THEN adrift \ {t} ELSE adrift \union {t}
  /\ IF Circles(t)
     THEN /\ stack' = Append(stack, [proc |-> None, ctx |-> None, runs |-> "circle"])
          /\ UNCHANGED <<next_expiration, exits>>
     ELSE /\ next_expiration' \in UpdatedTime(timerlist', due')
          /\ UNCHANGED execution

\* etimer_set and etimer_restart count from now; etimer_reset counts from
\* the end of the last interval and "must not be executed before timer
\* expired" (timer.c).
FromNow(t) == now + Interval[t]
FromEnd(t) == due[t] + Interval[t]
ResetAllowed(t) == 0 < due[t] /\ due[t] <= now

etimer_set(t) ==
  /\ Calling
  /\ \/ AddTimer(t, FromNow(t), Current)
     \/ ResetAllowed(t) /\ AddTimer(t, FromEnd(t), Current)
  /\ UNCHANGED <<now, ctimers, processes, queue, pc, posts>>

RemoveTimer(t) ==
  /\ timerlist' = timerlist \ {t}
  /\ tp' = [tp EXCEPT ![t] = None]
  /\ adrift' = adrift \ {t}
  /\ IF t \in timerlist
     THEN next_expiration' \in UpdatedTime(timerlist', due)
     ELSE UNCHANGED next_expiration
  /\ UNCHANGED due

etimer_stop(t) ==
  /\ Calling
  /\ RemoveTimer(t)
  /\ UNCHANGED <<now, ctimers, processes, polls, queue, execution, pc, posts>>

\* ctimer_set makes the running process the owner of the callback;
\* ctimer_restart and ctimer_reset leave it as it is.
ctimer_set(c) ==
  /\ Calling
  /\ \/ /\ AddTimer(c, FromNow(c), ctimer_process)
        /\ cp' = [cp EXCEPT ![c] = Current]
     \/ /\ 0 < due[c]
        /\ AddTimer(c, FromNow(c), ctimer_process)
        /\ UNCHANGED cp
     \/ /\ ResetAllowed(c)
        /\ AddTimer(c, FromEnd(c), ctimer_process)
        /\ UNCHANGED cp
  /\ ctimer_list' = ctimer_list \union {c}
  /\ UNCHANGED <<now, processes, queue, pc, posts>>

ctimer_stop(c) ==
  /\ Calling
  /\ RemoveTimer(c)
  /\ ctimer_list' = ctimer_list \ {c}
  /\ UNCHANGED <<now, cp, processes, polls, queue, execution, pc, posts>>

\* Mutant of process_post: the count of events is not looked at.
PostUnchecked(p) ==
  /\ Calling
  /\ posts < MaxPosts
  /\ queue' = Append(queue, [to |-> p, ev |-> "MSG", timer |-> None])
  /\ posts' = posts + 1
  /\ UNCHANGED <<now, timers, ctimers, processes, polls, execution, pc>>

process_post(p) ==
  /\ Calling
  /\ Len(queue) < NumEvents
  /\ posts < MaxPosts
  /\ queue' = Append(queue, [to |-> p, ev |-> "MSG", timer |-> None])
  /\ posts' = posts + 1
  /\ UNCHANGED <<now, timers, ctimers, processes, polls, execution, pc>>

\* call_process: the handler of p starts running inside what runs already.
Call(p, ctx) ==
  /\ state' = [state EXCEPT ![p] = "called"]
  /\ stack' = Append(stack, [proc |-> p, ctx |-> ctx, runs |-> "handler"])
  /\ UNCHANGED exits

\* The process do_poll has called is off the list: its next pointer is out of
\* date, and do_poll goes on from wherever it leads.
Strayed == pc \in {"poll", "cast"} /\ stack # << >> /\ stack[1].proc \notin process_list

\* Mutant of process_start: a process that runs is started again.
StartAgain(p) ==
  /\ Calling
  /\ Len(stack) < MaxDepth
  /\ process_list' = process_list \union {p}
  /\ toPoll' \in IF Strayed THEN {toPoll, toPoll \union process_list} ELSE {toPoll}
  /\ Call(p, p)
  /\ UNCHANGED <<now, timers, ctimers, polls, queue, pc, posts>>

process_start(p) ==
  /\ Calling
  /\ Len(stack) < MaxDepth
  /\ p \notin process_list
  /\ process_list' = process_list \union {p}
  /\ toPoll' \in IF Strayed THEN {toPoll, toPoll \union process_list} ELSE {toPoll}
  /\ Call(p, p)
  /\ UNCHANGED <<now, timers, ctimers, polls, queue, pc, posts>>

(***************************************************************************)
(* exit_process: the others hear of the exit, then the process, unless it  *)
(* asked for it itself, runs with PROCESS_EVENT_EXIT, then it leaves the   *)
(* list.  A process that is being exited already leaves the list at once.  *)
(***************************************************************************)
Goto(place) == stack' = [stack EXCEPT ![Len(stack)].runs = place]

Unlink(p) ==
  /\ process_list' = process_list \ {p}
  /\ toPoll' \in IF Strayed THEN {toPoll, toPoll \ {p}} ELSE {toPoll \ {p}}

process_exit(p) ==
  /\ Calling
  /\ p \in process_list
  /\ exits' = IF Exiting(p) THEN "twice"
              ELSE IF Executing(p) /\ exits = "outside" THEN "inside" ELSE exits
  /\ \/ /\ state[p] # "none" /\ Len(stack) < MaxDepth
        /\ state' = [state EXCEPT ![p] = "none"]
        /\ stack' = Append(stack, [proc |-> p, ctx |-> Current, runs |-> "untold"])
        /\ UNCHANGED <<process_list, toPoll>>
     \/ /\ state[p] = "none"
        /\ Unlink(p)
        /\ UNCHANGED <<state, stack>>
  /\ UNCHANGED <<now, timers, ctimers, polls, queue, pc, posts>>

InExit(places) == stack # << >> /\ Top.runs \in places

\* Mutant of EtimerHears: etimer_process does not react to the exit.
EtimerDeaf ==
  /\ InExit({"untold"})
  /\ Goto("told")
  /\ UNCHANGED <<now, timers, ctimers, processes, polls, queue, exits, pc, posts>>

\* Mutant of EtimerHears: callback timers set by the process are dropped too.
EtimerDropsCallbacks ==
  /\ InExit({"untold"})
  /\ Goto("told")
  /\ timerlist' = {t \in timerlist : /\ tp[t] # Top.proc
                                    /\ t \in Ctimer => cp[t] # Top.proc}
  /\ adrift' = adrift \intersect timerlist'
  /\ UNCHANGED <<now, due, tp, next_expiration>>
  /\ UNCHANGED <<ctimers, processes, polls, queue, exits, pc, posts>>

\* PROCESS_EVENT_EXITED: etimer_process drops the timers of the process,
\* without a new update_time.
EtimerHears ==
  /\ InExit({"untold"})
  /\ Goto("told")
  /\ timerlist' = {t \in timerlist : tp[t] # Top.proc}
  /\ adrift' = adrift \intersect timerlist'
  /\ UNCHANGED <<now, due, tp, next_expiration>>
  /\ UNCHANGED <<ctimers, processes, polls, queue, exits, pc, posts>>

\* Another process hears of it, before or after etimer_process: whoever is
\* not being executed, and once or more often, for handlers that start and
\* exit processes change the list that exit_process walks along.
Hears(q) ==
  /\ InExit({"untold", "told"})
  /\ q # Top.proc /\ state[q] = "running"
  /\ Len(stack) < MaxDepth
  /\ Call(q, q)
  /\ UNCHANGED <<now, timers, ctimers, process_list, toPoll, polls, queue, pc, posts>>

\* The thread of the exiting process runs, or p == fromprocess.
ExitHandler ==
  /\ InExit({"told"}) /\ Top.proc # Top.ctx
  /\ Goto("exit")
  /\ UNCHANGED <<now, timers, ctimers, processes, polls, queue, exits, pc, posts>>

Unlinks ==
  /\ \/ InExit({"exit"})
     \/ InExit({"told"}) /\ Top.proc = Top.ctx
  /\ Unlink(Top.proc)
  /\ stack' = Under
  /\ UNCHANGED <<now, timers, ctimers, state, polls, queue, exits, pc, posts>>

(***************************************************************************)
(* A handler returns to call_process: it waits for the next event, or its  *)
(* protothread has ended, which exits the process if it is on the list.    *)
(***************************************************************************)
Return ==
  /\ InHandler /\ Top.runs = "handler"
  /\ stack' = Under
  /\ state' = [state EXCEPT ![Top.proc] = "running"]
  /\ UNCHANGED <<now, timers, ctimers, process_list, toPoll, polls, queue, exits, pc, posts>>

ReturnEnded ==
  /\ InHandler /\ Top.runs = "handler" /\ Top.proc \in Process
  /\ \/ /\ Top.proc \in process_list /\ state[Top.proc] # "none"
        /\ state' = [state EXCEPT ![Top.proc] = "none"]
        /\ Goto("untold")
        /\ UNCHANGED <<process_list, toPoll>>
     \/ /\ Top.proc \in process_list /\ state[Top.proc] = "none"
        /\ Unlink(Top.proc)
        /\ stack' = Under
        /\ UNCHANGED state
     \/ /\ Top.proc \notin process_list
        /\ stack' = Under
        /\ UNCHANGED processes
  /\ UNCHANGED <<now, timers, ctimers, polls, queue, exits, pc, posts>>

----------------------------------------------------------------------------
(***************************************************************************)
(* etimer_process, polled: it posts the event of one expired timer after   *)
(* another, and asks to be polled again when the queue is full.            *)
(***************************************************************************)
InEtimer == stack # << >> /\ Top.proc = etimer_process

EtimerFires(t) ==
  /\ InEtimer
  /\ t \in timerlist /\ Expired(t)
  /\ Len(queue) < NumEvents
  /\ queue' = Append(queue, [to |-> tp[t], ev |-> "TIMER", timer |-> t])
  /\ tp' = [tp EXCEPT ![t] = None]
  /\ timerlist' = timerlist \ {t} /\ adrift' = adrift \ {t}
  /\ next_expiration' \in UpdatedTime(timerlist', due)
  /\ UNCHANGED <<now, due, ctimers, processes, polls, execution, pc, posts>>

\* Mutant of EtimerReturns: a full queue is not followed by a new poll.
EtimerReturnsNoRetry ==
  /\ InEtimer
  /\ (\E t \in timerlist : Expired(t)) => (Len(queue) = NumEvents \/ needspoll[etimer_process])
  /\ stack' = Under
  /\ state' = [state EXCEPT ![etimer_process] = "running"]
  /\ UNCHANGED <<now, timers, ctimers, polls, process_list, toPoll, queue, exits, pc, posts>>

EtimerReturns ==
  /\ InEtimer
  /\ \/ /\ \A t \in timerlist : ~Expired(t)
        /\ UNCHANGED polls
     \/ /\ \E t \in timerlist : Expired(t)
        /\ Len(queue) = NumEvents
        /\ process_poll(etimer_process)
     \/ /\ needspoll[etimer_process]  \* the clock ticked after the list was read
        /\ UNCHANGED polls
  /\ stack' = Under
  /\ state' = [state EXCEPT ![etimer_process] = "running"]
  /\ UNCHANGED <<now, timers, ctimers, process_list, toPoll, queue, exits, pc, posts>>

(***************************************************************************)
(* main and process_run: do_poll when a poll was requested, then do_event, *)
(* which hands a broadcast event to one process after another and polls in *)
(* between.                                                                *)
(***************************************************************************)
Booted ==
  /\ pc = "boot" /\ stack = << >>
  /\ pc' = "run"
  /\ UNCHANGED <<now, timers, ctimers, processes, polls, queue, execution, posts>>

process_run ==
  /\ pc = "run" /\ stack = << >>
  /\ poll_requested \/ queue # << >>
  /\ pc' = "poll"
  /\ toPoll' = IF poll_requested THEN process_list ELSE {}
  /\ poll_requested' = FALSE
  /\ UNCHANGED <<now, timers, ctimers, process_list, state, needspoll, queue, execution, posts>>

PollStep(p) ==
  /\ pc \in {"poll", "cast"} /\ stack = << >>
  /\ p \in toPoll
  /\ toPoll' = toPoll \ {p}
  /\ IF needspoll[p]
     THEN Call(p, p)
     ELSE UNCHANGED <<state, execution>>
  /\ needspoll' = [needspoll EXCEPT ![p] = FALSE]
  /\ UNCHANGED <<now, timers, ctimers, process_list, poll_requested, queue, pc, posts>>

\* do_event.  ctimer_process runs the callback of a timer that is still on
\* its list; the kernel's own processes ignore other events.
do_event ==
  /\ pc = "poll" /\ stack = << >> /\ toPoll = {}
  /\ pc' = IF queue # << >> /\ Head(queue).to = None THEN "cast" ELSE "run"
  /\ IF queue = << >>
     THEN UNCHANGED <<queue, execution, state, ctimer_list>>
     ELSE LET e == Head(queue) IN
          /\ queue' = Tail(queue)
          /\ \/ /\ e.to \in Process /\ state[e.to] = "running"
                /\ Call(e.to, e.to)
                /\ UNCHANGED ctimer_list
             \/ /\ e.to = ctimer_process /\ e.timer \in ctimer_list
                /\ ctimer_list' = ctimer_list \ {e.timer}
                /\ Call(ctimer_process, cp[e.timer])
             \/ /\ \/ e.to \in Process /\ state[e.to] # "running"
                   \/ e.to = ctimer_process /\ e.timer \notin ctimer_list
                   \/ e.to = None
                /\ UNCHANGED <<execution, state, ctimer_list>>
  /\ UNCHANGED <<now, timers, cp, process_list, toPoll, polls, posts>>

\* A broadcast event, of a timer without a process: like Hears, it is for
\* whoever is running, in any order.
CastStep(p) ==
  /\ pc = "cast" /\ stack = << >> /\ toPoll = {}
  /\ state[p] = "running"
  /\ Call(p, p)
  /\ UNCHANGED <<now, timers, ctimers, process_list, toPoll, polls, queue, pc, posts>>

CastPolls ==
  /\ pc = "cast" /\ stack = << >> /\ toPoll = {}
  /\ poll_requested
  /\ toPoll' = process_list
  /\ poll_requested' = FALSE
  /\ UNCHANGED <<now, timers, ctimers, process_list, state, needspoll, queue, execution, pc, posts>>

CastEnds ==
  /\ pc = "cast" /\ stack = << >> /\ toPoll = {}
  /\ pc' = "run"
  /\ UNCHANGED <<now, timers, ctimers, processes, polls, queue, execution, posts>>

(***************************************************************************)
(* Interrupts: the clock (clock_isr of cpu/cc2538, the tick of the Cooja   *)
(* mote) polls etimer_process while timers are set; a driver polls its own *)
(* process, from its interrupt or from a call it gets.                     *)
(***************************************************************************)
Tick ==
  /\ now < MaxTime
  /\ now' = now + 1
  /\ IF timerlist # {} THEN process_poll(etimer_process) ELSE UNCHANGED polls
  /\ UNCHANGED <<timers, ctimers, processes, queue, execution, pc, posts>>

Interrupt(p) ==
  /\ process_poll(p)
  /\ UNCHANGED <<now, timers, ctimers, processes, queue, execution, pc, posts>>

----------------------------------------------------------------------------
Next ==
  \/ \E t \in Etimer : etimer_set(t) \/ etimer_stop(t)
  \/ \E c \in Ctimer : ctimer_set(c) \/ ctimer_stop(c)
  \/ \E p \in Process :
       process_post(p) \/ process_start(p) \/ process_exit(p) \/ Hears(p)
  \/ EtimerHears \/ ExitHandler \/ Unlinks
  \/ \E p \in Polled : Interrupt(p)
  \/ Return \/ ReturnEnded
  \/ \E t \in Timer : EtimerFires(t)
  \/ EtimerReturns
  \/ Booted \/ process_run \/ do_event
  \/ \E p \in AllProcess : PollStep(p)
  \/ \E p \in Process : CastStep(p)
  \/ CastPolls \/ CastEnds
  \/ Tick

Spec == Init /\ [][Next]_vars

(***************************************************************************)
(* main comes to the end of its boot code and then never stops calling     *)
(* process_run, and every handler and every exit comes to its end:         *)
(* protothreads have no way to wait but to return.                         *)
(***************************************************************************)
GoesOn(depth) ==
  /\ Len(stack) = depth
  /\ Return \/ ReturnEnded \/ EtimerHears \/ ExitHandler \/ Unlinks

MainGoesOn ==
  process_run \/ do_event \/ EtimerReturns
  \/ (\E p \in AllProcess : PollStep(p)) \/ (\E t \in Timer : EtimerFires(t))

Fairness ==
  /\ WF_vars(MainGoesOn)
  /\ SF_vars(Booted \/ CastEnds)
  /\ \A depth \in 1..MaxDepth : SF_vars(GoesOn(depth))

FairSpec == Spec /\ Fairness

----------------------------------------------------------------------------
TypeOK ==
  /\ now \in 0..MaxTime
  /\ timerlist \subseteq Timer
  /\ due \in [Timer -> Nat]
  /\ tp \in [Timer -> AllProcess \union {None}]
  /\ next_expiration \in Nat
  /\ adrift \subseteq timerlist
  /\ ctimer_list \subseteq Ctimer
  /\ cp \in [Ctimer -> AllProcess \union {None}]
  /\ process_list \subseteq AllProcess
  /\ state \in [AllProcess -> {"none", "running", "called"}]
  /\ needspoll \in [AllProcess -> BOOLEAN] /\ poll_requested \in BOOLEAN
  /\ queue \in Seq(Event) /\ Len(queue) <= NumEvents
  /\ stack \in Seq(Frame)
  /\ exits \in {"outside", "inside", "twice"}
  /\ toPoll \subseteq AllProcess
  /\ pc \in {"boot", "run", "poll", "cast"}
  /\ posts \in 0..MaxPosts

\* A process on the list waits for events, is being executed or is being
\* exited.  As long as none was exited inside its own handlers, one off the
\* list is not started either, and gets no event, however the handlers that
\* process_start and process_exit run start and exit others (process.c).
ListedIffStarted ==
  \A p \in AllProcess :
    /\ p \in process_list =>
         \/ state[p] = "running"
         \/ state[p] = "called" /\ Executing(p)
         \/ state[p] = "none" /\ Exiting(p)
    /\ exits = "outside" =>
         /\ p \notin process_list => state[p] = "none"
         /\ Executing(p) => state[p] = "called"

\* A timer on etimer.c's list notifies a process on the process list, unless
\* it was set where process_current was NULL, not started or being exited:
\* whoever exits the process, in whatever handler, its timers are gone from
\* the list before it is.  Only processes that are exited again while they
\* are being exited are left out.
ListedTimersNotify ==
  exits # "twice" => \A t \in timerlist \ adrift : tp[t] \in process_list

\* Every walk along etimer.c's list comes to its end: a timer "already on
\* list" is not linked again (add_timer).
ListHasAnEnd == ~InExit({"circle"})

\* A callback timer that was set and has not run or been stopped is still
\* counting, or its event is queued for ctimer_process: whatever is set,
\* stopped and exited in between, its callback is not lost (ctimer.c).
CallbacksComing ==
  \A c \in ctimer_list :
    c \in timerlist \/ \E i \in DOMAIN queue : queue[i].timer = c /\ queue[i].to = ctimer_process

\* An expired timer on the list is being served, or etimer_process is going
\* to be polled for it: neither do_poll, which forgets requests before it
\* serves them, nor a full event queue loses it.
ExpiredTimersPolled ==
  \A t \in timerlist : Expired(t) =>
    \/ Executing(etimer_process)
    \/ /\ needspoll[etimer_process]
       /\ poll_requested \/ etimer_process \in toPoll

\* When nothing is left to do, no timer is overdue, and the time at which
\* the simulator wakes the mote (etimer_next_expiration_time) is not after
\* the end of any timer.
Idle == pc = "run" /\ stack = << >> /\ ~poll_requested /\ queue = << >>
SleepsUntilNext ==
  Idle => \A t \in timerlist : now < due[t] /\ next_expiration <= due[t]

\* The kernel implements the timer service, with its progress under FairSpec.
Service == INSTANCE TimerService
  WITH armed <- timerlist, Message <- None,
       queue <- [i \in DOMAIN queue |-> queue[i].timer]
ImplementsTimers == Service!Spec
ImplementsFairTimers == []ListHasAnEnd => Service!Progress

=============================================================================
