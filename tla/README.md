# SEDA-Net: a TLA+ verification of its network stack

SEDA-Net is a fork of Contiki whose nodes have two radios, a long-range and a
short-range one, and two link-layer addresses, one per radio. A duty-cycled
radio driver (`core/net/mac/dualmac/dualmac.c`) wakes a receiver with strobes on the
long radio and transfers data on the radio of the address it is sent to; CSMA
(`core/net/mac/csma.c`) queues and retries above it; RPL with the LT-MAX objective
function chooses parents among the addresses, which a small neighbour table
holds; Contiki's event kernel runs all of it in one thread.

This directory models these five layers, checks them with TLC on small
instances, and proves the main safety properties with TLAPS for every value of
the constants. Paths below are relative to `src/`; `dualmac.c`, `csma.c`,
`rpl-dag.c`... mean the files named in the inventory.

## 1. Inventory

| Component | State it keeps | Operations | Status |
|---|---|---|---|
| CSMA, `core/net/mac/csma.c` | neighbour list, a packet queue and a ctimer per neighbour, retry counters, four block pools | `send_packet`, `transmit_packet_list`, `packet_sent` (`tx_ok`, `noack`, `collision`, error), `free_packet` | modelled: `Csma` |
| MAC interface, `core/net/mac/mac.h`, `mac.c` | none | `send`, the sent callback | modelled: `MacService` |
| Dual-radio RDC, `dualmac.c` | on flags, `waiting_for_packet`, `someone_is_sending`, power-cycle protothread, `strobe_wait` process, `id_array` | `qsend_list`, `send_packet`, `input_packet`, `cpowercycle`, `turn_off` | partly (one build configuration): `DualMac` |
| Radio selection, `platform/cooja/dual_conf.c`, `platform/zoul/dual_radio.c` | `long_range_radio`, radio power, receive buffers | `dual_radio_switch`, `dual_radio_turn_on/off`, read, send | partly: inside `DualMac`; the DIO/DIS broadcast processes are left out |
| Processes and timers, `core/sys/process.c`, `etimer.c`, `ctimer.c` | process list, event queue, polls, etimer and ctimer lists, `next_expiration` | start, exit, post, poll, run, set, stop, expire | partly: `Kernel`, `TimerService` |
| Neighbour table, `core/net/nbr-table.c`, `core/net/rpl/rpl-nbr-policy.c`, `core/net/ipv6/uip-ds6-nbr.c`, `uip-ds6-route.c` | key list, `used_map`, `locked_map`, routes by next hop, `ds6_lr_addrmap`, `my_degree` | allocate (evict), remove, lock, route add and remove, child add and remove | partly: `NbrTable` |
| RPL with LT-MAX, `core/net/rpl/rpl-dag.c`, `rpl-icmp6.c`, `rpl-of-ltmax.c`, `rpl-timers.c`, `rpl-ext-header.c` | DAG, version, ranks, parents, preferred parent, update flags | DIO and DAO input and output, parent selection, local and global repair, rank recalculation | partly: `Rpl` |
| Queue buffers, `core/net/queuebuf.c` | block pool | new, free, copy back | not modelled; counted in `Csma`, may fail in `DualMac` |
| RIMAC, other MAC drivers, framer, uIP, applications, platforms, tools | | | not modelled, see section 8 |

**How they interact.** RPL and the applications run in processes and callbacks of
the kernel. `tcpip_ipv6_output` selects the radio of the next hop, which it finds
in `ds6_lr_addrmap`, and calls `NETSTACK_MAC.send`. CSMA stores the packet *with
the selected radio* in the queue of its destination and sets that queue's ctimer.
When it expires, `transmit_packet_list` selects the stored radio again and calls
the RDC; the RDC runs `send_packet` to its end inside this call (it busy-waits for
strobe acks and data acks, reading the radio itself) and calls `packet_sent`
before returning. The sent callback reaches RPL as `rpl_link_neighbor_callback`, which
marks the parent for the next recalculation of ranks. Received frames reach
`input_packet` from the radio process; it answers strobes and data with acks
synchronously, and passes data up. DIOs, DAOs and DISs ask the neighbour table for
room, which asks RPL's policy for a victim and calls back every table that used
the victim's entry. The power cycle (a ctimer) and `strobe_wait` (an etimer) turn
radios off behind the back of all of these. There is one thread; the concurrency is
between nodes, between handlers at a node in any order, and between handlers and the
interrupts of the clock and the radio.

**What is hard.** Handlers interleave freely between one node's send attempts;
the selected radio is global and is changed by routing, CSMA, strobes, data, and,
on the hardware platforms, by powering a radio; frames and acks are lost; data is
repeated; counters are incremented by one handler and reset by another; pools,
the event queue, the neighbour table and `ds6_lr_addrmap` can each be full halfway
through an operation; a process exits while its timers run, or inside its own handler; DIOs arrive late and
let two nodes choose each other; a node has two addresses whose parent entries
must agree; nodes restart with nothing but the initial version of the DODAG.
`PROJECT.json` lists each hazard at its line.

**What makes each component correct.**

* CSMA: queues, timers, neighbour entries and pools agree; each packet is
  reported exactly once, per destination in order; retries are bounded; no
  packet is charged with the attempts of another; every packet is reported in the end.
* Dual-radio RDC: data and acks leave on the radio the other side listens to;
  data is passed up once; a successful send was acknowledged; the power state
  follows the flags; a node sleeps, may send again after a strobe, and finishes
  its sends; the sink listens always.
* Radio selection: selecting and powering are independent (they are not on zoul and
  z1, see finding 3).
* Kernel: lists, states and call stack agree, as far as exits inside handlers let them; a
  timer set by a started process has a process to notify; a callback that was set is not lost; an expired timer is always going to be
  served, and is; the time until which the mote sleeps is not too late.
* Neighbour table: parents, children, next hops and locks are neighbours; the
  preferred parent and next hops are not evicted; the address map holds exactly the
  neighbours; the degree covers the children.
* RPL: the rank announced follows from the preferred parent, within the limit;
  loops and stale versions do not last: in the end every node has a parent one hop
  closer to the root, in the version of the root.

## 2. Modules

| Module | Role |
|---|---|
| `MacService` | what the network layer is promised: refuse, or accept into a FIFO per destination and report the oldest once |
| `Csma` | `csma.c`, with the refinement mapping to `MacService` (`MAC`) |
| `DualMac` | `dualmac.c` over the two radios, for any number of nodes |
| `TimerService` | what the kernel promises: events in the order of their posting, a timer's event when it is due and, left alone, in the end |
| `Kernel` | `process.c`, `etimer.c`, `ctimer.c`, with the refinement mapping to `TimerService` (`Service`) |
| `NbrTable` | one node's neighbour table with its users, the eviction policy and the address map |
| `Rpl` | the DODAG: one record per node, DIOs and DAOs on the way |
| `MCCsma`, `MCDualMac`, `MCKernel`, `MCNbrTable`, `MCRpl` | instances for TLC |
| `Csma_proofs`, `DualMac_proofs`, `DualMacFrames_proofs`, `Kernel_proofs`, `NbrTable_proofs`, `Rpl_proofs`, `RplRuns_proofs` | theorems |

The modules meet at named interfaces. `Csma!Fairness` assumes that a ctimer that
is set expires; `Kernel` shows it (`ImplementsFairTimers`, `CallbacksComing`). `Csma`
assumes of the RDC what `DualMac`'s `send_packet` returns. The fairness of
`SendDio` and `RecalculateRanks` in `Rpl` rests on the same timers. `NbrTable` leaves the choice
of the preferred parent open and `Rpl` leaves the capacity of the table open.

### Csma

| TLA+ | code |
|---|---|
| `neighbor_list`, `queued_packet_list`, `transmissions`, `collisions`, `transmit_timer` | `neighbor_list` and the fields of `struct neighbor_queue`, by address; an address is in `transmit_timer` while its ctimer is set |
| `memb` | free blocks of `neighbor_memb`, `packet_memb`, `metadata_memb` and the queuebuf pool |
| `radio`, `long_range_radio` | `q->radio`, the radio selected in `dual_conf.c` |
| `others` | queuebufs held by the rest of the stack |
| `fate`, `callbacks`, `num_tx`, `attempts` | history, read by properties only |
| `SendQueued` | `send_packet` up to its `return` (csma.c:490) |
| `SendNoNeighbor`, `SendQueueFull`, `SendRolledBack` | the branches of `send_packet` that end in `MAC_TX_ERR` (csma.c:492-511) |
| `WithNeighbor`, `WithPacket`, `WithMetadata`, `WithQueuebuf` | the pools after each of its four allocations |
| `RolledBack` | the pools after the frees of the branch in which an allocation failed, and of the neighbour entry if its queue is empty |
| `Transmit` with `TxOk`, `Noack`, `Collision`, `TxError` | `transmit_packet_list`, the synchronous RDC call and the branch of `packet_sent` it ends in |
| `FreePacket`, `TxDone`, `Rexmit` | the functions of those names |
| `OtherAlloc`, `OtherFree`, `SwitchRadio` | `queuebuf_new_from_packetbuf`, `queuebuf_free` and the choice of a radio by the rest of the stack, between two CSMA events |

`send_packet` and one round of `transmit_packet_list` are one action each: the
code is not interrupted between them. The sent callback may call
`send_packet`, but it is the last statement of both functions, so the call is the
same as a later action. The 16-bit sequence number by which `packet_sent` finds its
packet is the packet's identity. Backoff times are abstracted: a set timer may
expire at any time. `MAC_TX_ERR` comes back exactly when no queuebuf is left for
the RDC, `MAC_TX_OK` and `MAC_TX_NOACK` only when one is; a collision, and a header
that cannot be built, come before the buffer is asked for. An address of the list whose
queue is full is refused without a roll back. The branch in which the metadata block
is missing (csma.c:495) is in `RolledBack`, but the pools of packets and of metadata have the same
size and are used together, so no run reaches it.

### DualMac

| TLA+ | code |
|---|---|
| `mac[n]` | the statics of `dualmac.c` at a node: selected radio, `dualmac_is_on`, the on flags (`on`), powered radios (`hw`), receive buffers (`rx`), `waiting_for_packet`, `someone_is_sending`, and whether `strobe_wait` runs |
| `sending[n]` | the locals of `send_packet` while it busy-waits: for strobe acks (`"strobe"`), about to send data (`"data"`), for the data ack (`"ack"`) |
| `cycle[n]` | where `cpowercycle` yielded, or that its timer is not set |
| `id_array` | the highest sequence number per origin |
| `Calls`, `SendBusy`, `SendError`, `SendBegin` | `qsend_list`, `qsend_packet` and `send_packet` up to its first busy wait |
| `StrobeRead`, `StrobeSend` | the strobe loop, dualmac.c:1055-1210 |
| `SendCollided`, `SendBroadcast`, `SendUnicast` | from the end of the loop to the data, dualmac.c:1239-1296 |
| `AckRead`, `AckTimeout` | the wait for the data ack and the returned status |
| `PowercycleOn`, `PowercycleOff`, `StrobeWaitOver` | `cpowercycle`, `strobe_wait` |
| `InputBroadcast`, `InputUnicast`, `InputStrobe`, `InputBroadcastStrobe`, `InputOther` | the branches of `input_packet` |

A handler that only changes a node's record is an operator on that record
(`dual_radio_on(m, target)` and so on), and an action composes them in the order of the
code. `Transmits` gives a frame to any subset of the nodes whose radio is
powered and whose buffer is empty: loss and collision are in that choice, and so is a
channel that is not clear, where `radio_send` returns `RADIO_TX_COLLISION`, which `dualmac.c`
does not look at.
While a node sends, its other handlers do not run (`Idle`). A frame in the buffer of a
radio that is off when the code yields is lost (`Settled`), as
`doInterfaceActionsBeforeTick` does. `PowerSelects` is TRUE for zoul and z1, where
`dual_radio_turn_on/off` select the radio they power, and FALSE for cooja.

The configuration is the one of the evaluation: `DUAL_RADIO`, `DATA_ACK`,
`WITH_STROBE_BROADCAST`, `DUAL_RPL_RECAL_MODE` on; `STROBE_CNT_MODE`,
`WAKEUP_RADIO`, `CROSS_OPT_VERSION1`, announcements, streaming and encounters off. The
header of a strobe ack or a data ack, rebuilt from one just parsed, is taken to fit, and a
queue buffer to be there for the data while its ack is built (dualmac.c:1642).

### Kernel

| TLA+ | code |
|---|---|
| `timerlist`, `due`, `tp`, `next_expiration` | `timerlist`, `timer.start + timer.interval`, `t->p`, `next_expiration` of etimer.c |
| `ctimer_list`, `cp` | `ctimer_list` and `c->p` of ctimer.c; a callback timer stands also for the etimer inside it |
| `process_list`, `state`, `needspoll`, `poll_requested`, `queue` | the statics and fields of process.c; `queue` is `events` from `fevent` on |
| `adrift` | history: the listed timers that were set where `process_current` was NULL, not started or being exited |
| `stack` | what is executed inside each other: handlers, and calls of `exit_process`, which runs the handlers of those that hear of the exit and then that of the exiting process (`runs`); `ctx` is `process_current` |
| `exits` | history: no process was exited inside its own handlers, one was, or one was exited again while being exited |
| `pc`, `toPoll` | where `main` and `process_run` are, and the processes `do_poll` has still to look at |
| `etimer_set`, `etimer_stop`, `ctimer_set`, `ctimer_stop`, `process_post`, `process_start`, `process_exit` | the calls a handler makes, one action each |
| `EtimerHears`, `Hears`, `ExitHandler`, `Unlinks` | the steps of `exit_process`: `PROCESS_EVENT_EXITED` to `etimer_process` and to the others, `PROCESS_EVENT_EXIT` to the thread that exits, and its removal from the list (process.c:138-171) |
| `Return`, `ReturnEnded` | a protothread waits, or ends, which exits its process |
| `EtimerFires`, `EtimerReturns` | `etimer_process` when polled |
| `Booted`, `process_run`, `PollStep`, `do_event` | `main` up to its loop, and one round of it |
| `CastStep`, `CastPolls`, `CastEnds` | the walk of `do_event` for a broadcast event: that of a timer whose `p` was NULL |
| `Tick`, `Interrupt` | the clock's and a driver's interrupt, between any two calls |

`AddTimer`, `RemoveTimer` and `UpdatedTime` are the helpers `add_timer`, `etimer_stop`
and `update_time`. A reset counts from the end of the last interval, and only after it has
passed, as the comment of `timer_reset` asks. A handler may make any kernel call, in a start, an
event, a callback or an exit, and so may `main` at boot, where
`process_current` is NULL. `process_exit` takes any listed process, one that is being executed
included, as process.h:384-386 says. Three steps that follow are in the model as they are in the code:

* when a process was exited inside its own handler and the handler goes on to wait, `call_process` marks it
  RUNNING although it is off the list (process.c:196), so that it still gets events;
* a process exited again while it is being exited leaves the list at once (process.c:138), before its
  own thread has run with `PROCESS_EVENT_EXIT`, so that timers it sets there stay;
* a timer on the list whose `p` is NULL is linked a second time when it is set again
  (etimer.c:152), and `update_time` follows the circle for ever (`Circles`, the frame `"circle"`).

### NbrTable

| TLA+ | code |
|---|---|
| `ds6_neighbors`, `rpl_parents`, `rpl_children`, `nbr_routes` | the addresses whose bit is set in `used_map` for that table |
| `locked`, `preferred` | `locked_map`, `dag->preferred_parent` |
| `nexthop` | the routes of uip-ds6-route.c, by destination |
| `ds6_lr_addrmap`, `my_degree` | the variables of those names |
| `Worst`, `ChildrenAllowed`, `Removable` | `update_nbr` and the policies of rpl-nbr-policy.c |
| `Allocated`, `NotAllocated` | the two ends of `nbr_table_allocate` |
| `MapAfter` | what `uip_ds6_nbr_add` and the callback of an eviction do to the address map |
| `DioIgnored`, `DioRefused`, `DioAccepted`, `GlobalRepair`, `ParentEvent` | `dio_input` with `rpl_process_dio`, and what changes the preferred parent |
| `DaoAccepted`, `DaoRefused`, `RouteRemoved` | `dao_input`, `rpl_purge_routes`, No-Path DAOs |
| `DisInput` | `dis_input` for a unicast DIS |

### Rpl

| TLA+ | code |
|---|---|
| `node[n]` | `rpl_dag_t` (`joined`, `version`, `rank`, `min_rank`, `preferred`), the table `rpl_parents` (`parents`, the rank of each address, `updated`, its flag), and whether the init phase of LT-MAX lasts |
| `dio` | for every sender and radio the DIO sent last and the nodes that may still receive it |
| `daos` | DAOs on the way |
| `lollipop_greater_than`, `LOLLIPOP_INCREMENT` | the macros and the function of rpl-dag.c and rpl-private.h |
| `calculate_rank`, `acceptable_rank`, `best_parent`, `rpl_select_dag`, `rpl_nullify_parent`, `rpl_local_repair`, `rpl_process_parent_event` | the functions of those names, as operators on a node's record; one with a choice returns the set of records it may leave |
| `Joined`, `global_repair`, `Heard`, `rpl_process_dio`, `RootProcessesDio` | the branches of `rpl_process_dio` |
| `SendDio`, `DioInput`, `SendDao`, `DaoInput`, `LinkCallback`, `RecalculateRanks`, `RankErrorSignalled` | the handlers of rpl-timers.c, rpl-icmp6.c, rpl.c and rpl-ext-header.c |
| `FirstLoadUpdate` | the application's first load update |
| `RepairRoot`, `Restart` | `rpl_repair_root`; a node that boots again |

A restart loses everything: the root begins with `RPL_LOLLIPOP_INIT` again while the
nodes remember a later version, and DIOs of before are still on the way.

## 3. Runs

| Run | Instance | Distinct states | Result |
|---|---|---|---|
| `csma` | up to 3 destinations, 3 packets, one of them with a configurable number of retries, pools 2 and 2, backoff 1, fairness | 908,936 | all hold |
| `dualmac` | 2 nodes, unicast to a short address and a broadcast on each radio, 2 tries | 822,021 | all hold |
| `dualmac_live` | 2 nodes, one the sink, unicast to a short address and a broadcast on each radio, 1 try, fairness | 44,390 | all hold |
| `dualmac_deaf`, `dualmac_reorder`, `dualmac_zoul_data` | 2 nodes, 2 packets | stop at the violation | violated, section 5 |
| `kernel` | 2 processes, an event timer and a callback timer of 1 tick, a queue of 1, 1 tick, 1 posted event, handlers and exits 3 deep, symmetry | 5.73 million | all hold |
| `kernel_live` | 1 process polled by a driver, an event timer of 1 tick, a callback timer of 2, a queue of 2, 2 ticks, 1 posted event, no nesting, fairness | 974,702 | all hold |
| `nbr` | 4 addresses and 3 destinations for a table of 3 and 2 routes, degree up to 5, symmetry | 7,411 | all hold |
| `rpl` | root and a chain of two nodes, one radio, ranks up to 4, `MAX_RANKINC` 1, the counter of the code (255/127/16), fairness | 141,688 | all hold |
| `rpl_repair` | root and one node, counter 19/9/4, 4 repairs or restarts, fairness | 2,210 | holds |
| `rpl_sibling` | the chain with its two nodes on two radios | stops at the violation | violated, section 5 |

**What the properties say.** Each is stated in a comment above its definition.
In `Csma`: `QueuesMatchFate`, `TimerIffQueued`, `PoolsBalance`, `RetriesLeft`,
`OneCallback`, `AttemptsBounded`, `CountsOwnAttempts`; the refinements `ImplementsMac` and,
with liveness, `ImplementsFairMac`. In `DualMac`: `DataOnAddressRadio`,
`AcksOnRadioOfQuestion`, `DeliveredOnce`, `OksArePaidFor`, `AwakeTwoCycles`,
`ServerAlwaysListens`, the action property `FlagsFollowRadios`, and the liveness
properties `SendsEnd`, `MaySendAgain`, `Sleeps`. In `Kernel`: `ListedIffStarted`,
`ListedTimersNotify`, `CallbacksComing`, `ExpiredTimersPolled`, `SleepsUntilNext`; the
refinements `ImplementsTimers` and, with liveness, `ImplementsFairTimers`. In
`NbrTable`: `TablesAgree`, `PreferredLocked`, `DegreeCoversChildren`,
`AddrMapMatches` and the action property `UsedNeighborsKept`. In `Rpl`:
`RankFollowsPreferred`, `RankWithinLimit` and the liveness property `TreeForms`.
Every one is violated when a named operator of the model is replaced by its mutant
(listed in `PROJECT.json`, defined just before the operator it replaces).

**Bounds, and why they are enough.**

* `csma`: with two blocks in each pool, of neighbour entries, packets and queue buffers
  each runs out in some state while the allocations before it succeed (the queuebuf pool is also
  drained by `OtherAlloc`), with a neighbour entry that is new or has a queue; three packets
  give a queue of two behind which a third is refused; one retry and one backoff reach every branch of `noack` and
  `collision`. Packets choose among one, two and three destinations: any way three
  packets share destinations, up to their names.
* `DualMac`: `MaxTries` bounds the calls CSMA makes per packet: two are needed for a
  repeated packet after a lost data ack. Two nodes reach each handler in each state. A
  third would be needed for overheard acks: that case of `OksArePaidFor` is left to the
  theorem `OksWerePaidFor`. A unicast, a long and a short broadcast reach every
  branch of `send_packet` and `input_packet`; data to a long address is in the violation
  runs. Each receive buffer holds one frame, as in the driver.
* `Kernel`: `MaxTime` bounds the clock, `MaxPosts` the events handlers post and `MaxDepth`
  the handlers and exits inside each other. In `kernel` two processes and a depth of three
  are enough for a process that is exited by the handler it started, by the one that
  hears of its exit, or by its own; a posted event and a timer compete
  for a queue of one. Processes are interchangeable and the properties are
  invariants, so symmetry is sound. In `kernel_live` two ticks let the event timer expire and be
  reset while the other's event is queued; a queue of two is filled by one posted event and one timer,
  so that the second timer finds it full. The clock's bound lets the kernel become idle for ever, and a
  circular list stops it, so deadlock is not checked.
* `NbrTable`: a table of three for four addresses is the smallest in which a parent, a
  child and a next hop are distinct and an address waits outside; `MAX_CHILDREN` is 1.
  `MaxDegree` bounds the counter, which may exceed the number of children (an
  evicted child is not counted off). At the bound of the degree nothing may be left to
  do, so deadlock is not checked. Addresses and destinations are interchangeable; the
  properties are safety properties, so symmetry is sound.
* `Rpl`: `INFINITE_RANK` is a small number of hops, so that counting to infinity ends;
  the least that leaves room for a loop of the two nodes above the tree is 4.
  `MaxFaults` bounds global repairs and restarts. Safety and convergence without faults
  are checked on a chain, whose middle node hears its child's DIOs; wrapping of the
  version needs more repairs than the chain allows and is checked with a node next to
  the root and a counter whose regions are small, four faults and a window of 4: with
  more faults than the window allows a node may miss a whole window of versions, and
  that comparison "not comparable" leaves it behind. The model may come to rest when the
  faults are used up, so deadlock is not checked.

**Fairness.** `Csma!Fairness`: a ctimer that is set expires and its callback runs, which
`Kernel` shows; nothing is assumed of the answers. `DualMac!Fairness`:
busy waits end (they compare the clock with a constant), timers fire and the event
loop runs the handlers of a node. It is not assumed that CSMA sends, that a frame is
heard or that an ack comes: weak fairness of `StrobeSend`, `SendEnds` and
`AckTimeout` is the passage of time, and `Input` only empties buffers that hold a
frame. `MaySendAgain` and `Sleeps` do not speak of the sink, whose power cycle timer is not
set again. `Kernel!Fairness`: main comes to the end of its boot code and never stops
calling `process_run`, every walk for a broadcast event ends, and at each depth of the stack a
handler returns and an exit goes on; the last three are strong, because an interrupt or
another call of the handler may come in between any number of times. A circular list has no way on:
`ImplementsFairTimers` states the progress of the timer service for the runs in which there is never one
(`ListHasAnEnd`). Nothing is assumed
of the clock. `Rpl!Fairness`: the Trickle timer and the periodic timer go on for ever (the
redundancy constant, 10, is above the number of neighbours of these networks, so that DIOs
are not suppressed for ever), of the DIOs a neighbour repeats some are heard, and the
application updates its load once. Nothing is assumed of DAOs. Deadlock is checked in
the `csma` and `dualmac` runs: routing may always select a radio in `Csma`, and the
power cycle never stops in `DualMac`.

## 4. Proofs

All theorems hold for every value of the constants that satisfies the assumption of
the module (`CsmaAssumption`: the constants have the types and uint8_t ranges of the code;
`DualMacAssumption`: packets have senders, receivers, origins and radios, and no frame is
`Null`;
`KernelAssumption`: processes and timers are distinct, intervals are positive;
`NbrTableAssumption`: the table has room for two; `RplAssumption`: the regions and the
window of the lollipop counter are in the order the code's are).

`Csma_proofs`. `TransmitCases` reduces the five outcomes of a transmission to two
steps on the queue: the head is reported, or it is retried with retries to spare.
Each invariant is shown for four kinds of step (queued, refused, reported, retried),
and the theorems build on each other:

1. `TypeCorrect`;
2. `TimersCorrect`, inductive with the types;
3. `RetriesCorrect`, which needs 2 (a queue with a timer has a head) and is why the
   uint8_t counters cannot pass their limits;
4. `QueuesCorrect`: a packet is in one place of one queue exactly while it waits;
5. `CallbacksCorrect`;
6. `PoolsCorrect`, which needs 4: one packet leaves the set of waiting packets for one
   block given back. `RollBackFrees` is the failing half: whichever allocation of `send_packet`
   fails, the frees that follow leave the pools as they were, but for the neighbour entry of an
   address that is not listed any more. The strengthening `FinitePools` says the sets counted are finite;
7. `AttemptsCorrect`. The bound is not inductive; `HeadAttempts` relates the attempts of
   a head to its counters (`attempts <= transmissions * (MaxBackoff + 1) +
   collisions`) and `OthersUntried` says nothing behind a head was transmitted (`NewUntried`: nor was a packet not yet queued);
8. `CountsCorrect`, with `CountsOfHead`: `transmissions` of a destination counts transmissions of its
   present head only, which is what the resets of `free_packet` and of a new neighbour entry are for;
9. `CsmaImplementsMac`: each step is a step of `MacService` or leaves its variables
   alone, by 4;
10. `ReportsInOrder` and `OutcomesAreFinal`, action properties, from 4 and 9: only the oldest packet of
   a destination is reported, and no report is changed or repeated.

`DualMac_proofs`. `Derived(a, m)` collects what every handler keeps of a node's
record (who may power radios, how the flags go with the radios, that receive buffers are
only emptied); one lemma per operator shows it, and `StepOf` lifts it to the nodes that
overhear. `IndInv` is the types and `SendInv`: a node that sends has
`someone_is_sending = 0`, which is why its increment stays in range, and on cooja has the long
radio selected until it sends its data, and in `was_short` the radio of the
address. Then

1. `TypeCorrect`;
2. `ServerListens`: `dualmac_is_on` stays 0 at the sink, and no handler reaches a radio without it;
3. `DataOnRightRadio`, for `PowerSelects = FALSE`; where it is TRUE it is false (finding 3);
4. `DeliveredAtMostOnce`, with `DuplicateInv`: a packet passed up is not above the mark of its origin.

`DualMacFrames_proofs` goes on from there. `NodeStep` sorts the steps by what they
transmit: nothing, a strobe or data, or an ack. Then

1. `FlagsAreFollowed`, an action property, from what `Derived` says of flags and radios;
2. `AwakeAtMostTwoCycles`, with `AwakeInv`: a node that stayed on through an off phase has
   `waiting_for_packet` at 2 or 0, so that the next off phase turns the radios off
   (`OffPhase`);
3. `AcksOnRightRadio`, for `PowerSelects = FALSE`, with `HeardInv`: a frame in a receive buffer
   was transmitted on the radio of that buffer, and `AnswerSent`: the handlers of strobes and
   data leave that radio selected when the ack goes out;
4. `OksWerePaidFor`, for both platforms, with `CreditInv`: the acks sent to a node cover the
   sends it has ended and the acks still in its buffers. The bound alone is not
   inductive: nothing in it keeps two sends from ending with one ack.

`Kernel_proofs`. `KernelInv` is the conjunction of the types, `Structure` and `TimersOK`, and is
inductive as a whole. `Structure` holds what lists, states and stack say of each other: `StackOK` (only protocol
processes are exited, nothing runs above a circle), `ListedIffStarted`, `ExitsOnce` (a process being
exited is listed, not started, and runs nothing above its exit, unless it is exited
again there) and `FramesDiffer` (as long as no process was exited inside itself, none is on the
stack twice and `do_poll` walks along listed processes). `TimersOK` is `KernelStarted` (the two
kernel processes are started, and callback timers notify `ctimer_process`),
`ListedTimersNotify` and `ToldHaveNoTimers`: from the time `etimer_process` has heard of an exit
until the process is off the list, only adrift timers notify it. The last is why the handlers
that run in between, the exiting process's own included, do no harm: what they set for it
is adrift, and what they set for others stays. On it rest

1. `TypeCorrect`, `ProcessListMatchesStates`, `ListedTimersAreNotified`;
2. `CallbacksAreNotLost`: a listed callback timer notifies `ctimer_process`, which never
   exits, so that no exit drops it;
3. `ExpiredTimersArePolled`, with the lemma that a poll of a started process is heard
   (`PollHeardStep`: `needspoll` implies that a request is pending or `do_poll` has still
   to look);
4. `MotesWakeInTime`, with `NextKnown`: `next_expiration` is not after the end of a listed timer,
   unless that timer is overdue or a walk is in a circle; an overdue timer is polled for (3) and a circle stays (`CircleStays`), so the kernel is not idle;
5. `KernelImplementsTimers`: with the mapping of the queue to the timers of its events, every
   step is an `Arm`, `Cancel`, `Expire`, `Post`, `Deliver`, `Tick` or a stutter.

`NbrTable_proofs`. `NbrInv` is the types, `TablesAgree`, `PreferredLocked`,
`DegreeCoversChildren`, and `MapHolds`: `AddrMapMatches`, and a slot of the address map that
is not in use was never taken, without which the first slot found for an evicted address
might be one it had before. `MapHolds` needs the pigeon-hole
argument that a table with room leaves a slot (`SlotLeft`), and that one which refused an
address has none (`SlotsFull`), so that the slot `uip_ds6_nbr_add` would take in vain is not
there. `TablesCorrect`, `PreferredStaysLocked`, `DegreeCorrect`, `AddrMapCorrect` and
`TypeCorrect` follow; `UsedNeighborsStay` from `VictimsUnused`.

`Rpl_proofs` is about the operators. `NextVersionIsNewer`, `NewerMeansWithinWindow`,
`BothNewerOnlyAcrossRegions` and `RestartedVersionIsAmbiguous` say what the comparison of
versions computes, for every counter that satisfies the assumption, the code's among them:
it orders the circular region, but the first version of a restarted root and a version of the
circular region (0 excepted) are each newer than the other. The lemmas that follow give, for
each handler that selects a parent, what it leaves of a record that satisfies `Follows` and
`Attached`; `EventRenewsRank` is the one the rest needs: after
`rpl_process_parent_event` these hold, or nothing was touched and the preferred parent is another.

`RplRuns_proofs` is about whole runs, for any nodes, links, radios and ranks.

1. The loop of `rpl_recalculate_ranks`, for any number of marked parents in any order.
   `Recalculated` is a recursive function over the subsets of the marked parents. `PassHasSolution`
   shows that its equation has a solution (the smallest bound that a round respects), and
   `LoopKeeps` that every solution keeps what each round keeps, by a smallest counterexample
   (`RemoveOneInduction`, from the library's fact that strict inclusion of finite sets is well-founded).
2. `TypeCorrect` and `TablesCorrect`, with `TableKept`: preferred and marked parents are in the table,
   and finitely many are marked, for which no bound on the network is assumed.
3. `RanksHaveOrigin` says what one step may do, for all handlers at once: a rank is kept, lost or
   taken from a parent of the table, and what the table says of a parent is what it said, what
   that parent's node has now, or what its last DIO said. The next theorems need no other fact of a step.
4. `ParentsHaveLinks`: a node only has parents it hears.
5. `RankAlwaysFollows` and `RankAlwaysWithinLimit`. With two radios that reach the same neighbour both
   are false (finding 4), so they assume `OneRadioEach`: no node hears another on two
   radios. By 4 the parent on the other radio that `rpl_process_dio` would change is then
   not in the table. In the loop the invariant is weaker while it runs (`LoopKeepsRank`): it holds
   unless the preferred parent is marked and has not had its turn.
6. `RankNeverBelowDistance`, with two radios too: for every `D` that is 0 at the root and grows by at
   most one per link, the rank of a node is above `D` or infinite, whatever stale DIOs,
   headers, restarts and repairs there are. `CutOffStaysUnranked` is the case of nodes no link
   leads to from the root.
7. `LoopsNeedOutdatedRanks`: loops of preferred parents do occur (in the run `rpl` too), but in each
   one all ranks are infinite, or some node has recorded a rank that its parent no longer has, or
   has detected the loop. The node of the least finite rank in a loop (`LeastOfNaturals`) would need a parent with a lower one.
8. `NoRepairUnprovoked`: while nothing is repaired and nothing restarts, no version changes.
9. `RankFollowsUnlessRefused` is what remains of `RankAlwaysFollows` without `OneRadioEach`: a rank that
   does not follow the preferred parent belongs to one that `acceptable_rank` refuses: one found to be in a loop, or
   changed along with its sibling (finding 4) to a rank out of the limit.

**Only model-checked:** all liveness and the refinements that include it
(`ImplementsFairMac`, `ImplementsFairTimers`, `SendsEnd`, `MaySendAgain`, `Sleeps`,
`TreeForms`), out of the prover's reach. Every invariant and safety action property of the
passing runs is a theorem; those that `OneRadioEach` or `PowerSelects = FALSE` restricts are
violated without it, as the runs `rpl_sibling` and `dualmac_zoul_data` show.

## 5. Findings

1. `dualmac_deaf`: a node that acknowledged a strobe and sends a packet of its own ends
   with both radios off and `waiting_for_packet` set, which also keeps the next power cycle
   from turning the radio on.
2. `dualmac_reorder`: the duplicate test (dualmac.c:1620) drops, and acknowledges, a packet
   overtaken by a newer one sent to the other address of the same receiver.
3. `dualmac_zoul_data`: `dual_radio_off(BOTH_RADIO)` selects the short radio on zoul
   and z1 before `was_short` is computed, so long-range data leaves on the short radio. For
   the same reason the strobe ack for a short-range address leaves on the radio
   `dual_radio_on` has just selected, not on the one the strober listens on
   (`AcksOnRadioOfQuestion` is violated with `PowerSelects = TRUE`). On cooja both
   properties hold, by theorem (`DataOnRightRadio`, `AcksOnRightRadio`).
4. `rpl_sibling`: a DIO heard on one radio writes the rank of its sender into the parent
   entry of the sender's other address as well (rpl-dag.c:1737), but marks only the entry it
   was heard on. If the other one is the preferred parent, the node goes on announcing
   a rank its preferred parent no longer gives it.

Three steps of the code that no statement of the repository contradicts, and that the models
take as they are:

* `tx_done` (csma.c:285) passes `n->transmissions` after `free_packet` may have reset
  it, so a packet sent while another waits is reported "sent after 0 tx", and
  `rpl-of-ltmax.c:187` skips its link metric.
* A process that is exited inside its own handler is RUNNING, off the list, when that handler
  goes on to wait (process.c:196), although process.h:384 allows the exit; no code of the modelled stack
  does this.
* `best_parent` (rpl-dag.c:1034) reads `best->rank` while `best` is NULL when no candidate is
  left in the init phase; the outcome of that comparison is arbitrary in `Rpl`.

## 6. Abstractions a reader should know

* Time. In all modules but `Kernel` any timer may fire after any step. What depends on
  durations (that the strobe train is longer than a sleep, that an ack arrives within its
  wait) cannot be expressed; no property relies on it.
* Acks carry no sequence number; which send a late ack ends is not told apart by
  `OksArePaidFor`, which counts acks per node.
* A frame that `radio_send` does not transmit because the channel is not clear is one nobody hears;
  `air` records it, so that `DataOnAddressRadio` speaks of it too.
* The weights and loads carried by acks, and queue buffers as objects, are left out. Where CSMA and
  `send_packet` ask for a queue buffer there may be none; `input_packet`, when it keeps the data
  while it builds the ack (dualmac.c:1642), gets one.
* At boot both radios are powered with clear flags. `FlagsFollowRadios` states that no
  later step adds such a mismatch, and `AwakeTwoCycles` does not count radios powered
  since boot.
* `Kernel`: the three linked lists are sets, their order decides only who is served
  first; a walk whose list changes under it (the exits of process.c:147, the broadcasts of process.c:277) may
  reach any running process, once or more often, and `do_poll` any listed one when the process it has
  called is off the list. Each timer has one interval; no `etimer_adjust`, no synchronous
  posts other than those of start and exit, and the only broadcast events are those of timers without
  a process. The kernel's own processes are not exited. `clock_time_t` does not wrap within the bound of the
  clock; `UpdatedTime` models the subtraction that wraps when a timer is overdue.
* `NbrTable`: neighbour discovery is off, and `ds6_lr_addrmap` on: `ADDR_MAP` is `DUAL_RADIO`
  (`platform/cooja/contiki-conf.h`:51), which line 40 sets to 0 at this commit and the scripts of the
  evaluation set to 1 for the dual-radio stack that all modules describe; link addresses and IP addresses stand for each other. Which parent
  is the worst, whether a DIO is better than it, and which parent RPL prefers are choices.
* `Rpl`: ranks are hops (the objective function adds `RPL_INIT_LINK_METRIC`, one
  hop); link metrics, loads and weights decide among parents and are the choice
  `Preferable`. One instance, one DODAG. A DIO not yet received when its sender sends the next
  on the same radio is replaced by it: a receiver may miss any of them, and may hear one
  arbitrarily late. A rank error arrives with the rank its sender has now
  (`RankErrorSignalled`); in the code the header holds the rank of when it was written
  (rpl-ext-header.c:128), which may be older. `CROSS_OPT_VERSION1` is not modelled.

## 7. Plan

What is left, most useful first:

1. `DualBroadcast`: `dual_dio_broadcast` and `dual_dis_broadcast` (one static instance, a process
   that is not restarted while it runs, the radio left selected), over `Kernel`'s processes.
2. `CsmaOverDual`: the statuses and buffer needs of `DualMac` shown to be those `Csma` assumes, by
   refinement of an abstract RDC that both use.
3. `QueueBuf`: blocks with identities, for the unassigned `packet` of broadcast data
   (dualmac.c:1715).
4. `Rpl` with the values of weights and loads, so that the choice of LT-MAX is checked to be an
   order, and composed with the capacity of `NbrTable`.

## 8. Not modelled, and why

RIMAC shares most of its code with `dualmac.c` and is the baseline of the
evaluation; the other RDC and MAC drivers are Contiki's and are not selected. The framer and packetbuf lay
out bytes. uIP, 6LoWPAN and UDP are Contiki's; their one influence on the radios, the choice by
next hop, is an input of the models. The evaluation applications enter as the sink's
`turn_off(1)`, as sequence numbers and as the first load update. Platforms other than the
radio selection, drivers, tools and examples are I/O or unused. Build options that are off are not
modelled. What a late data ack does to the next packet depends on durations; the 255-copies
wrap of `id_count` feeds only the load, which is a choice in `Rpl`.
