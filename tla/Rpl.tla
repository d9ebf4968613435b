-------------------------------- MODULE Rpl --------------------------------
(***************************************************************************)
(* RPL as SEDA-Net runs it: one instance with one DODAG, the objective     *)
(* function LT-MAX (rpl-of-ltmax.c), and nodes whose radios have addresses *)
(* of their own, so that a neighbour with two radios is two parents.       *)
(*                                                                         *)
(* Ranks are counted in hops: rpl_ltmax_of adds RPL_INIT_LINK_METRIC to    *)
(* the rank of the parent, one hop.  Link metrics, loads and weights are   *)
(* abstracted: they decide which of several parents is best.  The          *)
(* capacity of the neighbour table is that of NbrTable.                    *)
(*                                                                         *)
(* dio holds, for every sender and radio, the DIO sent last and the nodes  *)
(* that still may receive it; a newer one takes its place.                 *)
(***************************************************************************)
EXTENDS Integers, FiniteSets

CONSTANTS
  Node, Root,
  Radio,                \* one radio, or a short and a long range one
  Link,                 \* <<s, r, n>>: n hears s on radio r
  Unstable,             \* addresses whose link metric may be bad at times
  INFINITE_RANK,        \* a bound of the model: 0xffff in the code
  MAX_RANKINC,
  LOLLIPOP_MAX_VALUE, LOLLIPOP_CIRCULAR_REGION, LOLLIPOP_SEQUENCE_WINDOWS,
  MaxFaults,            \* bound: global repairs and restarts
  None                  \* NULL

Client == Node \ {Root}
Addr == Node \X Radio

ASSUME RplAssumption ==
  /\ Root \in Node
  /\ Link \subseteq {l \in Node \X Radio \X Node : l[1] # l[3]}
  /\ Unstable \subseteq Addr
  /\ None \notin Addr
  /\ INFINITE_RANK \in Nat /\ INFINITE_RANK > 2
  /\ MAX_RANKINC \in Nat
  /\ LOLLIPOP_CIRCULAR_REGION \in Nat
  /\ LOLLIPOP_SEQUENCE_WINDOWS \in Nat /\ LOLLIPOP_SEQUENCE_WINDOWS > 1
  /\ LOLLIPOP_MAX_VALUE = 2 * LOLLIPOP_CIRCULAR_REGION + 1
  /\ LOLLIPOP_CIRCULAR_REGION > 2 * LOLLIPOP_SEQUENCE_WINDOWS
  /\ MaxFaults \in Nat

ROOT_RANK == 1
Absent == 0             \* the address is not in rpl_parents
Rank == 1..INFINITE_RANK
Version == 0..LOLLIPOP_MAX_VALUE

VARIABLES
  node,    \* of each node, its rpl_dag_t and its table rpl_parents
  dio,     \* DIOs on the way, by sender and radio
  daos,    \* DAOs on the way, from an address to a node
  faults   \* bound: number of global repairs and restarts

vars == <<node, dio, daos, faults>>

NodeRecord ==
  [joined : BOOLEAN, version : Version, rank : Rank, min_rank : Rank,
   preferred : Addr \union {None},
   parents : [Addr -> Rank \union {Absent}],   \* the rank of each parent
   updated : SUBSET Addr,                      \* RPL_PARENT_FLAG_UPDATED
   init_phase : BOOLEAN]

DioRecord == [version : Version, rank : Rank, to : SUBSET Node]

----------------------------------------------------------------------------
(***************************************************************************)
(* The version of the DODAG, a lollipop counter.                           *)
(***************************************************************************)
LOLLIPOP_INIT == LOLLIPOP_MAX_VALUE - LOLLIPOP_SEQUENCE_WINDOWS + 1

LOLLIPOP_INCREMENT(v) ==
  IF v > LOLLIPOP_CIRCULAR_REGION
  THEN (v + 1) % (LOLLIPOP_MAX_VALUE + 1)
  ELSE (v + 1) % (LOLLIPOP_CIRCULAR_REGION + 1)

\* Mutant of lollipop_greater_than: plain numbers are compared.
plainly_greater_than(a, b) == a > b

lollipop_greater_than(a, b) ==
  IF a > LOLLIPOP_CIRCULAR_REGION /\ b <= LOLLIPOP_CIRCULAR_REGION
  THEN LOLLIPOP_MAX_VALUE + 1 + b - a > LOLLIPOP_SEQUENCE_WINDOWS
  ELSE \/ a > b /\ a - b < LOLLIPOP_SEQUENCE_WINDOWS
       \/ a < b /\ b - a > LOLLIPOP_CIRCULAR_REGION + 1 - LOLLIPOP_SEQUENCE_WINDOWS

(***************************************************************************)
(* The parents of a node, d being its record.                              *)
(***************************************************************************)
\* Mutant of calculate_rank: the overflow test is missing.
calculate_unbounded(r) == r + 1

calculate_rank(r) == IF r + 1 < INFINITE_RANK THEN r + 1 ELSE INFINITE_RANK

acceptable_rank(d, r) == r # INFINITE_RANK /\ r <= d.min_rank + MAX_RANKINC

Parents(d) == {p \in Addr : d.parents[p] # Absent}
Candidates(d) == {p \in Parents(d) : d.parents[p] # INFINITE_RANK}

\* What best_parent of LT-MAX may prefer among the candidates c.  A parent
\* with a bad link loses to any other.  After the first load update a lower
\* rank wins; before it the weight of the link counts as well.
Preferable(d, c) ==
  IF d.init_phase THEN c
  ELSE UNION {LET good == c \ bad
              IN  IF good = {} THEN c
                  ELSE {p \in good : \A q \in good : d.parents[p] <= d.parents[q]}
              : bad \in SUBSET (c \intersect Unstable)}

\* best_parent of rpl-dag.c: at random the old parent stays, even one of
\* infinite rank.  With no candidate it reads best->rank in the init phase
\* although best is NULL: the comparison may have any result.
best_parent(d) ==
  LET c == Candidates(d)
  IN  IF c # {} THEN Preferable(d, c) \union ({d.preferred} \ {None})
      ELSE {None} \union (IF d.init_phase THEN {d.preferred} ELSE {})

\* Mutant of Selected: the rank is not renewed when the parent stays.
SelectedLazily(d, b) ==
  LET r == IF b = d.preferred THEN d.rank ELSE calculate_rank(d.parents[b])
      e == [d EXCEPT !.preferred = b, !.rank = r]
  IN  IF d.preferred = None \/ r < d.min_rank
      THEN [found |-> TRUE, dag |-> [e EXCEPT !.min_rank = r]]
      ELSE IF acceptable_rank(d, r) THEN [found |-> TRUE, dag |-> e]
      ELSE [found |-> FALSE, dag |-> [e EXCEPT !.preferred = None]]

\* Mutant of Selected: the rank is not compared with what the DAG allows.
SelectedUnlimited(d, b) ==
  LET r == calculate_rank(d.parents[b])
      e == [d EXCEPT !.preferred = b, !.rank = r]
  IN  [found |-> TRUE,
       dag |-> IF d.preferred = None \/ r < d.min_rank THEN [e EXCEPT !.min_rank = r] ELSE e]

\* Where a parent is selected: the rank follows, and min_rank with it if
\* there was no preferred parent or the rank is the lowest so far.
Selected(d, b) ==
  LET r == calculate_rank(d.parents[b])
      e == [d EXCEPT !.preferred = b, !.rank = r]
  IN  IF d.preferred = None \/ r < d.min_rank
      THEN [found |-> TRUE, dag |-> [e EXCEPT !.min_rank = r]]
      ELSE IF acceptable_rank(d, r) THEN [found |-> TRUE, dag |-> e]
      ELSE [found |-> FALSE, dag |-> [e EXCEPT !.preferred = None]]

\* rpl_select_dag, with rpl_select_parent: the record it may leave, and
\* whether it returns a DAG.
rpl_select_dag(d) ==
  {IF b = None THEN [found |-> FALSE, dag |-> [d EXCEPT !.rank = INFINITE_RANK]]
               ELSE Selected(d, b) : b \in best_parent(d)}

rpl_nullify_parent(d, p) ==
  IF d.preferred \in {p, None}
  THEN [d EXCEPT !.preferred = None, !.rank = INFINITE_RANK]
  ELSE d

\* All parents are nullified, the preferred one among them.
rpl_local_repair(d) == [d EXCEPT !.preferred = None, !.rank = INFINITE_RANK]

\* A preferred parent that is no longer acceptable is given up, and no
\* other one selected: rpl_nullify_parent has just cleared the preferred
\* parent that p is compared with.
rpl_process_parent_event(d, p) ==
  IF ~acceptable_rank(d, d.parents[p]) THEN {rpl_nullify_parent(d, p)}
  ELSE {IF o.found THEN o.dag ELSE rpl_local_repair(o.dag) : o \in rpl_select_dag(d)}

----------------------------------------------------------------------------
(***************************************************************************)
(* rpl_process_dio, for a DIO m from address p.                            *)
(***************************************************************************)
OnlyParent(p, r) == [q \in Addr |-> IF q = p THEN r ELSE Absent]

\* rpl_join_instance.
Joined(d, p, m) ==
  LET r == calculate_rank(m.rank)
  IN  [d EXCEPT !.joined = TRUE, !.version = m.version, !.rank = r, !.min_rank = r,
                !.preferred = p, !.parents = OnlyParent(p, m.rank), !.updated = {}]

\* All parents are removed; the sender is added again if the node has it as
\* a neighbour, as it has if it was a parent.
global_repair(d, p, m) ==
  LET r == calculate_rank(m.rank)
      none == [d EXCEPT !.version = m.version, !.rank = INFINITE_RANK,
                        !.min_rank = INFINITE_RANK, !.preferred = None,
                        !.parents = [q \in Addr |-> Absent], !.updated = {}]
      added == [none EXCEPT !.parents[p] = m.rank, !.rank = r, !.min_rank = r]
  IN  rpl_process_parent_event(added, p)
        \union (IF d.parents[p] = Absent THEN {none} ELSE {})

\* The other addresses of the node that p belongs to.
Sibling(p) == {q \in Addr : q[1] = p[1] /\ q # p}

\* Mutant of Heard: the rank of a parent that is known stays as it was.
HeardOnce(d, p, m) ==
  [d EXCEPT !.parents[p] = IF @ = Absent THEN m.rank ELSE @, !.updated = @ \union {p}]

\* The sender becomes or stays a parent; its rank goes to the parent on the
\* other radio as well, which is not marked as updated.
Heard(d, p, m) ==
  [d EXCEPT !.parents = [q \in Addr |->
                           IF q = p \/ (q \in Sibling(p) /\ @[q] # Absent)
                           THEN m.rank ELSE @[q]],
            !.updated = @ \union {p}]

rpl_process_dio(d, p, m) ==
  IF ~d.joined THEN {Joined(d, p, m)}
  ELSE IF lollipop_greater_than(m.version, d.version) THEN global_repair(d, p, m)
  ELSE IF lollipop_greater_than(d.version, m.version) THEN {d}
  ELSE rpl_process_parent_event(Heard(d, p, m), p)

\* The root only looks at the version.
RootProcessesDio(d, m) ==
  IF lollipop_greater_than(m.version, d.version)
  THEN [d EXCEPT !.version = LOLLIPOP_INCREMENT(m.version)]
  ELSE d

----------------------------------------------------------------------------
Fresh(n) ==
  [joined |-> n = Root, version |-> LOLLIPOP_INIT,
   rank |-> IF n = Root THEN ROOT_RANK ELSE INFINITE_RANK,
   min_rank |-> INFINITE_RANK, preferred |-> None,
   parents |-> [q \in Addr |-> Absent], updated |-> {},
   init_phase |-> n # Root]

NoDio == [version |-> LOLLIPOP_INIT, rank |-> INFINITE_RANK, to |-> {}]

Init ==
  /\ node = [n \in Node |-> Fresh(n)]
  /\ dio = [a \in Addr |-> NoDio]
  /\ daos = {}
  /\ faults = 0

\* handle_dio_timer or a requested DIO: dio_output builds the DIO, for each
\* radio on its own, from the present version and rank.
SendDio(n, r) ==
  /\ node[n].joined
  /\ dio' = [dio EXCEPT ![<<n, r>>] =
               [version |-> node[n].version, rank |-> node[n].rank,
                to |-> {k \in Node : <<n, r, k>> \in Link}]]
  /\ UNCHANGED <<node, daos, faults>>

\* The DIO of p is no longer on the way to n.
Without(p, n) == IF dio[p].to = {n} THEN NoDio ELSE [dio[p] EXCEPT !.to = @ \ {n}]

\* dio_input at n.
DioInput(p, n) ==
  /\ n \in dio[p].to
  /\ dio' = [dio EXCEPT ![p] = Without(p, n)]
  /\ IF n = Root THEN node' = [node EXCEPT ![n] = RootProcessesDio(@, dio[p])]
     ELSE \E d \in rpl_process_dio(node[n], p, dio[p]) : node' = [node EXCEPT ![n] = d]
  /\ UNCHANGED <<daos, faults>>

\* handle_dao_timer.  A No-Path DAO to the parent just left is one that was
\* on the way when it was left; the root has no parents to compare one with.
SendDao(n) ==
  /\ node[n].preferred \notin {None} \union ({Root} \X Radio)
  /\ LET p == node[n].preferred
     IN  daos' = daos \union {<<<<n, p[2]>>, p[1]>>}
  /\ UNCHANGED <<node, dio, faults>>

\* dao_input: a DAO from a parent with a lower rank, or from the preferred
\* parent, shows a loop.
LoopDetected(d, p) ==
  /\ p \in Parents(d)
  /\ d.parents[p] < d.rank \/ p = d.preferred

DaoInput(p, n) ==
  /\ <<p, n>> \in daos
  /\ daos' = daos \ {<<p, n>>}
  /\ node' = IF LoopDetected(node[n], p)
             THEN [node EXCEPT ![n].parents[p] = INFINITE_RANK,
                               ![n].updated = @ \union {p}]
             ELSE node
  /\ UNCHANGED <<dio, faults>>

\* rpl_link_neighbor_callback, after every transmission to a parent.
LinkCallback(n, p) ==
  /\ p \in Parents(node[n])
  /\ node' = [node EXCEPT ![n].updated = @ \union {p}]
  /\ UNCHANGED <<dio, daos, faults>>

\* The loop of rpl_recalculate_ranks: the parents that are marked are
\* processed one after the other, in the order of the table.
Recalculated(d) ==
  LET after[S \in SUBSET d.updated] ==
        IF S = {} THEN {[d EXCEPT !.updated = {}]}
        ELSE UNION {UNION {rpl_process_parent_event(e, p) : e \in after[S \ {p}]} : p \in S}
  IN  after[d.updated]

\* handle_periodic_timer, once a second.
RecalculateRanks(n) ==
  /\ node[n].updated # {}
  /\ \E d \in Recalculated(node[n]) : node' = [node EXCEPT ![n] = d]
  /\ UNCHANGED <<dio, daos, faults>>

\* rpl_verify_header: a data packet from parent p signals a rank error and
\* carries the rank of its sender, which does not change between the sender's
\* forwarding and this node's reading it.  What rpl_select_dag returns is ignored.
RankErrorSignalled(n, p) ==
  /\ p \in Parents(node[n])
  /\ \E o \in rpl_select_dag([node[n] EXCEPT !.parents[p] = node[p[1]].rank]) :
       node' = [node EXCEPT ![n] = o.dag]
  /\ UNCHANGED <<dio, daos, faults>>

\* The first load update of udp-client.c ends the init phase.
FirstLoadUpdate(n) ==
  /\ node[n].init_phase
  /\ node' = [node EXCEPT ![n].init_phase = FALSE]
  /\ UNCHANGED <<dio, daos, faults>>

\* rpl_repair_root, by the button or for a next hop that is gone.
RepairRoot ==
  /\ faults < MaxFaults
  /\ faults' = faults + 1
  /\ node' = [node EXCEPT ![Root].version = LOLLIPOP_INCREMENT(@)]
  /\ UNCHANGED <<dio, daos>>

\* A node loses its state and boots; the root calls rpl_set_root.
Restart(n) ==
  /\ faults < MaxFaults
  /\ faults' = faults + 1
  /\ node' = [node EXCEPT ![n] = Fresh(n)]
  /\ UNCHANGED <<dio, daos>>

Next ==
  \/ \E n \in Node, r \in Radio : SendDio(n, r)
  \/ \E p \in Addr, n \in Node : DioInput(p, n) \/ DaoInput(p, n)
  \/ \E n \in Client, p \in Addr :
       \/ LinkCallback(n, p) \/ RankErrorSignalled(n, p)
  \/ \E n \in Client : SendDao(n) \/ RecalculateRanks(n) \/ FirstLoadUpdate(n)
  \/ RepairRoot
  \/ \E n \in Node : Restart(n)

Spec == Init /\ [][Next]_vars

\* The Trickle timer and the periodic timer go on for ever, the application
\* updates its load, and of the DIOs a neighbour sends again and again it
\* hears some.
Fairness ==
  /\ \A n \in Node, r \in Radio : WF_vars(SendDio(n, r))
  /\ \A l \in Link : WF_vars(DioInput(<<l[1], l[2]>>, l[3]))
  /\ \A n \in Client : WF_vars(RecalculateRanks(n)) /\ WF_vars(FirstLoadUpdate(n))

FairSpec == Spec /\ Fairness

----------------------------------------------------------------------------
TypeOK ==
  /\ node \in [Node -> NodeRecord]
  /\ dio \in [Addr -> DioRecord]
  /\ daos \subseteq Addr \X Node
  /\ faults \in 0..MaxFaults

Follows(d) ==
  d.preferred # None =>
    \/ d.rank = calculate_rank(d.parents[d.preferred])
    \/ d.parents[d.preferred] = INFINITE_RANK /\ d.preferred \in d.updated

\* "Parent info has been updated, trigger rank recalculation": the rank a
\* node announces is the one its preferred parent gives it, or that parent
\* was found to be in a loop and waits for rpl_recalculate_ranks.
RankFollowsPreferred == \A n \in Client : Follows(node[n])

Attached(d) ==
  d.preferred # None =>
    /\ d.preferred \in Parents(d)
    /\ d.parents[d.preferred] # INFINITE_RANK => d.rank <= d.min_rank + MAX_RANKINC

\* A node that has a preferred parent holds it in its table and, unless
\* that parent has lost the DODAG itself, has a rank no further from the
\* lowest it has had, since it last had no parent, than acceptable_rank
\* allows.
RankWithinLimit == \A n \in Client : Attached(node[n])

\* After the last fault, in the end, every node has a parent one hop closer
\* to the root, in the version of the root: loops, stale DIOs and lost ones
\* do not last, and a root that restarts with its first version catches up
\* with the nodes that remember a later one.
TreeStands ==
  \A n \in Client :
    LET d == node[n]
    IN  /\ d.joined /\ d.preferred # None
        /\ d.version = node[Root].version
        /\ d.rank = node[d.preferred[1]].rank + 1

TreeForms == <>[]TreeStands
=============================================================================
