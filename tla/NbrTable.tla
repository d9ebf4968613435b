------------------------------ MODULE NbrTable ------------------------------
(***************************************************************************)
(* The neighbour table of one node: nbr-table.c with its four users, the   *)
(* IPv6 neighbours (uip-ds6-nbr.c), the next hops of routes                *)
(* (uip-ds6-route.c) and RPL's parents and children (rpl-dag.c), the       *)
(* replacement policy of rpl-nbr-policy.c, and ds6_lr_addrmap, the list    *)
(* from which the stack learns on which radio an address is reached.       *)
(*                                                                         *)
(* A neighbour is a link address; a node with two radios has two.  The IP  *)
(* address is derived from it and stands for it.  Only uip_ds6_nbr_add     *)
(* brings new addresses into the table and only eviction removes them, so  *)
(* the keys of the table are the IPv6 neighbours.  Ranks and link metrics  *)
(* are abstracted: which removable parent is the worst, whether a DIO is   *)
(* better, and which parent RPL prefers, are choices.                      *)
(***************************************************************************)
EXTENDS Naturals, FiniteSets

CONSTANTS
  Nbr,           \* link addresses of other nodes
  Dest,          \* destinations announced by DAOs
  MaxNeighbors,  \* NBR_TABLE_MAX_NEIGHBORS
  MaxRoutes,     \* UIP_DS6_ROUTE_NB
  Root,          \* this node is the root of the DODAG
  MaxDegree,     \* bound: values of my_degree, a uint8_t
  None           \* NULL

ASSUME NbrTableAssumption ==
  /\ None \notin Nbr
  /\ MaxNeighbors \in Nat \ {0, 1}
  /\ MaxRoutes \in Nat
  /\ Root \in BOOLEAN
  /\ MaxDegree \in 1..255

\* rpl-nbr-policy.c
MAX_CHILDREN == MaxNeighbors - 2

VARIABLES
  ds6_neighbors,  \* addresses in the table, all of them IPv6 neighbours
  rpl_parents,    \* those that are candidate parents
  rpl_children,   \* those that are known to have this node as parent
  nbr_routes,     \* those that hold, and are locked by, a list of routes
  nexthop,        \* the next hop of the route to each destination
  preferred,      \* dag->preferred_parent
  locked,         \* addresses locked by rpl_parents
  joined,         \* the node is in the DODAG
  my_degree,
  ds6_lr_addrmap  \* the address and the isused flag of each slot

tables == <<ds6_neighbors, rpl_parents, rpl_children, nbr_routes, locked>>
vars == <<tables, nexthop, preferred, joined, my_degree, ds6_lr_addrmap>>

Slot == [lladdr : Nbr \union {None}, isused : BOOLEAN]
Nexthops == {nexthop[d] : d \in Dest} \ {None}
NumRoutes == Cardinality({d \in Dest : nexthop[d] # None})

----------------------------------------------------------------------------
(***************************************************************************)
(* rpl-nbr-policy.c: the neighbour to give up for a new one.               *)
(***************************************************************************)
Reason == {"DIO", "DAO", "DIS"}

\* Mutant of Worst: is_used is not looked at.
WorstAny == ds6_neighbors \ {preferred}

\* update_nbr: worst_rank_nbr is a neighbour that is neither parent nor
\* next hop or, if there is none, a parent that is in no such use.
Worst ==
  LET unused == ds6_neighbors \ (rpl_parents \union Nexthops)
      parents == rpl_parents \ (Nexthops \union {preferred})
  IN  IF unused # {} THEN unused ELSE parents

ChildrenAllowed(reason) ==
  CASE reason = "DIO" -> TRUE
    [] reason = "DIS" -> Cardinality(Nexthops) < MAX_CHILDREN
    [] reason = "DAO" -> Cardinality(Nexthops) < (IF Root THEN MaxNeighbors ELSE MAX_CHILDREN)

Removable(reason) == IF ChildrenAllowed(reason) THEN Worst ELSE {}

\* Mutant of Full: one entry more is taken from the pool.
FullLate == Cardinality(ds6_neighbors) > MaxNeighbors
\* memb_alloc finds no free entry.
Full == Cardinality(ds6_neighbors) = MaxNeighbors

\* nbr_table_allocate succeeds for a after giving up the addresses in gone.
Allocated(a, reason, gone) ==
  IF a \in ds6_neighbors \/ ~Full
  THEN gone = {}
  ELSE \E victim \in Removable(reason) : gone = {victim}

\* ... or fails: no neighbour may be removed, or the DIO is not better.
NotAllocated(a, reason) ==
  /\ a \notin ds6_neighbors /\ Full
  /\ reason = "DIO" \/ Removable(reason) = {}

(***************************************************************************)
(* ds6_lr_addrmap, a list beside the table.  A slot is taken by every call *)
(* of uip_ds6_nbr_add, whether it found room in the table or not, and      *)
(* given back by uip_ds6_nbr_rm, the callback of an eviction.  The radio   *)
(* noted in a slot is the one its address belongs to.                      *)
(***************************************************************************)
Slots == 1..MaxNeighbors
First(S) == CHOOSE i \in S : \A j \in S : i <= j

lladdr_map_rm_lr(map, a) ==
  LET found == {i \in Slots : map[i].lladdr = a}
  IN  IF found = {} THEN map ELSE [map EXCEPT ![First(found)].isused = FALSE]

lladdr_map_add_lr(map, a) ==
  LET unused == {i \in Slots : ~map[i].isused}
  IN  IF unused = {} THEN map
      ELSE [map EXCEPT ![First(unused)] = [lladdr |-> a, isused |-> TRUE]]

\* Mutant of MapAfter: eviction does not go through uip_ds6_nbr_rm.
MapAfterNotFreed(a, gone) ==
  IF a \in ds6_neighbors THEN ds6_lr_addrmap
  ELSE lladdr_map_add_lr(ds6_lr_addrmap, a)

MapAfter(a, gone) ==
  IF a \in ds6_neighbors THEN ds6_lr_addrmap
  ELSE lladdr_map_add_lr(
         IF gone = {} THEN ds6_lr_addrmap
         ELSE lladdr_map_rm_lr(ds6_lr_addrmap, CHOOSE v \in gone : TRUE), a)

UsedSlots == {i \in Slots : ds6_lr_addrmap[i].isused}

(***************************************************************************)
(* The tables after an allocation, seen through the callbacks of those     *)
(* that used the addresses in gone: nexthop by rm_routelist_callback,      *)
(* preferred and locked by rpl_remove_parent.                              *)
(***************************************************************************)
Neighbors(a, gone) == (ds6_neighbors \ gone) \union {a}
NexthopWithout(gone) ==
  [d \in Dest |-> IF nexthop[d] \in gone THEN None ELSE nexthop[d]]
PreferredWithout(gone) == IF preferred \in gone THEN None ELSE preferred

\* Mutant of Prefer: the old preferred parent stays locked.
PreferBothLocked(p) ==
  /\ preferred' = p
  /\ locked' = locked \union ({p} \ {None})

\* rpl_set_preferred_parent: the lock moves from the old one to p.
Prefer(p) ==
  /\ preferred' = p
  /\ locked' = (locked \ {preferred}) \union ({p} \ {None})

----------------------------------------------------------------------------
Init ==
  /\ ds6_neighbors = {} /\ rpl_parents = {} /\ rpl_children = {}
  /\ nbr_routes = {} /\ locked = {}
  /\ nexthop = [d \in Dest |-> None]
  /\ preferred = None
  /\ joined = Root
  /\ my_degree = 0
  /\ ds6_lr_addrmap = [i \in Slots |-> [lladdr |-> None, isused |-> FALSE]]

(***************************************************************************)
(* The end of dio_input: the sender names its own parent in the DIO.  nbrs *)
(* and kids are the neighbours and the children after rpl_process_dio.     *)
(***************************************************************************)
\* Mutant of ChildOfDio: the degree is lowered for every DIO that names
\* another parent.
ChildOfDioAlways(a, namesMe, nbrs, kids) ==
  \/ /\ namesMe /\ a \in nbrs \ kids
     /\ my_degree < MaxDegree
     /\ rpl_children' = kids \union {a}
     /\ my_degree' = my_degree + 1
  \/ /\ ~namesMe /\ my_degree > 0
     /\ rpl_children' = kids \ {a}
     /\ my_degree' = my_degree - 1
  \/ /\ namesMe /\ a \notin nbrs \ kids
     /\ rpl_children' = kids
     /\ UNCHANGED my_degree

ChildOfDio(a, namesMe, nbrs, kids) ==
  \/ /\ namesMe /\ a \in nbrs \ kids
     /\ my_degree < MaxDegree
     /\ rpl_children' = kids \union {a}
     /\ my_degree' = my_degree + 1
  \/ /\ ~namesMe /\ a \in kids
     /\ rpl_children' = kids \ {a}
     /\ my_degree' = my_degree - 1
  \/ /\ IF namesMe THEN a \notin nbrs \ kids ELSE a \notin kids
     /\ rpl_children' = kids
     /\ UNCHANGED my_degree

\* rpl_process_dio returns before it looks for room, as it does at the root
\* and for a version or rank out of order.
DioIgnored(a, namesMe) ==
  /\ ChildOfDio(a, namesMe, ds6_neighbors, rpl_children)
  /\ UNCHANGED <<ds6_neighbors, rpl_parents, nbr_routes, locked, nexthop,
                 preferred, joined, ds6_lr_addrmap>>

DioRefused(a, namesMe) ==
  /\ ~Root
  /\ NotAllocated(a, "DIO")
  /\ ds6_lr_addrmap' = MapAfter(a, {})
  /\ ChildOfDio(a, namesMe, ds6_neighbors, rpl_children)
  /\ UNCHANGED <<ds6_neighbors, rpl_parents, nbr_routes, locked, nexthop, preferred, joined>>

\* The sender becomes a candidate parent and RPL selects a parent again; a
\* node that was not in the DODAG prefers it.
DioAccepted(a, namesMe) ==
  /\ ~Root
  /\ \E gone \in SUBSET ds6_neighbors :
       /\ Allocated(a, "DIO", gone)
       /\ ds6_neighbors' = Neighbors(a, gone)
       /\ rpl_parents' = (rpl_parents \ gone) \union {a}
       /\ nbr_routes' = nbr_routes \ gone
       /\ nexthop' = NexthopWithout(gone)
       /\ ds6_lr_addrmap' = MapAfter(a, gone)
       /\ ChildOfDio(a, namesMe, Neighbors(a, gone), rpl_children \ gone)
  /\ IF joined THEN \E p \in rpl_parents' \union {None} : Prefer(p)
               ELSE Prefer(a)
  /\ joined' = TRUE

\* global_repair: all parents are removed; the sender of the DIO is made a
\* parent if the table happens to hold it.
GlobalRepair(a, namesMe) ==
  /\ ~Root /\ joined
  /\ rpl_parents' = {a} \intersect ds6_neighbors
  /\ \E p \in rpl_parents' \union {None} : Prefer(p)
  /\ ChildOfDio(a, namesMe, ds6_neighbors, rpl_children)
  /\ UNCHANGED <<ds6_neighbors, nbr_routes, nexthop, joined, ds6_lr_addrmap>>

\* rpl_recalculate_ranks, rpl_local_repair, and what link layer callbacks
\* lead to: another parent, or none, is preferred.
ParentEvent ==
  /\ joined /\ ~Root
  /\ \E p \in rpl_parents \union {None} : Prefer(p)
  /\ UNCHANGED <<ds6_neighbors, rpl_parents, rpl_children, nbr_routes,
                 nexthop, joined, my_degree, ds6_lr_addrmap>>

(***************************************************************************)
(* dao_input: room for the sender, a route through it, and the sender as a *)
(* child.  A DAO from the preferred parent is a loop; one from another     *)
(* parent may be.                                                          *)
(***************************************************************************)
\* Mutant of RouteAdded: the list of the old next hop is not given up.
RouteAddedOldKept(a, d, gone) ==
  /\ nexthop' = [NexthopWithout(gone) EXCEPT ![d] = a]
  /\ nbr_routes' = (nbr_routes \ gone) \union {a}

\* uip_ds6_route_add, with uip_ds6_route_rm for the route to be replaced.
RouteAdded(a, d, gone) ==
  /\ nexthop' = [NexthopWithout(gone) EXCEPT ![d] = a]
  /\ nbr_routes' = {nexthop'[e] : e \in Dest} \ {None}

DaoRefused(a) ==
  /\ joined
  /\ NotAllocated(a, "DAO")
  /\ ds6_lr_addrmap' = MapAfter(a, {})
  /\ UNCHANGED <<tables, nexthop, preferred, joined, my_degree>>

DaoAccepted(a, d) ==
  /\ joined
  /\ a # preferred
  /\ \E gone \in SUBSET ds6_neighbors :
       /\ Allocated(a, "DAO", gone)
       /\ ds6_neighbors' = Neighbors(a, gone)
       /\ rpl_parents' = rpl_parents \ gone
       /\ preferred' = PreferredWithout(gone)
       /\ locked' = locked \ gone
       /\ ds6_lr_addrmap' = MapAfter(a, gone)
       /\ IF NumRoutes < MaxRoutes \/ nexthop[d] # None
          THEN /\ RouteAdded(a, d, gone)
               /\ IF a \in rpl_children
                  THEN /\ rpl_children' = rpl_children \ gone
                       /\ UNCHANGED my_degree
                  ELSE /\ my_degree < MaxDegree
                       /\ rpl_children' = (rpl_children \ gone) \union {a}
                       /\ my_degree' = my_degree + 1
          ELSE /\ rpl_children' = rpl_children \ gone
               /\ nexthop' = NexthopWithout(gone)
               /\ nbr_routes' = nbr_routes \ gone
               /\ UNCHANGED my_degree
  /\ UNCHANGED joined

\* rpl_purge_routes after the lifetime or a No-Path DAO, and the removal of
\* a route that turned out wrong (rpl-ext-header.c).
RouteRemoved(d) ==
  /\ nexthop[d] # None
  /\ nexthop' = [nexthop EXCEPT ![d] = None]
  /\ nbr_routes' = {nexthop'[e] : e \in Dest} \ {None}
  /\ UNCHANGED <<ds6_neighbors, rpl_parents, rpl_children, locked, preferred,
                 joined, my_degree, ds6_lr_addrmap>>

\* dis_input for a unicast DIS.
DisInput(a) ==
  /\ joined
  /\ \/ /\ NotAllocated(a, "DIS")
        /\ ds6_lr_addrmap' = MapAfter(a, {})
        /\ UNCHANGED <<tables, nexthop, preferred>>
     \/ \E gone \in SUBSET ds6_neighbors :
          /\ Allocated(a, "DIS", gone)
          /\ ds6_neighbors' = Neighbors(a, gone)
          /\ rpl_parents' = rpl_parents \ gone
          /\ rpl_children' = rpl_children \ gone
          /\ nbr_routes' = nbr_routes \ gone
          /\ nexthop' = NexthopWithout(gone)
          /\ preferred' = PreferredWithout(gone)
          /\ locked' = locked \ gone
          /\ ds6_lr_addrmap' = MapAfter(a, gone)
  /\ UNCHANGED <<joined, my_degree>>

Next ==
  \/ \E a \in Nbr, namesMe \in BOOLEAN :
       \/ DioIgnored(a, namesMe) \/ DioRefused(a, namesMe)
       \/ DioAccepted(a, namesMe) \/ GlobalRepair(a, namesMe)
  \/ \E a \in Nbr : DaoRefused(a) \/ DisInput(a)
  \/ \E a \in Nbr, d \in Dest : DaoAccepted(a, d)
  \/ \E d \in Dest : RouteRemoved(d)
  \/ ParentEvent

Spec == Init /\ [][Next]_vars

----------------------------------------------------------------------------
TypeOK ==
  /\ ds6_neighbors \subseteq Nbr /\ Cardinality(ds6_neighbors) <= MaxNeighbors
  /\ rpl_parents \subseteq Nbr /\ rpl_children \subseteq Nbr
  /\ nbr_routes \subseteq Nbr /\ locked \subseteq Nbr
  /\ nexthop \in [Dest -> Nbr \union {None}]
  /\ preferred \in Nbr \union {None}
  /\ joined \in BOOLEAN
  /\ my_degree \in 0..MaxDegree
  /\ ds6_lr_addrmap \in [Slots -> Slot]

\* Every parent, child and next hop is a neighbour, and exactly the next
\* hops of routes hold a list of routes: no table keeps an item of an entry
\* that was given to another address, and no route goes to one.
TablesAgree ==
  /\ rpl_parents \subseteq ds6_neighbors
  /\ rpl_children \subseteq ds6_neighbors
  /\ nbr_routes \subseteq ds6_neighbors
  /\ nbr_routes = Nexthops

\* rpl-dag.c: "Always keep the preferred parent locked, so it remains in
\* the neighbor table" - and nothing else is locked for it.
PreferredLocked ==
  /\ locked = {preferred} \ {None}
  /\ preferred # None => preferred \in rpl_parents

\* No message of another node makes the table give up the preferred parent
\* or a neighbour that routes go through.
UsedNeighborsKept ==
  [][\A a \in ds6_neighbors \ ds6_neighbors' : a # preferred /\ a \notin Nexthops]_vars

\* The degree announced in DIOs and acks counts every known child: it is
\* never lowered for a child that was not counted (rpl-icmp6.c).
DegreeCoversChildren == Cardinality(rpl_children) <= my_degree

\* The slots of ds6_lr_addrmap in use hold exactly the neighbours, each
\* once.  tcpip.c leaves the selected radio alone for a neighbour without a
\* slot, and a slot that is not given back is lost to all later ones.
AddrMapMatches ==
  /\ {ds6_lr_addrmap[i].lladdr : i \in UsedSlots} = ds6_neighbors
  /\ \A i, j \in UsedSlots :
       ds6_lr_addrmap[i].lladdr = ds6_lr_addrmap[j].lladdr => i = j
=============================================================================
