--------------------------- MODULE NbrTable_proofs ---------------------------
(***************************************************************************)
(* Proofs about the neighbour table, for any addresses, destinations and   *)
(* size of the table.                                                      *)
(***************************************************************************)
EXTENDS NbrTable, FiniteSetTheorems, WellFoundedInduction, TLAPS

\* What holds of ds6_lr_addrmap between two handlers: besides AddrMapMatches,
\* a slot that is not in use was never taken.
MapHolds(map, nbrs) ==
  /\ map \in [Slots -> Slot]
  /\ \A i \in Slots : map[i].isused => map[i].lladdr \in nbrs
  /\ \A a \in nbrs : \E i \in Slots : map[i].isused /\ map[i].lladdr = a
  /\ \A i, j \in Slots :
       map[i].isused /\ map[j].isused /\ map[i].lladdr = map[j].lladdr => i = j
  /\ \A i \in Slots : ~map[i].isused => map[i].lladdr = None

\* The inductive invariant.
NbrInv ==
  /\ TypeOK
  /\ IsFiniteSet(ds6_neighbors)
  /\ TablesAgree
  /\ PreferredLocked
  /\ DegreeCoversChildren
  /\ MapHolds(ds6_lr_addrmap, ds6_neighbors)

----------------------------------------------------------------------------
(***************************************************************************)
(* The list of slots.                                                      *)
(***************************************************************************)
\* A set of slots has a first one.
LEMMA FirstSlot ==
  ASSUME NEW S \in SUBSET Slots, S # {}
  PROVE  First(S) \in S
<1> USE NbrTableAssumption
<1>1. S \subseteq Nat
  BY DEF Slots
<1> DEFINE Less == OpToRel(<, Nat)
<1>2. \A m, n \in Nat : m < n => <<m, n>> \in Less
  BY DEF OpToRel
<1>3. IsWellFoundedOn(Less, Nat)
  BY NatLessThanWellFounded
<1> HIDE DEF Less
<1>4. PICK x \in S : \A y \in S : <<y, x>> \notin Less
  BY <1>1, <1>3, WFMin
<1>5. \A y \in S : ~(y < x)
  BY <1>1, <1>2, <1>4
<1>6. \A y \in S : x <= y
  BY <1>1, <1>5
<1> QED
  BY <1>6 DEF First

\* As long as the table has room, a slot is not in use: two neighbours never
\* share one.
LEMMA SlotLeft ==
  ASSUME NEW map, NEW nbrs, MapHolds(map, nbrs), IsFiniteSet(nbrs),
         Cardinality(nbrs) < MaxNeighbors
  PROVE  \E i \in Slots : ~map[i].isused
<1> USE NbrTableAssumption
<1> SUFFICES ASSUME \A i \in Slots : map[i].isused
             PROVE  FALSE
  OBVIOUS
<1> DEFINE f == [i \in Slots |-> map[i].lladdr]
<1>1. f \in Injection(Slots, nbrs)
  BY DEF MapHolds, Injection, IsInjective
<1>2. Cardinality(Slots) <= Cardinality(nbrs)
  BY <1>1, FS_Injection
<1>3. Cardinality(Slots) = MaxNeighbors
  BY FS_Interval DEF Slots
<1>4. Cardinality(nbrs) \in Nat
  BY FS_CardinalityType
<1> QED
  BY <1>2, <1>3, <1>4

\* When the table is full, so is the list.
LEMMA SlotsFull ==
  ASSUME NEW map, NEW nbrs, MapHolds(map, nbrs), IsFiniteSet(nbrs),
         Cardinality(nbrs) = MaxNeighbors
  PROVE  \A i \in Slots : map[i].isused
<1> USE NbrTableAssumption
<1> DEFINE used == {i \in Slots : map[i].isused}
           f == [i \in used |-> map[i].lladdr]
<1>1. f \in Surjection(used, nbrs)
  BY DEF MapHolds, Surjection
<1>2. IsFiniteSet(Slots) /\ Cardinality(Slots) = MaxNeighbors
  BY FS_Interval DEF Slots
<1>3. used \in SUBSET Slots
  OBVIOUS
<1>4. /\ IsFiniteSet(used) /\ Cardinality(used) <= Cardinality(Slots)
      /\ Cardinality(Slots) = Cardinality(used) => Slots = used
  BY <1>2, <1>3, FS_Subset
<1> HIDE DEF used, f
<1>5. Cardinality(nbrs) <= Cardinality(used)
  BY <1>1, <1>4, FS_Surjection
<1>6. Cardinality(used) \in Nat
  BY <1>4, FS_CardinalityType
<1>7. Slots = used
  BY <1>2, <1>4, <1>5, <1>6
<1> QED
  BY <1>7 DEF used

\* A new neighbour gets a slot of its own.
LEMMA SlotAdded ==
  ASSUME NEW map, NEW nbrs \in SUBSET Nbr, NEW a \in Nbr \ nbrs,
         MapHolds(map, nbrs), IsFiniteSet(nbrs), Cardinality(nbrs) < MaxNeighbors
  PROVE  MapHolds(lladdr_map_add_lr(map, a), nbrs \union {a})
<1> DEFINE unused == {i \in Slots : ~map[i].isused}
           k == First(unused)
<1>1. unused # {}
  BY SlotLeft
<1>2. k \in unused
  BY <1>1, FirstSlot
<1>3. lladdr_map_add_lr(map, a) = [map EXCEPT ![k] = [lladdr |-> a, isused |-> TRUE]]
  BY <1>1 DEF lladdr_map_add_lr
<1> HIDE DEF k
<1>4. k \in Slots /\ ~map[k].isused
  BY <1>2
<1> HIDE DEF unused
<1> QED
  BY <1>3, <1>4 DEF MapHolds, Slot

\* A call that finds no room in a full table finds none in the list.
LEMMA NoSlotTaken ==
  ASSUME NEW map, NEW nbrs, NEW a, MapHolds(map, nbrs), IsFiniteSet(nbrs),
         Cardinality(nbrs) = MaxNeighbors
  PROVE  lladdr_map_add_lr(map, a) = map
BY SlotsFull DEF lladdr_map_add_lr

\* An eviction hands the slot of the old neighbour over to the new one.
LEMMA SlotHandedOver ==
  ASSUME NEW map, NEW nbrs \in SUBSET Nbr, NEW a \in Nbr \ nbrs, NEW v \in nbrs,
         MapHolds(map, nbrs), IsFiniteSet(nbrs), Cardinality(nbrs) = MaxNeighbors
  PROVE  MapHolds(lladdr_map_add_lr(lladdr_map_rm_lr(map, v), a), (nbrs \ {v}) \union {a})
<1>1. \A i \in Slots : map[i].isused
  BY SlotsFull
<1>2. PICK k \in Slots : map[k].isused /\ map[k].lladdr = v
  BY DEF MapHolds
<1>3. \A i \in Slots : map[i].lladdr = v <=> i = k
  BY <1>1, <1>2 DEF MapHolds
<1>4. {i \in Slots : map[i].lladdr = v} = {k}
  BY <1>3
<1>5. First({k}) = k
  BY <1>2, FirstSlot
<1> DEFINE freed == [map EXCEPT ![k].isused = FALSE]
<1>6. lladdr_map_rm_lr(map, v) = freed
  BY <1>4, <1>5 DEF lladdr_map_rm_lr
<1>7. map \in [Slots -> Slot]
  BY DEF MapHolds
<1>8. {i \in Slots : ~freed[i].isused} = {k}
  BY <1>1, <1>2, <1>7 DEF Slot
<1> DEFINE taken == [freed EXCEPT ![k] = [lladdr |-> a, isused |-> TRUE]]
<1>9. lladdr_map_add_lr(freed, a) = taken
  BY <1>5, <1>8 DEF lladdr_map_add_lr
<1>10. \A i \in Slots : taken[i] = IF i = k THEN [lladdr |-> a, isused |-> TRUE] ELSE map[i]
  BY <1>7
<1>11. taken \in [Slots -> Slot]
  BY <1>7 DEF Slot
<1> HIDE DEF taken, freed
<1>12. MapHolds(taken, (nbrs \ {v}) \union {a})
  BY <1>1, <1>2, <1>3, <1>10, <1>11 DEF MapHolds
<1> QED
  BY <1>6, <1>9, <1>12

----------------------------------------------------------------------------
(***************************************************************************)
(* An allocation, successful or not.                                       *)
(***************************************************************************)
\* The policy gives up neither the preferred parent nor a next hop.
LEMMA VictimsUnused ==
  ASSUME NbrInv, NEW reason, NEW victim \in Removable(reason)
  PROVE  victim \in ds6_neighbors /\ victim # preferred /\ victim \notin Nexthops
<1>1. victim \in Worst
  BY DEF Removable
<1>2. rpl_parents \subseteq ds6_neighbors /\ nbr_routes \subseteq ds6_neighbors
  BY DEF NbrInv, TablesAgree
<1>3. preferred # None => preferred \in rpl_parents
  BY DEF NbrInv, PreferredLocked
<1>4. ds6_neighbors \subseteq Nbr /\ None \notin ds6_neighbors
  BY NbrTableAssumption DEF NbrInv, TypeOK
<1>5. CASE victim \in ds6_neighbors \ (rpl_parents \union Nexthops)
  BY <1>3, <1>4, <1>5
<1>6. CASE victim \in rpl_parents \ (Nexthops \union {preferred})
  BY <1>2, <1>6
<1> QED
  BY <1>1, <1>5, <1>6 DEF Worst

LEMMA AllocationKeepsUsed ==
  ASSUME NbrInv, NEW a \in Nbr, NEW reason, NEW gone \in SUBSET ds6_neighbors,
         Allocated(a, reason, gone)
  PROVE  /\ gone = {} \/ (a \notin ds6_neighbors /\ Full /\ \E v \in ds6_neighbors : gone = {v})
         /\ gone = {} => a \in ds6_neighbors \/ ~Full
         /\ preferred \notin gone
         /\ gone \intersect Nexthops = {}
BY VictimsUnused DEF Allocated

LEMMA AllocationRoutes ==
  ASSUME NbrInv, NEW gone, preferred \notin gone, gone \intersect Nexthops = {},
         None \notin gone
  PROVE  /\ NexthopWithout(gone) = nexthop
         /\ PreferredWithout(gone) = preferred
         /\ locked \ gone = locked
         /\ nbr_routes \ gone = nbr_routes
<1>1. nexthop \in [Dest -> Nbr \union {None}]
  BY DEF NbrInv, TypeOK
<1>2. \A d \in Dest : nexthop[d] \notin gone
  BY DEF Nexthops
<1>3. NexthopWithout(gone) = nexthop
  BY <1>1, <1>2 DEF NexthopWithout
<1> QED
  BY <1>3 DEF NbrInv, PreferredWithout, PreferredLocked, TablesAgree

\* The table never holds more than MaxNeighbors addresses.
LEMMA AllocationFits ==
  ASSUME NbrInv, NEW a \in Nbr, NEW reason, NEW gone \in SUBSET ds6_neighbors,
         Allocated(a, reason, gone)
  PROVE  /\ Neighbors(a, gone) \subseteq Nbr
         /\ IsFiniteSet(Neighbors(a, gone))
         /\ Cardinality(Neighbors(a, gone)) <= MaxNeighbors
<1> USE NbrTableAssumption
<1>1. /\ ds6_neighbors \subseteq Nbr /\ IsFiniteSet(ds6_neighbors)
      /\ Cardinality(ds6_neighbors) <= MaxNeighbors
  BY DEF NbrInv, TypeOK
<1>2. Cardinality(ds6_neighbors) \in Nat
  BY <1>1, FS_CardinalityType
<1>3. CASE gone = {}
  <2>1. Neighbors(a, gone) = ds6_neighbors \union {a}
    BY <1>3 DEF Neighbors
  <2>2. a \in ds6_neighbors \/ Cardinality(ds6_neighbors) # MaxNeighbors
    BY <1>3, AllocationKeepsUsed DEF Full
  <2>3. IsFiniteSet(ds6_neighbors \union {a})
    BY <1>1, FS_AddElement
  <2>4. Cardinality(ds6_neighbors \union {a}) <= MaxNeighbors
    <3>1. CASE a \in ds6_neighbors
      <4>1. ds6_neighbors \union {a} = ds6_neighbors
        BY <3>1
      <4> QED
        BY <1>1, <4>1
    <3>2. CASE a \notin ds6_neighbors
      <4>1. Cardinality(ds6_neighbors \union {a}) = Cardinality(ds6_neighbors) + 1
        BY <1>1, <3>2, FS_AddElement
      <4> QED
        BY <1>1, <1>2, <2>2, <3>2, <4>1
    <3> QED
      BY <3>1, <3>2
  <2>5. ds6_neighbors \union {a} \subseteq Nbr
    BY <1>1
  <2> QED
    BY <2>1, <2>3, <2>4, <2>5
<1>4. CASE gone # {}
  <2>1. PICK v \in ds6_neighbors : gone = {v}
    BY <1>4, AllocationKeepsUsed
  <2>2. /\ IsFiniteSet(ds6_neighbors \ {v})
        /\ Cardinality(ds6_neighbors \ {v}) = Cardinality(ds6_neighbors) - 1
    BY <1>1, FS_RemoveElement
  <2> DEFINE rest == ds6_neighbors \ {v}
  <2>3. rest \union {a} \subseteq Nbr
    BY <1>1
  <2>4. Neighbors(a, gone) = rest \union {a}
    BY <2>1 DEF Neighbors
  <2>5. IsFiniteSet(rest) /\ Cardinality(rest) = Cardinality(ds6_neighbors) - 1
    BY <2>2
  <2> HIDE DEF rest
  <2>6. /\ IsFiniteSet(rest \union {a})
        /\ \/ Cardinality(rest \union {a}) = Cardinality(rest)
           \/ Cardinality(rest \union {a}) = Cardinality(rest) + 1
    BY <2>5, FS_AddElement
  <2>7. Cardinality(rest \union {a}) <= MaxNeighbors
    BY <1>1, <1>2, <2>5, <2>6
  <2> QED
    BY <2>3, <2>4, <2>6, <2>7
<1> QED
  BY <1>3, <1>4

LEMMA AllocationMap ==
  ASSUME NbrInv, NEW a \in Nbr, NEW reason, NEW gone \in SUBSET ds6_neighbors,
         Allocated(a, reason, gone)
  PROVE  MapHolds(MapAfter(a, gone), Neighbors(a, gone))
<1> USE NbrTableAssumption
<1>1. /\ ds6_neighbors \subseteq Nbr /\ IsFiniteSet(ds6_neighbors)
      /\ Cardinality(ds6_neighbors) <= MaxNeighbors
      /\ MapHolds(ds6_lr_addrmap, ds6_neighbors)
  BY DEF NbrInv, TypeOK
<1>2. CASE a \in ds6_neighbors
  <2>1. gone = {}
    BY <1>2, AllocationKeepsUsed
  <2>2. Neighbors(a, gone) = ds6_neighbors
    BY <1>2, <2>1 DEF Neighbors
  <2> QED
    BY <1>1, <1>2, <2>2 DEF MapAfter
<1>3. CASE a \notin ds6_neighbors /\ gone = {}
  <2>1. Cardinality(ds6_neighbors) < MaxNeighbors
    <3>1. Cardinality(ds6_neighbors) \in Nat
      BY <1>1, FS_CardinalityType
    <3>2. Cardinality(ds6_neighbors) # MaxNeighbors
      BY <1>3, AllocationKeepsUsed DEF Full
    <3> QED
      BY <1>1, <3>1, <3>2
  <2>2. MapAfter(a, gone) = lladdr_map_add_lr(ds6_lr_addrmap, a)
    BY <1>3 DEF MapAfter
  <2>3. Neighbors(a, gone) = ds6_neighbors \union {a}
    BY <1>3 DEF Neighbors
  <2> QED
    BY <1>1, <1>3, <2>1, <2>2, <2>3, SlotAdded
<1>4. CASE gone # {}
  <2>1. a \notin ds6_neighbors /\ Cardinality(ds6_neighbors) = MaxNeighbors
    BY <1>4, AllocationKeepsUsed DEF Full
  <2>2. PICK v \in ds6_neighbors : gone = {v}
    BY <1>4, AllocationKeepsUsed
  <2>3. (CHOOSE w \in gone : TRUE) = v
    BY <2>2
  <2>4. MapAfter(a, gone) = lladdr_map_add_lr(lladdr_map_rm_lr(ds6_lr_addrmap, v), a)
    BY <1>4, <2>1, <2>3 DEF MapAfter
  <2>5. Neighbors(a, gone) = (ds6_neighbors \ {v}) \union {a}
    BY <2>2 DEF Neighbors
  <2> QED
    BY <1>1, <2>1, <2>4, <2>5, SlotHandedOver
<1> QED
  BY <1>2, <1>3, <1>4

LEMMA RefusalMap ==
  ASSUME NbrInv, NEW a, NEW reason, NotAllocated(a, reason)
  PROVE  MapAfter(a, {}) = ds6_lr_addrmap
BY NoSlotTaken DEF NbrInv, NotAllocated, Full, MapAfter

(***************************************************************************)
(* The children and the degree.                                            *)
(***************************************************************************)
LEMMA ChildStep ==
  ASSUME NbrInv, NEW a \in Nbr, NEW namesMe \in BOOLEAN,
         NEW nbrs \in SUBSET Nbr, NEW kids \in SUBSET rpl_children, kids \subseteq nbrs,
         ChildOfDio(a, namesMe, nbrs, kids)
  PROVE  /\ rpl_children' \subseteq nbrs
         /\ my_degree' \in 0..MaxDegree
         /\ Cardinality(rpl_children') <= my_degree'
<1> USE NbrTableAssumption
<1>1. /\ IsFiniteSet(rpl_children)
      /\ Cardinality(rpl_children) <= my_degree /\ my_degree \in 0..MaxDegree
  BY FS_Subset DEF NbrInv, TypeOK, TablesAgree, DegreeCoversChildren
<1>2. /\ IsFiniteSet(kids) /\ Cardinality(kids) <= Cardinality(rpl_children)
  BY <1>1, FS_Subset
<1>3. Cardinality(kids) \in Nat /\ Cardinality(rpl_children) \in Nat
  BY <1>1, <1>2, FS_CardinalityType
<1>4. CASE /\ namesMe /\ a \in nbrs \ kids
           /\ my_degree < MaxDegree
           /\ rpl_children' = kids \union {a}
           /\ my_degree' = my_degree + 1
  <2>1. Cardinality(kids \union {a}) = Cardinality(kids) + 1
    BY <1>2, <1>4, FS_AddElement
  <2>2. kids \union {a} \subseteq nbrs
    BY <1>4
  <2>3. /\ my_degree + 1 \in 0..MaxDegree
        /\ Cardinality(kids \union {a}) <= my_degree + 1
    BY <1>1, <1>2, <1>3, <1>4, <2>1
  <2> QED
    BY <1>4, <2>2, <2>3
<1>5. CASE /\ ~namesMe /\ a \in kids
           /\ rpl_children' = kids \ {a}
           /\ my_degree' = my_degree - 1
  <2>1. Cardinality(kids \ {a}) = Cardinality(kids) - 1 /\ IsFiniteSet(kids \ {a})
    BY <1>2, <1>5, FS_RemoveElement
  <2>2. Cardinality(kids \ {a}) \in Nat
    BY <2>1, FS_CardinalityType
  <2> QED
    BY <1>1, <1>2, <1>3, <1>5, <2>1, <2>2
<1>6. CASE rpl_children' = kids /\ my_degree' = my_degree
  BY <1>1, <1>2, <1>3, <1>6
<1> QED
  BY <1>4, <1>5, <1>6 DEF ChildOfDio

----------------------------------------------------------------------------
(***************************************************************************)
(* The invariant.                                                          *)
(***************************************************************************)
\* A conjunction of unchanged or shrunk tables: what NbrInv says of them.
LEMMA InvFacts ==
  ASSUME NbrInv
  PROVE  /\ ds6_neighbors \subseteq Nbr /\ IsFiniteSet(ds6_neighbors)
         /\ rpl_parents \subseteq ds6_neighbors /\ rpl_children \subseteq ds6_neighbors
         /\ nbr_routes = Nexthops /\ Nexthops \subseteq ds6_neighbors
         /\ nexthop \in [Dest -> Nbr \union {None}]
         /\ preferred \in Nbr \union {None}
         /\ preferred # None => preferred \in rpl_parents
         /\ locked = {preferred} \ {None}
         /\ None \notin ds6_neighbors
BY NbrTableAssumption DEF NbrInv, TypeOK, TablesAgree, PreferredLocked

LEMMA InitInv == Init => NbrInv
<1> SUFFICES ASSUME Init PROVE NbrInv
  OBVIOUS
<1> USE NbrTableAssumption DEF Init
<1>1. Cardinality({}) = 0 /\ IsFiniteSet({})
  BY FS_EmptySet
<1>2. Nexthops = {}
  BY DEF Nexthops
<1>3. ds6_lr_addrmap \in [Slots -> Slot]
  BY DEF Slot
<1>4. TypeOK
  <2>1. Cardinality(ds6_neighbors) <= MaxNeighbors /\ my_degree \in 0..MaxDegree
    BY <1>1
  <2>2. nexthop \in [Dest -> Nbr \union {None}] /\ joined \in BOOLEAN
    OBVIOUS
  <2> QED
    BY <1>3, <2>1, <2>2 DEF TypeOK
<1>5. MapHolds(ds6_lr_addrmap, ds6_neighbors)
  BY <1>3 DEF MapHolds
<1> QED
  BY <1>1, <1>2, <1>4, <1>5 DEF NbrInv, TablesAgree, PreferredLocked, DegreeCoversChildren

\* Moving the lock to a parent leaves exactly that one locked.
LEMMA PreferStep ==
  ASSUME NbrInv, NEW p \in rpl_parents' \union {None}, Prefer(p),
         rpl_parents' \subseteq Nbr
  PROVE  /\ PreferredLocked'
         /\ preferred' \in Nbr \union {None} /\ locked' \subseteq Nbr
<1>1. locked \ {preferred} = {}
  BY InvFacts
<1>2. locked' = {p} \ {None} /\ preferred' = p
  BY <1>1 DEF Prefer
<1> QED
  BY <1>2, NbrTableAssumption DEF PreferredLocked

LEMMA DioIgnoredStep ==
  ASSUME NbrInv, NEW a \in Nbr, NEW namesMe \in BOOLEAN, DioIgnored(a, namesMe)
  PROVE  NbrInv'
<1>1. /\ rpl_children' \subseteq ds6_neighbors /\ my_degree' \in 0..MaxDegree
      /\ Cardinality(rpl_children') <= my_degree'
  BY InvFacts, ChildStep DEF DioIgnored
<1> QED
  BY <1>1 DEF DioIgnored, NbrInv, TypeOK, TablesAgree, Nexthops, PreferredLocked,
              DegreeCoversChildren

LEMMA DioRefusedStep ==
  ASSUME NbrInv, NEW a \in Nbr, NEW namesMe \in BOOLEAN, DioRefused(a, namesMe)
  PROVE  NbrInv'
<1>1. /\ rpl_children' \subseteq ds6_neighbors /\ my_degree' \in 0..MaxDegree
      /\ Cardinality(rpl_children') <= my_degree'
  BY InvFacts, ChildStep DEF DioRefused
<1>2. ds6_lr_addrmap' = ds6_lr_addrmap
  BY RefusalMap DEF DioRefused
<1> QED
  BY <1>1, <1>2 DEF DioRefused, NbrInv, TypeOK, TablesAgree, Nexthops, PreferredLocked,
                    DegreeCoversChildren

LEMMA DioAcceptedStep ==
  ASSUME NbrInv, NEW a \in Nbr, NEW namesMe \in BOOLEAN, DioAccepted(a, namesMe)
  PROVE  NbrInv'
<1>1. PICK gone \in SUBSET ds6_neighbors :
       /\ Allocated(a, "DIO", gone)
       /\ ds6_neighbors' = Neighbors(a, gone)
       /\ rpl_parents' = (rpl_parents \ gone) \union {a}
       /\ nbr_routes' = nbr_routes \ gone
       /\ nexthop' = NexthopWithout(gone)
       /\ ds6_lr_addrmap' = MapAfter(a, gone)
       /\ ChildOfDio(a, namesMe, Neighbors(a, gone), rpl_children \ gone)
  BY DEF DioAccepted
<1>2. preferred \notin gone /\ gone \intersect Nexthops = {} /\ None \notin gone
  BY <1>1, AllocationKeepsUsed, InvFacts
<1>3. nexthop' = nexthop /\ nbr_routes' = nbr_routes
  BY <1>1, <1>2, AllocationRoutes
<1>4. /\ ds6_neighbors' \subseteq Nbr /\ IsFiniteSet(ds6_neighbors')
      /\ Cardinality(ds6_neighbors') <= MaxNeighbors
  BY <1>1, AllocationFits
<1>5. MapHolds(ds6_lr_addrmap', ds6_neighbors')
  BY <1>1, AllocationMap
<1>6. rpl_parents' \subseteq ds6_neighbors' /\ a \in rpl_parents'
  BY <1>1, InvFacts DEF Neighbors
<1>7. rpl_children \ gone \subseteq ds6_neighbors'
  BY <1>1, InvFacts DEF Neighbors
<1>8. /\ rpl_children' \subseteq ds6_neighbors' /\ my_degree' \in 0..MaxDegree
      /\ Cardinality(rpl_children') <= my_degree'
  BY <1>1, <1>4, <1>7, ChildStep
<1>9. nbr_routes' \subseteq ds6_neighbors' /\ nbr_routes' = Nexthops'
  BY <1>1, <1>2, <1>3, InvFacts DEF Neighbors, Nexthops
<1>10. PICK p \in rpl_parents' \union {None} : Prefer(p)
  BY <1>6 DEF DioAccepted
<1>11. PreferredLocked' /\ preferred' \in Nbr \union {None} /\ locked' \subseteq Nbr
  BY <1>4, <1>6, <1>10, PreferStep
<1>12. joined' \in BOOLEAN
  BY DEF DioAccepted
<1>13. nexthop' \in [Dest -> Nbr \union {None}]
  BY <1>3, InvFacts
<1>14. ds6_lr_addrmap' \in [Slots -> Slot]
  BY <1>5 DEF MapHolds
<1>15. TypeOK'
  BY <1>4, <1>6, <1>8, <1>9, <1>11, <1>12, <1>13, <1>14 DEF TypeOK
<1> QED
  BY <1>4, <1>5, <1>6, <1>8, <1>9, <1>11, <1>15
     DEF NbrInv, TablesAgree, DegreeCoversChildren

LEMMA GlobalRepairStep ==
  ASSUME NbrInv, NEW a \in Nbr, NEW namesMe \in BOOLEAN, GlobalRepair(a, namesMe)
  PROVE  NbrInv'
<1>1. /\ rpl_children' \subseteq ds6_neighbors /\ my_degree' \in 0..MaxDegree
      /\ Cardinality(rpl_children') <= my_degree'
  BY InvFacts, ChildStep DEF GlobalRepair
<1>2. rpl_parents' \subseteq ds6_neighbors /\ ds6_neighbors \subseteq Nbr
  BY InvFacts DEF GlobalRepair
<1>3. PreferredLocked' /\ preferred' \in Nbr \union {None} /\ locked' \subseteq Nbr
  BY <1>2, PreferStep DEF GlobalRepair
<1> QED
  BY <1>1, <1>2, <1>3 DEF GlobalRepair, NbrInv, TypeOK, TablesAgree, Nexthops,
                          DegreeCoversChildren

LEMMA ParentEventStep ==
  ASSUME NbrInv, ParentEvent
  PROVE  NbrInv'
<1>1. rpl_parents' = rpl_parents /\ rpl_parents \subseteq Nbr
  BY InvFacts DEF ParentEvent
<1>2. PreferredLocked' /\ preferred' \in Nbr \union {None} /\ locked' \subseteq Nbr
  BY <1>1, PreferStep DEF ParentEvent
<1> QED
  BY <1>1, <1>2 DEF ParentEvent, NbrInv, TypeOK, TablesAgree, Nexthops, DegreeCoversChildren

LEMMA DaoRefusedStep ==
  ASSUME NbrInv, NEW a \in Nbr, DaoRefused(a)
  PROVE  NbrInv' /\ ds6_neighbors' = ds6_neighbors
<1>1. ds6_lr_addrmap' = ds6_lr_addrmap
  BY RefusalMap DEF DaoRefused
<1> QED
  BY <1>1 DEF DaoRefused, tables, NbrInv, TypeOK, TablesAgree, Nexthops, PreferredLocked,
              DegreeCoversChildren

\* A DAO or DIS that is given room: what it does to the tables beside the
\* children and the routes.
LEMMA AllocationStep ==
  ASSUME NbrInv, NEW a \in Nbr, NEW reason, NEW gone \in SUBSET ds6_neighbors,
         Allocated(a, reason, gone),
         ds6_neighbors' = Neighbors(a, gone),
         rpl_parents' = rpl_parents \ gone,
         preferred' = PreferredWithout(gone),
         locked' = locked \ gone,
         ds6_lr_addrmap' = MapAfter(a, gone)
  PROVE  /\ ds6_neighbors' \subseteq Nbr /\ IsFiniteSet(ds6_neighbors')
         /\ Cardinality(ds6_neighbors') <= MaxNeighbors
         /\ MapHolds(ds6_lr_addrmap', ds6_neighbors')
         /\ rpl_parents' \subseteq ds6_neighbors'
         /\ rpl_children \ gone \subseteq ds6_neighbors'
         /\ Nexthops \subseteq ds6_neighbors' /\ a \in ds6_neighbors'
         /\ PreferredLocked'
         /\ preferred' \in Nbr \union {None} /\ locked' \subseteq Nbr
         /\ NexthopWithout(gone) = nexthop /\ nbr_routes \ gone = nbr_routes
<1>1. preferred \notin gone /\ gone \intersect Nexthops = {} /\ None \notin gone
  BY AllocationKeepsUsed, InvFacts
<1>2. /\ NexthopWithout(gone) = nexthop /\ nbr_routes \ gone = nbr_routes
      /\ preferred' = preferred /\ locked' = locked
  BY <1>1, AllocationRoutes
<1>3. /\ ds6_neighbors' \subseteq Nbr /\ IsFiniteSet(ds6_neighbors')
      /\ Cardinality(ds6_neighbors') <= MaxNeighbors
  BY AllocationFits
<1>4. MapHolds(ds6_lr_addrmap', ds6_neighbors')
  BY AllocationMap
<1>5. /\ rpl_parents' \subseteq ds6_neighbors'
      /\ rpl_children \ gone \subseteq ds6_neighbors'
      /\ Nexthops \subseteq ds6_neighbors' /\ a \in ds6_neighbors'
  BY <1>1, InvFacts DEF Neighbors
<1>6. PreferredLocked'
  BY <1>1, <1>2, InvFacts DEF PreferredLocked
<1>7. preferred' \in Nbr \union {None} /\ locked' \subseteq Nbr
  BY <1>2, InvFacts
<1> QED
  BY <1>2, <1>3, <1>4, <1>5, <1>6, <1>7

LEMMA DaoAcceptedStep ==
  ASSUME NbrInv, NEW a \in Nbr, NEW d \in Dest, DaoAccepted(a, d)
  PROVE  NbrInv'
<1> USE NbrTableAssumption
<1>1. PICK gone \in SUBSET ds6_neighbors :
       /\ Allocated(a, "DAO", gone)
       /\ ds6_neighbors' = Neighbors(a, gone)
       /\ rpl_parents' = rpl_parents \ gone
       /\ preferred' = PreferredWithout(gone)
       /\ locked' = locked \ gone
       /\ ds6_lr_addrmap' = MapAfter(a, gone)
       /\ \/ /\ RouteAdded(a, d, gone)
             /\ \/ /\ rpl_children' = rpl_children \ gone
                   /\ my_degree' = my_degree
                \/ /\ my_degree < MaxDegree /\ a \notin rpl_children
                   /\ rpl_children' = (rpl_children \ gone) \union {a}
                   /\ my_degree' = my_degree + 1
          \/ /\ rpl_children' = rpl_children \ gone
             /\ nexthop' = NexthopWithout(gone)
             /\ nbr_routes' = nbr_routes \ gone
             /\ my_degree' = my_degree
  BY DEF DaoAccepted
<1>2. /\ ds6_neighbors' \subseteq Nbr /\ IsFiniteSet(ds6_neighbors')
      /\ Cardinality(ds6_neighbors') <= MaxNeighbors
      /\ MapHolds(ds6_lr_addrmap', ds6_neighbors')
      /\ rpl_parents' \subseteq ds6_neighbors'
      /\ rpl_children \ gone \subseteq ds6_neighbors'
      /\ Nexthops \subseteq ds6_neighbors' /\ a \in ds6_neighbors'
      /\ PreferredLocked'
      /\ preferred' \in Nbr \union {None} /\ locked' \subseteq Nbr
      /\ NexthopWithout(gone) = nexthop /\ nbr_routes \ gone = nbr_routes
  BY <1>1, AllocationStep
<1>3. /\ IsFiniteSet(rpl_children) /\ IsFiniteSet(rpl_children \ gone)
      /\ Cardinality(rpl_children \ gone) <= Cardinality(rpl_children)
  BY InvFacts, FS_Subset
<1>4. /\ Cardinality(rpl_children) \in Nat /\ Cardinality(rpl_children \ gone) \in Nat
  BY <1>3, FS_CardinalityType
<1>5. my_degree \in 0..MaxDegree /\ Cardinality(rpl_children) <= my_degree
  BY DEF NbrInv, TypeOK, DegreeCoversChildren
<1>6. /\ rpl_children' \subseteq ds6_neighbors' /\ my_degree' \in 0..MaxDegree
      /\ Cardinality(rpl_children') <= my_degree'
  <2>1. CASE rpl_children' = rpl_children \ gone /\ my_degree' = my_degree
    BY <1>2, <1>3, <1>4, <1>5, <2>1
  <2>2. CASE /\ my_degree < MaxDegree /\ a \notin rpl_children
             /\ rpl_children' = (rpl_children \ gone) \union {a}
             /\ my_degree' = my_degree + 1
    <3> DEFINE kids == rpl_children \ gone
    <3>1. IsFiniteSet(kids) /\ a \notin kids
      BY <1>3, <2>2
    <3>2. Cardinality(kids) \in Nat /\ Cardinality(kids) <= my_degree
      BY <1>3, <1>4, <1>5
    <3>3. rpl_children' = kids \union {a} /\ kids \union {a} \subseteq ds6_neighbors'
      BY <1>2, <2>2
    <3> HIDE DEF kids
    <3>4. Cardinality(kids \union {a}) = Cardinality(kids) + 1
      BY <3>1, FS_AddElement
    <3>5. Cardinality(kids \union {a}) <= my_degree + 1 /\ my_degree + 1 \in 0..MaxDegree
      BY <1>5, <2>2, <3>2, <3>4
    <3> QED
      BY <2>2, <3>3, <3>5
  <2> QED
    BY <1>1, <2>1, <2>2
<1>7. /\ nexthop' \in [Dest -> Nbr \union {None}]
      /\ nbr_routes' = Nexthops' /\ Nexthops' \subseteq ds6_neighbors'
  <2>1. CASE RouteAdded(a, d, gone)
    <3>1. nexthop' = [nexthop EXCEPT ![d] = a]
      BY <1>2, <2>1 DEF RouteAdded
    <3>2. nexthop' \in [Dest -> Nbr \union {None}]
      BY <3>1, InvFacts
    <3>3. nbr_routes' = Nexthops'
      BY <2>1 DEF RouteAdded, Nexthops
    <3>4. \A e \in Dest : nexthop'[e] \in Nexthops \union {a, None}
      BY <3>1, InvFacts DEF Nexthops
    <3>5. Nexthops' \subseteq Nexthops \union {a}
      BY <3>4 DEF Nexthops
    <3> QED
      BY <1>2, <3>2, <3>3, <3>5
  <2>2. CASE nexthop' = NexthopWithout(gone) /\ nbr_routes' = nbr_routes \ gone
    BY <1>2, <2>2, InvFacts DEF Nexthops
  <2> QED
    BY <1>1, <2>1, <2>2
<1>8. joined' \in BOOLEAN
  BY DEF DaoAccepted, NbrInv, TypeOK
<1>9. ds6_lr_addrmap' \in [Slots -> Slot]
  BY <1>2 DEF MapHolds
<1>10. TypeOK'
  BY <1>2, <1>6, <1>7, <1>8, <1>9 DEF TypeOK
<1> QED
  BY <1>2, <1>6, <1>7, <1>10 DEF NbrInv, TablesAgree, DegreeCoversChildren

LEMMA RouteRemovedStep ==
  ASSUME NbrInv, NEW d \in Dest, RouteRemoved(d)
  PROVE  NbrInv'
<1>1. nexthop' \in [Dest -> Nbr \union {None}]
  BY InvFacts DEF RouteRemoved
<1>2. nbr_routes' = Nexthops'
  BY DEF RouteRemoved, Nexthops
<1>3. \A e \in Dest : nexthop'[e] \in Nexthops \union {None}
  BY InvFacts DEF RouteRemoved, Nexthops
<1>4. Nexthops' \subseteq ds6_neighbors
  BY <1>3, InvFacts DEF Nexthops
<1>5. nbr_routes' \subseteq Nbr
  BY <1>2, <1>4, InvFacts
<1> QED
  BY <1>1, <1>2, <1>4, <1>5 DEF RouteRemoved, NbrInv, TypeOK, TablesAgree, PreferredLocked,
                                DegreeCoversChildren

LEMMA DisInputStep ==
  ASSUME NbrInv, NEW a \in Nbr, DisInput(a)
  PROVE  NbrInv'
<1>1. joined' = joined /\ my_degree' = my_degree
  BY DEF DisInput
<1>2. CASE /\ NotAllocated(a, "DIS")
           /\ ds6_lr_addrmap' = MapAfter(a, {})
           /\ UNCHANGED <<tables, nexthop, preferred>>
  <2>1. ds6_lr_addrmap' = ds6_lr_addrmap
    BY <1>2, RefusalMap
  <2> QED
    BY <1>1, <1>2, <2>1 DEF tables, NbrInv, TypeOK, TablesAgree, Nexthops, PreferredLocked,
                            DegreeCoversChildren
<1>3. ASSUME NEW gone \in SUBSET ds6_neighbors,
             Allocated(a, "DIS", gone),
             ds6_neighbors' = Neighbors(a, gone),
             rpl_parents' = rpl_parents \ gone,
             rpl_children' = rpl_children \ gone,
             nbr_routes' = nbr_routes \ gone,
             nexthop' = NexthopWithout(gone),
             preferred' = PreferredWithout(gone),
             locked' = locked \ gone,
             ds6_lr_addrmap' = MapAfter(a, gone)
      PROVE  NbrInv'
  <2>1. /\ ds6_neighbors' \subseteq Nbr /\ IsFiniteSet(ds6_neighbors')
        /\ Cardinality(ds6_neighbors') <= MaxNeighbors
        /\ MapHolds(ds6_lr_addrmap', ds6_neighbors')
        /\ rpl_parents' \subseteq ds6_neighbors'
        /\ rpl_children' \subseteq ds6_neighbors'
        /\ Nexthops \subseteq ds6_neighbors'
        /\ PreferredLocked'
        /\ preferred' \in Nbr \union {None} /\ locked' \subseteq Nbr
        /\ nexthop' = nexthop /\ nbr_routes' = nbr_routes
    BY <1>3, AllocationStep
  <2>2. Nexthops' = Nexthops
    BY <2>1 DEF Nexthops
  <2>3. ds6_lr_addrmap' \in [Slots -> Slot]
    BY <2>1 DEF MapHolds
  <2>4. /\ IsFiniteSet(rpl_children)
        /\ Cardinality(rpl_children') <= Cardinality(rpl_children)
    BY <1>3, InvFacts, FS_Subset
  <2>5. Cardinality(rpl_children) \in Nat /\ Cardinality(rpl_children') \in Nat
    BY <1>3, <2>4, InvFacts, FS_Subset, FS_CardinalityType
  <2>6. my_degree \in 0..MaxDegree /\ Cardinality(rpl_children) <= my_degree
    BY NbrTableAssumption DEF NbrInv, TypeOK, DegreeCoversChildren
  <2>7. DegreeCoversChildren'
    BY <1>1, NbrTableAssumption, <2>4, <2>5, <2>6 DEF DegreeCoversChildren
  <2>8. TypeOK'
    BY <1>1, <2>1, <2>2, <2>3, InvFacts DEF TypeOK, NbrInv
  <2> QED
    BY <2>1, <2>2, <2>7, <2>8, InvFacts DEF NbrInv, TablesAgree
<1> QED
  BY <1>2, <1>3 DEF DisInput

LEMMA NextInv == NbrInv /\ [Next]_vars => NbrInv'
<1> SUFFICES ASSUME NbrInv, [Next]_vars PROVE NbrInv'
  OBVIOUS
<1>1. CASE UNCHANGED vars
  BY <1>1 DEF vars, tables, NbrInv, TypeOK, TablesAgree, Nexthops, PreferredLocked,
              DegreeCoversChildren
<1>2. ASSUME NEW a \in Nbr, NEW namesMe \in BOOLEAN,
             \/ DioIgnored(a, namesMe) \/ DioRefused(a, namesMe)
             \/ DioAccepted(a, namesMe) \/ GlobalRepair(a, namesMe)
      PROVE  NbrInv'
  BY <1>2, DioIgnoredStep, DioRefusedStep, DioAcceptedStep, GlobalRepairStep
<1>3. ASSUME NEW a \in Nbr, DaoRefused(a) \/ DisInput(a)
      PROVE  NbrInv'
  BY <1>3, DaoRefusedStep, DisInputStep
<1>4. ASSUME NEW a \in Nbr, NEW d \in Dest, DaoAccepted(a, d)
      PROVE  NbrInv'
  BY <1>4, DaoAcceptedStep
<1>5. ASSUME NEW d \in Dest, RouteRemoved(d)
      PROVE  NbrInv'
  BY <1>5, RouteRemovedStep
<1>6. CASE ParentEvent
  BY <1>6, ParentEventStep
<1> QED
  BY <1>1, <1>2, <1>3, <1>4, <1>5, <1>6 DEF Next

\* The inductive invariant holds in every state of the neighbour tables,
\* whatever DIOs, DAOs and DISs come and routes go.
THEOREM Invariance == Spec => []NbrInv
BY InitInv, NextInv, PTL DEF Spec

----------------------------------------------------------------------------
(***************************************************************************)
(* Results.                                                                *)
(***************************************************************************)
\* Every variable of the neighbour tables keeps its type, and the pool of
\* NBR_TABLE_MAX_NEIGHBORS entries is never exceeded.
THEOREM TypeCorrect == Spec => []TypeOK
BY Invariance, PTL DEF NbrInv

\* Parents, children and next hops are always neighbours, and exactly the
\* next hops hold a list of routes (nbr_table_allocate and its callbacks,
\* uip_ds6_route_add and uip_ds6_route_rm).
THEOREM TablesCorrect == Spec => []TablesAgree
BY Invariance, PTL DEF NbrInv

\* The preferred parent, and nothing else, is locked by rpl_parents
\* (rpl_set_preferred_parent).
THEOREM PreferredStaysLocked == Spec => []PreferredLocked
BY Invariance, PTL DEF NbrInv

\* my_degree is never lowered below the number of known children
\* (dio_input, dao_input).
THEOREM DegreeCorrect == Spec => []DegreeCoversChildren
BY Invariance, PTL DEF NbrInv

\* The slots of ds6_lr_addrmap in use are one for each neighbour
\* (lladdr_map_add_lr, lladdr_map_rm_lr).
THEOREM AddrMapCorrect == Spec => []AddrMapMatches
<1>1. NbrInv => AddrMapMatches
  <2> SUFFICES ASSUME NbrInv PROVE AddrMapMatches
    OBVIOUS
  <2>1. MapHolds(ds6_lr_addrmap, ds6_neighbors)
    BY DEF NbrInv
  <2>2. {ds6_lr_addrmap[i].lladdr : i \in UsedSlots} = ds6_neighbors
    BY <2>1 DEF MapHolds, UsedSlots
  <2>3. \A i, j \in UsedSlots :
          ds6_lr_addrmap[i].lladdr = ds6_lr_addrmap[j].lladdr => i = j
    BY <2>1 DEF MapHolds, UsedSlots
  <2> QED
    BY <2>2, <2>3 DEF AddrMapMatches
<1> QED
  BY <1>1, Invariance, PTL

\* No DIO, DAO or DIS makes the table give up the preferred parent or a next
\* hop (update_nbr and the find_removable functions of
\* rpl-nbr-policy.c, as nbr_table_allocate uses them).
THEOREM UsedNeighborsStay == Spec => UsedNeighborsKept
<1> DEFINE Kept == \A a \in ds6_neighbors \ ds6_neighbors' : a # preferred /\ a \notin Nexthops
<1>1. NbrInv /\ [Next]_vars => [Kept]_vars
  <2> SUFFICES ASSUME NbrInv, Next PROVE Kept
    BY DEF vars, tables
  <2>1. ASSUME NEW a \in Nbr, NEW reason, NEW gone \in SUBSET ds6_neighbors,
               Allocated(a, reason, gone), ds6_neighbors' = Neighbors(a, gone)
        PROVE  Kept
    BY <2>1, AllocationKeepsUsed DEF Neighbors
  <2>2. ASSUME ds6_neighbors' = ds6_neighbors
        PROVE  Kept
    BY <2>2
  <2> HIDE DEF Kept
  <2>3. ASSUME NEW a \in Nbr, NEW namesMe \in BOOLEAN,
               \/ DioIgnored(a, namesMe) \/ DioRefused(a, namesMe) \/ GlobalRepair(a, namesMe)
        PROVE  Kept
    BY <2>2, <2>3 DEF DioIgnored, DioRefused, GlobalRepair
  <2>4. ASSUME NEW a \in Nbr, NEW namesMe \in BOOLEAN, DioAccepted(a, namesMe)
        PROVE  Kept
    BY <2>1, <2>4 DEF DioAccepted
  <2>5. ASSUME NEW a \in Nbr, DaoRefused(a)
        PROVE  Kept
    BY <2>2, <2>5, DaoRefusedStep
  <2>6. ASSUME NEW a \in Nbr, DisInput(a)
        PROVE  Kept
    BY <2>1, <2>2, <2>6 DEF DisInput, tables
  <2>7. ASSUME NEW a \in Nbr, NEW d \in Dest, DaoAccepted(a, d)
        PROVE  Kept
    BY <2>1, <2>7 DEF DaoAccepted
  <2>8. CASE (\E d \in Dest : RouteRemoved(d)) \/ ParentEvent
    BY <2>2, <2>8 DEF RouteRemoved, ParentEvent
  <2> QED
    BY <2>3, <2>4, <2>5, <2>6, <2>7, <2>8 DEF Next
<1>2. Spec => []NbrInv
  BY Invariance
<1> QED
  BY <1>1, <1>2, PTL DEF Spec, UsedNeighborsKept
=============================================================================
