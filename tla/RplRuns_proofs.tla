---------------------------- MODULE RplRuns_proofs ----------------------------
(***************************************************************************)
(* Whole runs of Rpl, for every network: the loop of rpl_recalculate_ranks *)
(* over any number of marked parents, and with it the type invariant and   *)
(* the two invariants of the rank.                                         *)
(***************************************************************************)
EXTENDS Rpl_proofs, FiniteSetTheorems, WellFoundedInduction

----------------------------------------------------------------------------
(***************************************************************************)
(* Induction over a finite set, with the sets it holds for collected in G: *)
(* a smallest subset outside G cannot exist.                               *)
(***************************************************************************)
LEMMA RemoveOneInduction ==
  ASSUME NEW U, IsFiniteSet(U), NEW G, {} \in G,
         \A S \in SUBSET U : S # {} /\ (\A p \in S : S \ {p} \in G) => S \in G
  PROVE  SUBSET U \subseteq G
<1> DEFINE R == StrictSubsetOrdering(U)
           T == (SUBSET U) \ G
<1>1. IsWellFoundedOn(R, SUBSET U)
  BY FS_FiniteSubsetsOfFinite, FS_StrictSubsetOrderingWellFounded
<1>2. SUFFICES ASSUME T # {}
               PROVE  FALSE
  OBVIOUS
<1>3. PICK S \in T : \A V \in T : <<V, S>> \notin R
  <2>1. T \subseteq SUBSET U
    OBVIOUS
  <2> HIDE DEF R, T
  <2> QED
    BY <1>1, <1>2, <2>1, WFMin
<1>4. ASSUME NEW p \in S
      PROVE  S \ {p} \in G
  <2>1. S \ {p} \in SUBSET U /\ S \ {p} # S /\ S \ {p} \subseteq S
    BY <1>4
  <2>2. <<S \ {p}, S>> \in R
    BY <2>1 DEF StrictSubsetOrdering
  <2> QED
    BY <1>3, <2>1, <2>2
<1>5. S \in SUBSET U /\ S \notin G
  BY <1>3
<1>6. S # {} /\ \A p \in S : S \ {p} \in G
  BY <1>4, <1>5
<1> QED
  BY <1>5, <1>6

----------------------------------------------------------------------------
(***************************************************************************)
(* The loop of rpl_recalculate_ranks.  The function that Recalculated      *)
(* defines by recursion is a solution of its equation, if that has one.    *)
(***************************************************************************)
Pass(d, f) ==
  [S \in SUBSET d.updated |->
     IF S = {} THEN {[d EXCEPT !.updated = {}]}
     ELSE UNION {UNION {rpl_process_parent_event(e, p) : e \in f[S \ {p}]} : p \in S}]

After(d) == CHOOSE f : f = Pass(d, f)

LEMMA RecalculatedIsAfter ==
  ASSUME NEW d
  PROVE  Recalculated(d) = After(d)[d.updated]
  BY DEF Recalculated, After, Pass

LEMMA PassMember ==
  ASSUME NEW d, NEW f, NEW S \in SUBSET d.updated, NEW z
  PROVE  z \in Pass(d, f)[S] <=>
           \/ S = {} /\ z = [d EXCEPT !.updated = {}]
           \/ \E p \in S : \E e \in f[S \ {p}] : z \in rpl_process_parent_event(e, p)
<1>1. CASE S = {}
  BY <1>1 DEF Pass
<1>2. CASE S # {}
  <2> DEFINE From(p) == UNION {rpl_process_parent_event(e, p) : e \in f[S \ {p}]}
  <2>1. Pass(d, f)[S] = UNION {From(p) : p \in S}
    BY <1>2 DEF Pass
  <2>2. \A p : z \in From(p) <=> \E e \in f[S \ {p}] : z \in rpl_process_parent_event(e, p)
    OBVIOUS
  <2> HIDE DEF From
  <2>3. z \in UNION {From(p) : p \in S} <=> \E p \in S : z \in From(p)
    OBVIOUS
  <2> QED
    BY <1>2, <2>1, <2>2, <2>3
<1> QED
  BY <1>1, <1>2

LEMMA PassIsMonotone ==
  ASSUME NEW d, NEW f, NEW g, \A S \in SUBSET d.updated : f[S] \subseteq g[S]
  PROVE  \A S \in SUBSET d.updated : Pass(d, f)[S] \subseteq Pass(d, g)[S]
<1> SUFFICES ASSUME NEW S \in SUBSET d.updated, NEW z \in Pass(d, f)[S]
             PROVE  z \in Pass(d, g)[S]
  OBVIOUS
<1>1. \A p \in S : S \ {p} \in SUBSET d.updated
  OBVIOUS
<1>2. \/ S = {} /\ z = [d EXCEPT !.updated = {}]
      \/ \E p \in S : \E e \in f[S \ {p}] : z \in rpl_process_parent_event(e, p)
  BY PassMember
<1>3. \/ S = {} /\ z = [d EXCEPT !.updated = {}]
      \/ \E p \in S : \E e \in g[S \ {p}] : z \in rpl_process_parent_event(e, p)
  BY <1>1, <1>2
<1> QED
  BY <1>3, PassMember

\* The equation has a solution within any bound G that one round of the
\* loop respects: the smallest of all such bounds.
LEMMA PassHasSolution ==
  ASSUME NEW d, NEW G, \A S \in SUBSET d.updated : Pass(d, G)[S] \subseteq G[S]
  PROVE  \E f : f = Pass(d, f)
<1> DEFINE P == SUBSET d.updated
           Z == UNION {G[S] : S \in P}
           Bound(H) == \A S \in P : Pass(d, H)[S] \subseteq H[S]
           L == [S \in P |-> {z \in G[S] : \A H \in [P -> SUBSET Z] : Bound(H) => z \in H[S]}]
<1>1. \A S \in P : L[S] \subseteq G[S]
  OBVIOUS
<1>2. \A S \in P : G[S] \subseteq Z
  OBVIOUS
<1>3. ASSUME NEW H \in [P -> SUBSET Z], Bound(H)
      PROVE  \A S \in P : L[S] \subseteq H[S]
  BY <1>3
<1>4. Bound(L)
  <2> SUFFICES ASSUME NEW S \in P, NEW z \in Pass(d, L)[S]
               PROVE  z \in L[S]
    OBVIOUS
  <2>1. z \in G[S]
    <3> HIDE DEF L
    <3> QED
      BY <1>1, PassIsMonotone
  <2>2. ASSUME NEW H \in [P -> SUBSET Z], Bound(H)
        PROVE  z \in H[S]
    <3>1. \A V \in P : L[V] \subseteq H[V]
      BY <1>3, <2>2
    <3> HIDE DEF L
    <3> QED
      BY <2>2, <3>1, PassIsMonotone
  <2> QED
    BY <2>1, <2>2
<1>5. Pass(d, L) \in [P -> SUBSET Z]
  <2>1. \A S \in P : Pass(d, L)[S] \subseteq Z
    <3> HIDE DEF L, Z
    <3> QED
      BY <1>1, <1>2, <1>4
  <2>2. Pass(d, L) = [S \in P |-> Pass(d, L)[S]]
    BY DEF Pass
  <2> HIDE DEF L, Z
  <2> QED
    BY <2>1, <2>2
<1>6. Bound(Pass(d, L))
  <2> HIDE DEF L
  <2> QED
    BY <1>4, PassIsMonotone
<1>7. \A S \in P : L[S] \subseteq Pass(d, L)[S]
  BY <1>3, <1>5, <1>6
<1>8. L = Pass(d, L)
  <2>1. \A S \in P : L[S] = Pass(d, L)[S]
    <3> HIDE DEF L
    <3> QED
      BY <1>4, <1>7
  <2>2. Pass(d, L) = [S \in P |-> Pass(d, L)[S]]
    BY DEF Pass
  <2>3. L = [S \in P |-> L[S]]
    OBVIOUS
  <2> HIDE DEF L
  <2> QED
    BY <2>1, <2>2, <2>3
<1> QED
  BY <1>8

\* What the loop of rpl_recalculate_ranks does to a node, for any number of
\* marked parents in any order: G[S] being what holds once those in S have
\* been processed, one round leads from G[S \ {p}] to G[S].
THEOREM LoopKeeps ==
  ASSUME NEW d, IsFiniteSet(d.updated), NEW G,
         [d EXCEPT !.updated = {}] \in G[{}],
         \A S \in SUBSET d.updated : \A p \in S : \A e \in G[S \ {p}] :
           rpl_process_parent_event(e, p) \subseteq G[S]
  PROVE  Recalculated(d) \subseteq G[d.updated]
<1> DEFINE f == After(d)
           Good == {S \in SUBSET d.updated : f[S] \subseteq G[S]}
<1>1. \A S \in SUBSET d.updated : Pass(d, G)[S] \subseteq G[S]
  <2> SUFFICES ASSUME NEW S \in SUBSET d.updated, NEW z \in Pass(d, G)[S]
               PROVE  z \in G[S]
    OBVIOUS
  <2>1. \/ S = {} /\ z = [d EXCEPT !.updated = {}]
        \/ \E p \in S : \E e \in G[S \ {p}] : z \in rpl_process_parent_event(e, p)
    BY PassMember
  <2> QED
    BY <2>1
<1>2. f = Pass(d, f)
  <2>1. \E g : g = Pass(d, g)
    BY <1>1, PassHasSolution
  <2> QED
    BY <2>1 DEF After
<1> HIDE DEF f
<1>3. {} \in Good
  <2>1. {} \in SUBSET d.updated
    OBVIOUS
  <2>2. \A z \in f[{}] : z = [d EXCEPT !.updated = {}]
    BY <1>2, <2>1, PassMember
  <2> QED
    BY <2>1, <2>2
<1>4. ASSUME NEW S \in SUBSET d.updated, S # {}, \A p \in S : S \ {p} \in Good
      PROVE  S \in Good
  <2>1. ASSUME NEW z \in f[S]
        PROVE  z \in G[S]
    <3>1. PICK p \in S : \E e \in f[S \ {p}] : z \in rpl_process_parent_event(e, p)
      BY <1>2, <1>4, <2>1, PassMember
    <3> QED
      BY <1>4, <3>1
  <2> QED
    BY <2>1
<1>5. d.updated \in Good
  <2>1. SUBSET d.updated \subseteq Good
    <3>1. \A S \in SUBSET d.updated : S # {} /\ (\A p \in S : S \ {p} \in Good) => S \in Good
      BY <1>4
    <3> HIDE DEF Good
    <3> QED
      BY <1>3, <3>1, RemoveOneInduction
  <2> QED
    BY <2>1
<1> QED
  BY <1>5, RecalculatedIsAfter DEF f

----------------------------------------------------------------------------
(***************************************************************************)
(* The tables.  With two radios as well, the preferred parent and the      *)
(* marked ones are in rpl_parents, and only finitely many are marked.      *)
(***************************************************************************)
TableKept(d) ==
  /\ d \in NodeRecord
  /\ d.preferred # None => d.preferred \in Parents(d)
  /\ d.updated \subseteq Parents(d) /\ IsFiniteSet(d.updated)

LEMMA FreshTable ==
  ASSUME NEW n \in Node
  PROVE  TableKept(Fresh(n))
<1>1. Fresh(n).updated = {} /\ Fresh(n).preferred = None
  BY DEF Fresh
<1> QED
  BY <1>1, FreshIsRanked, FS_EmptySet DEF Ranked, TableKept

LEMMA EventKeepsTable ==
  ASSUME NEW d, TableKept(d), NEW p \in Parents(d), NEW e \in rpl_process_parent_event(d, p)
  PROVE  TableKept(e) /\ SameDag(d, e)
<1>1. /\ e \in NodeRecord /\ SameDag(d, e)
      /\ e = d \/ Attached(e)
  BY EventRenewsRank DEF TableKept
<1> QED
  BY <1>1 DEF TableKept, SameDag, Attached, Parents

LEMMA SelectKeepsTable ==
  ASSUME NEW d, TableKept(d), NEW o \in rpl_select_dag(d)
  PROVE  TableKept(o.dag)
<1>1. o.dag \in NodeRecord /\ SameDag(d, o.dag) /\ Attached(o.dag)
  BY SelectKeepsAttached DEF TableKept
<1> QED
  BY <1>1 DEF TableKept, SameDag, Attached, Parents

\* Parents are entered and marked by the handlers; none but a global repair
\* removes one, and it removes the marks as well.
LEMMA MarkingKeepsTable ==
  ASSUME NEW d, TableKept(d), NEW p \in Addr, NEW parents \in [Addr -> Rank \union {Absent}],
         \A q \in Parents(d) \union {p} : parents[q] # Absent
  PROVE  TableKept([d EXCEPT !.parents = parents, !.updated = @ \union {p}])
<1> DEFINE updated == d.updated \union {p}
           e == [d EXCEPT !.parents = parents, !.updated = updated]
<1>1. updated \subseteq Parents(d) \union {p} /\ Parents(d) \subseteq Addr /\ IsFiniteSet(updated)
  BY FS_AddElement DEF TableKept, Parents
<1> HIDE DEF updated
<1>2. e \in NodeRecord
  BY <1>1 DEF TableKept, NodeRecord
<1>3. e.parents = parents /\ e.updated = updated /\ e.preferred = d.preferred
  BY DEF TableKept, NodeRecord
<1> HIDE DEF e
<1>4. Parents(d) \union {p} \subseteq Parents(e)
  BY <1>1, <1>3 DEF Parents
<1>5. TableKept(e)
  BY <1>1, <1>2, <1>3, <1>4 DEF TableKept
<1>6. e = [d EXCEPT !.parents = parents, !.updated = @ \union {p}]
  BY DEF TableKept, NodeRecord, e, updated
<1> QED
  BY <1>5, <1>6

\* rpl_recalculate_ranks, for any number of marked parents.
LEMMA LoopKeepsTable ==
  ASSUME NEW d, TableKept(d), NEW e \in Recalculated(d)
  PROVE  /\ TableKept(e) /\ e.updated = {}
         /\ SameDag([d EXCEPT !.updated = {}], e)
<1> DEFINE none == [d EXCEPT !.updated = {}]
           X == {x \in NodeRecord : TableKept(x) /\ SameDag(none, x)}
           G == [S \in SUBSET d.updated |-> X]
<1>1. none \in NodeRecord /\ none.parents = d.parents /\ none.preferred = d.preferred
      /\ none.updated = {}
  BY DEF TableKept, NodeRecord
<1> HIDE DEF none
<1>2. none \in G[{}]
  BY <1>1, FS_EmptySet DEF TableKept, Parents, SameDag
<1>3. ASSUME NEW S \in SUBSET d.updated, NEW p \in S, NEW x \in G[S \ {p}]
      PROVE  rpl_process_parent_event(x, p) \subseteq G[S]
  <2>1. S \ {p} \in SUBSET d.updated
    OBVIOUS
  <2>2. x \in NodeRecord /\ TableKept(x) /\ SameDag(none, x)
    BY <1>3, <2>1
  <2>3. p \in Parents(x)
    BY <1>1, <2>2 DEF TableKept, SameDag, Parents
  <2>4. ASSUME NEW y \in rpl_process_parent_event(x, p)
        PROVE  y \in X
    <3>1. TableKept(y) /\ SameDag(x, y)
      BY <2>2, <2>3, EventKeepsTable
    <3>2. y \in NodeRecord
      BY <3>1 DEF TableKept
    <3>3. SameDag(none, y)
      BY <2>2, <3>1 DEF SameDag
    <3> QED
      BY <3>1, <3>2, <3>3
  <2> QED
    BY <2>4
<1>4. Recalculated(d) \subseteq G[d.updated]
  <2>1. IsFiniteSet(d.updated)
    BY DEF TableKept
  <2>2. none = [d EXCEPT !.updated = {}]
    BY DEF none
  <2> HIDE DEF G
  <2> QED
    BY <1>2, <1>3, <2>1, <2>2, LoopKeeps
<1>5. TableKept(e) /\ SameDag(none, e)
  BY <1>4
<1> QED
  BY <1>1, <1>5 DEF SameDag, none

\* rpl_process_dio, whether it joins, repairs, drops the DIO or takes it as
\* that of a parent.
LEMMA DioKeepsTable ==
  ASSUME NEW d, TableKept(d), NEW p \in Addr, NEW m \in DioRecord,
         NEW e \in rpl_process_dio(d, p, m)
  PROVE  TableKept(e)
<1> DEFINE r == calculate_rank(m.rank)
<1>1. /\ m.rank \in Rank /\ m.version \in Version /\ r \in Rank
      /\ INFINITE_RANK \in Rank /\ p # None /\ Absent \notin Rank
  BY RankOfParent, RplAssumption DEF DioRecord, Rank, Absent
<1>2. d \in NodeRecord
  BY DEF TableKept
<1>3. CASE e = Joined(d, p, m)
  <2>1. e \in NodeRecord
    BY <1>1, <1>2, <1>3 DEF Joined, OnlyParent, NodeRecord
  <2>2. e.preferred = p /\ e.parents[p] = m.rank /\ e.updated = {}
    BY <1>2, <1>3 DEF Joined, OnlyParent, NodeRecord
  <2> QED
    BY <1>1, <2>1, <2>2, FS_EmptySet DEF TableKept, Parents
<1>4. CASE e \in global_repair(d, p, m)
  <2> DEFINE none == [d EXCEPT !.version = m.version, !.rank = INFINITE_RANK,
                               !.min_rank = INFINITE_RANK, !.preferred = None,
                               !.parents = [q \in Addr |-> Absent], !.updated = {}]
             added == [none EXCEPT !.parents[p] = m.rank, !.rank = r, !.min_rank = r]
  <2>1. none \in NodeRecord /\ none.preferred = None /\ none.updated = {}
    BY <1>1, <1>2 DEF NodeRecord
  <2>2. /\ added \in NodeRecord /\ added.preferred = None /\ added.updated = {}
        /\ added.parents[p] = m.rank
    BY <1>1, <2>1 DEF NodeRecord
  <2>3. e \in rpl_process_parent_event(added, p) \/ e = none
    BY <1>4 DEF global_repair
  <2> HIDE DEF none, added
  <2>4. TableKept(none)
    BY <2>1, FS_EmptySet DEF TableKept
  <2>5. TableKept(added) /\ p \in Parents(added)
    BY <1>1, <2>2, FS_EmptySet DEF TableKept, Parents
  <2> QED
    BY <2>3, <2>4, <2>5, EventKeepsTable
<1>5. CASE e \in rpl_process_parent_event(Heard(d, p, m), p)
  <2> DEFINE parents == [q \in Addr |->
                           IF q = p \/ (q \in Sibling(p) /\ d.parents[q] # Absent)
                           THEN m.rank ELSE d.parents[q]]
             h == [d EXCEPT !.parents = parents, !.updated = @ \union {p}]
  <2>1. Heard(d, p, m) = h
    BY <1>2 DEF Heard, NodeRecord
  <2>2. /\ parents \in [Addr -> Rank \union {Absent}]
        /\ \A q \in Parents(d) \union {p} : parents[q] # Absent
    BY <1>1, <1>2 DEF NodeRecord, Parents
  <2>3. h.parents = parents
    BY <1>2 DEF NodeRecord
  <2> HIDE DEF parents
  <2>4. TableKept(h)
    BY <2>2, MarkingKeepsTable
  <2>5. p \in Parents(h)
    BY <2>2, <2>3 DEF Parents
  <2> HIDE DEF h
  <2> QED
    BY <1>5, <2>1, <2>4, <2>5, EventKeepsTable
<1>6. CASE e = d
  BY <1>6
<1> QED
  BY <1>3, <1>4, <1>5, <1>6 DEF rpl_process_dio

----------------------------------------------------------------------------
(***************************************************************************)
(* The type invariant, made inductive by what holds of the tables.         *)
(***************************************************************************)
TablesKept == \A n \in Node : TableKept(node[n])

TypeInv == TypeOK /\ TablesKept

LEMMA OneTable ==
  ASSUME TypeInv, NEW n \in Node, NEW d, TableKept(d), node' = [node EXCEPT ![n] = d]
  PROVE  node' \in [Node -> NodeRecord] /\ TablesKept'
<1>1. d \in NodeRecord
  BY DEF TableKept
<1>2. \A k \in Node : node'[k] = IF k = n THEN d ELSE node[k]
  BY DEF TypeInv, TypeOK
<1> QED
  BY <1>1, <1>2 DEF TypeInv, TypeOK, TablesKept

LEMMA TypeInit == Init => TypeInv
<1>1. LOLLIPOP_INIT \in Version /\ INFINITE_RANK \in Rank /\ 0 \in 0..MaxFaults
  BY RplAssumption DEF LOLLIPOP_INIT, Version, Rank
<1>2. NoDio \in DioRecord
  BY <1>1 DEF NoDio, DioRecord
<1>3. \A n \in Node : TableKept(Fresh(n)) /\ Fresh(n) \in NodeRecord
  BY FreshTable DEF TableKept
<1> QED
  BY <1>1, <1>2, <1>3 DEF Init, TypeInv, TypeOK, TablesKept

\* The nodes: every handler keeps their tables.
LEMMA NodesStep ==
  ASSUME TypeInv, Next
  PROVE  node' \in [Node -> NodeRecord] /\ TablesKept'
<1> DEFINE Kept == node' \in [Node -> NodeRecord] /\ TablesKept'
<1>1. \A n \in Node : TableKept(node[n]) /\ node[n] \in NodeRecord
  BY DEF TypeInv, TypeOK, TablesKept
<1>2. Client \subseteq Node /\ Root \in Node
  BY RplAssumption DEF Client
<1>3. INFINITE_RANK \in Rank /\ Absent \notin Rank
  BY RplAssumption DEF Rank, Absent
<1>4. ASSUME node' = node
      PROVE  Kept
  BY <1>4 DEF TypeInv, TypeOK, TablesKept
<1>5. ASSUME NEW n \in Node, NEW p \in Addr, DioInput(p, n)
      PROVE  Kept
  <2>1. dio[p] \in DioRecord
    BY DEF TypeInv, TypeOK
  <2>2. CASE n = Root
    <3> DEFINE v == LOLLIPOP_INCREMENT(dio[p].version)
               d == [node[n] EXCEPT !.version = v]
    <3>1. node' = [node EXCEPT ![n] = d] \/ node' = [node EXCEPT ![n] = node[n]]
      BY <1>5, <2>2 DEF DioInput, RootProcessesDio
    <3>2. v \in Version
      BY <2>1, NextVersionIsNewer DEF DioRecord
    <3> HIDE DEF v
    <3>3. TableKept(d)
      BY <1>1, <3>2 DEF TableKept, NodeRecord, Parents
    <3> HIDE DEF d
    <3> QED
      BY <1>1, <3>1, <3>3, OneTable
  <2>3. CASE n # Root
    <3>1. PICK d \in rpl_process_dio(node[n], p, dio[p]) : node' = [node EXCEPT ![n] = d]
      BY <1>5, <2>3 DEF DioInput
    <3> QED
      BY <1>1, <2>1, <3>1, DioKeepsTable, OneTable
  <2> QED
    BY <2>2, <2>3
<1>6. ASSUME NEW n \in Node, NEW p \in Addr, DaoInput(p, n)
      PROVE  Kept
  <2>1. CASE ~LoopDetected(node[n], p)
    BY <1>4, <1>6, <2>1 DEF DaoInput
  <2>2. CASE LoopDetected(node[n], p)
    <3> DEFINE parents == [node[n].parents EXCEPT ![p] = INFINITE_RANK]
               d == [node[n] EXCEPT !.parents = parents, !.updated = @ \union {p}]
    <3>1. node' = [node EXCEPT ![n] = d]
      BY <1>1, <1>6, <2>2 DEF DaoInput, TypeInv, TypeOK, NodeRecord
    <3>2. /\ parents \in [Addr -> Rank \union {Absent}]
          /\ \A q \in Parents(node[n]) \union {p} : parents[q] # Absent
      BY <1>1, <1>3 DEF NodeRecord, Parents
    <3> HIDE DEF parents
    <3>3. TableKept(d)
      BY <1>1, <3>2, MarkingKeepsTable
    <3> QED
      BY <3>1, <3>3, OneTable
  <2> QED
    BY <2>1, <2>2
<1>7. ASSUME NEW n \in Client, NEW p \in Addr, LinkCallback(n, p)
      PROVE  Kept
  <2> DEFINE parents == node[n].parents
             d == [node[n] EXCEPT !.parents = parents, !.updated = @ \union {p}]
  <2>1. node[n] \in NodeRecord /\ n \in Node
    BY <1>1, <1>2
  <2>2. node' = [node EXCEPT ![n] = d]
    BY <1>7, <2>1 DEF LinkCallback, TypeInv, TypeOK, NodeRecord
  <2>3. /\ parents \in [Addr -> Rank \union {Absent}]
        /\ \A q \in Parents(node[n]) \union {p} : parents[q] # Absent
    BY <1>7, <2>1 DEF NodeRecord, Parents, LinkCallback
  <2> HIDE DEF parents
  <2>4. TableKept(d)
    BY <1>1, <2>1, <2>3, MarkingKeepsTable
  <2> QED
    BY <2>1, <2>2, <2>4, OneTable
<1>8. ASSUME NEW n \in Client, NEW p \in Addr, RankErrorSignalled(n, p)
      PROVE  Kept
  <2> DEFINE r == node[p[1]].rank
             d == [node[n] EXCEPT !.parents[p] = r]
  <2>1. PICK o \in rpl_select_dag(d) : node' = [node EXCEPT ![n] = o.dag]
    BY <1>8 DEF RankErrorSignalled
  <2>2. r \in Rank
    <3>1. p[1] \in Node
      BY DEF Addr
    <3> QED
      BY <1>1, <3>1 DEF NodeRecord
  <2>3. TableKept(node[n]) /\ n \in Node
    BY <1>1, <1>2
  <2>4. /\ d \in NodeRecord /\ d.preferred = node[n].preferred /\ d.updated = node[n].updated
        /\ \A q \in Addr : d.parents[q] = IF q = p THEN r ELSE node[n].parents[q]
    BY <2>2, <2>3 DEF TableKept, NodeRecord
  <2> HIDE DEF d
  <2>5. Parents(node[n]) \subseteq Parents(d)
    BY <1>3, <2>2, <2>4 DEF Parents
  <2>6. TableKept(d)
    BY <2>3, <2>4, <2>5 DEF TableKept
  <2> QED
    BY <2>1, <2>3, <2>6, SelectKeepsTable, OneTable
<1>9. ASSUME NEW n \in Client, RecalculateRanks(n)
      PROVE  Kept
  BY <1>1, <1>2, <1>9, LoopKeepsTable, OneTable DEF RecalculateRanks
<1>10. ASSUME NEW n \in Client, FirstLoadUpdate(n)
       PROVE  Kept
  <2> DEFINE d == [node[n] EXCEPT !.init_phase = FALSE]
  <2>1. node' = [node EXCEPT ![n] = d] /\ TableKept(node[n]) /\ n \in Node
    BY <1>1, <1>2, <1>10 DEF FirstLoadUpdate, TypeInv, TypeOK
  <2>2. TableKept(d)
    BY <2>1 DEF TableKept, NodeRecord, Parents
  <2> QED
    BY <2>1, <2>2, OneTable
<1>11. ASSUME RepairRoot
       PROVE  Kept
  <2> DEFINE v == LOLLIPOP_INCREMENT(node[Root].version)
             d == [node[Root] EXCEPT !.version = v]
  <2>1. node' = [node EXCEPT ![Root] = d]
    BY <1>2, <1>11 DEF RepairRoot, TypeInv, TypeOK
  <2>2. v \in Version
    BY <1>1, <1>2, NextVersionIsNewer DEF NodeRecord
  <2> HIDE DEF v
  <2>3. TableKept(d)
    BY <1>1, <1>2, <2>2 DEF TableKept, NodeRecord, Parents
  <2> QED
    BY <1>2, <2>1, <2>3, OneTable
<1>12. ASSUME NEW n \in Node, Restart(n)
       PROVE  Kept
  BY <1>12, FreshTable, OneTable DEF Restart
<1> QED
  BY <1>4, <1>5, <1>6, <1>7, <1>8, <1>9, <1>10, <1>11, <1>12 DEF Next, SendDio, SendDao

\* What is on the way, and the count of faults.
LEMMA ChannelsStep ==
  ASSUME TypeInv, Next
  PROVE  dio' \in [Addr -> DioRecord] /\ daos' \subseteq Addr \X Node /\ faults' \in 0..MaxFaults
<1> DEFINE Typed == /\ dio' \in [Addr -> DioRecord]
                    /\ daos' \subseteq Addr \X Node /\ faults' \in 0..MaxFaults
<1>1. /\ node \in [Node -> NodeRecord] /\ dio \in [Addr -> DioRecord]
      /\ daos \subseteq Addr \X Node /\ faults \in 0..MaxFaults
      /\ Client \subseteq Node
  BY DEF TypeInv, TypeOK, Client
<1>2. LOLLIPOP_INIT \in Version /\ INFINITE_RANK \in Rank
  BY RplAssumption DEF LOLLIPOP_INIT, Version, Rank
<1>3. ASSUME NEW n \in Node, NEW r \in Radio, SendDio(n, r)
      PROVE  Typed
  <2> DEFINE m == [version |-> node[n].version, rank |-> node[n].rank,
                   to |-> {k \in Node : <<n, r, k>> \in Link}]
  <2>1. dio' = [dio EXCEPT ![<<n, r>>] = m] /\ daos' = daos /\ faults' = faults
    BY <1>3 DEF SendDio
  <2>2. m \in DioRecord
    BY <1>1 DEF DioRecord, NodeRecord
  <2> HIDE DEF m
  <2> QED
    BY <1>1, <2>1, <2>2
<1>4. ASSUME NEW p \in Addr, NEW n \in Node, DioInput(p, n)
      PROVE  Typed
  <2>1. dio' = [dio EXCEPT ![p] = Without(p, n)] /\ daos' = daos /\ faults' = faults
    BY <1>4 DEF DioInput
  <2>2. Without(p, n) \in DioRecord
    BY <1>1, <1>2 DEF Without, NoDio, DioRecord
  <2> QED
    BY <1>1, <2>1, <2>2
<1>5. ASSUME NEW n \in Client, SendDao(n)
      PROVE  Typed
  <2> DEFINE p == node[n].preferred
  <2>1. p \in Addr
    BY <1>1, <1>5 DEF SendDao, NodeRecord
  <2>2. <<n, p[2]>> \in Addr /\ p[1] \in Node
    BY <1>1, <2>1 DEF Addr
  <2>3. dio' = dio /\ faults' = faults /\ daos' = daos \union {<<<<n, p[2]>>, p[1]>>}
    BY <1>5 DEF SendDao
  <2> HIDE DEF p
  <2> QED
    BY <1>1, <2>2, <2>3
<1>6. ASSUME NEW p \in Addr, NEW n \in Node, DaoInput(p, n)
      PROVE  Typed
  BY <1>1, <1>6 DEF DaoInput
<1>7. ASSUME UNCHANGED <<dio, daos>>, faults' = faults \/ (faults < MaxFaults /\ faults' = faults + 1)
      PROVE  Typed
  BY <1>1, <1>7, RplAssumption
<1> QED
  BY <1>3, <1>4, <1>5, <1>6, <1>7
     DEF Next, LinkCallback, RankErrorSignalled, RecalculateRanks, FirstLoadUpdate,
         RepairRoot, Restart

LEMMA TypeStep == TypeInv /\ [Next]_vars => TypeInv'
<1> SUFFICES ASSUME TypeInv, [Next]_vars
             PROVE  TypeInv'
  OBVIOUS
<1>1. CASE Next
  BY <1>1, NodesStep, ChannelsStep DEF TypeInv, TypeOK
<1>2. CASE UNCHANGED vars
  BY <1>2 DEF vars, TypeInv, TypeOK, TablesKept
<1> QED
  BY <1>1, <1>2

LEMMA TablesHold == Spec => []TypeInv
  BY TypeInit, TypeStep, PTL DEF Spec

\* In every run every rank and version is one the code can hold, and so is
\* every DIO and DAO on the way, with any nodes, radios and links.
THEOREM TypeCorrect == Spec => []TypeOK
<1>1. TypeInv => TypeOK
  BY DEF TypeInv
<1> QED
  BY <1>1, TablesHold, PTL

\* The preferred parent and the parents marked for rpl_recalculate_ranks are
\* always in the table: no handler removes a parent that is still in use.
THEOREM TablesCorrect == Spec => []TablesKept
<1>1. TypeInv => TablesKept
  BY DEF TypeInv
<1> QED
  BY <1>1, TablesHold, PTL

----------------------------------------------------------------------------
(***************************************************************************)
(* Where the ranks come from.  Taken: an event that turned the record d    *)
(* into e left the rank, lost it, or took it from a parent.  Entered: what *)
(* a DIO m from address p wrote into the table.                            *)
(***************************************************************************)
Taken(d, e) ==
  e.rank \in {d.rank, INFINITE_RANK} \union {calculate_rank(e.parents[b]) : b \in Parents(e)}

Entered(d, p, m, e) ==
  \A q \in Parents(e) :
    \/ q \in Parents(d) /\ e.parents[q] = d.parents[q]
    \/ q \in Parents(d) \union {p} /\ q[1] = p[1] /\ e.parents[q] = m.rank

LEMMA SelectTakesRank ==
  ASSUME NEW d, TableKept(d), NEW o \in rpl_select_dag(d)
  PROVE  Taken(d, o.dag) /\ SameDag(d, o.dag)
<1>1. d \in NodeRecord /\ o.dag \in NodeRecord /\ SameDag(d, o.dag)
  BY SelectKeepsAttached DEF TableKept
<1>2. PICK b \in best_parent(d) :
        o = IF b = None THEN [found |-> FALSE, dag |-> [d EXCEPT !.rank = INFINITE_RANK]]
            ELSE Selected(d, b)
  BY DEF rpl_select_dag
<1>3. CASE b = None
  <2>1. o.dag.rank = INFINITE_RANK
    BY <1>1, <1>2, <1>3 DEF NodeRecord
  <2> QED
    BY <1>1, <2>1 DEF Taken
<1>4. CASE b # None
  <2>1. b \in Parents(d)
    BY <1>1, <1>4, BestIsParent DEF TableKept
  <2>2. o.dag.rank = calculate_rank(d.parents[b])
    BY <1>1, <1>2, <1>4 DEF Selected, NodeRecord
  <2> QED
    BY <1>1, <2>1, <2>2 DEF Taken, SameDag, Parents
<1> QED
  BY <1>3, <1>4

LEMMA EventTakesRank ==
  ASSUME NEW d, TableKept(d), NEW p \in Parents(d), NEW e \in rpl_process_parent_event(d, p)
  PROVE  Taken(d, e)
<1>1. d \in NodeRecord
  BY DEF TableKept
<1>2. CASE ~acceptable_rank(d, d.parents[p])
  <2>1. e.rank \in {d.rank, INFINITE_RANK}
    BY <1>1, <1>2 DEF rpl_process_parent_event, rpl_nullify_parent, NodeRecord
  <2> QED
    BY <2>1 DEF Taken
<1>3. CASE acceptable_rank(d, d.parents[p])
  <2>1. PICK o \in rpl_select_dag(d) : e = IF o.found THEN o.dag ELSE rpl_local_repair(o.dag)
    BY <1>3 DEF rpl_process_parent_event
  <2>2. Taken(d, o.dag) /\ o.dag \in NodeRecord
    BY SelectTakesRank, SelectKeepsTable DEF TableKept
  <2>3. CASE o.found
    BY <2>1, <2>2, <2>3
  <2>4. CASE ~o.found
    <3>1. e.rank = INFINITE_RANK
      BY <2>1, <2>2, <2>4 DEF rpl_local_repair, NodeRecord
    <3> QED
      BY <3>1 DEF Taken
  <2> QED
    BY <2>3, <2>4
<1> QED
  BY <1>2, <1>3

LEMMA LoopTakesRank ==
  ASSUME NEW d, TableKept(d), NEW e \in Recalculated(d)
  PROVE  Taken(d, e)
<1> DEFINE none == [d EXCEPT !.updated = {}]
           X == {x \in NodeRecord : TableKept(x) /\ SameDag(none, x) /\ Taken(d, x)}
           G == [S \in SUBSET d.updated |-> X]
<1>1. /\ none \in NodeRecord /\ none.parents = d.parents /\ none.preferred = d.preferred
      /\ none.updated = {} /\ none.rank = d.rank
  BY DEF TableKept, NodeRecord
<1>2. none = [d EXCEPT !.updated = {}]
  OBVIOUS
<1> HIDE DEF none
<1>3. none \in G[{}]
  BY <1>1, FS_EmptySet DEF TableKept, Parents, SameDag, Taken
<1>4. ASSUME NEW S \in SUBSET d.updated, NEW p \in S, NEW x \in G[S \ {p}]
      PROVE  rpl_process_parent_event(x, p) \subseteq G[S]
  <2>1. S \ {p} \in SUBSET d.updated
    OBVIOUS
  <2>2. TableKept(x) /\ SameDag(none, x) /\ Taken(d, x)
    BY <1>4, <2>1
  <2>3. p \in Parents(x)
    BY <1>1, <2>2 DEF TableKept, SameDag, Parents
  <2>4. ASSUME NEW y \in rpl_process_parent_event(x, p)
        PROVE  y \in X
    <3>1. TableKept(y) /\ SameDag(x, y) /\ Taken(x, y)
      BY <2>2, <2>3, EventKeepsTable, EventTakesRank
    <3>2. y \in NodeRecord
      BY <3>1 DEF TableKept
    <3>3. SameDag(none, y)
      BY <2>2, <3>1 DEF SameDag
    <3>4. Taken(d, y)
      BY <2>2, <3>1 DEF Taken, SameDag, Parents
    <3> QED
      BY <3>1, <3>2, <3>3, <3>4
  <2> QED
    BY <2>4
<1>5. Recalculated(d) \subseteq G[d.updated]
  <2>1. IsFiniteSet(d.updated)
    BY DEF TableKept
  <2> HIDE DEF G
  <2> QED
    BY <1>2, <1>3, <1>4, <2>1, LoopKeeps
<1> QED
  BY <1>5

LEMMA DioTakesRank ==
  ASSUME NEW d, TableKept(d), NEW p \in Addr, NEW m \in DioRecord,
         NEW e \in rpl_process_dio(d, p, m)
  PROVE  Taken(d, e) /\ Entered(d, p, m, e)
<1> DEFINE r == calculate_rank(m.rank)
<1>1. /\ m.rank \in Rank /\ m.version \in Version /\ r \in Rank
      /\ INFINITE_RANK \in Rank /\ p # None /\ Absent \notin Rank
  BY RankOfParent, RplAssumption DEF DioRecord, Rank, Absent
<1>2. d \in NodeRecord
  BY DEF TableKept
<1>3. CASE e = Joined(d, p, m)
  <2>1. /\ e.rank = r
        /\ \A q \in Addr : e.parents[q] = IF q = p THEN m.rank ELSE Absent
    BY <1>2, <1>3 DEF Joined, OnlyParent, NodeRecord
  <2>2. Parents(e) = {p}
    BY <1>1, <2>1 DEF Parents
  <2> QED
    BY <2>1, <2>2 DEF Taken, Entered
<1>4. CASE e \in global_repair(d, p, m)
  <2> DEFINE none == [d EXCEPT !.version = m.version, !.rank = INFINITE_RANK,
                               !.min_rank = INFINITE_RANK, !.preferred = None,
                               !.parents = [q \in Addr |-> Absent], !.updated = {}]
             added == [none EXCEPT !.parents[p] = m.rank, !.rank = r, !.min_rank = r]
  <2>1. /\ none \in NodeRecord /\ none.preferred = None /\ none.updated = {}
        /\ none.rank = INFINITE_RANK /\ \A q \in Addr : none.parents[q] = Absent
    BY <1>1, <1>2 DEF NodeRecord
  <2>2. /\ added \in NodeRecord /\ added.preferred = None /\ added.updated = {}
        /\ added.rank = r
        /\ \A q \in Addr : added.parents[q] = IF q = p THEN m.rank ELSE Absent
    BY <1>1, <2>1 DEF NodeRecord
  <2>3. e \in rpl_process_parent_event(added, p) \/ e = none
    BY <1>4 DEF global_repair
  <2> HIDE DEF none, added
  <2>4. CASE e = none
    BY <2>1, <2>4 DEF Taken, Entered, Parents
  <2>5. CASE e \in rpl_process_parent_event(added, p)
    <3>1. Parents(added) = {p}
      BY <1>1, <2>2 DEF Parents
    <3>2. TableKept(added)
      BY <1>1, <2>2, FS_EmptySet DEF TableKept
    <3>3. SameDag(added, e) /\ Taken(added, e)
      BY <2>5, <3>1, <3>2, EventKeepsTable, EventTakesRank
    <3>4. Parents(e) = {p} /\ e.parents[p] = m.rank
      BY <2>2, <3>1, <3>3 DEF SameDag, Parents
    <3>5. Taken(d, e)
      BY <2>2, <3>3, <3>4 DEF Taken
    <3> QED
      BY <3>4, <3>5 DEF Entered
  <2> QED
    BY <2>3, <2>4, <2>5
<1>5. CASE e \in rpl_process_parent_event(Heard(d, p, m), p)
  <2> DEFINE parents == [q \in Addr |->
                           IF q = p \/ (q \in Sibling(p) /\ d.parents[q] # Absent)
                           THEN m.rank ELSE d.parents[q]]
             h == [d EXCEPT !.parents = parents, !.updated = @ \union {p}]
  <2>1. Heard(d, p, m) = h
    BY <1>2 DEF Heard, NodeRecord
  <2>2. /\ parents \in [Addr -> Rank \union {Absent}]
        /\ \A q \in Parents(d) \union {p} : parents[q] # Absent
        /\ \A q \in Addr : \/ parents[q] = d.parents[q]
                           \/ q \in Parents(d) \union {p} /\ q[1] = p[1] /\ parents[q] = m.rank
    BY <1>1, <1>2 DEF NodeRecord, Parents, Sibling
  <2>3. h.parents = parents /\ h.rank = d.rank
    BY <1>2 DEF NodeRecord
  <2> HIDE DEF parents
  <2>4. TableKept(h)
    BY <2>2, MarkingKeepsTable
  <2>5. p \in Parents(h)
    BY <2>2, <2>3 DEF Parents
  <2> HIDE DEF h
  <2>6. SameDag(h, e) /\ Taken(h, e)
    BY <1>5, <2>1, <2>4, <2>5, EventKeepsTable, EventTakesRank
  <2>7. Entered(d, p, m, e)
    BY <2>2, <2>3, <2>6 DEF Entered, SameDag, Parents
  <2> QED
    BY <2>3, <2>6, <2>7 DEF Taken
<1>6. CASE e = d
  BY <1>6 DEF Taken, Entered
<1> QED
  BY <1>3, <1>4, <1>5, <1>6 DEF rpl_process_dio

----------------------------------------------------------------------------
(***************************************************************************)
(* What one step may do to the ranks of a node and of a DIO.               *)
(***************************************************************************)
\* Where n may have rank r of its parent q from: its own table, or the header
\* of a data packet; or the DIO of q, or the one that q's node sent on
\* another radio.
Origin(n, q, r) ==
  \/ /\ q \in Parents(node[n])
     /\ r \in {node[n].parents[q], node[q[1]].rank, INFINITE_RANK}
  \/ \E p \in Addr : /\ n \in dio[p].to
                    /\ q \in Parents(node[n]) \union {p} /\ q[1] = p[1]
                    /\ r = dio[p].rank

NodeSourced(n) ==
  /\ n # Root => Taken(node[n], node'[n])
  /\ \A q \in Parents(node'[n]) : Origin(n, q, node'[n].parents[q])

DioSourced(a) ==
  \A k \in dio'[a].to :
    \/ k \in dio[a].to /\ dio'[a].rank = dio[a].rank
    \/ <<a[1], a[2], k>> \in Link /\ dio'[a].rank = node[a[1]].rank

LEMMA OneSourced ==
  ASSUME TypeInv, NEW n \in Node, NEW d \in NodeRecord, node' = [node EXCEPT ![n] = d],
         n # Root => Taken(node[n], d),
         \A q \in Parents(d) : Origin(n, q, d.parents[q])
  PROVE  \A k \in Node : NodeSourced(k)
<1>1. \A k \in Node : node'[k] = IF k = n THEN d ELSE node[k]
  BY DEF TypeInv, TypeOK
<1>2. \A k \in Node : node'[k] = node[k] => NodeSourced(k)
  BY DEF NodeSourced, Taken, Origin
<1>3. NodeSourced(n)
  BY <1>1 DEF NodeSourced
<1> QED
  BY <1>1, <1>2, <1>3

\* No step invents a rank: a node's own rank is kept, lost, or one more than
\* that of one of its parents, and the rank of a parent, or of a DIO on the
\* way, is one that its sender has or has had.
THEOREM RanksHaveOrigin ==
  ASSUME TypeInv, Next
  PROVE  (\A n \in Node : NodeSourced(n)) /\ (\A a \in Addr : DioSourced(a))
<1>1. \A n \in Node : TableKept(node[n]) /\ node[n] \in NodeRecord
  BY DEF TypeInv, TypeOK, TablesKept
<1>2. Client \subseteq Node /\ Root \in Node /\ \A n \in Client : n # Root
  BY RplAssumption DEF Client
<1>3. node \in [Node -> NodeRecord] /\ dio \in [Addr -> DioRecord]
  BY DEF TypeInv, TypeOK
<1> DEFINE Nodes == \A n \in Node : NodeSourced(n)
           Dios == \A a \in Addr : DioSourced(a)
<1>4. node' = node => Nodes
  BY DEF NodeSourced, Taken, Origin
<1>5. dio' = dio => Dios
  BY DEF DioSourced
<1>6. ASSUME NEW n \in Node, NEW r \in Radio, SendDio(n, r)
      PROVE  Nodes /\ Dios
  <2> DEFINE m == [version |-> node[n].version, rank |-> node[n].rank,
                   to |-> {k \in Node : <<n, r, k>> \in Link}]
  <2>1. dio' = [dio EXCEPT ![<<n, r>>] = m] /\ node' = node
    BY <1>6 DEF SendDio
  <2>2. <<n, r>> \in Addr /\ <<n, r>>[1] = n /\ <<n, r>>[2] = r
    BY DEF Addr
  <2>3. \A a \in Addr : dio'[a] = IF a = <<n, r>> THEN m ELSE dio[a]
    BY <1>3, <2>1
  <2>4. m.rank = node[n].rank /\ \A k \in m.to : <<n, r, k>> \in Link
    OBVIOUS
  <2> HIDE DEF m
  <2>5. ASSUME NEW a \in Addr, NEW k \in dio'[a].to
        PROVE  \/ k \in dio[a].to /\ dio'[a].rank = dio[a].rank
               \/ <<a[1], a[2], k>> \in Link /\ dio'[a].rank = node[a[1]].rank
    <3>1. CASE a = <<n, r>>
      <4>1. a[1] = n /\ a[2] = r /\ k \in m.to /\ dio'[a].rank = m.rank
        BY <2>2, <2>3, <3>1
      <4> QED
        BY <2>4, <4>1
    <3>2. CASE a # <<n, r>>
      BY <2>3, <2>5, <3>2
    <3> QED
      BY <3>1, <3>2
  <2> QED
    BY <1>4, <2>1, <2>5 DEF DioSourced
<1>7. ASSUME NEW n \in Node, NEW p \in Addr, DioInput(p, n)
      PROVE  Nodes /\ Dios
  <2>1. Dios
    <3>1. dio' = [dio EXCEPT ![p] = Without(p, n)]
      BY <1>7 DEF DioInput
    <3>2. \A k \in Without(p, n).to : k \in dio[p].to /\ Without(p, n).rank = dio[p].rank
      BY <1>3 DEF Without, NoDio, DioRecord
    <3> QED
      BY <1>3, <3>1, <3>2 DEF DioSourced
  <2>2. dio[p] \in DioRecord /\ n \in dio[p].to
    BY <1>3, <1>7 DEF DioInput
  <2>3. CASE n = Root
    <3> DEFINE v == LOLLIPOP_INCREMENT(dio[p].version)
               d == [node[n] EXCEPT !.version = v]
    <3>1. node' = [node EXCEPT ![n] = d] \/ node' = node
      BY <1>3, <1>7, <2>3 DEF DioInput, RootProcessesDio
    <3>2. v \in Version
      BY <2>2, NextVersionIsNewer DEF DioRecord
    <3> HIDE DEF v
    <3>3. d \in NodeRecord /\ d.parents = node[n].parents
      BY <1>1, <3>2 DEF NodeRecord
    <3> HIDE DEF d
    <3>4. \A q \in Parents(d) : Origin(n, q, d.parents[q])
      BY <3>3 DEF Origin, Parents
    <3> QED
      BY <1>4, <2>1, <2>3, <3>1, <3>3, <3>4, OneSourced
  <2>4. CASE n # Root
    <3>1. PICK d \in rpl_process_dio(node[n], p, dio[p]) : node' = [node EXCEPT ![n] = d]
      BY <1>7, <2>4 DEF DioInput
    <3>2. Taken(node[n], d) /\ Entered(node[n], p, dio[p], d) /\ d \in NodeRecord
      BY <1>1, <2>2, DioTakesRank, DioKeepsTable DEF TableKept
    <3>3. \A q \in Parents(d) : Origin(n, q, d.parents[q])
      BY <2>2, <3>2 DEF Entered, Origin
    <3> QED
      BY <2>1, <3>1, <3>2, <3>3, OneSourced
  <2> QED
    BY <2>3, <2>4
<1>8. ASSUME NEW n \in Node, NEW p \in Addr, DaoInput(p, n)
      PROVE  Nodes /\ Dios
  <2>1. dio' = dio
    BY <1>8 DEF DaoInput
  <2>2. CASE ~LoopDetected(node[n], p)
    BY <1>4, <1>5, <1>8, <2>1, <2>2 DEF DaoInput
  <2>3. CASE LoopDetected(node[n], p)
    <3> DEFINE parents == [node[n].parents EXCEPT ![p] = INFINITE_RANK]
               d == [node[n] EXCEPT !.parents = parents, !.updated = @ \union {p}]
    <3>1. node' = [node EXCEPT ![n] = d]
      BY <1>1, <1>8, <2>3 DEF DaoInput, TypeInv, TypeOK, NodeRecord
    <3>2. p \in Parents(node[n]) /\ INFINITE_RANK \in Rank
      BY <2>3, RplAssumption DEF LoopDetected, Rank
    <3>3. /\ parents \in [Addr -> Rank \union {Absent}]
          /\ \A q \in Addr : parents[q] = IF q = p THEN INFINITE_RANK ELSE node[n].parents[q]
      BY <1>1, <3>2 DEF NodeRecord
    <3> HIDE DEF parents
    <3>4. d \in NodeRecord /\ d.parents = parents /\ d.rank = node[n].rank
      BY <1>1, <3>3 DEF NodeRecord
    <3> HIDE DEF d
    <3>5. Taken(node[n], d)
      BY <3>4 DEF Taken
    <3>6. \A q \in Parents(d) : Origin(n, q, d.parents[q])
      BY <3>2, <3>3, <3>4 DEF Origin, Parents
    <3> QED
      BY <1>5, <2>1, <3>1, <3>4, <3>5, <3>6, OneSourced
  <2> QED
    BY <2>2, <2>3
<1>9. ASSUME NEW n \in Client, NEW d \in NodeRecord, node' = [node EXCEPT ![n] = d],
             dio' = dio, d.parents = node[n].parents, Taken(node[n], d)
      PROVE  Nodes /\ Dios
  <2>1. \A q \in Parents(d) : Origin(n, q, d.parents[q])
    BY <1>9 DEF Origin, Parents
  <2> QED
    BY <1>2, <1>5, <1>9, <2>1, OneSourced
<1>10. ASSUME NEW n \in Client, NEW p \in Addr, LinkCallback(n, p)
       PROVE  Nodes /\ Dios
  <2> DEFINE d == [node[n] EXCEPT !.updated = @ \union {p}]
  <2>1. node' = [node EXCEPT ![n] = d] /\ dio' = dio
    BY <1>2, <1>3, <1>10 DEF LinkCallback
  <2>2. d \in NodeRecord /\ d.parents = node[n].parents /\ d.rank = node[n].rank
    BY <1>1, <1>2 DEF NodeRecord
  <2> HIDE DEF d
  <2> QED
    BY <1>9, <2>1, <2>2 DEF Taken
<1>11. ASSUME NEW n \in Client, NEW p \in Addr, RankErrorSignalled(n, p)
       PROVE  Nodes /\ Dios
  <2> DEFINE r == node[p[1]].rank
             d == [node[n] EXCEPT !.parents[p] = r]
  <2>1. PICK o \in rpl_select_dag(d) : node' = [node EXCEPT ![n] = o.dag]
    BY <1>11 DEF RankErrorSignalled
  <2>2. p[1] \in Node /\ r \in Rank
    BY <1>1 DEF Addr, NodeRecord
  <2>3. /\ d \in NodeRecord /\ d.preferred = node[n].preferred
        /\ d.updated = node[n].updated /\ d.rank = node[n].rank
        /\ \A q \in Addr : d.parents[q] = IF q = p THEN r ELSE node[n].parents[q]
    BY <1>1, <1>2, <2>2 DEF NodeRecord
  <2>4. Absent \notin Rank /\ p \in Parents(node[n]) /\ TableKept(node[n])
    BY <1>1, <1>2, <1>11, RplAssumption DEF Absent, Rank, RankErrorSignalled
  <2> HIDE DEF d
  <2>5. Parents(d) = Parents(node[n])
    BY <2>2, <2>3, <2>4 DEF Parents
  <2>6. TableKept(d)
    BY <2>3, <2>4, <2>5 DEF TableKept
  <2>7. Taken(d, o.dag) /\ SameDag(d, o.dag) /\ o.dag \in NodeRecord
    BY <2>6, SelectTakesRank, SelectKeepsTable DEF TableKept
  <2>8. Taken(node[n], o.dag)
    BY <2>3, <2>7 DEF Taken
  <2>9. \A q \in Parents(o.dag) : Origin(n, q, o.dag.parents[q])
    BY <2>3, <2>4, <2>5, <2>7 DEF Origin, SameDag, Parents
  <2>10. dio' = dio
    BY <1>11 DEF RankErrorSignalled
  <2> QED
    BY <1>2, <1>5, <2>1, <2>7, <2>8, <2>9, <2>10, OneSourced
<1>12. ASSUME NEW n \in Client, RecalculateRanks(n)
       PROVE  Nodes /\ Dios
  <2>1. PICK d \in Recalculated(node[n]) : node' = [node EXCEPT ![n] = d]
    BY <1>12 DEF RecalculateRanks
  <2>2. TableKept(d) /\ SameDag([node[n] EXCEPT !.updated = {}], d) /\ Taken(node[n], d)
    BY <1>1, <1>2, LoopKeepsTable, LoopTakesRank
  <2>3. d \in NodeRecord /\ d.parents = node[n].parents
    BY <1>1, <1>2, <2>2 DEF TableKept, SameDag, NodeRecord
  <2> QED
    BY <1>9, <1>12, <2>1, <2>2, <2>3 DEF RecalculateRanks
<1>13. ASSUME NEW n \in Client, FirstLoadUpdate(n)
       PROVE  Nodes /\ Dios
  <2> DEFINE d == [node[n] EXCEPT !.init_phase = FALSE]
  <2>1. node' = [node EXCEPT ![n] = d] /\ dio' = dio
    BY <1>2, <1>3, <1>13 DEF FirstLoadUpdate
  <2>2. d \in NodeRecord /\ d.parents = node[n].parents /\ d.rank = node[n].rank
    BY <1>1, <1>2 DEF NodeRecord
  <2> HIDE DEF d
  <2> QED
    BY <1>9, <2>1, <2>2 DEF Taken
<1>14. ASSUME RepairRoot
       PROVE  Nodes /\ Dios
  <2> DEFINE v == LOLLIPOP_INCREMENT(node[Root].version)
             d == [node[Root] EXCEPT !.version = v]
  <2>1. node' = [node EXCEPT ![Root] = d] /\ dio' = dio
    BY <1>2, <1>3, <1>14 DEF RepairRoot
  <2>2. v \in Version
    BY <1>1, <1>2, NextVersionIsNewer DEF NodeRecord
  <2> HIDE DEF v
  <2>3. d \in NodeRecord /\ d.parents = node[Root].parents
    BY <1>1, <1>2, <2>2 DEF NodeRecord
  <2> HIDE DEF d
  <2>4. \A q \in Parents(d) : Origin(Root, q, d.parents[q])
    BY <2>3 DEF Origin, Parents
  <2> QED
    BY <1>2, <1>5, <2>1, <2>3, <2>4, OneSourced
<1>15. ASSUME NEW n \in Node, Restart(n)
       PROVE  Nodes /\ Dios
  <2>1. Fresh(n) \in NodeRecord
    BY FreshTable DEF TableKept
  <2>2. Parents(Fresh(n)) = {} /\ (n # Root => Fresh(n).rank = INFINITE_RANK)
    BY DEF Fresh, Parents
  <2>3. n # Root => Taken(node[n], Fresh(n))
    BY <2>2 DEF Taken
  <2> QED
    BY <1>5, <1>15, <2>1, <2>2, <2>3, OneSourced DEF Restart
<1>16. ASSUME NEW n \in Client, SendDao(n)
       PROVE  Nodes /\ Dios
  BY <1>4, <1>5, <1>16 DEF SendDao
<1> QED
  BY <1>6, <1>7, <1>8, <1>10, <1>11, <1>12, <1>13, <1>14, <1>15, <1>16 DEF Next

----------------------------------------------------------------------------
(***************************************************************************)
(* Parents and links.                                                      *)
(***************************************************************************)
LinksKept ==
  /\ \A n \in Node : \A q \in Parents(node[n]) : <<q[1], q[2], n>> \in Link
  /\ \A a \in Addr : \A k \in dio[a].to : <<a[1], a[2], k>> \in Link

LinkInv == TypeInv /\ LinksKept

LEMMA LinkInit == Init => LinkInv
<1>1. \A n \in Node : Parents(Fresh(n)) = {}
  BY DEF Fresh, Parents
<1> QED
  BY <1>1, TypeInit DEF Init, LinkInv, LinksKept, NoDio

LEMMA LinkStep == LinkInv /\ [Next]_vars => LinkInv'
<1> SUFFICES ASSUME LinkInv, [Next]_vars
             PROVE  LinkInv'
  OBVIOUS
<1>1. TypeInv'
  BY TypeStep DEF LinkInv
<1>2. CASE Next
  <2>1. (\A n \in Node : NodeSourced(n)) /\ (\A a \in Addr : DioSourced(a))
    BY <1>2, RanksHaveOrigin DEF LinkInv
  <2>2. ASSUME NEW n \in Node, NEW q \in Parents(node'[n])
        PROVE  <<q[1], q[2], n>> \in Link
    <3>1. Origin(n, q, node'[n].parents[q])
      BY <2>1, <2>2 DEF NodeSourced
    <3>2. CASE q \in Parents(node[n])
      BY <3>2 DEF LinkInv, LinksKept
    <3>3. CASE q \notin Parents(node[n])
      <4>1. q \in Addr /\ n \in dio[q].to
        BY <3>1, <3>3 DEF Origin
      <4> QED
        BY <4>1 DEF LinkInv, LinksKept
    <3> QED
      BY <3>2, <3>3
  <2>3. \A a \in Addr : \A k \in dio'[a].to : <<a[1], a[2], k>> \in Link
    BY <2>1 DEF DioSourced, LinkInv, LinksKept
  <2> QED
    BY <1>1, <2>2, <2>3 DEF LinkInv, LinksKept
<1>3. CASE UNCHANGED vars
  BY <1>1, <1>3 DEF vars, LinkInv, LinksKept
<1> QED
  BY <1>2, <1>3

\* A node never has a parent it does not hear, with whatever DIOs, restarts
\* and repairs: neither the parent on the other radio that rpl_process_dio
\* changes along with the sender, nor one entered after a global repair.
ParentsAreHeard == \A n \in Node : \A q \in Parents(node[n]) : <<q[1], q[2], n>> \in Link

THEOREM ParentsHaveLinks == Spec => []ParentsAreHeard
<1>1. LinkInv => ParentsAreHeard
  BY DEF LinkInv, LinksKept, ParentsAreHeard
<1> QED
  BY <1>1, LinkInit, LinkStep, PTL DEF Spec

----------------------------------------------------------------------------
(***************************************************************************)
(* The rank follows the preferred parent and keeps to the limit, where no  *)
(* two nodes hear each other on both radios.                               *)
(***************************************************************************)
OneRadioEach == \A l \in Link : \A m \in Link : l[1] = m[1] /\ l[3] = m[3] => l = m

LEMMA LoopKeepsRank ==
  ASSUME NEW d, TableKept(d), Follows(d), Attached(d), NEW e \in Recalculated(d)
  PROVE  e \in NodeRecord /\ Follows(e) /\ Attached(e)
<1> DEFINE none == [d EXCEPT !.updated = {}]
           X(S) == {x \in NodeRecord :
                      /\ TableKept(x) /\ SameDag(none, x)
                      /\ x.preferred \notin {None} \union (d.updated \ S) => Follows(x) /\ Attached(x)}
           G == [S \in SUBSET d.updated |-> X(S)]
<1>1. /\ none \in NodeRecord /\ none.parents = d.parents /\ none.preferred = d.preferred
      /\ none.updated = {} /\ none.rank = d.rank /\ none.min_rank = d.min_rank
  BY DEF TableKept, NodeRecord
<1>2. none = [d EXCEPT !.updated = {}]
  OBVIOUS
<1> HIDE DEF none
<1>3. none \in G[{}]
  <2>1. TableKept(none) /\ SameDag(none, none)
    BY <1>1, FS_EmptySet DEF TableKept, Parents, SameDag
  <2>2. none.preferred \notin {None} \union d.updated => Follows(none) /\ Attached(none)
    BY <1>1 DEF Follows, Attached, Parents
  <2>3. none \in X({})
    BY <1>1, <2>1, <2>2
  <2> QED
    BY <2>3
<1>4. ASSUME NEW S \in SUBSET d.updated, NEW p \in S, NEW x \in G[S \ {p}]
      PROVE  rpl_process_parent_event(x, p) \subseteq G[S]
  <2>1. S \ {p} \in SUBSET d.updated
    OBVIOUS
  <2>2. /\ x \in NodeRecord /\ TableKept(x) /\ SameDag(none, x)
        /\ x.preferred \notin {None} \union (d.updated \ (S \ {p})) => Follows(x) /\ Attached(x)
    BY <1>4, <2>1
  <2>3. p \in Parents(x)
    BY <1>1, <2>2 DEF TableKept, SameDag, Parents
  <2>4. ASSUME NEW y \in rpl_process_parent_event(x, p)
        PROVE  y \in X(S)
    <3>1. TableKept(y) /\ SameDag(x, y) /\ y \in NodeRecord
      BY <2>2, <2>3, EventKeepsTable DEF TableKept
    <3>2. SameDag(none, y)
      BY <2>2, <3>1 DEF SameDag
    <3>3. \/ y = x /\ x.preferred \notin {p, None}
          \/ Follows(y) /\ Attached(y)
      BY <2>2, <2>3, EventRenewsRank DEF TableKept
    <3>4. y.preferred \notin {None} \union (d.updated \ S) => Follows(y) /\ Attached(y)
      BY <2>2, <3>3
    <3> QED
      BY <3>1, <3>2, <3>4
  <2> QED
    BY <2>4
<1>5. Recalculated(d) \subseteq G[d.updated]
  <2>1. IsFiniteSet(d.updated)
    BY DEF TableKept
  <2> HIDE DEF G
  <2> QED
    BY <1>2, <1>3, <1>4, <2>1, LoopKeeps
<1>6. e \in X(d.updated)
  BY <1>5
<1>7. CASE e.preferred # None
  BY <1>6, <1>7
<1>8. CASE e.preferred = None
  BY <1>6, <1>8 DEF Follows, Attached
<1> QED
  BY <1>6, <1>7, <1>8

RankInv == LinkInv /\ RankFollowsPreferred /\ RankWithinLimit

LEMMA RankInit == Init => RankInv
<1>1. \A n \in Client : n \in Node /\ Follows(Fresh(n)) /\ Attached(Fresh(n))
  BY FreshIsRanked DEF Client, Ranked
<1> QED
  BY <1>1, LinkInit DEF Init, RankInv, RankFollowsPreferred, RankWithinLimit

LEMMA RankStep ==
  ASSUME OneRadioEach
  PROVE  RankInv /\ [Next]_vars => RankInv'
<1> SUFFICES ASSUME RankInv, [Next]_vars
             PROVE  RankInv'
  OBVIOUS
<1>1. LinkInv'
  BY LinkStep DEF RankInv
<1>2. TypeOK /\ TypeInv /\ RankFollowsPreferred /\ RankWithinLimit
  BY DEF RankInv, LinkInv, TypeInv
<1>3. ASSUME NEW p \in Addr, NEW n \in dio[p].to, NEW q \in Sibling(p) \intersect Parents(node[n])
      PROVE  FALSE
  <2>1. n \in Node
    BY <1>2 DEF TypeOK, DioRecord
  <2>2. <<p[1], p[2], n>> \in Link /\ <<q[1], q[2], n>> \in Link
    BY <2>1 DEF RankInv, LinkInv, LinksKept
  <2>3. q \in Addr /\ q[1] = p[1] /\ q # p
    BY DEF Sibling
  <2>4. <<p[1], p[2], n>> = <<q[1], q[2], n>>
    <3> DEFINE l == <<p[1], p[2], n>>
               m == <<q[1], q[2], n>>
    <3>1. l[1] = m[1] /\ l[3] = m[3]
      BY <2>3
    <3> HIDE DEF l, m
    <3>2. l = m
      BY <2>2, <3>1 DEF OneRadioEach, l, m
    <3> QED
      BY <3>2 DEF l, m
  <2>5. p[2] = q[2]
    BY <2>4
  <2> QED
    BY <2>3, <2>5 DEF Addr
<1>4. CASE OtherHandler
  BY <1>1, <1>2, <1>3, <1>4, HandlersKeepRanks DEF RankInv
<1>5. ASSUME NEW n \in Client, RecalculateRanks(n)
      PROVE  RankInv'
  <2>1. PICK d \in Recalculated(node[n]) : node' = [node EXCEPT ![n] = d]
    BY <1>5 DEF RecalculateRanks
  <2>2. n \in Node /\ TableKept(node[n]) /\ Follows(node[n]) /\ Attached(node[n])
    BY <1>2 DEF Client, TypeInv, TablesKept, RankFollowsPreferred, RankWithinLimit
  <2>3. d \in NodeRecord /\ Follows(d) /\ Attached(d)
    BY <2>2, LoopKeepsRank
  <2> QED
    BY <1>1, <1>2, <2>1, <2>2, <2>3, OneNode DEF RankInv
<1>6. CASE UNCHANGED vars
  BY <1>1, <1>2, <1>6 DEF vars, RankInv, RankFollowsPreferred, RankWithinLimit
<1> QED
  BY <1>4, <1>5, <1>6 DEF Next, OtherHandler

\* In every run a node announces the rank its preferred parent gives it,
\* unless that parent was found to be in a loop and waits for
\* rpl_recalculate_ranks.  It fails where two nodes hear each other on both
\* radios.
THEOREM RankAlwaysFollows ==
  ASSUME OneRadioEach
  PROVE  Spec => []RankFollowsPreferred
<1>1. RankInv => RankFollowsPreferred
  BY DEF RankInv
<1> QED
  BY <1>1, RankInit, RankStep, PTL DEF Spec

\* In every run a preferred parent is in the table and, if it has not lost
\* the DODAG, gives a rank within MAX_RANKINC of the lowest one.
THEOREM RankAlwaysWithinLimit ==
  ASSUME OneRadioEach
  PROVE  Spec => []RankWithinLimit
<1>1. RankInv => RankWithinLimit
  BY DEF RankInv
<1> QED
  BY <1>1, RankInit, RankStep, PTL DEF Spec

----------------------------------------------------------------------------
(***************************************************************************)
(* Ranks and distances.  D is at most the number of hops from the root; it *)
(* may be anything at a node that no path from the root leads to.          *)
(***************************************************************************)
Distance(D) ==
  /\ D \in [Node -> Nat] /\ D[Root] = 0
  /\ \A l \in Link : D[l[3]] <= D[l[1]] + 1

\* Rank r is one that a node D[n] hops away may have.
FarEnough(D, n, r) == r > D[n] \/ r = INFINITE_RANK

NoneTooClose(D) == \A n \in Node : FarEnough(D, n, node[n].rank)

DistanceInv(D) ==
  /\ LinkInv /\ NoneTooClose(D)
  /\ \A n \in Node : \A q \in Parents(node[n]) : FarEnough(D, q[1], node[n].parents[q])
  /\ \A a \in Addr : dio[a].to # {} => FarEnough(D, a[1], dio[a].rank)

LEMMA DistanceInit ==
  ASSUME NEW D, Distance(D)
  PROVE  Init => DistanceInv(D)
<1>1. \A n \in Node : Parents(Fresh(n)) = {} /\ FarEnough(D, n, Fresh(n).rank)
  BY DEF Fresh, Parents, FarEnough, ROOT_RANK, Distance
<1> QED
  BY <1>1, LinkInit DEF Init, DistanceInv, NoneTooClose, NoDio

\* One hop more: the rank that a parent q of n gives it.
LEMMA OneHopFurther ==
  ASSUME NEW D, Distance(D), NEW n \in Node, NEW q \in Addr, <<q[1], q[2], n>> \in Link,
         NEW r \in Rank, FarEnough(D, q[1], r)
  PROVE  FarEnough(D, n, calculate_rank(r))
<1>1. D[n] <= D[q[1]] + 1
  <2> DEFINE l == <<q[1], q[2], n>>
  <2>1. l[1] = q[1] /\ l[3] = n
    OBVIOUS
  <2> HIDE DEF l
  <2>2. l \in Link
    BY DEF l
  <2> QED
    BY <2>1, <2>2 DEF Distance
<1>2. q[1] \in Node /\ D[n] \in Nat /\ D[q[1]] \in Nat
  BY DEF Addr, Distance
<1>3. r \in Nat /\ INFINITE_RANK \in Nat /\ r <= INFINITE_RANK
  BY RplAssumption DEF Rank
<1> QED
  BY <1>1, <1>2, <1>3 DEF FarEnough, calculate_rank

LEMMA DistanceStep ==
  ASSUME NEW D, Distance(D)
  PROVE  DistanceInv(D) /\ [Next]_vars => DistanceInv(D)'
<1> SUFFICES ASSUME DistanceInv(D), [Next]_vars
             PROVE  DistanceInv(D)'
  OBVIOUS
<1>1. LinkInv /\ LinkInv'
  BY LinkStep DEF DistanceInv
<1>2. CASE Next
  <2>1. (\A n \in Node : NodeSourced(n)) /\ (\A a \in Addr : DioSourced(a))
    BY <1>1, <1>2, RanksHaveOrigin DEF LinkInv
  <2>2. \A q \in Addr : q[1] \in Node
    BY DEF Addr
  <2>3. ASSUME NEW n \in Node, NEW q \in Parents(node'[n])
        PROVE  FarEnough(D, q[1], node'[n].parents[q])
    <3>1. Origin(n, q, node'[n].parents[q]) /\ q \in Addr
      BY <2>1, <2>3 DEF NodeSourced, Parents
    <3> QED
      BY <2>2, <3>1 DEF Origin, DistanceInv, NoneTooClose, FarEnough
  <2>4. ASSUME NEW a \in Addr, dio'[a].to # {}
        PROVE  FarEnough(D, a[1], dio'[a].rank)
    <3>1. PICK k \in dio'[a].to : TRUE
      BY <2>4
    <3>2. \/ k \in dio[a].to /\ dio'[a].rank = dio[a].rank
          \/ dio'[a].rank = node[a[1]].rank
      BY <2>1, <3>1 DEF DioSourced
    <3> QED
      BY <2>2, <3>2 DEF DistanceInv, NoneTooClose
  <2>5. ASSUME NEW n \in Node
        PROVE  FarEnough(D, n, node'[n].rank)
    <3>1. node'[n] \in NodeRecord
      BY <1>1 DEF LinkInv, TypeInv, TypeOK
    <3>2. CASE n = Root
      <4>1. node'[n].rank > 0
        BY <3>1, RplAssumption DEF NodeRecord, Rank
      <4> QED
        BY <3>2, <4>1 DEF FarEnough, Distance
    <3>3. CASE n # Root
      <4>1. Taken(node[n], node'[n])
        BY <2>1, <3>3 DEF NodeSourced
      <4>2. CASE node'[n].rank \in {node[n].rank, INFINITE_RANK}
        BY <4>2 DEF DistanceInv, NoneTooClose, FarEnough
      <4>3. ASSUME NEW b \in Parents(node'[n]), node'[n].rank = calculate_rank(node'[n].parents[b])
            PROVE  FarEnough(D, n, node'[n].rank)
        <5>1. b \in Addr /\ node'[n].parents[b] \in Rank
          BY <3>1, <4>3 DEF Parents, NodeRecord
        <5>2. <<b[1], b[2], n>> \in Link
          BY <1>1 DEF LinkInv, LinksKept
        <5> QED
          BY <2>3, <4>3, <5>1, <5>2, OneHopFurther
      <4> QED
        BY <4>1, <4>2, <4>3 DEF Taken
    <3> QED
      BY <3>2, <3>3
  <2> QED
    BY <1>1, <2>3, <2>4, <2>5 DEF DistanceInv, NoneTooClose
<1>3. CASE UNCHANGED vars
  BY <1>1, <1>3 DEF vars, DistanceInv, NoneTooClose
<1> QED
  BY <1>2, <1>3

\* No node ever has a rank below its distance from the root, whatever stale
\* DIOs it hears, whatever header of a data packet it believes, and however
\* often nodes restart or the root repairs the DODAG; with two radios too.
THEOREM RankNeverBelowDistance ==
  ASSUME NEW D, Distance(D)
  PROVE  Spec => []NoneTooClose(D)
<1>1. DistanceInv(D) => NoneTooClose(D)
  BY DEF DistanceInv
<1> QED
  BY <1>1, DistanceInit, DistanceStep, PTL DEF Spec

\* Nodes that no link leads to from the others never get a rank: they do not
\* take each other for the way to a root.
THEOREM CutOffStaysUnranked ==
  ASSUME NEW U \in SUBSET Client,
         \A l \in Link : l[3] \in U => l[1] \in U
  PROVE  Spec => [](\A n \in U : node[n].rank = INFINITE_RANK)
<1> DEFINE D == [n \in Node |-> IF n \in U THEN INFINITE_RANK ELSE 0]
<1>1. Distance(D)
  <2>1. Root \in Node /\ Root \notin U /\ INFINITE_RANK \in Nat
    BY RplAssumption DEF Client
  <2>2. \A l \in Link : l[1] \in Node /\ l[3] \in Node
    BY RplAssumption
  <2> QED
    BY <2>1, <2>2 DEF Distance
<1>2. DistanceInv(D) => \A n \in U : node[n].rank = INFINITE_RANK
  <2> SUFFICES ASSUME LinkInv, NoneTooClose(D), NEW n \in U
               PROVE  node[n].rank = INFINITE_RANK
    BY DEF DistanceInv
  <2>1. n \in Node /\ D[n] = INFINITE_RANK
    BY DEF Client
  <2>2. node[n].rank \in 1..INFINITE_RANK /\ INFINITE_RANK \in Nat
    BY <2>1, RplAssumption DEF LinkInv, TypeInv, TypeOK, NodeRecord, Rank
  <2> HIDE DEF D
  <2> QED
    BY <2>1, <2>2 DEF NoneTooClose, FarEnough
<1> HIDE DEF D
<1>3. Init => DistanceInv(D)
  BY <1>1, DistanceInit
<1>4. DistanceInv(D) /\ [Next]_vars => DistanceInv(D)'
  BY <1>1, DistanceStep
<1> QED
  BY <1>2, <1>3, <1>4, PTL DEF Spec

----------------------------------------------------------------------------
(***************************************************************************)
(* Loops.                                                                  *)
(***************************************************************************)
\* Every node of C has its preferred parent in C: C contains a loop.
Looping(C) == C # {} /\ \A n \in C : node[n].preferred # None /\ node[n].preferred[1] \in C

\* What n has recorded of its preferred parent is not the rank that the
\* parent has, or it was found to be in a loop.
Outdated(n) ==
  LET d == node[n]
      p == d.preferred
  IN  \/ d.parents[p] # node[p[1]].rank
      \/ d.parents[p] = INFINITE_RANK /\ p \in d.updated

LoopsAreOutdated ==
  \A C \in SUBSET Client :
    Looping(C) => \/ \A n \in C : node[n].rank = INFINITE_RANK
                  \/ \E n \in C : Outdated(n)

LEMMA LeastOfNaturals ==
  ASSUME NEW T \in SUBSET Nat, T # {}
  PROVE  \E x \in T : \A y \in T : ~(y < x)
<1> DEFINE R == OpToRel(<, Nat)
<1>1. IsWellFoundedOn(R, Nat)
  BY NatLessThanWellFounded
<1>2. \A x, y \in Nat : y < x => <<y, x>> \in R
  BY DEF OpToRel
<1> HIDE DEF R
<1>3. \E x \in T : \A y \in T : <<y, x>> \notin R
  BY <1>1, WFMin
<1> QED
  BY <1>2, <1>3

\* In every run, routing loops live on outdated ranks only: once every node
\* of a loop has recorded the rank that its preferred parent really has, the
\* loop is broken or has counted up to infinity.
THEOREM LoopsNeedOutdatedRanks ==
  ASSUME OneRadioEach
  PROVE  Spec => []LoopsAreOutdated
<1>1. RankInv => LoopsAreOutdated
  <2> SUFFICES ASSUME RankInv, NEW C \in SUBSET Client, Looping(C),
                      \A n \in C : ~Outdated(n)
               PROVE  \A n \in C : node[n].rank = INFINITE_RANK
    BY DEF LoopsAreOutdated
  <2>1. \A n \in C : n \in Node /\ node[n] \in NodeRecord
    BY DEF RankInv, LinkInv, TypeInv, TypeOK, Client
  <2>2. \A n \in C : node[n].rank \in Nat
    BY <2>1 DEF NodeRecord, Rank
  <2> DEFINE T == {node[n].rank : n \in {k \in C : node[k].rank # INFINITE_RANK}}
  <2>3. SUFFICES ASSUME T # {}
                 PROVE  FALSE
    OBVIOUS
  <2>4. T \in SUBSET Nat
    BY <2>2
  <2>5. PICK x \in T : \A y \in T : ~(y < x)
    <3> HIDE DEF T
    <3> QED
      BY <2>3, <2>4, LeastOfNaturals
  <2>6. PICK n \in C : node[n].rank = x /\ x # INFINITE_RANK
    BY <2>5
  <2> DEFINE p == node[n].preferred
             k == p[1]
  <2>7. p # None /\ k \in C
    BY DEF Looping
  <2>8. x = calculate_rank(node[k].rank)
    <3>1. Follows(node[n])
      BY DEF RankInv, RankFollowsPreferred
    <3>2. /\ node[n].parents[p] = node[k].rank
          /\ ~(node[n].parents[p] = INFINITE_RANK /\ p \in node[n].updated)
      BY DEF Outdated
    <3> QED
      BY <2>6, <2>7, <3>1, <3>2 DEF Follows
  <2>9. node[k].rank < x /\ node[k].rank # INFINITE_RANK
    BY <2>2, <2>6, <2>7, <2>8, RplAssumption DEF calculate_rank
  <2>10. node[k].rank \in T
    BY <2>7, <2>9
  <2> QED
    BY <2>5, <2>9, <2>10
<1> QED
  BY <1>1, RankInit, RankStep, PTL DEF Spec

----------------------------------------------------------------------------
(***************************************************************************)
(* Versions.                                                               *)
(***************************************************************************)
FirstVersionOnly ==
  /\ \A n \in Node : node[n].version = LOLLIPOP_INIT
  /\ \A a \in Addr : dio[a].version = LOLLIPOP_INIT

\* Until the root repairs the DODAG or a node restarts.
VersionsStay == faults = 0 => FirstVersionOnly

VersionInv == TypeInv /\ VersionsStay

LEMMA NotNewerThanItself ==
  ASSUME NEW v \in Version
  PROVE  ~lollipop_greater_than(v, v)
<1>1. v \in Int /\ LOLLIPOP_CIRCULAR_REGION \in Int
  BY RplAssumption DEF Version
<1> QED
  BY <1>1 DEF lollipop_greater_than

LEMMA SameVersionStays ==
  ASSUME NEW d, TableKept(d), NEW p \in Addr, NEW m \in DioRecord, m.version = d.version,
         NEW e \in rpl_process_dio(d, p, m)
  PROVE  e.version = d.version
<1>1. d \in NodeRecord /\ d.version \in Version
  BY DEF TableKept, NodeRecord
<1>2. ~lollipop_greater_than(d.version, d.version)
  BY <1>1, NotNewerThanItself
<1>3. CASE ~d.joined
  BY <1>1, <1>3 DEF rpl_process_dio, Joined, NodeRecord
<1>4. CASE d.joined
  <2> DEFINE parents == [q \in Addr |->
                           IF q = p \/ (q \in Sibling(p) /\ d.parents[q] # Absent)
                           THEN m.rank ELSE d.parents[q]]
             h == [d EXCEPT !.parents = parents, !.updated = @ \union {p}]
  <2>1. Heard(d, p, m) = h /\ h.parents = parents /\ h.version = d.version
    BY <1>1 DEF Heard, NodeRecord
  <2>2. /\ parents \in [Addr -> Rank \union {Absent}]
        /\ \A q \in Parents(d) \union {p} : parents[q] # Absent
    BY <1>1, RplAssumption DEF NodeRecord, Parents, DioRecord, Rank, Absent
  <2>3. e \in rpl_process_parent_event(Heard(d, p, m), p)
    BY <1>2, <1>4 DEF rpl_process_dio
  <2> HIDE DEF parents
  <2>4. TableKept(h)
    BY <2>2, MarkingKeepsTable
  <2> HIDE DEF h
  <2>5. p \in Parents(h)
    BY <2>1, <2>2 DEF Parents
  <2>6. SameDag(h, e)
    BY <2>1, <2>3, <2>4, <2>5, EventKeepsTable
  <2> QED
    BY <2>1, <2>6 DEF SameDag
<1> QED
  BY <1>3, <1>4

LEMMA VersionInit == Init => VersionInv
  BY TypeInit DEF Init, VersionInv, VersionsStay, FirstVersionOnly, Fresh, NoDio

LEMMA VersionStep == VersionInv /\ [Next]_vars => VersionInv'
<1> SUFFICES ASSUME VersionInv, [Next]_vars, faults' = 0
             PROVE  FirstVersionOnly'
  BY TypeStep DEF VersionInv, VersionsStay
<1>1. TypeInv /\ node \in [Node -> NodeRecord] /\ dio \in [Addr -> DioRecord] /\ faults \in Nat
  BY RplAssumption DEF VersionInv, TypeInv, TypeOK
<1>2. Client \subseteq Node /\ Root \in Node /\ \A n \in Node : TableKept(node[n])
  BY <1>1, RplAssumption DEF Client, TypeInv, TablesKept
<1>3. LOLLIPOP_INIT \in Version
  BY RplAssumption DEF LOLLIPOP_INIT, Version
<1>4. ASSUME FirstVersionOnly, dio' = dio, NEW n \in Node, NEW d, d.version = node[n].version,
             node' = [node EXCEPT ![n] = d]
      PROVE  FirstVersionOnly'
  <2>1. \A k \in Node : node'[k] = IF k = n THEN d ELSE node[k]
    BY <1>1, <1>4
  <2> QED
    BY <1>4, <2>1 DEF FirstVersionOnly
<1>5. ASSUME node' = node, dio' = dio, FirstVersionOnly
      PROVE  FirstVersionOnly'
  BY <1>5 DEF FirstVersionOnly
<1>6. ASSUME NEW n \in Node, NEW r \in Radio, SendDio(n, r), FirstVersionOnly
      PROVE  FirstVersionOnly'
  <2> DEFINE m == [version |-> node[n].version, rank |-> node[n].rank,
                   to |-> {k \in Node : <<n, r, k>> \in Link}]
  <2>1. dio' = [dio EXCEPT ![<<n, r>>] = m] /\ node' = node
    BY <1>6 DEF SendDio
  <2>2. m.version = LOLLIPOP_INIT
    BY <1>6 DEF FirstVersionOnly
  <2> HIDE DEF m
  <2>3. \A a \in Addr : dio'[a] \in {m, dio[a]}
    BY <1>1, <2>1
  <2> QED
    BY <1>6, <2>1, <2>2, <2>3 DEF FirstVersionOnly
<1>7. ASSUME NEW n \in Node, NEW p \in Addr, DioInput(p, n), FirstVersionOnly
      PROVE  FirstVersionOnly'
  <2>1. dio[p] \in DioRecord /\ dio[p].version = node[n].version
    BY <1>1, <1>7 DEF FirstVersionOnly
  <2>2. \A a \in Addr : dio'[a].version = LOLLIPOP_INIT
    <3>1. dio' = [dio EXCEPT ![p] = Without(p, n)]
      BY <1>7 DEF DioInput
    <3>2. Without(p, n).version = LOLLIPOP_INIT
      BY <1>1, <1>7 DEF Without, NoDio, DioRecord, FirstVersionOnly
    <3> QED
      BY <1>1, <1>7, <3>1, <3>2 DEF FirstVersionOnly
  <2>3. PICK d : node' = [node EXCEPT ![n] = d] /\ d.version = node[n].version
    <3>1. CASE n = Root
      <4>1. ~lollipop_greater_than(dio[p].version, node[n].version)
        BY <1>1, <2>1, NotNewerThanItself DEF NodeRecord
      <4>2. node' = [node EXCEPT ![n] = node[n]]
        BY <1>7, <3>1, <4>1 DEF DioInput, RootProcessesDio
      <4> QED
        BY <4>2
    <3>2. CASE n # Root
      <4>1. PICK d \in rpl_process_dio(node[n], p, dio[p]) : node' = [node EXCEPT ![n] = d]
        BY <1>7, <3>2 DEF DioInput
      <4>2. d.version = node[n].version
        BY <1>2, <2>1, SameVersionStays
      <4> QED
        BY <4>1, <4>2
    <3> QED
      BY <3>1, <3>2
  <2>4. \A k \in Node : node'[k] = IF k = n THEN d ELSE node[k]
    BY <1>1, <2>3
  <2> QED
    BY <1>7, <2>2, <2>3, <2>4 DEF FirstVersionOnly
<1>8. ASSUME NEW n \in Node, NEW p \in Addr, DaoInput(p, n), FirstVersionOnly
      PROVE  FirstVersionOnly'
  <2>1. CASE ~LoopDetected(node[n], p)
    BY <1>5, <1>8, <2>1 DEF DaoInput
  <2>2. CASE LoopDetected(node[n], p)
    <3> DEFINE d == [node[n] EXCEPT !.parents[p] = INFINITE_RANK, !.updated = @ \union {p}]
    <3>1. node' = [node EXCEPT ![n] = d]
      BY <1>1, <1>8, <2>2 DEF DaoInput, NodeRecord
    <3>2. d.version = node[n].version
      BY <1>1 DEF NodeRecord
    <3> HIDE DEF d
    <3> QED
      BY <1>4, <1>8, <3>1, <3>2 DEF DaoInput
  <2> QED
    BY <2>1, <2>2
<1>9. ASSUME NEW n \in Client, NEW p \in Addr, LinkCallback(n, p), FirstVersionOnly
      PROVE  FirstVersionOnly'
  <2> DEFINE d == [node[n] EXCEPT !.updated = @ \union {p}]
  <2>1. node' = [node EXCEPT ![n] = d] /\ d.version = node[n].version
    BY <1>1, <1>2, <1>9 DEF LinkCallback, NodeRecord
  <2> HIDE DEF d
  <2> QED
    BY <1>2, <1>4, <1>9, <2>1 DEF LinkCallback
<1>10. ASSUME NEW n \in Client, NEW p \in Addr, RankErrorSignalled(n, p), FirstVersionOnly
       PROVE  FirstVersionOnly'
  <2> DEFINE r == node[p[1]].rank
             d == [node[n] EXCEPT !.parents[p] = r]
  <2>1. PICK o \in rpl_select_dag(d) : node' = [node EXCEPT ![n] = o.dag]
    BY <1>10 DEF RankErrorSignalled
  <2>2. p[1] \in Node /\ r \in Rank /\ TableKept(node[n]) /\ Absent \notin Rank
    BY <1>1, <1>2, RplAssumption DEF Addr, NodeRecord, Absent, Rank
  <2>3. /\ d \in NodeRecord /\ d.preferred = node[n].preferred
        /\ d.version = node[n].version
        /\ \A q \in Addr : d.parents[q] = IF q = p THEN r ELSE node[n].parents[q]
    BY <2>2 DEF NodeRecord, TableKept
  <2> HIDE DEF d, r
  <2>4. d.preferred # None => d.preferred \in Parents(d)
    BY <2>2, <2>3 DEF Parents, TableKept
  <2>5. o.dag.version = node[n].version
    BY <2>3, <2>4, SelectKeepsAttached DEF SameDag
  <2> QED
    BY <1>2, <1>4, <1>10, <2>1, <2>5 DEF RankErrorSignalled
<1>11. ASSUME NEW n \in Client, RecalculateRanks(n), FirstVersionOnly
       PROVE  FirstVersionOnly'
  <2>1. PICK d \in Recalculated(node[n]) : node' = [node EXCEPT ![n] = d]
    BY <1>11 DEF RecalculateRanks
  <2>2. SameDag([node[n] EXCEPT !.updated = {}], d)
    BY <1>2, <2>1, LoopKeepsTable
  <2>3. d.version = node[n].version
    BY <1>1, <1>2, <2>2 DEF SameDag, NodeRecord
  <2> QED
    BY <1>2, <1>4, <1>11, <2>1, <2>3 DEF RecalculateRanks
<1>12. ASSUME NEW n \in Client, FirstLoadUpdate(n), FirstVersionOnly
       PROVE  FirstVersionOnly'
  <2> DEFINE d == [node[n] EXCEPT !.init_phase = FALSE]
  <2>1. node' = [node EXCEPT ![n] = d] /\ d.version = node[n].version
    BY <1>1, <1>2, <1>12 DEF FirstLoadUpdate, NodeRecord
  <2> HIDE DEF d
  <2> QED
    BY <1>2, <1>4, <1>12, <2>1 DEF FirstLoadUpdate
<1>13. ~RepairRoot /\ \A n \in Node : ~Restart(n)
  BY <1>1 DEF RepairRoot, Restart
<1>14. faults = 0 /\ FirstVersionOnly
  <2>1. faults = 0
    BY <1>13 DEF Next, vars, SendDio, DioInput, DaoInput, LinkCallback, RankErrorSignalled,
                 SendDao, RecalculateRanks, FirstLoadUpdate
  <2> QED
    BY <2>1 DEF VersionInv, VersionsStay
<1>15. ASSUME NEW n \in Client, SendDao(n)
       PROVE  FirstVersionOnly'
  BY <1>5, <1>14, <1>15 DEF SendDao
<1>16. CASE UNCHANGED vars
  BY <1>5, <1>14, <1>16 DEF vars
<1> QED
  BY <1>6, <1>7, <1>8, <1>9, <1>10, <1>11, <1>12, <1>13, <1>14, <1>15, <1>16 DEF Next

\* No order of DIOs raises the version by itself: while nothing is repaired
\* and nothing restarts, every node and every DIO has the first version, so
\* that rpl_process_dio never takes one for a global repair.
THEOREM NoRepairUnprovoked == Spec => []VersionsStay
<1>1. VersionInv => VersionsStay
  BY DEF VersionInv
<1> QED
  BY <1>1, VersionInit, VersionStep, PTL DEF Spec

----------------------------------------------------------------------------
(***************************************************************************)
(* The rank with two radios: what is left of RankFollowsPreferred.         *)
(***************************************************************************)
FollowsOrRefused(d) ==
  d.preferred # None =>
    \/ d.rank = calculate_rank(d.parents[d.preferred])
    \/ ~acceptable_rank(d, d.parents[d.preferred])

RankFollowsOrRefused == \A n \in Client : FollowsOrRefused(node[n])

RefusedInv == TypeInv /\ RankFollowsOrRefused

LEMMA FollowsIsEnough ==
  ASSUME NEW d, Follows(d)
  PROVE  FollowsOrRefused(d)
  BY DEF Follows, FollowsOrRefused, acceptable_rank

LEMMA LoopKeepsRefused ==
  ASSUME NEW d, TableKept(d), FollowsOrRefused(d), NEW e \in Recalculated(d)
  PROVE  FollowsOrRefused(e)
<1> DEFINE none == [d EXCEPT !.updated = {}]
           X == {x \in NodeRecord : TableKept(x) /\ SameDag(none, x) /\ FollowsOrRefused(x)}
           G == [S \in SUBSET d.updated |-> X]
<1>1. /\ none \in NodeRecord /\ none.parents = d.parents /\ none.preferred = d.preferred
      /\ none.updated = {} /\ none.rank = d.rank /\ none.min_rank = d.min_rank
  BY DEF TableKept, NodeRecord
<1>2. none = [d EXCEPT !.updated = {}]
  OBVIOUS
<1> HIDE DEF none
<1>3. none \in G[{}]
  <2>1. TableKept(none) /\ SameDag(none, none)
    BY <1>1, FS_EmptySet DEF TableKept, Parents, SameDag
  <2>2. FollowsOrRefused(none)
    BY <1>1 DEF FollowsOrRefused, acceptable_rank
  <2> QED
    BY <1>1, <2>1, <2>2
<1>4. ASSUME NEW S \in SUBSET d.updated, NEW p \in S, NEW x \in G[S \ {p}]
      PROVE  rpl_process_parent_event(x, p) \subseteq G[S]
  <2>1. S \ {p} \in SUBSET d.updated
    OBVIOUS
  <2>2. x \in NodeRecord /\ TableKept(x) /\ SameDag(none, x) /\ FollowsOrRefused(x)
    BY <1>4, <2>1
  <2>3. p \in Parents(x)
    BY <1>1, <2>2 DEF TableKept, SameDag, Parents
  <2>4. ASSUME NEW y \in rpl_process_parent_event(x, p)
        PROVE  y \in X
    <3>1. TableKept(y) /\ SameDag(x, y) /\ y \in NodeRecord
      BY <2>2, <2>3, EventKeepsTable DEF TableKept
    <3>2. SameDag(none, y)
      BY <2>2, <3>1 DEF SameDag
    <3>3. y = x \/ Follows(y)
      BY <2>2, <2>3, EventRenewsRank DEF TableKept
    <3>4. FollowsOrRefused(y)
      BY <2>2, <3>3, FollowsIsEnough
    <3> QED
      BY <3>1, <3>2, <3>4
  <2> QED
    BY <2>4
<1>5. Recalculated(d) \subseteq G[d.updated]
  <2>1. IsFiniteSet(d.updated)
    BY DEF TableKept
  <2> HIDE DEF G
  <2> QED
    BY <1>2, <1>3, <1>4, <2>1, LoopKeeps
<1> QED
  BY <1>5

LEMMA DioKeepsRefused ==
  ASSUME NEW d, TableKept(d), FollowsOrRefused(d), NEW p \in Addr, NEW m \in DioRecord,
         NEW e \in rpl_process_dio(d, p, m)
  PROVE  FollowsOrRefused(e)
<1> DEFINE r == calculate_rank(m.rank)
<1>1. /\ m.rank \in Rank /\ m.version \in Version /\ r \in Rank
      /\ INFINITE_RANK \in Rank /\ p # None /\ Absent \notin Rank
  BY RankOfParent, RplAssumption DEF DioRecord, Rank, Absent
<1>2. d \in NodeRecord
  BY DEF TableKept
<1>3. CASE e = Joined(d, p, m)
  <2>1. e.preferred = p /\ e.parents[p] = m.rank /\ e.rank = r
    BY <1>2, <1>3 DEF Joined, OnlyParent, NodeRecord
  <2> QED
    BY <2>1 DEF FollowsOrRefused
<1>4. CASE e \in global_repair(d, p, m)
  <2> DEFINE none == [d EXCEPT !.version = m.version, !.rank = INFINITE_RANK,
                               !.min_rank = INFINITE_RANK, !.preferred = None,
                               !.parents = [q \in Addr |-> Absent], !.updated = {}]
             added == [none EXCEPT !.parents[p] = m.rank, !.rank = r, !.min_rank = r]
  <2>1. none \in NodeRecord /\ none.preferred = None
    BY <1>1, <1>2 DEF NodeRecord
  <2>2. added \in NodeRecord /\ added.preferred = None /\ added.parents[p] = m.rank
    BY <1>1, <2>1 DEF NodeRecord
  <2>3. e \in rpl_process_parent_event(added, p) \/ e = none
    BY <1>4 DEF global_repair
  <2> HIDE DEF none, added
  <2>4. p \in Parents(added)
    BY <1>1, <2>2 DEF Parents
  <2>5. CASE e \in rpl_process_parent_event(added, p)
    <3>1. Follows(e)
      BY <2>2, <2>4, <2>5, EventRenewsRank
    <3> QED
      BY <3>1, FollowsIsEnough
  <2>6. CASE e = none
    BY <2>1, <2>6 DEF FollowsOrRefused
  <2> QED
    BY <2>3, <2>5, <2>6
<1>5. CASE e \in rpl_process_parent_event(Heard(d, p, m), p)
  <2> DEFINE parents == [q \in Addr |->
                           IF q = p \/ (q \in Sibling(p) /\ d.parents[q] # Absent)
                           THEN m.rank ELSE d.parents[q]]
             h == [d EXCEPT !.parents = parents, !.updated = @ \union {p}]
  <2>1. /\ Heard(d, p, m) = h /\ h.parents = parents /\ h.preferred = d.preferred
        /\ h.rank = d.rank /\ h.min_rank = d.min_rank
    BY <1>2 DEF Heard, NodeRecord
  <2>2. /\ parents \in [Addr -> Rank \union {Absent}] /\ parents[p] = m.rank
        /\ \A q \in Parents(d) \union {p} : parents[q] # Absent
        /\ \A q \in Addr : parents[q] \in {m.rank, d.parents[q]}
    BY <1>1, <1>2 DEF NodeRecord, Parents
  <2> HIDE DEF parents
  <2>3. TableKept(h)
    BY <2>2, MarkingKeepsTable
  <2> HIDE DEF h
  <2>4. p \in Parents(h) /\ h \in NodeRecord
    BY <2>1, <2>2, <2>3 DEF Parents, TableKept
  <2>5. \/ e = h /\ ~acceptable_rank(h, m.rank)
        \/ Follows(e)
    BY <1>5, <2>1, <2>2, <2>3, <2>4, EventRenewsRank DEF TableKept
  <2>6. CASE e = h /\ ~acceptable_rank(h, m.rank)
    <3>1. \A k : acceptable_rank(h, k) = acceptable_rank(d, k)
      BY <2>1 DEF acceptable_rank
    <3>2. d.preferred # None => h.parents[d.preferred] \in {m.rank, d.parents[d.preferred]}
      BY <1>2, <2>1, <2>2 DEF NodeRecord
    <3> QED
      BY <2>1, <2>6, <3>1, <3>2 DEF FollowsOrRefused
  <2> QED
    BY <2>5, <2>6, FollowsIsEnough
<1>6. CASE e = d
  BY <1>6
<1> QED
  BY <1>3, <1>4, <1>5, <1>6 DEF rpl_process_dio

LEMMA RefusedInit == Init => RefusedInv
<1>1. \A n \in Client : n \in Node /\ Fresh(n).preferred = None
  BY DEF Client, Fresh
<1> QED
  BY <1>1, TypeInit DEF Init, RefusedInv, RankFollowsOrRefused, FollowsOrRefused

LEMMA RefusedStep == RefusedInv /\ [Next]_vars => RefusedInv'
<1> SUFFICES ASSUME RefusedInv, [Next]_vars
             PROVE  RankFollowsOrRefused'
  BY TypeStep DEF RefusedInv
<1> DEFINE Kept == RankFollowsOrRefused'
<1>1. TypeInv /\ node \in [Node -> NodeRecord] /\ dio \in [Addr -> DioRecord]
  BY DEF RefusedInv, TypeInv, TypeOK
<1>2. /\ \A n \in Client : n \in Node /\ n # Root /\ FollowsOrRefused(node[n])
      /\ \A n \in Node : TableKept(node[n])
  BY <1>1 DEF Client, RefusedInv, TypeInv, TablesKept, RankFollowsOrRefused
<1>3. ASSUME NEW n \in Node, NEW d, n # Root => FollowsOrRefused(d),
             node' = [node EXCEPT ![n] = d]
      PROVE  Kept
  <2>1. \A k \in Node : node'[k] = IF k = n THEN d ELSE node[k]
    BY <1>1, <1>3
  <2> QED
    BY <1>2, <1>3, <2>1 DEF RankFollowsOrRefused
<1>4. ASSUME node' = node
      PROVE  Kept
  BY <1>2, <1>4 DEF RankFollowsOrRefused
<1>5. ASSUME NEW n \in Node, NEW p \in Addr, DioInput(p, n)
      PROVE  Kept
  <2>1. CASE n = Root
    BY <1>3, <1>5, <2>1 DEF DioInput
  <2>2. CASE n # Root
    <3>1. PICK d \in rpl_process_dio(node[n], p, dio[p]) : node' = [node EXCEPT ![n] = d]
      BY <1>5, <2>2 DEF DioInput
    <3>2. TableKept(node[n]) /\ FollowsOrRefused(node[n]) /\ dio[p] \in DioRecord
      BY <1>1, <1>2, <2>2 DEF Client
    <3> QED
      BY <1>3, <3>1, <3>2, DioKeepsRefused
  <2> QED
    BY <2>1, <2>2
<1>6. ASSUME NEW n \in Node, NEW p \in Addr, DaoInput(p, n)
      PROVE  Kept
  <2>1. CASE ~LoopDetected(node[n], p)
    BY <1>4, <1>6, <2>1 DEF DaoInput
  <2>2. CASE LoopDetected(node[n], p)
    <3> DEFINE d == [node[n] EXCEPT !.parents[p] = INFINITE_RANK, !.updated = @ \union {p}]
    <3>1. node' = [node EXCEPT ![n] = d]
      BY <1>1, <1>6, <2>2 DEF DaoInput, NodeRecord
    <3>2. /\ d.preferred = node[n].preferred /\ d.rank = node[n].rank
          /\ d.min_rank = node[n].min_rank
          /\ \A q \in Addr : d.parents[q] = IF q = p THEN INFINITE_RANK ELSE node[n].parents[q]
      BY <1>1 DEF NodeRecord
    <3> HIDE DEF d
    <3>3. ASSUME n # Root
          PROVE  FollowsOrRefused(d)
      <4>1. FollowsOrRefused(node[n])
        BY <1>2, <3>3 DEF Client
      <4>2. d.preferred # None => d.preferred \in Addr
        BY <1>1, <3>2 DEF NodeRecord
      <4> QED
        BY <3>2, <4>1, <4>2 DEF FollowsOrRefused, acceptable_rank
    <3> QED
      BY <1>3, <3>1, <3>3
  <2> QED
    BY <2>1, <2>2
<1>7. ASSUME NEW n \in Client, NEW p \in Addr, LinkCallback(n, p)
      PROVE  Kept
  <2> DEFINE d == [node[n] EXCEPT !.updated = @ \union {p}]
  <2>1. node' = [node EXCEPT ![n] = d]
    BY <1>1, <1>2, <1>7 DEF LinkCallback
  <2>2. FollowsOrRefused(d)
    BY <1>1, <1>2 DEF FollowsOrRefused, acceptable_rank, NodeRecord
  <2> HIDE DEF d
  <2> QED
    BY <1>2, <1>3, <2>1, <2>2
<1>8. ASSUME NEW n \in Client, NEW p \in Addr, RankErrorSignalled(n, p)
      PROVE  Kept
  <2> DEFINE r == node[p[1]].rank
             d == [node[n] EXCEPT !.parents[p] = r]
  <2>1. PICK o \in rpl_select_dag(d) : node' = [node EXCEPT ![n] = o.dag]
    BY <1>8 DEF RankErrorSignalled
  <2>2. p[1] \in Node /\ r \in Rank /\ TableKept(node[n]) /\ Absent \notin Rank
    BY <1>1, <1>2, RplAssumption DEF Addr, NodeRecord, Absent, Rank
  <2>3. /\ d \in NodeRecord /\ d.preferred = node[n].preferred
        /\ \A q \in Addr : d.parents[q] = IF q = p THEN r ELSE node[n].parents[q]
    BY <2>2 DEF NodeRecord, TableKept
  <2> HIDE DEF d, r
  <2>4. d.preferred # None => d.preferred \in Parents(d)
    BY <2>2, <2>3 DEF Parents, TableKept
  <2>5. FollowsOrRefused(o.dag)
    BY <2>3, <2>4, SelectKeepsAttached, FollowsIsEnough
  <2> QED
    BY <1>2, <1>3, <2>1, <2>5
<1>9. ASSUME NEW n \in Client, RecalculateRanks(n)
      PROVE  Kept
  BY <1>2, <1>3, <1>9, LoopKeepsRefused DEF RecalculateRanks
<1>10. ASSUME NEW n \in Client, FirstLoadUpdate(n)
       PROVE  Kept
  <2> DEFINE d == [node[n] EXCEPT !.init_phase = FALSE]
  <2>1. node' = [node EXCEPT ![n] = d]
    BY <1>1, <1>2, <1>10 DEF FirstLoadUpdate
  <2>2. FollowsOrRefused(d)
    BY <1>1, <1>2 DEF FollowsOrRefused, acceptable_rank, NodeRecord
  <2> HIDE DEF d
  <2> QED
    BY <1>2, <1>3, <2>1, <2>2
<1>11. ASSUME RepairRoot
       PROVE  Kept
  <2> DEFINE d == [node[Root] EXCEPT !.version = LOLLIPOP_INCREMENT(@)]
  <2>1. Root \in Node
    BY RplAssumption
  <2>2. node' = [node EXCEPT ![Root] = d]
    BY <1>1, <1>11, <2>1 DEF RepairRoot
  <2> HIDE DEF d
  <2> QED
    BY <1>3, <2>1, <2>2
<1>12. ASSUME NEW n \in Node, Restart(n)
       PROVE  Kept
  <2>1. FollowsOrRefused(Fresh(n))
    BY DEF Fresh, FollowsOrRefused
  <2> QED
    BY <1>3, <1>12, <2>1 DEF Restart
<1>13. CASE UNCHANGED vars
  BY <1>4, <1>13 DEF vars
<1> QED
  BY <1>4, <1>5, <1>6, <1>7, <1>8, <1>9, <1>10, <1>11, <1>12, <1>13 DEF Next, SendDio, SendDao

\* With any radios and links, a node whose rank is not the one its preferred
\* parent gives it has a preferred parent that acceptable_rank refuses: the
\* step of rpl_process_dio that changes the parent on the other radio does
\* harm only when it brings that parent's rank out of the limit.
THEOREM RankFollowsUnlessRefused == Spec => []RankFollowsOrRefused
<1>1. RefusedInv => RankFollowsOrRefused
  BY DEF RefusedInv
<1> QED
  BY <1>1, RefusedInit, RefusedStep, PTL DEF Spec
=============================================================================
