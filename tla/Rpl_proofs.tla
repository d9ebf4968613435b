----------------------------- MODULE Rpl_proofs -----------------------------
(***************************************************************************)
(* Facts about the operators of Rpl that hold for every network and every  *)
(* bound: the order of the versions, and the rank of a node after any of   *)
(* the handlers that select a parent.  Whole runs are the subject of       *)
(* RplRuns_proofs.                                                         *)
(***************************************************************************)
EXTENDS Rpl, TLAPS

----------------------------------------------------------------------------
(***************************************************************************)
(* Versions.                                                               *)
(***************************************************************************)
LEMMA ModSmall ==
  ASSUME NEW m \in Nat, NEW x \in 0..(m - 1)
  PROVE  x % m = x
  OBVIOUS

LEMMA ModOnce ==
  ASSUME NEW m \in Nat, NEW x \in m..(2 * m - 1)
  PROVE  x % m = x - m
  OBVIOUS

\* RPL_LOLLIPOP_INCREMENT leaves versions versions, and a node takes the
\* version that rpl_repair_root makes for newer than the one before, never
\* for older, at both wraps of the counter as well.
THEOREM NextVersionIsNewer ==
  ASSUME NEW v \in Version
  PROVE  /\ LOLLIPOP_INCREMENT(v) \in Version
         /\ lollipop_greater_than(LOLLIPOP_INCREMENT(v), v)
         /\ ~lollipop_greater_than(v, LOLLIPOP_INCREMENT(v))
<1> DEFINE M == LOLLIPOP_MAX_VALUE
           C == LOLLIPOP_CIRCULAR_REGION
           W == LOLLIPOP_SEQUENCE_WINDOWS
<1>1. /\ C \in Nat /\ W \in Nat /\ M = 2 * C + 1 /\ W > 1 /\ C > 2 * W
      /\ v \in 0..M
  BY RplAssumption DEF Version
<1>2. CASE v = M
  <2>1. LOLLIPOP_INCREMENT(v) = 0
    BY <1>1, <1>2, ModOnce DEF LOLLIPOP_INCREMENT
  <2> QED
    BY <1>1, <1>2, <2>1 DEF lollipop_greater_than, Version
<1>3. CASE v = C
  <2>1. LOLLIPOP_INCREMENT(v) = 0
    BY <1>1, <1>3, ModOnce DEF LOLLIPOP_INCREMENT
  <2> QED
    BY <1>1, <1>3, <2>1 DEF lollipop_greater_than, Version
<1>4. CASE v # M /\ v # C
  <2>1. LOLLIPOP_INCREMENT(v) = v + 1
    BY <1>1, <1>4, ModSmall DEF LOLLIPOP_INCREMENT
  <2> QED
    BY <1>1, <1>4, <2>1 DEF lollipop_greater_than, Version
<1> QED
  BY <1>2, <1>3, <1>4

\* In the circular region a version is newer exactly if it is one of the
\* next LOLLIPOP_SEQUENCE_WINDOWS - 1, also after the wrap: a node that
\* misses more repairs than that no longer tells old from new.
THEOREM NewerMeansWithinWindow ==
  ASSUME NEW a \in 0..LOLLIPOP_CIRCULAR_REGION, NEW b \in 0..LOLLIPOP_CIRCULAR_REGION
  PROVE  lollipop_greater_than(a, b)
           <=> \E k \in 1..(LOLLIPOP_SEQUENCE_WINDOWS - 1) :
                 a = (b + k) % (LOLLIPOP_CIRCULAR_REGION + 1)
<1> DEFINE C == LOLLIPOP_CIRCULAR_REGION
           W == LOLLIPOP_SEQUENCE_WINDOWS
<1>1. C \in Nat /\ W \in Nat /\ W > 1 /\ C > 2 * W /\ a \in 0..C /\ b \in 0..C
  BY RplAssumption
<1>2. lollipop_greater_than(a, b) <=> (a > b /\ a - b < W) \/ (a < b /\ b - a > C + 1 - W)
  BY <1>1 DEF lollipop_greater_than
<1>3. \A k \in 1..(W - 1) :
        (b + k) % (C + 1) = IF b + k <= C THEN b + k ELSE b + k - (C + 1)
  <2> SUFFICES ASSUME NEW k \in 1..(W - 1)
               PROVE  (b + k) % (C + 1) = IF b + k <= C THEN b + k ELSE b + k - (C + 1)
    OBVIOUS
  <2>1. CASE b + k <= C
    <3> DEFINE m == C + 1
               x == b + k
    <3>1. m \in Nat /\ x \in 0..(m - 1)
      BY <1>1, <2>1
    <3>2. x % m = x
      <4> HIDE DEF m, x
      <4> QED
        BY <3>1, ModSmall
    <3> QED
      BY <2>1, <3>2
  <2>2. CASE b + k > C
    <3>1. C + 1 \in Nat /\ b + k \in (C + 1)..(2 * (C + 1) - 1)
      BY <1>1, <2>2
    <3>2. ~(b + k <= C)
      BY <1>1, <2>2
    <3>3. (b + k) % (C + 1) = b + k - (C + 1)
      BY <3>1, ModOnce
    <3> QED
      BY <3>2, <3>3
  <2>3. b + k <= C \/ b + k > C
    BY <1>1
  <2> QED
    BY <2>1, <2>2, <2>3
<1>4. ASSUME a > b, a - b < W
      PROVE  \E k \in 1..(W - 1) : a = (b + k) % (C + 1)
  <2>1. a - b \in 1..(W - 1) /\ b + (a - b) = a /\ a <= C
    BY <1>1, <1>4
  <2>2. (b + (a - b)) % (C + 1) = a
    BY <1>3, <2>1
  <2> QED
    BY <2>1, <2>2
<1>5. ASSUME a < b, b - a > C + 1 - W
      PROVE  \E k \in 1..(W - 1) : a = (b + k) % (C + 1)
  <2> DEFINE k == a + (C + 1) - b
  <2>1. k \in 1..(W - 1) /\ b + k = a + (C + 1) /\ ~(b + k <= C) /\ b + k - (C + 1) = a
    BY <1>1, <1>5
  <2>2. (b + k) % (C + 1) = a
    BY <1>3, <2>1
  <2> QED
    BY <2>1, <2>2
<1>6. ASSUME NEW k \in 1..(W - 1), a = (b + k) % (C + 1)
      PROVE  (a > b /\ a - b < W) \/ (a < b /\ b - a > C + 1 - W)
  <2>1. a = IF b + k <= C THEN b + k ELSE b + k - (C + 1)
    BY <1>3, <1>6
  <2> HIDE DEF C, W
  <2> QED
    BY <1>1, <2>1
<1> QED
  BY <1>2, <1>4, <1>5, <1>6

\* Two versions can each be newer than the other only if one is in the
\* linear region, where a node starts, and the other in the circular one.
THEOREM BothNewerOnlyAcrossRegions ==
  ASSUME NEW a \in Version, NEW b \in Version,
         lollipop_greater_than(a, b), lollipop_greater_than(b, a)
  PROVE  a > LOLLIPOP_CIRCULAR_REGION <=> b <= LOLLIPOP_CIRCULAR_REGION
<1> DEFINE M == LOLLIPOP_MAX_VALUE
           C == LOLLIPOP_CIRCULAR_REGION
           W == LOLLIPOP_SEQUENCE_WINDOWS
<1>1. /\ C \in Nat /\ W \in Nat /\ M = 2 * C + 1 /\ W > 1 /\ C > 2 * W
      /\ a \in 0..M /\ b \in 0..M
  BY RplAssumption DEF Version
<1> QED
  BY <1>1 DEF lollipop_greater_than

\* And there they are: a root that restarts, with the first version, and
\* nodes that remember any version of the circular region but 0 each take
\* the other's version for the newer one, so which of them gives way is a
\* matter of whose DIO is heard first.
THEOREM RestartedVersionIsAmbiguous ==
  ASSUME NEW b \in 1..LOLLIPOP_CIRCULAR_REGION
  PROVE  /\ LOLLIPOP_INIT \in Version
         /\ lollipop_greater_than(LOLLIPOP_INIT, b)
         /\ lollipop_greater_than(b, LOLLIPOP_INIT)
<1> DEFINE M == LOLLIPOP_MAX_VALUE
           C == LOLLIPOP_CIRCULAR_REGION
           W == LOLLIPOP_SEQUENCE_WINDOWS
<1>1. /\ C \in Nat /\ W \in Nat /\ M = 2 * C + 1 /\ W > 1 /\ C > 2 * W /\ b \in 1..C
  BY RplAssumption
<1> QED
  BY <1>1 DEF lollipop_greater_than, LOLLIPOP_INIT, Version

----------------------------------------------------------------------------
(***************************************************************************)
(* Ranks.                                                                  *)
(***************************************************************************)
\* What no event but a global repair changes.
SameDag(d, e) ==
  /\ e.joined = d.joined /\ e.version = d.version
  /\ e.parents = d.parents /\ e.updated = d.updated /\ e.init_phase = d.init_phase

LEMMA RankOfParent ==
  ASSUME NEW r \in Rank
  PROVE  calculate_rank(r) \in Rank
  BY RplAssumption DEF calculate_rank, Rank

\* best_parent of rpl-dag.c and of LT-MAX only yields parents.
LEMMA BestIsParent ==
  ASSUME NEW d \in NodeRecord, d.preferred # None => d.preferred \in Parents(d),
         NEW b \in best_parent(d), b # None
  PROVE  b \in Parents(d)
<1>1. Preferable(d, Candidates(d)) \subseteq Candidates(d)
  BY DEF Preferable
<1>2. Candidates(d) \subseteq Parents(d)
  BY DEF Candidates
<1> QED
  BY <1>1, <1>2 DEF best_parent

LEMMA SelectedIsAttached ==
  ASSUME NEW d \in NodeRecord, NEW b \in Parents(d)
  PROVE  LET e == Selected(d, b).dag
         IN  e \in NodeRecord /\ SameDag(d, e) /\ Follows(e) /\ Attached(e)
<1> DEFINE r == calculate_rank(d.parents[b])
           e == Selected(d, b).dag
<1>1. /\ b \in Addr /\ b # None /\ d.parents[b] \in Rank
      /\ r \in Rank /\ d.min_rank \in Rank
  BY RankOfParent, RplAssumption DEF Parents, NodeRecord
<1>2. r \in Int /\ MAX_RANKINC \in Nat /\ r <= r + MAX_RANKINC
  BY <1>1, RplAssumption DEF Rank
<1>3. \/ e = [d EXCEPT !.preferred = b, !.rank = r, !.min_rank = r]
      \/ r <= d.min_rank + MAX_RANKINC /\ e = [d EXCEPT !.preferred = b, !.rank = r]
      \/ e = [d EXCEPT !.preferred = None, !.rank = r]
  BY DEF Selected, acceptable_rank, NodeRecord
<1> HIDE DEF e, r
<1>4. e \in NodeRecord /\ SameDag(d, e)
  BY <1>1, <1>3 DEF NodeRecord, SameDag
<1>5. e.preferred # None =>
        e.preferred = b /\ e.rank = r /\ (e.min_rank = r \/ r <= e.min_rank + MAX_RANKINC)
  BY <1>1, <1>3 DEF NodeRecord
<1>6. Follows(e)
  BY <1>4, <1>5 DEF Follows, SameDag, r
<1>7. Attached(e)
  BY <1>2, <1>4, <1>5 DEF Attached, SameDag, Parents
<1> QED
  BY <1>4, <1>6, <1>7 DEF e

\* rpl_select_dag, whether it finds a DAG or not.
LEMMA SelectKeepsAttached ==
  ASSUME NEW d \in NodeRecord, d.preferred # None => d.preferred \in Parents(d),
         NEW o \in rpl_select_dag(d)
  PROVE  o.dag \in NodeRecord /\ SameDag(d, o.dag) /\ Follows(o.dag) /\ Attached(o.dag)
<1>1. PICK b \in best_parent(d) :
        o = IF b = None THEN [found |-> FALSE, dag |-> [d EXCEPT !.rank = INFINITE_RANK]]
            ELSE Selected(d, b)
  BY DEF rpl_select_dag
<1>2. CASE b # None
  BY <1>1, <1>2, BestIsParent, SelectedIsAttached
<1>3. CASE b = None
  <2>1. o.dag = [d EXCEPT !.rank = INFINITE_RANK]
    BY <1>1, <1>3
  <2>2. Candidates(d) = {}
    <3>1. None \notin Preferable(d, Candidates(d)) \union ({d.preferred} \ {None})
      BY RplAssumption DEF Preferable, Candidates, Parents
    <3> QED
      BY <1>1, <1>3, <3>1 DEF best_parent
  <2>3. d.preferred # None => d.parents[d.preferred] = INFINITE_RANK
    BY <2>2 DEF Candidates
  <2>4. INFINITE_RANK \in Rank /\ calculate_rank(INFINITE_RANK) = INFINITE_RANK
    BY RplAssumption DEF calculate_rank, Rank
  <2>5. o.dag \in NodeRecord /\ SameDag(d, o.dag)
    BY <2>1, <2>4 DEF NodeRecord, SameDag
  <2>6. o.dag.preferred = d.preferred /\ o.dag.rank = INFINITE_RANK
    BY <2>1 DEF NodeRecord
  <2>7. Follows(o.dag)
    BY <2>3, <2>4, <2>5, <2>6 DEF Follows, SameDag
  <2>8. Attached(o.dag)
    BY <2>3, <2>5, <2>6 DEF Attached, SameDag, Parents
  <2> QED
    BY <2>5, <2>7, <2>8
<1> QED
  BY <1>2, <1>3

\* A node without a preferred parent has no rank to keep.
LEMMA DetachedIsAttached ==
  ASSUME NEW d \in NodeRecord
  PROVE  LET e == [d EXCEPT !.preferred = None, !.rank = INFINITE_RANK]
         IN  e \in NodeRecord /\ SameDag(d, e) /\ Follows(e) /\ Attached(e)
<1>1. INFINITE_RANK \in Rank
  BY RplAssumption DEF Rank
<1> QED
  BY <1>1 DEF NodeRecord, SameDag, Follows, Attached

\* rpl_process_parent_event for parent p either leaves a node alone that has
\* another preferred parent while p is not acceptable, or leaves one whose rank follows its preferred
\* parent and keeps to the limit, whatever its rank was before.
LEMMA EventRenewsRank ==
  ASSUME NEW d \in NodeRecord, NEW p \in Parents(d),
         d.preferred # None => d.preferred \in Parents(d),
         NEW e \in rpl_process_parent_event(d, p)
  PROVE  /\ e \in NodeRecord /\ SameDag(d, e)
         /\ \/ /\ e = d /\ d.preferred \notin {p, None}
               /\ ~acceptable_rank(d, d.parents[p])
            \/ Follows(e) /\ Attached(e)
<1> DEFINE gone == [d EXCEPT !.preferred = None, !.rank = INFINITE_RANK]
<1>1. CASE ~acceptable_rank(d, d.parents[p])
  <2>1. e = rpl_nullify_parent(d, p)
    BY <1>1 DEF rpl_process_parent_event
  <2>2. CASE d.preferred \in {p, None}
    <3>1. e = gone
      BY <2>1, <2>2 DEF rpl_nullify_parent
    <3> QED
      BY <3>1, DetachedIsAttached
  <2>3. CASE d.preferred \notin {p, None}
    <3>1. e = d
      BY <2>1, <2>3 DEF rpl_nullify_parent
    <3> QED
      BY <1>1, <2>3, <3>1 DEF SameDag
  <2> QED
    BY <2>2, <2>3
<1>2. CASE acceptable_rank(d, d.parents[p])
  <2>1. PICK o \in rpl_select_dag(d) : e = IF o.found THEN o.dag ELSE rpl_local_repair(o.dag)
    BY <1>2 DEF rpl_process_parent_event
  <2>2. o.dag \in NodeRecord /\ SameDag(d, o.dag) /\ Follows(o.dag) /\ Attached(o.dag)
    BY SelectKeepsAttached
  <2>3. CASE o.found
    BY <2>1, <2>2, <2>3
  <2>4. CASE ~o.found
    <3>1. e = [o.dag EXCEPT !.preferred = None, !.rank = INFINITE_RANK]
      BY <2>1, <2>4 DEF rpl_local_repair
    <3>2. e \in NodeRecord /\ SameDag(o.dag, e) /\ Follows(e) /\ Attached(e)
      BY <2>2, <3>1, DetachedIsAttached
    <3> QED
      BY <2>2, <3>2 DEF SameDag
  <2> QED
    BY <2>3, <2>4
<1> QED
  BY <1>1, <1>2

\* Whatever parent p an event is about, rpl_process_parent_event leaves a
\* node whose rank follows its preferred parent and keeps to the limit; all
\* it needs is that this held of a preferred parent other than p.
LEMMA EventKeepsRank ==
  ASSUME NEW d \in NodeRecord, NEW p \in Parents(d),
         d.preferred # None => d.preferred \in Parents(d),
         d.preferred \notin {p, None} => Follows(d) /\ Attached(d),
         NEW e \in rpl_process_parent_event(d, p)
  PROVE  e \in NodeRecord /\ SameDag(d, e) /\ Follows(e) /\ Attached(e)
  BY EventRenewsRank

\* rpl_process_dio leaves such a node too, whether it joins, repairs, drops
\* the DIO or takes it as that of a parent, when the sender is no parent on
\* its other radio: the rank of that parent is changed as well.
LEMMA DioKeepsRank ==
  ASSUME NEW d \in NodeRecord, Follows(d), Attached(d),
         NEW p \in Addr, Sibling(p) \intersect Parents(d) = {}, NEW m \in DioRecord,
         NEW e \in rpl_process_dio(d, p, m)
  PROVE  e \in NodeRecord /\ Follows(e) /\ Attached(e)
<1> DEFINE r == calculate_rank(m.rank)
           h == Heard(d, p, m)
<1>1. /\ m.rank \in Rank /\ m.version \in Version /\ r \in Rank
      /\ INFINITE_RANK \in Rank /\ p # None /\ Absent \notin Rank
  BY RankOfParent, RplAssumption DEF DioRecord, Rank, Absent
<1>2. r <= r + MAX_RANKINC
  <2>1. r \in Int /\ MAX_RANKINC \in Nat
    BY <1>1, RplAssumption DEF Rank
  <2> QED
    BY <2>1
<1>3. CASE e = Joined(d, p, m)
  <2>1. e \in NodeRecord
    BY <1>1, <1>3 DEF Joined, OnlyParent, NodeRecord
  <2>2. /\ e.preferred = p /\ e.parents[p] = m.rank
        /\ e.rank = r /\ e.min_rank = r
    BY <1>3 DEF Joined, OnlyParent, NodeRecord
  <2> HIDE DEF r
  <2>3. Follows(e)
    BY <2>2 DEF Follows, r
  <2>4. Attached(e)
    BY <1>1, <1>2, <2>2 DEF Attached, Parents
  <2> QED
    BY <2>1, <2>3, <2>4
<1>4. CASE e \in global_repair(d, p, m)
  <2> DEFINE none == [d EXCEPT !.version = m.version, !.rank = INFINITE_RANK,
                               !.min_rank = INFINITE_RANK, !.preferred = None,
                               !.parents = [q \in Addr |-> Absent], !.updated = {}]
             added == [none EXCEPT !.parents[p] = m.rank, !.rank = r, !.min_rank = r]
  <2>1. none \in NodeRecord /\ none.preferred = None
    BY <1>1 DEF NodeRecord
  <2>2. /\ added \in NodeRecord /\ added.preferred = None
        /\ added.parents[p] = m.rank
    BY <1>1, <2>1 DEF NodeRecord
  <2>3. p \in Parents(added)
    BY <1>1, <2>2 DEF Parents
  <2>4. e \in rpl_process_parent_event(added, p) \/ e = none
    BY <1>4 DEF global_repair
  <2> HIDE DEF none, added
  <2> QED
    BY <2>1, <2>2, <2>3, <2>4, EventKeepsRank DEF Follows, Attached
<1>5. CASE e \in rpl_process_parent_event(h, p)
  <2>1. h = [d EXCEPT !.parents = [q \in Addr |-> IF q = p THEN m.rank ELSE @[q]],
                      !.updated = @ \union {p}]
    <3>1. \A q \in Addr : ~(q \in Sibling(p) /\ d.parents[q] # Absent)
      BY DEF Parents
    <3>2. [q \in Addr |-> IF q = p \/ (q \in Sibling(p) /\ d.parents[q] # Absent)
                         THEN m.rank ELSE d.parents[q]]
            = [q \in Addr |-> IF q = p THEN m.rank ELSE d.parents[q]]
      BY <3>1
    <3> QED
      BY <3>2 DEF Heard, NodeRecord
  <2>2. h \in NodeRecord
    <3> DEFINE parents == [q \in Addr |-> IF q = p THEN m.rank ELSE d.parents[q]]
               updated == d.updated \union {p}
    <3>1. parents \in [Addr -> Rank \union {Absent}] /\ updated \in SUBSET Addr
      BY <1>1 DEF NodeRecord
    <3>2. h = [d EXCEPT !.parents = parents, !.updated = updated]
      BY <2>1 DEF NodeRecord
    <3> HIDE DEF h, parents, updated
    <3> QED
      BY <3>1, <3>2 DEF NodeRecord
  <2>3. /\ h.preferred = d.preferred /\ h.rank = d.rank /\ h.min_rank = d.min_rank
        /\ h.parents[p] = m.rank /\ d.updated \subseteq h.updated
        /\ \A q \in Addr : q # p => h.parents[q] = d.parents[q]
    BY <2>1 DEF NodeRecord
  <2>4. d.preferred # None => d.preferred \in Addr /\ d.preferred \in Parents(d)
    BY DEF Attached, Parents
  <2> HIDE DEF h
  <2>5. p \in Parents(h) /\ (h.preferred # None => h.preferred \in Parents(h))
    BY <1>1, <2>3, <2>4 DEF Parents
  <2>6. h.preferred \notin {p, None} => Follows(h) /\ Attached(h)
    BY <2>3, <2>4, <2>5 DEF Follows, Attached
  <2> QED
    BY <1>5, <2>2, <2>5, <2>6, EventKeepsRank
<1>6. CASE e = d
  BY <1>6
<1> QED
  BY <1>3, <1>4, <1>5, <1>6 DEF rpl_process_dio

----------------------------------------------------------------------------
(***************************************************************************)
(* The handlers, rpl_recalculate_ranks apart.                              *)
(***************************************************************************)
Ranked(d) == d \in NodeRecord /\ Follows(d) /\ Attached(d)

OtherHandler ==
  \/ \E n \in Node, r \in Radio : SendDio(n, r)
  \/ \E p \in Addr, n \in Node : DioInput(p, n) \/ DaoInput(p, n)
  \/ \E n \in Client, p \in Addr : LinkCallback(n, p) \/ RankErrorSignalled(n, p)
  \/ \E n \in Client : SendDao(n) \/ FirstLoadUpdate(n)
  \/ RepairRoot
  \/ \E n \in Node : Restart(n)

LEMMA FreshIsRanked ==
  ASSUME NEW n \in Node
  PROVE  Ranked(Fresh(n))
<1>1. LOLLIPOP_INIT \in Version /\ ROOT_RANK \in Rank /\ INFINITE_RANK \in Rank
  BY RplAssumption DEF LOLLIPOP_INIT, Version, ROOT_RANK, Rank
<1> QED
  BY <1>1 DEF Fresh, Ranked, NodeRecord, Follows, Attached

\* A step that changes one node only needs to be looked at for that node.
LEMMA OneNode ==
  ASSUME TypeOK, RankFollowsPreferred, RankWithinLimit, NEW n \in Node, NEW d \in NodeRecord,
         n # Root => Follows(d) /\ Attached(d),
         node' = [node EXCEPT ![n] = d]
  PROVE  node' \in [Node -> NodeRecord] /\ RankFollowsPreferred' /\ RankWithinLimit'
<1>1. \A k \in Node : node'[k] = IF k = n THEN d ELSE node[k]
  BY DEF TypeOK
<1>2. node' \in [Node -> NodeRecord]
  BY DEF TypeOK
<1>3. \A k \in Client : Follows(node'[k]) /\ Attached(node'[k])
  BY <1>1 DEF Client, RankFollowsPreferred, RankWithinLimit
<1> QED
  BY <1>2, <1>3 DEF RankFollowsPreferred, RankWithinLimit

\* Where no DIO comes from a node that is a parent on its other radio, every
\* handler, the loop of rpl_recalculate_ranks apart, keeps
\* RankFollowsPreferred and RankWithinLimit: neither DIOs and DAOs in any
\* order nor restarts and repairs leave a node with a rank its preferred
\* parent did not give it.
LEMMA HandlersKeepRanks ==
  ASSUME TypeOK, RankFollowsPreferred, RankWithinLimit,
         \A p \in Addr : \A n \in dio[p].to : Sibling(p) \intersect Parents(node[n]) = {},
         OtherHandler
  PROVE  /\ node' \in [Node -> NodeRecord]
         /\ RankFollowsPreferred' /\ RankWithinLimit'
<1> DEFINE Kept == /\ node' \in [Node -> NodeRecord]
                   /\ RankFollowsPreferred' /\ RankWithinLimit'
<1>1. \A n \in Node : node[n] \in NodeRecord
  BY DEF TypeOK
<1>2. \A n \in Client : n \in Node /\ n # Root /\ Ranked(node[n])
  BY <1>1 DEF Client, Ranked, RankFollowsPreferred, RankWithinLimit
<1>3. INFINITE_RANK \in Rank /\ Absent \notin Rank
  BY RplAssumption DEF Rank, Absent
<1>4. ASSUME node' = node
      PROVE  Kept
  BY <1>4 DEF TypeOK, RankFollowsPreferred, RankWithinLimit
<1>5. ASSUME NEW n \in Node, NEW p \in Addr, DioInput(p, n)
      PROVE  Kept
  <2>1. dio[p] \in DioRecord
    BY DEF TypeOK
  <2>2. CASE n = Root
    <3> DEFINE d == RootProcessesDio(node[n], dio[p])
    <3>1. node' = [node EXCEPT ![n] = d]
      BY <1>5, <2>2 DEF DioInput
    <3>2. LOLLIPOP_INCREMENT(dio[p].version) \in Version
      BY <2>1, NextVersionIsNewer DEF DioRecord
    <3>3. d \in NodeRecord
      BY <1>1, <3>2 DEF RootProcessesDio, NodeRecord
    <3> QED
      BY <2>2, <3>1, <3>3, OneNode
  <2>3. CASE n # Root
    <3>1. PICK d \in rpl_process_dio(node[n], p, dio[p]) : node' = [node EXCEPT ![n] = d]
      BY <1>5, <2>3 DEF DioInput
    <3>2. Ranked(node[n])
      BY <1>2, <2>3 DEF Client
    <3>3. Sibling(p) \intersect Parents(node[n]) = {}
      BY <1>5 DEF DioInput
    <3>4. d \in NodeRecord /\ Follows(d) /\ Attached(d)
      BY <2>1, <3>2, <3>3, DioKeepsRank DEF Ranked
    <3> QED
      BY <3>1, <3>4, OneNode
  <2> QED
    BY <2>2, <2>3
<1>6. ASSUME NEW n \in Node, NEW p \in Addr, DaoInput(p, n)
      PROVE  Kept
  <2>1. CASE ~LoopDetected(node[n], p)
    BY <1>4, <1>6, <2>1 DEF DaoInput
  <2>2. CASE LoopDetected(node[n], p)
    <3> DEFINE parents == [node[n].parents EXCEPT ![p] = INFINITE_RANK]
               updated == node[n].updated \union {p}
               d == [node[n] EXCEPT !.parents = parents, !.updated = updated]
    <3>1. node' = [node EXCEPT ![n] = d]
      BY <1>1, <1>6, <2>2 DEF DaoInput, TypeOK, NodeRecord
    <3>2. /\ parents \in [Addr -> Rank \union {Absent}] /\ updated \in SUBSET Addr
          /\ \A q \in Addr : parents[q] = IF q = p THEN INFINITE_RANK ELSE node[n].parents[q]
          /\ p \in updated /\ node[n].updated \subseteq updated
      BY <1>1, <1>3 DEF NodeRecord
    <3> HIDE DEF parents, updated
    <3>3. d \in NodeRecord
      BY <1>1, <3>2 DEF NodeRecord
    <3>4. /\ d.parents = parents /\ d.updated = updated /\ d.rank = node[n].rank
          /\ d.preferred = node[n].preferred /\ d.min_rank = node[n].min_rank
      BY <1>1 DEF NodeRecord
    <3> HIDE DEF d
    <3>5. ASSUME n # Root
          PROVE  Follows(d) /\ Attached(d)
      <4>1. Follows(node[n]) /\ Attached(node[n])
        BY <1>2, <3>5 DEF Client, Ranked
      <4>2. CASE d.preferred \in {p, None}
        BY <1>3, <3>2, <3>4, <4>2 DEF Follows, Attached, Parents
      <4>3. CASE d.preferred \notin {p, None}
        <5>1. d.preferred \in Addr
          BY <3>4, <4>1, <4>3 DEF Attached, Parents
        <5>2. d.parents[d.preferred] = node[n].parents[node[n].preferred]
          BY <3>2, <3>4, <4>3, <5>1
        <5> QED
          BY <3>2, <3>4, <4>1, <4>3, <5>1, <5>2 DEF Follows, Attached, Parents
      <4> QED
        BY <4>2, <4>3
    <3> QED
      BY <3>1, <3>3, <3>5, OneNode
  <2> QED
    BY <2>1, <2>2
<1>7. ASSUME NEW n \in Client, NEW p \in Addr, LinkCallback(n, p)
      PROVE  Kept
  <2> DEFINE updated == node[n].updated \union {p}
             d == [node[n] EXCEPT !.updated = updated]
  <2>1. node' = [node EXCEPT ![n] = d]
    BY <1>2, <1>7 DEF LinkCallback, TypeOK
  <2>2. updated \in SUBSET Addr /\ node[n].updated \subseteq updated
    BY <1>2 DEF Ranked, NodeRecord
  <2> HIDE DEF updated
  <2>3. d \in NodeRecord /\ Follows(d) /\ Attached(d)
    BY <1>2, <2>2 DEF Ranked, NodeRecord, Follows, Attached, Parents
  <2> QED
    BY <1>2, <2>1, <2>3, OneNode
<1>8. ASSUME NEW n \in Client, NEW p \in Addr, RankErrorSignalled(n, p)
      PROVE  Kept
  <2> DEFINE r == node[p[1]].rank
             d == [node[n] EXCEPT !.parents[p] = r]
  <2>1. PICK o \in rpl_select_dag(d) : node' = [node EXCEPT ![n] = o.dag]
    BY <1>8 DEF RankErrorSignalled
  <2>2. r \in Rank
    <3>1. p[1] \in Node
      BY DEF Addr
    <3> QED
      BY <1>1, <3>1 DEF NodeRecord
  <2>3. d \in NodeRecord
    BY <1>2, <2>2 DEF Ranked, NodeRecord
  <2>4. d.preferred # None => d.preferred \in Parents(d)
    BY <1>2, <1>3, <2>2 DEF Ranked, NodeRecord, Attached, Parents
  <2> HIDE DEF d
  <2>5. o.dag \in NodeRecord /\ Follows(o.dag) /\ Attached(o.dag)
    BY <2>3, <2>4, SelectKeepsAttached
  <2> QED
    BY <1>2, <2>1, <2>5, OneNode
<1>9. ASSUME NEW n \in Client, FirstLoadUpdate(n)
      PROVE  Kept
  <2> DEFINE d == [node[n] EXCEPT !.init_phase = FALSE]
  <2>1. node' = [node EXCEPT ![n] = d]
    BY <1>2, <1>9 DEF FirstLoadUpdate, TypeOK
  <2>2. d \in NodeRecord /\ Follows(d) /\ Attached(d)
    BY <1>2 DEF Ranked, NodeRecord, Follows, Attached, Parents
  <2> QED
    BY <1>2, <2>1, <2>2, OneNode
<1>10. ASSUME RepairRoot
       PROVE  Kept
  <2> DEFINE v == LOLLIPOP_INCREMENT(node[Root].version)
             d == [node[Root] EXCEPT !.version = v]
  <2>1. Root \in Node
    BY RplAssumption
  <2>2. node' = [node EXCEPT ![Root] = d]
    BY <1>10, <2>1 DEF RepairRoot, TypeOK
  <2>3. v \in Version
    BY <1>1, <2>1, NextVersionIsNewer DEF NodeRecord
  <2> HIDE DEF v
  <2>4. d \in NodeRecord
    BY <1>1, <2>1, <2>3 DEF NodeRecord
  <2> QED
    BY <2>1, <2>2, <2>4, OneNode
<1>11. ASSUME NEW n \in Node, Restart(n)
       PROVE  Kept
  BY <1>11, FreshIsRanked, OneNode DEF Restart, Ranked
<1> QED
  BY <1>4, <1>5, <1>6, <1>7, <1>8, <1>9, <1>10, <1>11 DEF OtherHandler, SendDio, SendDao
=============================================================================
