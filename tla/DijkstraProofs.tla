----------------------------- MODULE DijkstraProofs ----------------------------
(***************************************************************************)
(* Proofs about homework13/dijkstra_shortest_path.cpp for every graph with *)
(* natural weights: what the search keeps true of its three arrays, that   *)
(* in the end no walk is shorter than the distance found, that the path    *)
(* printed is a walk of that length that meets no router twice, and that   *)
(* every step brings the end of the program nearer.                        *)
(***************************************************************************)
EXTENDS Dijkstra, FiniteSetTheorems, SequenceTheorems, TLAPS

(* Each road is in both adjacency lists. *)
Symmetric == \A e \in g : <<e[2], e[1], e[3]>> \in g

(* The arrays once they are there, and what is still unset before.         *)
Arrays ==
  /\ Asked => /\ dist \in [Router -> 0..INF]
              /\ prev \in [Router -> Router \cup {None}]
  /\ pc = "read" => ~Asked /\ vis = {}
  /\ pc \in {"read", "search"} => dst = None /\ x = None
  /\ pc \in {"read", "search"} \/ ~Asked => path = << >>

(* After the search whoever is unvisited is out of reach.                  *)
AllVisited ==
  Asked /\ pc \in {"follow", "end"} =>
    dst # None /\ \A r \in Router \ vis : dist[r] = INF

(* The way back: each router on it is the predecessor of the next, the     *)
(* last is dst, and x is the one to come.                                  *)
WayBack ==
  Asked /\ pc \in {"follow", "end"} =>
    IF dist[dst] = INF
      THEN pc = "end" /\ path = << >>
      ELSE /\ IF path = << >> THEN x = dst
                              ELSE path[Len(path)] = dst /\ x = prev[path[1]]
           /\ x # None => dist[x] < INF
           /\ \A i \in 1..Len(path) : dist[path[i]] < INF
           /\ \A i \in 1..(Len(path) - 1) : prev[path[i + 1]] = path[i]
           /\ pc = "end" => x = None

(* The routers can be ranked so that a predecessor ranks below its         *)
(* successors: in the order in which they are visited, the others, who     *)
(* rank alike, last.                                                       *)
RankedBy(ord, k) ==
  /\ k = Cardinality(vis)
  /\ \A v \in Router : prev[v] # None => ord[prev[v]] < ord[v]
  /\ \A u \in vis : ord[u] < k
  /\ x # None => \A i \in 1..Len(path) : ord[x] < ord[path[i]]
  /\ \A i, j \in 1..Len(path) : i < j => ord[path[i]] < ord[path[j]]

Ranked == Asked => \E ord \in [Router -> Nat], k \in Nat : RankedBy(ord, k)

SearchInv == Symmetric /\ Arrays /\ FrontierHolds /\ AllVisited
DijkstraInv == DijkstraTypeOK /\ SearchInv /\ WayBack /\ Ranked

USE WeightAssumption, InfAssumption, InputAssumption DEF None

-----------------------------------------------------------------------------
(* A nonempty set of naturals has a least element, and Min is that one.    *)
LEMMA MinOfNaturals ==
  ASSUME NEW T \in SUBSET Nat, T # {}
  PROVE  Min(T) \in T /\ \A d \in T : Min(T) <= d
<1>1. PICK m \in T : \A d \in T : <<d, m>> \notin OpToRel(<, Nat)
  BY NatLessThanWellFounded, WFMin
<1>2. ASSUME NEW d \in T, d < m PROVE FALSE
  <2>1. <<d, m>> \in OpToRel(<, Nat)
    BY <1>2, Zenon DEF OpToRel
  <2> QED BY <1>1, <2>1
<1>3. \A d \in T : m <= d
  BY ONLY <1>2, T \in SUBSET Nat, m \in T, SMT
<1>4. QED
  BY <1>3 DEF Min

-----------------------------------------------------------------------------
(* The graph.                                                              *)

LEMMA RouterFacts ==
  ASSUME n \in Nat
  PROVE  /\ \A r : r \in Router <=> r \in Nat /\ r < n
         /\ Router = 0..(n - 1) /\ None \notin Router
BY DEF Router

(* There are n routers, so no more can be visited.                         *)
LEMMA RoutersCounted ==
  ASSUME n \in Nat
  PROVE  IsFiniteSet(Router) /\ Cardinality(Router) = n
<1>1. IsFiniteSet(0..(n - 1)) /\ Cardinality(0..(n - 1)) = IF 0 > n - 1 THEN 0 ELSE (n - 1) - 0 + 1
  BY FS_Interval
<1>2. QED
  BY <1>1, RouterFacts

LEMMA VisitedAreFew ==
  ASSUME n \in Nat, vis \subseteq Router
  PROVE  IsFiniteSet(vis) /\ Cardinality(vis) \in Nat /\ Cardinality(vis) <= n
BY RoutersCounted, FS_Subset, FS_CardinalityType

(* What u offers v is its own distance and a road's weight.                *)
LEMMA OffersAreRoads ==
  ASSUME g \subseteq Router \X Router \X Weight, NEW u \in Router, NEW v \in Router
  PROVE  \A d : d \in Offers(u, v) <=> \E w \in Weight : <<u, v, w>> \in g /\ d = dist[u] + w
<1> DEFINE Ways == {f \in Adjacent(u) : f[1] = v}
<1>1. ASSUME NEW w \in Weight, <<u, v, w>> \in g
      PROVE  <<v, w>> \in Ways
  <2>1. <<u, v, w>>[1] = u /\ <<u, v, w>>[2] = v /\ <<u, v, w>>[3] = w
    OBVIOUS
  <2>2. <<v, w>> \in Adjacent(u)
    BY <1>1, <2>1 DEF Adjacent
  <2> QED BY <2>2
<1>2. ASSUME NEW f \in Ways
      PROVE  \E w \in Weight : <<u, v, w>> \in g /\ f[2] = w
  <2>1. PICK e \in g : e[1] = u /\ f = <<e[2], e[3]>>
    BY <1>2 DEF Adjacent
  <2>2. e = <<u, v, e[3]>> /\ e[3] \in Weight
    BY <2>1, <1>2
  <2> QED BY <2>1, <2>2
<1>3. \A w : <<v, w>>[2] = w
  OBVIOUS
<1>4. Offers(u, v) = {dist[u] + f[2] : f \in Ways}
  BY DEF Offers
<1> HIDE DEF Ways
<1>5. QED
  BY <1>1, <1>2, <1>3, <1>4

LEMMA RoadsBothWays ==
  ASSUME Symmetric, NEW u, NEW v, NEW w
  PROVE  Road(u, v, w) <=> <<u, v, w>> \in g
<1>1. <<v, u, w>>[1] = v /\ <<v, u, w>>[2] = u /\ <<v, u, w>>[3] = w
  OBVIOUS
<1>2. QED
  BY <1>1 DEF Road, Symmetric

(* A road read goes into both lists.                                       *)
LEMMA EdgesSymmetric ==
  ASSUME Symmetric, NEW a, NEW b, NEW w, g' = g \cup Edges(a, b, w)
  PROVE  Symmetric'
<1>1. \A e \in Edges(a, b, w) : <<e[2], e[1], e[3]>> \in Edges(a, b, w)
  BY DEF Edges
<1>2. QED
  BY <1>1 DEF Symmetric

-----------------------------------------------------------------------------
(* What a visit does: lines 70 to 79 for the router chosen.            *)

Visits(u) ==
  /\ pc = "search" /\ u \in Router /\ IsNearest(u) /\ dist[u] # INF
  /\ vis' = vis \cup {u}
  /\ dist' = [v \in Router |-> IF Better(u, v) THEN Min(Offers(u, v)) ELSE dist[v]]
  /\ prev' = [v \in Router |-> IF Better(u, v) THEN u ELSE prev[v]]
  /\ UNCHANGED <<pc, n, g, src, dst, x, path>>

(* A visit changes the entries of unvisited routers alone, and only where  *)
(* a road from u is the shorter way; what it leaves is no longer than any  *)
(* road from u.                                                            *)
Kept(v) == dist'[v] = dist[v] /\ prev'[v] = prev[v]
Shortened(u, v) ==
  /\ v \in Router \ (vis \cup {u}) /\ v # src
  /\ dist'[v] < dist[v] /\ dist[u] <= dist'[v] /\ prev'[v] = u
  /\ \E w \in Weight : <<u, v, w>> \in g /\ dist'[v] = dist[u] + w

LEMMA VisitEffect ==
  ASSUME DijkstraTypeOK, SearchInv, NEW u, Visits(u)
  PROVE  /\ Asked
         /\ dist[u] \in Nat /\ dist[u] < INF /\ u \in Router \ vis
         /\ \A v \in vis : dist[v] <= dist[u]
         /\ \A v \in Router \ vis : dist[u] <= dist[v]
         /\ \A v \in Router : Kept(v) \/ Shortened(u, v)
         /\ \A v \in Router : dist[v] \in 0..INF /\ dist'[v] \in 0..INF
         /\ \A v \in Router, w \in Weight : <<u, v, w>> \in g => dist'[v] <= dist[u] + w
<1>1. /\ Asked /\ g \subseteq Router \X Router \X Weight
      /\ dist \in [Router -> 0..INF]
  BY DEF DijkstraTypeOK, Visits, Asked
<1>2. /\ u \in Router \ vis /\ dist[u] \in Nat /\ dist[u] < INF
      /\ \A v \in Router \ vis : dist[u] <= dist[v]
      /\ \A v \in vis : dist[v] <= dist[u]
      /\ \A v \in vis : v \in Router
  <2>1. u \in Router \ vis /\ dist[u] # INF /\ IsNearest(u)
    BY DEF Visits, IsNearest
  <2>2. \A v \in Router : dist[v] \in 0..INF
    BY <1>1
  <2>3. \A v \in Router \ vis : dist[u] <= dist[v]
    BY <2>1, <2>2 DEF IsNearest
  <2>4. \A v \in vis : dist[v] <= dist[u] /\ v \in Router
    BY <1>1, <2>1 DEF SearchInv, FrontierHolds, DijkstraTypeOK
  <2>5. QED
    BY <2>1, <2>2, <2>3, <2>4
<1>3. ASSUME NEW v \in Router
      PROVE  /\ Kept(v) \/ Shortened(u, v)
             /\ dist'[v] \in 0..INF
             /\ \A w \in Weight : <<u, v, w>> \in g => dist'[v] <= dist[u] + w
  <2>1. /\ dist'[v] = IF Better(u, v) THEN Min(Offers(u, v)) ELSE dist[v]
        /\ prev'[v] = IF Better(u, v) THEN u ELSE prev[v]
    BY DEF Visits
  <2>2. \A d : d \in Offers(u, v) <=> \E w \in Weight : <<u, v, w>> \in g /\ d = dist[u] + w
    BY <1>1, <1>2, OffersAreRoads
  <2>3. Offers(u, v) \in SUBSET Nat /\ \A d \in Offers(u, v) : dist[u] <= d
    <3>1. \A w \in Weight : dist[u] + w \in Nat /\ dist[u] <= dist[u] + w
      BY <1>2
    <3>2. QED
      BY <2>2, <3>1
  <2>4. dist[v] \in 0..INF
    BY <1>1
  <2>5. CASE Better(u, v)
    <3>1. PICK d \in Offers(u, v) : d < dist[v]
      BY <2>5 DEF Better
    <3>2. Min(Offers(u, v)) \in Offers(u, v) /\ \A e \in Offers(u, v) : Min(Offers(u, v)) <= e
      BY <2>3, <3>1, MinOfNaturals
    <3>3. /\ dist'[v] \in Offers(u, v) /\ \A e \in Offers(u, v) : dist'[v] <= e
          /\ prev'[v] = u
      BY <2>1, <2>5, <3>2
    <3>4. dist'[v] \in Nat /\ dist[u] <= dist'[v] /\ dist'[v] < dist[v]
      BY <2>3, <2>4, <3>1, <3>3
    <3>5. v \notin vis /\ v # u
      BY <1>2, <2>4, <3>4
    <3>6. v # src
      BY <1>1, <1>2, <3>4 DEF SearchInv, FrontierHolds
    <3>7. \E w \in Weight : <<u, v, w>> \in g /\ dist'[v] = dist[u] + w
      BY <2>2, <3>3
    <3>8. Shortened(u, v)
      BY <3>3, <3>4, <3>5, <3>6, <3>7 DEF Shortened
    <3>9. dist'[v] \in 0..INF
      BY <2>4, <3>4
    <3>10. \A w \in Weight : <<u, v, w>> \in g => dist'[v] <= dist[u] + w
      BY <2>2, <3>3
    <3>11. QED
      BY <3>8, <3>9, <3>10
  <2>6. CASE ~Better(u, v)
    <3>1. Kept(v)
      BY <2>1, <2>6 DEF Kept
    <3>2. ASSUME NEW w \in Weight, <<u, v, w>> \in g
          PROVE  dist'[v] <= dist[u] + w
      <4>1. dist[u] + w \in Offers(u, v)
        BY <2>2, <3>2
      <4>2. ~(dist[u] + w < dist[v])
        BY <4>1, <2>6 DEF Better
      <4>3. QED
        BY <2>4, <1>2, <3>1, <4>2, w \in Nat DEF Kept
    <3>3. QED
      BY <2>4, <3>1, <3>2 DEF Kept
  <2>7. QED
    BY <2>5, <2>6
<1>4. QED
  BY <1>1, <1>2, <1>3

(* A visit keeps the frontier.                                             *)
LEMMA VisitKeepsFrontier ==
  ASSUME DijkstraTypeOK, SearchInv, NEW u, Visits(u)
  PROVE  FrontierHolds'
<1> USE VisitEffect
<1>1. /\ vis' = vis \cup {u} /\ UNCHANGED <<n, g, src, Router>>
      /\ Symmetric /\ src \in Router /\ vis \subseteq Router
  BY DEF Visits, SearchInv, DijkstraTypeOK, Asked, Router
<1>2. \A v \in vis \cup {u} : Kept(v)
  BY <1>1 DEF Shortened
<1>3. dist'[src] = 0 /\ prev'[src] = None
  BY <1>1 DEF Kept, Shortened, SearchInv, FrontierHolds
<1>4. \A r \in vis' : \A v \in Router \ vis' : dist'[r] <= dist'[v]
  <2> TAKE r \in vis'
  <2> TAKE v \in Router \ vis'
  <2>1. dist'[r] = dist[r] /\ dist[r] <= dist[u]
    BY <1>1, <1>2 DEF Kept
  <2>2. dist[u] <= dist'[v]
    BY <1>1 DEF Kept, Shortened
  <2>3. QED
    BY <1>1, <2>1, <2>2
<1>5. \A r \in vis' : dist'[r] < INF
  BY <1>1, <1>2 DEF Kept, SearchInv, FrontierHolds
<1>6. \A r \in vis', v \in Router, w \in Weight : Road(r, v, w) => dist'[v] <= dist'[r] + w
  <2> SUFFICES ASSUME NEW r \in vis', NEW v \in Router, NEW w \in Weight, Road(r, v, w)
               PROVE  dist'[v] <= dist'[r] + w
    OBVIOUS
  <2>1. <<r, v, w>> \in g
    BY <1>1, RoadsBothWays
  <2>2. dist'[r] = dist[r]
    BY <1>1, <1>2 DEF Kept
  <2>3. CASE r = u
    BY <2>1, <2>2, <2>3
  <2>4. CASE r \in vis
    <3>1. dist[v] <= dist[r] + w
      BY <2>4 DEF SearchInv, FrontierHolds
    <3>2. dist'[v] <= dist[v]
      BY DEF Kept, Shortened
    <3>3. dist[r] \in Nat /\ dist[v] \in Nat /\ dist'[v] \in Nat /\ w \in Nat
      <4>1. r \in Router
        BY <2>4, <1>1
      <4>2. 0..INF \subseteq Nat
        BY InfAssumption
      <4>3. QED
        BY <4>1, <4>2, WeightAssumption
    <3>4. QED
      BY ONLY <2>2, <3>1, <3>2, <3>3, SMTT(30)
  <2>5. QED
    BY <1>1, <2>3, <2>4
<1>7. ASSUME NEW v \in Router
      PROVE  IF dist'[v] = INF \/ v = src
               THEN prev'[v] = None
               ELSE /\ prev'[v] \in vis'
                    /\ \E w \in Weight : Road(prev'[v], v, w) /\ dist'[v] = dist'[prev'[v]] + w
  <2>1. CASE Kept(v)
    <3>1. CASE dist[v] = INF \/ v = src
      BY <2>1, <3>1 DEF Kept, SearchInv, FrontierHolds
    <3>2. CASE ~(dist[v] = INF \/ v = src)
      <4>1. prev[v] \in vis
        BY <3>2 DEF SearchInv, FrontierHolds
      <4>2. \E w \in Weight : Road(prev[v], v, w) /\ dist[v] = dist[prev[v]] + w
        BY <3>2 DEF SearchInv, FrontierHolds
      <4>3. dist'[prev[v]] = dist[prev[v]]
        BY <4>1, <1>2 DEF Kept
      <4>4. QED
        BY <1>1, <2>1, <3>2, <4>1, <4>2, <4>3 DEF Kept
    <3>3. QED
      BY <3>1, <3>2
  <2>2. CASE Shortened(u, v)
    <3>1. PICK w \in Weight : <<u, v, w>> \in g /\ dist'[v] = dist[u] + w
      BY <2>2 DEF Shortened
    <3>2. Road(u, v, w) /\ dist'[u] = dist[u]
      BY <3>1, <1>1, <1>2, RoadsBothWays DEF Kept
    <3>3. dist'[v] # INF /\ v # src /\ prev'[v] = u
      BY <2>2 DEF Shortened
    <3>4. QED
      BY <1>1, <3>1, <3>2, <3>3
  <2>3. QED
    BY <2>1, <2>2
<1>8. (\A a, b, w : Road(a, b, w)' <=> Road(a, b, w)) /\ Router' = Router
  BY <1>1 DEF Road
<1>9. QED
  BY <1>1, <1>3, <1>4, <1>5, <1>6, <1>7, <1>8 DEF FrontierHolds

-----------------------------------------------------------------------------
(* Every step keeps the invariant.                                         *)

(* Whoever is nobody yet gets the number n, and every number is below the  *)
(* new n.  While roads are read nothing has been asked.                    *)
LEMMA ReadRoadKeeps ==
  ASSUME DijkstraInv, ReadRoad
  PROVE  DijkstraInv'
<1>1. PICK a \in 0..n : \E b \in 0..CountWith(n, a), w \in Weight :
        /\ n' = CountWith(CountWith(n, a), b)
        /\ n' <= MaxNodes
        /\ g' = g \cup Edges(a, b, w)
  BY DEF ReadRoad
<1>2. PICK b \in 0..CountWith(n, a), w \in Weight :
        /\ n' = CountWith(CountWith(n, a), b)
        /\ n' <= MaxNodes
        /\ g' = g \cup Edges(a, b, w)
  BY <1>1
<1>3. n \in Nat /\ g \subseteq Router \X Router \X Weight
  BY DEF DijkstraInv, DijkstraTypeOK
<1>4. n' \in 0..MaxNodes /\ n <= n' /\ a < n' /\ b < n' /\ a \in Nat /\ b \in Nat
  <2>1. CountWith(n, a) \in Nat /\ a < CountWith(n, a) /\ n <= CountWith(n, a)
    BY <1>3 DEF CountWith
  <2>2. n' \in Nat /\ b < n' /\ CountWith(n, a) <= n'
    BY <1>2, <2>1 DEF CountWith
  <2>3. QED
    BY <1>2, <1>3, <2>1, <2>2
<1>5. /\ pc = "read" /\ ~Asked /\ vis = {} /\ path = << >> /\ x = None /\ dst = None
      /\ UNCHANGED <<pc, src, dst, dist, prev, vis, x, path>> /\ Symmetric
  BY DEF ReadRoad, searchVars, DijkstraInv, SearchInv, Arrays
<1>6. Router \subseteq Router' /\ a \in Router' /\ b \in Router'
  BY <1>3, <1>4 DEF Router
<1>7. g' \subseteq (Router \X Router \X Weight)'
  <2>1. Edges(a, b, w) \subseteq (Router \X Router \X Weight)'
    BY <1>6 DEF Edges
  <2>2. g \subseteq (Router \X Router \X Weight)'
    BY <1>3, <1>6
  <2>3. QED
    BY <1>2, <2>1, <2>2
<1>8. DijkstraTypeOK'
  BY <1>4, <1>5, <1>7 DEF DijkstraTypeOK, Asked
<1>9. Symmetric'
  BY <1>2, <1>5, EdgesSymmetric
<1>10. QED
  BY <1>5, <1>8, <1>9 DEF DijkstraInv, SearchInv, Arrays, FrontierHolds, AllVisited, WayBack,
                          Ranked, Asked

LEMMA AskKnownKeeps ==
  ASSUME DijkstraInv, AskKnown
  PROVE  DijkstraInv'
<1>1. PICK s \in Router : /\ src' = s
                          /\ dist' = [r \in Router |-> IF r = s THEN 0 ELSE INF]
                          /\ prev' = [r \in Router |-> None]
                          /\ pc' = "search"
                          /\ UNCHANGED <<n, g, dst, vis, x, path>>
  BY DEF AskKnown
<1>2. /\ pc = "read" /\ vis = {} /\ path = << >> /\ x = None /\ dst = None /\ Symmetric
      /\ n \in Nat
  BY DEF AskKnown, DijkstraInv, SearchInv, Arrays, DijkstraTypeOK
<1>3. s # None /\ Router' = Router /\ Asked'
  BY <1>1, <1>2, RouterFacts DEF Router, Asked
<1>4. DijkstraTypeOK'
  BY <1>1, <1>2, <1>3 DEF DijkstraInv, DijkstraTypeOK
<1>5. Symmetric' /\ Arrays' /\ AllVisited' /\ WayBack'
  BY <1>1, <1>2, <1>3, <1>4 DEF Symmetric, Arrays, AllVisited, WayBack, DijkstraTypeOK
<1>6. FrontierHolds'
  BY <1>1, <1>2, <1>3 DEF FrontierHolds
<1>7. Ranked'
  <2>1. RankedBy([r \in Router |-> 0], 0)'
    BY <1>1, <1>2, <1>3, FS_EmptySet DEF RankedBy
  <2>2. QED
    BY <1>3, <2>1 DEF Ranked
<1>8. QED
  BY <1>4, <1>5, <1>6, <1>7 DEF DijkstraInv, SearchInv

LEMMA AskUnknownKeeps ==
  ASSUME DijkstraInv, AskUnknown
  PROVE  DijkstraInv'
<1>1. /\ pc' = "end" /\ UNCHANGED <<n, g, src, dst, dist, prev, vis, x, path>>
      /\ ~Asked /\ path = << >> /\ Symmetric /\ DijkstraTypeOK
  BY DEF AskUnknown, searchVars, DijkstraInv, SearchInv, Arrays
<1>2. DijkstraTypeOK'
  BY <1>1 DEF DijkstraTypeOK, Router
<1>3. QED
  BY <1>1, <1>2 DEF DijkstraInv, SearchInv, Symmetric, Arrays, FrontierHolds, AllVisited,
                    WayBack, Ranked, Asked

(* The router visited ranks below all that are still unvisited.            *)
LEMMA VisitKeeps ==
  ASSUME DijkstraInv, Visit
  PROVE  DijkstraInv'
<1>1. PICK u \in Router : Visits(u)
  BY DEF Visit, Visits
<1>2. /\ DijkstraTypeOK /\ SearchInv /\ pc = "search"
      /\ vis' = vis \cup {u}
      /\ UNCHANGED <<pc, n, g, src, dst, x, path>> /\ Router' = Router
  BY <1>1 DEF DijkstraInv, Visits, Router
<1>3. Asked /\ dst = None /\ x = None /\ path = << >>
  BY <1>2 DEF SearchInv, Arrays, DijkstraTypeOK, Asked
<1>4. \A v \in Router : /\ Kept(v) \/ Shortened(u, v)
                        /\ dist'[v] \in 0..INF
  BY <1>1, <1>2, VisitEffect
<1>5. prev' \in [Router -> Router \cup {None}] /\ dist' \in [Router -> 0..INF]
  <2>1. \A v \in Router : prev'[v] \in Router \cup {None}
    BY <1>2, <1>3, <1>4 DEF Kept, Shortened, SearchInv, Arrays
  <2>2. DOMAIN dist' = Router /\ DOMAIN prev' = Router
    BY <1>1 DEF Visits
  <2>3. dist' = [v \in Router |-> dist'[v]] /\ prev' = [v \in Router |-> prev'[v]]
    BY <1>1 DEF Visits
  <2>4. QED
    BY <2>1, <2>3, <1>4
<1>6. DijkstraTypeOK'
  BY <1>2, <1>5 DEF DijkstraTypeOK
<1>7. Symmetric' /\ Arrays' /\ AllVisited' /\ WayBack'
  BY <1>2, <1>3, <1>5 DEF SearchInv, Symmetric, Arrays, AllVisited, WayBack, Asked
<1>8. FrontierHolds'
  BY <1>1, <1>2, VisitKeepsFrontier
<1>9. Ranked'
  <2>1. PICK ord \in [Router -> Nat], k \in Nat : RankedBy(ord, k)
    BY <1>3 DEF DijkstraInv, Ranked
  <2>2. PICK rank \in [Router -> Nat] :
          rank = [v \in Router |-> IF v \in vis THEN ord[v] ELSE IF v = u THEN k ELSE k + 1]
    <3>1. \A v \in Router : ord[v] \in Nat /\ k \in Nat /\ k + 1 \in Nat
      BY <2>1
    <3>2. [v \in Router |-> IF v \in vis THEN ord[v] ELSE IF v = u THEN k ELSE k + 1]
            \in [Router -> Nat]
      BY <3>1
    <3>3. QED
      BY <3>2
  <2>3. \A v \in vis : ord[v] < k /\ v \in Router /\ ord[v] \in Nat
    BY <1>2, <2>1 DEF RankedBy, DijkstraTypeOK
  <2>4. u \in Router \ vis
    BY <1>1, <1>2, VisitEffect
  <2>5. \A v \in Router : prev[v] # None => prev[v] \in vis /\ ord[prev[v]] < ord[v]
    <3>1. \A v \in Router : prev[v] # None => prev[v] \in vis
      BY <1>2, <1>3 DEF SearchInv, FrontierHolds
    <3>2. QED
      BY <2>1, <3>1 DEF RankedBy
  <2>6. ASSUME NEW v \in Router, prev'[v] # None
        PROVE  rank[prev'[v]] < rank[v]
    <3>1. CASE Shortened(u, v)
      <4>1. prev'[v] = u /\ v \notin vis /\ v # u
        BY <3>1 DEF Shortened
      <4>2. rank[u] = k /\ rank[v] = k + 1
        BY <2>2, <2>4, <4>1
      <4>3. QED
        BY <4>1, <4>2
    <3>2. CASE Kept(v)
      <4>1. prev'[v] = prev[v] /\ prev[v] \in vis /\ ord[prev[v]] < ord[v]
        BY <3>2, <2>5, <2>6 DEF Kept
      <4>2. rank[prev[v]] = ord[prev[v]] /\ ord[prev[v]] < k /\ ord[prev[v]] \in Nat
        BY <2>2, <4>1, <2>3
      <4>3. rank[v] = ord[v] \/ rank[v] = k \/ rank[v] = k + 1
        BY <2>2
      <4>4. QED
        BY <4>1, <4>2, <4>3
    <3>3. QED
      BY <1>4, <3>1, <3>2
  <2>7. \A v \in vis' : rank[v] < k + 1
    <3>1. \A v \in vis : rank[v] = ord[v]
      BY <2>2, <2>3
    <3>2. rank[u] = k
      BY <2>2, <2>4
    <3>3. QED
      BY <1>2, <2>3, <3>1, <3>2
  <2>8. RankedBy(rank, k + 1)'
    <3>1. IsFiniteSet(vis) /\ k = Cardinality(vis)
      BY <1>2, <2>1, VisitedAreFew DEF RankedBy, DijkstraTypeOK
    <3>2. Cardinality(vis') = k + 1
      BY <1>2, <2>4, <3>1, FS_AddElement
    <3>3. QED
      BY <1>2, <1>3, <2>6, <2>7, <3>2 DEF RankedBy
  <2>9. QED
    BY <1>2, <2>2, <2>8 DEF Ranked
<1>10. QED
  BY <1>6, <1>7, <1>8, <1>9 DEF DijkstraInv, SearchInv

LEMMA StopSearchKeeps ==
  ASSUME DijkstraInv, StopSearch
  PROVE  DijkstraInv'
<1>1. PICK d \in Router : /\ dst' = d
                          /\ IF dist[d] = INF THEN pc' = "end" /\ UNCHANGED x
                                              ELSE pc' = "follow" /\ x' = d
  BY DEF StopSearch
<1>2. /\ pc = "search" /\ \A r \in Router \ vis : dist[r] = INF
      /\ UNCHANGED <<n, g, src, dist, prev, vis, path>> /\ Router' = Router
      /\ DijkstraTypeOK /\ SearchInv /\ n \in Nat
  BY DEF StopSearch, searchVars, DijkstraInv, Router, DijkstraTypeOK
<1>3. Asked /\ x = None /\ path = << >> /\ d # None /\ dist[d] \in 0..INF
  BY <1>2, RouterFacts DEF SearchInv, Arrays, DijkstraTypeOK, Asked
<1>4. DijkstraTypeOK'
  BY <1>1, <1>2 DEF DijkstraTypeOK
<1>5. SearchInv'
  BY <1>1, <1>2, <1>3 DEF SearchInv, Symmetric, Arrays, AllVisited, FrontierHolds, Asked, Road
<1>6. WayBack'
  BY <1>1, <1>2, <1>3 DEF WayBack
<1>7. Ranked'
  <2>1. PICK ord \in [Router -> Nat], k \in Nat : RankedBy(ord, k)
    BY <1>3 DEF DijkstraInv, Ranked
  <2>2. RankedBy(ord, k)'
    BY <2>1, <1>2, <1>3 DEF RankedBy
  <2>3. QED
    BY <1>2, <2>1, <2>2 DEF Ranked
<1>8. QED
  BY <1>4, <1>5, <1>6, <1>7 DEF DijkstraInv

(* x goes in front of the path; its predecessor, which has been visited    *)
(* and ranks below all that are on the path, is next.                      *)
LEMMA FollowKeeps ==
  ASSUME DijkstraInv, Follow
  PROVE  DijkstraInv'
<1>1. /\ pc = "follow" /\ x # None /\ x' = prev[x]
      /\ UNCHANGED <<pc, n, g, src, dst, dist, prev, vis>> /\ Router' = Router
      /\ DijkstraTypeOK /\ SearchInv
  BY DEF Follow, searchVars, DijkstraInv, Router
<1>2. Asked /\ x \in Router /\ path \in Seq(Router) /\ n \in Nat
  BY <1>1 DEF DijkstraTypeOK, Asked
<1>3. /\ dist[dst] # INF /\ dist[x] < INF
      /\ IF path = << >> THEN x = dst ELSE path[Len(path)] = dst /\ x = prev[path[1]]
      /\ \A i \in 1..Len(path) : dist[path[i]] < INF
      /\ \A i \in 1..(Len(path) - 1) : prev[path[i + 1]] = path[i]
  BY <1>1, <1>2 DEF DijkstraInv, WayBack
<1>4. /\ path' \in Seq(Router) /\ Len(path') = Len(path) + 1 /\ path'[1] = x
      /\ \A i \in 2..Len(path') : path'[i] = path[i - 1]
      /\ Len(path) \in Nat
  BY <1>2 DEF Follow
<1>5. prev[x] \in Router \cup {None} /\ (prev[x] # None => prev[x] \in vis)
  BY <1>1, <1>2 DEF DijkstraTypeOK, SearchInv, FrontierHolds
<1>6. DijkstraTypeOK'
  BY <1>1, <1>4, <1>5 DEF DijkstraTypeOK
<1>7. SearchInv'
  BY <1>1, <1>2 DEF SearchInv, Symmetric, Arrays, AllVisited, FrontierHolds, Asked, Road
<1>8. WayBack'
  <2>1. path' # << >> /\ path'[Len(path')] = dst
    BY <1>3, <1>4
  <2>2. x' # None => dist[x'] < INF
    BY <1>1, <1>2, <1>5 DEF SearchInv, FrontierHolds
  <2>3. \A i \in 1..Len(path') : dist[path'[i]] < INF
    <3> TAKE i \in 1..Len(path')
    <3>1. CASE i = 1
      BY <3>1, <1>3, <1>4
    <3>2. CASE i # 1
      BY <3>2, <1>3, <1>4
    <3>3. QED
      BY <3>1, <3>2
  <2>4. \A i \in 1..(Len(path') - 1) : prev[path'[i + 1]] = path'[i]
    <3> TAKE i \in 1..(Len(path') - 1)
    <3>1. path'[i + 1] = path[i] /\ i \in 1..Len(path)
      BY <1>4
    <3>2. CASE i = 1
      BY <3>1, <3>2, <1>3, <1>4
    <3>3. CASE i # 1
      <4>1. path'[i] = path[i - 1] /\ i - 1 \in 1..(Len(path) - 1)
        BY <3>1, <3>3, <1>4
      <4>2. prev[path[(i - 1) + 1]] = path[i - 1]
        BY <4>1, <1>3
      <4>3. QED
        BY <3>1, <4>1, <4>2
    <3>4. QED
      BY <3>2, <3>3
  <2>5. QED
    BY <1>1, <1>3, <1>4, <2>1, <2>2, <2>3, <2>4 DEF WayBack
<1>9. Ranked'
  <2>1. PICK ord \in [Router -> Nat], k \in Nat : RankedBy(ord, k)
    BY <1>2 DEF DijkstraInv, Ranked
  <2>2. /\ \A v \in Router : prev[v] # None => ord[prev[v]] < ord[v]
        /\ \A i \in 1..Len(path) : ord[x] < ord[path[i]]
        /\ \A i, j \in 1..Len(path) : i < j => ord[path[i]] < ord[path[j]]
        /\ \A u \in vis : ord[u] < k
        /\ k = Cardinality(vis)
    BY <1>1, <2>1 DEF RankedBy
  <2>3. \A i \in 1..Len(path') : path'[i] = x \/ ord[x] < ord[path'[i]]
    <3> TAKE i \in 1..Len(path')
    <3>1. CASE i = 1
      BY <3>1, <1>4
    <3>2. CASE i # 1
      <4>1. path'[i] = path[i - 1] /\ i - 1 \in 1..Len(path)
        BY <3>2, <1>4
      <4>2. QED
        BY <4>1, <2>2
    <3>3. QED
      BY <3>1, <3>2
  <2>4. x' # None => \A i \in 1..Len(path') : ord[x'] < ord[path'[i]]
    <3> SUFFICES ASSUME prev[x] # None, NEW i \in 1..Len(path')
                 PROVE  ord[prev[x]] < ord[path'[i]]
      BY <1>1
    <3>1. ord[prev[x]] < ord[x] /\ ord[prev[x]] \in Nat /\ ord[x] \in Nat
      BY <1>2, <1>5, <2>1, <2>2
    <3>2. path'[i] \in Router
      BY <1>4
    <3>3. QED
      BY <2>1, <2>3, <3>1, <3>2
  <2>5. \A i, j \in 1..Len(path') : i < j => ord[path'[i]] < ord[path'[j]]
    <3> SUFFICES ASSUME NEW i \in 1..Len(path'), NEW j \in 1..Len(path'), i < j
                 PROVE  ord[path'[i]] < ord[path'[j]]
      OBVIOUS
    <3>1. path'[j] = path[j - 1] /\ j - 1 \in 1..Len(path)
      BY <1>4
    <3>2. CASE i = 1
      BY <3>1, <3>2, <1>4, <2>2
    <3>3. CASE i # 1
      <4>1. path'[i] = path[i - 1] /\ i - 1 \in 1..Len(path) /\ i - 1 < j - 1
        BY <3>3, <1>4
      <4>2. QED
        BY <3>1, <4>1, <2>2
    <3>4. QED
      BY <3>2, <3>3
  <2>6. RankedBy(ord, k)'
    BY <1>1, <2>2, <2>4, <2>5 DEF RankedBy
  <2>7. QED
    BY <1>1, <2>1, <2>6 DEF Ranked
<1>10. QED
  BY <1>6, <1>7, <1>8, <1>9 DEF DijkstraInv

LEMMA PrintPathKeeps ==
  ASSUME DijkstraInv, PrintPath
  PROVE  DijkstraInv'
<1>1. /\ pc = "follow" /\ x = None /\ pc' = "end"
      /\ UNCHANGED <<n, g, src, dst, dist, prev, vis, x, path>> /\ Router' = Router
      /\ Asked' = Asked /\ Asked
  BY DEF PrintPath, searchVars, Router, Asked, DijkstraInv, DijkstraTypeOK
<1>2. DijkstraTypeOK' /\ SearchInv'
  BY <1>1 DEF DijkstraInv, DijkstraTypeOK, SearchInv, Symmetric, Arrays, AllVisited,
              FrontierHolds, Road
<1>3. WayBack'
  BY <1>1 DEF DijkstraInv, WayBack
<1>4. Ranked'
  <2>1. PICK ord \in [Router -> Nat], k \in Nat : RankedBy(ord, k)
    BY <1>1 DEF DijkstraInv, Ranked
  <2>2. RankedBy(ord, k)'
    BY <2>1, <1>1 DEF RankedBy
  <2>3. QED
    BY <1>1, <2>1, <2>2 DEF Ranked
<1>5. QED
  BY <1>2, <1>3, <1>4 DEF DijkstraInv

LEMMA DijkstraInitInv == DijkstraInit => DijkstraInv
<1>1. ASSUME DijkstraInit
      PROVE  DijkstraTypeOK /\ ~Asked /\ Symmetric /\ vis = {} /\ path = << >>
  BY <1>1 DEF DijkstraInit, DijkstraTypeOK, Asked, Symmetric
<1>2. QED
  BY <1>1 DEF DijkstraInit, DijkstraInv, SearchInv, Arrays, FrontierHolds, AllVisited, WayBack,
              Ranked

LEMMA DijkstraStepInv == DijkstraInv /\ [DijkstraNext]_dijkstraVars => DijkstraInv'
<1> SUFFICES ASSUME DijkstraInv, [DijkstraNext]_dijkstraVars
             PROVE  DijkstraInv'
  OBVIOUS
<1>1. CASE Compute
  BY <1>1, AskKnownKeeps, AskUnknownKeeps, VisitKeeps, StopSearchKeeps, FollowKeeps, PrintPathKeeps
     DEF Compute
<1>2. CASE UNCHANGED dijkstraVars
  <2>1. /\ UNCHANGED <<pc, n, g, src, dst, dist, prev, vis, x, path>> /\ Router' = Router
        /\ Asked' = Asked
    BY <1>2 DEF dijkstraVars, searchVars, Router, Asked
  <2>2. DijkstraTypeOK' /\ SearchInv' /\ WayBack'
    BY <2>1 DEF DijkstraInv, DijkstraTypeOK, SearchInv, Symmetric, Arrays, AllVisited,
                FrontierHolds, Road, WayBack
  <2>3. ASSUME NEW ord, NEW k, RankedBy(ord, k) PROVE RankedBy(ord, k)'
    BY <2>1, <2>3 DEF RankedBy
  <2>4. QED
    BY <2>1, <2>2, <2>3 DEF DijkstraInv, Ranked
<1>3. QED
  BY <1>1, <1>2, ReadRoadKeeps DEF DijkstraNext, Ended

-----------------------------------------------------------------------------
(* What the program prints.                                                *)

(* Ranks grow along the path, so no router is on it twice.                 *)
LEMMA PathIsShort ==
  ASSUME DijkstraInv
  PROVE  Len(path) <= n
<1>1. path \in Seq(Router) /\ n \in Nat
  BY DEF DijkstraInv, DijkstraTypeOK
<1>2. CASE ~Asked
  BY <1>1, <1>2 DEF DijkstraInv, SearchInv, Arrays
<1>3. CASE Asked
  <2>1. PICK ord \in [Router -> Nat], k \in Nat : RankedBy(ord, k)
    BY <1>3 DEF DijkstraInv, Ranked
  <2>2. \A i, j \in 1..Len(path) : i < j => ord[path[i]] < ord[path[j]]
    BY <2>1 DEF RankedBy
  <2>3. \A i \in 1..Len(path) : path[i] \in Router /\ ord[path[i]] \in Nat
    BY <1>1, <2>1
  <2>4. ASSUME NEW i \in 1..Len(path), NEW j \in 1..Len(path), path[i] = path[j]
        PROVE  i = j
    <3>1. ~(i < j) /\ ~(j < i)
      BY <2>2, <2>3, <2>4
    <3>2. QED
      BY <3>1
  <2>5. path \in [1..Len(path) -> Router] /\ Len(path) \in Nat
    BY <1>1
  <2>6. path \in Injection(1..Len(path), Router)
    BY <2>4, <2>5 DEF Injection, IsInjective
  <2>8. IsFiniteSet(Router) /\ Cardinality(Router) = n
    BY <1>1, RoutersCounted
  <2>9. Cardinality(1..Len(path)) = Len(path)
    <3>1. Cardinality(1..Len(path)) = IF 1 > Len(path) THEN 0 ELSE Len(path) - 1 + 1
      BY <2>5, FS_Interval
    <3>2. QED
      BY <2>5, <3>1
  <2>10. Cardinality(1..Len(path)) <= Cardinality(Router)
    BY <2>6, <2>8, FS_Injection
  <2>11. QED
    BY <2>8, <2>9, <2>10
<1>4. QED
  BY <1>2, <1>3

(* The loop over prev has come to an end at a router that is reached and   *)
(* has no predecessor: src.                                                *)
LEMMA PathFromSrcToDst ==
  ASSUME DijkstraInv
  PROVE  PathLeadsThere
<1> SUFFICES ASSUME Asked, pc = "end", dist[dst] # INF
             PROVE  /\ path # << >> /\ path[1] = src /\ path[Len(path)] = dst
                    /\ \A i \in 1..(Len(path) - 1) :
                         \E w \in Weight : /\ Road(path[i], path[i + 1], w)
                                           /\ dist[path[i + 1]] = dist[path[i]] + w
  BY PathIsShort DEF PathLeadsThere
<1>1. /\ dst # None /\ x = None /\ src # None
      /\ IF path = << >> THEN x = dst ELSE path[Len(path)] = dst /\ x = prev[path[1]]
      /\ \A i \in 1..Len(path) : dist[path[i]] < INF
      /\ \A i \in 1..(Len(path) - 1) : prev[path[i + 1]] = path[i]
  BY DEF DijkstraInv, SearchInv, AllVisited, WayBack, Asked
<1>2. path \in Seq(Router) /\ Len(path) \in Nat /\ vis \subseteq Router /\ None \notin Router
  BY RouterFacts DEF DijkstraInv, DijkstraTypeOK
<1>3. path # << >> /\ path[Len(path)] = dst /\ Len(path) >= 1
  BY <1>1, <1>2
<1>4. \A i \in 1..Len(path) : path[i] \in Router /\ dist[path[i]] # INF
  <2>1. \A i \in 1..Len(path) : path[i] \in Router
    BY <1>2
  <2>2. \A r \in Router : dist[r] \in 0..INF
    BY DEF DijkstraInv, SearchInv, Arrays
  <2>3. QED
    BY <1>1, <2>1, <2>2
<1>5. \A r \in Router :
        IF dist[r] = INF \/ r = src
          THEN prev[r] = None
          ELSE /\ prev[r] \in vis
               /\ \E w \in Weight : Road(prev[r], r, w) /\ dist[r] = dist[prev[r]] + w
  BY DEF DijkstraInv, SearchInv, FrontierHolds
<1>6. path[1] = src
  <2>1. prev[path[1]] = None /\ 1 \in 1..Len(path)
    BY <1>1, <1>2, <1>3
  <2>2. path[1] \in Router /\ dist[path[1]] # INF /\ prev[path[1]] \notin vis
    BY <1>2, <1>4, <2>1
  <2>3. QED
    BY <1>5, <2>2
<1>7. ASSUME NEW i \in 1..(Len(path) - 1)
      PROVE  \E w \in Weight : /\ Road(path[i], path[i + 1], w)
                               /\ dist[path[i + 1]] = dist[path[i]] + w
  <2>1. i \in 1..Len(path) /\ i + 1 \in 1..Len(path) /\ prev[path[i + 1]] = path[i]
    BY <1>1, <1>2
  <2>2. path[i + 1] \in Router /\ dist[path[i + 1]] # INF /\ prev[path[i + 1]] # None
    BY <1>2, <1>4, <2>1
  <2>3. QED
    BY <1>5, <2>1, <2>2
<1>8. QED
  BY <1>3, <1>6, <1>7

(* A walk of k routers that starts at src, with the length of the way to   *)
(* each of them.                                                           *)
Walk(at, len, k) ==
  /\ at \in [1..k -> Router] /\ len \in [1..k -> Nat]
  /\ at[1] = src /\ len[1] = 0
  /\ \A i \in 1..(k - 1) :
       \E w \in Weight : Road(at[i], at[i + 1], w) /\ len[i + 1] = len[i] + w

(* What dist = Shortest(src) says of walks of up to n roads, of all walks. *)
NoWalkIsShorter ==
  Asked /\ pc \in {"follow", "end"} =>
    \A k \in Nat \ {0} : \A at \in [1..k -> Router], len \in [1..k -> Nat] :
      Walk(at, len, k) => dist[at[k]] <= len[k]

(* The first router of a walk to which the way is shorter than its         *)
(* distance would have to come after one whose distance is right: after a  *)
(* visited one no road shortens, after an unvisited one every way is as    *)
(* long as INF.                                                            *)
LEMMA WalksAreLong ==
  ASSUME DijkstraInv
  PROVE  NoWalkIsShorter
<1> SUFFICES ASSUME Asked, pc \in {"follow", "end"},
                    NEW k \in Nat \ {0}, NEW at \in [1..k -> Router], NEW len \in [1..k -> Nat],
                    Walk(at, len, k), ~(dist[at[k]] <= len[k])
             PROVE  FALSE
  BY DEF NoWalkIsShorter
<1> DEFINE Wrong == {i \in 1..k : ~(dist[at[i]] <= len[i])}
<1>1. /\ \A i \in 1..k : at[i] \in Router /\ len[i] \in Nat
      /\ \A r \in Router : dist[r] \in 0..INF
      /\ \A r \in Router \ vis : dist[r] = INF
  BY DEF DijkstraInv, SearchInv, Arrays, AllVisited
<1>2. Wrong \in SUBSET Nat /\ Wrong # {}
  OBVIOUS
<1>3. PICK i \in Wrong : \A j \in Wrong : i <= j
  <2> HIDE DEF Wrong
  <2>1. Min(Wrong) \in Wrong /\ \A j \in Wrong : Min(Wrong) <= j
    BY <1>2, MinOfNaturals
  <2>2. QED
    BY <2>1
<1>4. i \in 1..k /\ ~(dist[at[i]] <= len[i])
  BY <1>3
<1>5. i # 1
  BY <1>1, <1>4 DEF Walk, DijkstraInv, SearchInv, FrontierHolds
<1>6. i - 1 \in 1..(k - 1) /\ i - 1 \in 1..k /\ (i - 1) + 1 = i
  BY <1>4, <1>5
<1>7. dist[at[i - 1]] <= len[i - 1]
  BY <1>3, <1>4, <1>6
<1>8. PICK w \in Weight : Road(at[i - 1], at[i], w) /\ len[i] = len[i - 1] + w
  BY <1>6 DEF Walk
<1>9. w \in Nat /\ len[i - 1] \in Nat /\ dist[at[i - 1]] \in 0..INF /\ dist[at[i]] \in 0..INF
  BY <1>1, <1>4, <1>6
<1>10. CASE at[i - 1] \in vis
  <2>1. dist[at[i]] <= dist[at[i - 1]] + w
    BY <1>1, <1>4, <1>8, <1>10 DEF DijkstraInv, SearchInv, FrontierHolds
  <2>2. QED
    BY <1>4, <1>7, <1>8, <1>9, <2>1, SMTT(30)
<1>11. CASE at[i - 1] \notin vis
  <2>1. dist[at[i - 1]] = INF
    BY <1>1, <1>6, <1>11
  <2>2. QED
    BY <1>4, <1>7, <1>8, <1>9, <2>1
<1>12. QED
  BY <1>10, <1>11

-----------------------------------------------------------------------------
(* The definition Shortest(src), which is a table made row by row.         *)

(* A set of numbers up to m that has 0 and with a number the next has all. *)
LEMMA CountingUp ==
  ASSUME NEW m \in Nat, NEW T \in SUBSET (0..m), 0 \in T,
         \A k \in 1..m : k - 1 \in T => k \in T
  PROVE  T = 0..m
<1> SUFFICES ASSUME (0..m) \ T # {} PROVE FALSE
  OBVIOUS
<1> DEFINE Gone == (0..m) \ T
<1>1. PICK k \in Gone : \A j \in Gone : k <= j
  <2>1. Gone \in SUBSET Nat /\ Gone # {}
    OBVIOUS
  <2> HIDE DEF Gone
  <2>2. QED
    BY <2>1, MinOfNaturals
<1>2. k \in 1..m /\ k - 1 \in 0..m /\ ~(k <= k - 1)
  BY <1>1
<1>3. k - 1 \in T
  BY <1>1, <1>2
<1>4. QED
  BY <1>1, <1>2, <1>3

AtStart(s) == [v \in Router |-> IF v = s THEN 0 ELSE INF]
Table(s, m, t) == t = [k \in 0..m |-> IF k = 0 THEN AtStart(s) ELSE WithOneMoreRoad(t[k - 1])]

LEMMA TableExists ==
  ASSUME NEW m \in Nat, NEW s
  PROVE  \E t : Table(s, m, t)
<1> DEFINE Long == {k \in 0..m : \E t : Table(s, k, t)}
<1>1. 0 \in Long
  <2>1. Table(s, 0, [k \in 0..0 |-> AtStart(s)])
    BY DEF Table
  <2>2. QED
    BY <2>1
<1>2. ASSUME NEW k \in 1..m, k - 1 \in Long
      PROVE  k \in Long
  <2>1. PICK t : Table(s, k - 1, t)
    BY <1>2
  <2>2. \A j \in 0..(k - 1) : t[j] = IF j = 0 THEN AtStart(s) ELSE WithOneMoreRoad(t[j - 1])
    BY <2>1 DEF Table
  <2>3. PICK u : u = [j \in 0..k |-> IF j = k THEN WithOneMoreRoad(t[k - 1]) ELSE t[j]]
    OBVIOUS
  <2>4. ASSUME NEW j \in 0..k
        PROVE  u[j] = IF j = 0 THEN AtStart(s) ELSE WithOneMoreRoad(u[j - 1])
    <3>1. CASE j = k
      <4>1. k - 1 \in 0..k /\ k - 1 # k /\ k # 0
        OBVIOUS
      <4>2. u[k - 1] = t[k - 1] /\ u[k] = WithOneMoreRoad(t[k - 1])
        BY <2>3, <4>1
      <4>3. QED
        BY <3>1, <4>1, <4>2
    <3>2. CASE j # k
      <4>1. j \in 0..(k - 1) /\ (j # 0 => j - 1 \in 0..k /\ j - 1 # k)
        BY <3>2
      <4>2. u[j] = t[j] /\ (j # 0 => u[j - 1] = t[j - 1])
        BY <2>3, <3>2, <4>1
      <4>3. QED
        BY <2>2, <4>1, <4>2
    <3>3. QED
      BY <3>1, <3>2
  <2>5. u = [j \in 0..k |-> u[j]]
    BY <2>3
  <2>6. Table(s, k, u)
    BY <2>4, <2>5 DEF Table
  <2>7. QED
    BY <2>6
<1>3. Long = 0..m
  <2> HIDE DEF Long
  <2>1. Long \in SUBSET (0..m)
    BY DEF Long
  <2>2. QED
    BY <1>1, <1>2, <2>1, CountingUp
<1>4. QED
  BY <1>3

LEMMA ShortestIsLastRow ==
  ASSUME n \in Nat, NEW s
  PROVE  \E t : /\ t[0] = AtStart(s)
                /\ \A k \in 1..n : t[k] = WithOneMoreRoad(t[k - 1])
                /\ Shortest(s) = t[n]
<1>1. PICK t : Table(s, n, t) /\ Shortest(s) = t[n]
  <2>1. \E t : Table(s, n, t)
    BY TableExists
  <2>2. Shortest(s) = (CHOOSE t : Table(s, n, t))[n]
    BY DEF Shortest, Table, AtStart
  <2>3. QED
    BY <2>1, <2>2
<1>2. \A k \in 0..n : t[k] = IF k = 0 THEN AtStart(s) ELSE WithOneMoreRoad(t[k - 1])
  BY <1>1 DEF Table
<1>3. QED
  BY <1>1, <1>2

(* One more road: the way to v is kept, or comes over a road.              *)
LEMMA OneMoreRoad ==
  ASSUME DijkstraTypeOK, Symmetric, NEW len \in [Router -> Nat], NEW v \in Router
  PROVE  LET new == WithOneMoreRoad(len)[v]
         IN  /\ new \in Nat /\ new <= len[v]
             /\ \A u \in Router, w \in Weight : Road(u, v, w) => new <= len[u] + w
             /\ \/ new = len[v]
                \/ \E u \in Router, w \in Weight : Road(u, v, w) /\ new = len[u] + w
<1> DEFINE Ways == {len[v]} \cup {len[e[1]] + e[2] : e \in Adjacent(v)}
<1>1. WithOneMoreRoad(len)[v] = Min(Ways)
  BY DEF WithOneMoreRoad
<1>2. ASSUME NEW u \in Router, NEW w \in Weight, Road(u, v, w)
      PROVE  len[u] + w \in Ways
  <2>1. <<v, u, w>> \in g
    BY <1>2, RoadsBothWays DEF Symmetric, Road
  <2>2. <<v, u, w>>[1] = v /\ <<v, u, w>>[2] = u /\ <<v, u, w>>[3] = w
    OBVIOUS
  <2>3. <<u, w>> \in Adjacent(v)
    BY <2>1, <2>2 DEF Adjacent
  <2>4. <<u, w>>[1] = u /\ <<u, w>>[2] = w
    OBVIOUS
  <2>5. QED
    BY <2>3, <2>4
<1>3. ASSUME NEW d \in Ways
      PROVE  d = len[v] \/ \E u \in Router, w \in Weight : Road(u, v, w) /\ d = len[u] + w
  <2>1. CASE d = len[v]
    BY <2>1
  <2>2. CASE d # len[v]
    <3>1. PICK e \in Adjacent(v) : d = len[e[1]] + e[2]
      BY <1>3, <2>2
    <3>2. PICK f \in g : f[1] = v /\ e = <<f[2], f[3]>>
      BY <3>1 DEF Adjacent
    <3>3. f \in Router \X Router \X Weight
      BY <3>2 DEF DijkstraTypeOK
    <3>4. f = <<v, f[2], f[3]>> /\ f[2] \in Router /\ f[3] \in Weight
      BY <3>2, <3>3
    <3>5. e[1] = f[2] /\ e[2] = f[3]
      BY <3>2
    <3>6. Road(f[2], v, f[3])
      BY <3>2, <3>4 DEF Road
    <3>7. QED
      BY <3>1, <3>4, <3>5, <3>6
  <2>3. QED
    BY <2>1, <2>2
<1>4. len[v] \in Ways /\ Ways \in SUBSET Nat
  <2>1. len[v] \in Ways /\ len[v] \in Nat
    OBVIOUS
  <2>2. \A u \in Router, w \in Weight : len[u] + w \in Nat
    OBVIOUS
  <2> HIDE DEF Ways
  <2>3. QED
    BY <1>3, <2>1, <2>2
<1> HIDE DEF Ways
<1>5. Min(Ways) \in Ways /\ \A d \in Ways : Min(Ways) <= d
  BY <1>4, MinOfNaturals
<1>6. QED
  BY <1>1, <1>2, <1>3, <1>4, <1>5

(* No row of the table is below dist, and the row of a router's rank has   *)
(* come down to it: predecessors rank lower.  So the last row is dist.     *)
LEMMA DistancesAreTheTable ==
  ASSUME DijkstraInv, Asked, pc = "end"
  PROVE  dist = Shortest(src)
<1>1. /\ DijkstraTypeOK /\ Symmetric /\ n \in Nat /\ src \in Router /\ vis \subseteq Router
      /\ dist \in [Router -> 0..INF] /\ dist[src] = 0
      /\ \A r \in Router \ vis : dist[r] = INF
      /\ \A u \in vis : dist[u] < INF
      /\ \A u \in vis, v \in Router, w \in Weight : Road(u, v, w) => dist[v] <= dist[u] + w
      /\ \A v \in vis \ {src} :
           /\ prev[v] \in vis
           /\ \E w \in Weight : Road(prev[v], v, w) /\ dist[v] = dist[prev[v]] + w
  <2>1. /\ DijkstraTypeOK /\ Symmetric /\ n \in Nat /\ src \in Router /\ vis \subseteq Router
        /\ dist \in [Router -> 0..INF]
        /\ \A r \in Router \ vis : dist[r] = INF
    BY DEF DijkstraInv, SearchInv, Arrays, AllVisited, DijkstraTypeOK, Asked
  <2>2. /\ dist[src] = 0
        /\ \A u \in vis : dist[u] < INF
        /\ \A u \in vis, v \in Router, w \in Weight : Road(u, v, w) => dist[v] <= dist[u] + w
        /\ \A v \in Router :
             IF dist[v] = INF \/ v = src
               THEN prev[v] = None
               ELSE /\ prev[v] \in vis
                    /\ \E w \in Weight : Road(prev[v], v, w) /\ dist[v] = dist[prev[v]] + w
    BY DEF DijkstraInv, SearchInv, FrontierHolds
  <2>3. \A v \in vis : dist[v] # INF /\ v \in Router
    BY <2>1, <2>2
  <2>4. \A v \in vis \ {src} :
           /\ prev[v] \in vis
           /\ \E w \in Weight : Road(prev[v], v, w) /\ dist[v] = dist[prev[v]] + w
    BY <2>2, <2>3
  <2>5. QED
    BY <2>1, <2>2, <2>4
<1>2. PICK t : /\ t[0] = AtStart(src)
               /\ \A k \in 1..n : t[k] = WithOneMoreRoad(t[k - 1])
               /\ Shortest(src) = t[n]
  BY <1>1, ShortestIsLastRow
<1>3. PICK ord \in [Router -> Nat] :
        /\ \A v \in Router : prev[v] # None => ord[prev[v]] < ord[v]
        /\ \A v \in vis : ord[v] < n
  <2>1. PICK ord \in [Router -> Nat], k \in Nat : RankedBy(ord, k)
    BY DEF DijkstraInv, Ranked
  <2>2. k <= n
    BY <1>1, <2>1, VisitedAreFew DEF RankedBy
  <2>3. \A v \in vis : ord[v] < n
    BY <1>1, <2>1, <2>2 DEF RankedBy
  <2>4. QED
    BY <2>1, <2>3 DEF RankedBy
<1> DEFINE Row(k) == /\ t[k] \in [Router -> Nat] /\ t[k][src] = 0
                     /\ \A v \in Router : dist[v] <= t[k][v] /\ t[k][v] <= INF
                     /\ \A v \in vis : ord[v] <= k => t[k][v] <= dist[v]
<1>4. \A v \in vis \ {src} : ord[prev[v]] \in Nat /\ ord[v] \in Nat /\ ord[prev[v]] < ord[v]
  BY <1>1, <1>3, RouterFacts
<1>5. Row(0)
  <2>1. t[0] \in [Router -> Nat] /\ \A v \in Router : t[0][v] = IF v = src THEN 0 ELSE INF
    BY <1>2 DEF AtStart
  <2>2. \A v \in vis : ord[v] <= 0 => v = src
    BY <1>4
  <2>3. \A v \in Router : dist[v] \in 0..INF
    BY <1>1
  <2>4. QED
    BY <1>1, <2>1, <2>2, <2>3
<1>6. ASSUME NEW k \in 1..n, Row(k - 1)
      PROVE  Row(k)
  <2>1. PICK len \in [Router -> Nat] : len = t[k - 1]
    BY <1>6
  <2>2. t[k] = WithOneMoreRoad(len)
    BY <1>2, <2>1
  <2>3. ASSUME NEW v \in Router
        PROVE  /\ t[k][v] \in Nat /\ t[k][v] <= len[v]
               /\ \A u \in Router, w \in Weight : Road(u, v, w) => t[k][v] <= len[u] + w
               /\ \/ t[k][v] = len[v]
                  \/ \E u \in Router, w \in Weight : Road(u, v, w) /\ t[k][v] = len[u] + w
    BY <1>1, <2>2, OneMoreRoad
  <2>4. t[k] \in [Router -> Nat]
    BY <2>2, <2>3 DEF WithOneMoreRoad
  <2>5. ASSUME NEW v \in Router
        PROVE  dist[v] \in 0..INF /\ dist[v] <= len[v] /\ len[v] <= INF
    BY <1>1, <1>6, <2>1
  <2>6. ASSUME NEW v \in Router
        PROVE  t[k][v] <= INF /\ dist[v] <= t[k][v]
    <3>1. t[k][v] <= INF
      BY <2>3, <2>5
    <3>2. ASSUME NEW u \in Router, NEW w \in Weight, Road(u, v, w), t[k][v] = len[u] + w
          PROVE  dist[v] <= t[k][v]
      <4>1. dist[u] <= len[u] /\ dist[u] \in Nat /\ dist[v] \in Nat /\ w \in Nat /\ dist[v] <= INF
        BY <2>5
      <4>2. dist[v] <= dist[u] + w
        BY <1>1, <3>2, <4>1
      <4>3. QED
        BY <3>2, <4>1, <4>2
    <3>3. QED
      BY <2>3, <2>5, <3>1, <3>2
  <2>7. t[k][src] = 0
    BY <1>1, <1>6, <2>1, <2>3
  <2>8. ASSUME NEW v \in vis, ord[v] <= k
        PROVE  t[k][v] <= dist[v]
    <3>1. CASE v = src
      BY <1>1, <2>7, <3>1
    <3>2. CASE v # src
      <4>1. PICK w \in Weight : Road(prev[v], v, w) /\ dist[v] = dist[prev[v]] + w
        BY <1>1, <3>2
      <4>2. prev[v] \in vis /\ ord[prev[v]] <= k - 1
        BY <1>1, <1>4, <2>8, <3>2
      <4>3. len[prev[v]] <= dist[prev[v]]
        BY <1>6, <2>1, <4>2
      <4>4. t[k][v] <= len[prev[v]] + w
        BY <1>1, <2>3, <4>1, <4>2
      <4>5. prev[v] \in Router /\ v \in Router
        BY <1>1, <4>2
      <4>6. /\ len[prev[v]] \in Nat /\ dist[prev[v]] \in Nat /\ w \in Nat /\ t[k][v] \in Nat
        BY <2>3, <2>5, <4>5
      <4>7. QED
        BY <4>1, <4>3, <4>4, <4>6
    <3>3. QED
      BY <3>1, <3>2
  <2>9. QED
    BY <2>4, <2>6, <2>7, <2>8
<1>7. Row(n)
  <2> DEFINE Good == {k \in 0..n : Row(k)}
  <2>1. 0 \in Good /\ \A k \in 1..n : k - 1 \in Good => k \in Good
    <3> HIDE DEF Row
    <3>1. QED
      BY <1>1, <1>5, <1>6
  <2>2. Good \in SUBSET (0..n)
    OBVIOUS
  <2>3. n \in Good
    <3> HIDE DEF Good
    <3>1. QED
      BY <1>1, <2>1, <2>2, CountingUp
  <2>4. QED
    BY <2>3
<1>8. ASSUME NEW v \in Router
      PROVE  dist[v] = t[n][v]
  <2>1. dist[v] \in Nat /\ t[n][v] \in Nat /\ dist[v] <= t[n][v]
    BY <1>1, <1>7
  <2>2. t[n][v] <= dist[v]
    <3>1. CASE v \in vis
      <4>1. ord[v] <= n
        BY <1>1, <1>3, <3>1
      <4>2. QED
        BY <1>7, <3>1, <4>1
    <3>2. CASE v \notin vis
      BY <1>1, <1>7, <3>2
    <3>3. QED
      BY <3>1, <3>2
  <2>3. QED
    BY <2>1, <2>2
<1>9. t[n] \in [Router -> Nat]
  BY <1>7
<1>10. dist = t[n]
  BY <1>1, <1>8, <1>9
<1>11. QED
  BY <1>2, <1>10

LEMMA InvPrintsShortest == DijkstraInv => ShortestPathPrinted
BY PathFromSrcToDst, DistancesAreTheTable DEF ShortestPathPrinted

-----------------------------------------------------------------------------
LEMMA DijkstraInvariant == DijkstraSpec => []DijkstraInv
<1>1. QED
  BY DijkstraInitInv, DijkstraStepInv, PTL DEF DijkstraSpec

(* The type invariant: numbers of routers and distances stay in range,     *)
(* and prev names routers of the graph.                                    *)
THEOREM DijkstraTypeCorrect == DijkstraSpec => []DijkstraTypeOK
<1>1. DijkstraInv => DijkstraTypeOK
  BY DEF DijkstraInv
<1>2. QED
  BY <1>1, DijkstraInvariant, PTL

(* What the loop of lines 61 to 80 keeps true of dist, prev and vis.       *)
THEOREM SearchKeepsFrontier == DijkstraSpec => []FrontierHolds
<1>1. DijkstraInv => FrontierHolds
  BY DEF DijkstraInv, SearchInv
<1>2. QED
  BY <1>1, DijkstraInvariant, PTL

(* Once the search is over, no walk along the roads from src to anywhere   *)
(* is shorter than the distance found, and what has none has no walk       *)
(* shorter than INF.                                                       *)
THEOREM DistancesAreShortest == DijkstraSpec => []NoWalkIsShorter
<1>1. QED
  BY WalksAreLong, DijkstraInvariant, PTL

(* The path printed leads from src to dst along roads, its length is the   *)
(* distance found, and it meets no router twice.                           *)
THEOREM PathIsRight == DijkstraSpec => []PathLeadsThere
<1>1. QED
  BY PathFromSrcToDst, DijkstraInvariant, PTL

(* Both together: in the end the distances are those of the definition,    *)
(* which takes every walk of up to n roads, and the path printed is one of *)
(* that length.                                                            *)
THEOREM ShortestPathIsPrinted == DijkstraSpec => []ShortestPathPrinted
<1>1. QED
  BY InvPrintsShortest, DijkstraInvariant, PTL

-----------------------------------------------------------------------------
(* That the program ends, but for the fairness: it always has a step to    *)
(* take, and every step brings the end nearer.                             *)

(* How many steps the program has still to make at most, once its input    *)
(* has been read: a visit for each router that has none, a router of the   *)
(* path for each that is not on it, and what comes before and after.       *)
StepsLeft ==
  IF pc = "end" THEN 0
  ELSE IF pc = "follow" THEN (n - Len(path)) + 1
  ELSE IF pc = "search" THEN (n - Cardinality(vis)) + n + 3
  ELSE n + n + 4

(* The guards of the steps of Compute: one of them holds until the end.    *)
CanCompute ==
  \/ pc = "read"
  \/ pc = "search" /\ \E u \in Router : IsNearest(u) /\ dist[u] # INF
  \/ pc = "search" /\ Router # {} /\ \A r \in Router \ vis : dist[r] = INF
  \/ pc = "follow"

LEMMA StepsAreCounted ==
  ASSUME DijkstraInv
  PROVE  StepsLeft \in Nat /\ (StepsLeft = 0 => pc = "end")
<1>1. n \in Nat /\ Len(path) \in Nat /\ Len(path) <= n
  BY PathIsShort DEF DijkstraInv, DijkstraTypeOK
<1>2. Cardinality(vis) \in Nat /\ Cardinality(vis) <= n
  BY VisitedAreFew DEF DijkstraInv, DijkstraTypeOK
<1>3. QED
  BY <1>1, <1>2 DEF StepsLeft

(* The nearest of the unvisited exists: the first of those whose distance  *)
(* is the least.                                                           *)
LEMMA SomebodyIsNearest ==
  ASSUME DijkstraInv, Asked, Router \ vis # {}
  PROVE  \E u \in Router : IsNearest(u)
<1>1. Router \subseteq Nat /\ dist \in [Router -> 0..INF]
  BY DEF DijkstraInv, SearchInv, Arrays, Router, DijkstraTypeOK
<1> DEFINE Far == {dist[r] : r \in Router \ vis}
<1>2. Far \in SUBSET Nat /\ Far # {}
  BY <1>1
<1>3. PICK d \in Far : \A e \in Far : d <= e
  <2> HIDE DEF Far
  <2> QED BY <1>2, MinOfNaturals
<1> DEFINE Near == {r \in Router \ vis : dist[r] = d}
<1>4. Near \in SUBSET Nat /\ Near # {}
  BY <1>1, <1>3
<1>5. PICK u \in Near : \A r \in Near : u <= r
  <2> HIDE DEF Near
  <2> QED BY <1>4, MinOfNaturals
<1>6. ASSUME NEW r \in Router \ vis
      PROVE  dist[u] < dist[r] \/ (dist[u] = dist[r] /\ u <= r)
  <2>1. dist[u] = d /\ d <= dist[r] /\ dist[r] \in Nat /\ d \in Nat
    BY <1>1, <1>3, <1>5
  <2>2. dist[r] = d => u <= r
    BY <1>5
  <2>3. QED
    BY <2>1, <2>2
<1>7. QED
  BY <1>5, <1>6 DEF IsNearest

LEMMA SearchGoesOn ==
  ASSUME DijkstraInv
  PROVE  pc = "end" \/ CanCompute
<1> SUFFICES ASSUME pc = "search" PROVE CanCompute
  BY DEF CanCompute, DijkstraInv, DijkstraTypeOK
<1>1. Asked /\ src \in Router /\ dist \in [Router -> 0..INF]
  BY DEF DijkstraInv, DijkstraTypeOK, Asked
<1>2. CASE \A r \in Router \ vis : dist[r] = INF
  BY <1>1, <1>2 DEF CanCompute
<1>3. CASE \E r \in Router \ vis : dist[r] # INF
  <2>1. PICK r \in Router \ vis : dist[r] # INF
    BY <1>3
  <2>2. PICK u \in Router : IsNearest(u)
    BY <1>1, <2>1, SomebodyIsNearest
  <2>3. dist[u] \in 0..INF /\ dist[r] \in 0..INF /\ dist[u] <= dist[r]
    BY <1>1, <2>1, <2>2 DEF IsNearest
  <2>4. dist[u] # INF
    BY <2>1, <2>3
  <2>5. QED
    BY <2>2, <2>4 DEF CanCompute
<1>4. QED
  BY <1>2, <1>3

LEMMA ComputeStepsDown ==
  ASSUME DijkstraInv, Compute
  PROVE  StepsLeft' < StepsLeft
<1>1. /\ n' = n /\ n \in Nat /\ Len(path) \in Nat /\ Len(path) <= n
      /\ path \in Seq(Router) /\ vis \subseteq Router
  BY PathIsShort DEF Compute, AskKnown, AskUnknown, Visit, StopSearch, Follow, PrintPath, searchVars,
     DijkstraInv, DijkstraTypeOK
<1>2. Cardinality(vis) \in Nat /\ Cardinality(vis) <= n /\ IsFiniteSet(vis)
  BY VisitedAreFew DEF DijkstraInv, DijkstraTypeOK
<1>3. CASE AskKnown
  <2>1. pc = "read" /\ pc' = "search" /\ vis = {} /\ vis' = vis
    BY <1>3 DEF AskKnown, DijkstraInv, SearchInv, Arrays
  <2>2. Cardinality(vis') = 0
    BY <2>1, FS_EmptySet
  <2>3. QED
    BY <1>1, <2>1, <2>2 DEF StepsLeft
<1>4. CASE AskUnknown
  BY <1>1, <1>4 DEF AskUnknown, StepsLeft
<1>5. CASE Visit
  <2>1. PICK u \in Router : u \notin vis /\ vis' = vis \cup {u}
    BY <1>5 DEF Visit, IsNearest
  <2>2. Cardinality(vis') = Cardinality(vis) + 1
    BY <1>2, <2>1, FS_AddElement
  <2>3. pc = "search" /\ pc' = "search"
    BY <1>5 DEF Visit
  <2>4. QED
    BY <1>1, <1>2, <2>2, <2>3 DEF StepsLeft
<1>6. CASE StopSearch
  <2>1. pc = "search" /\ (pc' = "end" \/ pc' = "follow") /\ path' = path /\ path = << >>
    BY <1>6 DEF StopSearch, DijkstraInv, SearchInv, Arrays
  <2>2. Len(path') = 0
    BY <2>1
  <2>3. QED
    BY <1>1, <1>2, <2>1, <2>2 DEF StepsLeft
<1>7. CASE Follow
  <2>1. x \in Router /\ path' = <<x>> \o path /\ pc = "follow" /\ pc' = "follow"
    BY <1>7 DEF Follow, DijkstraInv, DijkstraTypeOK
  <2>2. Len(path') = Len(path) + 1
    BY <1>1, <2>1
  <2>3. QED
    BY <1>1, <2>1, <2>2 DEF StepsLeft
<1>8. CASE PrintPath
  BY <1>1, <1>8 DEF PrintPath, StepsLeft
<1>9. QED
  BY <1>3, <1>4, <1>5, <1>6, <1>7, <1>8 DEF Compute

(* The loops of the program end: before the end it always has a step to    *)
(* take, and each takes it at least one nearer to the end, which is at     *)
(* most twice as many steps away as there are routers, and four.           *)
THEOREM SearchComesToItsEnd ==
  DijkstraSpec => /\ [](pc = "end" \/ CanCompute)
                  /\ [](StepsLeft \in Nat /\ (StepsLeft = 0 => pc = "end"))
                  /\ [][Compute => StepsLeft' < StepsLeft]_dijkstraVars
<1>1. DijkstraInv => pc = "end" \/ CanCompute
  BY SearchGoesOn
<1>2. DijkstraInv => StepsLeft \in Nat /\ (StepsLeft = 0 => pc = "end")
  BY StepsAreCounted
<1>3. DijkstraInv /\ [DijkstraNext]_dijkstraVars => [Compute => StepsLeft' < StepsLeft]_dijkstraVars
  BY ComputeStepsDown
<1>4. QED
  BY <1>1, <1>2, <1>3, DijkstraInvariant, PTL DEF DijkstraSpec
=============================================================================
