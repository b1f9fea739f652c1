-------------------------------- MODULE Dijkstra -------------------------------
(***************************************************************************)
(* homework13/dijkstra_shortest_path.cpp: reads roads between named        *)
(* routers, numbering the names in the order in which they appear, and     *)
(* prints the length of a shortest path between two of them and the path.  *)
(* A step is one iteration of one of its loops.                            *)
(*                                                                         *)
(* Weights are naturals.  The program reads an int; for a negative weight  *)
(* the method, and the loop of line 89, are not made.                      *)
(***************************************************************************)
EXTENDS Integers, FiniteSetsExt, SequencesExt

CONSTANTS
  Weight,    \* the weights of roads
  INF,       \* INF: what is as long as this counts as unreachable
  MaxNodes,  \* bound: names in the input
  MaxRoads   \* bound: roads in the input

ASSUME WeightAssumption == Weight \subseteq Nat
ASSUME InfAssumption == INF \in Nat \ {0}
ASSUME InputAssumption == MaxNodes \in Nat /\ MaxRoads \in Nat

VARIABLES
  pc,      \* "read", "search", "follow" or "end"
  n,       \* how many names there are; the routers are 0 .. n-1
  g,       \* the entries <<u, v, w>> of the adjacency lists
  src, dst,
  dist, prev, vis,
  x,       \* the router line 89 has come to
  path     \* the path from x's successor to dst, in the order printed

searchVars == <<dist, prev, vis>>
dijkstraVars == <<pc, n, g, src, dst, searchVars, x, path>>

None == -1
Router == {r \in 0..n : r < n}

EdgesOneWay(u, v, w) == {<<u, v, w>>}  \* slip: one push_back
Edges(u, v, w) == {<<u, v, w>>, <<v, u, w>>}

RoadsRead == (Cardinality(g) + Cardinality({e \in g : e[1] = e[2]})) \div 2

(* The neighbours of u with the weights of the roads to them.              *)
Adjacent(u) == {<<e[2], e[3]>> : e \in {f \in g : f[1] = u}}

DijkstraInit ==
  /\ pc = "read"
  /\ n = 0 /\ g = {}
  /\ src = None /\ dst = None
  /\ dist = << >> /\ prev = << >> /\ vis = {}
  /\ x = None /\ path = << >>

-----------------------------------------------------------------------------
(* get_id: a name that is new gets the next number.                        *)
CountWith(k, id) == IF id < k THEN k ELSE id + 1

ReadRoad ==
  /\ pc = "read"
  /\ RoadsRead < MaxRoads
  /\ \E a \in 0..n : \E b \in 0..CountWith(n, a), w \in Weight :
        /\ n' = CountWith(CountWith(n, a), b)
        /\ n' <= MaxNodes
        /\ g' = g \cup Edges(a, b, w)
  /\ UNCHANGED <<pc, src, dst, searchVars, x, path>>

(* Both routers asked for are known: the search from the first begins.     *)
(* Which one the second is makes no difference before the search is over,  *)
(* and it is chosen then.                                                  *)
AskKnown ==
  /\ pc = "read"
  /\ \E s \in Router :
        /\ src' = s
        /\ dist' = [r \in Router |-> IF r = s THEN 0 ELSE INF]
  /\ prev' = [r \in Router |-> None]
  /\ pc' = "search"
  /\ UNCHANGED <<n, g, dst, vis, x, path>>

(* One is not: "no path".                                                  *)
AskUnknown ==
  /\ pc = "read"
  /\ pc' = "end"
  /\ UNCHANGED <<n, g, src, dst, searchVars, x, path>>

-----------------------------------------------------------------------------
FirstUnvisited(u) ==  \* slip: the comparison of distances is left out
  u \in Router \ vis /\ \A r \in Router \ vis : u <= r

(* The unvisited router that is nearest, the first of several.             *)
IsNearest(u) ==
  /\ u \in Router \ vis
  /\ \A r \in Router \ vis : dist[u] < dist[r] \/ (dist[u] = dist[r] /\ u <= r)

Offers(u, v) == {dist[u] + e[2] : e \in {f \in Adjacent(u) : f[1] = v}}

Better(u, v) == \E d \in Offers(u, v) : d < dist[v]

VisitUnmarked ==  \* slip: vis[u] is not set
  /\ pc = "search"
  /\ \E u \in Router :
        /\ IsNearest(u)
        /\ dist[u] # INF
        /\ dist' = [v \in Router |-> IF Better(u, v) THEN Min(Offers(u, v)) ELSE dist[v]]
        /\ prev' = [v \in Router |-> IF Better(u, v) THEN u ELSE prev[v]]
  /\ UNCHANGED <<pc, n, g, src, dst, vis, x, path>>

(* Each road from u is tried; the weights being natural, their order and   *)
(* roads from u to itself make no difference.                              *)
Visit ==
  /\ pc = "search"
  /\ \E u \in Router :
        /\ IsNearest(u)
        /\ dist[u] # INF
        /\ vis' = vis \cup {u}
        /\ dist' = [v \in Router |-> IF Better(u, v) THEN Min(Offers(u, v)) ELSE dist[v]]
        /\ prev' = [v \in Router |-> IF Better(u, v) THEN u ELSE prev[v]]
  /\ UNCHANGED <<pc, n, g, src, dst, x, path>>

(* Nobody is left, or nobody who can be reached.                           *)
StopSearch ==
  /\ pc = "search"
  /\ \A r \in Router \ vis : dist[r] = INF
  /\ \E d \in Router :
        /\ dst' = d
        /\ IF dist[d] = INF THEN pc' = "end" /\ UNCHANGED x
                            ELSE pc' = "follow" /\ x' = d
  /\ UNCHANGED <<n, g, src, searchVars, path>>

Follow ==
  /\ pc = "follow"
  /\ x # None
  /\ path' = <<x>> \o path
  /\ x' = prev[x]
  /\ UNCHANGED <<pc, n, g, src, dst, searchVars>>

PrintPath ==
  /\ pc = "follow"
  /\ x = None
  /\ pc' = "end"
  /\ UNCHANGED <<n, g, src, dst, searchVars, x, path>>

Ended == pc = "end" /\ UNCHANGED dijkstraVars

Compute == AskKnown \/ AskUnknown \/ Visit \/ StopSearch \/ Follow \/ PrintPath
DijkstraNext == ReadRoad \/ Compute \/ Ended

(* The program runs on; its input ends, for the roads are bounded.         *)
DijkstraSpec == DijkstraInit /\ [][DijkstraNext]_dijkstraVars /\ WF_dijkstraVars(Compute)

-----------------------------------------------------------------------------
(* Properties.                                                             *)

DijkstraTypeOK ==
  /\ pc \in {"read", "search", "follow", "end"}
  /\ n \in 0..MaxNodes
  /\ g \subseteq Router \X Router \X Weight
  /\ src \in Router \cup {None} /\ dst \in Router \cup {None}
  /\ pc \in {"search", "follow"} =>
       /\ src # None
       /\ dist \in [Router -> 0..INF]
       /\ prev \in [Router -> Router \cup {None}]
  /\ vis \subseteq Router
  /\ x \in Router \cup {None}
  /\ path \in Seq(Router)

Asked == src # None
Road(a, b, w) == <<a, b, w>> \in g \/ <<b, a, w>> \in g

(* What makes the visited distances final although only direct roads are   *)
(* ever compared: nobody unvisited is nearer than a visited router, no     *)
(* road from a visited one could shorten a distance, and every distance    *)
(* but the first is made of a visited predecessor's and a road from it.    *)
FrontierHolds ==
  Asked =>
    /\ dist[src] = 0 /\ prev[src] = None
    /\ \A u \in vis : \A v \in Router \ vis : dist[u] <= dist[v]
    /\ \A u \in vis : dist[u] < INF
    /\ \A u \in vis, v \in Router, w \in Weight : Road(u, v, w) => dist[v] <= dist[u] + w
    /\ \A v \in Router :
         IF dist[v] = INF \/ v = src
           THEN prev[v] = None
           ELSE /\ prev[v] \in vis
                /\ \E w \in Weight : Road(prev[v], v, w) /\ dist[v] = dist[prev[v]] + w

(* The definition the result is compared with: the least length, or INF,   *)
(* of a walk of at most k roads, for k = 0 and then from k to k + 1 for    *)
(* all routers at once, n times.                                           *)
WithOneMoreRoad(len) ==
  [v \in Router |-> Min({len[v]} \cup {len[e[1]] + e[2] : e \in Adjacent(v)})]
Shortest(s) ==
  LET len[k \in 0..n] == IF k = 0 THEN [v \in Router |-> IF v = s THEN 0 ELSE INF]
                                  ELSE WithOneMoreRoad(len[k - 1])
  IN  len[n]

(* The way back through prev meets no router twice, and the path printed   *)
(* leads from src to dst along roads, each as long as the distances of its *)
(* ends are apart.                                                         *)
PathLeadsThere ==
  /\ Len(path) <= n
  /\ Asked /\ pc = "end" /\ dist[dst] # INF =>
       /\ path # << >> /\ path[1] = src /\ path[Len(path)] = dst
       /\ \A i \in 1..(Len(path) - 1) :
            \E w \in Weight : /\ Road(path[i], path[i + 1], w)
                              /\ dist[path[i + 1]] = dist[path[i]] + w

(* In the end every distance is the shortest there is, only what nothing   *)
(* shorter than INF leads to is given up, and the path printed is one of   *)
(* that length.                                                            *)
ShortestPathPrinted ==
  /\ PathLeadsThere
  /\ Asked /\ pc = "end" => dist = Shortest(src)

(* The program ends; above all the loop over prev comes back to the start. *)
SearchEnds == <>(pc = "end")
=============================================================================
