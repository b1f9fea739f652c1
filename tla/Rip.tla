----------------------------------- MODULE Rip ---------------------------------
(***************************************************************************)
(* homework13/rip_update.cpp: reads the routing table of R1 and the table  *)
(* R2 has sent it, and merges the second into the first, one destination   *)
(* per step.                                                               *)
(***************************************************************************)
EXTENDS Integers

CONSTANTS
  Dest,          \* destinations
  Neighbour,     \* next hops other than R2
  RIP_INFINITY,  \* 16
  RawCost        \* the costs that may stand in the input

ASSUME RipAssumption ==
  /\ RIP_INFINITY \in Nat \ {0}
  /\ RawCost \subseteq Int
  /\ "R2" \notin Neighbour

VARIABLES
  merging,   \* "read", "merge" or "print"
  r1_table,  \* partial function: destination -> next hop and cost
  r2_table,  \* partial function: destination -> cost
  pending,   \* the destinations of r2_table the loop has not come to
  r1_read    \* r1_table as it was read

ripVars == <<merging, r1_table, r2_table, pending, r1_read>>

Hop == Neighbour \cup {"R2"}

clamp_negative_only(c) == IF c < 0 THEN RIP_INFINITY ELSE c  \* slip: no upper limit
clamp_cost(c) == IF c < 0 \/ c > RIP_INFINITY THEN RIP_INFINITY ELSE c

RipInit ==
  /\ merging = "read"
  /\ r1_table = << >> /\ r2_table = << >>
  /\ pending = {} /\ r1_read = << >>

-----------------------------------------------------------------------------
RipRead ==
  /\ merging = "read"
  /\ \E D1, D2 \in SUBSET Dest :
       \E hop \in [D1 -> Hop], c1 \in [D1 -> RawCost], c2 \in [D2 -> RawCost] :
         /\ r1_table' = [d \in D1 |-> [next_hop |-> hop[d], cost |-> clamp_cost(c1[d])]]
         /\ r2_table' = [d \in D2 |-> clamp_cost(c2[d])]
         /\ pending' = D2
  /\ r1_read' = r1_table'
  /\ merging' = "merge"

ViaR2(d) == [next_hop |-> "R2", cost |-> clamp_cost(r2_table[d] + 1)]

TakenIfCheaper(d) ==  \* slip: a route through R2 is not refreshed
  d \notin DOMAIN r1_table \/ ViaR2(d).cost < r1_table[d].cost

(* A new destination, a route through R2 already, or a cheaper route.      *)
Taken(d) ==
  \/ d \notin DOMAIN r1_table
  \/ r1_table[d].next_hop = "R2"
  \/ ViaR2(d).cost < r1_table[d].cost

(* The order of the destinations makes no difference.                      *)
RipMerge ==
  /\ merging = "merge"
  /\ \E d \in pending :
       /\ pending' = pending \ {d}
       /\ r1_table' = IF Taken(d)
                        THEN [e \in DOMAIN r1_table \cup {d} |->
                                IF e = d THEN ViaR2(d) ELSE r1_table[e]]
                        ELSE r1_table
  /\ UNCHANGED <<merging, r2_table, r1_read>>

RipPrint ==
  /\ merging = "merge"
  /\ pending = {}
  /\ merging' = "print"
  /\ UNCHANGED <<r1_table, r2_table, pending, r1_read>>

Printed == merging = "print" /\ UNCHANGED ripVars

RipNext == RipRead \/ RipMerge \/ RipPrint \/ Printed
RipSpec == RipInit /\ [][RipNext]_ripVars

-----------------------------------------------------------------------------
(* Properties.                                                             *)

Route == [next_hop : Hop, cost : 0..RIP_INFINITY]
RipTypeOK ==
  /\ merging \in {"read", "merge", "print"}
  /\ \A t \in {r1_table, r1_read} :
       DOMAIN t \subseteq Dest /\ \A d \in DOMAIN t : t[d] \in Route
  /\ DOMAIN r2_table \subseteq Dest
  /\ \A d \in DOMAIN r2_table : r2_table[d] \in 0..RIP_INFINITY
  /\ pending \subseteq DOMAIN r2_table

(* The table printed: no route through R2 differs from what R2 says of it, *)
(* none is dearer than by R2, and one that R1 had is lost only for a       *)
(* cheaper one or because it went through R2.  So the same table from R2   *)
(* once more would change nothing.                                         *)
RoutesUpdated ==
  merging = "print" =>
    /\ \A d \in DOMAIN r2_table :
         /\ d \in DOMAIN r1_table /\ r1_table[d].cost <= ViaR2(d).cost
         /\ r1_table[d].next_hop = "R2" => r1_table[d] = ViaR2(d)
    /\ \A d \in DOMAIN r1_read :
         \/ r1_table[d] = r1_read[d]
         \/ r1_table[d].cost < r1_read[d].cost
         \/ r1_read[d].next_hop = "R2"
    /\ DOMAIN r1_table = DOMAIN r1_read \cup DOMAIN r2_table
=============================================================================
