------------------------------ MODULE TableProofs ------------------------------
(***************************************************************************)
(* Proofs about the three programs that keep a table: the learning bridge  *)
(* for any stations, the merging of RIP tables for any destinations, costs *)
(* and infinity, and the DHCP server with its clients for any clients,     *)
(* addresses and number of exchanges; and about the other server that      *)
(* answers packets, the ping's, for any hosts: what is answered, and that  *)
(* the network comes to rest.                                              *)
(***************************************************************************)
EXTENDS Bridge, Rip, Dhcp, IcmpPing, FiniteSetTheorems, TLAPS

-----------------------------------------------------------------------------
(* homework6/bridge_learning.cpp.                                          *)

(* What the bridge has learned of a station that has sent something since  *)
(* it last moved is true.                                                  *)
LearnedIsTrue == \A s \in settled : mac_table[s] = at_port[s]

BridgeInv == BridgeTypeOK /\ LearnedIsTrue /\ ReachesUnlessMoved

LEMMA BridgeInitInv == BridgeInit => BridgeInv
BY BroadcastAssumption DEF BridgeInit, BridgeInv, BridgeTypeOK, LearnedIsTrue,
   ReachesUnlessMoved, NoFrame, Port

LEMMA ProcessFrameKeeps ==
  ASSUME BridgeInv, NEW s \in Station, NEW d \in Station \cup {BROADCAST}, ProcessFrame(s, d)
  PROVE  BridgeInv'
<1> USE BroadcastAssumption
<1>1. /\ at_port \in [Station -> Port] /\ at_port' = at_port /\ at_port[s] \in Port
      /\ settled' = settled \cup {s}
      /\ settled \subseteq DOMAIN mac_table /\ DOMAIN mac_table \subseteq Station
      /\ \A a \in DOMAIN mac_table : mac_table[a] \in Port
  BY DEF ProcessFrame, BridgeInv, BridgeTypeOK
<1>2. /\ DOMAIN mac_table' = DOMAIN mac_table \cup {s}
      /\ mac_table'[s] = at_port[s]
      /\ \A a \in DOMAIN mac_table \ {s} : mac_table'[a] = mac_table[a]
  BY DEF ProcessFrame, Learn
<1>3. \A a \in DOMAIN mac_table' : mac_table'[a] \in Port
  BY <1>1, <1>2
<1>4. frame' = [dest |-> d, segments |-> {at_port[s]} \cup Lookup(mac_table', d)]
  BY DEF ProcessFrame
<1>5. Lookup(mac_table', d) \in SUBSET Port
  BY <1>3 DEF Lookup
<1>6. BridgeTypeOK'
  BY <1>1, <1>2, <1>3, <1>4, <1>5 DEF BridgeTypeOK
<1>7. LearnedIsTrue'
  BY <1>1, <1>2 DEF BridgeInv, LearnedIsTrue
<1>8. ReachesUnlessMoved'
  <2>1. d = BROADCAST => frame'.segments = Port
    BY <1>1, <1>4 DEF Lookup
  <2>2. d \in Station \ DOMAIN mac_table' => frame'.segments = Port
    BY <1>1, <1>4 DEF Lookup
  <2>3. ASSUME d \in settled' PROVE at_port[d] \in frame'.segments
    <3>1. d \in DOMAIN mac_table' /\ d # BROADCAST /\ mac_table'[d] = at_port[d]
      BY <1>1, <1>2, <1>7, <2>3 DEF LearnedIsTrue
    <3>2. QED
      BY <1>4, <3>1 DEF Lookup
  <2>4. frame'.dest = d
    BY <1>4
  <2>5. QED
    BY <1>1, <2>1, <2>2, <2>3, <2>4 DEF ReachesUnlessMoved
<1>9. QED
  BY <1>6, <1>7, <1>8 DEF BridgeInv

LEMMA MoveKeeps ==
  ASSUME BridgeInv, NEW s \in Station, Move(s)
  PROVE  BridgeInv'
<1>1. /\ at_port' \in [Station -> Port]
      /\ \A a \in Station \ {s} : at_port'[a] = at_port[a]
      /\ settled' = settled \ {s} /\ mac_table' = mac_table /\ frame' = NoFrame
      /\ settled \subseteq Station
  BY DEF Move, BridgeInv, BridgeTypeOK, Port
<1>2. BridgeTypeOK'
  BY <1>1 DEF BridgeInv, BridgeTypeOK, NoFrame
<1>3. LearnedIsTrue'
  BY <1>1 DEF BridgeInv, LearnedIsTrue
<1>4. ReachesUnlessMoved'
  BY <1>1, BroadcastAssumption DEF ReachesUnlessMoved, NoFrame
<1>5. QED
  BY <1>2, <1>3, <1>4 DEF BridgeInv

LEMMA BridgeStepInv == BridgeInv /\ [BridgeNext]_bridgeVars => BridgeInv'
<1>1. BridgeInv /\ UNCHANGED bridgeVars => BridgeInv'
  BY DEF bridgeVars, BridgeInv, BridgeTypeOK, LearnedIsTrue, ReachesUnlessMoved
<1>2. QED
  BY <1>1, ProcessFrameKeeps, MoveKeeps DEF BridgeNext

(* A frame reaches the station it is for, unless that one has moved        *)
(* without a word since; a broadcast reaches both segments.                *)
THEOREM BridgeReaches == BridgeSpec => []BridgeTypeOK /\ []ReachesUnlessMoved
<1>1. BridgeInv => BridgeTypeOK /\ ReachesUnlessMoved
  BY DEF BridgeInv
<1>2. QED
  BY <1>1, BridgeInitInv, BridgeStepInv, PTL DEF BridgeSpec

-----------------------------------------------------------------------------
(* homework13/rip_update.cpp.                                              *)

(* What has been merged: R1 knows exactly the destinations it knew and     *)
(* those the loop has come to; the others' routes are as they were read.   *)
UpToDate(d) ==
  /\ r1_table[d].cost <= ViaR2(d).cost
  /\ r1_table[d].next_hop = "R2" => r1_table[d] = ViaR2(d)

KeptFor(d) ==
  \/ r1_table[d] = r1_read[d]
  \/ r1_table[d].cost < r1_read[d].cost
  \/ r1_read[d].next_hop = "R2"

MergedSoFar ==
  /\ DOMAIN r1_table = DOMAIN r1_read \cup (DOMAIN r2_table \ pending)
  /\ \A d \in DOMAIN r1_read \cap pending : r1_table[d] = r1_read[d]
  /\ \A d \in DOMAIN r1_read : KeptFor(d)
  /\ \A d \in DOMAIN r2_table \ pending : UpToDate(d)
  /\ merging = "print" => pending = {}

RipInv == RipTypeOK /\ (merging # "read" => MergedSoFar)

(* Whatever is read or added up, a cost is at most infinity.               *)
LEMMA ClampCost ==
  ASSUME NEW c \in Int
  PROVE  clamp_cost(c) \in 0..RIP_INFINITY
BY RipAssumption DEF clamp_cost

LEMMA ViaR2Type ==
  ASSUME RipTypeOK, NEW d \in DOMAIN r2_table
  PROVE  ViaR2(d) \in Route /\ ViaR2(d).next_hop = "R2"
<1>1. r2_table[d] + 1 \in Int
  BY RipAssumption DEF RipTypeOK
<1>2. clamp_cost(r2_table[d] + 1) \in 0..RIP_INFINITY
  BY <1>1, ClampCost
<1>3. QED
  BY <1>2 DEF ViaR2, Route, Hop

LEMMA RipReadKeeps ==
  ASSUME RipRead
  PROVE  RipInv'
<1>1. PICK D1 \in SUBSET Dest, D2 \in SUBSET Dest :
        \E hop \in [D1 -> Hop], c1 \in [D1 -> RawCost], c2 \in [D2 -> RawCost] :
          /\ r1_table' = [d \in D1 |-> [next_hop |-> hop[d], cost |-> clamp_cost(c1[d])]]
          /\ r2_table' = [d \in D2 |-> clamp_cost(c2[d])]
          /\ pending' = D2
  BY DEF RipRead
<1>2. PICK hop \in [D1 -> Hop], c1 \in [D1 -> RawCost], c2 \in [D2 -> RawCost] :
        /\ r1_table' = [d \in D1 |-> [next_hop |-> hop[d], cost |-> clamp_cost(c1[d])]]
        /\ r2_table' = [d \in D2 |-> clamp_cost(c2[d])]
        /\ pending' = D2
  BY <1>1
<1>3. \A d \in D1 : clamp_cost(c1[d]) \in 0..RIP_INFINITY
  BY RipAssumption, ClampCost
<1>4. \A d \in D2 : clamp_cost(c2[d]) \in 0..RIP_INFINITY
  BY RipAssumption, ClampCost
<1>5. r1_read' = r1_table' /\ merging' = "merge"
  BY DEF RipRead
<1>6. DOMAIN r1_table' = D1 /\ \A d \in D1 : r1_table'[d] \in Route
  BY <1>2, <1>3 DEF Route
<1>7. DOMAIN r2_table' = D2 /\ \A d \in D2 : r2_table'[d] \in 0..RIP_INFINITY
  BY <1>2, <1>4
<1>8. RipTypeOK'
  BY <1>2, <1>5, <1>6, <1>7 DEF RipTypeOK
<1>9. MergedSoFar'
  BY <1>2, <1>5, <1>7 DEF MergedSoFar, KeptFor
<1>10. QED
  BY <1>8, <1>9 DEF RipInv

(* The destination the loop comes to is as it was read until then.         *)
LEMMA RipMergeKeeps ==
  ASSUME RipInv, RipMerge
  PROVE  RipInv'
<1>1. PICK d \in pending :
        /\ pending' = pending \ {d}
        /\ r1_table' = IF Taken(d)
                         THEN [e \in DOMAIN r1_table \cup {d} |->
                                 IF e = d THEN ViaR2(d) ELSE r1_table[e]]
                         ELSE r1_table
  BY DEF RipMerge
<1>2. /\ RipTypeOK /\ MergedSoFar /\ merging = "merge" /\ d \in DOMAIN r2_table
      /\ UNCHANGED <<merging, r2_table, r1_read>>
  BY DEF RipMerge, RipInv, RipTypeOK
<1>3. ViaR2(d) \in Route /\ ViaR2(d).next_hop = "R2"
  BY <1>2, ViaR2Type
<1>4. /\ DOMAIN r1_table' = DOMAIN r1_table \cup {d}
      /\ \A e \in DOMAIN r1_table \ {d} : r1_table'[e] = r1_table[e]
      /\ r1_table'[d] = IF Taken(d) THEN ViaR2(d) ELSE r1_table[d]
  BY <1>1 DEF Taken
<1>5. d \in DOMAIN r1_table <=> d \in DOMAIN r1_read
  BY <1>2 DEF MergedSoFar
<1>6. d \in DOMAIN r1_table => r1_table[d] = r1_read[d] /\ r1_table[d] \in Route
  BY <1>2, <1>5 DEF MergedSoFar, RipTypeOK
<1>7. RipTypeOK'
  <2>1. DOMAIN r1_table' \subseteq Dest /\ \A e \in DOMAIN r1_table' : r1_table'[e] \in Route
    BY <1>2, <1>3, <1>4, <1>6 DEF RipTypeOK, Taken
  <2>2. QED
    BY <1>1, <1>2, <2>1 DEF RipTypeOK
<1>8. \A e : ViaR2(e)' = ViaR2(e)
  BY <1>2 DEF ViaR2
<1>9. UpToDate(d)' /\ (d \in DOMAIN r1_read => KeptFor(d)')
  <2>1. CASE Taken(d)
    <3>1. UpToDate(d)'
      BY <1>3, <1>4, <1>8, <2>1 DEF UpToDate, Route
    <3>2. d \in DOMAIN r1_read => KeptFor(d)'
      BY <1>2, <1>4, <1>5, <1>6, <2>1 DEF KeptFor, Taken
    <3>3. QED
      BY <3>1, <3>2
  <2>2. CASE ~Taken(d)
    <3>1. /\ r1_table'[d] = r1_table[d] /\ r1_table[d] = r1_read[d] /\ r1_table[d] \in Route
          /\ r1_table[d].next_hop # "R2" /\ ~(ViaR2(d).cost < r1_table[d].cost)
      BY <1>4, <1>6, <2>2 DEF Taken
    <3>2. ViaR2(d).cost \in Nat /\ r1_table[d].cost \in Nat
      BY <1>3, <3>1 DEF Route
    <3>3. UpToDate(d)'
      BY <1>8, <3>1, <3>2 DEF UpToDate
    <3>4. KeptFor(d)'
      BY <1>2, <3>1 DEF KeptFor
    <3>5. QED
      BY <3>3, <3>4
  <2>3. QED
    BY <2>1, <2>2
<1>10. MergedSoFar'
  <2>1. DOMAIN r1_table' = DOMAIN r1_read' \cup (DOMAIN r2_table' \ pending')
    BY <1>1, <1>2, <1>4 DEF MergedSoFar
  <2>2. \A e \in DOMAIN r1_read' \cap pending' : r1_table'[e] = r1_read'[e]
    BY <1>1, <1>2, <1>4 DEF MergedSoFar
  <2>3. \A e \in DOMAIN r1_read' : KeptFor(e)'
    <3> TAKE e \in DOMAIN r1_read'
    <3>1. CASE e = d
      BY <3>1, <1>2, <1>9
    <3>2. CASE e # d
      BY <3>2, <1>2, <1>4 DEF MergedSoFar, KeptFor
    <3>3. QED
      BY <3>1, <3>2
  <2>4. \A e \in DOMAIN r2_table' \ pending' : UpToDate(e)'
    <3> TAKE e \in DOMAIN r2_table' \ pending'
    <3>1. CASE e = d
      BY <3>1, <1>9
    <3>2. CASE e # d
      <4>1. e \in DOMAIN r2_table \ pending /\ e \in DOMAIN r1_table
        BY <3>2, <1>1, <1>2 DEF MergedSoFar
      <4>2. QED
        BY <3>2, <4>1, <1>2, <1>4, <1>8 DEF MergedSoFar, UpToDate
    <3>3. QED
      BY <3>1, <3>2
  <2>5. QED
    BY <1>2, <2>1, <2>2, <2>3, <2>4 DEF MergedSoFar
<1>11. QED
  BY <1>7, <1>10 DEF RipInv

LEMMA RipPrintKeeps ==
  ASSUME RipInv, RipPrint
  PROVE  RipInv'
BY DEF RipPrint, RipInv, RipTypeOK, MergedSoFar, KeptFor, UpToDate, ViaR2

LEMMA RipInitInv == RipInit => RipInv
BY DEF RipInit, RipInv, RipTypeOK

LEMMA RipStepInv == RipInv /\ [RipNext]_ripVars => RipInv'
<1>1. RipInv /\ UNCHANGED ripVars => RipInv'
  BY DEF ripVars, RipInv, RipTypeOK, MergedSoFar, KeptFor, UpToDate, ViaR2
<1>2. QED
  BY <1>1, RipReadKeeps, RipMergeKeeps, RipPrintKeeps DEF RipNext, Printed

LEMMA RipInvRight == RipInv => RipTypeOK /\ RoutesUpdated
BY DEF RipInv, MergedSoFar, RoutesUpdated, KeptFor, UpToDate

(* The table printed: no route through R2 but as R2 says, none dearer than *)
(* by R2, and none that R1 had lost except for a cheaper one.              *)
THEOREM RipTableRight == RipSpec => []RipTypeOK /\ []RoutesUpdated
<1>1. QED
  BY RipInitInv, RipStepInv, RipInvRight, PTL DEF RipSpec

(* R2's table once more would change nothing: what would be taken from it  *)
(* is what R1 has.                                                         *)
MergedForGood ==
  merging = "print" => \A d \in DOMAIN r2_table : Taken(d) => r1_table[d] = ViaR2(d)

THEOREM SecondUpdateIsIdle == RipSpec => []MergedForGood
<1>1. ASSUME RipTypeOK, RoutesUpdated
      PROVE  MergedForGood
  <2> SUFFICES ASSUME merging = "print", NEW d \in DOMAIN r2_table, Taken(d)
               PROVE  r1_table[d] = ViaR2(d)
    BY DEF MergedForGood
  <2>1. /\ d \in DOMAIN r1_table /\ r1_table[d].cost <= ViaR2(d).cost
        /\ r1_table[d].next_hop = "R2" => r1_table[d] = ViaR2(d)
    BY <1>1 DEF RoutesUpdated
  <2>2. ViaR2(d).cost \in Nat /\ r1_table[d].cost \in Nat
    BY <1>1, <2>1, ViaR2Type DEF RipTypeOK, Route
  <2>3. ~(ViaR2(d).cost < r1_table[d].cost)
    BY <2>1, <2>2
  <2>4. QED
    BY <2>1, <2>3 DEF Taken
<1>2. QED
  BY <1>1, RipTableRight, PTL

-----------------------------------------------------------------------------
(* homework9/dhcp_server.cpp.  The invariant follows the address through   *)
(* the datagrams.  The network keeps them all, so what matters of one is   *)
(* whether its number is that of its client's present exchange; none is    *)
(* from the future, and so none is of an exchange that has only begun.     *)

(* A client that is in an exchange and has sent its REQUEST; in any other  *)
(* state of an exchange it has sent none.                                  *)
HasAsked(c) == phase[c] \in {"requesting", "bound"}
AsAsked(c) == IF asked[c] # NoAddress THEN asked[c] ELSE FixedIp

LeasesFixed == \A c \in DOMAIN lease_table : lease_table[c] = FixedIp

NoneFromTheFuture ==
  /\ \A m \in requests : m.xid <= xid[m.mac]
  /\ \A r \in replies : r.xid <= xid[r.chaddr]

RequestsAsAsked ==
  \A m \in requests :
    m.type = "REQUEST" /\ m.xid = xid[m.mac] /\ phase[m.mac] # "init" =>
      HasAsked(m.mac) /\ m.requested = asked[m.mac]

AcksAsAsked ==
  \A r \in replies :
    r.type = "ACK" /\ r.xid = xid[r.chaddr] /\ phase[r.chaddr] # "init" =>
      HasAsked(r.chaddr) /\ r.yiaddr = AsAsked(r.chaddr)

BoundAsAsked == \A c \in Client : phase[c] = "bound" => address[c] = AsAsked(c)

(* Every offer is the fixed address, and it is what a client asks for that *)
(* has taken one.                                                          *)
OffersFixed == \A r \in replies : r.type = "OFFER" => r.yiaddr = FixedIp
DiscoverersTakeOffers ==
  \A c \in Client : HasAsked(c) /\ Discovered(c) => asked[c] = FixedIp

ExchangeInv ==
  /\ LeasesFixed
  /\ NoneFromTheFuture
  /\ RequestsAsAsked
  /\ AcksAsAsked
  /\ BoundAsAsked
  /\ OffersFixed
  /\ DiscoverersTakeOffers

DhcpInv == DhcpTypeOK /\ ExchangeInv

USE AddressAssumption, MaxXidAssumption

-----------------------------------------------------------------------------
(* What a lease is: whoever has none is given the fixed address.           *)
LEMMA LeaseOfType ==
  ASSUME DhcpTypeOK, NEW c \in Client
  PROVE  LeaseOf(c) \in Address
BY DEF DhcpTypeOK, LeaseOf

LEMMA LeaseOfFixed ==
  ASSUME LeasesFixed, NEW c
  PROVE  LeaseOf(c) = FixedIp
BY DEF LeasesFixed, LeaseOf

(* 0 is no address: the option is there exactly if the number is not 0.    *)
LEMMA NoAddressIsNone == NoAddress \notin Address
BY DEF NoAddress

(* Every step of the server and of a client keeps every variable in its    *)
(* range: only clients have leases, numbers stay within MaxXid, and        *)
(* addresses come from the datagrams alone.                                *)
LEMMA DhcpInitType == DhcpInit => DhcpTypeOK
BY DEF DhcpInit, DhcpTypeOK, NoAddress

LEMMA DhcpStepType == DhcpTypeOK /\ [DhcpNext]_dhcpVars => DhcpTypeOK'
<1> SUFFICES ASSUME DhcpTypeOK, [DhcpNext]_dhcpVars
             PROVE  DhcpTypeOK'
  OBVIOUS
<1>1. CASE ServeDhcp
  <2>1. PICK m \in requests : Discover(m) \/ Acknowledge(m) \/ NoAnswerTo(m)
    BY <1>1 DEF ServeDhcp
  <2>2. m \in Request
    BY DEF DhcpTypeOK
  <2>3. m.mac \in Client /\ m.xid \in 1..MaxXid /\ m.requested \in Address \cup {NoAddress}
    BY <2>2 DEF Request
  <2>4. Lease(m)
    BY <2>1 DEF Discover, Acknowledge, NoAnswerTo
  <2>5. /\ DOMAIN lease_table' \subseteq Client
        /\ \A c \in DOMAIN lease_table' : lease_table'[c] \in Address
    BY <2>3, <2>4, LeaseOfType DEF Lease, DhcpTypeOK
  <2>6. LeaseOf(m.mac) \in Address /\ Chosen(m) \in Address
    BY <2>3, LeaseOfType DEF Chosen
  <2>7. \A type \in {"OFFER", "ACK"}, a \in Address : BuildReply(m, type, a) \in Reply
    BY <2>3 DEF BuildReply, Reply
  <2>8. replies' \subseteq Reply
    <3>1. BuildReply(m, "OFFER", LeaseOf(m.mac)) \in Reply /\ BuildReply(m, "ACK", Chosen(m)) \in Reply
      BY <2>6, <2>7
    <3>2. replies \subseteq Reply
      BY DEF DhcpTypeOK
    <3>3. QED
      BY <2>1, <3>1, <3>2 DEF Discover, Acknowledge, NoAnswerTo
  <2>9. QED
    BY <1>1, <2>5, <2>8 DEF ServeDhcp, DhcpTypeOK, clientState
<1>2. CASE RestartDhcp
  BY <1>2 DEF RestartDhcp, DhcpTypeOK, clientState
<1>3. ASSUME NEW c \in Client, NEW from, NEW type \in {"DISCOVER", "REQUEST", "OTHER"},
             NEW a \in Address \cup {NoAddress}, NEW to \in {"init", "selecting", "requesting"},
             Begin(c, from, type, a, to), address' \in [Client -> Address \cup {NoAddress}]
      PROVE  DhcpTypeOK'
  <2>1. xid[c] + 1 \in 1..MaxXid
    BY <1>3 DEF Begin, DhcpTypeOK
  <2>2. requests' \subseteq Request
    BY <1>3, <2>1 DEF Begin, Send, Request, DhcpTypeOK
  <2>3. QED
    BY <1>3, <2>1, <2>2 DEF Begin, DhcpTypeOK
<1>4. ASSUME NEW c \in Client, ClientStep(c)
      PROVE  DhcpTypeOK'
  <2>1. CASE Boot(c)
    BY <1>3, <2>1 DEF Boot, DhcpTypeOK
  <2>2. CASE Reboot(c)
    BY <1>3, <2>2 DEF Reboot, DhcpTypeOK
  <2>3. CASE Renew(c)
    BY <1>3, <2>3 DEF Renew, DhcpTypeOK
  <2>4. CASE ReleaseLease(c)
    <3>1. address' \in [Client -> Address \cup {NoAddress}]
      BY <2>4 DEF ReleaseLease, GiveUpAddress, DhcpTypeOK
    <3>2. QED
      BY <1>3, <2>4, <3>1 DEF ReleaseLease
  <2>5. CASE GiveUp(c)
    BY <2>5 DEF GiveUp, GiveUpAddress, DhcpTypeOK
  <2>6. CASE TakeOffer(c)
    <3>1. PICK r \in replies : /\ Mine(c, r, "OFFER")
                               /\ Send(c, "REQUEST", xid[c], r.yiaddr)
                               /\ asked' = [asked EXCEPT ![c] = r.yiaddr]
      BY <2>6 DEF TakeOffer
    <3>2. r \in Reply
      BY DEF DhcpTypeOK
    <3>3. r.yiaddr \in Address /\ xid[c] \in 1..MaxXid
      BY <3>1, <3>2 DEF Reply, Mine
    <3>4. requests' \subseteq Request
      BY <3>1, <3>3 DEF Send, Request, DhcpTypeOK
    <3>5. QED
      BY <2>6, <3>1, <3>3, <3>4 DEF TakeOffer, DhcpTypeOK
  <2>7. CASE TakeAck(c)
    <3>1. PICK r \in replies : address' = [address EXCEPT ![c] = r.yiaddr]
      BY <2>7 DEF TakeAck
    <3>2. r.yiaddr \in Address
      BY DEF DhcpTypeOK, Reply
    <3>3. QED
      BY <2>7, <3>1, <3>2 DEF TakeAck, DhcpTypeOK
  <2>8. QED
    BY <1>4, <2>1, <2>2, <2>3, <2>4, <2>5, <2>6, <2>7 DEF ClientStep
<1>5. CASE UNCHANGED dhcpVars
  BY <1>5 DEF dhcpVars, clientState, DhcpTypeOK
<1>6. QED
  BY <1>1, <1>2, <1>4, <1>5 DEF DhcpNext

(* The type invariant of the server and its clients.                       *)
THEOREM DhcpTypeCorrect == DhcpSpec => []DhcpTypeOK
<1>1. QED
  BY DhcpInitType, DhcpStepType, PTL DEF DhcpSpec

-----------------------------------------------------------------------------
(* A step of the exchange.  Every step but a server's answer and a         *)
(* client's sending leaves the datagrams alone.                            *)

(* The server's answer repeats the number of the datagram it answers.  An  *)
(* ACK names the address of the REQUEST, or the lease, and an OFFER the    *)
(* lease.  Every lease is the fixed address, after a restart, too, when it *)
(* is given anew.                                                          *)
LEMMA ServeKeepsExchange ==
  ASSUME DhcpInv, ServeDhcp
  PROVE  ExchangeInv'
<1>1. PICK m \in requests : Discover(m) \/ Acknowledge(m) \/ NoAnswerTo(m)
  BY DEF ServeDhcp
<1>2. m.mac \in Client /\ LeaseOf(m.mac) = FixedIp
  BY LeaseOfFixed DEF DhcpInv, ExchangeInv, DhcpTypeOK, Request
<1>3. LeasesFixed'
  <2>1. Lease(m)
    BY <1>1 DEF Discover, Acknowledge, NoAnswerTo
  <2>2. QED
    BY <2>1, LeaseOfFixed DEF Lease, LeasesFixed, DhcpInv, ExchangeInv
<1>4. UNCHANGED <<requests, phase, xid, asked, address>>
  BY DEF ServeDhcp, clientState
<1>5. RequestsAsAsked' /\ BoundAsAsked' /\ DiscoverersTakeOffers'
  BY <1>4 DEF DhcpInv, ExchangeInv, RequestsAsAsked, BoundAsAsked, DiscoverersTakeOffers,
              Discovered, HasAsked, AsAsked
<1>6. ASSUME NEW r \in replies', r \notin replies
      PROVE  /\ r.chaddr = m.mac /\ r.xid = m.xid
             /\ r.type = "ACK" => m.type = "REQUEST" /\ r.yiaddr = Chosen(m)
             /\ r.type = "OFFER" => r.yiaddr = LeaseOf(m.mac)
  BY <1>1, <1>6 DEF Discover, Acknowledge, NoAnswerTo, BuildReply
<1>7. NoneFromTheFuture'
  BY <1>4, <1>6 DEF DhcpInv, ExchangeInv, NoneFromTheFuture
<1>8. AcksAsAsked'
  <2> SUFFICES ASSUME NEW r \in replies', r.type = "ACK", r.xid = xid[r.chaddr],
                      phase[r.chaddr] # "init"
               PROVE  HasAsked(r.chaddr) /\ r.yiaddr = AsAsked(r.chaddr)
    BY <1>4 DEF AcksAsAsked, HasAsked, AsAsked
  <2>1. CASE r \in replies
    BY <2>1 DEF DhcpInv, ExchangeInv, AcksAsAsked
  <2>2. CASE r \notin replies
    <3>1. HasAsked(m.mac) /\ m.requested = asked[m.mac]
      BY <2>2, <1>6 DEF DhcpInv, ExchangeInv, RequestsAsAsked
    <3>2. QED
      BY <2>2, <3>1, <1>2, <1>6 DEF Chosen, AsAsked
  <2>3. QED
    BY <2>1, <2>2
<1>9. OffersFixed'
  BY <1>2, <1>6 DEF DhcpInv, ExchangeInv, OffersFixed
<1>10. QED
  BY <1>3, <1>5, <1>7, <1>8, <1>9 DEF ExchangeInv

(* A new exchange has a number no datagram has had, and its first one      *)
(* names the address the client asks for.                                  *)
LEMMA BeginKeepsExchange ==
  ASSUME DhcpInv, NEW c \in Client, NEW from, NEW type, NEW a, NEW to,
         Begin(c, from, type, a, to),
         type = "REQUEST" => to = "requesting", type = "DISCOVER" => to = "selecting",
         to # "bound",
         \A d \in Client \ {c} : address'[d] = address[d]
  PROVE  ExchangeInv'
<1> DEFINE m0 == [type |-> type, mac |-> c, xid |-> xid[c] + 1, requested |-> a]
<1> USE DEF DhcpInv, ExchangeInv
<1>1. /\ phase[c] = from /\ xid[c] \in Nat /\ xid[c] < MaxXid
      /\ requests' = requests \cup {m0}
      /\ xid' = [xid EXCEPT ![c] = @ + 1]
      /\ phase' = [phase EXCEPT ![c] = to]
      /\ asked' = [asked EXCEPT ![c] = a]
      /\ lease_table' = lease_table /\ replies' = replies
  BY DEF Begin, Send, DhcpTypeOK
<1>2. /\ xid'[c] = xid[c] + 1 /\ phase'[c] = to /\ asked'[c] = a
      /\ \A d \in Client \ {c} : xid'[d] = xid[d] /\ phase'[d] = phase[d] /\ asked'[d] = asked[d]
  BY <1>1 DEF DhcpTypeOK
<1>3. /\ \A m \in requests : m.mac \in Client /\ m.xid \in Nat
      /\ \A r \in replies : r.chaddr \in Client /\ r.xid \in Nat
  BY DEF DhcpTypeOK, Request, Reply
<1>4. /\ \A m \in requests : m.mac = c => m.xid < xid'[c]
      /\ \A r \in replies : r.chaddr = c => r.xid < xid'[c]
  BY <1>1, <1>2, <1>3 DEF NoneFromTheFuture
<1>5. LeasesFixed'
  BY <1>1 DEF LeasesFixed
<1>6. NoneFromTheFuture'
  <2>1. \A m \in requests' : m.xid <= xid'[m.mac]
    <3> TAKE m \in requests'
    <3>1. CASE m = m0
      BY <3>1, <1>1, <1>2
    <3>2. CASE m \in requests /\ m.mac = c
      BY <3>2, <1>1, <1>2, <1>3, <1>4
    <3>3. CASE m \in requests /\ m.mac # c
      BY <3>3, <1>2, <1>3 DEF NoneFromTheFuture
    <3>4. QED
      BY <3>1, <3>2, <3>3, <1>1
  <2>2. \A r \in replies' : r.xid <= xid'[r.chaddr]
    BY <1>1, <1>2, <1>3, <1>4 DEF NoneFromTheFuture
  <2>3. QED
    BY <2>1, <2>2 DEF NoneFromTheFuture
<1>7. RequestsAsAsked'
  <2> SUFFICES ASSUME NEW m \in requests', m.type = "REQUEST", m.xid = xid'[m.mac],
                      phase'[m.mac] # "init"
               PROVE  phase'[m.mac] \in {"requesting", "bound"} /\ m.requested = asked'[m.mac]
    BY DEF RequestsAsAsked, HasAsked
  <2>1. CASE m = m0
    BY <2>1, <1>2
  <2>2. CASE m \in requests /\ m.mac = c
    BY <2>2, <1>1, <1>2, <1>3, <1>4
  <2>3. CASE m \in requests /\ m.mac # c
    BY <2>3, <1>2, <1>3 DEF RequestsAsAsked, HasAsked
  <2>4. QED
    BY <2>1, <2>2, <2>3, <1>1
<1>8. AcksAsAsked'
  <2> SUFFICES ASSUME NEW r \in replies, r.type = "ACK", r.xid = xid'[r.chaddr],
                      phase'[r.chaddr] # "init"
               PROVE  /\ phase'[r.chaddr] \in {"requesting", "bound"}
                      /\ r.yiaddr = IF asked'[r.chaddr] # NoAddress THEN asked'[r.chaddr] ELSE FixedIp
    BY <1>1 DEF AcksAsAsked, HasAsked, AsAsked
  <2>1. r.chaddr # c
    BY <1>1, <1>2, <1>3, <1>4
  <2>2. QED
    BY <2>1, <1>2, <1>3 DEF AcksAsAsked, HasAsked, AsAsked
<1>9. BoundAsAsked' /\ OffersFixed'
  BY <1>1, <1>2 DEF BoundAsAsked, AsAsked, OffersFixed
<1>10. DiscoverersTakeOffers'
  <2> SUFFICES ASSUME NEW d \in Client, phase'[d] \in {"requesting", "bound"},
                      NEW m \in requests', m.type = "DISCOVER", m.mac = d, m.xid = xid'[d]
               PROVE  asked'[d] = FixedIp
    BY DEF DiscoverersTakeOffers, Discovered, HasAsked
  <2>1. m # m0
    BY <1>2
  <2>2. m \in requests /\ d # c
    BY <2>1, <1>1, <1>2, <1>3, <1>4
  <2>3. QED
    BY <2>2, <1>2 DEF DiscoverersTakeOffers, Discovered, HasAsked
<1>11. QED
  BY <1>5, <1>6, <1>7, <1>8, <1>9, <1>10

(* The client's other steps stay within the exchange.                      *)
LEMMA ClientKeepsExchange ==
  ASSUME DhcpInv, NEW c \in Client, ClientStep(c)
  PROVE  ExchangeInv'
<1>1. CASE Boot(c) \/ Reboot(c) \/ Renew(c)
  BY <1>1, BeginKeepsExchange DEF Boot, Reboot, Renew
<1>2. CASE ReleaseLease(c)
  <2>1. \A d \in Client \ {c} : address'[d] = address[d]
    BY <1>2 DEF ReleaseLease, GiveUpAddress, DhcpInv, DhcpTypeOK
  <2>2. QED
    BY <1>2, <2>1, BeginKeepsExchange DEF ReleaseLease
<1> USE DEF DhcpInv, ExchangeInv
<1>3. CASE GiveUp(c)
  <2>1. /\ phase'[c] = "init"
        /\ \A d \in Client \ {c} : phase'[d] = phase[d] /\ address'[d] = address[d]
        /\ UNCHANGED <<lease_table, requests, replies, xid, asked>>
    BY <1>3 DEF GiveUp, GiveUpAddress, DhcpTypeOK
  <2>2. \A m \in requests : m.mac \in Client
    BY DEF DhcpTypeOK, Request
  <2>3. \A r \in replies : r.chaddr \in Client
    BY DEF DhcpTypeOK, Reply
  <2>4. LeasesFixed' /\ NoneFromTheFuture'
    BY <2>1 DEF LeasesFixed, NoneFromTheFuture
  <2>5. RequestsAsAsked'
    BY <2>1, <2>2 DEF RequestsAsAsked, HasAsked
  <2>6. AcksAsAsked'
    BY <2>1, <2>3 DEF AcksAsAsked, HasAsked, AsAsked
  <2>7. BoundAsAsked' /\ OffersFixed' /\ DiscoverersTakeOffers'
    BY <2>1 DEF BoundAsAsked, AsAsked, OffersFixed, DiscoverersTakeOffers, Discovered, HasAsked
  <2>8. QED
    BY <2>4, <2>5, <2>6, <2>7
<1>4. CASE TakeOffer(c)
  <2>1. PICK r \in replies :
          /\ r.type = "OFFER"
          /\ requests' = requests \cup {[type |-> "REQUEST", mac |-> c, xid |-> xid[c],
                                         requested |-> r.yiaddr]}
          /\ asked' = [asked EXCEPT ![c] = r.yiaddr]
    BY <1>4 DEF TakeOffer, Send, Mine
  <2> DEFINE m0 == [type |-> "REQUEST", mac |-> c, xid |-> xid[c], requested |-> r.yiaddr]
  <2>2. /\ phase[c] = "selecting" /\ phase'[c] = "requesting" /\ asked'[c] = r.yiaddr
        /\ \A d \in Client \ {c} : phase'[d] = phase[d] /\ asked'[d] = asked[d]
        /\ UNCHANGED <<lease_table, replies, xid, address>>
    BY <1>4, <2>1 DEF TakeOffer, DhcpTypeOK
  <2>3. xid[c] \in Nat /\ \A m \in requests : m.mac \in Client
    BY DEF DhcpTypeOK, Request
  <2>4. \A s \in replies : s.chaddr \in Client
    BY DEF DhcpTypeOK, Reply
  <2>5. LeasesFixed' /\ BoundAsAsked' /\ OffersFixed'
    BY <2>2 DEF LeasesFixed, BoundAsAsked, AsAsked, OffersFixed
  <2>6. NoneFromTheFuture'
    BY <2>1, <2>2, <2>3 DEF NoneFromTheFuture
  <2>7. RequestsAsAsked'
    <3> SUFFICES ASSUME NEW m \in requests', m.type = "REQUEST", m.xid = xid[m.mac],
                        phase'[m.mac] # "init"
                 PROVE  phase'[m.mac] \in {"requesting", "bound"} /\ m.requested = asked'[m.mac]
      BY <2>2 DEF RequestsAsAsked, HasAsked
    <3>1. CASE m = m0
      BY <3>1, <2>2
    <3>2. CASE m \in requests
      BY <3>2, <2>2, <2>3 DEF RequestsAsAsked, HasAsked
    <3>3. QED
      BY <3>1, <3>2, <2>1
  <2>8. AcksAsAsked'
    BY <2>2, <2>4 DEF AcksAsAsked, HasAsked, AsAsked
  <2>9. DiscoverersTakeOffers'
    <3>1. asked'[c] = FixedIp
      BY <2>1, <2>2 DEF OffersFixed
    <3>2. \A d \in Client : Discovered(d)' => Discovered(d)
      BY <2>1, <2>2 DEF Discovered
    <3>3. QED
      BY <2>2, <3>1, <3>2 DEF DiscoverersTakeOffers, HasAsked
  <2>10. QED
    BY <2>5, <2>6, <2>7, <2>8, <2>9
<1>5. CASE TakeAck(c)
  <2>1. PICK r \in replies : Mine(c, r, "ACK") /\ address' = [address EXCEPT ![c] = r.yiaddr]
    BY <1>5 DEF TakeAck
  <2>2. /\ phase[c] = "requesting" /\ phase'[c] = "bound" /\ address'[c] = r.yiaddr
        /\ \A d \in Client \ {c} : phase'[d] = phase[d] /\ address'[d] = address[d]
        /\ UNCHANGED <<lease_table, requests, replies, xid, asked>>
    BY <1>5, <2>1 DEF TakeAck, DhcpTypeOK
  <2>3. \A m \in requests : m.mac \in Client
    BY DEF DhcpTypeOK, Request
  <2>4. \A s \in replies : s.chaddr \in Client
    BY DEF DhcpTypeOK, Reply
  <2>5. r.yiaddr = AsAsked(c)
    BY <2>1, <2>2 DEF Mine, AcksAsAsked
  <2>6. LeasesFixed' /\ NoneFromTheFuture'
    BY <2>2 DEF LeasesFixed, NoneFromTheFuture
  <2>7. RequestsAsAsked'
    BY <2>2, <2>3 DEF RequestsAsAsked, HasAsked
  <2>8. AcksAsAsked'
    BY <2>2, <2>4 DEF AcksAsAsked, HasAsked, AsAsked
  <2>9. BoundAsAsked'
    BY <2>2, <2>5 DEF BoundAsAsked, AsAsked
  <2>10. OffersFixed' /\ DiscoverersTakeOffers'
    BY <2>2 DEF OffersFixed, DiscoverersTakeOffers, Discovered, HasAsked
  <2>11. QED
    BY <2>6, <2>7, <2>8, <2>9, <2>10
<1>6. QED
  BY <1>1, <1>2, <1>3, <1>4, <1>5 DEF ClientStep

LEMMA DhcpStepKeepsExchange == DhcpInv /\ [DhcpNext]_dhcpVars => ExchangeInv'
<1> SUFFICES ASSUME DhcpInv, [DhcpNext]_dhcpVars
             PROVE  ExchangeInv'
  OBVIOUS
<1>1. CASE RestartDhcp
  BY <1>1 DEF RestartDhcp, clientState, DhcpInv, ExchangeInv, LeasesFixed, NoneFromTheFuture,
              RequestsAsAsked, AcksAsAsked, BoundAsAsked, OffersFixed, DiscoverersTakeOffers,
              Discovered, HasAsked, AsAsked
<1>2. CASE UNCHANGED dhcpVars
  BY <1>2 DEF dhcpVars, clientState, DhcpInv, ExchangeInv, LeasesFixed, NoneFromTheFuture,
              RequestsAsAsked, AcksAsAsked, BoundAsAsked, OffersFixed, DiscoverersTakeOffers,
              Discovered, HasAsked, AsAsked
<1>3. QED
  BY <1>1, <1>2, ServeKeepsExchange, ClientKeepsExchange DEF DhcpNext

LEMMA DhcpInitInv == DhcpInit => DhcpInv
<1>1. DhcpInit => ExchangeInv
  BY DEF DhcpInit, ExchangeInv, LeasesFixed, NoneFromTheFuture, RequestsAsAsked, AcksAsAsked,
         BoundAsAsked, OffersFixed, DiscoverersTakeOffers, HasAsked
<1>2. QED
  BY <1>1, DhcpInitType DEF DhcpInv

LEMMA DhcpStepInv == DhcpInv /\ [DhcpNext]_dhcpVars => DhcpInv'
BY DhcpStepType, DhcpStepKeepsExchange DEF DhcpInv

LEMMA DhcpInvFixed == DhcpInv => FixedUnlessRemembered
BY NoAddressIsNone DEF DhcpInv, ExchangeInv, BoundAsAsked, DiscoverersTakeOffers, HasAsked,
                       AsAsked, FixedUnlessRemembered

(* A client that was offered its address, or named none, has the fixed one *)
(* when it is bound, whatever datagrams are lost, late or repeated,        *)
(* however often the server restarts, and whatever was asked for before.   *)
THEOREM OnlyRememberedDiffer == DhcpSpec => []FixedUnlessRemembered
<1>1. QED
  BY DhcpInvFixed, DhcpInitInv, DhcpStepInv, PTL DEF DhcpSpec

-----------------------------------------------------------------------------
(* homework9/icmp_ping.cpp.                                                *)

(* What a server or a system sends is a reply, so that nothing but what    *)
(* the client and other programs have asked is ever answered: two servers  *)
(* cannot keep each other busy.                                            *)
FromAsker(p) == p.type = "ECHO" => p.by \in {"client", "other"}
OnlyAskedAnswered ==
  /\ \A p \in flying : FromAsker(p)
  /\ \A h \in Host : \A i \in 1..Len(inbox[h]) : FromAsker(inbox[h][i])

PingInv == PingTypeOK /\ OnlyAskedAnswered

LEMMA EchoReplyIsPacket ==
  ASSUME NEW p \in Packet, NEW by \in {"client", "server", "system", "other"}
  PROVE  EchoReply(p, by) \in Packet /\ FromAsker(EchoReply(p, by))
BY DEF EchoReply, Packet, FromAsker

LEMMA DeliverKeeps ==
  ASSUME PingInv, NEW p \in flying, Deliver(p)
  PROVE  PingInv'
<1>1. p \in Packet /\ FromAsker(p) /\ p.dst \in Host
  BY DEF PingInv, PingTypeOK, OnlyAskedAnswered, Packet
<1>2. PICK answer : answer = EchoReply(p, "system")
  OBVIOUS
<1>3. answer \in Packet /\ FromAsker(answer)
  BY <1>1, <1>2, EchoReplyIsPacket
<1>4. flying' \subseteq flying \cup {answer}
  BY <1>2 DEF Deliver
<1>5. inbox' = inbox \/ inbox' = [inbox EXCEPT ![p.dst] = Append(@, p)]
  BY DEF Deliver
<1>6. reply' = reply \/ reply' = Append(reply, p)
  BY DEF Deliver
<1>7. UNCHANGED <<serving, client, target, printed, foreign>>
  BY DEF Deliver
<1>8. \A h \in Host : inbox[h] \in Seq(Packet)
  BY DEF PingInv, PingTypeOK
<1>9. /\ inbox' \in [Host -> Seq(Packet)]
      /\ \A h \in Host : \A i \in 1..Len(inbox'[h]) : FromAsker(inbox'[h][i])
  <2>1. CASE inbox' = inbox
    BY <2>1 DEF PingInv, PingTypeOK, OnlyAskedAnswered
  <2>2. CASE inbox' = [inbox EXCEPT ![p.dst] = Append(@, p)]
    <3>1. Append(inbox[p.dst], p) \in Seq(Packet)
      BY <1>1, <1>8
    <3>2. inbox' \in [Host -> Seq(Packet)]
      BY <2>2, <3>1 DEF PingInv, PingTypeOK
    <3>3. \A h \in Host : inbox'[h] = IF h = p.dst THEN Append(inbox[h], p) ELSE inbox[h]
      BY <2>2 DEF PingInv, PingTypeOK
    <3>4. ASSUME NEW h \in Host, NEW i \in 1..Len(inbox'[h]) PROVE FromAsker(inbox'[h][i])
      <4>1. CASE h = p.dst
        <5>1. PICK s \in Seq(Packet) : s = inbox[h]
          BY <1>8
        <5>2. PICK t : t = Append(s, p)
          OBVIOUS
        <5>3. /\ Len(t) = Len(s) + 1 /\ Len(s) \in Nat /\ t[Len(s) + 1] = p
              /\ \A j \in 1..Len(s) : t[j] = s[j]
          BY <1>1, <5>2
        <5>4. inbox'[h] = t
          BY <3>3, <4>1, <5>1, <5>2
        <5>5. i = Len(s) + 1 \/ i \in 1..Len(s)
          BY <5>3, <5>4
        <5>6. \A j \in 1..Len(s) : FromAsker(s[j])
          BY <5>1 DEF PingInv, OnlyAskedAnswered
        <5>7. QED
          BY <1>1, <5>3, <5>4, <5>5, <5>6
      <4>2. CASE h # p.dst
        BY <3>3, <4>2 DEF PingInv, OnlyAskedAnswered
      <4>3. QED
        BY <4>1, <4>2
    <3>5. QED
      BY <3>2, <3>4
  <2>3. QED
    BY <1>5, <2>1, <2>2
<1>10. reply' \in Seq(Packet)
  <2>1. reply \in Seq(Packet)
    BY DEF PingInv, PingTypeOK
  <2>2. Append(reply, p) \in Seq(Packet)
    BY <1>1, <2>1
  <2>3. QED
    BY <1>6, <2>1, <2>2
<1>11. PingTypeOK'
  BY <1>3, <1>4, <1>7, <1>9, <1>10 DEF PingInv, PingTypeOK
<1>12. OnlyAskedAnswered'
  BY <1>3, <1>4, <1>9 DEF PingInv, OnlyAskedAnswered
<1>13. QED
  BY <1>11, <1>12 DEF PingInv

LEMMA ServeEchoKeeps ==
  ASSUME PingInv, NEW h \in Host, ServeEcho(h)
  PROVE  PingInv'
<1>1. PICK s \in Seq(Packet) : s = inbox[h] /\ s # << >>
  BY DEF PingInv, PingTypeOK, ServeEcho
<1>2. PICK answer : answer = EchoReply(Head(s), "server")
  OBVIOUS
<1>3. answer \in Packet /\ FromAsker(answer)
  <2>1. Head(s) \in Packet
    BY <1>1
  <2>2. QED
    BY <1>2, <2>1, EchoReplyIsPacket
<1>4. flying' \subseteq flying \cup {answer}
  BY <1>1, <1>2 DEF ServeEcho
<1>5. inbox' = [inbox EXCEPT ![h] = Tail(s)]
  BY <1>1 DEF ServeEcho
<1>6. /\ Tail(s) \in Seq(Packet) /\ Len(Tail(s)) = Len(s) - 1 /\ Len(s) \in Nat \ {0}
      /\ \A i \in 1..(Len(s) - 1) : Tail(s)[i] = s[i + 1]
  BY <1>1
<1>7. inbox' \in [Host -> Seq(Packet)]
  BY <1>5, <1>6 DEF PingInv, PingTypeOK
<1>8. \A g \in Host : inbox'[g] = IF g = h THEN Tail(s) ELSE inbox[g]
  BY <1>5 DEF PingInv, PingTypeOK
<1>9. \A i \in 1..Len(s) : FromAsker(s[i])
  BY <1>1 DEF PingInv, OnlyAskedAnswered
<1>10. \A i \in 1..Len(Tail(s)) : FromAsker(Tail(s)[i])
  <2> TAKE i \in 1..Len(Tail(s))
  <2>1. i \in 1..(Len(s) - 1) /\ i + 1 \in 1..Len(s)
    BY <1>6
  <2>2. QED
    BY <1>6, <1>9, <2>1
<1>11. \A g \in Host : \A i \in 1..Len(inbox'[g]) : FromAsker(inbox'[g][i])
  BY <1>8, <1>10 DEF PingInv, OnlyAskedAnswered
<1>12. UNCHANGED <<serving, client, target, reply, printed, foreign>>
  BY DEF ServeEcho, clientSide
<1>13. PingTypeOK'
  BY <1>3, <1>4, <1>7, <1>12 DEF PingInv, PingTypeOK
<1>14. QED
  BY <1>3, <1>4, <1>11, <1>13 DEF PingInv, OnlyAskedAnswered

LEMMA ClientRunsKeeps ==
  ASSUME PingInv, ClientRuns
  PROVE  PingInv'
<1>1. \A says \in {"nothing", "unresolved", "unsent", "timeout", "error", "bad", "other", "reply"},
         from \in Host : [says |-> says, from |-> from] \in Line
  BY DEF Line
<1>2. CASE SendRequest
  <2>1. PICK request : /\ request = [type |-> "ECHO", src |-> Here, dst |-> target', by |-> "client"]
                       /\ flying' = flying \cup {request}
    BY <1>2 DEF SendRequest
  <2>2. request \in Packet /\ FromAsker(request) /\ target' \in Host
    BY <1>2, <2>1, PingAssumption DEF SendRequest, Packet, FromAsker
  <2>3. client' = "wait" /\ UNCHANGED <<serving, inbox, reply, printed, foreign>>
    BY <1>2 DEF SendRequest
  <2>4. PingTypeOK'
    BY <2>1, <2>2, <2>3 DEF PingInv, PingTypeOK
  <2>5. OnlyAskedAnswered'
    BY <2>1, <2>2, <2>3 DEF PingInv, OnlyAskedAnswered
  <2>6. QED
    BY <2>4, <2>5 DEF PingInv
<1>3. ASSUME SendFails \/ PingTimeout \/ ReadReply
      PROVE  /\ UNCHANGED <<serving, flying, inbox, target, foreign>>
             /\ reply' = reply \/ reply' = << >>
             /\ client' = "end" /\ printed' \in Line
  <2>1. CASE SendFails
    BY <1>1, <2>1, PingAssumption DEF SendFails, Conclude
  <2>2. CASE PingTimeout
    BY <1>1, <2>2, PingAssumption DEF PingTimeout, Conclude
  <2>3. CASE ReadReply
    <3>1. PICK p \in Packet : p = Head(reply)
      BY <2>3 DEF ReadReply, PingInv, PingTypeOK
    <3>2. p.src \in Host
      BY DEF Packet
    <3>3. PICK says \in {"bad", "reply", "other", "error"}, from \in {p.src, Here} :
            printed' = [says |-> says, from |-> from]
      BY <2>3, <3>1 DEF ReadReply, Conclude
    <3>4. printed' \in Line
      BY <1>1, <3>2, <3>3, PingAssumption
    <3>5. QED
      BY <2>3, <3>4 DEF ReadReply, Conclude
  <2>4. QED
    BY <1>3, <2>1, <2>2, <2>3
<1>4. CASE SendFails \/ PingTimeout \/ ReadReply
  <2>1. reply' \in Seq(Packet)
    <3>1. reply \in Seq(Packet) /\ << >> \in Seq(Packet)
      BY DEF PingInv, PingTypeOK
    <3>2. QED
      BY <1>3, <1>4, <3>1
  <2>2. PingTypeOK'
    BY <1>3, <1>4, <2>1 DEF PingInv, PingTypeOK
  <2>3. OnlyAskedAnswered'
    BY <1>3, <1>4 DEF PingInv, OnlyAskedAnswered
  <2>4. QED
    BY <2>2, <2>3 DEF PingInv
<1>5. QED
  BY <1>2, <1>4 DEF ClientRuns

LEMMA PingInitInv == PingInit => PingInv
BY PingAssumption DEF PingInit, PingInv, PingTypeOK, OnlyAskedAnswered, Line

LEMMA PingStepInv == PingInv /\ [PingNext]_pingVars => PingInv'
<1>1. PingInv /\ UNCHANGED pingVars => PingInv'
  BY DEF pingVars, clientSide, PingInv, PingTypeOK, OnlyAskedAnswered
<1>2. ASSUME PingInv, NEW p \in flying, Lose(p) PROVE PingInv'
  BY <1>2 DEF Lose, clientSide, PingInv, PingTypeOK, OnlyAskedAnswered
<1>3. ASSUME PingInv, OtherProgram PROVE PingInv'
  <2>1. PICK p \in Packet : p.by = "other" /\ flying' = flying \cup {p}
    BY <1>3 DEF OtherProgram
  <2>2. foreign' \in 0..MaxForeign /\ UNCHANGED <<serving, inbox, client, target, reply, printed>>
    BY <1>3, PingAssumption DEF OtherProgram, clientSide, PingInv, PingTypeOK
  <2>3. FromAsker(p)
    BY <2>1 DEF FromAsker
  <2>4. QED
    BY <1>3, <2>1, <2>2, <2>3 DEF PingInv, PingTypeOK, OnlyAskedAnswered
<1>4. QED
  BY <1>1, <1>2, <1>3, DeliverKeeps, ServeEchoKeeps, ClientRunsKeeps DEF PingNext, PingEnded

(* Every variable of the ping has its type, and no reply is answered.      *)
THEOREM RepliesAreNotAnswered == PingSpec => []PingTypeOK /\ []OnlyAskedAnswered
<1>1. PingInv => PingTypeOK /\ OnlyAskedAnswered
  BY DEF PingInv
<1>2. QED
  BY <1>1, PingInitInv, PingStepInv, PTL DEF PingSpec

-----------------------------------------------------------------------------
(* That the ping comes to rest, but for the fairness: every step but the   *)
(* sending of another program's packet brings rest nearer.  A packet in an *)
(* inbox is worth one step, an Echo Request there three, for its reply has *)
(* still to arrive; one under way is worth what it can become and one      *)
(* more, and so is the client's request before it is sent.                 *)
FlyingEchoes == {p \in flying : p.type = "ECHO"}
Unread == {q \in Host \X Nat : q[2] \in 1..Len(inbox[q[1]])}
UnreadEchoes == {q \in Unread : inbox[q[1]][q[2]].type = "ECHO"}

MovesLeft ==
  (IF client = "start" THEN 8 ELSE IF client = "wait" THEN 1 ELSE 0)
    + 2 * Cardinality(flying) + 4 * Cardinality(FlyingEchoes)
    + Cardinality(Unread) + 2 * Cardinality(UnreadEchoes)

(* There are finitely many packets at any time. *)
PacketsFinite == IsFiniteSet(flying) /\ IsFiniteSet(Unread)

LEMMA PacketsCounted ==
  ASSUME PacketsFinite
  PROVE  /\ IsFiniteSet(FlyingEchoes) /\ IsFiniteSet(UnreadEchoes)
         /\ Cardinality(flying) \in Nat /\ Cardinality(FlyingEchoes) \in Nat
         /\ Cardinality(Unread) \in Nat /\ Cardinality(UnreadEchoes) \in Nat
<1>1. FlyingEchoes \subseteq flying /\ UnreadEchoes \subseteq Unread
  BY DEF FlyingEchoes, UnreadEchoes
<1>2. QED
  BY <1>1, FS_Subset, FS_CardinalityType DEF PacketsFinite

LEMMA OneMoreAtMost ==
  ASSUME NEW S, NEW e, IsFiniteSet(S)
  PROVE  /\ IsFiniteSet(S \cup {e}) /\ Cardinality(S \cup {e}) \in Nat
         /\ Cardinality(S \cup {e}) <= Cardinality(S) + 1
<1>1. PICK c \in Nat : c = Cardinality(S)
  BY FS_CardinalityType
<1>2. IsFiniteSet(S \cup {e})
  BY FS_AddElement
<1>3. Cardinality(S \cup {e}) = IF e \in S THEN Cardinality(S) ELSE Cardinality(S) + 1
  BY FS_AddElement
<1>4. Cardinality(S \cup {e}) = IF e \in S THEN c ELSE c + 1
  BY <1>1, <1>3
<1>5. QED
  BY <1>1, <1>2, <1>4

(* One packet more under way.                                              *)
LEMMA OneMoreFlies ==
  ASSUME PacketsFinite, NEW p, flying' \subseteq flying \cup {p}
  PROVE  /\ IsFiniteSet(flying') /\ Cardinality(flying') \in Nat
         /\ Cardinality(flying') <= Cardinality(flying) + 1
         /\ Cardinality(FlyingEchoes') \in Nat
         /\ Cardinality(FlyingEchoes') <=
              Cardinality(FlyingEchoes) + (IF p.type = "ECHO" THEN 1 ELSE 0)
<1>1. IsFiniteSet(flying) /\ IsFiniteSet(FlyingEchoes)
      /\ Cardinality(flying) \in Nat /\ Cardinality(FlyingEchoes) \in Nat
  BY PacketsCounted DEF PacketsFinite
<1>2. /\ IsFiniteSet(flying \cup {p})
      /\ Cardinality(flying \cup {p}) <= Cardinality(flying) + 1
  BY <1>1, OneMoreAtMost
<1>3. IsFiniteSet(flying') /\ Cardinality(flying') <= Cardinality(flying \cup {p})
  BY <1>2, FS_Subset
<1>4. Cardinality(flying') \in Nat /\ Cardinality(flying \cup {p}) \in Nat
  BY <1>2, <1>3, FS_CardinalityType
<1>5. Cardinality(FlyingEchoes') <= Cardinality(FlyingEchoes) + (IF p.type = "ECHO" THEN 1 ELSE 0)
  <2>1. CASE p.type = "ECHO"
    <3>1. FlyingEchoes' \subseteq FlyingEchoes \cup {p}
      BY DEF FlyingEchoes
    <3>2. /\ IsFiniteSet(FlyingEchoes \cup {p})
          /\ Cardinality(FlyingEchoes \cup {p}) <= Cardinality(FlyingEchoes) + 1
      BY <1>1, OneMoreAtMost
    <3>3. /\ IsFiniteSet(FlyingEchoes')
          /\ Cardinality(FlyingEchoes') <= Cardinality(FlyingEchoes \cup {p})
      BY <3>1, <3>2, FS_Subset
    <3>4. Cardinality(FlyingEchoes') \in Nat /\ Cardinality(FlyingEchoes \cup {p}) \in Nat
      BY <3>2, <3>3, FS_CardinalityType
    <3>5. QED
      BY <1>1, <2>1, <3>2, <3>3, <3>4
  <2>2. CASE p.type # "ECHO"
    <3>1. FlyingEchoes' \subseteq FlyingEchoes
      BY <2>2 DEF FlyingEchoes
    <3>2. Cardinality(FlyingEchoes') <= Cardinality(FlyingEchoes)
      BY <1>1, <3>1, FS_Subset
    <3>3. QED
      BY <1>1, <2>2, <3>2
  <2>3. QED
    BY <2>1, <2>2
<1>6. Cardinality(FlyingEchoes') \in Nat
  <2>1. FlyingEchoes' \subseteq flying'
    BY DEF FlyingEchoes
  <2>2. QED
    BY <1>3, <2>1, FS_Subset, FS_CardinalityType
<1>7. QED
  BY <1>1, <1>2, <1>3, <1>4, <1>5, <1>6

(* One packet fewer under way.                                             *)
LEMMA OneFewerFlies ==
  ASSUME PacketsFinite, NEW p \in flying
  PROVE  /\ IsFiniteSet(flying \ {p}) /\ Cardinality(flying \ {p}) = Cardinality(flying) - 1
         /\ p.type = "ECHO" => Cardinality(FlyingEchoes \ {p}) = Cardinality(FlyingEchoes) - 1
<1>1. IsFiniteSet(flying) /\ IsFiniteSet(FlyingEchoes)
  BY PacketsCounted DEF PacketsFinite
<1>2. p.type = "ECHO" => p \in FlyingEchoes
  BY DEF FlyingEchoes
<1>3. QED
  BY <1>1, <1>2, FS_RemoveElement

(* A packet reaches an inbox.                                              *)
LEMMA OneMoreUnread ==
  ASSUME PingTypeOK, PacketsFinite, NEW h \in Host, NEW p \in Packet,
         inbox' = [inbox EXCEPT ![h] = Append(@, p)]
  PROVE  /\ IsFiniteSet(Unread')
         /\ Cardinality(Unread') = Cardinality(Unread) + 1
         /\ Cardinality(UnreadEchoes') =
              Cardinality(UnreadEchoes) + (IF p.type = "ECHO" THEN 1 ELSE 0)
<1>1. PICK s \in Seq(Packet) : s = inbox[h]
  BY DEF PingTypeOK
<1>2. PICK l \in Nat : l = Len(s)
  BY <1>1
<1>3. PICK t \in Seq(Packet) : t = Append(s, p)
  <2>1. Append(s, p) \in Seq(Packet)
    BY <1>1
  <2>2. QED
    BY <2>1
<1>4. Len(t) = l + 1 /\ t[l + 1] = p /\ \A i \in 1..l : t[i] = s[i]
  BY <1>2, <1>3
<1>5. \A k \in Host : inbox'[k] = IF k = h THEN t ELSE inbox[k]
  BY <1>1, <1>3 DEF PingTypeOK
<1>6. \A k \in Host, i \in Nat :
        <<k, i>> \in Unread' <=> <<k, i>> \in Unread \/ (k = h /\ i = l + 1)
  BY <1>1, <1>2, <1>4, <1>5 DEF Unread
<1>7. Unread' = Unread \cup {<<h, l + 1>>} /\ <<h, l + 1>> \notin Unread
  <2>1. Unread \subseteq Host \X Nat /\ Unread' \subseteq Host \X Nat /\ <<h, l + 1>> \in Host \X Nat
    BY <1>2 DEF Unread
  <2>2. <<h, l + 1>> \notin Unread
    BY <1>1, <1>2 DEF Unread
  <2>3. QED
    BY <1>6, <2>1, <2>2
<1>8. ASSUME NEW k \in Host, NEW i \in Nat, <<k, i>> \in Unread
      PROVE  inbox'[k][i] = inbox[k][i]
  BY <1>1, <1>2, <1>4, <1>5, <1>8 DEF Unread
<1>9. inbox'[h][l + 1] = p
  BY <1>4, <1>5
<1>10. UnreadEchoes' = UnreadEchoes \cup (IF p.type = "ECHO" THEN {<<h, l + 1>>} ELSE {})
       /\ <<h, l + 1>> \notin UnreadEchoes
  <2>1. Unread \subseteq Host \X Nat
    BY DEF Unread
  <2>2. \A q \in Unread : q = <<q[1], q[2]>> /\ q[1] \in Host /\ q[2] \in Nat
    BY <2>1
  <2>3. \A q \in Unread : inbox'[q[1]][q[2]] = inbox[q[1]][q[2]]
    BY <1>8, <2>2
  <2>4. PICK last : last = <<h, l + 1>> /\ last[1] = h /\ last[2] = l + 1
    <3>1. <<h, l + 1>>[1] = h /\ <<h, l + 1>>[2] = l + 1
      OBVIOUS
    <3>2. QED
      BY <3>1
  <2>5. Unread' = Unread \cup {last} /\ last \notin Unread
    BY <1>7, <2>4
  <2>6. inbox'[last[1]][last[2]] = p
    BY <1>9, <2>4
  <2>7. UnreadEchoes' = UnreadEchoes \cup (IF p.type = "ECHO" THEN {last} ELSE {})
        /\ last \notin UnreadEchoes
    BY <2>3, <2>5, <2>6 DEF UnreadEchoes
  <2>8. QED
    BY <2>4, <2>7
<1>11. IsFiniteSet(Unread) /\ IsFiniteSet(UnreadEchoes)
       /\ Cardinality(Unread) \in Nat /\ Cardinality(UnreadEchoes) \in Nat
  BY PacketsCounted DEF PacketsFinite
<1>12. IsFiniteSet(Unread') /\ Cardinality(Unread') = Cardinality(Unread) + 1
  BY <1>7, <1>11, FS_AddElement
<1>13. CASE p.type = "ECHO"
  <2>1. Cardinality(UnreadEchoes') = Cardinality(UnreadEchoes) + 1
    BY <1>10, <1>11, <1>13, FS_AddElement
  <2>2. QED
    BY <1>12, <1>13, <2>1
<1>14. CASE p.type # "ECHO"
  <2>1. UnreadEchoes' = UnreadEchoes
    BY <1>10, <1>14
  <2>2. QED
    BY <1>11, <1>12, <1>14, <2>1
<1>15. QED
  BY <1>13, <1>14

(* A server reads the first packet of its inbox; the others move up.       *)
LEMMA OneFewerUnread ==
  ASSUME PingTypeOK, PacketsFinite, NEW h \in Host, inbox[h] # << >>,
         inbox' = [inbox EXCEPT ![h] = Tail(@)]
  PROVE  /\ IsFiniteSet(Unread')
         /\ Cardinality(Unread') = Cardinality(Unread) - 1
         /\ Cardinality(UnreadEchoes') <=
              Cardinality(UnreadEchoes) - (IF Head(inbox[h]).type = "ECHO" THEN 1 ELSE 0)
<1>1. PICK s \in Seq(Packet) : s = inbox[h] /\ s # << >>
  BY DEF PingTypeOK
<1>2. PICK l \in Nat \ {0} : l = Len(s)
  BY <1>1
<1>3. PICK t \in Seq(Packet) : t = Tail(s)
  <2>1. Tail(s) \in Seq(Packet)
    BY <1>1
  <2>2. QED
    BY <2>1
<1>4. Len(t) = l - 1 /\ (\A i \in 1..(l - 1) : t[i] = s[i + 1]) /\ Head(s) = s[1]
  BY <1>1, <1>2, <1>3
<1>5. \A k \in Host : inbox'[k] = IF k = h THEN t ELSE inbox[k]
  BY <1>1, <1>3 DEF PingTypeOK
<1>6. \A k \in Host, i \in Nat :
        <<k, i>> \in Unread' <=> <<k, i>> \in Unread /\ ~(k = h /\ i = l)
  BY <1>1, <1>2, <1>4, <1>5 DEF Unread
<1>7. Unread' = Unread \ {<<h, l>>} /\ <<h, l>> \in Unread /\ <<h, 1>> \in Unread
  <2>1. Unread \subseteq Host \X Nat /\ Unread' \subseteq Host \X Nat
    BY DEF Unread
  <2>2. <<h, l>> \in Unread /\ <<h, 1>> \in Unread
    BY <1>1, <1>2 DEF Unread
  <2>3. QED
    BY <1>6, <2>1, <2>2
<1>8. IsFiniteSet(Unread) /\ IsFiniteSet(UnreadEchoes)
      /\ Cardinality(Unread) \in Nat /\ Cardinality(UnreadEchoes) \in Nat
  BY PacketsCounted DEF PacketsFinite
<1>9. IsFiniteSet(Unread') /\ Cardinality(Unread') = Cardinality(Unread) - 1
  BY <1>7, <1>8, FS_RemoveElement
<1> DEFINE Before(q) == IF q[1] = h THEN <<h, q[2] + 1>> ELSE q
           moved == [q \in UnreadEchoes' |-> Before(q)]
           Rest == UnreadEchoes \ {<<h, 1>>}
<1>10. ASSUME NEW q \in UnreadEchoes'
       PROVE  q = <<q[1], q[2]>> /\ q[1] \in Host /\ q[2] \in Nat \ {0} /\ Before(q) \in Rest
  <2>1. q \in Unread' /\ inbox'[q[1]][q[2]].type = "ECHO"
    BY DEF UnreadEchoes
  <2>2. q = <<q[1], q[2]>> /\ q[1] \in Host /\ q[2] \in Nat
        /\ q[2] \in 1..Len(inbox'[q[1]])
    BY <2>1 DEF Unread
  <2>3. CASE q[1] = h
    <3>1. q[2] \in 1..(l - 1) /\ inbox'[h] = t /\ t[q[2]] = s[q[2] + 1]
      BY <1>2, <1>4, <1>5, <2>2, <2>3
    <3>2. Before(q) = <<h, q[2] + 1>> /\ q[2] + 1 \in 1..l /\ q[2] + 1 # 1 /\ q[2] + 1 \in Nat
      BY <1>2, <2>3, <3>1
    <3>3. <<h, q[2] + 1>> \in Unread
      BY <1>1, <1>2, <3>2 DEF Unread
    <3>4. inbox[h][q[2] + 1].type = "ECHO"
      BY <1>1, <2>1, <2>3, <3>1
    <3>5. Before(q) \in UnreadEchoes /\ Before(q) # <<h, 1>>
      BY <3>2, <3>3, <3>4 DEF UnreadEchoes
    <3>6. QED
      BY <2>2, <3>5
  <2>4. CASE q[1] # h
    <3>1. q \in Unread /\ inbox'[q[1]] = inbox[q[1]] /\ Before(q) = q
      BY <1>5, <1>7, <2>1, <2>2, <2>4
    <3>2. q \in UnreadEchoes /\ q # <<h, 1>>
      BY <2>1, <2>2, <2>4, <3>1 DEF UnreadEchoes
    <3>3. QED
      BY <2>2, <3>1, <3>2
  <2>5. QED
    BY <2>3, <2>4
<1>11. ASSUME NEW q \in UnreadEchoes', NEW r \in UnreadEchoes', Before(q) = Before(r)
       PROVE  q = r
  <2>1. q = <<q[1], q[2]>> /\ r = <<r[1], r[2]>> /\ q[2] \in Nat /\ r[2] \in Nat
    BY <1>10
  <2>2. QED
    BY <1>11, <2>1
<1>12. moved \in Injection(UnreadEchoes', Rest)
  <2> HIDE DEF Before, Rest
  <2> QED BY <1>10, <1>11 DEF Injection, IsInjective
<1>13. IsFiniteSet(Rest) /\ Cardinality(UnreadEchoes') <= Cardinality(Rest)
  <2> HIDE DEF Before, moved
  <2>1. IsFiniteSet(Rest)
    BY <1>8, FS_RemoveElement
  <2> HIDE DEF Rest
  <2>2. QED
    BY <1>12, <2>1, FS_Injection
<1>14. Cardinality(Rest) = Cardinality(UnreadEchoes) - (IF Head(inbox[h]).type = "ECHO" THEN 1 ELSE 0)
  <2>1. <<h, 1>> \in UnreadEchoes <=> Head(inbox[h]).type = "ECHO"
    BY <1>1, <1>4, <1>7 DEF UnreadEchoes
  <2>2. Cardinality(Rest) = IF <<h, 1>> \in UnreadEchoes THEN Cardinality(UnreadEchoes) - 1
                                                         ELSE Cardinality(UnreadEchoes)
    BY <1>8, FS_RemoveElement
  <2>3. QED
    BY <1>8, <2>1, <2>2
<1>15. QED
  BY <1>9, <1>13, <1>14

LEMMA DeliverStepsDown ==
  ASSUME PingInv, PacketsFinite, NEW p \in flying, Deliver(p)
  PROVE  PacketsFinite' /\ MovesLeft' < MovesLeft
<1>1. p \in Packet /\ p.dst \in Host /\ PingTypeOK /\ client' = client
  BY DEF PingInv, PingTypeOK, Packet, Deliver
<1>2. PICK a \in Nat : a = Cardinality(flying)
  BY PacketsCounted
<1>3. PICK b \in Nat : b = Cardinality(FlyingEchoes)
  BY PacketsCounted
<1>4. PICK c \in Nat : c = Cardinality(Unread)
  BY PacketsCounted
<1>5. PICK d \in Nat : d = Cardinality(UnreadEchoes)
  BY PacketsCounted
<1>6. PICK e \in {0, 1} : e = IF p.type = "ECHO" THEN 1 ELSE 0
  OBVIOUS
<1>7. /\ IsFiniteSet(flying')
      /\ Cardinality(flying') \in Nat /\ Cardinality(flying') <= a - 1 + e
      /\ Cardinality(FlyingEchoes') \in Nat /\ Cardinality(FlyingEchoes') <= b - e
  <2>1. IsFiniteSet(flying \ {p}) /\ Cardinality(flying \ {p}) = a - 1
    BY <1>2, OneFewerFlies
  <2>2. CASE p.type = "ECHO"
    <3>1. PICK answer : answer = EchoReply(p, "system")
      OBVIOUS
    <3>2. answer.type = "ECHOREPLY" /\ flying' = (flying \ {p}) \cup {answer}
      BY <2>2, <3>1 DEF EchoReply, Deliver
    <3>3. /\ IsFiniteSet(flying') /\ Cardinality(flying') \in Nat
          /\ Cardinality(flying') <= a
      <4>1. PICK rest : /\ rest = flying \ {p}
                        /\ IsFiniteSet(rest) /\ Cardinality(rest) = a - 1
        BY <2>1
      <4>2. /\ IsFiniteSet(rest \cup {answer}) /\ Cardinality(rest \cup {answer}) \in Nat
            /\ Cardinality(rest \cup {answer}) <= a - 1 + 1
        BY <4>1, OneMoreAtMost
      <4>3. flying' = rest \cup {answer}
        BY <3>2, <4>1
      <4>4. QED
        BY <4>2, <4>3
    <3>4. FlyingEchoes' = FlyingEchoes \ {p}
      BY <3>2 DEF FlyingEchoes
    <3>5. IsFiniteSet(FlyingEchoes \ {p}) /\ Cardinality(FlyingEchoes \ {p}) = b - 1
      BY <1>3, <2>2, OneFewerFlies, PacketsCounted, FS_RemoveElement
    <3>6. Cardinality(FlyingEchoes') \in Nat
      BY <3>4, <3>5, FS_CardinalityType
    <3>7. QED
      BY <1>6, <2>2, <3>3, <3>4, <3>5, <3>6
  <2>3. CASE p.type # "ECHO"
    <3>1. flying' = flying \ {p} /\ FlyingEchoes' = FlyingEchoes
      BY <2>3 DEF Deliver, FlyingEchoes
    <3>2. Cardinality(flying \ {p}) \in Nat
      BY <2>1, FS_CardinalityType
    <3>3. QED
      BY <1>3, <1>6, <2>1, <2>3, <3>1, <3>2
  <2>4. QED
    BY <2>2, <2>3
<1>8. /\ IsFiniteSet(Unread')
      /\ Cardinality(Unread') \in Nat /\ Cardinality(Unread') <= c + 1
      /\ Cardinality(UnreadEchoes') \in Nat /\ Cardinality(UnreadEchoes') <= d + e
  <2>1. CASE inbox' = [inbox EXCEPT ![p.dst] = Append(@, p)]
    <3>1. /\ IsFiniteSet(Unread') /\ Cardinality(Unread') = c + 1
          /\ Cardinality(UnreadEchoes') = d + e
      BY <1>1, <1>4, <1>5, <1>6, <2>1, OneMoreUnread
    <3>2. QED
      BY <3>1
  <2>2. CASE inbox' = inbox
    <3>1. Unread' = Unread /\ UnreadEchoes' = UnreadEchoes
      BY <2>2 DEF Unread, UnreadEchoes
    <3>2. QED
      BY <1>4, <1>5, <3>1 DEF PacketsFinite
  <2>3. QED
    BY <2>1, <2>2 DEF Deliver
<1>9. QED
  BY <1>1, <1>2, <1>3, <1>4, <1>5, <1>6, <1>7, <1>8 DEF MovesLeft, PacketsFinite

LEMMA LoseStepsDown ==
  ASSUME PingInv, PacketsFinite, NEW p \in flying, Lose(p)
  PROVE  PacketsFinite' /\ MovesLeft' < MovesLeft
<1>1. PICK a \in Nat : a = Cardinality(flying)
  BY PacketsCounted
<1>2. PICK b \in Nat : b = Cardinality(FlyingEchoes)
  BY PacketsCounted
<1>3. /\ IsFiniteSet(flying') /\ Cardinality(flying') = a - 1
  BY <1>1, OneFewerFlies DEF Lose
<1>4. Cardinality(FlyingEchoes') \in Nat /\ Cardinality(FlyingEchoes') <= b
  <2>1. FlyingEchoes' \subseteq FlyingEchoes
    BY DEF Lose, FlyingEchoes
  <2>2. QED
    BY <1>2, <2>1, PacketsCounted, FS_Subset, FS_CardinalityType
<1>5. UNCHANGED client /\ Unread' = Unread /\ UnreadEchoes' = UnreadEchoes
  BY DEF Lose, clientSide, Unread, UnreadEchoes
<1>6. Cardinality(Unread) \in Nat /\ Cardinality(UnreadEchoes) \in Nat
  BY PacketsCounted
<1>7. QED
  BY <1>1, <1>2, <1>3, <1>4, <1>5, <1>6 DEF MovesLeft, PacketsFinite

LEMMA ServeEchoStepsDown ==
  ASSUME PingInv, PacketsFinite, NEW h \in Host, ServeEcho(h)
  PROVE  PacketsFinite' /\ MovesLeft' < MovesLeft
<1>1. PingTypeOK /\ client' = client /\ inbox[h] # << >>
      /\ inbox' = [inbox EXCEPT ![h] = Tail(@)]
  BY DEF PingInv, ServeEcho, clientSide
<1>2. PICK p : p = Head(inbox[h])
  OBVIOUS
<1>3. PICK answer : answer = EchoReply(p, "server") /\ answer.type = "ECHOREPLY"
  <2>1. EchoReply(p, "server").type = "ECHOREPLY"
    BY DEF EchoReply
  <2>2. QED
    BY <2>1
<1>4. flying' = IF p.type = "ECHO" THEN flying \cup {answer} ELSE flying
  BY <1>2, <1>3 DEF ServeEcho, Answers
<1>5. PICK a \in Nat : a = Cardinality(flying)
  BY PacketsCounted
<1>6. PICK b \in Nat : b = Cardinality(FlyingEchoes)
  BY PacketsCounted
<1>7. PICK c \in Nat : c = Cardinality(Unread)
  BY PacketsCounted
<1>8. PICK d \in Nat : d = Cardinality(UnreadEchoes)
  BY PacketsCounted
<1>9. PICK e \in {0, 1} : e = IF p.type = "ECHO" THEN 1 ELSE 0
  OBVIOUS
<1>10. /\ IsFiniteSet(flying')
       /\ Cardinality(flying') \in Nat /\ Cardinality(flying') <= a + e
       /\ FlyingEchoes' = FlyingEchoes
  <2>1. FlyingEchoes' = FlyingEchoes
    BY <1>3, <1>4 DEF FlyingEchoes
  <2>2. CASE p.type = "ECHO"
    <3>1. /\ IsFiniteSet(flying \cup {answer})
          /\ Cardinality(flying \cup {answer}) <= a + 1
      BY <1>5, OneMoreAtMost DEF PacketsFinite
    <3>2. QED
      BY <1>4, <1>9, <2>1, <2>2, <3>1, FS_CardinalityType
  <2>3. CASE p.type # "ECHO"
    BY <1>4, <1>5, <1>9, <2>1, <2>3 DEF PacketsFinite
  <2>4. QED
    BY <2>2, <2>3
<1>11. /\ IsFiniteSet(Unread') /\ Cardinality(Unread') = c - 1
       /\ Cardinality(UnreadEchoes') <= d - e
  BY <1>1, <1>2, <1>7, <1>8, <1>9, OneFewerUnread
<1>12. Cardinality(UnreadEchoes') \in Nat
  <2>1. UnreadEchoes' \subseteq Unread'
    BY DEF UnreadEchoes
  <2>2. QED
    BY <1>11, <2>1, FS_Subset, FS_CardinalityType
<1>13. FlyingEchoes' = FlyingEchoes /\ Cardinality(FlyingEchoes') = b /\ PacketsFinite'
  BY <1>6, <1>10, <1>11 DEF PacketsFinite
<1>14. PICK k \in Nat : k = IF client = "start" THEN 8 ELSE IF client = "wait" THEN 1 ELSE 0
  OBVIOUS
<1>15. MovesLeft = k + 2 * a + 4 * b + c + 2 * d
  BY <1>5, <1>6, <1>7, <1>8, <1>14, Zenon DEF MovesLeft
<1>16. PICK a1 \in Nat : a1 = Cardinality(flying') /\ a1 <= a + e
  BY <1>10
<1>17. PICK d1 \in Nat : d1 = Cardinality(UnreadEchoes') /\ d1 <= d - e
  BY <1>11, <1>12
<1>18. MovesLeft' = k + 2 * a1 + 4 * b + (c - 1) + 2 * d1
  BY <1>1, <1>11, <1>13, <1>14, <1>16, <1>17, Zenon DEF MovesLeft
<1>19. QED
  BY <1>13, <1>15, <1>16, <1>17, <1>18

LEMMA ClientStepsDown ==
  ASSUME PingInv, PacketsFinite, ClientRuns
  PROVE  PacketsFinite' /\ MovesLeft' < MovesLeft
<1>1. PICK a \in Nat : a = Cardinality(flying)
  BY PacketsCounted
<1>2. PICK b \in Nat : b = Cardinality(FlyingEchoes)
  BY PacketsCounted
<1>3. inbox' = inbox
  BY DEF ClientRuns, SendRequest, SendFails, PingTimeout, ReadReply
<1>4. Unread' = Unread /\ UnreadEchoes' = UnreadEchoes
  BY <1>3 DEF Unread, UnreadEchoes
<1>5. Cardinality(Unread) \in Nat /\ Cardinality(UnreadEchoes) \in Nat
  BY PacketsCounted
<1>6. CASE SendRequest
  <2>1. PICK request :
          /\ request = [type |-> "ECHO", src |-> Here, dst |-> target', by |-> "client"]
          /\ flying' = flying \cup {request}
    BY <1>6 DEF SendRequest
  <2>2. /\ IsFiniteSet(flying')
        /\ Cardinality(flying') \in Nat /\ Cardinality(flying') <= a + 1
        /\ Cardinality(FlyingEchoes') \in Nat /\ Cardinality(FlyingEchoes') <= b + 1
    <3>1. request.type = "ECHO"
      BY <2>1
    <3>2. QED
      BY <1>1, <1>2, <2>1, <3>1, OneMoreFlies
  <2>3. client = "start" /\ client' = "wait"
    BY <1>6 DEF SendRequest
  <2>4. QED
    BY <1>1, <1>2, <1>4, <1>5, <2>2, <2>3 DEF MovesLeft, PacketsFinite
<1>7. CASE SendFails \/ PingTimeout \/ ReadReply
  <2>1. flying' = flying /\ client \in {"start", "wait"} /\ client' = "end"
    BY <1>7 DEF SendFails, PingTimeout, ReadReply, Conclude
  <2>2. FlyingEchoes' = FlyingEchoes
    BY <2>1 DEF FlyingEchoes
  <2>3. QED
    BY <1>1, <1>2, <1>4, <1>5, <2>1, <2>2 DEF MovesLeft, PacketsFinite
<1>8. QED
  BY <1>6, <1>7 DEF ClientRuns

(* Another program's packet is six steps more at most.                     *)
LEMMA OthersAddSix ==
  ASSUME PingInv, PacketsFinite, OtherProgram
  PROVE  PacketsFinite' /\ foreign' = foreign + 1 /\ MovesLeft' <= MovesLeft + 6
<1>1. PICK p : flying' = flying \cup {p}
  BY DEF OtherProgram
<1>2. PICK a \in Nat : a = Cardinality(flying)
  BY PacketsCounted
<1>3. PICK b \in Nat : b = Cardinality(FlyingEchoes)
  BY PacketsCounted
<1>4. /\ IsFiniteSet(flying')
      /\ Cardinality(flying') \in Nat /\ Cardinality(flying') <= a + 1
      /\ Cardinality(FlyingEchoes') \in Nat /\ Cardinality(FlyingEchoes') <= b + 1
  BY <1>1, <1>2, <1>3, OneMoreFlies
<1>5. UNCHANGED client /\ Unread' = Unread /\ UnreadEchoes' = UnreadEchoes /\ foreign' = foreign + 1
  BY DEF OtherProgram, clientSide, Unread, UnreadEchoes
<1>6. Cardinality(Unread) \in Nat /\ Cardinality(UnreadEchoes) \in Nat
  BY PacketsCounted
<1>7. QED
  BY <1>2, <1>3, <1>4, <1>5, <1>6 DEF MovesLeft, PacketsFinite

LEMMA NothingLeftIsRest ==
  ASSUME PingInv, PacketsFinite
  PROVE  MovesLeft \in Nat /\ (MovesLeft = 0 <=> AtRest)
<1>1. PICK a \in Nat : a = Cardinality(flying)
  BY PacketsCounted
<1>2. PICK b \in Nat : b = Cardinality(FlyingEchoes)
  BY PacketsCounted
<1>3. PICK c \in Nat : c = Cardinality(Unread)
  BY PacketsCounted
<1>4. PICK d \in Nat : d = Cardinality(UnreadEchoes)
  BY PacketsCounted
<1>5. PICK k \in Nat : k = IF client = "start" THEN 8 ELSE IF client = "wait" THEN 1 ELSE 0
  OBVIOUS
<1>6. MovesLeft = k + 2 * a + 4 * b + c + 2 * d
  BY <1>1, <1>2, <1>3, <1>4, <1>5, Zenon DEF MovesLeft
<1>7. k = 0 <=> client = "end"
  BY <1>5 DEF PingInv, PingTypeOK
<1>8. (a = 0 <=> flying = {}) /\ (b = 0 <=> FlyingEchoes = {})
  BY <1>1, <1>2, PacketsCounted, FS_EmptySet DEF PacketsFinite
<1>9. (c = 0 <=> Unread = {}) /\ (d = 0 <=> UnreadEchoes = {})
  BY <1>3, <1>4, PacketsCounted, FS_EmptySet DEF PacketsFinite
<1>10. (flying = {} => FlyingEchoes = {}) /\ (Unread = {} => UnreadEchoes = {})
  BY DEF FlyingEchoes, UnreadEchoes
<1>11. Unread = {} <=> \A h \in Host : inbox[h] = << >>
  <2>1. ASSUME Unread = {}, NEW h \in Host
        PROVE  inbox[h] = << >>
    <3>1. inbox[h] \in Seq(Packet)
      BY DEF PingInv, PingTypeOK
    <3>2. <<h, 1>> \notin Unread
      BY <2>1
    <3>3. ~(1 \in 1..Len(inbox[h]))
      BY <3>2 DEF Unread
    <3>4. QED
      BY <3>1, <3>3
  <2>2. ASSUME \A h \in Host : inbox[h] = << >>
        PROVE  Unread = {}
    BY <2>2 DEF Unread
  <2>3. QED
    BY <2>1, <2>2
<1>12. AtRest <=> k = 0 /\ a = 0 /\ b = 0 /\ c = 0 /\ d = 0
  BY ONLY <1>7, <1>8, <1>9, <1>10, <1>11, Zenon DEF AtRest
<1>13. MovesLeft \in Nat /\ (MovesLeft = 0 <=> k = 0 /\ a = 0 /\ b = 0 /\ c = 0 /\ d = 0)
  BY <1>6
<1>14. QED
  BY <1>12, <1>13

(* Two servers, a system and their sockets cannot keep each other busy:    *)
(* whatever is delivered, lost, answered or read brings the network nearer *)
(* to rest, and it is at rest when nothing is left to do; a packet of      *)
(* another program puts rest off by six steps.                             *)
THEOREM PingComesToRest ==
  PingSpec => /\ [](MovesLeft \in Nat /\ (MovesLeft = 0 <=> AtRest))
              /\ [][IF foreign' = foreign THEN MovesLeft' < MovesLeft
                                          ELSE MovesLeft' <= MovesLeft + 6]_pingVars
<1>1. PingInit => PingInv /\ PacketsFinite
  <2>1. PingInit => flying = {} /\ Unread = {}
    BY DEF PingInit, Unread
  <2>2. QED
    BY <2>1, PingInitInv, FS_EmptySet DEF PacketsFinite
<1>2. ASSUME PingInv, PacketsFinite, PingNext, ~UNCHANGED pingVars
      PROVE  /\ PacketsFinite'
             /\ IF foreign' = foreign THEN MovesLeft' < MovesLeft ELSE MovesLeft' <= MovesLeft + 6
  <2>1. CASE \E p \in flying : Deliver(p)
    BY <1>2, <2>1, DeliverStepsDown DEF Deliver
  <2>2. CASE \E p \in flying : Lose(p)
    BY <1>2, <2>2, LoseStepsDown DEF Lose
  <2>3. CASE \E h \in Host : ServeEcho(h)
    BY <1>2, <2>3, ServeEchoStepsDown DEF ServeEcho
  <2>4. CASE ClientRuns
    BY <1>2, <2>4, ClientStepsDown
       DEF ClientRuns, SendRequest, SendFails, PingTimeout, ReadReply
  <2>5. CASE OtherProgram
    <3>1. foreign \in Nat
      BY <1>2, PingAssumption DEF PingInv, PingTypeOK
    <3>2. foreign' # foreign
      BY <2>5, <3>1 DEF OtherProgram
    <3>3. QED
      BY <1>2, <2>5, <3>2, OthersAddSix
  <2>6. QED
    BY <1>2, <2>1, <2>2, <2>3, <2>4, <2>5 DEF PingNext, PingEnded
<1>3. PingInv /\ PacketsFinite /\ [PingNext]_pingVars => PacketsFinite'
  <2>1. ASSUME PacketsFinite, UNCHANGED pingVars PROVE PacketsFinite'
    BY <2>1 DEF pingVars, PacketsFinite, Unread
  <2>2. QED
    BY <1>2, <2>1
<1>4. PingInv /\ PacketsFinite /\ [PingNext]_pingVars =>
        [IF foreign' = foreign THEN MovesLeft' < MovesLeft
                               ELSE MovesLeft' <= MovesLeft + 6]_pingVars
  BY <1>2
<1>5. PingInv /\ PacketsFinite => MovesLeft \in Nat /\ (MovesLeft = 0 <=> AtRest)
  BY NothingLeftIsRest
<1>6. QED
  BY <1>1, <1>3, <1>4, <1>5, PingStepInv, PTL DEF PingSpec
=============================================================================
