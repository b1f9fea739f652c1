---------------------------------- MODULE Dhcp ---------------------------------
(***************************************************************************)
(* homework9/dhcp_server.cpp: a DHCP server that leases one fixed address  *)
(* to every client, and clients (not part of the repository) that go       *)
(* through the exchange it answers.  All datagrams are broadcast.  The     *)
(* network keeps every datagram ever sent, so that each may be received    *)
(* late, out of order, again, or never.                                    *)
(*                                                                         *)
(* A datagram the server drops unread (too short, no magic cookie, an      *)
(* error of recvfrom) is one that it never receives.                       *)
(***************************************************************************)
EXTENDS Naturals

CONSTANTS
  Client,   \* the clients, each with a MAC address of its own
  Address,  \* IP addresses
  FixedIp,  \* DHCP_FIXED_IP
  MaxXid    \* bound: exchanges a client begins

ASSUME AddressAssumption == Address \subseteq Nat \ {0} /\ FixedIp \in Address
ASSUME MaxXidAssumption == MaxXid \in Nat

VARIABLES
  lease_table,  \* the address leased to each client the server has heard of
  requests,     \* datagrams sent to the server
  replies,      \* datagrams the server has sent
  phase,        \* of each client: "init", "selecting", "requesting", "bound"
  xid,          \* the number of each client's exchange
  asked,        \* the address its last datagram names, or NoAddress
  address       \* the address each client uses, or NoAddress

clientState == <<phase, xid, asked, address>>
dhcpVars == <<lease_table, requests, replies, clientState>>

NoAddress == 0
Request == [type : {"DISCOVER", "REQUEST", "OTHER"}, mac : Client,
            xid : 1..MaxXid, requested : Address \cup {NoAddress}]
Reply == [type : {"OFFER", "ACK"}, chaddr : Client, xid : 1..MaxXid, yiaddr : Address]

DhcpInit ==
  /\ lease_table = << >>
  /\ requests = {} /\ replies = {}
  /\ phase = [c \in Client |-> "init"]
  /\ xid = [c \in Client |-> 0]
  /\ asked = [c \in Client |-> NoAddress]
  /\ address = [c \in Client |-> NoAddress]

-----------------------------------------------------------------------------
(* The server.                                                             *)

LeaseOf(c) == IF c \in DOMAIN lease_table THEN lease_table[c] ELSE FixedIp

(* The address asked for, if there is one, is acknowledged as it is.       *)
Chosen(m) == IF m.requested # NoAddress THEN m.requested ELSE LeaseOf(m.mac)

(* Slip: the lease is the address that is acknowledged. *)
LeaseAsAsked(m) ==
  lease_table' = [c \in DOMAIN lease_table \cup {m.mac} |->
                    IF c = m.mac /\ m.type = "REQUEST" THEN Chosen(m) ELSE LeaseOf(c)]

(* Any datagram that is read gets its sender a lease, whatever its type.   *)
Lease(m) ==
  lease_table' = [c \in DOMAIN lease_table \cup {m.mac} |-> LeaseOf(c)]

BuildReply(m, type, yiaddr) ==
  [type |-> type, chaddr |-> m.mac, xid |-> m.xid, yiaddr |-> yiaddr]

Discover(m) ==
  /\ m.type = "DISCOVER"
  /\ Lease(m)
  /\ replies' = replies \cup {BuildReply(m, "OFFER", LeaseOf(m.mac))}

Acknowledge(m) ==
  /\ m.type = "REQUEST"
  /\ Lease(m)
  /\ replies' = replies \cup {BuildReply(m, "ACK", Chosen(m))}

NoAnswerTo(m) ==
  /\ m.type = "OTHER"
  /\ Lease(m)
  /\ UNCHANGED replies

ServeDhcp ==
  /\ \E m \in requests : Discover(m) \/ Acknowledge(m) \/ NoAnswerTo(m)
  /\ UNCHANGED <<requests, clientState>>

(* The leases are in memory only. *)
RestartDhcp ==
  /\ lease_table' = << >>
  /\ UNCHANGED <<requests, replies, clientState>>

-----------------------------------------------------------------------------
(* The clients.                                                            *)

Send(c, type, x, a) ==
  requests' = requests \cup {[type |-> type, mac |-> c, xid |-> x, requested |-> a]}

(* A new exchange has a new number. *)
Begin(c, from, type, a, to) ==
  /\ phase[c] = from
  /\ xid[c] < MaxXid
  /\ Send(c, type, xid[c] + 1, a)
  /\ xid' = [xid EXCEPT ![c] = @ + 1]
  /\ phase' = [phase EXCEPT ![c] = to]
  /\ asked' = [asked EXCEPT ![c] = a]
  /\ UNCHANGED <<lease_table, replies>>

(* A DISCOVER names the address the client asked for last, if there is one. *)
Boot(c) == Begin(c, "init", "DISCOVER", asked[c], "selecting") /\ UNCHANGED address

(* A client that was once on this network asks for its old address. *)
Reboot(c) ==
  /\ \E a \in Address : Begin(c, "init", "REQUEST", a, "requesting")
  /\ UNCHANGED address

(* A renewal leaves the requested-address option out. *)
Renew(c) == Begin(c, "bound", "REQUEST", NoAddress, "requesting") /\ UNCHANGED address

GiveUpAddress(c) == address' = [address EXCEPT ![c] = NoAddress]
ReleaseLease(c) == Begin(c, "bound", "OTHER", NoAddress, "init") /\ GiveUpAddress(c)

GiveUp(c) ==
  /\ phase[c] \in {"selecting", "requesting"}
  /\ phase' = [phase EXCEPT ![c] = "init"]
  /\ GiveUpAddress(c)
  /\ UNCHANGED <<lease_table, requests, replies, xid, asked>>

(* A client takes replies to its own exchange only. *)
Mine(c, r, type) == r.type = type /\ r.chaddr = c /\ r.xid = xid[c]

TakeOffer(c) ==
  /\ phase[c] = "selecting"
  /\ \E r \in replies :
        /\ Mine(c, r, "OFFER")
        /\ Send(c, "REQUEST", xid[c], r.yiaddr)
        /\ asked' = [asked EXCEPT ![c] = r.yiaddr]
  /\ phase' = [phase EXCEPT ![c] = "requesting"]
  /\ UNCHANGED <<lease_table, replies, xid, address>>

TakeAck(c) ==
  /\ phase[c] = "requesting"
  /\ \E r \in replies :
        /\ Mine(c, r, "ACK")
        /\ address' = [address EXCEPT ![c] = r.yiaddr]
  /\ phase' = [phase EXCEPT ![c] = "bound"]
  /\ UNCHANGED <<lease_table, requests, replies, xid, asked>>

ClientStep(c) ==
  \/ Boot(c) \/ Reboot(c) \/ Renew(c) \/ ReleaseLease(c) \/ GiveUp(c)
  \/ TakeOffer(c) \/ TakeAck(c)

DhcpNext == ServeDhcp \/ RestartDhcp \/ \E c \in Client : ClientStep(c)
DhcpSpec == DhcpInit /\ [][DhcpNext]_dhcpVars

-----------------------------------------------------------------------------
(* Properties.                                                             *)

DhcpTypeOK ==
  /\ DOMAIN lease_table \subseteq Client
  /\ \A c \in DOMAIN lease_table : lease_table[c] \in Address
  /\ requests \subseteq Request /\ replies \subseteq Reply
  /\ phase \in [Client -> {"init", "selecting", "requesting", "bound"}]
  /\ xid \in [Client -> 0..MaxXid]
  /\ asked \in [Client -> Address \cup {NoAddress}]
  /\ address \in [Client -> Address \cup {NoAddress}]

(* The client's present exchange began with a DISCOVER.                    *)
Discovered(c) ==
  \E m \in requests : m.type = "DISCOVER" /\ m.mac = c /\ m.xid = xid[c]

(* A client that went through the whole exchange, or renewed without       *)
(* naming an address, has the fixed one: whatever datagrams are lost, late *)
(* or repeated, however often the server restarts, and whatever it or      *)
(* others asked for and were acknowledged before (dhcp_server.cpp:260-264, *)
(* where the lease is made and kept).                                      *)
FixedUnlessRemembered ==
  \A c \in Client :
    phase[c] = "bound" /\ (Discovered(c) \/ asked[c] = NoAddress) => address[c] = FixedIp

(* The clients of the network are given the fixed address                  *)
(* (dhcp_server.cpp:20), which is what every ACK is said to carry (:277).  *)
BoundToFixedIp == \A c \in Client : phase[c] = "bound" => address[c] = FixedIp
=============================================================================
