-------------------------------- MODULE IcmpPing -------------------------------
(***************************************************************************)
(* homework9/icmp_ping.cpp: one run of the client, and servers on some of  *)
(* the hosts.  Both read raw sockets, which get a copy of every ICMP       *)
(* packet that reaches their host, over the loopback too: requests and     *)
(* replies, the program's own and those of other programs.  The system of  *)
(* a host answers Echo Requests by itself, beside the server.              *)
(***************************************************************************)
EXTENDS Integers, Sequences, FiniteSets

CONSTANTS
  Host,
  Here,       \* the host the client runs on
  MaxForeign  \* bound: packets other programs send

ASSUME PingAssumption == Here \in Host /\ MaxForeign \in Nat

VARIABLES
  serving,  \* the hosts on which a server runs
  flying,   \* packets under way; of equal ones there is one
  inbox,    \* per host, what the server's socket holds
  client,   \* "start" (its socket is open), "wait" or "end"
  target,   \* dest_addr
  reply,    \* what the client's socket holds
  printed,  \* the client's last line
  foreign   \* packets sent by other programs

clientSide == <<client, target, reply, printed>>
pingVars == <<serving, flying, inbox, clientSide, foreign>>

(* SHORT is a packet of fewer than 8 bytes, OTHER one of another type.  The *)
(* sender "by" is not in the packet: it only tells copies apart.           *)
Packet ==
  [type : {"ECHO", "ECHOREPLY", "OTHER", "SHORT"}, src : Host, dst : Host,
   by : {"client", "server", "system", "other"}]

Line == [says : {"nothing", "unresolved", "unsent", "timeout", "error", "bad", "other", "reply"},
         from : Host]

PingInit ==
  /\ serving \in SUBSET Host
  /\ flying = {}
  /\ inbox = [h \in Host |-> << >>]
  /\ client = "start" /\ target = Here
  /\ reply = << >>
  /\ printed = [says |-> "nothing", from |-> Here]
  /\ foreign = 0

-----------------------------------------------------------------------------
(* The network and the systems of the hosts.                               *)

EchoReply(p, by) == [type |-> "ECHOREPLY", src |-> p.dst, dst |-> p.src, by |-> by]

Deliver(p) ==
  /\ p \in flying
  /\ flying' = (flying \ {p})
                 \cup (IF p.type = "ECHO" THEN {EchoReply(p, "system")} ELSE {})
  /\ inbox' = IF p.dst \in serving THEN [inbox EXCEPT ![p.dst] = Append(@, p)] ELSE inbox
  /\ reply' = IF p.dst = Here /\ client # "end" THEN Append(reply, p) ELSE reply
  /\ UNCHANGED <<serving, client, target, printed, foreign>>

(* On its way, or because its sendto fails.                                *)
Lose(p) ==
  /\ p \in flying
  /\ flying' = flying \ {p}
  /\ UNCHANGED <<serving, inbox, clientSide, foreign>>

OtherProgram ==
  /\ foreign < MaxForeign
  /\ foreign' = foreign + 1
  /\ \E p \in Packet :
        /\ p.by = "other"
        /\ flying' = flying \cup {p}
  /\ UNCHANGED <<serving, inbox, clientSide>>

-----------------------------------------------------------------------------
AnswersAll(p) == p.type # "SHORT"  \* slip: the type of the packet is not looked at
Answers(p) == p.type = "ECHO"

(* One turn of the server's loop: a request is turned into its reply in    *)
(* place and sent back; what is too short or no request is dropped.        *)
ServeEcho(h) ==
  /\ inbox[h] # << >>
  /\ inbox' = [inbox EXCEPT ![h] = Tail(@)]
  /\ LET p == Head(inbox[h])
     IN  flying' = IF Answers(p) THEN flying \cup {EchoReply(p, "server")} ELSE flying
  /\ UNCHANGED <<serving, clientSide, foreign>>

Conclude(says, from) ==
  /\ printed' = [says |-> says, from |-> from]
  /\ client' = "end"

SendRequest ==
  /\ client = "start"
  /\ client' = "wait"
  /\ target' \in Host
  /\ flying' = flying \cup {[type |-> "ECHO", src |-> Here, dst |-> target', by |-> "client"]}
  /\ UNCHANGED <<serving, inbox, reply, printed, foreign>>

(* The name is unknown, or sendto fails.                                   *)
SendFails ==
  /\ client = "start"
  /\ \E says \in {"unresolved", "unsent"} : Conclude(says, Here)
  /\ UNCHANGED <<serving, flying, inbox, target, reply, foreign>>

(* select returns because the two seconds are over.                        *)
PingTimeout ==
  /\ client = "wait"
  /\ reply = << >>
  /\ Conclude("timeout", Here)
  /\ UNCHANGED <<serving, flying, inbox, target, reply, foreign>>

(* select returns because there is a packet: the first is read, and it is  *)
(* the only one.                                                           *)
ReadReply ==
  /\ client = "wait"
  /\ reply # << >>
  /\ LET p == Head(reply)
     IN  \/ Conclude(CASE p.type = "SHORT" -> "bad"
                    [] p.type = "ECHOREPLY" -> "reply"
                    [] OTHER -> "other", p.src)
         \/ Conclude("error", Here)
  /\ reply' = << >>
  /\ UNCHANGED <<serving, flying, inbox, target, foreign>>

ClientRuns == SendRequest \/ SendFails \/ PingTimeout \/ ReadReply
PingEnded == client = "end" /\ UNCHANGED pingVars

PingNext ==
  \/ \E p \in flying : Deliver(p) \/ Lose(p)
  \/ OtherProgram
  \/ \E h \in Host : ServeEcho(h)
  \/ ClientRuns \/ PingEnded

(* Packets arrive or are lost, and the programs run on.                    *)
PingMoves == (\E p \in flying : Deliver(p)) \/ (\E h \in Host : ServeEcho(h)) \/ ClientRuns
PingSpec == PingInit /\ [][PingNext]_pingVars /\ WF_pingVars(PingMoves)

-----------------------------------------------------------------------------
(* Properties.                                                             *)

PingTypeOK ==
  /\ serving \subseteq Host /\ flying \subseteq Packet
  /\ inbox \in [Host -> Seq(Packet)]
  /\ client \in {"start", "wait", "end"} /\ target \in Host
  /\ reply \in Seq(Packet) /\ printed \in Line
  /\ foreign \in 0..MaxForeign

(* Nothing is left to deliver or to read, and the client has ended.         *)
AtRest == client = "end" /\ flying = {} /\ \A h \in Host : inbox[h] = << >>

(* icmp_ping.cpp:23: the client sends one Echo Request and waits for its   *)
(* Reply: what it reads, unless it times out, is a reply of the host asked.*)
ReplyAwaited ==
  printed.says \in {"bad", "other", "reply"} => printed = [says |-> "reply", from |-> target]
=============================================================================
