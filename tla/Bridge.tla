--------------------------------- MODULE Bridge --------------------------------
(***************************************************************************)
(* homework6/bridge_learning.cpp: a bridge between two segments that       *)
(* learns on which of them a station is from the frames it sends.  The     *)
(* stations are not part of the program; here they also move from one      *)
(* segment to the other, which the bridge is not told.                     *)
(***************************************************************************)
EXTENDS Naturals

CONSTANTS
  Station,   \* the addresses in use
  BROADCAST  \* BROADCAST_ADDR

ASSUME BroadcastAssumption == BROADCAST \notin Station

VARIABLES
  mac_table,  \* the port of each address learned
  at_port,    \* the port each station is really at
  settled,    \* the stations that have sent a frame since they last moved
  frame       \* the last frame and where the bridge put it, or NoFrame

bridgeVars == <<mac_table, at_port, settled, frame>>

Port == {1, 2}
NoFrame == [dest |-> BROADCAST, segments |-> Port]

(* Moves bring the stations wherever they may be before the first frame.  *)
BridgeInit ==
  /\ mac_table = << >>
  /\ at_port = [s \in Station |-> 1]
  /\ settled = {}
  /\ frame = NoFrame

-----------------------------------------------------------------------------
LearnNewOnly(src, port) ==  \* slip: insert does not replace an entry
  [a \in DOMAIN mac_table \cup {src} |->
     IF a \in DOMAIN mac_table THEN mac_table[a] ELSE port]

Learn(src, port) ==
  [a \in DOMAIN mac_table \cup {src} |-> IF a = src THEN port ELSE mac_table[a]]

(* The ports the frame is meant for: all of them for a broadcast and when  *)
(* the address is not in the table.                                        *)
Lookup(table, dest) ==
  IF dest \in DOMAIN table /\ dest # BROADCAST THEN {table[dest]} ELSE Port

(* The segment the frame comes from has it already; it is forwarded to the *)
(* other if that is meant too.                                             *)
ProcessFrame(src, dest) ==
  /\ mac_table' = Learn(src, at_port[src])
  /\ frame' = [dest |-> dest, segments |-> {at_port[src]} \cup Lookup(mac_table', dest)]
  /\ settled' = settled \cup {src}
  /\ UNCHANGED at_port

Move(s) ==
  /\ at_port' = [at_port EXCEPT ![s] = 3 - @]
  /\ settled' = settled \ {s}
  /\ frame' = NoFrame
  /\ UNCHANGED mac_table

BridgeNext ==
  \/ \E s \in Station, d \in Station \cup {BROADCAST} : ProcessFrame(s, d)
  \/ \E s \in Station : Move(s)
BridgeSpec == BridgeInit /\ [][BridgeNext]_bridgeVars

-----------------------------------------------------------------------------
(* Properties.                                                             *)

BridgeTypeOK ==
  /\ DOMAIN mac_table \subseteq Station
  /\ \A s \in DOMAIN mac_table : mac_table[s] \in Port
  /\ at_port \in [Station -> Port]
  /\ settled \subseteq DOMAIN mac_table
  /\ frame \in [dest : Station \cup {BROADCAST}, segments : SUBSET Port]

(* A frame reaches the station it is for unless that one has moved without *)
(* sending anything since: stations the bridge has never heard of and      *)
(* those it has heard of since their last move miss nothing, wherever the  *)
(* others are, and a broadcast reaches both segments.                      *)
ReachesUnlessMoved ==
  /\ frame.dest = BROADCAST => frame.segments = Port
  /\ frame.dest \in settled \cup (Station \ DOMAIN mac_table) =>
       at_port[frame.dest] \in frame.segments
=============================================================================
