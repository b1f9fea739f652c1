------------------------------- MODULE MCPrograms ------------------------------
(***************************************************************************)
(* The programs that do not run several threads.  A behaviour is a run of  *)
(* one of them; the others are not started.                                *)
(***************************************************************************)
EXTENDS Dhcp, Bridge, Fragmentation, Rip, Dijkstra, IcmpPing, Multiplex, Tools, ApDeployment

VARIABLE program

tables == <<dhcpVars, bridgeVars, ripVars>>
packets == <<fragmentVars, pingVars>>
functions == <<multiplexVars, call, apVars>>
allVars == <<program, tables, packets, functions, dijkstraVars>>

CONSTANTS c1, c2, s1, s2, s3, d1, d2, BC, h1, h2
MCClient == {c1, c2}
MCStation == {s1, s2, s3}
MCDest == {d1, d2}
MCNeighbour == {"R3"}
MCRawCost == (-1)..5
MCSource == {<< >>, <<0, 1>>, <<7, 0, 1>>, <<1, 1, 0, 0, 1>>}
MCQuad == {<<10, 0, 0, 1>>, <<10, 0, 0, 129>>, <<10, 0, 1, 1>>, <<10, 64, 3, 1>>, <<172, 16, 0, 1>>}

ProgramsInit ==
  /\ DhcpInit /\ BridgeInit /\ FragmentInit /\ RipInit /\ DijkstraInit
  /\ PingInit /\ (program # "ping" => serving = {})
  /\ MultiplexInit /\ ToolsInit /\ ApInit

Init ==
  /\ program \in {"dhcp", "bridge", "fragment", "rip", "dijkstra", "ping", "multiplex",
                  "tools", "ap"}
  /\ ProgramsInit

DhcpRuns == program = "dhcp" /\ DhcpNext
  /\ UNCHANGED <<program, bridgeVars, ripVars, packets, functions, dijkstraVars>>
BridgeRuns == program = "bridge" /\ BridgeNext
  /\ UNCHANGED <<program, dhcpVars, ripVars, packets, functions, dijkstraVars>>
RipRuns == program = "rip" /\ RipNext
  /\ UNCHANGED <<program, dhcpVars, bridgeVars, packets, functions, dijkstraVars>>
FragmentRuns == program = "fragment" /\ FragmentNext
  /\ UNCHANGED <<program, tables, pingVars, functions, dijkstraVars>>
PingRuns(Step) == program = "ping" /\ Step
  /\ UNCHANGED <<program, tables, fragmentVars, functions, dijkstraVars>>
DijkstraRuns(Step) == program = "dijkstra" /\ Step
  /\ UNCHANGED <<program, tables, packets, functions>>
MultiplexRuns == program = "multiplex" /\ MultiplexNext
  /\ UNCHANGED <<program, tables, packets, call, apVars, dijkstraVars>>
ToolsRun == program = "tools" /\ ToolsNext
  /\ UNCHANGED <<program, tables, packets, multiplexVars, apVars, dijkstraVars>>
ApRuns == program = "ap" /\ ApNext
  /\ UNCHANGED <<program, tables, packets, multiplexVars, call, dijkstraVars>>

Next ==
  \/ DhcpRuns \/ BridgeRuns \/ RipRuns \/ FragmentRuns \/ PingRuns(PingNext)
  \/ DijkstraRuns(DijkstraNext) \/ MultiplexRuns \/ ToolsRun \/ ApRuns

(* The fairness of the programs of which something is said that must       *)
(* happen.                                                                 *)
Spec ==
  /\ Init /\ [][Next]_allVars
  /\ WF_allVars(PingRuns(PingMoves))
  /\ WF_allVars(DijkstraRuns(Compute))

(* Every variable of the programs has its type. *)
ProgramsTypeOK ==
  /\ DhcpTypeOK /\ BridgeTypeOK /\ FragmentTypeOK /\ RipTypeOK /\ DijkstraTypeOK
  /\ PingTypeOK /\ MultiplexTypeOK /\ ApTypeOK

(* The loops of Dijkstra's search end, above all the one over prev: a      *)
(* cycle there would keep the program for ever.                            *)
PathFound == program = "dijkstra" => SearchEnds

(* Servers answer requests only, never each other's replies or their own,  *)
(* which their sockets also get: the network comes to rest.                *)
PingSettles == program = "ping" => <>[]AtRest
=============================================================================
