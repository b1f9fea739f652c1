# Verification of the network homework programs

TLA+ models, TLC checks and TLAPS proofs for the C++ programs of this
repository: the licence server and client of `lab5` and the protocol and
algorithm simulations under `homework*`.

Tools: `tlc -config X.cfg M` checks a run of the table below, `tlapm M.tla`
checks the proofs of a module whose name ends in `Proofs`.

## 1. Inventory

The repository holds independent programs. Only the two of `lab5` talk to each
other; the others are single processes, three of them with several threads.

| component | state it keeps | operations | what is hard | what makes it correct |
|---|---|---|---|---|
| licence server, `lab5/server.cpp` | `g_tickets` (id -> process id) and `g_ticketCount`, in memory only, under `g_cs` | main thread: receive, handle HELO / GBYE / VALID, send; reclaim thread: every 10 s erase the tickets of dead processes | two threads; the response is sent after the critical section; reuse of process ids and of ticket numbers; a crash forgets the table | never more than `MAX_USERS` tickets; the count kept by hand is the size of the table; a live process keeps its ticket; a dead one's comes back |
| licensed program, `lab5/client.cpp` | `g_ticket`, `g_hasTicket`, `g_running`, one UDP socket and its receive timeout, all shared by two threads without a lock | main: get a ticket, run, give it back; heartbeat: VALID every 8 s, HELO again when it fails | datagrams lost or late, answers not matched to requests, threads that take each other's answers, a server that restarts | a running program is registered, with one ticket, and notices when it is not; it exits when told to |
| CSMA/CD, `homework5/csma_cd.cpp` | `channel_busy` under a mutex with a condition variable; a loop index per thread | sense, take the channel, send, collide, next frame | carrier sense is outdated when used; spurious wakeups; two paths give the channel back | one sender; no lost wakeup; every frame is tried; the threads end |
| stop-and-wait, `homework11/stop_and_wait.cpp` | `sender_seq`, `receiver_ack`, `done` under a mutex; packet, retry and expected numbers in the threads | publish, lose, wait for the acknowledgement, time out, give up; take, acknowledge | losses on both ways, a late packet after its retry, a retry limit | each packet once and in order; truthful acknowledgements; both threads end |
| sliding window, `homework11/sliding_window.cpp` | the two windows, under a mutex | fill the window, advance over acknowledgements; take packets out of order, advance and acknowledge | two window bases that follow each other; indices at the end of the arrays | the windows keep step, no index leaves its array, all packets arrive |
| Dijkstra, `homework13/dijkstra_shortest_path.cpp` | numbered names, adjacency lists, `dist`, `prev`, `vis` | read roads, search, print the path | ties, parallel roads, unreachable routers, the loop over `prev` | the distances are shortest, the path printed has that length, the loops end |
| RIP update, `homework13/rip_update.cpp` | R1's routing table | merge R2's table | a route through R2 gets worse; cost 16 | routes through R2 are as R2 says, no other gets worse |
| DHCP server, `homework9/dhcp_server.cpp` | a lease per MAC address, never removed; one fixed address for all | DISCOVER -> OFFER, REQUEST -> ACK, by broadcast | several clients at once, a REQUEST for any address, datagrams lost or repeated | every client is given the fixed address, which all share by design (`dhcp_server.cpp:20`) |
| learning bridge, `homework6/bridge_learning.cpp` | address table | learn, filter, forward | stations that move without telling | frames reach every station that did not move in silence |
| fragmentation, `homework8/fragment_packet.cpp` | none | split a packet for an MTU | units of eight bytes, a tiny MTU, an exact multiple | the fragments make up the packet |
| ICMP ping, `homework9/icmp_ping.cpp` | client: one request; server: none | client: send, wait two seconds, read one packet; server: turn a request into a reply | a raw socket gets every ICMP packet of its host, replies and the program's own packets included | the servers come to rest; the client reads the reply of the host it asked |
| multiplexing, `homework2/multiplex.cpp` | the mode, a global | set the mode; two bit sequences into one message, in four ways, and back | the mode may change in between; sequences of different lengths, buffers too small, a message cut short | demultiplex gives back what multiplex got |
| access points, `homework6/ap_deployment.cpp` | the list of access points | place them, count overlaps, draw a map, floor by floor | walls, thresholds, units | within the estimated radius of an access point the signal is strong enough |
| parity (`homework4`), MAC match (`homework5`), address tools (`homework8`) | none | functions | boundaries | agreement with their definitions |
| colour codes, `homework1/solution.py` | the palettes | encode, decode, receive | a camera shifts colours and may give no frame | the number shown is the number read |
| NTP server, `homework11/ntp_server.py` | the time it was started with | receive, build a reply, send | an exception in the loop | a request is replied to |
| modulation (`homework2`), Nyquist (`homework7`), frame header (`homework5`) | floating-point signals, a type | | | see section 7 |

How the parts of `lab5` interact: every instance of the program sends requests
by UDP over the loopback to the server's one socket; the server answers to the
address the datagram came from and looks the process up by the process id that
the datagram names (`IsProcessAlive`).

`PROJECT.json` lists, under `hazards`, what could go wrong at which line, with
the properties that would notice.

## 2. Plan

Order: the licence system first, being the only distributed one, then the
threaded simulations, then the algorithms.

| | module(s) | state |
|---|---|---|
| 1 | `LicenseServer`, with the abstract `LicensePool`, then `LicenseClient`, composed in `LicenseSystem` | done, proved |
| 2 | `CsmaCd` | done, proved |
| 3 | `InOrderTransfer` (abstract), implemented by `StopAndWait` and `SlidingWindow` | done, proved |
| 4 | `Dijkstra` | done, proved |
| 5 | the programs without threads: `Dhcp`, `Bridge`, `Fragmentation`, `Rip`, put together with `Dijkstra` in `MCPrograms` | done, proved |
| 6 | added to `MCPrograms`: `IcmpPing`, `Multiplex`, `ApDeployment`, and `Tools` for the functions without state | done, proved |
| 7 | `MCHomework`, which adds `CsmaCd`, `StopAndWait` and `SlidingWindow` for one run of everything but the licence system | done |

"Proved" means every safety property of the module and, where it has a liveness property, the safety facts on
which that one rests; section 6 says what is not. The plan is complete: nothing in it is open.

## 3. Modules and the code

**LicenseServer.** One step is what happens between two points where the other
thread or the network can interfere. `Recv` is `recvfrom`; a handler branch
(`GrantHelo`, `DenyHelo`, `GbyeRelease`, `GbyeUnknown`, `ValidCheck`, `Garbled`,
`UnknownRequest`) is the critical section of that branch together with the making
of the response; `Reply` is `sendto`. `ReclaimEnter`, `ReclaimCheck` (one
iteration) and `ReclaimErase` are `ReclaimTickets`, which holds `g_cs` from the first to the
last of them (`CsFree`), while processes go on starting and dying. A ticket is
its number, for the server looks only at what follows the dot; the number 0
stands for a string without a dot. The environment is any set of processes that
speak the protocol, each with the process id the operating system gave it
(`PidOf`, which need not be injective: ids are reused, but never by two live
processes). A crash empties everything, the code having no disk.
When a process id is given out again, the dead process's ticket stays as long as its namesake runs, for the
server has only the id to go by; `DeadTicketReclaimed` names this case as its exception.

`GrantHelo` finds the id as the code does, by counting up from 1
(`IsLowestFree`); that the search ends is proved (`SearchEnds`).

**LicensePool** is what the server promises, with neither queue, threads, counter nor
critical section: licences numbered from 1, one query served at a time, a
licence granted whenever one is unused and refused only when none is, licences
of the dead taken back in one step. `ImplementsPool` is the refinement; the
abstract step of the reclaim thread is `ReclaimErase`.

**LicenseClient** is a process per member of `Proc` with the control points of its two
threads in `at`. `SendRequest` is three steps: `sendto` with the `setsockopt` after it
(`SendHelo`, `SendBye`, `SendValid`), the start of `recvfrom` (`BeginRecv`), which takes
the timeout the socket has then, and its return (`Receive`, `Timeout`) with
the `setsockopt` back to 0 and what the caller does with the response. The
threads share the socket, the timeout, `g_ticket` and `g_hasTicket` without a lock, so a
thread may get the other's answer, or begin a `recvfrom` that never times out because the
other has just reset the timeout (`endless`). `g_ticket` is a `std::string`: the main
thread that reads it while the heartbeat thread assigns it gets the old value, the new one or
neither (`TicketsRead`). A datagram on the loopback is lost only when the port is closed or the
buffer full. `Timeout` may also strike while an answer is still to come; `late`
counts those.

**LicenseSystem** joins the two: `Respond` is the server's `Reply` into the inbox of the
client; faults are a crash and restart of the server and the death of a client at
any moment.

**CsmaCd.** A critical section of the channel mutex is one step, since none blocks except in
`pthread_cond_wait`, which is two places: "waiting" and, from the broadcast or a
spurious return until it has the mutex again, "woken". `Acquire` is the `while` loop
around the wait; `Complete` and `Collide` are the two ways in which a station gives the channel
back.

**StopAndWait.** The inner loop of the sender is `Publish`, then `LosePacket` or `Pass`, then
`AckSeen` or `Timeout`; `TryAgain` is `retries++` with the loop's condition. A
packet that "was lost" stays in `sender_seq`: the receiver may still take it. The
receiver evaluates `!done || expected_seq < PACKET_COUNT` outside the mutex, hence
`Check` apart from `Take` and `PassBy`. What the sender prints (acknowledged, failed) is
kept in `acked` and `failed`. In the code the sender sleeps between packets with the lock held;
the step boundaries are where the lock is released.

**SlidingWindow.** One step per critical section: the sender fills its window and advances over
the acknowledgements, the receiver takes any subset of its window (each packet is drawn for separately) and
advances. The packets do not travel in this program: the receiver takes what its window
admits, sent or not. Its base can therefore be ahead of `next_seq`; the comment at
`sliding_window.cpp:19` describes the windows of the textbook, in which it cannot.
The flag arrays are sets. The monitor thread only reads and prints; its end is `monitor_done`.

**InOrderTransfer** is the promise both transfers share: packets are handed on once
and in order, and no packet is taken for acknowledged that was not handed on.

**Dijkstra.** One step per iteration of a loop: a road read, a router visited with
all its roads relaxed, a router pushed on the path. Names are numbered in the
order of appearance (`CountWith` is `get_id`). The second router asked for is chosen when the
search is over, for nothing depends on it before.

**Dhcp.** `Discover`, `Acknowledge` and `NoAnswerTo` are the three branches of the server's loop, each with
the lease that every datagram read gets its sender first (`Lease`). The clients are not in the repository;
they do what the protocol says: boot with a DISCOVER, which names the address asked for last, or with a REQUEST for an
address they remember, take replies with their own MAC address and xid only, renew
without the option that names an address, release, give up. All that was
ever sent stays in `requests` and `replies` and may be received at any time, again, or never.
All clients are to get the same address, by design (`dhcp_server.cpp:20`), but a REQUEST is acknowledged with any address
it names (`:272`). `FixedUnlessRemembered` says who gets the fixed one all the same; that all do, `BoundToFixedIp`, is not true.

**Bridge.** `ProcessFrame` is `process_frame`: learn, then look up. Where the frame goes is
kept in `frame`. Stations, and their moves between the segments, are the environment.

**Fragmentation** is the loop of `fragmentPacket`, one fragment per step, after the early returns in `FragmentCall`.

**Rip** reads both tables and merges R2's into R1's, one destination per step.

**IcmpPing.** One run of the client (`SendRequest`, then `PingTimeout` or `ReadReply`; `SendFails` is
the early return for an unknown name or a failed `sendto`) and a server on any set of hosts
(`ServeEcho` is a turn of its loop). The network and the systems of the hosts are the environment: `Deliver` gives
a copy of a packet to every raw socket on its host, and the system answers an
Echo Request by itself, so a client can get two replies, or its own request. The field `by`
tells apart packets that are equal on the wire; the programs do not look at it.

**Multiplex.** A step is a call of the library. The message is the mode, both
lengths and the payload byte by byte; `do_sync_tdm`, `do_stat_tdm`, `do_fdm` and `do_cdm` are
the four encodings and `SaysOne` what each decoding makes of a payload. `CutShort` is the
caller's channel: `demultiplex` is given the length and must live with what arrived.

**ApDeployment** is `main`: three loops over the floors, one floor per step (`calculate_ap_positions` puts up
the six access points of its floor). `heatmap` has a symbol for each point of the map. Lengths are in half metres and losses
are rounded down to whole dB. `get_effective_coverage`, which `main` never calls, is there for `CoverageAsEstimated`.

**Tools** holds what keeps no state: `parity_check`, `mac_address_match`, `is_in_net`,
`classwise`, `icmp_checksum`, the colours of `solution.py`, and a turn of the NTP server's loop. A behaviour is one call.
An octet is the set of places where it has ones (`Bits`), and `&` is their intersection (`Masked`).
For the NTP reply, fields and values are their sizes in bytes (`Packs` is `struct.pack`); what the server should do is `NtpReplied`, which is
no part of `ToolsAgree`.

**MCPrograms** extends the nine modules of programs without threads; `program` says which of
them a behaviour runs, the others stay in their initial state. **MCHomework** adds the three simulations with
threads in the same way, each with the fairness of its own specification. Their names that would clash have a
prefix (`CsmaNext`, `StopWaitNext`, `WindowNext`); of the source's names this changes `done` of the sliding window, which
is `monitor_done`.

Definitions marked `slip` are deliberate mistakes, each what a plausible bug in
the code would do; they are used by nothing, and serve to see that a property
notices when one takes the place of the definition after it.

## 4. Runs

| run | question | result |
|---|---|---|
| `license_server` | Does the server stay consistent, and implement the pool, for arbitrary processes? Three executions, two of them with one process id, two licences, a queue of one, one crash | holds |
| `license_system` | Do the client's two threads, sharing socket and ticket, do harm while a program runs? Two programs at once, two licences, no crash, no late answer | no |
| `license_restart` | Does what must happen happen after a restart and a late answer: a lost ticket is noticed, a program told to quit exits, a dead program's ticket comes back, every request is answered? | yes |
| `license_foreign_bye` | After a restart, does a program give back only its own ticket? | **no** |
| `license_late_answer` | Has a running program one ticket even when an answer is late? | **no** |
| `csma_retry` | Is a frame retried after a collision, as the program prints? | **no** |
| `stop_and_wait_join` | Does `main` get past its two joins? | **no**, after a packet is given up |
| `programs` | Every other program, each on its own. With threads: do the stations send one at a time, miss no wakeup, try every frame once and get through? Are both transfers in order and truthful under any losses, which packet blocks the rest, which thread ends? Without: does a DHCP client that took an offer, or renewed, have the fixed address, does a frame reach every station that did not move in silence, do fragments make up the packet, is R1's table right after the update? Is Dijkstra's path shortest, and do its loops end? Does `demultiplex` give back what `multiplex` got, do ping servers let the network come to rest, do the functions without state agree with their definitions? | holds |
| `ping_own_request` | Does a client that is not timed out read a reply of the host it asked? | **no** |
| `dhcp_fixed_address` | Has every bound client the fixed address? | **no**, if it asks for another |
| `ntp_reply` | Is a whole NTP request replied to? | **no** |
| `ap_coverage` | Is the signal strong enough within the radius estimated for an access point? | **no** |

The eight runs that fail are findings; `PROJECT.json` quotes the line of the
repository each contradicts. In short:

- `license_foreign_bye`: the server erases the ticket a GBYE names by its number
  and does not look at the process id before the dot (`server.cpp:158-163`), as VALID does.
  Ticket numbers are given out anew after a restart, so a program that quits before its
  heartbeat has noticed gives back another program's ticket.
- `license_late_answer`: responses are not matched to requests
  (`client.cpp:38-48`), so one late answer shifts all later ones; the heartbeat takes a good
  ticket for lost and gets another, while the server still has the first.
- `csma_retry`: a station that met a collision prints that it will retry and goes on to
  the next frame.
- `stop_and_wait_join`: the sender gives a packet up after three tries, the
  receiver goes on expecting it.
- `ping_own_request`: the client takes the first packet its socket gets, whatever
  it is. Asked for its own host, which is the default, it reads its own request and says so
  ("recv non-echo reply packet"); the reply comes right after it.
- `dhcp_fixed_address`: the server gives the clients a fixed address (`dhcp_server.cpp:20`) and prints
  that address with every ACK (`:277`), but a client that begins with a REQUEST for another
  one is acknowledged that one (`:272`). With the lease in its place, `BoundToFixedIp` holds.
- `ntp_reply`: `build_ntp_reply` gives six fields four values
  (`ntp_server.py:51`), and the field after them is too small (`:52`). The exception
  is no `OSError`, so the first request of 48 bytes ends the server, and what is printed after the
  reply is sent (`:98`) never is.
- `ap_coverage`: `path_loss` adds 32.44, the constant for a distance in
  kilometres, to a distance in metres (`ap_deployment.cpp:54`), so every signal is 60 dB too weak, below the target of
  -65 dBm (`:32`) everywhere, within the estimated radii of lines 34-40, too, for which the plan is made (`:154-161`). The map is blank
  and nothing overlaps, whatever the plan. The model's rounding makes signals stronger only, so the program's exact values give
  the same map. With the constant for metres, 60 dB less in `LossAtOne`, `CoverageAsEstimated` holds.

### Bounds, and why they are enough

- *Processes.* Two suffice for every conflict over a ticket; three, two with one
  process id, are needed for a reused id while somebody else holds a ticket. With
  two licences and three users the pool runs full; with one licence (`license_restart`) every
  ticket that stays away is missed.
  In the composed runs symmetry is used only where the
  processes have ids of their own and no liveness is checked.
- *QueueCap, InboxCap.* One in the server's own run, so that the queue is full at once and is
  then drained; three in the composed runs: each of two clients has at most two threads asking at a time.
- *MaxCrashes, MaxLate = 1.* One restart makes every ticket stale, one late answer
  shifts all later ones. More repeat the same situation.
- *CSMA/CD:* three stations are what it takes for one to wait, one to be woken and one to
  take the channel in between; two frames for a frame to follow another.
- *Stop-and-wait:* the number of packets and tries of the program, so nothing is
  abstracted. *Sliding window:* windows of four as in the program and ten packets, so that a
  window fills, moves and meets the end.
- *Programs:* two clients with two exchanges each, so that an answer to a given-up exchange comes
  in the next, and what the first was acknowledged could show in the second; one address besides the fixed one. Three stations: a sender, a receiver and one the bridge
  confuses with neither. Lengths to 80 on paths of any of five links that carry nothing, too little, one
  unit, two units, two units and a rest. Two destinations with costs below, at and
  above an infinity of 4 in place of 16: only the comparisons with it matter.
- *Ping:* two hosts, each with a server or none, so that servers get each other's
  replies and their own; one packet of another program, of any type between any hosts.
- *Multiplex:* sequences of different lengths, the empty one included, with an element that is neither 0 nor 1.
  Buffers too small for the header, for the payload, and large enough. Positions are written with
  two digits of base 2 in place of 256, so the fifth one no longer fits.
- *Tools:* messages up to five bits and every single error in each; every class, every length of mask; checksums with bytes
  of base 2 in place of 256 over up to as many bytes as make the sum carry twice.
  Colours off by up to 127 in any channels. *Access points:* the numbers of the program.
- *Dijkstra:* four routers and four roads contain ties, parallel roads, loops, cycles,
  unreachable routers and paths where the way round is shorter. Weights 0 and 2 against
  INF 5 include roads of no length and paths longer than INF.

## 5. Fairness

Only what the code's scheduling gives is assumed; no safety property uses it.

- A thread that can take a step keeps taking steps (weak fairness per thread). Nobody has to
  start, to press 'q', to crash or to restart; losses, collisions and spurious
  wakeups are under no obligation.
- *Strong* fairness of the server's `Handle`: the reclaim thread takes `g_cs` again and
  again, so weak fairness would let the main thread wait for ever. It sleeps ten
  seconds outside `g_cs` in between (`server.cpp:38`), during which the main thread gets it.
- *Sliding window:* weak fairness of `ReceivesBase`: each pass draws anew, with a
  probability below one of dropping, for the packet at the base.
- *Dijkstra:* weak fairness of everything but reading: the input ends.
- *Ping:* weak fairness of deliveries, servers and client together. Packets may be lost, and
  need not; `select` returns after two seconds at the latest.

## 6. What is proved

The proofs hold for every value of the constants, under the named assumptions
in the modules only. These say that bounds are numbers, and besides: a finite non-empty set of
processes and at least one licence; at least one packet and one try; windows of at least one packet; weights that
are not negative; finitely many MTUs, natural lengths; sequences of bytes that are natural numbers, and at least
two values to a byte; addresses of four octets; at least one floor; the fixed address is an address, the broadcast address no
station, the client's host a host, the RIP infinity positive and R2 none of the other neighbours.

| module | theorems |
|---|---|
| `LicenseServerProofs` | `TypeCorrect`, `ServerInvariant`, `SearchEnds`, `ResponsesTrue`, `LiveKept`, `ServerImplementsPool` |
| `LicenseSystemProofs` | `SystemTypeCorrect`, `SystemImplementsServer`, `SystemImplementsPool`, `RunningHasTimeout`, `RunningKeeps`, `OneTicket` |
| `CsmaCdProofs` | `TypeCorrect`, `MutualExclusion`, `WakeupsKept`, `FramesTriedOnce`, `SomebodyGoesOn` |
| `StopAndWaitProofs` | `TypeCorrect`, `OnePacketWindow`, `GivenUpBlocks`, `StopAndWaitImplementsTransfer`, `SenderIsBounded` |
| `SlidingWindowProofs` | `TypeCorrect`, `WindowsKeepStep`, `SlidingWindowImplementsTransfer`, `WindowsMove` |
| `DijkstraProofs` | `DijkstraTypeCorrect`, `SearchKeepsFrontier`, `DistancesAreShortest`, `PathIsRight`, `ShortestPathIsPrinted`, `SearchComesToItsEnd` |
| `TableProofs` | `BridgeReaches`, `RipTableRight`, `SecondUpdateIsIdle`, `DhcpTypeCorrect`, `OnlyRememberedDiffer`, `RepliesAreNotAnswered`, `PingComesToRest` |
| `CalculationProofs` | `PacketReassembles`, `ApTypeCorrect`, `NoPlanReaches`, `MultiplexRestores`, `ToolsAreRight`, `ProgramsTypeCorrect`, `ProgramsKeepTheirPromises`, `ProgramsAreTheirSpecs` |

*Licence server.* That there are never more than `MaxUsers` tickets is not inductive: the code
admits a user by a counter. `Inv` adds that the counter is the size of the table
(`CountMatchesTable`), which in turn needs the scan to stay inside the table while
`g_cs` is held (`ScanStaysInTable`), or `ReclaimErase` would subtract too much. From the count
follows, by cardinalities, that the lowest free id is at most `MaxUsers` and that the
search for it ends (`SearchEnds`). `OnlyDeadMarked` is what `LiveTicketKept` and the step of the
pool that takes licences back need; `SendersStarted` is there so that an instance which
starts anew cannot already own a ticket.

*Licence system.* Each step of the composed system is a step of the server with its environment, or none
(`StepIsServerStep`): what the clients do is start, exit and send datagrams of the protocol.
So the system has all that is proved of the server, the refinement of the pool included,
and the server's invariant `Inv` serves again. The rest is about the clients' two threads, which share socket,
timeout and ticket without a lock. `LocalInv` is what a program's own memory shows:
which thread does what before, during and after the licence (`Lifecycle`), and that only one of them sets and resets the
timeout, the main thread before there is a heartbeat and the heartbeat from then on (`NeverBlocks`). `ByeInv` says that no GBYE of a running
program is under way, whence `RunningKeeps`: neither thread can lose the ticket of its own program.

`OneTicket` has the longest argument, because it is about an absence: that the heartbeat asks
for another ticket only if the old one is gone. As long as nothing is late a program has at most one
request or answer under way (`OneRequest`), which is an answer to what it asks (`RequestAsAsked`), and
what the server's table says of it follows from where that request is (`TableFits`); a
server that is down has no table (`DownEmpty`). The theorem has a premise,
`[]RoomForHeartbeat`: a running program's heartbeat finds room in the server's socket buffer.
It is needed. TLC shows with `QueueCap = 1` that a VALID dropped by a full buffer is taken for a lost
ticket, and the program then gets a second one. It is not vacuous: with the
`QueueCap = 3` of the run `license_system` it is true in every reachable state, as each of
two programs has at most one request in the buffer.

*CSMA/CD.* `OneSender` and `NoLostWakeup` are inductive with the types; `TriedOnce` needs that a
station's place and its loop index agree (`FrameInHand`).

*Stop-and-wait.* `WindowOfOne` needs two facts of what is under way: the medium never holds a packet
from ahead of the sender (`MediumBehind`), and where the sender is tells what it has in hand (`InHand`).

*Sliding window.* `WindowTypeOK` and `WindowsInStep` are inductive together. The loops are the
operators `FirstMissing`, `Filled` and `AckedUpTo`; the lemmas on them (`LeastOf`, `ScanStops`, `Filling`)
rest on the existence of a least element, proved from the well-foundedness of inclusion between
finite sets.

*Dijkstra.* `FrontierHolds` is inductive with the facts that roads lead both ways (`Symmetric`) and
that nothing is set too early (`Arrays`). `DistancesAreShortest` follows without
an induction over walks: take the first router of a walk to which the way is shorter than its distance;
the one before is visited, and then no road out of it shortens, or is not, and then it is INF away.
`PathIsRight` needs `WayBack`, what the loop over `prev` has collected so far, and
`Ranked`: predecessors rank below their successors, in the order in which the routers were visited, and no rank
exceeds the number of routers visited. So `prev` has no cycle, even if roads have no length, and no router is twice on the path.

`ShortestPathIsPrinted` compares with `Shortest`, a recursive function whose row `k` is the least length of a walk of
at most `k` roads. No row is anywhere below the distance found, and row `k` has come down to it for the routers of
rank up to `k`, since a predecessor ranks lower; so the last row is the distance. The step from row to row is
an induction that needs no theorem with an operator as parameter: the rows of which this is true are a set of numbers,
and a set that holds 0 and each number's successor holds all (`CountingUp`, by the least element of the rest).

*Bridge:* `LearnedIsTrue`, that an entry of a settled station is right. *RIP:* `MergedSoFar`, which compares the
table with the one before the merge, destination by destination, in any order. *DHCP:* an
exchange is pinned down by MAC address and xid, so `ExchangeInv` says of all that was ever sent what it
belongs to: leases never change (`LeasesFixed`), nothing has an xid that is not yet used
(`NoneFromTheFuture`), requests name the address chosen (`RequestsAsAsked`) and acknowledgements the one
requested (`AcksAsAsked`), whichever process of the server sent them. Every offer is the fixed address (`OffersFixed`), and
who began with a DISCOVER asks for what it was offered (`DiscoverersTakeOffers`). *Ping:* `OnlyAskedAnswered`, which is why
the servers come to rest.

*Fragmentation:* `SentSoFar`, where the fragments made so far end, always at a
multiple of eight. *Access points:* there are as many as the loops have put up
(`PlacedInPlan`), which is what their type rests on. `NoPlanReaches` is about the finding: the loss is 100 dB from the first metre on, so
no signal is above -80 dBm (`SignalIsWeak`), wherever the access points are. *Multiplexing:* `HoldsOriginal`, that the buffer is what the last call made of its arguments
in the mode of that time, with one lemma for each way of sending, that its decoding reads no one that was not
sent, and of the whole message every one (`ReadsRight`). For the positions of the ones it takes
that a finite set of numbers can be counted through in order (`CountedThrough`), and that numbers below the square
of the base are two digits (`TwoDigits`).

*Tools:* each function against its definition in `ToolsAgree`. *Parity:* to flip one element adds one to the set of those
that are not zero, or takes one away. *Networks:* `MaskOf(n)` has ones for the first `n` bits of an address and no others
(`MaskBits`). *Classes:* what each of the four masks leaves of an octet tells between which edges it lies (`ClassOf`).
*Checksum:* the partial sums are a table, counted up word by word, so that a buffer of up to `2 * Word` bytes sums to
at most `Word * (Word - 1)` (`SumBounded`); folding takes away multiples of `Word - 1`, and below that bound
twice is enough (`FoldedTwice`). *Colours:* a channel off by up to 127 is nearer to where it was than to the other end, so the
colour shown is nearest (`ShownIsNearest`).

*The composition.* In `MCPrograms` one program runs and the others keep their initial state, so a step is a step of one program
and of each other none (`OneProgramSteps`). `ProgramsInv` is the conjunction of the nine inductive invariants. Hence it has
every safety invariant of the run that is about them (`ProgramsTypeCorrect`, `ProgramsKeepTheirPromises`), and implies the specification of
each program by itself (`ProgramsAreTheirSpecs`); of `DijkstraSpec` and `PingSpec` it does so but for their fairness, since a program
that is not started is under no obligation to run. Of `MCHomework`
itself nothing is proved: it adds three programs to choose from, whose theorems are in the modules of the
threaded simulations.

*What liveness rests on.* The liveness properties themselves need fairness and ENABLED; that steps are possible, and lead somewhere,
is proved:

- `SenderIsBounded` (for `SenderComesToEnd`): the tries left of all packets, with the place in the present one, is a count that every step
  of the sender lowers and no step of the receiver touches.
- `WindowsMove` (for `WindowsEnd`): the packet at the base can always be taken, so the one assumption on the medium, that it
  gets through some time, is enough.
- `SomebodyGoesOn` (for `StationsGetThrough`): no deadlock, with no help from spurious wakeups.
- `SearchComesToItsEnd` (for `PathFound`): a count of visits and of routers of the path goes down.
- `PingComesToRest` (for `PingSettles`): a packet counts by what it can still cause, an Echo Request more than a reply; deliveries, answers
  and losses lower the sum.

*Model-checked only:* liveness and everything with ENABLED (`StationsGetThrough`, `WindowsEnd`, `SenderComesToEnd`, `ReceiverEnds`,
`PathFound`, `PingSettles`, and the four properties of `license_restart`), which is out of the prover's reach. Every other property of the passing
runs is proved.

## 7. What is not modelled, and why

- Winsock: `recvfrom` of a UDP socket may fail with WSAECONNRESET after a datagram
  to a closed port; then a receive without a timeout would return. `QuitExits` allows
  for the worse case. Failures of `socket`, `bind` and `WSAStartup` at the start of a program
  end it before there is any state.
- Datagrams over the loopback are not reordered or repeated.
- Signed overflow of `dist + weight`, and negative weights, in Dijkstra.
- `homework2/modulation.cpp` and `homework7/nyquist_sampling.cpp` are floating-point functions of sines without state:
  waveforms for bits, with no demodulator in the repository to compare them with, and
  the error of a reconstruction by sinc interpolation. TLC has neither real numbers nor sines.
  `homework5/ethernet_frame_header.cpp` is a type.
- What the NTP server would do after `build_ntp_reply`: it is never reached.
- Null pointers and negative lengths as arguments of the library functions of `homework2`, `4`, `5` and `8`:
  each returns its error value at once.
- How a colour looks: OpenCV takes the palette's triples as blue, green, red, so that 6 is shown cyan and 7 yellow, not as
  `solution.py:22-23` says; both sides use the same triples, and the model has nothing else.
- `send` of the colour codes shows an image and waits.
- The contents of ping packets (id, sequence number, payload): the client compares neither with
  its own, so they make no difference to what it does.
