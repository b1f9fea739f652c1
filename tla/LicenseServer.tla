----------------------------- MODULE LicenseServer -----------------------------
(***************************************************************************)
(* The licence server of lab5/server.cpp.                                  *)
(*                                                                         *)
(* Two threads share the ticket table under the critical section g_cs: the *)
(* main thread receives a datagram, handles it and sends the response; the *)
(* reclaim thread wakes up every CHECK_INTERVAL seconds and erases the     *)
(* tickets whose process has died.  Everything is in memory, so a crash of *)
(* the server forgets every ticket.                                        *)
(*                                                                         *)
(* The environment of this module is any set of processes that speak the   *)
(* protocol; LicenseSystem composes the server with the real client.       *)
(***************************************************************************)
EXTENDS Naturals, FiniteSets, Sequences, Functions

CONSTANTS
  Proc,        \* instances of the licensed program, one per execution
  PidOf,       \* the process id of each instance; ids are reused after a death
  MaxUsers,    \* MAX_USERS
  QueueCap,    \* datagrams the server's socket buffers before it drops one
  MaxCrashes   \* bound: crashes of the server process in a behaviour

ASSUME ProcAssumption == Proc # {} /\ IsFiniteSet(Proc)
ASSUME MaxUsersAssumption == MaxUsers \in Nat \ {0}
ASSUME BoundsAssumption == QueueCap \in Nat \ {0} /\ MaxCrashes \in Nat

VARIABLES
  life,         \* "new", "alive" or "dead", for each instance
  up,           \* the server process is running
  crashes,      \* how often it has crashed
  inQ,          \* datagrams in the server's socket buffer
  mainPc,       \* main thread: "recv", "handle" or "send"
  request,      \* the datagram being handled
  response,     \* the response to it
  tickets,      \* g_tickets; the code maps an id to PidOf[tickets[id]]
  ticketCount,  \* g_ticketCount
  reclaimPc,    \* reclaim thread: "sleep", or "scan" while it holds g_cs
  toCheck,      \* ids its loop over g_tickets has not visited yet
  toRemove      \* the local vector toRemove

tableVars == <<tickets, ticketCount>>
reclaimVars == <<reclaimPc, toCheck, toRemove>>
mainVars == <<mainPc, request, response>>
serverVars == <<life, up, crashes, inQ, mainVars, tableVars, reclaimVars>>

-----------------------------------------------------------------------------
(* A ticket is the number after the '.' of "pid.id"; 0 stands for a string *)
(* with no '.', which the server cannot take apart.  The pid in a HELO or  *)
(* VALID is the sender's own.  OTHER is any request the server does not know. *)
Datagram ==
  [op : {"GBYE", "VALID"}, from : Proc, ticket : 0..MaxUsers]
    \cup [op : {"HELO", "OTHER"}, from : Proc, ticket : {0}]

NoRequest == [op |-> "NONE"]

(* FULL is "FAIL no tickets", INVALID "FAIL invalid", UNKNOWN "FAIL unknown". *)
ResponseKind == {"TICK", "FULL", "THNX", "GOOD", "INVALID", "UNKNOWN"}
Response == [kind : ResponseKind, ticket : 0..MaxUsers]
NoResponse == [kind |-> "NONE", ticket |-> 0]
Answer(k) == [kind |-> k, ticket |-> 0]

(* Slip: GetExitCodeProcess forgotten, so a process that has exited counts. *)
HasBeenStarted(pid) == \E p \in Proc : PidOf[p] = pid /\ life[p] # "new"

(* The process id names a running process, whichever that is now. *)
IsProcessAlive(pid) == \E p \in Proc : PidOf[p] = pid /\ life[p] = "alive"

(* Only the reclaim thread holds g_cs across steps of the model: the main  *)
(* thread's critical sections are single steps.                            *)
CsLeftBeforeErasing == reclaimPc = "sleep" \/ toCheck = {}  \* slip
CsFree == reclaimPc = "sleep"

ServerInit ==
  /\ life = [p \in Proc |-> "new"]
  /\ up = TRUE
  /\ crashes = 0
  /\ inQ = << >>
  /\ mainPc = "recv" /\ request = NoRequest /\ response = NoResponse
  /\ tickets = << >> /\ ticketCount = 0
  /\ reclaimPc = "sleep" /\ toCheck = {} /\ toRemove = {}

-----------------------------------------------------------------------------
(* The environment: processes, their datagrams, crashes of the server.     *)

ProcessStart(p) ==
  /\ life[p] = "new"
  /\ ~IsProcessAlive(PidOf[p])
  /\ life' = [life EXCEPT ![p] = "alive"]
  /\ UNCHANGED <<up, crashes, inQ, mainVars, tableVars, reclaimVars>>

ProcessExit(p) ==
  /\ life[p] = "alive"
  /\ life' = [life EXCEPT ![p] = "dead"]
  /\ UNCHANGED <<up, crashes, inQ, mainVars, tableVars, reclaimVars>>

(* A datagram reaches the server's socket; one that is lost never does. *)
Arrive(m) ==
  /\ up
  /\ life[m.from] = "alive"
  /\ Len(inQ) < QueueCap
  /\ inQ' = Append(inQ, m)
  /\ UNCHANGED <<life, up, crashes, mainVars, tableVars, reclaimVars>>

ServerCrash ==
  /\ up
  /\ crashes < MaxCrashes
  /\ up' = FALSE
  /\ crashes' = crashes + 1
  /\ inQ' = << >>
  /\ mainPc' = "recv" /\ request' = NoRequest /\ response' = NoResponse
  /\ tickets' = << >> /\ ticketCount' = 0
  /\ reclaimPc' = "sleep" /\ toCheck' = {} /\ toRemove' = {}
  /\ UNCHANGED life

ServerStart ==
  /\ ~up
  /\ up' = TRUE
  /\ UNCHANGED <<life, crashes, inQ, mainVars, tableVars, reclaimVars>>

-----------------------------------------------------------------------------
(* The main thread.                                                        *)

Recv ==
  /\ up
  /\ mainPc = "recv"
  /\ inQ # << >>
  /\ request' = Head(inQ)
  /\ inQ' = Tail(inQ)
  /\ mainPc' = "handle"
  /\ UNCHANGED <<life, up, crashes, response, tableVars, reclaimVars>>

(* What every branch of the handler has in common. *)
Handling(op) ==
  /\ up
  /\ mainPc = "handle"
  /\ request.op = op
  /\ mainPc' = "send"
  /\ UNCHANGED <<life, up, crashes, inQ, request, reclaimVars>>

LicenceLeftOffByOne == ticketCount <= MaxUsers  \* slip
LicenceLeft == ticketCount < MaxUsers

NextAfterCount(id) == id = ticketCount + 1  \* slip: the count as the next id

(* The first id, counting up from 1, that is not in the table. *)
IsLowestFree(id) ==
  /\ id \notin DOMAIN tickets
  /\ \A j \in 1..(id - 1) : j \in DOMAIN tickets

GrantHelo ==
  /\ Handling("HELO")
  /\ CsFree
  /\ LicenceLeft
  /\ \E id \in 1..(Cardinality(DOMAIN tickets) + 1) :
        /\ IsLowestFree(id)
        /\ tickets' = [t \in DOMAIN tickets \cup {id} |->
                         IF t = id THEN request.from ELSE tickets[t]]
        /\ response' = [kind |-> "TICK", ticket |-> id]
  /\ ticketCount' = ticketCount + 1

DenyHelo ==
  /\ Handling("HELO")
  /\ CsFree
  /\ ~LicenceLeft
  /\ response' = Answer("FULL")
  /\ UNCHANGED tableVars

(* The id alone selects the ticket: the pid before the '.' is not looked at. *)
GbyeRelease ==
  /\ Handling("GBYE")
  /\ CsFree
  /\ request.ticket \in DOMAIN tickets
  /\ tickets' = Restrict(tickets, DOMAIN tickets \ {request.ticket})
  /\ ticketCount' = ticketCount - 1
  /\ response' = Answer("THNX")

GbyeUnknown ==
  /\ Handling("GBYE")
  /\ CsFree
  /\ request.ticket # 0
  /\ request.ticket \notin DOMAIN tickets
  /\ response' = Answer("INVALID")
  /\ UNCHANGED tableVars

IsHeldBySender ==
  /\ request.ticket \in DOMAIN tickets
  /\ PidOf[tickets[request.ticket]] = PidOf[request.from]

ValidCheck ==
  /\ Handling("VALID")
  /\ CsFree
  /\ request.ticket # 0
  /\ response' = IF IsHeldBySender THEN Answer("GOOD") ELSE Answer("INVALID")
  /\ UNCHANGED tableVars

(* A ticket with no '.' is refused without entering g_cs. *)
Garbled ==
  /\ Handling("GBYE") \/ Handling("VALID")
  /\ request.ticket = 0
  /\ response' = Answer("INVALID")
  /\ UNCHANGED tableVars

UnknownRequest ==
  /\ Handling("OTHER")
  /\ response' = Answer("UNKNOWN")
  /\ UNCHANGED tableVars

Handle ==
  \/ GrantHelo \/ DenyHelo
  \/ GbyeRelease \/ GbyeUnknown
  \/ ValidCheck
  \/ Garbled \/ UnknownRequest

(* sendto; what becomes of the datagram is up to the network. *)
Reply ==
  /\ up
  /\ mainPc = "send"
  /\ mainPc' = "recv" /\ request' = NoRequest /\ response' = NoResponse
  /\ UNCHANGED <<life, up, crashes, inQ, tableVars, reclaimVars>>

-----------------------------------------------------------------------------
(* The reclaim thread: ReclaimTickets holds g_cs from entry to the erasing, *)
(* while processes keep starting and dying around it.                       *)

ReclaimEnter ==
  /\ up
  /\ CsFree
  /\ reclaimPc' = "scan"
  /\ toCheck' = DOMAIN tickets
  /\ toRemove' = {}
  /\ UNCHANGED <<life, up, crashes, inQ, mainVars, tableVars>>

(* One iteration of the loop over g_tickets, which is ordered by id. *)
ReclaimCheck ==
  /\ up
  /\ reclaimPc = "scan"
  /\ \E t \in toCheck :
        /\ \A u \in toCheck : t <= u
        /\ toCheck' = toCheck \ {t}
        /\ toRemove' = IF IsProcessAlive(PidOf[tickets[t]])
                         THEN toRemove ELSE toRemove \cup {t}
  /\ UNCHANGED <<life, up, crashes, inQ, mainVars, tableVars, reclaimPc>>

CountedOnce == IF toRemove = {} THEN ticketCount ELSE ticketCount - 1  \* slip
CountAfterErase == ticketCount - Cardinality(toRemove)

(* Slip: g_cs is not left when there was nothing to erase. *)
EraseNeverLeaves ==
  /\ up /\ reclaimPc = "scan" /\ toCheck = {} /\ toRemove # {}
  /\ tickets' = Restrict(tickets, DOMAIN tickets \ toRemove)
  /\ ticketCount' = CountAfterErase
  /\ reclaimPc' = "sleep" /\ toRemove' = {}
  /\ UNCHANGED <<life, up, crashes, inQ, mainVars, toCheck>>

ReclaimErase ==
  /\ up
  /\ reclaimPc = "scan"
  /\ toCheck = {}
  /\ tickets' = Restrict(tickets, DOMAIN tickets \ toRemove)
  /\ ticketCount' = CountAfterErase
  /\ reclaimPc' = "sleep"
  /\ toRemove' = {}
  /\ UNCHANGED <<life, up, crashes, inQ, mainVars, toCheck>>

Reclaim == ReclaimEnter \/ ReclaimCheck \/ ReclaimErase

-----------------------------------------------------------------------------
Environment ==
  \/ \E p \in Proc : ProcessStart(p) \/ ProcessExit(p)
  \/ \E m \in Datagram : Arrive(m)
  \/ ServerCrash
  \/ ServerStart

ServerNext == Environment \/ Recv \/ Handle \/ Reply \/ Reclaim

ServerSpec == ServerInit /\ [][ServerNext]_serverVars

-----------------------------------------------------------------------------
(* Properties.                                                             *)

OutsideTypeOK ==
  /\ life \in [Proc -> {"new", "alive", "dead"}]
  /\ up \in BOOLEAN
  /\ crashes \in 0..MaxCrashes
  /\ inQ \in Seq(Datagram) /\ Len(inQ) <= QueueCap
MainTypeOK ==
  /\ mainPc \in {"recv", "handle", "send"}
  /\ request \in Datagram \cup {NoRequest}
  /\ response \in Response \cup {NoResponse}
TableTypeOK ==
  /\ DOMAIN tickets \subseteq 1..MaxUsers
  /\ tickets \in [DOMAIN tickets -> Proc]
  /\ ticketCount \in 0..MaxUsers
ReclaimTypeOK ==
  /\ reclaimPc \in {"sleep", "scan"}
  /\ toCheck \subseteq 1..MaxUsers
  /\ toRemove \subseteq 1..MaxUsers

(* Every variable has its type; in particular the table never holds more   *)
(* than MaxUsers tickets and g_ticketCount stays between 0 and MaxUsers.   *)
TypeOK == OutsideTypeOK /\ MainTypeOK /\ TableTypeOK /\ ReclaimTypeOK

(* The response is there exactly when it is about to be sent, and the      *)
(* request exactly while it is being served.                               *)
InService ==
  /\ (mainPc = "recv") <=> (request = NoRequest)
  /\ (mainPc # "send") <=> (response = NoResponse)

(* g_ticketCount, kept by hand at three places, is the size of g_tickets.  *)
CountMatchesTable == ticketCount = Cardinality(DOMAIN tickets)

(* Under g_cs the table cannot move below the scan: the ids it has still   *)
(* to visit and those it will erase stay in the table, and are different.  *)
ScanStaysInTable ==
  /\ toCheck \cup toRemove \subseteq DOMAIN tickets
  /\ toCheck \cap toRemove = {}
  /\ reclaimPc = "sleep" => toCheck = {} /\ toRemove = {}

(* A ticket marked for erasing belongs to a dead instance, even when its   *)
(* process id is in use again by the time the ticket is erased.            *)
OnlyDeadMarked == \A t \in toRemove : life[tickets[t]] = "dead"

(* Whoever has a ticket, or a datagram in the server, has been started.    *)
Started(p) == life[p] # "new"
SendersStarted ==
  /\ \A t \in DOMAIN tickets : Started(tickets[t])
  /\ \A i \in 1..Len(inQ) : Started(inQ[i].from)
  /\ request # NoRequest => Started(request.from)

(* The inductive invariant of the server: the number of licences is never  *)
(* exceeded because the count that admits a user is the size of the table. *)
ServerInv ==
  /\ InService
  /\ CountMatchesTable
  /\ ScanStaysInTable
  /\ OnlyDeadMarked
  /\ SendersStarted

(* Between the end of the handler's critical section and sendto the reclaim *)
(* thread may run, but what the response says of the table stays true as   *)
(* long as the client lives: a TICK names a ticket that is the client's,   *)
(* a GOOD a ticket that is still held under the client's process id.       *)
ResponseStillTrue ==
  mainPc = "send" /\ life[request.from] = "alive" =>
    /\ response.kind = "TICK" =>
         /\ response.ticket \in DOMAIN tickets
         /\ tickets[response.ticket] = request.from
    /\ response.kind = "GOOD" => IsHeldBySender

(* A live process loses its ticket only to a GBYE that names it or to a    *)
(* crash of the server; the reclaim thread never takes it, whatever dies,  *)
(* starts or asks for a ticket while it scans (server.cpp: "automatic      *)
(* recycling of tickets that are no longer in force").                     *)
Loses(t) == t \in DOMAIN tickets /\ (t \in DOMAIN tickets' => tickets'[t] # tickets[t])
LiveTicketKept ==
  [][\A t \in DOMAIN tickets :
       Loses(t) /\ life[tickets[t]] = "alive" =>
         \/ request # NoRequest /\ request.op = "GBYE" /\ request.ticket = t
         \/ ~up']_serverVars

(* The server implements the pool of licences: the scan and the erasing of *)
(* the reclaim thread look like one step, a user is admitted whenever a    *)
(* licence is unused and turned away only when none is.                    *)
Pool == INSTANCE LicensePool
          WITH grants <- tickets, query <- request, answer <- response,
               NoQuery <- NoRequest, NoAnswer <- NoResponse
ImplementsPool == Pool!PoolSpec

(* The ticket of a dead process does not stay: it is reclaimed unless the  *)
(* operating system gives the process id to another process (then the      *)
(* server takes the ticket for that one's) or the server goes down.        *)
DeadTicketReclaimed ==
  \A p \in Proc, t \in 1..MaxUsers :
    (t \in DOMAIN tickets /\ tickets[t] = p /\ life[p] = "dead")
      ~> (\/ t \notin DOMAIN tickets
          \/ tickets[t] # p
          \/ \E q \in Proc : PidOf[q] = PidOf[p] /\ life[q] = "alive")

(* The main thread gets through its handler: neither it nor the reclaim    *)
(* thread waits for g_cs forever, and every request handled is answered.   *)
RequestAnswered == mainPc = "handle" ~> mainPc = "recv"
=============================================================================
