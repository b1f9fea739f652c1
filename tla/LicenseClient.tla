----------------------------- MODULE LicenseClient -----------------------------
(***************************************************************************)
(* The licensed program of lab5/client.cpp, one instance of it per member  *)
(* of Proc.  Its main thread gets a ticket, runs until 'q' is pressed and   *)
(* gives the ticket back; its heartbeat thread has the ticket confirmed    *)
(* every HEARTBEAT_INTERVAL seconds and asks for another when it is not.   *)
(*                                                                         *)
(* Both threads use one socket, one receive timeout, g_ticket and          *)
(* g_hasTicket without any lock, and a response is taken for the answer to *)
(* whatever the thread that receives it has asked last.  A step is one     *)
(* access to what the threads share, or several that no step of the other  *)
(* thread can tell from one (sendto and the setsockopt after it; the       *)
(* return of recvfrom, the setsockopt after it and what is done with the   *)
(* response).                                                              *)
(***************************************************************************)
EXTENDS LicenseServer

CONSTANTS
  InboxCap,  \* responses a client's socket buffers before it drops one
  MaxLate    \* bound: receive timeouts that expire before a late answer

ASSUME ClientBoundsAssumption == InboxCap \in Nat \ {0} /\ MaxLate \in Nat

VARIABLES
  at,         \* where each of an instance's threads is
  doing,      \* the request each thread is making: its SendRequest argument
  ticket,     \* g_ticket: its number, 0 if it holds none
  fresh,      \* the ticket the heartbeat thread is about to store
  hasTicket,  \* g_hasTicket
  finite,     \* SO_RCVTIMEO of the socket is 2000 ms, not 0 (no timeout)
  endless,    \* threads whose recvfrom began without a timeout
  inbox,      \* responses in the socket's buffer
  late        \* timeouts so far that an answer was still to follow

flagVars == <<ticket, fresh, hasTicket>>
socketVars == <<finite, endless, inbox, late>>
clientVars == <<at, doing, flagVars, socketVars>>
systemVars == <<serverVars, clientVars>>

-----------------------------------------------------------------------------
Thread == {"main", "hb"}
MainAt == {"off", "send", "sent", "wait", "run", "quit", "exit"}
HbAt == {"off", "sleep", "send", "sent", "wait", "store", "end"}

NoRequests == [main |-> "NONE", hb |-> "NONE"]
NotRunning == [main |-> "off", hb |-> "off"]

ClientInit ==
  /\ at = [p \in Proc |-> NotRunning]
  /\ doing = [p \in Proc |-> NoRequests]
  /\ ticket = [p \in Proc |-> 0] /\ fresh = [p \in Proc |-> 0]
  /\ hasTicket = [p \in Proc |-> FALSE]
  /\ finite = [p \in Proc |-> FALSE]
  /\ endless = [p \in Proc |-> {}]
  /\ inbox = [p \in Proc |-> << >>]
  /\ late = 0

(* g_running, as the heartbeat thread sees it. *)
Running(p) == at[p].main = "run"
Registered(p) == \E t \in DOMAIN tickets : tickets[t] = p

Goto(p, th, loc) == at' = [at EXCEPT ![p][th] = loc]
Call(p, th, op) ==
  /\ at' = [at EXCEPT ![p][th] = "send"]
  /\ doing' = [doing EXCEPT ![p][th] = op]

-----------------------------------------------------------------------------
(* The process.                                                            *)

Start(p) ==
  /\ ProcessStart(p)
  /\ Call(p, "main", "HELO")
  /\ UNCHANGED <<flagVars, socketVars>>

(* The memory and the socket of a process go with it. *)
Die(p) ==
  /\ ProcessExit(p)
  /\ at' = [at EXCEPT ![p] = NotRunning]
  /\ doing' = [doing EXCEPT ![p] = NoRequests]
  /\ ticket' = [ticket EXCEPT ![p] = 0] /\ fresh' = [fresh EXCEPT ![p] = 0]
  /\ hasTicket' = [hasTicket EXCEPT ![p] = FALSE]
  /\ finite' = [finite EXCEPT ![p] = FALSE]
  /\ endless' = [endless EXCEPT ![p] = {}]
  /\ inbox' = [inbox EXCEPT ![p] = << >>]
  /\ UNCHANGED late

(* The user presses 'q': g_running becomes false. *)
PressQ(p) ==
  /\ at[p].main = "run"
  /\ Goto(p, "main", "quit")
  /\ UNCHANGED <<serverVars, doing, flagVars, socketVars>>

(* ReleaseTicket looks at g_hasTicket before it reads g_ticket. *)
DecideRelease(p) ==
  /\ at[p].main = "quit"
  /\ IF hasTicket[p] THEN Call(p, "main", "GBYE")
                     ELSE Goto(p, "main", "exit") /\ UNCHANGED doing
  /\ UNCHANGED <<serverVars, flagVars, socketVars>>

Exit(p) == at[p].main = "exit" /\ Die(p)

-----------------------------------------------------------------------------
(* SendRequest.                                                            *)

(* On the loopback a datagram is lost when nobody has the port open or the *)
(* socket's buffer is full.                                                *)
Transmit(p, op, t) ==
  \/ Arrive([op |-> op, from |-> p, ticket |-> t])
  \/ (~up \/ Len(inQ) = QueueCap) /\ UNCHANGED serverVars

(* g_ticket is a std::string that the heartbeat thread may be assigning    *)
(* while the main thread reads it: the old value, the new one or neither.  *)
TicketsRead(p) ==
  IF at[p].hb = "store" THEN {ticket[p], 0, fresh[p]} ELSE {ticket[p]}

TransmittedNoTimeout(p, th) ==  \* slip: the timeout is not set
  /\ Goto(p, th, "sent")
  /\ UNCHANGED <<doing, flagVars, finite, endless, inbox, late>>

Transmitted(p, th) ==
  /\ Goto(p, th, "sent")
  /\ finite' = [finite EXCEPT ![p] = TRUE]
  /\ UNCHANGED <<doing, flagVars, endless, inbox, late>>

SendHelo(p, th) ==
  /\ at[p][th] = "send" /\ doing[p][th] = "HELO"
  /\ Transmit(p, "HELO", 0)
  /\ Transmitted(p, th)

SendBye(p) ==
  /\ at[p].main = "send" /\ doing[p].main = "GBYE"
  /\ \E t \in TicketsRead(p) : Transmit(p, "GBYE", t)
  /\ Transmitted(p, "main")

SendValid(p) ==
  /\ at[p].hb = "send" /\ doing[p].hb = "VALID"
  /\ hasTicket[p]
  /\ Transmit(p, "VALID", ticket[p])
  /\ Transmitted(p, "hb")

(* recvfrom takes the socket's timeout as it is when the call begins: the  *)
(* other thread may have set it back to 0 by then.                         *)
BeginRecv(p, th) ==
  /\ at[p][th] = "sent"
  /\ Goto(p, th, "wait")
  /\ endless' = IF finite[p] THEN endless
                             ELSE [endless EXCEPT ![p] = @ \cup {th}]
  /\ UNCHANGED <<serverVars, doing, flagVars, finite, inbox, late>>

(* The head of the heartbeat loop. *)
HbLoop(p) == IF Running(p) THEN "sleep" ELSE "end"

(* The callers of SendRequest: GetTicket in either thread, ReleaseTicket,  *)
(* ValidateTicket.  NONE is the empty string of a receive that failed.     *)
GotTicket(p, r) ==
  /\ at[p].hb = "off"
  /\ at' = [at EXCEPT ![p] = [main |-> "run", hb |-> "sleep"]]
  /\ ticket' = [ticket EXCEPT ![p] = r.ticket]
  /\ hasTicket' = [hasTicket EXCEPT ![p] = TRUE]
  /\ UNCHANGED <<doing, fresh>>

GotFresh(p, r) ==
  /\ Goto(p, "hb", "store")
  /\ fresh' = [fresh EXCEPT ![p] = r.ticket]
  /\ UNCHANGED <<doing, ticket, hasTicket>>

HeloAnswered(p, th, r) ==
  IF r.kind # "TICK"
    THEN Goto(p, th, "send") /\ UNCHANGED <<doing, flagVars>>
    ELSE IF th = "main" THEN GotTicket(p, r) ELSE GotFresh(p, r)

(* Slip: GBYE is repeated until the server says THNX. *)
ByeRepeated(p, r) ==
  /\ Goto(p, "main", IF r.kind = "THNX" THEN "exit" ELSE "send")
  /\ UNCHANGED <<doing, flagVars>>

(* Whatever the response, or without one, the program goes on to exit. *)
ByeAnswered(p, r) ==
  /\ Goto(p, "main", "exit")
  /\ hasTicket' = [hasTicket EXCEPT ![p] = FALSE]
  /\ UNCHANGED <<doing, ticket, fresh>>

Reacquire(p) ==
  /\ Call(p, "hb", "HELO")
  /\ hasTicket' = [hasTicket EXCEPT ![p] = FALSE]
  /\ UNCHANGED <<ticket, fresh>>

SilenceIsGood(r) == r.kind \in {"GOOD", "NONE"}  \* slip
TickIsGood(r) == r.kind = "TICK"                 \* slip
Confirms(r) == r.kind = "GOOD"

ValidAnswered(p, r) ==
  IF Confirms(r)
    THEN Goto(p, "hb", HbLoop(p)) /\ UNCHANGED <<doing, flagVars>>
    ELSE Reacquire(p)

Return(p, th, r) ==
  /\ \/ doing[p][th] = "HELO" /\ HeloAnswered(p, th, r)
     \/ doing[p][th] = "GBYE" /\ ByeAnswered(p, r)
     \/ doing[p][th] = "VALID" /\ ValidAnswered(p, r)
  /\ finite' = [finite EXCEPT ![p] = FALSE]
  /\ endless' = [endless EXCEPT ![p] = @ \ {th}]

Receive(p, th) ==
  /\ at[p][th] = "wait"
  /\ inbox[p] # << >>
  /\ Return(p, th, Head(inbox[p]))
  /\ inbox' = [inbox EXCEPT ![p] = Tail(@)]
  /\ UNCHANGED <<serverVars, late>>

(* A request of p is still in the server, so that an answer will follow. *)
InServer(p) ==
  \/ \E i \in 1..Len(inQ) : inQ[i].from = p
  \/ mainPc # "recv" /\ request.from = p

Timeout(p, th) ==
  /\ at[p][th] = "wait"
  /\ inbox[p] = << >>
  /\ th \notin endless[p]
  /\ IF InServer(p) THEN late < MaxLate /\ late' = late + 1 ELSE UNCHANGED late
  /\ Return(p, th, NoResponse)
  /\ UNCHANGED <<serverVars, inbox>>

-----------------------------------------------------------------------------
(* The heartbeat thread.                                                   *)

Wake(p) ==
  /\ at[p].hb = "sleep"
  /\ IF hasTicket[p] THEN Call(p, "hb", "VALID")
                     ELSE Goto(p, "hb", HbLoop(p)) /\ UNCHANGED doing
  /\ UNCHANGED <<serverVars, flagVars, socketVars>>

(* g_hasTicket was reset by ReleaseTicket since the loop looked at it:     *)
(* ValidateTicket returns false and the thread of a program that quits     *)
(* goes on to ask for a ticket.                                            *)
ValidateNothing(p) ==
  /\ at[p].hb = "send" /\ doing[p].hb = "VALID"
  /\ ~hasTicket[p]
  /\ Reacquire(p)
  /\ UNCHANGED <<serverVars, socketVars>>

Store(p) ==
  /\ at[p].hb = "store"
  /\ ticket' = [ticket EXCEPT ![p] = fresh[p]]
  /\ hasTicket' = [hasTicket EXCEPT ![p] = TRUE]
  /\ Goto(p, "hb", HbLoop(p))
  /\ fresh' = [fresh EXCEPT ![p] = 0]
  /\ UNCHANGED <<serverVars, doing, socketVars>>

-----------------------------------------------------------------------------
MainStep(p) ==
  \/ DecideRelease(p) \/ Exit(p)
  \/ SendHelo(p, "main") \/ SendBye(p)
  \/ BeginRecv(p, "main") \/ Receive(p, "main") \/ Timeout(p, "main")

HbStep(p) ==
  \/ Wake(p) \/ SendValid(p) \/ ValidateNothing(p) \/ Store(p)
  \/ SendHelo(p, "hb")
  \/ BeginRecv(p, "hb") \/ Receive(p, "hb") \/ Timeout(p, "hb")
=============================================================================
