-------------------------- MODULE LicenseSystemProofs --------------------------
(***************************************************************************)
(* Proofs about the licence server with its real clients, for every set of *)
(* programs, every way process ids are reused, every number of licences,   *)
(* crashes and late answers.  The composed system is first shown to be a   *)
(* behaviour of the server alone, so that what LicenseServerProofs proves  *)
(* of the server holds in the system as well.                              *)
(***************************************************************************)
EXTENDS LicenseSystem, LicenseServerProofs

USE DEF systemVars, clientVars, flagVars, socketVars,
        serverVars, mainVars, tableVars, reclaimVars

(* The server's inductive invariant with the types of the clients' memory. *)
TypedSystem == Inv /\ ClientTypeOK

-----------------------------------------------------------------------------
(* Steps of the server's own, as the system takes them.                    *)

(* Moving one thread of p leaves the other thread and the other programs   *)
(* where they are.                                                         *)
LEMMA GotoMoves ==
  ASSUME ClientTypeOK, NEW p \in Proc, NEW th \in Thread, NEW loc,
         Goto(p, th, loc)
  PROVE  /\ at'[p][th] = loc
         /\ \A u \in Thread : u # th => at'[p][u] = at[p][u]
         /\ \A q \in Proc : q # p => at'[q] = at[q]
         /\ (loc \in IF th = "main" THEN MainAt ELSE HbAt)
              => at' \in [Proc -> [main : MainAt, hb : HbAt]]
<1> DEFINE Place == [main : MainAt, hb : HbAt]
<1>1. at \in [Proc -> Place] /\ at' = [at EXCEPT ![p] = [at[p] EXCEPT ![th] = loc]]
  BY DEF Goto, ClientTypeOK
<1>2. \A q \in Proc : q # p => at'[q] = at[q]
  BY <1>1
<1>3. at'[p] = [at[p] EXCEPT ![th] = loc] /\ at[p] \in Place
  BY <1>1
<1>4. at'[p][th] = loc /\ \A u \in Thread : u # th => at'[p][u] = at[p][u]
  BY <1>3 DEF Thread
<1>5. ASSUME loc \in IF th = "main" THEN MainAt ELSE HbAt
      PROVE  at' \in [Proc -> Place]
  <2> HIDE DEF Place
  <2>1. [at[p] EXCEPT ![th] = loc] \in Place
    BY <1>3, <1>5 DEF Place, Thread
  <2>2. QED
    BY <1>1, <2>1
<1>6. QED
  BY <1>2, <1>4, <1>5

LEMMA CallMoves ==
  ASSUME ClientTypeOK, NEW p \in Proc, NEW th \in Thread, NEW op,
         Call(p, th, op)
  PROVE  /\ Goto(p, th, "send")
         /\ doing'[p][th] = op
         /\ \A u \in Thread : u # th => doing'[p][u] = doing[p][u]
         /\ \A q \in Proc : q # p => doing'[q] = doing[q]
         /\ (op \in IF th = "main" THEN {"NONE", "HELO", "GBYE"}
                                   ELSE {"NONE", "HELO", "VALID"})
              => doing' \in [Proc -> [main : {"NONE", "HELO", "GBYE"},
                                      hb : {"NONE", "HELO", "VALID"}]]
<1> USE DEF Call, Goto, ClientTypeOK, Thread
<1>1. CASE th = "main"
  BY <1>1
<1>2. CASE th = "hb"
  BY <1>2
<1> QED BY <1>1, <1>2

(* A request as SendRequest puts it together is a datagram of the protocol, *)
(* also when g_ticket is read while the other thread assigns it.           *)
LEMMA RequestsAreDatagrams ==
  ASSUME ClientTypeOK, NEW p \in Proc
  PROVE  /\ [op |-> "HELO", from |-> p, ticket |-> 0] \in Datagram
         /\ \A t \in TicketsRead(p) \cup {ticket[p]} :
              /\ [op |-> "GBYE", from |-> p, ticket |-> t] \in Datagram
              /\ [op |-> "VALID", from |-> p, ticket |-> t] \in Datagram
BY MaxUsersAssumption DEF ClientTypeOK, TicketsRead, Datagram

LEMMA TransmitIsServer ==
  ASSUME NEW m \in Datagram, NEW p, NEW op, NEW t,
         m = [op |-> op, from |-> p, ticket |-> t], Transmit(p, op, t)
  PROVE  [ServerNext]_serverVars
BY DEF Transmit, ServerNext, Environment

(* Whatever the clients do, the server sees processes that start, exit and *)
(* send datagrams: each step of the system is one of the server's module.  *)
LEMMA StepIsServerStep ==
  ClientTypeOK /\ [Next]_systemVars => [ServerNext]_serverVars
<1> SUFFICES ASSUME ClientTypeOK, [Next]_systemVars PROVE [ServerNext]_serverVars
  OBVIOUS
<1>1. CASE ServerStep
  BY <1>1 DEF ServerStep, Respond, ServerNext
<1>2. CASE Fault
  BY <1>2 DEF Fault, Die, ServerNext, Environment
<1>3. ASSUME NEW p \in Proc, Start(p) \/ PressQ(p) PROVE [ServerNext]_serverVars
  BY <1>3 DEF Start, PressQ, ServerNext, Environment
<1>4. ASSUME NEW p \in Proc, MainStep(p) PROVE [ServerNext]_serverVars
  <2>1. CASE SendHelo(p, "main")
    BY <2>1, RequestsAreDatagrams, TransmitIsServer DEF SendHelo
  <2>2. CASE SendBye(p)
    BY <2>2, RequestsAreDatagrams, TransmitIsServer DEF SendBye
  <2>3. CASE Exit(p)
    BY <2>3 DEF Exit, Die, ServerNext, Environment
  <2> QED BY <1>4, <2>1, <2>2, <2>3
      DEF MainStep, DecideRelease, BeginRecv, Receive, Timeout
<1>5. ASSUME NEW p \in Proc, HbStep(p) PROVE [ServerNext]_serverVars
  <2>1. CASE SendHelo(p, "hb")
    BY <2>1, RequestsAreDatagrams, TransmitIsServer DEF SendHelo
  <2>2. CASE SendValid(p)
    BY <2>2, RequestsAreDatagrams, TransmitIsServer DEF SendValid
  <2> QED BY <1>5, <2>1, <2>2
      DEF HbStep, Wake, ValidateNothing, Store, BeginRecv, Receive, Timeout
<1>6. CASE UNCHANGED systemVars
  BY <1>6
<1> QED BY <1>1, <1>2, <1>3, <1>4, <1>5, <1>6 DEF Next

-----------------------------------------------------------------------------
(* Types of the clients' memory.                                           *)

(* What a program does leaves the memory of the other programs alone.      *)
FlagsUntouched(p) ==
  \A q \in Proc : q # p =>
    /\ at'[q] = at[q] /\ doing'[q] = doing[q]
    /\ ticket'[q] = ticket[q] /\ fresh'[q] = fresh[q] /\ hasTicket'[q] = hasTicket[q]

SocketUntouched(p) ==
  \A q \in Proc : q # p =>
    finite'[q] = finite[q] /\ endless'[q] = endless[q] /\ inbox'[q] = inbox[q]

OthersUntouched(p) == FlagsUntouched(p) /\ SocketUntouched(p)

FlagTypes ==
  /\ at \in [Proc -> [main : MainAt, hb : HbAt]]
  /\ doing \in [Proc -> [main : {"NONE", "HELO", "GBYE"}, hb : {"NONE", "HELO", "VALID"}]]
  /\ ticket \in [Proc -> 0..MaxUsers] /\ fresh \in [Proc -> 0..MaxUsers]
  /\ hasTicket \in [Proc -> BOOLEAN]

SocketTypes ==
  /\ finite \in [Proc -> BOOLEAN]
  /\ endless \in [Proc -> SUBSET Thread]
  /\ inbox \in [Proc -> Seq(Response)]
  /\ \A p \in Proc : Len(inbox[p]) <= InboxCap
  /\ late \in 0..MaxLate

(* The code after a receive, for an answer or for none, in either thread.  *)
LEMMA AnswerTypes ==
  ASSUME ClientTypeOK, NEW p \in Proc, NEW th \in Thread,
         NEW r \in Response \cup {NoResponse}, Return(p, th, r)
  PROVE  FlagTypes' /\ FlagsUntouched(p)
<1>1. /\ th = "main" => doing[p][th] # "VALID"
      /\ th = "hb" => doing[p][th] # "GBYE"
  BY DEF ClientTypeOK
<1>2. r.kind = "TICK" => r.ticket \in 0..MaxUsers
  BY DEF Response, NoResponse
<1>3. CASE doing[p][th] = "HELO" /\ r.kind # "TICK" /\ HeloAnswered(p, th, r)
  <2>1. Goto(p, th, "send") /\ UNCHANGED <<doing, flagVars>>
    BY <1>3 DEF HeloAnswered
  <2>2. "send" \in MainAt /\ "send" \in HbAt
    BY DEF MainAt, HbAt
  <2> QED BY <2>1, <2>2, GotoMoves DEF ClientTypeOK, FlagTypes, FlagsUntouched
<1>4. CASE doing[p][th] = "HELO" /\ r.kind = "TICK" /\ HeloAnswered(p, th, r)
  <2>1. CASE th = "main"
    <3>1. GotTicket(p, r)
      BY <1>4, <2>1 DEF HeloAnswered
    <3>2. /\ at' \in [Proc -> [main : MainAt, hb : HbAt]]
          /\ \A q \in Proc : q # p => at'[q] = at[q]
      BY <3>1 DEF GotTicket, ClientTypeOK, MainAt, HbAt
    <3>3. /\ ticket' \in [Proc -> 0..MaxUsers] /\ hasTicket' \in [Proc -> BOOLEAN]
          /\ \A q \in Proc : q # p => ticket'[q] = ticket[q] /\ hasTicket'[q] = hasTicket[q]
      BY <1>2, <1>4, <3>1 DEF GotTicket, ClientTypeOK
    <3> QED BY <3>1, <3>2, <3>3 DEF GotTicket, ClientTypeOK, FlagTypes, FlagsUntouched
  <2>2. CASE th = "hb"
    <3>1. Goto(p, "hb", "store") /\ UNCHANGED <<doing, ticket, hasTicket>>
          /\ fresh' = [fresh EXCEPT ![p] = r.ticket]
      BY <1>4, <2>2 DEF HeloAnswered, GotFresh
    <3>2. "store" \in HbAt
      BY DEF HbAt
    <3> QED BY <1>2, <1>4, <2>2, <3>1, <3>2, GotoMoves
        DEF ClientTypeOK, FlagTypes, FlagsUntouched
  <2> QED BY <2>1, <2>2 DEF Thread
<1>5. CASE doing[p][th] = "GBYE" /\ ByeAnswered(p, r)
  <2>1. Goto(p, "main", "exit") /\ "exit" \in MainAt /\ "main" \in Thread
    BY <1>5 DEF ByeAnswered, MainAt, Thread
  <2> QED BY <1>5, <2>1, GotoMoves DEF ByeAnswered, ClientTypeOK, FlagTypes, FlagsUntouched
<1>6. CASE doing[p][th] = "VALID" /\ ValidAnswered(p, r)
  <2>1. "hb" \in Thread /\ HbLoop(p) \in HbAt /\ "send" \in HbAt
    BY DEF HbLoop, HbAt, Thread
  <2>2. CASE Confirms(r)
    <3>1. Goto(p, "hb", HbLoop(p)) /\ UNCHANGED <<doing, flagVars>>
      BY <1>6, <2>2 DEF ValidAnswered
    <3> HIDE DEF HbLoop
    <3> QED BY <2>1, <3>1, GotoMoves DEF ClientTypeOK, FlagTypes, FlagsUntouched
  <2>3. CASE ~Confirms(r)
    <3>1. /\ Call(p, "hb", "HELO") /\ UNCHANGED <<ticket, fresh>>
          /\ hasTicket' = [hasTicket EXCEPT ![p] = FALSE]
      BY <1>6, <2>3 DEF ValidAnswered, Reacquire
    <3> QED BY <2>1, <3>1, GotoMoves, CallMoves
        DEF ClientTypeOK, FlagTypes, FlagsUntouched
  <2> QED BY <2>2, <2>3
<1> QED BY <1>3, <1>4, <1>5, <1>6 DEF Return

LEMMA StartTypes ==
  ASSUME ClientTypeOK, NEW p \in Proc, Start(p)
  PROVE  ClientTypeOK' /\ OthersUntouched(p)
<1>1. "main" \in Thread /\ "send" \in MainAt
  BY DEF Thread, MainAt
<1> QED BY <1>1, GotoMoves, CallMoves
    DEF Start, ClientTypeOK, OthersUntouched, FlagsUntouched, SocketUntouched

(* A process that ends takes its memory and its socket with it.            *)
LEMMA DieTypes ==
  ASSUME ClientTypeOK, NEW p \in Proc, Die(p)
  PROVE  ClientTypeOK' /\ OthersUntouched(p)
<1>1. NotRunning \in [main : MainAt, hb : HbAt]
      /\ NoRequests \in [main : {"NONE", "HELO", "GBYE"}, hb : {"NONE", "HELO", "VALID"}]
  BY DEF NotRunning, NoRequests, MainAt, HbAt
<1>2. 0 \in 0..MaxUsers /\ << >> \in Seq(Response) /\ Len(<< >>) <= InboxCap
  BY MaxUsersAssumption, ClientBoundsAssumption
<1>3. FlagTypes' /\ FlagsUntouched(p)
  BY <1>1, <1>2 DEF Die, ClientTypeOK, FlagTypes, FlagsUntouched
<1>4. SocketTypes' /\ SocketUntouched(p)
  BY <1>2 DEF Die, ClientTypeOK, SocketTypes, SocketUntouched
<1> QED BY <1>3, <1>4 DEF ClientTypeOK, FlagTypes, SocketTypes, OthersUntouched

LEMMA TransmittedTypes ==
  ASSUME ClientTypeOK, NEW p \in Proc, NEW th \in Thread, Transmitted(p, th)
  PROVE  ClientTypeOK' /\ OthersUntouched(p)
<1>1. "sent" \in MainAt \cap HbAt
  BY DEF MainAt, HbAt
<1> QED BY <1>1, GotoMoves DEF Transmitted, ClientTypeOK, OthersUntouched,
        FlagsUntouched, SocketUntouched

LEMMA BeginRecvTypes ==
  ASSUME ClientTypeOK, NEW p \in Proc, NEW th \in Thread, BeginRecv(p, th)
  PROVE  ClientTypeOK' /\ OthersUntouched(p)
<1>1. "wait" \in MainAt \cap HbAt
  BY DEF MainAt, HbAt
<1>2. /\ endless' \in [Proc -> SUBSET Thread]
      /\ \A q \in Proc : q # p => endless'[q] = endless[q]
  BY DEF BeginRecv, ClientTypeOK
<1>3. Goto(p, th, "wait") /\ UNCHANGED <<doing, flagVars, finite, inbox, late>>
  BY DEF BeginRecv
<1> QED BY <1>1, <1>2, <1>3, GotoMoves DEF ClientTypeOK, OthersUntouched,
        FlagsUntouched, SocketUntouched

LEMMA ReceiveTypes ==
  ASSUME ClientTypeOK, NEW p \in Proc, NEW th \in Thread, Receive(p, th)
  PROVE  ClientTypeOK' /\ OthersUntouched(p)
<1> DEFINE r == Head(inbox[p])
<1>1. r \in Response /\ Return(p, th, r)
  BY DEF Receive, ClientTypeOK
<1>2. FlagTypes' /\ FlagsUntouched(p)
  <2> HIDE DEF r
  <2> QED BY <1>1, AnswerTypes
<1>3. /\ inbox' \in [Proc -> Seq(Response)]
      /\ \A q \in Proc : Len(inbox'[q]) <= InboxCap /\ (q # p => inbox'[q] = inbox[q])
  BY ClientBoundsAssumption DEF Receive, ClientTypeOK
<1>4. /\ finite' \in [Proc -> BOOLEAN] /\ endless' \in [Proc -> SUBSET Thread]
      /\ \A q \in Proc : q # p => finite'[q] = finite[q] /\ endless'[q] = endless[q]
      /\ late' \in 0..MaxLate
  BY DEF Receive, Return, ClientTypeOK
<1> QED BY <1>2, <1>3, <1>4 DEF ClientTypeOK, FlagTypes, OthersUntouched, SocketUntouched

LEMMA TimeoutTypes ==
  ASSUME ClientTypeOK, NEW p \in Proc, NEW th \in Thread, Timeout(p, th)
  PROVE  ClientTypeOK' /\ OthersUntouched(p)
<1>1. FlagTypes' /\ FlagsUntouched(p)
  BY AnswerTypes DEF Timeout
<1>2. /\ finite' \in [Proc -> BOOLEAN] /\ endless' \in [Proc -> SUBSET Thread]
      /\ \A q \in Proc : q # p => finite'[q] = finite[q] /\ endless'[q] = endless[q]
  BY DEF Timeout, Return, ClientTypeOK
<1>3. late' \in 0..MaxLate /\ UNCHANGED inbox
  BY ClientBoundsAssumption DEF Timeout, ClientTypeOK
<1> QED BY <1>1, <1>2, <1>3 DEF ClientTypeOK, FlagTypes, OthersUntouched, SocketUntouched

LEMMA WakeTypes ==
  ASSUME ClientTypeOK, NEW p \in Proc, Wake(p) \/ ValidateNothing(p) \/ Store(p)
  PROVE  ClientTypeOK' /\ OthersUntouched(p)
<1>1. "hb" \in Thread /\ HbLoop(p) \in HbAt /\ "send" \in HbAt
  BY DEF HbLoop, HbAt, Thread
<1> HIDE DEF HbLoop
<1> SUFFICES FlagTypes' /\ FlagsUntouched(p)
  BY DEF Wake, ValidateNothing, Store, ClientTypeOK, FlagTypes, OthersUntouched, SocketUntouched
<1>2. CASE Wake(p)
  <2>1. CASE hasTicket[p]
    BY <1>1, <1>2, <2>1, GotoMoves, CallMoves DEF Wake, ClientTypeOK, FlagTypes, FlagsUntouched
  <2>2. CASE ~hasTicket[p]
    BY <1>1, <1>2, <2>2, GotoMoves DEF Wake, ClientTypeOK, FlagTypes, FlagsUntouched
  <2> QED BY <2>1, <2>2
<1>3. CASE ValidateNothing(p)
  BY <1>1, <1>3, GotoMoves, CallMoves
     DEF ValidateNothing, Reacquire, ClientTypeOK, FlagTypes, FlagsUntouched
<1>4. CASE Store(p)
  <2>1. Goto(p, "hb", HbLoop(p)) /\ UNCHANGED doing
    BY <1>4 DEF Store
  <2>2. /\ ticket' \in [Proc -> 0..MaxUsers] /\ fresh' \in [Proc -> 0..MaxUsers]
        /\ hasTicket' \in [Proc -> BOOLEAN]
        /\ \A q \in Proc : q # p =>
             ticket'[q] = ticket[q] /\ fresh'[q] = fresh[q] /\ hasTicket'[q] = hasTicket[q]
    BY <1>4, MaxUsersAssumption DEF Store, ClientTypeOK
  <2> QED BY <1>1, <2>1, <2>2, GotoMoves DEF ClientTypeOK, FlagTypes, FlagsUntouched
<1> QED BY <1>2, <1>3, <1>4

LEMMA QuitTypes ==
  ASSUME ClientTypeOK, NEW p \in Proc, PressQ(p) \/ DecideRelease(p)
  PROVE  ClientTypeOK' /\ OthersUntouched(p)
<1>1. "main" \in Thread /\ {"quit", "send", "exit"} \subseteq MainAt
  BY DEF MainAt, Thread
<1> SUFFICES FlagTypes' /\ FlagsUntouched(p)
  BY DEF PressQ, DecideRelease, ClientTypeOK, FlagTypes, OthersUntouched, SocketUntouched
<1>2. CASE PressQ(p)
  BY <1>1, <1>2, GotoMoves DEF PressQ, ClientTypeOK, FlagTypes, FlagsUntouched
<1>3. CASE DecideRelease(p) /\ hasTicket[p]
  BY <1>1, <1>3, GotoMoves, CallMoves DEF DecideRelease, ClientTypeOK, FlagTypes, FlagsUntouched
<1>4. CASE DecideRelease(p) /\ ~hasTicket[p]
  BY <1>1, <1>4, GotoMoves DEF DecideRelease, ClientTypeOK, FlagTypes, FlagsUntouched
<1> QED BY <1>2, <1>3, <1>4

ClientStep(p) == Start(p) \/ PressQ(p) \/ Die(p) \/ MainStep(p) \/ HbStep(p)

(* A step of one program keeps the types and no other program notices.     *)
LEMMA ClientStepTypes ==
  ASSUME ClientTypeOK, NEW p \in Proc, ClientStep(p)
  PROVE  ClientTypeOK' /\ OthersUntouched(p)
<1>1. "main" \in Thread /\ "hb" \in Thread
  BY DEF Thread
<1>2. CASE MainStep(p)
  BY <1>1, <1>2, QuitTypes, DieTypes, TransmittedTypes, BeginRecvTypes,
     ReceiveTypes, TimeoutTypes DEF MainStep, Exit, SendHelo, SendBye
<1>3. CASE HbStep(p)
  BY <1>1, <1>3, WakeTypes, TransmittedTypes, BeginRecvTypes, ReceiveTypes,
     TimeoutTypes DEF HbStep, SendHelo, SendValid
<1> QED BY <1>2, <1>3, StartTypes, QuitTypes, DieTypes DEF ClientStep

(* The server puts a response into one inbox with room and touches nothing *)
(* else of the clients.                                                    *)
LEMMA ServerStepTypes ==
  ASSUME TypedSystem,
         ServerStep \/ ((ServerCrash \/ ServerStart) /\ UNCHANGED clientVars)
  PROVE  ClientTypeOK' /\ UNCHANGED <<at, doing, flagVars, finite, endless, late>>
<1>1. CASE UNCHANGED clientVars
  BY <1>1 DEF TypedSystem, ClientTypeOK
<1>2. CASE Respond
  <2>1. UNCHANGED <<at, doing, flagVars, finite, endless, late>>
    BY <1>2 DEF Respond
  <2>2. response \in Response
    BY <1>2 DEF Respond, Reply, TypedSystem, Inv, TypeOK, MainTypeOK, ServerInv, InService
  <2>3. /\ inbox' \in [Proc -> Seq(Response)]
        /\ \A q \in Proc : Len(inbox'[q]) <= InboxCap
    <3> DEFINE p == request.from
    <3>1. CASE life[p] = "alive" /\ Len(inbox[p]) < InboxCap
      <4>1. inbox' = [inbox EXCEPT ![p] = Append(@, response)]
        BY <1>2, <3>1 DEF Respond
      <4>2. \A q \in Proc : inbox'[q] = inbox[q]
                            \/ (q = p /\ inbox'[q] = Append(inbox[q], response))
        BY <4>1 DEF TypedSystem, ClientTypeOK
      <4>3. \A q \in Proc : inbox'[q] \in Seq(Response) /\ Len(inbox'[q]) <= InboxCap
        <5> SUFFICES ASSUME NEW q \in Proc
                     PROVE  inbox'[q] \in Seq(Response) /\ Len(inbox'[q]) <= InboxCap
          OBVIOUS
        <5>1. inbox[q] \in Seq(Response) /\ Len(inbox[q]) <= InboxCap
          BY DEF TypedSystem, ClientTypeOK
        <5>2. CASE q = p /\ inbox'[q] = Append(inbox[q], response)
          BY <2>2, <3>1, <5>1, <5>2, AppendProperties, ClientBoundsAssumption
        <5> QED BY <4>2, <5>1, <5>2
      <4>4. inbox' = [q \in Proc |-> inbox'[q]]
        BY <4>1 DEF TypedSystem, ClientTypeOK
      <4> QED BY <4>3, <4>4
    <3>2. CASE ~(life[p] = "alive" /\ Len(inbox[p]) < InboxCap)
      BY <1>2, <3>2 DEF Respond, TypedSystem, ClientTypeOK
    <3> QED BY <3>1, <3>2
  <2> QED BY <2>1, <2>3 DEF TypedSystem, ClientTypeOK
<1> QED BY <1>1, <1>2 DEF ServerStep

(* Every step is one program's or the server's.                            *)
LEMMA StepOfOne ==
  Next => \/ ServerStep \/ ((ServerCrash \/ ServerStart) /\ UNCHANGED clientVars)
          \/ \E p \in Proc : ClientStep(p)
BY DEF Next, Fault, ClientStep

LEMMA InitTyped == Init => TypedSystem
<1> SUFFICES ASSUME Init PROVE TypedSystem
  OBVIOUS
<1>1. Inv
  BY InitInv DEF Init
<1>2. /\ NotRunning \in [main : MainAt, hb : HbAt] /\ 0 \in 0..MaxUsers
      /\ NoRequests \in [main : {"NONE", "HELO", "GBYE"}, hb : {"NONE", "HELO", "VALID"}]
      /\ << >> \in Seq(Response) /\ Len(<< >>) <= InboxCap /\ 0 \in 0..MaxLate
  BY MaxUsersAssumption, ClientBoundsAssumption
     DEF NotRunning, NoRequests, MainAt, HbAt
<1>3. ClientTypeOK
  BY <1>2 DEF Init, ClientInit, ClientTypeOK
<1> QED BY <1>1, <1>3 DEF TypedSystem

LEMMA StepTyped == TypedSystem /\ [Next]_systemVars => TypedSystem'
<1> SUFFICES ASSUME TypedSystem, [Next]_systemVars PROVE TypedSystem'
  OBVIOUS
<1>1. Inv'
  BY StepIsServerStep, StepInv DEF TypedSystem
<1>2. ClientTypeOK'
  <2>1. CASE Next
    BY <2>1, StepOfOne, ClientStepTypes, ServerStepTypes DEF TypedSystem
  <2>2. CASE UNCHANGED systemVars
    BY <2>2 DEF TypedSystem, ClientTypeOK
  <2> QED BY <2>1, <2>2
<1> QED BY <1>1, <1>2 DEF TypedSystem

LEMMA TypedAlways == Spec => []TypedSystem
BY InitTyped, StepTyped, PTL DEF Spec

(* Type correctness of the server and of every client.                     *)
THEOREM SystemTypeCorrect == Spec => []SystemTypeOK
<1>1. TypedSystem => SystemTypeOK
  BY DEF TypedSystem, Inv, SystemTypeOK
<1> QED BY <1>1, TypedAlways, PTL

(* The server with its real clients behaves as the server specified alone: *)
(* the clients of client.cpp only ever start, exit and send the requests   *)
(* that LicenseServer allows them.                                         *)
THEOREM SystemImplementsServer == Spec => ServerSpec
<1>1. Init => ServerInit
  BY DEF Init
<1>2. TypedSystem /\ [Next]_systemVars => [ServerNext]_serverVars
  BY StepIsServerStep DEF TypedSystem
<1> QED BY <1>1, <1>2, TypedAlways, PTL DEF Spec, ServerSpec

(* So the system implements the pool of licences, and what the server says *)
(* in a response holds until it is sent, with the clients of client.cpp.   *)
THEOREM SystemImplementsPool == Spec => ImplementsPool /\ []ResponseStillTrue
BY SystemImplementsServer, ServerImplementsPool, ResponsesTrue, PTL

-----------------------------------------------------------------------------
(* What the threads of one program do, seen from its own memory.           *)

SameFlags(p) == ticket'[p] = ticket[p] /\ fresh'[p] = fresh[p] /\ hasTicket'[p] = hasTicket[p]
SameSocket(p) == finite'[p] = finite[p] /\ endless'[p] = endless[p]
SameThread(p, th) == at'[p][th] = at[p][th] /\ doing'[p][th] = doing[p][th]
Moves(p, th, from, to) ==
  /\ at[p][th] = from /\ at'[p][th] = to
  /\ \A u \in Thread : u # th => SameThread(p, u)

Starts(p) ==
  /\ life[p] = "new" /\ life'[p] = "alive"
  /\ at'[p].main = "send" /\ doing'[p].main = "HELO" /\ SameThread(p, "hb")
  /\ SameFlags(p) /\ SameSocket(p) /\ UNCHANGED inbox
Dies(p) ==
  /\ life[p] = "alive" /\ life'[p] = "dead"
  /\ at'[p] = NotRunning /\ doing'[p] = NoRequests
  /\ finite'[p] = FALSE /\ endless'[p] = {} /\ inbox'[p] = << >>
Quits(p) ==
  /\ SameFlags(p) /\ SameSocket(p) /\ UNCHANGED <<life, inbox>>
  /\ \/ Moves(p, "main", "run", "quit") /\ doing'[p] = doing[p]
     \/ Moves(p, "main", "quit", "exit") /\ doing'[p] = doing[p]
     \/ Moves(p, "main", "quit", "send") /\ doing'[p].main = "GBYE"
Sends(p, th) ==
  /\ Moves(p, th, "send", "sent") /\ doing'[p] = doing[p] /\ SameFlags(p)
  /\ finite'[p] = TRUE /\ endless'[p] = endless[p] /\ UNCHANGED <<life, inbox>>
  /\ inQ' # inQ \/ ~up \/ Len(inQ) = QueueCap
Begins(p, th) ==
  /\ Moves(p, th, "sent", "wait") /\ doing'[p] = doing[p] /\ SameFlags(p)
  /\ finite'[p] = finite[p] /\ (finite[p] => endless'[p] = endless[p])
  /\ UNCHANGED <<life, inbox>>
Wakes(p) ==
  /\ SameFlags(p) /\ SameSocket(p) /\ UNCHANGED <<life, inbox>>
  /\ \/ hasTicket[p] /\ Moves(p, "hb", "sleep", "send") /\ doing'[p].hb = "VALID"
     \/ ~hasTicket[p] /\ Moves(p, "hb", "sleep", HbLoop(p)) /\ doing'[p] = doing[p]
GivesUp(p) ==
  /\ Moves(p, "hb", "send", "send") /\ doing'[p].hb = "HELO" /\ SameSocket(p)
  /\ doing[p].hb = "VALID" /\ ~hasTicket[p] /\ hasTicket'[p] = FALSE
  /\ ticket'[p] = ticket[p] /\ fresh'[p] = fresh[p] /\ UNCHANGED <<life, inbox>>
Stores(p) ==
  /\ Moves(p, "hb", "store", HbLoop(p)) /\ doing'[p] = doing[p] /\ SameSocket(p)
  /\ ticket'[p] = fresh[p] /\ hasTicket'[p] = TRUE /\ UNCHANGED <<life, inbox>>

(* What a thread makes of the response r, or of none.                      *)
AsksAgain(p, th, r) ==
  /\ doing[p][th] = "HELO" /\ r.kind # "TICK"
  /\ Moves(p, th, "wait", "send") /\ doing'[p] = doing[p] /\ SameFlags(p)
BeginsToRun(p, th, r) ==
  /\ doing[p][th] = "HELO" /\ r.kind = "TICK" /\ th = "main" /\ at[p].main = "wait"
  /\ at[p].hb = "off" /\ at'[p] = [main |-> "run", hb |-> "sleep"]
  /\ doing'[p] = doing[p] /\ ticket'[p] = r.ticket /\ hasTicket'[p] = TRUE
GetsAnother(p, th, r) ==
  /\ doing[p][th] = "HELO" /\ r.kind = "TICK" /\ th = "hb"
  /\ Moves(p, "hb", "wait", "store") /\ doing'[p] = doing[p]
  /\ fresh'[p] = r.ticket /\ ticket'[p] = ticket[p] /\ hasTicket'[p] = hasTicket[p]
Leaves(p, th, r) ==
  /\ doing[p][th] = "GBYE" /\ th = "main" /\ Moves(p, "main", "wait", "exit")
  /\ doing'[p] = doing[p]
IsConfirmed(p, th, r) ==
  /\ doing[p][th] = "VALID" /\ th = "hb" /\ r.kind = "GOOD"
  /\ Moves(p, "hb", "wait", HbLoop(p)) /\ doing'[p] = doing[p] /\ SameFlags(p)
MustReacquire(p, th, r) ==
  /\ doing[p][th] = "VALID" /\ th = "hb" /\ r.kind # "GOOD"
  /\ Moves(p, "hb", "wait", "send") /\ doing'[p].hb = "HELO"
  /\ hasTicket'[p] = FALSE /\ ticket'[p] = ticket[p] /\ fresh'[p] = fresh[p]
Returns(p, th, r) ==
  /\ finite'[p] = FALSE /\ endless'[p] = endless[p] \ {th} /\ UNCHANGED life
  /\ \/ AsksAgain(p, th, r) \/ BeginsToRun(p, th, r) \/ GetsAnother(p, th, r)
     \/ Leaves(p, th, r) \/ IsConfirmed(p, th, r) \/ MustReacquire(p, th, r)

LEMMA ReturnMoves ==
  ASSUME ClientTypeOK, NEW p \in Proc, NEW th \in Thread, NEW r,
         at[p][th] = "wait", Return(p, th, r), UNCHANGED life
  PROVE  Returns(p, th, r)
<1> USE DEF SameFlags, SameThread, Moves
<1>1. /\ finite'[p] = FALSE /\ endless'[p] = endless[p] \ {th}
  BY DEF Return, ClientTypeOK
<1>2. /\ th = "main" => doing[p][th] # "VALID"
      /\ th = "hb" => doing[p][th] # "GBYE"
      /\ "main" \in Thread /\ "hb" \in Thread /\ th \in {"main", "hb"}
  BY DEF ClientTypeOK, Thread
<1>3. CASE doing[p][th] = "HELO" /\ HeloAnswered(p, th, r) /\ r.kind # "TICK"
  <2>1. Goto(p, th, "send") /\ UNCHANGED <<doing, flagVars>>
    BY <1>3 DEF HeloAnswered
  <2> QED BY <1>1, <1>2, <1>3, <2>1, GotoMoves DEF Returns, AsksAgain
<1>4. CASE doing[p][th] = "HELO" /\ HeloAnswered(p, th, r) /\ r.kind = "TICK" /\ th = "main"
  <2>1. GotTicket(p, r)
    BY <1>4 DEF HeloAnswered
  <2> QED BY <1>1, <1>4, <2>1 DEF Returns, BeginsToRun, GotTicket, ClientTypeOK
<1>5. CASE doing[p][th] = "HELO" /\ HeloAnswered(p, th, r) /\ r.kind = "TICK" /\ th = "hb"
  <2>1. GotFresh(p, r)
    BY <1>5 DEF HeloAnswered
  <2>2. fresh'[p] = r.ticket /\ Goto(p, "hb", "store") /\ UNCHANGED <<doing, ticket, hasTicket>>
    BY <2>1 DEF GotFresh, ClientTypeOK
  <2> QED BY <1>1, <1>2, <1>5, <2>2, GotoMoves DEF Returns, GetsAnother
<1>6. CASE doing[p][th] = "GBYE" /\ ByeAnswered(p, r)
  BY <1>1, <1>2, <1>6, GotoMoves DEF ByeAnswered, Returns, Leaves
<1>7. CASE doing[p][th] = "VALID" /\ ValidAnswered(p, r) /\ Confirms(r)
  <2>1. Goto(p, "hb", HbLoop(p)) /\ UNCHANGED <<doing, flagVars>> /\ r.kind = "GOOD"
    BY <1>7 DEF ValidAnswered, Confirms
  <2> QED BY <1>1, <1>2, <1>7, <2>1, GotoMoves DEF Returns, IsConfirmed
<1>8. CASE doing[p][th] = "VALID" /\ ValidAnswered(p, r) /\ ~Confirms(r)
  <2>1. Reacquire(p) /\ r.kind # "GOOD"
    BY <1>8 DEF ValidAnswered, Confirms
  <2>2. Call(p, "hb", "HELO") /\ hasTicket'[p] = FALSE /\ UNCHANGED <<ticket, fresh>>
    BY <2>1 DEF Reacquire, ClientTypeOK
  <2> QED BY <1>1, <1>2, <1>8, <2>1, <2>2, GotoMoves, CallMoves DEF Returns, MustReacquire
<1> QED BY <1>2, <1>3, <1>4, <1>5, <1>6, <1>7, <1>8 DEF Return

LocalStep(p) ==
  \/ Starts(p) \/ Dies(p) \/ Quits(p) \/ Wakes(p) \/ GivesUp(p) \/ Stores(p)
  \/ \E th \in Thread :
       \/ Sends(p, th) \/ Begins(p, th)
       \/ Returns(p, th, NoResponse) /\ Timeout(p, th)
       \/ Returns(p, th, Head(inbox[p])) /\ Receive(p, th)

(* Each step of a program is one of these.                                 *)
LEMMA StepIsLocal ==
  ASSUME ClientTypeOK, TypeOK, NEW p \in Proc, ClientStep(p)
  PROVE  LocalStep(p)
<1>1. "main" \in Thread /\ "hb" \in Thread /\ "main" # "hb" /\ life \in [Proc -> {"new", "alive", "dead"}]
  BY DEF Thread, TypeOK, OutsideTypeOK
<1>2. CASE Start(p)
  BY <1>1, <1>2, GotoMoves, CallMoves
     DEF Start, ProcessStart, LocalStep, Starts, SameThread, SameFlags, SameSocket
<1>3. CASE Die(p)
  BY <1>1, <1>3 DEF Die, ProcessExit, LocalStep, Dies, ClientTypeOK
<1>4. CASE PressQ(p) \/ DecideRelease(p)
  <2> SUFFICES Quits(p)
    BY DEF LocalStep
  <2> USE <1>1, <1>4, GotoMoves, CallMoves
          DEF PressQ, DecideRelease, Quits, Moves, SameThread, SameFlags, SameSocket
  <2>1. CASE PressQ(p)
    BY <2>1
  <2>2. CASE DecideRelease(p) /\ hasTicket[p]
    <3>1. Call(p, "main", "GBYE") /\ UNCHANGED <<life, flagVars, socketVars>>
      BY <2>2
    <3>2. Goto(p, "main", "send") /\ doing'[p].main = "GBYE" /\ doing'[p].hb = doing[p].hb
      BY <3>1
    <3> QED BY <2>2, <3>1, <3>2 DEF Thread
  <2>3. CASE DecideRelease(p) /\ ~hasTicket[p]
    BY <2>3
  <2> QED BY <2>1, <2>2, <2>3
<1>5. \A op, t : Transmit(p, op, t) =>
        UNCHANGED life /\ (inQ' # inQ \/ ~up \/ Len(inQ) = QueueCap)
  <2>1. inQ \in Seq(Datagram)
    BY DEF TypeOK, OutsideTypeOK
  <2> QED BY <2>1 DEF Transmit, Arrive
<1>6. ASSUME NEW th \in Thread, at[p][th] = "send", Transmitted(p, th),
             NEW op, NEW t, Transmit(p, op, t)
      PROVE  Sends(p, th)
  <2> USE <1>5
  <2>1. finite'[p] = TRUE /\ Goto(p, th, "sent") /\ UNCHANGED <<doing, flagVars, endless, inbox, late>>
    BY <1>6 DEF Transmitted, ClientTypeOK
  <2> QED BY <1>6, <2>1, GotoMoves DEF Sends, Moves, SameThread, SameFlags
<1>7. CASE SendHelo(p, "main") \/ SendHelo(p, "hb") \/ SendBye(p) \/ SendValid(p)
  <2>1. ASSUME NEW th \in Thread, at[p][th] = "send", Transmitted(p, th),
               NEW op, NEW t, Transmit(p, op, t)
        PROVE  LocalStep(p)
    BY <1>6, <2>1 DEF LocalStep
  <2>2. CASE SendHelo(p, "main") \/ SendHelo(p, "hb")
    BY <1>1, <1>5, <2>1, <2>2 DEF SendHelo
  <2>3. CASE SendBye(p) \/ SendValid(p)
    BY <1>1, <1>5, <2>1, <2>3 DEF SendBye, SendValid
  <2> QED BY <1>7, <2>2, <2>3
<1>8. ASSUME NEW th \in Thread, BeginRecv(p, th)
      PROVE  Begins(p, th)
  BY <1>8, GotoMoves DEF BeginRecv, Begins, Moves, SameThread, SameFlags
<1>9. ASSUME NEW th \in Thread, Receive(p, th)
      PROVE  Returns(p, th, Head(inbox[p]))
  BY <1>9, ReturnMoves DEF Receive
<1>10. ASSUME NEW th \in Thread, Timeout(p, th)
       PROVE  Returns(p, th, NoResponse)
  BY <1>10, ReturnMoves DEF Timeout
<1>11. CASE Wake(p)
  <2> SUFFICES Wakes(p)
    BY DEF LocalStep
  <2> USE <1>1, <1>11, GotoMoves, CallMoves
          DEF Wake, Wakes, Moves, SameThread, SameFlags, SameSocket
  <2>1. CASE hasTicket[p]
    BY <2>1
  <2>2. CASE ~hasTicket[p]
    BY <2>2
  <2> QED BY <2>1, <2>2
<1>12. CASE ValidateNothing(p)
  <2>1. Call(p, "hb", "HELO") /\ hasTicket'[p] = FALSE /\ UNCHANGED <<ticket, fresh>>
    BY <1>12 DEF ValidateNothing, Reacquire, ClientTypeOK
  <2> QED BY <1>1, <1>12, <2>1, GotoMoves, CallMoves
      DEF ValidateNothing, LocalStep, GivesUp, Moves, SameThread, SameSocket
<1>13. CASE Store(p)
  <2>1. /\ ticket'[p] = fresh[p] /\ hasTicket'[p] = TRUE
        /\ Goto(p, "hb", HbLoop(p)) /\ UNCHANGED <<doing, life, socketVars>>
        /\ at[p].hb = "store"
    BY <1>13 DEF Store, ClientTypeOK
  <2> QED BY <1>1, <2>1, GotoMoves DEF LocalStep, Stores, Moves, SameThread, SameSocket
<1> QED BY <1>1, <1>2, <1>3, <1>4, <1>7, <1>8, <1>9, <1>10, <1>11, <1>12, <1>13
    DEF ClientStep, MainStep, HbStep, Exit, LocalStep

-----------------------------------------------------------------------------
(* A program waits without a timeout only after 'q'.                       *)

(* A process that is not running has no memory, and the heartbeat thread   *)
(* is there as soon as the main thread has its first ticket.               *)
Lifecycle(p) ==
  /\ life[p] # "alive" => at[p] = NotRunning /\ doing[p] = NoRequests /\ inbox[p] = << >>
  /\ at[p].main \in {"run", "quit", "exit"} \/ doing[p].main = "GBYE" => at[p].hb # "off"
  /\ at[p].main = "off" => doing[p].main = "NONE"
  /\ at[p].main = "run" => doing[p].main = "HELO" /\ at[p].hb # "end"
  /\ at[p].hb \in {"send", "sent", "wait"} => doing[p].hb \in {"HELO", "VALID"}

(* Why a running program always has a timeout: before the heartbeat thread *)
(* exists the main thread alone sets and resets it, while the program runs *)
(* the heartbeat thread alone does.                                        *)
NeverBlocks(p) ==
  /\ at[p].hb = "off" => endless[p] = {} /\ (at[p].main = "sent" => finite[p])
  /\ at[p].main = "run" => endless[p] = {} /\ (at[p].hb = "sent" => finite[p])

LocalInv == \A p \in Proc : Lifecycle(p) /\ NeverBlocks(p)

(* What the server does, seen by a program: at most a response arrives.    *)
LEMMA ServerStepLocal ==
  ASSUME TypedSystem, NEW q \in Proc,
         ServerStep \/ ((ServerCrash \/ ServerStart) /\ UNCHANGED clientVars)
  PROVE  life'[q] = life[q] /\ (inbox'[q] = inbox[q] \/ life[q] = "alive")
<1>1. UNCHANGED life
  BY DEF ServerStep, Respond, Reply, Recv, Handle, Handling, GrantHelo, DenyHelo,
     GbyeRelease, GbyeUnknown, ValidCheck, Garbled, UnknownRequest, Reclaim,
     ReclaimEnter, ReclaimCheck, ReclaimErase, ServerCrash, ServerStart
<1>2. CASE UNCHANGED clientVars
  BY <1>1, <1>2
<1>3. CASE Respond
  BY <1>1, <1>3 DEF Respond, TypedSystem, ClientTypeOK
<1> QED BY <1>2, <1>3 DEF ServerStep

LEMMA ClientStepLife ==
  ASSUME TypeOK, NEW p \in Proc, ClientStep(p)
  PROVE  /\ \A q \in Proc : q # p => life'[q] = life[q]
         /\ UNCHANGED <<up, crashes, mainVars, tableVars, reclaimVars>>
BY DEF ClientStep, Start, PressQ, Die, MainStep, HbStep, Exit, ProcessStart,
   ProcessExit, DecideRelease, SendHelo, SendBye, SendValid, Transmit, Arrive,
   BeginRecv, Receive, Timeout, Wake, ValidateNothing, Store, TypeOK, OutsideTypeOK

LEMMA OwnStepLocal ==
  ASSUME TypedSystem, NEW p \in Proc, Lifecycle(p), NeverBlocks(p), LocalStep(p)
  PROVE  Lifecycle(p)' /\ NeverBlocks(p)'
<1> USE DEF Lifecycle, NeverBlocks, Moves, SameThread, SameSocket, NotRunning, NoRequests
<1>1. /\ life[p] \in {"new", "alive", "dead"} /\ "main" \in Thread /\ "hb" \in Thread
      /\ at[p].main \in MainAt /\ at[p].hb \in HbAt
  BY DEF TypedSystem, Inv, TypeOK, OutsideTypeOK, ClientTypeOK, Thread
<1>2. CASE Starts(p)
  BY <1>1, <1>2 DEF Starts
<1>3. CASE Dies(p)
  BY <1>1, <1>3 DEF Dies
<1>4. CASE Quits(p)
  BY <1>1, <1>4 DEF Quits
<1>5. CASE Wakes(p) \/ GivesUp(p) \/ Stores(p)
  BY <1>1, <1>5 DEF Wakes, GivesUp, Stores, HbLoop, Running
<1>6. ASSUME NEW th \in Thread, Sends(p, th) \/ Begins(p, th)
      PROVE  Lifecycle(p)' /\ NeverBlocks(p)'
  <2>1. CASE th = "main"
    BY <1>1, <1>6, <2>1 DEF Sends, Begins
  <2>2. CASE th = "hb"
    BY <1>1, <1>6, <2>2 DEF Sends, Begins
  <2> QED BY <2>1, <2>2 DEF Thread
<1>7. ASSUME NEW th \in Thread, NEW r, Returns(p, th, r)
      PROVE  Lifecycle(p)' /\ NeverBlocks(p)'
  <2> USE <1>1, <1>7 DEF Returns
  <2>1. CASE AsksAgain(p, th, r)
    <3>1. th = "main" \/ th = "hb"
      BY DEF Thread
    <3> QED BY <2>1, <3>1 DEF AsksAgain
  <2>2. CASE BeginsToRun(p, th, r)
    BY <2>2 DEF BeginsToRun
  <2>3. CASE GetsAnother(p, th, r)
    BY <2>3 DEF GetsAnother
  <2>4. CASE Leaves(p, th, r)
    BY <2>4 DEF Leaves
  <2>5. CASE IsConfirmed(p, th, r)
    BY <2>5 DEF IsConfirmed, HbLoop, Running
  <2>6. CASE MustReacquire(p, th, r)
    BY <2>6 DEF MustReacquire
  <2> QED BY <2>1, <2>2, <2>3, <2>4, <2>5, <2>6
<1> QED BY <1>2, <1>3, <1>4, <1>5, <1>6, <1>7 DEF LocalStep

LEMMA StepLocal == TypedSystem /\ LocalInv /\ [Next]_systemVars => LocalInv'
<1> SUFFICES ASSUME TypedSystem, LocalInv, [Next]_systemVars,
                    NEW q \in Proc
             PROVE  Lifecycle(q)' /\ NeverBlocks(q)'
  BY DEF LocalInv
<1> USE DEF LocalInv
<1>1. ASSUME UNCHANGED <<at, doing, finite, endless>>, life'[q] = life[q],
             inbox'[q] = inbox[q] \/ life[q] = "alive"
      PROVE  Lifecycle(q)' /\ NeverBlocks(q)'
  BY <1>1 DEF Lifecycle, NeverBlocks
<1>2. CASE ServerStep \/ ((ServerCrash \/ ServerStart) /\ UNCHANGED clientVars)
  BY <1>1, <1>2, ServerStepLocal, ServerStepTypes
<1>3. ASSUME NEW p \in Proc, ClientStep(p)
      PROVE  Lifecycle(q)' /\ NeverBlocks(q)'
  <2>1. TypeOK /\ ClientTypeOK
    BY DEF TypedSystem, Inv
  <2>2. CASE p = q
    BY <1>3, <2>1, <2>2, StepIsLocal, OwnStepLocal
  <2>3. CASE p # q
    BY <1>3, <2>1, <2>3, ClientStepTypes, ClientStepLife
       DEF OthersUntouched, FlagsUntouched, SocketUntouched, Lifecycle, NeverBlocks
  <2> QED BY <2>2, <2>3
<1>4. CASE UNCHANGED systemVars
  BY <1>1, <1>4
<1> QED BY <1>2, <1>3, <1>4, StepOfOne

LEMMA InitLocal == Init => LocalInv
BY DEF Init, ServerInit, ClientInit, LocalInv, Lifecycle, NeverBlocks, NotRunning, NoRequests

LEMMA LocalAlways == Spec => []LocalInv
BY InitLocal, StepLocal, TypedAlways, PTL DEF Spec

(* A program that runs is never in a recvfrom without a timeout.           *)
THEOREM RunningHasTimeout == Spec => []RunningNeverBlocks
<1>1. LocalInv => RunningNeverBlocks
  BY DEF LocalInv, NeverBlocks, RunningNeverBlocks, Running
<1> QED BY <1>1, LocalAlways, PTL

-----------------------------------------------------------------------------
(* A running program keeps its ticket.                                     *)

(* No GBYE of p is in the server.                                          *)
NoBye(p) ==
  /\ \A i \in 1..Len(inQ) : inQ[i].from = p => inQ[i].op # "GBYE"
  /\ request # NoRequest /\ request.from = p => request.op # "GBYE"

(* ReleaseTicket is what sends GBYE, and a program that runs has not been  *)
(* there.                                                                  *)
ByeInv == \A p \in Proc : life[p] = "alive" /\ doing[p].main # "GBYE" => NoBye(p)

(* How the server's socket and request change: a datagram arrives at the   *)
(* end, is taken from the front, or all is lost in a crash.                *)
LEMMA QueueMoves ==
  ASSUME Inv, [ServerNext]_serverVars
  PROVE  \/ UNCHANGED <<inQ, request>>
         \/ request' = request /\ \E m \in Datagram : Arrive(m)
         \/ Recv /\ request' = inQ[1] /\ Len(inQ') = Len(inQ) - 1
            /\ \A i \in 1..Len(inQ') : i + 1 \in 1..Len(inQ) /\ inQ'[i] = inQ[i + 1]
         \/ request' = NoRequest /\ (inQ' = inQ \/ inQ' = << >>)
<1>1. CASE Recv
  <2>1. inQ \in Seq(Datagram) /\ inQ # << >> /\ request' = Head(inQ) /\ inQ' = Tail(inQ)
    BY <1>1 DEF Recv, Inv, TypeOK, OutsideTypeOK
  <2> QED BY <1>1, <2>1, HeadTailProperties
<1>2. CASE \E m \in Datagram : Arrive(m)
  BY <1>2 DEF Arrive
<1>3. CASE Handle
  BY <1>3 DEF Handle, Handling, GrantHelo, DenyHelo, GbyeRelease, GbyeUnknown,
     ValidCheck, Garbled, UnknownRequest
<1> QED BY <1>1, <1>2, <1>3
    DEF ServerNext, Environment, ProcessStart, ProcessExit, ServerCrash,
        ServerStart, Reply, Reclaim, ReclaimEnter, ReclaimCheck, ReclaimErase

(* No step of the server's can bring a GBYE that did not arrive.           *)
LEMMA NoByeKept ==
  ASSUME Inv, NEW p \in Proc, NoBye(p), [ServerNext]_serverVars,
         \A m \in Datagram : Arrive(m) => m.from # p \/ m.op # "GBYE"
  PROVE  NoBye(p)'
<1> USE DEF NoBye
<1>1. inQ \in Seq(Datagram)
  BY DEF Inv, TypeOK, OutsideTypeOK
<1>2. CASE UNCHANGED <<inQ, request>>
  BY <1>2
<1>3. ASSUME NEW m \in Datagram, Arrive(m), request' = request PROVE NoBye(p)'
  <2>1. \A i \in 1..Len(inQ') : inQ'[i] = m \/ (i \in 1..Len(inQ) /\ inQ'[i] = inQ[i])
    BY <1>1, <1>3 DEF Arrive
  <2> QED BY <1>3, <2>1
<1>4. CASE Recv /\ request' = inQ[1]
           /\ \A i \in 1..Len(inQ') : i + 1 \in 1..Len(inQ) /\ inQ'[i] = inQ[i + 1]
  <2>1. 1 \in 1..Len(inQ)
    BY <1>1, <1>4 DEF Recv
  <2> QED BY <1>4, <2>1
<1>5. CASE request' = NoRequest /\ (inQ' = inQ \/ inQ' = << >>)
  BY <1>5
<1> QED BY <1>2, <1>3, <1>4, <1>5, QueueMoves

LEMMA ArrivalShows ==
  ASSUME TypeOK, NEW m, Arrive(m)
  PROVE  /\ Len(inQ') = Len(inQ) + 1 /\ inQ'[Len(inQ) + 1] = m /\ inQ' # inQ
         /\ \A i \in 1..Len(inQ) : inQ'[i] = inQ[i]
         /\ UNCHANGED <<life, up, crashes, mainVars, tableVars, reclaimVars>>
         /\ \A n : Arrive(n) => n = m
<1>1. inQ \in Seq(Datagram) /\ inQ' = Append(inQ, m)
  BY DEF TypeOK, OutsideTypeOK, Arrive
<1>2. /\ Len(inQ') = Len(inQ) + 1 /\ inQ'[Len(inQ) + 1] = m
      /\ \A i \in 1..Len(inQ) : inQ'[i] = inQ[i]
  BY <1>1
<1>3. \A n : Arrive(n) => inQ'[Len(inQ) + 1] = n
  BY <1>1 DEF Arrive
<1> QED BY <1>1, <1>2, <1>3 DEF Arrive

(* A datagram that arrives was sent by a thread at that point: the request *)
(* it is making, with the ticket it holds if it has one confirmed.         *)
LEMMA WhoSends ==
  ASSUME TypedSystem, NEW p \in Proc, ClientStep(p), inQ' # inQ
  PROVE  \E th \in Thread, t \in 0..MaxUsers :
           LET m == [op |-> doing[p][th], from |-> p, ticket |-> t]
           IN  /\ Arrive(m) /\ m \in Datagram /\ Sends(p, th)
               /\ doing[p][th] = "VALID" => hasTicket[p] /\ t = ticket[p]
<1> DEFINE Req(op, t) == [op |-> op, from |-> p, ticket |-> t]
<1>1. /\ ClientTypeOK /\ "main" \in Thread /\ "hb" \in Thread /\ 0 \in 0..MaxUsers
      /\ ticket[p] \in 0..MaxUsers /\ TicketsRead(p) \subseteq 0..MaxUsers
  BY MaxUsersAssumption DEF TypedSystem, ClientTypeOK, Thread, TicketsRead
<1>2. \A op, t : Transmit(p, op, t) => Arrive(Req(op, t)) /\ UNCHANGED life
  BY DEF Transmit, Arrive
<1>3. ASSUME NEW th \in Thread, at[p][th] = "send", Transmitted(p, th), UNCHANGED life
      PROVE  Sends(p, th)
  <2>1. finite'[p] = TRUE /\ Goto(p, th, "sent") /\ UNCHANGED <<doing, flagVars, endless, inbox, late>>
    BY <1>1, <1>3 DEF Transmitted, ClientTypeOK
  <2> QED BY <1>1, <1>3, <2>1, GotoMoves DEF Sends, Moves, SameThread, SameFlags
<1>4. ASSUME NEW th \in Thread, SendHelo(p, th)
      PROVE  Arrive(Req("HELO", 0)) /\ Sends(p, th) /\ Req("HELO", 0) \in Datagram
             /\ doing[p][th] = "HELO"
  BY <1>1, <1>2, <1>3, <1>4, RequestsAreDatagrams DEF SendHelo
<1>5. CASE SendHelo(p, "main") \/ SendHelo(p, "hb")
  BY <1>1, <1>4, <1>5
<1>6. CASE SendBye(p)
  <2>1. PICK t \in TicketsRead(p) : Transmit(p, "GBYE", t)
    BY <1>6 DEF SendBye
  <2>2. Req("GBYE", t) \in Datagram /\ t \in 0..MaxUsers
    BY <1>1, RequestsAreDatagrams
  <2>3. Arrive(Req("GBYE", t)) /\ Sends(p, "main") /\ doing[p]["main"] = "GBYE"
    BY <1>1, <1>2, <1>3, <1>6, <2>1 DEF SendBye
  <2> QED BY <1>1, <2>2, <2>3
<1>7. CASE SendValid(p)
  <2>1. Req("VALID", ticket[p]) \in Datagram
    BY <1>1, RequestsAreDatagrams
  <2>2. Arrive(Req("VALID", ticket[p])) /\ Sends(p, "hb") /\ doing[p]["hb"] = "VALID" /\ hasTicket[p]
    BY <1>1, <1>2, <1>3, <1>7 DEF SendValid
  <2> QED BY <1>1, <2>1, <2>2
<1> QED BY <1>5, <1>6, <1>7
    DEF ClientStep, Start, PressQ, Die, MainStep, HbStep, Exit, ProcessStart,
        ProcessExit, DecideRelease, BeginRecv, Receive, Timeout, Wake,
        ValidateNothing, Store

LEMMA ArrivalIsRequest ==
  ASSUME TypedSystem, NEW p \in Proc, ClientStep(p), NEW m, Arrive(m)
  PROVE  \E th \in Thread :
           /\ m \in Datagram /\ m.from = p /\ m.op = doing[p][th] /\ Sends(p, th)
           /\ m.op = "VALID" => hasTicket[p] /\ m.ticket = ticket[p]
<1>1. inQ' # inQ /\ \A n : Arrive(n) => n = m
  BY ArrivalShows DEF TypedSystem, Inv
<1>2. PICK th \in Thread, t \in 0..MaxUsers :
         LET n == [op |-> doing[p][th], from |-> p, ticket |-> t]
         IN  /\ Arrive(n) /\ n \in Datagram /\ Sends(p, th)
             /\ doing[p][th] = "VALID" => hasTicket[p] /\ t = ticket[p]
  BY <1>1, WhoSends
<1>3. m = [op |-> doing[p][th], from |-> p, ticket |-> t]
  BY <1>1, <1>2
<1> QED BY <1>2, <1>3

(* The server sends itself nothing.                                        *)
LEMMA NothingArrives ==
  ASSUME TypedSystem, NEW m, Arrive(m),
         \/ ServerStep
         \/ (ServerCrash \/ ServerStart) /\ UNCHANGED clientVars
         \/ UNCHANGED systemVars
  PROVE  FALSE
<1>1. inQ \in Seq(Datagram) /\ Len(inQ') = Len(inQ) + 1 /\ inQ' # inQ /\ inQ' # << >>
      /\ UNCHANGED mainPc
  BY ArrivalShows DEF TypedSystem, Inv, TypeOK, OutsideTypeOK, Arrive
<1>2. Recv => mainPc' # mainPc
  BY DEF Recv
<1> QED BY <1>1, <1>2
    DEF ServerStep, Respond, Reply, Handle, Handling, GrantHelo, DenyHelo,
        GbyeRelease, GbyeUnknown, ValidCheck, Garbled, UnknownRequest, Reclaim,
        ReclaimEnter, ReclaimCheck, ReclaimErase, ServerCrash, ServerStart

LEMMA StepBye == TypedSystem /\ LocalInv /\ ByeInv /\ [Next]_systemVars => ByeInv'
<1> SUFFICES ASSUME TypedSystem, LocalInv, ByeInv, [Next]_systemVars,
                    NEW q \in Proc, life'[q] = "alive", doing'[q].main # "GBYE"
             PROVE  NoBye(q)'
  BY DEF ByeInv
<1>1. /\ TypeOK /\ ClientTypeOK /\ Inv /\ Lifecycle(q)
      /\ "main" \in Thread /\ "hb" \in Thread
  BY DEF TypedSystem, Inv, LocalInv, Thread
<1>2. [ServerNext]_serverVars
  BY <1>1, StepIsServerStep
<1>3. ASSUME life[q] = "alive", doing[q].main # "GBYE",
             \A m \in Datagram : Arrive(m) => m.from # q \/ m.op # "GBYE"
      PROVE  NoBye(q)'
  BY <1>1, <1>2, <1>3, NoByeKept DEF ByeInv
<1>4. CASE \/ ServerStep
           \/ (ServerCrash \/ ServerStart) /\ UNCHANGED clientVars
           \/ UNCHANGED systemVars
  BY <1>3, <1>4, NothingArrives, ServerStepLocal, ServerStepTypes
<1>5. ASSUME NEW p \in Proc, ClientStep(p), p # q PROVE NoBye(q)'
  <2>1. life[q] = "alive" /\ doing[q] = doing'[q]
    BY <1>1, <1>5, ClientStepTypes, ClientStepLife
       DEF OthersUntouched, FlagsUntouched
  <2>2. ASSUME NEW m \in Datagram, Arrive(m) PROVE m.from = p
    BY <1>5, <2>2, ArrivalIsRequest
  <2> QED BY <1>3, <1>5, <2>1, <2>2
<1>6. CASE ClientStep(q)
  <2>1. LocalStep(q)
    BY <1>1, <1>6, StepIsLocal
  <2>2. CASE Starts(q)
    <3>1. inQ' = inQ /\ request' = request
      BY <1>1, <1>6, <2>2, WhoSends, ClientStepLife DEF Starts, Sends
    <3>2. NoBye(q)
      BY <2>2 DEF Starts, Inv, ServerInv, SendersStarted, Started, NoBye, TypedSystem
    <3> QED BY <3>1, <3>2 DEF NoBye
  <2>3. CASE ~Starts(q)
    <3>1. life[q] = "alive" /\ doing[q].main # "GBYE"
      BY <1>1, <2>1, <2>3 DEF LocalStep, Dies, Quits, Wakes, GivesUp, Stores, Sends,
         Begins, Returns, AsksAgain, BeginsToRun, GetsAnother, Leaves, IsConfirmed,
         MustReacquire, Moves, SameThread
    <3>2. ASSUME NEW m \in Datagram, Arrive(m) PROVE m.op # "GBYE"
      <4>1. PICK th \in Thread : m.op = doing[q][th]
        BY <1>6, <3>2, ArrivalIsRequest
      <4> QED BY <1>1, <3>1, <4>1 DEF ClientTypeOK, Thread
    <3> QED BY <1>3, <3>1, <3>2
  <2> QED BY <2>2, <2>3
<1> QED BY <1>4, <1>5, <1>6, StepOfOne

LEMMA InitBye == Init => ByeInv
BY DEF Init, ServerInit, ByeInv, NoBye

LEMMA ByeAlways == Spec => []ByeInv
BY InitBye, StepBye, TypedAlways, LocalAlways, PTL DEF Spec

(* A running program loses its ticket only to a crash of the server or to  *)
(* another instance's GBYE.  Its own comes after 'q', and the reclaim      *)
(* thread does not take the ticket of a live process.                      *)
THEOREM RunningKeeps == Spec => RunningKeepsTicket
<1> DEFINE Kept ==
      \A t \in DOMAIN tickets :
        Loses(t) /\ life[tickets[t]] = "alive" =>
          \/ request # NoRequest /\ request.op = "GBYE" /\ request.ticket = t
          \/ ~up'
    RunningKept ==
      \A p \in Proc, t \in DOMAIN tickets :
        Running(p) /\ tickets[t] = p /\ Loses(t) =>
          \/ ~up'
          \/ request.op = "GBYE" /\ request.from # p
<1>1. Spec => [][Kept]_serverVars
  BY SystemImplementsServer, LiveKept DEF LiveTicketKept
<1>2. ASSUME LocalInv, ByeInv, [Kept]_serverVars PROVE [RunningKept]_systemVars
  <2> SUFFICES ASSUME NEW p \in Proc, NEW t \in DOMAIN tickets,
                      Running(p), tickets[t] = p, Loses(t), up'
               PROVE  request.op = "GBYE" /\ request.from # p
    OBVIOUS
  <2>1. life[p] = "alive" /\ doing[p].main = "HELO"
    BY <1>2 DEF LocalInv, Lifecycle, Running, NotRunning
  <2>2. ~UNCHANGED serverVars
    BY DEF Loses
  <2>3. request # NoRequest /\ request.op = "GBYE"
    BY <1>2, <2>1, <2>2
  <2> QED BY <1>2, <2>1, <2>3 DEF ByeInv, NoBye
<1> QED BY <1>1, <1>2, LocalAlways, ByeAlways, PTL DEF RunningKeepsTicket

-----------------------------------------------------------------------------
(* A running program has one ticket.                                       *)

(* A server that is down has no table.                                     *)
DownEmpty == ~up => tickets = << >>

LEMMA StepDown == DownEmpty /\ [ServerNext]_serverVars => DownEmpty'
BY DEF DownEmpty, ServerNext, Environment, ProcessStart, ProcessExit, Arrive,
   ServerCrash, ServerStart, Recv, Reply, Reclaim, ReclaimEnter, ReclaimCheck,
   ReclaimErase, Handle, GrantHelo, DenyHelo, GbyeRelease, GbyeUnknown, ValidCheck,
   Garbled, UnknownRequest, Handling

(* One thread of p makes requests: the main thread until it has a ticket,  *)
(* then, while the program runs, the heartbeat thread.                     *)
Alone(p) == at[p].main = "run" \/ (at[p].hb = "off" /\ doing[p].main = "HELO")
Asker(p) == IF at[p].hb = "off" THEN "main" ELSE "hb"
Waiting(p) == at[p][Asker(p)] \in {"sent", "wait"}
Asks(p, op) ==
  doing[p][Asker(p)] = op /\ at[p][Asker(p)] \in {"send", "sent", "wait"}

(* Where p's request or the answer to it may be.                           *)
NotQueued(p) == \A i \in 1..Len(inQ) : inQ[i].from # p
Served(p) == mainPc # "recv" /\ request.from = p
Nothing(p) == NotQueued(p) /\ ~Served(p) /\ inbox[p] = << >>
AnswerTo(p) ==
  IF inbox[p] # << >> THEN inbox[p][1]
    ELSE IF Served(p) /\ mainPc = "send" THEN response ELSE NoResponse

(* At most one request or answer of p is under way, and only while p waits. *)
OneRequest(p) ==
  /\ \A i, j \in 1..Len(inQ) : inQ[i].from = p /\ inQ[j].from = p => i = j
  /\ Served(p) => NotQueued(p)
  /\ inbox[p] # << >> => Len(inbox[p]) = 1 /\ NotQueued(p) /\ ~Served(p)
  /\ ~Waiting(p) => Nothing(p)

(* It is the request p is making, for the ticket p has.                    *)
Asked(p, m) == m.op = doing[p][Asker(p)] /\ (m.op = "VALID" => m.ticket = ticket[p])
RequestAsAsked(p) ==
  /\ \A i \in 1..Len(inQ) : inQ[i].from = p => Asked(p, inQ[i])
  /\ Served(p) => Asked(p, request)

(* What p has in the table is what p was told or is about to be told: a    *)
(* program that asks for a ticket has none but the one in the answer, and  *)
(* one whose ticket is not confirmed has lost it.                          *)
TableFits(p) ==
  /\ Asks(p, "HELO") =>
       \A t \in TicketsOf(p) : AnswerTo(p).kind = "TICK" /\ t = AnswerTo(p).ticket
  /\ at[p].hb = "store" => \A t \in TicketsOf(p) : t = fresh[p]
  /\ at[p].hb = "sleep" \/ Asks(p, "VALID") =>
       hasTicket[p] /\ \A t \in TicketsOf(p) : t = ticket[p]
  /\ Asks(p, "VALID") /\ Waiting(p) /\ NotQueued(p) /\ ~(Served(p) /\ mainPc = "handle")
       /\ AnswerTo(p).kind # "GOOD" => TicketsOf(p) = {}

OnTime(p) == OneRequest(p) /\ RequestAsAsked(p) /\ TableFits(p)
OnTimeInv == late = 0 => \A p \in Proc : Alone(p) => OnTime(p)

(* A heartbeat of a running program finds room in the server's socket.     *)
RoomForHeartbeat ==
  \A p \in Proc : Running(p) /\ at[p].hb = "send" => Len(inQ) < QueueCap

(* Only a HELO of its own gives p a ticket.                                *)
LEMMA TicketsShrink ==
  ASSUME NEW p \in Proc, [ServerNext]_serverVars, ~(GrantHelo /\ request.from = p)
  PROVE  TicketsOf(p)' \subseteq TicketsOf(p)
<1> USE DEF TicketsOf
<1>1. CASE GrantHelo
  BY <1>1 DEF GrantHelo
<1>2. CASE GbyeRelease
  BY <1>2 DEF GbyeRelease, Restrict
<1>3. CASE ReclaimErase
  BY <1>3 DEF ReclaimErase, Restrict
<1>4. CASE ServerCrash
  BY <1>4 DEF ServerCrash
<1>5. CASE UNCHANGED tickets
  BY <1>5
<1> QED BY <1>1, <1>2, <1>3, <1>4, <1>5
    DEF ServerNext, Environment, ProcessStart, ProcessExit, Arrive, ServerStart,
        Recv, Reply, Reclaim, ReclaimEnter, ReclaimCheck, Handle, DenyHelo,
        GbyeUnknown, ValidCheck, Garbled, UnknownRequest, Handling

(* The memory of p that says what it asks for.                             *)
SameAsker(p) == at'[p] = at[p] /\ doing'[p] = doing[p] /\ SameFlags(p)

(* A step that does not touch p's memory, its inbox, its place in the      *)
(* server's queue (which may move up) or its request being served.         *)
LEMMA OnTimeFrame ==
  ASSUME NEW p \in Proc, OnTime(p), SameAsker(p), inbox'[p] = inbox[p],
         TicketsOf(p)' \subseteq TicketsOf(p),
         \/ UNCHANGED <<mainPc, request, response>>
         \/ ~Served(p) /\ ~Served(p)',
         inQ \in Seq(Datagram), inQ' \in Seq(Datagram), NEW d \in {0, 1},
         \A i \in 1..Len(inQ') : inQ'[i].from = p =>
            i + d \in 1..Len(inQ) /\ inQ'[i] = inQ[i + d],
         \A i \in 1..Len(inQ) : inQ[i].from = p =>
            i - d \in 1..Len(inQ') /\ inQ'[i - d] = inQ[i]
  PROVE  OnTime(p)'
<1> USE DEF OnTime, SameAsker, SameFlags
<1>1. NotQueued(p)' <=> NotQueued(p)
  BY DEF NotQueued
<1>2. Served(p)' <=> Served(p)
  BY DEF Served
<1>3. /\ Waiting(p)' <=> Waiting(p)
      /\ \A op : Asks(p, op)' <=> Asks(p, op)
      /\ Asker(p)' = Asker(p)
  BY DEF Waiting, Asks, Asker
<1>4. AnswerTo(p)' = AnswerTo(p)
  BY <1>2 DEF AnswerTo, Served
<1>5. OneRequest(p)'
  <2>1. \A i, j \in 1..Len(inQ') : inQ'[i].from = p /\ inQ'[j].from = p => i = j
    BY SMTT(30) DEF OneRequest
  <2> QED BY <2>1, <1>1, <1>2, <1>3 DEF OneRequest, Nothing
<1>6. RequestAsAsked(p)'
  BY <1>2, <1>3, SMTT(30) DEF RequestAsAsked, Asked, Served
<1>7. TableFits(p)'
  BY <1>1, <1>2, <1>3, <1>4 DEF TableFits, Served
<1> QED BY <1>5, <1>6, <1>7

(* p's request reaches the server's main thread.                           *)
LEMMA RecvOnTime ==
  ASSUME TypedSystem, NEW p \in Proc, OnTime(p), Recv, UNCHANGED clientVars
  PROVE  OnTime(p)'
<1>1. /\ inQ \in Seq(Datagram) /\ inQ' \in Seq(Datagram) /\ 1 \in 1..Len(inQ)
      /\ request' = inQ[1] /\ Len(inQ') = Len(inQ) - 1
      /\ \A i \in 1..Len(inQ') : i + 1 \in 1..Len(inQ) /\ inQ'[i] = inQ[i + 1]
      /\ \A i \in 1..Len(inQ) : i > 1 => i - 1 \in 1..Len(inQ') /\ inQ'[i - 1] = inQ[i]
      /\ mainPc = "recv" /\ mainPc' = "handle" /\ request = NoRequest
  <2>1. inQ \in Seq(Datagram) /\ inQ # << >>
    BY DEF Recv, TypedSystem, Inv, TypeOK, OutsideTypeOK
  <2> QED BY <2>1, HeadTailProperties DEF Recv, TypedSystem, Inv, ServerInv, InService
<1>2. SameAsker(p) /\ inbox'[p] = inbox[p] /\ TicketsOf(p)' = TicketsOf(p)
  BY DEF Recv, SameAsker, SameFlags, TicketsOf
<1>3. ~Served(p)
  BY <1>1 DEF Served
<1>4. CASE inQ[1].from # p
  <2>1. ~Served(p)'
    BY <1>1, <1>4 DEF Served
  <2>2. \A i \in 1..Len(inQ) : inQ[i].from = p =>
          i - 1 \in 1..Len(inQ') /\ inQ'[i - 1] = inQ[i]
    BY <1>1, <1>4
  <2> QED BY <1>1, <1>2, <1>3, <2>1, <2>2, OnTimeFrame
<1>5. CASE inQ[1].from = p
  <2> USE DEF OnTime, SameAsker, SameFlags
  <2>1. NotQueued(p)' /\ Served(p)' /\ inbox'[p] = << >> /\ inbox[p] = << >>
    BY <1>1, <1>2, <1>5 DEF NotQueued, Served, OneRequest
  <2>2. /\ Waiting(p)' /\ Waiting(p) /\ Asker(p)' = Asker(p)
        /\ \A op : Asks(p, op)' <=> Asks(p, op)
    BY <1>1, <1>2, <1>5 DEF Waiting, Asker, Asks, OneRequest, Nothing, NotQueued
  <2>3. OneRequest(p)'
    BY <2>1, <2>2 DEF OneRequest, NotQueued
  <2>4. RequestAsAsked(p)'
    BY <1>1, <1>2, <1>5, <2>1, <2>2 DEF RequestAsAsked, Asked, NotQueued
  <2>5. AnswerTo(p) = NoResponse /\ AnswerTo(p)' = NoResponse
    BY <1>1, <1>3, <2>1 DEF AnswerTo, Served
  <2>6. TableFits(p)'
    BY <1>1, <1>2, <2>1, <2>2, <2>5 DEF TableFits, NoResponse
  <2> QED BY <2>3, <2>4, <2>6
<1> QED BY <1>4, <1>5

(* The handler: p's HELO gets the only ticket p has, p's VALID is refused  *)
(* only when p has none.                                                   *)
LEMMA HandleOnTime ==
  ASSUME TypedSystem, NEW p \in Proc, OnTime(p), Handle, UNCHANGED clientVars
  PROVE  OnTime(p)'
<1>1. /\ inQ \in Seq(Datagram) /\ UNCHANGED <<inQ, request>>
      /\ mainPc = "handle" /\ mainPc' = "send" /\ request \in Datagram
  BY DEF TypedSystem, Inv, TypeOK, OutsideTypeOK, MainTypeOK, ServerInv, InService,
     Handle, Handling, GrantHelo, DenyHelo, GbyeRelease, GbyeUnknown, ValidCheck,
     Garbled, UnknownRequest
<1>2. SameAsker(p) /\ inbox'[p] = inbox[p]
  BY DEF SameAsker, SameFlags
<1>3. [ServerNext]_serverVars
  BY DEF ServerNext
<1>4. CASE request.from # p
  <2>1. TicketsOf(p)' \subseteq TicketsOf(p)
    BY <1>3, <1>4, TicketsShrink
  <2>2. ~Served(p) /\ ~Served(p)'
    BY <1>1, <1>4 DEF Served
  <2>3. \A i \in 1..Len(inQ') : i + 0 \in 1..Len(inQ) /\ inQ'[i] = inQ[i + 0]
    BY <1>1
  <2>4. \A i \in 1..Len(inQ) : i - 0 \in 1..Len(inQ') /\ inQ'[i - 0] = inQ[i]
    BY <1>1
  <2> QED BY <1>1, <1>2, <2>1, <2>2, <2>3, <2>4, OnTimeFrame
<1>5. CASE request.from = p
  <2> USE DEF OnTime, SameAsker, SameFlags
  <2>1. /\ Served(p) /\ Served(p)' /\ NotQueued(p) /\ NotQueued(p)'
        /\ inbox[p] = << >> /\ inbox'[p] = << >>
    BY <1>1, <1>2, <1>5 DEF Served, NotQueued, OneRequest
  <2>2. /\ Waiting(p)' /\ Waiting(p) /\ Asker(p)' = Asker(p)
        /\ \A op : Asks(p, op)' <=> Asks(p, op)
    BY <1>2, <2>1 DEF Waiting, Asker, Asks, OneRequest, Nothing
  <2>3. OneRequest(p)' /\ RequestAsAsked(p)' /\ Asked(p, request)
    BY <1>1, <1>2, <2>1, <2>2 DEF OneRequest, RequestAsAsked, Asked, NotQueued
  <2>4. AnswerTo(p) = NoResponse /\ AnswerTo(p)' = response'
    BY <1>1, <2>1 DEF AnswerTo, Served
  <2>5. /\ Asks(p, "HELO") <=> request.op = "HELO"
        /\ Asks(p, "VALID") <=> request.op = "VALID"
        /\ at[p].hb \notin {"sleep", "store"}
    BY <2>2, <2>3 DEF Asked, Asks, Waiting, Asker
  <2>6. Asks(p, "HELO") => TicketsOf(p) = {}
    BY <2>4 DEF TableFits, NoResponse
  <2>7. CASE GrantHelo
    <3>1. PICK id \in 1..(Cardinality(DOMAIN tickets) + 1) :
            /\ tickets' = [t \in DOMAIN tickets \cup {id} |->
                             IF t = id THEN request.from ELSE tickets[t]]
            /\ response' = [kind |-> "TICK", ticket |-> id]
      BY <2>7 DEF GrantHelo
    <3>2. TicketsOf(p) = {} /\ request.op = "HELO"
      BY <2>5, <2>6, <2>7 DEF GrantHelo, Handling
    <3>3. \A t \in TicketsOf(p)' : t = id
      BY <3>1, <3>2 DEF TicketsOf
    <3> QED BY <1>2, <2>2, <2>3, <2>4, <2>5, <3>1, <3>2, <3>3 DEF TableFits
  <2>8. CASE ~GrantHelo
    <3>1. TicketsOf(p)' \subseteq TicketsOf(p)
      BY <1>3, <2>8, TicketsShrink
    <3>2. CASE request.op # "VALID"
      BY <1>2, <2>2, <2>3, <2>4, <2>5, <2>6, <3>1, <3>2 DEF TableFits
    <3>3. CASE request.op = "VALID"
      <4>1. \A t \in TicketsOf(p) : t = request.ticket
        BY <2>3, <2>5, <3>3 DEF TableFits, Asked
      <4>2. response'.kind # "GOOD" => TicketsOf(p) = {}
        <5>1. CASE ValidCheck
          BY <1>5, <4>1, <5>1 DEF ValidCheck, Answer, IsHeldBySender, TicketsOf
        <5>2. CASE Garbled
          BY <4>1, <5>2, MaxUsersAssumption
             DEF Garbled, TypedSystem, Inv, TypeOK, TableTypeOK, TicketsOf
        <5> QED BY <3>3, <5>1, <5>2
            DEF Handle, Handling, GrantHelo, DenyHelo, GbyeRelease, GbyeUnknown,
                UnknownRequest
      <4> QED BY <1>2, <2>2, <2>3, <2>4, <2>5, <3>1, <3>3, <4>2 DEF TableFits
    <3> QED BY <3>2, <3>3
  <2> QED BY <2>7, <2>8
<1> QED BY <1>4, <1>5

(* The answer reaches p's inbox, where there is room: p was waiting for    *)
(* nothing else.                                                           *)
LEMMA RespondOnTime ==
  ASSUME TypedSystem, NEW p \in Proc, OnTime(p), life[p] = "alive", Respond
  PROVE  OnTime(p)'
<1>1. /\ inQ \in Seq(Datagram) /\ UNCHANGED <<inQ, tickets>>
      /\ mainPc = "send" /\ mainPc' = "recv" /\ request \in Datagram
      /\ response \in Response
  BY DEF TypedSystem, Inv, TypeOK, OutsideTypeOK, MainTypeOK, ServerInv, InService,
     Respond, Reply
<1>2. SameAsker(p) /\ TicketsOf(p)' = TicketsOf(p)
  BY DEF Respond, Reply, SameAsker, SameFlags, TicketsOf
<1>3. ~Served(p)'
  BY <1>1 DEF Served
<1>4. CASE request.from # p
  <2>1. inbox'[p] = inbox[p]
    BY <1>4 DEF Respond, TypedSystem, ClientTypeOK
  <2>2. ~Served(p)
    BY <1>4 DEF Served
  <2>3. \A i \in 1..Len(inQ') : i + 0 \in 1..Len(inQ) /\ inQ'[i] = inQ[i + 0]
    BY <1>1
  <2>4. \A i \in 1..Len(inQ) : i - 0 \in 1..Len(inQ') /\ inQ'[i - 0] = inQ[i]
    BY <1>1
  <2> QED BY <1>1, <1>2, <1>3, <2>1, <2>2, <2>3, <2>4, OnTimeFrame
<1>5. CASE request.from = p
  <2> USE DEF OnTime, SameAsker, SameFlags
  <2>1. Served(p) /\ NotQueued(p) /\ NotQueued(p)' /\ inbox[p] = << >>
    BY <1>1, <1>5 DEF Served, NotQueued, OneRequest
  <2>2. inbox'[p] = <<response>>
    <3>1. Len(inbox[p]) < InboxCap
      BY <2>1, ClientBoundsAssumption
    <3>2. inbox'[p] = Append(inbox[p], response)
      BY <1>5, <3>1 DEF Respond, TypedSystem, ClientTypeOK
    <3> QED BY <2>1, <3>2
  <2>3. /\ Waiting(p)' /\ Waiting(p) /\ Asker(p)' = Asker(p)
        /\ \A op : Asks(p, op)' <=> Asks(p, op)
    BY <1>2, <2>1 DEF Waiting, Asker, Asks, OneRequest, Nothing
  <2>4. OneRequest(p)'
    BY <1>3, <2>1, <2>2, <2>3 DEF OneRequest, NotQueued
  <2>5. RequestAsAsked(p)'
    BY <1>3, <2>1 DEF RequestAsAsked, NotQueued
  <2>6. AnswerTo(p) = response /\ AnswerTo(p)' = response
    BY <1>1, <2>1, <2>2 DEF AnswerTo
  <2>7. TableFits(p)'
    BY <1>1, <1>2, <2>1, <2>3, <2>6 DEF TableFits
  <2> QED BY <2>4, <2>5, <2>7
<1> QED BY <1>4, <1>5

(* The reclaim thread only takes tickets; a crash takes everything.        *)
LEMMA OtherServerOnTime ==
  ASSUME TypedSystem, NEW p \in Proc, OnTime(p), UNCHANGED clientVars,
         Reclaim \/ ServerCrash \/ ServerStart
  PROVE  OnTime(p)'
<1>1. inQ \in Seq(Datagram) /\ SameAsker(p) /\ inbox'[p] = inbox[p]
  BY DEF TypedSystem, Inv, TypeOK, OutsideTypeOK, SameAsker, SameFlags
<1>2. CASE Reclaim \/ ServerStart
  <2>1. UNCHANGED <<inQ, mainPc, request, response>>
    BY <1>2 DEF Reclaim, ReclaimEnter, ReclaimCheck, ReclaimErase, ServerStart
  <2>2. TicketsOf(p)' \subseteq TicketsOf(p)
    <3>1. [ServerNext]_serverVars
      BY <1>2 DEF ServerNext, Environment
    <3>2. ~GrantHelo
      BY <2>1 DEF GrantHelo, Handling
    <3> QED BY <3>1, <3>2, TicketsShrink
  <2>3. \A i \in 1..Len(inQ') : i + 0 \in 1..Len(inQ) /\ inQ'[i] = inQ[i + 0]
    BY <1>1, <2>1
  <2>4. \A i \in 1..Len(inQ) : i - 0 \in 1..Len(inQ') /\ inQ'[i - 0] = inQ[i]
    BY <1>1, <2>1
  <2> QED BY <1>1, <2>1, <2>2, <2>3, <2>4, OnTimeFrame
<1>3. CASE ServerCrash
  <2> USE DEF OnTime, SameAsker, SameFlags
  <2>1. NotQueued(p)' /\ ~Served(p)' /\ TicketsOf(p)' = {}
    BY <1>3 DEF ServerCrash, NotQueued, Served, TicketsOf
  <2>2. /\ Waiting(p)' <=> Waiting(p)
        /\ \A op : Asks(p, op)' <=> Asks(p, op)
    BY <1>1 DEF Waiting, Asker, Asks
  <2>3. OneRequest(p)'
    BY <1>1, <2>1, <2>2 DEF OneRequest, Nothing, NotQueued
  <2>4. RequestAsAsked(p)'
    BY <2>1 DEF RequestAsAsked, NotQueued
  <2>5. TableFits(p)'
    BY <1>1, <2>1, <2>2 DEF TableFits
  <2> QED BY <2>3, <2>4, <2>5
<1> QED BY <1>2, <1>3

(* Another program's step adds at most a datagram of its own to the queue. *)
LEMMA OthersOnTime ==
  ASSUME TypedSystem, NEW p \in Proc, NEW q \in Proc, q # p, OnTime(p), ClientStep(q)
  PROVE  OnTime(p)'
<1>1. SameAsker(p) /\ inbox'[p] = inbox[p]
  BY ClientStepTypes
     DEF TypedSystem, OthersUntouched, FlagsUntouched, SocketUntouched, SameAsker, SameFlags
<1>2. TicketsOf(p)' = TicketsOf(p) /\ UNCHANGED <<mainPc, request, response>>
  BY ClientStepLife DEF TypedSystem, Inv, TicketsOf
<1>3. /\ inQ \in Seq(Datagram) /\ inQ' \in Seq(Datagram)
      /\ \A i \in 1..Len(inQ') : inQ'[i].from = p =>
           i + 0 \in 1..Len(inQ) /\ inQ'[i] = inQ[i + 0]
      /\ \A i \in 1..Len(inQ) : i - 0 \in 1..Len(inQ') /\ inQ'[i - 0] = inQ[i]
  <2>1. inQ \in Seq(Datagram)
    BY DEF TypedSystem, Inv, TypeOK, OutsideTypeOK
  <2>2. CASE inQ' = inQ
    BY <2>1, <2>2
  <2>3. CASE inQ' # inQ
    <3>1. PICK th \in Thread, t \in 0..MaxUsers :
            LET m == [op |-> doing[q][th], from |-> q, ticket |-> t]
            IN  Arrive(m) /\ m \in Datagram
      BY <2>3, WhoSends
    <3> DEFINE m == [op |-> doing[q][th], from |-> q, ticket |-> t]
    <3>2. /\ Len(inQ') = Len(inQ) + 1 /\ inQ'[Len(inQ) + 1] = m
          /\ \A i \in 1..Len(inQ) : inQ'[i] = inQ[i]
          /\ inQ' \in Seq(Datagram)
      BY <2>1, <3>1, ArrivalShows, AppendProperties DEF Arrive, TypedSystem, Inv
    <3> QED BY <2>1, <3>2
  <2> QED BY <2>2, <2>3
<1> QED BY <1>1, <1>2, <1>3, OnTimeFrame

(* A program that has just started is in no queue and has no ticket.       *)
LEMMA StartsOnTime ==
  ASSUME TypedSystem, NEW p \in Proc, Lifecycle(p), ClientStep(p), Starts(p)
  PROVE  OnTime(p)'
<1>1. UNCHANGED <<inQ, mainPc, request, tickets>>
  BY WhoSends, ClientStepLife DEF TypedSystem, Inv, Starts, Sends
<1>2. NotQueued(p)' /\ ~Served(p)' /\ TicketsOf(p)' = {}
  BY <1>1 DEF TypedSystem, Inv, ServerInv, InService, SendersStarted, Started, Starts,
     NotQueued, Served, TicketsOf
<1>3. inbox'[p] = << >> /\ at'[p].hb = "off" /\ at'[p].main = "send"
      /\ doing'[p].main = "HELO"
  BY DEF Starts, Lifecycle, SameThread, NotRunning
<1>4. ~Waiting(p)' /\ ~Asks(p, "VALID")'
  BY <1>3 DEF Waiting, Asks, Asker
<1> QED BY <1>2, <1>3, <1>4
    DEF OnTime, OneRequest, RequestAsAsked, TableFits, Nothing, NotQueued

(* A step of p that is not a receive, a send or its start is one of the    *)
(* thread that asks, which waits for nothing.                              *)
LEMMA QuietOnTime ==
  ASSUME TypedSystem, NEW p \in Proc, OnTime(p), Alone(p), Alone(p)',
         ClientStep(p), Wakes(p) \/ GivesUp(p) \/ Stores(p)
  PROVE  OnTime(p)'
<1> USE DEF OnTime, Moves, SameThread, SameFlags, HbLoop, Running
<1>1. UNCHANGED <<inQ, mainPc, request, response, tickets, inbox>> /\ "main" \in Thread
  BY WhoSends, ClientStepLife
     DEF TypedSystem, Inv, Wakes, GivesUp, Stores, Sends, Thread
<1>2. /\ TicketsOf(p)' = TicketsOf(p)
      /\ NotQueued(p)' <=> NotQueued(p)
      /\ Served(p)' <=> Served(p)
  BY <1>1 DEF TicketsOf, NotQueued, Served
<1>3. /\ at[p].hb \in {"sleep", "send", "store"} /\ at[p].main = "run"
      /\ at'[p].main = "run" /\ at'[p].hb \in {"send", "sleep"}
  BY <1>1 DEF Wakes, GivesUp, Stores, Alone
<1>4. ~Waiting(p) /\ ~Waiting(p)' /\ Asker(p) = "hb" /\ Asker(p)' = "hb"
  BY <1>3 DEF Waiting, Asker
<1>5. Nothing(p) /\ Nothing(p)'
  BY <1>1, <1>2, <1>4 DEF OneRequest, Nothing
<1>6. OneRequest(p)' /\ RequestAsAsked(p)'
  BY <1>4, <1>5 DEF OneRequest, RequestAsAsked, Nothing, NotQueued
<1>7. TableFits(p)'
  <2>1. CASE Wakes(p)
    BY <1>2, <1>3, <1>4, <2>1 DEF Wakes, TableFits, Asks
  <2>2. CASE GivesUp(p)
    BY <1>3, <1>4, <2>2 DEF GivesUp, TableFits, Asks
  <2>3. CASE Stores(p)
    BY <1>2, <1>3, <1>4, <2>3 DEF Stores, TableFits, Asks
  <2> QED BY <2>1, <2>2, <2>3
<1> QED BY <1>6, <1>7

(* A request leaves p, or is lost: a heartbeat only because the server is  *)
(* down, and with it every ticket.                                         *)
LEMMA SendsOnTime ==
  ASSUME TypedSystem, NEW p \in Proc, NEW th \in Thread, OnTime(p), Alone(p),
         DownEmpty, RoomForHeartbeat, ClientStep(p), Sends(p, th)
  PROVE  OnTime(p)'
<1> USE DEF OnTime, SameFlags
<1>1. /\ UNCHANGED <<mainPc, request, response, tickets, inbox>>
      /\ inQ \in Seq(Datagram) /\ Len(inQ) \in Nat
  BY ClientStepLife DEF TypedSystem, Inv, TypeOK, OutsideTypeOK, Sends
<1>2. /\ TicketsOf(p)' = TicketsOf(p)
      /\ Served(p)' <=> Served(p)
  BY <1>1 DEF TicketsOf, Served
<1>3. /\ th = Asker(p) /\ Asker(p)' = th /\ at[p][th] = "send" /\ at'[p][th] = "sent"
      /\ doing'[p] = doing[p]
      /\ at[p].hb = "store" <=> at'[p].hb = "store"
      /\ at[p].hb = "sleep" <=> at'[p].hb = "sleep"
  BY DEF Sends, Moves, SameThread, Alone, Asker, Thread
<1>4. ~Waiting(p) /\ Waiting(p)' /\ (\A op : Asks(p, op)' <=> Asks(p, op))
  BY <1>3 DEF Waiting, Asks
<1>5. NotQueued(p) /\ ~Served(p) /\ inbox[p] = << >>
  BY <1>4 DEF OneRequest, Nothing
<1>6. AnswerTo(p) = NoResponse /\ AnswerTo(p)' = NoResponse
  BY <1>1, <1>2, <1>5 DEF AnswerTo
<1>7. CASE \E m : Arrive(m)
  <2>1. PICK m : Arrive(m)
    BY <1>7
  <2>2. PICK u \in Thread :
          /\ m \in Datagram /\ m.from = p /\ m.op = doing[p][u] /\ Sends(p, u)
          /\ m.op = "VALID" => hasTicket[p] /\ m.ticket = ticket[p]
    BY <2>1, ArrivalIsRequest
  <2>3. u = th
    BY <1>3, <2>2 DEF Sends, Moves, SameThread
  <2>4. /\ Len(inQ') = Len(inQ) + 1 /\ inQ'[Len(inQ) + 1] = m
        /\ \A i \in 1..Len(inQ) : inQ'[i] = inQ[i]
    BY <2>1, ArrivalShows DEF TypedSystem, Inv
  <2>5. /\ \A i \in 1..Len(inQ') : inQ'[i].from = p => i = Len(inQ) + 1
        /\ Len(inQ) + 1 \in 1..Len(inQ')
    BY <1>1, <1>5, <2>4 DEF NotQueued
  <2>6. ~NotQueued(p)'
    BY <2>2, <2>4, <2>5 DEF NotQueued
  <2>7. OneRequest(p)'
    BY <1>1, <1>2, <1>4, <1>5, <2>5 DEF OneRequest
  <2>8. RequestAsAsked(p)'
    <3>1. Asked(p, m)'
      BY <1>3, <2>2, <2>3 DEF Asked, Sends
    <3> QED BY <1>2, <1>5, <2>4, <2>5, <3>1 DEF RequestAsAsked
  <2>9. TableFits(p)'
    BY <1>2, <1>3, <1>4, <1>6, <2>6 DEF TableFits, Sends
  <2> QED BY <2>7, <2>8, <2>9
<1>8. CASE ~\E m : Arrive(m)
  <2>1. inQ' = inQ
    BY <1>8, WhoSends
  <2>2. NotQueued(p)'
    BY <1>5, <2>1 DEF NotQueued
  <2>3. OneRequest(p)' /\ RequestAsAsked(p)'
    BY <1>1, <1>2, <1>4, <1>5, <2>2 DEF OneRequest, RequestAsAsked, NotQueued
  <2>4. Asks(p, "VALID") => TicketsOf(p) = {}
    <3>1. SUFFICES ASSUME Asks(p, "VALID") PROVE ~up
      BY DEF DownEmpty, TicketsOf
    <3>2. th = "hb"
      BY <1>3, <3>1 DEF Asks, TypedSystem, ClientTypeOK, Thread
    <3>3. Running(p) /\ at[p].hb = "send"
      BY <1>3, <3>2 DEF Alone, Running
    <3> QED BY <1>1, <2>1, <3>3 DEF RoomForHeartbeat, Sends, TypedSystem, Inv, TypeOK,
            OutsideTypeOK
  <2>5. TableFits(p)'
    BY <1>2, <1>3, <1>4, <1>6, <2>4 DEF TableFits, Sends
  <2> QED BY <2>3, <2>5
<1> QED BY <1>7, <1>8

LEMMA BeginsOnTime ==
  ASSUME TypedSystem, NEW p \in Proc, NEW th \in Thread, OnTime(p), Alone(p),
         ClientStep(p), Begins(p, th)
  PROVE  OnTime(p)'
<1> USE DEF OnTime, SameFlags
<1>1. UNCHANGED <<inQ, mainPc, request, response, tickets, inbox>>
  BY WhoSends, ClientStepLife DEF TypedSystem, Inv, Begins, Sends, Moves, SameThread
<1>2. /\ TicketsOf(p)' = TicketsOf(p)
      /\ NotQueued(p)' <=> NotQueued(p)
      /\ Served(p)' <=> Served(p)
      /\ AnswerTo(p)' = AnswerTo(p)
  BY <1>1 DEF TicketsOf, NotQueued, Served, AnswerTo
<1>3. /\ th = Asker(p) /\ Asker(p)' = th /\ at[p][th] = "sent" /\ at'[p][th] = "wait"
      /\ doing'[p] = doing[p]
      /\ at[p].hb = "store" <=> at'[p].hb = "store"
      /\ at[p].hb = "sleep" <=> at'[p].hb = "sleep"
  BY DEF Begins, Moves, SameThread, Alone, Asker, Thread
<1>4. Waiting(p) /\ Waiting(p)' /\ (\A op : Asks(p, op)' <=> Asks(p, op))
  BY <1>3 DEF Waiting, Asks
<1>5. OneRequest(p)' /\ RequestAsAsked(p)'
  BY <1>1, <1>2, <1>3, <1>4 DEF OneRequest, RequestAsAsked, Asked, Begins
<1>6. TableFits(p)'
  BY <1>1, <1>2, <1>3, <1>4 DEF TableFits, Begins
<1> QED BY <1>5, <1>6

(* What p makes of r, when r was all that was under way and the table fits *)
(* it: a ticket is stored as it was granted, one that was not confirmed is *)
(* gone before p asks for another.                                         *)
LEMMA ReturnsOnTime ==
  ASSUME TypedSystem, NEW p \in Proc, NEW th \in Thread, NEW r,
         OnTime(p), Alone(p), Alone(p)', Returns(p, th, r),
         NotQueued(p), ~Served(p), inbox'[p] = << >>, r = AnswerTo(p),
         UNCHANGED <<inQ, mainPc, request, response, tickets>>
  PROVE  OnTime(p)'
<1> USE DEF OnTime, SameFlags, Moves, SameThread
<1>1. TicketsOf(p)' = TicketsOf(p) /\ Nothing(p)'
  BY DEF TicketsOf, NotQueued, Served, Nothing
<1>2. OneRequest(p)' /\ RequestAsAsked(p)'
  BY <1>1 DEF OneRequest, RequestAsAsked, Nothing, NotQueued
<1>3. at[p][th] = "wait" /\ th = Asker(p) /\ Waiting(p) /\ "main" \in Thread /\ "hb" \in Thread
  BY DEF Returns, AsksAgain, BeginsToRun, GetsAnother, Leaves, IsConfirmed,
     MustReacquire, Alone, Asker, Waiting, Thread
<1>4. TableFits(p)'
  <2>1. CASE AsksAgain(p, th, r)
    <3>1. Asks(p, "HELO") /\ TicketsOf(p) = {}
      BY <1>3, <2>1 DEF AsksAgain, Asks, TableFits
    <3>2. at'[p][th] = "send" /\ Asker(p)' = th /\ doing'[p][th] = "HELO"
      BY <1>3, <2>1 DEF AsksAgain, Asker, Thread
    <3> QED BY <1>1, <1>3, <2>1, <3>1, <3>2 DEF AsksAgain, TableFits, Asks, Asker, Thread
  <2>2. CASE BeginsToRun(p, th, r)
    <3>1. \A t \in TicketsOf(p) : t = r.ticket
      BY <1>3, <2>2 DEF BeginsToRun, Asks, TableFits
    <3>2. Asker(p)' = "hb" /\ at'[p].hb = "sleep"
      BY <2>2 DEF BeginsToRun, Asker
    <3> QED BY <1>1, <2>2, <3>1, <3>2 DEF BeginsToRun, TableFits, Asks
  <2>3. CASE GetsAnother(p, th, r)
    <3>1. \A t \in TicketsOf(p) : t = r.ticket
      BY <1>3, <2>3 DEF GetsAnother, Asks, TableFits
    <3>2. Asker(p)' = "hb" /\ at'[p].hb = "store"
      BY <2>3 DEF GetsAnother, Asker
    <3> QED BY <1>1, <2>3, <3>1, <3>2 DEF GetsAnother, TableFits, Asks
  <2>4. CASE IsConfirmed(p, th, r)
    <3>1. hasTicket[p] /\ \A t \in TicketsOf(p) : t = ticket[p]
      BY <1>3, <2>4 DEF IsConfirmed, Asks, TableFits
    <3>2. Asker(p)' = "hb" /\ at'[p].hb = "sleep"
      BY <2>4 DEF IsConfirmed, Asker, Alone, HbLoop, Running
    <3> QED BY <1>1, <2>4, <3>1, <3>2 DEF IsConfirmed, TableFits, Asks
  <2>5. CASE MustReacquire(p, th, r)
    <3>1. TicketsOf(p) = {}
      BY <1>3, <2>5 DEF MustReacquire, Asks, TableFits
    <3>2. Asker(p)' = "hb" /\ at'[p].hb = "send" /\ doing'[p].hb = "HELO"
      BY <2>5 DEF MustReacquire, Asker
    <3> QED BY <1>1, <2>5, <3>1, <3>2 DEF TableFits, Asks
  <2>6. ~Leaves(p, th, r)
    BY <1>3 DEF Leaves, Alone
  <2> QED BY <2>1, <2>2, <2>3, <2>4, <2>5, <2>6 DEF Returns
<1> QED BY <1>2, <1>4

LEMMA ReceiveOnTime ==
  ASSUME TypedSystem, NEW p \in Proc, NEW th \in Thread, OnTime(p), Alone(p), Alone(p)',
         Receive(p, th), Returns(p, th, Head(inbox[p]))
  PROVE  OnTime(p)'
<1>1. inbox[p] \in Seq(Response) /\ inbox[p] # << >> /\ inbox'[p] = Tail(inbox[p])
  BY DEF Receive, TypedSystem, ClientTypeOK
<1>2. Len(inbox[p]) = 1 /\ NotQueued(p) /\ ~Served(p)
  BY <1>1 DEF OnTime, OneRequest
<1>3. inbox'[p] = << >> /\ Head(inbox[p]) = AnswerTo(p)
  <2>1. Tail(inbox[p]) \in Seq(Response) /\ Len(Tail(inbox[p])) = 0
    BY <1>1, <1>2, HeadTailProperties
  <2>2. Tail(inbox[p]) = << >>
    BY <2>1, EmptySeq
  <2> QED BY <1>1, <2>2 DEF AnswerTo
<1>4. UNCHANGED <<inQ, mainPc, request, response, tickets>>
  BY DEF Receive
<1> QED BY <1>2, <1>3, <1>4, ReturnsOnTime

(* A timeout that is not late: nothing is under way, and nothing was done. *)
LEMMA TimeoutOnTime ==
  ASSUME TypedSystem, NEW p \in Proc, NEW th \in Thread, OnTime(p), Alone(p), Alone(p)',
         late' = 0, Timeout(p, th), Returns(p, th, NoResponse)
  PROVE  OnTime(p)'
<1>1. ~InServer(p)
  BY DEF Timeout, TypedSystem, ClientTypeOK
<1>2. NotQueued(p) /\ ~Served(p)
  BY <1>1 DEF InServer, NotQueued, Served
<1>3. inbox[p] = << >> /\ inbox'[p] = << >> /\ UNCHANGED <<inQ, mainPc, request, response, tickets>>
  BY DEF Timeout
<1>4. NoResponse = AnswerTo(p)
  BY <1>2, <1>3 DEF AnswerTo
<1> QED BY <1>2, <1>3, <1>4, ReturnsOnTime

LEMMA StepOnTime ==
  TypedSystem /\ LocalInv /\ DownEmpty /\ RoomForHeartbeat /\ OnTimeInv /\ [Next]_systemVars
    => OnTimeInv'
<1> SUFFICES ASSUME TypedSystem, LocalInv, DownEmpty, RoomForHeartbeat, OnTimeInv,
                    [Next]_systemVars, late' = 0, NEW p \in Proc, Alone(p)'
             PROVE  OnTime(p)'
  BY DEF OnTimeInv
<1> USE DEF LocalInv
<1>1. TypeOK /\ ClientTypeOK /\ Lifecycle(p)
  BY DEF TypedSystem, Inv
<1>2. CASE ServerStep \/ ((ServerCrash \/ ServerStart) /\ UNCHANGED clientVars)
  <2>1. UNCHANGED <<at, doing, flagVars, late>>
    BY <1>2, ServerStepTypes
  <2>2. Alone(p) /\ OnTime(p)
    BY <2>1 DEF Alone, OnTimeInv
  <2>3. life[p] = "alive"
    BY <1>1, <2>2 DEF Lifecycle, Alone, NotRunning, NoRequests
  <2> QED BY <1>2, <2>2, <2>3, RecvOnTime, HandleOnTime, RespondOnTime, OtherServerOnTime
      DEF ServerStep
<1>3. ASSUME NEW q \in Proc, ClientStep(q), q # p PROVE OnTime(p)'
  <2>1. Alone(p)
    BY <1>1, <1>3, ClientStepTypes DEF OthersUntouched, FlagsUntouched, Alone
  <2>2. late = 0
    BY <1>1, <1>3 DEF ClientStep, Start, PressQ, Die, MainStep, HbStep, Exit,
       DecideRelease, SendHelo, SendBye, SendValid, Transmitted, BeginRecv, Receive,
       Timeout, Wake, ValidateNothing, Store, ClientTypeOK
  <2> QED BY <1>3, <2>1, <2>2, OthersOnTime DEF OnTimeInv
<1>4. CASE ClientStep(p)
  <2>1. LocalStep(p)
    BY <1>1, <1>4, StepIsLocal
  <2>2. late = 0
    BY <1>1, <1>4 DEF ClientStep, Start, PressQ, Die, MainStep, HbStep, Exit,
       DecideRelease, SendHelo, SendBye, SendValid, Transmitted, BeginRecv, Receive,
       Timeout, Wake, ValidateNothing, Store, ClientTypeOK
  <2>3. CASE Starts(p)
    BY <1>1, <1>4, <2>3, StartsOnTime
  <2>4. CASE Dies(p) \/ Quits(p)
    BY <1>1, <2>4 DEF Dies, Quits, Alone, Lifecycle, Moves, SameThread, NotRunning,
       NoRequests, Thread
  <2>5. ASSUME ~Starts(p), ~Dies(p), ~Quits(p) PROVE Alone(p) /\ OnTime(p)
    <3>1. Alone(p)
      <4>1. "main" \in Thread /\ "hb" \in Thread
        BY DEF Thread
      <4>2. CASE Wakes(p) \/ GivesUp(p) \/ Stores(p)
        BY <4>1, <4>2 DEF Wakes, GivesUp, Stores, Moves, SameThread, Alone, HbLoop, Running
      <4>3. ASSUME NEW th \in Thread, Sends(p, th) \/ Begins(p, th) PROVE Alone(p)
        BY <4>1, <4>3 DEF Sends, Begins, Moves, SameThread, Alone, Thread
      <4>4. ASSUME NEW th \in Thread, NEW r, Returns(p, th, r) PROVE Alone(p)
        BY <4>1, <4>4 DEF Returns, AsksAgain, BeginsToRun, GetsAnother, Leaves, IsConfirmed,
           MustReacquire, Moves, SameThread, Alone, HbLoop, Running, Thread
      <4> QED BY <2>1, <2>5, <4>2, <4>3, <4>4 DEF LocalStep
    <3> QED BY <2>2, <3>1 DEF OnTimeInv
  <2>6. CASE Wakes(p) \/ GivesUp(p) \/ Stores(p)
    BY <1>4, <2>3, <2>4, <2>5, <2>6, QuietOnTime
  <2>7. ASSUME NEW th \in Thread, Sends(p, th) \/ Begins(p, th) PROVE OnTime(p)'
    BY <1>4, <2>3, <2>4, <2>5, <2>7, SendsOnTime, BeginsOnTime
  <2>8. ASSUME NEW th \in Thread,
               \/ Returns(p, th, NoResponse) /\ Timeout(p, th)
               \/ Returns(p, th, Head(inbox[p])) /\ Receive(p, th)
        PROVE  OnTime(p)'
    BY <2>3, <2>4, <2>5, <2>8, ReceiveOnTime, TimeoutOnTime
  <2> QED BY <2>1, <2>3, <2>4, <2>6, <2>7, <2>8 DEF LocalStep
<1>5. CASE UNCHANGED systemVars
  BY <1>5 DEF OnTimeInv, Alone, OnTime, OneRequest, RequestAsAsked, TableFits, Asked,
     Asks, Asker, Waiting, NotQueued, Served, Nothing, AnswerTo, TicketsOf
<1> QED BY <1>2, <1>3, <1>4, <1>5, StepOfOne

(* As long as no answer comes after its timeout and no heartbeat finds the *)
(* server's socket buffer full, a running program has at most one ticket,  *)
(* with any number of programs that start, quit, die or reuse a process id *)
(* and any number of crashes and restarts of the server.  Both conditions  *)
(* are needed: a heartbeat that is lost or late makes the program ask for  *)
(* a second ticket while the table still has its first.                    *)
THEOREM OneTicket == Spec /\ []RoomForHeartbeat => []OneTicketIfOnTime
<1>1. Init => DownEmpty /\ OnTimeInv
  <2> SUFFICES ASSUME Init PROVE DownEmpty /\ OnTimeInv
    OBVIOUS
  <2>1. \A p \in Proc : ~Alone(p)
    BY DEF Init, ClientInit, Alone, NotRunning, NoRequests
  <2> QED BY <2>1 DEF Init, ServerInit, DownEmpty, OnTimeInv
<1>2. TypedSystem /\ [Next]_systemVars => [ServerNext]_serverVars
  BY StepIsServerStep DEF TypedSystem
<1>3. TypedSystem /\ LocalInv /\ OnTimeInv => OneTicketIfOnTime
  <2> SUFFICES ASSUME TypedSystem, LocalInv, OnTimeInv, late = 0, NEW p \in Proc, Running(p)
               PROVE  Cardinality(TicketsOf(p)) <= 1
    BY DEF OneTicketIfOnTime
  <2>1. Alone(p) /\ OnTime(p) /\ Asker(p) = "hb"
    BY DEF Running, Alone, OnTimeInv, LocalInv, Lifecycle, Asker
  <2>2. PICK x : TicketsOf(p) \subseteq {x}
    <3>1. CASE at[p].hb = "store" \/ at[p].hb = "sleep"
      BY <2>1, <3>1 DEF OnTime, TableFits
    <3>2. CASE at[p].hb \in {"send", "sent", "wait"}
      <4>1. doing[p].hb \in {"HELO", "VALID"}
        BY <3>2 DEF LocalInv, Lifecycle
      <4> QED BY <2>1, <3>2, <4>1 DEF OnTime, TableFits, Asks
    <3>3. at[p].hb \notin {"off", "end"}
      BY DEF LocalInv, Lifecycle, Running
    <3> QED BY <3>1, <3>2, <3>3 DEF TypedSystem, ClientTypeOK, HbAt
  <2> HIDE DEF TicketsOf
  <2>3. IsFiniteSet({x}) /\ Cardinality({x}) = 1
    BY FS_Singleton
  <2> QED BY <2>2, <2>3, FS_Subset
<1> QED BY <1>1, <1>2, <1>3, StepDown, StepOnTime, TypedAlways, LocalAlways, PTL DEF Spec
=============================================================================
