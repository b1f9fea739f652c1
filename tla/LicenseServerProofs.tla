-------------------------- MODULE LicenseServerProofs --------------------------
(***************************************************************************)
(* Proofs about the licence server for every set of processes, process ids *)
(* and number of licences: its inductive invariant and what follows.       *)
(***************************************************************************)
EXTENDS LicenseServer, FiniteSetTheorems, SequenceTheorems, TLAPS

(* The inductive invariant.  TypeOK is not inductive alone: that an id is  *)
(* in 1..MaxUsers rests on the count being the size of the table.          *)
Inv == TypeOK /\ ServerInv

USE DEF serverVars, mainVars, tableVars, reclaimVars

-----------------------------------------------------------------------------
(* A nonempty set of naturals has a least element (the library's induction *)
(* theorems need an operator argument; well-foundedness of the strict      *)
(* inclusion of finite sets does not).                                     *)
LEMMA LeastElement ==
  ASSUME NEW T \in SUBSET Nat, T # {}
  PROVE  \E x \in T : \A y \in T : x <= y
<1> DEFINE Below(x) == {y \in T : y <= x}
           W == {Below(x) : x \in T}
<1>1. \A x \in T : IsFiniteSet(Below(x))
  BY FS_BoundedSetOfNaturals
<1>2. W \subseteq FiniteSubsetsOf(Nat) /\ W # {}
  BY <1>1 DEF FiniteSubsetsOf
<1>3. IsWellFoundedOn(StrictSubsetOrdering(Nat), FiniteSubsetsOf(Nat))
  BY FS_StrictSubsetOrderingWellFounded
<1>4. PICK w \in W : \A v \in W : <<v, w>> \notin StrictSubsetOrdering(Nat)
  <2> HIDE DEF W
  <2> QED BY <1>2, <1>3, WFMin
<1>5. PICK x \in T : w = Below(x)
  OBVIOUS
<1>6. ASSUME NEW y \in T, y < x PROVE FALSE
  <2>1. x \in Below(x) /\ x \notin Below(y)
    BY <1>6
  <2>2. \A z \in Below(y) : z \in Below(x)
    BY <1>6
  <2>3. Below(y) \subseteq Below(x) /\ Below(y) # Below(x)
    BY <2>1, <2>2
  <2>4. <<Below(y), Below(x)>> \in StrictSubsetOrdering(Nat)
    BY <2>3 DEF StrictSubsetOrdering
  <2> QED BY <1>4, <1>5, <2>4
<1> QED BY <1>6

(* The table is finite and its size is the count of users.                 *)
LEMMA TableSize ==
  ASSUME Inv
  PROVE  /\ IsFiniteSet(DOMAIN tickets)
         /\ Cardinality(DOMAIN tickets) = ticketCount
         /\ ticketCount \in Nat
<1>1. IsFiniteSet(1..MaxUsers)
  BY MaxUsersAssumption, FS_Interval
<1>2. IsFiniteSet(DOMAIN tickets)
  BY <1>1, FS_Subset DEF Inv, TypeOK, TableTypeOK
<1> QED BY <1>2, FS_CardinalityType DEF Inv, ServerInv, CountMatchesTable

(* A set of licence numbers of size below MaxUsers leaves one unused.      *)
LEMMA SearchBound ==
  ASSUME NEW S, IsFiniteSet(S)
  PROVE  \E id \in 1..(Cardinality(S) + 1) : id \notin S
<1>1. Cardinality(S) \in Nat
  BY FS_CardinalityType
<1>2. Cardinality(1..(Cardinality(S) + 1)) = Cardinality(S) + 1
  BY <1>1, FS_Interval
<1>3. SUFFICES ASSUME 1..(Cardinality(S) + 1) \subseteq S PROVE FALSE
  OBVIOUS
<1>4. Cardinality(1..(Cardinality(S) + 1)) <= Cardinality(S)
  BY <1>3, FS_Subset
<1> QED BY <1>1, <1>2, <1>4

(* The loop of server.cpp:144 that counts up to the first free id ends     *)
(* after at most one step more than there are tickets, and never returns   *)
(* an id that somebody holds.                                              *)
THEOREM SearchEnds ==
  ASSUME Inv
  PROVE  \E id \in 1..(Cardinality(DOMAIN tickets) + 1) : IsLowestFree(id)
<1> DEFINE bound == Cardinality(DOMAIN tickets) + 1
           Free == {id \in 1..bound : id \notin DOMAIN tickets}
<1>1. IsFiniteSet(DOMAIN tickets) /\ bound \in Nat
  BY TableSize
<1>2. Free # {} /\ Free \subseteq Nat
  BY <1>1, SearchBound
<1>3. PICK id \in Free : \A j \in Free : id <= j
  BY <1>2, LeastElement
<1>4. \A j \in 1..(id - 1) : j \in DOMAIN tickets
  BY <1>1, <1>3
<1> QED BY <1>3, <1>4 DEF IsLowestFree

-----------------------------------------------------------------------------
LEMMA InitInv == ServerInit => Inv
<1> SUFFICES ASSUME ServerInit PROVE Inv
  OBVIOUS
<1> USE DEF ServerInit
<1>1. DOMAIN tickets = {} /\ Cardinality(DOMAIN tickets) = 0
  BY FS_EmptySet
<1>2. OutsideTypeOK /\ MainTypeOK /\ ReclaimTypeOK
  BY BoundsAssumption DEF OutsideTypeOK, MainTypeOK, ReclaimTypeOK
<1>3. TableTypeOK
  BY <1>1, MaxUsersAssumption DEF TableTypeOK
<1>4. ServerInv
  BY <1>1 DEF ServerInv, InService, CountMatchesTable, ScanStaysInTable,
     OnlyDeadMarked, SendersStarted
<1> QED BY <1>2, <1>3, <1>4 DEF Inv, TypeOK

(* Processes start and die; nobody who was started becomes new again and   *)
(* nobody who is dead comes back.                                          *)
LEMMA ProcessInv ==
  ASSUME Inv, NEW p \in Proc, ProcessStart(p) \/ ProcessExit(p)
  PROVE  Inv'
<1> USE DEF ProcessStart, ProcessExit
<1>1. OutsideTypeOK'
  BY DEF Inv, TypeOK, OutsideTypeOK
<1>2. \A q \in Proc : /\ life[q] = "dead" => life'[q] = "dead"
                      /\ life[q] # "new" => life'[q] # "new"
  BY DEF Inv, TypeOK, OutsideTypeOK
<1>3. MainTypeOK' /\ TableTypeOK' /\ ReclaimTypeOK'
  BY DEF Inv, TypeOK, MainTypeOK, TableTypeOK, ReclaimTypeOK
<1>4. InService' /\ CountMatchesTable' /\ ScanStaysInTable'
  BY DEF Inv, ServerInv, InService, CountMatchesTable, ScanStaysInTable
<1>5. OnlyDeadMarked'
  BY <1>2 DEF Inv, TypeOK, TableTypeOK, ServerInv, OnlyDeadMarked, ScanStaysInTable
<1>6. SendersStarted'
  <2>1. \A t \in DOMAIN tickets : Started(tickets[t])'
    BY <1>2 DEF Inv, TypeOK, TableTypeOK, ServerInv, SendersStarted, Started
  <2>2. \A i \in 1..Len(inQ) : Started(inQ[i].from)'
    BY <1>2 DEF Inv, TypeOK, OutsideTypeOK, ServerInv, SendersStarted, Started, Datagram
  <2>3. request # NoRequest => Started(request.from)'
    BY <1>2 DEF Inv, TypeOK, MainTypeOK, ServerInv, SendersStarted, Started, Datagram
  <2> QED BY <2>1, <2>2, <2>3 DEF SendersStarted
<1> QED BY <1>1, <1>3, <1>4, <1>5, <1>6 DEF Inv, TypeOK, ServerInv

LEMMA RequestsAreReal == \A m \in Datagram : m # NoRequest /\ m.from \in Proc
BY DEF Datagram, NoRequest

LEMMA AnswersAreResponses ==
  \A k \in ResponseKind : Answer(k) \in Response /\ Answer(k) # NoResponse
BY MaxUsersAssumption DEF Answer, Response, ResponseKind, NoResponse

LEMMA ArriveInv ==
  ASSUME Inv, NEW m \in Datagram, Arrive(m)
  PROVE  Inv'
<1> USE DEF Arrive
<1>1. OutsideTypeOK'
  BY BoundsAssumption DEF Inv, TypeOK, OutsideTypeOK
<1>2. MainTypeOK' /\ TableTypeOK' /\ ReclaimTypeOK'
  BY DEF Inv, TypeOK, MainTypeOK, TableTypeOK, ReclaimTypeOK
<1>3. SendersStarted'
  <2>1. \A i \in 1..Len(inQ') : inQ'[i] = m \/ (i \in 1..Len(inQ) /\ inQ'[i] = inQ[i])
    BY DEF Inv, TypeOK, OutsideTypeOK
  <2>2. Started(m.from)
    BY DEF Started
  <2> QED BY <2>1, <2>2 DEF Inv, ServerInv, SendersStarted, Started
<1> QED BY <1>1, <1>2, <1>3 DEF Inv, TypeOK, ServerInv, InService,
        CountMatchesTable, ScanStaysInTable, OnlyDeadMarked

LEMMA RecvInv ==
  ASSUME Inv, Recv
  PROVE  Inv'
<1> USE DEF Recv
<1>1. /\ request' = inQ[1] /\ request' \in Datagram
      /\ inQ' \in Seq(Datagram) /\ Len(inQ') = Len(inQ) - 1
      /\ \A i \in 1..Len(inQ') : i + 1 \in 1..Len(inQ) /\ inQ'[i] = inQ[i + 1]
  BY HeadTailProperties DEF Inv, TypeOK, OutsideTypeOK
<1>2. OutsideTypeOK'
  BY <1>1, BoundsAssumption DEF Inv, TypeOK, OutsideTypeOK
<1>3. MainTypeOK'
  BY <1>1 DEF Inv, TypeOK, MainTypeOK
<1>4. TableTypeOK' /\ ReclaimTypeOK'
  BY DEF Inv, TypeOK, TableTypeOK, ReclaimTypeOK
<1>5. InService'
  BY <1>1, RequestsAreReal DEF Inv, ServerInv, InService
<1>6. SendersStarted'
  <2>1. 1 \in 1..Len(inQ)
    BY DEF Inv, TypeOK, OutsideTypeOK
  <2> QED BY <1>1, <2>1 DEF Inv, ServerInv, SendersStarted, Started
<1> QED BY <1>2, <1>3, <1>4, <1>5, <1>6 DEF Inv, TypeOK, ServerInv,
        CountMatchesTable, ScanStaysInTable, OnlyDeadMarked

(* A crash or a restart: nothing of the table is left to be wrong about.   *)
LEMMA CrashInv ==
  ASSUME Inv, ServerCrash \/ ServerStart
  PROVE  Inv'
<1>1. CASE ServerCrash
  <2> USE <1>1 DEF ServerCrash
  <2>1. (DOMAIN tickets)' = {} /\ Cardinality(DOMAIN tickets)' = 0
    BY FS_EmptySet
  <2>2. OutsideTypeOK'
    <3>1. crashes' \in 0..MaxCrashes
      BY BoundsAssumption DEF Inv, TypeOK, OutsideTypeOK
    <3>2. inQ' \in Seq(Datagram) /\ Len(inQ') <= QueueCap
      BY BoundsAssumption
    <3> QED BY <3>1, <3>2 DEF Inv, TypeOK, OutsideTypeOK
  <2>3. MainTypeOK' /\ ReclaimTypeOK'
    BY DEF MainTypeOK, ReclaimTypeOK
  <2>4. TableTypeOK'
    BY <2>1, MaxUsersAssumption DEF TableTypeOK
  <2> QED BY <2>1, <2>2, <2>3, <2>4 DEF Inv, TypeOK, ServerInv, InService,
          CountMatchesTable, ScanStaysInTable, OnlyDeadMarked, SendersStarted
<1>2. CASE ServerStart
  <2> USE <1>2 DEF ServerStart
  <2>1. TypeOK'
    BY DEF Inv, TypeOK, OutsideTypeOK, MainTypeOK, TableTypeOK, ReclaimTypeOK
  <2> QED BY <2>1 DEF Inv, ServerInv, InService, CountMatchesTable,
          ScanStaysInTable, OnlyDeadMarked, SendersStarted, Started
<1> QED BY <1>1, <1>2

(* A new id keeps the count the size of the table, and is a licence number *)
(* because the table has fewer than MaxUsers entries.                      *)
LEMMA GrantInv ==
  ASSUME Inv, GrantHelo
  PROVE  Inv'
<1> USE DEF GrantHelo, Handling
<1>1. PICK id \in 1..(Cardinality(DOMAIN tickets) + 1) :
        /\ id \notin DOMAIN tickets
        /\ tickets' = [t \in DOMAIN tickets \cup {id} |->
                         IF t = id THEN request.from ELSE tickets[t]]
        /\ response' = [kind |-> "TICK", ticket |-> id]
  BY DEF IsLowestFree
<1>2. id \in 1..MaxUsers /\ ticketCount' \in 0..MaxUsers
  BY TableSize, MaxUsersAssumption DEF LicenceLeft
<1>3. request.from \in Proc
  BY DEF Inv, TypeOK, MainTypeOK, ServerInv, InService, Datagram
<1>4. (DOMAIN tickets)' = DOMAIN tickets \cup {id}
  BY <1>1
<1>5. Cardinality(DOMAIN tickets)' = ticketCount'
  BY <1>1, <1>4, TableSize, FS_AddElement
<1>6. OutsideTypeOK' /\ ReclaimTypeOK'
  BY DEF Inv, TypeOK, OutsideTypeOK, ReclaimTypeOK
<1>7. TableTypeOK'
  BY <1>1, <1>2, <1>3, <1>4 DEF Inv, TypeOK, TableTypeOK
<1>8. MainTypeOK'
  <2>1. response' \in Response
    BY <1>1, <1>2 DEF Response, ResponseKind
  <2> QED BY <2>1 DEF Inv, TypeOK, MainTypeOK
<1>9. InService'
  BY <1>1 DEF Inv, ServerInv, InService, NoResponse
<1>10. SendersStarted'
  BY <1>1, <1>4 DEF Inv, ServerInv, SendersStarted, Started, InService
<1>11. ScanStaysInTable' /\ OnlyDeadMarked'
  BY <1>1, <1>4 DEF Inv, ServerInv, ScanStaysInTable, OnlyDeadMarked, CsFree
<1> QED BY <1>5, <1>6, <1>7, <1>8, <1>9, <1>10, <1>11
        DEF Inv, TypeOK, ServerInv, CountMatchesTable

(* Erasing an id that is in the table and counting down once keeps both in *)
(* step; the scan is not running, for the handler has g_cs.                *)
LEMMA ReleaseInv ==
  ASSUME Inv, GbyeRelease
  PROVE  Inv'
<1> USE DEF GbyeRelease, Handling, Restrict
<1>1. (DOMAIN tickets)' = DOMAIN tickets \ {request.ticket}
  OBVIOUS
<1>2. \A t \in (DOMAIN tickets)' : t \in DOMAIN tickets /\ tickets'[t] = tickets[t]
  OBVIOUS
<1>3. /\ Cardinality(DOMAIN tickets)' = ticketCount'
      /\ Cardinality(DOMAIN tickets)' \in Nat
  BY <1>1, TableSize, FS_RemoveElement, FS_CardinalityType
<1>4. ticketCount' \in 0..MaxUsers
  BY <1>3, MaxUsersAssumption DEF Inv, TypeOK, TableTypeOK
<1>5. OutsideTypeOK' /\ ReclaimTypeOK'
  BY DEF Inv, TypeOK, OutsideTypeOK, ReclaimTypeOK
<1>6. MainTypeOK'
  BY AnswersAreResponses DEF Inv, TypeOK, MainTypeOK, ResponseKind
<1>7. TableTypeOK'
  BY <1>1, <1>2, <1>4 DEF Inv, TypeOK, TableTypeOK
<1>8. InService'
  BY DEF Inv, ServerInv, InService, NoResponse, Answer
<1>9. SendersStarted'
  BY <1>2 DEF Inv, ServerInv, SendersStarted, Started
<1>10. ScanStaysInTable' /\ OnlyDeadMarked'
  BY DEF Inv, ServerInv, ScanStaysInTable, OnlyDeadMarked, CsFree
<1> QED BY <1>3, <1>5, <1>6, <1>7, <1>8, <1>9, <1>10
        DEF Inv, TypeOK, ServerInv, CountMatchesTable

(* The branches of the handler that leave the table alone, and sendto.     *)
LEMMA AnswerInv ==
  ASSUME Inv,
         DenyHelo \/ GbyeUnknown \/ ValidCheck \/ Garbled \/ UnknownRequest
  PROVE  Inv'
<1> USE DEF DenyHelo, GbyeUnknown, ValidCheck, Garbled, UnknownRequest, Handling
<1>1. /\ UNCHANGED <<life, up, crashes, inQ, request, tableVars, reclaimVars>>
      /\ mainPc = "handle" /\ mainPc' = "send"
  OBVIOUS
<1>2. response' \in Response /\ response' # NoResponse
  BY AnswersAreResponses DEF ResponseKind
<1> HIDE DEF DenyHelo, GbyeUnknown, ValidCheck, Garbled, UnknownRequest, Handling
<1>3. OutsideTypeOK' /\ TableTypeOK' /\ ReclaimTypeOK'
  BY <1>1 DEF Inv, TypeOK, OutsideTypeOK, TableTypeOK, ReclaimTypeOK
<1>4. MainTypeOK'
  BY <1>1, <1>2 DEF Inv, TypeOK, MainTypeOK
<1>5. InService'
  BY <1>1, <1>2 DEF Inv, ServerInv, InService
<1>6. SendersStarted'
  BY <1>1 DEF Inv, ServerInv, SendersStarted, Started
<1> QED BY <1>1, <1>3, <1>4, <1>5, <1>6 DEF Inv, TypeOK, ServerInv,
        CountMatchesTable, ScanStaysInTable, OnlyDeadMarked

LEMMA ReplyInv ==
  ASSUME Inv, Reply
  PROVE  Inv'
<1> USE DEF Reply
<1>1. TypeOK'
  BY DEF Inv, TypeOK, OutsideTypeOK, MainTypeOK, TableTypeOK, ReclaimTypeOK
<1> QED BY <1>1 DEF Inv, ServerInv, InService, SendersStarted, Started,
        CountMatchesTable, ScanStaysInTable, OnlyDeadMarked

-----------------------------------------------------------------------------
LEMMA EnterInv ==
  ASSUME Inv, ReclaimEnter
  PROVE  Inv'
<1> USE DEF ReclaimEnter
<1>1. TypeOK'
  BY DEF Inv, TypeOK, OutsideTypeOK, MainTypeOK, TableTypeOK, ReclaimTypeOK
<1> QED BY <1>1 DEF Inv, ServerInv, InService, SendersStarted, Started,
        CountMatchesTable, ScanStaysInTable, OnlyDeadMarked

(* A process id that no live process has belongs to a holder who is dead:  *)
(* holders have been started, and nobody with that id is alive.            *)
LEMMA CheckInv ==
  ASSUME Inv, ReclaimCheck
  PROVE  Inv'
<1>1. PICK t \in toCheck :
        /\ toCheck' = toCheck \ {t}
        /\ toRemove' = IF IsProcessAlive(PidOf[tickets[t]])
                         THEN toRemove ELSE toRemove \cup {t}
  BY DEF ReclaimCheck
<1>2. UNCHANGED <<life, up, crashes, inQ, mainVars, tableVars, reclaimPc>>
      /\ reclaimPc = "scan"
  BY DEF ReclaimCheck
<1>3. t \in DOMAIN tickets /\ tickets[t] \in Proc
  BY <1>1 DEF Inv, TypeOK, TableTypeOK, ServerInv, ScanStaysInTable
<1>4. OutsideTypeOK' /\ MainTypeOK' /\ TableTypeOK'
  BY <1>2 DEF Inv, TypeOK, OutsideTypeOK, MainTypeOK, TableTypeOK
<1>5. ReclaimTypeOK'
  BY <1>1, <1>2 DEF Inv, TypeOK, ReclaimTypeOK
<1>6. ScanStaysInTable'
  BY <1>1, <1>2, <1>3 DEF Inv, ServerInv, ScanStaysInTable
<1>7. OnlyDeadMarked'
  <2>1. ~IsProcessAlive(PidOf[tickets[t]]) => life[tickets[t]] = "dead"
    BY <1>3 DEF IsProcessAlive, Inv, TypeOK, OutsideTypeOK, ServerInv,
       SendersStarted, Started
  <2> QED BY <1>1, <1>2, <2>1 DEF Inv, ServerInv, OnlyDeadMarked
<1> QED BY <1>2, <1>4, <1>5, <1>6, <1>7 DEF Inv, TypeOK, ServerInv, InService,
        SendersStarted, Started, CountMatchesTable

LEMMA EraseInv ==
  ASSUME Inv, ReclaimErase
  PROVE  Inv'
<1> USE DEF ReclaimErase, CountAfterErase, Restrict
<1>1. (DOMAIN tickets)' = DOMAIN tickets \ toRemove
  OBVIOUS
<1>2. \A t \in (DOMAIN tickets)' : t \in DOMAIN tickets /\ tickets'[t] = tickets[t]
  OBVIOUS
<1>3. toRemove \subseteq DOMAIN tickets
  BY DEF Inv, ServerInv, ScanStaysInTable
<1>4. /\ Cardinality(DOMAIN tickets)' = ticketCount'
      /\ ticketCount' \in 0..MaxUsers
  <2>1. /\ IsFiniteSet(toRemove) /\ Cardinality(toRemove) \in Nat
        /\ DOMAIN tickets \cap toRemove = toRemove
    BY <1>3, TableSize, FS_Subset, FS_CardinalityType
  <2>2. Cardinality(DOMAIN tickets \ toRemove)
          = Cardinality(DOMAIN tickets) - Cardinality(toRemove)
    <3>1. Cardinality(DOMAIN tickets \ toRemove)
            = Cardinality(DOMAIN tickets) - Cardinality(DOMAIN tickets \cap toRemove)
      BY <2>1, TableSize, FS_Difference
    <3> QED BY <2>1, <3>1, Zenon
  <2>3. Cardinality(DOMAIN tickets)' \in Nat
    BY <1>1, TableSize, FS_Difference, FS_CardinalityType
  <2> QED BY <1>1, <2>1, <2>2, <2>3, TableSize, MaxUsersAssumption
          DEF Inv, TypeOK, TableTypeOK
<1>5. OutsideTypeOK' /\ MainTypeOK' /\ ReclaimTypeOK'
  BY DEF Inv, TypeOK, OutsideTypeOK, MainTypeOK, ReclaimTypeOK
<1>6. TableTypeOK'
  BY <1>1, <1>2, <1>4 DEF Inv, TypeOK, TableTypeOK
<1>7. SendersStarted'
  BY <1>2 DEF Inv, ServerInv, SendersStarted, Started
<1> QED BY <1>4, <1>5, <1>6, <1>7 DEF Inv, TypeOK, ServerInv, InService,
        CountMatchesTable, ScanStaysInTable, OnlyDeadMarked

-----------------------------------------------------------------------------
LEMMA StepInv == Inv /\ [ServerNext]_serverVars => Inv'
<1> SUFFICES ASSUME Inv, [ServerNext]_serverVars PROVE Inv'
  OBVIOUS
<1>1. CASE UNCHANGED serverVars
  <2>1. TypeOK'
    BY <1>1 DEF Inv, TypeOK, OutsideTypeOK, MainTypeOK, TableTypeOK, ReclaimTypeOK
  <2> QED BY <1>1, <2>1 DEF Inv, ServerInv, InService, SendersStarted, Started,
          CountMatchesTable, ScanStaysInTable, OnlyDeadMarked
<1>2. CASE Environment
  BY <1>2, ProcessInv, ArriveInv, CrashInv DEF Environment
<1>3. CASE Recv \/ Reply
  BY <1>3, RecvInv, ReplyInv
<1>4. CASE Handle
  BY <1>4, GrantInv, ReleaseInv, AnswerInv DEF Handle
<1>5. CASE Reclaim
  BY <1>5, EnterInv, CheckInv, EraseInv DEF Reclaim
<1> QED BY <1>1, <1>2, <1>3, <1>4, <1>5 DEF ServerNext

(* Inv holds in every reachable state. *)
THEOREM InvAlways == ServerSpec => []Inv
BY InitInv, StepInv, PTL DEF ServerSpec

(* Type correctness: no more than MaxUsers tickets, all of them licence    *)
(* numbers, are ever in g_tickets.                                         *)
THEOREM TypeCorrect == ServerSpec => []TypeOK
<1>1. Inv => TypeOK
  BY DEF Inv
<1> QED BY <1>1, InvAlways, PTL

(* The server's invariant: the hand-kept count is the size of the table,   *)
(* the reclaim scan stays inside the table and marks only dead holders.    *)
THEOREM ServerInvariant == ServerSpec => []ServerInv
<1>1. Inv => ServerInv
  BY DEF Inv
<1> QED BY <1>1, InvAlways, PTL

-----------------------------------------------------------------------------
(* A live client whose ticket was just confirmed does not have it marked:  *)
(* its process id is alive when the scan comes to that ticket.             *)
ConfirmedNotMarked ==
  mainPc = "send" /\ life[request.from] = "alive" /\ response.kind = "GOOD"
    => request.ticket \notin toRemove

ResponseInv == ResponseStillTrue /\ ConfirmedNotMarked

LEMMA StepResponse ==
  Inv /\ ResponseInv /\ [ServerNext]_serverVars => ResponseInv'
<1> SUFFICES ASSUME Inv, ResponseInv, [ServerNext]_serverVars PROVE ResponseInv'
  OBVIOUS
<1> USE DEF ResponseInv, ResponseStillTrue, ConfirmedNotMarked
<1>1. CASE mainPc' # "send"
  BY <1>1
<1>2. CASE mainPc # "send" /\ mainPc' = "send"
  <2>1. CASE GrantHelo
    <3>1. response'.kind = "TICK" /\ request' = request
          /\ response'.ticket \in DOMAIN tickets'
          /\ tickets'[response'.ticket] = request.from
      BY <2>1 DEF GrantHelo, Handling
    <3> QED BY <3>1
  <2>2. CASE ValidCheck
    <3>1. response'.kind \in {"GOOD", "INVALID"} /\ UNCHANGED <<request, tableVars>>
          /\ (response'.kind = "GOOD" => IsHeldBySender)
      BY <2>2 DEF ValidCheck, Handling, Answer
    <3>2. toRemove' = {}
      BY <2>2 DEF ValidCheck, Handling, CsFree, Inv, ServerInv, ScanStaysInTable
    <3> QED BY <3>1, <3>2 DEF IsHeldBySender
  <2>3. CASE DenyHelo \/ GbyeRelease \/ GbyeUnknown \/ Garbled \/ UnknownRequest
    <3>1. response'.kind \in {"FULL", "THNX", "INVALID", "UNKNOWN"}
      BY <2>3 DEF DenyHelo, GbyeRelease, GbyeUnknown, Garbled, UnknownRequest, Answer
    <3> QED BY <3>1
  <2>4. Handle
    BY <1>2 DEF ServerNext, Environment, ProcessStart, ProcessExit, Arrive,
       ServerCrash, ServerStart, Recv, Reply, Reclaim, ReclaimEnter,
       ReclaimCheck, ReclaimErase
  <2> QED BY <2>1, <2>2, <2>3, <2>4 DEF Handle
<1>3. CASE mainPc = "send" /\ mainPc' = "send"
  <2>1. request \in Datagram
    BY <1>3 DEF Inv, TypeOK, MainTypeOK, ServerInv, InService
  <2>2. UNCHANGED <<request, response>>
    BY <1>3 DEF ServerNext, Environment, ProcessStart, ProcessExit, Arrive,
       ServerCrash, ServerStart, Recv, Reply, Reclaim, ReclaimEnter,
       ReclaimCheck, ReclaimErase, Handle, GrantHelo, DenyHelo, GbyeRelease,
       GbyeUnknown, ValidCheck, Garbled, UnknownRequest, Handling
  <2>3. CASE \E p \in Proc : ProcessStart(p) \/ ProcessExit(p)
    <3>1. UNCHANGED <<tableVars, reclaimVars>>
      BY <2>3 DEF ProcessStart, ProcessExit
    <3>2. life'[request.from] = "alive" => life[request.from] = "alive"
      BY <1>3, <2>1, <2>3, RequestsAreReal
         DEF ProcessStart, ProcessExit, Inv, TypeOK, OutsideTypeOK, ServerInv,
             SendersStarted, Started
    <3> QED BY <1>3, <2>2, <3>1, <3>2 DEF IsHeldBySender
  <2>4. CASE (\E m \in Datagram : Arrive(m)) \/ ReclaimEnter \/ ServerStart
    BY <1>3, <2>2, <2>4 DEF Arrive, ReclaimEnter, ServerStart, IsHeldBySender
  <2>5. CASE ReclaimCheck
    <3>1. PICK t \in toCheck :
            toRemove' = IF IsProcessAlive(PidOf[tickets[t]])
                          THEN toRemove ELSE toRemove \cup {t}
      BY <2>5 DEF ReclaimCheck
    <3>2. UNCHANGED <<life, tableVars>>
      BY <2>5 DEF ReclaimCheck
    <3>3. request.from \in Proc
      BY <2>1, RequestsAreReal
    <3> QED BY <1>3, <2>2, <3>1, <3>2, <3>3 DEF IsHeldBySender, IsProcessAlive
  <2>6. CASE ReclaimErase
    <3>1. /\ \A t \in DOMAIN tickets \ toRemove :
               t \in DOMAIN tickets' /\ tickets'[t] = tickets[t]
          /\ toRemove' = {} /\ UNCHANGED life
      BY <2>6 DEF ReclaimErase, Restrict
    <3>2. \A t \in toRemove : life[tickets[t]] = "dead"
      BY DEF Inv, ServerInv, OnlyDeadMarked
    <3> QED BY <1>3, <2>2, <3>1, <3>2 DEF IsHeldBySender
  <2>7. CASE UNCHANGED serverVars
    BY <1>3, <2>7 DEF IsHeldBySender
  <2> QED BY <1>3, <2>3, <2>4, <2>5, <2>6, <2>7
      DEF ServerNext, Environment, ServerCrash, ServerStart, Recv, Reply, Reclaim,
          Handle, GrantHelo, DenyHelo, GbyeRelease, GbyeUnknown, ValidCheck,
          Garbled, UnknownRequest, Handling
<1> QED BY <1>1, <1>2, <1>3

(* What a response says of the table stays true until it is sent, while    *)
(* its client lives, although the reclaim thread may run in between.       *)
THEOREM ResponsesTrue == ServerSpec => []ResponseStillTrue
<1>1. ServerInit => ResponseInv
  BY DEF ServerInit, ResponseInv, ResponseStillTrue, ConfirmedNotMarked
<1>2. ResponseInv => ResponseStillTrue
  BY DEF ResponseInv
<1> QED BY <1>1, <1>2, StepResponse, InvAlways, PTL DEF ServerSpec

-----------------------------------------------------------------------------
(* A live process loses its ticket only to a GBYE for it or to a crash.    *)
THEOREM LiveKept == ServerSpec => LiveTicketKept
<1> DEFINE Kept ==
      \A t \in DOMAIN tickets :
        Loses(t) /\ life[tickets[t]] = "alive" =>
          \/ request # NoRequest /\ request.op = "GBYE" /\ request.ticket = t
          \/ ~up'
<1>1. ASSUME Inv, [ServerNext]_serverVars PROVE [Kept]_serverVars
  <2> SUFFICES ASSUME ServerNext, NEW t \in DOMAIN tickets,
                      Loses(t), life[tickets[t]] = "alive"
               PROVE  \/ request # NoRequest /\ request.op = "GBYE" /\ request.ticket = t
                      \/ ~up'
    BY <1>1
  <2>1. CASE GbyeRelease
    <3>1. /\ (DOMAIN tickets)' = DOMAIN tickets \ {request.ticket}
          /\ \A u \in (DOMAIN tickets)' : tickets'[u] = tickets[u]
      BY <2>1 DEF GbyeRelease, Restrict
    <3>2. request.ticket = t
      BY <3>1 DEF Loses
    <3>3. request # NoRequest /\ request.op = "GBYE"
      BY <1>1, <2>1 DEF GbyeRelease, Handling, Inv, ServerInv, InService
    <3> QED BY <3>2, <3>3
  <2>2. CASE ReclaimErase
    BY <1>1, <2>2 DEF ReclaimErase, Restrict, Loses, Inv, ServerInv, OnlyDeadMarked
  <2>3. CASE GrantHelo
    <3>1. t \in (DOMAIN tickets)' /\ tickets'[t] = tickets[t]
      BY <2>3 DEF GrantHelo, IsLowestFree
    <3> QED BY <3>1 DEF Loses
  <2>4. CASE ServerCrash
    BY <2>4 DEF ServerCrash
  <2>5. CASE UNCHANGED tickets
    BY <2>5 DEF Loses
  <2> QED BY <2>1, <2>2, <2>3, <2>4, <2>5
      DEF ServerNext, Environment, ProcessStart, ProcessExit, Arrive, ServerStart,
          Recv, Reply, Reclaim, ReclaimEnter, ReclaimCheck, Handle, DenyHelo,
          GbyeUnknown, ValidCheck, Garbled, UnknownRequest, Handling
<1> QED BY <1>1, InvAlways, PTL DEF ServerSpec, LiveTicketKept

-----------------------------------------------------------------------------
(* The refinement of LicensePool.                                          *)

LEMMA NoneUnused ==
  ASSUME Inv, ~LicenceLeft
  PROVE  (1..MaxUsers) \ DOMAIN tickets = {}
<1>1. IsFiniteSet(1..MaxUsers) /\ Cardinality(1..MaxUsers) = MaxUsers
  BY MaxUsersAssumption, FS_Interval
<1>2. DOMAIN tickets \in SUBSET (1..MaxUsers)
  BY DEF Inv, TypeOK, TableTypeOK
<1>3. Cardinality(DOMAIN tickets) = MaxUsers
  BY <1>1, <1>2, TableSize, FS_Subset, MaxUsersAssumption DEF LicenceLeft
<1> QED BY <1>1, <1>2, <1>3, FS_Subset

LEMMA StepPool ==
  Inv /\ [ServerNext]_serverVars => [Pool!PoolNext]_(Pool!poolVars)
<1> SUFFICES ASSUME Inv, ServerNext
             PROVE  [Pool!PoolNext]_(Pool!poolVars)
  BY DEF Pool!poolVars
<1> USE DEF Pool!PoolNext
<1>1. CASE \E p \in Proc : ProcessStart(p) \/ ProcessExit(p)
  BY <1>1 DEF ProcessStart, ProcessExit, IsProcessAlive, Pool!Begin, Pool!Die,
     Pool!PoolPidAlive
<1>2. CASE (\E m \in Datagram : Arrive(m)) \/ ServerStart \/ ReclaimEnter \/ ReclaimCheck
  BY <1>2 DEF Arrive, ServerStart, ReclaimEnter, ReclaimCheck, Pool!poolVars
<1>3. CASE ServerCrash
  BY <1>3 DEF ServerCrash, Pool!Forget
<1>4. CASE Recv
  <2>1. /\ request' = inQ[1] /\ inQ[1] \in Datagram
        /\ life[inQ[1].from] # "new"
        /\ request = NoRequest /\ UNCHANGED <<life, tickets, response>>
    BY <1>4 DEF Recv, Inv, TypeOK, OutsideTypeOK, ServerInv, InService,
       SendersStarted, Started
  <2>2. PICK op \in {"HELO", "GBYE", "VALID", "OTHER"}, p \in Proc, t \in 0..MaxUsers :
          inQ[1] = [op |-> op, from |-> p, ticket |-> t]
    <3>1. CASE inQ[1] \in [op : {"GBYE", "VALID"}, from : Proc, ticket : 0..MaxUsers]
      BY <3>1
    <3>2. CASE inQ[1] \in [op : {"HELO", "OTHER"}, from : Proc, ticket : {0}]
      <4>1. 0 \in 0..MaxUsers
        BY MaxUsersAssumption
      <4> QED BY <3>2, <4>1
    <3> QED BY <2>1, <3>1, <3>2 DEF Datagram
  <2> QED BY <2>1, <2>2 DEF Pool!Take
<1>5. CASE Handle
  <2> USE <1>5 DEF Handling
  <2>1. /\ request # NoRequest /\ response = NoResponse
        /\ UNCHANGED <<life, request>>
    BY DEF Handle, GrantHelo, DenyHelo, GbyeRelease, GbyeUnknown, ValidCheck,
       Garbled, UnknownRequest, Inv, ServerInv, InService
  <2>2. SUFFICES Pool!Serve
    OBVIOUS
  <2>3. CASE GrantHelo
    <3>1. PICK id \in 1..(Cardinality(DOMAIN tickets) + 1) :
            /\ id \notin DOMAIN tickets
            /\ tickets' = [t \in DOMAIN tickets \cup {id} |->
                             IF t = id THEN request.from ELSE tickets[t]]
            /\ response' = [kind |-> "TICK", ticket |-> id]
      BY <2>3 DEF GrantHelo, IsLowestFree
    <3>2. id \in (1..MaxUsers) \ DOMAIN tickets
      BY <2>3, <3>1, TableSize, MaxUsersAssumption DEF GrantHelo, LicenceLeft
    <3> QED BY <2>1, <2>3, <3>1, <3>2
        DEF GrantHelo, Pool!Serve, Pool!Grant, Pool!Unused
  <2>4. CASE DenyHelo
    BY <2>1, <2>4, NoneUnused
       DEF DenyHelo, Answer, Pool!Serve, Pool!Refuse, Pool!Unused
  <2>5. CASE GbyeRelease
    <3>1. Pool!GiveBack
      BY <2>5 DEF GbyeRelease, Answer, Pool!GiveBack, Restrict, Pool!Restrict
    <3>2. request.op = "GBYE"
      BY <2>5 DEF GbyeRelease
    <3> QED BY <2>1, <3>1, <3>2 DEF Pool!Serve
  <2>6. CASE GbyeUnknown
    BY <2>1, <2>6 DEF GbyeUnknown, Answer, Pool!Serve, Pool!Invalid
  <2>7. CASE ValidCheck
    BY <2>1, <2>7 DEF ValidCheck, IsHeldBySender, Answer, Pool!Serve,
       Pool!Confirm, Pool!Invalid
  <2>8. CASE Garbled
    <3>1. request.ticket \notin DOMAIN tickets
      BY <2>8, MaxUsersAssumption DEF Garbled, Inv, TypeOK, TableTypeOK
    <3> QED BY <2>1, <2>8, <3>1 DEF Garbled, Answer, Pool!Serve, Pool!Invalid
  <2>9. CASE UnknownRequest
    BY <2>1, <2>9 DEF UnknownRequest, Answer, Pool!Serve, Pool!Unknown
  <2> QED BY <2>3, <2>4, <2>5, <2>6, <2>7, <2>8, <2>9 DEF Handle
<1>6. CASE Reply
  BY <1>6 DEF Reply, Inv, ServerInv, InService, Pool!Deliver
<1>7. CASE ReclaimErase
  <2>1. toRemove \in SUBSET DOMAIN tickets /\ \A t \in toRemove : life[tickets[t]] = "dead"
    BY DEF Inv, ServerInv, ScanStaysInTable, OnlyDeadMarked
  <2>2. /\ tickets' = Restrict(tickets, DOMAIN tickets \ toRemove)
        /\ UNCHANGED <<life, request, response>>
    BY <1>7 DEF ReclaimErase
  <2>3. Pool!TakeBack
    BY <2>1, <2>2 DEF Pool!TakeBack, Restrict, Pool!Restrict
  <2> QED BY <2>3
<1> QED BY <1>1, <1>2, <1>3, <1>4, <1>5, <1>6, <1>7
    DEF ServerNext, Environment, Reclaim

(* The server, with its two threads, queue and counter, is a pool of       *)
(* MaxUsers licences that serves one query at a time.                      *)
THEOREM ServerImplementsPool == ServerSpec => ImplementsPool
<1>1. ServerInit => Pool!PoolInit
  BY DEF ServerInit, Pool!PoolInit
<1> QED BY <1>1, StepPool, InvAlways, PTL DEF ServerSpec, ImplementsPool, Pool!PoolSpec
=============================================================================
