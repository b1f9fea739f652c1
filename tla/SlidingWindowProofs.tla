-------------------------- MODULE SlidingWindowProofs --------------------------
(***************************************************************************)
(* The safety properties of SlidingWindow for any number of packets and    *)
(* any sizes of the two windows.  WindowTypeOK and WindowsInStep are       *)
(* inductive together; the work is in what the scans for the first missing *)
(* packet return (ScanStops) and in how far the sender fills its window    *)
(* (Filling).                                                              *)
(***************************************************************************)
EXTENDS SlidingWindow, FiniteSetTheorems, TLAPS

Inv == WindowTypeOK /\ WindowsInStep

-----------------------------------------------------------------------------
(* The least of a nonempty set of naturals, by the well-foundedness of     *)
(* strict inclusion on the initial segments of the set.                    *)
LEMMA LeastOf ==
  ASSUME NEW T \in SUBSET Nat, T # {}
  PROVE  Min(T) \in T /\ \A p \in T : Min(T) <= p
  <1> DEFINE Segment(x) == {y \in T : y <= x}
             Segments == {Segment(x) : x \in T}
  <1>1. \A x \in T : IsFiniteSet(Segment(x))
    BY FS_BoundedSetOfNaturals
  <1>2. Segments \subseteq FiniteSubsetsOf(Nat) /\ Segments # {}
    BY <1>1 DEF FiniteSubsetsOf
  <1>3. IsWellFoundedOn(StrictSubsetOrdering(Nat), FiniteSubsetsOf(Nat))
    BY FS_StrictSubsetOrderingWellFounded
  <1>4. PICK s \in Segments : \A r \in Segments : <<r, s>> \notin StrictSubsetOrdering(Nat)
    <2> HIDE DEF Segments
    <2> QED BY <1>2, <1>3, WFMin
  <1>5. PICK x \in T : s = Segment(x)
    OBVIOUS
  <1>6. \A p \in T : x <= p
    <2>1. SUFFICES ASSUME NEW p \in T, p < x PROVE FALSE
      OBVIOUS
    <2>2. x \in Segment(x) /\ x \notin Segment(p)
      BY <2>1
    <2>3. \A y \in Segment(p) : y \in Segment(x)
      BY <2>1
    <2>4. Segment(p) \subseteq Segment(x) /\ Segment(p) # Segment(x)
      BY <2>2, <2>3
    <2>5. <<Segment(p), Segment(x)>> \in StrictSubsetOrdering(Nat)
      BY <2>4 DEF StrictSubsetOrdering
    <2> QED BY <1>4, <1>5, <2>5
  <1> QED BY <1>6 DEF Min

(* A scan from b ends at the first packet missing from S, or at the end,   *)
(* and everything it passes is in S.                                       *)
LEMMA ScanStops ==
  ASSUME NEW b \in 0..TotalPackets, NEW S
  PROVE  /\ FirstMissing(b, S) \in b..TotalPackets
         /\ FirstMissing(b, S) # TotalPackets => FirstMissing(b, S) \notin S
         /\ \A p \in b..TotalPackets : p < FirstMissing(b, S) => p \in S
  <1> DEFINE T == {p \in b..TotalPackets : p = TotalPackets \/ p \notin S}
  <1>1. T \in SUBSET Nat /\ TotalPackets \in T
    BY WindowAssumption
  <1>2. Min(T) \in T /\ \A p \in T : Min(T) <= p
    <2> HIDE DEF T
    <2> QED BY <1>1, LeastOf
  <1>3. FirstMissing(b, S) = Min(T)
    BY DEF FirstMissing
  <1>4. ASSUME NEW p \in b..TotalPackets, p < Min(T) PROVE p \in S
    <2>1. Min(T) \in b..TotalPackets
      BY <1>2
    <2>2. p \notin T
      BY <1>2, <1>4, <2>1
    <2>3. p # TotalPackets
      BY <1>4, <2>1, WindowAssumption
    <2> QED BY <2>2, <2>3
  <1> QED BY <1>2, <1>3, <1>4

(* Filling the window never goes back, past its end or past the packets.   *)
LEMMA Filling ==
  ASSUME NEW n \in 0..TotalPackets, NEW b \in 0..TotalPackets
  PROVE  /\ Filled(n, b) \in n..TotalPackets
         /\ n <= b + SendWindowSize => Filled(n, b) <= b + SendWindowSize
  <1> DEFINE e == Min({b + SendWindowSize, TotalPackets})
  <1>1. /\ e \in {b + SendWindowSize, TotalPackets}
        /\ e <= b + SendWindowSize /\ e <= TotalPackets
    BY WindowAssumption, LeastOf, {b + SendWindowSize, TotalPackets} \in SUBSET Nat
  <1>2. e \in Nat
    BY <1>1, WindowAssumption
  <1>3. Max({n, e}) \in {n, e} /\ n <= Max({n, e}) /\ e <= Max({n, e})
    <2> HIDE DEF e
    <2>1. \E x \in {n, e} : \A y \in {n, e} : x >= y
      BY <1>2
    <2> QED BY <2>1, <1>2 DEF Max
  <1>4. Filled(n, b) = Max({n, e})
    BY DEF Filled
  <1> QED BY <1>1, <1>2, <1>3, <1>4, WindowAssumption

-----------------------------------------------------------------------------
LEMMA InitInv == WindowInit => Inv
  <1> SUFFICES ASSUME WindowInit PROVE Inv
    OBVIOUS
  <1>1. 0 \in 0..TotalPackets
    BY WindowAssumption
  <1>2. WindowTypeOK
    BY <1>1 DEF WindowInit, WindowTypeOK
  <1>3. {p \in WindowPacket : p < 0} = {}
    BY WindowAssumption DEF WindowPacket
  <1>4. WindowsInStep
    BY <1>3, WindowAssumption DEF WindowInit, WindowsInStep, WindowPacket
  <1> QED BY <1>2, <1>4 DEF Inv

(* The variables' fields, for the lemmas below.                            *)
LEMMA Fields ==
  ASSUME Inv
  PROVE  /\ sender_win.base \in 0..TotalPackets
         /\ sender_win.next_seq \in 0..TotalPackets
         /\ receiver_win.base \in 0..TotalPackets
         /\ receiver_win.received \subseteq WindowPacket
         /\ sender_win.base <= receiver_win.base
         /\ sender_win.acked_count = sender_win.base
         /\ sender_win.sent_count = sender_win.next_seq
         /\ receiver_win.received_count = receiver_win.base
         /\ TotalPackets \in Nat /\ SendWindowSize \in Nat /\ RecvWindowSize \in Nat \ {0}
  BY WindowAssumption DEF Inv, WindowTypeOK, WindowsInStep

LEMMA SenderMoves ==
  ASSUME Inv, SenderSection
  PROVE  /\ sender_win'.base \in sender_win.base..receiver_win.base
         /\ sender_win'.next_seq = Filled(sender_win.next_seq, sender_win.base)
         /\ sender_win'.ack_received = sender_win.ack_received
         /\ sender_win'.acked_count = sender_win'.base
         /\ sender_win'.sent_count = sender_win'.next_seq
         /\ sender_win' \in [base : 0..TotalPackets, next_seq : 0..TotalPackets,
                             ack_received : SUBSET WindowPacket,
                             sent_count : 0..TotalPackets, acked_count : 0..TotalPackets]
  <1> DEFINE b == AckedUpTo(sender_win.base, sender_win.ack_received)
             n == Filled(sender_win.next_seq, sender_win.base)
  <1>1. b \in sender_win.base..TotalPackets
    BY ScanStops, Fields DEF AckedUpTo
  <1>2. b <= receiver_win.base
    <2>1. CASE receiver_win.base = TotalPackets
      BY <1>1, <2>1, Fields
    <2>2. CASE receiver_win.base # TotalPackets
      <3>1. receiver_win.base \notin sender_win.ack_received
        BY Fields DEF Inv, WindowsInStep
      <3>2. receiver_win.base \in sender_win.base..TotalPackets
        BY Fields
      <3> QED BY <1>1, <3>1, <3>2, ScanStops, Fields DEF AckedUpTo
    <2> QED BY <2>1, <2>2
  <1>3. n \in 0..TotalPackets /\ n >= sender_win.next_seq
    <2>1. n \in sender_win.next_seq..TotalPackets
      BY Filling, Fields
    <2> QED BY <2>1, Fields
  <1>4. sender_win' = [sender_win EXCEPT
           !.next_seq = n, !.sent_count = @ + (n - sender_win.next_seq),
           !.base = b, !.acked_count = @ + (b - sender_win.base)]
    BY DEF SenderSection
  <1>5. sender_win \in [base : 0..TotalPackets, next_seq : 0..TotalPackets,
                        ack_received : SUBSET WindowPacket,
                        sent_count : 0..TotalPackets, acked_count : 0..TotalPackets]
    BY DEF Inv, WindowTypeOK
  <1> HIDE DEF b, n
  <1>6. /\ sender_win'.base = b /\ sender_win'.next_seq = n
        /\ sender_win'.ack_received = sender_win.ack_received
        /\ sender_win'.acked_count = sender_win.acked_count + (b - sender_win.base)
        /\ sender_win'.sent_count = sender_win.sent_count + (n - sender_win.next_seq)
    BY <1>4, <1>5
  <1>7. sender_win'.acked_count = b /\ sender_win'.sent_count = n
    BY <1>1, <1>3, <1>6, Fields
  <1>8. b \in 0..TotalPackets
    BY <1>1, Fields
  <1>9. sender_win' \in [base : 0..TotalPackets, next_seq : 0..TotalPackets,
                         ack_received : SUBSET WindowPacket,
                         sent_count : 0..TotalPackets, acked_count : 0..TotalPackets]
    BY <1>3, <1>4, <1>5, <1>6, <1>7, <1>8
  <1>10. b \in sender_win.base..receiver_win.base
    BY <1>1, <1>2, Fields
  <1> QED BY <1>6, <1>7, <1>9, <1>10 DEF n

LEMMA SenderInv ==
  ASSUME Inv, SenderSection
  PROVE  Inv'
  <1>1. receiver_win' = receiver_win /\ monitor_done' = monitor_done
    BY DEF SenderSection
  <1>2. WindowTypeOK'
    BY <1>1, SenderMoves DEF Inv, WindowTypeOK
  <1>3. sender_win'.next_seq <= sender_win'.base + SendWindowSize
    <2> DEFINE n == Filled(sender_win.next_seq, sender_win.base)
    <2>1. n \in sender_win.next_seq..TotalPackets
      BY Filling, Fields
    <2>2. sender_win.next_seq <= sender_win.base + SendWindowSize
      BY DEF Inv, WindowsInStep
    <2>3. n <= sender_win.base + SendWindowSize
      BY <2>2, Filling, Fields
    <2> HIDE DEF n
    <2>4. sender_win'.next_seq = n
      BY SenderMoves DEF n
    <2>5. sender_win'.base \in sender_win.base..receiver_win.base
      BY SenderMoves
    <2> QED BY <2>1, <2>3, <2>4, <2>5, Fields
  <1>4. sender_win'.base <= receiver_win'.base
    BY <1>1, SenderMoves, Fields
  <1> QED BY <1>1, <1>2, <1>3, <1>4, SenderMoves DEF Inv, WindowsInStep

LEMMA ReceiverMoves ==
  ASSUME Inv, NEW S \in SUBSET Receivable, Receive(S)
  PROVE  /\ receiver_win'.base \in receiver_win.base..TotalPackets
         /\ receiver_win'.base \notin receiver_win'.received
         /\ \A p \in WindowPacket : p < receiver_win'.base => p \in receiver_win'.received
         /\ receiver_win'.received = receiver_win.received \cup S
         /\ receiver_win'.received_count = receiver_win'.base
         /\ sender_win' = [sender_win EXCEPT
               !.ack_received = {p \in WindowPacket : p < receiver_win'.base}]
  <1> DEFINE received == receiver_win.received \cup S
             base == FirstMissing(receiver_win.base, received)
  <1>1. received \subseteq WindowPacket
    BY Fields DEF Receivable
  <1>2. /\ base \in receiver_win.base..TotalPackets
        /\ base # TotalPackets => base \notin received
        /\ \A p \in receiver_win.base..TotalPackets : p < base => p \in received
    BY ScanStops, Fields
  <1>3. base \notin received
    BY <1>1, <1>2, WindowAssumption DEF WindowPacket
  <1>4. \A p \in WindowPacket : p < base => p \in received
    <2>1. SUFFICES ASSUME NEW p \in WindowPacket, p < base PROVE p \in received
      OBVIOUS
    <2>2. CASE p < receiver_win.base
      BY <2>2 DEF Inv, WindowsInStep
    <2>3. CASE p \in receiver_win.base..TotalPackets
      BY <2>1, <2>3, <1>2
    <2> QED BY <2>2, <2>3, Fields DEF WindowPacket
  <1>5. /\ receiver_win' = [base |-> base, received |-> received,
              received_count |-> receiver_win.received_count + (base - receiver_win.base)]
        /\ sender_win' = [sender_win EXCEPT
              !.ack_received = @ \cup AcksSent(receiver_win.base, base)]
    BY DEF Receive
  <1> HIDE DEF base, received
  <1>6. receiver_win.received_count + (base - receiver_win.base) = base
    BY <1>2, Fields
  <1>7. sender_win.ack_received \cup AcksSent(receiver_win.base, base)
          = {p \in WindowPacket : p < base}
    BY <1>2, Fields DEF AcksSent, Inv, WindowsInStep, WindowPacket
  <1>8. sender_win' = [sender_win EXCEPT !.ack_received = {p \in WindowPacket : p < base}]
    BY <1>5, <1>7
  <1> QED BY <1>2, <1>3, <1>4, <1>5, <1>6, <1>8 DEF received

LEMMA ReceiverInv ==
  ASSUME Inv, NEW S \in SUBSET Receivable, Receive(S), UNCHANGED monitor_done
  PROVE  Inv'
  <1> DEFINE W == [base : 0..TotalPackets, next_seq : 0..TotalPackets,
                   ack_received : SUBSET WindowPacket,
                   sent_count : 0..TotalPackets, acked_count : 0..TotalPackets]
             A == {p \in WindowPacket : p < receiver_win'.base}
  <1>1. /\ sender_win \in W /\ A \in SUBSET WindowPacket
        /\ sender_win' = [sender_win EXCEPT !.ack_received = A]
    BY ReceiverMoves DEF Inv, WindowTypeOK
  <1>2. sender_win' \in W
    BY <1>1
  <1>3. /\ sender_win'.base = sender_win.base
        /\ sender_win'.next_seq = sender_win.next_seq
        /\ sender_win'.sent_count = sender_win.sent_count
        /\ sender_win'.acked_count = sender_win.acked_count
        /\ sender_win'.ack_received = A
    BY <1>1
  <1>4. receiver_win'.base \in 0..TotalPackets
    BY ReceiverMoves, Fields
  <1>5. WindowTypeOK'
    <2>1. receiver_win'.received \subseteq WindowPacket
      BY ReceiverMoves, Fields DEF Receivable
    <2>2. DOMAIN receiver_win' = {"base", "received", "received_count"}
      BY DEF Receive
    <2>3. receiver_win' = [base |-> receiver_win'.base, received |-> receiver_win'.received,
                           received_count |-> receiver_win'.received_count]
      BY DEF Receive
    <2> QED BY <1>2, <1>4, <2>1, <2>3, ReceiverMoves DEF Inv, WindowTypeOK
  <1>6. \A p \in receiver_win'.received : p < receiver_win'.base + RecvWindowSize
    <2>1. \A p \in receiver_win'.received : p < receiver_win.base + RecvWindowSize /\ p \in Nat
      BY ReceiverMoves, Fields DEF Inv, WindowsInStep, Receivable, WindowPacket
    <2> QED BY <2>1, <1>4, ReceiverMoves, Fields
  <1>7. sender_win'.base <= receiver_win'.base
    BY <1>3, ReceiverMoves, Fields
  <1>8. WindowsInStep'
    BY <1>3, <1>6, <1>7, ReceiverMoves DEF Inv, WindowsInStep
  <1> QED BY <1>5, <1>8 DEF Inv

LEMMA StepInv == Inv /\ [WindowNext]_windowVars => Inv'
  <1> SUFFICES ASSUME Inv, [WindowNext]_windowVars PROVE Inv'
    OBVIOUS
  <1>1. CASE SenderSection
    BY <1>1, SenderInv
  <1>2. CASE ReceiverSection
    BY <1>2, ReceiverInv DEF ReceiverSection
  <1>3. CASE Join
    BY <1>3 DEF Join, Inv, WindowTypeOK, WindowsInStep
  <1>4. CASE UNCHANGED windowVars
    BY <1>4 DEF windowVars, Inv, WindowTypeOK, WindowsInStep
  <1> QED BY <1>1, <1>2, <1>3, <1>4 DEF WindowNext, WindowEnded

(* The invariant holds in every behaviour of the three threads.            *)
THEOREM InvAlways == WindowSpec => []Inv
  BY InitInv, StepInv, PTL DEF WindowSpec

(* Types: no index leaves the arrays of lines 39-40.                       *)
THEOREM TypeCorrect == WindowSpec => []WindowTypeOK
  <1>1. Inv => WindowTypeOK
    BY DEF Inv
  <1> QED BY InvAlways, <1>1, PTL

(* The two windows keep step, for any sizes of theirs.                     *)
THEOREM WindowsKeepStep == WindowSpec => []WindowsInStep
  <1>1. Inv => WindowsInStep
    BY DEF Inv
  <1> QED BY InvAlways, <1>1, PTL

LEMMA StepTransfer ==
  ASSUME Inv, [WindowNext]_windowVars
  PROVE  [WindowTransfer!TransferNext]_(WindowTransfer!transferVars)
  <1> USE DEF WindowTransfer!transferVars
  <1>1. CASE SenderSection
    <2>1. receiver_win' = receiver_win
      BY <1>1 DEF SenderSection
    <2>2. sender_win'.base \in sender_win.base..receiver_win.base
      BY <1>1, SenderMoves
    <2>3. WindowTransfer!Learn
      BY <2>1, <2>2, Fields
      DEF WindowTransfer!Learn, WindowTransfer!Reached, WindowTransfer!Packet, WindowPacket
    <2> QED BY <2>3 DEF WindowTransfer!TransferNext
  <1>2. CASE ReceiverSection
    <2>1. PICK S \in SUBSET Receivable : Receive(S)
      BY <1>2 DEF ReceiverSection
    <2>2. sender_win'.base = sender_win.base
      BY <2>1, ReceiverMoves DEF Inv, WindowTypeOK
    <2>3. receiver_win'.base \in receiver_win.base..TotalPackets
      BY <2>1, ReceiverMoves
    <2>4. CASE receiver_win'.base = receiver_win.base
      BY <2>2, <2>4
    <2>5. CASE receiver_win'.base # receiver_win.base
      <3>1. receiver_win'.base \in (receiver_win.base + 1)..TotalPackets
        BY <2>3, <2>5, Fields
      <3>2. WindowTransfer!Deliver
        BY <2>2, <3>1 DEF WindowTransfer!Deliver
      <3> QED BY <3>2 DEF WindowTransfer!TransferNext
    <2> QED BY <2>4, <2>5
  <1>3. CASE Join \/ UNCHANGED windowVars
    BY <1>3 DEF Join, windowVars
  <1> QED BY <1>1, <1>2, <1>3 DEF WindowNext, WindowEnded

(* Every behaviour of the program is an in-order transfer.                 *)
THEOREM SlidingWindowImplementsTransfer == WindowSpec => WindowDeliversInOrder
  <1>1. WindowInit => WindowTransfer!TransferInit
    BY WindowAssumption DEF WindowInit, WindowTransfer!TransferInit, WindowPacket
  <1>2. Inv /\ [WindowNext]_windowVars
          => [WindowTransfer!TransferNext]_(WindowTransfer!transferVars)
    BY StepTransfer
  <1> QED
    BY InvAlways, <1>1, <1>2, PTL DEF WindowSpec, WindowDeliversInOrder, WindowTransfer!TransferSpec

LEMMA BaseIsReceivable ==
  ASSUME Inv, ReceiverRuns
  PROVE  receiver_win.base \in Receivable
  <1>1. receiver_win.base \in WindowPacket
    BY Fields DEF ReceiverRuns, WindowPacket
  <1>2. receiver_win.base \notin receiver_win.received
    BY DEF Inv, WindowsInStep
  <1>3. receiver_win.base < receiver_win.base + RecvWindowSize
    BY Fields
  <1> QED BY <1>1, <1>2, <1>3, Fields DEF Receivable

LEMMA BaseMovesOn ==
  ASSUME Inv, ReceivesBase
  PROVE  receiver_win'.base > receiver_win.base
  <1>1. PICK S \in SUBSET Receivable : receiver_win.base \in S /\ Receive(S)
    BY DEF ReceivesBase
  <1>2. /\ receiver_win'.base \in receiver_win.base..TotalPackets
        /\ receiver_win'.base \notin receiver_win'.received
        /\ receiver_win.base \in receiver_win'.received
    BY <1>1, ReceiverMoves
  <1> QED BY <1>2, Fields

LEMMA SenderCatchesUp ==
  ASSUME Inv, SenderSection
  PROVE  sender_win'.base = receiver_win.base
  <1>1. sender_win'.base = FirstMissing(sender_win.base, sender_win.ack_received)
    BY DEF SenderSection, AckedUpTo, Inv, WindowTypeOK
  <1>2. PICK b : b = sender_win'.base
    OBVIOUS
  <1>3. /\ b \in sender_win.base..TotalPackets /\ b <= receiver_win.base
        /\ b # TotalPackets => b \notin sender_win.ack_received
    BY <1>1, <1>2, ScanStops, SenderMoves, Fields
  <1>4. b # TotalPackets => ~(b < receiver_win.base)
    BY <1>3, Fields DEF Inv, WindowsInStep, WindowPacket
  <1> QED BY <1>2, <1>3, <1>4, Fields

(* The transfer goes on: until all has arrived the packet at the base is   *)
(* one the receiver may take, whenever it gets through the window moves    *)
(* (line 108), so that at most one such pass is needed for each packet,    *)
(* and one pass of the sender brings its window to where the receiver's    *)
(* is (line 77).                                                           *)
THEOREM WindowsMove ==
  WindowSpec => /\ [](ReceiverRuns => receiver_win.base \in Receivable)
                /\ [][ReceivesBase => receiver_win'.base > receiver_win.base]_windowVars
                /\ [][SenderSection => sender_win'.base = receiver_win.base]_windowVars
  <1>1. Inv => (ReceiverRuns => receiver_win.base \in Receivable)
    BY BaseIsReceivable
  <1>2. Inv /\ [WindowNext]_windowVars =>
          /\ [ReceivesBase => receiver_win'.base > receiver_win.base]_windowVars
          /\ [SenderSection => sender_win'.base = receiver_win.base]_windowVars
    BY BaseMovesOn, SenderCatchesUp
  <1> QED BY InvAlways, <1>1, <1>2, PTL DEF WindowSpec
=============================================================================
