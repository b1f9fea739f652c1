----------------------------- MODULE SlidingWindow -----------------------------
(***************************************************************************)
(* homework11/sliding_window.cpp: a sender, a receiver and a monitor       *)
(* thread.  The first two do all their work under one mutex, one critical  *)
(* section per loop iteration, and a section is one step.  The packets do  *)
(* not travel: the receiver goes over its own window and takes what        *)
(* should_drop lets it take, whether or not the sender has sent it.        *)
(***************************************************************************)
EXTENDS Naturals, FiniteSetsExt

CONSTANTS SendWindowSize, RecvWindowSize, TotalPackets

ASSUME WindowAssumption ==
  /\ SendWindowSize \in Nat \ {0}
  /\ RecvWindowSize \in Nat \ {0}
  /\ TotalPackets \in Nat

VARIABLES
  sender_win,    \* base, next_seq, ack_received, sent_count, acked_count
  receiver_win,  \* base, received, received_count
  monitor_done   \* done: set by main, for the monitor, when it has joined the two

windowVars == <<sender_win, receiver_win, monitor_done>>

WindowPacket == {p \in 0..TotalPackets : p < TotalPackets}

(* init_windows; the arrays of flags are the sets of the packets flagged.  *)
WindowInit ==
  /\ sender_win = [base |-> 0, next_seq |-> 0, ack_received |-> {},
                   sent_count |-> 0, acked_count |-> 0]
  /\ receiver_win = [base |-> 0, received |-> {}, received_count |-> 0]
  /\ monitor_done = FALSE

-----------------------------------------------------------------------------
(* The least packet from b on that is not in S, or TotalPackets.           *)
FirstMissing(b, S) == Min({p \in b..TotalPackets : p = TotalPackets \/ p \notin S})

(* Sending fills the window; a dropped packet counts as sent too.          *)
FilledUncapped(next, base) == Max({next, base + SendWindowSize})  \* slip: no end
Filled(next, base) == Max({next, Min({base + SendWindowSize, TotalPackets})})

AckedOnePast(base, acks) ==  \* slip: while (ack_received[base++])
  IF FirstMissing(base, acks) < TotalPackets
    THEN FirstMissing(base, acks) + 1 ELSE TotalPackets

(* The loop over the acknowledgements stops at the first that is missing.  *)
AckedUpTo(base, acks) == FirstMissing(base, acks)

SenderRuns == sender_win.acked_count < TotalPackets
SenderSection ==
  /\ SenderRuns
  /\ LET next == Filled(sender_win.next_seq, sender_win.base)
         base == AckedUpTo(sender_win.base, sender_win.ack_received)
     IN  sender_win' = [sender_win EXCEPT
           !.next_seq = next,
           !.sent_count = @ + (next - sender_win.next_seq),
           !.base = base,
           !.acked_count = @ + (base - sender_win.base)]
  /\ UNCHANGED <<receiver_win, monitor_done>>

-----------------------------------------------------------------------------
ReceiverRuns == receiver_win.received_count < TotalPackets

ReceivableOnePast ==  \* slip: i <= base + RECV_WINDOW_SIZE
  {p \in WindowPacket : /\ receiver_win.base <= p
                        /\ p <= receiver_win.base + RecvWindowSize
                        /\ p \notin receiver_win.received}

(* The packets of the receive window that are still missing.               *)
Receivable ==
  {p \in WindowPacket : /\ receiver_win.base <= p
                        /\ p < receiver_win.base + RecvWindowSize
                        /\ p \notin receiver_win.received}

AcksAfterMoving(from, to) == {p \in WindowPacket : from < p /\ p <= to}  \* slip: base++ first

(* The packets acknowledged while base moves over what has arrived.        *)
AcksSent(from, to) == {p \in WindowPacket : from <= p /\ p < to}

(* One pass over the window in which the packets of S are not dropped.     *)
Receive(S) ==
  LET received == receiver_win.received \cup S
      base     == FirstMissing(receiver_win.base, received)
  IN  /\ receiver_win' = [base |-> base, received |-> received,
            received_count |-> receiver_win.received_count + (base - receiver_win.base)]
      /\ sender_win' = [sender_win EXCEPT
            !.ack_received = @ \cup AcksSent(receiver_win.base, base)]

ReceiverSection ==
  /\ ReceiverRuns
  /\ \E S \in SUBSET Receivable : Receive(S)
  /\ UNCHANGED monitor_done

(* The packet at the window's base gets through.                           *)
ReceivesBase ==
  /\ ReceiverRuns
  /\ \E S \in SUBSET Receivable : receiver_win.base \in S /\ Receive(S)
  /\ UNCHANGED monitor_done

-----------------------------------------------------------------------------
(* main joins the sender and the receiver and stops the monitor.           *)
Join ==
  /\ ~SenderRuns /\ ~ReceiverRuns
  /\ ~monitor_done
  /\ monitor_done' = TRUE
  /\ UNCHANGED <<sender_win, receiver_win>>

WindowEnded == monitor_done /\ UNCHANGED windowVars

WindowNext == SenderSection \/ ReceiverSection \/ Join \/ WindowEnded
WindowSpec == WindowInit /\ [][WindowNext]_windowVars

(* The threads keep running, and rand() does not drop the packet at the    *)
(* base for ever: each pass draws for it anew.                             *)
WindowFairSpec ==
  /\ WindowSpec
  /\ WF_windowVars(SenderSection) /\ WF_windowVars(ReceivesBase) /\ WF_windowVars(Join)

-----------------------------------------------------------------------------
(* Properties.                                                             *)

WindowTypeOK ==
  /\ sender_win \in [base : 0..TotalPackets, next_seq : 0..TotalPackets,
                     ack_received : SUBSET WindowPacket,
                     sent_count : 0..TotalPackets, acked_count : 0..TotalPackets]
  /\ receiver_win \in [base : 0..TotalPackets, received : SUBSET WindowPacket,
                       received_count : 0..TotalPackets]
  /\ monitor_done \in BOOLEAN

(* The two windows keep step: the sender's base is never past the          *)
(* receiver's, exactly the packets the receiver has handed on are          *)
(* acknowledged, neither side goes beyond the end of its window, and the   *)
(* counters that end the loops are the bases of the windows.               *)
WindowsInStep ==
  /\ sender_win.base <= receiver_win.base
  /\ sender_win.ack_received = {p \in WindowPacket : p < receiver_win.base}
  /\ sender_win.next_seq <= sender_win.base + SendWindowSize
  /\ \A p \in receiver_win.received : p < receiver_win.base + RecvWindowSize
  /\ \A p \in WindowPacket : p < receiver_win.base => p \in receiver_win.received
  /\ receiver_win.base \notin receiver_win.received
  /\ sender_win.acked_count = sender_win.base
  /\ sender_win.sent_count = sender_win.next_seq
  /\ receiver_win.received_count = receiver_win.base

(* Each packet is handed on once and in order, however many are dropped    *)
(* or taken out of order within the window, and the sender takes none for  *)
(* acknowledged that was not.                                              *)
WindowTransfer == INSTANCE InOrderTransfer
              WITH Total <- TotalPackets, delivered <- receiver_win.base,
                   acked <- {p \in WindowPacket : p < sender_win.base}
WindowDeliversInOrder == WindowTransfer!TransferSpec

(* All packets arrive, both threads end, and main stops the monitor.       *)
AllArrive == <>monitor_done
=============================================================================
