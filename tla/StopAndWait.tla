------------------------------ MODULE StopAndWait ------------------------------
(***************************************************************************)
(* homework11/stop_and_wait.cpp: a sender and a receiver thread that share *)
(* sender_seq and receiver_ack under one mutex.  A critical section is one *)
(* step, for no section waits while another thread could run; reading done *)
(* and expected_seq in the receiver's loop condition, outside the mutex,   *)
(* is a step of its own.  should_drop and the clock are choices.           *)
(***************************************************************************)
EXTENDS Integers

CONSTANTS
  PacketCount,  \* PACKET_COUNT
  MaxRetries    \* max_retries

ASSUME PacketCountAssumption == PacketCount \in Nat \ {0}
ASSUME MaxRetriesAssumption == MaxRetries \in Nat \ {0}

VARIABLES
  sender_seq,    \* the packet in the medium, or NoPacket
  receiver_ack,  \* the last acknowledgement, or NoPacket
  done,
  sender,        \* where the sender is
  i,             \* the packet it works on
  retries,
  acked,         \* the packets it reported as acknowledged
  failed,        \* and those it reported as failed
  receiver,      \* where the receiver is
  expected_seq

senderVars == <<sender, i, retries, acked, failed>>
receiverVars == <<receiver, expected_seq>>
stopWaitVars == <<sender_seq, receiver_ack, done, senderVars, receiverVars>>

NoPacket == -1
PacketNo == {p \in 0..PacketCount : p < PacketCount}

StopWaitInit ==
  /\ sender_seq = NoPacket /\ receiver_ack = NoPacket
  /\ done = FALSE
  /\ sender = "publish" /\ i = 0 /\ retries = 0
  /\ acked = {} /\ failed = {}
  /\ receiver = "check" /\ expected_seq = 0

-----------------------------------------------------------------------------
(* The sender.                                                             *)

Publish ==
  /\ sender = "publish"
  /\ sender_seq' = i
  /\ sender' = "flight"
  /\ UNCHANGED <<receiver_ack, done, i, retries, acked, failed, receiverVars>>

NextPacket ==
  /\ i' = i + 1
  /\ retries' = 0
  /\ sender' = IF i + 1 < PacketCount THEN "publish" ELSE "finish"

(* retries++ and the condition of the inner while.                         *)
TryAgain ==
  \/ /\ retries + 1 < MaxRetries
     /\ retries' = retries + 1
     /\ sender' = "publish"
     /\ UNCHANGED <<i, failed>>
  \/ /\ retries + 1 = MaxRetries
     /\ NextPacket
     /\ failed' = failed \cup {i}

LoseUncounted ==  \* slip: "continue" before retries++
  /\ sender = "flight"
  /\ sender' = "publish"
  /\ UNCHANGED <<sender_seq, receiver_ack, done, i, retries, acked, failed, receiverVars>>

(* The packet "was lost": sender_seq stays, so the receiver may see it yet. *)
LosePacket ==
  /\ sender = "flight"
  /\ TryAgain
  /\ UNCHANGED <<sender_seq, receiver_ack, done, acked, receiverVars>>

Pass ==
  /\ sender = "flight"
  /\ sender' = "await"
  /\ UNCHANGED <<sender_seq, receiver_ack, done, i, retries, acked, failed, receiverVars>>

AnyAck == receiver_ack # NoPacket  \* slip: receiver_ack >= 0

GotAck == receiver_ack = i

AckSeen ==
  /\ sender = "await"
  /\ GotAck
  /\ NextPacket
  /\ acked' = acked \cup {i}
  /\ UNCHANGED <<sender_seq, receiver_ack, done, failed, receiverVars>>

(* elapsed > TIMEOUT_MS, looked at only when there is no acknowledgement.  *)
Timeout ==
  /\ sender = "await"
  /\ ~GotAck
  /\ TryAgain
  /\ UNCHANGED <<sender_seq, receiver_ack, done, acked, receiverVars>>

FinishSilently ==  \* slip: done is not set
  /\ sender = "finish"
  /\ sender' = "end"
  /\ UNCHANGED <<sender_seq, receiver_ack, done, i, retries, acked, failed, receiverVars>>

Finish ==
  /\ sender = "finish"
  /\ done' = TRUE
  /\ sender' = "end"
  /\ UNCHANGED <<sender_seq, receiver_ack, i, retries, acked, failed, receiverVars>>

SenderStep == Publish \/ LosePacket \/ Pass \/ AckSeen \/ Timeout \/ Finish

-----------------------------------------------------------------------------
(* The receiver.                                                           *)

(* while (!done || expected_seq < PACKET_COUNT)                            *)
Check ==
  /\ receiver = "check"
  /\ receiver' = IF ~done \/ expected_seq < PacketCount THEN "poll" ELSE "end"
  /\ UNCHANGED <<sender_seq, receiver_ack, done, senderVars, expected_seq>>

OfferedLate == sender_seq >= 0 /\ sender_seq >= expected_seq  \* slip: ">=" for "=="
OfferedAgain == sender_seq >= 0                               \* slip: no comparison

Offered == sender_seq >= 0 /\ sender_seq = expected_seq

AckLostCounted ==  \* slip: expected_seq++ for a lost acknowledgement as well
  /\ UNCHANGED receiver_ack
  /\ expected_seq' = expected_seq + 1

AckLost == UNCHANGED <<receiver_ack, expected_seq>>
Accept ==
  /\ receiver_ack' = sender_seq
  /\ expected_seq' = expected_seq + 1

Take ==
  /\ receiver = "poll"
  /\ Offered
  /\ AckLost \/ Accept
  /\ sender_seq' = NoPacket
  /\ receiver' = "check"
  /\ UNCHANGED <<done, senderVars>>

PassBy ==
  /\ receiver = "poll"
  /\ ~Offered
  /\ receiver' = "check"
  /\ UNCHANGED <<sender_seq, receiver_ack, done, senderVars, expected_seq>>

ReceiverStep == Check \/ Take \/ PassBy

-----------------------------------------------------------------------------
(* main joins both threads.                                                *)
BothEnded == sender = "end" /\ receiver = "end"
Joined == BothEnded /\ UNCHANGED stopWaitVars

StopWaitNext == SenderStep \/ ReceiverStep \/ Joined
StopWaitSpec == StopWaitInit /\ [][StopWaitNext]_stopWaitVars

(* Both threads keep running; nothing is assumed of the losses.            *)
StopWaitFairSpec == StopWaitSpec /\ WF_stopWaitVars(SenderStep) /\ WF_stopWaitVars(ReceiverStep)

-----------------------------------------------------------------------------
(* Properties.                                                             *)

StopWaitTypeOK ==
  /\ sender_seq \in {NoPacket} \cup PacketNo
  /\ receiver_ack \in {NoPacket} \cup PacketNo
  /\ done \in BOOLEAN
  /\ sender \in {"publish", "flight", "await", "finish", "end"}
  /\ i \in 0..PacketCount
  /\ retries \in 0..MaxRetries
  /\ acked \subseteq PacketNo /\ failed \subseteq PacketNo
  /\ receiver \in {"check", "poll", "end"}
  /\ expected_seq \in 0..PacketCount

(* The window is one packet: the receiver never expects more than the one  *)
(* after the sender's, its last acknowledgement is of the packet before    *)
(* the one it expects, every packet the sender has left behind was either  *)
(* acknowledged or given up, and an acknowledged one did arrive.           *)
WindowOfOne ==
  /\ expected_seq <= i + 1
  /\ receiver_ack = expected_seq - 1
  /\ acked \cap failed = {}
  /\ acked \cup failed = {p \in PacketNo : p < i}
  /\ \A p \in acked : p < expected_seq

(* A packet given up before the receiver took it from the medium blocks    *)
(* all the later ones: nothing is delivered any more.                      *)
Blocked == expected_seq < i /\ sender_seq # expected_seq
BlockedForGood == [][Blocked => Blocked' /\ UNCHANGED expected_seq]_stopWaitVars

(* Each packet arrives once and in order whatever is lost, resent or late, *)
(* and the sender takes none for acknowledged that did not arrive.         *)
StopWaitTransfer == INSTANCE InOrderTransfer
              WITH Total <- PacketCount, delivered <- expected_seq, acked <- acked
StopWaitDeliversInOrder == StopWaitTransfer!TransferSpec

(* The sender gets to the end of its packets, however many are lost.       *)
SenderEnds == <>(sender = "end")

(* The receiver comes to its end once it has all the packets.              *)
ReceiverEnds == expected_seq = PacketCount ~> receiver = "end"

(* main waits "for both threads to end" (line 153), and they do.           *)
BothEnd == <>BothEnded
=============================================================================
