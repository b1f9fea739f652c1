---------------------------- MODULE InOrderTransfer ----------------------------
(***************************************************************************)
(* What the two transfer simulations of homework11 promise: the packets    *)
(* 0 .. Total-1 reach the receiver each once and in order, and the sender  *)
(* never takes a packet for acknowledged that has not reached it.  Nothing *)
(* is promised about how many packets arrive.                              *)
(***************************************************************************)
EXTENDS Naturals

CONSTANT Total  \* how many packets there are, a natural number

VARIABLES
  delivered,  \* how many packets the receiver has handed on: 0 .. delivered-1
  acked       \* the packets the sender knows to have arrived

transferVars == <<delivered, acked>>

Packet == {p \in 0..Total : p < Total}
Reached == {p \in Packet : p < delivered}

TransferInit == delivered = 0 /\ acked = {}

(* A receiver may hand on several packets at once, never leaving one out.  *)
Deliver ==
  /\ delivered' \in (delivered + 1)..Total
  /\ UNCHANGED acked

(* A sender learns of packets that arrived; it forgets none.               *)
Learn ==
  /\ acked' \in SUBSET Reached
  /\ acked \subseteq acked'
  /\ UNCHANGED delivered

TransferNext == Deliver \/ Learn
TransferSpec == TransferInit /\ [][TransferNext]_transferVars
=============================================================================
