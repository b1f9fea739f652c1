--------------------------------- MODULE CsmaCd --------------------------------
(***************************************************************************)
(* homework5/csma_cd.cpp: stations that share a channel.  Each is a thread *)
(* that listens until the channel is free, takes it under channel_mutex    *)
(* (waiting for channel_cond when somebody was faster), holds it for a     *)
(* while, and gives it back, having sent its frame or met a collision.     *)
(* A critical section is one step, for nothing in it blocks but the wait.  *)
(***************************************************************************)
EXTENDS Naturals, FiniteSets

CONSTANTS
  CsmaStation,  \* the threads of main, NUM_STATIONS of them
  FrameCount    \* frame_count of every station

ASSUME FrameCountAssumption == FrameCount \in Nat

VARIABLES
  place,         \* where each station is
  frameNo,       \* the loop index i of each station
  channel_busy,
  sent,          \* the frames each station has sent to the end
  collided       \* the frames each station met a collision with

csmaVars == <<place, frameNo, channel_busy, sent, collided>>

(* "waiting" is inside pthread_cond_wait, "woken" after it has been        *)
(* signalled and before it has the mutex again.                            *)
Place == {"sense", "transmit", "waiting", "woken", "sending", "gap", "done"}
FirstPlaceOffByOne(i) == IF i <= FrameCount THEN "sense" ELSE "done"  \* slip: "<=" in the for

(* Where a station turns to its frame i. *)
FirstPlace(i) == IF i < FrameCount THEN "sense" ELSE "done"

CsmaInit ==
  /\ place = [s \in CsmaStation |-> FirstPlace(0)]
  /\ frameNo = [s \in CsmaStation |-> 0]
  /\ channel_busy = FALSE
  /\ sent = [s \in CsmaStation |-> {}]
  /\ collided = [s \in CsmaStation |-> {}]

-----------------------------------------------------------------------------
(* while (carrier_sense()): the mutex is released before the result is used. *)
SenseFree(s) ==
  /\ place[s] = "sense"
  /\ ~channel_busy
  /\ place' = [place EXCEPT ![s] = "transmit"]
  /\ UNCHANGED <<frameNo, channel_busy, sent, collided>>

FoundBusy(s) ==
  /\ channel_busy
  /\ place' = [place EXCEPT ![s] = "waiting"]
  /\ UNCHANGED <<frameNo, channel_busy, sent, collided>>

TakesChannel(s) ==
  /\ ~channel_busy
  /\ channel_busy' = TRUE
  /\ place' = [place EXCEPT ![s] = "sending"]
  /\ UNCHANGED <<frameNo, sent, collided>>

CheckedOnce(s) ==  \* slip: "if" for "while", so a woken station goes on
  /\ place[s] \in {"transmit", "woken"}
  /\ \/ place[s] = "transmit" /\ FoundBusy(s)
     \/ place[s] = "transmit" /\ TakesChannel(s)
     \/ /\ place[s] = "woken" /\ channel_busy' = TRUE
        /\ place' = [place EXCEPT ![s] = "sending"] /\ UNCHANGED <<frameNo, sent, collided>>

(* while (channel_busy) pthread_cond_wait; channel_busy = true *)
Acquire(s) ==
  /\ place[s] \in {"transmit", "woken"}
  /\ FoundBusy(s) \/ TakesChannel(s)

(* pthread_cond_wait may return without a signal. *)
WakeSpuriously(s) ==
  /\ place[s] = "waiting"
  /\ place' = [place EXCEPT ![s] = "woken"]
  /\ UNCHANGED <<frameNo, channel_busy, sent, collided>>

SignalOne(s) ==  \* slip: pthread_cond_signal for pthread_cond_broadcast
  LET lucky == IF \E q \in CsmaStation : place[q] = "waiting"
                 THEN {CHOOSE q \in CsmaStation : place[q] = "waiting"} ELSE {}
  IN  [q \in CsmaStation |-> IF q = s THEN "gap" ELSE IF q \in lucky THEN "woken" ELSE place[q]]

(* pthread_cond_broadcast by s, which goes on to the gap between frames. *)
Broadcast(s) ==
  [q \in CsmaStation |-> IF q = s THEN "gap"
                         ELSE IF place[q] = "waiting" THEN "woken" ELSE place[q]]

Release(s) ==
  /\ place[s] = "sending"
  /\ channel_busy' = FALSE
  /\ place' = Broadcast(s)
  /\ UNCHANGED frameNo

Complete(s) ==
  /\ Release(s)
  /\ sent' = [sent EXCEPT ![s] = @ \cup {frameNo[s]}]
  /\ UNCHANGED collided

CollideSilently(s) ==  \* slip: no broadcast on this path
  /\ place[s] = "sending"
  /\ channel_busy' = FALSE
  /\ place' = [place EXCEPT ![s] = "gap"]
  /\ collided' = [collided EXCEPT ![s] = @ \cup {frameNo[s]}]
  /\ UNCHANGED <<frameNo, sent>>

CollideFallsThrough(s) ==  \* slip: no return at the end of this path
  /\ Release(s)
  /\ collided' = [collided EXCEPT ![s] = @ \cup {frameNo[s]}]
  /\ sent' = [sent EXCEPT ![s] = @ \cup {frameNo[s]}]

(* rand() % 10 == 0: the station backs off and returns from transmit. *)
Collide(s) ==
  /\ Release(s)
  /\ collided' = [collided EXCEPT ![s] = @ \cup {frameNo[s]}]
  /\ UNCHANGED sent

NextFrame(s) ==
  /\ place[s] = "gap"
  /\ frameNo' = [frameNo EXCEPT ![s] = @ + 1]
  /\ place' = [place EXCEPT ![s] = FirstPlace(frameNo[s] + 1)]
  /\ UNCHANGED <<channel_busy, sent, collided>>

StationStep(s) ==
  SenseFree(s) \/ Acquire(s) \/ Complete(s) \/ Collide(s) \/ NextFrame(s)

(* main joins the threads and returns. *)
AllDone == \A s \in CsmaStation : place[s] = "done"
Finished == AllDone /\ UNCHANGED csmaVars

CsmaNext == (\E s \in CsmaStation : StationStep(s) \/ WakeSpuriously(s)) \/ Finished

(* Every thread runs; nothing is assumed of spurious wakeups. *)
CsmaSpec == CsmaInit /\ [][CsmaNext]_csmaVars
CsmaFairSpec == CsmaSpec /\ \A s \in CsmaStation : WF_csmaVars(StationStep(s))

-----------------------------------------------------------------------------
(* Properties.                                                             *)

CsmaTypeOK ==
  /\ place \in [CsmaStation -> Place]
  /\ frameNo \in [CsmaStation -> 0..FrameCount]
  /\ channel_busy \in BOOLEAN
  /\ sent \in [CsmaStation -> SUBSET (0..FrameCount)]
  /\ collided \in [CsmaStation -> SUBSET (0..FrameCount)]

Sending(s) == place[s] = "sending"

(* Two stations never send at once, although each decides on a value of    *)
(* channel_busy it may have read before the other took the channel, and    *)
(* the channel is busy exactly while somebody sends.                       *)
OneSender ==
  /\ \A s, q \in CsmaStation : Sending(s) /\ Sending(q) => s = q
  /\ channel_busy <=> \E s \in CsmaStation : Sending(s)

(* No wakeup is lost: nobody waits for a channel that is free.             *)
NoLostWakeup == ~channel_busy => \A s \in CsmaStation : place[s] # "waiting"

(* Every frame is tried exactly once: when a station turns to frame i all  *)
(* the earlier ones were sent or collided, and none was both.              *)
Tried(s) == sent[s] \cup collided[s]
TriedOnce ==
  \A s \in CsmaStation :
    /\ sent[s] \cap collided[s] = {}
    /\ Tried(s) = {i \in 0..FrameCount : i < frameNo[s] \/ (i = frameNo[s] /\ place[s] = "gap")}

(* All stations get through their frames: nobody waits forever.            *)
AllGetThrough == <>AllDone

(* The program announces that a station that met a collision waits "and    *)
(* then retries" (line 57): in the end every frame has been sent.          *)
CollidedFramesRetried ==
  AllDone => \A s \in CsmaStation : sent[s] = {i \in 0..FrameCount : i < FrameCount}
=============================================================================
