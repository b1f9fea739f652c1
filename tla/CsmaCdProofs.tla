----------------------------- MODULE CsmaCdProofs ------------------------------
(***************************************************************************)
(* The safety properties of CsmaCd for any number of stations and frames.  *)
(* Which station sends decides whether the channel is busy (OneSender),    *)
(* and that decides who may wait (NoLostWakeup); a station that has not    *)
(* finished has a frame in hand (FrameInHand), which keeps the loop index  *)
(* in its type and makes the record of TriedOnce advance frame by frame.   *)
(***************************************************************************)
EXTENDS CsmaCd, TLAPS

FrameInHand == \A s \in CsmaStation : place[s] # "done" => frameNo[s] < FrameCount

Inv == CsmaTypeOK /\ OneSender /\ NoLostWakeup /\ FrameInHand /\ TriedOnce

LEMMA InitInv == CsmaInit => Inv
  <1> SUFFICES ASSUME CsmaInit PROVE Inv
    OBVIOUS
  <1>1. CsmaTypeOK
    <2>1. 0 \in 0..FrameCount /\ FirstPlace(0) \in Place
      BY FrameCountAssumption DEF Place, FirstPlace
    <2>2. /\ [s \in CsmaStation |-> 0] \in [CsmaStation -> 0..FrameCount]
          /\ [s \in CsmaStation |-> {}] \in [CsmaStation -> SUBSET (0..FrameCount)]
      BY <2>1
    <2> QED BY <2>1, <2>2 DEF CsmaInit, CsmaTypeOK
  <1>2. OneSender /\ NoLostWakeup /\ FrameInHand
    BY FrameCountAssumption
    DEF CsmaInit, OneSender, NoLostWakeup, Sending, FirstPlace, FrameInHand
  <1>3. TriedOnce
    BY FrameCountAssumption DEF CsmaInit, TriedOnce, Tried, FirstPlace
  <1> QED BY <1>1, <1>2, <1>3 DEF Inv

(* A station that neither takes nor leaves the channel nor changes frame.  *)
LEMMA MoveInv ==
  ASSUME Inv, NEW s \in CsmaStation, NEW p \in {"transmit", "waiting", "woken"},
         place[s] \in {"sense", "transmit", "waiting", "woken"},
         p = "waiting" => channel_busy,
         place' = [place EXCEPT ![s] = p],
         UNCHANGED <<frameNo, channel_busy, sent, collided>>
  PROVE  Inv'
  <1>1. place \in [CsmaStation -> Place]
    BY DEF Inv, CsmaTypeOK
  <1>2. CsmaTypeOK'
    BY <1>1 DEF Inv, CsmaTypeOK, Place
  <1>3. \A q \in CsmaStation : Sending(q)' <=> Sending(q)
    BY <1>1 DEF Sending
  <1>4. OneSender'
    BY <1>3 DEF Inv, OneSender
  <1>5. NoLostWakeup' /\ FrameInHand'
    BY <1>1 DEF Inv, NoLostWakeup, FrameInHand
  <1>6. \A q \in CsmaStation : place'[q] = "gap" <=> place[q] = "gap"
    BY <1>1
  <1>7. TriedOnce'
    BY <1>6 DEF Inv, TriedOnce, Tried
  <1> QED BY <1>2, <1>4, <1>5, <1>7 DEF Inv

LEMMA AcquireInv ==
  ASSUME Inv, NEW s \in CsmaStation, Acquire(s)
  PROVE  Inv'
  <1>1. CASE FoundBusy(s)
    BY <1>1, MoveInv DEF FoundBusy, Acquire
  <1>2. CASE TakesChannel(s)
    <2>1. place \in [CsmaStation -> Place] /\ place' = [place EXCEPT ![s] = "sending"]
      BY <1>2 DEF TakesChannel, Inv, CsmaTypeOK
    <2>2. \A q \in CsmaStation : Sending(q)' <=> q = s
      BY <1>2, <2>1 DEF TakesChannel, Inv, OneSender, Sending
    <2>3. CsmaTypeOK'
      BY <1>2, <2>1 DEF TakesChannel, Inv, CsmaTypeOK, Place
    <2>4. OneSender' /\ NoLostWakeup' /\ FrameInHand'
      BY <1>2, <2>1, <2>2
      DEF Acquire, TakesChannel, OneSender, NoLostWakeup, FrameInHand, Inv
    <2>5. \A q \in CsmaStation : place'[q] = "gap" <=> place[q] = "gap"
      BY <2>1 DEF Acquire
    <2>6. TriedOnce'
      BY <1>2, <2>5 DEF TakesChannel, Inv, TriedOnce, Tried
    <2> QED BY <2>3, <2>4, <2>6 DEF Inv
  <1> QED BY <1>1, <1>2 DEF Acquire

(* The frame in hand joins the frames tried, on whichever side.            *)
LEMMA ReleaseInv ==
  ASSUME Inv, NEW s \in CsmaStation, Complete(s) \/ Collide(s)
  PROVE  Inv'
  <1>1. /\ place \in [CsmaStation -> Place] /\ place[s] = "sending"
        /\ frameNo \in [CsmaStation -> 0..FrameCount] /\ frameNo' = frameNo
        /\ sent \in [CsmaStation -> SUBSET (0..FrameCount)]
        /\ collided \in [CsmaStation -> SUBSET (0..FrameCount)]
        /\ channel_busy' = FALSE /\ place' = Broadcast(s)
    BY DEF Complete, Collide, Release, Inv, CsmaTypeOK
  <1>2. place' \in [CsmaStation -> Place]
    BY <1>1 DEF Broadcast, Place
  <1>3. \A q \in CsmaStation : ~Sending(q)' /\ place'[q] # "waiting"
    BY <1>1 DEF Broadcast, Sending, Inv, OneSender
  <1>4. CsmaTypeOK'
    <2>1. /\ sent' \in [CsmaStation -> SUBSET (0..FrameCount)]
          /\ collided' \in [CsmaStation -> SUBSET (0..FrameCount)]
      <3>1. frameNo[s] \in 0..FrameCount
        BY <1>1
      <3>2. CASE Complete(s)
        BY <3>1, <3>2, <1>1 DEF Complete
      <3>3. CASE Collide(s)
        BY <3>1, <3>3, <1>1 DEF Collide
      <3> QED BY <3>2, <3>3
    <2> QED BY <1>1, <1>2, <2>1 DEF CsmaTypeOK
  <1>5. OneSender' /\ NoLostWakeup'
    BY <1>1, <1>3 DEF OneSender, NoLostWakeup
  <1>6. FrameInHand'
    BY <1>1 DEF FrameInHand, Broadcast, Inv
  <1>7. ASSUME NEW q \in CsmaStation
        PROVE  /\ sent'[q] \cap collided'[q] = {}
               /\ Tried(q)' = {i \in 0..FrameCount :
                                 i < frameNo'[q] \/ (i = frameNo'[q] /\ place'[q] = "gap")}
    <2>1. CASE q # s
      <3>1. Tried(q)' = Tried(q) /\ sent'[q] = sent[q] /\ collided'[q] = collided[q]
        BY <2>1, <1>1 DEF Complete, Collide, Tried
      <3>2. place'[q] = "gap" <=> place[q] = "gap"
        BY <2>1, <1>1 DEF Broadcast
      <3> QED BY <3>1, <3>2, <1>1 DEF Inv, TriedOnce
    <2>2. CASE q = s
      <3>1. frameNo[s] \in 0..FrameCount /\ place'[s] = "gap"
        BY <1>1 DEF Broadcast
      <3>2. /\ Tried(s) = {i \in 0..FrameCount : i < frameNo[s]}
            /\ sent[s] \cap collided[s] = {}
        BY <1>1 DEF Inv, TriedOnce
      <3>3. frameNo[s] \notin Tried(s)
        BY <3>1, <3>2
      <3>4. \/ sent'[s] = sent[s] \cup {frameNo[s]} /\ collided'[s] = collided[s]
            \/ sent'[s] = sent[s] /\ collided'[s] = collided[s] \cup {frameNo[s]}
        BY <1>1 DEF Complete, Collide
      <3>5. Tried(s)' = Tried(s) \cup {frameNo[s]}
        BY <3>4 DEF Tried
      <3>6. sent'[s] \cap collided'[s] = {}
        BY <3>2, <3>3, <3>4 DEF Tried
      <3>7. Tried(s) \cup {frameNo[s]} = {i \in 0..FrameCount : i < frameNo[s] \/ i = frameNo[s]}
        BY <3>1, <3>2
      <3> QED BY <2>2, <3>1, <3>5, <3>6, <3>7, <1>1
    <2> QED BY <2>1, <2>2
  <1>8. TriedOnce'
    BY <1>7 DEF TriedOnce
  <1> QED BY <1>4, <1>5, <1>6, <1>8 DEF Inv

LEMMA NextFrameInv ==
  ASSUME Inv, NEW s \in CsmaStation, NextFrame(s)
  PROVE  Inv'
  <1>1. /\ place \in [CsmaStation -> Place] /\ place[s] = "gap"
        /\ frameNo \in [CsmaStation -> 0..FrameCount] /\ frameNo[s] < FrameCount
        /\ frameNo' = [frameNo EXCEPT ![s] = @ + 1]
        /\ place' = [place EXCEPT ![s] = FirstPlace(frameNo[s] + 1)]
        /\ FirstPlace(frameNo[s] + 1) \in {"sense", "done"}
        /\ UNCHANGED <<channel_busy, sent, collided>>
    BY DEF NextFrame, Inv, CsmaTypeOK, FrameInHand, FirstPlace
  <1>2. CsmaTypeOK'
    BY <1>1, FrameCountAssumption DEF Inv, CsmaTypeOK, Place
  <1>3. \A q \in CsmaStation : Sending(q)' <=> Sending(q)
    BY <1>1 DEF Sending
  <1>4. OneSender'
    BY <1>1, <1>3 DEF Inv, OneSender
  <1>5. NoLostWakeup'
    BY <1>1 DEF Inv, NoLostWakeup
  <1>6. FrameInHand'
    BY <1>1, FrameCountAssumption DEF Inv, FrameInHand, FirstPlace
  <1>7. ASSUME NEW q \in CsmaStation
        PROVE  {i \in 0..FrameCount : i < frameNo'[q] \/ (i = frameNo'[q] /\ place'[q] = "gap")}
                 = {i \in 0..FrameCount : i < frameNo[q] \/ (i = frameNo[q] /\ place[q] = "gap")}
    <2>1. CASE q # s
      BY <2>1, <1>1
    <2>2. CASE q = s
      <3>1. frameNo'[s] = frameNo[s] + 1 /\ place'[s] # "gap" /\ frameNo[s] \in Nat
        BY <1>1
      <3> QED BY <2>2, <3>1, <1>1
    <2> QED BY <2>1, <2>2
  <1>8. TriedOnce'
    BY <1>1, <1>7 DEF Inv, TriedOnce, Tried
  <1> QED BY <1>2, <1>4, <1>5, <1>6, <1>8 DEF Inv

LEMMA StepInv == Inv /\ [CsmaNext]_csmaVars => Inv'
  <1> SUFFICES ASSUME Inv, [CsmaNext]_csmaVars PROVE Inv'
    OBVIOUS
  <1>1. ASSUME NEW s \in CsmaStation, SenseFree(s) PROVE Inv'
    BY <1>1, MoveInv DEF SenseFree
  <1>2. ASSUME NEW s \in CsmaStation, Acquire(s) PROVE Inv'
    BY <1>2, AcquireInv
  <1>3. ASSUME NEW s \in CsmaStation, Complete(s) \/ Collide(s) PROVE Inv'
    BY <1>3, ReleaseInv
  <1>4. ASSUME NEW s \in CsmaStation, NextFrame(s) PROVE Inv'
    BY <1>4, NextFrameInv
  <1>5. ASSUME NEW s \in CsmaStation, WakeSpuriously(s) PROVE Inv'
    BY <1>5, MoveInv DEF WakeSpuriously
  <1>6. CASE UNCHANGED csmaVars
    BY <1>6 DEF csmaVars, Inv, CsmaTypeOK, OneSender, Sending, NoLostWakeup,
                FrameInHand, TriedOnce, Tried
  <1> QED BY <1>1, <1>2, <1>3, <1>4, <1>5, <1>6 DEF CsmaNext, StationStep, Finished

(* The invariant holds in every behaviour of the stations.                 *)
THEOREM InvAlways == CsmaSpec => []Inv
  BY InitInv, StepInv, PTL DEF CsmaSpec

(* Every variable keeps its type; in particular the loop index of line 74  *)
(* never passes frame_count.                                               *)
THEOREM TypeCorrect == CsmaSpec => []CsmaTypeOK
  <1>1. Inv => CsmaTypeOK
    BY DEF Inv
  <1> QED BY InvAlways, <1>1, PTL

(* Mutual exclusion on the channel (lines 31-42 and 49-53, 63-67) for any  *)
(* number of stations, the outdated carrier_sense and spurious wakeups     *)
(* included.                                                               *)
THEOREM MutualExclusion == CsmaSpec => []OneSender
  <1>1. Inv => OneSender
    BY DEF Inv
  <1> QED BY InvAlways, <1>1, PTL

(* The broadcasts of lines 52 and 66 leave nobody waiting for a free       *)
(* channel.                                                                *)
THEOREM WakeupsKept == CsmaSpec => []NoLostWakeup
  <1>1. Inv => NoLostWakeup
    BY DEF Inv
  <1> QED BY InvAlways, <1>1, PTL

(* Every frame goes through transmit once and ends on one of its two paths. *)
THEOREM FramesTriedOnce == CsmaSpec => []TriedOnce
  <1>1. Inv => TriedOnce
    BY DEF Inv
  <1> QED BY InvAlways, <1>1, PTL

(* A station that can take its next step whatever the others do.           *)
CanGoOn(s) ==
  \/ place[s] \in {"transmit", "woken", "sending", "gap"}
  \/ place[s] = "sense" /\ ~channel_busy

(* The stations never all wait for one another, not even if no wakeup ever *)
(* comes without a signal: until all are done one of them can go on, for   *)
(* a busy channel has a sender and a free one nobody who waits.            *)
THEOREM SomebodyGoesOn == CsmaSpec => [](AllDone \/ \E s \in CsmaStation : CanGoOn(s))
  <1>1. Inv => AllDone \/ \E s \in CsmaStation : CanGoOn(s)
    <2>1. SUFFICES ASSUME Inv, ~AllDone PROVE \E s \in CsmaStation : CanGoOn(s)
      OBVIOUS
    <2>2. CASE channel_busy
      BY <2>1, <2>2 DEF Inv, OneSender, Sending, CanGoOn
    <2>3. CASE ~channel_busy
      <3>1. PICK s \in CsmaStation : place[s] # "done"
        BY <2>1 DEF AllDone
      <3>2. place[s] \in Place /\ place[s] # "waiting"
        BY <2>1, <2>3 DEF Inv, CsmaTypeOK, NoLostWakeup
      <3>3. CanGoOn(s)
        BY <2>3, <3>1, <3>2 DEF CanGoOn, Place
      <3> QED BY <3>3
    <2> QED BY <2>2, <2>3
  <1> QED BY InvAlways, <1>1, PTL
=============================================================================
