--------------------------- MODULE StopAndWaitProofs ---------------------------
(***************************************************************************)
(* The safety properties of StopAndWait for any number of packets and      *)
(* tries.  WindowOfOne needs two more facts to be inductive: what is in    *)
(* the medium is never ahead of the sender (MediumBehind), and the sender  *)
(* has a packet in hand and a try left wherever it works (InHand).  The    *)
(* tries it has left bound the steps it can still make (SenderIsBounded).  *)
(***************************************************************************)
EXTENDS StopAndWait, TLAPS

MediumBehind == sender_seq <= i

InHand ==
  /\ sender \in {"publish", "flight", "await"} => i < PacketCount
  /\ sender \in {"finish", "end"} => i = PacketCount
  /\ retries < MaxRetries

Inv == StopWaitTypeOK /\ WindowOfOne /\ MediumBehind /\ InHand

LEMMA InitInv == StopWaitInit => Inv
  <1> SUFFICES ASSUME StopWaitInit PROVE Inv
    OBVIOUS
  <1>1. StopWaitTypeOK
    <2>1. 0 \in 0..PacketCount /\ 0 \in 0..MaxRetries
      BY PacketCountAssumption, MaxRetriesAssumption
    <2> QED BY <2>1 DEF StopWaitInit, StopWaitTypeOK
  <1>2. {p \in PacketNo : p < 0} = {}
    BY PacketCountAssumption DEF PacketNo
  <1>3. WindowOfOne
    BY <1>2 DEF StopWaitInit, WindowOfOne, NoPacket
  <1>4. MediumBehind /\ InHand
    BY PacketCountAssumption, MaxRetriesAssumption
    DEF StopWaitInit, MediumBehind, InHand, NoPacket
  <1> QED BY <1>1, <1>3, <1>4 DEF Inv

(* Turning to the next packet, once the present one is settled.            *)
LEMMA SettleInv ==
  ASSUME Inv, NextPacket, sender \in {"flight", "await"},
         \/ acked' = acked \cup {i} /\ failed' = failed /\ i < expected_seq
         \/ acked' = acked /\ failed' = failed \cup {i},
         UNCHANGED <<sender_seq, receiver_ack, done, receiverVars>>
  PROVE  Inv'
  <1>1. /\ i \in PacketNo /\ i \in Nat /\ i' = i + 1 /\ i' \in 0..PacketCount
        /\ retries' = 0 /\ PacketCount \in Nat
        /\ expected_seq \in Nat /\ sender_seq \in Int
    BY PacketCountAssumption DEF Inv, StopWaitTypeOK, InHand, NextPacket, PacketNo, NoPacket
  <1>2. StopWaitTypeOK'
    <2>1. acked' \subseteq PacketNo /\ failed' \subseteq PacketNo
      BY <1>1 DEF Inv, StopWaitTypeOK
    <2>2. sender' \in {"publish", "finish"} /\ retries' \in 0..MaxRetries
      BY <1>1, MaxRetriesAssumption DEF NextPacket
    <2> QED BY <1>1, <2>1, <2>2 DEF Inv, StopWaitTypeOK, receiverVars
  <1>3. InHand'
    BY <1>1, MaxRetriesAssumption DEF Inv, InHand, NextPacket
  <1>4. MediumBehind'
    BY <1>1 DEF Inv, MediumBehind
  <1>5. {p \in PacketNo : p < i'} = {p \in PacketNo : p < i} \cup {i}
    BY <1>1 DEF PacketNo
  <1>6. (acked \cup failed)' = {p \in PacketNo : p < i'} /\ (acked \cap failed)' = {}
    <2>1. i \notin acked \cup failed
      BY <1>1 DEF Inv, WindowOfOne
    <2> QED BY <1>5, <2>1 DEF Inv, WindowOfOne
  <1>7. /\ \A p \in acked' : p < expected_seq'
        /\ receiver_ack' = expected_seq' - 1
        /\ expected_seq' <= i' + 1
    BY <1>1 DEF Inv, WindowOfOne, receiverVars
  <1> QED BY <1>2, <1>3, <1>4, <1>6, <1>7 DEF Inv, WindowOfOne

LEMMA TryAgainInv ==
  ASSUME Inv, TryAgain, sender \in {"flight", "await"},
         UNCHANGED <<sender_seq, receiver_ack, done, acked, receiverVars>>
  PROVE  Inv'
  <1>1. CASE retries + 1 < MaxRetries
    <2>1. /\ retries' = retries + 1 /\ sender' = "publish" /\ UNCHANGED <<i, failed>>
          /\ retries \in Nat /\ MaxRetries \in Nat /\ i < PacketCount
      BY <1>1, MaxRetriesAssumption DEF TryAgain, Inv, StopWaitTypeOK, InHand
    <2>2. StopWaitTypeOK' /\ InHand'
      BY <1>1, <2>1 DEF Inv, StopWaitTypeOK, InHand, receiverVars
    <2> QED BY <2>1, <2>2 DEF Inv, WindowOfOne, MediumBehind, receiverVars
  <1>2. CASE NextPacket /\ failed' = failed \cup {i}
    BY <1>2, SettleInv
  <1> QED BY <1>1, <1>2 DEF TryAgain

LEMMA SenderInv ==
  ASSUME Inv, SenderStep
  PROVE  Inv'
  <1>1. CASE Publish
    BY <1>1 DEF Publish, Inv, StopWaitTypeOK, WindowOfOne, MediumBehind, InHand,
                receiverVars, PacketNo
  <1>2. CASE LosePacket
    BY <1>2, TryAgainInv DEF LosePacket
  <1>3. CASE Pass
    BY <1>3 DEF Pass, Inv, StopWaitTypeOK, WindowOfOne, MediumBehind, InHand, receiverVars
  <1>4. CASE AckSeen
    <2>1. i < expected_seq
      BY <1>4 DEF AckSeen, GotAck, Inv, WindowOfOne, StopWaitTypeOK
    <2> QED BY <1>4, <2>1, SettleInv DEF AckSeen
  <1>5. CASE Timeout
    BY <1>5, TryAgainInv DEF Timeout
  <1>6. CASE Finish
    BY <1>6 DEF Finish, Inv, StopWaitTypeOK, WindowOfOne, MediumBehind, InHand, receiverVars
  <1> QED BY <1>1, <1>2, <1>3, <1>4, <1>5, <1>6 DEF SenderStep

LEMMA ReceiverInv ==
  ASSUME Inv, ReceiverStep
  PROVE  Inv'
  <1>1. CASE Check
    BY <1>1 DEF Check, Inv, StopWaitTypeOK, WindowOfOne, MediumBehind, InHand, senderVars
  <1>2. CASE Take
    <2>1. /\ sender_seq \in PacketNo /\ sender_seq = expected_seq
          /\ sender_seq <= i /\ i \in Nat
      BY <1>2 DEF Take, Offered, Inv, StopWaitTypeOK, MediumBehind, NoPacket
    <2>2. UNCHANGED <<done, sender, i, retries, acked, failed>> /\ sender_seq' = NoPacket
      BY <1>2 DEF Take, senderVars
    <2>3. \/ UNCHANGED <<receiver_ack, expected_seq>>
          \/ receiver_ack' = sender_seq /\ expected_seq' = expected_seq + 1
      BY <1>2 DEF Take, AckLost, Accept
    <2>4. StopWaitTypeOK'
      BY <1>2, <2>1, <2>2, <2>3, PacketCountAssumption DEF Take, Inv, StopWaitTypeOK, PacketNo
    <2>5. WindowOfOne'
      BY <2>1, <2>2, <2>3 DEF Inv, WindowOfOne, PacketNo
    <2>6. MediumBehind' /\ InHand'
      BY <2>1, <2>2 DEF Inv, MediumBehind, InHand, NoPacket
    <2> QED BY <2>4, <2>5, <2>6 DEF Inv
  <1>3. CASE PassBy
    BY <1>3 DEF PassBy, Inv, StopWaitTypeOK, WindowOfOne, MediumBehind, InHand, senderVars
  <1> QED BY <1>1, <1>2, <1>3 DEF ReceiverStep

LEMMA StepInv == Inv /\ [StopWaitNext]_stopWaitVars => Inv'
  <1> SUFFICES ASSUME Inv, [StopWaitNext]_stopWaitVars PROVE Inv'
    OBVIOUS
  <1>1. CASE UNCHANGED stopWaitVars
    BY <1>1 DEF stopWaitVars, senderVars, receiverVars, Inv, StopWaitTypeOK, WindowOfOne,
                MediumBehind, InHand
  <1> QED BY <1>1, SenderInv, ReceiverInv DEF StopWaitNext, Joined

(* The invariant holds in every behaviour of the two threads.              *)
THEOREM InvAlways == StopWaitSpec => []Inv
  BY InitInv, StepInv, PTL DEF StopWaitSpec

(* Types: the medium and the acknowledgement hold packet numbers only, and *)
(* the receiver's counter never passes PACKET_COUNT.                       *)
THEOREM TypeCorrect == StopWaitSpec => []StopWaitTypeOK
  <1>1. Inv => StopWaitTypeOK
    BY DEF Inv
  <1> QED BY InvAlways, <1>1, PTL

(* The window is one packet and the sender's record is true, for any       *)
(* PACKET_COUNT and max_retries.                                           *)
THEOREM OnePacketWindow == StopWaitSpec => []WindowOfOne
  <1>1. Inv => WindowOfOne
    BY DEF Inv
  <1> QED BY InvAlways, <1>1, PTL

LEMMA StepBlocked ==
  ASSUME Inv, [StopWaitNext]_stopWaitVars, Blocked
  PROVE  Blocked' /\ UNCHANGED expected_seq
  <1>1. expected_seq \in Nat /\ i \in Nat
    BY DEF Inv, StopWaitTypeOK
  <1>2. ~Take
    BY DEF Take, Offered, Blocked
  <1>3. UNCHANGED expected_seq
    BY <1>2 DEF StopWaitNext, SenderStep, ReceiverStep, Publish, LosePacket, Pass, AckSeen, Timeout,
                Finish, Check, PassBy, Joined, stopWaitVars, receiverVars
  <1>4. i' \in Nat /\ i' >= i
    BY <1>1, <1>2 DEF StopWaitNext, SenderStep, ReceiverStep, Publish, LosePacket, Pass, AckSeen,
                Timeout, Finish, Check, PassBy, Joined, stopWaitVars, senderVars, TryAgain, NextPacket
  <1>5. sender_seq' \in {sender_seq, i}
    BY <1>2 DEF StopWaitNext, SenderStep, ReceiverStep, Publish, LosePacket, Pass, AckSeen, Timeout,
                Finish, Check, PassBy, Joined, stopWaitVars
  <1> QED BY <1>1, <1>3, <1>4, <1>5 DEF Blocked

(* A packet given up before it was taken stops the transfer for good.      *)
THEOREM GivenUpBlocks == StopWaitSpec => BlockedForGood
  <1>1. Inv /\ [StopWaitNext]_stopWaitVars => [Blocked => Blocked' /\ UNCHANGED expected_seq]_stopWaitVars
    BY StepBlocked
  <1> QED BY InvAlways, <1>1, PTL DEF StopWaitSpec, BlockedForGood

LEMMA StepTransfer ==
  ASSUME Inv, [StopWaitNext]_stopWaitVars
  PROVE  [StopWaitTransfer!TransferNext]_(StopWaitTransfer!transferVars)
  <1> USE DEF StopWaitTransfer!transferVars
  <1>1. CASE UNCHANGED <<expected_seq, acked>>
    BY <1>1
  <1>2. CASE AckSeen
    <2>1. i \in PacketNo /\ i < expected_seq
      BY <1>2 DEF AckSeen, GotAck, Inv, StopWaitTypeOK, InHand, WindowOfOne, PacketNo
    <2>2. acked \cup {i} \subseteq StopWaitTransfer!Reached
      BY <2>1 DEF Inv, StopWaitTypeOK, WindowOfOne, StopWaitTransfer!Reached,
                  StopWaitTransfer!Packet, PacketNo
    <2>3. StopWaitTransfer!Learn
      BY <1>2, <2>2 DEF AckSeen, StopWaitTransfer!Learn, receiverVars
    <2> QED BY <2>3 DEF StopWaitTransfer!TransferNext
  <1>3. CASE Take /\ Accept
    <2>1. expected_seq' = expected_seq + 1 /\ expected_seq' \in 0..PacketCount
      BY <1>3, StepInv DEF Accept, Inv, StopWaitTypeOK
    <2>2. StopWaitTransfer!Deliver
      BY <1>3, <2>1, PacketCountAssumption
      DEF StopWaitTransfer!Deliver, Take, senderVars, Inv, StopWaitTypeOK
    <2> QED BY <2>2 DEF StopWaitTransfer!TransferNext
  <1> QED
    BY <1>1, <1>2, <1>3
    DEF StopWaitNext, SenderStep, ReceiverStep, Publish, LosePacket, Pass, Timeout, Finish, Check,
        Take, AckLost, PassBy, Joined, stopWaitVars, senderVars, receiverVars

(* Every behaviour of the two threads is an in-order transfer.             *)
THEOREM StopAndWaitImplementsTransfer == StopWaitSpec => StopWaitDeliversInOrder
  <1>1. StopWaitInit => StopWaitTransfer!TransferInit
    BY DEF StopWaitInit, StopWaitTransfer!TransferInit
  <1>2. Inv /\ [StopWaitNext]_stopWaitVars
          => [StopWaitTransfer!TransferNext]_(StopWaitTransfer!transferVars)
    BY StepTransfer
  <1> QED
    BY InvAlways, <1>1, <1>2, PTL
    DEF StopWaitSpec, StopWaitDeliversInOrder, StopWaitTransfer!TransferSpec

(* How many steps the sender has still to make at most: three for each try *)
(* of each packet it has left, less those of the present try it has made,  *)
(* and the last.                                                           *)
TriesLeft == (PacketCount - i) * MaxRetries - retries
MadeOfTry == IF sender = "await" THEN 2 ELSE IF sender = "flight" THEN 1 ELSE 0
SenderStepsLeft ==
  IF sender = "end" THEN 0
  ELSE IF sender = "finish" THEN 1
  ELSE 3 * TriesLeft + 1 - MadeOfTry

LEMMA TriesCounted ==
  ASSUME NEW m \in Nat \ {0}, NEW p \in Nat, NEW k \in 0..p
  PROVE  /\ (p - k) * m \in 0..(p * m)
         /\ k < p => (p - (k + 1)) * m = (p - k) * m - m /\ (p - k) * m >= m
  <1>1. k < p => (p - (k + 1)) * m = (p - k) * m - m
    OBVIOUS
  <1>2. PICK left \in Nat : left = p - k
    OBVIOUS
  <1>3. left * m \in Nat /\ k * m \in Nat /\ (left >= 1 => left * m >= m)
    OBVIOUS
  <1>4. p * m = left * m + k * m
    BY <1>2
  <1>5. left * m \in 0..(p * m)
    BY ONLY <1>3, <1>4
  <1> QED BY <1>1, <1>2, <1>3, <1>5

LEMMA SenderStepsCounted ==
  ASSUME Inv
  PROVE  /\ SenderStepsLeft \in 0..(3 * (PacketCount * MaxRetries) + 1)
         /\ SenderStepsLeft = 0 <=> sender = "end"
  <1>1. /\ MaxRetries \in Nat \ {0} /\ PacketCount \in Nat /\ i \in 0..PacketCount
        /\ retries \in Nat /\ retries < MaxRetries
    BY PacketCountAssumption, MaxRetriesAssumption DEF Inv, StopWaitTypeOK, InHand
  <1>2. PICK whole \in Nat : whole = PacketCount * MaxRetries
    BY <1>1
  <1>3. PICK left \in 0..whole : left = (PacketCount - i) * MaxRetries
    BY <1>1, <1>2, TriesCounted
  <1>4. i < PacketCount => left - retries >= 1
    BY <1>1, <1>3, TriesCounted
  <1>5. sender \in {"publish", "flight", "await"} => left - retries >= 1
    BY <1>4 DEF Inv, InHand
  <1>6. sender \in {"publish", "flight", "await", "finish", "end"}
    BY DEF Inv, StopWaitTypeOK
  <1>7. TriesLeft = left - retries
    BY <1>3 DEF TriesLeft
  <1> QED BY <1>1, <1>2, <1>3, <1>5, <1>6, <1>7 DEF SenderStepsLeft, MadeOfTry

LEMMA SenderStepsDown ==
  ASSUME Inv, SenderStep
  PROVE  SenderStepsLeft' < SenderStepsLeft
  <1>1. /\ MaxRetries \in Nat \ {0} /\ PacketCount \in Nat /\ i \in 0..PacketCount
        /\ retries \in Nat /\ retries < MaxRetries
    BY PacketCountAssumption, MaxRetriesAssumption DEF Inv, StopWaitTypeOK, InHand
  <1>2. CASE Publish
    <2>1. sender = "publish" /\ sender' = "flight" /\ TriesLeft' = TriesLeft
      BY <1>2 DEF Publish, TriesLeft
    <2> QED BY <2>1, <1>1 DEF SenderStepsLeft, MadeOfTry, TriesLeft
  <1>3. CASE Pass
    <2>1. sender = "flight" /\ sender' = "await" /\ TriesLeft' = TriesLeft
      BY <1>3 DEF Pass, TriesLeft
    <2> QED BY <2>1, <1>1 DEF SenderStepsLeft, MadeOfTry, TriesLeft
  <1>4. CASE Finish
    BY <1>4 DEF Finish, SenderStepsLeft
  <1>5. CASE LosePacket \/ AckSeen \/ Timeout
    <2>1. sender \in {"flight", "await"} /\ (TryAgain \/ NextPacket) /\ i < PacketCount
      BY <1>5 DEF LosePacket, AckSeen, Timeout, Inv, InHand
    <2>2. PICK left \in Int :
            /\ left = (PacketCount - i) * MaxRetries /\ left >= MaxRetries
            /\ (PacketCount - (i + 1)) * MaxRetries = left - MaxRetries
      BY <1>1, <2>1, TriesCounted
    <2>3. TriesLeft = left - retries
      BY <2>2 DEF TriesLeft
    <2>4. SenderStepsLeft >= 3 * (left - retries) - 1
      BY <1>1, <2>1, <2>3 DEF SenderStepsLeft, MadeOfTry
    <2>5. CASE retries' = retries + 1 /\ sender' = "publish" /\ UNCHANGED i
      <3>1. TriesLeft' = left - (retries + 1)
        BY <2>2, <2>5 DEF TriesLeft
      <3>2. SenderStepsLeft' = 3 * (left - (retries + 1)) + 1
        BY <2>5, <3>1, <1>1 DEF SenderStepsLeft, MadeOfTry
      <3> QED BY <1>1, <2>4, <3>2, SenderStepsCounted
    <2>6. CASE NextPacket
      <3>1. /\ i' = i + 1 /\ retries' = 0
            /\ sender' = IF i + 1 < PacketCount THEN "publish" ELSE "finish"
        BY <2>6 DEF NextPacket
      <3>2. TriesLeft' = left - MaxRetries
        <4>1. (PacketCount - i') * MaxRetries = left - MaxRetries
          BY <2>2, <3>1, Zenon
        <4>2. TriesLeft' = (left - MaxRetries) - 0
          BY <3>1, <4>1, Zenon DEF TriesLeft
        <4> QED BY <1>1, <2>2, <4>2
      <3>3. SenderStepsLeft' <= 3 * (left - MaxRetries) + 1
        BY <2>2, <3>1, <3>2, <1>1 DEF SenderStepsLeft, MadeOfTry
      <3>4. SenderStepsLeft' \in Int
        BY <2>2, <3>1, <3>2, <1>1 DEF SenderStepsLeft, MadeOfTry
      <3> QED BY <1>1, <2>2, <2>4, <3>3, <3>4, SenderStepsCounted
    <2> QED BY <2>1, <2>5, <2>6 DEF TryAgain
  <1> QED BY <1>2, <1>3, <1>4, <1>5 DEF SenderStep

(* The sender comes to its end, whatever is lost and whatever the receiver *)
(* does: it makes no more than three steps for each of the max_retries     *)
(* tries of each packet, and one, and until then it always has one to make *)
(* (lines 40-98 wait for nothing but the clock).                           *)
THEOREM SenderIsBounded ==
  StopWaitSpec => /\ [](SenderStepsLeft \in 0..(3 * (PacketCount * MaxRetries) + 1))
                  /\ [](SenderStepsLeft = 0 <=> sender = "end")
                  /\ [][IF SenderStep THEN SenderStepsLeft' < SenderStepsLeft
                                      ELSE SenderStepsLeft' = SenderStepsLeft]_stopWaitVars
  <1>1. ASSUME StopWaitNext, ~SenderStep
        PROVE  SenderStepsLeft' = SenderStepsLeft
    <2>1. UNCHANGED senderVars
      BY <1>1 DEF StopWaitNext, ReceiverStep, Check, Take, PassBy, Joined, stopWaitVars
    <2> QED BY <2>1 DEF senderVars, SenderStepsLeft, TriesLeft, MadeOfTry
  <1>2. Inv /\ [StopWaitNext]_stopWaitVars =>
          [IF SenderStep THEN SenderStepsLeft' < SenderStepsLeft
                         ELSE SenderStepsLeft' = SenderStepsLeft]_stopWaitVars
    BY <1>1, SenderStepsDown
  <1>3. Inv => /\ SenderStepsLeft \in 0..(3 * (PacketCount * MaxRetries) + 1)
               /\ SenderStepsLeft = 0 <=> sender = "end"
    BY SenderStepsCounted
  <1> QED BY InvAlways, <1>2, <1>3, PTL DEF StopWaitSpec
=============================================================================
