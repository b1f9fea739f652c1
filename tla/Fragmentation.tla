----------------------------- MODULE Fragmentation -----------------------------
(***************************************************************************)
(* homework8/fragment_packet.cpp: fragmentPacket(packetLength, pathMTUs),  *)
(* one fragment per step.  pathMTUs is a set, for only its least matters.  *)
(***************************************************************************)
EXTENDS Integers, Sequences, FiniteSetsExt

CONSTANTS
  MaxLength,  \* bound: packetLength
  Mtu         \* the MTUs a path may have

ASSUME FragmentAssumption == MaxLength \in Nat /\ Mtu \subseteq Nat /\ IsFiniteSet(Mtu)

VARIABLES
  fragmenting,   \* "call", "loop" or "return"
  packetLength,
  pathMTUs,
  sentData,
  result

fragmentVars == <<fragmenting, packetLength, pathMTUs, sentData, result>>

headerLen == 20
totalData == packetLength - headerLen

AlignedUnrounded(mtus) == Min(mtus) - headerLen  \* slip: the division by 8 is left out

(* alignedData: what a fragment can carry on this path, in whole units of  *)
(* eight bytes.                                                            *)
Aligned(mtus) == ((Min(mtus) - headerLen) \div 8) * 8

FragmentInit ==
  /\ fragmenting = "call"
  /\ packetLength = 0 /\ pathMTUs = {}
  /\ sentData = 0
  /\ result = << >>

-----------------------------------------------------------------------------
(* The early returns, all of them with an empty result.                    *)
NothingToSend(length, mtus) ==
  \/ length <= headerLen
  \/ mtus = {}
  \/ Min(mtus) <= headerLen
  \/ Aligned(mtus) = 0

FragmentCall ==
  /\ fragmenting = "call"
  /\ packetLength' \in 0..MaxLength
  /\ pathMTUs' \in SUBSET Mtu
  /\ fragmenting' = IF NothingToSend(packetLength', pathMTUs') THEN "return" ELSE "loop"
  /\ UNCHANGED <<sentData, result>>

Fragment(data) == [length |-> headerLen + data, offset |-> sentData \div 8]

SplitOff ==
  /\ fragmenting = "loop"
  /\ totalData - sentData > Aligned(pathMTUs)
  /\ result' = Append(result, Fragment(Aligned(pathMTUs)))
  /\ sentData' = sentData + Aligned(pathMTUs)
  /\ UNCHANGED <<fragmenting, packetLength, pathMTUs>>

(* lastData > 0 always holds here: the loop stops before nothing is left.  *)
LastFragment ==
  /\ fragmenting = "loop"
  /\ totalData - sentData <= Aligned(pathMTUs)
  /\ result' = IF totalData - sentData > 0
                 THEN Append(result, Fragment(totalData - sentData)) ELSE result
  /\ fragmenting' = "return"
  /\ UNCHANGED <<packetLength, pathMTUs, sentData>>

Returned == fragmenting = "return" /\ UNCHANGED fragmentVars

FragmentNext == FragmentCall \/ SplitOff \/ LastFragment \/ Returned
FragmentSpec == FragmentInit /\ [][FragmentNext]_fragmentVars

-----------------------------------------------------------------------------
(* Properties.                                                             *)

FragmentTypeOK ==
  /\ fragmenting \in {"call", "loop", "return"}
  /\ packetLength \in 0..MaxLength /\ pathMTUs \subseteq Mtu
  /\ sentData \in 0..MaxLength
  /\ result \in Seq([length : Nat, offset : Nat])

DataOf(i) == result[i].length - headerLen
PlaceOf(i) == 8 * result[i].offset

(* The fragments put the packet together again: each fits every link of    *)
(* the path, each carries data, each begins where the one before it ends,  *)
(* although an offset counts in units of eight bytes, and the last ends    *)
(* where the packet does.  Without fragments the packet has no data, or    *)
(* the path no link, or one link cannot carry eight bytes of data.         *)
FragmentsReassemble ==
  /\ \A i \in 1..Len(result) :
       /\ \A mtu \in pathMTUs : result[i].length <= mtu
       /\ DataOf(i) > 0
       /\ PlaceOf(i) = IF i = 1 THEN 0 ELSE PlaceOf(i - 1) + DataOf(i - 1)
  /\ fragmenting = "return" =>
       IF result = << >>
         THEN totalData <= 0 \/ pathMTUs = {} \/ \E mtu \in pathMTUs : mtu < headerLen + 8
         ELSE PlaceOf(Len(result)) + DataOf(Len(result)) = totalData
=============================================================================
