--------------------------- MODULE CalculationProofs ---------------------------
(***************************************************************************)
(* Proofs about the programs that calculate (fragmentation for any lengths *)
(* and MTUs, the plan of the access points for any number of floors,       *)
(* multiplexing for any two sequences and buffers, the tools for messages  *)
(* of any length), and about all programs of MCPrograms together.          *)
(***************************************************************************)
EXTENDS MCPrograms, TableProofs, DijkstraProofs, FiniteSetTheorems, SequenceTheorems, TLAPS

-----------------------------------------------------------------------------
(* homework8/fragment_packet.cpp.                                          *)

(* In the loop something is left to send, every fragment so far is as long *)
(* as the path allows, in units of eight bytes, and sentData is where the  *)
(* last one ends.                                                          *)
EndOf(i) == PlaceOf(i) + DataOf(i)
SentSoFar ==
  /\ fragmenting = "call" => sentData = 0 /\ result = << >>
  /\ fragmenting = "loop" =>
       /\ ~NothingToSend(packetLength, pathMTUs)
       /\ sentData < totalData
       /\ 8 * (sentData \div 8) = sentData
       /\ sentData = IF result = << >> THEN 0 ELSE EndOf(Len(result))

FragmentInv == FragmentTypeOK /\ SentSoFar /\ FragmentsReassemble

(* What a fragment carries is a multiple of eight and fits every link.     *)
LEMMA AlignedFits ==
  ASSUME NEW mtus \in SUBSET Nat, mtus # {}
  PROVE  /\ Min(mtus) \in mtus /\ Aligned(mtus) \in Int
         /\ \A mtu \in mtus : headerLen + Aligned(mtus) <= mtu
         /\ Min(mtus) > headerLen =>
              /\ Aligned(mtus) \in Nat
              /\ Aligned(mtus) = 0 => Min(mtus) < headerLen + 8
         /\ 8 * (Aligned(mtus) \div 8) = Aligned(mtus)
<1>1. Min(mtus) \in mtus /\ \A mtu \in mtus : Min(mtus) <= mtu
  BY MinOfNaturals
<1>2. PICK m \in Nat : m = Min(mtus) /\ \A mtu \in mtus : m <= mtu
  BY <1>1
<1>3. PICK q \in Int : q = (m - 20) \div 8
  BY <1>2
<1>4. 8 * q <= m - 20 /\ m - 20 < 8 * q + 8
  BY <1>3
<1>5. Aligned(mtus) = 8 * q
  BY <1>2, <1>3 DEF Aligned, headerLen
<1>6. (8 * q) \div 8 = q
  BY <1>3
<1>7. QED
  BY <1>1, <1>2, <1>4, <1>5, <1>6 DEF headerLen

LEMMA FragmentCallKeeps ==
  ASSUME FragmentInv, FragmentCall
  PROVE  FragmentInv'
<1> USE FragmentAssumption
<1>1. PICK length \in 0..MaxLength, mtus \in SUBSET Nat :
        /\ packetLength' = length /\ pathMTUs' = mtus /\ mtus \subseteq Mtu
        /\ fragmenting' = IF NothingToSend(length, mtus) THEN "return" ELSE "loop"
  BY DEF FragmentCall
<1>2. sentData' = 0 /\ result' = << >>
  BY DEF FragmentCall, FragmentInv, SentSoFar
<1>3. FragmentTypeOK'
  BY <1>1, <1>2 DEF FragmentTypeOK
<1>4. ASSUME ~NothingToSend(length, mtus)
      PROVE  length > headerLen
  BY <1>4 DEF NothingToSend, headerLen
<1>5. SentSoFar'
  BY <1>1, <1>2, <1>4 DEF SentSoFar, totalData, headerLen
<1>6. ASSUME NothingToSend(length, mtus), length > headerLen, mtus # {}
      PROVE  \E mtu \in mtus : mtu < headerLen + 8
  <2>1. Min(mtus) \in mtus /\ Min(mtus) \in Nat
    BY <1>6, AlignedFits
  <2>2. Min(mtus) <= headerLen \/ Aligned(mtus) = 0
    <3>1. ~(length <= headerLen)
      BY <1>6 DEF headerLen
    <3>2. QED
      BY <1>6, <3>1 DEF NothingToSend
  <2>3. Min(mtus) < headerLen + 8
    BY <1>6, <2>1, <2>2, AlignedFits DEF headerLen
  <2>4. QED
    BY <2>1, <2>3
<1>7. FragmentsReassemble'
  <2>1. (totalData <= 0)' <=> ~(length > headerLen)
    BY <1>1 DEF totalData, headerLen
  <2>2. fragmenting' = "return" => NothingToSend(length, mtus)
    BY <1>1
  <2>3. QED
    BY <1>1, <1>2, <1>6, <2>1, <2>2 DEF FragmentsReassemble
<1>8. QED
  BY <1>3, <1>5, <1>7 DEF FragmentInv

(* A fragment of data bytes put where the last one ends.                   *)
LEMMA AppendFragment ==
  ASSUME FragmentInv, fragmenting = "loop", NEW data \in Nat \ {0},
         data <= Aligned(pathMTUs), result' = Append(result, Fragment(data)),
         UNCHANGED pathMTUs
  PROVE  /\ result' \in Seq([length : Nat, offset : Nat]) /\ result' # << >>
         /\ EndOf(Len(result))' = sentData + data
         /\ \A i \in 1..Len(result') :
              /\ \A mtu \in pathMTUs : result'[i].length <= mtu
              /\ DataOf(i)' > 0
              /\ PlaceOf(i)' = IF i = 1 THEN 0 ELSE PlaceOf(i - 1)' + DataOf(i - 1)'
<1> USE FragmentAssumption
<1>1. /\ result \in Seq([length : Nat, offset : Nat]) /\ sentData \in Nat
      /\ pathMTUs \in SUBSET Nat /\ pathMTUs # {}
      /\ 8 * (sentData \div 8) = sentData
      /\ sentData = IF result = << >> THEN 0 ELSE EndOf(Len(result))
  BY DEF FragmentInv, FragmentTypeOK, SentSoFar, NothingToSend
<1>2. Fragment(data) = [length |-> 20 + data, offset |-> sentData \div 8]
  BY DEF Fragment, headerLen
<1>3. sentData \div 8 \in Nat /\ Fragment(data) \in [length : Nat, offset : Nat]
  BY <1>1, <1>2
<1>4. /\ result' \in Seq([length : Nat, offset : Nat]) /\ Len(result') = Len(result) + 1
      /\ result'[Len(result')] = Fragment(data)
      /\ \A i \in 1..Len(result) : result'[i] = result[i]
      /\ Len(result) \in Nat
  BY <1>1, <1>3
<1>5. DataOf(Len(result))' = data /\ PlaceOf(Len(result))' = sentData
  BY <1>1, <1>2, <1>4 DEF DataOf, PlaceOf, headerLen
<1>6. \A i \in 1..Len(result) : DataOf(i)' = DataOf(i) /\ PlaceOf(i)' = PlaceOf(i)
  BY <1>4 DEF DataOf, PlaceOf
<1>7. \A mtu \in pathMTUs : result'[Len(result')].length <= mtu
  <2>1. \A mtu \in pathMTUs : 20 + Aligned(pathMTUs) <= mtu /\ mtu \in Nat
    BY <1>1, AlignedFits DEF headerLen
  <2>2. Aligned(pathMTUs) \in Int
    BY <1>1, AlignedFits
  <2>3. QED
    BY <1>2, <1>4, <2>1, <2>2
<1>8. PlaceOf(Len(result))' =
        IF Len(result') = 1 THEN 0 ELSE PlaceOf(Len(result) - 1)' + DataOf(Len(result) - 1)'
  <2>1. CASE result = << >>
    BY <2>1, <1>1, <1>4, <1>5
  <2>2. CASE result # << >>
    <3>1. Len(result) \in 1..Len(result) /\ Len(result') - 1 = Len(result) /\ Len(result') # 1
      BY <2>2, <1>1, <1>4
    <3>2. sentData = PlaceOf(Len(result)) + DataOf(Len(result))
      BY <2>2, <1>1 DEF EndOf
    <3>3. QED
      BY <3>1, <3>2, <1>5, <1>6
  <2>3. QED
    BY <2>1, <2>2
<1>9. ASSUME NEW i \in 1..Len(result')
      PROVE  /\ \A mtu \in pathMTUs : result'[i].length <= mtu
             /\ DataOf(i)' > 0
             /\ PlaceOf(i)' = IF i = 1 THEN 0 ELSE PlaceOf(i - 1)' + DataOf(i - 1)'
  <2>1. CASE i = Len(result')
    BY <2>1, <1>5, <1>7, <1>8
  <2>2. CASE i # Len(result')
    <3>1. i \in 1..Len(result) /\ (i # 1 => i - 1 \in 1..Len(result))
      BY <2>2, <1>4
    <3>2. /\ \A mtu \in pathMTUs : result[i].length <= mtu
          /\ DataOf(i) > 0
          /\ PlaceOf(i) = IF i = 1 THEN 0 ELSE PlaceOf(i - 1) + DataOf(i - 1)
      BY <3>1 DEF FragmentInv, FragmentsReassemble
    <3>3. QED
      BY <3>1, <3>2, <1>4, <1>6
  <2>3. QED
    BY <2>1, <2>2
<1>10. EndOf(Len(result))' = sentData + data
  BY <1>1, <1>5 DEF EndOf
<1>11. result' # << >>
  BY <1>4
<1>12. QED
  BY <1>4, <1>9, <1>10, <1>11

LEMMA SplitOffKeeps ==
  ASSUME FragmentInv, SplitOff
  PROVE  FragmentInv'
<1> USE FragmentAssumption
<1>1. /\ fragmenting = "loop" /\ pathMTUs \in SUBSET Nat /\ pathMTUs # {}
      /\ Min(pathMTUs) > headerLen /\ Aligned(pathMTUs) # 0
      /\ sentData \in Nat /\ packetLength \in 0..MaxLength
      /\ 8 * (sentData \div 8) = sentData
  <2>1. fragmenting = "loop" /\ ~NothingToSend(packetLength, pathMTUs)
    BY DEF SplitOff, FragmentInv, SentSoFar
  <2>2. pathMTUs \in SUBSET Nat /\ pathMTUs # {} /\ Min(pathMTUs) \in Nat
    <3>1. pathMTUs \in SUBSET Nat /\ pathMTUs # {}
      BY <2>1 DEF FragmentInv, FragmentTypeOK, NothingToSend
    <3>2. QED
      BY <3>1, AlignedFits
  <2>3. QED
    BY <2>1, <2>2 DEF FragmentInv, FragmentTypeOK, SentSoFar, NothingToSend, headerLen
<1>2. PICK size \in Nat \ {0} : size = Aligned(pathMTUs) /\ 8 * (size \div 8) = size
  BY <1>1, AlignedFits
<1>3. /\ totalData - sentData > size
      /\ result' = Append(result, Fragment(size)) /\ sentData' = sentData + size
      /\ UNCHANGED <<fragmenting, packetLength, pathMTUs>>
  BY <1>2 DEF SplitOff
<1>4. 8 * (sentData' \div 8) = sentData'
  <2>1. PICK a \in Nat : sentData = 8 * a
    BY <1>1
  <2>2. PICK b \in Nat : size = 8 * b
    BY <1>2
  <2>3. sentData' = 8 * (a + b)
    BY <1>3, <2>1, <2>2
  <2>4. (8 * (a + b)) \div 8 = a + b
    OBVIOUS
  <2>5. QED
    BY <2>3, <2>4
<1>5. /\ result' \in Seq([length : Nat, offset : Nat]) /\ result' # << >>
      /\ EndOf(Len(result))' = sentData + size
      /\ \A i \in 1..Len(result') :
           /\ \A mtu \in pathMTUs : result'[i].length <= mtu
           /\ DataOf(i)' > 0
           /\ PlaceOf(i)' = IF i = 1 THEN 0 ELSE PlaceOf(i - 1)' + DataOf(i - 1)'
  <2>1. size <= Aligned(pathMTUs)
    BY <1>2
  <2>2. QED
    BY <1>1, <1>3, <2>1, AppendFragment
<1>6. sentData' \in 0..MaxLength /\ sentData' < totalData'
  <2>1. totalData' = totalData
    BY <1>3 DEF totalData, headerLen
  <2>2. totalData \in Int /\ totalData <= MaxLength /\ MaxLength \in Nat
    BY FragmentAssumption DEF FragmentInv, FragmentTypeOK, totalData, headerLen
  <2>3. sentData \in Nat /\ size \in Nat \ {0}
    BY <1>1, <1>2
  <2>4. QED
    BY ONLY <1>3, <2>1, <2>2, <2>3
<1>7. FragmentTypeOK'
  BY <1>3, <1>5, <1>6 DEF FragmentInv, FragmentTypeOK
<1>8. SentSoFar'
  <2>1. ~NothingToSend(packetLength', pathMTUs')
    BY <1>1, <1>3 DEF FragmentInv, SentSoFar
  <2>2. QED
    BY <1>1, <1>3, <1>4, <1>5, <1>6, <2>1 DEF SentSoFar
<1>9. FragmentsReassemble'
  BY <1>1, <1>3, <1>5 DEF FragmentsReassemble
<1>10. QED
  BY <1>7, <1>8, <1>9 DEF FragmentInv

(* What is left always makes one fragment more, which ends the packet.     *)
LEMMA LastFragmentKeeps ==
  ASSUME FragmentInv, LastFragment
  PROVE  FragmentInv'
<1> USE FragmentAssumption
<1>1. /\ fragmenting = "loop" /\ fragmenting' = "return"
      /\ UNCHANGED <<packetLength, pathMTUs, sentData>>
      /\ totalData - sentData <= Aligned(pathMTUs)
      /\ sentData < totalData /\ sentData \in Nat /\ packetLength \in Nat
  BY DEF LastFragment, FragmentInv, FragmentTypeOK, SentSoFar
<1>2. PICK last \in Nat \ {0} : last = totalData - sentData
  BY <1>1 DEF totalData, headerLen
<1>3. result' = Append(result, Fragment(last)) /\ last <= Aligned(pathMTUs)
  BY <1>1, <1>2 DEF LastFragment
<1>4. /\ result' \in Seq([length : Nat, offset : Nat]) /\ result' # << >>
      /\ EndOf(Len(result))' = sentData + last
      /\ \A i \in 1..Len(result') :
           /\ \A mtu \in pathMTUs : result'[i].length <= mtu
           /\ DataOf(i)' > 0
           /\ PlaceOf(i)' = IF i = 1 THEN 0 ELSE PlaceOf(i - 1)' + DataOf(i - 1)'
  BY <1>1, <1>2, <1>3, AppendFragment
<1>5. EndOf(Len(result))' = totalData'
  BY <1>1, <1>2, <1>4 DEF totalData, headerLen
<1>6. FragmentTypeOK' /\ SentSoFar'
  BY <1>1, <1>4 DEF FragmentInv, FragmentTypeOK, SentSoFar
<1>7. FragmentsReassemble'
  BY <1>1, <1>4, <1>5 DEF FragmentsReassemble, EndOf
<1>8. QED
  BY <1>6, <1>7 DEF FragmentInv

LEMMA FragmentInitInv == FragmentInit => FragmentInv
BY FragmentAssumption
   DEF FragmentInit, FragmentInv, FragmentTypeOK, SentSoFar, FragmentsReassemble

LEMMA FragmentStepInv == FragmentInv /\ [FragmentNext]_fragmentVars => FragmentInv'
<1>1. FragmentInv /\ UNCHANGED fragmentVars => FragmentInv'
  BY DEF fragmentVars, FragmentInv, FragmentTypeOK, SentSoFar, FragmentsReassemble, EndOf,
         PlaceOf, DataOf, totalData
<1>2. QED
  BY <1>1, FragmentCallKeeps, SplitOffKeeps, LastFragmentKeeps DEF FragmentNext, Returned

(* Whatever the packet's length and the MTUs of its path, the fragments    *)
(* put it together again and fit every link.                               *)
THEOREM PacketReassembles == FragmentSpec => []FragmentTypeOK /\ []FragmentsReassemble
<1>1. FragmentInv => FragmentTypeOK /\ FragmentsReassemble
  BY DEF FragmentInv
<1>2. QED
  BY <1>1, FragmentInitInv, FragmentStepInv, PTL DEF FragmentSpec

-----------------------------------------------------------------------------
(* homework6/ap_deployment.cpp.                                            *)

(* The access points are where the loops of calculate_ap_positions put     *)
(* them, six on a floor.                                                   *)
Deployed == IF apLoop = "deploy" THEN apFloor - 1 ELSE BUILDING_FLOORS
PlacedInPlan ==
  /\ \A ap \in aps : ap.x \in Int /\ ap.y \in Int
  /\ IsFiniteSet(aps) /\ Cardinality(aps) <= 6 * Deployed

ApInv == ApTypeOK /\ PlacedInPlan

(* A set of integers with an upper bound has a greatest element, and Max   *)
(* is that one.                                                            *)
LEMMA GreatestOfBounded ==
  ASSUME NEW S \in SUBSET Int, S # {}, NEW bound \in Int, \A s \in S : s <= bound
  PROVE  Max(S) \in S /\ \A s \in S : s <= Max(S)
<1> DEFINE T == {bound - s : s \in S}
<1>1. T \in SUBSET Nat /\ T # {}
  <2>1. \A s \in S : s \in Int
    OBVIOUS
  <2>2. \A s \in S : bound - s \in Nat
    BY <2>1
  <2>3. QED
    BY <2>2
<1>2. PICK t \in T : \A d \in T : t <= d
  <2> HIDE DEF T
  <2>1. Min(T) \in T /\ \A d \in T : Min(T) <= d
    BY <1>1, MinOfNaturals
  <2>2. QED
    BY <2>1
<1>3. PICK m \in S : t = bound - m
  BY <1>2
<1>4. \A s \in S : m >= s
  <2> TAKE s \in S
  <2>1. bound - s \in T
    OBVIOUS
  <2>2. bound - m <= bound - s
    BY <1>2, <1>3, <2>1
  <2>3. m \in Int /\ s \in Int
    OBVIOUS
  <2>4. QED
    BY ONLY <2>2, <2>3, bound \in Int, SMT
<1>5. QED
  BY <1>4 DEF Max

(* Line 54 takes 100 dB at least, from the first metre on.                 *)
LEMMA LossIsLarge ==
  ASSUME NEW square, NEW freq_band
  PROVE  path_loss(square, freq_band) \in Int /\ path_loss(square, freq_band) >= 100
<1>1. \A k : TenLog(k) \in Nat
  <2> TAKE k
  <2> DEFINE power == <<1259, 1585, 1995, 2512, 3162, 3981, 5012, 6310, 7943, 10000>>
             Reached == {j \in 1..42 :
               1000 * k >= 4 * 10 ^ ((j - 1) \div 10) * power[((j - 1) % 10) + 1]}
  <2>1. IsFiniteSet(1..42)
    <3>1. 1 \in Int /\ 42 \in Int
      OBVIOUS
    <3>2. QED
      BY <3>1, FS_Interval
  <2>2. IsFiniteSet(Reached)
    BY <2>1, FS_Subset
  <2>3. Cardinality(Reached) \in Nat
    BY <2>2, FS_CardinalityType
  <2>4. TenLog(k) = Cardinality(Reached)
    BY DEF TenLog
  <2>5. QED
    BY <2>3, <2>4
<1>2. LossAtOne(freq_band) \in {100, 106}
  BY DEF LossAtOne
<1>3. path_loss(square, freq_band) = TenLog(Max({4, square})) + LossAtOne(freq_band)
  BY DEF path_loss
<1>4. TenLog(Max({4, square})) \in Nat
  BY <1>1
<1>5. QED
  BY <1>2, <1>3, <1>4

LEMMA SignalIsWeak ==
  ASSUME NEW ap, ap.x \in Int, ap.y \in Int, NEW p, p[1] \in Int, p[2] \in Int
  PROVE  signal_strength(ap, p) \in Int /\ signal_strength(ap, p) <= -80
<1> DEFINE loss == path_loss((p[1] - ap.x) ^ 2 + (p[2] - ap.y) ^ 2, ap.freq_band)
           walls == count_walls(ap, p)
<1>1. loss \in Int /\ loss >= 100
  BY LossIsLarge
<1>2. \A i, j \in Int : Apart(i, j) \in Nat
  BY DEF Apart
<1>3. p[1] \div 30 \in Int /\ ap.x \div 30 \in Int /\ p[2] \div 20 \in Int /\ ap.y \div 20 \in Int
  OBVIOUS
<1>4. walls.bearing = Apart(p[1] \div 30, ap.x \div 30)
  BY DEF count_walls
<1>5. walls.partition = IF InCorridor(ap.y) # InCorridor(p[2]) THEN 1
                        ELSE IF InCorridor(ap.y) THEN 0 ELSE Apart(p[2] \div 20, ap.y \div 20)
  BY DEF count_walls
<1>6. walls.bearing \in Nat /\ walls.partition \in Nat
  BY <1>2, <1>3, <1>4, <1>5
<1>7. signal_strength(ap, p) = 20 - loss - wall_attenuation(walls)
  BY DEF signal_strength
<1> HIDE DEF loss, walls
<1>8. wall_attenuation(walls) \in Nat
  BY <1>6 DEF wall_attenuation
<1>9. QED
  BY <1>1, <1>7, <1>8

(* What is counted and what is drawn.                                      *)
LEMMA OverlapType ==
  Cardinality({p \in OverlapPoint :
    Cardinality({s \in Signals(apFloor, p) : s[2] >= TARGET_SIGNAL}) > 1}) \in Nat
<1>1. IsFiniteSet(0..200) /\ IsFiniteSet(0..160)
  <2>1. 0 \in Int /\ 160 \in Int /\ 200 \in Int
    OBVIOUS
  <2>2. QED
    BY <2>1, FS_Interval
<1>2. OverlapPoint \subseteq (0..200) \X (0..160)
  BY DEF OverlapPoint, GridX
<1>3. IsFiniteSet(OverlapPoint)
  BY <1>1, <1>2, FS_Product, FS_Subset
<1>4. QED
  BY <1>3, FS_Subset, FS_CardinalityType

LEMMA SymbolType ==
  ASSUME NEW floor, NEW p
  PROVE  Symbol(floor, p) \in MapSymbol
BY DEF Symbol, MapSymbol

LEMMA OneMore ==
  ASSUME NEW S, NEW e, IsFiniteSet(S), NEW k \in Nat, Cardinality(S) <= k
  PROVE  IsFiniteSet(S \cup {e}) /\ Cardinality(S \cup {e}) <= k + 1
<1>1. Cardinality(S) \in Nat
  BY FS_CardinalityType
<1>2. /\ IsFiniteSet(S \cup {e})
      /\ Cardinality(S \cup {e}) = IF e \in S THEN Cardinality(S) ELSE Cardinality(S) + 1
  BY FS_AddElement
<1>3. QED
  BY <1>1, <1>2

(* A row has three access points at most.                                  *)
LEMMA RowIsSmall ==
  ASSUME NEW y \in Int, NEW freq_band, NEW channels
  PROVE  /\ \A ap \in Row(y, freq_band, channels) : ap.x \in Int /\ ap.y \in Int
         /\ IsFiniteSet(Row(y, freq_band, channels))
         /\ Cardinality(Row(y, freq_band, channels)) <= 3
<1> DEFINE At(i) == [x |-> 60 * i - 15, y |-> y, freq_band |-> freq_band,
                     channel |-> channels[i], floor |-> apFloor]
<1>1. Row(y, freq_band, channels) = (({} \cup {At(1)}) \cup {At(2)}) \cup {At(3)}
  <2>1. Row(y, freq_band, channels) = {At(i) : i \in 1..3}
    BY DEF Row
  <2>2. 1..3 = {1, 2, 3}
    OBVIOUS
  <2> HIDE DEF At
  <2>3. QED
    BY <2>1, <2>2
<1>2. \A i \in 1..3 : At(i).x \in Int /\ At(i).y \in Int
  OBVIOUS
<1> HIDE DEF At
<1>3. IsFiniteSet({}) /\ Cardinality({}) <= 0
  BY FS_EmptySet
<1>4. IsFiniteSet({} \cup {At(1)}) /\ Cardinality({} \cup {At(1)}) <= 0 + 1
  BY <1>3, OneMore
<1>5. /\ IsFiniteSet(({} \cup {At(1)}) \cup {At(2)})
      /\ Cardinality(({} \cup {At(1)}) \cup {At(2)}) <= 1 + 1
  <2>1. Cardinality({} \cup {At(1)}) <= 1
    BY <1>4
  <2>2. QED
    BY <1>4, <2>1, OneMore
<1>6. /\ IsFiniteSet(Row(y, freq_band, channels))
      /\ Cardinality(Row(y, freq_band, channels)) <= 2 + 1
  <2>1. Cardinality(({} \cup {At(1)}) \cup {At(2)}) <= 2
    BY <1>5
  <2>2. /\ IsFiniteSet((({} \cup {At(1)}) \cup {At(2)}) \cup {At(3)})
        /\ Cardinality((({} \cup {At(1)}) \cup {At(2)}) \cup {At(3)}) <= 2 + 1
    BY <1>5, <2>1, OneMore
  <2>3. QED
    BY <1>1, <2>2
<1>7. QED
  BY <1>1, <1>2, <1>6

LEMMA UnionIsSmall ==
  ASSUME NEW S, NEW T, IsFiniteSet(S), IsFiniteSet(T)
  PROVE  /\ IsFiniteSet(S \cup T)
         /\ Cardinality(S \cup T) <= Cardinality(S) + Cardinality(T)
         /\ Cardinality(S) \in Nat /\ Cardinality(T) \in Nat /\ Cardinality(S \cup T) \in Nat
<1>1. /\ IsFiniteSet(S \cup T)
      /\ Cardinality(S \cup T) = Cardinality(S) + Cardinality(T) - Cardinality(S \cap T)
  BY FS_Union
<1>2. IsFiniteSet(S \cap T)
  BY FS_Subset
<1>3. /\ Cardinality(S) \in Nat /\ Cardinality(T) \in Nat
      /\ Cardinality(S \cup T) \in Nat /\ Cardinality(S \cap T) \in Nat
  BY <1>1, <1>2, FS_CardinalityType
<1>4. QED
  BY <1>1, <1>3

LEMMA AdvanceType ==
  ASSUME ApTypeOK, NEW next \in {"overlap", "heatmap", "end"}, Advance(next)
  PROVE  apLoop' \in {"deploy", "overlap", "heatmap", "end"} /\ apFloor' \in 1..BUILDING_FLOORS
<1>1. CASE apFloor < BUILDING_FLOORS
  <2>1. apFloor' = apFloor + 1 /\ apLoop' = apLoop
    BY <1>1 DEF Advance
  <2>2. apFloor + 1 \in 1..BUILDING_FLOORS /\ apLoop \in {"deploy", "overlap", "heatmap", "end"}
    BY <1>1, FloorsAssumption DEF ApTypeOK
  <2>3. QED
    BY <2>1, <2>2
<1>2. CASE ~(apFloor < BUILDING_FLOORS)
  <2>1. apFloor' = 1 /\ apLoop' = next
    BY <1>2 DEF Advance
  <2>2. 1 \in 1..BUILDING_FLOORS
    BY FloorsAssumption
  <2>3. QED
    BY <2>1, <2>2
<1>3. QED
  BY <1>1, <1>2

LEMMA DeployKeeps ==
  ASSUME ApInv, calculate_ap_positions
  PROVE  ApInv'
<1> DEFINE low == Row(30, 0, <<1, 6, 11>>)
           high == Row(130, 1, <<36, 40, 44>>)
<1>1. /\ apLoop = "deploy" /\ aps' = (aps \cup low) \cup high
      /\ Advance("overlap") /\ UNCHANGED <<overlap, heatmap>>
  BY DEF calculate_ap_positions
<1>2. /\ apFloor \in 1..BUILDING_FLOORS /\ IsFiniteSet(aps)
      /\ Cardinality(aps) <= 6 * (apFloor - 1)
      /\ \A ap \in aps : ap.x \in Int /\ ap.y \in Int
  BY <1>1 DEF ApInv, ApTypeOK, PlacedInPlan, Deployed
<1>3. /\ \A ap \in low : ap.x \in Int /\ ap.y \in Int
      /\ IsFiniteSet(low) /\ Cardinality(low) <= 3
  BY RowIsSmall
<1>4. /\ \A ap \in high : ap.x \in Int /\ ap.y \in Int
      /\ IsFiniteSet(high) /\ Cardinality(high) <= 3
  BY RowIsSmall
<1>5. \A ap \in aps' : ap.x \in Int /\ ap.y \in Int
  BY <1>1, <1>2, <1>3, <1>4
<1> HIDE DEF low, high
<1>6. IsFiniteSet(aps \cup low) /\ Cardinality(aps \cup low) <= 6 * (apFloor - 1) + 3
  <2>1. /\ IsFiniteSet(aps \cup low)
        /\ Cardinality(aps \cup low) <= Cardinality(aps) + Cardinality(low)
        /\ Cardinality(aps) \in Nat /\ Cardinality(low) \in Nat /\ Cardinality(aps \cup low) \in Nat
    BY <1>2, <1>3, UnionIsSmall
  <2>2. QED
    BY <1>2, <1>3, <2>1
<1>7. IsFiniteSet(aps') /\ Cardinality(aps') <= 6 * apFloor /\ Cardinality(aps') \in Nat
  <2>1. /\ IsFiniteSet((aps \cup low) \cup high)
        /\ Cardinality((aps \cup low) \cup high) <= Cardinality(aps \cup low) + Cardinality(high)
        /\ Cardinality(aps \cup low) \in Nat /\ Cardinality(high) \in Nat
        /\ Cardinality((aps \cup low) \cup high) \in Nat
    BY <1>4, <1>6, UnionIsSmall
  <2>2. QED
    BY <1>1, <1>2, <1>4, <1>6, <2>1
<1>8. Deployed' = apFloor
  BY <1>1, <1>2, FloorsAssumption DEF Advance, Deployed
<1>9. PlacedInPlan'
  BY <1>5, <1>7, <1>8 DEF PlacedInPlan
<1>10. Cardinality(aps') <= 6 * BUILDING_FLOORS
  BY <1>2, <1>7, FloorsAssumption
<1>11. ApTypeOK'
  <2>1. apLoop' \in {"deploy", "overlap", "heatmap", "end"} /\ apFloor' \in 1..BUILDING_FLOORS
    BY <1>1, AdvanceType DEF ApInv
  <2>2. QED
    BY <1>1, <1>10, <2>1 DEF ApInv, ApTypeOK
<1>12. QED
  BY <1>9, <1>11 DEF ApInv

(* The loops that only look at the plan.                                   *)
LEMMA LookingKeepsPlan ==
  ASSUME ApInv, apLoop \in {"overlap", "heatmap"},
         Advance("heatmap") \/ Advance("end"), UNCHANGED aps
  PROVE  /\ PlacedInPlan'
         /\ apLoop' \in {"deploy", "overlap", "heatmap", "end"} /\ apFloor' \in 1..BUILDING_FLOORS
         /\ Cardinality(aps') <= 6 * BUILDING_FLOORS
<1>1. apLoop' # "deploy"
  BY DEF Advance
<1>2. PlacedInPlan'
  BY <1>1 DEF ApInv, PlacedInPlan, Deployed
<1>3. QED
  BY <1>2, AdvanceType DEF ApInv, ApTypeOK

LEMMA OverlapKeeps ==
  ASSUME ApInv, calculate_overlap
  PROVE  ApInv'
<1>1. PICK count \in Nat : overlap' = Append(overlap, count)
  BY OverlapType DEF calculate_overlap
<1>2. apLoop = "overlap" /\ Advance("heatmap") /\ UNCHANGED <<aps, heatmap>>
  BY DEF calculate_overlap
<1>3. overlap' \in Seq(Nat)
  BY <1>1 DEF ApInv, ApTypeOK
<1>4. QED
  BY <1>2, <1>3, LookingKeepsPlan DEF ApInv, ApTypeOK

LEMMA HeatmapKeeps ==
  ASSUME ApInv, generate_heatmap
  PROVE  ApInv'
<1>1. PICK map : map = [p \in HeatmapPoint |-> Symbol(apFloor, p)]
  OBVIOUS
<1>2. map \in [HeatmapPoint -> MapSymbol]
  BY <1>1, SymbolType
<1>3. /\ apLoop = "heatmap" /\ Advance("end") /\ UNCHANGED <<aps, overlap>>
      /\ heatmap' = Append(heatmap, map)
  BY <1>1 DEF generate_heatmap
<1>4. heatmap' \in Seq([HeatmapPoint -> MapSymbol])
  BY <1>2, <1>3 DEF ApInv, ApTypeOK
<1>5. QED
  BY <1>3, <1>4, LookingKeepsPlan DEF ApInv, ApTypeOK

LEMMA ApInitInv == ApInit => ApInv
BY FloorsAssumption, FS_EmptySet DEF ApInit, ApInv, ApTypeOK, PlacedInPlan, Deployed

LEMMA ApStepInv == ApInv /\ [ApNext]_apVars => ApInv'
<1>1. ApInv /\ UNCHANGED apVars => ApInv'
  BY DEF apVars, ApInv, ApTypeOK, PlacedInPlan, Deployed
<1>2. QED
  BY <1>1, DeployKeeps, OverlapKeeps, HeatmapKeeps DEF ApNext, ApReturned

(* The type invariant of the plan, for any number of floors.               *)
THEOREM ApTypeCorrect == ApSpec => []ApTypeOK
<1>1. ApInv => ApTypeOK
  BY DEF ApInv
<1>2. QED
  BY <1>1, ApInitInv, ApStepInv, PTL DEF ApSpec

(* Why CoverageAsEstimated fails: on however many floors, every access     *)
(* point of the plan is at least 15 dB short of TARGET_SIGNAL at every     *)
(* point the program looks at, the one it hangs at if there is one.  The   *)
(* fault is in path_loss (ap_deployment.cpp:54), and no plan mends it.     *)
SignalsFallShort ==
  \A ap \in aps : \A p \in OverlapPoint \cup HeatmapPoint :
    signal_strength(ap, p) <= TARGET_SIGNAL - 15
THEOREM NoPlanReaches == ApSpec => []SignalsFallShort
<1>1. ASSUME ApInv PROVE SignalsFallShort
  <2> SUFFICES ASSUME NEW ap \in aps, NEW p \in OverlapPoint \cup HeatmapPoint
               PROVE  signal_strength(ap, p) <= TARGET_SIGNAL - 15
    BY DEF SignalsFallShort
  <2>1. p[1] \in Int /\ p[2] \in Int
    BY DEF OverlapPoint, HeatmapPoint, GridX
  <2>2. signal_strength(ap, p) <= -80
    BY <1>1, <2>1, SignalIsWeak DEF ApInv, PlacedInPlan
  <2>3. QED
    BY <2>2 DEF TARGET_SIGNAL
<1>2. QED
  BY <1>1, ApInitInv, ApStepInv, PTL DEF ApSpec

-----------------------------------------------------------------------------
(* homework2/multiplex.cpp.                                                *)

(* A finite set of numbers can be counted through in increasing order: a   *)
(* smallest set that cannot loses its least element and is no exception.   *)
Counting(T, f) ==
  /\ f \in [1..Cardinality(T) -> T]
  /\ \A j, k \in 1..Cardinality(T) : j < k => f[j] < f[k]

LEMMA CountedThrough ==
  ASSUME NEW T \in SUBSET Nat, IsFiniteSet(T)
  PROVE  \E f : Counting(T, f)
<1> DEFINE Uncounted(S) == S \in SUBSET Nat /\ IsFiniteSet(S) /\ ~\E f : Counting(S, f)
           Sizes == {num \in Nat : \E S : Uncounted(S) /\ Cardinality(S) = num}
<1>1. SUFFICES ASSUME Sizes # {} PROVE FALSE
  <2>1. Cardinality(T) \in Nat
    BY FS_CardinalityType
  <2>2. QED
    BY <2>1
<1>2. PICK num \in Sizes : \A m \in Sizes : num <= m
  <2> HIDE DEF Sizes
  <2>1. Sizes \in SUBSET Nat
    BY DEF Sizes
  <2>2. QED
    BY <1>1, <2>1, MinOfNaturals
<1>3. PICK S : Uncounted(S) /\ Cardinality(S) = num
  OBVIOUS
<1>4. S # {}
  <2>1. SUFFICES ASSUME S = {} PROVE FALSE
    OBVIOUS
  <2>2. num = 0
    BY <1>3, <2>1, FS_EmptySet
  <2>3. 1..num = {}
    BY <2>2
  <2>4. Counting(S, [k \in 1..num |-> 0])
    BY <1>3, <2>3 DEF Counting
  <2>5. QED
    BY <1>3, <2>4
<1>5. PICK low \in S : \A s \in S : low <= s
  BY <1>3, <1>4, MinOfNaturals
<1>6. PICK R : R = S \ {low}
  OBVIOUS
<1>7. /\ R \in SUBSET Nat /\ IsFiniteSet(R)
      /\ Cardinality(R) = num - 1 /\ num \in Nat /\ num - 1 \in Nat
  <2>1. IsFiniteSet(S \ {low}) /\ Cardinality(S \ {low}) = Cardinality(S) - 1
    BY <1>3, FS_RemoveElement
  <2>2. Cardinality(S \ {low}) \in Nat
    BY <2>1, FS_CardinalityType
  <2>3. QED
    BY <1>3, <1>6, <2>1, <2>2
<1>8. PICK order : Counting(R, order)
  <2>1. num - 1 \notin Sizes
    BY <1>2, <1>7
  <2>2. QED
    BY <1>7, <2>1
<1>9. /\ order \in [1..(num - 1) -> R]
      /\ \A j, k \in 1..(num - 1) : j < k => order[j] < order[k]
  BY <1>7, <1>8 DEF Counting
<1>10. PICK f : f = [k \in 1..num |-> IF k = 1 THEN low ELSE order[k - 1]]
  OBVIOUS
<1>11. \A k \in 1..num : f[k] = IF k = 1 THEN low ELSE order[k - 1]
  BY <1>10
<1>12. \A k \in 1..num : k # 1 => k - 1 \in 1..(num - 1) /\ f[k] = order[k - 1] /\ order[k - 1] \in R
  BY <1>7, <1>9, <1>11
<1>13. f \in [1..num -> S]
  BY <1>6, <1>10, <1>12
<1>14. \A s \in R : low < s
  <2>1. \A s \in R : s \in Nat /\ low <= s /\ s # low /\ low \in Nat
    BY <1>3, <1>5, <1>6
  <2>2. QED
    BY <2>1
<1>15. \A j, k \in 1..num : j < k => f[j] < f[k]
  <2> TAKE j, k \in 1..num
  <2> HAVE j < k
  <2>1. k # 1 /\ k - 1 \in 1..(num - 1) /\ f[k] = order[k - 1] /\ order[k - 1] \in R
    BY <1>7, <1>12
  <2>2. CASE j = 1
    BY <2>1, <2>2, <1>11, <1>14
  <2>3. CASE j # 1
    <3>1. j - 1 \in 1..(num - 1) /\ f[j] = order[j - 1] /\ j - 1 < k - 1
      BY <1>7, <1>12, <2>3
    <3>2. QED
      BY <2>1, <3>1, <1>9
  <2>4. QED
    BY <2>2, <2>3
<1>16. Counting(S, f)
  BY <1>3, <1>13, <1>15 DEF Counting
<1>17. QED
  BY <1>3, <1>16

(* The ones of a sequence are all its positions that hold one.             *)
LEMMA OnesAreThePositions ==
  ASSUME NEW s \in Seq(Nat), NEW count, count = Cardinality(Positions(s))
  PROVE  /\ count \in Nat /\ DOMAIN Ones(s) = 1..count
         /\ \A k \in 1..count : Ones(s)[k] \in Positions(s)
         /\ \A i \in Positions(s) : \E k \in 1..count : Ones(s)[k] = i
<1>1. Positions(s) \in SUBSET Nat /\ IsFiniteSet(Positions(s))
  <2>1. Len(s) - 1 \in Int /\ 0 \in Int
    OBVIOUS
  <2>2. IsFiniteSet(0..(Len(s) - 1))
    BY <2>1, FS_Interval
  <2>3. Positions(s) \subseteq 0..(Len(s) - 1)
    BY DEF Positions
  <2>4. QED
    BY <2>2, <2>3, FS_Subset
<1>2. count \in Nat
  BY <1>1, FS_CardinalityType
<1>3. PICK f : Counting(Positions(s), f)
  BY <1>1, CountedThrough
<1>4. PICK order : order = Ones(s)
  OBVIOUS
<1>5. /\ order \in [1..count -> Positions(s)]
      /\ \A j, k \in DOMAIN order : j < k => order[j] < order[k]
  <2>1. \E h \in [1..count -> Positions(s)] : \A j, k \in DOMAIN h : j < k => h[j] < h[k]
    BY <1>3 DEF Counting
  <2>2. order = CHOOSE h \in [1..count -> Positions(s)] : \A j, k \in DOMAIN h : j < k => h[j] < h[k]
    BY <1>4 DEF Ones
  <2>3. QED
    BY <2>1, <2>2
<1>6. order \in Injection(1..count, Positions(s))
  <2>1. \A j, k \in 1..count : order[j] = order[k] => j = k
    <3> TAKE j, k \in 1..count
    <3>1. /\ j < k => order[j] < order[k]
          /\ k < j => order[k] < order[j]
          /\ order[j] \in Nat /\ order[k] \in Nat
      BY <1>1, <1>5
    <3>2. QED
      BY <3>1, <1>2
  <2>2. IsInjective(order)
    BY <1>5, <2>1 DEF IsInjective
  <2>3. QED
    BY <1>5, <2>2 DEF Injection
<1>7. Cardinality(1..count) = count
  <2>1. Cardinality(1..count) = IF 1 > count THEN 0 ELSE count - 1 + 1
    <3>1. 1 \in Int /\ count \in Int
      BY <1>2
    <3>2. QED
      BY <3>1, FS_Interval
  <2>2. QED
    BY <1>2, <2>1
<1>8. order \in Surjection(1..count, Positions(s))
  BY <1>1, <1>6, <1>7, FS_Injection
<1>9. QED
  BY <1>2, <1>4, <1>5, <1>8 DEF Surjection

(* What one byte of the message holds.                                     *)
Byte == 0..Max({4, IndexBase - 1})

LEMMA ByteHolds == 0..4 \subseteq Byte /\ 0..(IndexBase - 1) \subseteq Byte
<1>1. 4 \in Int /\ IndexBase - 1 \in Nat /\ IndexBase \in Nat /\ 4 + IndexBase \in Int
  BY MultiplexAssumption
<1>2. {4, IndexBase - 1} \in SUBSET Int /\ \A s \in {4, IndexBase - 1} : s <= 4 + IndexBase
  BY <1>1
<1>3. /\ Max({4, IndexBase - 1}) \in {4, IndexBase - 1}
      /\ \A s \in {4, IndexBase - 1} : s <= Max({4, IndexBase - 1})
  BY <1>1, <1>2, GreatestOfBounded
<1>4. PICK top \in Int : top = Max({4, IndexBase - 1}) /\ 4 <= top /\ IndexBase - 1 <= top
  BY <1>1, <1>3
<1>5. QED
  BY <1>1, <1>4 DEF Byte

LEMMA SlotsHoldBoth ==
  ASSUME NEW a \in Seq(Nat), NEW b \in Seq(Nat)
  PROVE  Slots(a, b) \in Nat /\ Len(a) <= Slots(a, b) /\ Len(b) <= Slots(a, b)
<1>1. Len(a) \in Nat /\ Len(b) \in Nat
  OBVIOUS
<1>2. PICK lengths : lengths = {Len(a), Len(b)}
  OBVIOUS
<1>3. lengths \in SUBSET Int /\ lengths # {} /\ \A num \in lengths : num <= Len(a) + Len(b)
  BY <1>1, <1>2
<1>4. Max(lengths) \in lengths /\ \A num \in lengths : num <= Max(lengths)
  <2>1. Len(a) + Len(b) \in Int
    BY <1>1
  <2>2. QED
    BY <1>3, <2>1, GreatestOfBounded
<1>5. QED
  BY <1>1, <1>2, <1>4 DEF Slots

LEMMA BitIsOneOrZero ==
  ASSUME NEW s, NEW i
  PROVE  BitAt(s, i) \in {0, 1}
BY DEF BitAt, to_bit

(* The two bytes of a slot, where both ways of sending them agree on that. *)
LEMMA TwoOfASlot ==
  ASSUME NEW i \in Nat \ {0}
  PROVE  /\ SlotOf(2 * i - 1) = i /\ (2 * i - 1) % 2 = 1
         /\ SlotOf(2 * i) = i /\ (2 * i) % 2 # 1
BY DEF SlotOf

LEMMA SyncPayload ==
  ASSUME NEW a \in Seq(Nat), NEW b \in Seq(Nat)
  PROVE  /\ do_sync_tdm(a, b) \in Seq(Byte) /\ Len(do_sync_tdm(a, b)) = 2 * Slots(a, b)
         /\ \A i \in 1..Slots(a, b) : /\ do_sync_tdm(a, b)[2 * i - 1] = BitAt(a, i)
                                      /\ do_sync_tdm(a, b)[2 * i] = BitAt(b, i)
<1>1. PICK m \in Nat : m = Slots(a, b)
  BY SlotsHoldBoth
<1>2. PICK p : p = do_sync_tdm(a, b)
  OBVIOUS
<1>3. p = [k \in 1..(2 * m) |-> BitAt(IF k % 2 = 1 THEN a ELSE b, SlotOf(k))]
  BY <1>1, <1>2 DEF do_sync_tdm
<1>4. p \in [1..(2 * m) -> Byte]
  <2>1. \A s, i : BitAt(s, i) \in Byte
    BY BitIsOneOrZero, ByteHolds, SMTT(30)
  <2>2. QED
    BY <1>3, <2>1
<1>5. p \in Seq(Byte) /\ Len(p) = 2 * m
  <2>1. PICK num \in Nat : num = 2 * m
    OBVIOUS
  <2>2. p \in [1..num -> Byte]
    BY <1>4, <2>1
  <2>3. QED
    BY <2>1, <2>2
<1>6. ASSUME NEW i \in 1..m
      PROVE  p[2 * i - 1] = BitAt(a, i) /\ p[2 * i] = BitAt(b, i)
  <2>1. 2 * i - 1 \in 1..(2 * m) /\ 2 * i \in 1..(2 * m) /\ i \in Nat \ {0}
    BY <1>1
  <2>2. QED
    BY <1>3, <2>1, TwoOfASlot
<1>7. QED
  BY <1>1, <1>2, <1>5, <1>6

LEMMA FdmPayload ==
  ASSUME NEW a \in Seq(Nat), NEW b \in Seq(Nat)
  PROVE  /\ do_fdm(a, b) \in Seq(Byte) /\ Len(do_fdm(a, b)) = Slots(a, b)
         /\ \A i \in 1..Slots(a, b) : do_fdm(a, b)[i] = BitAt(a, i) + 2 * BitAt(b, i)
<1>1. PICK m \in Nat : m = Slots(a, b)
  BY SlotsHoldBoth
<1>2. PICK p : p = do_fdm(a, b)
  OBVIOUS
<1>3. p = [i \in 1..m |-> BitAt(a, i) + 2 * BitAt(b, i)]
  BY <1>1, <1>2 DEF do_fdm
<1>4. \A i \in 1..m : BitAt(a, i) + 2 * BitAt(b, i) \in Byte
  <2>1. \A s, i : BitAt(s, i) \in {0, 1}
    BY BitIsOneOrZero
  <2>2. \A u, y \in {0, 1} : u + 2 * y \in 0..4
    OBVIOUS
  <2>3. QED
    BY <2>1, <2>2, ByteHolds
<1>5. p \in Seq(Byte) /\ Len(p) = m
  <2>1. p \in [1..m -> Byte]
    BY <1>3, <1>4
  <2>2. QED
    BY <1>1, <2>1
<1>6. QED
  BY <1>1, <1>2, <1>3, <1>5

LEMMA CdmPayload ==
  ASSUME NEW a \in Seq(Nat), NEW b \in Seq(Nat)
  PROVE  /\ do_cdm(a, b) \in Seq(Byte) /\ Len(do_cdm(a, b)) = 2 * Slots(a, b)
         /\ \A i \in 1..Slots(a, b) :
              /\ do_cdm(a, b)[2 * i - 1] = Level(BitAt(a, i)) + Level(BitAt(b, i)) + 2
              /\ do_cdm(a, b)[2 * i] = Level(BitAt(a, i)) - Level(BitAt(b, i)) + 2
<1>1. PICK m \in Nat : m = Slots(a, b)
  BY SlotsHoldBoth
<1>2. PICK p : p = do_cdm(a, b)
  OBVIOUS
<1>3. p = [k \in 1..(2 * m) |->
             IF k % 2 = 1 THEN Level(BitAt(a, SlotOf(k))) + Level(BitAt(b, SlotOf(k))) + 2
             ELSE Level(BitAt(a, SlotOf(k))) - Level(BitAt(b, SlotOf(k))) + 2]
  BY <1>1, <1>2 DEF do_cdm
<1>4. p \in [1..(2 * m) -> Byte]
  <2>1. \A s, i : BitAt(s, i) \in {0, 1}
    BY BitIsOneOrZero
  <2>2. \A u, y \in {0, 1} : Level(u) + Level(y) + 2 \in 0..4 /\ Level(u) - Level(y) + 2 \in 0..4
    BY DEF Level
  <2>3. QED
    BY <1>3, <2>1, <2>2, ByteHolds
<1>5. p \in Seq(Byte) /\ Len(p) = 2 * m
  <2>1. PICK num \in Nat : num = 2 * m
    OBVIOUS
  <2>2. p \in [1..num -> Byte]
    BY <1>4, <2>1
  <2>3. QED
    BY <2>1, <2>2
<1>6. ASSUME NEW i \in 1..m
      PROVE  /\ p[2 * i - 1] = Level(BitAt(a, i)) + Level(BitAt(b, i)) + 2
             /\ p[2 * i] = Level(BitAt(a, i)) - Level(BitAt(b, i)) + 2
  <2>1. 2 * i - 1 \in 1..(2 * m) /\ 2 * i \in 1..(2 * m) /\ i \in Nat \ {0}
    BY <1>1
  <2>2. QED
    BY <1>3, <2>1, TwoOfASlot
<1>7. QED
  BY <1>1, <1>2, <1>5, <1>6

(* A position of two digits comes out of its token as it went in.          *)
LEMMA TwoDigits ==
  ASSUME NEW base \in Nat \ {0}, NEW num \in Nat, num < base * base
  PROVE  /\ num % base \in 0..(base - 1) /\ (num \div base) % base \in 0..(base - 1)
         /\ (num % base) + base * ((num \div base) % base) = num
<1>1. PICK high \in Int : high = num \div base
  OBVIOUS
<1>2. PICK low \in 0..(base - 1) : low = num % base
  OBVIOUS
<1>3. base * high + low = num
  BY <1>1, <1>2
<1>4. high >= 0
  BY <1>1
<1>5. high < base
  BY <1>2, <1>3, <1>4
<1>6. high % base = high
  BY <1>4, <1>5
<1>7. QED
  BY <1>1, <1>2, <1>3, <1>4, <1>5, <1>6

LEMMA TokensOfOnes ==
  ASSUME NEW which \in {0, 1}, NEW s \in Seq(Nat), NEW count, count = Cardinality(Positions(s))
  PROVE  /\ count \in Nat /\ Tokens(which, s) \in Seq(Byte) /\ Len(Tokens(which, s)) = 3 * count
         /\ \A k \in 0..(count - 1) :
              /\ Tokens(which, s)[3 * k + 1] = which
              /\ Ones(s)[k + 1] < IndexBase * IndexBase =>
                   Tokens(which, s)[3 * k + 2] + IndexBase * Tokens(which, s)[3 * k + 3]
                     = Ones(s)[k + 1]
<1>1. count \in Nat /\ \A k \in 1..count : Ones(s)[k] \in Nat
  <2>1. count \in Nat /\ \A k \in 1..count : Ones(s)[k] \in Positions(s)
    BY OnesAreThePositions
  <2>2. Positions(s) \subseteq Nat
    BY DEF Positions
  <2>3. QED
    BY <2>1, <2>2
<1>2. PICK t : t = Tokens(which, s)
  OBVIOUS
<1>3. PICK ones : ones = Ones(s)
  OBVIOUS
<1>4. t = [k \in 1..(3 * count) |->
             CASE k % 3 = 1 -> which
               [] k % 3 = 2 -> ones[(k + 2) \div 3] % IndexBase
               [] k % 3 = 0 -> (ones[(k + 2) \div 3] \div IndexBase) % IndexBase]
  BY <1>2, <1>3 DEF Tokens
<1>5. \A k \in 1..(3 * count) : t[k] \in Byte
  <2> TAKE k \in 1..(3 * count)
  <2>1. (k + 2) \div 3 \in 1..count /\ k % 3 \in {0, 1, 2}
    BY <1>1
  <2>2. PICK one \in Nat : one = ones[(k + 2) \div 3]
    BY <1>1, <1>3, <2>1
  <2>3. one % IndexBase \in 0..(IndexBase - 1) /\ (one \div IndexBase) % IndexBase \in 0..(IndexBase - 1)
    BY MultiplexAssumption
  <2>4. t[k] \in {which, one % IndexBase, (one \div IndexBase) % IndexBase}
    BY <1>4, <2>1, <2>2
  <2>5. which \in 0..4
    OBVIOUS
  <2>6. QED
    BY <2>3, <2>4, <2>5, ByteHolds
<1>6. t \in Seq(Byte) /\ Len(t) = 3 * count
  <2>1. PICK num \in Nat : num = 3 * count
    BY <1>1
  <2>2. t \in [1..num -> Byte]
    BY <1>4, <1>5, <2>1
  <2>3. QED
    BY <2>1, <2>2
<1>7. ASSUME NEW k \in 0..(count - 1)
      PROVE  /\ t[3 * k + 1] = which
             /\ ones[k + 1] < IndexBase * IndexBase =>
                  t[3 * k + 2] + IndexBase * t[3 * k + 3] = ones[k + 1]
  <2>1. k \in Nat /\ k + 1 \in 1..count
    BY <1>1
  <2>2. 3 * k + 1 \in 1..(3 * count) /\ 3 * k + 2 \in 1..(3 * count) /\ 3 * k + 3 \in 1..(3 * count)
    BY <1>1
  <2>3. /\ (3 * k + 1) % 3 = 1 /\ (3 * k + 2) % 3 = 2 /\ (3 * k + 3) % 3 = 0
        /\ (3 * k + 2 + 2) \div 3 = k + 1 /\ (3 * k + 3 + 2) \div 3 = k + 1
    BY <2>1
  <2>4. t[3 * k + 1] = which
    <3>1. \A j \in 1..(3 * count) : j % 3 = 1 => t[j] = which
      BY <1>4
    <3>2. QED
      BY <2>2, <2>3, <3>1
  <2>5. PICK one \in Nat : one = ones[k + 1]
    BY <1>1, <1>3, <2>1
  <2>6. t[3 * k + 2] = one % IndexBase
    <3>1. \A j \in 1..(3 * count) : j % 3 = 2 => t[j] = ones[(j + 2) \div 3] % IndexBase
      BY <1>4
    <3>2. QED
      BY <2>2, <2>3, <2>5, <3>1
  <2>7. t[3 * k + 3] = (one \div IndexBase) % IndexBase
    <3>1. \A j \in 1..(3 * count) :
            j % 3 = 0 => t[j] = (ones[(j + 2) \div 3] \div IndexBase) % IndexBase
      BY <1>4
    <3>2. QED
      BY <2>2, <2>3, <2>5, <3>1
  <2>8. IndexBase \in Nat \ {0}
    BY MultiplexAssumption
  <2>9. ASSUME one < IndexBase * IndexBase
        PROVE  (one % IndexBase) + IndexBase * ((one \div IndexBase) % IndexBase) = one
    BY ONLY <2>8, <2>9, TwoDigits, one \in Nat
  <2>10. QED
    BY ONLY <2>4, <2>5, <2>6, <2>7, <2>9, ZenonT(30)
<1>8. QED
  BY <1>1, <1>2, <1>3, <1>6, <1>7

(* The tokens of both sequences follow each other in one message.          *)
Numbered(s) == \A k \in DOMAIN Ones(s) : Ones(s)[k] < IndexBase * IndexBase

TokensSay(p, a, b) ==
  LET na == Cardinality(Positions(a))
      nb == Cardinality(Positions(b))
  IN  /\ na \in Nat /\ nb \in Nat /\ p \in Seq(Byte) /\ Len(p) = 3 * (na + nb)
      /\ \A k \in 0..(na + nb - 1) :
           /\ p[3 * k + 1] = IF k < na THEN 0 ELSE 1
           /\ p[3 * k + 2] + IndexBase * p[3 * k + 3]
                = IF k < na THEN Ones(a)[k + 1] ELSE Ones(b)[k - na + 1]

LEMMA StatPayload ==
  ASSUME NEW a \in Seq(Nat), NEW b \in Seq(Nat), Numbered(a), Numbered(b)
  PROVE  TokensSay(do_stat_tdm(a, b), a, b)
<1> DEFINE na == Cardinality(Positions(a))
           nb == Cardinality(Positions(b))
<1> HIDE DEF na, nb
<1>1. PICK ta : ta = Tokens(0, a)
  OBVIOUS
<1>2. PICK tb : tb = Tokens(1, b)
  OBVIOUS
<1>3. PICK p : p = do_stat_tdm(a, b)
  OBVIOUS
<1>4. /\ na \in Nat /\ ta \in Seq(Byte) /\ Len(ta) = 3 * na
      /\ \A k \in 0..(na - 1) :
           ta[3 * k + 1] = 0 /\ ta[3 * k + 2] + IndexBase * ta[3 * k + 3] = Ones(a)[k + 1]
  <2>1. /\ na \in Nat /\ ta \in Seq(Byte) /\ Len(ta) = 3 * na
        /\ \A k \in 0..(na - 1) :
             /\ ta[3 * k + 1] = 0
             /\ Ones(a)[k + 1] < IndexBase * IndexBase =>
                  ta[3 * k + 2] + IndexBase * ta[3 * k + 3] = Ones(a)[k + 1]
    BY <1>1, TokensOfOnes, SMTT(30) DEF na
  <2>2. DOMAIN Ones(a) = 1..na
    BY OnesAreThePositions DEF na
  <2>3. \A k \in 0..(na - 1) : Ones(a)[k + 1] < IndexBase * IndexBase
    <3>1. \A k \in 1..na : Ones(a)[k] < IndexBase * IndexBase
      BY <2>2 DEF Numbered
    <3>2. \A k \in 0..(na - 1) : k + 1 \in 1..na
      BY <2>1
    <3>3. QED
      BY ONLY <3>1, <3>2, Zenon
  <2>4. QED
    BY <2>1, <2>3
<1>5. /\ nb \in Nat /\ tb \in Seq(Byte) /\ Len(tb) = 3 * nb
      /\ \A k \in 0..(nb - 1) :
           tb[3 * k + 1] = 1 /\ tb[3 * k + 2] + IndexBase * tb[3 * k + 3] = Ones(b)[k + 1]
  <2>1. /\ nb \in Nat /\ tb \in Seq(Byte) /\ Len(tb) = 3 * nb
        /\ \A k \in 0..(nb - 1) :
             /\ tb[3 * k + 1] = 1
             /\ Ones(b)[k + 1] < IndexBase * IndexBase =>
                  tb[3 * k + 2] + IndexBase * tb[3 * k + 3] = Ones(b)[k + 1]
    BY <1>2, TokensOfOnes DEF nb
  <2>2. DOMAIN Ones(b) = 1..nb
    BY OnesAreThePositions DEF nb
  <2>3. \A k \in 0..(nb - 1) : Ones(b)[k + 1] < IndexBase * IndexBase
    <3>1. \A k \in 1..nb : Ones(b)[k] < IndexBase * IndexBase
      BY <2>2 DEF Numbered
    <3>2. \A k \in 0..(nb - 1) : k + 1 \in 1..nb
      BY <2>1
    <3>3. QED
      BY ONLY <3>1, <3>2, Zenon
  <2>4. QED
    BY <2>1, <2>3
<1>6. /\ p \in Seq(Byte) /\ Len(p) = 3 * na + 3 * nb
      /\ \A i \in 1..(3 * na + 3 * nb) : p[i] = IF i <= 3 * na THEN ta[i] ELSE tb[i - 3 * na]
  <2>1. p = ta \o tb
    BY <1>1, <1>2, <1>3 DEF do_stat_tdm
  <2>2. ta \in Seq(Byte) /\ tb \in Seq(Byte) /\ Len(ta) = 3 * na /\ Len(tb) = 3 * nb
    BY <1>4, <1>5
  <2>3. /\ p \in Seq(Byte) /\ Len(p) = Len(ta) + Len(tb)
        /\ \A i \in 1..(Len(ta) + Len(tb)) : p[i] = IF i <= Len(ta) THEN ta[i] ELSE tb[i - Len(ta)]
    BY ONLY <2>1, <2>2, ConcatProperties
  <2>4. QED
    BY ONLY <2>2, <2>3, Zenon
<1>7. ASSUME NEW k \in 0..(na + nb - 1)
      PROVE  /\ p[3 * k + 1] = IF k < na THEN 0 ELSE 1
             /\ p[3 * k + 2] + IndexBase * p[3 * k + 3]
                  = IF k < na THEN Ones(a)[k + 1] ELSE Ones(b)[k - na + 1]
  <2>1. na \in Nat /\ nb \in Nat /\ k \in 0..(na + nb - 1)
    BY <1>4, <1>5
  <2>2. CASE k < na
    <3>1. k \in 0..(na - 1)
      BY <2>1, <2>2, SMT
    <3>2. \A d \in 1..3 : 3 * k + d \in 1..(3 * na + 3 * nb) /\ 3 * k + d <= 3 * na
      BY ONLY <2>1, <3>1, SMT
    <3>3. \A d \in 1..3 : p[3 * k + d] = ta[3 * k + d]
      BY ONLY <1>6, <3>2, Zenon
    <3>4. p[3 * k + 1] = ta[3 * k + 1] /\ p[3 * k + 2] = ta[3 * k + 2] /\ p[3 * k + 3] = ta[3 * k + 3]
      BY ONLY <3>3, SMT
    <3>5. ta[3 * k + 1] = 0 /\ ta[3 * k + 2] + IndexBase * ta[3 * k + 3] = Ones(a)[k + 1]
      BY <1>4, <3>1
    <3>6. QED
      BY <2>2, <3>4, <3>5
  <2>3. CASE ~(k < na)
    <3>1. k - na \in 0..(nb - 1)
      BY ONLY <2>1, <2>3, SMT
    <3>2. PICK j \in 0..(nb - 1) : k = na + j /\ k - na = j
      BY ONLY <2>1, <3>1, SMT
    <3>3. \A d \in 1..3 : /\ 3 * k + d \in 1..(3 * na + 3 * nb) /\ ~(3 * k + d <= 3 * na)
                           /\ 3 * k + d - 3 * na = 3 * j + d
      BY ONLY <2>1, <3>2, SMT
    <3>4. \A d \in 1..3 : p[3 * k + d] = tb[3 * j + d]
      <4> TAKE d \in 1..3
      <4>1. PICK i \in 1..(3 * na + 3 * nb) : i = 3 * k + d /\ ~(i <= 3 * na)
        BY ONLY <3>3, d \in 1..3, Zenon
      <4>2. p[i] = tb[i - 3 * na]
        BY <1>6, <4>1
      <4>3. i - 3 * na = 3 * j + d
        BY ONLY <2>1, <3>2, <4>1, d \in 1..3, SMT
      <4>4. QED
        BY ONLY <4>1, <4>2, <4>3, Zenon
    <3>5. p[3 * k + 1] = tb[3 * j + 1] /\ p[3 * k + 2] = tb[3 * j + 2] /\ p[3 * k + 3] = tb[3 * j + 3]
      BY ONLY <3>4, SMT
    <3>6. tb[3 * j + 1] = 1 /\ tb[3 * j + 2] + IndexBase * tb[3 * j + 3] = Ones(b)[j + 1]
      BY <1>5, <3>2
    <3>7. QED
      BY <2>3, <3>2, <3>5, <3>6
  <2>4. QED
    BY <2>2, <2>3
<1>8. Len(p) = 3 * (na + nb)
  BY <1>4, <1>5, <1>6
<1>9. QED
  BY <1>3, <1>4, <1>5, <1>6, <1>7, <1>8 DEF TokensSay, na, nb

(* What has arrived of a payload.                                          *)
LEMMA FirstBytes ==
  ASSUME NEW p \in Seq(Byte), NEW num \in 0..Len(p)
  PROVE  Len(SubSeq(p, 1, num)) = num /\ \A i \in 1..num : SubSeq(p, 1, num)[i] = p[i]
<1>1. num \in Int /\ 1 \in Int /\ \A i \in 1..num : p[i] \in Byte
  OBVIOUS
<1>2. /\ Len(SubSeq(p, 1, num)) = IF 1 <= num THEN num - 1 + 1 ELSE 0
      /\ \A i \in 1..(num - 1 + 1) : SubSeq(p, 1, num)[i] = p[1 + i - 1]
  BY <1>1, SubSeqProperties
<1>3. num \in Nat /\ num - 1 + 1 = num /\ \A i \in 1..num : 1 + i - 1 = i
  OBVIOUS
<1>4. Len(SubSeq(p, 1, num)) = num
  BY ONLY <1>2, <1>3, SMT
<1>5. QED
  BY ONLY <1>2, <1>3, <1>4, Zenon

(* Of the part of a message that has arrived no one is read that was not   *)
(* sent, and of a whole message every one that was.                        *)
Sent(a, b, which) == IF which = 0 THEN a ELSE b
ReadsRight(mode, a, b, num) ==
  \A which \in {0, 1}, i \in Nat \ {0} :
    LET p == Payload(mode, a, b)
        said == SaysOne(mode, SubSeq(p, 1, num), which, i)
    IN  /\ said => BitAt(Sent(a, b, which), i) = 1
        /\ num = Len(p) /\ BitAt(Sent(a, b, which), i) = 1 => said

(* A one is in a slot.                                                     *)
LEMMA OnesAreInSlots ==
  ASSUME NEW a \in Seq(Nat), NEW b \in Seq(Nat), NEW which \in {0, 1}, NEW i \in Nat \ {0},
         BitAt(Sent(a, b, which), i) = 1
  PROVE  i \in 1..Slots(a, b)
<1>1. i <= Len(Sent(a, b, which))
  BY DEF BitAt
<1>2. i <= Len(a) \/ i <= Len(b)
  BY <1>1 DEF Sent
<1>3. Slots(a, b) \in Nat /\ Len(a) <= Slots(a, b) /\ Len(b) <= Slots(a, b)
  BY SlotsHoldBoth
<1>4. Len(a) \in Nat /\ Len(b) \in Nat
  OBVIOUS
<1>5. QED
  BY <1>2, <1>3, <1>4

LEMMA SyncReadsRight ==
  ASSUME NEW a \in Seq(Nat), NEW b \in Seq(Nat), NEW num \in 0..Len(Payload(SYNC_TDM, a, b))
  PROVE  ReadsRight(SYNC_TDM, a, b, num)
<1>1. PICK p : p = Payload(SYNC_TDM, a, b)
  OBVIOUS
<1>2. PICK m \in Nat : m = Slots(a, b)
  BY SlotsHoldBoth
<1>3. /\ p \in Seq(Byte) /\ Len(p) = 2 * m
      /\ \A i \in 1..m : p[2 * i - 1] = BitAt(a, i) /\ p[2 * i] = BitAt(b, i)
  <2>1. p = do_sync_tdm(a, b)
    BY <1>1 DEF Payload, STAT_TDM, SYNC_TDM, FDM, CDM
  <2>2. QED
    BY <1>2, <2>1, SyncPayload
<1>4. PICK q : q = SubSeq(p, 1, num)
  OBVIOUS
<1>5. Len(q) = num /\ (\A i \in 1..num : q[i] = p[i]) /\ num \in 0..(2 * m)
  BY <1>1, <1>3, <1>4, FirstBytes
<1>6. ASSUME NEW which \in {0, 1}, NEW i \in Nat \ {0}
      PROVE  /\ SaysOne(SYNC_TDM, q, which, i) <=> 2 * i <= num /\ to_bit(q[2 * i - 1 + which]) = 1
             /\ 2 * i <= num => to_bit(q[2 * i - 1 + which]) = BitAt(Sent(a, b, which), i)
  <2>1. SaysOne(SYNC_TDM, q, which, i) <=> 2 * i <= num /\ to_bit(q[2 * i - 1 + which]) = 1
    BY <1>5 DEF SaysOne, STAT_TDM, SYNC_TDM, FDM, CDM
  <2>2. ASSUME 2 * i <= num PROVE to_bit(q[2 * i - 1 + which]) = BitAt(Sent(a, b, which), i)
    <3>1. i \in 1..m /\ 2 * i - 1 + which \in 1..num
      BY <1>2, <1>5, <2>2
    <3>2. q[2 * i - 1 + which] = BitAt(Sent(a, b, which), i)
      <4>1. q[2 * i - 1 + which] = p[2 * i - 1 + which]
        BY <1>5, <3>1
      <4>2. p[2 * i - 1] = BitAt(a, i) /\ p[2 * i] = BitAt(b, i)
        BY <1>3, <3>1
      <4>3. CASE which = 0
        <5>1. 2 * i - 1 + which = 2 * i - 1 /\ Sent(a, b, which) = a
          BY <4>3 DEF Sent
        <5>2. QED
          BY <4>1, <4>2, <5>1
      <4>4. CASE which = 1
        <5>1. 2 * i - 1 + which = 2 * i /\ Sent(a, b, which) = b
          BY <4>4 DEF Sent
        <5>2. QED
          BY <4>1, <4>2, <5>1
      <4>5. QED
        BY <4>3, <4>4
    <3>3. QED
      BY <3>2, BitIsOneOrZero DEF to_bit
  <2>3. QED
    BY <2>1, <2>2
<1>7. ASSUME NEW which \in {0, 1}, NEW i \in Nat \ {0}, num = Len(p), BitAt(Sent(a, b, which), i) = 1
      PROVE  2 * i <= num
  BY <1>2, <1>3, <1>7, OnesAreInSlots
<1>8. QED
  BY <1>1, <1>4, <1>6, <1>7 DEF ReadsRight

LEMMA FdmReadsRight ==
  ASSUME NEW a \in Seq(Nat), NEW b \in Seq(Nat), NEW num \in 0..Len(Payload(FDM, a, b))
  PROVE  ReadsRight(FDM, a, b, num)
<1>1. PICK p : p = Payload(FDM, a, b)
  OBVIOUS
<1>2. PICK m \in Nat : m = Slots(a, b)
  BY SlotsHoldBoth
<1>3. /\ p \in Seq(Byte) /\ Len(p) = m
      /\ \A i \in 1..m : p[i] = BitAt(a, i) + 2 * BitAt(b, i)
  <2>1. p = do_fdm(a, b)
    BY <1>1 DEF Payload, STAT_TDM, SYNC_TDM, FDM, CDM
  <2>2. QED
    BY <1>2, <2>1, FdmPayload
<1>4. PICK q : q = SubSeq(p, 1, num)
  OBVIOUS
<1>5. Len(q) = num /\ (\A i \in 1..num : q[i] = p[i]) /\ num \in 0..m
  BY <1>1, <1>3, <1>4, FirstBytes
<1>6. ASSUME NEW which \in {0, 1}, NEW i \in Nat \ {0}
      PROVE  /\ SaysOne(FDM, q, which, i) <=> i <= num /\ (q[i] \div (1 + which)) % 2 = 1
             /\ i <= num => (q[i] \div (1 + which)) % 2 = BitAt(Sent(a, b, which), i)
  <2>1. SaysOne(FDM, q, which, i) <=> i <= num /\ (q[i] \div (1 + which)) % 2 = 1
    BY <1>5 DEF SaysOne, STAT_TDM, SYNC_TDM, FDM, CDM
  <2>2. ASSUME i <= num PROVE (q[i] \div (1 + which)) % 2 = BitAt(Sent(a, b, which), i)
    <3>1. q[i] = BitAt(a, i) + 2 * BitAt(b, i)
      BY <1>3, <1>5, <2>2
    <3>2. \A u, y \in {0, 1} : ((u + 2 * y) \div 1) % 2 = u /\ ((u + 2 * y) \div 2) % 2 = y
      <4>1. /\ (0 \div 1) % 2 = 0 /\ (1 \div 1) % 2 = 1 /\ (2 \div 1) % 2 = 0 /\ (3 \div 1) % 2 = 1
            /\ (0 \div 2) % 2 = 0 /\ (1 \div 2) % 2 = 0 /\ (2 \div 2) % 2 = 1 /\ (3 \div 2) % 2 = 1
        OBVIOUS
      <4>2. 0 + 2 * 0 = 0 /\ 1 + 2 * 0 = 1 /\ 0 + 2 * 1 = 2 /\ 1 + 2 * 1 = 3
        OBVIOUS
      <4>3. QED
        BY ONLY <4>1, <4>2, Zenon
    <3>3. CASE which = 0
      <4>1. 1 + which = 1 /\ Sent(a, b, which) = a
        BY <3>3 DEF Sent
      <4>2. QED
        BY <3>1, <3>2, <4>1, BitIsOneOrZero, SMTT(30)
    <3>4. CASE which = 1
      <4>1. 1 + which = 2 /\ Sent(a, b, which) = b
        BY <3>4 DEF Sent
      <4>2. QED
        BY <3>1, <3>2, <4>1, BitIsOneOrZero
    <3>5. QED
      BY <3>3, <3>4
  <2>3. QED
    BY <2>1, <2>2
<1>7. ASSUME NEW which \in {0, 1}, NEW i \in Nat \ {0}, num = Len(p), BitAt(Sent(a, b, which), i) = 1
      PROVE  i <= num
  BY <1>2, <1>3, <1>7, OnesAreInSlots
<1>8. QED
  BY <1>1, <1>4, <1>6, <1>7 DEF ReadsRight

LEMMA CdmReadsRight ==
  ASSUME NEW a \in Seq(Nat), NEW b \in Seq(Nat), NEW num \in 0..Len(Payload(CDM, a, b))
  PROVE  ReadsRight(CDM, a, b, num)
<1>1. PICK p : p = Payload(CDM, a, b)
  OBVIOUS
<1>2. PICK m \in Nat : m = Slots(a, b)
  BY SlotsHoldBoth
<1>3. /\ p \in Seq(Byte) /\ Len(p) = 2 * m
      /\ \A i \in 1..m : /\ p[2 * i - 1] = Level(BitAt(a, i)) + Level(BitAt(b, i)) + 2
                         /\ p[2 * i] = Level(BitAt(a, i)) - Level(BitAt(b, i)) + 2
  <2>1. p = do_cdm(a, b)
    BY <1>1 DEF Payload, STAT_TDM, SYNC_TDM, FDM, CDM
  <2>2. QED
    BY <1>2, <2>1, CdmPayload
<1>4. PICK q : q = SubSeq(p, 1, num)
  OBVIOUS
<1>5. Len(q) = num /\ (\A i \in 1..num : q[i] = p[i]) /\ num \in 0..(2 * m)
  BY <1>1, <1>3, <1>4, FirstBytes
<1> DEFINE Correlation(which, i) ==
      IF which = 0 THEN (q[2 * i - 1] - 2) + (q[2 * i] - 2) ELSE (q[2 * i - 1] - 2) - (q[2 * i] - 2)
<1>6. ASSUME NEW which \in {0, 1}, NEW i \in Nat \ {0}
      PROVE  /\ SaysOne(CDM, q, which, i) <=> 2 * i <= num /\ Correlation(which, i) > 0
             /\ 2 * i <= num => (Correlation(which, i) > 0 <=> BitAt(Sent(a, b, which), i) = 1)
  <2>1. SaysOne(CDM, q, which, i) <=> 2 * i <= num /\ Correlation(which, i) > 0
    BY <1>5 DEF SaysOne, STAT_TDM, SYNC_TDM, FDM, CDM
  <2>2. ASSUME 2 * i <= num PROVE Correlation(which, i) > 0 <=> BitAt(Sent(a, b, which), i) = 1
    <3>1. i \in 1..m /\ 2 * i - 1 \in 1..num /\ 2 * i \in 1..num
      BY <1>2, <1>5, <2>2
    <3>2. PICK u \in {0, 1} : u = BitAt(a, i)
      BY BitIsOneOrZero
    <3>3. PICK y \in {0, 1} : y = BitAt(b, i)
      BY BitIsOneOrZero
    <3>4. q[2 * i - 1] = (2 * u - 1) + (2 * y - 1) + 2 /\ q[2 * i] = (2 * u - 1) - (2 * y - 1) + 2
      BY <1>3, <1>5, <3>1, <3>2, <3>3 DEF Level
    <3>5. BitAt(Sent(a, b, which), i) = IF which = 0 THEN u ELSE y
      BY <3>2, <3>3 DEF Sent
    <3>6. QED
      BY <3>4, <3>5
  <2>3. QED
    BY <2>1, <2>2
<1>7. ASSUME NEW which \in {0, 1}, NEW i \in Nat \ {0}, num = Len(p), BitAt(Sent(a, b, which), i) = 1
      PROVE  2 * i <= num
  BY <1>2, <1>3, <1>7, OnesAreInSlots
<1> HIDE DEF Correlation
<1>8. QED
  BY <1>1, <1>4, <1>6, <1>7 DEF ReadsRight

LEMMA StatReadsRight ==
  ASSUME NEW a \in Seq(Nat), NEW b \in Seq(Nat), Numbered(a), Numbered(b),
         NEW num \in 0..Len(Payload(STAT_TDM, a, b))
  PROVE  ReadsRight(STAT_TDM, a, b, num)
<1>1. PICK p : p = Payload(STAT_TDM, a, b)
  OBVIOUS
<1>2. PICK na : na = Cardinality(Positions(a))
  OBVIOUS
<1>3. PICK nb : nb = Cardinality(Positions(b))
  OBVIOUS
<1>4. PICK oa : oa = Ones(a)
  OBVIOUS
<1>5. PICK ob : ob = Ones(b)
  OBVIOUS
<1>6. /\ na \in Nat /\ nb \in Nat /\ p \in Seq(Byte) /\ Len(p) = 3 * (na + nb)
      /\ \A k \in 0..(na + nb - 1) :
           /\ p[3 * k + 1] = IF k < na THEN 0 ELSE 1
           /\ p[3 * k + 2] + IndexBase * p[3 * k + 3] = IF k < na THEN oa[k + 1] ELSE ob[k - na + 1]
  <2>1. p = do_stat_tdm(a, b)
    BY <1>1 DEF Payload, STAT_TDM, SYNC_TDM, FDM, CDM
  <2>2. TokensSay(p, a, b)
    BY <2>1, StatPayload
  <2>3. QED
    BY <1>2, <1>3, <1>4, <1>5, <2>2 DEF TokensSay
<1>7. PICK q : q = SubSeq(p, 1, num)
  OBVIOUS
<1>8. Len(q) = num /\ (\A i \in 1..num : q[i] = p[i]) /\ num \in 0..(3 * (na + nb))
  BY <1>1, <1>6, <1>7, FirstBytes
<1>9. PICK count \in Nat : count = num \div 3 /\ count <= na + nb /\ (num = Len(p) => count = na + nb)
  BY <1>6, <1>8
<1>10. \A k \in 0..(count - 1) :
         /\ k \in 0..(na + nb - 1)
         /\ q[3 * k + 1] = IF k < na THEN 0 ELSE 1
         /\ q[3 * k + 2] + IndexBase * q[3 * k + 3] = IF k < na THEN oa[k + 1] ELSE ob[k - na + 1]
  <2> TAKE k \in 0..(count - 1)
  <2>1. /\ k \in 0..(na + nb - 1)
        /\ 3 * k + 1 \in 1..num /\ 3 * k + 2 \in 1..num /\ 3 * k + 3 \in 1..num
    BY <1>6, <1>8, <1>9
  <2>2. q[3 * k + 1] = p[3 * k + 1] /\ q[3 * k + 2] = p[3 * k + 2] /\ q[3 * k + 3] = p[3 * k + 3]
    BY <1>8, <2>1
  <2>3. QED
    BY <1>6, <2>1, <2>2
<1>11. /\ \A k \in 1..na : oa[k] \in Positions(a)
       /\ \A j \in Positions(a) : \E k \in 1..na : oa[k] = j
  BY <1>2, <1>4, OnesAreThePositions
<1>12. /\ \A k \in 1..nb : ob[k] \in Positions(b)
       /\ \A j \in Positions(b) : \E k \in 1..nb : ob[k] = j
  BY <1>3, <1>5, OnesAreThePositions
<1>13. \A s \in {a, b}, i \in Nat \ {0} : BitAt(s, i) = 1 <=> i - 1 \in Positions(s)
  <2> TAKE s \in {a, b}, i \in Nat \ {0}
  <2>1. Len(s) \in Nat /\ (i - 1) + 1 = i /\ (i <= Len(s) <=> i - 1 \in 0..(Len(s) - 1))
    OBVIOUS
  <2>2. QED
    BY <2>1 DEF BitAt, Positions
<1>14. ASSUME NEW which \in {0, 1}, NEW i \in Nat \ {0}
       PROVE  SaysOne(STAT_TDM, q, which, i) <=>
                \E k \in 0..(count - 1) :
                  q[3 * k + 1] = which /\ q[3 * k + 2] + IndexBase * q[3 * k + 3] = i - 1
  BY <1>8, <1>9 DEF SaysOne, STAT_TDM, SYNC_TDM, FDM, CDM
<1>15. ASSUME NEW which \in {0, 1}, NEW i \in Nat \ {0}, SaysOne(STAT_TDM, q, which, i)
       PROVE  BitAt(Sent(a, b, which), i) = 1
  <2>1. PICK k \in 0..(count - 1) :
          q[3 * k + 1] = which /\ q[3 * k + 2] + IndexBase * q[3 * k + 3] = i - 1
    BY <1>14, <1>15
  <2>2. CASE which = 0
    <3>1. k < na /\ oa[k + 1] = i - 1 /\ k + 1 \in 1..na
      BY <1>6, <1>10, <2>1, <2>2
    <3>2. QED
      BY <1>11, <1>13, <2>2, <3>1 DEF Sent
  <2>3. CASE which = 1
    <3>1. ~(k < na) /\ ob[k - na + 1] = i - 1 /\ k - na + 1 \in 1..nb
      BY <1>6, <1>10, <2>1, <2>3
    <3>2. QED
      BY <1>12, <1>13, <2>3, <3>1 DEF Sent
  <2>4. QED
    BY <2>2, <2>3
<1>16. ASSUME NEW which \in {0, 1}, NEW i \in Nat \ {0}, num = Len(p), BitAt(Sent(a, b, which), i) = 1
       PROVE  SaysOne(STAT_TDM, q, which, i)
  <2>1. count = na + nb
    BY <1>9, <1>16
  <2>2. CASE which = 0
    <3>1. PICK k \in 1..na : oa[k] = i - 1
      <4>1. Sent(a, b, which) = a
        BY <2>2 DEF Sent
      <4>2. i - 1 \in Positions(a)
        BY <1>13, <1>16, <4>1
      <4>3. QED
        BY ONLY <1>11, <4>2, Zenon
    <3>2. k - 1 \in 0..(count - 1) /\ k - 1 < na /\ (k - 1) + 1 = k
      BY <1>6, <2>1
    <3>3. PICK j \in 0..(count - 1) : j = k - 1 /\ j < na /\ j + 1 = k
      BY <1>6, <3>2
    <3>4. q[3 * j + 1] = 0 /\ q[3 * j + 2] + IndexBase * q[3 * j + 3] = i - 1
      BY <1>10, <3>1, <3>3
    <3>5. q[3 * j + 1] = which
      BY <2>2, <3>4
    <3>6. \E l \in 0..(count - 1) :
            q[3 * l + 1] = which /\ q[3 * l + 2] + IndexBase * q[3 * l + 3] = i - 1
      BY ONLY <3>4, <3>5, j \in 0..(count - 1), Zenon
    <3>7. QED
      BY <1>14, <3>6
  <2>3. CASE which = 1
    <3>1. PICK k \in 1..nb : ob[k] = i - 1
      <4>1. Sent(a, b, which) = b
        BY <2>3 DEF Sent
      <4>2. i - 1 \in Positions(b)
        BY <1>13, <1>16, <4>1
      <4>3. QED
        BY ONLY <1>12, <4>2, Zenon
    <3>2. PICK j \in 0..(count - 1) : j = na + k - 1 /\ ~(j < na) /\ j - na + 1 = k
      BY <1>6, <2>1
    <3>3. q[3 * j + 1] = 1 /\ q[3 * j + 2] + IndexBase * q[3 * j + 3] = i - 1
      BY <1>10, <3>1, <3>2
    <3>4. q[3 * j + 1] = which
      BY <2>3, <3>3
    <3>5. \E l \in 0..(count - 1) :
            q[3 * l + 1] = which /\ q[3 * l + 2] + IndexBase * q[3 * l + 3] = i - 1
      BY ONLY <3>3, <3>4, j \in 0..(count - 1), Zenon
    <3>6. QED
      BY <1>14, <3>5
  <2>4. QED
    BY <2>2, <2>3
<1>17. QED
  BY <1>1, <1>7, <1>15, <1>16 DEF ReadsRight

LEMMA PayloadIsBytes ==
  ASSUME NEW a \in Seq(Nat), NEW b \in Seq(Nat), NEW mode \in STAT_TDM..CDM
  PROVE  Payload(mode, a, b) \in Seq(Byte)
<1>1. do_stat_tdm(a, b) \in Seq(Byte)
  <2>1. Tokens(0, a) \in Seq(Byte) /\ Tokens(1, b) \in Seq(Byte)
    BY TokensOfOnes
  <2>2. QED
    BY <2>1, ConcatProperties DEF do_stat_tdm
<1>2. do_sync_tdm(a, b) \in Seq(Byte) /\ do_fdm(a, b) \in Seq(Byte) /\ do_cdm(a, b) \in Seq(Byte)
  BY SyncPayload, FdmPayload, CdmPayload
<1>3. mode \in {1, 2, 3, 4}
  BY DEF STAT_TDM, CDM
<1>4. QED
  BY <1>1, <1>2, <1>3 DEF Payload, STAT_TDM, SYNC_TDM, FDM, CDM

LEMMA EveryModeReadsRight ==
  ASSUME NEW a \in Seq(Nat), NEW b \in Seq(Nat), NEW mode \in STAT_TDM..CDM,
         mode = STAT_TDM => Numbered(a) /\ Numbered(b),
         NEW num \in 0..Len(Payload(mode, a, b))
  PROVE  ReadsRight(mode, a, b, num)
<1>1. mode \in {STAT_TDM, SYNC_TDM, FDM, CDM}
  BY DEF STAT_TDM, SYNC_TDM, FDM, CDM
<1>2. CASE mode = STAT_TDM
  BY <1>2, StatReadsRight
<1>3. CASE mode = SYNC_TDM
  BY <1>3, SyncReadsRight
<1>4. CASE mode = FDM
  BY <1>4, FdmReadsRight
<1>5. CASE mode = CDM
  BY <1>5, CdmReadsRight
<1>6. QED
  BY <1>1, <1>2, <1>3, <1>4, <1>5

(* The buffer holds what the last multiplex was given, in the mode that    *)
(* was set then.                                                           *)
HoldsOriginal ==
  /\ message.mode = 0 => message = NoMessage /\ c_len = -1
  /\ message.mode # 0 =>
       /\ message.mode \in STAT_TDM..CDM
       /\ original \in [a : Source, b : Source]
       /\ message = [mode |-> message.mode, a_len |-> Len(original.a), b_len |-> Len(original.b),
                     payload |-> Payload(message.mode, original.a, original.b)]
       /\ message.mode = STAT_TDM => Numbered(original.a) /\ Numbered(original.b)

MultiplexInv == MultiplexTypeOK /\ HoldsOriginal /\ DemultiplexRestores

LEMMA SourcesAreSequences == \A s \in Source : s \in Seq(Nat)
BY MultiplexAssumption

LEMMA DoMultiplexKeeps ==
  ASSUME MultiplexInv, DoMultiplex
  PROVE  MultiplexInv'
<1>1. PICK a \in Source, b \in Source, c_size \in Capacity :
        /\ original' = [a |-> a, b |-> b]
        /\ IF Fits(g_multiplex_mode, c_size, a, b)
             THEN /\ message' = [mode |-> g_multiplex_mode, a_len |-> Len(a), b_len |-> Len(b),
                                 payload |-> Payload(g_multiplex_mode, a, b)]
                  /\ c_len' = header + Len(message'.payload)
             ELSE message' = NoMessage /\ c_len' = -1
  BY DEF DoMultiplex
<1>2. outcome' = Failed /\ g_multiplex_mode' = g_multiplex_mode
  BY DEF DoMultiplex
<1>3. g_multiplex_mode \in STAT_TDM..CDM
  BY DEF MultiplexInv, MultiplexTypeOK
<1>4. original' \in [a : Source, b : Source] /\ a \in Seq(Nat) /\ b \in Seq(Nat)
  BY <1>1, SourcesAreSequences
<1>5. DemultiplexRestores'
  BY <1>2 DEF DemultiplexRestores, Failed
<1>6. CASE ~Fits(g_multiplex_mode, c_size, a, b)
  <2>1. message' = NoMessage /\ c_len' = -1
    BY <1>1, <1>6
  <2>2. MultiplexTypeOK'
    <3>1. message'.payload = << >> /\ message'.mode = 0
      BY <2>1 DEF NoMessage
    <3>2. 0 \in 0..CDM /\ Len(<< >>) = 0 /\ -1 \in (-1)..(header + 0)
      BY DEF CDM, header
    <3>3. << >> \in Seq(0..Max({4, IndexBase - 1}))
      OBVIOUS
    <3>4. outcome'.result \in Int
      BY <1>2 DEF Failed
    <3>5. QED
      BY <1>2, <1>3, <2>1, <3>1, <3>2, <3>3, <3>4 DEF MultiplexTypeOK
  <2>3. HoldsOriginal'
    BY <2>1 DEF HoldsOriginal, NoMessage
  <2>4. QED
    BY <1>5, <2>2, <2>3 DEF MultiplexInv
<1>7. CASE Fits(g_multiplex_mode, c_size, a, b)
  <2>1. PICK p : p = Payload(g_multiplex_mode, a, b)
    OBVIOUS
  <2>2. /\ message' = [mode |-> g_multiplex_mode, a_len |-> Len(a), b_len |-> Len(b), payload |-> p]
        /\ c_len' = header + Len(p)
    BY <1>1, <1>7, <2>1
  <2>3. p \in Seq(Byte) /\ Len(p) \in Nat
    BY <1>3, <1>4, <2>1, PayloadIsBytes
  <2>4. message'.mode = g_multiplex_mode /\ message'.payload = p
    BY <2>2
  <2>5. MultiplexTypeOK'
    <3>1. g_multiplex_mode \in 0..CDM
      BY <1>3 DEF STAT_TDM, CDM
    <3>2. c_len' \in (-1)..(header + Len(p))
      BY <2>2, <2>3 DEF header
    <3>3. outcome'.result \in Int
      BY <1>2 DEF Failed
    <3>4. QED
      BY <1>2, <1>3, <1>4, <2>3, <2>4, <3>1, <3>2, <3>3 DEF MultiplexTypeOK, Byte
  <2>6. HoldsOriginal'
    <3>1. g_multiplex_mode # 0
      BY <1>3 DEF STAT_TDM
    <3>2. g_multiplex_mode = STAT_TDM => Numbered(a) /\ Numbered(b)
      BY <1>7 DEF Fits, Numbered
    <3>3. original'.a = a /\ original'.b = b
      BY <1>1
    <3>4. QED
      BY <1>3, <1>4, <2>1, <2>2, <2>4, <3>1, <3>2, <3>3 DEF HoldsOriginal
  <2>7. QED
    BY <1>5, <2>5, <2>6 DEF MultiplexInv
<1>8. QED
  BY <1>6, <1>7

LEMMA CutShortKeeps ==
  ASSUME MultiplexInv, CutShort
  PROVE  MultiplexInv'
<1>1. /\ c_len > 0 /\ c_len' = c_len - 1 /\ outcome' = Failed
      /\ UNCHANGED <<g_multiplex_mode, message, original>>
  BY DEF CutShort
<1>2. DemultiplexRestores'
  BY <1>1 DEF DemultiplexRestores, Failed
<1>3. c_len' \in (-1)..(header + Len(message.payload))
  <2>1. message.payload \in Seq(0..Max({4, IndexBase - 1}))
    BY DEF MultiplexInv, MultiplexTypeOK
  <2>2. c_len \in (-1)..(header + Len(message.payload)) /\ Len(message.payload) \in Nat
    BY <2>1 DEF MultiplexInv, MultiplexTypeOK
  <2>3. QED
    BY <1>1, <2>2 DEF header
<1>4. MultiplexTypeOK'
  <2>1. outcome'.result \in Int
    BY <1>1 DEF Failed
  <2>2. QED
    BY <1>1, <1>3, <2>1 DEF MultiplexInv, MultiplexTypeOK
<1>5. message.mode # 0
  BY <1>1 DEF MultiplexInv, HoldsOriginal
<1>6. HoldsOriginal'
  BY <1>1, <1>5 DEF MultiplexInv, HoldsOriginal
<1>7. QED
  BY <1>2, <1>4, <1>6 DEF MultiplexInv

(* One of the two outputs.                                                 *)
LEMMA OutputRestores ==
  ASSUME MultiplexInv, ~Broken, NEW which \in {0, 1}, NEW size \in Nat,
         NEW s, s = Sent(original.a, original.b, which)
  PROVE  /\ Len(Output(size, Len(s), which)) = size
         /\ Restored(Output(size, Len(s), which), s)
<1>1. message.mode # 0 /\ c_len >= header
  <2>1. c_len \in Int /\ ~(c_len < header)
    BY DEF MultiplexInv, MultiplexTypeOK, Broken
  <2>2. c_len >= header
    BY <2>1 DEF header
  <2>3. QED
    BY <2>2 DEF MultiplexInv, HoldsOriginal, header
<1>2. /\ message.mode \in STAT_TDM..CDM
      /\ original.a \in Seq(Nat) /\ original.b \in Seq(Nat)
      /\ message.payload = Payload(message.mode, original.a, original.b)
      /\ message.mode = STAT_TDM => Numbered(original.a) /\ Numbered(original.b)
  BY <1>1, SourcesAreSequences DEF MultiplexInv, HoldsOriginal
<1>3. PICK p : p = Payload(message.mode, original.a, original.b)
  OBVIOUS
<1>4. PICK num \in 0..Len(p) : num = c_len - header
  <2>1. p \in Seq(Byte)
    BY <1>2, <1>3, PayloadIsBytes
  <2>2. c_len \in (-1)..(header + Len(p)) /\ Len(p) \in Nat
    BY <1>2, <1>3, <2>1 DEF MultiplexInv, MultiplexTypeOK
  <2>3. QED
    BY <1>1, <2>2 DEF header
<1>5. Whole <=> num = Len(p)
  <2>1. p \in Seq(Byte) /\ Len(p) \in Nat /\ c_len \in Int
    BY <1>2, <1>3, PayloadIsBytes, SMTT(30) DEF MultiplexInv, MultiplexTypeOK
  <2>2. QED
    BY <1>2, <1>3, <1>4, <2>1 DEF Whole, header
<1>6. PICK q : q = SubSeq(p, 1, num)
  OBVIOUS
<1>7. Arrived = q /\ ModeOfMessage = message.mode
  BY <1>2, <1>3, <1>4, <1>6 DEF Arrived, ModeOfMessage
<1>8. ReadsRight(message.mode, original.a, original.b, num)
  BY <1>2, <1>3, <1>4, EveryModeReadsRight
<1>9. \A i \in Nat \ {0} :
        /\ SaysOne(message.mode, q, which, i) => BitAt(s, i) = 1
        /\ num = Len(p) /\ BitAt(s, i) = 1 => SaysOne(message.mode, q, which, i)
  BY <1>3, <1>6, <1>8 DEF ReadsRight
<1>10. s \in Seq(Nat) /\ Len(s) \in Nat
  BY <1>2 DEF Sent
<1>11. Min({size, Len(s)}) \in Nat /\ \A i \in Nat : i <= Min({size, Len(s)}) <=> i <= size /\ i <= Len(s)
  <2>1. PICK both : both = {size, Len(s)}
    OBVIOUS
  <2>2. both \in SUBSET Nat /\ both # {}
    BY <1>10, <2>1
  <2>3. Min(both) \in both /\ \A d \in both : Min(both) <= d
    BY <2>2, MinOfNaturals
  <2>4. PICK least \in Nat : /\ least = Min(both) /\ least <= size /\ least <= Len(s)
                             /\ least = size \/ least = Len(s)
    BY <1>10, <2>1, <2>3
  <2>5. \A i \in Nat : i <= least <=> i <= size /\ i <= Len(s)
    BY ONLY <1>10, <2>4, size \in Nat, SMT
  <2>6. QED
    BY <2>1, <2>4, <2>5
<1>12. PICK out : out = Output(size, Len(s), which)
  OBVIOUS
<1>13. out = [i \in 1..size |->
                IF i <= Min({size, Len(s)}) /\ SaysOne(message.mode, q, which, i) THEN 1 ELSE 0]
  BY <1>7, <1>12 DEF Output
<1>14. Len(out) = size
  BY <1>13
<1>15. ASSUME NEW i \in 1..size
       PROVE  out[i] = BitAt(s, i) \/ (~Whole /\ out[i] = 0)
  <2>1. i \in Nat \ {0}
    OBVIOUS
  <2>2. CASE out[i] = 1
    <3>1. SaysOne(message.mode, q, which, i)
      BY <1>13, <2>2
    <3>2. QED
      BY <1>9, <2>1, <2>2, <3>1
  <2>3. CASE out[i] = 0
    <3>1. ~(i <= Len(s)) \/ ~SaysOne(message.mode, q, which, i)
      <4>1. i <= size /\ i \in Nat
        OBVIOUS
      <4>2. ~(i <= Min({size, Len(s)}) /\ SaysOne(message.mode, q, which, i))
        <5>1. out[i] = IF i <= Min({size, Len(s)}) /\ SaysOne(message.mode, q, which, i) THEN 1 ELSE 0
          BY <1>13
        <5>2. QED
          BY <2>3, <5>1
      <4>3. QED
        BY ONLY <1>11, <4>1, <4>2, Zenon
    <3>2. CASE ~(i <= Len(s))
      BY <2>3, <3>2 DEF BitAt
    <3>3. CASE ~SaysOne(message.mode, q, which, i)
      <4>1. Whole => BitAt(s, i) # 1
        BY <1>5, <1>9, <2>1, <3>3
      <4>2. QED
        BY <2>3, <4>1, BitIsOneOrZero
    <3>4. QED
      BY <3>1, <3>2, <3>3
  <2>4. out[i] \in {0, 1}
    BY <1>13
  <2>5. QED
    BY <2>2, <2>3, <2>4
<1>16. QED
  BY <1>12, <1>14, <1>15 DEF Restored

LEMMA DemultiplexKeeps ==
  ASSUME MultiplexInv, Demultiplex
  PROVE  MultiplexInv'
<1>1. PICK a_size \in Capacity, b_size \in Capacity :
        outcome' = IF Broken THEN Failed
                   ELSE [result |-> Min({a_size, message.a_len}) + Min({b_size, message.b_len}),
                         a |-> Output(a_size, message.a_len, 0),
                         b |-> Output(b_size, message.b_len, 1)]
  BY DEF Demultiplex
<1>2. UNCHANGED <<g_multiplex_mode, message, c_len, original>>
  BY DEF Demultiplex
<1>3. HoldsOriginal'
  BY <1>2 DEF MultiplexInv, HoldsOriginal
<1>4. CASE Broken
  <2>1. outcome'.result = -1
    BY <1>1, <1>4 DEF Failed
  <2>2. QED
    BY <1>2, <1>3, <2>1 DEF MultiplexInv, MultiplexTypeOK, DemultiplexRestores
<1>5. CASE ~Broken
  <2>1. message.mode # 0
    <3>1. c_len \in Int /\ ~(c_len < header)
      BY <1>5 DEF MultiplexInv, MultiplexTypeOK, Broken
    <3>2. QED
      BY <3>1 DEF MultiplexInv, HoldsOriginal, header
  <2>2. /\ original.a \in Seq(Nat) /\ original.b \in Seq(Nat)
        /\ message.a_len = Len(original.a) /\ message.b_len = Len(original.b)
    BY <2>1, SourcesAreSequences DEF MultiplexInv, HoldsOriginal
  <2>3. a_size \in Nat /\ b_size \in Nat
    BY MultiplexAssumption
  <2>4. PICK oa : oa = Output(a_size, Len(original.a), 0)
    OBVIOUS
  <2>5. PICK ob : ob = Output(b_size, Len(original.b), 1)
    OBVIOUS
  <2>6. Len(oa) = a_size /\ Restored(oa, original.a)
    <3>1. original.a = Sent(original.a, original.b, 0)
      BY DEF Sent
    <3>2. QED
      BY <1>5, <2>3, <2>4, <3>1, OutputRestores
  <2>7. Len(ob) = b_size /\ Restored(ob, original.b)
    <3>1. original.b = Sent(original.a, original.b, 1)
      BY DEF Sent
    <3>2. QED
      BY <1>5, <2>3, <2>5, <3>1, OutputRestores
  <2>8. outcome' = [result |-> Min({a_size, Len(original.a)}) + Min({b_size, Len(original.b)}),
                    a |-> oa, b |-> ob]
    BY <1>1, <1>5, <2>2, <2>4, <2>5
  <2>9. outcome'.result \in Int
    <3>1. \A m, num \in Nat : Min({m, num}) \in Nat
      <4> TAKE m, num \in Nat
      <4>1. {m, num} \in SUBSET Nat /\ {m, num} # {}
        OBVIOUS
      <4>2. Min({m, num}) \in {m, num}
        BY <4>1, MinOfNaturals
      <4>3. QED
        BY <4>2
    <3>2. Len(original.a) \in Nat /\ Len(original.b) \in Nat
      BY <2>2
    <3>3. Min({a_size, Len(original.a)}) \in Nat /\ Min({b_size, Len(original.b)}) \in Nat
      BY <2>3, <3>1, <3>2, Zenon
    <3>4. QED
      BY <2>8, <3>3
  <2>10. MultiplexTypeOK'
    BY <1>2, <2>9 DEF MultiplexInv, MultiplexTypeOK
  <2>11. DemultiplexRestores'
    <3>1. outcome'.a = oa /\ outcome'.b = ob
          /\ outcome'.result = Min({Len(oa), Len(original.a)}) + Min({Len(ob), Len(original.b)})
      BY <2>6, <2>7, <2>8
    <3>2. /\ \A i \in 1..Len(oa) : oa[i] = BitAt(original.a, i) \/ (~Whole /\ oa[i] = 0)
          /\ \A i \in 1..Len(ob) : ob[i] = BitAt(original.b, i) \/ (~Whole /\ ob[i] = 0)
      BY <2>6, <2>7 DEF Restored
    <3>3. Whole' = Whole /\ original' = original
      BY <1>2 DEF Whole
    <3>4. QED
      BY <3>1, <3>2, <3>3 DEF DemultiplexRestores, Restored
  <2>12. QED
    BY <1>3, <2>10, <2>11 DEF MultiplexInv
<1>6. QED
  BY <1>4, <1>5

LEMMA SetModeKeeps ==
  ASSUME MultiplexInv, SetMode
  PROVE  MultiplexInv'
BY DEF SetMode, MultiplexInv, MultiplexTypeOK, HoldsOriginal, DemultiplexRestores, Restored, Whole

LEMMA MultiplexInitInv == MultiplexInit => MultiplexInv
<1> SUFFICES ASSUME MultiplexInit PROVE MultiplexInv
  OBVIOUS
<1>1. /\ message = NoMessage /\ message.payload = << >> /\ message.mode = 0 /\ c_len = -1
      /\ outcome.result = -1 /\ g_multiplex_mode = SYNC_TDM
  BY DEF MultiplexInit, NoMessage, Failed
<1>2. << >> \in Seq(0..Max({4, IndexBase - 1})) /\ Len(<< >>) = 0
  OBVIOUS
<1>3. MultiplexTypeOK
  BY <1>1, <1>2 DEF MultiplexTypeOK, STAT_TDM, SYNC_TDM, CDM, header
<1>4. QED
  BY <1>1, <1>3 DEF MultiplexInv, HoldsOriginal, DemultiplexRestores

LEMMA MultiplexStepInv == MultiplexInv /\ [MultiplexNext]_multiplexVars => MultiplexInv'
<1>1. MultiplexInv /\ UNCHANGED multiplexVars => MultiplexInv'
  BY DEF multiplexVars, MultiplexInv, MultiplexTypeOK, HoldsOriginal, DemultiplexRestores,
         Restored, Whole
<1>2. QED
  BY <1>1, SetModeKeeps, DoMultiplexKeeps, CutShortKeeps, DemultiplexKeeps DEF MultiplexNext

(* Whatever two sequences are multiplexed in whatever mode, what comes out *)
(* of demultiplex is what went in, or zeroes where a message was cut short. *)
THEOREM MultiplexRestores == MultiplexSpec => []MultiplexTypeOK /\ []DemultiplexRestores
<1>1. MultiplexInv => MultiplexTypeOK /\ DemultiplexRestores
  BY DEF MultiplexInv
<1>2. QED
  BY <1>1, MultiplexInitInv, MultiplexStepInv, PTL DEF MultiplexSpec

-----------------------------------------------------------------------------
(* The tools of Tools.tla: what a call returns, tool by tool.              *)

(* One wrong bit makes one more or one fewer that is not zero.             *)
LEMMA ParityNoticesOneBit ==
  ASSUME NEW m \in Nat, NEW msg \in [1..m -> Nat], NEW i \in 1..m
  PROVE  parity_check(Flip(msg, i)) = ~parity_check(msg)
<1> DEFINE Set(s) == {j \in DOMAIN s : s[j] # 0}
<1>1. IsFiniteSet(Set(msg)) /\ Cardinality(Set(msg)) \in Nat
  <2>1. Set(msg) \subseteq 1..m /\ IsFiniteSet(1..m)
    BY FS_Interval
  <2>2. QED
    BY <2>1, FS_Subset, FS_CardinalityType
<1>2. PICK flipped \in [1..m -> Nat] :
        flipped = Flip(msg, i) /\ flipped[i] = (IF msg[i] = 0 THEN 1 ELSE 0)
          /\ \A j \in 1..m : j # i => flipped[j] = msg[j]
  <2>1. PICK bit \in Nat : bit = IF msg[i] = 0 THEN 1 ELSE 0
    OBVIOUS
  <2>2. Flip(msg, i) = [msg EXCEPT ![i] = bit]
    BY <2>1 DEF Flip
  <2>3. QED
    BY <2>1, <2>2
<1>3. /\ parity_check(msg) <=> Cardinality(Set(msg)) % 2 = 0
      /\ parity_check(Flip(msg, i)) <=> Cardinality(Set(flipped)) % 2 = 0
  <2>1. msg # << >> /\ flipped # << >>
    OBVIOUS
  <2>2. QED
    BY <1>2, <2>1 DEF parity_check, count_ones
<1>4. ASSUME msg[i] = 0
      PROVE  parity_check(Flip(msg, i)) <=> ~parity_check(msg)
  <2>1. Set(flipped) = Set(msg) \cup {i} /\ i \notin Set(msg)
    BY <1>2, <1>4
  <2>2. Cardinality(Set(flipped)) = Cardinality(Set(msg)) + 1
    BY <1>1, <2>1, FS_AddElement
  <2>3. (Cardinality(Set(msg)) + 1) % 2 = 0 <=> ~(Cardinality(Set(msg)) % 2 = 0)
    BY <1>1
  <2>4. QED
    BY <1>3, <2>2, <2>3
<1>5. ASSUME msg[i] # 0
      PROVE  parity_check(Flip(msg, i)) <=> ~parity_check(msg)
  <2>1. Set(flipped) = Set(msg) \ {i} /\ i \in Set(msg)
    BY <1>2, <1>5
  <2>2. Cardinality(Set(flipped)) = Cardinality(Set(msg)) - 1
    BY <1>1, <2>1, FS_RemoveElement
  <2>3. (Cardinality(Set(msg)) - 1) % 2 = 0 <=> ~(Cardinality(Set(msg)) % 2 = 0)
    BY <1>1
  <2>4. QED
    BY <1>3, <2>2, <2>3
<1>6. parity_check(Flip(msg, i)) \in BOOLEAN /\ parity_check(msg) \in BOOLEAN
  BY DEF parity_check
<1>7. (parity_check(Flip(msg, i)) <=> ~parity_check(msg)) => parity_check(Flip(msg, i)) = ~parity_check(msg)
  BY ONLY <1>6
<1>8. QED
  BY <1>4, <1>5, <1>7

LEMMA CallParityAgrees ==
  ASSUME CallParity
  PROVE  ToolsAgree'
<1>1. PICK msg \in SeqOf({0, 1, 7}, MaxBits) :
        call' = [of |-> "parity", msg |-> msg, returned |-> parity_check(msg)]
  BY DEF CallParity
<1>2. PICK m \in 0..MaxBits : msg \in [1..m -> Nat]
  BY <1>1 DEF SeqOf
<1>3. \A i \in DOMAIN msg : parity_check(Flip(msg, i)) = ~parity_check(msg)
  BY <1>2, ToolsAssumption, ParityNoticesOneBit
<1>4. QED
  BY <1>1, <1>3 DEF ToolsAgree

(* The two addresses taken besides those with an odd first octet: its own, *)
(* and the broadcast address, whose first octet is odd.                    *)
LEMMA CallMacAgrees ==
  ASSUME CallMac
  PROVE  ToolsAgree'
<1>1. PICK like \in {this_mac_address, broadcast}, i \in 1..6, octet \in {0, 17, 85, 254, 255} :
        LET dest == [like EXCEPT ![i] = octet]
        IN  call' = [of |-> "mac", dest |-> dest, returned |-> mac_address_match(dest)]
  BY DEF CallMac
<1> DEFINE dest == [like EXCEPT ![i] = octet]
<1>2. dest[1] \in 0..255
  BY <1>1 DEF this_mac_address, broadcast
<1>3. dest = broadcast => dest[1] = 255
  BY DEF broadcast
<1>4. dest[1] % 2 = 1 <=> dest[1] \notin {2 * k : k \in 0..127}
  <2>1. ASSUME dest[1] % 2 # 1
        PROVE  \E k \in 0..127 : dest[1] = 2 * k
    <3>1. dest[1] \div 2 \in 0..127 /\ dest[1] = 2 * (dest[1] \div 2)
      BY <1>2, <2>1
    <3>2. QED
      BY <3>1
  <2>2. QED
    BY <1>2, <2>1
<1>5. ~mac_address_match(dest) <=> dest # this_mac_address /\ dest[1] \in {2 * k : k \in 0..127}
  BY <1>3, <1>4 DEF mac_address_match, is_multicast
<1>6. QED
  BY <1>1, <1>5 DEF ToolsAgree


LEMMA PowersOfTwo ==
  /\ 2 ^ 0 = 1 /\ 2 ^ 1 = 2 /\ 2 ^ 2 = 4 /\ 2 ^ 3 = 8 /\ 2 ^ 4 = 16 /\ 2 ^ 5 = 32
  /\ 2 ^ 6 = 64 /\ 2 ^ 7 = 128
OBVIOUS

Power(b) == IF b = 0 THEN 1 ELSE IF b = 1 THEN 2 ELSE IF b = 2 THEN 4 ELSE IF b = 3 THEN 8
            ELSE IF b = 4 THEN 16 ELSE IF b = 5 THEN 32 ELSE IF b = 6 THEN 64 ELSE 128

LEMMA PowerIs ==
  ASSUME NEW b \in 0..7
  PROVE  \E p \in Nat \ {0} : p = 2 ^ b /\ p = Power(b)
<1>1. /\ b = 0 => 2 ^ b = 1
      /\ b = 1 => 2 ^ b = 2
      /\ b = 2 => 2 ^ b = 4
      /\ b = 3 => 2 ^ b = 8
      /\ b = 4 => 2 ^ b = 16
      /\ b = 5 => 2 ^ b = 32
      /\ b = 6 => 2 ^ b = 64
      /\ b = 7 => 2 ^ b = 128
  BY PowersOfTwo, Zenon
<1>2. b = 0 \/ b = 1 \/ b = 2 \/ b = 3 \/ b = 4 \/ b = 5 \/ b = 6 \/ b = 7
  OBVIOUS
<1>3. PICK p : p = 2 ^ b
  OBVIOUS
<1>4. p = Power(b)
  <2>1. b = 0 => p = 1
    BY ONLY <1>1, <1>3, Zenon
  <2>2. b = 1 => p = 2
    BY ONLY <1>1, <1>3, Zenon
  <2>3. b = 2 => p = 4
    BY ONLY <1>1, <1>3, Zenon
  <2>4. b = 3 => p = 8
    BY ONLY <1>1, <1>3, Zenon
  <2>5. b = 4 => p = 16
    BY ONLY <1>1, <1>3, Zenon
  <2>6. b = 5 => p = 32
    BY ONLY <1>1, <1>3, Zenon
  <2>7. b = 6 => p = 64
    BY ONLY <1>1, <1>3, Zenon
  <2>8. b = 7 => p = 128
    BY ONLY <1>1, <1>3, Zenon
  <2>9. QED
    BY ONLY <1>2, <2>1, <2>2, <2>3, <2>4, <2>5, <2>6, <2>7, <2>8 DEF Power
<1>5. Power(b) \in Nat \ {0}
  BY DEF Power
<1>6. QED
  BY <1>3, <1>4, <1>5, Zenon

LEMMA BitOf ==
  ASSUME NEW o \in 0..255
  PROVE  /\ 0 \in Bits(o) <=> o % 2 = 1
         /\ 1 \in Bits(o) <=> (o \div 2) % 2 = 1
         /\ 2 \in Bits(o) <=> (o \div 4) % 2 = 1
         /\ 3 \in Bits(o) <=> (o \div 8) % 2 = 1
         /\ 4 \in Bits(o) <=> (o \div 16) % 2 = 1
         /\ 5 \in Bits(o) <=> (o \div 32) % 2 = 1
         /\ 6 \in Bits(o) <=> (o \div 64) % 2 = 1
         /\ 7 \in Bits(o) <=> o >= 128
         /\ Bits(o) \subseteq {0, 1, 2, 3, 4, 5, 6, 7}
<1>1. o \div 1 = o /\ ((o \div 128) % 2 = 1 <=> o >= 128)
  OBVIOUS
<1>2. QED
  BY <1>1, PowersOfTwo DEF Bits

(* The masks of the classes have their ones in front.                      *)
LEMMA ClassMasks ==
  Bits(128) = {7} /\ Bits(192) = {6, 7} /\ Bits(224) = {5, 6, 7} /\ Bits(240) = {4, 5, 6, 7}
<1>1. Bits(128) = {7}
  <2>1. QED
    BY BitOf
<1>2. Bits(192) = {6, 7}
  BY BitOf
<1>3. Bits(224) = {5, 6, 7}
  BY BitOf
<1>4. Bits(240) = {4, 5, 6, 7}
  BY BitOf
<1>5. QED
  BY <1>1, <1>2, <1>3, <1>4

LEMMA ClassOf ==
  ASSUME NEW first \in 0..255
  PROVE  classwise(first) = IF first < 128 THEN 0 ELSE IF first < 192 THEN 1
                            ELSE IF first < 224 THEN 2 ELSE IF first < 240 THEN 3 ELSE 4
<1>1. Masked(first, 128) = {} <=> first < 128
  BY BitOf, ClassMasks DEF Masked
<1>2. Masked(first, 192) = Bits(128) <=> first >= 128 /\ first < 192
  <2>1. first >= 128 => (6 \in Bits(first) <=> first >= 192)
    BY BitOf
  <2>2. QED
    BY <2>1, BitOf, ClassMasks DEF Masked
<1>3. Masked(first, 224) = Bits(192) <=> first >= 192 /\ first < 224
  <2>1. first >= 128 => (6 \in Bits(first) <=> first >= 192)
    BY BitOf
  <2>2. first >= 192 => (5 \in Bits(first) <=> first >= 224)
    BY BitOf
  <2>3. QED
    BY <2>1, <2>2, BitOf, ClassMasks DEF Masked
<1>4. Masked(first, 240) = Bits(224) <=> first >= 224 /\ first < 240
  <2>1. first >= 128 => (6 \in Bits(first) <=> first >= 192)
    BY BitOf
  <2>2. first >= 192 => (5 \in Bits(first) <=> first >= 224)
    BY BitOf
  <2>3. first >= 224 => (4 \in Bits(first) <=> first >= 240)
    BY BitOf
  <2>4. QED
    BY <2>1, <2>2, <2>3, BitOf, ClassMasks DEF Masked
<1>5. QED
  BY <1>1, <1>2, <1>3, <1>4 DEF classwise

LEMMA CallClassAgrees ==
  ASSUME CallClass
  PROVE  ToolsAgree'
<1>1. PICK first \in 0..255 : call' = [of |-> "class", first |-> first, returned |-> classwise(first)]
  BY DEF CallClass
<1> DEFINE Passed == {edge \in {128, 192, 224, 240} : first >= edge}
           One == {} \cup {128}
           Two == One \cup {192}
           Three == Two \cup {224}
           Four == Three \cup {240}
<1>2. IsFiniteSet(One) /\ Cardinality(One) = 1
  BY FS_EmptySet, FS_AddElement
<1>3. IsFiniteSet(Two) /\ Cardinality(Two) = 2
  BY <1>2, FS_AddElement
<1>4. IsFiniteSet(Three) /\ Cardinality(Three) = 3
  BY <1>3, FS_AddElement
<1>5. IsFiniteSet(Four) /\ Cardinality(Four) = 4
  BY <1>4, FS_AddElement
<1>6. Passed = IF first < 128 THEN {} ELSE IF first < 192 THEN One
               ELSE IF first < 224 THEN Two ELSE IF first < 240 THEN Three ELSE Four
  OBVIOUS
<1> HIDE DEF Passed, One, Two, Three, Four
<1>7. classwise(first) = Cardinality(Passed)
  BY <1>2, <1>3, <1>4, <1>5, <1>6, ClassOf, FS_EmptySet
<1>8. QED
  BY <1>1, <1>7 DEF ToolsAgree, Passed

(* The fourth pack of build_ntp_reply has four values for six fields.      *)
LEMMA CallNtpAgrees ==
  ASSUME CallNtp
  PROVE  ToolsAgree'
BY DEF CallNtp, ToolsAgree

(* Bit b of octet i is bit 8 * i - b of an address, and every bit of an    *)
(* address is one of an octet.                                             *)
LEMMA NetBitIsBit ==
  ASSUME NEW ip \in [1..4 -> 0..255], NEW i \in 1..4, NEW b \in 0..7
  PROVE  NetBit(ip, 8 * i - b) \in {0, 1} /\ (NetBit(ip, 8 * i - b) = 1 <=> b \in Bits(ip[i]))
<1>1. (8 * i - b - 1) \div 8 + 1 = i /\ 7 - ((8 * i - b - 1) % 8) = b
  OBVIOUS
<1>2. PICK p \in Nat \ {0} : p = 2 ^ b
  BY PowerIs, Zenon
<1>3. PICK o \in 0..255 : o = ip[i]
  OBVIOUS
<1>4. (o \div p) % 2 \in {0, 1}
  <2>1. o \div p \in Int
    BY <1>2
  <2>2. QED
    BY <2>1
<1>5. NetBit(ip, 8 * i - b) = (o \div p) % 2
  BY <1>1, <1>2, <1>3 DEF NetBit
<1>6. b \in Bits(o) <=> (o \div p) % 2 = 1
  BY <1>2 DEF Bits
<1>7. QED
  BY <1>3, <1>4, <1>5, <1>6

LEMMA EveryBitHasAPlace ==
  ASSUME NEW k \in 1..32
  PROVE  \E i \in 1..4, b \in 0..7 : k = 8 * i - b
<1>1. (k + 7) \div 8 \in 1..4 /\ 8 * ((k + 7) \div 8) - k \in 0..7
  OBVIOUS
<1>2. k = 8 * ((k + 7) \div 8) - (8 * ((k + 7) \div 8) - k)
  OBVIOUS
<1>3. QED
  BY <1>1, <1>2

(* The mask has ones for the first n bits of an address.                   *)
LEMMA LeadingOnes ==
  ASSUME NEW c \in 1..7, NEW b \in 0..7
  PROVE  b \in Bits(256 - 2 ^ c) <=> b >= c
<1>1. PICK p : p = 2 ^ c /\ p = Power(c)
  <2>1. c \in 0..7
    OBVIOUS
  <2>2. QED
    BY <2>1, PowerIs, Zenon
<1>2. PICK o : o = 256 - 2 ^ c /\ o = 256 - p
  BY <1>1, Zenon
<1>3. o = IF c = 1 THEN 254 ELSE IF c = 2 THEN 252 ELSE IF c = 3 THEN 248 ELSE IF c = 4 THEN 240
          ELSE IF c = 5 THEN 224 ELSE IF c = 6 THEN 192 ELSE 128
  BY ONLY <1>1, <1>2, c \in 1..7 DEF Power
<1>4. b \in Bits(o) <=> b >= c
  BY ONLY <1>3, b \in 0..7, c \in 1..7, BitOf
<1>5. QED
  BY <1>2, <1>4, Zenon

LEMMA MaskBits ==
  ASSUME NEW num \in 0..32, NEW i \in 1..4, NEW b \in 0..7
  PROVE  b \in Bits(MaskOf(num)[i]) <=> 8 * i - b <= num
<1>1. CASE num >= 8 * i
  <2>1. MaskOf(num)[i] = 255
    BY <1>1 DEF MaskOf
  <2>2. b \in Bits(255)
    BY BitOf
  <2>3. QED
    BY <1>1, <2>1, <2>2
<1>2. CASE num <= 8 * (i - 1)
  <2>1. MaskOf(num)[i] = 0
    BY <1>2 DEF MaskOf
  <2>2. b \notin Bits(0)
    BY BitOf
  <2>3. QED
    BY <1>2, <2>1, <2>2
<1>3. CASE num < 8 * i /\ num > 8 * (i - 1)
  <2>1. PICK c \in 1..7 : c = 8 * i - num
    BY <1>3
  <2>2. MaskOf(num)[i] = 256 - 2 ^ c
    BY <1>3, <2>1 DEF MaskOf
  <2>3. b >= c <=> 8 * i - b <= num
    BY <2>1
  <2>4. QED
    BY <2>2, <2>3, LeadingOnes
<1>4. QED
  BY <1>1, <1>2, <1>3

LEMMA NetIsItsBits ==
  ASSUME NEW ip \in [1..4 -> 0..255], NEW netip \in [1..4 -> 0..255], NEW num \in 0..32
  PROVE  is_in_net(ip, netip, MaskOf(num)) <=> \A k \in 1..num : NetBit(ip, k) = NetBit(netip, k)
<1> DEFINE Same(i, b) == b \in Bits(ip[i]) <=> b \in Bits(netip[i])
<1>1. \A o : Bits(o) \subseteq 0..7
  BY DEF Bits
<1>2. is_in_net(ip, netip, MaskOf(num)) <=>
        \A i \in 1..4 : \A b \in 0..7 : b \in Bits(MaskOf(num)[i]) => Same(i, b)
  <2>1. ASSUME NEW i \in 1..4
        PROVE  Masked(ip[i], MaskOf(num)[i]) = Masked(netip[i], MaskOf(num)[i]) <=>
                 \A b \in 0..7 : b \in Bits(MaskOf(num)[i]) => Same(i, b)
    BY <1>1 DEF Masked
  <2>2. QED
    BY <2>1 DEF is_in_net
<1>3. \A i \in 1..4, b \in 0..7 : Same(i, b) <=> NetBit(ip, 8 * i - b) = NetBit(netip, 8 * i - b)
  BY NetBitIsBit
<1> HIDE DEF Same
<1>4. ASSUME NEW k \in 1..num, \A i \in 1..4 : \A b \in 0..7 : 8 * i - b <= num => Same(i, b)
      PROVE  NetBit(ip, k) = NetBit(netip, k)
  <2>1. PICK i \in 1..4, b \in 0..7 : k = 8 * i - b
    BY EveryBitHasAPlace
  <2>2. QED
    BY <1>3, <1>4, <2>1
<1>5. ASSUME NEW i \in 1..4, NEW b \in 0..7, 8 * i - b <= num,
             \A k \in 1..num : NetBit(ip, k) = NetBit(netip, k)
      PROVE  Same(i, b)
  <2>1. 8 * i - b \in 1..num
    BY <1>5
  <2>2. QED
    BY <1>3, <1>5, <2>1
<1>6. \A i \in 1..4, b \in 0..7 : b \in Bits(MaskOf(num)[i]) <=> 8 * i - b <= num
  BY MaskBits
<1>7. QED
  BY <1>2, <1>4, <1>5, <1>6

LEMMA CallNetAgrees ==
  ASSUME CallNet
  PROVE  ToolsAgree'
<1>1. PICK ip \in Quad, netip \in Quad, num \in 0..32 :
        call' = [of |-> "net", ip |-> ip, netip |-> netip, n |-> num,
                 returned |-> is_in_net(ip, netip, MaskOf(num))]
  BY DEF CallNet
<1>2. is_in_net(ip, netip, MaskOf(num)) <=> \A k \in 1..num : NetBit(ip, k) = NetBit(netip, k)
  BY ToolsAssumption, NetIsItsBits
<1>3. QED
  BY <1>1, <1>2 DEF ToolsAgree


(* homework9/icmp_ping.cpp, icmp_checksum: the sum is a table made byte by *)
(* byte.                                                                   *)
Summand(buf, k) == buf[k] * (IF k % 2 = 1 THEN 1 ELSE ByteBase)
SumTable(buf, m, t) == t = [k \in 0..m |-> IF k = 0 THEN 0 ELSE t[k - 1] + Summand(buf, k)]

LEMMA SumTableExists ==
  ASSUME NEW m \in Nat, NEW buf
  PROVE  \E t : SumTable(buf, m, t)
<1> DEFINE Long == {k \in 0..m : \E t : SumTable(buf, k, t)}
<1>1. 0 \in Long
  <2>1. SumTable(buf, 0, [k \in 0..0 |-> 0])
    BY DEF SumTable
  <2>2. QED
    BY <2>1
<1>2. ASSUME NEW k \in 1..m, k - 1 \in Long
      PROVE  k \in Long
  <2>1. PICK t : SumTable(buf, k - 1, t)
    BY <1>2
  <2>2. \A j \in 0..(k - 1) : t[j] = IF j = 0 THEN 0 ELSE t[j - 1] + Summand(buf, j)
    BY <2>1 DEF SumTable
  <2>3. PICK u : u = [j \in 0..k |-> IF j = k THEN t[k - 1] + Summand(buf, k) ELSE t[j]]
    OBVIOUS
  <2>4. ASSUME NEW j \in 0..k
        PROVE  u[j] = IF j = 0 THEN 0 ELSE u[j - 1] + Summand(buf, j)
    <3>1. CASE j = k
      <4>1. k - 1 \in 0..k /\ k - 1 # k /\ k # 0
        OBVIOUS
      <4>2. u[k - 1] = t[k - 1] /\ u[k] = t[k - 1] + Summand(buf, k)
        BY <2>3, <4>1
      <4>3. QED
        BY <3>1, <4>1, <4>2
    <3>2. CASE j # k
      <4>1. j \in 0..(k - 1) /\ (j # 0 => j - 1 \in 0..k /\ j - 1 # k)
        BY <3>2
      <4>2. u[j] = t[j] /\ (j # 0 => u[j - 1] = t[j - 1])
        BY <2>3, <3>2, <4>1
      <4>3. QED
        BY <2>2, <4>1, <4>2
    <3>3. QED
      BY <3>1, <3>2
  <2>5. u = [j \in 0..k |-> u[j]]
    BY <2>3
  <2>6. SumTable(buf, k, u)
    BY <2>4, <2>5 DEF SumTable
  <2>7. QED
    BY <2>6
<1>3. Long = 0..m
  <2> HIDE DEF Long
  <2>1. Long \in SUBSET (0..m)
    BY DEF Long
  <2>2. QED
    BY <1>1, <1>2, <2>1, CountingUp
<1>4. QED
  BY <1>3

LEMMA SumIsLastRow ==
  ASSUME NEW buf, Len(buf) \in Nat
  PROVE  \E t : /\ t[0] = 0
                /\ \A k \in 1..Len(buf) : t[k] = t[k - 1] + Summand(buf, k)
                /\ SumOfWords(buf) = t[Len(buf)]
<1>1. PICK t : SumTable(buf, Len(buf), t) /\ SumOfWords(buf) = t[Len(buf)]
  <2>1. \E t : SumTable(buf, Len(buf), t)
    BY SumTableExists
  <2>2. SumOfWords(buf) = (CHOOSE t : SumTable(buf, Len(buf), t))[Len(buf)]
    BY DEF SumOfWords, SumTable, Summand
  <2>3. QED
    BY <2>1, <2>2
<1>2. \A k \in 0..Len(buf) : t[k] = IF k = 0 THEN 0 ELSE t[k - 1] + Summand(buf, k)
  BY <1>1 DEF SumTable
<1>3. QED
  BY <1>1, <1>2

LEMMA WordIs ==
  /\ ByteBase \in Nat /\ ByteBase >= 2 /\ Word \in Nat /\ Word >= 4 /\ ByteBase <= Word
  /\ (ByteBase - 1) + (ByteBase - 1) * ByteBase = Word - 1
<1>1. PICK b \in Nat : b = ByteBase /\ b >= 2
  BY ToolsAssumption
<1>2. b * b \in Nat /\ b * b >= 2 * b /\ (b - 1) + (b - 1) * b = b * b - 1
  BY <1>1
<1>3. QED
  BY <1>1, <1>2 DEF Word

(* Every two bytes add at most the greatest word, so that the sum of no    *)
(* more bytes than Word words have is less than Word words.                *)
LEMMA SumBounded ==
  ASSUME NEW buf \in Seq(0..(ByteBase - 1)), Len(buf) <= 2 * Word
  PROVE  SumOfWords(buf) \in 0..(Word * (Word - 1))
<1>1. PICK t : /\ t[0] = 0
               /\ \A k \in 1..Len(buf) : t[k] = t[k - 1] + Summand(buf, k)
               /\ SumOfWords(buf) = t[Len(buf)]
  BY SumIsLastRow
<1>2. PICK w \in Nat, b \in Nat : /\ w = Word /\ b = ByteBase /\ w >= 4 /\ b >= 2 /\ b <= w
                                  /\ (b - 1) + (b - 1) * b = w - 1
  BY WordIs
<1>3. PICK half \in Nat : half = Len(buf) \div 2
  OBVIOUS
<1>4. ASSUME NEW k \in 1..Len(buf)
      PROVE  /\ k % 2 = 1 => Summand(buf, k) \in 0..(b - 1)
             /\ k % 2 = 0 => Summand(buf, k) \in 0..((b - 1) * b)
  <2>1. PICK byte \in 0..(b - 1) : byte = buf[k]
    BY <1>2
  <2>2. byte * b \in 0..((b - 1) * b)
    BY <1>2
  <2>3. QED
    BY <1>2, <2>1, <2>2 DEF Summand
<1> DEFINE Small == {h \in 0..half : t[2 * h] \in 0..(h * (w - 1))}
<1>5. 0 \in Small
  BY <1>1
<1>6. ASSUME NEW h \in 1..half, h - 1 \in Small
      PROVE  h \in Small
  <2>1. 2 * h - 1 \in 1..Len(buf) /\ 2 * h \in 1..Len(buf) /\ (2 * h - 1) % 2 = 1 /\ (2 * h) % 2 = 0
    BY <1>3
  <2>2. PICK before \in Nat : before = t[2 * (h - 1)] /\ before <= (h - 1) * (w - 1)
    BY <1>6
  <2>3. PICK low \in 0..(b - 1), high \in 0..((b - 1) * b) :
          low = Summand(buf, 2 * h - 1) /\ high = Summand(buf, 2 * h)
    BY <1>4, <2>1
  <2>4. t[2 * h - 1] = before + low
    <3>1. (2 * h - 1) - 1 = 2 * (h - 1)
      OBVIOUS
    <3>2. QED
      BY <1>1, <2>1, <2>2, <2>3, <3>1
  <2>5. t[2 * h] = before + low + high
    BY <1>1, <2>1, <2>3, <2>4
  <2>6. low + high <= w - 1
    BY <1>2
  <2>7. (h - 1) * (w - 1) + (w - 1) = h * (w - 1)
    BY <1>2
  <2>8. before + low + high \in 0..(h * (w - 1))
    <3>1. PICK most \in Int : most = h * (w - 1)
      BY <1>2
    <3>2. PICK less \in Int : less = (h - 1) * (w - 1) /\ less + (w - 1) = most
      BY <2>7, <3>1
    <3>3. low \in Nat /\ high \in Nat
      BY <1>2
    <3>4. before + low + high \in 0..most
      BY ONLY <1>2, <2>2, <2>6, <3>1, <3>2, <3>3
    <3>5. QED
      BY <3>1, <3>4
  <2>9. QED
    BY <2>5, <2>8
<1>7. t[2 * half] \in 0..(half * (w - 1))
  <2>1. Small \in SUBSET (0..half)
    OBVIOUS
  <2>2. half \in Small
    <3> HIDE DEF Small
    <3>1. QED
      BY <1>5, <1>6, <2>1, CountingUp
  <2>3. QED
    BY <2>2
<1>8. CASE Len(buf) = 2 * half
  <2>1. half <= w /\ half * (w - 1) <= w * (w - 1)
    BY <1>2, <1>8
  <2>2. QED
    BY <1>1, <1>2, <1>7, <1>8, <2>1
<1>9. CASE Len(buf) = 2 * half + 1
  <2>1. half <= w - 1 /\ half * (w - 1) <= (w - 1) * (w - 1)
    BY <1>2, <1>9
  <2>2. (w - 1) * (w - 1) + (w - 1) = w * (w - 1)
    BY <1>2
  <2>3. PICK last \in 0..(b - 1) : last = Summand(buf, Len(buf))
    BY <1>4, <1>9
  <2>4. t[Len(buf)] = t[2 * half] + last
    BY <1>1, <1>9, <2>3
  <2>5. QED
    BY <1>1, <1>2, <1>7, <2>1, <2>2, <2>3, <2>4
<1>10. QED
  BY <1>3, <1>8, <1>9

LEMMA MultipleOf ==
  ASSUME NEW d \in Nat \ {0}, NEW j \in Nat
  PROVE  (d * j) % d = 0
<1>1. PICK q \in Int, r \in 0..(d - 1) : d * j = d * q + r /\ r = (d * j) % d
  OBVIOUS
<1>2. d * (j - q) = r
  BY <1>1
<1>3. j - q >= 1 => d * (j - q) >= d
  OBVIOUS
<1>4. j - q <= -1 => d * (j - q) <= -d
  OBVIOUS
<1>5. QED
  BY <1>1, <1>2, <1>3, <1>4

(* Folding takes away multiples of w - 1, and twice is enough.             *)
LEMMA FoldedTwice ==
  ASSUME NEW w \in Nat, w >= 4, NEW s \in 0..(w * (w - 1)),
         NEW once, once = (s \div w) + (s % w),
         NEW given, given = w - 1 - ((once + (once \div w)) % w)
  PROVE  given \in 0..(w - 1) /\ (s + given) % (w - 1) = 0
<1>1. PICK q \in Int, r \in 0..(w - 1) : q = s \div w /\ r = s % w /\ s = w * q + r
  OBVIOUS
<1>2. q \in 0..(w - 1)
  <2>1. q >= 0
    BY <1>1
  <2>2. q >= w => w * q >= w * w
    BY <1>1
  <2>3. w * w > w * (w - 1)
    OBVIOUS
  <2>4. QED
    BY <1>1, <2>1, <2>2, <2>3
<1>3. once = q + r /\ once \in 0..(2 * w - 2)
  BY <1>1, <1>2
<1>4. PICK e \in {0, 1} : /\ e = once \div w
                         /\ (once + e) % w = once - e * (w - 1)
                         /\ once - e * (w - 1) \in 0..(w - 1)
  <2>1. CASE once < w
    <3>1. once \div w = 0 /\ (once + 0) % w = once /\ once - 0 * (w - 1) = once
      BY <1>3, <2>1
    <3>2. QED
      BY <1>3, <2>1, <3>1
  <2>2. CASE once >= w
    <3>1. once \div w = 1
      BY <1>3, <2>2
    <3>2. (once + 1) % w = once + 1 - w
      BY <1>3, <2>2
    <3>3. once - 1 * (w - 1) = once + 1 - w /\ once + 1 - w \in 0..(w - 1)
      BY <1>3, <2>2
    <3>4. QED
      BY <3>1, <3>2, <3>3
  <2>3. QED
    BY <1>3, <2>1, <2>2
<1>5. given = w - 1 - (once - e * (w - 1)) /\ once - e * (w - 1) \in 0..(w - 1)
  <2>1. given = w - 1 - ((once + e) % w)
    BY <1>4
  <2>2. QED
    BY <1>4, <2>1
<1>6. s + given = (w - 1) * (q + 1 + e)
  <2>1. e * (w - 1) = (w - 1) * e
    OBVIOUS
  <2>2. (w - 1) * (q + 1 + e) = w * q - q + (w - 1) + (w - 1) * e
    BY <1>2
  <2>3. QED
    BY <1>1, <1>2, <1>3, <1>5, <2>1, <2>2
<1>7. ((w - 1) * (q + 1 + e)) % (w - 1) = 0
  <2>1. w - 1 \in Nat \ {0} /\ q + 1 + e \in Nat
    BY <1>2
  <2>2. QED
    BY <2>1, MultipleOf
<1>8. QED
  BY <1>5, <1>6, <1>7

LEMMA CallChecksumAgrees ==
  ASSUME CallChecksum
  PROVE  ToolsAgree'
<1>1. PICK buf \in SeqOf(0..(ByteBase - 1), 2 * Word) :
        call' = [of |-> "checksum", buf |-> buf, returned |-> icmp_checksum(buf)]
  BY DEF CallChecksum
<1>2. buf \in Seq(0..(ByteBase - 1)) /\ Len(buf) <= 2 * Word
  <2>1. PICK m \in 0..(2 * Word) : buf \in [1..m -> 0..(ByteBase - 1)]
    BY <1>1 DEF SeqOf
  <2>2. m \in Nat
    BY WordIs
  <2>3. QED
    BY <2>1, <2>2, WordIs
<1>3. PICK s : s = SumOfWords(buf) /\ s \in 0..(Word * (Word - 1))
  BY <1>2, SumBounded
<1>4. PICK given : given = icmp_checksum(buf)
  OBVIOUS
<1>5. given \in 0..(Word - 1) /\ (s + given) % (Word - 1) = 0
  BY <1>3, <1>4, WordIs, FoldedTwice DEF icmp_checksum, FoldCarry
<1>6. QED
  BY <1>1, <1>3, <1>4, <1>5 DEF ToolsAgree


(* homework1/solution.py: a channel off by at most 127 is nearer to what   *)
(* was shown than to the other value.                                      *)
LEMMA ChannelIsNearest ==
  ASSUME NEW u \in {0, 255}, NEW y \in {0, 255}, NEW shift \in {1, 127}, NEW z \in Int,
         z = u \/ z = IF u = 0 THEN shift ELSE 255 - shift
  PROVE  /\ Square(z - u) \in Nat /\ Square(z - y) \in Nat
         /\ Square(z - u) <= Square(z - y)
         /\ u # y => Square(z - u) < Square(z - y)
<1>1. z \in {0, 1, 127, 128, 254, 255}
  OBVIOUS
<1>2. CASE u = 0
  BY <1>1, <1>2 DEF Square
<1>3. CASE u = 255
  BY <1>1, <1>3 DEF Square
<1>4. QED
  BY <1>2, <1>3

Colour == {0, 255} \X {0, 255} \X {0, 255}

LEMMA ShownIsNearest ==
  ASSUME NEW c \in Colour, NEW d \in Colour, c # d, NEW off \in SUBSET (1..3), NEW shift \in {1, 127}
  PROVE  LET seen == Seen(c, off, shift)
         IN  /\ Distance(seen, c) \in Nat /\ Distance(seen, d) \in Nat
             /\ Distance(seen, c) < Distance(seen, d)
<1> DEFINE seen == Seen(c, off, shift)
<1>1. \A i \in 1..3 : seen[i] \in Int /\ c[i] \in {0, 255} /\ d[i] \in {0, 255}
                        /\ (seen[i] = c[i] \/ seen[i] = IF c[i] = 0 THEN shift ELSE 255 - shift)
  BY DEF Seen, Colour
<1>2. c[1] # d[1] \/ c[2] # d[2] \/ c[3] # d[3]
  BY DEF Colour
<1> HIDE DEF seen
<1>3. \A i \in 1..3 : /\ Square(seen[i] - c[i]) \in Nat /\ Square(seen[i] - d[i]) \in Nat
                      /\ Square(seen[i] - c[i]) <= Square(seen[i] - d[i])
                      /\ c[i] # d[i] => Square(seen[i] - c[i]) < Square(seen[i] - d[i])
  BY <1>1, ChannelIsNearest
<1>4. Distance(seen, c) \in Nat /\ Distance(seen, d) \in Nat /\ Distance(seen, c) < Distance(seen, d)
  BY <1>2, <1>3 DEF Distance
<1>5. QED
  BY <1>4 DEF seen

LEMMA PalettesAreColours ==
  ASSUME NEW mode \in {"binary", "octal"}
  PROVE  \A m \in DOMAIN Palette(mode) :
           /\ Palette(mode)[m] \in Colour
           /\ \A k \in DOMAIN Palette(mode) : k # m => Palette(mode)[k] # Palette(mode)[m]
<1>1. CASE mode = "binary"
  <2>1. Palette(mode) = binary_palette /\ DOMAIN binary_palette = 0..1
    BY <1>1 DEF Palette, binary_palette
  <2>2. binary_palette[0] = <<255, 255, 255>> /\ binary_palette[1] = <<0, 0, 0>>
    BY DEF binary_palette
  <2>3. \A m \in 0..1 : m = 0 \/ m = 1
    OBVIOUS
  <2>4. QED
    BY <2>1, <2>2, <2>3 DEF Colour
<1>2. CASE mode = "octal"
  <2>1. Palette(mode) = octal_palette /\ DOMAIN octal_palette = 0..7
    BY <1>2 DEF Palette, octal_palette
  <2>2. /\ octal_palette[0] = <<0, 0, 0>> /\ octal_palette[1] = <<255, 255, 255>>
        /\ octal_palette[2] = <<0, 0, 255>> /\ octal_palette[3] = <<255, 0, 0>>
        /\ octal_palette[4] = <<0, 255, 0>> /\ octal_palette[5] = <<255, 0, 255>>
        /\ octal_palette[6] = <<255, 255, 0>> /\ octal_palette[7] = <<0, 255, 255>>
    BY DEF octal_palette
  <2>3. \A m \in 0..7 : m = 0 \/ m = 1 \/ m = 2 \/ m = 3 \/ m = 4 \/ m = 5 \/ m = 6 \/ m = 7
    OBVIOUS
  <2>4. QED
    BY <2>1, <2>2, <2>3 DEF Colour
<1>3. QED
  BY <1>1, <1>2

LEMMA DecodedRight ==
  ASSUME NEW mode \in {"binary", "octal"}, NEW msg \in DOMAIN Palette(mode),
         NEW off \in SUBSET (1..3), NEW shift \in {1, 127}
  PROVE  decode(mode, Seen(Palette(mode)[msg], off, shift)) = msg
<1> DEFINE seen == Seen(Palette(mode)[msg], off, shift)
           far(m) == Distance(seen, Palette(mode)[m])
           First(m) == \A k \in DOMAIN Palette(mode) \ {m} :
                         far(m) < far(k) \/ (far(m) = far(k) /\ Before(mode, m, k))
<1>1. \A k \in DOMAIN Palette(mode) : k # msg => far(msg) \in Nat /\ far(k) \in Nat /\ far(msg) < far(k)
  BY PalettesAreColours, ShownIsNearest
<1>2. decode(mode, seen) = CHOOSE m \in DOMAIN Palette(mode) : First(m)
  BY DEF decode
<1> HIDE DEF far, seen
<1>3. First(msg)
  BY <1>1
<1>4. ASSUME NEW k \in DOMAIN Palette(mode), First(k), k # msg
      PROVE  FALSE
  <2>1. far(k) < far(msg) \/ far(k) = far(msg)
    BY <1>4
  <2>2. QED
    BY <1>1, <1>4, <2>1
<1> HIDE DEF First
<1>5. QED
  BY <1>2, <1>3, <1>4 DEF seen

LEMMA CallColourAgrees ==
  ASSUME CallColour
  PROVE  ToolsAgree'
<1>1. PICK mode \in {"binary", "octal"}, off \in SUBSET (1..3), shift \in {1, 127}, frames \in 0..2 :
        \E msg \in DOMAIN Palette(mode) :
          call' = [of |-> "colour", mode |-> mode, msg |-> msg, frames |-> frames,
                   returned |-> receive(mode, Seen(Palette(mode)[msg], off, shift), frames)]
  BY DEF CallColour
<1>2. PICK msg \in DOMAIN Palette(mode) :
        call' = [of |-> "colour", mode |-> mode, msg |-> msg, frames |-> frames,
                 returned |-> receive(mode, Seen(Palette(mode)[msg], off, shift), frames)]
  BY <1>1
<1>3. receive(mode, Seen(Palette(mode)[msg], off, shift), frames) \in {ToString(msg), "exception"}
  BY DecodedRight DEF receive
<1>4. QED
  BY <1>2, <1>3 DEF ToolsAgree

LEMMA ToolsStepAgrees == ToolsAgree /\ [ToolsNext]_call => ToolsAgree'
<1> SUFFICES ASSUME ToolsAgree, [ToolsNext]_call
             PROVE  ToolsAgree'
  OBVIOUS
<1>1. CASE UNCHANGED call
  BY <1>1 DEF ToolsAgree
<1>2. QED
  BY <1>1, CallParityAgrees, CallMacAgrees, CallNetAgrees, CallClassAgrees, CallChecksumAgrees,
     CallColourAgrees, CallNtpAgrees DEF ToolsNext, Answered

(* Parity, address matching, networks and classes, the ICMP checksum,      *)
(* and colour codes do as their definitions say, for messages and packets  *)
(* of any length and any base of a byte.                                   *)
THEOREM ToolsAreRight == ToolsSpec => []ToolsAgree
<1>1. ToolsInit => ToolsAgree
  BY DEF ToolsInit, ToolsAgree
<1>2. QED
  BY <1>1, ToolsStepAgrees, PTL DEF ToolsSpec

-----------------------------------------------------------------------------
(* The programs of MCPrograms together: whichever of them runs takes steps *)
(* of its own specification, and nothing the others promise is disturbed.  *)

ProgramsInv ==
  /\ DhcpInv /\ BridgeInv /\ RipInv /\ FragmentInv /\ PingInv /\ DijkstraInv
  /\ MultiplexInv /\ ToolsAgree /\ ApInv

LEMMA ProgramsInitInv == Init => ProgramsInv
BY DhcpInitInv, BridgeInitInv, RipInitInv, FragmentInitInv, PingInitInv, DijkstraInitInv,
   MultiplexInitInv, ApInitInv DEF Init, ProgramsInit, ToolsInit, ToolsAgree, ProgramsInv

(* A step of one program is none of any other's.                           *)
LEMMA OneProgramSteps ==
  [Next]_allVars =>
    /\ [DhcpNext]_dhcpVars /\ [BridgeNext]_bridgeVars /\ [RipNext]_ripVars
    /\ [FragmentNext]_fragmentVars /\ [PingNext]_pingVars /\ [DijkstraNext]_dijkstraVars
    /\ [MultiplexNext]_multiplexVars /\ [ToolsNext]_call /\ [ApNext]_apVars
<1> SUFFICES ASSUME [Next]_allVars
             PROVE  /\ [DhcpNext]_dhcpVars /\ [BridgeNext]_bridgeVars /\ [RipNext]_ripVars
                    /\ [FragmentNext]_fragmentVars /\ [PingNext]_pingVars
                    /\ [DijkstraNext]_dijkstraVars /\ [MultiplexNext]_multiplexVars
                    /\ [ToolsNext]_call /\ [ApNext]_apVars
  OBVIOUS
<1> USE DEF tables, packets, functions
<1>1. CASE UNCHANGED allVars
  BY <1>1 DEF allVars
<1>2. CASE DhcpRuns \/ BridgeRuns \/ RipRuns
  BY <1>2 DEF DhcpRuns, BridgeRuns, RipRuns
<1>3. CASE FragmentRuns \/ PingRuns(PingNext)
  BY <1>3 DEF FragmentRuns, PingRuns
<1>4. CASE MultiplexRuns \/ ToolsRun \/ ApRuns
  BY <1>4 DEF MultiplexRuns, ToolsRun, ApRuns
<1>5. CASE DijkstraRuns(DijkstraNext)
  BY <1>5 DEF DijkstraRuns
<1>6. QED
  BY <1>1, <1>2, <1>3, <1>4, <1>5 DEF Next

LEMMA ProgramsStepInv == ProgramsInv /\ [Next]_allVars => ProgramsInv'
<1> SUFFICES ASSUME ProgramsInv, [Next]_allVars
             PROVE  ProgramsInv'
  OBVIOUS
<1>1. DhcpInv' /\ BridgeInv' /\ RipInv' /\ FragmentInv' /\ PingInv'
  BY OneProgramSteps, DhcpStepInv, BridgeStepInv, RipStepInv, FragmentStepInv, PingStepInv
     DEF ProgramsInv
<1>2. DijkstraInv' /\ MultiplexInv' /\ ToolsAgree' /\ ApInv'
  BY OneProgramSteps, DijkstraStepInv, MultiplexStepInv, ToolsStepAgrees, ApStepInv DEF ProgramsInv
<1>3. QED
  BY <1>1, <1>2 DEF ProgramsInv

LEMMA ProgramsInvariant == Spec => []ProgramsInv
<1>1. QED
  BY ProgramsInitInv, ProgramsStepInv, PTL DEF Spec

(* Every variable of every program keeps its type, also those of the       *)
(* programs that are not started.                                          *)
THEOREM ProgramsTypeCorrect == Spec => []ProgramsTypeOK
<1>1. ProgramsInv => ProgramsTypeOK
  BY DEF ProgramsInv, DhcpInv, BridgeInv, RipInv, FragmentInv, PingInv, DijkstraInv, MultiplexInv,
         ApInv, ProgramsTypeOK
<1>2. QED
  BY <1>1, ProgramsInvariant, PTL

(* What each program promises holds when any of them is run: the theorems  *)
(* above under the specification that TLC checks.                          *)
THEOREM ProgramsKeepTheirPromises ==
  Spec => /\ []FixedUnlessRemembered /\ []ReachesUnlessMoved /\ []RoutesUpdated
          /\ []OnlyAskedAnswered
          /\ []FragmentsReassemble /\ []FrontierHolds /\ []ShortestPathPrinted
          /\ []DemultiplexRestores /\ []ToolsAgree
<1>1. /\ ProgramsInv => FixedUnlessRemembered /\ ReachesUnlessMoved
      /\ ProgramsInv => RoutesUpdated /\ OnlyAskedAnswered
  BY RipInvRight, DhcpInvFixed DEF ProgramsInv, BridgeInv, PingInv
<1>2. ProgramsInv => FrontierHolds /\ ShortestPathPrinted
  BY InvPrintsShortest DEF ProgramsInv, DijkstraInv, SearchInv
<1>3. ProgramsInv => FragmentsReassemble /\ DemultiplexRestores /\ ToolsAgree
  BY DEF ProgramsInv, FragmentInv, MultiplexInv
<1>4. QED
  BY <1>1, <1>2, <1>3, ProgramsInvariant, PTL

(* Every program behaves as its own specification says, whichever of them  *)
(* runs.                                                                   *)
THEOREM ProgramsAreTheirSpecs ==
  Spec => /\ DhcpSpec /\ BridgeSpec /\ RipSpec /\ FragmentSpec /\ MultiplexSpec /\ ToolsSpec
          /\ ApSpec /\ PingInit /\ [][PingNext]_pingVars
          /\ DijkstraInit /\ [][DijkstraNext]_dijkstraVars
<1>1. QED
  BY OneProgramSteps, PTL DEF Spec, Init, ProgramsInit, DhcpSpec, BridgeSpec, RipSpec, FragmentSpec,
     MultiplexSpec, ToolsSpec, ApSpec
=============================================================================
