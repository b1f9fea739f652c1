------------------------------ MODULE ApDeployment -----------------------------
(***************************************************************************)
(* homework6/ap_deployment.cpp: access points at fixed places of a         *)
(* building, at how many points more than one of them is strong, and a map *)
(* of the strongest signal, floor by floor.                                *)
(*                                                                         *)
(* Lengths are in half metres.  Losses are rounded down to whole dB, which *)
(* makes a signal stronger than the program's by less than 2 dB.  Main     *)
(* asks for signals on the floor of the access point only, so the loss     *)
(* between floors never counts.                                            *)
(***************************************************************************)
EXTENDS Integers, Sequences, FiniteSetsExt

CONSTANT BUILDING_FLOORS
ASSUME FloorsAssumption == BUILDING_FLOORS \in Nat \ {0}

VARIABLES
  apLoop,    \* the loop main is in: "deploy", "overlap", "heatmap" or "end"
  apFloor,   \* the floor it has come to
  aps,
  overlap,   \* per floor, the number of points with more than one strong signal
  heatmap    \* per floor, the symbol at each point of the map

apVars == <<apLoop, apFloor, aps, overlap, heatmap>>

TARGET_SIGNAL == -65
GridX == {10 * k : k \in 0..20}
OverlapPoint == GridX \X {10 * k : k \in 0..16}
HeatmapPoint == GridX \X {8 * k : k \in 0..20}

ApInit == apLoop = "deploy" /\ apFloor = 1 /\ aps = {} /\ overlap = << >> /\ heatmap = << >>

-----------------------------------------------------------------------------
(* 10 log10 of n square half metres taken in square metres: 20 log10 of    *)
(* the distance whose square that is.                                      *)
TenLog(n) ==
  LET power == <<1259, 1585, 1995, 2512, 3162, 3981, 5012, 6310, 7943, 10000>>
      AtLeast(k) == 1000 * n >= 4 * 10 ^ ((k - 1) \div 10) * power[((k - 1) % 10) + 1]
  IN  Cardinality({k \in 1..42 : AtLeast(k)})

(* 20 log10 of 2400 or of 5000, plus 32.44.                                *)
LossAtOne(freq_band) == IF freq_band = 0 THEN 100 ELSE 106
path_loss(square, freq_band) == TenLog(Max({4, square})) + LossAtOne(freq_band)

Apart(i, j) == IF i < j THEN j - i ELSE i - j
InCorridor(y) == y \in 78..82
count_walls(ap, p) ==
  [bearing |-> Apart(p[1] \div 30, ap.x \div 30),
   partition |-> IF InCorridor(ap.y) # InCorridor(p[2]) THEN 1
                 ELSE IF InCorridor(ap.y) THEN 0 ELSE Apart(p[2] \div 20, ap.y \div 20)]
wall_attenuation(walls) == 12 * walls.bearing + 6 * walls.partition

signal_strength(ap, p) ==
  20 - path_loss((p[1] - ap.x) ^ 2 + (p[2] - ap.y) ^ 2, ap.freq_band)
     - wall_attenuation(count_walls(ap, p))

(* The radius, in half metres, that an access point is estimated to cover. *)
get_effective_coverage(freq_band, wall_count) ==
  IF freq_band = 0 THEN IF wall_count = 0 THEN 40 ELSE 22
                   ELSE IF wall_count = 0 THEN 24 ELSE 12

(* What generate_heatmap can put on a map.                                 *)
MapSymbol == {"*", "+", "-", ".", " "}

Signals(floor, p) == {<<ap, signal_strength(ap, p)>> : ap \in {a \in aps : a.floor = floor}}
Symbol(floor, p) ==
  LET max_signal == Max({-100} \cup {s[2] : s \in Signals(floor, p)})
  IN  CASE max_signal >= -50 -> "*"
        [] max_signal \in (-60)..(-51) -> "+"
        [] max_signal \in TARGET_SIGNAL..(-61) -> "-"
        [] max_signal \in (-75)..(TARGET_SIGNAL - 1) -> "."
        [] OTHER -> " "

(* The next floor, or after the last one the first of the next loop.       *)
Advance(next) ==
  IF apFloor < BUILDING_FLOORS
    THEN apFloor' = apFloor + 1 /\ UNCHANGED apLoop
    ELSE apFloor' = 1 /\ apLoop' = next

Row(y, freq_band, channels) ==
  {[x |-> 60 * i - 15, y |-> y, freq_band |-> freq_band, channel |-> channels[i],
    floor |-> apFloor] : i \in 1..3}

calculate_ap_positions ==
  /\ apLoop = "deploy"
  /\ aps' = aps \cup Row(30, 0, <<1, 6, 11>>) \cup Row(130, 1, <<36, 40, 44>>)
  /\ Advance("overlap")
  /\ UNCHANGED <<overlap, heatmap>>

calculate_overlap ==
  /\ apLoop = "overlap"
  /\ overlap' = Append(overlap,
       Cardinality({p \in OverlapPoint :
         Cardinality({s \in Signals(apFloor, p) : s[2] >= TARGET_SIGNAL}) > 1}))
  /\ Advance("heatmap")
  /\ UNCHANGED <<aps, heatmap>>

generate_heatmap ==
  /\ apLoop = "heatmap"
  /\ heatmap' = Append(heatmap, [p \in HeatmapPoint |-> Symbol(apFloor, p)])
  /\ Advance("end")
  /\ UNCHANGED <<aps, overlap>>

ApReturned == apLoop = "end" /\ UNCHANGED apVars

ApNext == calculate_ap_positions \/ calculate_overlap \/ generate_heatmap \/ ApReturned
ApSpec == ApInit /\ [][ApNext]_apVars

-----------------------------------------------------------------------------
(* Properties.                                                             *)

ApTypeOK ==
  /\ apLoop \in {"deploy", "overlap", "heatmap", "end"}
  /\ apFloor \in 1..BUILDING_FLOORS
  /\ Cardinality(aps) <= 6 * BUILDING_FLOORS
  /\ overlap \in Seq(Nat)
  /\ heatmap \in Seq([HeatmapPoint -> MapSymbol])

(* The signal at a point, of all access points on its floor, is as strong  *)
(* as stable connections take (ap_deployment.cpp:32) wherever the point is *)
(* within the radius estimated for one of them (lines 34-40), which the    *)
(* plan is made for (154-161).  The estimates are for no wall, or one      *)
(* bearing wall.                                                           *)
CoverageAsEstimated ==
  \A floor \in DOMAIN heatmap : \A p \in HeatmapPoint :
    (\E ap \in aps :
       LET walls == count_walls(ap, p)
       IN  /\ ap.floor = floor /\ walls.partition = 0 /\ walls.bearing <= 1
           /\ (p[1] - ap.x) ^ 2 + (p[2] - ap.y) ^ 2
                <= get_effective_coverage(ap.freq_band, walls.bearing) ^ 2)
    => heatmap[floor][p] \in {"*", "+", "-"}
=============================================================================
