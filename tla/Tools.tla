---------------------------------- MODULE Tools --------------------------------
(***************************************************************************)
(* The functions of the repository that keep no state: parity, address     *)
(* matching, the ICMP checksum, colour codes and the NTP reply.  A         *)
(* behaviour is one call.                                                  *)
(***************************************************************************)
EXTENDS Integers, SequencesExt, FiniteSetsExt

CONSTANTS
  MaxBits,   \* bound: length of a message to check
  Quad,      \* IP addresses
  ByteBase   \* 256: the ICMP checksum adds words of two such digits

ASSUME ToolsAssumption ==
  MaxBits \in Nat /\ Quad \subseteq [1..4 -> 0..255] /\ ByteBase \in Nat \ {0, 1}

VARIABLE call  \* the function called, its arguments and what it returned

ToolsInit == call = [of |-> "none"]
NotCalled == call.of = "none"

-----------------------------------------------------------------------------
(* homework4/parity_check.cpp                                              *)
count_ones(msg) == Cardinality({i \in DOMAIN msg : msg[i] # 0})
parity_check(msg) == msg # << >> /\ count_ones(msg) % 2 = 0

CallParity ==
  /\ NotCalled
  /\ \E msg \in SeqOf({0, 1, 7}, MaxBits) :
        call' = [of |-> "parity", msg |-> msg, returned |-> parity_check(msg)]

-----------------------------------------------------------------------------
(* homework5/mac_address_match.cpp                                         *)
this_mac_address == <<0, 17, 34, 51, 68, 85>>
broadcast == <<255, 255, 255, 255, 255, 255>>

is_multicast(addr) == addr[1] % 2 = 1
mac_address_match(dest) == dest = broadcast \/ is_multicast(dest) \/ dest = this_mac_address

CallMac ==
  /\ NotCalled
  /\ \E like \in {this_mac_address, broadcast}, i \in 1..6, octet \in {0, 17, 85, 254, 255} :
        LET dest == [like EXCEPT ![i] = octet]
        IN  call' = [of |-> "mac", dest |-> dest, returned |-> mac_address_match(dest)]

-----------------------------------------------------------------------------
(* homework8/ip_address_tools.c                                            *)
(* An octet by the places of its ones, and octet & mask likewise.          *)
Bits(octet) == {b \in 0..7 : (octet \div 2 ^ b) % 2 = 1}
Masked(octet, mask) == Bits(octet) \cap Bits(mask)

is_in_net(ip, netip, mask) == \A i \in 1..4 : Masked(ip[i], mask[i]) = Masked(netip[i], mask[i])

classwise(first) ==
  CASE Masked(first, 128) = {} -> 0
    [] Masked(first, 192) = Bits(128) -> 1
    [] Masked(first, 224) = Bits(192) -> 2
    [] Masked(first, 240) = Bits(224) -> 3
    [] OTHER -> 4

(* The mask of a network whose first n bits are given.                     *)
MaskOf(n) ==
  [i \in 1..4 |-> IF n >= 8 * i THEN 255
                  ELSE IF n <= 8 * (i - 1) THEN 0 ELSE 256 - 2 ^ (8 * i - n)]

CallNet ==
  /\ NotCalled
  /\ \E ip, netip \in Quad, n \in 0..32 :
        call' = [of |-> "net", ip |-> ip, netip |-> netip, n |-> n,
                 returned |-> is_in_net(ip, netip, MaskOf(n))]

CallClass ==
  /\ NotCalled
  /\ \E first \in 0..255 :
        call' = [of |-> "class", first |-> first, returned |-> classwise(first)]

-----------------------------------------------------------------------------
(* homework9/icmp_ping.cpp: the sum of the words, a last byte by itself    *)
(* being the lower digit of one, folded twice and inverted.                *)
Word == ByteBase * ByteBase
SumOfWords(buf) ==
  LET sum[k \in 0..Len(buf)] ==
        IF k = 0 THEN 0 ELSE sum[k - 1] + buf[k] * (IF k % 2 = 1 THEN 1 ELSE ByteBase)
  IN  sum[Len(buf)]
FoldCarry(sum) == (sum \div Word) + (sum % Word)

ChecksumOneFold(buf) == Word - 1 - (FoldCarry(SumOfWords(buf)) % Word)  \* slip: one carry left out
icmp_checksum(buf) ==
  LET once == FoldCarry(SumOfWords(buf))
  IN  Word - 1 - ((once + (once \div Word)) % Word)

CallChecksum ==
  /\ NotCalled
  /\ \E buf \in SeqOf(0..(ByteBase - 1), 2 * Word) :
        call' = [of |-> "checksum", buf |-> buf, returned |-> icmp_checksum(buf)]

-----------------------------------------------------------------------------
(* homework1/solution.py: numbers as colours, and what a camera sees.      *)
binary_palette == [m \in 0..1 |-> IF m = 1 THEN <<0, 0, 0>> ELSE <<255, 255, 255>>]
octal_palette ==
  [m \in 0..7 |-> <<<<0, 0, 0>>, <<255, 255, 255>>, <<0, 0, 255>>, <<255, 0, 0>>,
                   <<0, 255, 0>>, <<255, 0, 255>>, <<255, 255, 0>>, <<0, 255, 255>>>>[m + 1]]
Palette(mode) == IF mode = "binary" THEN binary_palette ELSE octal_palette

Square(x) == x * x
Distance(c, d) == Square(c[1] - d[1]) + Square(c[2] - d[2]) + Square(c[3] - d[3])

(* The nearest colour; of several the first in the palette's order, which  *)
(* for "binary" begins with 1 and is the order of the numbers otherwise.   *)
Before(mode, m, k) == IF mode = "binary" THEN m > k ELSE m < k
decode(mode, color) ==
  LET far(m) == Distance(color, Palette(mode)[m])
  IN  CHOOSE m \in DOMAIN Palette(mode) :
        \A k \in DOMAIN Palette(mode) \ {m} :
          far(m) < far(k) \/ (far(m) = far(k) /\ Before(mode, m, k))

(* A colour encode gives, seen with channels that are off by up to shift.  *)
Seen(color, off, shift) ==
  [i \in 1..3 |-> IF i \notin off THEN color[i]
                  ELSE IF color[i] = 0 THEN shift ELSE 255 - shift]

(* receive, of what send shows (encode knows the numbers of the palette    *)
(* only): an exception when the first of two frames cannot be read, which  *)
(* is dropped, and when the second cannot, for avg_color has no value then.*)
receive(mode, color, frames) == IF frames < 2 THEN "exception" ELSE ToString(decode(mode, color))

CallColour ==
  /\ NotCalled
  /\ \E mode \in {"binary", "octal"}, off \in SUBSET (1..3), shift \in {1, 127}, frames \in 0..2 :
       \E msg \in DOMAIN Palette(mode) :
         call' = [of |-> "colour", mode |-> mode, msg |-> msg, frames |-> frames,
                  returned |-> receive(mode, Seen(Palette(mode)[msg], off, shift), frames)]

-----------------------------------------------------------------------------
(* homework11/ntp_server.py.  What struct.pack makes of fields and values, *)
(* both given by their size in bytes: it raises struct.error unless there  *)
(* is one value for each field and it fits.                                *)
Packs(fields, values) ==
  Len(fields) = Len(values) /\ \A i \in DOMAIN fields : values[i] <= fields[i]

(* sec is the server's time, which takes four bytes from 1968 to 2036, and *)
(* tx_time what the request said.  The fraction of either is 0.            *)
build_ntp_reply(sec) ==
  /\ Packs(<<4, 4>>, <<sec, 1>>)
  /\ Packs(<<4, 4>>, <<4, 1>>)
  /\ Packs(<<1, 1, 1, 1, 1, 1>>, <<1, 1, 1, 1>>)
  /\ Packs(<<2, 4>>, <<3, 3>>)
  /\ Packs(<<4>>, <<4>>)

(* A turn of the server's loop, for a datagram of the given length: main   *)
(* catches OSError only, so that a struct.error ends the server.           *)
CallNtp ==
  /\ NotCalled
  /\ \E sec \in 1..5, length \in {0, 47, 48, 1024} :
        call' = [of |-> "ntp", sec |-> sec, length |-> length,
                 returned |-> IF length < 48 THEN "next"
                              ELSE IF build_ntp_reply(sec) THEN "reply" ELSE "end"]

Answered == ~NotCalled /\ UNCHANGED call

ToolsNext ==
  \/ CallParity \/ CallMac \/ CallNet \/ CallClass \/ CallChecksum \/ CallColour
  \/ CallNtp \/ Answered
ToolsSpec == ToolsInit /\ [][ToolsNext]_call

-----------------------------------------------------------------------------
(* Properties.                                                             *)

Flip(msg, i) == [msg EXCEPT ![i] = IF @ = 0 THEN 1 ELSE 0]
NetBit(ip, k) == (ip[(k - 1) \div 8 + 1] \div 2 ^ (7 - ((k - 1) % 8))) % 2

(* What each function promises.  Parity notices every single wrong bit.  A *)
(* frame is taken unless it is for one other station.  An address is in a  *)
(* network if the first bits agree.  A class begins where the one before   *)
(* it ends.  The checksum makes the ones' complement sum of any packet of  *)
(* up to as many words as a word has values come out as zero.  A colour is *)
(* read right if no channel is off by half.                                *)
ToolsAgree ==
  CASE call.of = "none" -> TRUE
    [] call.of = "parity" ->
         \A i \in DOMAIN call.msg : parity_check(Flip(call.msg, i)) = ~call.returned
    [] call.of = "mac" ->
         ~call.returned <=> call.dest # this_mac_address /\ call.dest[1] \in {2 * k : k \in 0..127}
    [] call.of = "net" ->
         call.returned <=> \A k \in 1..call.n : NetBit(call.ip, k) = NetBit(call.netip, k)
    [] call.of = "class" ->
         call.returned = Cardinality({edge \in {128, 192, 224, 240} : call.first >= edge})
    [] call.of = "checksum" ->
         (SumOfWords(call.buf) + call.returned) % (Word - 1) = 0 /\ call.returned \in 0..(Word - 1)
    [] call.of = "colour" -> call.returned \in {ToString(call.msg), "exception"}
    [] OTHER -> TRUE

(* A request of a whole packet's length, 48 bytes, is replied to: the      *)
(* server builds the reply packet (ntp_server.py:31) and sends it (:98).   *)
NtpReplied == call.of = "ntp" /\ call.length >= 48 => call.returned = "reply"
=============================================================================
