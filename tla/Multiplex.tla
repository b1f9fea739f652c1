-------------------------------- MODULE Multiplex ------------------------------
(***************************************************************************)
(* homework2/multiplex.cpp: two bit sequences are combined into one        *)
(* message by one of four ways and taken apart again.  A step is a call of *)
(* the library; between two calls the message may be cut short.            *)
(***************************************************************************)
EXTENDS Integers, SequencesExt

CONSTANTS
  Source,     \* the sequences that are sent; an element that is not 0 is a 1
  Capacity,   \* the values of c_size, a_size and b_size
  IndexBase   \* 256: a position is two digits of this base

ASSUME MultiplexAssumption ==
  Source \subseteq Seq(Nat) /\ Capacity \subseteq Nat /\ IndexBase \in Nat \ {0, 1}

VARIABLES
  g_multiplex_mode,
  message,    \* the buffer c: mode, a_len, b_len and the payload
  c_len,      \* what the last multiplex has returned, or what arrived of that
  original,   \* the two sequences of that call
  outcome     \* of the last demultiplex: what it returned, and both outputs

multiplexVars == <<g_multiplex_mode, message, c_len, original, outcome>>

STAT_TDM == 1
SYNC_TDM == 2
FDM == 3
CDM == 4
header == 9

NoMessage == [mode |-> 0, a_len |-> 0, b_len |-> 0, payload |-> << >>]
Failed == [result |-> -1, a |-> << >>, b |-> << >>]

MultiplexInit ==
  /\ g_multiplex_mode = SYNC_TDM
  /\ message = NoMessage /\ c_len = -1
  /\ original = [a |-> << >>, b |-> << >>]
  /\ outcome = Failed

-----------------------------------------------------------------------------
to_bit(x) == IF x # 0 THEN 1 ELSE 0
BitAt(s, i) == IF i <= Len(s) THEN to_bit(s[i]) ELSE 0
Slots(a, b) == Max({Len(a), Len(b)})

(* Two bytes for each slot. *)
SlotOf(k) == (k + 1) \div 2

do_sync_tdm(a, b) ==
  [k \in 1..(2 * Slots(a, b)) |-> BitAt(IF k % 2 = 1 THEN a ELSE b, SlotOf(k))]

do_fdm(a, b) == [i \in 1..Slots(a, b) |-> BitAt(a, i) + 2 * BitAt(b, i)]

Level(bit) == 2 * bit - 1
do_cdm(a, b) ==
  [k \in 1..(2 * Slots(a, b)) |->
     LET x == Level(BitAt(a, SlotOf(k)))
         y == Level(BitAt(b, SlotOf(k)))
     IN  IF k % 2 = 1 THEN x + y + 2 ELSE x - y + 2]

(* The positions of the ones, from 0, in their order, each a token of      *)
(* three bytes.                                                            *)
Positions(s) == {i \in 0..(Len(s) - 1) : to_bit(s[i + 1]) = 1}
Ones(s) ==
  CHOOSE f \in [1..Cardinality(Positions(s)) -> Positions(s)] :
    \A j, k \in DOMAIN f : j < k => f[j] < f[k]
Tokens(src, s) ==
  [k \in 1..(3 * Cardinality(Positions(s))) |->
     LET one == Ones(s)[(k + 2) \div 3]
     IN  CASE k % 3 = 1 -> src
           [] k % 3 = 2 -> one % IndexBase
           [] k % 3 = 0 -> (one \div IndexBase) % IndexBase]
do_stat_tdm(a, b) == Tokens(0, a) \o Tokens(1, b)

Payload(mode, a, b) ==
  CASE mode = STAT_TDM -> do_stat_tdm(a, b)
    [] mode = SYNC_TDM -> do_sync_tdm(a, b)
    [] mode = FDM -> do_fdm(a, b)
    [] mode = CDM -> do_cdm(a, b)

Fits(mode, c_size, a, b) ==
  /\ c_size >= header
  /\ Len(Payload(mode, a, b)) <= c_size - header
  /\ mode = STAT_TDM =>
       \A s \in {a, b} : \A k \in DOMAIN Ones(s) : Ones(s)[k] < IndexBase * IndexBase

(* set_multiplex_mode leaves the mode alone when it does not know the new. *)
SetMode ==
  /\ \E mode \in STAT_TDM..CDM : g_multiplex_mode' = mode
  /\ UNCHANGED <<message, c_len, original, outcome>>

(* After a failure nobody can read what the buffer holds, for demultiplex  *)
(* refuses the length -1.                                                  *)
DoMultiplex ==
  /\ \E a, b \in Source, c_size \in Capacity :
        /\ original' = [a |-> a, b |-> b]
        /\ IF Fits(g_multiplex_mode, c_size, a, b)
             THEN /\ message' = [mode |-> g_multiplex_mode, a_len |-> Len(a), b_len |-> Len(b),
                                 payload |-> Payload(g_multiplex_mode, a, b)]
                  /\ c_len' = header + Len(message'.payload)
             ELSE message' = NoMessage /\ c_len' = -1
  /\ outcome' = Failed
  /\ UNCHANGED g_multiplex_mode

(* The last byte does not arrive.                                          *)
CutShort ==
  /\ c_len > 0
  /\ c_len' = c_len - 1
  /\ outcome' = Failed
  /\ UNCHANGED <<g_multiplex_mode, message, original>>

-----------------------------------------------------------------------------
ModeNow == g_multiplex_mode  \* slip: the mode set since, not the one of the message
ModeOfMessage == message.mode

Arrived == SubSeq(message.payload, 1, c_len - header)

(* Whether a payload p says that element i of sequence src (0: a, 1: b),   *)
(* counted from 1, is a one.                                               *)
SaysOne(mode, p, src, i) ==
  CASE mode = STAT_TDM ->
         \E k \in 0..(Len(p) \div 3 - 1) :
            p[3 * k + 1] = src /\ p[3 * k + 2] + IndexBase * p[3 * k + 3] = i - 1
    [] mode = SYNC_TDM -> 2 * i <= Len(p) /\ to_bit(p[2 * i - 1 + src]) = 1
    [] mode = FDM -> i <= Len(p) /\ (p[i] \div (1 + src)) % 2 = 1
    [] mode = CDM -> /\ 2 * i <= Len(p)
                     /\ LET chip0 == p[2 * i - 1] - 2
                            chip1 == p[2 * i] - 2
                        IN  (IF src = 0 THEN chip0 + chip1 ELSE chip0 - chip1) > 0

(* Zeroes, but for the ones found within the length and within the buffer. *)
Output(size, len, src) ==
  [i \in 1..size |->
     IF i <= Min({size, len}) /\ SaysOne(ModeOfMessage, Arrived, src, i) THEN 1 ELSE 0]

Broken ==
  \/ c_len < header
  \/ ModeOfMessage = STAT_TDM /\ Len(Arrived) % 3 # 0
  \/ ModeOfMessage \in {SYNC_TDM, CDM} /\ Len(Arrived) % 2 # 0

Demultiplex ==
  /\ \E a_size, b_size \in Capacity :
        outcome' = IF Broken THEN Failed
                   ELSE [result |-> Min({a_size, message.a_len}) + Min({b_size, message.b_len}),
                         a |-> Output(a_size, message.a_len, 0),
                         b |-> Output(b_size, message.b_len, 1)]
  /\ UNCHANGED <<g_multiplex_mode, message, c_len, original>>

MultiplexNext == SetMode \/ DoMultiplex \/ CutShort \/ Demultiplex
MultiplexSpec == MultiplexInit /\ [][MultiplexNext]_multiplexVars

-----------------------------------------------------------------------------
(* Properties.                                                             *)

MultiplexTypeOK ==
  /\ g_multiplex_mode \in STAT_TDM..CDM
  /\ message.mode \in 0..CDM /\ message.payload \in Seq(0..Max({4, IndexBase - 1}))
  /\ c_len \in (-1)..(header + Len(message.payload))
  /\ original \in [a : Source, b : Source] \/ message = NoMessage
  /\ outcome.result \in Int

Whole == c_len = header + Len(message.payload)
Restored(output, s) ==
  \A i \in 1..Len(output) :
    output[i] = BitAt(s, i) \/ (~Whole /\ output[i] = 0)

(* What demultiplex returns without an error is what multiplex was given,  *)
(* in each of the four ways, cut to the buffers and filled up with zeroes, *)
(* even if another mode has been set in between; of a message cut short    *)
(* only ones are missing, and none appears that was not sent.              *)
DemultiplexRestores ==
  outcome.result >= 0 =>
    /\ Restored(outcome.a, original.a) /\ Restored(outcome.b, original.b)
    /\ outcome.result = Min({Len(outcome.a), Len(original.a)})
                          + Min({Len(outcome.b), Len(original.b)})
=============================================================================
