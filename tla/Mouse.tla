------------------------------- MODULE Mouse --------------------------------
(***************************************************************************)
(* Mouse.sv: the bytes that PS2_Controller delivers fill three registers   *)
(* in rotation, and the pointer moves when the next byte arrives.  In a    *)
(* stream that starts with the two answers to the enable command, byte1 is *)
(* the status of a packet (buttons and signs), byte3 its X and byte2 its Y.*)
(* Any byte may come at any time here.                                     *)
(***************************************************************************)
EXTENDS Integers

CONSTANTS
  Min, XMax, YMax,   \* 5, 635 and 475
  Span,              \* 2^10, positions of curX and curY
  ByteSpan,          \* 2^8
  BitL, BitX, BitY   \* weights of the bits 0, 4 and 5 of a status byte: 1, 16, 32

Bytes == 0 .. ByteSpan - 1

ASSUME MouseAssumption ==
  /\ Min \in Nat /\ XMax \in Nat /\ YMax \in Nat
  /\ Span \in Nat /\ ByteSpan \in Nat \ {0}
  /\ {BitL, BitX, BitY} \subseteq Nat \ {0}
  /\ Min <= YMax - ByteSpan /\ YMax <= XMax /\ XMax < Span

VARIABLES byte1, byte2, byte3, counter, curX, curY

mouseVars == <<byte1, byte2, byte3, counter, curX, curY>>

MouseTypeOK ==
  /\ byte1 \in Bytes /\ byte2 \in Bytes /\ byte3 \in Bytes
  /\ counter \in 0 .. 2
  /\ curX \in 0 .. Span - 1
  /\ curY \in 0 .. Span - 1

(* Power-up: no register has an initial value in the source.               *)
MouseInit ==
  /\ byte1 = 0 /\ byte2 = 0 /\ byte3 = 0
  /\ counter = 0
  /\ curX = 0 /\ curY = 0

-----------------------------------------------------------------------------
Bit(b, weight) == (b \div weight) % 2 = 1

sX == Bit(byte1, BitX)
sY == Bit(byte1, BitY)
leftButton == Bit(byte1, BitL)

(* A mutant: the magnitude is not negated.                                 *)
MagnitudeOfByte(sign, b) == b

(* The magnitude of a movement in nine bits: of a negative one the two's   *)
(* complement of the byte, which is 2^8 for the byte 0.                    *)
Magnitude(sign, b) == IF sign THEN (ByteSpan - 1 - b) + 1 ELSE b

magX == Magnitude(sX, byte3)
magY == Magnitude(sY, byte2)

(* c - 5 > mag on unsigned words: true when the subtraction wraps.         *)
RoomBelow(c, mag) == c < Min \/ c - Min > mag

(* A mutant: the left and upper edges are not checked.                     *)
DownUnclamped(c, mag) == (c - mag) % Span

Down(c, mag) == IF RoomBelow(c, mag) THEN (c - mag) % Span ELSE Min
Up(c, mag, max) == IF c < max - mag THEN c + mag ELSE max

Reset ==
  /\ byte1' = 0
  /\ counter' = 0
  /\ UNCHANGED <<byte2, byte3, curX, curY>>

XByte(b) ==
  /\ counter = 0
  /\ byte3' = b
  /\ counter' = 1
  /\ UNCHANGED <<byte1, byte2, curX, curY>>

YByte(b) ==
  /\ counter = 1
  /\ curX' = IF sX THEN Down(curX, magX) ELSE Up(curX, magX, XMax)
  /\ byte2' = b
  /\ counter' = 2
  /\ UNCHANGED <<byte1, byte3, curY>>

StatusByte(b) ==
  /\ counter \notin {0, 1}
  /\ curY' = IF sY THEN Up(curY, magY, YMax) ELSE Down(curY, magY)
  /\ byte1' = b
  /\ counter' = 0
  /\ UNCHANGED <<byte2, byte3, curX>>

MouseNext == Reset \/ \E b \in Bytes : XByte(b) \/ YByte(b) \/ StatusByte(b)

MouseSpec == MouseInit /\ [][MouseNext]_mouseVars

-----------------------------------------------------------------------------
(* A pointer that has come onto the screen never leaves it, whatever bytes *)
(* arrive: not even when a byte is lost and the rotation slips.            *)
StaysOnScreen ==
  [][/\ curX \in Min .. XMax => curX' \in Min .. XMax
     /\ curY \in Min .. YMax => curY' \in Min .. YMax]_mouseVars

(* Both movements of a packet are applied once, in full and with their own *)
(* signs, although the X waits for the byte after it, and byte1 is         *)
(* overwritten with the next status in the step that applies the Y.        *)
Signed(sign, b) == IF sign THEN b - ByteSpan ELSE b

P == INSTANCE Pointer WITH
  x <- curX, y <- curY, button <- leftButton,
  owedX <- IF counter = 1 THEN Signed(sX, byte3) ELSE 0,
  owedY <- IF counter = 2 THEN Signed(sY, byte2) ELSE 0,
  Reach <- -ByteSpan .. ByteSpan - 1

MovesLikeAPointer == P!PointerSpec

=============================================================================
