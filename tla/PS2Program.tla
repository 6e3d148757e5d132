----------------------------- MODULE PS2Program -----------------------------
(***************************************************************************)
(* The Nios program that moves a cursor with a PS/2 mouse: alt_up_ps2_init *)
(* of the driver, which alt_sys_init calls before main, register access by *)
(* register access; and the endless loop of main.c, a pass per action,     *)
(* since a pass reads the port once.                                       *)
(***************************************************************************)
EXTENDS PS2Port

CONSTANTS
  Timeout,                   \* reads without a byte before -ETIMEDOUT
  minX, maxX, minY, maxY     \* where the cursor may be

(* A step of the cursor is at most 7; curX and curY are 16 bits wide.      *)
ASSUME ProgramAssumption ==
  /\ Timeout \in Nat \ {0}
  /\ minX \in 7 .. 65 /\ maxX \in minX .. 65528 /\ 65 <= maxX
  /\ minY \in 7 .. 65 /\ maxY \in minY .. 65528 /\ 65 <= maxY

VARIABLES
  pc,
  count,                     \* reads of the byte that is waited for
  device_type,
  byte1, byte2, byte3,
  counter,
  PS2_prev,                  \* the data register as it was a pass ago
  curX, curY

cursor == <<curX, curY>>
mainVars == <<byte1, byte2, byte3, counter, PS2_prev, curX, curY>>
initVars == <<count, device_type>>
programVars == <<portVars, pc, initVars, mainVars>>

ProgramInit ==
  /\ PortInit
  /\ pc = "reset" /\ count = 0 /\ device_type = "PS2_UNKNOWN"
  /\ byte1 = 0 /\ byte2 = 0 /\ byte3 = 0 /\ counter = 0
  /\ PS2_prev = [ravail |-> 0, data |-> 0]
  /\ curX = 65 /\ curY = 65

-----------------------------------------------------------------------------
(* alt_up_ps2_init.  A command is written, and the error bit is read.      *)
SendReset ==
  /\ pc = "reset" /\ pc' = "status"
  /\ WriteData(RESET)
  /\ UNCHANGED <<fifo, idle, dev, sent, plugs, initVars, mainVars>>

ResetSent ==
  /\ pc = "status" /\ pc' = IF ce THEN "main" ELSE "ack"
  /\ UNCHANGED <<portVars, initVars, mainVars>>

(* alt_up_ps2_read_data_byte_timeout, a read at a time.                    *)
GetByte(p, next) ==
  /\ pc = p /\ fifo # <<>>
  /\ Pop /\ count' = 0 /\ pc' = next
  /\ UNCHANGED <<ce, dev, enabled, out, sent, plugs, mainVars>>

NoByteYet ==
  /\ pc \in {"ack", "bat", "id"} /\ fifo = <<>> /\ count < Timeout
  /\ count' = count + 1
  /\ UNCHANGED <<portVars, pc, device_type, mainVars>>

(* A mutant: the driver waits as long as it takes.                         *)
TimedOutNever == FALSE /\ UNCHANGED programVars

TimedOut ==
  /\ pc \in {"ack", "bat", "id"} /\ fifo = <<>> /\ count = Timeout
  /\ count' = 0 /\ pc' = "main"
  /\ device_type' = IF pc = "id" THEN "PS2_KEYBOARD" ELSE device_type
  /\ UNCHANGED <<portVars, mainVars>>

(* alt_up_ps2_wait_for_ack skips every other byte.                         *)
WaitForAck ==
  /\ GetByte("ack", IF Head(fifo) = ACK THEN "bat" ELSE "ack")
  /\ UNCHANGED device_type

SelfTestResult ==
  /\ GetByte("bat", IF Head(fifo) = PASSED THEN "id" ELSE "main")
  /\ UNCHANGED device_type

SecondByte ==
  /\ GetByte("id", IF Head(fifo) = MOUSE_ID THEN "enable" ELSE "main")
  /\ device_type' = IF Head(fifo) = MOUSE_ID THEN "PS2_MOUSE" ELSE device_type

EnableMouse ==
  /\ pc = "enable" /\ pc' = "main"
  /\ WriteData(ENABLE)
  /\ UNCHANGED <<fifo, idle, dev, sent, plugs, initVars, mainVars>>

-----------------------------------------------------------------------------
(* A pass of main.  A byte is saved in the place of the pass's number.     *)
char(b) == IF b > 127 THEN b - 256 ELSE b      \* (char) b

Saved(n, byte, r) ==
  IF r.ravail > 0 /\ counter = n THEN r.data ELSE byte

Inserted == byte2' = char(PASSED) /\ byte3' = char(0)

(* A mutant: the test for the lower limit is missing.                      *)
ClampBelow(v, min, max) ==
  LET w == v % 65536 IN IF w >= max THEN max ELSE w

(* unsigned short, then the two comparisons.                               *)
Clamp(v, min, max) ==
  LET w == v % 65536
      u == IF w >= max THEN max ELSE w
  IN  IF u <= min THEN min ELSE u

Bit(b, weight) == (b \div weight) % 2 = 1
Along(cur, magnitude) == cur + magnitude \div 32
Back(cur, magnitude) == cur - magnitude \div 32

(* A mutant: a pass moves the cursor, byte or no byte.                     *)
MovesAlways(r) == counter = 2
Moves(r) == counter = 2 /\ r # PS2_prev

Pass ==
  LET r == DataRegister IN
  /\ pc = "main"
  /\ byte1' = Saved(0, byte1, r)
  /\ byte2' = Saved(1, byte2, r)
  /\ byte3' = Saved(2, byte3, r)
  /\ Pop
  /\ IF Inserted THEN WriteData(ENABLE) ELSE UNCHANGED <<ce, out, enabled>>
  /\ IF Moves(r)
     THEN /\ curX' = Clamp(IF Bit(byte1', 16) THEN Back(curX, byte2')
                           ELSE Along(curX, byte2'), minX, maxX)
          /\ curY' = Clamp(IF Bit(byte1', 32) THEN Along(curY, byte3')
                           ELSE Back(curY, byte3'), minY, maxY)
     ELSE UNCHANGED cursor
  /\ counter' = (counter + 1) % 3
  /\ PS2_prev' = r
  /\ UNCHANGED <<dev, sent, plugs, pc, initVars>>

-----------------------------------------------------------------------------
Driver ==
  SendReset \/ ResetSent \/ NoByteYet \/ TimedOut \/ WaitForAck
    \/ SelfTestResult \/ SecondByte \/ EnableMouse
Device ==
  (Deliver \/ Move \/ Unplug \/ Plug) /\ UNCHANGED <<pc, initVars, mainVars>>

ProgramNext == Driver \/ Pass \/ Device

(* The processor runs.  Nobody has to plug in, to move or to answer.       *)
ProgramSpec ==
  ProgramInit /\ [][ProgramNext]_programVars
    /\ WF_programVars(Driver) /\ WF_programVars(Pass)

-----------------------------------------------------------------------------
(* The cursor never leaves its rectangle, whatever the bytes and in        *)
(* whatever order: no subtraction goes below zero in 16 bits.              *)
CursorInRange == curX \in minX .. maxX /\ curY \in minY .. maxY

(* A pass moves the cursor by what three bits can say and in the direction *)
(* of the sign: it never jumps across the screen.                          *)
StepIsSmall ==
  [][curX' \in curX - 7 .. curX + 7 /\ curY' \in curY - 7 .. curY + 7]_cursor

(* What the comment in main.c says ("mouse inserted; initialize sending of *)
(* data"): once the last bytes that came are those of a mouse that was     *)
(* plugged in, it is told to report.  It does not hold: byte2 is unsigned, *)
(* and what it is compared with is negative.                               *)
InsertedIsEnabled ==
  [][pc = "main" /\ dev = "mouse" /\ byte2' = PASSED /\ byte3' = MOUSE_ID
       => enabled']_programVars

(* The program gets to main, with any device, with none, and with one that *)
(* is taken away in the middle of an answer.                               *)
InitReturns == <>(pc = "main")

(* An idle mouse does not drift: the cursor stays where it is in a pass    *)
(* that finds no byte after one that found none, although the last three   *)
(* bytes are still there.                                                  *)
NoDrift == [][~(fifo = <<>> /\ PS2_prev.ravail = 0)]_cursor

=============================================================================
