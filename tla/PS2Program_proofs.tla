-------------------------- MODULE PS2Program_proofs --------------------------
(***************************************************************************)
(* For every FIFO depth, every set of packets and every screen that the    *)
(* assumptions of PS2Program allow: the cursor keeps to its rectangle,     *)
(* moves by small steps, does not drift, and a mouse reports only what     *)
(* init has enabled.  All four rest on bytes being bytes.                  *)
(***************************************************************************)
EXTENDS PS2Program, SequenceTheorems, TLAPS

Byte == 0 .. 255

BytesAreBytes ==
  /\ fifo \in Seq(Byte) /\ idle \in Byte /\ out \in Seq(Byte)
  /\ byte1 \in Byte /\ byte2 \in Byte /\ byte3 \in Byte

(* The register that a pass compares with still shows what it showed.      *)
PrevKnown ==
  /\ counter \in 0 .. 2 /\ PS2_prev \in [ravail : Nat, data : Byte]
  /\ counter # 0 /\ PS2_prev.ravail = 0 => PS2_prev.data = idle
  /\ counter # 0 => pc = "main"

EnabledInMain ==
  /\ enabled => pc = "main" /\ device_type = "PS2_MOUSE"
  /\ pc = "enable" => device_type = "PS2_MOUSE"

Inv == BytesAreBytes /\ CursorInRange /\ PrevKnown /\ EnabledInMain

-----------------------------------------------------------------------------
(* Remainders.                                                             *)
LEMMA ModRange == \A v \in Int, m \in Nat \ {0} : v % m \in 0 .. m - 1
  OBVIOUS
LEMMA ModSmall ==
  \A v \in Int, m \in Nat \ {0} : 0 <= v /\ v < m => v % m = v
  OBVIOUS

(* What the two comparisons make of a sum that may have wrapped.           *)
LEMMA ClampInRange ==
  ASSUME NEW v \in Int, NEW min \in Nat, NEW max \in Nat, min <= max
  PROVE  Clamp(v, min, max) \in min .. max
<1>1. PICK w \in Int : w = v % 65536 BY ModRange
<1>2. Clamp(v, min, max) =
        LET u == IF w >= max THEN max ELSE w
        IN  IF u <= min THEN min ELSE u
  BY <1>1 DEF Clamp
<1> QED BY <1>2

(* Inside the screen nothing wraps.                                        *)
LEMMA ClampStep ==
  ASSUME NEW min \in Int, NEW max \in Int, NEW c \in Int, NEW v \in Int,
         7 <= min, max <= 65528, min <= c, c <= max, c - 7 <= v, v <= c + 7
  PROVE  Clamp(v, min, max) \in c - 7 .. c + 7
<1>1. v % 65536 = v BY ModSmall
<1>2. Clamp(v, min, max) =
        LET u == IF v >= max THEN max ELSE v
        IN  IF u <= min THEN min ELSE u
  BY <1>1 DEF Clamp
<1> QED BY <1>2

LEMMA Magnitude ==
  ASSUME NEW c \in Nat, NEW b \in Byte
  PROVE  Along(c, b) \in c - 7 .. c + 7 /\ Back(c, b) \in c - 7 .. c + 7
<1>1. b \div 32 \in 0 .. 7 BY DEF Byte
<1> QED BY <1>1 DEF Along, Back

(* Popping the FIFO, and what its register shows.                          *)
LEMMA RegisterIsByte ==
  ASSUME BytesAreBytes
  PROVE  DataRegister.data \in Byte /\ DataRegister.ravail \in Nat
<1>1. CASE fifo = <<>> BY <1>1 DEF BytesAreBytes, DataRegister
<1>2. CASE fifo # <<>>
  <2>1. Head(fifo) \in Byte BY <1>2 DEF BytesAreBytes
  <2> QED BY <1>2, <2>1 DEF BytesAreBytes, DataRegister
<1> QED BY <1>1, <1>2

LEMMA PopKeepsBytes ==
  ASSUME BytesAreBytes, Pop
  PROVE  fifo' \in Seq(Byte) /\ idle' \in Byte
<1>1. CASE fifo = <<>> BY <1>1 DEF BytesAreBytes, Pop
<1>2. CASE fifo # <<>>
  <2>1. Head(fifo) \in Byte /\ Tail(fifo) \in Seq(Byte)
    BY <1>2 DEF BytesAreBytes
  <2> QED BY <1>2, <2>1 DEF BytesAreBytes, Pop
<1> QED BY <1>1, <1>2

LEMMA AnswerIsBytes ==
  ASSUME NEW c, WriteData(c) PROVE out' \in Seq(Byte)
<1>1. Hello(dev) \in Seq(Byte)
  <2>1. PASSED \in Byte /\ MOUSE_ID \in Byte BY DEF PASSED, MOUSE_ID, Byte
  <2> QED BY <2>1 DEF Hello
<1>2. <<ACK>> \in Seq(Byte) /\ <<>> \in Seq(Byte) BY DEF ACK, Byte
<1>3. <<ACK>> \o Hello(dev) \in Seq(Byte) BY <1>1, <1>2
<1> QED BY <1>2, <1>3 DEF WriteData

(* main never sees a mouse inserted: (char) 0xAA is negative.              *)
LEMMA NeverInserted ==
  ASSUME byte2' \in Byte PROVE ~Inserted
BY DEF Inserted, char, PASSED, Byte

-----------------------------------------------------------------------------
LEMMA InvStarts == ProgramInit => Inv
<1> SUFFICES ASSUME ProgramInit PROVE Inv OBVIOUS
<1>1. out \in Seq(Byte)
  <2>1. PASSED \in Byte /\ MOUSE_ID \in Byte BY DEF PASSED, MOUSE_ID, Byte
  <2>2. Hello(dev) \in Seq(Byte) BY <2>1 DEF Hello
  <2>3. out = <<>> \/ out = Hello(dev)
    BY DEF ProgramInit, PortInit
  <2>4. <<>> \in Seq(Byte) OBVIOUS
  <2> QED BY <2>2, <2>3, <2>4
<1>2. BytesAreBytes
  BY <1>1 DEF ProgramInit, PortInit, BytesAreBytes, Byte
<1>3. CursorInRange
  BY ProgramAssumption DEF ProgramInit, CursorInRange
<1>4. PrevKnown /\ EnabledInMain
  BY DEF ProgramInit, PortInit, PrevKnown, EnabledInMain, Byte
<1> QED BY <1>2, <1>3, <1>4 DEF Inv

(* A pass of main: bytes go where bytes were, and nobody is enabled.       *)
LEMMA PassBytes ==
  ASSUME Inv, Pass
  PROVE  /\ BytesAreBytes' /\ PrevKnown' /\ UNCHANGED enabled
         /\ byte2' \in Byte /\ byte3' \in Byte
<1> DEFINE r == DataRegister
<1>1. r.data \in Byte /\ r.ravail \in Nat BY RegisterIsByte DEF Inv
<1>2. byte1' \in Byte /\ byte2' \in Byte /\ byte3' \in Byte
  BY <1>1 DEF Pass, Saved, Inv, BytesAreBytes
<1>3. ~Inserted BY <1>2, NeverInserted
<1>4. UNCHANGED <<ce, out, enabled>> BY <1>3 DEF Pass
<1>5. fifo' \in Seq(Byte) /\ idle' \in Byte
  BY PopKeepsBytes DEF Pass, Inv
<1>6. BytesAreBytes' BY <1>2, <1>4, <1>5 DEF Inv, BytesAreBytes
<1>7. PS2_prev' = r /\ pc' = pc /\ pc = "main" BY DEF Pass
<1>8. counter' \in 0 .. 2 BY DEF Pass, Inv, PrevKnown
<1>9. r.ravail = 0 => r.data = idle /\ idle' = idle
  <2>1. r.ravail = 0 => fifo = <<>>
    BY DEF Inv, BytesAreBytes, DataRegister
  <2> QED BY <2>1 DEF DataRegister, Pass, Pop
<1>10. r \in [ravail : Nat, data : Byte] BY <1>1 DEF DataRegister
<1>11. PrevKnown' BY <1>7, <1>8, <1>9, <1>10 DEF PrevKnown
<1> QED BY <1>2, <1>4, <1>6, <1>11

(* A pass of main: the cursor stays inside and moves by little.            *)
LEMMA PassMoves ==
  ASSUME Inv, Pass
  PROVE  /\ CursorInRange'
         /\ curX' \in curX - 7 .. curX + 7 /\ curY' \in curY - 7 .. curY + 7
<1>1. byte2' \in Byte /\ byte3' \in Byte BY PassBytes
<1>2. curX \in minX .. maxX /\ curY \in minY .. maxY
  BY DEF Inv, CursorInRange
<1>3. /\ minX \in Nat /\ maxX \in Nat /\ minY \in Nat /\ maxY \in Nat
      /\ 7 <= minX /\ minX <= maxX /\ maxX <= 65528
      /\ 7 <= minY /\ minY <= maxY /\ maxY <= 65528
  BY ProgramAssumption
<1>4. curX \in Nat /\ curY \in Nat BY <1>2, <1>3
<1>5. CASE UNCHANGED cursor
  BY <1>2, <1>4, <1>5 DEF cursor, CursorInRange
<1>6. CASE ~UNCHANGED cursor
  <2> DEFINE v == IF Bit(byte1', 16) THEN Back(curX, byte2')
                  ELSE Along(curX, byte2')
             w == IF Bit(byte1', 32) THEN Along(curY, byte3')
                  ELSE Back(curY, byte3')
  <2>1. curX' = Clamp(v, minX, maxX) /\ curY' = Clamp(w, minY, maxY)
    BY <1>6 DEF Pass
  <2>2. v \in curX - 7 .. curX + 7 /\ w \in curY - 7 .. curY + 7
    BY <1>1, <1>4, Magnitude
  <2> HIDE DEF v, w
  <2>3. Clamp(v, minX, maxX) \in minX .. maxX
    BY <1>3, <1>4, <2>2, ClampInRange
  <2>4. Clamp(w, minY, maxY) \in minY .. maxY
    BY <1>3, <1>4, <2>2, ClampInRange
  <2>5. Clamp(v, minX, maxX) \in curX - 7 .. curX + 7
    BY <1>2, <1>3, <1>4, <2>2, ClampStep
  <2>6. Clamp(w, minY, maxY) \in curY - 7 .. curY + 7
    BY <1>2, <1>3, <1>4, <2>2, ClampStep
  <2> QED BY <2>1, <2>3, <2>4, <2>5, <2>6 DEF CursorInRange
<1> QED BY <1>5, <1>6

(* The driver and the device leave main's variables alone, and bytes are   *)
(* what they move.                                                         *)
LEMMA DriverStep == ASSUME Inv, Driver PROVE Inv' /\ UNCHANGED mainVars
<1> USE DEF Inv
<1>1. UNCHANGED mainVars
  BY DEF Driver, SendReset, ResetSent, NoByteYet, TimedOut, WaitForAck,
    SelfTestResult, SecondByte, EnableMouse, GetByte
<1>2. CursorInRange' BY <1>1 DEF mainVars, CursorInRange
<1>3. CASE SendReset \/ EnableMouse
  <2>1. out' \in Seq(Byte)
    BY <1>3, AnswerIsBytes DEF SendReset, EnableMouse
  <2>2. BytesAreBytes'
    BY <1>1, <1>3, <2>1 DEF SendReset, EnableMouse, mainVars, BytesAreBytes
  <2>3. PrevKnown'
    BY <1>1, <1>3 DEF SendReset, EnableMouse, mainVars, PrevKnown
  <2>4. EnabledInMain'
    <3>1. CASE SendReset
      <4>1. ~enabled'
        <5>1. RESET # ENABLE BY DEF RESET, ENABLE
        <5>2. WriteData(RESET) BY <3>1 DEF SendReset
        <5> QED BY <5>1, <5>2, Zenon DEF WriteData
      <4>2. pc' = "status" BY <3>1 DEF SendReset
      <4> QED BY <4>1, <4>2 DEF EnabledInMain
    <3>2. CASE EnableMouse
      <4>1. pc' = "main" /\ device_type' = "PS2_MOUSE"
        BY <3>2 DEF EnableMouse, initVars, EnabledInMain
      <4> QED BY <4>1 DEF EnabledInMain
    <3> QED BY <1>3, <3>1, <3>2
  <2> QED BY <1>1, <1>2, <2>2, <2>3, <2>4
<1>4. CASE ResetSent \/ NoByteYet \/ TimedOut
  <2>1. BytesAreBytes'
    BY <1>1, <1>4 DEF ResetSent, NoByteYet, TimedOut, portVars, mainVars,
      BytesAreBytes
  <2>2. PrevKnown'
    BY <1>1, <1>4 DEF ResetSent, NoByteYet, TimedOut, portVars, mainVars,
      PrevKnown
  <2>3. EnabledInMain'
    BY <1>4 DEF ResetSent, NoByteYet, TimedOut, portVars, initVars,
      EnabledInMain
  <2> QED BY <1>1, <1>2, <2>1, <2>2, <2>3
<1>5. CASE WaitForAck \/ SelfTestResult \/ SecondByte
  <2>1. Pop /\ UNCHANGED <<out, enabled>> /\ pc # "main" /\ pc # "enable"
    BY <1>5 DEF WaitForAck, SelfTestResult, SecondByte, GetByte
  <2>2. BytesAreBytes'
    BY <1>1, <2>1, PopKeepsBytes DEF mainVars, BytesAreBytes
  <2>3. PrevKnown' BY <1>1, <2>1 DEF mainVars, PrevKnown
  <2>4. pc' = "enable" => device_type' = "PS2_MOUSE"
    BY <1>5 DEF WaitForAck, SelfTestResult, SecondByte, GetByte
  <2>5. EnabledInMain' BY <2>1, <2>4 DEF EnabledInMain
  <2> QED BY <1>1, <1>2, <2>2, <2>3, <2>5
<1> QED BY <1>3, <1>4, <1>5 DEF Driver

LEMMA DeviceStep == ASSUME Inv, Device PROVE Inv' /\ UNCHANGED mainVars
<1> USE DEF Inv
<1>1. UNCHANGED <<pc, initVars, mainVars, idle>>
  BY DEF Device, Deliver, Move, Unplug, Plug
<1>2. CursorInRange' /\ PrevKnown'
  BY <1>1 DEF mainVars, CursorInRange, PrevKnown
<1>3. enabled' => enabled BY DEF Device, Deliver, Move, Unplug, Plug
<1>4. EnabledInMain' BY <1>1, <1>3 DEF initVars, EnabledInMain
<1>5. fifo' \in Seq(Byte) /\ out' \in Seq(Byte)
  <2>1. CASE Deliver
    <3>1. Head(out) \in Byte /\ Tail(out) \in Seq(Byte)
      BY <2>1 DEF Deliver, BytesAreBytes
    <3>2. Append(fifo, Head(out)) \in Seq(Byte)
      BY <3>1 DEF BytesAreBytes
    <3> QED BY <2>1, <3>1, <3>2 DEF Deliver, BytesAreBytes
  <2>2. CASE Move
    <3>1. PICK p \in [1 .. 3 -> Byte] : out' = p
      BY <2>2, PortAssumption DEF Move, Byte
    <3>2. out' \in Seq(Byte) BY <3>1, SeqDef
    <3> QED BY <2>2, <3>2 DEF Move, BytesAreBytes
  <2>3. CASE Unplug BY <2>3 DEF Unplug, BytesAreBytes
  <2>4. CASE Plug
    <3>1. PASSED \in Byte /\ MOUSE_ID \in Byte BY DEF PASSED, MOUSE_ID, Byte
    <3>2. Hello(dev') \in Seq(Byte) BY <3>1 DEF Hello
    <3> QED BY <2>4, <3>2 DEF Plug, BytesAreBytes
  <2> QED BY <2>1, <2>2, <2>3, <2>4 DEF Device
<1>6. BytesAreBytes' BY <1>1, <1>5 DEF mainVars, BytesAreBytes
<1> QED BY <1>1, <1>2, <1>4, <1>6

LEMMA InvStep == Inv /\ [ProgramNext]_programVars => Inv'
<1> SUFFICES ASSUME Inv, [ProgramNext]_programVars PROVE Inv' OBVIOUS
<1>1. CASE Pass
  <2>1. EnabledInMain'
    BY <1>1, PassBytes DEF Pass, initVars, Inv, EnabledInMain
  <2> QED BY <1>1, <2>1, PassBytes, PassMoves DEF Inv
<1>2. CASE UNCHANGED programVars
  BY <1>2 DEF programVars, portVars, initVars, mainVars, Inv, BytesAreBytes,
    CursorInRange, PrevKnown, EnabledInMain
<1> QED BY <1>1, <1>2, DriverStep, DeviceStep DEF ProgramNext

-----------------------------------------------------------------------------
(* The cursor never leaves its rectangle (see CursorInRange).              *)
THEOREM CursorStaysInRange == ProgramSpec => []CursorInRange
<1>1. Inv => CursorInRange BY DEF Inv
<1> QED BY <1>1, InvStarts, InvStep, PTL DEF ProgramSpec

(* A pass never makes the cursor jump (see StepIsSmall).                   *)
THEOREM CursorNeverJumps == ProgramSpec => StepIsSmall
<1>1. Inv /\ [ProgramNext]_programVars =>
        [curX' \in curX - 7 .. curX + 7 /\ curY' \in curY - 7 .. curY + 7]_cursor
  <2> SUFFICES ASSUME Inv, [ProgramNext]_programVars, ~UNCHANGED cursor
               PROVE  /\ curX' \in curX - 7 .. curX + 7
                      /\ curY' \in curY - 7 .. curY + 7
    OBVIOUS
  <2>1. ~Driver BY DriverStep DEF mainVars, cursor
  <2>2. ~Device BY DeviceStep DEF mainVars, cursor
  <2>3. Pass BY <2>1, <2>2 DEF ProgramNext, programVars, mainVars, cursor
  <2> QED BY <2>3, PassMoves
<1> QED BY <1>1, InvStarts, InvStep, PTL DEF ProgramSpec, StepIsSmall

(* An idle mouse does not drift (see NoDrift).                             *)
THEOREM IdleMouseStays == ProgramSpec => NoDrift
<1>1. Inv /\ [ProgramNext]_programVars =>
        [~(fifo = <<>> /\ PS2_prev.ravail = 0)]_cursor
  <2> SUFFICES ASSUME Inv, [ProgramNext]_programVars, ~UNCHANGED cursor,
                      fifo = <<>>, PS2_prev.ravail = 0
               PROVE  FALSE
    OBVIOUS
  <2>1. ~Driver BY DriverStep DEF mainVars, cursor
  <2>2. ~Device BY DeviceStep DEF mainVars, cursor
  <2>3. Pass BY <2>1, <2>2 DEF ProgramNext, programVars, mainVars, cursor
  <2>4. Moves(DataRegister) BY <2>3 DEF Pass
  <2>5. PS2_prev.data = idle BY <2>4 DEF Moves, Inv, PrevKnown
  <2>6. DataRegister = [ravail |-> 0, data |-> idle] BY DEF DataRegister
  <2>7. PS2_prev = [ravail |-> 0, data |-> idle]
    BY <2>5 DEF Inv, PrevKnown
  <2> QED BY <2>4, <2>6, <2>7 DEF Moves
<1> QED BY <1>1, InvStarts, InvStep, PTL DEF ProgramSpec, NoDrift

(* Why InsertedIsEnabled does not hold, whatever the bytes: the branch of  *)
(* main for a mouse that was plugged in is never taken, so that only a     *)
(* mouse that init has found ever reports.                                 *)
THEOREM OnlyInitDoes ==
  ProgramSpec => /\ [](enabled => device_type = "PS2_MOUSE")
                 /\ [][Pass => ~Inserted]_programVars
<1>1. Inv => (enabled => device_type = "PS2_MOUSE")
  BY DEF Inv, EnabledInMain
<1>2. Inv /\ [ProgramNext]_programVars => [Pass => ~Inserted]_programVars
  BY PassBytes, NeverInserted
<1> QED BY <1>1, <1>2, InvStarts, InvStep, PTL DEF ProgramSpec

=============================================================================
