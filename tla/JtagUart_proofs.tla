-------------------------- MODULE JtagUart_proofs --------------------------
(***************************************************************************)
(* The driver keeps its indices inside its rings, never turns off an       *)
(* interrupt that somebody still waits for, and is a pipe in either        *)
(* direction, whatever the lengths of the rings and FIFOs, their           *)
(* thresholds and the sizes of the calls.                                  *)
(***************************************************************************)
EXTENDS JtagUart, SequenceTheorems, TLAPS

USE CoreAssumption, UartAssumption

Bytes == 0 .. Numbers - 1

(* What the type invariant rests on: the piece a call is copying is no     *)
(* longer than what is left of the call, and between pieces it is empty.   *)
Pieces == n <= count /\ (pc \notin {"fill", "release"} => n = 0)

TypeInv == JtagTypeOK /\ Pieces

(* What the wake-ups rest on: the device and the driver agree about the    *)
(* enables, and got is a matter of a read that has not returned.           *)
GotReading == got => pc \in {"read", "release", "rkick"}

WakeInv == ien = irq_enable /\ GotReading /\ SendWakeup /\ ReceiveWakeup

-----------------------------------------------------------------------------
LEMMA ModRange == \A v \in Int, m \in Nat \ {0} : v % m \in 0 .. m - 1
  OBVIOUS

(* The next index is inside the ring, and it is another one.               *)
LEMMA SuccFacts ==
  ASSUME NEW i \in Slots
  PROVE  Succ(i) \in Slots /\ Succ(i) # i
<1>1. CASE i = BufLen - 1
  BY <1>1 DEF Succ, Slots
<1>2. CASE i # BufLen - 1
  <2>1. i + 1 \in 0 .. BufLen - 1
    BY <1>2 DEF Slots
  <2>2. (i + 1) % BufLen = i + 1
    BY <2>1
  <2> QED
    BY <2>1, <2>2 DEF Succ, Slots
<1> QED
  BY <1>1, <1>2

(* The two pieces end inside their rings.                                  *)
LEMMA PieceFacts ==
  ASSUME RingTypeOK
  PROVE  /\ TxRoom \in 0 .. BufLen - tx_in
         /\ RxHeld \in 0 .. BufLen - rx_out
<1>1. TxRoom \in 0 .. BufLen - tx_in
  BY DEF RingTypeOK, Slots, TxRoom
<1>2. RxHeld \in 0 .. BufLen - rx_out
  BY DEF RingTypeOK, Slots, RxHeld
<1> QED
  BY <1>1, <1>2

-----------------------------------------------------------------------------
(* What a step leaves alone keeps its type.                                *)
LEMMA CoreStays == CoreTypeOK /\ UNCHANGED coreVars => CoreTypeOK'
  BY DEF CoreTypeOK, coreVars

LEMMA RingStays == RingTypeOK /\ UNCHANGED ringVars => RingTypeOK'
  BY DEF RingTypeOK, ringVars

LEMMA CallStays ==
  CallTypeOK /\ Pieces /\ UNCHANGED callVars => CallTypeOK' /\ Pieces'
  BY DEF CallTypeOK, Pieces, callVars

LEMMA IrqStays == IrqTypeOK /\ UNCHANGED isrVars => IrqTypeOK'
  BY DEF IrqTypeOK, isrVars

LEMMA EnableStays ==
  ASSUME CoreTypeOK, irq_enable \subseteq Enables,
         NEW e \in Enables, Enable(e)
  PROVE  CoreTypeOK' /\ irq_enable' \subseteq Enables
  BY DEF CoreTypeOK, Enable

LEMMA ReturnKeeps ==
  ASSUME CallTypeOK, Return, UNCHANGED <<chunk, wrote, handed>>
  PROVE  CallTypeOK' /\ Pieces'
<1>1. 0 \in Slots /\ "idle" \in Places
  BY DEF Slots, Places
<1>2. got' \in BOOLEAN /\ nonblock' \in BOOLEAN
  BY DEF Return
<1>3. CallTypeOK'
  BY <1>1, <1>2 DEF CallTypeOK, Return
<1>4. Pieces'
  BY DEF Pieces, Return
<1> QED
  BY <1>3, <1>4

-----------------------------------------------------------------------------
(* The variables start with their types and keep them.                     *)
LEMMA TypeInit == UartInit => TypeInv
<1> SUFFICES ASSUME UartInit PROVE TypeInv
  OBVIOUS
<1>0. /\ pause_irq \in BOOLEAN /\ got \in BOOLEAN /\ nonblock \in BOOLEAN
      /\ wi \in BOOLEAN /\ ravail \in BOOLEAN
  BY DEF UartInit, CoreInit
<1>1. CoreTypeOK
  BY <1>0 DEF UartInit, CoreInit, CoreTypeOK, Enables
<1>2. RingTypeOK
  BY DEF UartInit, RingTypeOK, Slots
<1>3. CallTypeOK /\ Pieces
  BY <1>0 DEF UartInit, CallTypeOK, Pieces, Places, Slots
<1>4. IrqTypeOK /\ irq_enable \subseteq Enables
  BY <1>0 DEF UartInit, IrqTypeOK, Enables
<1> QED
  BY <1>1, <1>2, <1>3, <1>4 DEF TypeInv, JtagTypeOK

LEMMA TypeOfCalls ==
  ASSUME TypeInv, Call, UNCHANGED isrVars
  PROVE  TypeInv'
<1>1. /\ UNCHANGED coreVars /\ UNCHANGED ringVars
      /\ irq_enable' = irq_enable
  BY DEF Call, Write, Read, Close
<1>2. CallTypeOK' /\ Pieces'
  BY DEF TypeInv, JtagTypeOK, CallTypeOK, Pieces, Places, Call, Write, Read,
         Close
<1> QED
  BY <1>1, <1>2, CoreStays, RingStays, IrqStays DEF TypeInv, JtagTypeOK

LEMMA TypeOfWrite ==
  ASSUME TypeInv, UNCHANGED isrVars,
         WriteLook \/ WriteFill \/ WriteKick \/ WriteSpin
  PROVE  TypeInv'
<1> USE DEF TypeInv, JtagTypeOK
<1>1. CASE WriteLook
  <2>1. Least(TxRoom, count) \in 0 .. BufLen
        /\ Least(TxRoom, count) <= count
        /\ (TxRoom = 0 => Least(TxRoom, count) = 0)
    <3>1. TxRoom \in 0 .. BufLen - tx_in /\ tx_in \in 0 .. BufLen - 1
      BY PieceFacts DEF Slots, RingTypeOK
    <3>2. count \in Nat
      BY DEF CallTypeOK
    <3> QED
      BY <3>1, <3>2 DEF Least
  <2>2. CallTypeOK' /\ Pieces'
    BY <1>1, <2>1 DEF WriteLook, CallTypeOK, Pieces, Places, Slots, RingTypeOK
  <2> QED
    BY <1>1, <2>2, CoreStays, RingStays, IrqStays DEF WriteLook
<1>2. CASE WriteFill
  <2>1. tx_buf' \in [Slots -> Bytes]
    <3>1. \A i \in Slots : (wrote + i - tx_in) % Numbers \in Bytes
      BY ModRange DEF Slots, Bytes, RingTypeOK, CallTypeOK
    <3> QED
      BY <1>2, <3>1 DEF WriteFill, Bytes, RingTypeOK
  <2>2. tx_in' \in Slots /\ wrote' \in Bytes
    <3>1. tx_in + n \in Int /\ wrote + n \in Int
      BY DEF Slots, RingTypeOK, CallTypeOK
    <3>2. BufLen \in Nat \ {0}
      OBVIOUS
    <3>3. /\ (tx_in + n) % BufLen \in 0 .. BufLen - 1
          /\ (wrote + n) % Numbers \in 0 .. Numbers - 1
      BY <3>1, <3>2, ModRange
    <3> QED
      BY <1>2, <3>3 DEF WriteFill, Slots, Bytes
  <2>3. RingTypeOK'
    BY <1>2, <2>1, <2>2 DEF WriteFill, RingTypeOK, Bytes
  <2>4. CallTypeOK' /\ Pieces'
    BY <1>2, <2>2 DEF WriteFill, CallTypeOK, Pieces, Places, Bytes
  <2> QED
    BY <1>2, <2>3, <2>4, CoreStays, IrqStays DEF WriteFill
<1>3. CASE WriteKick
  <2>1. CoreTypeOK' /\ irq_enable' \subseteq Enables
    BY <1>3, EnableStays DEF WriteKick, Enables
  <2>2. CallTypeOK' /\ Pieces'
    BY <1>3, ReturnKeeps DEF WriteKick, CallTypeOK, Pieces, Places
  <2> QED
    BY <1>3, <2>1, <2>2, RingStays, IrqStays DEF WriteKick
<1>4. CASE WriteSpin
  <2>1. CallTypeOK' /\ Pieces'
    BY <1>4 DEF WriteSpin, CallTypeOK, Pieces, Places, Slots
  <2> QED
    BY <1>4, <2>1, CoreStays, RingStays, IrqStays DEF WriteSpin
<1> QED
  BY <1>1, <1>2, <1>3, <1>4

LEMMA TypeOfRead ==
  ASSUME TypeInv, UNCHANGED isrVars,
         \/ ReadCopy \/ ReadRelease \/ ReadNothing \/ ReadSpin \/ ReadKick
         \/ CloseSpin
  PROVE  TypeInv'
<1> USE DEF TypeInv, JtagTypeOK
<1>1. CASE ReadCopy
  <2>1. /\ Least(RxHeld, count) \in 0 .. BufLen
        /\ Least(RxHeld, count) <= count
        /\ Least(RxHeld, count) <= BufLen - rx_out
    <3>1. RxHeld \in 0 .. BufLen - rx_out /\ rx_out \in 0 .. BufLen - 1
      BY PieceFacts DEF Slots, RingTypeOK
    <3>2. count \in Nat
      BY DEF CallTypeOK
    <3> QED
      BY <3>1, <3>2 DEF Least
  <2>2. chunk' \in Seq(Bytes)
    <3>1. \A i \in 1 .. Least(RxHeld, count) : rx_out + i - 1 \in Slots
      BY <2>1 DEF Slots, RingTypeOK
    <3>2. chunk' \in [1 .. Least(RxHeld, count) -> Bytes]
      BY <1>1, <3>1 DEF ReadCopy, Bytes, RingTypeOK
    <3> QED
      BY <2>1, <3>2
  <2>3. CallTypeOK' /\ Pieces'
    BY <1>1, <2>1, <2>2 DEF ReadCopy, CallTypeOK, Pieces, Places, Bytes
  <2> QED
    BY <1>1, <2>3, CoreStays, RingStays, IrqStays DEF ReadCopy
<1>2. CASE ReadRelease
  <2>1. rx_out' \in Slots /\ handed' \in Bytes
    <3>1. rx_out + n \in Int /\ handed + n \in Int
      BY DEF Slots, RingTypeOK, CallTypeOK
    <3>2. BufLen \in Nat \ {0}
      OBVIOUS
    <3>3. /\ (rx_out + n) % BufLen \in 0 .. BufLen - 1
          /\ (handed + n) % Numbers \in 0 .. Numbers - 1
      BY <3>1, <3>2, ModRange
    <3> QED
      BY <1>2, <3>3 DEF ReadRelease, Slots, Bytes
  <2>2. RingTypeOK'
    BY <1>2, <2>1 DEF ReadRelease, RingTypeOK
  <2>3. CallTypeOK' /\ Pieces'
    BY <1>2, <2>1 DEF ReadRelease, CallTypeOK, Pieces, Places, Bytes
  <2> QED
    BY <1>2, <2>2, <2>3, CoreStays, IrqStays DEF ReadRelease
<1>3. CASE ReadNothing
  <2>1. CallTypeOK' /\ Pieces'
    BY <1>3, ReturnKeeps
    DEF ReadNothing, CallTypeOK, Pieces, Places, RingTypeOK
  <2> QED
    BY <1>3, <2>1, CoreStays, RingStays, IrqStays DEF ReadNothing
<1>4. CASE ReadSpin
  <2>1. CallTypeOK' /\ Pieces'
    BY <1>4 DEF ReadSpin, CallTypeOK, Pieces, Places, Slots
  <2> QED
    BY <1>4, <2>1, CoreStays, RingStays, IrqStays DEF ReadSpin
<1>5. CASE ReadKick
  <2>1. CoreTypeOK' /\ irq_enable' \subseteq Enables
    BY <1>5, EnableStays DEF ReadKick, Enables
  <2> QED
    BY <1>5, <2>1, ReturnKeeps, RingStays, IrqStays DEF ReadKick
<1>6. CASE CloseSpin
  BY <1>6, ReturnKeeps, CoreStays, RingStays, IrqStays DEF CloseSpin
<1> QED
  BY <1>1, <1>2, <1>3, <1>4, <1>5, <1>6

LEMMA TypeOfIrq ==
  ASSUME TypeInv, Irq
  PROVE  TypeInv'
<1> USE DEF TypeInv, JtagTypeOK
<1>1. CASE IrqControl
  <2>1. IrqTypeOK'
    <3>1. WSpace \in 0 .. Depth /\ RI \in BOOLEAN /\ WI \in BOOLEAN
      BY DEF WSpace, CoreTypeOK, RI, WI
    <3> QED
      BY <1>1, <3>1 DEF IrqControl, IrqTypeOK
  <2> QED
    BY <1>1, <2>1, CoreStays, RingStays, CallStays DEF IrqControl
<1>2. CASE IrqReceive
  <2>1. CoreTypeOK'
    <3>1. CASE rfifo = <<>>
      BY <1>2, <3>1 DEF IrqReceive, ReadData, CoreTypeOK
    <3>2. CASE rfifo # <<>>
      <4>1. /\ Tail(rfifo) \in Seq(0 .. Numbers - 1)
            /\ Len(Tail(rfifo)) <= Depth
        BY <3>2 DEF CoreTypeOK
      <4> QED
        BY <1>2, <3>2, <4>1 DEF IrqReceive, ReadData, CoreTypeOK
    <3> QED
      BY <3>1, <3>2
  <2>2. RingTypeOK'
    <3>1. Succ(rx_in) \in Slots
      BY SuccFacts DEF RingTypeOK
    <3>2. rfifo # <<>> => Head(rfifo) \in 0 .. Numbers - 1
      BY DEF CoreTypeOK
    <3> QED
      BY <1>2, <3>1, <3>2 DEF IrqReceive, RingTypeOK
  <2>3. IrqTypeOK'
    BY <1>2 DEF IrqReceive, IrqTypeOK
  <2> QED
    BY <1>2, <2>1, <2>2, <2>3, CallStays DEF IrqReceive
<1>3. CASE IrqReceiveFull
  <2>1. CoreTypeOK' /\ irq_enable' \subseteq Enables
    BY <1>3 DEF IrqReceiveFull, CoreTypeOK
  <2>2. IrqTypeOK'
    BY <1>3 DEF IrqReceiveFull, IrqTypeOK
  <2> QED
    BY <1>3, <2>1, <2>2, RingStays, CallStays DEF IrqReceiveFull
<1>4. CASE IrqSend
  <2>1. CoreTypeOK'
    <3>1. tx_buf[tx_out] \in 0 .. Numbers - 1
      BY DEF RingTypeOK
    <3>2. wfifo' \in Seq(0 .. Numbers - 1) /\ Len(wfifo') <= Depth
      <4>1. CASE WSpace > 0
        <5>1. wfifo' = Append(wfifo, tx_buf[tx_out])
          BY <1>4, <4>1 DEF IrqSend, WriteData
        <5> QED
          BY <3>1, <4>1, <5>1 DEF WSpace, CoreTypeOK
      <4>2. CASE ~(WSpace > 0)
        BY <1>4, <4>2 DEF IrqSend, WriteData, CoreTypeOK
      <4> QED
        BY <4>1, <4>2
    <3> QED
      BY <1>4, <3>2 DEF IrqSend, CoreTypeOK
  <2>2. RingTypeOK'
    BY <1>4, SuccFacts DEF IrqSend, RingTypeOK
  <2>3. IrqTypeOK'
    BY <1>4 DEF IrqSend, IrqTypeOK
  <2> QED
    BY <1>4, <2>1, <2>2, <2>3, CallStays DEF IrqSend
<1>5. CASE IrqSent
  <2>1. CoreTypeOK' /\ irq_enable' \subseteq Enables
    BY <1>5 DEF IrqSent, CoreTypeOK
  <2>2. IrqTypeOK'
    BY <1>5 DEF IrqSent, IrqTypeOK
  <2> QED
    BY <1>5, <2>1, <2>2, RingStays, CallStays DEF IrqSent
<1> QED
  BY <1>1, <1>2, <1>3, <1>4, <1>5 DEF Irq

LEMMA TypeOfCable ==
  ASSUME TypeInv, Cable
  PROVE  TypeInv'
<1>1. CoreTypeOK
  BY DEF TypeInv, JtagTypeOK
<1>2. CoreTypeOK'
  <2>1. CASE HostTake
    <3>1. /\ Tail(wfifo) \in Seq(0 .. Numbers - 1)
          /\ Len(Tail(wfifo)) <= Depth
      BY <1>1, <2>1 DEF HostTake, CoreTypeOK
    <3>2. (taken + 1) % Numbers \in 0 .. Numbers - 1
      BY <1>1, ModRange DEF CoreTypeOK
    <3> QED
      BY <1>1, <2>1, <3>1, <3>2 DEF HostTake, CoreTypeOK
  <2>2. CASE HostType
    <3>1. (typed + 1) % Numbers \in 0 .. Numbers - 1
      BY <1>1, ModRange DEF CoreTypeOK
    <3>2. /\ Append(rfifo, typed) \in Seq(0 .. Numbers - 1)
          /\ Len(Append(rfifo, typed)) <= Depth
      BY <1>1, <2>2 DEF HostType, CoreTypeOK
    <3> QED
      BY <1>1, <2>2, <3>1, <3>2 DEF HostType, CoreTypeOK
  <2>3. CASE HostPause
    BY <1>1, <2>3 DEF HostPause, CoreTypeOK
  <2> QED
    BY <2>1, <2>2, <2>3 DEF Cable, Host
<1> QED
  BY <1>2, RingStays, CallStays, IrqStays DEF Cable, TypeInv, JtagTypeOK

LEMMA TypeStep == TypeInv /\ [UartNext]_uartVars => TypeInv'
<1> SUFFICES ASSUME TypeInv, [UartNext]_uartVars PROVE TypeInv'
  OBVIOUS
<1>1. CASE Program
  BY <1>1, TypeOfCalls, TypeOfWrite, TypeOfRead DEF Program, InCall
<1>2. CASE UNCHANGED uartVars
  BY <1>2, CoreStays, RingStays, CallStays, IrqStays
  DEF uartVars, TypeInv, JtagTypeOK
<1> QED
  BY <1>1, <1>2, TypeOfIrq, TypeOfCable DEF UartNext

(* The variables of the driver and of the core keep their types: every     *)
(* index stays inside its ring and no FIFO holds more than it can.         *)
THEOREM JtagTypeCorrect == UartSpec => []JtagTypeOK
<1>1. TypeInv => JtagTypeOK
  BY DEF TypeInv
<1> QED
  BY <1>1, TypeInit, TypeStep, PTL DEF UartSpec

-----------------------------------------------------------------------------
(* The enables of the device and of the driver change together.            *)
LEMMA WakeInit == UartInit => WakeInv
  BY DEF UartInit, CoreInit, WakeInv, GotReading, SendWakeup, ReceiveWakeup

LEMMA WakeOfProgram ==
  ASSUME TypeInv, WakeInv, Program
  PROVE  WakeInv'
<1> USE DEF WakeInv, GotReading, SendWakeup, ReceiveWakeup
<1>1. CASE Call
  BY <1>1 DEF Call, Write, Read, Close, coreVars, ringVars
<1>2. CASE WriteLook
  BY <1>2 DEF WriteLook, coreVars, ringVars
<1>3. CASE WriteFill
  BY <1>3 DEF WriteFill, coreVars
<1>4. CASE WriteKick
  BY <1>4 DEF WriteKick, Enable, Return, ringVars
<1>5. CASE WriteSpin
  BY <1>5 DEF WriteSpin, coreVars, ringVars
<1>6. CASE ReadCopy
  BY <1>6 DEF ReadCopy, coreVars, ringVars
<1>7. CASE ReadRelease
  BY <1>7 DEF ReadRelease, coreVars
<1>8. CASE ReadNothing
  BY <1>8 DEF ReadNothing, Return, coreVars, ringVars
<1>9. CASE ReadSpin
  BY <1>9 DEF ReadSpin, coreVars, ringVars
<1>10. CASE ReadKick
  BY <1>10 DEF ReadKick, Enable, Return, ringVars
<1>11. CASE CloseSpin
  BY <1>11 DEF CloseSpin, Return, coreVars, ringVars
<1> QED
  BY <1>1, <1>2, <1>3, <1>4, <1>5, <1>6, <1>7, <1>8, <1>9, <1>10, <1>11
  DEF Program, InCall

(* A full ring is not an empty one, so the receive interrupt goes off only *)
(* when there is something to read.  The transmit interrupt goes off only  *)
(* when room is left, and then the ring has been emptied.                  *)
LEMMA WakeOfIrq ==
  ASSUME TypeInv, WakeInv, Irq
  PROVE  WakeInv'
<1> USE DEF WakeInv, GotReading, SendWakeup, ReceiveWakeup, callVars
<1>1. rx_in \in Slots /\ space \in Nat
  BY DEF TypeInv, JtagTypeOK, RingTypeOK, IrqTypeOK
<1>2. CASE IrqControl
  BY <1>2 DEF IrqControl, coreVars, ringVars
<1>3. CASE IrqReceive
  <2>1. rx_in' # rx_out' \/ (rx_in' = rx_in /\ rx_out' = rx_out)
    BY <1>3 DEF IrqReceive
  <2> QED
    BY <1>3, <2>1 DEF IrqReceive
<1>4. CASE IrqReceiveFull
  <2>1. rx_in # rx_out
    BY <1>1, <1>4, SuccFacts DEF IrqReceiveFull
  <2> QED
    BY <1>4, <2>1 DEF IrqReceiveFull, ringVars
<1>5. CASE IrqSend
  BY <1>5 DEF IrqSend
<1>6. CASE IrqSent
  <2>1. space > 0 => tx_out = tx_in
    BY <1>1, <1>6 DEF IrqSent
  <2> QED
    BY <1>6, <2>1 DEF IrqSent, ringVars
<1> QED
  BY <1>2, <1>3, <1>4, <1>5, <1>6 DEF Irq

LEMMA WakeStep == TypeInv /\ WakeInv /\ [UartNext]_uartVars => WakeInv'
<1> SUFFICES ASSUME TypeInv, WakeInv, [UartNext]_uartVars PROVE WakeInv'
  OBVIOUS
<1> USE DEF WakeInv, GotReading, SendWakeup, ReceiveWakeup
<1>1. CASE Cable
  BY <1>1 DEF Cable, Host, HostTake, HostType, HostPause, ringVars, callVars
<1>2. CASE UNCHANGED uartVars
  BY <1>2 DEF uartVars, coreVars, ringVars, callVars
<1> QED
  BY <1>1, <1>2, WakeOfProgram, WakeOfIrq DEF UartNext

(* Bytes in the transmit ring are never forgotten: the interrupt routine   *)
(* has its interrupt on, or write is on its way to turn it on.             *)
THEOREM SendNeverForgotten == UartSpec => []SendWakeup
<1>1. WakeInv => SendWakeup
  BY DEF WakeInv
<1> QED
  BY <1>1, TypeInit, TypeStep, WakeInit, WakeStep, PTL DEF UartSpec

(* The receive interrupt is off only while the ring holds something to     *)
(* read, or while a read that made room is on its way to turn it on.       *)
THEOREM ReceiveNeverDeaf == UartSpec => []ReceiveWakeup
<1>1. WakeInv => ReceiveWakeup
  BY DEF WakeInv
<1> QED
  BY <1>1, TypeInit, TypeStep, WakeInit, WakeStep, PTL DEF UartSpec

-----------------------------------------------------------------------------
(* A number is m times its quotient plus its remainder.                    *)
LEMMA DivMod ==
  ASSUME NEW m \in Int, m > 0, NEW x \in Int
  PROVE  /\ x \div m \in Int /\ x % m \in 0 .. m - 1
         /\ x = m * (x \div m) + (x % m)
<1>1. x \div m \in Int /\ x % m \in Int /\ 0 <= x % m /\ x % m < m
  BY SMT
<1>2. x = m * (x \div m) + (x % m)
  BY SMT
<1> QED
  BY <1>1, <1>2

(* Quotient and remainder are the only ones there are.                     *)
LEMMA ModUnique ==
  ASSUME NEW m \in Int, m > 0, NEW x \in Int,
         NEW q \in Int, NEW r \in Int, 0 <= r, r < m, x = m * q + r
  PROVE  x % m = r
  BY SMT

(* A remainder may be taken before or after an addition.                   *)
LEMMA ModPlus ==
  ASSUME NEW m \in Int, m > 0, NEW a \in Int, NEW b \in Int
  PROVE  ((a % m) + b) % m = (a + b) % m
<1> DEFINE d == a \div m
           e == ((a % m) + b) \div m
           r == ((a % m) + b) % m
<1>1. d \in Int /\ a = m * d + (a % m) /\ a % m \in Int
  BY DivMod
<1>2. (a % m) + b = m * e + r /\ e \in Int /\ r \in Int /\ 0 <= r /\ r < m
  BY <1>1, DivMod
<1> HIDE DEF d, e, r
<1>3. a + b = m * d + m * e + r
  BY <1>1, <1>2
<1>4. m * d + m * e = m * (d + e)
  BY <1>1, <1>2
<1>5. a + b = m * (d + e) + r
  BY <1>1, <1>2, <1>3, <1>4
<1>6. a + b \in Int /\ d + e \in Int
  BY <1>1, <1>2
<1>7. (a + b) % m = r
  BY <1>2, <1>5, <1>6, ModUnique
<1> QED
  BY <1>7 DEF r

(* How many bytes a ring holds.                                            *)
Held(in, out) == IF in >= out THEN in - out ELSE in + BufLen - out

(* Where the i-th byte of a ring lies.                                     *)
Place(out, i) == IF out + i - 1 < BufLen THEN out + i - 1 ELSE out + i - 1 - BufLen

(* An index wraps around once at the most.                                 *)
LEMMA WrapOnce ==
  ASSUME NEW x \in Int, 0 <= x, x < 2 * BufLen
  PROVE  x % BufLen = IF x < BufLen THEN x ELSE x - BufLen
<1>1. BufLen \in Int /\ BufLen > 0
  OBVIOUS
<1>2. CASE x < BufLen
  <2>1. x = BufLen * 0 + x
    BY <1>1
  <2> QED
    BY <1>1, <1>2, <2>1, ModUnique
<1>3. CASE x >= BufLen
  <2>1. x = BufLen * 1 + (x - BufLen) /\ x - BufLen \in Int
        /\ 0 <= x - BufLen /\ x - BufLen < BufLen
    BY <1>1, <1>3
  <2>2. x % BufLen = x - BufLen
    BY <1>1, <2>1, ModUnique
  <2> QED
    BY <1>3, <2>2
<1> QED
  BY <1>1, <1>2, <1>3

(* A ring is a sequence: its length, and where each of its bytes lies.     *)
LEMMA RingFacts ==
  ASSUME NEW buf \in [Slots -> Bytes], NEW in \in Slots, NEW out \in Slots
  PROVE  /\ Ring(buf, in, out) \in Seq(Bytes)
         /\ Held(in, out) \in 0 .. BufLen - 1
         /\ Len(Ring(buf, in, out)) = Held(in, out)
         /\ \A i \in 1 .. Held(in, out) :
              /\ Place(out, i) \in Slots
              /\ Ring(buf, in, out)[i] = buf[Place(out, i)]
<1>1. BufLen \in Int /\ BufLen > 0 /\ Slots = 0 .. BufLen - 1
  BY DEF Slots
<1>2. Held(in, out) \in 0 .. BufLen - 1
  BY <1>1 DEF Held
<1>3. (in + BufLen - out) % BufLen = Held(in, out)
  <2>1. in + BufLen - out \in Int /\ 0 <= in + BufLen - out
        /\ in + BufLen - out < 2 * BufLen
    BY <1>1
  <2> QED
    BY <1>1, <2>1, WrapOnce DEF Held
<1>4. ASSUME NEW i \in 1 .. Held(in, out)
      PROVE  (out + i - 1) % BufLen = Place(out, i) /\ Place(out, i) \in Slots
  <2>1. out + i - 1 \in Int /\ 0 <= out + i - 1 /\ out + i - 1 < 2 * BufLen
    BY <1>1, <1>2
  <2>2. (out + i - 1) % BufLen = Place(out, i)
    BY <1>1, <2>1, WrapOnce DEF Place
  <2>3. Place(out, i) \in Slots
    BY <1>1, <2>1 DEF Place
  <2> QED
    BY <2>2, <2>3
<1>5. Ring(buf, in, out) = [i \in 1 .. Held(in, out) |-> buf[Place(out, i)]]
  BY <1>3, <1>4 DEF Ring
<1>6. Ring(buf, in, out) \in [1 .. Held(in, out) -> Bytes]
  BY <1>4, <1>5
<1>7. Ring(buf, in, out) \in Seq(Bytes) /\ Len(Ring(buf, in, out)) = Held(in, out)
  BY <1>2, <1>6
<1> QED
  BY <1>2, <1>4, <1>5, <1>7

(* The reader moves on by n bytes that lie in one piece.                   *)
LEMMA RingDrop ==
  ASSUME NEW buf \in [Slots -> Bytes], NEW in \in Slots, NEW out \in Slots,
         NEW k \in Nat, k <= Held(in, out), out + k <= BufLen
  PROVE  /\ (out + k) % BufLen \in Slots
         /\ Held(in, (out + k) % BufLen) = Held(in, out) - k
         /\ Ring(buf, in, (out + k) % BufLen) =
              SubSeq(Ring(buf, in, out), k + 1, Len(Ring(buf, in, out)))
<1> DEFINE out2 == (out + k) % BufLen
           R == Ring(buf, in, out)
           R2 == Ring(buf, in, out2)
           h == Held(in, out)
<1>1. BufLen \in Int /\ BufLen > 0 /\ Slots = 0 .. BufLen - 1
  BY DEF Slots
<1>2. out2 = IF out + k < BufLen THEN out + k ELSE 0
  <2>1. out + k \in Int /\ 0 <= out + k /\ out + k < 2 * BufLen
    BY <1>1
  <2> QED
    BY <1>1, <2>1, WrapOnce
<1>3. out2 \in Slots /\ Held(in, out2) = h - k
  BY <1>1, <1>2 DEF Held
<1>4. /\ R \in Seq(Bytes) /\ Len(R) = h /\ h \in 0 .. BufLen - 1
      /\ \A i \in 1 .. h : Place(out, i) \in Slots /\ R[i] = buf[Place(out, i)]
  BY RingFacts
<1>5. /\ R2 \in Seq(Bytes) /\ Len(R2) = h - k
      /\ \A i \in 1 .. h - k : R2[i] = buf[Place(out2, i)]
  <2> HIDE DEF out2, h
  <2>1. /\ R2 \in Seq(Bytes) /\ Len(R2) = Held(in, out2)
        /\ \A i \in 1 .. Held(in, out2) : R2[i] = buf[Place(out2, i)]
    BY <1>3, RingFacts
  <2> QED
    BY <1>3, <2>1
<1>6. \A i \in 1 .. h - k : Place(out2, i) = Place(out, k + i)
  <2> HIDE DEF h
  <2> TAKE i \in 1 .. h - k
  <2>1. CASE out + k < BufLen
    BY <1>1, <1>2, <1>4, <2>1 DEF Place
  <2>2. CASE out + k = BufLen
    BY <1>1, <1>2, <1>4, <2>2 DEF Place
  <2> QED
    BY <1>1, <2>1, <2>2
<1> HIDE DEF out2, R, R2, h
<1>7. \A i \in k + 1 .. h : R[i] \in Bytes
  BY <1>4, ElementOfSeq
<1>8. /\ SubSeq(R, k + 1, h) \in Seq(Bytes)
      /\ Len(SubSeq(R, k + 1, h)) = h - k
      /\ \A i \in 1 .. h - k : SubSeq(R, k + 1, h)[i] = R[k + i]
  <2>1. k + 1 \in Int /\ h \in Int
    BY <1>4
  <2>2. /\ SubSeq(R, k + 1, h) \in Seq(Bytes)
        /\ Len(SubSeq(R, k + 1, h)) = IF k + 1 <= h THEN h - (k + 1) + 1 ELSE 0
        /\ \A i \in 1 .. h - (k + 1) + 1 :
             SubSeq(R, k + 1, h)[i] = R[(k + 1) + i - 1]
    BY <1>7, <2>1, SubSeqProperties
  <2>3. h - (k + 1) + 1 = h - k /\ k <= h
    BY <2>1 DEF h
  <2>4. \A i \in 1 .. h - k : (k + 1) + i - 1 = k + i
    BY <2>1
  <2> QED
    BY <2>1, <2>2, <2>3, <2>4
<1>9. \A i \in 1 .. h - k : k + i \in 1 .. h
  BY <1>4
<1>10. \A i \in 1 .. Len(R2) : R2[i] = SubSeq(R, k + 1, h)[i]
  BY <1>4, <1>5, <1>6, <1>8, <1>9
<1>11. R2 = SubSeq(R, k + 1, h)
  BY <1>5, <1>8, <1>10, SeqEqual
<1> QED
  BY <1>3, <1>4, <1>11 DEF out2, R, R2, h

(* k bytes in one piece, from in on.                                       *)
Piece(buf, in, k) == [i \in 1 .. k |-> buf[in + i - 1]]

(* The writer adds k bytes in one piece, in slots that hold nothing.       *)
LEMMA RingFill ==
  ASSUME NEW buf \in [Slots -> Bytes], NEW buf2 \in [Slots -> Bytes],
         NEW in \in Slots, NEW out \in Slots,
         NEW k \in Nat, in + k <= BufLen, Held(in, out) + k <= BufLen - 1,
         \A i \in Slots : i \notin in .. in + k - 1 => buf2[i] = buf[i]
  PROVE  /\ (in + k) % BufLen \in Slots
         /\ Held((in + k) % BufLen, out) = Held(in, out) + k
         /\ \A i \in 1 .. Held(in, out) : Place(out, i) \notin in .. in + k - 1
         /\ Ring(buf2, (in + k) % BufLen, out) =
              Ring(buf, in, out) \o Piece(buf2, in, k)
<1> DEFINE in2 == (in + k) % BufLen
           R == Ring(buf, in, out)
           R2 == Ring(buf2, in2, out)
           h == Held(in, out)
           new == Piece(buf2, in, k)
<1>1. BufLen \in Int /\ BufLen > 0 /\ Slots = 0 .. BufLen - 1
  BY DEF Slots
<1>2. in2 = IF in + k < BufLen THEN in + k ELSE 0
  <2>1. in + k \in Int /\ 0 <= in + k /\ in + k < 2 * BufLen
    BY <1>1
  <2> QED
    BY <1>1, <2>1, WrapOnce
<1>3. in2 \in Slots /\ Held(in2, out) = h + k
  BY <1>1, <1>2 DEF Held
<1>4. /\ R \in Seq(Bytes) /\ Len(R) = h /\ h \in 0 .. BufLen - 1
      /\ \A i \in 1 .. h : Place(out, i) \in Slots /\ R[i] = buf[Place(out, i)]
  BY RingFacts
<1>5. /\ R2 \in Seq(Bytes) /\ Len(R2) = h + k
      /\ \A i \in 1 .. h + k : R2[i] = buf2[Place(out, i)]
  <2> HIDE DEF in2, h
  <2>1. /\ R2 \in Seq(Bytes) /\ Len(R2) = Held(in2, out)
        /\ \A i \in 1 .. Held(in2, out) : R2[i] = buf2[Place(out, i)]
    BY <1>3, RingFacts
  <2> QED
    BY <1>3, <2>1
<1>6. \A i \in 1 .. h : Place(out, i) \notin in .. in + k - 1
  BY <1>1 DEF Place, Held
<1>7. \A i \in 1 .. k : Place(out, h + i) = in + i - 1
  BY <1>1 DEF Place, Held
<1>8. /\ new \in Seq(Bytes) /\ Len(new) = k
      /\ \A i \in 1 .. k : new[i] = buf2[in + i - 1]
  <2>1. \A i \in 1 .. k : in + i - 1 \in Slots
    BY <1>1
  <2>2. new \in [1 .. k -> Bytes]
    BY <2>1 DEF Piece
  <2>3. \A i \in 1 .. k : new[i] = buf2[in + i - 1]
    BY DEF Piece
  <2>4. new \in Seq(Bytes) /\ Len(new) = k
    BY <2>2
  <2> QED
    BY <2>3, <2>4
<1> HIDE DEF in2, R, R2, h, new
<1>9. /\ R \o new \in Seq(Bytes) /\ Len(R \o new) = h + k
      /\ \A i \in 1 .. h + k :
           (R \o new)[i] = IF i <= h THEN R[i] ELSE new[i - h]
  <2>1. /\ R \o new \in Seq(Bytes) /\ Len(R \o new) = Len(R) + Len(new)
        /\ \A i \in 1 .. Len(R) + Len(new) :
             (R \o new)[i] = IF i <= Len(R) THEN R[i] ELSE new[i - Len(R)]
    BY <1>4, <1>8, ConcatProperties
  <2> QED
    BY <1>4, <1>8, <2>1
<1>10. \A i \in 1 .. Len(R2) : R2[i] = (R \o new)[i]
  <2> SUFFICES ASSUME NEW i \in 1 .. h + k PROVE R2[i] = (R \o new)[i]
    BY <1>5
  <2>1. CASE i <= h
    <3>1. i \in 1 .. h
      BY <1>4, <2>1
    <3> QED
      BY <1>4, <1>5, <1>6, <1>9, <2>1, <3>1
  <2>2. CASE i > h
    <3>1. i - h \in 1 .. k /\ h + (i - h) = i
      BY <1>4, <2>2
    <3>2. new[i - h] = buf2[in + (i - h) - 1]
      BY <1>8, <3>1
    <3>3. Place(out, i) = in + (i - h) - 1
      BY <1>7, <3>1
    <3> QED
      BY <1>4, <1>5, <1>9, <2>2, <3>2, <3>3
  <2>3. i <= h \/ i > h
    BY <1>4
  <2> QED
    BY <2>1, <2>2, <2>3
<1>11. R2 = R \o new
  BY <1>5, <1>9, <1>10, SeqEqual
<1> QED
  BY <1>3, <1>6, <1>11 DEF in2, R, R2, h, new

(* A ring has room unless the next slot is the reader's, and holds         *)
(* something unless both are at the same slot.                             *)
LEMMA HeldFacts ==
  ASSUME NEW in \in Slots, NEW out \in Slots
  PROVE  /\ Succ(in) # out => Held(in, out) + 1 <= BufLen - 1
         /\ in # out => Held(in, out) >= 1
         /\ Held(in, out) \in 0 .. BufLen - 1
<1>1. BufLen \in Int /\ BufLen > 1 /\ Slots = 0 .. BufLen - 1
  BY DEF Slots
<1>2. Succ(in) = IF in + 1 < BufLen THEN in + 1 ELSE 0
  <2> DEFINE x == in + 1
  <2>1. x \in Int /\ 0 <= x /\ x < 2 * BufLen
    BY <1>1
  <2> HIDE DEF x
  <2>2. x % BufLen = IF x < BufLen THEN x ELSE x - BufLen
    BY <1>1, <2>1, WrapOnce
  <2>3. x >= BufLen => x - BufLen = 0
    BY <1>1 DEF x
  <2>4. Succ(in) = x % BufLen
    BY DEF Succ, x
  <2> QED
    BY <1>1, <2>1, <2>2, <2>3, <2>4 DEF x
<1> QED
  BY <1>1, <1>2 DEF Held

-----------------------------------------------------------------------------
(* Two queues, one behind the other.                                       *)
LEMMA ConcatFacts ==
  ASSUME NEW s \in Seq(Bytes), NEW t \in Seq(Bytes)
  PROVE  /\ s \o t \in Seq(Bytes) /\ Len(s \o t) = Len(s) + Len(t)
         /\ Len(s) \in Nat /\ Len(t) \in Nat
         /\ \A i \in 1 .. Len(s) : i \in 1 .. Len(s) + Len(t) /\ (s \o t)[i] = s[i]
         /\ \A i \in 1 .. Len(s) + Len(t) :
              i > Len(s) => (s \o t)[i] = t[i - Len(s)] /\ i - Len(s) \in 1 .. Len(t)
<1>1. Len(s) \in Nat /\ Len(t) \in Nat
  OBVIOUS
<1>2. /\ s \o t \in Seq(Bytes) /\ Len(s \o t) = Len(s) + Len(t)
      /\ \A i \in 1 .. Len(s) + Len(t) :
           (s \o t)[i] = IF i <= Len(s) THEN s[i] ELSE t[i - Len(s)]
  BY ConcatProperties
<1> QED
  BY <1>1, <1>2

(* The bytes from m + 1 to b of a queue.                                   *)
LEMMA SubSeqFacts ==
  ASSUME NEW s \in Seq(Bytes), NEW b \in 0 .. Len(s), NEW m \in 0 .. b
  PROVE  /\ SubSeq(s, m + 1, b) \in Seq(Bytes)
         /\ Len(SubSeq(s, m + 1, b)) = b - m
         /\ \A i \in 1 .. b - m : SubSeq(s, m + 1, b)[i] = s[m + i]
<1>1. Len(s) \in Nat /\ m + 1 \in Int /\ b \in Int /\ m \in Int
  OBVIOUS
<1>2. \A i \in m + 1 .. b : s[i] \in Bytes
  BY <1>1, ElementOfSeq
<1>3. /\ SubSeq(s, m + 1, b) \in Seq(Bytes)
      /\ Len(SubSeq(s, m + 1, b)) = IF m + 1 <= b THEN b - (m + 1) + 1 ELSE 0
      /\ \A i \in 1 .. b - (m + 1) + 1 :
           SubSeq(s, m + 1, b)[i] = s[(m + 1) + i - 1]
  BY <1>1, <1>2, SubSeqProperties
<1>4. b - (m + 1) + 1 = b - m /\ (m + 1 > b => b - m = 0)
  BY <1>1
<1>5. \A i \in 1 .. b - m : (m + 1) + i - 1 = m + i
  BY <1>1
<1> QED
  BY <1>3, <1>4, <1>5

(* Taking from the front of the first part is taking from the front.       *)
LEMMA DropFront ==
  ASSUME NEW s \in Seq(Bytes), NEW t \in Seq(Bytes), NEW m \in 0 .. Len(s)
  PROVE  SubSeq(s, m + 1, Len(s)) \o t = SubSeq(s \o t, m + 1, Len(s \o t))
<1> DEFINE u == SubSeq(s, m + 1, Len(s))
           v == SubSeq(s \o t, m + 1, Len(s \o t))
           l == Len(s)
           r == Len(t)
<1>1. l \in Nat /\ r \in Nat /\ m \in Nat /\ m <= l
  OBVIOUS
<1>2. s \o t \in Seq(Bytes) /\ Len(s \o t) = l + r
  BY ConcatFacts
<1>3. /\ u \in Seq(Bytes) /\ Len(u) = l - m
      /\ \A i \in 1 .. l - m : u[i] = s[m + i]
  <2>1. Len(s) \in 0 .. Len(s)
    BY <1>1
  <2> QED
    BY <2>1, SubSeqFacts
<1>4. /\ v \in Seq(Bytes) /\ Len(v) = l + r - m
      /\ \A i \in 1 .. l + r - m : v[i] = (s \o t)[m + i]
  <2>1. Len(s \o t) \in 0 .. Len(s \o t) /\ m \in 0 .. Len(s \o t)
    BY <1>1, <1>2
  <2>2. /\ v \in Seq(Bytes) /\ Len(v) = Len(s \o t) - m
        /\ \A i \in 1 .. Len(s \o t) - m : v[i] = (s \o t)[m + i]
    BY <1>2, <2>1, SubSeqFacts
  <2> HIDE DEF v, l, r
  <2>3. Len(s \o t) - m = l + r - m
    BY <1>1, <1>2
  <2> QED
    BY <2>2, <2>3
<1> HIDE DEF u, v
<1>5. /\ u \o t \in Seq(Bytes) /\ Len(u \o t) = Len(u) + Len(t)
      /\ \A i \in 1 .. Len(u) : (u \o t)[i] = u[i]
      /\ \A i \in 1 .. Len(u) + Len(t) : i > Len(u) => (u \o t)[i] = t[i - Len(u)]
  BY <1>3, ConcatFacts
<1>6. /\ \A i \in 1 .. l : (s \o t)[i] = s[i]
      /\ \A i \in 1 .. l + r : i > l => (s \o t)[i] = t[i - l]
  BY ConcatFacts
<1>7. ASSUME NEW i \in 1 .. l + r - m PROVE (u \o t)[i] = v[i]
  <2> HIDE DEF l, r
  <2>1. CASE i <= l - m
    <3>1. i \in 1 .. l - m /\ m + i \in 1 .. l
      BY <1>1, <2>1
    <3> QED
      BY <1>3, <1>4, <1>5, <1>6, <3>1
  <2>2. CASE i > l - m
    <3>1. /\ i \in 1 .. (l - m) + r /\ m + i \in 1 .. l + r /\ m + i > l
          /\ i - (l - m) = (m + i) - l
      BY <1>1, <2>2
    <3>2. (u \o t)[i] = t[i - (l - m)]
      BY <1>3, <1>5, <2>2, <3>1 DEF r
    <3>3. v[i] = t[(m + i) - l]
      BY <1>4, <1>6, <3>1
    <3> QED
      BY <3>1, <3>2, <3>3
  <2>3. i <= l - m \/ i > l - m
    BY <1>1
  <2> QED
    BY <2>1, <2>2, <2>3
<1>8. Len(u \o t) = Len(v) /\ Len(v) = l + r - m
  <2> HIDE DEF l
  <2> QED
    BY <1>1, <1>3, <1>4, <1>5
<1>9. u \o t = v
  BY <1>4, <1>5, <1>7, <1>8, SeqEqual
<1> QED
  BY <1>9 DEF u, v

(* A byte handed from the second part to the first stays in its place.     *)
LEMMA MoveOver ==
  ASSUME NEW s \in Seq(Bytes), NEW t \in Seq(Bytes), t # <<>>
  PROVE  Append(s, Head(t)) \o Tail(t) = s \o t
<1>1. Head(t) \in Bytes /\ Tail(t) \in Seq(Bytes) /\ <<Head(t)>> \in Seq(Bytes)
  OBVIOUS
<1>2. Append(s, Head(t)) = s \o <<Head(t)>>
  BY <1>1, AppendIsConcat
<1>3. (s \o <<Head(t)>>) \o Tail(t) = s \o (<<Head(t)>> \o Tail(t))
  BY <1>1, ConcatAssociative
<1>4. <<Head(t)>> \o Tail(t) = t
  <2>1. <<Head(t)>> \o Tail(t) \in Seq(Bytes)
    BY <1>1, ConcatFacts
  <2>2. Len(<<Head(t)>> \o Tail(t)) = Len(t)
    BY <1>1, ConcatFacts
  <2>3. \A i \in 1 .. Len(t) : (<<Head(t)>> \o Tail(t))[i] = t[i]
    OBVIOUS
  <2> QED
    BY <2>1, <2>2, <2>3, SeqEqual
<1> QED
  BY <1>2, <1>3, <1>4

-----------------------------------------------------------------------------
(* m consecutive numbers from k on.                                        *)
Run(k, m) == [i \in 1 .. m |-> (k + i - 1) % Numbers]

(* The bytes of a queue are numbered from tk on, up to the next one, nx.   *)
Numbered(s, nx, tk) ==
  /\ s \in Seq(Bytes)
  /\ \A i \in 1 .. Len(s) : s[i] = (tk + i - 1) % Numbers
  /\ nx = (tk + Len(s)) % Numbers

(* A run is a sequence of numbers.                                         *)
LEMMA RunFacts ==
  ASSUME NEW k \in Int, NEW m \in Nat
  PROVE  /\ Run(k, m) \in Seq(Bytes) /\ Len(Run(k, m)) = m
         /\ \A i \in 1 .. m : Run(k, m)[i] = (k + i - 1) % Numbers
<1>1. Numbers \in Nat \ {0}
  OBVIOUS
<1>2. \A i \in 1 .. m : (k + i - 1) % Numbers \in Bytes
  BY <1>1, ModRange DEF Bytes
<1>3. Run(k, m) \in [1 .. m -> Bytes]
  BY <1>2 DEF Run
<1>4. Run(k, m) \in Seq(Bytes) /\ Len(Run(k, m)) = m
  BY <1>3
<1>5. \A i \in 1 .. m : Run(k, m)[i] = (k + i - 1) % Numbers
  BY DEF Run
<1> QED
  BY <1>4, <1>5

(* What is put in carries on the numbers.                                  *)
LEMMA NumberedPut ==
  ASSUME NEW s, NEW nx \in Bytes, NEW tk \in Bytes, NEW m \in Nat,
         Numbered(s, nx, tk)
  PROVE  Numbered(s \o Run(nx, m), (nx + m) % Numbers, tk)
<1> DEFINE l == Len(s)
           t == Run(nx, m)
<1>1. /\ Numbers \in Int /\ Numbers > 0 /\ nx \in Int /\ tk \in Int
      /\ s \in Seq(Bytes) /\ l \in Nat /\ nx = (tk + l) % Numbers
      /\ \A i \in 1 .. l : s[i] = (tk + i - 1) % Numbers
  BY DEF Numbered, Bytes
<1>2. /\ t \in Seq(Bytes) /\ Len(t) = m
      /\ \A i \in 1 .. m : t[i] = (nx + i - 1) % Numbers
  BY <1>1, RunFacts
<1> HIDE DEF t
<1>3. /\ s \o t \in Seq(Bytes) /\ Len(s \o t) = l + m
      /\ \A i \in 1 .. l : (s \o t)[i] = s[i]
      /\ \A i \in 1 .. l + m : i > l => (s \o t)[i] = t[i - l]
  BY <1>1, <1>2, ConcatFacts
<1> HIDE DEF l
<1>4. ASSUME NEW b \in Int
      PROVE  (nx + b) % Numbers = (tk + l + b) % Numbers
  <2>1. tk + l \in Int
    BY <1>1
  <2>2. (((tk + l) % Numbers) + b) % Numbers = (tk + l + b) % Numbers
    BY <1>1, <2>1, ModPlus
  <2> QED
    BY <1>1, <2>2
<1>5. ASSUME NEW i \in 1 .. l + m
      PROVE  (s \o t)[i] = (tk + i - 1) % Numbers
  <2>1. CASE i <= l
    <3>1. i \in 1 .. l
      BY <1>1, <2>1
    <3> QED
      BY <1>1, <1>3, <3>1
  <2>2. CASE i > l
    <3>1. i - l \in 1 .. m /\ i - l - 1 \in Int
      BY <1>1, <2>2
    <3>2. (s \o t)[i] = (nx + (i - l) - 1) % Numbers
      BY <1>2, <1>3, <2>2, <3>1
    <3>3. nx + (i - l) - 1 = nx + (i - l - 1)
      BY <1>1
    <3>4. (nx + (i - l - 1)) % Numbers = (tk + l + (i - l - 1)) % Numbers
      BY <1>4, <3>1
    <3>5. tk + l + (i - l - 1) = tk + i - 1
      BY <1>1
    <3> QED
      BY <3>2, <3>3, <3>4, <3>5
  <2>3. i <= l \/ i > l
    BY <1>1
  <2> QED
    BY <2>1, <2>2, <2>3
<1>6. (nx + m) % Numbers = (tk + Len(s \o t)) % Numbers
  <2>1. tk + Len(s \o t) = tk + l + m
    BY <1>1, <1>3
  <2> QED
    BY <1>4, <2>1
<1> QED
  BY <1>3, <1>5, <1>6 DEF Numbered, t

(* What is taken from the front is numbered from tk on, and so are the     *)
(* bytes that stay from the number behind it.                              *)
LEMMA NumberedGet ==
  ASSUME NEW s, NEW nx \in Bytes, NEW tk \in Bytes, Numbered(s, nx, tk),
         NEW m \in 0 .. Len(s)
  PROVE  /\ SubSeq(s, 1, m) = Run(tk, m)
         /\ Numbered(SubSeq(s, m + 1, Len(s)), nx, (tk + m) % Numbers)
<1> DEFINE l == Len(s)
           u == SubSeq(s, m + 1, l)
           v == SubSeq(s, 1, m)
<1>1. /\ Numbers \in Int /\ Numbers > 0 /\ nx \in Int /\ tk \in Int
      /\ s \in Seq(Bytes) /\ l \in Nat /\ nx = (tk + l) % Numbers
      /\ \A i \in 1 .. l : s[i] = (tk + i - 1) % Numbers
      /\ m \in Nat /\ m <= l
  BY DEF Numbered, Bytes
<1>2. /\ u \in Seq(Bytes) /\ Len(u) = l - m
      /\ \A i \in 1 .. l - m : u[i] = s[m + i]
  <2>1. Len(s) \in 0 .. Len(s)
    BY <1>1
  <2> QED
    BY <1>1, <2>1, SubSeqFacts
<1>3. /\ v \in Seq(Bytes) /\ Len(v) = m
      /\ \A i \in 1 .. m : v[i] = s[i]
  <2>1. 0 \in 0 .. m /\ 0 + 1 = 1 /\ m - 0 = m /\ \A i \in 1 .. m : 0 + i = i
    BY <1>1
  <2>2. /\ SubSeq(s, 0 + 1, m) \in Seq(Bytes)
        /\ Len(SubSeq(s, 0 + 1, m)) = m - 0
        /\ \A i \in 1 .. m - 0 : SubSeq(s, 0 + 1, m)[i] = s[0 + i]
    BY <1>1, <2>1, SubSeqFacts
  <2> QED
    BY <2>1, <2>2
<1> HIDE DEF u, v, l
<1>4. v = Run(tk, m)
  <2>1. /\ Run(tk, m) \in Seq(Bytes) /\ Len(Run(tk, m)) = m
        /\ \A i \in 1 .. m : Run(tk, m)[i] = (tk + i - 1) % Numbers
    BY <1>1, RunFacts
  <2>2. \A i \in 1 .. m : i \in 1 .. l
    BY <1>1
  <2>3. \A i \in 1 .. Len(v) : v[i] = Run(tk, m)[i]
    BY <1>1, <1>3, <2>1, <2>2
  <2> QED
    BY <1>3, <2>1, <2>3, SeqEqual
<1>5. ASSUME NEW b \in Int
      PROVE  (((tk + m) % Numbers) + b) % Numbers = (tk + m + b) % Numbers
  <2>1. tk + m \in Int
    BY <1>1
  <2> QED
    BY <1>1, <2>1, ModPlus
<1>6. ASSUME NEW i \in 1 .. l - m
      PROVE  u[i] = (((tk + m) % Numbers) + i - 1) % Numbers
  <2>1. m + i \in 1 .. l /\ i - 1 \in Int
    BY <1>1
  <2>2. u[i] = (tk + (m + i) - 1) % Numbers
    BY <1>1, <1>2, <2>1
  <2>3. (((tk + m) % Numbers) + (i - 1)) % Numbers = (tk + m + (i - 1)) % Numbers
    BY <1>5, <2>1
  <2>4. tk + (m + i) - 1 = tk + m + (i - 1)
    BY <1>1
  <2>5. (tk + m) % Numbers \in Int
    BY <1>1, DivMod
  <2>6. ((tk + m) % Numbers) + (i - 1) = ((tk + m) % Numbers) + i - 1
    BY <2>5
  <2> QED
    BY <2>2, <2>3, <2>4, <2>6
<1>7. nx = (((tk + m) % Numbers) + Len(u)) % Numbers
  <2>1. Len(u) \in Int /\ tk + m + Len(u) = tk + l
    BY <1>1, <1>2
  <2> QED
    BY <1>1, <1>5, <2>1
<1>8. Numbered(u, nx, (tk + m) % Numbers)
  BY <1>2, <1>6, <1>7 DEF Numbered
<1> QED
  BY <1>4, <1>8 DEF u, v, l

(* One byte less at the front is the tail.                                 *)
LEMMA TailIsRest ==
  ASSUME NEW s \in Seq(Bytes), s # <<>>
  PROVE  /\ SubSeq(s, 2, Len(s)) = Tail(s)
         /\ 1 \in 0 .. Len(s) /\ Len(Tail(s)) = Len(s) - 1
<1>1. Len(s) \in Nat /\ Len(s) >= 1
  OBVIOUS
<1>2. /\ Tail(s) \in Seq(Bytes) /\ Len(Tail(s)) = Len(s) - 1
      /\ \A i \in 1 .. Len(s) - 1 : Tail(s)[i] = s[i + 1]
  OBVIOUS
<1>3. /\ SubSeq(s, 2, Len(s)) \in Seq(Bytes)
      /\ Len(SubSeq(s, 2, Len(s))) = Len(s) - 1
      /\ \A i \in 1 .. Len(s) - 1 : SubSeq(s, 2, Len(s))[i] = s[1 + i]
  <2>1. Len(s) \in 0 .. Len(s) /\ 1 \in 0 .. Len(s) /\ 1 + 1 = 2
    BY <1>1
  <2>2. /\ SubSeq(s, 1 + 1, Len(s)) \in Seq(Bytes)
        /\ Len(SubSeq(s, 1 + 1, Len(s))) = Len(s) - 1
        /\ \A i \in 1 .. Len(s) - 1 : SubSeq(s, 1 + 1, Len(s))[i] = s[1 + i]
    BY <2>1, SubSeqFacts
  <2> QED
    BY <2>1, <2>2
<1>4. \A i \in 1 .. Len(s) - 1 : i + 1 = 1 + i
  BY <1>1
<1>5. SubSeq(s, 2, Len(s)) = Tail(s)
  BY <1>2, <1>3, <1>4, SeqEqual
<1> QED
  BY <1>1, <1>2, <1>5

-----------------------------------------------------------------------------
(* The two rings, and the queues they are a part of.                       *)
TxRing == Ring(tx_buf, tx_in, tx_out)
RxRing == Ring(rx_buf, rx_in, rx_out)
TxQueue == wfifo \o TxRing
RxQueue == RxRing \o rfifo

(* Either queue carries the numbers between what was taken and the next.   *)
TxInv == Numbered(TxQueue, wrote, taken)
RxInv == Numbered(RxQueue, typed, handed)

(* A call that goes on has something left to do.                           *)
Wants == pc \in {"write", "read", "wspin", "rspin"} => count >= 1

(* The piece of a write lies in the room of the ring, which the routine    *)
(* can only widen.                                                         *)
TxPiece ==
  pc = "fill" =>
    /\ n >= 1 /\ tx_in + n <= BufLen
    /\ Held(tx_in, tx_out) + n <= BufLen - 1

(* The piece of a read lies among the bytes of the ring, which the routine *)
(* does not touch.                                                         *)
RxPiece ==
  pc = "release" =>
    /\ n >= 1 /\ rx_out + n <= BufLen
    /\ n <= Held(rx_in, rx_out)
    /\ chunk = Piece(rx_buf, rx_out, n)

(* The routine never counts on more room than the FIFO has.                *)
Spaced == isr \in {"receive", "send"} => space <= WSpace

(* What both pipes rest on.                                                *)
PipeInv ==
  TypeInv /\ TxInv /\ RxInv /\ Wants /\ TxPiece /\ RxPiece /\ Spaced

(* The types that the lemmas on rings and queues ask for.                  *)
LEMMA Typed ==
  ASSUME TypeInv
  PROVE  /\ tx_buf \in [Slots -> Bytes] /\ tx_in \in Slots /\ tx_out \in Slots
         /\ rx_buf \in [Slots -> Bytes] /\ rx_in \in Slots /\ rx_out \in Slots
         /\ wfifo \in Seq(Bytes) /\ Len(wfifo) \in 0 .. Depth
         /\ rfifo \in Seq(Bytes) /\ Len(rfifo) \in 0 .. Depth
         /\ wrote \in Bytes /\ taken \in Bytes
         /\ typed \in Bytes /\ handed \in Bytes
         /\ n \in 0 .. BufLen /\ count \in Nat
         /\ chunk \in Seq(Bytes)
<1>1. Len(wfifo) \in Nat /\ Len(rfifo) \in Nat
  BY DEF TypeInv, JtagTypeOK, CoreTypeOK
<1> QED
  BY <1>1 DEF TypeInv, JtagTypeOK, CoreTypeOK, RingTypeOK, CallTypeOK, Bytes

(* The sizes of the two queues.                                            *)
LEMMA QueueFacts ==
  ASSUME TypeInv
  PROVE  /\ TxRing \in Seq(Bytes) /\ Len(TxRing) = Held(tx_in, tx_out)
         /\ RxRing \in Seq(Bytes) /\ Len(RxRing) = Held(rx_in, rx_out)
         /\ Held(tx_in, tx_out) \in 0 .. BufLen - 1
         /\ Held(rx_in, rx_out) \in 0 .. BufLen - 1
         /\ TxQueue \in Seq(Bytes) /\ RxQueue \in Seq(Bytes)
         /\ Len(TxQueue) = Len(wfifo) + Held(tx_in, tx_out)
         /\ Len(RxQueue) = Held(rx_in, rx_out) + Len(rfifo)
         /\ Len(TxQueue) \in 0 .. Depth + BufLen - 1
         /\ Len(RxQueue) \in 0 .. Depth + BufLen - 1
<1>1. /\ TxRing \in Seq(Bytes) /\ Len(TxRing) = Held(tx_in, tx_out)
      /\ Held(tx_in, tx_out) \in 0 .. BufLen - 1
  BY Typed, RingFacts DEF TxRing
<1>2. /\ RxRing \in Seq(Bytes) /\ Len(RxRing) = Held(rx_in, rx_out)
      /\ Held(rx_in, rx_out) \in 0 .. BufLen - 1
  BY Typed, RingFacts DEF RxRing
<1>3. TxQueue \in Seq(Bytes) /\ Len(TxQueue) = Len(wfifo) + Len(TxRing)
  BY <1>1, Typed, ConcatFacts DEF TxQueue
<1>4. RxQueue \in Seq(Bytes) /\ Len(RxQueue) = Len(RxRing) + Len(rfifo)
  BY <1>2, Typed, ConcatFacts DEF RxQueue
<1>5. Len(wfifo) \in 0 .. Depth /\ Len(rfifo) \in 0 .. Depth
  BY Typed
<1> QED
  BY <1>1, <1>2, <1>3, <1>4, <1>5

-----------------------------------------------------------------------------
(* A step that carries on the numbers is a step of the pipe.               *)
LEMMA TxPut ==
  ASSUME TypeInv, TxInv, NEW m \in Nat, m >= 1,
         Len(TxQueue) + m <= Depth + BufLen - 1,
         TxQueue' = TxQueue \o Run(wrote, m),
         wrote' = (wrote + m) % Numbers, taken' = taken
  PROVE  TxInv' /\ Tx!PipeNext
<1>1. TxInv'
  BY Typed, NumberedPut DEF TxInv
<1>2. m \in 1 .. Depth + BufLen - 1
  BY QueueFacts
<1>3. Tx!Put(m)
  BY DEF Tx!Put, Tx!Run, Run, TxQueue, TxRing
<1> QED
  BY <1>1, <1>2, <1>3 DEF Tx!PipeNext

LEMMA TxGet ==
  ASSUME TypeInv, TxInv, NEW m \in Nat, m >= 1, m <= Len(TxQueue),
         TxQueue' = SubSeq(TxQueue, m + 1, Len(TxQueue)),
         taken' = (taken + m) % Numbers, wrote' = wrote
  PROVE  TxInv' /\ Tx!PipeNext
<1>1. m \in 0 .. Len(TxQueue) /\ m \in 1 .. Depth + BufLen - 1
  BY QueueFacts
<1>2. /\ SubSeq(TxQueue, 1, m) = Run(taken, m)
      /\ Numbered(SubSeq(TxQueue, m + 1, Len(TxQueue)), wrote,
                  (taken + m) % Numbers)
  BY <1>1, Typed, NumberedGet DEF TxInv
<1>3. TxInv'
  BY <1>2 DEF TxInv
<1>4. Tx!Get(m)
  BY <1>2 DEF Tx!Get, Tx!Run, Run, TxQueue, TxRing
<1> QED
  BY <1>1, <1>3, <1>4 DEF Tx!PipeNext

LEMMA RxPut ==
  ASSUME TypeInv, RxInv, NEW m \in Nat, m >= 1,
         Len(RxQueue) + m <= Depth + BufLen - 1,
         RxQueue' = RxQueue \o Run(typed, m),
         typed' = (typed + m) % Numbers, handed' = handed
  PROVE  RxInv' /\ Rx!PipeNext
<1>1. RxInv'
  BY Typed, NumberedPut DEF RxInv
<1>2. m \in 1 .. Depth + BufLen - 1
  BY QueueFacts
<1>3. Rx!Put(m)
  BY DEF Rx!Put, Rx!Run, Run, RxQueue, RxRing
<1> QED
  BY <1>1, <1>2, <1>3 DEF Rx!PipeNext

LEMMA RxGet ==
  ASSUME TypeInv, RxInv, NEW m \in Nat, m >= 1, m <= Len(RxQueue),
         RxQueue' = SubSeq(RxQueue, m + 1, Len(RxQueue)),
         handed' = (handed + m) % Numbers, typed' = typed
  PROVE  RxInv' /\ Rx!PipeNext
<1>1. m \in 0 .. Len(RxQueue) /\ m \in 1 .. Depth + BufLen - 1
  BY QueueFacts
<1>2. /\ SubSeq(RxQueue, 1, m) = Run(handed, m)
      /\ Numbered(SubSeq(RxQueue, m + 1, Len(RxQueue)), typed,
                  (handed + m) % Numbers)
  BY <1>1, Typed, NumberedGet DEF RxInv
<1>3. RxInv'
  BY <1>2 DEF RxInv
<1>4. Rx!Get(m)
  BY <1>2 DEF Rx!Get, Rx!Run, Run, RxQueue, RxRing
<1> QED
  BY <1>1, <1>3, <1>4 DEF Rx!PipeNext

LEMMA TxStays ==
  ASSUME TxInv, UNCHANGED <<wfifo, tx_buf, tx_in, tx_out, wrote, taken>>
  PROVE  TxInv' /\ UNCHANGED Tx!pipeVars
<1>1. TxQueue' = TxQueue
  BY DEF TxQueue, TxRing
<1> QED
  BY <1>1 DEF TxInv, Tx!pipeVars, TxQueue, TxRing

LEMMA RxStays ==
  ASSUME RxInv, UNCHANGED <<rfifo, rx_buf, rx_in, rx_out, typed, handed>>
  PROVE  RxInv' /\ UNCHANGED Rx!pipeVars
<1>1. RxQueue' = RxQueue
  BY DEF RxQueue, RxRing
<1> QED
  BY <1>1 DEF RxInv, Rx!pipeVars, RxQueue, RxRing

-----------------------------------------------------------------------------
(* The program fills a piece of the ring.                                  *)
LEMMA FillIsPut ==
  ASSUME PipeInv, TypeInv', WriteFill
  PROVE  TxInv' /\ Tx!PipeNext
<1>1. /\ TypeInv /\ TxInv /\ n >= 1 /\ tx_in + n <= BufLen
      /\ Held(tx_in, tx_out) + n <= BufLen - 1
  BY DEF PipeInv, TxPiece, WriteFill
<1>2. /\ tx_in \in Slots /\ tx_out \in Slots
      /\ tx_buf \in [Slots -> Bytes] /\ wfifo \in Seq(Bytes)
  BY <1>1, Typed
<1>0. /\ n \in Nat /\ Slots = 0 .. BufLen - 1 /\ BufLen \in Int
      /\ tx_in \in Int /\ wrote \in Int
      /\ Len(wfifo) \in 0 .. Depth /\ Depth \in Int
  <2>1. n \in 0 .. BufLen /\ wrote \in Bytes /\ Len(wfifo) \in 0 .. Depth
    BY <1>1, Typed
  <2> QED
    BY <1>2, <2>1 DEF Slots, Bytes
<1>3. /\ tx_in' = (tx_in + n) % BufLen /\ tx_out' = tx_out /\ wfifo' = wfifo
      /\ wrote' = (wrote + n) % Numbers /\ taken' = taken
      /\ \A i \in Slots : i \notin tx_in .. tx_in + n - 1 => tx_buf'[i] = tx_buf[i]
      /\ \A i \in Slots : i \in tx_in .. tx_in + n - 1 =>
           tx_buf'[i] = (wrote + i - tx_in) % Numbers
  BY DEF WriteFill, coreVars
<1>4. tx_buf' \in [Slots -> Bytes]
  BY DEF TypeInv, JtagTypeOK, RingTypeOK, Bytes
<1>5. TxRing' = TxRing \o Piece(tx_buf', tx_in, n)
  <2> DEFINE buf2 == tx_buf'
  <2>1. buf2 \in [Slots -> Bytes]
        /\ \A i \in Slots : i \notin tx_in .. tx_in + n - 1 => buf2[i] = tx_buf[i]
    BY <1>3, <1>4
  <2>2. TxRing' = Ring(buf2, (tx_in + n) % BufLen, tx_out)
    BY <1>3 DEF TxRing
  <2> HIDE DEF buf2
  <2>3. Ring(buf2, (tx_in + n) % BufLen, tx_out) =
          Ring(tx_buf, tx_in, tx_out) \o Piece(buf2, tx_in, n)
    <3>1. n \in Nat
      BY <1>0
    <3> QED
      BY <1>1, <1>2, <2>1, <3>1, RingFill
  <2> QED
    BY <2>2, <2>3 DEF TxRing, buf2
<1>6. Piece(tx_buf', tx_in, n) = Run(wrote, n)
  <2>1. ASSUME NEW i \in 1 .. n
        PROVE  tx_buf'[tx_in + i - 1] = (wrote + i - 1) % Numbers
    <3>1. /\ tx_in + i - 1 \in Slots /\ tx_in + i - 1 \in tx_in .. tx_in + n - 1
      BY <1>0, <1>1, <1>2
    <3>2. tx_buf'[tx_in + i - 1] = (wrote + (tx_in + i - 1) - tx_in) % Numbers
      BY <1>3, <3>1
    <3>3. wrote + (tx_in + i - 1) - tx_in = wrote + i - 1
      BY <1>0
    <3> QED
      BY <3>2, <3>3
  <2> QED
    BY <2>1 DEF Run, Piece
<1>7. TxQueue' = TxQueue \o Run(wrote, n)
  <2>1. Run(wrote, n) \in Seq(Bytes) /\ TxRing \in Seq(Bytes)
    BY <1>0, <1>1, RunFacts, QueueFacts
  <2>2. TxRing' = TxRing \o Run(wrote, n)
    BY <1>5, <1>6
  <2>3. TxQueue' = wfifo \o (TxRing \o Run(wrote, n))
    BY <1>3, <2>2 DEF TxQueue
  <2>4. wfifo \o (TxRing \o Run(wrote, n)) = (wfifo \o TxRing) \o Run(wrote, n)
    BY <1>2, <2>1, ConcatAssociative
  <2> QED
    BY <2>3, <2>4 DEF TxQueue
<1>8. Len(TxQueue) + n <= Depth + BufLen - 1
  <2>1. /\ Len(TxQueue) = Len(wfifo) + Held(tx_in, tx_out)
        /\ Held(tx_in, tx_out) \in 0 .. BufLen - 1
    BY <1>1, QueueFacts
  <2> QED
    BY <1>0, <1>1, <2>1
<1> QED
  BY <1>0, <1>1, <1>3, <1>7, <1>8, TxPut

(* The routine hands a byte of the ring to the FIFO.                       *)
LEMMA SendMoves ==
  ASSUME PipeInv, TypeInv', IrqSend
  PROVE  /\ TxInv' /\ UNCHANGED Tx!pipeVars
         /\ Held(tx_in', tx_out') <= Held(tx_in, tx_out)
<1>1. /\ TypeInv /\ TxInv /\ space > 0 /\ space <= WSpace /\ tx_out # tx_in
  BY DEF PipeInv, Spaced, IrqSend
<1>2. /\ tx_in \in Slots /\ tx_out \in Slots
      /\ tx_buf \in [Slots -> Bytes] /\ wfifo \in Seq(Bytes)
  BY <1>1, Typed
<1>0. /\ Slots = 0 .. BufLen - 1 /\ BufLen \in Int /\ BufLen > 0
      /\ tx_in \in Int /\ tx_out \in Int
      /\ space \in Int /\ WSpace \in Int
  <2>1. space \in Int
    BY <1>1 DEF TypeInv, JtagTypeOK, IrqTypeOK
  <2>2. WSpace \in Int
    BY <1>1, Typed DEF WSpace
  <2> QED
    BY <1>2, <2>1, <2>2 DEF Slots
<1>3. /\ tx_out' = (tx_out + 1) % BufLen
      /\ wfifo' = Append(wfifo, tx_buf[tx_out])
      /\ UNCHANGED <<tx_buf, tx_in, wrote, taken>>
  BY <1>0, <1>1 DEF IrqSend, WriteData, Succ, callVars
<1>4. /\ TxRing \in Seq(Bytes) /\ Len(TxRing) = Held(tx_in, tx_out)
      /\ Held(tx_in, tx_out) \in Nat /\ 1 <= Held(tx_in, tx_out)
      /\ tx_out + 1 <= BufLen
  <2>1. tx_in # tx_out
    BY <1>1
  <2>2. Held(tx_in, tx_out) >= 1 /\ Held(tx_in, tx_out) \in 0 .. BufLen - 1
    BY <1>2, <2>1, HeldFacts
  <2> QED
    BY <1>0, <1>1, <1>2, <2>2, QueueFacts
<1>5. TxRing # <<>> /\ Head(TxRing) = tx_buf[tx_out]
  <2>1. 1 \in 1 .. Held(tx_in, tx_out)
    BY <1>4
  <2>2. TxRing[1] = tx_buf[Place(tx_out, 1)]
    BY <1>2, <2>1, RingFacts DEF TxRing
  <2>3. Place(tx_out, 1) = tx_out
    BY <1>0, <1>2 DEF Place
  <2> QED
    BY <1>4, <2>2, <2>3
<1>6. /\ TxRing' = Tail(TxRing)
      /\ Held(tx_in', tx_out') = Held(tx_in, tx_out) - 1
  <2>1. /\ Held(tx_in, (tx_out + 1) % BufLen) = Held(tx_in, tx_out) - 1
        /\ Ring(tx_buf, tx_in, (tx_out + 1) % BufLen) =
             SubSeq(Ring(tx_buf, tx_in, tx_out), 1 + 1,
                    Len(Ring(tx_buf, tx_in, tx_out)))
    BY <1>2, <1>4, RingDrop
  <2>2. TxRing' = SubSeq(TxRing, 2, Len(TxRing))
    BY <1>3, <2>1 DEF TxRing
  <2>3. TxRing' = Tail(TxRing)
    BY <1>4, <1>5, <2>2, TailIsRest
  <2> QED
    BY <1>3, <2>1, <2>3
<1>7. TxQueue' = TxQueue
  <2>1. Append(wfifo, Head(TxRing)) \o Tail(TxRing) = wfifo \o TxRing
    BY <1>2, <1>4, <1>5, MoveOver
  <2> QED
    BY <1>3, <1>5, <1>6, <2>1 DEF TxQueue
<1>8. UNCHANGED Tx!pipeVars
  BY <1>3, <1>7 DEF Tx!pipeVars, TxQueue, TxRing
<1>9. TxInv'
  BY <1>1, <1>3, <1>7 DEF TxInv
<1> QED
  BY <1>4, <1>6, <1>8, <1>9

(* The host takes the oldest byte.                                         *)
LEMMA TakeIsGet ==
  ASSUME PipeInv, HostTake, UNCHANGED <<ringVars, callVars>>
  PROVE  TxInv' /\ Tx!PipeNext
<1>1. TypeInv /\ TxInv /\ wfifo \in Seq(Bytes) /\ wfifo # <<>>
      /\ TxRing \in Seq(Bytes)
  BY Typed, QueueFacts DEF PipeInv, HostTake
<1>2. /\ wfifo' = Tail(wfifo) /\ taken' = (taken + 1) % Numbers
      /\ UNCHANGED <<tx_buf, tx_in, tx_out, wrote>>
  BY DEF HostTake, ringVars, callVars
<1>3. /\ SubSeq(wfifo, 2, Len(wfifo)) = Tail(wfifo) /\ 1 \in 0 .. Len(wfifo)
      /\ Len(wfifo) \in Nat /\ Len(wfifo) >= 1
  BY <1>1, TailIsRest
<1>4. TxQueue' = SubSeq(TxQueue, 1 + 1, Len(TxQueue))
  <2>1. SubSeq(wfifo, 1 + 1, Len(wfifo)) \o TxRing =
          SubSeq(wfifo \o TxRing, 1 + 1, Len(wfifo \o TxRing))
    BY <1>1, <1>3, DropFront
  <2> QED
    <3>1. SubSeq(wfifo, 1 + 1, Len(wfifo)) = Tail(wfifo)
      BY <1>3
    <3>2. TxQueue' = Tail(wfifo) \o TxRing
      BY <1>2 DEF TxQueue, TxRing
    <3> QED
      BY <2>1, <3>1, <3>2 DEF TxQueue
<1>5. 1 <= Len(TxQueue)
  BY <1>1, <1>3, QueueFacts
<1> QED
  BY <1>1, <1>2, <1>4, <1>5, TxGet

-----------------------------------------------------------------------------
(* The program takes the chunk it has copied.                              *)
LEMMA ReleaseIsGet ==
  ASSUME PipeInv, ReadRelease
  PROVE  RxInv' /\ Rx!PipeNext
<1>1. /\ TypeInv /\ RxInv /\ n >= 1 /\ rx_out + n <= BufLen
      /\ n <= Held(rx_in, rx_out)
  BY DEF PipeInv, RxPiece, ReadRelease
<1>2. /\ rx_in \in Slots /\ rx_out \in Slots
      /\ rx_buf \in [Slots -> Bytes] /\ rfifo \in Seq(Bytes) /\ n \in 0 .. BufLen
      /\ RxRing \in Seq(Bytes) /\ Len(RxRing) = Held(rx_in, rx_out)
      /\ Held(rx_in, rx_out) \in 0 .. BufLen - 1
      /\ Len(RxQueue) = Held(rx_in, rx_out) + Len(rfifo)
  BY <1>1, Typed, QueueFacts
<1>3. n \in Nat /\ n \in 0 .. Len(RxRing) /\ n <= Len(RxQueue)
  BY <1>1, <1>2
<1>4. /\ rx_out' = (rx_out + n) % BufLen /\ handed' = (handed + n) % Numbers
      /\ UNCHANGED <<rx_buf, rx_in, rfifo, typed>>
  BY DEF ReadRelease, coreVars
<1>5. RxRing' = SubSeq(RxRing, n + 1, Len(RxRing))
  <2>1. Ring(rx_buf, rx_in, (rx_out + n) % BufLen) =
          SubSeq(Ring(rx_buf, rx_in, rx_out), n + 1,
                 Len(Ring(rx_buf, rx_in, rx_out)))
    BY <1>1, <1>2, <1>3, RingDrop
  <2> QED
    BY <1>4, <2>1 DEF RxRing
<1>6. RxQueue' = SubSeq(RxQueue, n + 1, Len(RxQueue))
  <2>1. SubSeq(RxRing, n + 1, Len(RxRing)) \o rfifo =
          SubSeq(RxRing \o rfifo, n + 1, Len(RxRing \o rfifo))
    BY <1>2, <1>3, DropFront
  <2> QED
    BY <1>4, <1>5, <2>1 DEF RxQueue
<1> QED
  BY <1>1, <1>3, <1>4, <1>6, RxGet

(* The routine hands a byte of the FIFO to the ring, in a slot that holds  *)
(* nothing: what a read has copied, or is copying, stays as it is.         *)
LEMMA ReceiveMoves ==
  ASSUME PipeInv, TypeInv', IrqReceive
  PROVE  RxInv' /\ UNCHANGED Rx!pipeVars /\ RxPiece'
<1>1. TypeInv /\ RxInv /\ RxPiece /\ Succ(rx_in) # rx_out
  BY DEF PipeInv, IrqReceive
<1>2. /\ rx_in \in Slots /\ rx_out \in Slots
      /\ rx_buf \in [Slots -> Bytes] /\ rfifo \in Seq(Bytes) /\ n \in 0 .. BufLen
      /\ RxRing \in Seq(Bytes)
  BY <1>1, Typed, QueueFacts
<1>0. /\ Slots = 0 .. BufLen - 1 /\ BufLen \in Int /\ BufLen > 0
      /\ rx_in \in Int /\ rx_out \in Int /\ n \in Int
  BY <1>2 DEF Slots
<1>3. UNCHANGED <<rx_out, typed, handed, pc, n, chunk>>
  BY DEF IrqReceive, callVars
<1>4. CASE rfifo = <<>>
  <2>1. UNCHANGED <<rx_buf, rx_in, rfifo>>
    BY <1>4 DEF IrqReceive, ReadData
  <2>2. RxPiece'
    BY <1>1, <1>3, <2>1 DEF RxPiece
  <2> QED
    BY <1>1, <1>3, <2>1, <2>2, RxStays
<1>5. CASE rfifo # <<>>
  <2> DEFINE buf2 == rx_buf'
  <2>1. /\ rx_buf' = [rx_buf EXCEPT ![rx_in] = Head(rfifo)]
        /\ rx_in' = (rx_in + 1) % BufLen /\ rfifo' = Tail(rfifo)
    BY <1>5 DEF IrqReceive, ReadData, Succ
  <2>2. buf2 \in [Slots -> Bytes]
    BY DEF TypeInv, JtagTypeOK, RingTypeOK, Bytes
  <2>3. \A i \in Slots : i \notin rx_in .. rx_in + 1 - 1 => buf2[i] = rx_buf[i]
    <3>1. \A i \in Slots : i # rx_in => buf2[i] = rx_buf[i]
      BY <1>2, <2>1
    <3>2. rx_in \in rx_in .. rx_in + 1 - 1
      BY <1>0
    <3> QED
      BY <3>1, <3>2
  <2>4. buf2[rx_in] = Head(rfifo)
    BY <1>2, <2>1
  <2>5. RxRing' = Ring(buf2, (rx_in + 1) % BufLen, rx_out)
    BY <1>3, <2>1 DEF RxRing
  <2> HIDE DEF buf2
  <2>6. /\ Held((rx_in + 1) % BufLen, rx_out) = Held(rx_in, rx_out) + 1
        /\ \A i \in 1 .. Held(rx_in, rx_out) :
             Place(rx_out, i) \notin rx_in .. rx_in + 1 - 1
        /\ Ring(buf2, (rx_in + 1) % BufLen, rx_out) =
             Ring(rx_buf, rx_in, rx_out) \o Piece(buf2, rx_in, 1)
    <3>1. 1 \in Nat /\ rx_in + 1 <= BufLen
      BY <1>0, <1>2
    <3>2. Held(rx_in, rx_out) + 1 <= BufLen - 1
      BY <1>1, <1>2, HeldFacts
    <3> QED
      BY <1>2, <2>2, <2>3, <3>1, <3>2, RingFill
  <2>7. Piece(buf2, rx_in, 1) = <<Head(rfifo)>>
    <3>1. \A i \in 1 .. 1 : rx_in + i - 1 = rx_in
      BY <1>0
    <3>2. Piece(buf2, rx_in, 1) = [i \in 1 .. 1 |-> Head(rfifo)]
      BY <2>4, <3>1 DEF Piece
    <3> QED
      BY <3>2
  <2>8. RxQueue' = RxQueue
    <3>1. RxRing' = RxRing \o <<Head(rfifo)>>
      BY <2>5, <2>6, <2>7 DEF RxRing
    <3>2. Head(rfifo) \in Bytes
      BY <1>2, <1>5
    <3>3. RxRing \o <<Head(rfifo)>> = Append(RxRing, Head(rfifo))
      BY <1>2, <3>2, AppendIsConcat
    <3>4. Append(RxRing, Head(rfifo)) \o Tail(rfifo) = RxRing \o rfifo
      BY <1>2, <1>5, MoveOver
    <3> QED
      BY <2>1, <3>1, <3>3, <3>4 DEF RxQueue
  <2>9. RxPiece'
    <3> SUFFICES ASSUME pc = "release"
                 PROVE  /\ n >= 1 /\ rx_out + n <= BufLen
                        /\ n <= Held((rx_in + 1) % BufLen, rx_out)
                        /\ chunk = Piece(buf2, rx_out, n)
      BY <1>3, <2>1 DEF RxPiece, buf2
    <3>1. /\ n >= 1 /\ rx_out + n <= BufLen /\ n <= Held(rx_in, rx_out)
          /\ chunk = Piece(rx_buf, rx_out, n)
      BY <1>1 DEF RxPiece
    <3>2. Held(rx_in, rx_out) \in Int
      BY <1>2, HeldFacts
    <3>3. ASSUME NEW i \in 1 .. n
          PROVE  buf2[rx_out + i - 1] = rx_buf[rx_out + i - 1]
      <4>1. i \in 1 .. Held(rx_in, rx_out) /\ Place(rx_out, i) = rx_out + i - 1
        BY <1>0, <3>1, <3>2 DEF Place
      <4>2. rx_out + i - 1 \in Slots
        BY <1>0, <1>2, <3>1
      <4> QED
        BY <2>3, <2>6, <4>1, <4>2
    <3>4. Piece(buf2, rx_out, n) = Piece(rx_buf, rx_out, n)
      BY <3>3 DEF Piece
    <3>5. n <= Held(rx_in, rx_out) + 1
      BY <1>0, <3>1, <3>2
    <3> QED
      BY <2>6, <3>1, <3>4, <3>5
  <2>10. UNCHANGED Rx!pipeVars
    BY <1>3, <2>8 DEF Rx!pipeVars, RxQueue, RxRing
  <2>11. RxInv'
    BY <1>1, <1>3, <2>8 DEF RxInv
  <2> QED
    BY <2>9, <2>10, <2>11
<1> QED
  BY <1>4, <1>5

(* The host types a byte.                                                  *)
LEMMA TypeIsPut ==
  ASSUME PipeInv, HostType, UNCHANGED <<ringVars, callVars>>
  PROVE  RxInv' /\ Rx!PipeNext
<1>1. /\ TypeInv /\ RxInv /\ rfifo \in Seq(Bytes) /\ RxRing \in Seq(Bytes)
      /\ typed \in Bytes
  BY Typed, QueueFacts DEF PipeInv
<1>2. /\ Len(rfifo) < Depth /\ rfifo' = Append(rfifo, typed)
      /\ typed' = (typed + 1) % Numbers
      /\ UNCHANGED <<rx_buf, rx_in, rx_out, handed>>
  BY DEF HostType, ringVars, callVars
<1>3. Run(typed, 1) = <<typed>>
  <2>1. typed \in 0 .. Numbers - 1 /\ Numbers \in Int /\ Numbers > 0
    BY <1>1 DEF Bytes
  <2>2. typed = Numbers * 0 + typed /\ typed \in Int /\ 0 <= typed /\ typed < Numbers
    BY <2>1
  <2>3. typed % Numbers = typed
    BY <2>1, <2>2, ModUnique
  <2>4. \A i \in 1 .. 1 : typed + i - 1 = typed
    BY <2>1
  <2>5. Run(typed, 1) = [i \in 1 .. 1 |-> typed]
    BY <2>3, <2>4 DEF Run
  <2> QED
    BY <2>5
<1>4. RxQueue' = RxQueue \o Run(typed, 1)
  <2>1. rfifo' = rfifo \o <<typed>> /\ <<typed>> \in Seq(Bytes)
    BY <1>1, <1>2, AppendIsConcat
  <2>2. RxRing \o (rfifo \o <<typed>>) = (RxRing \o rfifo) \o <<typed>>
    BY <1>1, <2>1, ConcatAssociative
  <2>3. RxRing' = RxRing
    BY <1>2 DEF RxRing
  <2> QED
    BY <1>3, <2>1, <2>2, <2>3 DEF RxQueue
<1>5. Len(RxQueue) + 1 <= Depth + BufLen - 1
  <2>1. /\ Len(RxQueue) = Held(rx_in, rx_out) + Len(rfifo)
        /\ Held(rx_in, rx_out) \in 0 .. BufLen - 1
        /\ Len(rfifo) \in 0 .. Depth
    BY <1>1, Typed, QueueFacts
  <2> QED
    BY <1>2, <2>1
<1>6. 1 \in Nat /\ 1 >= 1
  OBVIOUS
<1> QED
  BY <1>1, <1>2, <1>4, <1>5, <1>6, RxPut

-----------------------------------------------------------------------------
(* A write's piece is chosen inside the room of its ring.                  *)
LEMMA LookChooses ==
  ASSUME PipeInv, WriteLook
  PROVE  TxPiece'
<1>1. TypeInv /\ Wants /\ pc = "write"
  BY DEF PipeInv, WriteLook
<1>2. tx_in \in Slots /\ tx_out \in Slots /\ count \in Nat
  BY <1>1, Typed
<1>3. /\ tx_in \in 0 .. BufLen - 1 /\ tx_out \in 0 .. BufLen - 1
      /\ BufLen \in Int /\ BufLen >= 2 /\ count >= 1
  BY <1>1, <1>2 DEF Slots, Wants
<1>4. /\ TxRoom \in Int /\ TxRoom >= 0 /\ tx_in + TxRoom <= BufLen
      /\ Held(tx_in, tx_out) + TxRoom <= BufLen - 1
  BY <1>3 DEF TxRoom, Held
<1>5. /\ n' = Least(TxRoom, count) /\ UNCHANGED <<tx_in, tx_out>>
      /\ (pc' = "fill" => TxRoom # 0)
  BY DEF WriteLook, ringVars
<1>6. Held(tx_in, tx_out) \in Int
  BY <1>2, HeldFacts
<1>7. /\ Least(TxRoom, count) \in Int /\ Least(TxRoom, count) <= TxRoom
      /\ (TxRoom # 0 => Least(TxRoom, count) >= 1)
  BY <1>2, <1>3, <1>4 DEF Least
<1> HIDE DEF Least
<1>8. /\ tx_in + Least(TxRoom, count) <= BufLen
      /\ Held(tx_in, tx_out) + Least(TxRoom, count) <= BufLen - 1
  BY <1>3, <1>4, <1>6, <1>7
<1> QED
  BY <1>5, <1>7, <1>8 DEF TxPiece

(* A read's piece is chosen among the bytes of its ring.                   *)
LEMMA CopyChooses ==
  ASSUME PipeInv, ReadCopy
  PROVE  RxPiece'
<1>1. TypeInv /\ Wants /\ pc = "read" /\ RxHeld > 0
  BY DEF PipeInv, ReadCopy
<1>2. rx_in \in Slots /\ rx_out \in Slots /\ count \in Nat
  BY <1>1, Typed
<1>3. /\ rx_in \in 0 .. BufLen - 1 /\ rx_out \in 0 .. BufLen - 1
      /\ BufLen \in Int /\ BufLen >= 2 /\ count >= 1
  BY <1>1, <1>2 DEF Slots, Wants
<1>4. /\ RxHeld \in Int /\ rx_out + RxHeld <= BufLen
      /\ RxHeld <= Held(rx_in, rx_out)
  BY <1>3 DEF RxHeld, Held
<1>5. /\ n' = Least(RxHeld, count) /\ UNCHANGED <<rx_buf, rx_in, rx_out>>
      /\ chunk' = Piece(rx_buf, rx_out, n')
  BY DEF ReadCopy, ringVars, Piece
<1>6. Held(rx_in, rx_out) \in Int
  BY <1>2, HeldFacts
<1>7. /\ Least(RxHeld, count) \in Int /\ Least(RxHeld, count) <= RxHeld
      /\ Least(RxHeld, count) >= 1
  BY <1>1, <1>2, <1>3, <1>4 DEF Least
<1>8. /\ rx_out + Least(RxHeld, count) <= BufLen
      /\ Least(RxHeld, count) <= Held(rx_in, rx_out)
  BY <1>3, <1>4, <1>6, <1>7
<1> QED
  BY <1>5, <1>7, <1>8 DEF RxPiece

-----------------------------------------------------------------------------
(* A call goes on only while something is left of it.                      *)
LEMMA WantsStep == TypeInv /\ Wants /\ [UartNext]_uartVars => Wants'
<1> SUFFICES ASSUME TypeInv, Wants, [UartNext]_uartVars PROVE Wants'
  OBVIOUS
<1>0. count \in Nat /\ n \in 0 .. BufLen /\ n <= count
  BY Typed DEF TypeInv, Pieces
<1>1. CASE Call
  <2>2. CASE \E c \in 1 .. MaxCount, f \in BOOLEAN : Write(c, f)
    BY <2>2 DEF Write, Wants
  <2>3. CASE \E s \in 1 .. MaxSpace, f \in BOOLEAN : Read(s, f)
    BY <2>3 DEF Read, Wants
  <2>4. CASE Close
    BY <2>4 DEF Close, Wants
  <2> QED
    BY <1>1, <2>2, <2>3, <2>4 DEF Call
<1>2. CASE WriteLook \/ WriteSpin \/ ReadCopy \/ ReadSpin
  BY <1>2 DEF WriteLook, WriteSpin, ReadCopy, ReadSpin, Wants
<1>3. CASE WriteFill
  BY <1>0, <1>3 DEF WriteFill, Wants
<1>4. CASE WriteKick
  BY <1>0, <1>4 DEF WriteKick, Return, Wants
<1>5. CASE ReadRelease
  BY <1>0, <1>5 DEF ReadRelease, Wants
<1>6. CASE ReadNothing \/ ReadKick \/ CloseSpin
  BY <1>6 DEF ReadNothing, ReadKick, CloseSpin, Return, Wants
<1>7. CASE UNCHANGED callVars
  BY <1>7 DEF callVars, Wants
<1>8. Irq => UNCHANGED callVars
  BY DEF Irq, IrqControl, IrqReceive, IrqReceiveFull, IrqSend, IrqSent
<1>9. Cable \/ UNCHANGED uartVars => UNCHANGED callVars
  BY DEF Cable, uartVars
<1> QED
  BY <1>1, <1>2, <1>3, <1>4, <1>5, <1>6, <1>7, <1>8, <1>9
  DEF UartNext, Program, InCall

(* The host only makes room; the routine counts what it takes.             *)
LEMMA SpacedStep == TypeInv /\ Spaced /\ [UartNext]_uartVars => Spaced'
<1> SUFFICES ASSUME TypeInv, Spaced, [UartNext]_uartVars PROVE Spaced'
  OBVIOUS
<1>0. /\ wfifo \in Seq(Bytes) /\ Len(wfifo) \in 0 .. Depth /\ Depth \in Int
      /\ space \in 0 .. Depth
  BY Typed DEF TypeInv, JtagTypeOK, IrqTypeOK
<1>1. WSpace \in 0 .. Depth
  BY <1>0 DEF WSpace
<1>2. CASE Program
  BY <1>2 DEF Program, isrVars, Spaced
<1>3. CASE IrqControl
  <2>1. WSpace' = WSpace
    BY <1>3 DEF IrqControl, coreVars, WSpace
  <2> QED
    BY <1>1, <1>3, <2>1 DEF IrqControl, Spaced
<1>4. CASE IrqReceive
  <2>1. WSpace' = WSpace /\ space' = space /\ isr = "receive"
    BY <1>4 DEF IrqReceive, WSpace
  <2> QED
    BY <2>1 DEF Spaced
<1>5. CASE IrqReceiveFull
  <2>1. WSpace' = WSpace /\ space' = space /\ isr = "receive"
    BY <1>5 DEF IrqReceiveFull, WSpace
  <2> QED
    BY <2>1 DEF Spaced
<1>6. CASE IrqSend
  <2>1. space > 0 /\ space <= WSpace /\ space' = space - 1
    BY <1>6 DEF IrqSend, Spaced
  <2>2. WSpace > 0
    BY <1>0, <1>1, <2>1
  <2>3. Len(wfifo') = Len(wfifo) + 1
    <3>1. tx_buf[tx_out] \in Bytes
      BY Typed
    <3> QED
      BY <1>0, <1>6, <2>2, <3>1 DEF IrqSend, WriteData
  <2>4. WSpace' = WSpace - 1
    BY <1>0, <2>3 DEF WSpace
  <2> QED
    BY <1>0, <1>1, <2>1, <2>4 DEF Spaced
<1>7. CASE IrqSent
  BY <1>7 DEF IrqSent, Spaced
<1>8. CASE Cable
  <2>1. Len(wfifo') <= Len(wfifo) /\ Len(wfifo') \in Int
    BY <1>0, <1>8, TailIsRest DEF Cable, Host, HostTake, HostType, HostPause
  <2>2. WSpace' >= WSpace /\ WSpace' \in Int
    BY <1>0, <2>1 DEF WSpace
  <2> QED
    BY <1>0, <1>1, <1>8, <2>2 DEF Cable, isrVars, Spaced
<1>9. CASE UNCHANGED uartVars
  BY <1>9 DEF uartVars, coreVars, isrVars, Spaced, WSpace
<1> QED
  BY <1>2, <1>3, <1>4, <1>5, <1>6, <1>7, <1>8, <1>9 DEF UartNext, Irq

(* Three steps change the transmit queue or hand a byte on inside it, and  *)
(* one chooses a piece; the others leave its side as it is.                *)
LEMMA TxStep ==
  ASSUME PipeInv, TypeInv', [UartNext]_uartVars
  PROVE  TxInv' /\ TxPiece' /\ [Tx!PipeNext]_Tx!pipeVars
<1> DEFINE Same == UNCHANGED <<wfifo, tx_buf, tx_in, tx_out, wrote, taken>>
           Still == UNCHANGED <<tx_in, tx_out, pc, n>>
<1>0. TypeInv /\ TxInv /\ TxPiece
  BY DEF PipeInv
<1>1. Same => TxInv' /\ [Tx!PipeNext]_Tx!pipeVars
  BY <1>0, TxStays
<1>2. Still => TxPiece'
  BY <1>0 DEF TxPiece
<1>3. CASE WriteFill
  <2>1. TxPiece'
    BY <1>3 DEF WriteFill, TxPiece
  <2> QED
    BY <1>3, <2>1, FillIsPut
<1>4. CASE WriteLook
  <2>1. Same
    BY <1>4 DEF WriteLook, coreVars, ringVars
  <2> QED
    BY <1>1, <1>4, <2>1, LookChooses
<1>5. CASE IrqSend
  <2>1. TxInv' /\ UNCHANGED Tx!pipeVars
    BY <1>5, SendMoves
  <2>2. TxPiece'
    <3>1. Held(tx_in', tx_out') <= Held(tx_in, tx_out)
      BY <1>5, SendMoves
    <3>2. UNCHANGED <<tx_in, pc, n>>
      BY <1>5 DEF IrqSend, callVars
    <3>3. tx_in \in Slots /\ tx_out \in Slots /\ tx_in' \in Slots /\ tx_out' \in Slots
      BY <1>0, Typed DEF TypeInv, JtagTypeOK, RingTypeOK
    <3>4. Held(tx_in, tx_out) \in Int /\ Held(tx_in', tx_out') \in Int
      BY <3>3, HeldFacts
    <3>5. n \in Int
      BY <1>0, Typed
    <3> SUFFICES ASSUME pc = "fill"
                 PROVE  /\ n >= 1 /\ tx_in + n <= BufLen
                        /\ Held(tx_in', tx_out') + n <= BufLen - 1
      BY <3>2 DEF TxPiece
    <3>6. /\ n >= 1 /\ tx_in + n <= BufLen
          /\ Held(tx_in, tx_out) + n <= BufLen - 1
      BY <1>0 DEF TxPiece
    <3> QED
      BY <3>1, <3>4, <3>5, <3>6
  <2> QED
    BY <2>1, <2>2
<1>6. CASE Cable
  <2>1. Still
    BY <1>6 DEF Cable, ringVars, callVars
  <2>2. CASE HostTake
    BY <1>2, <1>6, <2>1, <2>2, TakeIsGet DEF Cable
  <2>3. CASE HostType \/ HostPause
    <3>1. Same
      BY <1>6, <2>3 DEF Cable, HostType, HostPause, ringVars, callVars
    <3> QED
      BY <1>1, <1>2, <2>1, <3>1
  <2> QED
    BY <1>6, <2>2, <2>3 DEF Cable, Host
<1>7. CASE Call \/ WriteKick \/ WriteSpin
  <2>1. Same
    BY <1>7 DEF Call, Write, Read, Close, WriteKick, WriteSpin, Enable,
                coreVars, ringVars
  <2>2. pc' # "fill"
    BY <1>7 DEF Call, Write, Read, Close, WriteKick, WriteSpin, Return
  <2>3. TxPiece'
    BY <2>2 DEF TxPiece
  <2> QED
    BY <1>1, <2>1, <2>3
<1>8. CASE ReadCopy \/ ReadRelease \/ ReadNothing \/ ReadSpin
  <2>1. Same
    BY <1>8 DEF ReadCopy, ReadRelease, ReadNothing, ReadSpin, coreVars, ringVars
  <2>2. pc' # "fill"
    BY <1>8 DEF ReadCopy, ReadRelease, ReadNothing, ReadSpin, Return
  <2>3. TxPiece'
    BY <2>2 DEF TxPiece
  <2> QED
    BY <1>1, <2>1, <2>3
<1>9. CASE ReadKick \/ CloseSpin
  <2>1. Same
    BY <1>9 DEF ReadKick, CloseSpin, Enable, coreVars, ringVars
  <2>2. pc' # "fill"
    BY <1>9 DEF ReadKick, CloseSpin, Return
  <2>3. TxPiece'
    BY <2>2 DEF TxPiece
  <2> QED
    BY <1>1, <2>1, <2>3
<1>10. CASE IrqControl \/ IrqReceive \/ IrqReceiveFull \/ IrqSent
  <2>1. Same /\ Still
    BY <1>10 DEF IrqControl, IrqReceive, IrqReceiveFull, IrqSent, ReadData,
                 coreVars, ringVars, callVars
  <2> QED
    BY <1>1, <1>2, <2>1
<1>11. CASE UNCHANGED uartVars
  <2>1. Same /\ Still
    BY <1>11 DEF uartVars, coreVars, ringVars, callVars
  <2> QED
    BY <1>1, <1>2, <2>1
<1> QED
  BY <1>3, <1>4, <1>5, <1>6, <1>7, <1>8, <1>9, <1>10, <1>11
  DEF UartNext, Program, InCall, Irq

(* The same for the receive queue.                                         *)
LEMMA RxStep ==
  ASSUME PipeInv, TypeInv', [UartNext]_uartVars
  PROVE  RxInv' /\ RxPiece' /\ [Rx!PipeNext]_Rx!pipeVars
<1> DEFINE Same == UNCHANGED <<rfifo, rx_buf, rx_in, rx_out, typed, handed>>
           Still == UNCHANGED <<rx_buf, rx_in, rx_out, pc, n, chunk>>
<1>0. TypeInv /\ RxInv /\ RxPiece
  BY DEF PipeInv
<1>1. Same => RxInv' /\ [Rx!PipeNext]_Rx!pipeVars
  BY <1>0, RxStays
<1>2. Still => RxPiece'
  BY <1>0 DEF RxPiece
<1>3. CASE ReadRelease
  <2>1. RxPiece'
    BY <1>3 DEF ReadRelease, RxPiece
  <2> QED
    BY <1>3, <2>1, ReleaseIsGet
<1>4. CASE ReadCopy
  <2>1. Same
    BY <1>4 DEF ReadCopy, coreVars, ringVars
  <2> QED
    BY <1>1, <1>4, <2>1, CopyChooses
<1>5. CASE IrqReceive
  BY <1>5, ReceiveMoves
<1>6. CASE Cable
  <2>1. Still
    BY <1>6 DEF Cable, ringVars, callVars
  <2>2. CASE HostType
    BY <1>2, <1>6, <2>1, <2>2, TypeIsPut DEF Cable
  <2>3. CASE HostTake \/ HostPause
    <3>1. Same
      BY <1>6, <2>3 DEF Cable, HostTake, HostPause, ringVars, callVars
    <3> QED
      BY <1>1, <1>2, <2>1, <3>1
  <2> QED
    BY <1>6, <2>2, <2>3 DEF Cable, Host
<1>7. CASE Call \/ WriteLook \/ WriteFill \/ WriteKick \/ WriteSpin
  <2>1. Same
    BY <1>7 DEF Call, Write, Read, Close, WriteLook, WriteFill, WriteKick,
                WriteSpin, Enable, coreVars, ringVars
  <2>2. pc' # "release"
    BY <1>7 DEF Call, Write, Read, Close, WriteLook, WriteFill, WriteKick,
                WriteSpin, Return
  <2>3. RxPiece'
    BY <2>2 DEF RxPiece
  <2> QED
    BY <1>1, <2>1, <2>3
<1>8. CASE ReadNothing \/ ReadSpin \/ ReadKick \/ CloseSpin
  <2>1. Same
    BY <1>8 DEF ReadNothing, ReadSpin, ReadKick, CloseSpin, Enable, coreVars,
                ringVars
  <2>2. pc' # "release"
    BY <1>8 DEF ReadNothing, ReadSpin, ReadKick, CloseSpin, Return
  <2>3. RxPiece'
    BY <2>2 DEF RxPiece
  <2> QED
    BY <1>1, <2>1, <2>3
<1>9. CASE IrqControl \/ IrqReceiveFull \/ IrqSend \/ IrqSent
  <2>1. Same /\ Still
    BY <1>9 DEF IrqControl, IrqReceiveFull, IrqSend, IrqSent, coreVars,
                ringVars, callVars
  <2> QED
    BY <1>1, <1>2, <2>1
<1>10. CASE UNCHANGED uartVars
  <2>1. Same /\ Still
    BY <1>10 DEF uartVars, coreVars, ringVars, callVars
  <2> QED
    BY <1>1, <1>2, <2>1
<1> QED
  BY <1>3, <1>4, <1>5, <1>6, <1>7, <1>8, <1>9, <1>10
  DEF UartNext, Program, InCall, Irq

-----------------------------------------------------------------------------
(* Both queues start empty.                                                *)
LEMMA EmptyRing ==
  ASSUME NEW buf \in [Slots -> Bytes], 0 \in Slots
  PROVE  Ring(buf, 0, 0) = <<>>
<1>1. /\ Ring(buf, 0, 0) \in Seq(Bytes) /\ Len(Ring(buf, 0, 0)) = Held(0, 0)
  BY RingFacts
<1>2. Held(0, 0) = 0
  BY DEF Held
<1> QED
  BY <1>1, <1>2

(* The driver starts as two empty pipes.                                   *)
LEMMA PipeInitial ==
  UartInit => PipeInv /\ Tx!PipeInit /\ Rx!PipeInit
<1> SUFFICES ASSUME UartInit PROVE PipeInv /\ Tx!PipeInit /\ Rx!PipeInit
  OBVIOUS
<1>1. TypeInv
  BY TypeInit
<1>2. /\ wfifo = <<>> /\ rfifo = <<>> /\ wrote = 0 /\ taken = 0
      /\ typed = 0 /\ handed = 0 /\ tx_in = 0 /\ tx_out = 0
      /\ rx_in = 0 /\ rx_out = 0 /\ pc = "idle" /\ isr = "off"
  BY DEF UartInit, CoreInit
<1>3. TxRing = <<>> /\ RxRing = <<>>
  BY <1>1, <1>2, Typed, EmptyRing DEF TxRing, RxRing
<1>4. TxQueue = <<>> /\ RxQueue = <<>>
  BY <1>2, <1>3 DEF TxQueue, RxQueue
<1>5. Numbered(<<>>, 0, 0)
  <2>1. 0 % Numbers = 0
    <3>1. 0 = Numbers * 0 + 0 /\ Numbers \in Int /\ Numbers > 0
      OBVIOUS
    <3> QED
      BY <3>1, ModUnique
  <2>2. <<>> \in Seq(Bytes) /\ Len(<<>>) = 0 /\ 0 + 0 = 0
    OBVIOUS
  <2> QED
    BY <2>1, <2>2 DEF Numbered
<1>6. TxInv /\ RxInv
  BY <1>2, <1>4, <1>5 DEF TxInv, RxInv
<1>7. Wants /\ TxPiece /\ RxPiece /\ Spaced
  BY <1>2 DEF Wants, TxPiece, RxPiece, Spaced
<1>8. Tx!PipeInit /\ Rx!PipeInit
  BY <1>2, <1>4 DEF Tx!PipeInit, Rx!PipeInit, TxQueue, RxQueue, TxRing, RxRing
<1> QED
  BY <1>1, <1>6, <1>7, <1>8 DEF PipeInv

(* A step of the driver is a step of each pipe, or leaves it as it is.     *)
LEMMA PipeStep ==
  PipeInv /\ [UartNext]_uartVars =>
    PipeInv' /\ [Tx!PipeNext]_Tx!pipeVars /\ [Rx!PipeNext]_Rx!pipeVars
<1> SUFFICES ASSUME PipeInv, [UartNext]_uartVars
             PROVE  /\ PipeInv'
                    /\ [Tx!PipeNext]_Tx!pipeVars /\ [Rx!PipeNext]_Rx!pipeVars
  OBVIOUS
<1>1. TypeInv' /\ Wants' /\ Spaced'
  BY TypeStep, WantsStep, SpacedStep DEF PipeInv
<1>2. TxInv' /\ TxPiece' /\ [Tx!PipeNext]_Tx!pipeVars
  BY <1>1, TxStep
<1>3. RxInv' /\ RxPiece' /\ [Rx!PipeNext]_Rx!pipeVars
  BY <1>1, RxStep
<1> QED
  BY <1>1, <1>2, <1>3 DEF PipeInv

(* What write is given comes out at the host's end, every byte once and in *)
(* order: the driver's ring, its interrupt routine and the FIFO together   *)
(* are a pipe, for every length of each, every size of a call and every    *)
(* moment at which the routine or the host comes in between.               *)
THEOREM TxIsPipe == UartSpec => TxPipe
<1> QED
  BY PipeInitial, PipeStep, PTL DEF UartSpec, TxPipe, Tx!PipeSpec

(* What the host types comes out of read, every byte once and in order.    *)
THEOREM RxIsPipe == UartSpec => RxPipe
<1> QED
  BY PipeInitial, PipeStep, PTL DEF UartSpec, RxPipe, Rx!PipeSpec

(* What read copies is what was typed first, and it stays that until       *)
(* rx_out moves past it, whatever the routine puts into the ring meanwhile.*)
THEOREM ChunkHeadHolds == UartSpec => []ChunkIsHead
<1>1. PipeInv => ChunkIsHead
  <2> SUFFICES ASSUME PipeInv, pc = "release"
               PROVE  /\ n <= Len(RxRing)
                      /\ chunk = [i \in 1 .. n |-> RxRing[i]]
    BY DEF ChunkIsHead, RxRing
  <2>1. /\ TypeInv /\ n >= 1 /\ rx_out + n <= BufLen
        /\ n <= Held(rx_in, rx_out) /\ chunk = Piece(rx_buf, rx_out, n)
    BY DEF PipeInv, RxPiece
  <2>2. /\ rx_in \in Slots /\ rx_out \in Slots /\ rx_buf \in [Slots -> Bytes]
        /\ n \in 0 .. BufLen /\ Len(RxRing) = Held(rx_in, rx_out)
        /\ Held(rx_in, rx_out) \in 0 .. BufLen - 1
    BY <2>1, Typed, QueueFacts
  <2>3. rx_out \in 0 .. BufLen - 1 /\ BufLen \in Int
    BY <2>2 DEF Slots
  <2>4. ASSUME NEW i \in 1 .. n PROVE rx_buf[rx_out + i - 1] = RxRing[i]
    <3>1. i \in 1 .. Held(rx_in, rx_out) /\ Place(rx_out, i) = rx_out + i - 1
      BY <2>1, <2>2, <2>3 DEF Place
    <3>2. RxRing[i] = rx_buf[Place(rx_out, i)]
      BY <2>2, <3>1, RingFacts DEF RxRing
    <3> QED
      BY <3>1, <3>2
  <2>5. chunk = [i \in 1 .. n |-> RxRing[i]]
    BY <2>1, <2>4 DEF Piece
  <2> QED
    BY <2>1, <2>2, <2>5
<1> QED
  BY <1>1, PipeInitial, PipeStep, PTL DEF UartSpec

=============================================================================
