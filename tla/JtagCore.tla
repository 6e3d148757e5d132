------------------------------ MODULE JtagCore ------------------------------
(***************************************************************************)
(* The JTAG UART of the Nios system, nios_system_jtag_uart_0.v: a FIFO in  *)
(* each direction and the interrupt enables; and the host at the other     *)
(* end of the cable.  (Its activity flag, AC, is read by an alarm only,    *)
(* and there is none: see JtagUart.)  The host is the vendor's terminal    *)
(* program behind the alt_jtag_atlantic wires t_ena, t_pause and r_ena: it *)
(* takes bytes, types bytes and reports that it has none (a pause).  A     *)
(* host that is not there, or hangs, does nothing.                         *)
(***************************************************************************)
EXTENDS Integers, Sequences

CONSTANTS
  Depth,           \* bytes in either FIFO: 64
  ReadThreshold,   \* RI when the receive FIFO has this much room left: 8
  WriteThreshold,  \* WI when the transmit FIFO holds this much: 8
  Numbers          \* the bytes are numbered modulo Numbers

ASSUME CoreAssumption ==
  /\ Depth \in Nat /\ ReadThreshold \in Nat /\ WriteThreshold \in Nat
  /\ ReadThreshold < Depth /\ WriteThreshold < Depth
  /\ Numbers \in Nat \ {0}

VARIABLES
  wfifo, rfifo,    \* the FIFOs, to and from the host
  ien,             \* ien_AF ("RE") and ien_AE ("WE")
  pause_irq,       \* the host has paused after sending something
  typed,           \* number of the next byte the host will type
  taken            \* number of the next byte the host will take

coreVars == <<wfifo, rfifo, ien, pause_irq, typed, taken>>

Enables == {"RE", "WE"}

CoreTypeOK ==
  /\ wfifo \in Seq(0 .. Numbers - 1) /\ Len(wfifo) <= Depth
  /\ rfifo \in Seq(0 .. Numbers - 1) /\ Len(rfifo) <= Depth
  /\ ien \subseteq Enables
  /\ pause_irq \in BOOLEAN
  /\ typed \in 0 .. Numbers - 1 /\ taken \in 0 .. Numbers - 1

(* The driver's initialisation enables the receive interrupt.              *)
CoreInit ==
  /\ wfifo = <<>> /\ rfifo = <<>>
  /\ ien = {"RE"}
  /\ pause_irq = FALSE
  /\ typed = 0 /\ taken = 0

(* A mutant: a receive interrupt for a full FIFO only.                     *)
RIFullOnly == "RE" \in ien /\ Depth - Len(rfifo) <= ReadThreshold

(* The two interrupts of the control register.                             *)
RI == "RE" \in ien /\ (pause_irq \/ Depth - Len(rfifo) <= ReadThreshold)
WI == "WE" \in ien /\ Len(wfifo) <= WriteThreshold

WSpace == Depth - Len(wfifo)

(* A write of the data register: a byte that finds no room is dropped.     *)
WriteData(b) == wfifo' = IF WSpace > 0 THEN Append(wfifo, b) ELSE wfifo

(* A read of the data register, which clears the pause.                    *)
ReadData ==
  /\ rfifo' = IF rfifo = <<>> THEN rfifo ELSE Tail(rfifo)
  /\ pause_irq' = FALSE

-----------------------------------------------------------------------------
HostTake ==
  /\ wfifo # <<>>
  /\ wfifo' = Tail(wfifo)
  /\ taken' = (taken + 1) % Numbers
  /\ UNCHANGED <<rfifo, ien, pause_irq, typed>>

HostType ==
  /\ Len(rfifo) < Depth
  /\ rfifo' = Append(rfifo, typed)
  /\ typed' = (typed + 1) % Numbers
  /\ UNCHANGED <<wfifo, ien, pause_irq, taken>>

HostPause ==
  /\ pause_irq' = (pause_irq \/ rfifo # <<>>)
  /\ UNCHANGED <<wfifo, rfifo, ien, typed, taken>>

Host == HostTake \/ HostType \/ HostPause

=============================================================================
