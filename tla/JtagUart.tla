------------------------------ MODULE JtagUart ------------------------------
(***************************************************************************)
(* The interrupt-driven driver of the JTAG UART, through which printf and  *)
(* scanf of the two Nios programs go: altera_avalon_jtag_uart_init.c,      *)
(* _read.c, _write.c and _ioctl.c, single threaded and without an          *)
(* operating system, as both board support packages configure it.          *)
(*                                                                         *)
(* The program (read, write, close, ioctl) and the interrupt routine share *)
(* two ring buffers and irq_enable.  The routine runs to its end with      *)
(* interrupts off, so the program stands still meanwhile; the device and   *)
(* the host do not.  A stretch of the program between                      *)
(* alt_irq_disable_all and alt_irq_enable_all is one step.                 *)
(*                                                                         *)
(* Both packages are built with ALT_SYS_CLK none.  No alarm can be         *)
(* started then, so timeout is INT_MAX, host_inactive stays 0, every wait  *)
(* on the host is unbounded, and ioctl changes nothing.                    *)
(***************************************************************************)
EXTENDS JtagCore

CONSTANTS
  BufLen,     \* ALTERA_AVALON_JTAG_UART_BUF_LEN: 2048
  MaxCount,   \* bound: bytes of one write
  MaxSpace    \* bound: room of one read

ASSUME UartAssumption ==
  /\ BufLen \in Nat /\ BufLen >= 2
  /\ MaxCount \in Nat \ {0} /\ MaxSpace \in Nat \ {0}

VARIABLES
  rx_buf, rx_in, rx_out,   \* the ring that the interrupt routine fills
  tx_buf, tx_in, tx_out,   \* the ring that it empties
  irq_enable,              \* the driver's copy of the enables
  \* The program: where it is, and the locals of its call.
  pc, count, n, seen, got, chunk, nonblock, wrote, handed,
  \* The interrupt routine: where it is, and its locals.
  isr, wi, space, ravail

ringVars == <<rx_buf, rx_in, rx_out, tx_buf, tx_in, tx_out>>
callVars == <<pc, count, n, seen, got, chunk, nonblock, wrote, handed>>
isrVars == <<isr, wi, space, ravail>>
uartVars ==
  <<coreVars, ringVars, irq_enable, callVars, isrVars>>

Slots == 0 .. BufLen - 1
Places ==
  {"idle", "write", "fill", "kick", "wspin",
   "read", "release", "rkick", "rspin", "close"}

Least(a, b) == IF a < b THEN a ELSE b

(* The next index of a ring.                                               *)
Succ(i) == (i + 1) % BufLen

UartInit ==
  /\ CoreInit
  /\ rx_buf = [i \in Slots |-> 0] /\ rx_in = 0 /\ rx_out = 0
  /\ tx_buf = [i \in Slots |-> 0] /\ tx_in = 0 /\ tx_out = 0
  /\ irq_enable = {"RE"}
  /\ pc = "idle" /\ count = 0 /\ n = 0 /\ seen = 0
  /\ got = FALSE /\ chunk = <<>> /\ nonblock = FALSE
  /\ wrote = 0 /\ handed = 0
  /\ isr = "off" /\ wi = FALSE /\ space = 0 /\ ravail = FALSE

(* alt_irq_disable_all; irq_enable |= e; write control; enable again.      *)
Enable(e) ==
  /\ irq_enable' = irq_enable \cup {e}
  /\ ien' = irq_enable'
  /\ UNCHANGED <<wfifo, rfifo, pause_irq, typed, taken>>

(* The call returns; its locals are dead.                                  *)
Return ==
  /\ pc' = "idle"
  /\ count' = 0 /\ n' = 0 /\ seen' = 0 /\ got' = FALSE /\ nonblock' = FALSE

-----------------------------------------------------------------------------
(* write: fill the ring as far as it goes, kick the interrupt routine, and *)
(* wait for room if something is left.                                     *)
Write(c, f) ==
  /\ pc = "idle"
  /\ pc' = "write" /\ count' = c /\ nonblock' = f
  /\ UNCHANGED <<n, seen, got, chunk, wrote, handed>>
  /\ UNCHANGED <<coreVars, ringVars, irq_enable>>

(* A mutant: the free slot is not kept when the ring starts at 0.          *)
TxRoomAll == IF tx_in < tx_out THEN tx_out - 1 - tx_in ELSE BufLen - tx_in

(* Room in one piece from tx_in on; one slot always stays empty.           *)
TxRoom ==
  IF tx_in < tx_out THEN tx_out - 1 - tx_in
  ELSE IF tx_out > 0 THEN BufLen - tx_in
  ELSE BufLen - 1 - tx_in

WriteLook ==
  /\ pc = "write"
  /\ seen' = IF TxRoom = 0 THEN tx_out ELSE 0
  /\ n' = Least(TxRoom, count)
  /\ pc' = IF TxRoom = 0 THEN "kick" ELSE "fill"
  /\ UNCHANGED <<count, got, chunk, nonblock, wrote, handed>>
  /\ UNCHANGED <<coreVars, ringVars, irq_enable>>

WriteFill ==
  /\ pc = "fill"
  /\ tx_buf' = [i \in Slots |->
       IF i \in tx_in .. tx_in + n - 1
       THEN (wrote + i - tx_in) % Numbers ELSE tx_buf[i]]
  /\ tx_in' = (tx_in + n) % BufLen
  /\ wrote' = (wrote + n) % Numbers
  /\ count' = count - n
  /\ pc' = IF count' > 0 THEN "write" ELSE "kick"
  /\ n' = 0
  /\ UNCHANGED <<seen, got, chunk, nonblock, handed>>
  /\ UNCHANGED <<coreVars, rx_buf, rx_in, rx_out, tx_out, irq_enable>>

(* A mutant: the routine is woken by the last piece only.                  *)
WriteKickLast ==
  /\ pc = "kick"
  /\ \/ /\ count = 0 /\ Enable("WE")
        /\ Return
     \/ /\ count > 0 /\ ~nonblock
        /\ pc' = "wspin"
        /\ UNCHANGED <<coreVars, irq_enable, count, n, seen, got, nonblock>>
  /\ UNCHANGED <<ringVars, chunk, wrote, handed>>

WriteKick ==
  /\ pc = "kick"
  /\ Enable("WE")
  /\ \/ /\ count = 0 \/ nonblock
        /\ Return
     \/ /\ count > 0 /\ ~nonblock
        /\ pc' = "wspin"
        /\ UNCHANGED <<count, n, seen, got, nonblock>>
  /\ UNCHANGED <<ringVars, chunk, wrote, handed>>

WriteSpin ==
  /\ pc = "wspin" /\ seen # tx_out
  /\ pc' = "write" /\ seen' = 0
  /\ UNCHANGED <<coreVars, ringVars, irq_enable>>
  /\ UNCHANGED <<count, n, got, chunk, nonblock, wrote, handed>>

-----------------------------------------------------------------------------
(* read: take what the ring holds; if that is nothing, wait for more.      *)
Read(s, f) ==
  /\ pc = "idle"
  /\ pc' = "read" /\ count' = s /\ nonblock' = f
  /\ UNCHANGED <<n, seen, got, chunk, wrote, handed>>
  /\ UNCHANGED <<coreVars, ringVars, irq_enable>>

(* A mutant: an empty ring taken for one that holds a piece.               *)
RxHeldStrict == IF rx_in > rx_out THEN rx_in - rx_out ELSE BufLen - rx_out

(* Bytes in one piece from rx_out on.                                      *)
RxHeld == IF rx_in >= rx_out THEN rx_in - rx_out ELSE BufLen - rx_out

ReadCopy ==
  /\ pc = "read" /\ RxHeld > 0
  /\ n' = Least(RxHeld, count)
  /\ chunk' = [i \in 1 .. n' |-> rx_buf[rx_out + i - 1]]
  /\ pc' = "release"
  /\ UNCHANGED <<count, seen, got, nonblock, wrote, handed>>
  /\ UNCHANGED <<coreVars, ringVars, irq_enable>>

ReadRelease ==
  /\ pc = "release"
  /\ rx_out' = (rx_out + n) % BufLen
  /\ count' = count - n
  /\ got' = TRUE
  /\ handed' = (handed + n) % Numbers
  /\ n' = 0 /\ chunk' = <<>>
  /\ pc' = IF count' > 0 THEN "read" ELSE "rkick"
  /\ UNCHANGED <<seen, nonblock, wrote>>
  /\ UNCHANGED <<coreVars, rx_buf, rx_in, tx_buf, tx_in, tx_out>>
  /\ UNCHANGED <<irq_enable>>

ReadNothing ==
  /\ pc = "read" /\ RxHeld = 0
  /\ \/ /\ got
        /\ pc' = "rkick"
        /\ UNCHANGED <<count, n, seen, got, nonblock>>
     \/ /\ ~got /\ nonblock
        /\ Return
     \/ /\ ~got /\ ~nonblock
        /\ pc' = "rspin" /\ seen' = rx_in
        /\ UNCHANGED <<count, n, got, nonblock>>
  /\ UNCHANGED <<coreVars, ringVars, irq_enable, chunk, wrote, handed>>

ReadSpin ==
  /\ pc = "rspin" /\ seen # rx_in
  /\ pc' = "read" /\ seen' = 0
  /\ UNCHANGED <<coreVars, ringVars, irq_enable>>
  /\ UNCHANGED <<count, n, got, chunk, nonblock, wrote, handed>>

(* A mutant: a read that does not block leaves the interrupt as it is.     *)
ReadKickBlocking ==
  /\ pc = "rkick"
  /\ IF nonblock THEN UNCHANGED <<coreVars, irq_enable>> ELSE Enable("RE")
  /\ Return
  /\ UNCHANGED <<ringVars, chunk, wrote, handed>>

ReadKick ==
  /\ pc = "rkick"
  /\ Enable("RE")
  /\ Return
  /\ UNCHANGED <<ringVars, chunk, wrote, handed>>

-----------------------------------------------------------------------------
(* close waits until the ring is drained.  With O_NONBLOCK, or when there  *)
(* is nothing to wait for, it returns at once and changes nothing.         *)
Close ==
  /\ pc = "idle"
  /\ tx_out # tx_in
  /\ pc' = "close"
  /\ UNCHANGED <<count, n, seen, got, chunk, nonblock, wrote, handed>>
  /\ UNCHANGED <<coreVars, ringVars, irq_enable>>

CloseSpin ==
  /\ pc = "close"
  /\ tx_out = tx_in
  /\ Return
  /\ UNCHANGED <<coreVars, ringVars, irq_enable, chunk, wrote, handed>>

-----------------------------------------------------------------------------
(* The interrupt routine, entered when the device asks for it.  It looks   *)
(* at the control register until neither interrupt is pending.             *)
IrqControl ==
  /\ \/ isr = "off" /\ (RI \/ WI)
     \/ isr = "loop"
  /\ isr' = IF RI THEN "receive" ELSE IF WI THEN "send" ELSE "off"
  /\ wi' = WI
  /\ space' = IF WI THEN WSpace ELSE 0
  /\ ravail' = RI
  /\ UNCHANGED <<coreVars, ringVars, irq_enable, callVars>>

(* A mutant: no look whether the ring is full.                             *)
IrqReceiveBlind ==
  /\ isr = "receive"
  /\ ReadData
  /\ ravail' = (rfifo' # <<>>)
  /\ \/ /\ rfifo # <<>>
        /\ rx_buf' = [rx_buf EXCEPT ![rx_in] = Head(rfifo)]
        /\ rx_in' = Succ(rx_in)
        /\ UNCHANGED isr
     \/ /\ rfifo = <<>>
        /\ isr' = IF wi THEN "send" ELSE "loop"
        /\ UNCHANGED <<rx_buf, rx_in>>
  /\ UNCHANGED <<wfifo, ien, typed, taken, rx_out, tx_buf, tx_in, tx_out>>
  /\ UNCHANGED <<irq_enable, callVars, wi, space>>

IrqReceive ==
  /\ isr = "receive"
  /\ Succ(rx_in) # rx_out
  /\ ReadData
  /\ ravail' = (rfifo' # <<>>)
  /\ \/ /\ rfifo # <<>>
        /\ rx_buf' = [rx_buf EXCEPT ![rx_in] = Head(rfifo)]
        /\ rx_in' = Succ(rx_in)
        /\ UNCHANGED isr
     \/ /\ rfifo = <<>>
        /\ isr' = IF wi THEN "send" ELSE "loop"
        /\ UNCHANGED <<rx_buf, rx_in>>
  /\ UNCHANGED <<wfifo, ien, typed, taken, rx_out, tx_buf, tx_in, tx_out>>
  /\ UNCHANGED <<irq_enable, callVars, wi, space>>

(* The ring is full: no more of this while bytes are waiting.              *)
IrqReceiveFull ==
  /\ isr = "receive"
  /\ Succ(rx_in) = rx_out
  /\ irq_enable' = IF ravail THEN irq_enable \ {"RE"} ELSE irq_enable
  /\ ien' = IF ravail THEN irq_enable' ELSE ien
  /\ isr' = IF wi THEN "send" ELSE "loop"
  /\ UNCHANGED <<wfifo, rfifo, pause_irq, typed, taken>>
  /\ UNCHANGED <<ringVars, callVars, wi, space, ravail>>

IrqSend ==
  /\ isr = "send"
  /\ space > 0 /\ tx_out # tx_in
  /\ WriteData(tx_buf[tx_out])
  /\ tx_out' = Succ(tx_out)
  /\ space' = space - 1
  /\ UNCHANGED <<rfifo, ien, pause_irq, typed, taken>>
  /\ UNCHANGED <<rx_buf, rx_in, rx_out, tx_buf, tx_in>>
  /\ UNCHANGED <<irq_enable, callVars, isr, wi, ravail>>

(* A mutant: the interrupt is turned off even if bytes are left.           *)
IrqSentOff ==
  /\ isr = "send"
  /\ space = 0 \/ tx_out = tx_in
  /\ irq_enable' = irq_enable \ {"WE"}
  /\ ien' = irq_enable'
  /\ isr' = "loop"
  /\ UNCHANGED <<wfifo, rfifo, pause_irq, typed, taken>>
  /\ UNCHANGED <<ringVars, callVars, wi, space, ravail>>

(* Room is left, so there is nothing more to send: no more of this.        *)
IrqSent ==
  /\ isr = "send"
  /\ space = 0 \/ tx_out = tx_in
  /\ irq_enable' = IF space > 0 THEN irq_enable \ {"WE"} ELSE irq_enable
  /\ ien' = IF space > 0 THEN irq_enable' ELSE ien
  /\ isr' = "loop"
  /\ UNCHANGED <<wfifo, rfifo, pause_irq, typed, taken>>
  /\ UNCHANGED <<ringVars, callVars, wi, space, ravail>>

Irq == IrqControl \/ IrqReceive \/ IrqReceiveFull \/ IrqSend \/ IrqSent

-----------------------------------------------------------------------------
Call ==
  \/ \E c \in 1 .. MaxCount, f \in BOOLEAN : Write(c, f)
  \/ \E s \in 1 .. MaxSpace, f \in BOOLEAN : Read(s, f)
  \/ Close

InCall ==
  \/ WriteLook \/ WriteFill \/ WriteKick \/ WriteSpin
  \/ ReadCopy \/ ReadRelease \/ ReadNothing \/ ReadSpin \/ ReadKick
  \/ CloseSpin

(* The program runs only between interrupts.                               *)
Program == isr = "off" /\ (Call \/ InCall) /\ UNCHANGED isrVars

Cable ==
  /\ Host
  /\ UNCHANGED <<ringVars, irq_enable, callVars, isrVars>>

UartNext == Program \/ Irq \/ Cable

(* The processor runs.  Nothing is assumed of the host.                    *)
UartFairness ==
  /\ WF_uartVars(isr = "off" /\ InCall /\ UNCHANGED isrVars)
  /\ WF_uartVars(Irq)

UartSpec == UartInit /\ [][UartNext]_uartVars /\ UartFairness

-----------------------------------------------------------------------------
(* Every variable has its type and every index is inside its ring.         *)
RingTypeOK ==
  /\ rx_buf \in [Slots -> 0 .. Numbers - 1] /\ rx_in \in Slots /\ rx_out \in Slots
  /\ tx_buf \in [Slots -> 0 .. Numbers - 1] /\ tx_in \in Slots /\ tx_out \in Slots

CallTypeOK ==
  /\ pc \in Places /\ count \in Nat /\ n \in 0 .. BufLen
  /\ seen \in Slots /\ got \in BOOLEAN /\ nonblock \in BOOLEAN
  /\ chunk \in Seq(0 .. Numbers - 1)
  /\ wrote \in 0 .. Numbers - 1 /\ handed \in 0 .. Numbers - 1

IrqTypeOK ==
  /\ isr \in {"off", "loop", "receive", "send"}
  /\ wi \in BOOLEAN /\ ravail \in BOOLEAN /\ space \in 0 .. Depth

JtagTypeOK ==
  /\ CoreTypeOK /\ RingTypeOK /\ CallTypeOK /\ IrqTypeOK
  /\ irq_enable \subseteq Enables

(* What a ring holds, oldest first.                                        *)
Ring(buf, in, out) ==
  [i \in 1 .. (in + BufLen - out) % BufLen |-> buf[(out + i - 1) % BufLen]]

Tx == INSTANCE BytePipe WITH
  q <- wfifo \o Ring(tx_buf, tx_in, tx_out), next <- wrote, taken <- taken,
  Capacity <- Depth + BufLen - 1

Rx == INSTANCE BytePipe WITH
  q <- Ring(rx_buf, rx_in, rx_out) \o rfifo, next <- typed, taken <- handed,
  Capacity <- Depth + BufLen - 1

(* From write to the terminal, and from the keys of the terminal to the    *)
(* ring's reader, nothing is lost, doubled or reordered, whatever the      *)
(* routine and the program do to the rings and FIFOs between.              *)
TxPipe == Tx!PipeSpec
RxPipe == Rx!PipeSpec

(* What read hands to its caller is what was typed first: no slot that     *)
(* memcpy copies from is filled anew before rx_out moves past it.          *)
ChunkIsHead ==
  LET held == Ring(rx_buf, rx_in, rx_out) IN
  pc = "release" =>
    n <= Len(held) /\ chunk = [i \in 1 .. n |-> held[i]]

(* Bytes in the transmit ring are never forgotten: the routine has its     *)
(* interrupt on, or write is on its way to turn it on.                     *)
SendWakeup ==
  tx_in # tx_out /\ pc \notin {"write", "fill", "kick"} => "WE" \in ien

(* The receive interrupt is off only while the ring holds something to     *)
(* read, or while a read that made room is on its way to turn it on.       *)
ReceiveWakeup == "RE" \notin ien => rx_in # rx_out \/ got

(* A write or close ends if the host takes bytes again and again.          *)
HostListens == []<>(Len(wfifo) <= WriteThreshold)
WriteEnds ==
  HostListens =>
    (pc \in {"write", "fill", "kick", "wspin", "close"} ~> pc = "idle")

(* What the host has typed before a pause reaches a read that waits for    *)
(* it: no wake-up is lost between the look into the ring, the loop around  *)
(* rx_in and the routine.                                                  *)
HostPauses == []<>(pause_irq \/ rfifo = <<>>)
ReadEnds ==
  HostPauses => (pc = "rspin" /\ rfifo # <<>> ~> pc # "rspin")

=============================================================================
