------------------------------ MODULE HpiWires ------------------------------
(***************************************************************************)
(* How a register of the USB controller is reached: io_handler.c moves the *)
(* pins of the host port one parallel port at a time, hpi_io_intf.sv       *)
(* registers them once more, and the data bus is driven by either end or   *)
(* by none.  A step is a period of the 50 MHz clock; the program makes an  *)
(* access to a parallel port in it, or is at work on something else.       *)
(***************************************************************************)
EXTENDS Sequences, Integers

CONSTANTS
  Values,    \* words of data and addresses
  None,      \* no value
  MinGap,    \* clocks between two accesses of the program, at the least
  AccessTime \* clocks from a read strobe to the data on the bus, at the most

ASSUME WiresAssumption ==
  /\ Values # {} /\ 0 \in Values /\ None \notin Values
  /\ AccessTime \in Nat /\ MinGap \in Nat /\ MinGap >= AccessTime + 3

VARIABLES
  pio,       \* the output registers of the parallel ports
  readdata,  \* the input register of the data port
  intf,      \* the registers of hpi_io_intf
  charge,    \* what was on the bus in the clock before
  floating,  \* nobody drove it then
  strobed,   \* clocks the read strobe has been seen by the chip
  regs,      \* the registers of the chip
  call,      \* the call in progress
  todo,      \* what it has still to do
  temp,      \* IO_read's variable
  gap,       \* clocks since the last access, up to MinGap
  accesses   \* ghost: strobes that have ended in this call

pins == <<pio, readdata, intf, charge, floating, strobed>>
wiresVars == <<pins, regs, call, todo, temp, gap, accesses>>

NextAddr(a) == IF a + 1 \in Values THEN a + 1 ELSE 0

(* The chip: its registers are those of HpiPort.                           *)
Port == INSTANCE HpiPort WITH
  done <- call.op # "init" /\ accesses > 0,
  value <- IF call.op = "read" /\ accesses > 0 THEN temp ELSE None,
  NoFlags <- 0

-----------------------------------------------------------------------------
(* The program, as accesses to the parallel ports.                         *)
Out(port, v) == [port |-> port, v |-> v]
In == [port |-> "in", v |-> 0]

IO_init ==
  << Out("cs", 1), Out("r", 1), Out("w", 1), Out("address", 0), Out("data", 0) >>

(* A mutant: the data follow the strobe.                                   *)
IO_writeLate(address, data) ==
  << Out("address", address), Out("cs", 0), Out("w", 0), Out("w", 1),
     Out("data", data), Out("cs", 1) >>

IO_write(address, data) ==
  << Out("address", address), Out("cs", 0), Out("w", 0), Out("data", data),
     Out("w", 1), Out("cs", 1) >>

(* A mutant: the read strobe is left to the next call.                     *)
IO_readOpen(address) ==
  << Out("address", address), Out("cs", 0), Out("r", 0), In, Out("cs", 1) >>

IO_read(address) ==
  << Out("address", address), Out("cs", 0), Out("r", 0), In, Out("r", 1),
     Out("cs", 1) >>

Body(c) ==
  IF c.op = "write" THEN IO_write(c.at, c.data) ELSE IO_read(c.at)

-----------------------------------------------------------------------------
(* The data bus.  from_sw_w drives it or lets it go at once, while the     *)
(* strobe follows a clock later: a bus nobody drives keeps its level for a *)
(* clock, and shows anything after that.                                   *)
HostDrives == pio.w = 0
WriteStrobe == intf.OTG_CS_N = 0 /\ intf.OTG_WR_N = 0
ReadStrobe == intf.OTG_CS_N = 0 /\ intf.OTG_RD_N = 0

OTG_DATA ==
  CASE HostDrives /\ ReadStrobe -> Values
    [] HostDrives /\ ~ReadStrobe -> {intf.tmp_data}
    [] ~HostDrives /\ ReadStrobe ->
         IF strobed < AccessTime THEN Values
         ELSE {Port!Shown(regs, intf.OTG_ADDR)}
    [] OTHER -> IF floating THEN Values ELSE {charge}

(* What the chip makes of a strobe that ends, with b on the bus.           *)
AfterWrite(b) ==
  IF WriteStrobe /\ ~WriteStrobe' THEN Port!Written(regs, intf.OTG_ADDR, b)
  ELSE regs

Strobes(b) ==
  /\ regs' = IF ReadStrobe /\ ~ReadStrobe'
             THEN Port!WasRead(AfterWrite(b), intf.OTG_ADDR)
             ELSE AfterWrite(b)
  /\ strobed' = IF ~(ReadStrobe /\ ReadStrobe') THEN 0
                ELSE IF strobed < AccessTime THEN strobed + 1 ELSE strobed

Ended ==
  \/ WriteStrobe /\ ~WriteStrobe'
  \/ ReadStrobe /\ ~ReadStrobe'

(* hpi_io_intf, and the input register of the data port.                   *)
Interface(b) ==
  /\ intf' = [tmp_data |-> pio.data, OTG_ADDR |-> pio.address,
              OTG_RD_N |-> pio.r, OTG_WR_N |-> pio.w, OTG_CS_N |-> pio.cs,
              from_sw_data_in |-> b]
  /\ readdata' = intf.from_sw_data_in
  /\ charge' = b
  /\ floating' = (~HostDrives /\ ~ReadStrobe)

Count == accesses' = IF Ended /\ accesses < 2 THEN accesses + 1 ELSE accesses

(* A period of the clock, as far as the program has no part in it.         *)
Hardware ==
  \E b \in OTG_DATA : Interface(b) /\ Strobes(b)

-----------------------------------------------------------------------------
WiresInit ==
  /\ pio = [address |-> 0, cs |-> 0, r |-> 0, w |-> 0, data |-> 0]
  /\ intf = [tmp_data |-> 0, OTG_ADDR |-> 0, OTG_RD_N |-> 1, OTG_WR_N |-> 1,
             OTG_CS_N |-> 1, from_sw_data_in |-> 0]
  /\ readdata = 0 /\ charge \in Values /\ floating = FALSE /\ strobed = 0
  /\ regs \in Port!Registers
  /\ call = Port!Boot /\ todo = IO_init /\ temp = None
  /\ gap = 0 /\ accesses = 0

Busy ==
  /\ gap' = IF gap < MinGap THEN gap + 1 ELSE gap
  /\ UNCHANGED <<pio, call, todo, temp>>
  /\ Count

PioAccess ==
  /\ todo # <<>> /\ gap = MinGap
  /\ todo' = Tail(todo) /\ gap' = 0
  /\ IF Head(todo) = In
     THEN temp' = readdata /\ UNCHANGED pio
     ELSE pio' = [pio EXCEPT ![Head(todo).port] = Head(todo).v] /\ UNCHANGED temp
  /\ UNCHANGED call
  /\ Count

Return ==
  /\ todo = <<>> /\ gap = MinGap /\ call # Port!Idle
  /\ call' = Port!Idle /\ temp' = None
  /\ accesses' = 0
  /\ UNCHANGED <<pio, todo, gap>>

Call ==
  /\ call = Port!Idle
  /\ \E c \in Port!Calls : call' = c /\ todo' = Body(c)
  /\ UNCHANGED <<pio, temp, gap>>
  /\ Count

Program == Busy \/ PioAccess \/ Return \/ Call

WiresNext == Hardware /\ Program

WiresSpec == WiresInit /\ [][WiresNext]_wiresVars

-----------------------------------------------------------------------------
(* Every call is exactly one access to its register, with its data: no     *)
(* strobe is lost, doubled, or catches the bus with other data on it.      *)
OneAccessPerCall == Port!PortSpec

(* From IO_init on, the bus is never driven from both ends.                *)
OneDriver == call.op # "init" => ~(HostDrives /\ ReadStrobe)

=============================================================================
