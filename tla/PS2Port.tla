------------------------------ MODULE PS2Port ------------------------------
(***************************************************************************)
(* The Avalon PS/2 core as a Nios program sees it, nios_system_ps2_0.v,    *)
(* and the device at the other end of the cable.  Received bytes queue in  *)
(* a FIFO that drops what does not fit; a write to the data register holds *)
(* the processor until the command has been sent or has failed; the error  *)
(* bit CE stays set until the control register is written, which no code   *)
(* of this program does.  The device is external: what PS/2 devices send.  *)
(***************************************************************************)
EXTENDS Integers, Sequences

CONSTANTS
  Depth,        \* words of the FIFO: 256
  Packets,      \* the movements a mouse may report
  MaxPackets,   \* bound: packets a mouse sends
  MaxPlugs      \* bound: devices plugged in while the program runs

VARIABLES
  fifo,         \* the FIFO
  idle,         \* what its output shows when it is empty
  ce,           \* control_register[10]
  dev,          \* what is plugged in
  enabled,      \* the device reports movements
  out,          \* the bytes it is about to send
  sent, plugs   \* bounds: packets sent, devices plugged in

portVars == <<fifo, idle, ce, dev, enabled, out, sent, plugs>>

ACK == 250      \* FAh
PASSED == 170   \* AAh, the self-test has passed
MOUSE_ID == 0
RESET == 255
ENABLE == 244

PacketBytes == UNION {{p[i] : i \in DOMAIN p} : p \in Packets}
Bytes == {ACK, PASSED, MOUSE_ID} \cup PacketBytes

ASSUME PortAssumption ==
  /\ Depth \in 1 .. 256 /\ MaxPackets \in Nat /\ MaxPlugs \in Nat
  /\ Packets \subseteq [1 .. 3 -> 0 .. 255]

(* What a device says after its self-test.                                 *)
Hello(d) == IF d = "mouse" THEN <<PASSED, MOUSE_ID>> ELSE <<PASSED>>

PortInit ==
  /\ fifo = <<>> /\ idle = 0 /\ ce = FALSE
  /\ dev \in {"none", "mouse", "keyboard"}
  /\ enabled = FALSE
  /\ out \in IF dev = "none" THEN {<<>>} ELSE {<<>>, Hello(dev)}
  /\ sent = 0 /\ plugs = 0

-----------------------------------------------------------------------------
(* The registers.  A read of the data register gives the number of bytes   *)
(* that wait and the first of them, and removes it.                        *)
DataRegister ==
  [ravail |-> Len(fifo), data |-> IF fifo = <<>> THEN idle ELSE Head(fifo)]

Pop ==
  IF fifo = <<>> THEN UNCHANGED <<fifo, idle>>
  ELSE /\ fifo' = Tail(fifo)
       /\ idle' = IF Tail(fifo) = <<>> THEN Head(fifo) ELSE idle

(* A device that is there takes every command; without one the write ends  *)
(* with an error.                                                          *)
WriteData(c) ==
  /\ ce' = (ce \/ dev = "none")
  /\ out' = CASE dev = "none" -> <<>>
              [] c = RESET -> <<ACK>> \o Hello(dev)
              [] OTHER -> <<ACK>>
  /\ enabled' = (dev = "mouse" /\ c = ENABLE)

-----------------------------------------------------------------------------
(* The device.                                                             *)
Deliver ==
  /\ out # <<>> /\ out' = Tail(out)
  /\ IF Len(fifo) < Depth THEN fifo' = Append(fifo, Head(out))
     ELSE UNCHANGED fifo
  /\ UNCHANGED <<idle, ce, dev, enabled, sent, plugs>>

Move ==
  /\ enabled /\ out = <<>> /\ sent < MaxPackets
  /\ \E p \in Packets : out' = p
  /\ sent' = sent + 1
  /\ UNCHANGED <<fifo, idle, ce, dev, enabled, plugs>>

Unplug ==
  /\ dev # "none" /\ dev' = "none" /\ out' = <<>> /\ enabled' = FALSE
  /\ UNCHANGED <<fifo, idle, ce, sent, plugs>>

Plug ==
  /\ dev = "none" /\ plugs < MaxPlugs
  /\ dev' \in {"mouse", "keyboard"} /\ out' = Hello(dev')
  /\ plugs' = plugs + 1
  /\ UNCHANGED <<fifo, idle, ce, enabled, sent>>

=============================================================================
