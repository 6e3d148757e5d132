---------------------------- MODULE MouseStream -----------------------------
(***************************************************************************)
(* From the mouse's wires to the pointer: PS2Controller and Mouse, wired   *)
(* as in Mouse.sv, and a PS/2 mouse, which drives the clock.  The mouse is *)
(* not part of the repository; it does what the state machines of the      *)
(* controller expect.  It takes a command when the host asks for it,       *)
(* acknowledges the frame with a low bit and the command with a byte, and  *)
(* then sends packets of three bytes, unless the host holds the clock.     *)
(* Each phase of its clock takes MinPhase to MaxPhase cycles of the host.  *)
(* A mouse that is still starting up does not answer: it lets the host run *)
(* into up to MaxFailures timeouts.  What it says of its own accord while  *)
(* it starts (its self-test) was said before the host's reset.             *)
(***************************************************************************)
EXTENDS PS2Controller, Mouse, Sequences

CONSTANTS
  Ack,                      \* the mouse's answer to a command: 8'hfa
  Status, XMove, YMove,     \* the bytes of a packet
  MinPhase, MaxPhase,       \* bounds on the phases of the mouse's clock
  MaxFailures,              \* bound on transmissions that time out
  MaxPackets,               \* bound on packets
  MaxResets                 \* bound on presses of the reset key

ASSUME StreamAssumption ==
  /\ Command # Ack /\ {Ack, Status, XMove, YMove} \subseteq Bytes
  /\ MinPhase \in Nat /\ MaxPhase \in Nat /\ 4 <= MinPhase /\ MinPhase <= MaxPhase
  /\ 2 * MaxPhase + 2 < Cycles101us /\ 2 * MaxPhase + 6 < Cycles15ms
  /\ 23 * (MaxPhase + 1) < Cycles2ms
  /\ {MaxFailures, MaxPackets, MaxResets} \subseteq Nat

VARIABLES
  device,     \* "idle", or in the frame of a byte: "send", "receive"
  bit,        \* the bit of the frame, 1 .. 11
  phase,      \* host cycles since the mouse's last move
  heard,      \* the bits of the host's frame so far
  pending,    \* the bytes it has to send
  streaming,  \* it has been enabled
  awake,      \* it has started up
  failures, packets, resets,  \* how many there have been
  reset       \* the reset key is down, at the last edge of the clock

wires == <<devClk, devDat>>
deviceVars == <<wires, device, bit, phase, heard, pending, streaming, awake>>
streamVars ==
  <<hostVars, mouseVars, deviceVars, failures, packets, resets, reset>>

Packet == <<Status, XMove, YMove>>

StreamInit ==
  /\ HostInit
  /\ MouseInit
  /\ devClk = 1 /\ devDat = 1
  /\ device = "idle" /\ bit = 0 /\ phase = 0 /\ heard = 0
  /\ pending = <<>>
  /\ streaming = FALSE
  /\ awake = (MaxFailures = 0)
  /\ failures = 0 /\ packets = 0 /\ resets = 0 /\ reset = FALSE

-----------------------------------------------------------------------------
(* The mouse.                                                              *)
Inhibited == devClk = 1 /\ PS2_CLK = 0
Requested == PS2_CLK = 1 /\ devDat = 1 /\ PS2_DAT = 0
LineFree == PS2_CLK = 1 /\ PS2_DAT = 1

FrameBit(b, n) ==
  IF n = 1 THEN 0 ELSE IF n = 10 THEN OddParity(b) ELSE IF n = 11 THEN 1
  ELSE BitOf(b, n - 2)

(* What the mouse will do next, once its phase is over.                    *)
HasWork ==
  /\ awake
  /\ \/ device # "idle"
     \/ devDat = 0
     \/ Requested
     \/ LineFree /\ pending # <<>>

(* It lets time pass; while the host holds the clock it waits.             *)
Hold ==
  /\ HasWork => phase < MaxPhase
  /\ phase' = IF device = "idle" /\ Inhibited THEN 0
              ELSE IF phase < MaxPhase THEN phase + 1 ELSE phase
  /\ awake' \in IF failures < MaxFailures THEN {awake, TRUE} ELSE {TRUE}
  /\ UNCHANGED <<wires, device, bit, heard, pending, streaming, packets>>

Moves == awake /\ phase >= MinPhase /\ phase' = 0 /\ UNCHANGED awake

HearRequest ==
  /\ Moves /\ device = "idle" /\ Requested
  /\ device' = "receive" /\ bit' = 1 /\ devClk' = 0 /\ heard' = 0
  /\ UNCHANGED <<devDat, pending, streaming, packets>>

ReceiveFall ==
  /\ Moves /\ device = "receive" /\ devClk = 1 /\ ~Inhibited
  /\ bit' = bit + 1 /\ devClk' = 0
  /\ devDat' = IF bit = 10 THEN 0 ELSE 1
  /\ UNCHANGED <<device, heard, pending, streaming, packets>>

ReceiveRise ==
  /\ Moves /\ device = "receive" /\ devClk = 0 /\ bit < 11
  /\ devClk' = 1
  /\ heard' = PS2_DAT * 512 + heard \div 2
  /\ UNCHANGED <<devDat, device, bit, pending, streaming, packets>>

(* The acknowledge bit may go with the clock or after it.                  *)
Acknowledge ==
  /\ Moves /\ device = "receive" /\ devClk = 0 /\ bit = 11
  /\ devClk' = 1 /\ devDat' \in 0 .. 1
  /\ device' = "idle" /\ bit' = 0
  /\ pending' = <<Ack>> /\ streaming' = TRUE
  /\ UNCHANGED <<heard, packets>>

ReleaseData ==
  /\ Moves /\ device = "idle" /\ devDat = 0
  /\ devDat' = 1
  /\ UNCHANGED <<devClk, device, bit, heard, pending, streaming, packets>>

NewPacket ==
  /\ Moves /\ device = "idle" /\ streaming /\ pending = <<>>
  /\ packets < MaxPackets
  /\ packets' = packets + 1 /\ pending' = Packet
  /\ UNCHANGED <<wires, device, bit, heard, streaming>>

StartByte ==
  /\ Moves /\ device = "idle" /\ LineFree /\ pending # <<>>
  /\ device' = "send" /\ bit' = 1 /\ devClk' = 0
  /\ devDat' = FrameBit(Head(pending), 1)
  /\ UNCHANGED <<heard, pending, streaming, packets>>

SendFall ==
  /\ Moves /\ device = "send" /\ devClk = 1 /\ ~Inhibited
  /\ bit' = bit + 1 /\ devClk' = 0
  /\ devDat' = FrameBit(Head(pending), bit + 1)
  /\ UNCHANGED <<device, heard, pending, streaming, packets>>

SendRise ==
  /\ Moves /\ device = "send" /\ devClk = 0
  /\ devClk' = 1
  /\ \/ /\ bit = 11
        /\ device' = "idle" /\ bit' = 0 /\ pending' = Tail(pending)
     \/ bit # 11 /\ UNCHANGED <<device, bit, pending>>
  /\ UNCHANGED <<devDat, heard, streaming, packets>>

(* The host has taken the clock: the byte will be sent again.              *)
Abort ==
  /\ Moves /\ device # "idle" /\ Inhibited
  /\ device' = "idle" /\ bit' = 0 /\ devDat' = 1
  /\ UNCHANGED <<devClk, heard, pending, streaming, packets>>

Device ==
  \/ Hold
  \/ HearRequest \/ ReceiveFall \/ ReceiveRise \/ Acknowledge \/ ReleaseData
  \/ NewPacket \/ StartByte \/ SendFall \/ SendRise
  \/ Abort

-----------------------------------------------------------------------------
MouseEdge ==
  \/ /\ received_data_en
     /\ \/ XByte(received_data)
        \/ YByte(received_data)
        \/ StatusByte(received_data)
  \/ ~received_data_en /\ UNCHANGED mouseVars

Cycle ==
  /\ HostEdge
  /\ MouseEdge
  /\ Device
  /\ failures' = IF transmitter # "error" /\ transmitter' = "error"
                    /\ failures < MaxFailures
                 THEN failures + 1 ELSE failures
  /\ reset' = FALSE /\ UNCHANGED resets

(* The key may stay down for any number of edges.                          *)
ResetCycle ==
  /\ \/ ~reset /\ resets < MaxResets /\ resets' = resets + 1
     \/ reset /\ UNCHANGED resets
  /\ reset' = TRUE
  /\ HostReset
  /\ Reset
  /\ Device
  /\ UNCHANGED failures

StreamNext == Cycle \/ ResetCycle

StreamSpec == StreamInit /\ [][StreamNext]_streamVars /\ WF_streamVars(Cycle)

-----------------------------------------------------------------------------
(* The mouse hears the command, its parity and its stop bit, although the  *)
(* host sees every edge of the clock two cycles late and a transmission    *)
(* may have been broken off before.  A reset during a transmission lets go *)
(* of the data line: a mouse that clocks on until the host takes its clock *)
(* to start again then hears ones, and nothing is said of that frame.      *)
CommandHeard ==
  device = "receive" /\ bit = 11 /\ transmitter \notin {"idle", "initiate"} =>
    heard = 512 + 256 * OddParity(Command) + Command

(* Every byte of a packet gets to its register.  Mouse.sv counts bytes from*)
(* the reset and throws none away: it depends on receiving exactly two     *)
(* before the first packet.  These are the command, which the receiver     *)
(* takes from the wire while the transmitter sends it, and the answer.     *)
(* Requests that time out leave bits in the receiver; after six of them    *)
(* two bytes still come out.  (What is pending tells which byte it is; a   *)
(* last byte that looks like the answer cannot be told from it.)           *)
PacketsUnderstood ==
  init_done /\ device = "send" /\ bit = 1 /\ devClk = 0 =>
    /\ pending # <<Ack>> => transceiver = "idle"
    /\ pending = Packet => counter = 2
    /\ pending = <<XMove, YMove>> => counter = 0 /\ byte1 = Status
    /\ pending = <<YMove>> /\ YMove # Ack =>
         counter = 1 /\ byte1 = Status /\ byte3 = XMove

(* "Byte 3 for X Movement", as Mouse.sv says of the byte after a status:   *)
(* when the mouse goes on to the third byte of a packet, byte3 holds the   *)
(* second one.                                                             *)
Byte3IsX ==
  init_done /\ device = "send" /\ bit = 1 /\ devClk = 0 /\ Head(pending) = YMove =>
    byte3 = XMove

(* However often a transmission timed out or was reset, in the end the     *)
(* mouse is enabled, the host leaves the wires alone and the mouse gets    *)
(* rid of its bytes.                                                       *)
MouseEnabled ==
  <>[](init_done /\ streaming /\ transmitter = "idle" /\ HostClk = 1)
    /\ []<>(pending = <<>>)

=============================================================================
