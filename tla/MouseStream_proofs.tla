------------------------ MODULE MouseStream_proofs -------------------------
(***************************************************************************)
(* The way from the mouse's wires to the pointer, for all timers and all   *)
(* clocks of the mouse that StreamAssumption admits.  The command that the *)
(* host sends is heard; the bytes that the mouse sends get to the registers*)
(* of Mouse.sv that they are for; and Mouse.sv implements Pointer, for     *)
(* every width of its registers and every stream of bytes, so also with    *)
(* the stream that comes from the wires.                                   *)
(***************************************************************************)
EXTENDS MouseStream, TLAPS

(* What the mouse has heard after n bits of the frame.                     *)
Frame == 512 + 256 * OddParity(Command) + Command

Heard(n) == (Frame % 2^n) * 2^(10 - n)

-----------------------------------------------------------------------------
(* The state of the transmitter that has seen the fall of bit n.           *)
Seen(n) ==
  \/ n = 0 /\ transmitter = "wait"
  \/ n \in 1 .. 9 /\ transmitter = "transmit" /\ cur_bit = n - 1
  \/ n = 10 /\ transmitter = "stop"
  \/ n = 11 /\ transmitter = "ack"

Requesting == transmitter \in {"wait"} \cup Transferring

LinkTypeOK ==
  /\ transmitter \in {"idle", "initiate", "wait", "sent", "error"}
                       \cup Transferring
  /\ ps2_clk_reg \in 0 .. 1 /\ last_ps2_clk \in 0 .. 1
  /\ cur_bit \in Nat /\ command_initiate_counter \in Nat
  /\ transfer_counter \in Nat
  /\ device \in {"idle", "send", "receive"}
  /\ devClk \in 0 .. 1 /\ phase \in 0 .. MaxPhase /\ bit \in Nat
  /\ device = "idle" => devClk = 1
  /\ device # "idle" => awake = TRUE
  /\ device = "receive" => bit \in 1 .. 11 /\ (devClk = 1 => bit <= 10)

(* The samples run one and two cycles behind the mouse's clock.            *)
Sampled ==
  /\ phase = 0 => ps2_clk_reg = 1 - devClk
  /\ phase >= 1 => ps2_clk_reg = devClk
  /\ phase <= 1 => last_ps2_clk = 1 - devClk
  /\ phase >= 2 => last_ps2_clk = devClk

(* The host follows the mouse: it has seen a fall once two cycles are over.*)
Followed ==
  IF devClk = 0 /\ phase <= 1 THEN Seen(bit - 1) ELSE Seen(bit)

(* No phase takes longer than MaxPhase, so the timer cannot have run out.  *)
InTime ==
  transmitter # "wait" =>
    transfer_counter <= (2 * (bit - 1) + devClk) * (MaxPhase + 1) + phase

InFrame ==
  device = "receive" /\ Requesting =>
    /\ Sampled /\ Followed /\ InTime
    /\ bit <= 10 => devDat = 1
    /\ heard = Heard(bit - 1 + devClk)

(* A frame that was broken off is given up before the host lets go of the  *)
(* clock.                                                                  *)
GivingUp ==
  transmitter = "initiate" =>
    /\ command_initiate_counter >= 1 => ps2_clk_reg = 0
    /\ command_initiate_counter >= 2 => last_ps2_clk = 0
    /\ device # "idle" =>
         command_initiate_counter <= phase + devClk * (MaxPhase + 1)

(* Before the request is answered the host has seen a high clock.          *)
Waiting ==
  transmitter = "wait" /\ device = "idle" =>
    /\ phase >= 1 => ps2_clk_reg = 1
    /\ phase >= 2 => last_ps2_clk = 1
    /\ ps2_clk_reg = 0 => last_ps2_clk = 0

(* Which frames the states of the transmitter go with.                     *)
Together ==
  /\ transmitter = "wait" => device # "send"
  /\ transmitter \in {"transmit", "stop"} => device = "receive"
  /\ transmitter = "sent" => device # "receive"
  /\ transmitter = "error" /\ device = "receive" =>
       /\ bit = 1 /\ devClk = 0
       /\ phase <= IF error_communication_timed_out THEN 2 ELSE 1

LinkInv ==
  LinkTypeOK /\ InFrame /\ GivingUp /\ Waiting /\ Together
-----------------------------------------------------------------------------
(* What the assumptions on the timers are used for.                        *)
LEMMA Timers ==
  /\ MinPhase \in Nat /\ MaxPhase \in Nat /\ MinPhase >= 4 /\ MaxPhase >= 4
  /\ Cycles101us \in Nat /\ Cycles15ms \in Nat /\ Cycles2ms \in Nat
  /\ 2 * MaxPhase + 2 < Cycles101us
  /\ 23 * (MaxPhase + 1) < Cycles2ms
  /\ Command \in 0 .. 255
  BY StreamAssumption, PS2Assumption

(* A frame has twenty-one halves, which fit in the transfer timer.         *)
LEMMA Halves ==
  ASSUME NEW i \in 0 .. 20
  PROVE  /\ i * (MaxPhase + 1) \in Nat
         /\ i * (MaxPhase + 1) + MaxPhase + 1 < Cycles2ms
         /\ (i + 1) * (MaxPhase + 1) = i * (MaxPhase + 1) + MaxPhase + 1
<1>1. \A k \in Nat : i * k \in Nat /\ i * k <= 20 * k
  OBVIOUS
<1>2. \A k \in Int : (i + 1) * k = i * k + k
  OBVIOUS
<1>3. MaxPhase + 1 \in Nat
  BY Timers
<1> QED
  BY <1>1, <1>2, <1>3, Timers

(* A bit is a bit.                                                         *)
LEMMA Bits ==
  ASSUME NEW b \in 0 .. 255
  PROVE  /\ BitOf(b, 0) = (b \div 1) % 2
  /\ BitOf(b, 1) = (b \div 2) % 2
  /\ BitOf(b, 2) = (b \div 4) % 2
  /\ BitOf(b, 3) = (b \div 8) % 2
  /\ BitOf(b, 4) = (b \div 16) % 2
  /\ BitOf(b, 5) = (b \div 32) % 2
  /\ BitOf(b, 6) = (b \div 64) % 2
  /\ BitOf(b, 7) = (b \div 128) % 2
  BY DEF BitOf

(* Each bit is zero or one, and the eight of them are the byte.            *)
LEMMA BitValues ==
  ASSUME NEW s \in 0 .. 255
  PROVE  /\ BitOf(s, 0) \in 0 .. 1 /\ BitOf(s, 1) \in 0 .. 1
         /\ BitOf(s, 2) \in 0 .. 1 /\ BitOf(s, 3) \in 0 .. 1
         /\ BitOf(s, 4) \in 0 .. 1 /\ BitOf(s, 5) \in 0 .. 1
         /\ BitOf(s, 6) \in 0 .. 1 /\ BitOf(s, 7) \in 0 .. 1
         /\ s = BitOf(s, 0) + 2 * BitOf(s, 1) + 4 * BitOf(s, 2)
                + 8 * BitOf(s, 3) + 16 * BitOf(s, 4) + 32 * BitOf(s, 5)
                + 64 * BitOf(s, 6) + 128 * BitOf(s, 7)
  BY Bits

(* A parity is a bit too.                                                  *)
LEMMA ParityOf ==
  ASSUME NEW b \in 0 .. 255
  PROVE  OddParity(b) \in 0 .. 1
<1> DEFINE s == 1 + BitOf(b, 0) + BitOf(b, 1) + BitOf(b, 2) + BitOf(b, 3)
                  + BitOf(b, 4) + BitOf(b, 5) + BitOf(b, 6) + BitOf(b, 7)
<1>1. s \in Int
  BY BitValues
<1>2. OddParity(b) = s % 2
  BY DEF OddParity
<1> HIDE DEF s
<1> QED
  BY <1>1, <1>2

(* And so is that of the command.                                          *)
LEMMA Parity == OddParity(Command) \in 0 .. 1
  BY ParityOf, Timers

(* The bits heard so far, at the top of the shift register.                *)
LEMMA HeardAt ==
  /\ Heard(0) = (Frame % 1) * 1024
  /\ Heard(1) = (Frame % 2) * 512
  /\ Heard(2) = (Frame % 4) * 256
  /\ Heard(3) = (Frame % 8) * 128
  /\ Heard(4) = (Frame % 16) * 64
  /\ Heard(5) = (Frame % 32) * 32
  /\ Heard(6) = (Frame % 64) * 16
  /\ Heard(7) = (Frame % 128) * 8
  /\ Heard(8) = (Frame % 256) * 4
  /\ Heard(9) = (Frame % 512) * 2
  /\ Heard(10) = (Frame % 1024) * 1
  BY DEF Heard

(* The bits the host puts on the wire are those of the frame, in order:    *)
(* with each of them the shift register of the mouse gets one further.     *)
LEMMA NextBit ==
  ASSUME NEW n \in 0 .. 9
  PROVE  Heard(n + 1) =
           (IF n = 9 THEN 1 ELSE CommandBit(n)) * 512 + Heard(n) \div 2
<1> DEFINE p == OddParity(Command)
           b0 == (Command \div 1) % 2
           b1 == (Command \div 2) % 2
           b2 == (Command \div 4) % 2
           b3 == (Command \div 8) % 2
           b4 == (Command \div 16) % 2
           b5 == (Command \div 32) % 2
           b6 == (Command \div 64) % 2
           b7 == (Command \div 128) % 2
<1>0. p \in 0 .. 1 /\ Command \in 0 .. 255
  BY Parity, Timers
<1>1. /\ CommandBit(0) = b0
      /\ CommandBit(1) = b1
      /\ CommandBit(2) = b2
      /\ CommandBit(3) = b3
      /\ CommandBit(4) = b4
      /\ CommandBit(5) = b5
      /\ CommandBit(6) = b6
      /\ CommandBit(7) = b7
  BY Bits, Timers DEF CommandBit
<1>2. CommandBit(8) = p
  BY DEF CommandBit
<1>3. Frame = 512 + 256 * p + Command
  BY DEF Frame
<1>4. n \in {0, 1, 2, 3, 4, 5, 6, 7, 8, 9}
  OBVIOUS
<1>5. /\ b0 \in 0 .. 1 /\ b1 \in 0 .. 1 /\ b2 \in 0 .. 1 /\ b3 \in 0 .. 1
      /\ b4 \in 0 .. 1 /\ b5 \in 0 .. 1 /\ b6 \in 0 .. 1 /\ b7 \in 0 .. 1
  BY <1>0
<1>6. Command = b0 + 2 * b1 + 4 * b2 + 8 * b3 + 16 * b4 + 32 * b5
                + 64 * b6 + 128 * b7
  BY <1>0
<1> HIDE DEF p, b0, b1, b2, b3, b4, b5, b6, b7
<1>7. Heard(0) = 0
  <2>1. Frame % 1 = 0
    BY <1>0, <1>3, <1>5, <1>6
  <2> QED
    BY <1>0, <1>5, <2>1, HeardAt
<1>8. Heard(1) = 512 * b0
  <2>1. Frame % 2 = b0
    BY <1>0, <1>3, <1>5, <1>6
  <2> QED
    BY <1>0, <1>5, <2>1, HeardAt
<1>9. Heard(2) = 256 * b0 + 512 * b1
  <2>1. Frame % 4 = b0 + 2 * b1
    BY <1>0, <1>3, <1>5, <1>6
  <2> QED
    BY <1>0, <1>5, <2>1, HeardAt
<1>10. Heard(3) = 128 * b0 + 256 * b1 + 512 * b2
  <2>1. Frame % 8 = b0 + 2 * b1 + 4 * b2
    BY <1>0, <1>3, <1>5, <1>6
  <2> QED
    BY <1>0, <1>5, <2>1, HeardAt
<1>11. Heard(4) = 64 * b0 + 128 * b1 + 256 * b2 + 512 * b3
  <2>1. Frame % 16 = b0 + 2 * b1 + 4 * b2 + 8 * b3
    BY <1>0, <1>3, <1>5, <1>6
  <2> QED
    BY <1>0, <1>5, <2>1, HeardAt
<1>12. Heard(5) = 32 * b0 + 64 * b1 + 128 * b2 + 256 * b3 + 512 * b4
  <2>1. Frame % 32 = b0 + 2 * b1 + 4 * b2 + 8 * b3 + 16 * b4
    BY <1>0, <1>3, <1>5, <1>6
  <2> QED
    BY <1>0, <1>5, <2>1, HeardAt
<1>13. Heard(6) = 16 * b0 + 32 * b1 + 64 * b2 + 128 * b3 + 256 * b4
                  + 512 * b5
  <2>1. Frame % 64 = b0 + 2 * b1 + 4 * b2 + 8 * b3 + 16 * b4 + 32 * b5
    BY <1>0, <1>3, <1>5, <1>6
  <2> QED
    BY <1>0, <1>5, <2>1, HeardAt
<1>14. Heard(7) = 8 * b0 + 16 * b1 + 32 * b2 + 64 * b3 + 128 * b4
                  + 256 * b5 + 512 * b6
  <2>1. Frame % 128 = b0 + 2 * b1 + 4 * b2 + 8 * b3 + 16 * b4 + 32 * b5
                   + 64 * b6
    BY <1>0, <1>3, <1>5, <1>6
  <2> QED
    BY <1>0, <1>5, <2>1, HeardAt
<1>15. Heard(8) = 4 * b0 + 8 * b1 + 16 * b2 + 32 * b3 + 64 * b4 + 128 * b5
                  + 256 * b6 + 512 * b7
  <2>1. Frame % 256 = b0 + 2 * b1 + 4 * b2 + 8 * b3 + 16 * b4 + 32 * b5
                   + 64 * b6 + 128 * b7
    BY <1>0, <1>3, <1>5, <1>6
  <2> QED
    BY <1>0, <1>5, <2>1, HeardAt
<1>16. Heard(9) = 2 * b0 + 4 * b1 + 8 * b2 + 16 * b3 + 32 * b4 + 64 * b5
                  + 128 * b6 + 256 * b7 + 512 * p
  <2>1. Frame % 512 = b0 + 2 * b1 + 4 * b2 + 8 * b3 + 16 * b4 + 32 * b5
                   + 64 * b6 + 128 * b7 + 256 * p
    BY <1>0, <1>3, <1>5, <1>6
  <2> QED
    BY <1>0, <1>5, <2>1, HeardAt
<1>17. Heard(10) = b0 + 2 * b1 + 4 * b2 + 8 * b3 + 16 * b4 + 32 * b5
                  + 64 * b6 + 128 * b7 + 256 * p + 512
  <2>1. Frame % 1024 = b0 + 2 * b1 + 4 * b2 + 8 * b3 + 16 * b4 + 32 * b5
                   + 64 * b6 + 128 * b7 + 256 * p + 512
    BY <1>0, <1>3, <1>5, <1>6
  <2> QED
    BY <1>0, <1>5, <2>1, HeardAt
<1>18. CASE n = 0
  BY <1>18, <1>0, <1>5, <1>7, <1>8, <1>1
<1>19. CASE n = 1
  BY <1>19, <1>0, <1>5, <1>8, <1>9, <1>1
<1>20. CASE n = 2
  BY <1>20, <1>0, <1>5, <1>9, <1>10, <1>1
<1>21. CASE n = 3
  BY <1>21, <1>0, <1>5, <1>10, <1>11, <1>1
<1>22. CASE n = 4
  <2>1. Heard(4) \div 2 = 32 * b0 + 64 * b1 + 128 * b2 + 256 * b3
    BY <1>0, <1>5, <1>11
  <2> QED
    BY <1>22, <2>1, <1>0, <1>5, <1>12, <1>1
<1>23. CASE n = 5
  <2>1. Heard(5) \div 2 = 16 * b0 + 32 * b1 + 64 * b2 + 128 * b3
                           + 256 * b4
    BY <1>0, <1>5, <1>12
  <2> QED
    BY <1>23, <2>1, <1>0, <1>5, <1>13, <1>1
<1>24. CASE n = 6
  <2>1. Heard(6) \div 2 = 8 * b0 + 16 * b1 + 32 * b2 + 64 * b3 + 128 * b4
                           + 256 * b5
    BY <1>0, <1>5, <1>13
  <2> QED
    BY <1>24, <2>1, <1>0, <1>5, <1>14, <1>1
<1>25. CASE n = 7
  <2>1. Heard(7) \div 2 = 4 * b0 + 8 * b1 + 16 * b2 + 32 * b3 + 64 * b4
                           + 128 * b5 + 256 * b6
    BY <1>0, <1>5, <1>14
  <2> QED
    BY <1>25, <2>1, <1>0, <1>5, <1>15, <1>1
<1>26. CASE n = 8
  <2>1. Heard(8) \div 2 = 2 * b0 + 4 * b1 + 8 * b2 + 16 * b3 + 32 * b4
                           + 64 * b5 + 128 * b6 + 256 * b7
    BY <1>0, <1>5, <1>15
  <2> QED
    BY <1>26, <2>1, <1>0, <1>5, <1>16, <1>2
<1>27. CASE n = 9
  <2>1. Heard(9) \div 2 = b0 + 2 * b1 + 4 * b2 + 8 * b3 + 16 * b4
                           + 32 * b5 + 64 * b6 + 128 * b7 + 256 * p
    BY <1>0, <1>5, <1>16
  <2> QED
    BY <1>27, <2>1, <1>0, <1>5, <1>17
<1> QED
  BY <1>4, <1>18, <1>19, <1>20, <1>21, <1>22, <1>23, <1>24, <1>25, <1>26
    , <1>27

(* What the host puts on the wire are bits.                                *)
LEMMA CommandBits ==
  ASSUME NEW i \in 0 .. 8
  PROVE  CommandBit(i) \in 0 .. 1
<1>1. CommandBit(8) \in 0 .. 1
  BY Parity DEF CommandBit
<1>2. ASSUME i \in 0 .. 7
      PROVE  CommandBit(i) \in 0 .. 1
  <2>1. CommandBit(i) = BitOf(Command, i)
    BY <1>2 DEF CommandBit
  <2>2. i \in {0, 1, 2, 3, 4, 5, 6, 7}
    BY <1>2
  <2> QED
    BY <2>1, <2>2, Bits, Timers
<1> QED
  BY <1>1, <1>2

(* The whole frame is heard, and nothing before its first bit.             *)
LEMMA AllBits == Heard(0) = 0 /\ Heard(10) = Frame
<1>1. Frame \in 0 .. 1023
  BY Parity, Timers DEF Frame
<1> QED
  BY <1>1, HeardAt

-----------------------------------------------------------------------------
(* The host during a frame.  It samples the clock, and the states of the   *)
(* transmitter follow the falls of the mouse's clock, two cycles late; only*)
(* while it waits for the first one may it give up.                        *)
LEMMA HostFollows ==
  ASSUME LinkTypeOK, InFrame, HostEdge, device = "receive", Requesting,
         NEW n \in 1 .. 11, n = bit
  PROVE  /\ ps2_clk_reg' = devClk /\ last_ps2_clk' = ps2_clk_reg
         /\ devClk = 0 /\ phase = 0 =>
              \/ Seen(n - 1)'
              \/ n = 1 /\ transmitter' = "error"
         /\ devClk = 1 \/ phase >= 1 => Seen(n)'
         /\ transmitter' # "wait" =>
              \/ transfer_counter' = 0
              \/ /\ transmitter # "wait"
                 /\ transfer_counter' = transfer_counter + 1
<1>1. Sampled /\ Followed /\ InTime
  BY DEF InFrame
<1>2. ps2_clk_reg' = devClk /\ last_ps2_clk' = ps2_clk_reg
  BY DEF HostEdge, Sample, PS2_CLK, HostClk, Requesting, Transferring
<1>3. transmitter # "wait" => transfer_counter < Cycles2ms
  <2>1. 2 * (bit - 1) + devClk \in 0 .. 20
    BY DEF LinkTypeOK
  <2> QED
    BY <1>1, <2>1, Halves, Timers DEF InTime, LinkTypeOK
<1>4. /\ ps2_clk_negedge <=> devClk = 0 /\ phase = 1
      /\ ps2_clk_posedge <=> devClk = 1 /\ phase = 1
  BY <1>1, Timers
     DEF Sampled, ps2_clk_negedge, ps2_clk_posedge, LinkTypeOK
<1>5. devClk = 0 /\ phase = 0 =>
        Seen(n - 1)' \/ (n = 1 /\ transmitter' = "error")
  <2> SUFFICES ASSUME devClk = 0, phase = 0
               PROVE  Seen(n - 1)' \/ (n = 1 /\ transmitter' = "error")
    OBVIOUS
  <2>1. Seen(n - 1) /\ ~ps2_clk_negedge /\ ~ps2_clk_posedge
    BY <1>1, <1>4 DEF Followed
  <2> QED
    BY <2>1, <1>3 DEF Seen, HostEdge, Transmitter, Transferring, LinkTypeOK
<1>6. devClk = 0 /\ phase = 1 => Seen(n)'
  <2> SUFFICES ASSUME devClk = 0, phase = 1
               PROVE  Seen(n)'
    OBVIOUS
  <2>1. Seen(n - 1) /\ ps2_clk_negedge /\ ~ps2_clk_posedge
    BY <1>1, <1>4 DEF Followed
  <2> QED
    BY <2>1, <1>3 DEF Seen, HostEdge, Transmitter, Transferring, LinkTypeOK
<1>7. devClk = 1 \/ phase >= 2 => Seen(n)'
  <2> SUFFICES ASSUME devClk = 1 \/ phase >= 2
               PROVE  Seen(n)'
    OBVIOUS
  <2>1. Seen(n) /\ ~ps2_clk_negedge /\ (n = 11 => ~ps2_clk_posedge)
    BY <1>1, <1>4 DEF Followed, LinkTypeOK
  <2> QED
    BY <2>1, <1>3 DEF Seen, HostEdge, Transmitter, Transferring, LinkTypeOK
<1>8. transmitter' # "wait" =>
        \/ transfer_counter' = 0
        \/ transmitter # "wait" /\ transfer_counter' = transfer_counter + 1
  BY <1>3, Timers
     DEF HostEdge, Transmitter, Timer, Transferring, Requesting, LinkTypeOK
<1> QED
  BY <1>2, <1>5, <1>6, <1>7, <1>8 DEF LinkTypeOK

(* A request stands or goes on only if it did before: the host does not    *)
(* let go of the clock while a frame that was broken off is still there.   *)
LEMMA StillRequesting ==
  ASSUME LinkTypeOK, GivingUp, HostEdge, Requesting',
         device # "idle"
  PROVE  Requesting
<1>1. transmitter = "initiate" => command_initiate_counter # Cycles101us
  <2> SUFFICES ASSUME transmitter = "initiate"
               PROVE  command_initiate_counter < Cycles101us
    BY Timers
  <2>1. command_initiate_counter <= phase + devClk * (MaxPhase + 1)
    BY DEF GivingUp
  <2>2. devClk * (MaxPhase + 1) <= MaxPhase + 1
    BY Timers DEF LinkTypeOK
  <2> QED
    BY <2>1, <2>2, Timers DEF LinkTypeOK
<1> QED
  BY <1>1
     DEF HostEdge, Transmitter, Requesting, Transferring, LinkTypeOK

(* What the mouse does while it takes a frame.                             *)
LEMMA FrameStep ==
  ASSUME LinkTypeOK, Device, device = "receive", device' = "receive"
  PROVE  Hold \/ ReceiveFall \/ ReceiveRise
  BY DEF Device, HearRequest, Acknowledge, ReleaseData, NewPacket, StartByte,
         SendFall, SendRise, Abort, LinkTypeOK

(* It cannot hold still for longer than MaxPhase.                          *)
LEMMA HoldInFrame ==
  ASSUME LinkTypeOK, Hold, device # "idle"
  PROVE  /\ phase < MaxPhase /\ phase' = phase + 1
         /\ UNCHANGED <<devClk, devDat, device, bit, heard>>
  BY DEF Hold, HasWork, wires, LinkTypeOK

(* The host asks for a frame only while it waits.                          *)
LEMMA AskedWhileWaiting ==
  ASSUME LinkInv, HearRequest
  PROVE  transmitter = "wait" /\ devClk = 1 /\ devDat = 1
  BY DEF LinkInv, LinkTypeOK, Together, HearRequest, Requested, PS2_CLK,
         PS2_DAT, HostClk, HostDat, Transferring

-----------------------------------------------------------------------------
(* After power-up the transmitter is idle, and nothing is claimed.         *)
LEMMA LinkStarts == StreamInit => LinkInv
  BY Timers
     DEF StreamInit, HostInit, LinkInv, LinkTypeOK, InFrame, GivingUp, Waiting,
         Together, Requesting, Transferring

(* Types of the host, with either edge.                                    *)
LEMMA HostTypes ==
  ASSUME LinkTypeOK, HostEdge \/ HostReset
  PROVE  /\ transmitter' \in {"idle", "initiate", "wait", "sent", "error"}
                               \cup Transferring
         /\ ps2_clk_reg' \in 0 .. 1 /\ last_ps2_clk' \in 0 .. 1
         /\ cur_bit' \in Nat /\ command_initiate_counter' \in Nat
         /\ transfer_counter' \in Nat
<1>1. CASE HostReset
  BY <1>1 DEF HostReset
<1>2. CASE HostEdge
  <2>1. transmitter' \in {"idle", "initiate", "wait", "sent", "error"}
                           \cup Transferring
    BY <1>2 DEF HostEdge, Transmitter, Transferring, LinkTypeOK
  <2>2. ps2_clk_reg' \in 0 .. 1 /\ last_ps2_clk' \in 0 .. 1
    BY <1>2 DEF HostEdge, Sample, PS2_CLK, LinkTypeOK
  <2>3. /\ cur_bit' \in Nat /\ command_initiate_counter' \in Nat
        /\ transfer_counter' \in Nat
    BY <1>2 DEF HostEdge, Transmitter, Timer, LinkTypeOK
  <2> QED
    BY <2>1, <2>2, <2>3
<1> QED
  BY <1>1, <1>2

(* Of the mouse.                                                           *)
LEMMA DeviceTypes ==
  ASSUME LinkTypeOK, Device
  PROVE  /\ device' \in {"idle", "send", "receive"}
         /\ devClk' \in 0 .. 1 /\ phase' \in 0 .. MaxPhase /\ bit' \in Nat
         /\ device' = "idle" => devClk' = 1
         /\ device' # "idle" => awake' = TRUE
         /\ device' = "receive" =>
              bit' \in 1 .. 11 /\ (devClk' = 1 => bit' <= 10)
<1>1. CASE Hold
  <2>1. phase' \in 0 .. MaxPhase
    BY <1>1, Timers DEF Hold, LinkTypeOK
  <2>2. UNCHANGED <<devClk, device, bit>>
    BY <1>1 DEF Hold, wires
  <2>3. awake = TRUE => awake' = TRUE
    BY <1>1 DEF Hold
  <2> QED
    BY <2>1, <2>2, <2>3 DEF LinkTypeOK
<1>2. CASE HearRequest
  BY <1>2, Timers DEF HearRequest, Moves, LinkTypeOK
<1>3. CASE ReceiveFall
  BY <1>3, Timers DEF ReceiveFall, Moves, LinkTypeOK
<1>4. CASE ReceiveRise
  BY <1>4, Timers DEF ReceiveRise, Moves, LinkTypeOK
<1>5. CASE Acknowledge
  BY <1>5, Timers DEF Acknowledge, Moves, LinkTypeOK
<1>6. CASE ReleaseData
  BY <1>6, Timers DEF ReleaseData, Moves, LinkTypeOK
<1>7. CASE NewPacket
  BY <1>7, Timers DEF NewPacket, Moves, wires, LinkTypeOK
<1>8. CASE StartByte
  BY <1>8, Timers DEF StartByte, Moves, LinkTypeOK
<1>9. CASE SendFall
  BY <1>9, Timers DEF SendFall, Moves, LinkTypeOK
<1>10. CASE SendRise
  BY <1>10, Timers DEF SendRise, Moves, LinkTypeOK
<1>11. CASE Abort
  BY <1>11, Timers DEF Abort, Inhibited, Moves, LinkTypeOK
<1> QED
  BY <1>1, <1>2, <1>3, <1>4, <1>5, <1>6, <1>7, <1>8, <1>9, <1>10, <1>11
     DEF Device

(* Of both, in every step.                                                 *)
LEMMA TypesStep ==
  ASSUME LinkTypeOK, StreamNext
  PROVE  LinkTypeOK'
<1>1. Device /\ (HostEdge \/ HostReset)
  BY DEF StreamNext, Cycle, ResetCycle
<1> QED
  BY <1>1, HostTypes, DeviceTypes DEF LinkTypeOK, Transferring

-----------------------------------------------------------------------------
(* The frame goes on: the next fall, the next rise, or more of a phase.    *)
LEMMA InFrameStep ==
  ASSUME LinkInv, HostEdge, Device
  PROVE  InFrame'
<1> SUFFICES ASSUME device' = "receive", Requesting'
             PROVE  /\ Sampled' /\ Followed' /\ InTime'
                    /\ (bit <= 10 => devDat = 1)'
                    /\ heard' = Heard(bit - 1 + devClk)'
  BY DEF InFrame
<1>1. CASE device = "receive"
  <2>1. Requesting
    BY <1>1, StillRequesting DEF LinkInv
  <2>2. /\ Sampled /\ Followed /\ InTime
        /\ bit <= 10 => devDat = 1
        /\ heard = Heard(bit - 1 + devClk)
    BY <1>1, <2>1 DEF LinkInv, InFrame
  <2>3. PICK n \in 1 .. 11 : n = bit
    BY <1>1 DEF LinkInv, LinkTypeOK
  <2>4. /\ ps2_clk_reg' = devClk /\ last_ps2_clk' = ps2_clk_reg
        /\ devClk = 0 /\ phase = 0 =>
             Seen(n - 1)' \/ (n = 1 /\ transmitter' = "error")
        /\ devClk = 1 \/ phase >= 1 => Seen(n)'
        /\ transmitter' # "wait" =>
             \/ transfer_counter' = 0
             \/ /\ transmitter # "wait"
                /\ transfer_counter' = transfer_counter + 1
    BY <1>1, <2>1, <2>3, HostFollows DEF LinkInv
  <2> DEFINE half == 2 * (bit - 1) + devClk
  <2>5. /\ half \in 0 .. 20
        /\ half * (MaxPhase + 1) \in Nat
        /\ (half + 1) * (MaxPhase + 1) = half * (MaxPhase + 1) + MaxPhase + 1
    <3>1. half \in 0 .. 20
      BY <1>1 DEF LinkInv, LinkTypeOK
    <3> QED
      BY <3>1, Halves
  <2>6. transmitter # "wait" =>
          transfer_counter <= half * (MaxPhase + 1) + phase
    BY <2>2 DEF InTime
  <2> HIDE DEF half
  <2>7. CASE Hold
    <3>1. /\ phase < MaxPhase /\ phase' = phase + 1
          /\ UNCHANGED <<devClk, devDat, device, bit, heard>>
      BY <1>1, <2>7, HoldInFrame DEF LinkInv
    <3>2. Sampled'
      BY <2>2, <2>4, <3>1 DEF Sampled, LinkInv, LinkTypeOK
    <3>3. Followed'
      <4>1. n = bit'
        BY <2>3, <3>1
      <4>2. transmitter' # "error"
        BY DEF Requesting, Transferring
      <4>3. CASE devClk = 0 /\ phase = 0
        BY <2>4, <3>1, <4>1, <4>2, <4>3 DEF Followed, Seen
      <4>4. CASE ~(devClk = 0 /\ phase = 0)
        BY <2>4, <3>1, <4>1, <4>4 DEF Followed, Seen, LinkInv, LinkTypeOK
      <4> QED
        BY <4>3, <4>4
    <3>4. InTime'
      <4>1. half = 2 * (bit' - 1) + devClk'
        BY <3>1 DEF half
      <4> QED
        BY <2>4, <2>5, <2>6, <3>1, <4>1 DEF InTime, LinkInv, LinkTypeOK
    <3> QED
      BY <2>2, <3>1, <3>2, <3>3, <3>4
  <2>8. CASE ReceiveFall
    <3>1. /\ devClk = 1 /\ devClk' = 0 /\ phase >= 2 /\ phase' = 0
          /\ bit' = n + 1 /\ heard' = heard
          /\ bit # 10 => devDat' = 1
      BY <2>3, <2>8, Timers DEF ReceiveFall, Moves, LinkInv, LinkTypeOK
    <3>2. Sampled'
      BY <2>2, <2>4, <3>1 DEF Sampled, LinkInv, LinkTypeOK
    <3>3. Followed'
      <4>1. bit' - 1 = n
        BY <3>1
      <4> QED
        BY <2>4, <3>1, <4>1 DEF Followed, Seen
    <3>4. InTime'
      <4>1. half + 1 = 2 * (bit' - 1) + devClk'
        BY <2>3, <3>1 DEF half
      <4> QED
        BY <2>4, <2>5, <2>6, <3>1, <4>1, Timers
           DEF InTime, LinkInv, LinkTypeOK
    <3>5. bit - 1 + devClk = bit' - 1 + devClk'
      BY <2>3, <3>1
    <3> QED
      BY <2>2, <2>3, <3>1, <3>2, <3>3, <3>4, <3>5
  <2>9. CASE ReceiveRise
    <3>1. /\ devClk = 0 /\ devClk' = 1 /\ phase >= 2 /\ phase' = 0
          /\ n \in 1 .. 10 /\ bit' = n /\ devDat' = devDat
          /\ heard' = PS2_DAT * 512 + heard \div 2
      BY <2>3, <2>9, Timers DEF ReceiveRise, Moves, LinkInv, LinkTypeOK
    <3>2. Sampled'
      BY <2>2, <2>4, <3>1 DEF Sampled, LinkInv, LinkTypeOK
    <3>3. Followed'
      BY <2>4, <3>1 DEF Followed, Seen, LinkInv, LinkTypeOK
    <3>4. InTime'
      <4>1. half + 1 = 2 * (bit' - 1) + devClk'
        BY <2>3, <3>1 DEF half
      <4> QED
        BY <2>4, <2>5, <2>6, <3>1, <4>1, Timers
           DEF InTime, LinkInv, LinkTypeOK
    <3>5. heard' = Heard(n)
      <4>1. Seen(n)
        BY <2>2, <2>3, <3>1 DEF Followed, LinkInv, LinkTypeOK
      <4>2. PS2_DAT = IF n - 1 = 9 THEN 1 ELSE CommandBit(n - 1)
        <5>1. devDat = 1
          BY <2>2, <2>3, <3>1
        <5>2. CASE n = 10
          BY <4>1, <5>1, <5>2 DEF Seen, PS2_DAT, HostDat
        <5>3. CASE n \in 1 .. 9
          <6>1. transmitter = "transmit" /\ cur_bit = n - 1
            BY <4>1, <5>3 DEF Seen
          <6>2. CommandBit(n - 1) \in 0 .. 1
            BY <5>3, CommandBits
          <6> QED
            BY <5>1, <5>3, <6>1, <6>2 DEF PS2_DAT, HostDat
        <5> QED
          BY <3>1, <5>2, <5>3
      <4>3. heard = Heard(n - 1)
        <5>1. bit - 1 + devClk = n - 1
          BY <2>3, <3>1
        <5> QED
          BY <2>2, <5>1
      <4>4. n - 1 \in 0 .. 9 /\ (n - 1) + 1 = n
        BY <3>1
      <4> QED
        BY <3>1, <4>2, <4>3, <4>4, NextBit
    <3>6. bit' - 1 + devClk' = n
      BY <3>1
    <3> QED
      BY <2>2, <2>3, <3>1, <3>2, <3>3, <3>4, <3>5, <3>6
  <2> QED
    BY <1>1, <2>7, <2>8, <2>9, FrameStep DEF LinkInv
<1>2. CASE device # "receive"
  <2>1. HearRequest
    BY <1>2 DEF Device, Hold, ReceiveFall, ReceiveRise, Acknowledge,
                ReleaseData, NewPacket, StartByte, SendFall, SendRise, Abort
  <2>2. /\ transmitter = "wait" /\ device = "idle" /\ devClk = 1
        /\ phase >= 2 /\ phase' = 0 /\ devClk' = 0 /\ bit' = 1
        /\ devDat = 1 /\ devDat' = devDat /\ heard' = 0
    BY <2>1, AskedWhileWaiting, Timers
       DEF HearRequest, Moves, LinkInv, LinkTypeOK
  <2>3. ps2_clk_reg = 1 /\ last_ps2_clk = 1
    BY <2>2 DEF LinkInv, LinkTypeOK, Waiting
  <2>4. ps2_clk_reg' = 1 /\ last_ps2_clk' = 1
    BY <2>2, <2>3 DEF HostEdge, Sample, PS2_CLK, HostClk
  <2>5. transmitter' = "wait"
    BY <2>2, <2>3
       DEF HostEdge, Transmitter, ps2_clk_negedge, Requesting, Transferring
  <2>6. bit' - 1 = 0 /\ bit' - 1 + devClk' = 0
    BY <2>2
  <2> QED
    BY <2>2, <2>4, <2>5, <2>6, AllBits DEF Sampled, Followed, Seen, InTime
<1> QED
  BY <1>1, <1>2

(* A frame that the host takes to be going on is not given up.             *)
LEMMA FrameGoesOn ==
  ASSUME LinkInv, Device, device = "receive", Requesting,
         transmitter # "ack"
  PROVE  device' = "receive"
<1>1. Sampled /\ Followed
  BY DEF LinkInv, InFrame
<1>2. ~Acknowledge
  <2> SUFFICES ASSUME Acknowledge
               PROVE  FALSE
    OBVIOUS
  <2>1. devClk = 0 /\ bit = 11 /\ phase >= 2
    BY Timers DEF Acknowledge, Moves, LinkInv, LinkTypeOK
  <2>2. Seen(11)
    BY <1>1, <2>1 DEF Followed, LinkInv, LinkTypeOK
  <2> QED
    BY <2>2 DEF Seen
<1>3. ~Abort
  BY DEF Abort, Inhibited, PS2_CLK, HostClk, Requesting, Transferring
<1> QED
  BY <1>2, <1>3
     DEF Device, Hold, HearRequest, ReceiveFall, ReceiveRise, ReleaseData,
         NewPacket, StartByte, SendFall, SendRise

(* A frame in either direction starts only where the mouse starts it.      *)
LEMMA FrameStarts ==
  ASSUME Device
  PROVE  /\ device' = "receive" => device = "receive" \/ HearRequest
         /\ device' = "send" => device = "send" \/ StartByte
  BY DEF Device, Hold, HearRequest, ReceiveFall, ReceiveRise, Acknowledge,
         ReleaseData, NewPacket, StartByte, SendFall, SendRise, Abort

(* Which frames the next state of the transmitter goes with.               *)
LEMMA TogetherStep ==
  ASSUME LinkInv, HostEdge, Device
  PROVE  Together'
<1>1. ASSUME transmitter' = "wait"
      PROVE  device' # "send"
  <2>1. transmitter \in {"wait", "initiate"}
    BY <1>1 DEF HostEdge, Transmitter, LinkInv, LinkTypeOK, Transferring
  <2>2. ~StartByte
    BY <2>1 DEF StartByte, LineFree, PS2_CLK, PS2_DAT, HostClk, HostDat
  <2>3. device # "send"
    <3> SUFFICES ASSUME device = "send"
                 PROVE  FALSE
      OBVIOUS
    <3>1. Requesting
      BY <1>1, StillRequesting DEF LinkInv, Requesting
    <3> QED
      BY <2>1, <3>1 DEF Requesting, Transferring, LinkInv, Together
  <2> QED
    BY <2>2, <2>3, FrameStarts
<1>2. ASSUME transmitter' \in {"transmit", "stop"}
      PROVE  device' = "receive"
  <2>1. \/ transmitter = "wait" /\ ps2_clk_negedge
        \/ transmitter \in {"transmit", "stop"}
    BY <1>2 DEF HostEdge, Transmitter, LinkInv, LinkTypeOK, Transferring
  <2>2. device = "receive"
    BY <2>1 DEF LinkInv, LinkTypeOK, Together, Waiting, ps2_clk_negedge
  <2> QED
    BY <2>1, <2>2, FrameGoesOn DEF Requesting, Transferring
<1>3. ASSUME transmitter' = "sent"
      PROVE  device' # "receive"
  <2>1. \/ transmitter = "ack" /\ ps2_clk_posedge
        \/ transmitter = "sent"
    BY <1>3 DEF HostEdge, Transmitter, LinkInv, LinkTypeOK, Transferring
  <2>2. device # "receive"
    <3> SUFFICES ASSUME device = "receive", transmitter = "ack",
                        ps2_clk_posedge
                 PROVE  FALSE
      BY <2>1 DEF LinkInv, Together
    <3>1. Sampled /\ Followed
      BY DEF LinkInv, InFrame, Requesting, Transferring
    <3>2. devClk = 1 /\ bit \in 1 .. 10
      BY <3>1 DEF Sampled, ps2_clk_posedge, LinkInv, LinkTypeOK
    <3> QED
      BY <3>1, <3>2 DEF Followed, Seen
  <2> QED
    BY <2>1, <2>2, FrameStarts, AskedWhileWaiting
<1>4. ASSUME transmitter' = "error", device' = "receive"
      PROVE  /\ bit' = 1 /\ devClk' = 0
             /\ phase' <= IF error_communication_timed_out' THEN 2 ELSE 1
  <2>1. transmitter = "error" \/ Requesting
    BY <1>4 DEF HostEdge, Transmitter, LinkInv, LinkTypeOK, Requesting,
                Transferring
  <2>2. CASE device # "receive"
    <3>1. HearRequest
      BY <1>4, <2>2, FrameStarts
    <3> QED
      BY <3>1 DEF HearRequest, Moves
  <2>3. CASE device = "receive" /\ transmitter = "error"
    <3>1. bit = 1 /\ devClk = 0 /\ ~error_communication_timed_out /\ phase <= 1
      BY <1>4, <2>3
         DEF LinkInv, Together, HostEdge, Transmitter, send_command
    <3>2. Hold
      <4>1. ~ReceiveFall /\ ~ReceiveRise
        BY <3>1, Timers DEF ReceiveFall, ReceiveRise, Moves, LinkInv, LinkTypeOK
      <4> QED
        BY <1>4, <2>3, <4>1, FrameStep DEF LinkInv
    <3>3. error_communication_timed_out' = TRUE
      BY <2>3 DEF HostEdge, Transmitter
    <3> QED
      BY <2>3, <3>1, <3>2, <3>3, HoldInFrame DEF LinkInv, LinkTypeOK
  <2>4. CASE device = "receive" /\ Requesting
    <3>1. PICK n \in 1 .. 11 : n = bit
      BY <2>4 DEF LinkInv, LinkTypeOK
    <3>2. devClk = 0 /\ phase = 0 /\ n = 1
      <4>1. ~Seen(n)' /\ ~Seen(n - 1)'
        BY <1>4 DEF Seen
      <4> QED
        BY <2>4, <3>1, <4>1, HostFollows DEF LinkInv, LinkTypeOK
    <3>3. Hold
      <4>1. ~ReceiveFall /\ ~ReceiveRise
        BY <3>2, Timers DEF ReceiveFall, ReceiveRise, Moves
      <4> QED
        BY <1>4, <2>4, <4>1, FrameStep DEF LinkInv
    <3> QED
      BY <2>4, <3>1, <3>2, <3>3, HoldInFrame DEF LinkInv
  <2> QED
    BY <2>1, <2>2, <2>3, <2>4
<1> QED
  BY <1>1, <1>2, <1>3, <1>4 DEF Together

(* The mouse counts cycles one by one, and starts again when it moves or   *)
(* the host takes the clock.                                               *)
LEMMA PhaseStep ==
  ASSUME LinkTypeOK, Device
  PROVE  /\ phase' = 0 \/ phase' <= phase + 1
         /\ device = "idle" /\ Inhibited => phase' = 0
<1>1. CASE Hold
  BY <1>1 DEF Hold, LinkTypeOK
<1>2. CASE ~Hold
  BY <1>2 DEF Device, HearRequest, ReceiveFall, ReceiveRise, Acknowledge,
              ReleaseData, NewPacket, StartByte, SendFall, SendRise, Abort,
              Moves
<1> QED
  BY <1>1, <1>2

(* Before the first fall.                                                  *)
LEMMA WaitingStep ==
  ASSUME LinkInv, HostEdge, Device
  PROVE  Waiting'
<1> SUFFICES ASSUME transmitter' = "wait", device' = "idle"
             PROVE  /\ phase' >= 1 => ps2_clk_reg' = 1
                    /\ phase' >= 2 => last_ps2_clk' = 1
                    /\ ps2_clk_reg' = 0 => last_ps2_clk' = 0
  BY DEF Waiting
<1>1. CASE transmitter = "wait"
  <2>1. device = "idle" /\ devClk = 1
    BY <1>1, FrameGoesOn DEF LinkInv, LinkTypeOK, Together, Requesting
  <2>2. ps2_clk_reg' = 1 /\ last_ps2_clk' = ps2_clk_reg
    BY <1>1, <2>1 DEF HostEdge, Sample, PS2_CLK, HostClk
  <2>3. phase' \in Nat
    BY DeviceTypes, Timers DEF LinkInv
  <2>4. phase' >= 2 => phase >= 1
    <3>1. phase \in Nat
      BY Timers DEF LinkInv, LinkTypeOK
    <3>2. phase' = 0 \/ phase' <= phase + 1
      BY PhaseStep DEF LinkInv
    <3> QED
      BY <2>3, <3>1, <3>2
  <2> QED
    BY <1>1, <2>1, <2>2, <2>4 DEF LinkInv, Waiting
<1>2. CASE transmitter = "initiate"
  <2>1. command_initiate_counter = Cycles101us
    BY <1>2 DEF HostEdge, Transmitter
  <2>2. device = "idle" /\ devClk = 1
    BY <1>2, StillRequesting
       DEF LinkInv, LinkTypeOK, Requesting, Transferring
  <2>3. ps2_clk_reg' = 0 /\ last_ps2_clk' = 0
    BY <1>2, <2>1, Timers
       DEF HostEdge, Sample, PS2_CLK, HostClk, LinkInv, GivingUp
  <2>4. phase' = 0
    BY <1>2, <2>2, PhaseStep DEF LinkInv, Inhibited, PS2_CLK, HostClk
  <2> QED
    BY <2>3, <2>4
<1> QED
  BY <1>1, <1>2
     DEF HostEdge, Transmitter, LinkInv, LinkTypeOK, Transferring

(* The host holds the clock until the mouse has given up.                  *)
LEMMA GivingUpStep ==
  ASSUME LinkInv, HostEdge, Device
  PROVE  GivingUp'
<1> SUFFICES ASSUME transmitter' = "initiate"
             PROVE  /\ command_initiate_counter' >= 1 => ps2_clk_reg' = 0
                    /\ command_initiate_counter' >= 2 => last_ps2_clk' = 0
                    /\ device' # "idle" =>
                         command_initiate_counter' <=
                           phase' + devClk' * (MaxPhase + 1)
  BY DEF GivingUp
<1>0. phase' \in Nat /\ devClk' \in 0 .. 1
  BY DeviceTypes, Timers DEF LinkInv
<1>1. CASE transmitter = "idle"
  <2>1. command_initiate_counter' = 0
    BY <1>1 DEF HostEdge, Transmitter, Timer
  <2>2. 0 <= phase' + devClk' * (MaxPhase + 1)
    <3>1. MaxPhase + 1 \in Nat
      BY Timers
    <3>2. \A k \in Nat, d \in 0 .. 1 : d * k \in Nat
      OBVIOUS
    <3> QED
      BY <1>0, <3>1, <3>2
  <2> QED
    BY <2>1, <2>2
<1>2. CASE transmitter = "initiate"
  <2>1. command_initiate_counter' <= command_initiate_counter + 1
    BY <1>2 DEF HostEdge, Transmitter, Timer, LinkInv, LinkTypeOK
  <2>2. ps2_clk_reg' = 0 /\ last_ps2_clk' = ps2_clk_reg
    BY <1>2 DEF HostEdge, Sample, PS2_CLK, HostClk
  <2>3. command_initiate_counter' \in Nat
    BY HostTypes DEF LinkInv
  <2>4. ASSUME device' # "idle"
        PROVE  command_initiate_counter' <= phase' + devClk' * (MaxPhase + 1)
    <3>1. PS2_CLK = 0
      BY <1>2 DEF PS2_CLK, HostClk
    <3>2. device # "idle"
      <4>1. ~HearRequest /\ ~StartByte
        BY <3>1 DEF HearRequest, Requested, StartByte, LineFree
      <4>2. device' \in {"send", "receive"}
        BY <2>4, DeviceTypes DEF LinkInv
      <4> QED
        BY <4>1, <4>2, FrameStarts
    <3>3. command_initiate_counter <= phase + devClk * (MaxPhase + 1)
      BY <1>2, <3>2 DEF LinkInv, GivingUp
    <3>4. CASE Hold
      BY <2>1, <2>3, <3>2, <3>3, <3>4, HoldInFrame, Timers
         DEF LinkInv, LinkTypeOK
    <3>5. CASE ReceiveRise \/ SendRise
      <4>1. devClk = 0 /\ devClk' = 1 /\ phase' = 0
        BY <3>5 DEF ReceiveRise, SendRise, Moves
      <4> QED
        BY <2>1, <2>3, <3>3, <4>1, Timers DEF LinkInv, LinkTypeOK
    <3> QED
      BY <2>4, <3>1, <3>2, <3>4, <3>5
         DEF Device, HearRequest, Requested, ReceiveFall, Acknowledge,
             Inhibited, ReleaseData, NewPacket, StartByte, SendFall, Abort
  <2> QED
    BY <1>2, <2>1, <2>2, <2>3, <2>4 DEF LinkInv, LinkTypeOK, GivingUp
<1> QED
  BY <1>1, <1>2
     DEF HostEdge, Transmitter, LinkInv, LinkTypeOK, Transferring

(* Every cycle keeps the invariant, and so does a reset: it sends the      *)
(* transmitter to idle, of which nothing is claimed.                       *)
LEMMA LinkStep == LinkInv /\ [StreamNext]_streamVars => LinkInv'
<1> SUFFICES ASSUME LinkInv, [StreamNext]_streamVars
             PROVE  LinkInv'
  OBVIOUS
<1>1. CASE Cycle
  <2>1. HostEdge /\ Device
    BY <1>1 DEF Cycle
  <2>2. LinkTypeOK'
    BY <1>1, TypesStep DEF LinkInv, StreamNext
  <2> QED
    BY <2>1, <2>2, InFrameStep, GivingUpStep, WaitingStep, TogetherStep
       DEF LinkInv
<1>2. CASE ResetCycle
  <2>1. transmitter' = "idle"
    BY <1>2 DEF ResetCycle, HostReset
  <2>2. LinkTypeOK'
    BY <1>2, TypesStep DEF LinkInv, StreamNext
  <2> QED
    BY <2>1, <2>2
       DEF LinkInv, InFrame, GivingUp, Waiting, Together, Requesting,
           Transferring
<1>3. CASE UNCHANGED streamVars
  BY <1>3
     DEF streamVars, hostVars, deviceVars, sampled, receiverVars,
         transmitterVars, wires, LinkInv, LinkTypeOK, InFrame, Sampled,
         Followed, Seen, InTime, Heard, GivingUp, Waiting, Together, Requesting
<1> QED
  BY <1>1, <1>2, <1>3 DEF StreamNext

(* A frame that is over has been heard as the command.                     *)
LEMMA LinkSuffices == LinkInv => CommandHeard
<1> SUFFICES ASSUME LinkInv, device = "receive", bit = 11,
                    transmitter \notin {"idle", "initiate"}
             PROVE  heard = Frame
  BY DEF CommandHeard, Frame
<1>1. Requesting
  BY DEF LinkInv, LinkTypeOK, Together, Requesting, Transferring
<1>2. devClk = 0
  BY DEF LinkInv, LinkTypeOK
<1>3. heard = Heard(bit - 1 + devClk)
  BY <1>1 DEF LinkInv, InFrame
<1> QED
  BY <1>2, <1>3, AllBits

(* Altera_UP_PS2_Command_Out.v: whatever the timers, the phases of the     *)
(* mouse's clock, the requests that timed out and the resets, the mouse    *)
(* hears the command in every frame that the host has not broken off.      *)
THEOREM CommandAlwaysHeard == StreamSpec => []CommandHeard
<1> QED
  BY LinkStarts, LinkStep, LinkSuffices, PTL DEF StreamSpec

-----------------------------------------------------------------------------
(* From here on, the bytes that the host receives.  What is said of them   *)
(* holds for the command and the answer that the hardware and the source   *)
(* fix, and for as many requests without an answer as the receiver stands. *)
RealDevice ==
  /\ Command = 244 /\ Ack = 250
  /\ ByteSpan = 256
  /\ MaxFailures <= 6

(* The receiver has taken k bits of a frame of eleven: k = 0 is between    *)
(* two frames.                                                             *)
Settled(k) ==
  /\ received_data_en = FALSE
  /\ transceiver = IF k = 0 THEN "idle" ELSE "data_in"
  /\ receiver = IF k = 0 THEN "idle" ELSE IF k <= 8 THEN "data_in"
                ELSE IF k = 9 THEN "parity_in" ELSE "stop_in"
  /\ k \in 1 .. 8 => data_count = k - 1

(* In the cycle after a start bit or a stop bit the state machine and the  *)
(* receiver do not agree yet.                                              *)
Turning(k) ==
  /\ transceiver = "data_in" /\ receiver = "idle"
  /\ \/ k = 0 /\ received_data_en = TRUE
     \/ k = 1 /\ received_data_en = FALSE

At(k) == Settled(k) \/ Turning(k)

Unsettled == received_data_en \/ (transceiver = "data_in" /\ receiver = "idle")

(* Where it is after a bit of value d: a high bit does not start a frame.  *)
NextPosition(k, d) ==
  IF k = 0 THEN 1 - d ELSE IF k = 10 THEN 0 ELSE k + 1

(* Mouse.sv will have taken c bytes, modulo three, in the next cycle.      *)
NextCount(c) == IF c = 2 THEN 0 ELSE c + 1

Counted(c) == c = IF received_data_en THEN NextCount(counter) ELSE counter

(* The register holds b, or will in the next cycle.                        *)
Latest(register, b) ==
  IF received_data_en THEN received_data = b ELSE register = b

(* The first n bits of b have been shifted in, n of them among k bits of   *)
(* a frame.                                                                *)
Got(b, n) ==
  \A i \in 0 .. 7 : i < n => BitOf(data_shift_reg, 8 - n + i) = BitOf(b, i)

DataBits(k) == IF k <= 1 THEN 0 ELSE IF k <= 9 THEN k - 1 ELSE 8

High == ps2_clk_reg = 1 /\ last_ps2_clk = 1

(* Before the command the receiver has taken one bit from each request that*)
(* got no answer, and nothing else.                                        *)
Before(n) == \E k \in 0 .. n : Settled(k) /\ Counted(0)

-----------------------------------------------------------------------------
(* What the mouse may still have to say.                                   *)
Said == {<<>>, <<Ack>>, Packet, <<XMove, YMove>>, <<YMove>>}

StreamTypeOK ==
  /\ counter \in 0 .. 2 /\ failures \in 0 .. MaxFailures
  /\ ps2_data_reg \in 0 .. 1 /\ data_shift_reg \in 0 .. 255
  /\ waiting_counter \in Nat /\ devDat \in 0 .. 1
  /\ streaming \in BOOLEAN /\ awake \in BOOLEAN /\ init_done \in BOOLEAN
  /\ command_was_sent \in BOOLEAN /\ error_communication_timed_out \in BOOLEAN
  /\ pending \in Said
  /\ device = "send" =>
       /\ bit \in 1 .. 11 /\ (devClk = 1 => bit <= 10)
       /\ devDat = FrameBit(Head(pending), bit)

(* The two answers of the transmitter and the initialisation they end.     *)
Flags ==
  /\ init_done => transmitter = "idle"
  /\ command_was_sent => transmitter = "sent" \/ init_done
  /\ error_communication_timed_out =>
       transmitter \in {"error", "idle"} /\ ~init_done

(* While the host asks for the mouse, only failures are in the receiver.   *)
Asking ==
  ~init_done /\ transmitter \in {"idle", "initiate", "error"} =>
    Before(failures)

(* A request fails only when the mouse is not enabled.  It may have started*)
(* to answer in the very cycle in which the host gave up.                  *)
Failed ==
  transmitter = "error" \/ error_communication_timed_out =>
    /\ streaming = FALSE
    /\ \/ device = "idle" /\ devClk = 1 /\ High
       \/ /\ device = "receive" /\ bit = 1 /\ devClk = 0
          /\ phase <= IF transmitter = "idle" THEN 3
                      ELSE IF error_communication_timed_out THEN 2 ELSE 1
          /\ phase = 0 => High
          /\ phase >= 1 => ps2_clk_reg = 0

(* The cycle in which the host is idle between two requests sees no rising *)
(* clock that could count as a bit.                                        *)
Calm ==
  ~init_done /\ transmitter = "idle" =>
    \/ High
    \/ ps2_clk_reg = 0 /\ devClk = 0
    \/ /\ ps2_clk_reg = 0 /\ last_ps2_clk = 0
       /\ devDat = 1 /\ transceiver = "idle"

(* Only the first request may begin with one, and that finds no frame: the *)
(* data line is high.                                                      *)
Harmless ==
  transmitter = "initiate" =>
    (ps2_clk_posedge => ps2_data_reg = 1 /\ transceiver = "idle")

(* The host lets go of the clock with the data line low: the rising clock  *)
(* is one more bit for the receiver, or the start of a frame.              *)
Released ==
  transmitter = "wait" =>
    IF ps2_clk_reg = 0 /\ device = "idle" THEN Before(failures)
    ELSE IF last_ps2_clk = 0 /\ device = "idle"
         THEN Before(failures) /\ ps2_data_reg = 0
    ELSE /\ \E k \in 1 .. failures + 1 : At(k) /\ Counted(0)
         /\ device = "receive" \/ phase >= 3 => ~Unsettled

(* The mouse has had as long as the host has waited.                       *)
Patient ==
  transmitter = "wait" /\ device = "idle" /\ streaming = FALSE =>
    phase >= 3 \/ phase >= waiting_counter

(* A mouse that was enabled is awake, and one that is not has nothing to   *)
(* say.  After the last failure it wakes up.                               *)
Sleeping ==
  /\ streaming = FALSE => pending = <<>>
  /\ device = "send" => pending # <<>> /\ streaming = TRUE
  /\ streaming = TRUE => awake = TRUE
  /\ failures = MaxFailures =>
       awake \/ (transmitter = "error" /\ ~error_communication_timed_out)
  /\ device = "idle" /\ devDat = 0 => pending = <<Ack>>

(* A mouse that is awake answers a request before the host gives up.       *)
Answered ==
  transmitter = "wait" /\ (streaming \/ failures = MaxFailures) =>
    waiting_counter <=
      IF device = "receive" THEN 2 * MaxPhase + 2 + phase
      ELSE IF devDat = 0 \/ pending = <<>> THEN phase
      ELSE phase + MaxPhase + 1

(* How many bits the receiver has seen of the mouse's clock: it sees a rise*)
(* two cycles late.                                                        *)
Delay == IF devClk = 1 /\ phase <= 1 THEN 1 ELSE 0
Rises == bit - 1 + devClk - Delay

CommandData(n) == IF n = 10 THEN 1 ELSE CommandBit(n - 1)

(* The receiver after r bits of the host's own frame.  It began in a place *)
(* between one and seven; when it comes to the end of a frame of its own,  *)
(* the bits that are left either start no other or are the last low ones.  *)
CommandTaken(r) ==
  \/ \E k \in r + 1 .. r + 7 : k <= 10 /\ At(k) /\ Counted(0)
  \/ r >= 4 /\ At(0) /\ Counted(1)
  \/ r \in 9 .. 11 /\ At(r - 8) /\ Counted(1)
  \/ r = 11 /\ At(1) /\ Counted(1)

InCommand ==
  device = "receive" /\ transmitter \in Transferring =>
    /\ CommandTaken(Rises)
    /\ Unsettled => devClk = 1 /\ phase = 2
    /\ devClk = 1 /\ phase = 1 => ps2_data_reg = CommandData(bit)

(* The end of the frame, until the host sees the mouse's clock high again. *)
Acked ==
  transmitter = "ack" /\ device # "receive" =>
    /\ device = "idle" /\ phase <= 1 /\ pending = <<Ack>>
    /\ ps2_clk_reg = phase /\ last_ps2_clk = 0
    /\ phase = 0 => transfer_counter < Cycles2ms
    /\ CommandTaken(10) /\ ~Unsettled

(* The receiver after r bits of a byte of the mouse's.  What the command   *)
(* left in it is made up for by the end of the answer; from there on it    *)
(* keeps step, and the bytes of a packet are told by the counter.          *)
Sending(r) ==
  \/ /\ pending = <<Ack>>
     /\ \/ \E k \in {r, r + 1, r + 3} : k <= 10 /\ At(k) /\ Counted(1)
        \/ r >= 8 /\ At(0) /\ Counted(2)
  \/ /\ pending = Packet
     /\ At(r) /\ Counted(2) /\ Got(Status, DataBits(r))
  \/ /\ pending = <<XMove, YMove>>
     /\ At(r) /\ Counted(0) /\ Got(XMove, DataBits(r))
     /\ Latest(byte1, Status)
  \/ /\ pending = <<YMove>>
     /\ At(r) /\ Counted(1) /\ Got(YMove, DataBits(r))
     /\ byte1 = Status /\ Latest(byte3, XMove)
  \/ /\ pending = <<>> /\ r = 0
     /\ At(0) /\ Counted(2)

(* The mouse's last rise has not been seen yet.                            *)
Sent ==
  /\ ~Unsettled
  /\ \/ /\ pending = <<>>
        /\ \/ Settled(10) /\ Counted(1)
           \/ Settled(0) /\ Counted(2)
     \/ /\ pending = <<XMove, YMove>>
        /\ Settled(10) /\ Counted(2) /\ data_shift_reg = Status
     \/ /\ pending = <<YMove>>
        /\ Settled(10) /\ Counted(0) /\ data_shift_reg = XMove
        /\ byte1 = Status

InByte ==
  /\ phase = 0 => ps2_clk_reg = 1 - devClk
  /\ phase >= 1 => ps2_clk_reg = devClk
  /\ phase <= 1 => last_ps2_clk = 1 - devClk
  /\ phase >= 2 => last_ps2_clk = devClk
  /\ devClk = 1 /\ phase = 1 => ps2_data_reg = devDat
  /\ Sending(Rises)
  /\ Unsettled => devClk = 1 /\ phase = 2

BetweenBytes ==
  \/ High /\ Sending(0) /\ (Unsettled => phase = 2)
  \/ /\ phase <= 1 /\ devDat = 1
     /\ ps2_clk_reg = phase /\ last_ps2_clk = 0
     /\ phase = 1 => ps2_data_reg = 1
     /\ Sent

(* Once the host has its acknowledge, the mouse has the wires to itself.   *)
Streams ==
  init_done \/ transmitter = "sent" =>
    /\ streaming = TRUE
    /\ \/ device = "idle" /\ BetweenBytes
       \/ device = "send" /\ InByte

PacketInv ==
  /\ StreamTypeOK /\ Flags /\ Asking /\ Failed /\ Calm /\ Harmless
  /\ Released /\ Patient /\ Sleeping /\ Answered
  /\ InCommand /\ Acked /\ Streams

-----------------------------------------------------------------------------

(* Between two edges of the clock the receiver stays where it is, and      *)
(* settles.                                                                *)
LEMMA ReceiverWaits ==
  ASSUME HostEdge, NEW k \in 0 .. 10, At(k), ~ps2_clk_posedge
  PROVE  Settled(k)' /\ data_shift_reg' = data_shift_reg
<1>1. Transceiver /\ Receiver
  BY DEF HostEdge
<1>2. CASE Turning(k)
  <2>1. /\ transceiver' = IF k = 0 THEN "idle" ELSE "data_in"
        /\ receiver' = IF k = 0 THEN "idle" ELSE "data_in"
        /\ k = 1 => data_count' = 0
        /\ data_shift_reg' = data_shift_reg
    BY <1>1, <1>2 DEF Transceiver, Receiver, Turning
  <2>2. received_data_en' = FALSE
    BY <1>1, <1>2 DEF Receiver, Turning
  <2>3. k \in {0, 1}
    BY <1>2 DEF Turning
  <2> QED
    BY <2>1, <2>2, <2>3 DEF Settled
<1>3. CASE Settled(k)
  <2>1. received_data_en = FALSE
    BY <1>3 DEF Settled
  <2>2. UNCHANGED <<transceiver, receiver, data_shift_reg>>
    BY <1>1, <1>3, <2>1 DEF Transceiver, Receiver, Settled
  <2>3. k \in 1 .. 8 => data_count' = data_count
    BY <1>1, <1>3 DEF Receiver, Settled
  <2>4. received_data_en' = FALSE
    BY <1>1, <1>3 DEF Receiver
  <2> QED
    BY <1>3, <2>2, <2>3, <2>4 DEF Settled
<1> QED  BY <1>2, <1>3 DEF At

(* At a rising clock it takes the bit to the next position; the last bit   *)
(* of a frame makes a byte.                                                *)
LEMMA ReceiverMoves ==
  ASSUME HostEdge, NEW k \in 0 .. 10, Settled(k), ps2_clk_posedge,
         NEW d \in 0 .. 1, ps2_data_reg = d,
         NEW j \in 0 .. 10, j = NextPosition(k, d)
  PROVE  /\ At(j)'
         /\ IF k = 10 THEN received_data_en' = TRUE
            ELSE received_data_en' = FALSE
         /\ data_shift_reg' = IF k \in 1 .. 8
                              THEN d * 128 + data_shift_reg \div 2
                              ELSE data_shift_reg
         /\ k = 10 => received_data' = data_shift_reg
<1>1. Transceiver /\ Receiver
  BY DEF HostEdge
<1>2. received_data_en = FALSE
  BY DEF Settled
<1>3. /\ k = 10 => received_data_en' = TRUE
      /\ k # 10 => received_data_en' = FALSE
  <2>1. received_data_en' = (receiver = "stop_in" /\ ps2_clk_posedge)
    BY <1>1 DEF Receiver
  <2>2. k = 10 => receiver = "stop_in"
    BY DEF Settled
  <2>3. k # 10 => receiver # "stop_in"
    BY DEF Settled
  <2> QED
    BY <2>1, <2>2, <2>3
<1>4. /\ data_shift_reg' = IF k \in 1 .. 8
                           THEN d * 128 + data_shift_reg \div 2
                           ELSE data_shift_reg
      /\ k = 10 => received_data' = data_shift_reg
  BY <1>1 DEF Receiver, Settled
<1>5. transceiver' = IF k = 0 /\ d = 1 THEN "idle" ELSE "data_in"
  BY <1>1, <1>2 DEF Transceiver, Settled
<1>6. receiver' = IF k \in {0, 10} THEN "idle" ELSE IF k <= 7 THEN "data_in"
                ELSE IF k = 8 THEN "parity_in" ELSE "stop_in"
  BY <1>1, <1>2 DEF Receiver, Settled
<1>7. k \in 1 .. 7 => data_count' = k
  BY <1>1 DEF Receiver, Settled
<1>8. At(j)'
  <2>1. CASE k = 0
    <3>1. j = 1 - d
      BY <2>1 DEF NextPosition
    <3> QED
      BY <2>1, <3>1, <1>3, <1>5, <1>6 DEF At, Settled, Turning
  <2>2. CASE k = 10
    <3>1. j = 0
      BY <2>2 DEF NextPosition
    <3> QED
      BY <2>2, <3>1, <1>3, <1>5, <1>6 DEF At, Turning
  <2>3. CASE k \in 1 .. 9
    <3>1. j = k + 1 /\ j \in 2 .. 10
      BY <2>3 DEF NextPosition
    <3>2. Settled(j)'
      BY <2>3, <3>1, <1>3, <1>5, <1>6, <1>7 DEF Settled
    <3> QED
      BY <3>2 DEF At
  <2> QED
    BY <2>1, <2>2, <2>3
<1> QED  BY <1>3, <1>4, <1>8

(* A receiver that is not turning is settled.                              *)
LEMMA SettledMeans ==
  ASSUME NEW k \in 0 .. 10
  PROVE  /\ At(k) /\ ~Unsettled => Settled(k)
         /\ Settled(k) => ~Unsettled
  BY DEF At, Settled, Turning, Unsettled

(* Mouse.sv counts the byte that was announced.                            *)
LEMMA CountOn ==
  ASSUME MouseEdge, StreamTypeOK, NEW c \in 0 .. 2, Counted(c)
  PROVE  counter' = c
<1>1. CASE received_data_en
  BY <1>1 DEF MouseEdge, Counted, NextCount, XByte, YByte, StatusByte,
                StreamTypeOK
<1>2. CASE ~received_data_en
  BY <1>2 DEF MouseEdge, Counted, mouseVars
<1> QED  BY <1>1, <1>2

(* It puts it in the register that the counter tells.                      *)
LEMMA RegistersStep ==
  ASSUME MouseEdge, StreamTypeOK
  PROVE  /\ byte1' = IF received_data_en /\ counter = 2 THEN received_data
                     ELSE byte1
         /\ byte3' = IF received_data_en /\ counter = 0 THEN received_data
                     ELSE byte3
<1>1. CASE received_data_en
  BY <1>1 DEF MouseEdge, XByte, YByte, StatusByte, StreamTypeOK
<1>2. CASE ~received_data_en
  BY <1>2 DEF MouseEdge, mouseVars
<1> QED  BY <1>1, <1>2

(* One cycle without a rising clock, for the receiver and Mouse.sv         *)
(* together.                                                               *)
LEMMA EdgeWaits ==
  ASSUME HostEdge, MouseEdge, StreamTypeOK, ~ps2_clk_posedge,
         NEW k \in 0 .. 10, At(k), NEW c \in 0 .. 2, Counted(c)
  PROVE  /\ Settled(k)' /\ At(k)' /\ Counted(c)' /\ ~Unsettled'
         /\ received_data_en' = FALSE
         /\ data_shift_reg' = data_shift_reg
<1>1. Settled(k)' /\ data_shift_reg' = data_shift_reg
  BY ReceiverWaits
<1>2. received_data_en' = FALSE
  BY <1>1 DEF Settled
<1>3. Counted(c)'
  BY <1>2, CountOn DEF Counted
<1> QED
  BY <1>1, <1>2, <1>3 DEF At, Settled, Unsettled

(* One cycle with a rising clock.                                          *)
LEMMA EdgeMoves ==
  ASSUME HostEdge, MouseEdge, StreamTypeOK, ps2_clk_posedge,
         NEW k \in 0 .. 10, Settled(k), NEW c \in 0 .. 2, Counted(c),
         NEW d \in 0 .. 1, ps2_data_reg = d,
         NEW j \in 0 .. 10, j = NextPosition(k, d)
  PROVE  /\ At(j)'
         /\ k # 10 => received_data_en' = FALSE /\ Counted(c)'
         /\ k = 10 => /\ received_data_en' = TRUE /\ Counted(NextCount(c))'
                      /\ received_data' = data_shift_reg
         /\ data_shift_reg' = IF k \in 1 .. 8
                              THEN d * 128 + data_shift_reg \div 2
                              ELSE data_shift_reg
<1>1. counter' = c
  BY CountOn
<1>2. k # 10 => received_data_en' = FALSE /\ Counted(c)'
  BY <1>1, ReceiverMoves DEF Counted
<1>3. k = 10 => received_data_en' = TRUE
  BY ReceiverMoves
<1>4. k = 10 => Counted(NextCount(c))'
  BY <1>1, <1>3 DEF Counted, NextCount
<1> QED  BY <1>2, <1>3, <1>4, ReceiverMoves

(* Shifting a bit in from above moves the others down by one.              *)
LEMMA ShiftedBits ==
  ASSUME NEW s \in 0 .. 255, NEW d \in 0 .. 1, NEW t, t = d * 128 + s \div 2
  PROVE  /\ t \in 0 .. 255
         /\ BitOf(t, 7) = d
         /\ \A j \in 0 .. 6 : BitOf(t, j) = BitOf(s, j + 1)
<1>1. t \in 0 .. 255
  OBVIOUS
<1>2. BitOf(t, 7) = d
  BY <1>1, Bits
<1>3. ASSUME NEW j \in 0 .. 6 PROVE BitOf(t, j) = BitOf(s, j + 1)
  <2>0. j \in {0, 1, 2, 3, 4, 5, 6}
    OBVIOUS
  <2>1. CASE j = 0
    BY <1>1, <2>1, Bits
  <2>2. CASE j = 1
    BY <1>1, <2>2, Bits
  <2>3. CASE j = 2
    BY <1>1, <2>3, Bits
  <2>4. CASE j = 3
    BY <1>1, <2>4, Bits
  <2>5. CASE j = 4
    BY <1>1, <2>5, Bits
  <2>6. CASE j = 5
    BY <1>1, <2>6, Bits
  <2>7. CASE j = 6
    BY <1>1, <2>7, Bits
  <2> QED  BY <2>0, <2>1, <2>2, <2>3, <2>4, <2>5, <2>6, <2>7
<1> QED  BY <1>1, <1>2, <1>3

(* One more bit of the byte.                                               *)
LEMMA GotOne ==
  ASSUME StreamTypeOK, NEW b, NEW n \in 0 .. 7, Got(b, n),
         NEW d \in 0 .. 1, d = BitOf(b, n),
         data_shift_reg' = d * 128 + data_shift_reg \div 2
  PROVE  Got(b, n + 1)'
<1>0. data_shift_reg \in 0 .. 255
  BY DEF StreamTypeOK
<1>1. /\ data_shift_reg' \in 0 .. 255 /\ BitOf(data_shift_reg', 7) = d
      /\ \A j \in 0 .. 6 :
           BitOf(data_shift_reg', j) = BitOf(data_shift_reg, j + 1)
  BY <1>0, ShiftedBits
<1>2. ASSUME NEW i \in 0 .. 7, i < n + 1
      PROVE  BitOf(data_shift_reg', 8 - (n + 1) + i) = BitOf(b, i)
  <2>1. CASE i = n
    BY <1>1, <2>1
  <2>2. CASE i < n
    <3>1. 8 - (n + 1) + i \in 0 .. 6 /\ (8 - (n + 1) + i) + 1 = 8 - n + i
      BY <2>2
    <3> QED  BY <1>1, <2>2, <3>1 DEF Got
  <2> QED  BY <1>2, <2>1, <2>2
<1> QED  BY <1>1, <1>2 DEF Got

(* Eight of them are the byte.                                             *)
LEMMA GotAll ==
  ASSUME StreamTypeOK, NEW b \in 0 .. 255, Got(b, 8)
  PROVE  data_shift_reg = b
<1> DEFINE s == data_shift_reg
<1>1. \A i \in 0 .. 7 : BitOf(s, i) = BitOf(b, i)
  BY DEF Got
<1>2. /\ BitOf(s, 0) = BitOf(b, 0) /\ BitOf(s, 1) = BitOf(b, 1)
      /\ BitOf(s, 2) = BitOf(b, 2) /\ BitOf(s, 3) = BitOf(b, 3)
      /\ BitOf(s, 4) = BitOf(b, 4) /\ BitOf(s, 5) = BitOf(b, 5)
      /\ BitOf(s, 6) = BitOf(b, 6) /\ BitOf(s, 7) = BitOf(b, 7)
  BY <1>1
<1>3. s \in 0 .. 255
  BY DEF StreamTypeOK
<1> QED  BY <1>2, <1>3, BitValues

(* A shift register that is left alone keeps them.                         *)
LEMMA GotKept ==
  ASSUME NEW b, NEW n, Got(b, n), data_shift_reg' = data_shift_reg
  PROVE  Got(b, n)'
  BY DEF Got

(* The bytes have eight bits.                                              *)
LEMMA DeviceBytes ==
  ASSUME RealDevice
  PROVE  /\ Ack \in 0 .. 255 /\ Status \in 0 .. 255 /\ XMove \in 0 .. 255
         /\ YMove \in 0 .. 255
  BY StreamAssumption DEF RealDevice, Bytes

(* A frame starts low, ends high and has the byte in between.              *)
LEMMA FrameBits ==
  ASSUME NEW b \in 0 .. 255, NEW n \in 1 .. 11
  PROVE  /\ FrameBit(b, n) \in 0 .. 1
         /\ n = 1 => FrameBit(b, n) = 0
         /\ n = 11 => FrameBit(b, n) = 1
         /\ n \in 2 .. 9 => FrameBit(b, n) = BitOf(b, n - 2)
<1>1. n \in 2 .. 9 =>
        FrameBit(b, n) = BitOf(b, n - 2) /\ BitOf(b, n - 2) \in 0 .. 1
  <2>1. n \in 2 .. 9 => n - 2 \in {0, 1, 2, 3, 4, 5, 6, 7}
    OBVIOUS
  <2>2. n \in 2 .. 9 => BitOf(b, n - 2) \in 0 .. 1
    BY <2>1, BitValues
  <2> QED  BY <2>2 DEF FrameBit
<1> QED  BY <1>1, ParityOf DEF FrameBit

(* What matters of the command 8'hf4: its upper four bits are high, its    *)
(* parity is low and its stop bit high.                                    *)
LEMMA CommandIs244 ==
  ASSUME RealDevice
  PROVE  /\ \A n \in 5 .. 8 : CommandData(n) = 1
         /\ CommandData(9) = 0 /\ CommandData(10) = 1
         /\ \A n \in 1 .. 10 : CommandData(n) \in 0 .. 1
<1>1. /\ BitOf(244, 0) = 0 /\ BitOf(244, 1) = 0 /\ BitOf(244, 2) = 1
      /\ BitOf(244, 3) = 0 /\ BitOf(244, 4) = 1 /\ BitOf(244, 5) = 1
      /\ BitOf(244, 6) = 1 /\ BitOf(244, 7) = 1
  BY Bits
<1>2. OddParity(244) = 0
  BY <1>1 DEF OddParity
<1>3. ASSUME NEW n \in 5 .. 8 PROVE CommandData(n) = 1
  BY <1>1 DEF CommandData, CommandBit, RealDevice
<1>4. CommandData(9) = 0 /\ CommandData(10) = 1
  BY <1>2 DEF CommandData, CommandBit, RealDevice
<1>5. ASSUME NEW n \in 1 .. 10 PROVE CommandData(n) \in 0 .. 1
  BY CommandBits DEF CommandData
<1> QED  BY <1>3, <1>4, <1>5

(* What matters of the answer 8'hfa: its upper bit, its parity and its     *)
(* stop bit are high.                                                      *)
LEMMA AckIs250 ==
  ASSUME RealDevice
  PROVE  FrameBit(Ack, 9) = 1 /\ FrameBit(Ack, 10) = 1 /\ FrameBit(Ack, 11) = 1
<1>1. /\ BitOf(250, 0) = 0 /\ BitOf(250, 1) = 1 /\ BitOf(250, 2) = 0
      /\ BitOf(250, 3) = 1 /\ BitOf(250, 4) = 1 /\ BitOf(250, 5) = 1
      /\ BitOf(250, 6) = 1 /\ BitOf(250, 7) = 1
  BY Bits
<1>2. OddParity(250) = 1
  BY <1>1 DEF OddParity
<1> QED  BY <1>1, <1>2 DEF FrameBit, RealDevice

(* Between two edges the receiver waits with the mouse.                    *)
LEMMA SendingWaits ==
  ASSUME RealDevice, HostEdge, MouseEdge, StreamTypeOK, ~ps2_clk_posedge,
         NEW r \in 0 .. 10, Sending(r), pending' = pending
  PROVE  Sending(r)' /\ ~Unsettled'
<1>0. 0 \in 0 .. 10 /\ 0 \in 0 .. 2 /\ 1 \in 0 .. 2 /\ 2 \in 0 .. 2
  OBVIOUS
<1>1. CASE /\ pending = <<Ack>>
           /\ \E k \in {r, r + 1, r + 3} : k <= 10 /\ At(k) /\ Counted(1)
  <2>1. PICK k \in {r, r + 1, r + 3} : k <= 10 /\ At(k) /\ Counted(1)
    BY <1>1
  <2>2. k \in 0 .. 10
    BY <2>1
  <2>3. At(k)' /\ Counted(1)' /\ ~Unsettled'
    BY <2>1, <2>2, <1>0, EdgeWaits
  <2> QED  BY <1>1, <2>1, <2>3 DEF Sending
<1>2. CASE pending = <<Ack>> /\ r >= 8 /\ At(0) /\ Counted(2)
  <2>1. At(0)' /\ Counted(2)' /\ ~Unsettled'
    BY <1>2, <1>0, EdgeWaits
  <2> QED  BY <1>2, <2>1 DEF Sending
<1>3. CASE pending = Packet /\ At(r) /\ Counted(2) /\ Got(Status, DataBits(r))
  <2>1. At(r)' /\ Counted(2)' /\ ~Unsettled' /\ data_shift_reg' = data_shift_reg
    BY <1>3, <1>0, EdgeWaits
  <2>2. Got(Status, DataBits(r))'
    BY <1>3, <2>1, GotKept
  <2> QED  BY <1>3, <2>1, <2>2 DEF Sending
<1>4. CASE /\ pending = <<XMove, YMove>>
           /\ At(r) /\ Counted(0) /\ Got(XMove, DataBits(r))
           /\ Latest(byte1, Status)
  <2>1. At(r)' /\ Counted(0)' /\ ~Unsettled' /\ data_shift_reg' = data_shift_reg
        /\ received_data_en' = FALSE
    BY <1>4, <1>0, EdgeWaits
  <2>2. Got(XMove, DataBits(r))'
    BY <1>4, <2>1, GotKept
  <2>3. byte1' = Status
    BY <1>4, RegistersStep DEF Latest, Counted, NextCount, StreamTypeOK
  <2> QED  BY <1>4, <2>1, <2>2, <2>3 DEF Sending, Latest
<1>5. CASE /\ pending = <<YMove>>
           /\ At(r) /\ Counted(1) /\ Got(YMove, DataBits(r))
           /\ byte1 = Status /\ Latest(byte3, XMove)
  <2>1. At(r)' /\ Counted(1)' /\ ~Unsettled' /\ data_shift_reg' = data_shift_reg
        /\ received_data_en' = FALSE
    BY <1>5, <1>0, EdgeWaits
  <2>2. Got(YMove, DataBits(r))'
    BY <1>5, <2>1, GotKept
  <2>3. byte1' = Status /\ byte3' = XMove
    BY <1>5, RegistersStep DEF Latest, Counted, NextCount, StreamTypeOK
  <2> QED  BY <1>5, <2>1, <2>2, <2>3 DEF Sending, Latest
<1>6. CASE pending = <<>> /\ r = 0 /\ At(0) /\ Counted(2)
  <2>1. At(0)' /\ Counted(2)' /\ ~Unsettled'
    BY <1>6, <1>0, EdgeWaits
  <2> QED  BY <1>6, <2>1 DEF Sending
<1> QED  BY <1>1, <1>2, <1>3, <1>4, <1>5, <1>6 DEF Sending

(* The numbers that the positions and counts are taken from.               *)
LEMMA SmallNumbers ==
  /\ 0 \in 0 .. 10 /\ 1 \in 0 .. 10 /\ 10 \in 0 .. 10
  /\ 0 \in 0 .. 2 /\ 1 \in 0 .. 2 /\ 2 \in 0 .. 2
  /\ 0 \in 0 .. 1 /\ 1 \in 0 .. 1
  OBVIOUS

(* A receiver in step with the mouse takes one more bit.                   *)
LEMMA DataStep ==
  ASSUME HostEdge, MouseEdge, StreamTypeOK, ps2_clk_posedge,
         NEW b \in 0 .. 255, NEW r \in 0 .. 9, NEW c \in 0 .. 2,
         Settled(r), Counted(c), Got(b, DataBits(r)),
         ps2_data_reg = FrameBit(b, r + 1)
  PROVE  /\ At(r + 1)' /\ Counted(c)' /\ Got(b, DataBits(r + 1))'
         /\ received_data_en' = FALSE
<1> DEFINE d == FrameBit(b, r + 1)
<1>1. d \in 0 .. 1 /\ (r = 0 => d = 0) /\ (r \in 1 .. 8 => d = BitOf(b, r - 1))
  BY FrameBits
<1> HIDE DEF d
<1>2. r + 1 \in 0 .. 10 /\ r + 1 = NextPosition(r, d)
  BY <1>1 DEF NextPosition
<1>3. ps2_data_reg = d
  BY DEF d
<1>4. /\ At(r + 1)' /\ Counted(c)' /\ received_data_en' = FALSE
      /\ data_shift_reg' = IF r \in 1 .. 8 THEN d * 128 + data_shift_reg \div 2
                           ELSE data_shift_reg
  <2>1. r \in 0 .. 10 /\ r # 10
    OBVIOUS
  <2>2. PICK j \in 0 .. 10 : j = r + 1 /\ j = NextPosition(r, d)
    BY <1>2
  <2>3. At(j)' /\ Counted(c)' /\ received_data_en' = FALSE
    BY <1>1, <1>3, <2>1, <2>2, EdgeMoves
  <2>4. data_shift_reg' = IF r \in 1 .. 8 THEN d * 128 + data_shift_reg \div 2
                          ELSE data_shift_reg
    BY <1>1, <1>3, <2>1, <2>2, EdgeMoves
  <2> QED  BY <2>2, <2>3, <2>4
<1>5. CASE r \in 1 .. 8
  <2>1. DataBits(r) = r - 1 /\ DataBits(r + 1) = (r - 1) + 1 /\ r - 1 \in 0 .. 7
    BY <1>5 DEF DataBits
  <2>2. d = BitOf(b, r - 1) /\ data_shift_reg' = d * 128 + data_shift_reg \div 2
    BY <1>1, <1>4, <1>5
  <2>3. Got(b, (r - 1) + 1)'
    BY <1>1, <2>1, <2>2, GotOne
  <2> QED  BY <1>4, <2>1, <2>3
<1>6. CASE r \in {0, 9}
  <2>1. DataBits(r) = DataBits(r + 1) /\ data_shift_reg' = data_shift_reg
    BY <1>4, <1>6 DEF DataBits
  <2>2. Got(b, DataBits(r))'
    BY <2>1, GotKept
  <2>3. Got(b, DataBits(r + 1))'
    BY <2>1, <2>2
  <2> QED  BY <1>4, <2>3
<1>7. r \in 1 .. 8 \/ r \in {0, 9}
  OBVIOUS
<1> QED  BY <1>5, <1>6, <1>7

(* At a rising clock both go on; one that is ahead of the answer ends      *)
(* before it does, and its high bits start no frame.                       *)
LEMMA SendingMoves ==
  ASSUME RealDevice, HostEdge, MouseEdge, StreamTypeOK, ps2_clk_posedge,
         NEW r \in 0 .. 9, Sending(r), ~Unsettled, pending # <<>>,
         ps2_data_reg = FrameBit(Head(pending), r + 1), pending' = pending
  PROVE  Sending(r + 1)'
<1>0. received_data_en = FALSE
  <2>1. \E k \in 0 .. 10 : At(k)
    <3>1. \A k \in {r, r + 1, r + 3} : k <= 10 => k \in 0 .. 10
      OBVIOUS
    <3> QED  BY <3>1, SmallNumbers DEF Sending
  <2> QED  BY <2>1, SettledMeans DEF Settled
<1>1. CASE /\ pending = <<Ack>>
           /\ \E k \in {r, r + 1, r + 3} : k <= 10 /\ At(k) /\ Counted(1)
  <2>1. PICK k \in {r, r + 1, r + 3} : k <= 10 /\ At(k) /\ Counted(1)
    BY <1>1
  <2>2. k \in 0 .. 10 /\ Settled(k)
    BY <2>1, SettledMeans
  <2>3. PICK d \in 0 .. 1 : ps2_data_reg = d /\ (r = 0 => d = 0)
    <3>1. Head(pending) = Ack /\ r + 1 \in 1 .. 11
      BY <1>1
    <3>2. FrameBit(Ack, r + 1) \in 0 .. 1
          /\ (r + 1 = 1 => FrameBit(Ack, r + 1) = 0)
      BY <3>1, FrameBits, DeviceBytes
    <3>3. ps2_data_reg = FrameBit(Ack, r + 1)
      BY <3>1
    <3> QED  BY <3>2, <3>3
  <2>4. CASE k = 10
    <3>1. At(0)' /\ Counted(NextCount(1))'
      <4>1. 0 = NextPosition(k, d)
        BY <2>4 DEF NextPosition
      <4> QED  BY <2>1, <2>2, <2>3, <2>4, <4>1, EdgeMoves, SmallNumbers
    <3>2. r + 1 >= 8 /\ NextCount(1) = 2
      BY <2>1, <2>4 DEF NextCount
    <3> QED  BY <1>1, <3>1, <3>2 DEF Sending
  <2>5. CASE k # 10
    <3>1. /\ k + 1 = NextPosition(k, d) /\ k + 1 \in 0 .. 10
          /\ k + 1 \in {r + 1, (r + 1) + 1, (r + 1) + 3}
      BY <2>1, <2>2, <2>3, <2>5 DEF NextPosition
    <3>2. At(k + 1)' /\ Counted(1)'
      BY <2>1, <2>2, <2>3, <2>5, <3>1, EdgeMoves, SmallNumbers
    <3> QED  BY <1>1, <3>1, <3>2 DEF Sending
  <2> QED  BY <2>4, <2>5
<1>2. CASE pending = <<Ack>> /\ r >= 8 /\ At(0) /\ Counted(2)
  <2>1. ps2_data_reg = 1
    <3>1. Head(pending) = Ack /\ r + 1 \in {9, 10}
      BY <1>2
    <3> QED  BY <3>1, AckIs250
  <2>2. 0 = NextPosition(0, 1) /\ 0 # 10
    BY DEF NextPosition
  <2>3. At(0)' /\ Counted(2)'
    BY <1>2, <2>1, <2>2, SettledMeans, EdgeMoves, SmallNumbers
  <2> QED  BY <1>2, <2>3 DEF Sending
<1>3. CASE pending = Packet /\ At(r) /\ Counted(2) /\ Got(Status, DataBits(r))
  <2>1. Head(pending) = Status /\ r \in 0 .. 10
    BY <1>3 DEF Packet
  <2>2. At(r + 1)' /\ Counted(2)' /\ Got(Status, DataBits(r + 1))'
    BY <1>3, <2>1, SettledMeans, DataStep, DeviceBytes, SmallNumbers
  <2> QED  BY <1>3, <2>2 DEF Sending
<1>4. CASE /\ pending = <<XMove, YMove>>
           /\ At(r) /\ Counted(0) /\ Got(XMove, DataBits(r))
           /\ Latest(byte1, Status)
  <2>1. Head(pending) = XMove /\ r \in 0 .. 10
    BY <1>4
  <2>2. At(r + 1)' /\ Counted(0)' /\ Got(XMove, DataBits(r + 1))'
        /\ received_data_en' = FALSE
    BY <1>4, <2>1, SettledMeans, DataStep, DeviceBytes, SmallNumbers
  <2>3. byte1' = Status
    BY <1>0, <1>4, RegistersStep DEF Latest
  <2> QED  BY <1>4, <2>2, <2>3 DEF Sending, Latest
<1>5. CASE /\ pending = <<YMove>>
           /\ At(r) /\ Counted(1) /\ Got(YMove, DataBits(r))
           /\ byte1 = Status /\ Latest(byte3, XMove)
  <2>1. Head(pending) = YMove /\ r \in 0 .. 10
    BY <1>5
  <2>2. At(r + 1)' /\ Counted(1)' /\ Got(YMove, DataBits(r + 1))'
        /\ received_data_en' = FALSE
    BY <1>5, <2>1, SettledMeans, DataStep, DeviceBytes, SmallNumbers
  <2>3. byte1' = Status /\ byte3' = XMove
    BY <1>0, <1>5, RegistersStep DEF Latest
  <2> QED  BY <1>5, <2>2, <2>3 DEF Sending, Latest
<1> QED  BY <1>1, <1>2, <1>3, <1>4, <1>5 DEF Sending

(* The mouse's last rise, which the host has yet to see.                   *)
LEMMA ByteEnds ==
  ASSUME RealDevice, HostEdge, MouseEdge, StreamTypeOK, ~ps2_clk_posedge,
         Sending(10), pending # <<>>, ~Unsettled, pending' = Tail(pending)
  PROVE  Sent'
<1>1. CASE pending = <<Ack>>
  <2>1. pending' = <<>>
    BY <1>1
  <2>2. \/ At(10) /\ Counted(1)
        \/ At(0) /\ Counted(2)
    BY <1>1, DeviceBytes DEF Sending, Packet
  <2>3. \/ Settled(10)' /\ Counted(1)' /\ ~Unsettled'
        \/ Settled(0)' /\ Counted(2)' /\ ~Unsettled'
    BY <2>2, EdgeWaits, SmallNumbers
  <2> QED  BY <2>1, <2>3 DEF Sent
<1>2. CASE pending = Packet
  <2>1. pending' = <<XMove, YMove>>
    BY <1>2 DEF Packet
  <2>2. At(10) /\ Counted(2) /\ Got(Status, DataBits(10))
    BY <1>2 DEF Sending, Packet
  <2>3. /\ Settled(10)' /\ Counted(2)' /\ ~Unsettled'
        /\ data_shift_reg' = data_shift_reg
    BY <2>2, EdgeWaits, SmallNumbers
  <2>4. data_shift_reg = Status
    <3>1. DataBits(10) = 8
      BY DEF DataBits
    <3> QED  BY <2>2, <3>1, GotAll, DeviceBytes
  <2> QED  BY <2>1, <2>3, <2>4 DEF Sent
<1>3. CASE pending = <<XMove, YMove>>
  <2>1. pending' = <<YMove>>
    BY <1>3
  <2>2. /\ At(10) /\ Counted(0) /\ Got(XMove, DataBits(10))
        /\ Latest(byte1, Status)
    BY <1>3 DEF Sending, Packet
  <2>3. /\ Settled(10)' /\ Counted(0)' /\ ~Unsettled'
        /\ data_shift_reg' = data_shift_reg
    BY <2>2, EdgeWaits, SmallNumbers
  <2>4. data_shift_reg = XMove
    <3>1. DataBits(10) = 8
      BY DEF DataBits
    <3> QED  BY <2>2, <3>1, GotAll, DeviceBytes
  <2>5. byte1' = Status
    BY <2>2, RegistersStep, SettledMeans, SmallNumbers DEF Latest, Settled
  <2> QED  BY <2>1, <2>3, <2>4, <2>5 DEF Sent
<1>4. CASE pending = <<YMove>> /\ pending # <<Ack>>
  <2>1. pending' = <<>>
    BY <1>4
  <2>2. At(10) /\ Counted(1)
    BY <1>4, DeviceBytes DEF Sending, Packet
  <2>3. Settled(10)' /\ Counted(1)' /\ ~Unsettled'
    BY <2>2, EdgeWaits, SmallNumbers
  <2> QED  BY <2>1, <2>3 DEF Sent
<1> QED  BY <1>1, <1>2, <1>3, <1>4 DEF Sending

(* The cycle before the host sees it.                                      *)
LEMMA SentWaits ==
  ASSUME HostEdge, MouseEdge, StreamTypeOK, ~ps2_clk_posedge,
         Sent, pending' = pending
  PROVE  Sent'
<1>1. PICK k \in {0, 10}, c \in 0 .. 2 : Settled(k) /\ Counted(c)
  BY SmallNumbers DEF Sent
<1>2. received_data_en = FALSE
  BY <1>1 DEF Settled
<1>3. byte1' = byte1
  BY <1>2, RegistersStep
<1>4. \A n \in {0, 10}, m \in 0 .. 2 : Settled(n) /\ Counted(m) =>
        /\ Settled(n)' /\ Counted(m)' /\ ~Unsettled'
        /\ data_shift_reg' = data_shift_reg
  <2>1. ASSUME NEW n \in {0, 10}, NEW m \in 0 .. 2, Settled(n), Counted(m)
        PROVE  /\ Settled(n)' /\ Counted(m)' /\ ~Unsettled'
               /\ data_shift_reg' = data_shift_reg
    <3>1. n \in 0 .. 10 /\ At(n)
      BY <2>1 DEF At
    <3> QED  BY <2>1, <3>1, EdgeWaits
  <2> QED  BY <2>1
<1> QED  BY <1>3, <1>4, SmallNumbers DEF Sent

(* When it does, the byte is complete and the next one may begin.          *)
LEMMA SentMoves ==
  ASSUME RealDevice, HostEdge, MouseEdge, StreamTypeOK, ps2_clk_posedge,
         ps2_data_reg = 1, Sent, pending' = pending
  PROVE  Sending(0)'
<1> DEFINE kept == IF 10 \in 1 .. 8 THEN 1 * 128 + data_shift_reg \div 2
                   ELSE data_shift_reg
<1>00. kept = data_shift_reg
  OBVIOUS
<1> HIDE DEF kept
<1>0. /\ 0 = NextPosition(10, 1) /\ 0 = NextPosition(0, 1)
      /\ 0 # 10 /\ DataBits(0) = 0
      /\ NextCount(1) = 2 /\ NextCount(2) = 0 /\ NextCount(0) = 1
  BY DEF NextPosition, DataBits, NextCount
<1>1. CASE pending = <<>> /\ Settled(10) /\ Counted(1)
  <2>1. At(0)' /\ Counted(2)'
    BY <1>0, <1>1, EdgeMoves, SmallNumbers
  <2> QED  BY <1>1, <2>1 DEF Sending
<1>2. CASE pending = <<>> /\ Settled(0) /\ Counted(2)
  <2>1. At(0)' /\ Counted(2)'
    BY <1>0, <1>2, EdgeMoves, SmallNumbers
  <2> QED  BY <1>2, <2>1 DEF Sending
<1>3. CASE /\ pending = <<XMove, YMove>>
           /\ Settled(10) /\ Counted(2) /\ data_shift_reg = Status
  <2>0. At(0)' /\ Counted(NextCount(2))' /\ received_data_en' = TRUE
        /\ received_data' = data_shift_reg /\ data_shift_reg' = kept
    BY <1>0, <1>3, EdgeMoves, SmallNumbers DEF kept
  <2>1. At(0)' /\ Counted(0)' /\ received_data_en' = TRUE
        /\ received_data' = Status /\ data_shift_reg' = Status
    BY <1>0, <1>00, <1>3, <2>0
  <2>2. Got(XMove, DataBits(0))'
    BY <1>0, <2>1, DeviceBytes DEF Got
  <2> QED  BY <1>3, <2>1, <2>2 DEF Sending, Latest
<1>4. CASE /\ pending = <<YMove>> /\ Settled(10) /\ Counted(0)
           /\ data_shift_reg = XMove /\ byte1 = Status
  <2>0. At(0)' /\ Counted(NextCount(0))' /\ received_data_en' = TRUE
        /\ received_data' = data_shift_reg /\ data_shift_reg' = kept
    BY <1>0, <1>4, EdgeMoves, SmallNumbers DEF kept
  <2>1. At(0)' /\ Counted(1)' /\ received_data_en' = TRUE
        /\ received_data' = XMove /\ data_shift_reg' = XMove
    BY <1>0, <1>00, <1>4, <2>0
  <2>2. Got(YMove, DataBits(0))'
    BY <1>0, <2>1, DeviceBytes DEF Got
  <2>3. byte1' = Status
    BY <1>4, RegistersStep DEF Settled
  <2> QED  BY <1>4, <2>1, <2>2, <2>3 DEF Sending, Latest
<1> QED  BY <1>1, <1>2, <1>3, <1>4 DEF Sent

(* Between two edges of the host's frame the receiver waits.               *)
LEMMA CommandWaits ==
  ASSUME HostEdge, MouseEdge, StreamTypeOK, ~ps2_clk_posedge,
         NEW r \in 0 .. 11, CommandTaken(r)
  PROVE  CommandTaken(r)' /\ ~Unsettled'
<1>1. ASSUME NEW k \in 0 .. 10, NEW c \in 0 .. 2, At(k), Counted(c)
      PROVE  At(k)' /\ Counted(c)' /\ ~Unsettled'
  BY <1>1, EdgeWaits
<1>2. CASE \E k \in r + 1 .. r + 7 : k <= 10 /\ At(k) /\ Counted(0)
  <2>1. PICK k \in r + 1 .. r + 7 : k <= 10 /\ At(k) /\ Counted(0)
    BY <1>2
  <2>2. k \in 0 .. 10
    BY <2>1
  <2> QED  BY <1>1, <2>1, <2>2, SmallNumbers DEF CommandTaken
<1>3. CASE r >= 4 /\ At(0) /\ Counted(1)
  BY <1>1, <1>3, SmallNumbers DEF CommandTaken
<1>4. CASE r \in 9 .. 11 /\ At(r - 8) /\ Counted(1)
  <2>1. r - 8 \in 0 .. 10
    BY <1>4
  <2> QED  BY <1>1, <1>4, <2>1, SmallNumbers DEF CommandTaken
<1>5. CASE r = 11 /\ At(1) /\ Counted(1)
  BY <1>1, <1>5, SmallNumbers DEF CommandTaken
<1> QED  BY <1>2, <1>3, <1>4, <1>5 DEF CommandTaken

(* At each edge it takes one of the host's own bits.                       *)
LEMMA CommandMoves ==
  ASSUME RealDevice, HostEdge, MouseEdge, StreamTypeOK, ps2_clk_posedge,
         NEW r \in 0 .. 10, CommandTaken(r), ~Unsettled,
         r <= 9 => ps2_data_reg = CommandData(r + 1)
  PROVE  CommandTaken(r + 1)'
<1>0. ASSUME NEW k \in 0 .. 10, NEW c \in 0 .. 2, At(k), Counted(c), k # 10,
             NEW j \in 0 .. 10, j = NextPosition(k, ps2_data_reg)
      PROVE  At(j)' /\ Counted(c)'
  <2>1. ps2_data_reg \in 0 .. 1 /\ Settled(k)
    BY <1>0, SettledMeans DEF StreamTypeOK
  <2> QED  BY <1>0, <2>1, EdgeMoves
<1>1. CASE \E k \in r + 1 .. r + 7 : k <= 10 /\ At(k) /\ Counted(0)
  <2>1. PICK k \in r + 1 .. r + 7 : k <= 10 /\ At(k) /\ Counted(0)
    BY <1>1
  <2>2. k \in 1 .. 10 /\ k \in 0 .. 10
    BY <2>1
  <2>3. CASE k = 10
    <3>1. PICK d \in 0 .. 1 : ps2_data_reg = d
      BY DEF StreamTypeOK
    <3>2. 0 = NextPosition(k, d) /\ NextCount(0) = 1
      BY <2>3 DEF NextPosition, NextCount
    <3>3. At(0)' /\ Counted(1)'
      BY <2>1, <2>2, <2>3, <3>1, <3>2, SettledMeans, EdgeMoves, SmallNumbers
    <3>4. r + 1 >= 4
      BY <2>1, <2>3
    <3> QED  BY <3>3, <3>4 DEF CommandTaken
  <2>4. CASE k # 10
    <3>1. k + 1 \in 0 .. 10 /\ k + 1 = NextPosition(k, ps2_data_reg)
      BY <2>2, <2>4 DEF NextPosition
    <3>2. At(k + 1)' /\ Counted(0)'
      BY <1>0, <2>1, <2>2, <2>4, <3>1, SmallNumbers
    <3>3. k + 1 \in (r + 1) + 1 .. (r + 1) + 7 /\ k + 1 <= 10
      BY <2>1, <2>2, <2>4
    <3> QED  BY <3>2, <3>3 DEF CommandTaken
  <2> QED  BY <2>3, <2>4
<1>2. CASE r >= 4 /\ At(0) /\ Counted(1)
  <2>1. CASE r \in 4 .. 7 \/ r = 9
    <3>1. ps2_data_reg = 1
      <4>1. r + 1 \in 5 .. 8 \/ r + 1 = 10
        BY <2>1
      <4> QED  BY <2>1, <4>1, CommandIs244
    <3>2. 0 = NextPosition(0, ps2_data_reg)
      BY <3>1 DEF NextPosition
    <3>3. At(0)' /\ Counted(1)'
      BY <1>0, <1>2, <3>2, SmallNumbers
    <3> QED  BY <2>1, <3>3 DEF CommandTaken
  <2>2. CASE r = 8
    <3>1. 1 = NextPosition(0, ps2_data_reg)
      BY <2>2, CommandIs244 DEF NextPosition
    <3>2. At(1)' /\ Counted(1)'
      BY <1>0, <1>2, <3>1, SmallNumbers
    <3> QED  BY <2>2, <3>2 DEF CommandTaken
  <2>3. CASE r = 10
    <3>1. \/ 0 = NextPosition(0, ps2_data_reg)
          \/ 1 = NextPosition(0, ps2_data_reg)
      BY DEF NextPosition, StreamTypeOK
    <3>2. \/ At(0)' /\ Counted(1)'
          \/ At(1)' /\ Counted(1)'
      BY <1>0, <1>2, <3>1, SmallNumbers
    <3> QED  BY <2>3, <3>2 DEF CommandTaken
  <2> QED  BY <1>2, <2>1, <2>2, <2>3
<1>3. CASE r \in 9 .. 11 /\ At(r - 8) /\ Counted(1)
  <2>1. /\ r - 8 \in 0 .. 10 /\ r - 8 # 10 /\ (r + 1) - 8 \in 0 .. 10
        /\ (r + 1) - 8 = NextPosition(r - 8, ps2_data_reg)
    BY <1>3 DEF NextPosition
  <2>2. At((r + 1) - 8)' /\ Counted(1)'
    BY <1>0, <1>3, <2>1, SmallNumbers
  <2>3. r + 1 \in 9 .. 11
    BY <1>3
  <2> QED  BY <2>2, <2>3 DEF CommandTaken
<1> QED  BY <1>1, <1>2, <1>3 DEF CommandTaken

-----------------------------------------------------------------------------
(* Requests that fail.                                                     *)

(* Without a rising clock nothing is added to what requests left.          *)
LEMMA BeforeWaits ==
  ASSUME HostEdge, MouseEdge, StreamTypeOK, ~ps2_clk_posedge,
         NEW n \in 0 .. 6, Before(n)
  PROVE  Before(n)' /\ ~Unsettled'
<1>1. PICK k \in 0 .. n : Settled(k) /\ Counted(0)
  BY DEF Before
<1>2. k \in 0 .. 10 /\ At(k)
  BY <1>1 DEF At
<1>3. Settled(k)' /\ Counted(0)' /\ ~Unsettled'
  BY <1>1, <1>2, EdgeWaits, SmallNumbers
<1> QED  BY <1>3 DEF Before

(* They are at most six.                                                   *)
LEMMA FailuresBounded ==
  ASSUME RealDevice, StreamTypeOK
  PROVE  failures \in 0 .. 6 /\ failures \in Nat
  BY StreamAssumption DEF RealDevice, StreamTypeOK

-----------------------------------------------------------------------------
(* The steps, one part of the invariant after the other.                   *)

(* The host ends its initialisation once, and only when the command was    *)
(* sent.                                                                   *)
LEMMA FlagsStep ==
  ASSUME LinkTypeOK, StreamTypeOK, Flags, HostEdge
  PROVE  /\ Flags'
         /\ transmitter' \in {"initiate", "wait", "error"} \cup Transferring =>
              ~init_done' /\ ~command_was_sent'
         /\ error_communication_timed_out' <=> transmitter = "error"
         /\ init_done' \in BOOLEAN /\ command_was_sent' \in BOOLEAN
         /\ error_communication_timed_out' \in BOOLEAN
<1>1. /\ init_done' = (init_done \/ command_was_sent)
      /\ command_was_sent' =
           (transmitter = "sent" \/ (send_command /\ command_was_sent))
      /\ error_communication_timed_out' =
           \/ transmitter = "error"
           \/ send_command /\ error_communication_timed_out
  BY DEF HostEdge, Transmitter
<1>2. /\ command_was_sent' <=> transmitter = "sent"
      /\ error_communication_timed_out' <=> transmitter = "error"
      /\ init_done' <=> init_done \/ command_was_sent
      /\ init_done' \in BOOLEAN /\ command_was_sent' \in BOOLEAN
      /\ error_communication_timed_out' \in BOOLEAN
  BY <1>1 DEF send_command
<1>3. transmitter = "error" =>
        transmitter' \in {"error", "idle"} /\ ~init_done /\ ~command_was_sent
  BY DEF HostEdge, Transmitter, Flags
<1>4. transmitter = "sent" =>
        \/ transmitter' = "sent"
        \/ transmitter' = "idle" /\ (init_done \/ command_was_sent)
  BY DEF HostEdge, Transmitter, send_command, Flags
<1>5. init_done => transmitter' = "idle"
  BY DEF HostEdge, Transmitter, send_command, Flags
<1>6. command_was_sent => transmitter' = "idle"
  BY DEF HostEdge, Transmitter, send_command, Flags
<1>7. Flags'
  BY <1>2, <1>3, <1>4, <1>5, <1>6 DEF Flags
<1>8. transmitter' \in {"initiate", "wait", "error"} \cup Transferring =>
        /\ transmitter' # "idle" /\ transmitter' # "sent"
  BY DEF Transferring
<1> QED
  BY <1>2, <1>4, <1>5, <1>6, <1>7, <1>8

(* The mouse's bytes are bytes, and what follows one is known.             *)
LEMMA SaidInBytes ==
  ASSUME ByteSpan = 256, NEW p \in Said
  PROVE  /\ p # <<>> => Head(p) \in 0 .. 255
         /\ p # <<>> => Tail(p) \in Said
<1>0. {Ack, Status, XMove, YMove} \subseteq 0 .. 255
  BY StreamAssumption DEF Bytes
<1>1. CASE p = <<>>
  BY <1>1
<1>2. CASE p = <<Ack>>
  BY <1>0, <1>2 DEF Said
<1>3. CASE p = Packet
  BY <1>0, <1>3 DEF Said, Packet
<1>4. CASE p = <<XMove, YMove>>
  BY <1>0, <1>4 DEF Said
<1>5. CASE p = <<YMove>>
  BY <1>0, <1>5 DEF Said
<1> QED  BY <1>1, <1>2, <1>3, <1>4, <1>5 DEF Said

(* The same of what is pending.                                            *)
LEMMA SaidBytes ==
  ASSUME pending \in Said, RealDevice
  PROVE  /\ pending # <<>> => Head(pending) \in 0 .. 255
         /\ pending # <<>> => Tail(pending) \in Said
  BY SaidInBytes DEF RealDevice

(* The host's registers keep their types.                                  *)
LEMMA HostStreamTypes ==
  ASSUME LinkTypeOK, StreamTypeOK, Flags, HostEdge \/ HostReset
  PROVE  /\ ps2_data_reg' \in 0 .. 1 /\ data_shift_reg' \in 0 .. 255
         /\ waiting_counter' \in Nat
         /\ init_done' \in BOOLEAN /\ command_was_sent' \in BOOLEAN
         /\ error_communication_timed_out' \in BOOLEAN
<1>1. CASE HostReset
  <2>1. ps2_data_reg' = 1 /\ data_shift_reg' = 0 /\ waiting_counter' = 0
    BY <1>1 DEF HostReset
  <2>2. /\ init_done' \in BOOLEAN /\ command_was_sent' \in BOOLEAN
        /\ error_communication_timed_out' \in BOOLEAN
    BY <1>1 DEF HostReset
  <2> QED  BY <2>1, <2>2
<1>2. CASE HostEdge
  <2>1. ps2_data_reg' \in 0 .. 1
    BY <1>2 DEF HostEdge, Sample, PS2_DAT, StreamTypeOK
  <2>2. data_shift_reg' \in 0 .. 255
    <3>1. \/ data_shift_reg' = data_shift_reg
          \/ data_shift_reg' = ps2_data_reg * 128 + data_shift_reg \div 2
      BY <1>2 DEF HostEdge, Receiver
    <3>2. data_shift_reg \in 0 .. 255 /\ ps2_data_reg \in 0 .. 1
      BY DEF StreamTypeOK
    <3> QED  BY <3>1, <3>2, ShiftedBits
  <2>3. waiting_counter' \in Nat
    BY <1>2 DEF HostEdge, Transmitter, Timer, StreamTypeOK
  <2> QED  BY <1>2, <2>1, <2>2, <2>3, FlagsStep
<1> QED  BY <1>1, <1>2

(* So do the mouse's, and the data line shows the bit it is at.            *)
LEMMA DeviceStreamTypes ==
  ASSUME RealDevice, LinkTypeOK, StreamTypeOK, Device,
         device = "send" => pending # <<>>
  PROVE  /\ streaming' \in BOOLEAN /\ awake' \in BOOLEAN
         /\ pending' \in Said /\ devDat' \in 0 .. 1
         /\ device' = "send" =>
              /\ bit' \in 1 .. 11 /\ (devClk' = 1 => bit' <= 10)
              /\ devDat' = FrameBit(Head(pending'), bit')
<1>0. /\ pending # <<>> => Head(pending) \in 0 .. 255
      /\ pending # <<>> => Tail(pending) \in Said
  BY SaidBytes DEF StreamTypeOK
<1> USE DEF StreamTypeOK, LinkTypeOK
<1>1. CASE Hold
  BY <1>1 DEF Hold, wires
<1>2. CASE HearRequest
  BY <1>2 DEF HearRequest, Moves
<1>3. CASE ReceiveFall
  BY <1>3 DEF ReceiveFall, Moves
<1>4. CASE ReceiveRise
  BY <1>4 DEF ReceiveRise, Moves
<1>5. CASE Acknowledge
  BY <1>5 DEF Acknowledge, Moves, Said
<1>6. CASE ReleaseData
  BY <1>6 DEF ReleaseData, Moves
<1>7. CASE NewPacket
  BY <1>7 DEF NewPacket, Moves, Said, wires
<1>8. CASE StartByte
  <2>0. Head(pending) \in 0 .. 255 /\ 1 \in 1 .. 11
    BY <1>0, <1>8 DEF StartByte
  <2>1. FrameBit(Head(pending), 1) \in 0 .. 1
    BY <2>0, FrameBits
  <2> QED  BY <1>8, <2>1 DEF StartByte, Moves
<1>9. CASE SendFall
  <2>2. bit + 1 \in 1 .. 11
    BY <1>9 DEF SendFall
  <2>3. FrameBit(Head(pending), bit + 1) \in 0 .. 1
    BY <1>0, <1>9, <2>2, FrameBits DEF SendFall
  <2> QED  BY <1>9, <2>2, <2>3 DEF SendFall, Moves
<1>10. CASE SendRise
  <2>1. UNCHANGED <<devDat, streaming, awake>> /\ devClk' = 1
    BY <1>10 DEF SendRise, Moves
  <2>2. CASE bit = 11
    BY <1>0, <1>10, <2>1, <2>2 DEF SendRise
  <2>3. CASE bit # 11
    <3>1. UNCHANGED <<device, bit, pending>> /\ device = "send"
      BY <1>10, <2>3 DEF SendRise
    <3>2. bit \in 1 .. 10 /\ devDat = FrameBit(Head(pending), bit)
      BY <2>3, <3>1
    <3> QED  BY <2>1, <3>1, <3>2
  <2> QED  BY <2>2, <2>3
<1>11. CASE Abort
  BY <1>11 DEF Abort, Moves
<1> QED
  BY <1>1, <1>2, <1>3, <1>4, <1>5, <1>6, <1>7, <1>8, <1>9, <1>10, <1>11
     DEF Device

(* Every step keeps the types.                                             *)
LEMMA StreamTypesStep ==
  ASSUME RealDevice, LinkInv, PacketInv, StreamNext
  PROVE  StreamTypeOK'
<1>1. LinkTypeOK /\ StreamTypeOK /\ Flags /\ (device = "send" => pending # <<>>)
  BY DEF LinkInv, PacketInv, Sleeping
<1>2. Device /\ (HostEdge \/ HostReset) /\ (MouseEdge \/ Reset)
  BY DEF StreamNext, Cycle, ResetCycle
<1>3. counter' \in 0 .. 2
  <2>1. counter \in 0 .. 2
    BY <1>1 DEF StreamTypeOK
  <2>2. CASE Reset
    BY <2>2 DEF Reset
  <2>3. CASE MouseEdge
    BY <2>1, <2>3 DEF MouseEdge, XByte, YByte, StatusByte, mouseVars
  <2> QED  BY <1>2, <2>2, <2>3
<1>4. failures' \in 0 .. MaxFailures
  <2>1. failures \in 0 .. MaxFailures /\ MaxFailures \in Nat
    BY <1>1, StreamAssumption DEF StreamTypeOK
  <2>2. \/ failures' = failures
        \/ failures < MaxFailures /\ failures' = failures + 1
    BY DEF StreamNext, Cycle, ResetCycle
  <2> QED  BY <2>1, <2>2
<1> QED
  BY <1>1, <1>2, <1>3, <1>4, HostStreamTypes, DeviceStreamTypes DEF StreamTypeOK

(* Every step keeps what is known of the mouse's sleep.                    *)
LEMMA SleepingStep ==
  ASSUME RealDevice, LinkInv, PacketInv, StreamNext
  PROVE  Sleeping'
<1>0. /\ LinkTypeOK /\ StreamTypeOK /\ Flags /\ Sleeping
  BY DEF LinkInv, PacketInv
<1>1. Device
  BY DEF StreamNext, Cycle, ResetCycle
<1>2. /\ streaming' = FALSE => pending' = <<>>
      /\ device' = "send" => pending' # <<>> /\ streaming' = TRUE
      /\ streaming' = TRUE => awake' = TRUE
      /\ device' = "idle" /\ devDat' = 0 => pending' = <<Ack>>
  <2> USE <1>0 DEF LinkTypeOK, StreamTypeOK, Sleeping
  <2>1. CASE Hold
    BY <2>1 DEF Hold, wires
  <2>2. CASE HearRequest
    BY <2>2 DEF HearRequest, Moves
  <2>3. CASE ReceiveFall
    BY <2>3 DEF ReceiveFall, Moves
  <2>4. CASE ReceiveRise
    BY <2>4 DEF ReceiveRise, Moves
  <2>5. CASE Acknowledge
    BY <2>5 DEF Acknowledge, Moves
  <2>6. CASE ReleaseData
    BY <2>6 DEF ReleaseData, Moves
  <2>7. CASE NewPacket
    <3>1. devDat # 0
      BY <2>7 DEF NewPacket
    <3> QED  BY <2>7, <3>1 DEF NewPacket, Moves, wires, Packet
  <2>8. CASE StartByte
    BY <2>8 DEF StartByte, Moves
  <2>9. CASE SendFall
    BY <2>9 DEF SendFall, Moves
  <2>10. CASE SendRise
    <3>1. device = "send" /\ pending # <<>> /\ streaming = TRUE /\ awake = TRUE
      BY <2>10 DEF SendRise
    <3>2. UNCHANGED <<devDat, streaming, awake>>
      BY <2>10 DEF SendRise, Moves
    <3>3. CASE bit = 11
      <4>1. Head(pending) \in 0 .. 255 /\ bit \in 1 .. 11
        BY <3>1, SaidBytes
      <4>2. devDat = 1
        BY <3>1, <3>3, <4>1, FrameBits
      <4>3. device' = "idle"
        BY <2>10, <3>3 DEF SendRise
      <4> QED  BY <3>1, <3>2, <4>2, <4>3
    <3>4. CASE bit # 11
      <4>1. UNCHANGED <<device, pending>>
        BY <2>10, <3>4 DEF SendRise
      <4> QED  BY <3>1, <3>2, <4>1
    <3> QED  BY <3>3, <3>4
  <2>11. CASE Abort
    BY <2>11 DEF Abort, Moves
  <2> QED
    BY <1>1, <2>1, <2>2, <2>3, <2>4, <2>5, <2>6, <2>7, <2>8, <2>9, <2>10, <2>11
       DEF Device
<1>3. failures' = MaxFailures =>
        awake' \/ (transmitter' = "error" /\ ~error_communication_timed_out')
  <2>1. CASE failures = MaxFailures
    <3>1. awake' = TRUE
      <4>1. CASE Hold
        <5>1. ~(failures < MaxFailures)
          BY <2>1, StreamAssumption
        <5>2. awake' \in IF failures < MaxFailures THEN {awake, TRUE}
                         ELSE {TRUE}
          BY <4>1 DEF Hold
        <5> QED  BY <5>1, <5>2
      <4>2. CASE ~Hold
        BY <1>0, <1>1, <4>2 DEF StreamTypeOK, Device, HearRequest, ReceiveFall,
             ReceiveRise,
          Acknowledge, ReleaseData, NewPacket, StartByte, SendFall, SendRise,
          Abort, Moves
      <4> QED  BY <4>1, <4>2
    <3> QED  BY <3>1
  <2>2. CASE failures # MaxFailures /\ failures' = MaxFailures
    <3>1. HostEdge /\ transmitter # "error" /\ transmitter' = "error"
      BY <2>2 DEF StreamNext, Cycle, ResetCycle
    <3> QED  BY <1>0, <3>1, FlagsStep
  <2> QED  BY <2>1, <2>2
<1> QED  BY <1>2, <1>3 DEF Sleeping

(* A transmission that the mouse has taken up does not time out: MaxPhase  *)
(* bounds its phases.                                                      *)
LEMMA TransmissionEnds ==
  ASSUME LinkInv, PacketInv, HostEdge, transmitter \in Transferring
  PROVE  transmitter' # "error"
<1> SUFFICES ASSUME transmitter' = "error" PROVE FALSE
  OBVIOUS
<1>1. CASE device = "receive"
  <2>1. PICK n \in 1 .. 11 : n = bit
    BY <1>1 DEF LinkInv, LinkTypeOK
  <2>2. Requesting /\ Followed
    BY <1>1 DEF LinkInv, InFrame, Requesting
  <2>3. ~Seen(n)' /\ ~Seen(n - 1)'
    BY DEF Seen
  <2>4. devClk = 0 /\ phase = 0 /\ n = 1
    BY <1>1, <2>1, <2>2, <2>3, HostFollows DEF LinkInv, LinkTypeOK
  <2>5. Seen(0)
    BY <2>1, <2>2, <2>4 DEF Followed
  <2> QED  BY <2>5 DEF Seen, Transferring
<1>2. CASE device # "receive"
  <2>1. transmitter = "ack"
    BY <1>2 DEF LinkInv, Together, Transferring
  <2>2. \/ phase = 0 /\ transfer_counter < Cycles2ms
        \/ phase = 1 /\ ps2_clk_posedge
    BY <1>2, <2>1 DEF PacketInv, Acked, LinkInv, LinkTypeOK, ps2_clk_posedge
  <2>3. transfer_counter = Cycles2ms /\ ~ps2_clk_posedge
    BY <2>1 DEF HostEdge, Transmitter
  <2> QED  BY <2>2, <2>3, Timers
<1> QED  BY <1>1, <1>2

(* The host gives up only while it waits, on a mouse that is asleep or     *)
(* that moved in this very cycle.                                          *)
LEMMA GivesUp ==
  ASSUME RealDevice, LinkInv, PacketInv, HostEdge,
         transmitter # "error", transmitter' = "error"
  PROVE  /\ transmitter = "wait" /\ ~init_done
         /\ streaming = FALSE /\ failures < MaxFailures
         /\ ~ps2_clk_posedge
         /\ \/ /\ device = "idle" /\ devClk = 1 /\ phase >= 3
               /\ ps2_clk_reg = 1 /\ last_ps2_clk = 1
            \/ /\ device = "receive" /\ phase = 0 /\ devClk = 0 /\ bit = 1
               /\ ps2_clk_reg = 1 /\ last_ps2_clk = 1
<1>0. LinkTypeOK /\ StreamTypeOK
  BY DEF LinkInv, PacketInv
<1>1. /\ transmitter = "wait" /\ waiting_counter = Cycles15ms
  BY TransmissionEnds, <1>0
     DEF HostEdge, Transmitter, Transferring, LinkTypeOK
<1>2. ~init_done
  BY <1>1 DEF PacketInv, Flags
<1>3. CASE device = "receive"
  <2>1. PICK n \in 1 .. 11 : n = bit
    BY <1>0, <1>3 DEF LinkTypeOK
  <2>2. Requesting /\ Sampled
    BY <1>1, <1>3 DEF LinkInv, InFrame, Requesting
  <2>3. ~Seen(n)' /\ ~Seen(n - 1)'
    BY DEF Seen
  <2>4. devClk = 0 /\ phase = 0 /\ n = 1
    BY <1>0, <1>3, <2>1, <2>2, <2>3, HostFollows DEF LinkInv, LinkTypeOK
  <2>5. ps2_clk_reg = 1 /\ last_ps2_clk = 1
    BY <2>2, <2>4 DEF Sampled
  <2>6. ~(streaming \/ failures = MaxFailures)
    <3> SUFFICES ASSUME streaming \/ failures = MaxFailures PROVE FALSE
      OBVIOUS
    <3>1. waiting_counter <= 2 * MaxPhase + 2 + phase
      BY <1>1, <1>3 DEF PacketInv, Answered
    <3> QED  BY <1>1, <2>4, <3>1, StreamAssumption, Timers
  <2>7. streaming = FALSE /\ failures < MaxFailures
    BY <1>0, <2>6, StreamAssumption DEF StreamTypeOK
  <2> QED
    BY <1>1, <1>2, <1>3, <2>1, <2>4, <2>5, <2>7 DEF ps2_clk_posedge
<1>4. CASE device # "receive"
  <2>1. device = "idle" /\ devClk = 1 /\ phase \in 0 .. MaxPhase
    BY <1>0, <1>1, <1>4 DEF LinkInv, LinkTypeOK, Together
  <2>2. ~(streaming \/ failures = MaxFailures)
    <3> SUFFICES ASSUME streaming \/ failures = MaxFailures PROVE FALSE
      OBVIOUS
    <3>1. waiting_counter <= phase \/ waiting_counter <= phase + MaxPhase + 1
      BY <1>1, <2>1 DEF PacketInv, Answered
    <3> QED  BY <1>1, <2>1, <3>1, StreamAssumption, Timers
  <2>3. streaming = FALSE /\ failures < MaxFailures
    BY <1>0, <2>2, StreamAssumption DEF StreamTypeOK
  <2>4. phase >= 3
    <3>1. phase >= 3 \/ phase >= waiting_counter
      BY <1>1, <2>1, <2>3 DEF PacketInv, Patient
    <3> QED  BY <1>1, <2>1, <3>1, StreamAssumption, Timers
  <2>5. ps2_clk_reg = 1 /\ last_ps2_clk = 1
    BY <1>1, <2>1, <2>4, Timers DEF LinkInv, Waiting
  <2> QED
    BY <1>1, <1>2, <2>1, <2>3, <2>4, <2>5 DEF ps2_clk_posedge
<1> QED  BY <1>3, <1>4

(* Between two requests no rising clock is seen.                           *)
LEMMA NotYetAsked ==
  ASSUME LinkInv, PacketInv, ~init_done, transmitter \in {"idle", "error"}
  PROVE  ~ps2_clk_posedge
<1>1. CASE transmitter = "idle"
  BY <1>1 DEF PacketInv, Calm, High, ps2_clk_posedge
<1>2. CASE transmitter = "error"
  <2>1. phase \in Nat
    BY Timers DEF LinkInv, LinkTypeOK
  <2>2. \/ High
        \/ (phase = 0 => High) /\ (phase >= 1 => ps2_clk_reg = 0)
    BY <1>2 DEF PacketInv, Failed
  <2> QED  BY <2>1, <2>2 DEF High, ps2_clk_posedge
<1> QED  BY <1>1, <1>2

(* A request that fails leaves one bit, and counts as a failure.           *)
LEMMA AskingStep ==
  ASSUME RealDevice, LinkInv, PacketInv, Cycle
  PROVE  Asking'
<1> SUFFICES ASSUME ~init_done', transmitter' \in {"idle", "initiate", "error"}
             PROVE  Before(failures)'
  BY DEF Asking
<1>0. /\ LinkTypeOK /\ StreamTypeOK /\ Flags /\ HostEdge /\ MouseEdge
      /\ failures' = IF transmitter # "error" /\ transmitter' = "error"
                        /\ failures < MaxFailures
                     THEN failures + 1 ELSE failures
  BY DEF LinkInv, PacketInv, Cycle
<1>1. ~init_done /\ ~command_was_sent
  BY <1>0 DEF HostEdge
<1>2. failures \in 0 .. 6
  BY <1>0, FailuresBounded
<1>3. CASE transmitter \in {"idle", "initiate", "error"}
  <2>1. failures' = failures
    BY <1>0, <1>3 DEF HostEdge, Transmitter
  <2>2. Before(failures)
    BY <1>1, <1>3 DEF PacketInv, Asking
  <2>3. CASE ~ps2_clk_posedge
    <3>1. PICK n \in 0 .. 6 : n = failures
      BY <1>2
    <3>2. Before(n)'
      BY <1>0, <2>2, <2>3, <3>1, BeforeWaits
    <3> QED  BY <2>1, <3>1, <3>2 DEF Before
  <2>4. CASE ps2_clk_posedge
    <3>1. transmitter = "initiate"
      BY <1>1, <1>3, <2>4, NotYetAsked
    <3>2. ps2_data_reg = 1 /\ transceiver = "idle"
      BY <2>4, <3>1 DEF PacketInv, Harmless
    <3>3. Settled(0) /\ Counted(0)
      BY <2>2, <3>2 DEF Before, Settled
    <3>4. 0 = NextPosition(0, 1) /\ 0 # 10
      BY DEF NextPosition
    <3>5. At(0)' /\ Counted(0)' /\ received_data_en' = FALSE
      BY <1>0, <2>4, <3>2, <3>3, <3>4, EdgeMoves, SmallNumbers
    <3>6. Settled(0)'
      BY <3>5 DEF At, Turning
    <3> QED  BY <1>2, <2>1, <3>5, <3>6 DEF Before
  <2> QED  BY <2>3, <2>4
<1>4. CASE transmitter \notin {"idle", "initiate", "error"}
  <2>1. transmitter' = "error"
    BY <1>0, <1>1, <1>4
       DEF HostEdge, Transmitter, LinkTypeOK, Transferring, Flags, send_command
  <2>2. /\ transmitter = "wait" /\ failures < MaxFailures /\ ~ps2_clk_posedge
        /\ device = "receive" \/ (device = "idle" /\ phase >= 3)
        /\ ps2_clk_reg = 1 /\ last_ps2_clk = 1
    <3>1. transmitter # "error"
      BY <1>4
    <3> QED  BY ONLY <1>0, <2>1, <3>1, PacketInv, LinkInv, RealDevice, GivesUp
  <2>3. failures' = failures + 1
    BY <1>0, <2>1, <2>2
  <2>4. /\ \E k \in 1 .. failures + 1 : At(k) /\ Counted(0)
        /\ ~Unsettled
    BY <2>2 DEF PacketInv, Released
  <2>5. PICK k \in 1 .. failures + 1 : At(k) /\ Counted(0)
    BY <2>4
  <2>6. k \in 0 .. 10 /\ k \in 0 .. failures + 1
    BY <1>2, <2>5
  <2>7. Settled(k)' /\ Counted(0)'
    BY <1>0, <2>2, <2>5, <2>6, EdgeWaits, SmallNumbers
  <2> QED  BY <2>3, <2>6, <2>7 DEF Before
<1> QED  BY <1>3, <1>4

(* After a failure the mouse does nothing: nobody asks it.                 *)
LEMMA FailedMouse ==
  ASSUME LinkTypeOK, StreamTypeOK, Sleeping, Device,
         transmitter = "error" \/ transmitter = "idle", streaming = FALSE,
         \/ device = "idle"
         \/ device = "receive" /\ bit = 1 /\ devClk = 0 /\ phase <= 3
  PROVE  Hold
<1>1. \/ devDat = 1 /\ pending = <<>>
      \/ device = "receive"
  BY DEF Sleeping, StreamTypeOK
<1>2. HostClk = 1 /\ HostDat = 1
  BY DEF HostClk, HostDat
<1>3. CASE device = "receive"
  <2>1. ~(phase >= MinPhase)
    BY <1>3, Timers DEF LinkTypeOK
  <2> QED
    BY <2>1 DEF Device, HearRequest, ReceiveFall, ReceiveRise, Acknowledge,
       ReleaseData, NewPacket, StartByte, SendFall, SendRise, Abort, Moves
<1>4. CASE device = "idle"
  BY <1>1, <1>2, <1>4
     DEF Device, HearRequest, Requested, ReceiveFall, ReceiveRise, Acknowledge,
       ReleaseData, NewPacket, StartByte, SendFall, SendRise, Abort, PS2_DAT
<1> QED  BY <1>3, <1>4

(* The cycles after a failure.                                             *)
LEMMA FailedStep ==
  ASSUME RealDevice, LinkInv, PacketInv, Cycle
  PROVE  Failed'
<1>0. /\ LinkTypeOK /\ StreamTypeOK /\ Flags /\ HostEdge /\ Device /\ Sleeping
  BY DEF LinkInv, PacketInv, Cycle
<1>1. error_communication_timed_out' <=> transmitter = "error"
  BY <1>0, FlagsStep
<1>2. CASE transmitter = "error"
  <2>1. /\ streaming = FALSE
        /\ \/ device = "idle" /\ devClk = 1 /\ High
           \/ /\ device = "receive" /\ bit = 1 /\ devClk = 0
              /\ phase <= IF error_communication_timed_out THEN 2 ELSE 1
              /\ phase = 0 => High
              /\ phase >= 1 => ps2_clk_reg = 0
    BY <1>2 DEF PacketInv, Failed
  <2>2. /\ last_ps2_clk' = ps2_clk_reg /\ ps2_clk_reg' = devClk
    BY <1>0, <1>2 DEF HostEdge, Sample, PS2_CLK, HostClk, LinkTypeOK
  <2>3. Hold
    <3>1. device = "receive" => phase <= 3
      BY <1>0, <2>1, Timers DEF LinkTypeOK
    <3>2. \/ device = "idle"
          \/ device = "receive" /\ bit = 1 /\ devClk = 0 /\ phase <= 3
      BY <2>1, <3>1
    <3> QED  BY <1>0, <1>2, <2>1, <3>2, FailedMouse
  <2>4. UNCHANGED <<device, bit, devClk, streaming>>
    BY <2>3 DEF Hold, wires
  <2>5. CASE device = "idle"
    BY <2>1, <2>2, <2>4, <2>5 DEF Failed, High
  <2>6. CASE device = "receive"
    <3>1. phase' = phase + 1 /\ phase \in 0 .. MaxPhase
      BY <1>0, <2>3, <2>6, HoldInFrame DEF LinkTypeOK
    <3>2. transmitter' = "idle" \/ error_communication_timed_out = FALSE
      BY <1>0, <1>2 DEF HostEdge, Transmitter, send_command, Flags, StreamTypeOK
    <3>3. phase' <= IF transmitter' = "idle" THEN 3
                    ELSE IF error_communication_timed_out' THEN 2 ELSE 1
      BY <1>1, <1>2, <2>1, <2>6, <3>1, <3>2, Timers
    <3>4. phase' >= 1 /\ phase' # 0
      BY <3>1, Timers
    <3>5. ps2_clk_reg' = 0
      BY <2>1, <2>2, <2>6
    <3> QED  BY <2>1, <2>4, <2>6, <3>3, <3>4, <3>5 DEF Failed
  <2> QED  BY <2>1, <2>5, <2>6
<1>3. CASE transmitter # "error" /\ transmitter' = "error"
  <2>1. /\ transmitter = "wait" /\ streaming = FALSE
        /\ \/ /\ device = "idle" /\ devClk = 1 /\ phase >= 3
              /\ ps2_clk_reg = 1 /\ last_ps2_clk = 1
           \/ /\ device = "receive" /\ phase = 0 /\ devClk = 0 /\ bit = 1
              /\ ps2_clk_reg = 1 /\ last_ps2_clk = 1
    BY <1>0, <1>3, GivesUp
  <2>2. last_ps2_clk' = ps2_clk_reg /\ ps2_clk_reg' = devClk
    BY <1>0, <2>1 DEF HostEdge, Sample, PS2_CLK, HostClk, LinkTypeOK
  <2>3. CASE device = "idle"
    <3>0. pending = <<>> /\ devDat = 1
      BY <1>0, <2>1, <2>3 DEF Sleeping, StreamTypeOK
    <3>1. Hold \/ HearRequest
      BY <1>0, <2>1, <2>3, <3>0
         DEF Device, ReceiveFall, ReceiveRise, Acknowledge,
             ReleaseData, NewPacket, StartByte, SendFall, SendRise, Abort
    <3>2. High'
      BY <2>1, <2>2, <2>3 DEF High
    <3>3. CASE Hold
      <4>1. UNCHANGED <<device, bit, devClk, streaming>>
        BY <3>3 DEF Hold, wires
      <4> QED  BY <2>1, <2>3, <3>2, <4>1 DEF Failed
    <3>4. CASE HearRequest
      <4>1. /\ device' = "receive" /\ bit' = 1 /\ devClk' = 0 /\ phase' = 0
            /\ streaming' = FALSE
        BY <2>1, <3>4 DEF HearRequest, Moves
      <4> QED  BY <3>2, <4>1 DEF Failed
    <3> QED  BY <3>1, <3>3, <3>4
  <2>4. CASE device = "receive"
    <3>1. ~(phase >= MinPhase)
      BY <2>1, <2>4, Timers
    <3>2. Hold
      BY <1>0, <3>1 DEF Device, HearRequest, ReceiveFall, ReceiveRise,
           Acknowledge,
       ReleaseData, NewPacket, StartByte, SendFall, SendRise, Abort, Moves
    <3>3. phase' = 1 /\ UNCHANGED <<device, bit, devClk>> /\ streaming' = FALSE
      <4>1. phase' = phase + 1 /\ UNCHANGED <<device, bit, devClk>>
        BY <1>0, <2>4, <3>2, HoldInFrame
      <4> QED  BY <2>1, <2>4, <3>2, <4>1 DEF Hold
    <3>4. /\ ps2_clk_reg' = 0 /\ transmitter' # "idle"
          /\ ~error_communication_timed_out'
      BY <1>1, <1>3, <2>1, <2>2, <2>4
    <3> QED  BY <2>1, <2>4, <3>3, <3>4 DEF Failed
  <2> QED  BY <2>1, <2>3, <2>4
<1>4. CASE transmitter # "error" /\ transmitter' # "error"
  BY <1>1, <1>4 DEF Failed
<1> QED  BY <1>2, <1>3, <1>4

(* The idle cycle between two requests.                                    *)
LEMMA CalmStep ==
  ASSUME RealDevice, LinkInv, PacketInv, Cycle
  PROVE  Calm'
<1> SUFFICES ASSUME ~init_done', transmitter' = "idle"
             PROVE  High' \/ (ps2_clk_reg' = 0 /\ devClk' = 0)
  BY DEF Calm
<1>0. /\ LinkTypeOK /\ StreamTypeOK /\ Flags /\ HostEdge /\ Device /\ Sleeping
  BY DEF LinkInv, PacketInv, Cycle
<1>1. ~init_done /\ ~command_was_sent
  BY <1>0 DEF HostEdge
<1>2. \/ transmitter = "error"
      \/ transmitter = "idle" /\ error_communication_timed_out
  BY <1>0, <1>1
     DEF HostEdge, Transmitter, LinkTypeOK, Transferring, Flags, send_command
<1>3. CASE transmitter = "error"
  <2>1. error_communication_timed_out'
    BY <1>0, <1>3, FlagsStep
  <2>2. phase' \in Nat
    BY <1>0, DeviceTypes, Timers
  <2>3. \/ High'
        \/ /\ devClk' = 0 /\ (phase' = 0 => High')
           /\ phase' >= 1 => ps2_clk_reg' = 0
    BY <2>1, FailedStep DEF Failed
  <2> QED  BY <2>2, <2>3
<1>4. CASE transmitter = "idle" /\ error_communication_timed_out
  <2>1. /\ streaming = FALSE
        /\ \/ device = "idle" /\ devClk = 1 /\ High
           \/ device = "receive" /\ bit = 1 /\ devClk = 0 /\ phase <= 3
    BY <1>4 DEF PacketInv, Failed
  <2>2. /\ last_ps2_clk' = ps2_clk_reg /\ ps2_clk_reg' = devClk
    BY <1>0, <1>4 DEF HostEdge, Sample, PS2_CLK, HostClk, LinkTypeOK
  <2>3. Hold
    BY <1>0, <1>4, <2>1, FailedMouse
  <2>4. devClk' = devClk
    BY <2>3 DEF Hold, wires
  <2> QED  BY <2>1, <2>2, <2>4 DEF High
<1> QED  BY <1>2, <1>3, <1>4

(* The first cycles of a request.                                          *)
LEMMA HarmlessStep ==
  ASSUME RealDevice, LinkInv, PacketInv, Cycle
  PROVE  Harmless'
<1> SUFFICES ASSUME transmitter' = "initiate",
                    ps2_clk_reg' = 1, last_ps2_clk' = 0
             PROVE  ps2_data_reg' = 1 /\ transceiver' = "idle"
  BY DEF Harmless, ps2_clk_posedge
<1>0. /\ LinkTypeOK /\ StreamTypeOK /\ Flags /\ HostEdge
  BY DEF LinkInv, PacketInv, Cycle
<1>1. /\ last_ps2_clk' = ps2_clk_reg
      /\ ps2_clk_reg' = PS2_CLK /\ ps2_data_reg' = PS2_DAT
  BY <1>0 DEF HostEdge, Sample
<1>2. transmitter = "idle" /\ ~init_done
  <2>1. transmitter # "initiate"
    BY <1>1 DEF PS2_CLK, HostClk
  <2> QED
    BY <1>0, <2>1
       DEF HostEdge, Transmitter, LinkTypeOK, Transferring, send_command
<1>3. ps2_clk_reg = 0 /\ devClk = 1
  BY <1>0, <1>1, <1>2 DEF PS2_CLK, HostClk, LinkTypeOK
<1>4. devDat = 1 /\ transceiver = "idle"
  BY <1>2, <1>3 DEF PacketInv, Calm, High
<1>5. PS2_DAT = 1
  BY <1>2, <1>4 DEF PS2_DAT, HostDat
<1>6. transceiver' = "idle"
  BY <1>0, <1>3, <1>4 DEF HostEdge, Transceiver, ps2_clk_posedge
<1> QED  BY <1>1, <1>5, <1>6

(* How the host comes to wait, and to wait on.                             *)
LEMMA WaitBefore ==
  ASSUME LinkInv, PacketInv, HostEdge, transmitter' = "wait"
  PROVE  /\ ~init_done
         /\ \/ transmitter = "wait" /\ ~ps2_clk_negedge
               /\ waiting_counter # Cycles15ms
               /\ waiting_counter' = waiting_counter + 1
            \/ /\ transmitter = "initiate" /\ waiting_counter' = 0
               /\ device = "idle" /\ devClk = 1
               /\ ps2_clk_reg = 0 /\ last_ps2_clk = 0
               /\ ps2_clk_reg' = 0 /\ last_ps2_clk' = 0
<1>0. LinkTypeOK
  BY DEF LinkInv
<1>1. \/ /\ transmitter = "wait" /\ ~ps2_clk_negedge
         /\ waiting_counter # Cycles15ms
      \/ transmitter = "initiate" /\ command_initiate_counter = Cycles101us
  BY <1>0 DEF HostEdge, Transmitter, LinkTypeOK, Transferring
<1>2. ~init_done
  BY <1>1 DEF PacketInv, Flags
<1>3. CASE transmitter = "wait"
  BY <1>1, <1>2, <1>3 DEF HostEdge, Transmitter, Timer
<1>4. CASE transmitter = "initiate"
  <2>1. device = "idle" /\ devClk = 1
    BY <1>0, <1>4, StillRequesting
       DEF LinkInv, LinkTypeOK, Requesting, Transferring
  <2>2. ps2_clk_reg = 0 /\ last_ps2_clk = 0
    BY <1>1, <1>4, Timers DEF LinkInv, GivingUp
  <2>3. ps2_clk_reg' = 0 /\ last_ps2_clk' = 0
    BY <1>4, <2>2 DEF HostEdge, Sample, PS2_CLK, HostClk
  <2>4. waiting_counter' = 0
    BY <1>4 DEF HostEdge, Transmitter, Timer
  <2> QED  BY <1>2, <1>4, <2>1, <2>2, <2>3, <2>4
<1> QED  BY <1>1, <1>3, <1>4

(* A mouse whose clock is held does not send.                              *)
LEMMA InhibitedMouse ==
  ASSUME LinkTypeOK, Device, device = "idle", transmitter = "initiate"
  PROVE  /\ phase' = 0 /\ device' = "idle" /\ devClk' = 1
         /\ Hold \/ ReleaseData \/ NewPacket
<1>1. PS2_CLK = 0 /\ devClk = 1
  BY DEF PS2_CLK, HostClk, LinkTypeOK
<1>2. Hold \/ ReleaseData \/ NewPacket
  BY <1>1 DEF Device, HearRequest, Requested, ReceiveFall, ReceiveRise,
     Acknowledge, StartByte, LineFree, SendFall, SendRise, Abort
<1>3. phase' = 0
  BY <1>1, PhaseStep DEF Inhibited
<1> QED
  BY <1>1, <1>2, <1>3 DEF Hold, ReleaseData, NewPacket, wires

(* One that is asked does not either, and takes its time.                  *)
LEMMA AskedMouse ==
  ASSUME LinkTypeOK, Device, device = "idle", transmitter = "wait"
  PROVE  /\ Hold \/ ReleaseData \/ NewPacket \/ HearRequest
         /\ ~Hold => phase >= 4 /\ phase' = 0
<1>1. PS2_DAT = 0
  BY DEF PS2_DAT, HostDat, LinkTypeOK
<1>2. Hold \/ ReleaseData \/ NewPacket \/ HearRequest
  BY <1>1 DEF Device, ReceiveFall, ReceiveRise, Acknowledge, StartByte,
       LineFree,
     SendFall, SendRise, Abort
<1>3. ~Hold => phase >= MinPhase /\ phase' = 0
  BY <1>2 DEF ReleaseData, NewPacket, HearRequest, Moves
<1> QED  BY <1>2, <1>3, Timers DEF LinkTypeOK

(* A mouse that has just answered is in the first half of a bit.           *)
LEMMA WaitingFrame ==
  ASSUME LinkInv, transmitter = "wait", device = "receive"
  PROVE  /\ devClk = 0 /\ phase \in 0 .. 1 /\ bit = 1 /\ last_ps2_clk = 1
<1>1. Sampled /\ Followed /\ LinkTypeOK
  BY DEF LinkInv, InFrame, Requesting
<1>2. bit \in 1 .. 11 /\ devClk \in 0 .. 1 /\ phase \in Nat
  BY <1>1, Timers DEF LinkTypeOK
<1>3. ~Seen(bit)
  BY <1>2 DEF Seen
<1>4. devClk = 0 /\ phase <= 1 /\ Seen(bit - 1)
  BY <1>1, <1>3 DEF Followed
<1>5. bit = 1
  BY <1>2, <1>4 DEF Seen
<1> QED  BY <1>1, <1>2, <1>4, <1>5 DEF Sampled

(* The host lets go of the clock.                                          *)
LEMMA ReleasedStep ==
  ASSUME RealDevice, LinkInv, PacketInv, Cycle
  PROVE  Released'
<1> SUFFICES ASSUME transmitter' = "wait" PROVE Released'
  BY DEF Released
<1>0. /\ LinkTypeOK /\ StreamTypeOK /\ HostEdge /\ Device /\ MouseEdge
      /\ failures' = failures
  BY DEF LinkInv, PacketInv, Cycle
<1>1. PICK n \in 0 .. 6 : n = failures
  BY <1>0, FailuresBounded
<1>2. CASE transmitter = "initiate"
  <2>1. /\ ~init_done /\ device = "idle"
        /\ ps2_clk_reg = 0 /\ last_ps2_clk = 0 /\ ps2_clk_reg' = 0
    BY <1>0, <1>2, WaitBefore
  <2>2. device' = "idle"
    BY <1>0, <1>2, <2>1, InhibitedMouse
  <2>3. Before(n)
    BY <1>1, <1>2, <2>1 DEF PacketInv, Asking
  <2>4. Before(n)'
    BY <1>0, <2>1, <2>3, BeforeWaits DEF ps2_clk_posedge
  <2>5. Before(failures)'
    BY <1>0, <1>1, <2>4 DEF Before
  <2> QED  BY <2>1, <2>2, <2>5 DEF Released
<1>3. CASE transmitter = "wait" /\ device = "idle"
  <2>1. /\ ps2_clk_reg' = 1 /\ last_ps2_clk' = ps2_clk_reg /\ ps2_data_reg' = 0
        /\ ps2_clk_reg \in 0 .. 1 /\ last_ps2_clk \in 0 .. 1
        /\ phase \in Nat /\ phase' \in Nat
    <3>1. devClk = 1 /\ PS2_CLK = devClk /\ PS2_DAT = 0
      BY <1>0, <1>3 DEF PS2_CLK, HostClk, PS2_DAT, HostDat, LinkTypeOK
    <3>2. phase \in Nat /\ phase' \in Nat
      <4>1. phase \in 0 .. MaxPhase /\ phase' \in 0 .. MaxPhase
        BY <1>0, DeviceTypes DEF LinkTypeOK
      <4> QED  BY <4>1, Timers
    <3>3. /\ ps2_clk_reg' = 1 /\ last_ps2_clk' = ps2_clk_reg
          /\ ps2_data_reg' = 0
      BY <1>0, <3>1 DEF HostEdge, Sample
    <3> QED  BY <1>0, <3>2, <3>3 DEF LinkTypeOK
  <2>2. /\ phase >= 1 => ps2_clk_reg = 1
        /\ phase >= 2 => last_ps2_clk = 1
    BY <1>3 DEF LinkInv, Waiting
  <2>3. phase < 4 => device' = "idle" /\ phase' <= phase + 1
    <3>1. phase < 4 => Hold
      BY <1>0, <1>3, <2>1, AskedMouse
    <3> QED  BY <1>0, <1>3, <2>1, <3>1 DEF Hold, LinkTypeOK
  <2>4. CASE ps2_clk_reg = 0
    <3>1. device' = "idle"
      BY <2>1, <2>2, <2>3, <2>4
    <3>2. Before(n)
      BY <1>1, <1>3, <2>4 DEF PacketInv, Released
    <3>3. Before(n)'
      BY <1>0, <2>4, <3>2, BeforeWaits DEF ps2_clk_posedge
    <3>4. Before(failures)'
      BY <1>0, <1>1, <3>3 DEF Before
    <3> QED  BY <2>1, <2>4, <3>1, <3>4 DEF Released
  <2>5. CASE ps2_clk_reg = 1 /\ last_ps2_clk = 0
    <3>1. device' = "idle" /\ phase' < 3
      BY <2>1, <2>2, <2>3, <2>5
    <3>2. Before(n) /\ ps2_data_reg = 0
      BY <1>1, <1>3, <2>5 DEF PacketInv, Released
    <3>3. PICK k \in 0 .. n : Settled(k) /\ Counted(0)
      BY <3>2 DEF Before
    <3>4. /\ k \in 0 .. 10 /\ k + 1 \in 0 .. 10 /\ k # 10
          /\ k + 1 \in 1 .. n + 1
          /\ k + 1 = NextPosition(k, 0)
      BY <3>3 DEF NextPosition
    <3>5. At(k + 1)' /\ Counted(0)'
      <4>1. PICK j \in 0 .. 10 : j = k + 1 /\ j = NextPosition(k, 0)
        BY <3>4
      <4>2. At(j)' /\ Counted(0)'
        BY <1>0, <2>5, <3>2, <3>3, <3>4, <4>1, EdgeMoves, SmallNumbers
           DEF ps2_clk_posedge
      <4> QED  BY <4>1, <4>2
    <3>6. \E m \in 1 .. failures' + 1 : At(m)' /\ Counted(0)'
      BY <1>0, <1>1, <3>4, <3>5
    <3>7. ~(device' = "receive" \/ phase' >= 3)
      BY <2>1, <3>1
    <3> QED  BY <2>1, <2>5, <3>6, <3>7 DEF Released
  <2>6. CASE ps2_clk_reg = 1 /\ last_ps2_clk = 1
    <3>1. \E k \in 1 .. failures + 1 : At(k) /\ Counted(0)
      BY <1>3, <2>6 DEF PacketInv, Released
    <3>2. PICK k \in 1 .. n + 1 : At(k) /\ Counted(0)
      BY <1>1, <3>1
    <3>3. k \in 0 .. 10
      BY <3>2
    <3>4. At(k)' /\ Counted(0)' /\ ~Unsettled'
      <4>1. ~ps2_clk_posedge
        BY <2>6 DEF ps2_clk_posedge
      <4> QED  BY <1>0, <3>2, <3>3, <4>1, EdgeWaits, SmallNumbers
    <3>5. \E m \in 1 .. failures' + 1 : At(m)' /\ Counted(0)'
      BY <1>0, <1>1, <3>2, <3>4
    <3> QED  BY <2>1, <2>6, <3>4, <3>5 DEF Released
  <2> QED  BY <2>1, <2>4, <2>5, <2>6
<1>4. CASE transmitter = "wait" /\ device = "receive"
  <2>1. device' = "receive"
    BY <1>0, <1>4, FrameGoesOn DEF Requesting
  <2>2. ~ps2_clk_posedge
    BY <1>4, WaitingFrame DEF ps2_clk_posedge
  <2>3. /\ \E k \in 1 .. failures + 1 : At(k) /\ Counted(0)
        /\ ~Unsettled
    BY <1>4 DEF PacketInv, Released
  <2>4. PICK k \in 1 .. n + 1 : At(k) /\ Counted(0)
    BY <1>1, <2>3
  <2>5. k \in 0 .. 10
    BY <2>4
  <2>6. At(k)' /\ Counted(0)' /\ ~Unsettled'
    BY <1>0, <2>2, <2>4, <2>5, EdgeWaits, SmallNumbers
  <2>7. \E m \in 1 .. failures' + 1 : At(m)' /\ Counted(0)'
    BY <1>0, <1>1, <2>4, <2>6
  <2> QED  BY <2>1, <2>6, <2>7 DEF Released
<1>5. \/ transmitter = "initiate"
      \/ transmitter = "wait" /\ device = "idle"
      \/ transmitter = "wait" /\ device = "receive"
  BY <1>0, WaitBefore DEF LinkInv, Together, LinkTypeOK
<1> QED  BY <1>2, <1>3, <1>4, <1>5

(* The mouse's phase grows with the host's timer.                          *)
LEMMA PatientStep ==
  ASSUME RealDevice, LinkInv, PacketInv, Cycle
  PROVE  Patient'
<1> SUFFICES ASSUME transmitter' = "wait", device' = "idle", streaming' = FALSE
             PROVE  phase' >= 3 \/ phase' >= waiting_counter'
  BY DEF Patient
<1>0. /\ LinkTypeOK /\ StreamTypeOK /\ HostEdge /\ Device /\ Sleeping
  BY DEF LinkInv, PacketInv, Cycle
<1>1. phase \in 0 .. MaxPhase /\ phase' \in 0 .. MaxPhase
  BY <1>0, DeviceTypes DEF LinkTypeOK
<1>2. CASE transmitter = "initiate"
  BY <1>0, <1>1, <1>2, WaitBefore, Timers
<1>3. CASE transmitter = "wait"
  <2>1. device = "idle" /\ devClk = 1
    BY <1>0, <1>3, FrameGoesOn DEF LinkInv, Together, LinkTypeOK, Requesting
  <2>2. streaming = FALSE /\ pending = <<>> /\ devDat = 1
    <3>1. streaming = FALSE
      BY <1>0, <1>3, <2>1, AskedMouse DEF Hold, ReleaseData, NewPacket,
           HearRequest
    <3> QED  BY <1>0, <2>1, <3>1 DEF Sleeping, StreamTypeOK
  <2>3. Hold
    BY <1>0, <1>3, <2>1, <2>2, AskedMouse DEF ReleaseData, NewPacket,
         HearRequest
  <2>4. ~Inhibited
    BY <1>3, <2>1 DEF Inhibited, PS2_CLK, HostClk
  <2>5. phase' = IF phase < MaxPhase THEN phase + 1 ELSE phase
    BY <2>3, <2>4 DEF Hold
  <2>6. phase >= 3 \/ phase >= waiting_counter
    BY <1>3, <2>1, <2>2 DEF PacketInv, Patient
  <2>7. waiting_counter' = waiting_counter + 1 /\ waiting_counter \in Nat
    BY <1>0, <1>3, WaitBefore DEF StreamTypeOK
  <2> QED  BY <1>1, <2>5, <2>6, <2>7, Timers
<1> QED  BY <1>0, <1>2, <1>3, WaitBefore

(* The arithmetic of the bound on waiting, m the longest phase.            *)
LEMMA WaitBounds ==
  ASSUME NEW m \in Nat, NEW p \in 0 .. m, NEW q \in 0 .. m, NEW w \in Nat
  PROVE  /\ 0 <= 2 * m + 2 + q /\ 0 <= q + m + 1 /\ 0 <= q
         /\ w <= p => w + 1 <= q + m + 1
         /\ w <= p => w <= p + m + 1
         /\ w <= p + m + 1 => w + 1 <= 2 * m + 2 + q
  OBVIOUS

(* The mouse answers within two phases.                                    *)
LEMMA AnsweredStep ==
  ASSUME RealDevice, LinkInv, PacketInv, Cycle
  PROVE  Answered'
<1>a. streaming' \in BOOLEAN
  BY StreamTypesStep DEF StreamTypeOK, StreamNext
<1> SUFFICES ASSUME transmitter' = "wait",
                    streaming' = TRUE \/ failures' = MaxFailures
             PROVE  waiting_counter' <=
                      IF device' = "receive" THEN 2 * MaxPhase + 2 + phase'
                      ELSE IF devDat' = 0 \/ pending' = <<>> THEN phase'
                      ELSE phase' + MaxPhase + 1
  BY <1>a DEF Answered
<1>0. /\ LinkTypeOK /\ StreamTypeOK /\ HostEdge /\ Device /\ Sleeping
      /\ failures' = failures
  BY DEF LinkInv, PacketInv, Cycle
<1>1. phase \in 0 .. MaxPhase /\ phase' \in 0 .. MaxPhase
  BY <1>0, DeviceTypes DEF LinkTypeOK
<1>m. MaxPhase \in Nat
  BY Timers
<1>2. CASE transmitter = "initiate"
  <2>1. waiting_counter' = 0
    BY <1>0, <1>2, WaitBefore
  <2>2. /\ waiting_counter' <= 2 * MaxPhase + 2 + phase'
        /\ waiting_counter' <= phase' + MaxPhase + 1
        /\ waiting_counter' <= phase'
    BY <1>1, <1>m, <2>1, WaitBounds
  <2> QED  BY <2>2
<1>3. CASE transmitter = "wait"
  <2>1. waiting_counter' = waiting_counter + 1 /\ waiting_counter \in Nat
    BY <1>0, <1>3, WaitBefore DEF StreamTypeOK
  <2>2. CASE device = "receive"
    <3>1. devClk = 0 /\ phase \in 0 .. 1
      BY <1>3, <2>2, WaitingFrame
    <3>2. ~(phase >= MinPhase)
      BY <3>1, Timers
    <3>3. Hold
      BY <1>0, <3>2 DEF Device, HearRequest, ReceiveFall, ReceiveRise,
           Acknowledge,
       ReleaseData, NewPacket, StartByte, SendFall, SendRise, Abort, Moves
    <3>4. phase' = phase + 1 /\ device' = "receive"
      BY <1>0, <2>2, <3>3, HoldInFrame
    <3>5. streaming' = streaming
      BY <3>3 DEF Hold
    <3>6. waiting_counter <= 2 * MaxPhase + 2 + phase
      BY <1>0, <1>3, <2>2, <3>5 DEF PacketInv, Answered
    <3> QED  BY <1>1, <2>1, <3>4, <3>6, Timers
  <2>3. CASE device = "idle"
    <3>0. devClk = 1 /\ ~Inhibited
      BY <1>0, <1>3, <2>3 DEF LinkTypeOK, Inhibited, PS2_CLK, HostClk
    <3>1. Hold \/ ReleaseData \/ NewPacket \/ HearRequest
      BY <1>0, <1>3, <2>3, AskedMouse
    <3>2. streaming' = streaming
      BY <3>1 DEF Hold, ReleaseData, NewPacket, HearRequest
    <3>3. /\ devDat = 0 \/ pending = <<>> => waiting_counter <= phase
          /\ ~(devDat = 0 \/ pending = <<>>) =>
               waiting_counter <= phase + MaxPhase + 1
      BY <1>0, <1>3, <2>3, <3>2 DEF PacketInv, Answered
    <3>4. CASE Hold
      <4>1. awake
        BY <1>0, <1>3, <3>2 DEF Sleeping, StreamTypeOK
      <4>2. devDat = 0 \/ Requested
        BY <1>0, <1>3, <3>0 DEF StreamTypeOK, Requested, PS2_CLK, HostClk,
             PS2_DAT, HostDat
      <4>3. phase < MaxPhase
        BY <3>4, <4>1, <4>2 DEF Hold, HasWork
      <4>4. phase' = phase + 1 /\ UNCHANGED <<device, devDat, pending>>
        BY <3>0, <3>4, <4>3 DEF Hold, wires
      <4> QED  BY <1>1, <2>1, <2>3, <3>3, <4>4, Timers
    <3>5. CASE HearRequest
      <4>1. device' = "receive"
        BY <3>5 DEF HearRequest
      <4>2. waiting_counter <= phase + MaxPhase + 1
        BY <1>1, <1>m, <2>1, <3>3, WaitBounds
      <4>3. waiting_counter' <= 2 * MaxPhase + 2 + phase'
        BY <1>1, <1>m, <2>1, <4>2, WaitBounds
      <4> QED  BY <4>1, <4>3
    <3>6. CASE ReleaseData
      <4>1. devDat = 0 /\ devDat' = 1 /\ pending' = pending /\ device' = "idle"
        BY <3>6, <2>3 DEF ReleaseData
      <4>2. pending' # <<>>
        BY <1>0, <2>3, <4>1 DEF Sleeping
      <4>3. waiting_counter <= phase
        BY <3>3, <4>1
      <4>4. waiting_counter' <= phase' + MaxPhase + 1
        BY <1>1, <1>m, <2>1, <4>3, WaitBounds
      <4> QED  BY <4>1, <4>2, <4>4
    <3>7. CASE NewPacket
      <4>1. /\ pending = <<>> /\ pending' = Packet
            /\ devDat' = devDat /\ device' = "idle"
        BY <3>7, <2>3 DEF NewPacket, wires
      <4>2. devDat' # 0 /\ pending' # <<>>
        BY <1>0, <2>3, <4>1 DEF Sleeping, Packet
      <4>3. waiting_counter <= phase
        BY <3>3, <4>1
      <4>4. waiting_counter' <= phase' + MaxPhase + 1
        BY <1>1, <1>m, <2>1, <4>3, WaitBounds
      <4> QED  BY <4>1, <4>2, <4>4
    <3> QED  BY <3>1, <3>4, <3>5, <3>6, <3>7
  <2> QED  BY <1>0, <1>3, <2>2, <2>3 DEF LinkInv, Together, LinkTypeOK
<1> QED  BY <1>0, <1>2, <1>3, WaitBefore

(* Nothing moves before four cycles of a phase are over.                   *)
LEMMA ShortPhase ==
  ASSUME Device, phase \in 0 .. 3
  PROVE  Hold
<1>1. ~(phase >= MinPhase)
  BY Timers
<1> QED
  BY <1>1 DEF Device, HearRequest, ReceiveFall, ReceiveRise, Acknowledge,
     ReleaseData, NewPacket, StartByte, SendFall, SendRise, Abort, Moves

(* The arithmetic of the bits that the receiver has seen.                  *)
LEMMA RisesValue ==
  ASSUME NEW b \in 1 .. 11, NEW c \in 0 .. 1, c = 1 => b \in 1 .. 10,
         NEW p, NEW l, l = IF c = 1 /\ p \in 0 .. 1 THEN 1 ELSE 0,
         NEW r, r = b - 1 + c - l
  PROVE  /\ r \in 0 .. 10
         /\ c = 0 \/ (c = 1 /\ p \in 0 .. 1) => r = b - 1
         /\ c = 1 /\ ~(p \in 0 .. 1) => r = b
  OBVIOUS

(* The same for the frame of the host.                                     *)
LEMMA FrameNumbers ==
  ASSUME LinkTypeOK, device = "receive"
  PROVE  /\ bit \in 1 .. 11 /\ devClk \in 0 .. 1 /\ phase \in 0 .. MaxPhase
         /\ devClk = 1 => bit \in 1 .. 10
         /\ Rises \in 0 .. 10
         /\ devClk = 0 \/ (devClk = 1 /\ phase \in 0 .. 1) => Rises = bit - 1
         /\ devClk = 1 /\ ~(phase \in 0 .. 1) => Rises = bit
<1>1. /\ bit \in 1 .. 11 /\ devClk \in 0 .. 1 /\ phase \in 0 .. MaxPhase
      /\ devClk = 1 => bit \in 1 .. 10
  BY DEF LinkTypeOK
<1>2. Delay = IF devClk = 1 /\ phase \in 0 .. 1 THEN 1 ELSE 0
  BY <1>1, Timers DEF Delay
<1> QED  BY <1>1, <1>2 DEF Rises

(* The data line carries the bit that the host is at.                      *)
LEMMA CommandOnWire ==
  ASSUME LinkTypeOK, HostEdge, Followed, NEW n \in 1 .. 10, n = bit,
         devClk = 1, devDat = 1
  PROVE  ps2_data_reg' = CommandData(n)
<1>1. Seen(n)
  BY DEF Followed
<1>2. ps2_data_reg' = PS2_DAT
  BY DEF HostEdge, Sample
<1>3. CASE n = 10
  BY <1>1, <1>2, <1>3 DEF Seen, PS2_DAT, HostDat, CommandData
<1>4. CASE n \in 1 .. 9
  <2>1. transmitter = "transmit" /\ cur_bit = n - 1
    BY <1>1, <1>4 DEF Seen
  <2>2. CommandBit(n - 1) \in 0 .. 1 /\ CommandData(n) = CommandBit(n - 1)
    BY <1>4, CommandBits DEF CommandData
  <2> QED  BY <1>2, <2>1, <2>2 DEF PS2_DAT, HostDat
<1> QED  BY <1>3, <1>4

(* The receiver listens to the host's own command.                         *)
LEMMA InCommandStep ==
  ASSUME RealDevice, LinkInv, LinkInv', PacketInv, Cycle
  PROVE  InCommand'
<1> SUFFICES ASSUME device' = "receive", transmitter' \in Transferring
             PROVE  /\ CommandTaken(Rises)'
                    /\ Unsettled' => devClk' = 1 /\ phase' = 2
                    /\ devClk' = 1 /\ phase' = 1 =>
                         ps2_data_reg' = CommandData(bit')
  BY DEF InCommand
<1>0. /\ LinkTypeOK /\ LinkTypeOK' /\ StreamTypeOK
      /\ HostEdge /\ Device /\ MouseEdge
  BY DEF LinkInv, PacketInv, Cycle
<1>1. device = "receive"
  <2> SUFFICES ASSUME HearRequest PROVE FALSE
    BY <1>0, FrameStarts
  <2>1. transmitter = "wait"
    BY AskedWhileWaiting
  <2>2. device = "idle" /\ phase >= 2
    BY <1>0, Timers DEF HearRequest, Moves, LinkTypeOK
  <2>3. ps2_clk_reg = 1
    BY <1>0, <2>1, <2>2, Timers DEF LinkInv, Waiting, LinkTypeOK
  <2> QED
    BY <1>0, <2>1, <2>3
       DEF HostEdge, Transmitter, ps2_clk_negedge, Transferring
<1>2. Requesting
  BY <1>0, <1>1, StillRequesting DEF LinkInv, Requesting
<1>3. Sampled /\ Followed /\ (bit <= 10 => devDat = 1)
  BY <1>1, <1>2 DEF LinkInv, InFrame
<1>4. /\ bit \in 1 .. 11 /\ devClk \in 0 .. 1 /\ phase \in 0 .. MaxPhase
      /\ devClk = 1 => bit \in 1 .. 10
      /\ Rises \in 0 .. 10
      /\ devClk = 0 \/ (devClk = 1 /\ phase \in 0 .. 1) => Rises = bit - 1
      /\ devClk = 1 /\ ~(phase \in 0 .. 1) => Rises = bit
  BY <1>0, <1>1, FrameNumbers
<1>5. /\ bit' \in 1 .. 11 /\ devClk' \in 0 .. 1 /\ phase' \in 0 .. MaxPhase
      /\ devClk' = 1 => bit' \in 1 .. 10
      /\ Rises' \in 0 .. 10
      /\ devClk' = 0 \/ (devClk' = 1 /\ phase' \in 0 .. 1) => Rises' = bit' - 1
      /\ devClk' = 1 /\ ~(phase' \in 0 .. 1) => Rises' = bit'
  <2>1. /\ bit' \in 1 .. 11 /\ devClk' \in 0 .. 1 /\ phase' \in 0 .. MaxPhase
        /\ devClk' = 1 => bit' \in 1 .. 10
    BY <1>0 DEF LinkTypeOK
  <2>2. Delay' = IF devClk' = 1 /\ phase' \in 0 .. 1 THEN 1 ELSE 0
    BY <2>1, Timers DEF Delay
  <2>3. Rises' = bit' - 1 + devClk' - Delay'
    BY DEF Rises
  <2>4. PICK b \in 1 .. 11, c \in 0 .. 1 : b = bit' /\ c = devClk'
    BY <2>1
  <2>5. PICK p, l, r : p = phase' /\ l = Delay' /\ r = Rises'
    OBVIOUS
  <2>6. /\ c = 1 => b \in 1 .. 10
        /\ l = IF c = 1 /\ p \in 0 .. 1 THEN 1 ELSE 0
        /\ r = b - 1 + c - l
    BY <2>1, <2>2, <2>3, <2>4, <2>5
  <2>7. /\ r \in 0 .. 10
        /\ c = 0 \/ (c = 1 /\ p \in 0 .. 1) => r = b - 1
        /\ c = 1 /\ ~(p \in 0 .. 1) => r = b
    BY <2>6, RisesValue
  <2> QED  BY <2>1, <2>4, <2>5, <2>7
<1>6. CASE transmitter = "wait"
  <2>1. devClk = 0 /\ phase \in 0 .. 1 /\ bit = 1 /\ last_ps2_clk = 1
    BY <1>1, <1>6, WaitingFrame
  <2>2. phase = 1
    <3>1. PICK n \in 1 .. 11 : n = bit
      BY <1>4
    <3>2. phase = 0 => Seen(0)' \/ transmitter' = "error"
      BY <1>0, <1>1, <1>2, <2>1, <3>1, HostFollows DEF LinkInv
    <3> QED  BY <2>1, <3>2 DEF Seen, Transferring
  <2>3. phase' = 2 /\ bit' = 1 /\ devClk' = 0
    <3>1. Hold
      BY <1>0, <2>1, ShortPhase
    <3> QED  BY <1>0, <1>1, <2>1, <2>2, <3>1, HoldInFrame
  <2>4. ~ps2_clk_posedge
    BY <2>1 DEF ps2_clk_posedge
  <2>5. \E k \in 1 .. failures + 1 : At(k) /\ Counted(0)
    BY <1>1, <1>6 DEF PacketInv, Released
  <2>6. PICK k \in 1 .. 7 : At(k) /\ Counted(0)
    <3>1. failures \in 0 .. 6
      BY <1>0, FailuresBounded
    <3> QED  BY <2>5, <3>1
  <2>7. k \in 0 .. 10
    BY <2>6
  <2>8. At(k)' /\ Counted(0)' /\ ~Unsettled'
    BY <1>0, <2>4, <2>6, <2>7, EdgeWaits, SmallNumbers
  <2>9. Rises' = 0
    BY <1>5, <2>3
  <2>10. CommandTaken(Rises)'
    <3>1. k \in 0 + 1 .. 0 + 7 /\ k <= 10
      BY <2>6
    <3> QED  BY <2>8, <2>9, <3>1 DEF CommandTaken
  <2> QED  BY <2>3, <2>8, <2>10
<1>7. CASE transmitter \in Transferring
  <2>1. /\ CommandTaken(Rises)
        /\ Unsettled => devClk = 1 /\ phase = 2
        /\ devClk = 1 /\ phase = 1 => ps2_data_reg = CommandData(bit)
    BY <1>1, <1>7 DEF PacketInv, InCommand
  <2>2. PICK r \in 0 .. 10 : r = Rises
    BY <1>4
  <2>3. CommandTaken(r)
    BY <2>1, <2>2
  <2>4. CASE devClk = 1 /\ phase = 1
    <3>1. ps2_clk_posedge
      BY <1>3, <2>4 DEF Sampled, ps2_clk_posedge
    <3>2. Hold
      BY <1>0, <1>4, <2>4, ShortPhase
    <3>3. phase' = 2 /\ devClk' = 1 /\ bit' = bit
      BY <1>0, <1>1, <2>4, <3>2, HoldInFrame
    <3>4. r = bit - 1 /\ Rises' = r + 1 /\ r + 1 = bit
      BY <1>4, <1>5, <2>2, <2>4, <3>3
    <3>5. ps2_data_reg = CommandData(r + 1) /\ ~Unsettled
      BY <2>1, <2>4, <3>4
    <3>6. CommandTaken(r + 1)'
      BY <1>0, <2>3, <3>1, <3>5, CommandMoves
    <3>7. CommandTaken(Rises)'
      BY <3>4, <3>6
    <3> QED  BY <3>3, <3>7
  <2>5. CASE ~(devClk = 1 /\ phase = 1)
    <3>1. ~ps2_clk_posedge
      <4>1. CASE phase = 0
        BY <1>3, <1>4, <4>1 DEF Sampled, ps2_clk_posedge
      <4>2. CASE phase = 1
        BY <1>3, <1>4, <2>5, <4>2 DEF Sampled, ps2_clk_posedge
      <4>3. CASE phase >= 2
        BY <1>3, <1>4, <4>3 DEF Sampled, ps2_clk_posedge
      <4> QED  BY <1>4, <4>1, <4>2, <4>3, Timers
    <3>2. CommandTaken(r)' /\ ~Unsettled'
      <4>1. r \in 0 .. 11
        OBVIOUS
      <4> QED  BY <1>0, <2>3, <3>1, <4>1, CommandWaits
    <3>3. Rises' = r
      <4>1. CASE Hold
        <5>1. phase' = phase + 1 /\ devClk' = devClk /\ bit' = bit
          BY <1>0, <1>1, <4>1, HoldInFrame
        <5> QED  BY <1>4, <1>5, <2>2, <2>5, <5>1, Timers
      <4>2. CASE ReceiveFall
        <5>1. devClk = 1 /\ devClk' = 0 /\ bit' = bit + 1 /\ phase >= MinPhase
          BY <4>2 DEF ReceiveFall, Moves
        <5>2. ~(phase \in 0 .. 1)
          BY <5>1, Timers
        <5> QED  BY <1>4, <1>5, <2>2, <5>1, <5>2
      <4>3. CASE ReceiveRise
        <5>1. devClk = 0 /\ devClk' = 1 /\ bit' = bit /\ phase' = 0
          BY <4>3 DEF ReceiveRise, Moves
        <5> QED  BY <1>4, <1>5, <2>2, <5>1
      <4> QED  BY <1>0, <1>1, <4>1, <4>2, <4>3, FrameStep
    <3>4. devClk' = 1 /\ phase' = 1 => ps2_data_reg' = CommandData(bit')
      <4> SUFFICES ASSUME devClk' = 1, phase' = 1
                   PROVE  ps2_data_reg' = CommandData(bit')
        OBVIOUS
      <4>1. Hold
        BY <1>0, <1>1, FrameStep DEF ReceiveFall, ReceiveRise, Moves
      <4>2. devClk = 1 /\ bit' = bit
        BY <1>0, <1>1, <4>1, HoldInFrame
      <4>3. PICK n \in 1 .. 10 : n = bit
        BY <1>4, <4>2
      <4>4. devDat = 1
        BY <1>3, <4>3
      <4> QED  BY <1>0, <1>3, <4>2, <4>3, <4>4, CommandOnWire
    <3>5. CommandTaken(Rises)'
      BY <3>2, <3>3
    <3> QED  BY <3>2, <3>4, <3>5
  <2> QED  BY <2>4, <2>5
<1> QED  BY <1>2, <1>6, <1>7 DEF Requesting

(* The end of the host's frame.                                            *)
LEMMA AckedStep ==
  ASSUME RealDevice, LinkInv, LinkInv', PacketInv, Cycle
  PROVE  Acked'
<1> SUFFICES ASSUME device' # "receive", transmitter' = "ack"
             PROVE  /\ device' = "idle" /\ phase' <= 1 /\ pending' = <<Ack>>
                    /\ ps2_clk_reg' = phase' /\ last_ps2_clk' = 0
                    /\ phase' = 0 => transfer_counter' < Cycles2ms
                    /\ CommandTaken(10)' /\ ~Unsettled'
  BY DEF Acked
<1>0. /\ LinkTypeOK /\ LinkTypeOK' /\ StreamTypeOK
      /\ HostEdge /\ Device /\ MouseEdge
  BY DEF LinkInv, PacketInv, Cycle
<1>1. transmitter = "ack" /\ ~ps2_clk_posedge
  <2>1. \/ transmitter = "ack" /\ ~ps2_clk_posedge
        \/ transmitter = "stop"
    BY <1>0 DEF HostEdge, Transmitter, LinkTypeOK, Transferring
  <2>2. transmitter = "stop" => device' = "receive"
    BY <1>0, FrameGoesOn DEF LinkInv, Together, Requesting, Transferring
  <2> QED  BY <2>1, <2>2
<1>2. PS2_CLK = devClk /\ last_ps2_clk' = ps2_clk_reg /\ ps2_clk_reg' = devClk
  BY <1>0, <1>1 DEF HostEdge, Sample, PS2_CLK, HostClk, LinkTypeOK
<1>3. ~Inhibited
  BY <1>2 DEF Inhibited
<1>4. CASE device = "receive"
  <2>1. Requesting /\ transmitter \in Transferring
    BY <1>1 DEF Requesting, Transferring
  <2>2. Sampled /\ InTime
    BY <1>4, <2>1 DEF LinkInv, InFrame
  <2>3. Acknowledge
    <3>1. ~Abort
      BY <1>3 DEF Abort
    <3> QED
      BY <1>0, <1>4, <3>1 DEF Device, Hold, HearRequest, ReceiveFall,
           ReceiveRise,
         ReleaseData, NewPacket, StartByte, SendFall, SendRise
  <2>4. /\ devClk = 0 /\ bit = 11 /\ phase >= MinPhase
        /\ device' = "idle" /\ devClk' = 1 /\ phase' = 0 /\ pending' = <<Ack>>
    BY <2>3 DEF Acknowledge, Moves
  <2>5. phase >= 2 /\ phase \in 0 .. MaxPhase
    BY <1>0, <2>4, Timers DEF LinkTypeOK
  <2>6. ps2_clk_reg = 0
    BY <2>2, <2>4, <2>5 DEF Sampled
  <2>7. CommandTaken(10)
    <3>1. Rises = 10
      BY <2>4 DEF Rises, Delay
    <3> QED  BY <1>4, <2>1, <3>1 DEF PacketInv, InCommand
  <2>8. CommandTaken(10)' /\ ~Unsettled'
    <3>1. 10 \in 0 .. 11
      OBVIOUS
    <3> QED  BY <1>0, <1>1, <2>7, <3>1, CommandWaits
  <2>9. transfer_counter' < Cycles2ms
    <3>1. transfer_counter <= 20 * (MaxPhase + 1) + phase
      BY <1>1, <2>2, <2>4 DEF InTime
    <3>2. 20 * (MaxPhase + 1) + MaxPhase + 1 < Cycles2ms
      BY Timers
    <3>3. \/ transfer_counter' = transfer_counter + 1
          \/ transfer_counter' = transfer_counter
      BY <1>0, <2>1 DEF HostEdge, Transmitter, Timer
    <3> QED  BY <1>0, <2>5, <3>1, <3>2, <3>3, Timers DEF LinkTypeOK
  <2> QED  BY <1>2, <2>4, <2>6, <2>8, <2>9
<1>5. CASE device # "receive"
  <2>1. /\ device = "idle" /\ phase <= 1 /\ pending = <<Ack>>
        /\ ps2_clk_reg = phase /\ last_ps2_clk = 0
        /\ CommandTaken(10) /\ ~Unsettled
    BY <1>1, <1>5 DEF PacketInv, Acked
  <2>2. phase = 0
    BY <1>0, <1>1, <2>1 DEF LinkTypeOK, ps2_clk_posedge
  <2>3. Hold
    BY <1>0, <2>2, ShortPhase
  <2>4. phase' = 1 /\ device' = "idle" /\ pending' = <<Ack>>
    BY <1>3, <2>1, <2>2, <2>3, Timers DEF Hold
  <2>5. devClk = 1
    BY <1>0, <2>1 DEF LinkTypeOK
  <2>6. CommandTaken(10)' /\ ~Unsettled'
    <3>1. 10 \in 0 .. 11
      OBVIOUS
    <3> QED  BY <1>0, <1>1, <2>1, <3>1, CommandWaits
  <2> QED  BY <1>2, <2>1, <2>2, <2>4, <2>5, <2>6
<1> QED  BY <1>4, <1>5

(* The host has the acknowledge: the receiver is at most three bits into   *)
(* a frame of the answer.                                                  *)
LEMMA StreamsStart ==
  ASSUME RealDevice, LinkInv, PacketInv, Cycle,
         transmitter = "ack", ps2_clk_posedge
  PROVE  streaming' = TRUE /\ device' = "idle" /\ BetweenBytes'
<1>0. /\ LinkTypeOK /\ StreamTypeOK /\ Sleeping
      /\ HostEdge /\ Device /\ MouseEdge
  BY DEF LinkInv, PacketInv, Cycle
<1>1. device # "receive"
  <2> SUFFICES ASSUME device = "receive" PROVE FALSE
    OBVIOUS
  <2>1. Sampled /\ Followed
    BY DEF LinkInv, InFrame, Requesting, Transferring
  <2>2. devClk = 1 /\ bit \in 1 .. 10
    BY <1>0, <2>1 DEF Sampled, ps2_clk_posedge, LinkTypeOK
  <2> QED
    BY <2>1, <2>2 DEF Followed, Seen
<1>2. /\ device = "idle" /\ phase <= 1 /\ pending = <<Ack>>
      /\ ps2_clk_reg = phase /\ last_ps2_clk = 0
      /\ CommandTaken(10) /\ ~Unsettled
  BY <1>1 DEF PacketInv, Acked
<1>3. phase = 1 /\ devClk = 1 /\ ps2_clk_reg = 1
  BY <1>0, <1>2 DEF LinkTypeOK, ps2_clk_posedge
<1>4. Hold
  BY <1>0, <1>3, ShortPhase
<1>5. PS2_CLK = 1
  BY <1>3 DEF PS2_CLK, HostClk
<1>6. High'
  BY <1>0, <1>3, <1>5 DEF HostEdge, Sample, High
<1>7. /\ phase' = 2 /\ pending' = <<Ack>> /\ device' = "idle"
      /\ streaming' = streaming
  BY <1>2, <1>3, <1>4, <1>5, Timers DEF Hold, Inhibited
<1>8. streaming = TRUE
  BY <1>0, <1>2 DEF Sleeping, StreamTypeOK
<1>9. CommandTaken(10 + 1)'
  <2>1. 10 \in 0 .. 10 /\ ~(10 <= 9)
    OBVIOUS
  <2> QED  BY <1>0, <1>2, <2>1, CommandMoves
<1>10. \E k \in {0, 1, 3} : At(k)' /\ Counted(1)'
  <2>1. PICK r \in {11} : CommandTaken(r)'
    BY <1>9
  <2>2. \/ At(0)' /\ Counted(1)'
        \/ At(r - 8)' /\ Counted(1)'
        \/ At(1)' /\ Counted(1)'
    BY <2>1 DEF CommandTaken
  <2>3. r - 8 = 3
    OBVIOUS
  <2> QED  BY <2>2, <2>3
<1>11. Sending(0)'
  <2>1. PICK k \in {0, 1, 3} : At(k)' /\ Counted(1)'
    BY <1>10
  <2>2. k \in {0, 0 + 1, 0 + 3} /\ k <= 10
    OBVIOUS
  <2> QED  BY <1>7, <2>1, <2>2 DEF Sending
<1> QED  BY <1>6, <1>7, <1>8, <1>11 DEF BetweenBytes

(* A host that is done leaves both wires to the mouse.                     *)
LEMMA QuietHost ==
  ASSUME LinkTypeOK, HostEdge, transmitter \in {"idle", "sent"}
  PROVE  /\ ps2_clk_reg' = devClk /\ last_ps2_clk' = ps2_clk_reg
         /\ ps2_data_reg' = devDat
         /\ ~Inhibited /\ ~Requested
<1>1. HostClk = 1 /\ HostDat = 1
  BY DEF HostClk, HostDat
<1>2. PS2_CLK = devClk /\ PS2_DAT = devDat
  BY <1>1 DEF PS2_CLK, PS2_DAT
<1> QED
  BY <1>2 DEF HostEdge, Sample, Inhibited, Requested

(* Between two bytes.                                                      *)
LEMMA StillQuiet ==
  ASSUME RealDevice, LinkTypeOK, StreamTypeOK, HostEdge, MouseEdge, Device,
         transmitter \in {"idle", "sent"}, device = "idle", streaming = TRUE,
         High, Sending(0), Unsettled => phase = 2
  PROVE  /\ streaming' = TRUE
         /\ \/ device' = "idle" /\ BetweenBytes'
            \/ device' = "send" /\ InByte'
<1>1. devClk = 1 /\ phase \in 0 .. MaxPhase
  BY DEF LinkTypeOK
<1>2. High' /\ ~Inhibited /\ ~Requested /\ ~ps2_clk_posedge
  BY <1>1, QuietHost DEF High, ps2_clk_posedge
<1>3. ASSUME pending' = pending
      PROVE  Sending(0)' /\ ~Unsettled'
  BY <1>2, <1>3, SendingWaits, SmallNumbers
<1>4. CASE Hold \/ ReleaseData
  <2>1. pending' = pending /\ device' = "idle" /\ streaming' = TRUE
    BY <1>4 DEF Hold, ReleaseData
  <2> QED  BY <1>2, <1>3, <2>1 DEF BetweenBytes
<1>5. CASE NewPacket
  <2>1. /\ pending = <<>> /\ pending' = Packet /\ phase >= MinPhase
        /\ device' = "idle" /\ streaming' = TRUE
    BY <1>5 DEF NewPacket, Moves
  <2>2. ~Unsettled
    BY <1>1, <2>1, Timers
  <2>3. At(0) /\ Counted(2)
    BY <2>1 DEF Sending, Packet
  <2>4. At(0)' /\ Counted(2)' /\ ~Unsettled'
    BY <1>2, <2>3, EdgeWaits, SmallNumbers
  <2>5. Got(Status, DataBits(0))'
    BY DEF Got, DataBits
  <2>6. Sending(0)'
    BY <2>1, <2>4, <2>5 DEF Sending
  <2> QED  BY <1>2, <2>1, <2>4, <2>6 DEF BetweenBytes
<1>6. CASE StartByte
  <2>1. /\ pending' = pending /\ device' = "send" /\ streaming' = TRUE
        /\ bit' = 1 /\ devClk' = 0 /\ phase' = 0
    BY <1>6 DEF StartByte, Moves
  <2>2. Rises' = 0
    BY <2>1 DEF Rises, Delay
  <2>3. ps2_clk_reg' = 1 /\ last_ps2_clk' = 1
    BY <1>2 DEF High
  <2>4. Sending(0)' /\ ~Unsettled'
    BY <1>3, <2>1
  <2>5. Sending(Rises)'
    BY <2>2, <2>4
  <2> QED  BY <2>1, <2>3, <2>4, <2>5 DEF InByte
<1> QED
  BY <1>2, <1>4, <1>5, <1>6
     DEF Device, HearRequest, ReceiveFall, ReceiveRise, Acknowledge,
         SendFall, SendRise, Abort

(* The cycles after a byte.                                                *)
LEMMA JustSent ==
  ASSUME RealDevice, LinkTypeOK, StreamTypeOK, HostEdge, MouseEdge, Device,
         transmitter \in {"idle", "sent"}, device = "idle", streaming = TRUE,
         phase <= 1, devDat = 1, ps2_clk_reg = phase, last_ps2_clk = 0,
         phase = 1 => ps2_data_reg = 1, Sent
  PROVE  streaming' = TRUE /\ device' = "idle" /\ BetweenBytes'
<1>1. devClk = 1 /\ phase \in 0 .. 1
  BY DEF LinkTypeOK
<1>2. /\ ps2_clk_reg' = 1 /\ last_ps2_clk' = phase /\ ps2_data_reg' = 1
      /\ ~Inhibited
  BY <1>1, QuietHost
<1>3. Hold
  BY <1>1, ShortPhase
<1>4. /\ phase' = phase + 1 /\ pending' = pending /\ device' = "idle"
      /\ streaming' = TRUE /\ devDat' = 1
  BY <1>1, <1>2, <1>3, Timers DEF Hold, wires
<1>5. CASE phase = 0
  <2>1. ~ps2_clk_posedge
    BY <1>5 DEF ps2_clk_posedge
  <2>2. Sent'
    BY <1>4, <2>1, SentWaits
  <2> QED  BY <1>2, <1>4, <1>5, <2>2 DEF BetweenBytes
<1>6. CASE phase = 1
  <2>1. ps2_clk_posedge
    BY <1>6 DEF ps2_clk_posedge
  <2>2. Sending(0)'
    BY <1>4, <1>6, <2>1, SentMoves
  <2>3. High' /\ phase' = 2
    BY <1>2, <1>4, <1>6 DEF High
  <2> QED  BY <1>4, <2>2, <2>3 DEF BetweenBytes
<1>7. phase = 0 \/ phase = 1
  BY <1>1
<1> QED  BY <1>5, <1>6, <1>7

(* The bits seen of a frame of the mouse.                                  *)
LEMMA SendNumbers ==
  ASSUME LinkTypeOK, StreamTypeOK, device = "send"
  PROVE  /\ bit \in 1 .. 11 /\ devClk \in 0 .. 1 /\ phase \in 0 .. MaxPhase
         /\ devClk = 1 => bit \in 1 .. 10
         /\ Rises \in 0 .. 10
         /\ devClk = 0 \/ (devClk = 1 /\ phase \in 0 .. 1) => Rises = bit - 1
         /\ devClk = 1 /\ ~(phase \in 0 .. 1) => Rises = bit
<1>1. /\ bit \in 1 .. 11 /\ devClk \in 0 .. 1 /\ phase \in 0 .. MaxPhase
      /\ devClk = 1 => bit \in 1 .. 10
  BY DEF LinkTypeOK, StreamTypeOK
<1>2. Delay = IF devClk = 1 /\ phase \in 0 .. 1 THEN 1 ELSE 0
  BY <1>1, Timers DEF Delay
<1> QED  BY <1>1, <1>2 DEF Rises

(* A mouse that sends holds its clock, lets it fall or lets it rise.       *)
LEMMA SendStep ==
  ASSUME LinkTypeOK, Device, device = "send", ~Inhibited
  PROVE  Hold \/ SendFall \/ SendRise
  BY DEF Device, HearRequest, ReceiveFall, ReceiveRise, Acknowledge,
         ReleaseData, NewPacket, StartByte, Abort, LinkTypeOK

(* Within a byte.                                                          *)
LEMMA InByteStep ==
  ASSUME RealDevice, LinkTypeOK, LinkTypeOK', StreamTypeOK, StreamTypeOK',
         HostEdge, MouseEdge, Device,
         transmitter \in {"idle", "sent"}, device = "send", streaming = TRUE,
         pending # <<>>, InByte
  PROVE  /\ streaming' = TRUE
         /\ \/ device' = "idle" /\ BetweenBytes'
            \/ device' = "send" /\ InByte'
<1>1. /\ ps2_clk_reg' = devClk /\ last_ps2_clk' = ps2_clk_reg
      /\ ps2_data_reg' = devDat /\ ~Inhibited
  BY QuietHost
<1>2. /\ bit \in 1 .. 11 /\ devClk \in 0 .. 1 /\ phase \in 0 .. MaxPhase
      /\ devClk = 1 => bit \in 1 .. 10
      /\ Rises \in 0 .. 10
      /\ devClk = 0 \/ (devClk = 1 /\ phase \in 0 .. 1) => Rises = bit - 1
      /\ devClk = 1 /\ ~(phase \in 0 .. 1) => Rises = bit
  BY SendNumbers
<1>3. device' = "send" =>
        /\ bit' \in 1 .. 11 /\ devClk' \in 0 .. 1 /\ phase' \in 0 .. MaxPhase
        /\ devClk' = 1 => bit' \in 1 .. 10
        /\ Rises' \in 0 .. 10
        /\ devClk' = 0 \/ (devClk' = 1 /\ phase' \in 0 .. 1) =>
             Rises' = bit' - 1
        /\ devClk' = 1 /\ ~(phase' \in 0 .. 1) => Rises' = bit'
  <2> SUFFICES ASSUME device' = "send"
      PROVE  /\ bit' \in 1 .. 11 /\ devClk' \in 0 .. 1
             /\ phase' \in 0 .. MaxPhase
             /\ devClk' = 1 => bit' \in 1 .. 10
             /\ Rises' \in 0 .. 10
             /\ devClk' = 0 \/ (devClk' = 1 /\ phase' \in 0 .. 1) =>
                  Rises' = bit' - 1
             /\ devClk' = 1 /\ ~(phase' \in 0 .. 1) => Rises' = bit'
    OBVIOUS
  <2>1. /\ bit' \in 1 .. 11 /\ devClk' \in 0 .. 1 /\ phase' \in 0 .. MaxPhase
        /\ devClk' = 1 => bit' \in 1 .. 10
    BY DEF LinkTypeOK, StreamTypeOK
  <2>2. Delay' = IF devClk' = 1 /\ phase' \in 0 .. 1 THEN 1 ELSE 0
    BY <2>1, Timers DEF Delay
  <2>3. Rises' = bit' - 1 + devClk' - Delay'
    BY DEF Rises
  <2>4. PICK b \in 1 .. 11, c \in 0 .. 1 : b = bit' /\ c = devClk'
    BY <2>1
  <2>5. PICK p, l, r : p = phase' /\ l = Delay' /\ r = Rises'
    OBVIOUS
  <2>6. /\ c = 1 => b \in 1 .. 10
        /\ l = IF c = 1 /\ p \in 0 .. 1 THEN 1 ELSE 0
        /\ r = b - 1 + c - l
    BY <2>1, <2>2, <2>3, <2>4, <2>5
  <2>7. /\ r \in 0 .. 10
        /\ c = 0 \/ (c = 1 /\ p \in 0 .. 1) => r = b - 1
        /\ c = 1 /\ ~(p \in 0 .. 1) => r = b
    BY <2>6, RisesValue
  <2> QED  BY <2>1, <2>4, <2>5, <2>7
<1>4. PICK r \in 0 .. 10 : r = Rises
  BY <1>2
<1>5. Sending(r) /\ devDat = FrameBit(Head(pending), bit)
  BY <1>4 DEF InByte, StreamTypeOK
<1>6. Hold \/ SendFall \/ SendRise
  BY <1>1, SendStep
<1>7. /\ phase = 0 => ps2_clk_reg = 1 - devClk
      /\ phase >= 1 => ps2_clk_reg = devClk
      /\ phase <= 1 => last_ps2_clk = 1 - devClk
      /\ phase >= 2 => last_ps2_clk = devClk
      /\ devClk = 1 /\ phase = 1 => ps2_data_reg = devDat
      /\ Unsettled => devClk = 1 /\ phase = 2
  BY DEF InByte
<1>8. CASE devClk = 1 /\ phase = 1
  <2>1. Hold
    BY <1>2, <1>8, ShortPhase
  <2>2. /\ phase' = 2 /\ devClk' = 1 /\ bit' = bit /\ device' = "send"
    BY <1>8, <2>1, HoldInFrame
  <2>3. pending' = pending /\ streaming' = TRUE
    BY <2>1 DEF Hold
  <2>4. r = bit - 1 /\ Rises' = r + 1 /\ r + 1 = bit /\ r \in 0 .. 9
    BY <1>2, <1>3, <1>4, <1>8, <2>2
  <2>5. ps2_clk_posedge /\ ps2_clk_reg = 1
    BY <1>7, <1>8 DEF ps2_clk_posedge
  <2>6. ~Unsettled /\ ps2_data_reg = FrameBit(Head(pending), r + 1)
    BY <1>5, <1>7, <1>8, <2>4
  <2>7. Sending(r + 1)'
    BY <1>5, <2>3, <2>4, <2>5, <2>6, SendingMoves
  <2>8. Sending(Rises)'
    BY <2>4, <2>7
  <2>9. ps2_clk_reg' = 1 /\ last_ps2_clk' = 1
    BY <1>1, <1>8, <2>5
  <2> QED  BY <2>2, <2>3, <2>8, <2>9 DEF InByte
<1>9. CASE ~(devClk = 1 /\ phase = 1)
  <2>1. ~ps2_clk_posedge
    <3>1. CASE phase = 0
      BY <1>2, <1>7, <3>1 DEF ps2_clk_posedge
    <3>2. CASE phase = 1
      BY <1>2, <1>7, <1>9, <3>2 DEF ps2_clk_posedge
    <3>3. CASE phase >= 2
      BY <1>2, <1>7, <3>3 DEF ps2_clk_posedge
    <3> QED  BY <1>2, <3>1, <3>2, <3>3, Timers
  <2>2. ASSUME pending' = pending
        PROVE  Sending(r)' /\ ~Unsettled'
    BY <1>5, <2>1, <2>2, SendingWaits
  <2>3. CASE Hold
    <3>1. /\ phase' = phase + 1 /\ devClk' = devClk /\ bit' = bit
          /\ devDat' = devDat /\ device' = "send"
      BY <2>3, HoldInFrame
    <3>2. pending' = pending /\ streaming' = TRUE
      BY <2>3 DEF Hold
    <3>3. Rises' = r
      BY <1>2, <1>3, <1>4, <1>9, <3>1, Timers
    <3>4. Sending(Rises)' /\ ~Unsettled'
      BY <2>2, <3>2, <3>3
    <3>5. /\ phase' # 0
          /\ ps2_clk_reg' = devClk'
          /\ phase' <= 1 => last_ps2_clk' = 1 - devClk'
          /\ phase' >= 2 => last_ps2_clk' = devClk'
          /\ ps2_data_reg' = devDat'
      BY <1>1, <1>2, <1>7, <3>1, Timers
    <3> QED  BY <3>1, <3>2, <3>4, <3>5 DEF InByte
  <2>4. CASE SendFall
    <3>1. /\ devClk = 1 /\ devClk' = 0 /\ bit' = bit + 1 /\ phase >= MinPhase
          /\ phase' = 0 /\ device' = "send" /\ pending' = pending
          /\ streaming' = TRUE
      BY <2>4 DEF SendFall, Moves
    <3>2. phase >= 1 /\ ~(phase \in 0 .. 1)
      BY <1>2, <3>1, Timers
    <3>3. Rises' = r
      BY <1>2, <1>3, <1>4, <3>1, <3>2
    <3>4. Sending(Rises)' /\ ~Unsettled'
      BY <2>2, <3>1, <3>3
    <3>5. ps2_clk_reg' = 1 /\ last_ps2_clk' = 1
      BY <1>1, <1>7, <3>1, <3>2
    <3> QED  BY <3>1, <3>4, <3>5 DEF InByte
  <2>5. CASE SendRise
    <3>1. /\ devClk = 0 /\ devClk' = 1 /\ phase >= MinPhase /\ phase' = 0
          /\ streaming' = TRUE /\ devDat' = devDat
      BY <2>5 DEF SendRise, Moves
    <3>2. phase >= 1
      BY <1>2, <3>1, Timers
    <3>3. ps2_clk_reg' = 0 /\ last_ps2_clk' = 0
      BY <1>1, <1>7, <3>1, <3>2
    <3>4. CASE bit = 11
      <4>1. device' = "idle" /\ pending' = Tail(pending)
        BY <2>5, <3>4 DEF SendRise
      <4>2. r = 10
        BY <1>2, <1>4, <3>1, <3>4
      <4>3. ~Unsettled
        BY <1>7, <3>1
      <4>4. Sent'
        BY <1>5, <2>1, <4>1, <4>2, <4>3, ByteEnds
      <4>5. devDat = 1
        <5>1. Head(pending) \in 0 .. 255 /\ 11 \in 1 .. 11
          BY SaidBytes DEF StreamTypeOK
        <5> QED  BY <1>5, <3>4, <5>1, FrameBits
      <4> QED  BY <3>1, <3>3, <4>1, <4>4, <4>5 DEF BetweenBytes
    <3>5. CASE bit # 11
      <4>1. UNCHANGED <<device, bit, pending>>
        BY <2>5, <3>5 DEF SendRise
      <4>2. Rises' = r
        BY <1>2, <1>3, <1>4, <3>1, <4>1
      <4>3. Sending(Rises)' /\ ~Unsettled'
        BY <2>2, <4>1, <4>2
      <4> QED  BY <3>1, <3>3, <4>1, <4>3 DEF InByte
    <3> QED  BY <3>4, <3>5
  <2> QED  BY <1>6, <2>3, <2>4, <2>5
<1> QED  BY <1>8, <1>9

(* Every cycle of the mouse that has been enabled.                         *)
LEMMA StreamsStep ==
  ASSUME RealDevice, LinkInv, LinkInv', PacketInv, Cycle
  PROVE  Streams'
<1> SUFFICES ASSUME init_done' \/ transmitter' = "sent"
             PROVE  /\ streaming' = TRUE
                    /\ \/ device' = "idle" /\ BetweenBytes'
                       \/ device' = "send" /\ InByte'
  BY DEF Streams
<1>0. /\ LinkTypeOK /\ LinkTypeOK' /\ StreamTypeOK
      /\ HostEdge /\ Device /\ MouseEdge
      /\ Flags
  BY DEF LinkInv, PacketInv, Cycle
<1>1. \/ transmitter = "ack" /\ ps2_clk_posedge
      \/ init_done \/ transmitter = "sent"
  BY <1>0 DEF HostEdge, Transmitter, LinkTypeOK, Transferring, Flags
<1>2. CASE transmitter = "ack" /\ ps2_clk_posedge
  BY <1>2, StreamsStart
<1>3. CASE init_done \/ transmitter = "sent"
  <2>1. /\ streaming = TRUE
        /\ \/ device = "idle" /\ BetweenBytes
           \/ device = "send" /\ InByte
    BY <1>3 DEF PacketInv, Streams
  <2>2. transmitter \in {"idle", "sent"}
    BY <1>0, <1>3 DEF Flags
  <2>3. StreamTypeOK'
    BY StreamTypesStep DEF StreamNext
  <2>4. CASE device = "idle"
    BY <1>0, <2>1, <2>2, <2>4, StillQuiet, JustSent DEF BetweenBytes
  <2>5. CASE device = "send"
    <3>1. pending # <<>> /\ InByte
      BY <2>1, <2>5 DEF PacketInv, Sleeping
    <3> QED  BY <1>0, <2>1, <2>2, <2>3, <2>5, <3>1, InByteStep
  <2> QED  BY <2>1, <2>4, <2>5
<1> QED  BY <1>1, <1>2, <1>3

(* The invariant holds when the power comes on.                            *)
LEMMA PacketStarts ==
  ASSUME RealDevice, StreamInit
  PROVE  PacketInv
<1>1. StreamTypeOK
  <2>1. /\ counter = 0 /\ failures = 0 /\ ps2_data_reg = 0
        /\ data_shift_reg = 0 /\ waiting_counter = 0 /\ devDat = 1
        /\ pending = <<>> /\ device = "idle"
    BY DEF StreamInit, HostInit, MouseInit
  <2>2. /\ streaming \in BOOLEAN /\ awake \in BOOLEAN /\ init_done \in BOOLEAN
        /\ command_was_sent \in BOOLEAN
        /\ error_communication_timed_out \in BOOLEAN
    BY DEF StreamInit, HostInit
  <2>3. 0 \in 0 .. MaxFailures
    BY StreamAssumption
  <2> QED  BY <2>1, <2>2, <2>3 DEF StreamTypeOK, Said
<1>2. /\ transmitter = "idle" /\ ~init_done /\ ~command_was_sent
      /\ ~error_communication_timed_out
      /\ device = "idle" /\ devDat = 1 /\ pending = <<>> /\ streaming = FALSE
      /\ ps2_clk_reg = 0 /\ last_ps2_clk = 0 /\ transceiver = "idle"
      /\ failures = 0 /\ (MaxFailures = 0 => awake)
  BY DEF StreamInit, HostInit
<1>3. Before(failures)
  <2>1. Settled(0) /\ Counted(0)
    BY DEF StreamInit, HostInit, MouseInit, Settled, Counted
  <2> QED  BY <1>2, <2>1 DEF Before
<1>4. Flags /\ Asking /\ Failed /\ Calm
  BY <1>2, <1>3 DEF Flags, Asking, Failed, Calm
<1>5. Harmless /\ Released /\ Patient /\ Sleeping /\ Answered
  BY <1>2 DEF Harmless, Released, Patient, Sleeping, Answered
<1>6. InCommand /\ Acked /\ Streams
  BY <1>2 DEF InCommand, Acked, Streams
<1> QED  BY <1>1, <1>4, <1>5, <1>6 DEF PacketInv

(* It holds again after a press of the reset key, whatever the mouse was   *)
(* doing: the host forgets its count and its frame together.               *)
LEMMA PacketReset ==
  ASSUME RealDevice, LinkInv, PacketInv, ResetCycle
  PROVE  PacketInv'
<1>1. StreamTypeOK' /\ Sleeping'
  BY StreamTypesStep, SleepingStep DEF StreamNext
<1>2. /\ transmitter' = "idle" /\ ~init_done' /\ ~command_was_sent'
      /\ ~error_communication_timed_out'
      /\ ps2_clk_reg' = 1 /\ last_ps2_clk' = 1
  BY DEF ResetCycle, HostReset
<1>3. Before(failures)'
  <2>1. Settled(0)' /\ Counted(0)'
    BY DEF ResetCycle, HostReset, Reset, Settled, Counted
  <2>2. 0 \in 0 .. failures'
    BY <1>1, StreamAssumption DEF StreamTypeOK
  <2> QED  BY <2>1, <2>2 DEF Before
<1>4. Flags' /\ Asking' /\ Failed' /\ Calm'
  BY <1>2, <1>3 DEF Flags, Asking, Failed, Calm, High
<1>5. Harmless' /\ Released' /\ Patient' /\ Answered'
  BY <1>2 DEF Harmless, Released, Patient, Answered
<1>6. InCommand' /\ Acked' /\ Streams'
  BY <1>2 DEF InCommand, Acked, Streams, Transferring
<1> QED  BY <1>1, <1>4, <1>5, <1>6 DEF PacketInv

(* It is kept by every step.                                               *)
LEMMA PacketStep ==
  ASSUME RealDevice, LinkInv, LinkInv', PacketInv, [StreamNext]_streamVars
  PROVE  PacketInv'
<1>1. CASE Cycle
  <2>1. StreamTypeOK' /\ Sleeping'
    BY <1>1, StreamTypesStep, SleepingStep DEF StreamNext
  <2>2. Flags'
    BY <1>1, FlagsStep DEF Cycle, LinkInv, PacketInv
  <2>3. Asking' /\ Failed' /\ Calm' /\ Harmless'
    BY <1>1, AskingStep, FailedStep, CalmStep, HarmlessStep
  <2>4. Released' /\ Patient' /\ Answered'
    BY <1>1, ReleasedStep, PatientStep, AnsweredStep
  <2>5. InCommand' /\ Acked' /\ Streams'
    BY <1>1, InCommandStep, AckedStep, StreamsStep
  <2> QED  BY <2>1, <2>2, <2>3, <2>4, <2>5 DEF PacketInv
<1>2. CASE ResetCycle
  BY <1>2, PacketReset
<1>3. CASE UNCHANGED streamVars
  <2> USE <1>3 DEF streamVars, hostVars, mouseVars, deviceVars, sampled,
                   receiverVars, transmitterVars, wires
  <2>0. /\ StreamTypeOK /\ Flags /\ Asking /\ Failed /\ Calm /\ Harmless
        /\ Released /\ Patient /\ Sleeping /\ Answered /\ InCommand /\ Acked
        /\ Streams
    BY DEF PacketInv
  <2>1. StreamTypeOK' /\ Sleeping' /\ Flags'
    BY <2>0 DEF StreamTypeOK, Sleeping, Flags
  <2>2. \A k : /\ Settled(k)' <=> Settled(k)
               /\ At(k)' <=> At(k)
               /\ Counted(k)' <=> Counted(k)
    BY DEF At, Settled, Turning, Counted
  <2>3. /\ \A n : Before(n)' <=> Before(n)
        /\ Unsettled' <=> Unsettled
        /\ High' <=> High
    BY <2>2 DEF Before, Unsettled, High
  <2>4. Asking' /\ Failed' /\ Calm' /\ Harmless'
    BY <2>0, <2>2, <2>3 DEF Asking, Failed, Calm, Harmless, ps2_clk_posedge
  <2>5. Released' /\ Patient' /\ Answered'
    BY <2>0, <2>2, <2>3 DEF Released, Patient, Answered
  <2>6. \A r : CommandTaken(r)' <=> CommandTaken(r)
    BY <2>2 DEF CommandTaken
  <2>7. InCommand' /\ Acked'
    BY <2>0, <2>3, <2>6 DEF InCommand, Acked, Rises, Delay
  <2>8. \A r : Sending(r)' <=> Sending(r)
    BY <2>2 DEF Sending, Got, Latest
  <2>9. Sent' <=> Sent
    BY <2>2, <2>3 DEF Sent
  <2>10. Streams'
    BY <2>0, <2>3, <2>8, <2>9 DEF Streams, BetweenBytes, InByte, Rises, Delay
  <2> QED  BY <2>1, <2>4, <2>5, <2>7, <2>10 DEF PacketInv
<1> QED  BY <1>1, <1>2, <1>3 DEF StreamNext

(* What it says of the first bit of a byte.                                *)
LEMMA PacketSuffices ==
  ASSUME RealDevice, LinkInv, PacketInv
  PROVE  PacketsUnderstood
<1> SUFFICES ASSUME init_done, device = "send", bit = 1, devClk = 0
             PROVE  /\ pending # <<Ack>> => transceiver = "idle"
                    /\ pending = Packet => counter = 2
                    /\ pending = <<XMove, YMove>> =>
                         counter = 0 /\ byte1 = Status
                    /\ pending = <<YMove>> /\ YMove # Ack =>
                         counter = 1 /\ byte1 = Status /\ byte3 = XMove
  BY DEF PacketsUnderstood
<1>1. InByte /\ pending # <<>>
  BY DEF PacketInv, Streams, Sleeping
<1>2. Rises = 0
  BY DEF Rises, Delay
<1>3. Sending(0) /\ ~Unsettled
  BY <1>1, <1>2 DEF InByte
<1>4. received_data_en = FALSE
  <2>1. \E k \in 0 .. 10 : At(k)
    <3>1. \A k \in {0, 0 + 1, 0 + 3} : k \in 0 .. 10
      OBVIOUS
    <3> QED  BY <1>3, <3>1, SmallNumbers DEF Sending
  <2> QED  BY <1>3, <2>1, SettledMeans DEF Settled
<1>5. /\ pending # <<Ack>> => At(0)
      /\ pending = Packet => Counted(2)
      /\ pending = <<XMove, YMove>> => Counted(0) /\ Latest(byte1, Status)
      /\ pending = <<YMove>> /\ YMove # Ack =>
           Counted(1) /\ byte1 = Status /\ Latest(byte3, XMove)
  BY <1>1, <1>3, DeviceBytes DEF Sending, Packet
<1>6. At(0) => transceiver = "idle"
  BY <1>3, SettledMeans, SmallNumbers DEF Settled
<1> QED  BY <1>4, <1>5, <1>6 DEF Counted, Latest

(* Altera_UP_PS2_Data_In.v and Mouse.sv: whatever the timers, the clock    *)
(* of the mouse, its bytes and the presses of the reset key, and with up   *)
(* to six requests that got no answer, the mouse's bytes find the          *)
(* receiver idle and the counter at the register that they are for.        *)
THEOREM PacketsAlwaysUnderstood ==
  ASSUME RealDevice
  PROVE  StreamSpec => []PacketsUnderstood
<1>1. StreamInit => LinkInv /\ PacketInv
  BY LinkStarts, PacketStarts
<1>2. LinkInv /\ PacketInv /\ [StreamNext]_streamVars => LinkInv' /\ PacketInv'
  BY LinkStep, PacketStep
<1>3. LinkInv /\ PacketInv => PacketsUnderstood
  BY PacketSuffices
<1> QED
  BY <1>1, <1>2, <1>3, PTL DEF StreamSpec

-----------------------------------------------------------------------------
(* From here on, Mouse by itself: any byte at any time.                    *)
USE MouseAssumption DEF MouseTypeOK, Bytes

(* The truncation of a difference to the width of a register.              *)
LEMMA ModRange == \A v \in Int : v % Span \in 0 .. Span - 1
  OBVIOUS

(* Which changes nothing that fits.                                        *)
LEMMA ModSmall == \A v \in 0 .. Span - 1 : v % Span = v
  OBVIOUS

(* A magnitude fits in nine bits and is the size of the signed movement.   *)
LEMMA MagnitudeIsSize ==
  ASSUME NEW sign \in BOOLEAN, NEW b \in Bytes
  PROVE  /\ Magnitude(sign, b) \in 0 .. ByteSpan
         /\ Signed(sign, b) \in -ByteSpan .. ByteSpan - 1
         /\ sign => Signed(sign, b) = -Magnitude(sign, b)
         /\ ~sign => Signed(sign, b) = Magnitude(sign, b)
  BY DEF Magnitude, Signed

(* The unsigned subtraction with its two comparisons is a clamped movement *)
(* for a coordinate on the screen, and stays in the register otherwise.    *)
LEMMA DownIsMove ==
  ASSUME NEW c \in 0 .. Span - 1, NEW mag \in 0 .. ByteSpan,
         NEW hi \in {XMax, YMax}
  PROVE  Down(c, mag) \in P!Moved(c, -mag, hi)
<1>1. CASE RoomBelow(c, mag)
  <2>1. Down(c, mag) = (c - mag) % Span
    BY <1>1 DEF Down
  <2>2. CASE c \in Min .. hi
    <3>1. c - mag \in 0 .. Span - 1 /\ c - mag > Min
      BY <1>1, <2>2 DEF RoomBelow
    <3>2. Down(c, mag) = c - mag
      BY <2>1, <3>1, ModSmall
    <3> QED
      BY <2>2, <3>1, <3>2 DEF P!Moved, P!Clamp
  <2>3. CASE c \notin Min .. hi
    BY <2>1, <2>3, ModRange DEF P!Moved
  <2> QED
    BY <2>2, <2>3
<1>2. CASE ~RoomBelow(c, mag)
  BY <1>2 DEF Down, RoomBelow, P!Moved, P!Clamp
<1> QED
  BY <1>1, <1>2

(* So is the unsigned addition with its two comparisons.                   *)
LEMMA UpIsMove ==
  ASSUME NEW c \in 0 .. Span - 1, NEW mag \in 0 .. ByteSpan,
         NEW hi \in {XMax, YMax}
  PROVE  Up(c, mag, hi) \in P!Moved(c, mag, hi)
  BY DEF Up, P!Moved, P!Clamp

(* A move never leaves the register, and never leaves the screen.          *)
LEMMA MovedInRange ==
  ASSUME NEW c \in 0 .. Span - 1, NEW d \in Int, NEW hi \in {XMax, YMax},
         NEW m \in P!Moved(c, d, hi)
  PROVE  /\ m \in 0 .. Span - 1
         /\ c \in Min .. hi => m \in Min .. hi
  BY DEF P!Moved, P!Clamp

(* A cleared status byte has no bit set.                                   *)
LEMMA NoBitOfZero == \A weight \in Nat \ {0} : ~Bit(0, weight)
  BY DEF Bit

(* Both moves of a step, as the pointer sees them.                         *)
LEMMA XMoveApplied ==
  ASSUME MouseTypeOK
  PROVE  (IF sX THEN Down(curX, magX) ELSE Up(curX, magX, XMax))
           \in P!Moved(curX, Signed(sX, byte3), XMax)
<1>1. sX \in BOOLEAN
  BY DEF sX, Bit
<1>2. magX \in 0 .. ByteSpan
  BY <1>1, MagnitudeIsSize DEF magX
<1>3. CASE sX
  BY <1>1, <1>2, <1>3, MagnitudeIsSize, DownIsMove DEF magX
<1>4. CASE ~sX
  BY <1>1, <1>2, <1>4, MagnitudeIsSize, UpIsMove DEF magX
<1> QED
  BY <1>3, <1>4

(* And of Y, whose sign is turned.                                         *)
LEMMA YMoveApplied ==
  ASSUME MouseTypeOK
  PROVE  (IF sY THEN Up(curY, magY, YMax) ELSE Down(curY, magY))
           \in P!Moved(curY, -Signed(sY, byte2), YMax)
<1>1. sY \in BOOLEAN
  BY DEF sY, Bit
<1>2. magY \in 0 .. ByteSpan
  BY <1>1, MagnitudeIsSize DEF magY
<1>3. CASE sY
  <2>1. Signed(sY, byte2) = -magY
    BY <1>1, <1>3, MagnitudeIsSize DEF magY
  <2>2. -Signed(sY, byte2) = magY
    BY <2>1, <1>2
  <2> QED
    BY <2>2, <1>2, <1>3, UpIsMove
<1>4. CASE ~sY
  <2>1. Signed(sY, byte2) = magY
    BY <1>1, <1>2, <1>4, MagnitudeIsSize DEF magY
  <2> QED
    BY <2>1, <1>2, <1>4, DownIsMove
<1> QED
  BY <1>3, <1>4

-----------------------------------------------------------------------------
(* The registers keep their widths.                                        *)
THEOREM TypeCorrect == MouseSpec => []MouseTypeOK
<1>1. MouseInit => MouseTypeOK
  BY DEF MouseInit
<1>2. MouseTypeOK /\ [MouseNext]_mouseVars => MouseTypeOK'
  <2> SUFFICES ASSUME MouseTypeOK, [MouseNext]_mouseVars
               PROVE  MouseTypeOK'
    OBVIOUS
  <2>1. CASE Reset
    BY <2>1 DEF Reset
  <2>2. ASSUME NEW b \in Bytes, XByte(b) PROVE MouseTypeOK'
    BY <2>2 DEF XByte
  <2>3. ASSUME NEW b \in Bytes, YByte(b) PROVE MouseTypeOK'
    <3>1. curX' \in 0 .. Span - 1
      <4>1. Signed(sX, byte3) \in Int
        BY DEF Signed
      <4> QED
        BY <2>3, <4>1, XMoveApplied, MovedInRange DEF YByte
    <3> QED
      BY <2>3, <3>1 DEF YByte
  <2>4. ASSUME NEW b \in Bytes, StatusByte(b) PROVE MouseTypeOK'
    <3>1. curY' \in 0 .. Span - 1
      <4>1. -Signed(sY, byte2) \in Int
        BY DEF Signed
      <4> QED
        BY <2>4, <4>1, YMoveApplied, MovedInRange DEF StatusByte
    <3> QED
      BY <2>4, <3>1 DEF StatusByte
  <2>5. CASE UNCHANGED mouseVars
    BY <2>5 DEF mouseVars
  <2> QED
    BY <2>1, <2>2, <2>3, <2>4, <2>5 DEF MouseNext
<1> QED
  BY <1>1, <1>2, PTL DEF MouseSpec

(* Once on the screen the pointer stays there, whatever bytes arrive.      *)
THEOREM OnScreen == MouseSpec => StaysOnScreen
<1> DEFINE Kept == /\ curX \in Min .. XMax => curX' \in Min .. XMax
                   /\ curY \in Min .. YMax => curY' \in Min .. YMax
<1>1. MouseTypeOK /\ [MouseNext]_mouseVars => [Kept]_mouseVars
  <2> SUFFICES ASSUME MouseTypeOK, MouseNext PROVE Kept
    BY DEF mouseVars
  <2>1. CASE Reset
    BY <2>1 DEF Reset
  <2>2. ASSUME NEW b \in Bytes, XByte(b) PROVE Kept
    BY <2>2 DEF XByte
  <2>3. ASSUME NEW b \in Bytes, YByte(b) PROVE Kept
    <3>1. Signed(sX, byte3) \in Int
      BY DEF Signed
    <3>2. curX \in Min .. XMax => curX' \in Min .. XMax
      BY <2>3, <3>1, XMoveApplied, MovedInRange DEF YByte
    <3> QED
      BY <2>3, <3>2 DEF YByte
  <2>4. ASSUME NEW b \in Bytes, StatusByte(b) PROVE Kept
    <3>1. -Signed(sY, byte2) \in Int
      BY DEF Signed
    <3>2. curY \in Min .. YMax => curY' \in Min .. YMax
      BY <2>4, <3>1, YMoveApplied, MovedInRange DEF StatusByte
    <3> QED
      BY <2>4, <3>2 DEF StatusByte
  <2> QED
    BY <2>1, <2>2, <2>3, <2>4 DEF MouseNext
<1> QED
  BY <1>1, TypeCorrect, PTL DEF MouseSpec, StaysOnScreen

(* Mouse.sv implements Pointer: each horizontal and each vertical movement *)
(* is made once, in full and with its own sign, one byte after the one that*)
(* carries it.  The byte X is a Report, the byte Y a Move, the status a    *)
(* Button.                                                                 *)
THEOREM Implements == MouseSpec => MovesLikeAPointer
<1> DEFINE OwedX == IF counter = 1 THEN Signed(sX, byte3) ELSE 0
           OwedY == IF counter = 2 THEN Signed(sY, byte2) ELSE 0
<1>1. MouseInit => P!PointerInit
  BY NoBitOfZero DEF MouseInit, P!PointerInit, leftButton
<1>2. MouseTypeOK /\ [MouseNext]_mouseVars => [P!PointerNext]_(P!pointerVars)
  <2> SUFFICES ASSUME MouseTypeOK, [MouseNext]_mouseVars
               PROVE  P!PointerNext \/ UNCHANGED P!pointerVars
    OBVIOUS
  <2>1. CASE Reset
    <3>1. ~leftButton'
      BY <2>1, NoBitOfZero DEF Reset, leftButton
    <3>2. leftButton' = FALSE
      BY <3>1 DEF leftButton, Bit
    <3>3. OwedX' = 0 /\ OwedY' = 0
      BY <2>1 DEF Reset
    <3> QED
      BY <2>1, <3>2, <3>3 DEF Reset, P!PointerNext, P!Forget
  <2>2. ASSUME NEW b \in Bytes, XByte(b) PROVE P!Report
    <3>1. UNCHANGED <<sX, leftButton>> /\ byte3' = b
      BY <2>2 DEF XByte, sX, leftButton
    <3>2. OwedX' = Signed(sX, b)
      BY <2>2, <3>1 DEF XByte, Signed
    <3>3. Signed(sX, b) \in -ByteSpan .. ByteSpan - 1
      BY DEF Signed
    <3>4. OwedX = 0 /\ OwedY = 0 /\ OwedY' = 0
      BY <2>2 DEF XByte
    <3>5. UNCHANGED <<curX, curY>>
      BY <2>2 DEF XByte
    <3> HIDE DEF OwedX, OwedY
    <3> QED
      BY <3>1, <3>2, <3>3, <3>4, <3>5 DEF P!Report, OwedX, OwedY
  <2>3. ASSUME NEW b \in Bytes, YByte(b) PROVE P!Move
    <3>1. OwedX = Signed(sX, byte3) /\ OwedY = 0
      BY <2>3 DEF YByte
    <3>2. curX' \in P!Moved(curX, OwedX, XMax)
      BY <2>3, <3>1, XMoveApplied DEF YByte
    <3>3. Signed(sY, byte2)' \in -ByteSpan .. ByteSpan - 1
      BY <2>3 DEF YByte, Signed
    <3>4. OwedX' = 0 /\ OwedY' = Signed(sY, byte2)'
      BY <2>3 DEF YByte
    <3>5. UNCHANGED <<curY, leftButton>>
      BY <2>3 DEF YByte, leftButton
    <3> HIDE DEF OwedX, OwedY
    <3> QED
      BY <3>1, <3>2, <3>3, <3>4, <3>5 DEF P!Move, OwedX, OwedY
  <2>4. ASSUME NEW b \in Bytes, StatusByte(b) PROVE P!Button
    <3>1. leftButton' \in BOOLEAN
      BY DEF leftButton, Bit
    <3>2. OwedX = 0 /\ OwedX' = 0 /\ OwedY' = 0
      BY <2>4 DEF StatusByte
    <3>3. OwedY = Signed(sY, byte2)
      BY <2>4 DEF StatusByte
    <3>4. curY' \in P!Moved(curY, -OwedY, YMax)
      BY <2>4, <3>3, YMoveApplied DEF StatusByte
    <3>5. UNCHANGED curX
      BY <2>4 DEF StatusByte
    <3> HIDE DEF OwedX, OwedY
    <3> QED
      BY <3>1, <3>2, <3>4, <3>5 DEF P!Button, OwedX, OwedY
  <2>5. CASE UNCHANGED mouseVars
    BY <2>5 DEF mouseVars, P!pointerVars, leftButton, sX, sY
  <2> QED
    BY <2>1, <2>2, <2>3, <2>4, <2>5 DEF MouseNext, P!PointerNext
<1> QED
  BY <1>1, <1>2, TypeCorrect, PTL
     DEF MouseSpec, MovesLikeAPointer, P!PointerSpec

-----------------------------------------------------------------------------
(* Back to the wires: the two parts together.                              *)
ByteTypeOK ==
  /\ devDat \in 0 .. 1 /\ ps2_data_reg \in 0 .. 1
  /\ data_shift_reg \in 0 .. 255 /\ received_data \in 0 .. 255
  /\ pending \in Said /\ devClk \in 0 .. 1
  /\ device \in {"idle", "send", "receive"}
  /\ device = "send" =>
       /\ pending # <<>>
       /\ bit \in 1 .. 11 /\ (devClk = 1 => bit <= 10)

(* A byte made of sampled bits is a byte.                                  *)
LEMMA HostBytes ==
  ASSUME ByteTypeOK, HostEdge \/ HostReset
  PROVE  /\ ps2_data_reg' \in 0 .. 1
         /\ data_shift_reg' \in 0 .. 255 /\ received_data' \in 0 .. 255
<1>1. CASE HostReset
  BY <1>1 DEF HostReset
<1>2. CASE HostEdge
  <2>1. ps2_data_reg' \in 0 .. 1
    BY <1>2 DEF HostEdge, Sample, PS2_DAT, ByteTypeOK
  <2>2. /\ \/ data_shift_reg' = data_shift_reg
           \/ data_shift_reg' = ps2_data_reg * 128 + data_shift_reg \div 2
        /\ received_data' \in {data_shift_reg, received_data}
    BY <1>2 DEF HostEdge, Receiver
  <2>3. /\ data_shift_reg \in 0 .. 255 /\ ps2_data_reg \in 0 .. 1
        /\ received_data \in 0 .. 255
    BY DEF ByteTypeOK
  <2> QED  BY <2>1, <2>2, <2>3, ShiftedBits
<1> QED  BY <1>1, <1>2

(* The mouse's data line carries bits: those of a frame while it sends.    *)
LEMMA DeviceKeepsBytes ==
  ASSUME ByteSpan = 256, ByteTypeOK, Device
  PROVE  /\ devDat' \in 0 .. 1
         /\ pending' \in Said /\ devClk' \in 0 .. 1
         /\ device' \in {"idle", "send", "receive"}
         /\ device' = "send" =>
              /\ pending' # <<>>
              /\ bit' \in 1 .. 11 /\ (devClk' = 1 => bit' <= 10)
<1>0. ASSUME pending # <<>>, NEW n \in 1 .. 11
      PROVE  FrameBit(Head(pending), n) \in 0 .. 1
  BY <1>0, SaidInBytes, FrameBits DEF ByteTypeOK
<1>1. CASE Hold
  BY <1>1 DEF Hold, wires, ByteTypeOK
<1>8. CASE ReleaseData
  BY <1>8 DEF ReleaseData, ByteTypeOK
<1>9. CASE Abort
  BY <1>9 DEF Abort, ByteTypeOK
<1>2. CASE HearRequest \/ ReceiveFall \/ ReceiveRise
  BY <1>2 DEF HearRequest, ReceiveFall, ReceiveRise, Moves, ByteTypeOK
<1>3. CASE Acknowledge
  BY <1>3 DEF Acknowledge, Moves, Said, ByteTypeOK
<1>4. CASE NewPacket
  BY <1>4 DEF NewPacket, wires, Said, ByteTypeOK
<1>5. CASE StartByte
  <2>1. devDat' = FrameBit(Head(pending), 1) /\ pending # <<>>
    BY <1>5 DEF StartByte
  <2>2. devDat' \in 0 .. 1
    BY <1>0, <2>1
  <2> QED  BY <1>5, <2>1, <2>2 DEF StartByte, ByteTypeOK
<1>6. CASE SendFall
  <2>1. pending # <<>> /\ bit + 1 \in 1 .. 11
    BY <1>6 DEF SendFall, ByteTypeOK
  <2>2. FrameBit(Head(pending), bit + 1) \in 0 .. 1
    BY <1>0, <2>1
  <2> QED  BY <1>6, <2>1, <2>2 DEF SendFall, ByteTypeOK
<1>7. CASE SendRise
  <2>1. pending # <<>> /\ Tail(pending) \in Said /\ bit \in 1 .. 11
    BY <1>7, SaidInBytes DEF SendRise, ByteTypeOK
  <2>2. UNCHANGED devDat /\ devClk' = 1
    BY <1>7 DEF SendRise
  <2>3. CASE bit = 11
    <3>1. device' = "idle" /\ pending' = Tail(pending)
      BY <1>7, <2>3 DEF SendRise
    <3> QED  BY <2>1, <2>2, <3>1 DEF ByteTypeOK
  <2>4. CASE bit # 11
    <3>1. UNCHANGED <<device, bit, pending>>
      BY <1>7, <2>4 DEF SendRise
    <3> QED  BY <2>1, <2>2, <2>4, <3>1 DEF ByteTypeOK
  <2> QED  BY <2>3, <2>4
<1> QED
  BY <1>1, <1>2, <1>3, <1>4, <1>5, <1>6, <1>7, <1>8, <1>9 DEF Device

(* Mouse.sv on the wires does what Mouse does by itself: whatever comes out*)
(* of the receiver is a byte, and every reset that the controller gets is  *)
(* one that Mouse.sv gets.  No assumption on failures is made here.        *)
THEOREM MouseIsDriven ==
  ASSUME ByteSpan = 256
  PROVE  StreamSpec => MouseSpec
<1>1. StreamInit => MouseInit /\ ByteTypeOK
  BY DEF StreamInit, HostInit, ByteTypeOK, Said
<1>2. ByteTypeOK /\ [StreamNext]_streamVars => ByteTypeOK'
  <2> SUFFICES ASSUME ByteTypeOK, [StreamNext]_streamVars PROVE ByteTypeOK'
    OBVIOUS
  <2>1. CASE StreamNext
    <3>1. (HostEdge \/ HostReset) /\ Device
      BY <2>1 DEF StreamNext, Cycle, ResetCycle
    <3> QED  BY <3>1, HostBytes, DeviceKeepsBytes DEF ByteTypeOK
  <2>2. CASE UNCHANGED streamVars
    BY <2>2 DEF streamVars, hostVars, deviceVars, sampled, receiverVars,
                wires, ByteTypeOK
  <2> QED  BY <2>1, <2>2
<1>3. ByteTypeOK /\ [StreamNext]_streamVars => [MouseNext]_mouseVars
  <2> SUFFICES ASSUME ByteTypeOK, [StreamNext]_streamVars
               PROVE  [MouseNext]_mouseVars
    OBVIOUS
  <2>1. CASE Cycle
    <3>1. received_data \in Bytes
      BY DEF ByteTypeOK, Bytes
    <3> QED  BY <2>1, <3>1 DEF Cycle, MouseEdge, MouseNext
  <2>2. CASE ResetCycle
    BY <2>2 DEF ResetCycle, MouseNext
  <2>3. CASE UNCHANGED streamVars
    BY <2>3 DEF streamVars
  <2> QED  BY <2>1, <2>2, <2>3 DEF StreamNext
<1> QED  BY <1>1, <1>2, <1>3, PTL DEF StreamSpec, MouseSpec

(* So what was proved of Mouse by itself holds of the pointer behind the   *)
(* wires, through start-up, failed requests and resets: it stays on the    *)
(* screen once there, and each movement is applied once, with its sign.    *)
THEOREM PointerOnTheWires ==
  ASSUME ByteSpan = 256
  PROVE  StreamSpec => StaysOnScreen /\ MovesLikeAPointer
  BY MouseIsDriven, OnScreen, Implements, PTL

=============================================================================
