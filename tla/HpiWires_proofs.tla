--------------------------- MODULE HpiWires_proofs ---------------------------
(***************************************************************************)
(* From IO_init on the two ends of the data bus never drive it together,   *)
(* and every call is one access to its register, whatever the words, the   *)
(* pace of the program and the access time of the chip.  The argument:     *)
(* what a call has still to do tells which strobes are low, the registered *)
(* strobes follow before the next access, and between the end of a strobe  *)
(* and the next one the address, the word and the bus are those of the     *)
(* call.                                                                   *)
(***************************************************************************)
EXTENDS HpiWires, TLAPS

USE WiresAssumption

Pins ==
  [address : 0 .. 3, cs : {0, 1}, r : {0, 1}, w : {0, 1}, data : Values]

TypeInv ==
  /\ pio \in Pins
  /\ call \in Port!Calls \cup {Port!Idle, Port!Boot}
  /\ gap \in 0 .. MinGap

InitStage ==
  \/ todo = IO_init
  \/ todo = <<Out("r", 1), Out("w", 1), Out("address", 0), Out("data", 0)>>
  \/ /\ todo = <<Out("w", 1), Out("address", 0), Out("data", 0)>>
     /\ pio.r = 1
  \/ /\ todo \in {<<Out("address", 0), Out("data", 0)>>, <<Out("data", 0)>>, <<>>}
     /\ pio.r = 1 /\ pio.w = 1

(* The write strobe is low only while its end is still to do, the read     *)
(* strobe is not touched.                                                  *)
WriteStage ==
  /\ pio.r = 1
  /\ \/ /\ \/ todo = IO_write(call.at, call.data)
           \/ todo = <<Out("cs", 0), Out("w", 0), Out("data", call.data),
                       Out("w", 1), Out("cs", 1)>>
           \/ todo = <<Out("w", 0), Out("data", call.data), Out("w", 1),
                       Out("cs", 1)>>
           \/ todo = <<Out("cs", 1)>>
           \/ todo = <<>>
        /\ pio.w = 1
     \/ todo = <<Out("data", call.data), Out("w", 1), Out("cs", 1)>>
     \/ todo = <<Out("w", 1), Out("cs", 1)>>

(* The other way round.                                                    *)
ReadStage ==
  /\ pio.w = 1
  /\ \/ /\ \/ todo = IO_read(call.at)
           \/ todo = <<Out("cs", 0), Out("r", 0), In, Out("r", 1), Out("cs", 1)>>
           \/ todo = <<Out("r", 0), In, Out("r", 1), Out("cs", 1)>>
           \/ todo = <<Out("cs", 1)>>
           \/ todo = <<>>
        /\ pio.r = 1
     \/ todo = <<In, Out("r", 1), Out("cs", 1)>>
     \/ todo = <<Out("r", 1), Out("cs", 1)>>

Stage ==
  /\ call.op = "init" => InitStage
  /\ call.op = "none" => todo = <<>> /\ pio.r = 1 /\ pio.w = 1
  /\ call.op = "write" => WriteStage
  /\ call.op = "read" => ReadStage

(* The strobe at the chip is that of the port a clock after each access,   *)
(* so a read strobe is over before the next call begins.                   *)
Follows ==
  /\ gap >= 1 => intf.OTG_RD_N = pio.r
  /\ call.op \in {"none", "write"} => intf.OTG_RD_N = 1

WiresInv == TypeInv /\ Stage /\ Follows

-----------------------------------------------------------------------------
LEMMA InvSuffices == WiresInv => OneDriver
  BY DEF WiresInv, TypeInv, Stage, WriteStage, ReadStage, Follows, OneDriver,
         HostDrives, ReadStrobe, Port!Calls, Port!Idle, Port!Boot

LEMMA InvStarts == WiresInit => WiresInv
  BY DEF WiresInit, WiresInv, TypeInv, Pins, Stage, InitStage, Follows,
         Port!Boot, Port!HPI_DATA

(* What is called, and where.                                              *)
LEMMA CallFacts ==
  /\ \A c \in Port!Calls : c.op \in {"write", "read"} /\ c.at \in 0 .. 3
  /\ \A c \in Port!Calls : c.op = "write" => c.data \in Values
  /\ Port!Idle.op = "none" /\ Port!Boot.op = "init"
  BY DEF Port!Calls, Port!Idle, Port!Boot, Port!HPI_DATA, Port!HPI_MAILBOX,
         Port!HPI_ADDR, Port!HPI_STATUS

(* Each access takes a call to its next stage.                             *)
LEMMA AccessFacts ==
  ASSUME TypeInv, Stage, PioAccess
  PROVE  TypeInv' /\ Stage'
<1> USE CallFacts DEF TypeInv, PioAccess, Stage
<1>1. CASE call.op = "init"
  <2> USE <1>1 DEF Pins
  <2>1. CASE todo = IO_init
    BY <2>1 DEF InitStage, IO_init, Out, In
  <2>2. CASE todo = <<Out("r", 1), Out("w", 1), Out("address", 0), Out("data", 0)>>
    BY <2>2 DEF InitStage, Out, In
  <2>3. CASE /\ todo = <<Out("w", 1), Out("address", 0), Out("data", 0)>>
             /\ pio.r = 1
    BY <2>3 DEF InitStage, Out, In
  <2>4. CASE /\ todo = <<Out("address", 0), Out("data", 0)>>
             /\ pio.r = 1 /\ pio.w = 1
    BY <2>4 DEF InitStage, Out, In
  <2>5. CASE todo = <<Out("data", 0)>> /\ pio.r = 1 /\ pio.w = 1
    BY <2>5 DEF InitStage, Out, In
  <2> QED
    BY <2>1, <2>2, <2>3, <2>4, <2>5 DEF InitStage
<1>2. CASE call.op = "none"
  BY <1>2
<1>3. CASE call.op = "write"
  <2> USE DEF Pins
  <2>1. CASE todo = IO_write(call.at, call.data)
    BY <1>3, <2>1 DEF WriteStage, IO_write, Out, In
  <2>2. CASE todo = <<Out("cs", 0), Out("w", 0), Out("data", call.data),
                      Out("w", 1), Out("cs", 1)>>
    BY <1>3, <2>2 DEF WriteStage, Out, In
  <2>3. CASE todo = <<Out("w", 0), Out("data", call.data), Out("w", 1),
                      Out("cs", 1)>>
    BY <1>3, <2>3 DEF WriteStage, Out, In
  <2>4. CASE todo = <<Out("data", call.data), Out("w", 1), Out("cs", 1)>>
    BY <1>3, <2>4 DEF WriteStage, Out, In
  <2>5. CASE todo = <<Out("w", 1), Out("cs", 1)>>
    BY <1>3, <2>5 DEF WriteStage, Out, In
  <2>6. CASE todo = <<Out("cs", 1)>>
    BY <1>3, <2>6 DEF WriteStage, Out, In
  <2> QED
    BY <1>3, <2>1, <2>2, <2>3, <2>4, <2>5, <2>6 DEF WriteStage
<1>4. CASE call.op = "read"
  <2> USE DEF Pins
  <2>1. CASE todo = IO_read(call.at)
    BY <1>4, <2>1 DEF ReadStage, IO_read, Out, In
  <2>2. CASE todo = <<Out("cs", 0), Out("r", 0), In, Out("r", 1), Out("cs", 1)>>
    BY <1>4, <2>2 DEF ReadStage, Out, In
  <2>3. CASE todo = <<Out("r", 0), In, Out("r", 1), Out("cs", 1)>>
    BY <1>4, <2>3 DEF ReadStage, Out, In
  <2>4. CASE todo = <<In, Out("r", 1), Out("cs", 1)>>
    BY <1>4, <2>4 DEF ReadStage, Out, In
  <2>5. CASE todo = <<Out("r", 1), Out("cs", 1)>>
    BY <1>4, <2>5 DEF ReadStage, Out, In
  <2>6. CASE todo = <<Out("cs", 1)>>
    BY <1>4, <2>6 DEF ReadStage, Out, In
  <2> QED
    BY <1>4, <2>1, <2>2, <2>3, <2>4, <2>5, <2>6 DEF ReadStage
<1> QED
  BY <1>1, <1>2, <1>3, <1>4

-----------------------------------------------------------------------------
(* The strobe register takes over the level of the port, which an access   *)
(* alone can change.                                                       *)
LEMMA StrobeFollows ==
  Hardware => intf'.OTG_RD_N = pio.r
  BY DEF Hardware, Interface

LEMMA InvStep == WiresInv /\ [WiresNext]_wiresVars => WiresInv'
<1> SUFFICES ASSUME WiresInv, [WiresNext]_wiresVars PROVE WiresInv'
  OBVIOUS
<1> USE DEF WiresInv
<1>1. CASE Hardware /\ Busy
  BY <1>1, StrobeFollows, CallFacts
     DEF Busy, TypeInv, Stage, InitStage, WriteStage, ReadStage, Follows
<1>2. CASE Hardware /\ PioAccess
  <2>1. TypeInv' /\ Stage'
    BY <1>2, AccessFacts
  <2>2. Follows'
    BY <1>2, StrobeFollows DEF Follows, PioAccess, Stage, WriteStage, TypeInv
  <2> QED
    BY <2>1, <2>2
<1>3. CASE Hardware /\ Return
  <2>1. pio.r = 1 /\ pio.w = 1 /\ todo = <<>>
    BY <1>3, CallFacts DEF Return, TypeInv, Stage, InitStage, WriteStage, ReadStage,
       IO_init, IO_write, IO_read
  <2> QED
    BY <1>3, <2>1, StrobeFollows, CallFacts DEF Return, TypeInv, Stage, Follows
<1>4. CASE Hardware /\ Call
  <2>1. PICK c \in Port!Calls : call' = c /\ todo' = Body(c)
    BY <1>4 DEF Call
  <2>2. pio' = pio /\ gap' = gap /\ pio.r = 1 /\ pio.w = 1
    BY <1>4, CallFacts DEF Call, Stage
  <2> QED
    BY <1>4, <2>1, <2>2, StrobeFollows, CallFacts
       DEF TypeInv, Stage, WriteStage, ReadStage, Body, Follows
<1>5. CASE UNCHANGED wiresVars
  BY <1>5 DEF wiresVars, pins, TypeInv, Stage, InitStage, WriteStage, ReadStage,
     Follows
<1> QED
  BY <1>1, <1>2, <1>3, <1>4, <1>5 DEF WiresNext, Program

(* The host lets go of the bus before the chip takes it, and the chip      *)
(* before the host (see OneDriver).                                        *)
THEOREM BusHasOneDriver == WiresSpec => []OneDriver
  BY InvStarts, InvStep, InvSuffices, PTL DEF WiresSpec

-----------------------------------------------------------------------------
(* The registers of hpi_io_intf hold the levels of the ports.              *)
Settled ==
  /\ intf.tmp_data = pio.data /\ intf.OTG_ADDR = pio.address
  /\ intf.OTG_CS_N = pio.cs /\ intf.OTG_RD_N = pio.r /\ intf.OTG_WR_N = pio.w

WordsInv ==
  /\ intf \in [tmp_data : Values, OTG_ADDR : 0 .. 3, OTG_RD_N : {0, 1},
               OTG_WR_N : {0, 1}, OTG_CS_N : {0, 1}, from_sw_data_in : Values]
  /\ charge \in Values /\ floating \in BOOLEAN
  /\ strobed \in 0 .. AccessTime
  /\ regs \in Port!Registers
  /\ accesses \in Nat

(* Accesses that the call has still to make.                               *)
Left == Len(todo)

(* Strobes that have ended: the last access of a call only lets the chip   *)
(* go.                                                                     *)
Made == IF Left = 0 \/ (Left = 1 /\ gap >= 1) THEN 1 ELSE 0

(* How far a call has come: the pins set so far, the strobe at the chip,   *)
(* and the words on their way.  Until the strobe ends nothing is made;     *)
(* when it ends, its address and its word are those of the call.           *)
WriteProgress ==
  /\ Left \in {2, 3} => pio.w = 0
  /\ intf.OTG_RD_N = 1
  /\ accesses = Made
  /\ Left # 6 => pio.address = call.at
  /\ Left \in {1, 2, 3, 4} => pio.cs = 0
  /\ Left \in {0, 1, 2} => pio.data = call.data
  /\ Left \in {0, 4, 5, 6} => intf.OTG_WR_N = 1
  /\ gap = 0 =>
       /\ Left = 3 => intf.OTG_WR_N = 1
       /\ Left \in {1, 2} => WriteStrobe
       /\ Left = 1 =>
            intf.OTG_ADDR = call.at /\ ~floating /\ charge = call.data

ReadProgress ==
  /\ Left \in {2, 3} => pio.r = 0
  /\ intf.OTG_WR_N = 1
  /\ accesses = Made
  /\ Left # 6 => pio.address = call.at
  /\ Left \in {1, 2, 3, 4} => pio.cs = 0
  /\ Left \in {0, 4, 5, 6} => intf.OTG_RD_N = 1
  /\ gap = 0 =>
       /\ Left = 3 => intf.OTG_RD_N = 1
       /\ Left \in {1, 2} => ReadStrobe
       /\ Left = 1 => intf.OTG_ADDR = call.at
  /\ Left = 3 =>
       /\ gap >= 1 => strobed = AccessTime \/ strobed + 1 >= gap
       /\ gap >= AccessTime + 2 => intf.from_sw_data_in = Port!Shown(regs, call.at)
       /\ gap >= AccessTime + 3 => readdata = Port!Shown(regs, call.at)
  /\ Left = 2 \/ (Left = 1 /\ gap = 0) => temp = Port!Shown(regs, call.at)

Progress ==
  /\ gap >= 1 => Settled
  /\ call.op = "none" =>
       /\ accesses = 0 /\ gap = MinGap
       /\ intf.OTG_RD_N = 1 /\ intf.OTG_WR_N = 1
  /\ call.op = "write" => WriteProgress
  /\ call.op = "read" => ReadProgress

LEMMA SetupGap == MinGap >= AccessTime + 3 /\ MinGap \in Nat /\ AccessTime \in Nat
  BY WiresAssumption

(* The chip keeps words in its registers.                                  *)
LEMMA PortFacts ==
  ASSUME NEW r \in Port!Registers, NEW at \in 0 .. 3, NEW v \in Values
  PROVE  /\ Port!Shown(r, at) \in Values
         /\ Port!Written(r, at, v) \in Port!Registers
         /\ Port!WasRead(r, at) \in Port!Registers
<1> USE DEF Port!Registers, Port!HPI_DATA, Port!HPI_MAILBOX, Port!HPI_ADDR,
        Port!HPI_STATUS
<1>1. at = 0 \/ at = 1 \/ at = 2 \/ at = 3
  OBVIOUS
<1>2. NextAddr(r.addr) \in Values
  BY DEF NextAddr
<1>3. Port!Shown(r, at) \in Values
  BY <1>1 DEF Port!Shown
<1>4. Port!Written(r, at, v) \in Port!Registers
  BY <1>1, <1>2 DEF Port!Written
<1>5. Port!WasRead(r, at) \in Port!Registers
  BY <1>1, <1>2 DEF Port!WasRead
<1> QED
  BY <1>3, <1>4, <1>5

(* Whoever drives the bus, there is a word on it.                          *)
LEMMA BusWords ==
  ASSUME TypeInv, WordsInv PROVE OTG_DATA \subseteq Values
<1>1. pio.data \in Values /\ Port!Shown(regs, intf.OTG_ADDR) \in Values
  BY PortFacts, WiresAssumption DEF TypeInv, Pins, WordsInv
<1> QED
  BY <1>1 DEF OTG_DATA, WordsInv

LEMMA WordsStep ==
  ASSUME TypeInv, WordsInv, WiresNext PROVE WordsInv'
<1>1. PICK b \in OTG_DATA : Interface(b) /\ Strobes(b)
  BY DEF WiresNext, Hardware
<1>2. b \in Values
  BY <1>1, BusWords
<1>3. AfterWrite(b) \in Port!Registers
  BY <1>2, PortFacts DEF AfterWrite, WordsInv
<1>4. regs' \in Port!Registers
  BY <1>1, <1>2, <1>3, PortFacts DEF Strobes, WordsInv
<1>5. strobed' \in 0 .. AccessTime
  BY <1>1, WiresAssumption DEF Strobes, WordsInv
<1>6. accesses' \in Nat
  BY DEF WiresNext, Program, Busy, PioAccess, Return, Call, Count, WordsInv
<1>7. /\ intf' \in [tmp_data : Values, OTG_ADDR : 0 .. 3, OTG_RD_N : {0, 1},
                    OTG_WR_N : {0, 1}, OTG_CS_N : {0, 1},
                    from_sw_data_in : Values]
      /\ charge' \in Values /\ floating' \in BOOLEAN
  BY <1>1, <1>2 DEF Interface, TypeInv, Pins
<1> QED
  BY <1>4, <1>5, <1>6, <1>7 DEF WordsInv

(* Without the end of a strobe the chip keeps its registers.               *)
LEMMA NothingEnds ==
  ASSUME Hardware, ~Ended PROVE regs' = regs
  BY DEF Hardware, Strobes, AfterWrite, Ended

(* Where a call stands is how many accesses it has left.                   *)
LEMMA WriteShape ==
  ASSUME TypeInv, Stage, call.op = "write"
  PROVE  /\ Left \in {0, 1, 2, 3, 4, 5, 6}
         /\ pio.r = 1 /\ (Left \notin {2, 3} => pio.w = 1)
         /\ todo = <<>> <=> Left = 0
         /\ PioAccess => Left # 0 /\ Left' = Left - 1
         /\ PioAccess =>
              /\ Left = 6 => pio' = [pio EXCEPT !.address = call.at]
              /\ Left = 5 => pio' = [pio EXCEPT !.cs = 0]
              /\ Left = 4 => pio' = [pio EXCEPT !.w = 0]
              /\ Left = 3 => pio' = [pio EXCEPT !.data = call.data]
              /\ Left = 2 => pio' = [pio EXCEPT !.w = 1]
              /\ Left = 1 => pio' = [pio EXCEPT !.cs = 1]
<1>1. WriteStage /\ pio.r = 1
  BY DEF Stage, WriteStage
<1>2. CASE todo = IO_write(call.at, call.data) /\ pio.w = 1
  <2>1. Left = 6 /\ todo # <<>> /\ pio.w = 1
    BY <1>2 DEF Left, IO_write, Out, In
  <2>2. PioAccess =>
          /\ Left' = 5
          /\ pio' = [pio EXCEPT !.address = call.at]
    BY <1>2 DEF Left, IO_write, Out, In, PioAccess
  <2> QED
    BY <1>1, <2>1, <2>2
<1>3. CASE todo = <<Out("cs", 0), Out("w", 0), Out("data", call.data),
                    Out("w", 1), Out("cs", 1)>> /\ pio.w = 1
  <2>1. Left = 5 /\ todo # <<>> /\ pio.w = 1
    BY <1>3 DEF Left, Out, In
  <2>2. PioAccess =>
          /\ Left' = 4
          /\ pio' = [pio EXCEPT !.cs = 0]
    BY <1>3 DEF Left, Out, In, PioAccess
  <2> QED
    BY <1>1, <2>1, <2>2
<1>4. CASE todo = <<Out("w", 0), Out("data", call.data), Out("w", 1),
                    Out("cs", 1)>> /\ pio.w = 1
  <2>1. Left = 4 /\ todo # <<>> /\ pio.w = 1
    BY <1>4 DEF Left, Out, In
  <2>2. PioAccess =>
          /\ Left' = 3
          /\ pio' = [pio EXCEPT !.w = 0]
    BY <1>4 DEF Left, Out, In, PioAccess
  <2> QED
    BY <1>1, <2>1, <2>2
<1>5. CASE todo = <<Out("data", call.data), Out("w", 1), Out("cs", 1)>>
  <2>1. Left = 3 /\ todo # <<>>
    BY <1>5 DEF Left, Out, In
  <2>2. PioAccess =>
          /\ Left' = 2
          /\ pio' = [pio EXCEPT !.data = call.data]
    BY <1>5 DEF Left, Out, In, PioAccess
  <2> QED
    BY <1>1, <2>1, <2>2
<1>6. CASE todo = <<Out("w", 1), Out("cs", 1)>>
  <2>1. Left = 2 /\ todo # <<>>
    BY <1>6 DEF Left, Out, In
  <2>2. PioAccess =>
          /\ Left' = 1
          /\ pio' = [pio EXCEPT !.w = 1]
    BY <1>6 DEF Left, Out, In, PioAccess
  <2> QED
    BY <1>1, <2>1, <2>2
<1>7. CASE todo = <<Out("cs", 1)>> /\ pio.w = 1
  <2>1. Left = 1 /\ todo # <<>> /\ pio.w = 1
    BY <1>7 DEF Left, Out, In
  <2>2. PioAccess =>
          /\ Left' = 0
          /\ pio' = [pio EXCEPT !.cs = 1]
    BY <1>7 DEF Left, Out, In, PioAccess
  <2> QED
    BY <1>1, <2>1, <2>2
<1>8. CASE todo = <<>> /\ pio.w = 1
  <2>1. Left = 0 /\ todo = <<>> /\ pio.w = 1
    BY <1>8 DEF Left, Out, In
  <2>2. ~PioAccess
    BY <1>8 DEF PioAccess
  <2> QED
    BY <1>1, <2>1, <2>2
<1> QED
  BY <1>1, <1>2, <1>3, <1>4, <1>5, <1>6, <1>7, <1>8 DEF WriteStage

LEMMA ReadShape ==
  ASSUME TypeInv, Stage, call.op = "read"
  PROVE  /\ Left \in {0, 1, 2, 3, 4, 5, 6}
         /\ pio.w = 1 /\ (Left \notin {2, 3} => pio.r = 1)
         /\ todo = <<>> <=> Left = 0
         /\ PioAccess => Left # 0 /\ Left' = Left - 1
         /\ PioAccess =>
              /\ Left = 6 => pio' = [pio EXCEPT !.address = call.at]
              /\ Left = 5 => pio' = [pio EXCEPT !.cs = 0]
              /\ Left = 4 => pio' = [pio EXCEPT !.r = 0]
              /\ Left = 3 => pio' = pio
              /\ Left = 2 => pio' = [pio EXCEPT !.r = 1]
              /\ Left = 1 => pio' = [pio EXCEPT !.cs = 1]
         /\ PioAccess => temp' = IF Left = 3 THEN readdata ELSE temp
<1>1. ReadStage /\ pio.w = 1
  BY DEF Stage, ReadStage
<1>2. CASE todo = IO_read(call.at) /\ pio.r = 1
  <2>1. Left = 6 /\ todo # <<>> /\ pio.r = 1
    BY <1>2 DEF Left, IO_read, Out, In
  <2>2. PioAccess =>
          /\ Left' = 5
          /\ pio' = [pio EXCEPT !.address = call.at]
          /\ temp' = temp
    BY <1>2 DEF Left, IO_read, Out, In, PioAccess
  <2> QED
    BY <1>1, <2>1, <2>2
<1>3. CASE todo = <<Out("cs", 0), Out("r", 0), In, Out("r", 1), Out("cs", 1)>> /\ pio.r = 1
  <2>1. Left = 5 /\ todo # <<>> /\ pio.r = 1
    BY <1>3 DEF Left, Out, In
  <2>2. PioAccess =>
          /\ Left' = 4
          /\ pio' = [pio EXCEPT !.cs = 0]
          /\ temp' = temp
    BY <1>3 DEF Left, Out, In, PioAccess
  <2> QED
    BY <1>1, <2>1, <2>2
<1>4. CASE todo = <<Out("r", 0), In, Out("r", 1), Out("cs", 1)>> /\ pio.r = 1
  <2>1. Left = 4 /\ todo # <<>> /\ pio.r = 1
    BY <1>4 DEF Left, Out, In
  <2>2. PioAccess =>
          /\ Left' = 3
          /\ pio' = [pio EXCEPT !.r = 0]
          /\ temp' = temp
    BY <1>4 DEF Left, Out, In, PioAccess
  <2> QED
    BY <1>1, <2>1, <2>2
<1>5. CASE todo = <<In, Out("r", 1), Out("cs", 1)>>
  <2>1. Left = 3 /\ todo # <<>>
    BY <1>5 DEF Left, Out, In
  <2>2. PioAccess =>
          /\ Left' = 2
          /\ pio' = pio
          /\ temp' = readdata
    BY <1>5 DEF Left, Out, In, PioAccess
  <2> QED
    BY <1>1, <2>1, <2>2
<1>6. CASE todo = <<Out("r", 1), Out("cs", 1)>>
  <2>1. Left = 2 /\ todo # <<>>
    BY <1>6 DEF Left, Out, In
  <2>2. PioAccess =>
          /\ Left' = 1
          /\ pio' = [pio EXCEPT !.r = 1]
          /\ temp' = temp
    BY <1>6 DEF Left, Out, In, PioAccess
  <2> QED
    BY <1>1, <2>1, <2>2
<1>7. CASE todo = <<Out("cs", 1)>> /\ pio.r = 1
  <2>1. Left = 1 /\ todo # <<>> /\ pio.r = 1
    BY <1>7 DEF Left, Out, In
  <2>2. PioAccess =>
          /\ Left' = 0
          /\ pio' = [pio EXCEPT !.cs = 1]
          /\ temp' = temp
    BY <1>7 DEF Left, Out, In, PioAccess
  <2> QED
    BY <1>1, <2>1, <2>2
<1>8. CASE todo = <<>> /\ pio.r = 1
  <2>1. Left = 0 /\ todo = <<>> /\ pio.r = 1
    BY <1>8 DEF Left, Out, In
  <2>2. ~PioAccess
    BY <1>8 DEF PioAccess
  <2> QED
    BY <1>1, <2>1, <2>2
<1> QED
  BY <1>1, <1>2, <1>3, <1>4, <1>5, <1>6, <1>7, <1>8 DEF ReadStage

(* What a period of the hardware does with the registers, the bus and the  *)
(* chip.                                                                   *)
LEMMA HardwareFacts ==
  ASSUME Hardware
  PROVE  /\ intf'.tmp_data = pio.data /\ intf'.OTG_ADDR = pio.address
         /\ intf'.OTG_CS_N = pio.cs /\ intf'.OTG_RD_N = pio.r
         /\ intf'.OTG_WR_N = pio.w
         /\ readdata' = intf.from_sw_data_in
         /\ HostDrives /\ ~ReadStrobe => ~floating' /\ charge' = intf.tmp_data
         /\ ~HostDrives /\ ReadStrobe /\ strobed = AccessTime =>
              intf'.from_sw_data_in = Port!Shown(regs, intf.OTG_ADDR)
         /\ strobed' = IF ~(ReadStrobe /\ ReadStrobe') THEN 0
                       ELSE IF strobed < AccessTime THEN strobed + 1 ELSE strobed
         /\ /\ ~HostDrives /\ ~floating
            /\ WriteStrobe /\ ~WriteStrobe' /\ ~ReadStrobe
            => regs' = Port!Written(regs, intf.OTG_ADDR, charge)
         /\ ReadStrobe /\ ~ReadStrobe' /\ ~WriteStrobe =>
              regs' = Port!WasRead(regs, intf.OTG_ADDR)
<1>1. PICK b \in OTG_DATA : Interface(b) /\ Strobes(b)
  BY DEF Hardware
<1>2. HostDrives /\ ~ReadStrobe => b = intf.tmp_data
  BY <1>1 DEF OTG_DATA
<1>3. ~HostDrives /\ ReadStrobe /\ strobed = AccessTime =>
        b = Port!Shown(regs, intf.OTG_ADDR)
  BY <1>1, SetupGap DEF OTG_DATA
<1>4. ~HostDrives /\ ~floating /\ ~ReadStrobe => b = charge
  BY <1>1 DEF OTG_DATA
<1>5. /\ intf' = [tmp_data |-> pio.data, OTG_ADDR |-> pio.address,
                  OTG_RD_N |-> pio.r, OTG_WR_N |-> pio.w, OTG_CS_N |-> pio.cs,
                  from_sw_data_in |-> b]
      /\ readdata' = intf.from_sw_data_in
      /\ charge' = b
      /\ floating' = (~HostDrives /\ ~ReadStrobe)
  BY <1>1 DEF Interface
<1>6. /\ strobed' = IF ~(ReadStrobe /\ ReadStrobe') THEN 0
                    ELSE IF strobed < AccessTime THEN strobed + 1 ELSE strobed
      /\ WriteStrobe /\ ~WriteStrobe' /\ ~ReadStrobe =>
           regs' = Port!Written(regs, intf.OTG_ADDR, b)
      /\ ReadStrobe /\ ~ReadStrobe' /\ ~WriteStrobe =>
           regs' = Port!WasRead(regs, intf.OTG_ADDR)
  BY <1>1 DEF Strobes, AfterWrite
<1>7. HostDrives /\ ~ReadStrobe => ~floating' /\ charge' = intf.tmp_data
  BY <1>2, <1>5, Zenon
<1> QED
  BY <1>2, <1>3, <1>4, <1>5, <1>6, <1>7

(* With the registers settled, nothing at the chip changes.                *)
LEMMA SettledQuiet ==
  ASSUME Hardware, Settled PROVE ~Ended /\ regs' = regs
<1>1. ~Ended
  BY HardwareFacts DEF Settled, Ended, WriteStrobe, ReadStrobe
<1> QED
  BY <1>1, NothingEnds

(* Nor while neither strobe is low.                                        *)
LEMMA HighQuiet ==
  ASSUME Hardware, intf.OTG_WR_N = 1, intf.OTG_RD_N = 1
  PROVE  ~Ended /\ regs' = regs
<1>1. ~Ended
  BY DEF Ended, WriteStrobe, ReadStrobe
<1> QED
  BY <1>1, NothingEnds

AllInv == WiresInv /\ WordsInv /\ Progress

(* A clock without an access of the program: the chip makes the access of  *)
(* a call of IO_write in the one in which its strobe ends, and in no other.*)
LEMMA WriteBusy ==
  ASSUME AllInv, Hardware, Busy, call.op = "write"
  PROVE  WriteProgress' /\ [Port!Access]_Port!portVars
<1>1. /\ call' = call /\ todo' = todo /\ Left' = Left
      /\ pio' = pio /\ temp' = temp
      /\ gap' = IF gap < MinGap THEN gap + 1 ELSE gap
      /\ gap \in 0 .. MinGap
  BY DEF Busy, AllInv, WiresInv, TypeInv, Left
<1>2. WriteProgress /\ Left \in {0, 1, 2, 3, 4, 5, 6} /\ pio.r = 1
      /\ (Left \notin {2, 3} => pio.w = 1)
  BY WriteShape DEF AllInv, WiresInv, Progress
<1>3. CASE gap = 0 /\ Left = 1
  <2>1. /\ WriteStrobe /\ ~WriteStrobe' /\ ~ReadStrobe /\ ~ReadStrobe'
        /\ ~HostDrives /\ ~floating /\ intf.OTG_ADDR = call.at
        /\ charge = call.data
    BY <1>2, <1>3, HardwareFacts
       DEF WriteProgress, WriteStrobe, ReadStrobe, HostDrives
  <2>2. regs' = Port!Written(regs, call.at, call.data)
    BY <2>1, HardwareFacts
  <2>3. accesses = 0 /\ accesses' = 1
    BY <1>2, <1>3, <2>1 DEF WriteProgress, Made, Busy, Count, Ended
  <2>4. call \in Port!Calls
    BY CallFacts DEF AllInv, WiresInv, TypeInv
  <2>5. Port!Access
    BY <1>1, <2>2, <2>3, <2>4 DEF Port!Access
  <2>6. WriteProgress'
    BY <1>1, <1>2, <1>3, <2>3, HardwareFacts DEF WriteProgress, Made
  <2> QED
    BY <2>5, <2>6
<1>4. CASE ~(gap = 0 /\ Left = 1)
  <2>1. ~Ended
    <3>1. CASE gap >= 1
      BY <3>1, SettledQuiet DEF AllInv, Progress
    <3>2. CASE gap = 0 /\ Left = 2
      BY <1>2, <3>2, HardwareFacts DEF WriteProgress, Ended, WriteStrobe, ReadStrobe
    <3>3. CASE gap = 0 /\ Left # 2
      <4>1. Left \in {0, 1, 2, 3, 4, 5, 6} /\ Left # 1 /\ Left # 2
        BY <1>2, <1>4, <3>3
      <4>2. Left \in {0, 3, 4, 5, 6}
        BY <4>1
      <4>3. intf.OTG_WR_N = 1 /\ intf.OTG_RD_N = 1
        BY <1>2, <3>3, <4>2 DEF WriteProgress
      <4> QED
        BY <4>3, HighQuiet
    <3> QED
      BY <1>1, <3>1, <3>2, <3>3
  <2>2. regs' = regs /\ accesses' = accesses
    BY <2>1, NothingEnds DEF Busy, Count
  <2>3. UNCHANGED Port!portVars
    BY <1>1, <2>2 DEF Port!portVars
  <2>4. WriteProgress'
    <3>1. accesses' = Made'
      BY <1>1, <1>2, <1>4, <2>2 DEF WriteProgress, Made
    <3>2. gap' >= 1
      BY <1>1
    <3>3. Left \in {0, 4, 5, 6} => intf'.OTG_WR_N = 1
      BY <1>2, HardwareFacts
    <3> QED
      BY <1>1, <1>2, <3>1, <3>2, <3>3, HardwareFacts DEF WriteProgress
  <2> QED
    BY <2>3, <2>4
<1> QED
  BY <1>3, <1>4

(* The same of IO_read, and the word on its way from the chip.             *)
LEMMA ReadBusy ==
  ASSUME AllInv, Hardware, Busy, call.op = "read"
  PROVE  ReadProgress' /\ [Port!Access]_Port!portVars
<1>1. /\ call' = call /\ todo' = todo /\ Left' = Left
      /\ pio' = pio /\ temp' = temp
      /\ gap' = IF gap < MinGap THEN gap + 1 ELSE gap
      /\ gap \in 0 .. MinGap
  BY DEF Busy, AllInv, WiresInv, TypeInv, Left
<1>2. ReadProgress /\ Left \in {0, 1, 2, 3, 4, 5, 6} /\ pio.w = 1
      /\ (Left \notin {2, 3} => pio.r = 1)
  BY ReadShape DEF AllInv, WiresInv, Progress
<1>3. CASE gap = 0 /\ Left = 1
  <2>1. /\ ReadStrobe /\ ~ReadStrobe' /\ ~WriteStrobe /\ intf.OTG_ADDR = call.at
        /\ temp = Port!Shown(regs, call.at)
    BY <1>2, <1>3, HardwareFacts DEF ReadProgress, WriteStrobe, ReadStrobe
  <2>2. regs' = Port!WasRead(regs, call.at)
    BY <2>1, HardwareFacts
  <2>3. accesses = 0 /\ accesses' = 1
    BY <1>2, <1>3, <2>1 DEF ReadProgress, Made, Busy, Count, Ended
  <2>4. call \in Port!Calls
    BY CallFacts DEF AllInv, WiresInv, TypeInv
  <2>5. Port!Access
    BY <1>1, <2>1, <2>2, <2>3, <2>4 DEF Port!Access
  <2>6. ReadProgress'
    BY <1>1, <1>2, <1>3, <2>3, HardwareFacts DEF ReadProgress, Made
  <2> QED
    BY <2>5, <2>6
<1>4. CASE ~(gap = 0 /\ Left = 1)
  <2>1. ~Ended
    <3>1. CASE gap >= 1
      BY <3>1, SettledQuiet DEF AllInv, Progress
    <3>2. CASE gap = 0 /\ Left = 2
      BY <1>2, <3>2, HardwareFacts DEF ReadProgress, Ended, WriteStrobe, ReadStrobe
    <3>3. CASE gap = 0 /\ Left # 2
      <4>1. Left \in {0, 1, 2, 3, 4, 5, 6} /\ Left # 1 /\ Left # 2
        BY <1>2, <1>4, <3>3
      <4>2. Left \in {0, 3, 4, 5, 6}
        BY <4>1
      <4>3. intf.OTG_WR_N = 1 /\ intf.OTG_RD_N = 1
        BY <1>2, <3>3, <4>2 DEF ReadProgress
      <4> QED
        BY <4>3, HighQuiet
    <3> QED
      BY <1>1, <3>1, <3>2, <3>3
  <2>2. regs' = regs /\ accesses' = accesses
    BY <2>1, NothingEnds DEF Busy, Count
  <2>3. UNCHANGED Port!portVars
    BY <1>1, <2>2 DEF Port!portVars
  <2>4. ASSUME Left = 3
        PROVE  /\ gap' >= 1 => strobed' = AccessTime \/ strobed' + 1 >= gap'
               /\ gap' >= AccessTime + 2 =>
                    intf'.from_sw_data_in = Port!Shown(regs, call.at)
               /\ gap' >= AccessTime + 3 => readdata' = Port!Shown(regs, call.at)
    <3>1. pio.r = 0 /\ pio.cs = 0 /\ pio.address = call.at
      BY <1>2, <2>4 DEF ReadProgress
    <3>2. CASE gap = 0
      BY <1>1, <3>2, SetupGap, WiresAssumption, HardwareFacts DEF AllInv, WordsInv
    <3>3. CASE gap >= 1
      <4>1. ReadStrobe /\ ReadStrobe' /\ ~HostDrives /\ intf.OTG_ADDR = call.at
        BY <1>2, <3>1, <3>3, HardwareFacts
           DEF AllInv, Progress, Settled, ReadStrobe, HostDrives
      <4>2. /\ strobed = AccessTime \/ strobed + 1 >= gap
            /\ gap >= AccessTime + 2 =>
                 intf.from_sw_data_in = Port!Shown(regs, call.at)
            /\ gap >= AccessTime + 3 => readdata = Port!Shown(regs, call.at)
        BY <1>2, <2>4, <3>3 DEF ReadProgress
      <4>3. strobed' = IF strobed < AccessTime THEN strobed + 1 ELSE strobed
        BY <4>1, HardwareFacts
      <4>4. strobed' = AccessTime \/ strobed' + 1 >= gap'
        BY <1>1, <4>2, <4>3, SetupGap DEF AllInv, WordsInv
      <4>5. gap' >= AccessTime + 2 => strobed = AccessTime
        BY <1>1, <4>2, SetupGap DEF AllInv, WordsInv
      <4>6. gap' >= AccessTime + 2 =>
              intf'.from_sw_data_in = Port!Shown(regs, call.at)
        BY <4>1, <4>5, HardwareFacts
      <4>7. gap' >= AccessTime + 3 => gap >= AccessTime + 2
        BY <1>1, SetupGap
      <4>8. gap' >= AccessTime + 3 => readdata' = Port!Shown(regs, call.at)
        BY <1>1, <4>2, <4>7, HardwareFacts
      <4> QED
        BY <4>4, <4>6, <4>8
    <3> QED
      BY <1>1, <3>2, <3>3
  <2>5. ReadProgress'
    <3>1. accesses' = Made'
      BY <1>1, <1>2, <1>4, <2>2 DEF ReadProgress, Made
    <3>2. gap' >= 1
      BY <1>1
    <3>3. Left \in {0, 4, 5, 6} => intf'.OTG_RD_N = 1
      BY <1>2, HardwareFacts
    <3> QED
      BY <1>1, <1>2, <1>4, <2>2, <2>4, <3>1, <3>2, <3>3, HardwareFacts DEF ReadProgress
  <2> QED
    BY <2>3, <2>5
<1> QED
  BY <1>3, <1>4

(* An access of the program finds the registers settled.                   *)
LEMMA AccessQuiet ==
  ASSUME AllInv, Hardware, PioAccess
  PROVE  /\ regs' = regs /\ accesses' = accesses /\ Settled /\ gap >= 1
         /\ call' = call /\ gap' = 0 /\ gap = MinGap
<1>1. gap = MinGap /\ gap >= 1
  BY SetupGap DEF PioAccess
<1>2. Settled
  BY <1>1 DEF AllInv, Progress
<1> QED
  BY <1>1, <1>2, SettledQuiet DEF PioAccess, Count

LEMMA WriteAccess ==
  ASSUME AllInv, Hardware, PioAccess, call.op = "write"
  PROVE  WriteProgress' /\ UNCHANGED Port!portVars
<1>1. WriteProgress
  BY DEF AllInv, Progress
<1>2. UNCHANGED Port!portVars
  BY AccessQuiet DEF Port!portVars
<1>3. /\ Left \in {1, 2, 3, 4, 5, 6} /\ Left' = Left - 1
      /\ pio \in Pins
  BY WriteShape DEF AllInv, WiresInv, TypeInv
<1>4. WriteProgress'
  <2>1. CASE Left = 6
    <3>1. pio' = [pio EXCEPT !.address = call.at]
      BY <2>1, WriteShape DEF AllInv, WiresInv
    <3> QED
      BY <1>1, <1>3, <2>1, <3>1, AccessQuiet, HardwareFacts
         DEF WriteProgress, Settled, Made, WriteStrobe, ReadStrobe, HostDrives, Pins
  <2>2. CASE Left = 5
    <3>1. pio' = [pio EXCEPT !.cs = 0]
      BY <2>2, WriteShape DEF AllInv, WiresInv
    <3> QED
      BY <1>1, <1>3, <2>2, <3>1, AccessQuiet, HardwareFacts
         DEF WriteProgress, Settled, Made, WriteStrobe, ReadStrobe, HostDrives, Pins
  <2>3. CASE Left = 4
    <3>1. pio' = [pio EXCEPT !.w = 0]
      BY <2>3, WriteShape DEF AllInv, WiresInv
    <3> QED
      BY <1>1, <1>3, <2>3, <3>1, AccessQuiet, HardwareFacts
         DEF WriteProgress, Settled, Made, WriteStrobe, ReadStrobe, HostDrives, Pins
  <2>4. CASE Left = 3
    <3>1. pio' = [pio EXCEPT !.data = call.data]
      BY <2>4, WriteShape DEF AllInv, WiresInv
    <3> QED
      BY <1>1, <1>3, <2>4, <3>1, AccessQuiet, HardwareFacts
         DEF WriteProgress, Settled, Made, WriteStrobe, ReadStrobe, HostDrives, Pins
  <2>5. CASE Left = 2
    <3>1. pio' = [pio EXCEPT !.w = 1]
      BY <2>5, WriteShape DEF AllInv, WiresInv
    <3>2. Left' = 1 /\ gap' = 0 /\ call' = call /\ accesses' = 0
      BY <1>1, <1>3, <2>5, AccessQuiet DEF WriteProgress, Made
    <3>3. /\ pio.w = 0 /\ pio.cs = 0 /\ pio.address = call.at
          /\ pio.data = call.data /\ pio.r = 1
          /\ intf.tmp_data = call.data /\ intf.OTG_RD_N = 1
      BY <1>1, <1>3, <2>5, AccessQuiet, WriteShape
         DEF WriteProgress, Settled, AllInv, WiresInv
    <3>4. WriteStrobe' /\ intf'.OTG_ADDR = call.at /\ intf'.OTG_RD_N = 1
      BY <3>3, HardwareFacts DEF WriteStrobe
    <3>5. ~floating' /\ charge' = call.data
      BY <3>3, HardwareFacts DEF HostDrives, ReadStrobe
    <3>6. pio'.address = call.at /\ pio'.cs = 0 /\ pio'.data = call.data
      BY <1>3, <3>1, <3>3 DEF Pins
    <3> QED
      BY <1>3, <2>5, <3>2, <3>4, <3>5, <3>6 DEF WriteProgress, Made
  <2>6. CASE Left = 1
    <3>1. pio' = [pio EXCEPT !.cs = 1]
      BY <2>6, WriteShape DEF AllInv, WiresInv
    <3>2. Left' = 0 /\ gap' = 0 /\ call' = call /\ accesses' = 1
      BY <1>1, <1>3, <2>6, AccessQuiet DEF WriteProgress, Made
    <3>3. /\ pio.w = 1 /\ pio.r = 1 /\ pio.address = call.at
          /\ pio.data = call.data
      BY <1>1, <2>6, WriteShape DEF WriteProgress, AllInv, WiresInv
    <3>4. intf'.OTG_WR_N = 1 /\ intf'.OTG_RD_N = 1
      BY <3>3, HardwareFacts
    <3>5. pio'.address = call.at /\ pio'.data = call.data
      BY <1>3, <3>1, <3>3 DEF Pins
    <3> QED
      BY <3>2, <3>4, <3>5 DEF WriteProgress, Made
  <2> QED
    BY <1>3, <2>1, <2>2, <2>3, <2>4, <2>5, <2>6
<1> QED
  BY <1>2, <1>4

LEMMA ReadAccess ==
  ASSUME AllInv, Hardware, PioAccess, call.op = "read"
  PROVE  ReadProgress' /\ UNCHANGED Port!portVars
<1>1. ReadProgress
  BY DEF AllInv, Progress
<1>2. /\ Left \in {1, 2, 3, 4, 5, 6} /\ Left' = Left - 1
      /\ pio \in Pins
      /\ temp' = IF Left = 3 THEN readdata ELSE temp
  BY ReadShape DEF AllInv, WiresInv, TypeInv
<1>3. accesses = 0 \/ Left = 1
  BY <1>1, <1>2 DEF ReadProgress, Made
<1>4. UNCHANGED Port!portVars
  BY <1>2, <1>3, AccessQuiet DEF Port!portVars
<1>5. Left = 3 => readdata = Port!Shown(regs, call.at)
  BY <1>1, AccessQuiet, SetupGap DEF ReadProgress
<1>6. ReadProgress'
  <2>1. CASE Left = 6
    <3>1. pio' = [pio EXCEPT !.address = call.at]
      BY <2>1, ReadShape DEF AllInv, WiresInv
    <3> QED
      BY <1>1, <1>2, <2>1, <3>1, AccessQuiet, HardwareFacts
         DEF ReadProgress, Settled, Made, WriteStrobe, ReadStrobe, HostDrives, Pins
  <2>2. CASE Left = 5
    <3>1. pio' = [pio EXCEPT !.cs = 0]
      BY <2>2, ReadShape DEF AllInv, WiresInv
    <3> QED
      BY <1>1, <1>2, <2>2, <3>1, AccessQuiet, HardwareFacts
         DEF ReadProgress, Settled, Made, WriteStrobe, ReadStrobe, HostDrives, Pins
  <2>3. CASE Left = 4
    <3>1. pio' = [pio EXCEPT !.r = 0]
      BY <2>3, ReadShape DEF AllInv, WiresInv
    <3> QED
      BY <1>1, <1>2, <2>3, <3>1, AccessQuiet, HardwareFacts, SetupGap
         DEF ReadProgress, Settled, Made, WriteStrobe, ReadStrobe, HostDrives, Pins
  <2>4. CASE Left = 3
    <3>1. pio' = pio
      BY <2>4, ReadShape DEF AllInv, WiresInv
    <3> QED
      BY <1>1, <1>2, <2>4, <3>1, <1>5, AccessQuiet, HardwareFacts
         DEF ReadProgress, Settled, Made, WriteStrobe, ReadStrobe, HostDrives, Pins
  <2>5. CASE Left = 2
    <3>1. pio' = [pio EXCEPT !.r = 1]
      BY <2>5, ReadShape DEF AllInv, WiresInv
    <3>2. Left' = 1 /\ gap' = 0 /\ call' = call /\ accesses' = 0
      BY <1>1, <1>2, <2>5, AccessQuiet DEF ReadProgress, Made
    <3> QED
      BY <1>1, <1>2, <2>5, <3>1, <3>2, AccessQuiet, HardwareFacts
         DEF ReadProgress, Settled, Made, WriteStrobe, ReadStrobe, HostDrives, Pins
  <2>6. CASE Left = 1
    <3>1. pio' = [pio EXCEPT !.cs = 1]
      BY <2>6, ReadShape DEF AllInv, WiresInv
    <3>2. Left' = 0 /\ gap' = 0 /\ call' = call /\ accesses' = 1
      BY <1>1, <1>2, <2>6, AccessQuiet DEF ReadProgress, Made
    <3>3. pio.w = 1 /\ pio.r = 1 /\ pio.address = call.at
      BY <1>1, <2>6, ReadShape DEF ReadProgress, AllInv, WiresInv
    <3>4. intf'.OTG_WR_N = 1 /\ intf'.OTG_RD_N = 1
      BY <3>3, HardwareFacts
    <3>5. pio'.address = call.at
      BY <1>2, <3>1, <3>3 DEF Pins
    <3> QED
      BY <3>2, <3>4, <3>5 DEF ReadProgress, Made
  <2> QED
    BY <1>2, <2>1, <2>2, <2>3, <2>4, <2>5, <2>6
<1> QED
  BY <1>4, <1>6

-----------------------------------------------------------------------------
LEMMA WordsStart == WiresInit => WordsInv
<1> SUFFICES ASSUME WiresInit PROVE WordsInv
  OBVIOUS
<1>1. 0 \in 0 .. AccessTime /\ 0 \in 0 .. 3
  BY SetupGap
<1> QED
  BY <1>1, WiresAssumption DEF WiresInit, WordsInv

LEMMA ProgressStarts == WiresInit => Progress
<1> SUFFICES ASSUME WiresInit PROVE Progress
  OBVIOUS
<1>1. gap = 0 /\ call.op = "init"
  BY CallFacts DEF WiresInit
<1> QED
  BY <1>1 DEF Progress

LEMMA PortStarts == WiresInit => Port!PortInit
  BY CallFacts DEF WiresInit, Port!PortInit

(* Before the program calls, and during IO_init, whose strobes the chip    *)
(* may take for anything.                                                  *)
LEMMA OtherStep ==
  ASSUME AllInv, WiresNext, call.op \in {"init", "none"}, ~Call, ~Return
  PROVE  Progress' /\ [Port!PortNext]_Port!portVars
<1>1. Hardware /\ (Busy \/ PioAccess) /\ call' = call
  BY DEF WiresNext, Program, Busy, PioAccess
<1>2. WordsInv'
  BY WordsStep DEF AllInv, WiresInv
<1>3. CASE call.op = "init"
  <2>1. call = Port!Boot
    BY <1>3, CallFacts DEF AllInv, WiresInv, TypeInv
  <2>2. regs' \in Port!Registers
    BY <1>2 DEF WordsInv
  <2>3. Port!StartUp
    BY <1>1, <1>3, <2>1, <2>2 DEF Port!StartUp
  <2>4. gap' >= 1 => Settled'
    BY <1>1, HardwareFacts DEF Settled, Busy, PioAccess
  <2>5. Progress'
    BY <1>1, <1>3, <2>4 DEF Progress
  <2> QED
    BY <2>3, <2>5 DEF Port!PortNext
<1>4. CASE call.op = "none"
  <2>1. /\ todo = <<>> /\ pio.r = 1 /\ pio.w = 1
        /\ accesses = 0 /\ gap = MinGap
        /\ intf.OTG_RD_N = 1 /\ intf.OTG_WR_N = 1
    BY <1>4 DEF AllInv, WiresInv, Stage, Progress
  <2>2. Busy
    BY <1>1, <2>1 DEF PioAccess
  <2>3. ~Ended /\ regs' = regs
    BY <1>1, <2>1, HighQuiet
  <2>4. accesses' = accesses /\ gap' = gap /\ pio' = pio /\ temp' = temp
    BY <2>1, <2>2, <2>3 DEF Busy, Count
  <2>5. Progress'
    BY <1>1, <1>4, <2>1, <2>4, HardwareFacts DEF Progress, Settled
  <2>6. UNCHANGED Port!portVars
    BY <1>1, <1>4, <2>3, <2>4 DEF Port!portVars
  <2> QED
    BY <2>5, <2>6
<1> QED
  BY <1>3, <1>4

(* A call begins with nothing on its way, and returns with its access made.*)
LEMMA CallStep ==
  ASSUME AllInv, Hardware, Call
  PROVE  Progress' /\ Port!Call
<1>1. PICK c \in Port!Calls : call' = c /\ todo' = Body(c)
  BY DEF Call
<1>2. /\ call = Port!Idle /\ call.op = "none"
      /\ pio.r = 1 /\ pio.w = 1 /\ accesses = 0 /\ gap = MinGap
      /\ intf.OTG_RD_N = 1 /\ intf.OTG_WR_N = 1
  BY CallFacts DEF Call, AllInv, WiresInv, Stage, Progress
<1>3. ~Ended /\ regs' = regs
  BY <1>2, HighQuiet
<1>4. accesses' = accesses /\ gap' = gap /\ pio' = pio /\ temp' = temp
  BY <1>3 DEF Call, Count
<1>5. c.op \in {"write", "read"}
  BY CallFacts
<1>6. Left' = 6
  BY <1>1, <1>5 DEF Left, Body, IO_write, IO_read
<1>7. Settled' /\ intf'.OTG_RD_N = 1 /\ intf'.OTG_WR_N = 1
  BY <1>2, <1>4, HardwareFacts DEF Settled
<1>8. gap' # 0
  BY <1>2, <1>4, SetupGap
<1>9. Progress'
  BY <1>1, <1>2, <1>4, <1>5, <1>6, <1>7, <1>8
     DEF Progress, WriteProgress, ReadProgress, Made
<1>10. Port!Call
  BY <1>1, <1>2, <1>3, <1>4, <1>5 DEF Port!Call
<1> QED
  BY <1>9, <1>10

LEMMA ReturnStep ==
  ASSUME AllInv, Hardware, Return
  PROVE  Progress' /\ Port!Return
<1>1. /\ todo = <<>> /\ gap = MinGap /\ call # Port!Idle
      /\ call' = Port!Idle /\ accesses' = 0 /\ pio' = pio /\ gap' = gap
  BY DEF Return
<1>2. Settled
  BY <1>1, SetupGap DEF AllInv, Progress
<1>3. regs' = regs
  BY <1>2, SettledQuiet
<1>4. pio.r = 1 /\ pio.w = 1
  BY <1>1, CallFacts DEF AllInv, WiresInv, TypeInv, Stage, InitStage,
     WriteStage, ReadStage, IO_init, IO_write, IO_read
<1>5. Left = 0
  BY <1>1 DEF Left
<1>6. call.op \in {"write", "read"} => accesses = 1
  BY <1>5 DEF AllInv, Progress, WriteProgress, ReadProgress, Made
<1>7. call = Port!Boot \/ call.op \in {"write", "read"}
  BY <1>1, CallFacts DEF AllInv, WiresInv, TypeInv
<1>8. Port!Return
  BY <1>1, <1>3, <1>6, <1>7, CallFacts DEF Port!Return
<1>9. Progress'
  BY <1>1, <1>4, CallFacts, HardwareFacts DEF Progress, Settled
<1> QED
  BY <1>8, <1>9

(* A step of the wires is a step of the port, or none that it shows.       *)
LEMMA AccessStep ==
  ASSUME AllInv, [WiresNext]_wiresVars
  PROVE  AllInv' /\ [Port!PortNext]_Port!portVars
<1>1. WiresInv'
  BY InvStep DEF AllInv
<1>2. CASE WiresNext
  <2>1. WordsInv'
    BY <1>2, WordsStep DEF AllInv, WiresInv
  <2>2. Hardware
    BY <1>2 DEF WiresNext
  <2>3. CASE Call
    BY <1>1, <2>1, <2>2, <2>3, CallStep DEF AllInv, Port!PortNext
  <2>4. CASE Return
    BY <1>1, <2>1, <2>2, <2>4, ReturnStep DEF AllInv, Port!PortNext
  <2>5. CASE ~Call /\ ~Return /\ call.op \in {"init", "none"}
    BY <1>1, <1>2, <2>1, <2>5, OtherStep DEF AllInv
  <2>6. CASE ~Call /\ ~Return /\ call.op \in {"write", "read"}
    <3>1. Busy \/ PioAccess
      BY <1>2, <2>6 DEF WiresNext, Program
    <3>2. call' = call /\ (gap' >= 1 => Settled')
      BY <2>2, <3>1, HardwareFacts DEF Settled, Busy, PioAccess
    <3>3. CASE call.op = "write"
      <4>1. WriteProgress' /\ [Port!PortNext]_Port!portVars
        BY <2>2, <3>1, <3>3, WriteBusy, WriteAccess DEF Port!PortNext
      <4> QED
        BY <1>1, <2>1, <3>2, <3>3, <4>1 DEF AllInv, Progress
    <3>4. CASE call.op = "read"
      <4>1. ReadProgress' /\ [Port!PortNext]_Port!portVars
        BY <2>2, <3>1, <3>4, ReadBusy, ReadAccess DEF Port!PortNext
      <4> QED
        BY <1>1, <2>1, <3>2, <3>4, <4>1 DEF AllInv, Progress
    <3> QED
      BY <2>6, <3>3, <3>4
  <2>7. call.op \in {"init", "none", "write", "read"}
    BY CallFacts DEF AllInv, WiresInv, TypeInv
  <2> QED
    BY <2>3, <2>4, <2>5, <2>6, <2>7
<1>3. CASE UNCHANGED wiresVars
  <2>1. UNCHANGED Port!portVars
    BY <1>3 DEF wiresVars, Port!portVars
  <2>2. WordsInv' /\ Progress'
    BY <1>3 DEF wiresVars, pins, AllInv, WordsInv, Progress, WriteProgress,
       ReadProgress, Settled, Made, Left, WriteStrobe, ReadStrobe
  <2> QED
    BY <1>1, <2>1, <2>2 DEF AllInv
<1> QED
  BY <1>2, <1>3

(* The ports, the registers behind them and the bus turn every call of     *)
(* IO_write or IO_read into exactly one access to its register, with its   *)
(* word: for all words, and every access time that the program's pace      *)
(* leaves room for.                                                        *)
THEOREM EachCallOneAccess == WiresSpec => OneAccessPerCall
<1>1. WiresInit => AllInv /\ Port!PortInit
  BY InvStarts, WordsStart, ProgressStarts, PortStarts DEF AllInv
<1>2. AllInv /\ [WiresNext]_wiresVars => AllInv' /\ [Port!PortNext]_Port!portVars
  BY AccessStep
<1> QED
  BY <1>1, <1>2, PTL DEF WiresSpec, OneAccessPerCall, Port!PortSpec

=============================================================================
