------------------------------- MODULE HpiPort -------------------------------
(***************************************************************************)
(* What io_handler.c promises usb.c: the host port of the CY7C67200 as     *)
(* four registers, each call of IO_write or IO_read exactly one access to  *)
(* one of them.  It matters that it is one: an access to HPI_DATA moves    *)
(* the address on, a read of HPI_STATUS clears its flags.  Nothing is      *)
(* promised before IO_init has returned.                                   *)
(***************************************************************************)
EXTENDS Naturals

CONSTANTS Values, None

VARIABLES
  call,    \* the call in progress
  done,    \* its access has been made
  value,   \* what it has read
  regs     \* the chip: address, memory, mailbox, status

portVars == <<call, done, value, regs>>

HPI_DATA    == 0
HPI_MAILBOX == 1
HPI_ADDR    == 2
HPI_STATUS  == 3

Calls ==
  [op : {"write"}, at : {HPI_DATA, HPI_MAILBOX, HPI_ADDR}, data : Values]
    \cup [op : {"read"}, at : {HPI_DATA, HPI_MAILBOX, HPI_STATUS}, data : {None}]
Idle == [op |-> "none", at |-> HPI_DATA, data |-> None]
Boot == [op |-> "init", at |-> HPI_DATA, data |-> None]

(* A memory of a word per address; status is a flag to be seen once.       *)
Registers ==
  [addr : Values, mem : [Values -> Values], mailbox : Values, status : Values]

Shown(r, at) ==
  CASE at = HPI_DATA -> r.mem[r.addr]
    [] at = HPI_MAILBOX -> r.mailbox
    [] at = HPI_ADDR -> r.addr
    [] at = HPI_STATUS -> r.status

CONSTANTS
  NextAddr(_),   \* the address after an address
  NoFlags        \* the status without flags

Written(r, at, v) ==
  CASE at = HPI_DATA -> [r EXCEPT !.mem[r.addr] = v, !.addr = NextAddr(@)]
    [] at = HPI_MAILBOX -> [r EXCEPT !.mailbox = v]
    [] at = HPI_ADDR -> [r EXCEPT !.addr = v]
    [] at = HPI_STATUS -> r

WasRead(r, at) ==
  CASE at = HPI_DATA -> [r EXCEPT !.addr = NextAddr(@)]
    [] at = HPI_STATUS -> [r EXCEPT !.status = NoFlags]
    [] OTHER -> r

-----------------------------------------------------------------------------
PortInit == call = Boot /\ done = FALSE /\ value = None /\ regs \in Registers

StartUp ==
  /\ call = Boot
  /\ regs' \in Registers
  /\ UNCHANGED <<call, done, value>>

Call ==
  /\ call = Idle
  /\ call' \in Calls
  /\ UNCHANGED <<done, value, regs>>

Access ==
  /\ call \in Calls /\ ~done
  /\ done' = TRUE
  /\ \/ /\ call.op = "write"
        /\ regs' = Written(regs, call.at, call.data)
        /\ UNCHANGED value
     \/ /\ call.op = "read"
        /\ regs' = WasRead(regs, call.at)
        /\ value' = Shown(regs, call.at)
  /\ UNCHANGED call

Return ==
  /\ call = Boot \/ done
  /\ call' = Idle /\ done' = FALSE /\ value' = None
  /\ UNCHANGED regs

PortNext == StartUp \/ Call \/ Access \/ Return

PortSpec == PortInit /\ [][PortNext]_portVars

=============================================================================
