----------------------------- MODULE Cy7c67200 -----------------------------
(***************************************************************************)
(* The USB controller on the board and the keyboard behind it, as far as   *)
(* main.c and usb.c rely on them.  The chip executes commands from its     *)
(* mailbox; it walks the list of descriptors that the word pCurrentTDPtr   *)
(* points to, a descriptor at a time, moves the pointer along, and posts   *)
(* TDListDone when the list ends or a descriptor fails; it posts a message *)
(* too when a device comes or goes.  Messages are bits of one register,    *)
(* and HPI_STATUS has a flag that is set by a message and cleared when the *)
(* register is read.  None of this is in the repository.                   *)
(***************************************************************************)
EXTENDS UsbRequests

CONSTANTS
  Keys,      \* the keycodes of reports
  Faults     \* bound: how often a device leaves, a transfer is retried, or
             \* the chip gets in while a list is being written

ASSUME ChipAssumption == Keys # {} /\ Faults \in Nat

VARIABLES
  cmd,       \* the mailbox command the chip executes
  mail,      \* what it has put into its mailbox
  msg,       \* the bits of the SIE1 message register
  msgFlag,   \* HPI_STATUS_SIE1msg_FLAG
  mem,       \* the descriptors in memory, by address, with their state
  packet,    \* the request in memory; "mixed" when parts of two are there
  third,     \* the word at 51Eh, third of what a poll reads
  ptr,       \* HUSB_SIE1_pCurrentTDPtr
  cur,       \* the descriptor being executed; 0 if none
  attached,  \* a keyboard is plugged in
  dev,       \* what it knows of the host
  answered,  \* ghost: the last request a keyboard acknowledged since a reset
  faults     \* faults left

chipVars ==
  <<cmd, mail, msg, msgFlag, mem, packet, third, ptr, cur,
    attached, dev, answered, faults>>

Names == {Requests[i].name : i \in DOMAIN Requests}
Addresses ==
  {Junk.at} \cup
  UNION {{Requests[i].list[j].at : j \in DOMAIN Requests[i].list} :
           i \in DOMAIN Requests}

(* The word of a descriptor that tells its state: 0013h when it is armed,  *)
(* 0003h when it was done at once, less when it was retried or given up.   *)
TDStates == {"armed", "done", "retried", "failed"}
NoTD == [td |-> Junk, state |-> "failed"]

Link == "link"      \* a word that is part of a descriptor, not of a report

(* A keyboard that has just been plugged in.                               *)
Fresh ==
  [address |-> 0, request |-> "none", configured |-> FALSE, toggle |-> 0]

ChipInit ==
  /\ cmd = "none" /\ mail = "garbage"
  /\ msg = {} /\ msgFlag = FALSE
  /\ mem = [a \in Addresses |-> NoTD] /\ packet = "none" /\ third = Link
  /\ ptr = 0 /\ cur = 0
  /\ attached \in BOOLEAN /\ dev = Fresh
  /\ answered = "none" /\ faults = Faults

(* A message joins what the host has not cleared.                          *)
Post(m) == msg' = msg \cup {m} /\ msgFlag' = TRUE

-----------------------------------------------------------------------------
(* Commands: COMM_RESET restarts the firmware; COMM_EXEC_INT initialises   *)
(* the port or resets the bus.                                             *)
Reset ==
  /\ cmd = "reset"
  /\ ptr' = 0 /\ cur' = 0 /\ mem' = [a \in Addresses |-> NoTD]
  /\ mail' \in {"ack", "garbage"}
  /\ UNCHANGED dev

Initialise ==
  /\ cmd = "init"
  /\ mail' = "ack"
  /\ UNCHANGED <<mem, ptr, cur, dev>>

ResetBus ==
  /\ cmd = "husb"
  /\ mail' = "ack" /\ dev' = Fresh
  /\ UNCHANGED <<mem, ptr, cur>>

Command ==
  /\ Reset \/ Initialise \/ ResetBus
  /\ cmd' = "none"
  /\ UNCHANGED <<msg, msgFlag, packet, third, attached, answered, faults>>

-----------------------------------------------------------------------------
(* The list.                                                               *)
Begin ==
  /\ cmd = "none" /\ ptr # 0 /\ cur = 0
  /\ cur' = ptr
  /\ UNCHANGED <<cmd, mail, msg, msgFlag, mem, packet, third, ptr,
                 attached, dev, answered, faults>>

TDAt(a) == mem[a].td

Answers(td) ==
  /\ attached /\ dev.address = Device(td)
  /\ CASE Kind(td) = "setup" -> TRUE
       [] Kind(td) \in {"in", "out"} -> dev.request # "none"
       [] Kind(td) = "poll" -> dev.configured
       [] OTHER -> FALSE

(* What the keyboard makes of a descriptor it answers.  The stage without  *)
(* data ends the request.                                                  *)
Effect(td) ==
  CASE Kind(td) = "setup" -> [dev EXCEPT !.request = packet]
    [] Kind(td) = "poll" -> [dev EXCEPT !.toggle = 1 - @]
    [] td.len > 0 -> dev
    [] OTHER ->
       [dev EXCEPT !.request = "none",
                   !.address = IF dev.request = "SetAddress" THEN 2 ELSE @,
                   !.configured = @ \/ dev.request = "SetConfig",
                   !.toggle = IF dev.request = "SetConfig" THEN 0 ELSE @]

(* A poll is answered when a key has changed; a report with the wrong      *)
(* toggle bit may be taken for one that was seen before.                   *)
Report(td) ==
  \E k \in Keys :
    third' \in IF Toggle(td) = dev.toggle THEN {k} ELSE {k, third}

Answered ==
  /\ cmd = "none" /\ cur # 0 /\ mem[cur].state = "armed"
  /\ LET td == TDAt(cur) IN
       /\ Answers(td)
       /\ \/ mem' = [mem EXCEPT ![cur].state = "done"] /\ UNCHANGED faults
          \/ /\ faults > 0 /\ faults' = faults - 1
             /\ mem' = [mem EXCEPT ![cur].state = "retried"]
       /\ dev' = Effect(td)
       /\ answered' =
            IF Kind(td) = "setup" THEN packet ELSE answered
       /\ IF Kind(td) = "poll" THEN Report(td) ELSE UNCHANGED third
  /\ UNCHANGED <<cmd, mail, msg, msgFlag, packet, ptr, cur, attached>>

(* A keyboard may know a request that is mixed from two, or refuse to do   *)
(* what it asks for.                                                       *)
Refused(td) == Kind(td) \in {"in", "out"} /\ dev.request = "mixed"

NotAnswered ==
  /\ cmd = "none" /\ cur # 0 /\ mem[cur].state = "armed"
  /\ Answers(TDAt(cur)) => Refused(TDAt(cur))
  /\ mem' = [mem EXCEPT ![cur].state = "failed"]
  /\ UNCHANGED <<cmd, mail, msg, msgFlag, packet, third, ptr, cur,
                 attached, dev, answered, faults>>

(* The chip moves the pointer along, whatever the host has put there.      *)
Advance ==
  /\ cmd = "none" /\ cur # 0 /\ mem[cur].state # "armed"
  /\ ptr' = IF mem[cur].state = "failed" THEN 0 ELSE TDAt(cur).next
  /\ cur' = ptr'
  /\ IF ptr' = 0 THEN Post("done") ELSE UNCHANGED <<msg, msgFlag>>
  /\ UNCHANGED <<cmd, mail, mem, packet, third, attached, dev,
                 answered, faults>>

Chip == Command \/ Begin \/ Answered \/ NotAnswered \/ Advance

-----------------------------------------------------------------------------
(* The cable.                                                              *)
Unplug ==
  /\ attached /\ faults > 0
  /\ attached' = FALSE /\ faults' = faults - 1
  /\ Post("change")
  /\ UNCHANGED <<cmd, mail, mem, packet, third, ptr, cur, dev,
                 answered>>

Plug ==
  /\ ~attached
  /\ attached' = TRUE /\ dev' = Fresh
  /\ Post("change")
  /\ UNCHANGED <<cmd, mail, mem, packet, third, ptr, cur,
                 answered, faults>>

=============================================================================
