---------------------------- MODULE UsbKeyboard ----------------------------
(***************************************************************************)
(* main.c: bring up the port, take a keyboard through nine requests, then  *)
(* poll it and put its keycodes out.  usb.c waits for the controller by    *)
(* polling its status and message registers; those waits, what they        *)
(* conclude from what they find, and the lists that usb.c writes into the  *)
(* memory of the controller are modelled register access by register       *)
(* access, the chip going on between any two of them that it can tell      *)
(* apart.                                                                  *)
(***************************************************************************)
EXTENDS Cy7c67200

VARIABLES
  pc,        \* where main is
  step,      \* the request it is about; Polling after the last
  toggle,    \* toggle % 2
  val,       \* usb_ctl_val: what was last read from the message register
  written,   \* how many words of the list that is being written are there
  raced      \* ghost: since the last reset, the chip has been at the head of
             \* a list when main armed it for a request not yet in memory

mainVars == <<pc, step, toggle, val, written, raced>>
usbVars == <<chipVars, mainVars>>

Last == Len(Requests)
Polling == Last + 1
AfterInfo == 5      \* the request after which main reads the descriptors

Places ==
  {"plug", "clear", "init", "initack", "bus", "busack", "detect", "absent",
   "send", "point", "flag", "take", "wipe", "look",
   "retry", "rwipe", "rwait", "relook", "info", "handover", "poll",
   "key", "watch", "gone"}

UsbInit ==
  /\ ChipInit
  /\ pc = "plug" /\ step = 1 /\ toggle = 0 /\ val = {}
  /\ written = 0 /\ raced = FALSE

Goto(p) == pc' = p /\ UNCHANGED <<step, toggle, val, written, raced>>

(* What an action does not touch of the chip.                              *)
LeavesList == UNCHANGED <<mem, packet, third, ptr, cur>>
LeavesWorld == UNCHANGED <<attached, dev, answered, faults>>

-----------------------------------------------------------------------------
(* USB_HOT_PLUG: UsbSoftReset, which sleeps long enough for the chip to    *)
(* restart, reads what is pending, and clears the message register.        *)
SoftReset ==
  /\ pc = "plug"
  /\ cmd' = "reset"
  /\ pc' = "clear" /\ step' = 1
  /\ answered' = "none" /\ raced' = FALSE
  /\ LeavesList
  /\ UNCHANGED <<mail, msg, msgFlag, attached, dev, faults>>
  /\ UNCHANGED <<toggle, val, written>>

Clear ==
  /\ pc = "clear" /\ cmd = "none"
  /\ msgFlag' = FALSE /\ msg' = {}
  /\ Goto("init")
  /\ LeavesList /\ LeavesWorld /\ UNCHANGED <<cmd, mail>>

(* Step 1: HUSB_SIE1_INIT_INT, and its acknowledgement.                    *)
SieInit ==
  /\ pc = "init"
  /\ msg' = {}
  /\ cmd' = "init"
  /\ Goto("initack")
  /\ LeavesList /\ LeavesWorld /\ UNCHANGED <<mail, msgFlag>>

InitAck ==
  /\ pc = "initack" /\ (cmd = "none" \/ msgFlag)
  /\ Goto(IF mail = "ack" THEN "bus" ELSE "plug")
  /\ LeavesList /\ LeavesWorld /\ UNCHANGED <<cmd, mail, msg, msgFlag>>

(* Step 2: HUSB_RESET_INT.  The mailbox is read at once.                   *)
BusReset ==
  /\ pc = "bus"
  /\ cmd' = "husb"
  /\ Goto("busack")
  /\ LeavesList /\ LeavesWorld /\ UNCHANGED <<mail, msg, msgFlag>>

BusAck ==
  /\ pc = "busack"
  /\ Goto(IF mail = "ack" THEN "detect" ELSE "plug")
  /\ LeavesList /\ LeavesWorld /\ UNCHANGED <<cmd, mail, msg, msgFlag>>

(* The control register is read up to six times before main believes that  *)
(* there is no keyboard; then it waits for one.                            *)
Detect ==
  /\ pc = "detect"
  /\ Goto(IF attached THEN "send" ELSE "absent")
  /\ UNCHANGED chipVars

Absent ==
  /\ pc = "absent" /\ attached
  /\ Goto("plug")
  /\ UNCHANGED chipVars

-----------------------------------------------------------------------------
(* A list is written over what is in memory and handed to the chip; it is  *)
(* written again as long as no message comes.                              *)
ListOf(s) == IF s = Polling THEN Poll(toggle) ELSE Requests[s].list
List == ListOf(step)

(* It goes word by word: the six of the first descriptor, the four of the  *)
(* request, then the six of each other descriptor.                         *)
WordNo(i, k) == IF i = 1 THEN k ELSE 6 * i - 2 + k
RequestWords == 7 .. 10
Words == 6 * Len(List) + (IF step = Polling THEN 0 ELSE 4)

(* The chip may get in after any word, but no step of it depends on the    *)
(* address of a buffer; nor can it tell a request of which one word is     *)
(* there from one of which three are, nor, the token of a poll never       *)
(* changing, a token from a token with its control word.                   *)
Stops ==
  ({WordNo(i, k) : i \in DOMAIN List, k \in {2, 4, 5, 6}} \cup {9, 10})
    \cap 1 .. Words - 1

(* A descriptor over which some of the words of d, the i-th of its list,   *)
(* are written; the fifth arms it.                                         *)
Overwritten(old, d, i, words) ==
  LET Word(k, new, was) == IF WordNo(i, k) \in words THEN new ELSE was IN
  [td |-> [at |-> d.at,
           base |-> Word(1, d.base, old.td.base),
           len |-> Word(2, d.len, old.td.len),
           pid |-> Word(3, d.pid, old.td.pid),
           ctl |-> Word(4, d.ctl, old.td.ctl),
           next |-> Word(6, d.next, old.td.next)],
   state |-> Word(5, "armed", old.state)]

(* The chip is executing the first descriptor, or will be next.            *)
HeadInUse == cur = Start \/ (cur = 0 /\ ptr = Start)

(* The request is there as a whole; before its last word it is neither the *)
(* old one nor the new one, unless the two are the same.                   *)
PacketAfter(words) ==
  IF step = Polling \/ words \cap RequestWords = {} THEN packet
  ELSE IF 10 \in words \/ packet = Requests[step].name
       THEN Requests[step].name
       ELSE "mixed"

(* Which descriptor of a list is at an address; 0 if none is.              *)
PlaceIn ==
  [s \in 1 .. Last |-> [a \in Addresses |->
     IF \E i \in DOMAIN Requests[s].list : Requests[s].list[i].at = a
     THEN CHOOSE i \in DOMAIN Requests[s].list : Requests[s].list[i].at = a
     ELSE 0]]
Place(a) == IF step # Polling THEN PlaceIn[step][a]
            ELSE IF a = Start THEN 1 ELSE 0

(* With the chip idle and sent nowhere, what is in memory but not in the   *)
(* list so far is of no consequence any more; the model forgets it.        *)
Before(a) ==
  IF /\ ptr = 0 /\ cur = 0
     /\ Place(a) # 0 => written < WordNo(Place(a), 1)
  THEN NoTD ELSE mem[a]

(* The stores up to the n-th, between which the chip does nothing.  The    *)
(* link of the second descriptor is the word at 51Eh.  From the fifth word *)
(* on the chip would execute the first descriptor, although the request    *)
(* is only there after the tenth.                                          *)
StoreTo(n) ==
  LET words == written + 1 .. n IN
  /\ packet' = PacketAfter(words)
  /\ third' = IF WordNo(2, 6) \in words THEN Link ELSE third
  /\ raced' = \/ raced
              \/ /\ step # Polling /\ n \in 5 .. 9
                 /\ packet' # Requests[step].name /\ HeadInUse
  /\ mem' = [a \in Addresses |->
               IF Place(a) = 0 THEN Before(a)
               ELSE Overwritten(Before(a), List[Place(a)], Place(a), words)]

Send ==
  /\ pc = "send"
  /\ UNCHANGED <<step, toggle, val, cmd, mail, msg, msgFlag, ptr, cur,
                 attached, dev, answered>>
  /\ \/ /\ pc' = "point" /\ written' = 0 /\ UNCHANGED faults
        /\ StoreTo(Words)
     \/ /\ faults > 0 /\ faults' = faults - 1 /\ UNCHANGED pc
        /\ \E n \in Stops : n > written /\ written' = n /\ StoreTo(n)

(* A mutant: HUSB_SIE1_pCurrentTDPtr is not written.                       *)
PointForgotten ==
  /\ pc = "point"
  /\ Goto("flag")
  /\ UNCHANGED chipVars

Point ==
  /\ pc = "point"
  /\ ptr' = Start
  /\ Goto("flag")
  /\ LeavesWorld
  /\ UNCHANGED <<cmd, mail, msg, msgFlag, mem, packet, third, cur>>

Flag ==
  /\ pc = "flag"
  /\ Goto(IF msgFlag THEN "take" ELSE "send")
  /\ UNCHANGED chipVars

(* UsbWaitTDListDone: read the message and clear it until it is            *)
(* TDListDone and nothing else.                                            *)
TakeMsg ==
  /\ val' = msg /\ msgFlag' = FALSE
  /\ UNCHANGED <<step, toggle, written, raced>>
  /\ LeavesList /\ LeavesWorld /\ UNCHANGED <<cmd, mail, msg>>

Take == pc = "take" /\ pc' = "wipe" /\ TakeMsg

WipeMsg ==
  /\ msg' = {}
  /\ LeavesList /\ LeavesWorld /\ UNCHANGED <<cmd, mail, msgFlag>>

Wipe ==
  /\ pc = "wipe"
  /\ WipeMsg
  /\ pc' = IF val # {"done"} THEN "take"
           ELSE IF step = Polling THEN "key" ELSE "look"
  /\ val' = {}
  /\ UNCHANGED <<step, toggle, written, raced>>

(* The request is done if its first descriptor is, without a retry.        *)
FirstDone == mem[Start].state = "done"

Passed ==
  /\ pc' = IF step = AfterInfo THEN "info"
           ELSE IF step = Last THEN "poll" ELSE "send"
  /\ step' = step + 1
  /\ raced' = FALSE
  /\ UNCHANGED <<toggle, val, written, chipVars>>

(* A mutant: the descriptor is not looked at.                              *)
LookAway == pc = "look" /\ Passed

Look ==
  /\ pc = "look"
  /\ \/ FirstDone /\ Passed
     \/ ~FirstDone /\ Goto("retry") /\ UNCHANGED chipVars

(* UsbGetRetryCnt, again and again until the first descriptor is done; the *)
(* first request is given up after it and everything starts over.          *)
Retry ==
  /\ pc = "retry"
  /\ pc' = IF msg = {"done"} THEN "rwipe" ELSE "relook"
  /\ msgFlag' = FALSE
  /\ UNCHANGED <<step, toggle, val, written, raced>>
  /\ LeavesList /\ LeavesWorld /\ UNCHANGED <<cmd, mail, msg>>

RetryWipe == pc = "rwipe" /\ WipeMsg /\ Goto("rwait")

RetryWait ==
  /\ pc = "rwait" /\ msgFlag
  /\ Goto("relook")
  /\ UNCHANGED chipVars

Relook ==
  /\ pc = "relook"
  /\ \/ step = 1 /\ Goto("plug") /\ UNCHANGED chipVars
     \/ step # 1 /\ FirstDone /\ Passed
     \/ step # 1 /\ ~FirstDone /\ Goto("retry") /\ UNCHANGED chipVars

(* The descriptors have been read; now main writes five words of its own   *)
(* over them, which nothing leads the chip to yet, and hands them to it as *)
(* a list.                                                                 *)
Info ==
  /\ pc = "info"
  /\ mem' = [mem EXCEPT ![Junk.at] = NoTD]
  /\ Goto("handover")
  /\ LeavesWorld
  /\ UNCHANGED <<cmd, mail, msg, msgFlag, packet, third, ptr, cur>>

HandOver ==
  /\ pc = "handover"
  /\ ptr' = Junk.at
  /\ Goto("send")
  /\ LeavesWorld
  /\ UNCHANGED <<cmd, mail, msg, msgFlag, mem, packet, third, cur>>

-----------------------------------------------------------------------------
StartPoll ==
  /\ pc = "poll"
  /\ toggle' = 1 - toggle
  /\ pc' = "send"
  /\ UNCHANGED <<step, val, written, raced, chipVars>>

ReadKey ==
  /\ pc = "key"
  /\ Goto("watch")
  /\ UNCHANGED chipVars

(* A mutant: the control register is not read again.                       *)
WatchNothing ==
  /\ pc = "watch"
  /\ Goto("poll")
  /\ UNCHANGED chipVars

(* Is it still there?  Up to eight reads, 5 ms apart, must say no.         *)
Watch ==
  /\ pc = "watch"
  /\ Goto(IF attached THEN "poll" ELSE "gone")
  /\ UNCHANGED chipVars

Gone ==
  /\ pc = "gone" /\ attached
  /\ Goto("plug")
  /\ UNCHANGED chipVars

-----------------------------------------------------------------------------
BringUp ==
  SoftReset \/ Clear \/ SieInit \/ InitAck \/ BusReset \/ BusAck \/ Detect
    \/ Absent
Request ==
  Send \/ Point \/ Flag \/ Take \/ Wipe \/ Look \/ Retry \/ RetryWipe
    \/ RetryWait \/ Relook \/ Info \/ HandOver
PollLoop == StartPoll \/ ReadKey \/ Watch \/ Gone

Main == BringUp \/ Request \/ PollLoop

ChipStep == Chip /\ UNCHANGED mainVars
Cable == (Unplug \/ Plug) /\ UNCHANGED mainVars

UsbNext == Main \/ ChipStep \/ Cable

(* The processor and the chip run; the 10 ms that main sleeps before it    *)
(* writes a list again let the chip retire a descriptor.  Nobody has to    *)
(* plug or to type.                                                        *)
UsbFairness ==
  /\ WF_usbVars(Main)
  /\ WF_usbVars((Command \/ Begin \/ NotAnswered) /\ UNCHANGED mainVars)
  /\ WF_usbVars(Answered /\ step # Polling /\ UNCHANGED mainVars)
  /\ SF_usbVars(Advance /\ UNCHANGED mainVars)

UsbSpec == UsbInit /\ [][UsbNext]_usbVars /\ UsbFairness

-----------------------------------------------------------------------------
(* Every variable has its type.                                            *)
UsbTypeOK ==
  /\ cmd \in {"none", "reset", "init", "husb"}
  /\ mail \in {"ack", "garbage"}
  /\ msg \subseteq {"done", "change"} /\ msgFlag \in BOOLEAN
  /\ \A a \in Addresses : mem[a].state \in TDStates
  /\ packet \in Names \cup {"none", "mixed"} /\ third \in Keys \cup {Link}
  /\ ptr \in Addresses \cup {0} /\ cur \in Addresses \cup {0}
  /\ attached \in BOOLEAN /\ faults \in 0 .. Faults
  /\ answered \in Names \cup {"none", "mixed"}
  /\ dev.address \in {0, 2} /\ dev.request \in Names \cup {"none", "mixed"}
  /\ pc \in Places /\ step \in 1 .. Polling /\ toggle \in 0 .. 1
  /\ val \subseteq {"done", "change"}
  /\ written \in 0 .. 63 /\ raced \in BOOLEAN

(* A request is left behind only when a keyboard has acknowledged it since *)
(* the last reset, whatever message made main look: a TDListDone of an     *)
(* earlier list, of the list written at 576h, or one doubled by a resend.  *)
(* It holds as long as the chip has not been at the head of a list that    *)
(* usb.c armed before the request was in memory: then the chip may send    *)
(* the request before it, or a mixture, and mark the new descriptor done.  *)
EachStepAnswered ==
  [][step' > step => raced \/ Requests[step].name = answered]_usbVars

(* Each of the nine lists of usb.c, when main hands it over, is one the    *)
(* controller can walk and a device can answer: the lengths, links, toggle *)
(* bits and buffers fit.                                                   *)
ListsWellFormed ==
  pc = "point" /\ step # Polling => WellFormed(Requests[step])

(* A list that is written again and again as long as no message comes is   *)
(* answered or fails in the end, with a keyboard or without one.           *)
ResendEnds == pc = "flag" /\ step # Polling ~> pc = "take"

(* The loops that may never end: UsbWaitTDListDone waits for a TDListDone  *)
(* that came together with another message or was wiped before it was      *)
(* read, and UsbGetRetryCnt for a descriptor nobody executes any more.     *)
LostDone ==
  \/ <>[](pc \in {"take", "wipe"})
  \/ <>[](pc \in {"retry", "relook", "rwipe", "rwait"})

(* A keyboard that is taken away is missed, wherever main is: it ends up   *)
(* waiting for another one, or in one of those loops.                      *)
RemovalNoticed ==
  <>[](~attached) => <>[](pc \in {"absent", "gone"}) \/ LostDone

=============================================================================
