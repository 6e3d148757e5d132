------------------------- MODULE UsbKeyboard_proofs -------------------------
(***************************************************************************)
(* For every set of keycodes and every number of faults: the types, and    *)
(* that main never leaves a request behind that no keyboard has            *)
(* acknowledged, but for the race that UsbKeyboard names.  What carries    *)
(* the second is what each stretch of a list puts in memory: after three   *)
(* words the first descriptor is the SETUP descriptor, after five it is    *)
(* armed, so that "done" in its state word is the keyboard's word for what *)
(* the packet holds, and after ten the packet is the request main is       *)
(* about.  The nine lists of usb.c are well formed.                        *)
(***************************************************************************)
EXTENDS UsbKeyboard, TLAPS

Shaped(td) ==
  /\ td \in [at : Int, base : Int, len : Int, pid : Int, ctl : Int,
             next : Int]

Good(l) ==
  /\ DOMAIN l = 1 .. Len(l) /\ Len(l) \in 2 .. 10
  /\ l[1].at = Start /\ l[1].pid % 256 = \hD0
  /\ \A i \in DOMAIN l :
       /\ Shaped(l[i])
       /\ l[i].next = 0 \/ (i + 1 \in DOMAIN l /\ l[i].next = l[i + 1].at)
       /\ l[i].at = Start => i = 1

(* Each list of usb.c starts at 500h with a SETUP descriptor, is the only  *)
(* one to do so, and each of its descriptors leads to the next.            *)
LEMMA ListsGood == \A s \in 1 .. 9 : Good(Requests[s].list)
<1>1. Good(UsbSetAddress) /\ Good(UsbGetDeviceDesc1)
  BY SMT DEF Good, Shaped, UsbSetAddress, UsbGetDeviceDesc1, TD, Start
<1>2. Good(UsbGetDeviceDesc2) /\ Good(UsbGetConfigDesc1)
  BY SMT DEF Good, Shaped, UsbGetDeviceDesc2, UsbGetConfigDesc1, TD, Start
<1>3. Good(UsbGetConfigDesc2)
  BY SMT DEF Good, Shaped, UsbGetConfigDesc2, TD, Start
<1>4. Good(UsbSetConfig) /\ Good(UsbClassRequest) /\ Good(UsbGetHidDesc)
  BY SMT DEF Good, Shaped, UsbSetConfig, UsbClassRequest, UsbGetHidDesc, TD,
    Start
<1>5. Good(UsbGetReportDesc)
  BY SMTT(30) DEF Good, Shaped, UsbGetReportDesc, TD, Start
<1>6. \A s \in 1 .. 9 : Requests[s].list \in
        {UsbSetAddress, UsbGetDeviceDesc1, UsbGetDeviceDesc2,
         UsbGetConfigDesc1, UsbGetConfigDesc2, UsbSetConfig,
         UsbClassRequest, UsbGetHidDesc, UsbGetReportDesc}
  BY SMT DEF Requests
<1> QED BY <1>1, <1>2, <1>3, <1>4, <1>5, <1>6

(* There are nine requests, and each is named.                             *)
LEMMA NineRequests ==
  /\ DOMAIN Requests = 1 .. 9 /\ Last = 9 /\ Polling = 10
  /\ \A s \in 1 .. 9 : Requests[s].name \in Names
<1>1. DOMAIN Requests = 1 .. 9 /\ Len(Requests) = 9 BY SMT DEF Requests
<1> QED BY <1>1 DEF Last, Polling, Names

(* What a descriptor in memory may be: where it leads there is another     *)
(* one, never the first.                                                   *)
TDs ==
  [at : Int, base : Int, len : Int, pid : Int, ctl : Int,
   next : (Addresses \ {Start}) \cup {0}]
Slots == [td : TDs, state : TDStates]

(* Whatever descriptor the chip follows, it gets to one or to the end, and *)
(* the descriptors of the lists are such.                                  *)
LEMMA NextIsAddress ==
  /\ Start \in Addresses /\ Junk.at \in Addresses /\ Junk.at # Start
  /\ Start # 0 /\ NoTD \in Slots
  /\ \A t \in 0 .. 1 : DOMAIN Poll(t) = 1 .. 1 /\ Len(Poll(t)) = 1
                        /\ Poll(t)[1] \in TDs
  /\ \A s \in 1 .. 9 : \A i \in DOMAIN Requests[s].list :
       Requests[s].list[i] \in TDs
<1>1. \A s \in 1 .. 9 : \A i \in DOMAIN Requests[s].list :
        Requests[s].list[i].at \in Addresses
  BY NineRequests DEF Addresses
<1>2. Start \in Addresses
  <2>1. 1 \in 1 .. 9 OBVIOUS
  <2>2. Good(Requests[1].list) BY <2>1, ListsGood
  <2>3. 1 \in DOMAIN Requests[1].list BY <2>2 DEF Good
  <2>4. Requests[1].list[1].at = Start BY <2>2 DEF Good
  <2> QED BY <1>1, <2>1, <2>3, <2>4
<1>3. Junk.at \in Addresses BY DEF Addresses
<1>4. Junk.at # Start /\ Start # 0 BY SMT DEF Junk, TD, Start
<1>5. Junk \in TDs BY SMT DEF Junk, TD, TDs
<1>6. NoTD \in Slots BY <1>5 DEF NoTD, Slots, TDStates
<1>7. \A t \in 0 .. 1 : DOMAIN Poll(t) = 1 .. 1 /\ Len(Poll(t)) = 1
                        /\ Poll(t)[1] \in TDs
  BY SMT DEF Poll, TD, TDs, Start
<1>8. ASSUME NEW s \in 1 .. 9, NEW i \in DOMAIN Requests[s].list
      PROVE  Requests[s].list[i] \in TDs
  <2> DEFINE l == Requests[s].list
  <2>1. Good(l) BY ListsGood
  <2>2. Shaped(l[i]) BY <2>1 DEF Good
  <2>3. l[i].next = 0 \/ (i + 1 \in DOMAIN l /\ l[i].next = l[i + 1].at)
    BY <2>1 DEF Good
  <2>4. i \in 1 .. Len(l) /\ Len(l) \in 2 .. 10 BY <2>1 DEF Good
  <2>5. i + 1 \in DOMAIN l => l[i + 1].at # Start
    <3>1. i + 1 # 1 BY <2>4
    <3> QED BY <2>1, <3>1 DEF Good
  <2>6. l[i].next \in (Addresses \ {Start}) \cup {0} BY <1>1, <2>3, <2>5
  <2>7. l[i] = [l[i] EXCEPT !.next = l[i].next] BY <2>2 DEF Shaped
  <2> QED BY <2>2, <2>6 DEF Shaped, TDs
<1> QED BY <1>2, <1>3, <1>4, <1>6, <1>7, <1>8

-----------------------------------------------------------------------------
ChipType ==
  /\ cmd \in {"none", "reset", "init", "husb"} /\ mail \in {"ack", "garbage"}
  /\ msg \subseteq {"done", "change"}
  /\ packet \in Names \cup {"none", "mixed"} /\ third \in Keys \cup {Link}
  /\ ptr \in Addresses \cup {0} /\ cur \in Addresses \cup {0}
  /\ answered \in Names \cup {"none", "mixed"} /\ faults \in 0 .. Faults

Signals == msgFlag \in BOOLEAN /\ attached \in BOOLEAN /\ raced \in BOOLEAN

MainType ==
  /\ pc \in Places /\ step \in 1 .. Polling /\ toggle \in 0 .. 1
  /\ val \subseteq {"done", "change"} /\ written \in 0 .. 63

MemType == mem \in [Addresses -> Slots]

Devices ==
  [address : {0, 2}, request : Names \cup {"none", "mixed"},
   configured : BOOLEAN, toggle : 0 .. 1]
DevType == dev \in Devices

(* The places where main works on a request it has read the answer of.     *)
After == {"look", "retry", "rwipe", "rwait", "relook"}

(* Those are not for polls; the chip restarts only while main waits for    *)
(* it; and a list is in part there only while it is being written.         *)
Control ==
  /\ pc \in After => step # Polling
  /\ cmd = "reset" => pc = "clear"
  /\ pc # "send" => written = 0

TypeInv ==
  ChipType /\ Signals /\ MainType /\ MemType /\ DevType /\ Control

LEMMA TypeInvSuffices == TypeInv => UsbTypeOK
  BY DEF TypeInv, UsbTypeOK, ChipType, Signals, MainType, MemType, Slots,
     DevType, Devices

LEMMA TypeStarts == UsbInit => TypeInv
<1> SUFFICES ASSUME UsbInit PROVE TypeInv OBVIOUS
<1>1. ChipType
  BY ChipAssumption DEF UsbInit, ChipInit, ChipType
<1>2. Signals BY DEF UsbInit, ChipInit, Signals
<1>3. MainType /\ Control
  BY NineRequests DEF UsbInit, ChipInit, MainType, Control, After, Places
<1>4. MemType
  BY NextIsAddress DEF UsbInit, ChipInit, MemType
<1>5. DevType BY DEF UsbInit, ChipInit, DevType, Devices, Fresh
<1> QED BY <1>1, <1>2, <1>3, <1>4, <1>5 DEF TypeInv

(* A move of main, and what the chip makes of the keyboard's state.        *)
LEMMA GotoTypes ==
  ASSUME TypeInv, NEW p \in Places, Goto(p), p \in After => pc \in After,
         pc # "send", cmd' = "reset" => cmd = "reset" /\ p = "clear"
  PROVE  MainType' /\ Control' /\ raced' = raced
BY DEF TypeInv, MainType, Control, Goto

LEMMA EffectType == ASSUME TypeInv, NEW td PROVE Effect(td) \in Devices
<1> USE DEF TypeInv
<1>1. dev \in Devices BY DEF DevType
<1>2. packet \in Names \cup {"none", "mixed"} BY DEF ChipType
<1>3. [dev EXCEPT !.request = packet] \in Devices BY <1>1, <1>2 DEF Devices
<1>4. [dev EXCEPT !.toggle = 1 - @] \in Devices BY <1>1 DEF Devices
<1>5. ASSUME NEW a \in {0, 2}, NEW c \in BOOLEAN, NEW t \in 0 .. 1
      PROVE  [dev EXCEPT !.request = "none", !.address = a,
                         !.configured = c, !.toggle = t] \in Devices
  BY <1>1 DEF Devices
<1>6. dev.address \in {0, 2} /\ dev.toggle \in 0 .. 1 BY <1>1 DEF Devices
<1>7. (dev.configured \/ dev.request = "SetConfig") \in BOOLEAN OBVIOUS
<1>8. (IF dev.request = "SetAddress" THEN 2 ELSE dev.address) \in {0, 2}
  BY <1>6
<1>9. (IF dev.request = "SetConfig" THEN 0 ELSE dev.toggle) \in 0 .. 1
  BY <1>6
<1>10. [dev EXCEPT !.request = "none",
          !.address = IF dev.request = "SetAddress" THEN 2 ELSE @,
          !.configured = @ \/ dev.request = "SetConfig",
          !.toggle = IF dev.request = "SetConfig" THEN 0 ELSE @] \in Devices
  BY <1>5, <1>7, <1>8, <1>9
<1> QED BY <1>1, <1>3, <1>4, <1>10, Zenon DEF Effect

LEMMA FreshType == Fresh \in Devices
  BY DEF Fresh, Devices

(* A request that is passed leads to the next, to the descriptors, or to   *)
(* the polling loop.                                                       *)
LEMMA PassedTypes ==
  TypeInv /\ pc \in After /\ Passed => TypeInv'
<1> SUFFICES ASSUME TypeInv, pc \in After, Passed PROVE TypeInv' OBVIOUS
<1> USE NineRequests DEF TypeInv
<1>1. step' = step + 1 /\ step' \in 1 .. Polling
  BY DEF MainType, Passed, Control
<1>2. pc' \in {"info", "poll", "send"} BY DEF Passed
<1>3. MainType' BY <1>1, <1>2 DEF MainType, Passed, Places
<1>4. Control'
  BY <1>2 DEF Control, Passed, After, chipVars
<1>5. Signals' BY DEF Signals, Passed, chipVars
<1>6. ChipType' /\ MemType' /\ DevType'
  BY DEF ChipType, MemType, DevType, Passed, chipVars
<1> QED BY <1>3, <1>4, <1>5, <1>6

-----------------------------------------------------------------------------
(* How long a list of two to ten descriptors and a request is.             *)
LEMMA WordsOf ==
  ASSUME NEW k \in 2 .. 10, NEW w, w = 6 * k + 4
  PROVE  w \in 6 .. 64 /\ w >= 16
  OBVIOUS

(* The list that is being written: its descriptors, and how many words.    *)
LEMMA ListFacts ==
  ASSUME TypeInv
  PROVE  /\ List[1] \in TDs /\ \A i \in DOMAIN List : List[i] \in TDs
         /\ Words \in 6 .. 64 /\ (step # Polling => Words >= 16)
         /\ Place(Start) = 1
         /\ \A a \in Addresses : Place(a) # 0 => Place(a) \in DOMAIN List
<1> USE NineRequests, NextIsAddress DEF TypeInv
<1>1. CASE step = Polling
  <2>1. toggle \in 0 .. 1 BY DEF MainType
  <2>2. List = Poll(toggle) BY <1>1 DEF List, ListOf
  <2>3. DOMAIN List = 1 .. 1 /\ Len(List) = 1 /\ List[1] \in TDs
    BY <2>1, <2>2
  <2>4. Words = 6 BY <1>1, <2>3 DEF Words
  <2>5. \A a \in Addresses : Place(a) = IF a = Start THEN 1 ELSE 0
    BY <1>1 DEF Place
  <2> QED BY <1>1, <2>3, <2>4, <2>5
<1>2. CASE step # Polling
  <2>1. step \in 1 .. 9 BY <1>2 DEF MainType
  <2>2. List = Requests[step].list BY <1>2 DEF List, ListOf
  <2>3. Good(List) BY <2>1, <2>2, ListsGood
  <2>4. DOMAIN List = 1 .. Len(List) /\ Len(List) \in 2 .. 10
    BY <2>3 DEF Good
  <2>5. 1 \in DOMAIN List BY <2>4
  <2>6. \A i \in DOMAIN List : List[i] \in TDs BY <2>1, <2>2
  <2>7. Words \in 6 .. 64 /\ Words >= 16
    <3>1. Words = 6 * Len(List) + 4 BY <1>2 DEF Words
    <3>2. Len(List) \in 2 .. 10 BY <2>4
    <3> QED BY <3>1, <3>2, WordsOf
  <2>8. \A a \in Addresses :
          Place(a) = IF \E i \in DOMAIN List : List[i].at = a
                     THEN CHOOSE i \in DOMAIN List : List[i].at = a
                     ELSE 0
    BY <1>2, <2>1, <2>2 DEF Place, PlaceIn
  <2>9. \A i \in DOMAIN List : List[i].at = Start <=> i = 1
    BY <2>3 DEF Good
  <2>10. Place(Start) = 1 BY <2>5, <2>8, <2>9
  <2>11. \A a \in Addresses : Place(a) # 0 => Place(a) \in DOMAIN List
    BY <2>8
  <2> QED BY <2>5, <2>6, <2>7, <2>10, <2>11
<1> QED BY <1>1, <1>2

(* What some of its words make of a descriptor is one again.               *)
LEMMA OverwrittenType ==
  ASSUME NEW s \in Slots, NEW d \in TDs, NEW i, NEW words
  PROVE  Overwritten(s, d, i, words) \in Slots
<1>1. s.td \in TDs /\ s.state \in TDStates BY DEF Slots
<1> QED BY <1>1 DEF Overwritten, Slots, TDs, TDStates

(* A stretch of stores keeps the types ...                                 *)
LEMMA StoreTypes ==
  ASSUME TypeInv, NEW n \in 1 .. 64, StoreTo(n)
  PROVE  /\ MemType' /\ raced' \in BOOLEAN
         /\ packet' \in Names \cup {"none", "mixed"}
         /\ third' \in Keys \cup {Link}
<1> USE DEF TypeInv
<1>1. step # Polling => Requests[step].name \in Names
  BY NineRequests DEF MainType
<1>2. packet' \in Names \cup {"none", "mixed"}
  BY <1>1 DEF StoreTo, PacketAfter, ChipType
<1>3. third' \in Keys \cup {Link} BY DEF StoreTo, ChipType
<1>4. raced' \in BOOLEAN BY DEF StoreTo, Signals
<1>5. ASSUME NEW a \in Addresses PROVE mem'[a] \in Slots
  <2>1. Before(a) \in Slots BY NextIsAddress DEF Before, MemType
  <2>2. CASE Place(a) = 0 BY <2>1, <2>2 DEF StoreTo
  <2>3. CASE Place(a) # 0
    <3>1. List[Place(a)] \in TDs BY <2>3, ListFacts
    <3>2. Overwritten(Before(a), List[Place(a)], Place(a), written + 1 .. n)
            \in Slots
      BY <2>1, <3>1, OverwrittenType
    <3> QED BY <2>3, <3>2 DEF StoreTo
  <2> QED BY <2>2, <2>3
<1>6. mem' = [a \in Addresses |-> mem'[a]] BY DEF StoreTo
<1>7. MemType' BY <1>5, <1>6 DEF MemType
<1> QED BY <1>2, <1>3, <1>4, <1>7

(* ... and ends in the middle of the list or behind it.                    *)
LEMMA SendStores ==
  ASSUME TypeInv, Send
  PROVE  \E n \in 1 .. 64 :
           /\ StoreTo(n)
           /\ \/ pc' = "send" /\ written' = n /\ n \in 1 .. 63 /\ n > written
              \/ pc' = "point" /\ written' = 0 /\ n = Words
<1>1. Words \in 6 .. 64 BY ListFacts
<1>2. \A n \in Stops : n \in 1 .. 63 BY <1>1 DEF Stops
<1> QED BY <1>1, <1>2 DEF Send

(* Every action keeps the types.                                           *)
LEMMA TypeStep == TypeInv /\ [UsbNext]_usbVars => TypeInv'
<1> SUFFICES ASSUME TypeInv, [UsbNext]_usbVars PROVE TypeInv' OBVIOUS
<1> USE NineRequests, NextIsAddress DEF TypeInv
<1>1. CASE StartPoll \/ \E p \in Places : Goto(p) /\ UNCHANGED chipVars
                        /\ (p \in After => pc \in After) /\ pc # "send"
                        /\ pc # "clear"
  <2>1. Signals' BY <1>1 DEF StartPoll, Goto, chipVars, Signals
  <2>2. ChipType' /\ MemType' /\ DevType'
    BY <1>1 DEF StartPoll, chipVars, ChipType, MemType, DevType
  <2>3. MainType' /\ Control'
    <3>1. CASE StartPoll
      BY <3>1 DEF StartPoll, chipVars, MainType, Control, After, Places
    <3>2. CASE ~StartPoll
      <4>1. PICK p \in Places : Goto(p) /\ UNCHANGED chipVars
                        /\ (p \in After => pc \in After) /\ pc # "send"
                        /\ pc # "clear"
        BY <1>1, <3>2
      <4>2. cmd' # "reset" BY <4>1 DEF Control, chipVars
      <4> QED BY <4>1, <4>2, GotoTypes
    <3> QED BY <3>1, <3>2
  <2> QED BY <2>1, <2>2, <2>3
<1>2. CASE SoftReset \/ Clear \/ SieInit \/ InitAck \/ BusReset \/ BusAck
  <2> USE <1>2 DEF SoftReset, Clear, SieInit, InitAck, BusReset, BusAck,
                   LeavesList, LeavesWorld
  <2>1. Signals' BY DEF Goto, Signals
  <2>2. ChipType' BY DEF Goto, ChipType
  <2>3. MainType' /\ Control'
    <3>1. CASE SoftReset
      BY <3>1 DEF MainType, Control, After, Places
    <3>2. CASE ~SoftReset
      <4>1. PICK p \in Places \ After : Goto(p)
        BY <3>2 DEF Places, After
      <4>2. pc # "send" /\ cmd' # "reset" BY <3>2 DEF Control
      <4> QED BY <4>1, <4>2, GotoTypes
    <3> QED BY <3>1, <3>2
  <2>4. MemType' /\ DevType' BY DEF Goto, MemType, DevType
  <2> QED BY <2>1, <2>2, <2>3, <2>4
<1>3. CASE Take \/ Wipe \/ Retry \/ RetryWipe
  <2>1. Signals'
    BY <1>3 DEF Take, Wipe, Retry, RetryWipe, Goto, TakeMsg, WipeMsg,
      LeavesList, LeavesWorld, Signals
  <2>2. ChipType' /\ MainType' /\ Control'
    BY <1>3 DEF Take, Wipe, Retry, RetryWipe, Goto, TakeMsg, WipeMsg,
      LeavesList, LeavesWorld, ChipType, MainType, Control, After,
      Places
  <2>3. MemType' /\ DevType'
    BY <1>3 DEF Take, Wipe, Retry, RetryWipe, Goto, TakeMsg, WipeMsg,
      LeavesList, LeavesWorld, MemType, DevType
  <2> QED BY <2>1, <2>2, <2>3
<1>4. CASE Point \/ Info \/ HandOver
  <2>1. Signals'
    BY <1>4 DEF Point, Info, HandOver, Goto, LeavesWorld, Signals
  <2>2. ChipType' /\ MainType' /\ Control'
    BY <1>4 DEF Point, Info, HandOver, Goto, LeavesWorld, ChipType, MainType,
      Control, After, Places
  <2>3. MemType' /\ DevType'
    BY <1>4 DEF Point, Info, HandOver, Goto, LeavesWorld, MemType, DevType
  <2> QED BY <2>1, <2>2, <2>3
<1>5. CASE Look \/ Relook
  <2>1. pc \in After BY <1>5 DEF Look, Relook, After
  <2>2. CASE Passed BY <2>1, <2>2, PassedTypes
  <2>3. CASE (Goto("retry") \/ (step = 1 /\ Goto("plug")))
             /\ UNCHANGED chipVars
    <3>1. Signals' BY <2>3 DEF Signals, Goto, chipVars
    <3>2. ChipType' /\ MemType' /\ DevType'
      BY <2>3 DEF ChipType, MemType, DevType, chipVars
    <3>3. MainType' /\ Control'
      BY <2>1, <2>3 DEF MainType, Control, Goto, After, Places, chipVars
    <3> QED BY <3>1, <3>2, <3>3
  <2> QED BY <1>5, <2>2, <2>3 DEF Look, Relook
<1>6. CASE Send
  <2>1. PICK n \in 1 .. 64 :
           /\ StoreTo(n)
           /\ \/ pc' = "send" /\ written' = n /\ n \in 1 .. 63 /\ n > written
              \/ pc' = "point" /\ written' = 0 /\ n = Words
    BY <1>6, SendStores
  <2>2. /\ MemType' /\ raced' \in BOOLEAN
        /\ packet' \in Names \cup {"none", "mixed"}
        /\ third' \in Keys \cup {Link}
    BY <2>1, StoreTypes
  <2>3. faults' \in 0 .. Faults
    BY <1>6, ChipAssumption DEF Send, ChipType
  <2>4. ChipType' BY <1>6, <2>2, <2>3 DEF Send, ChipType
  <2>5. Signals' BY <1>6, <2>2 DEF Send, Signals
  <2>6. MainType' BY <1>6, <2>1 DEF Send, MainType, Places
  <2>7. Control' BY <1>6, <2>1 DEF Send, Control, After
  <2>8. DevType' BY <1>6 DEF Send, DevType
  <2> QED BY <2>2, <2>4, <2>5, <2>6, <2>7, <2>8
<1>7. CASE Command /\ UNCHANGED mainVars
  <2>1. Signals' BY <1>7 DEF Command, mainVars, Signals
  <2>2. ChipType' /\ MainType' /\ Control'
    BY <1>7 DEF Command, Reset, Initialise, ResetBus, mainVars, ChipType,
      MainType, Control
  <2>3. MemType'
    BY <1>7 DEF Command, Reset, Initialise, ResetBus, MemType
  <2>4. DevType'
    BY <1>7, FreshType DEF Command, Reset, Initialise, ResetBus, DevType
  <2> QED BY <2>1, <2>2, <2>3, <2>4
<1>8. CASE (Begin \/ Advance) /\ UNCHANGED mainVars
  <2>1. Signals' BY <1>8 DEF Begin, Advance, Post, mainVars, Signals
  <2>2. MemType' /\ DevType' BY <1>8 DEF Begin, Advance, MemType, DevType
  <2>3. \A a \in Addresses : TDAt(a).next \in Addresses \cup {0}
    BY DEF MemType, Slots, TDs, TDAt
  <2>4. ChipType' /\ MainType' /\ Control'
    BY <1>8, <2>3 DEF Begin, Advance, Post, mainVars, ChipType, MainType,
      Control
  <2> QED BY <2>1, <2>2, <2>4
<1>9. CASE (Answered \/ NotAnswered) /\ UNCHANGED mainVars
  <2>1. Signals' BY <1>9 DEF Answered, NotAnswered, mainVars, Signals
  <2>2. MemType'
    <3>1. PICK s \in TDStates : mem' = [mem EXCEPT ![cur].state = s]
      BY <1>9 DEF Answered, NotAnswered, TDStates
    <3>2. ASSUME NEW a \in Addresses PROVE mem'[a] \in Slots
      <4>1. mem[a] \in Slots BY DEF MemType
      <4>2. mem'[a] = mem[a] \/ mem'[a] = [mem[a] EXCEPT !.state = s]
        BY <3>1 DEF MemType
      <4>3. mem[a].td \in TDs /\ mem[a].state \in TDStates
        BY <4>1 DEF Slots
      <4>4. [mem[a] EXCEPT !.state = s] \in Slots
        BY <4>1, <4>3 DEF Slots
      <4> QED BY <4>1, <4>2, <4>4
    <3>3. mem' = [a \in Addresses |-> mem'[a]] BY <3>1 DEF MemType
    <3> QED BY <3>2, <3>3 DEF MemType
  <2>3. MainType' /\ Control'
    BY <1>9 DEF Answered, NotAnswered, mainVars, MainType, Control
  <2>4. DevType'
    BY <1>9, EffectType DEF Answered, NotAnswered, DevType
  <2>5. ChipType'
    <3>1. CASE NotAnswered BY <3>1 DEF NotAnswered, ChipType
    <3>2. CASE Answered
      <4>1. third' \in Keys \cup {Link}
        BY <3>2 DEF Answered, Report, ChipType
      <4>2. faults' \in 0 .. Faults
        BY <3>2, ChipAssumption DEF Answered, ChipType
      <4>3. answered' \in Names \cup {"none", "mixed"}
        BY <3>2 DEF Answered, ChipType
      <4> QED BY <3>2, <4>1, <4>2, <4>3 DEF Answered, ChipType
    <3> QED BY <1>9, <3>1, <3>2
  <2> QED BY <2>1, <2>2, <2>3, <2>4, <2>5
<1>10. CASE Cable
  <2>1. Signals' BY <1>10 DEF Cable, Unplug, Plug, Post, mainVars, Signals
  <2>2. MainType' /\ Control'
    BY <1>10 DEF Cable, Unplug, Plug, mainVars, MainType, Control
  <2>3. ChipType'
    <3>1. faults' \in 0 .. Faults /\ msg' = msg \cup {"change"}
      BY <1>10, ChipAssumption DEF Cable, Unplug, Plug, Post, ChipType
    <3>2. UNCHANGED <<cmd, mail, packet, third, ptr, cur, answered>>
      BY <1>10 DEF Cable, Unplug, Plug
    <3> QED BY <3>1, <3>2 DEF ChipType
  <2>4. MemType' /\ DevType'
    BY <1>10, FreshType DEF Cable, Unplug, Plug, MemType, DevType
  <2> QED BY <2>1, <2>2, <2>3, <2>4
<1>11. CASE UNCHANGED usbVars
  <2>1. Signals' BY <1>11 DEF usbVars, chipVars, mainVars, Signals
  <2> QED
    BY <1>11, <2>1 DEF usbVars, chipVars, mainVars, ChipType, MainType,
      Control, MemType, DevType
<1> QED
  <2>1. (Detect \/ Absent \/ Flag \/ RetryWait \/ ReadKey \/ Watch \/ Gone)
          => \E p \in Places : Goto(p) /\ UNCHANGED chipVars
                             /\ (p \in After => pc \in After) /\ pc # "send"
                             /\ pc # "clear"
    BY DEF Detect, Absent, Flag, RetryWait, ReadKey, Watch, Gone, Places,
      After
  <2> QED
    BY <2>1, <1>1, <1>2, <1>3, <1>4, <1>5, <1>6, <1>7, <1>8, <1>9, <1>10,
      <1>11
    DEF UsbNext, Main, BringUp, Request, PollLoop, ChipStep, Chip

(* Every variable keeps its type (see UsbTypeOK): no list of usb.c, whole  *)
(* or half written over another, leads the chip out of the memory that     *)
(* holds descriptors.                                                      *)
THEOREM UsbTypeCorrect == UsbSpec => []UsbTypeOK
<1> QED
  BY TypeStarts, TypeStep, TypeInvSuffices, PTL DEF UsbSpec

-----------------------------------------------------------------------------
(* How much of the list of this request is in memory for certain.          *)
Asking == After \cup {"point", "flag", "take", "wipe"}
Present == IF pc \in Asking THEN 64 ELSE IF pc = "send" THEN written ELSE 0

(* "Done" is the keyboard's word for this request; and as long as the      *)
(* packet is not this request, the chip does not get to the head.          *)
HeadState ==
  ~raced =>
    /\ mem[Start].state = "done" =>
         packet = Requests[step].name /\ answered = Requests[step].name
    /\ packet # Requests[step].name => ~HeadInUse

ListInMemory ==
  step # Polling =>
    /\ Present >= 3 => mem[Start].td.pid % 256 = \hD0
    /\ Present >= 5 => HeadState
    /\ Present >= 10 => packet = Requests[step].name

AnsweredInv == TypeInv /\ ListInMemory

LEMMA AnsweredStarts == UsbInit => AnsweredInv
BY TypeStarts DEF UsbInit, AnsweredInv, ListInMemory, Present, Asking, After

(* What a stretch of stores puts at the head of a list.                    *)
LEMMA HeadStored ==
  ASSUME TypeInv, step # Polling, NEW n \in 1 .. 64, StoreTo(n)
  PROVE  /\ 3 \in written + 1 .. n => mem'[Start].td.pid % 256 = \hD0
         /\ written >= 3 => mem'[Start].td.pid = mem[Start].td.pid
         /\ 5 \in written + 1 .. n => mem'[Start].state = "armed"
         /\ written >= 5 => mem'[Start].state = mem[Start].state
<1> DEFINE words == written + 1 .. n
<1>1. step \in 1 .. 9 /\ written \in 0 .. 63
  BY NineRequests DEF TypeInv, MainType
<1>2. Place(Start) = 1 BY ListFacts
<1>3. List = Requests[step].list BY DEF List, ListOf
<1>4. Good(List) BY <1>1, <1>3, ListsGood
<1>5. mem'[Start] = Overwritten(Before(Start), List[1], 1, words)
  BY <1>2, NextIsAddress DEF StoreTo
<1>6. written >= 1 => Before(Start) = mem[Start]
  BY <1>1, <1>2 DEF Before, WordNo
<1>7. mem'[Start].td.pid =
        IF 3 \in words THEN List[1].pid ELSE Before(Start).td.pid
  BY <1>5 DEF Overwritten, WordNo
<1>8. mem'[Start].state =
        IF 5 \in words THEN "armed" ELSE Before(Start).state
  BY <1>5 DEF Overwritten, WordNo
<1>9. List[1].pid % 256 = \hD0 BY <1>4 DEF Good
<1>10. written >= 3 => 3 \notin words BY <1>1
<1>11. written >= 5 => 5 \notin words BY <1>1
<1> QED BY <1>1, <1>6, <1>7, <1>8, <1>9, <1>10, <1>11


(* Sending a list, in part or to its end.                                  *)
LEMMA SendKeeps ==
  ASSUME AnsweredInv, Send
  PROVE  ListInMemory'
<1> SUFFICES ASSUME step # Polling PROVE ListInMemory'
  BY DEF Send, ListInMemory
<1> USE DEF AnsweredInv
<1>1. PICK n \in 1 .. 64 :
         /\ StoreTo(n)
         /\ \/ pc' = "send" /\ written' = n /\ n \in 1 .. 63 /\ n > written
            \/ pc' = "point" /\ written' = 0 /\ n = Words
  BY SendStores
<1>2. /\ pc = "send" /\ Present = written /\ written \in 0 .. 63
      /\ UNCHANGED <<step, ptr, cur, answered>>
  BY DEF Send, Present, Asking, After, TypeInv, MainType
<1>3. n > written \/ n >= 16 BY <1>1, ListFacts
<1>4. Present' \in {n, 64}
      /\ (Present' = 64 => n >= 16 \/ Present' = n)
  BY <1>1, ListFacts DEF Present, Asking, After
<1>5. n >= 3 => mem'[Start].td.pid % 256 = \hD0
  <2>1. CASE written >= 3 BY <1>1, <1>2, <2>1, HeadStored DEF ListInMemory
  <2>2. CASE written < 3 BY <1>1, <1>2, <2>2, HeadStored
  <2> QED BY <1>2, <2>1, <2>2
<1>6. packet = Requests[step].name => packet' = Requests[step].name
  BY <1>1 DEF StoreTo, PacketAfter
<1>7. n >= 10 => packet' = Requests[step].name
  <2>1. CASE written >= 10 BY <1>2, <1>6, <2>1 DEF ListInMemory
  <2>2. CASE written < 10
    <3>1. n >= 10 => 10 \in written + 1 .. n BY <1>2, <2>2
    <3>2. 10 \in RequestWords BY DEF RequestWords
    <3> QED BY <1>1, <3>1, <3>2 DEF StoreTo, PacketAfter
  <2> QED BY <1>2, <2>1, <2>2
<1>8. n >= 5 => HeadState'
  <2> SUFFICES ASSUME n >= 5, ~raced' PROVE
        /\ mem'[Start].state = "done" =>
             packet' = Requests[step].name /\ answered = Requests[step].name
        /\ packet' # Requests[step].name => ~HeadInUse
    BY <1>2 DEF HeadState, HeadInUse
  <2>1. ~raced BY <1>1 DEF StoreTo
  <2>2. packet' # Requests[step].name => ~HeadInUse
    <3>1. CASE n \in 5 .. 9 BY <1>1, <3>1 DEF StoreTo
    <3>2. CASE n >= 10 BY <1>7, <3>2
    <3> QED BY <3>1, <3>2
  <2>3. CASE written >= 5
    BY <1>1, <1>2, <1>6, <2>1, <2>2, <2>3, HeadStored
    DEF ListInMemory, HeadState
  <2>4. CASE written < 5
    <3>1. 5 \in written + 1 .. n BY <1>2, <2>4
    <3> QED BY <1>1, <2>2, <3>1, HeadStored
  <2> QED BY <1>2, <2>3, <2>4
<1> QED BY <1>2, <1>4, <1>5, <1>7, <1>8 DEF ListInMemory

(* What the chip and the keyboard do leaves it so.                         *)
LEMMA ChipKeeps ==
  ASSUME AnsweredInv, Chip, UNCHANGED mainVars
  PROVE  ListInMemory'
<1> SUFFICES ASSUME step # Polling PROVE ListInMemory'
  BY DEF mainVars, ListInMemory
<1> USE DEF AnsweredInv, TypeInv
<1>1. UNCHANGED <<pc, step, written, raced, packet>> /\ Present' = Present
  BY DEF mainVars, Present, Chip, Command, Begin, Answered, NotAnswered,
    Advance
<1>2. Present \in 0 .. 64
  BY DEF Present, MainType
<1>3. CASE Command
  <2>1. CASE Reset
    <3>1. Present = 0
      BY <1>3, <2>1 DEF Command, Reset, Control, Present, Asking, After
    <3> QED BY <1>1, <3>1 DEF ListInMemory
  <2>2. CASE ~Reset
    BY <1>1, <1>3, <2>2
    DEF Command, Initialise, ResetBus, ListInMemory, HeadState, HeadInUse
  <2> QED BY <2>1, <2>2
<1>4. CASE Begin
  BY <1>1, <1>4 DEF Begin, ListInMemory, HeadState, HeadInUse
<1>5. CASE Advance
  <2>1. ptr' # Start /\ cur' = ptr'
    BY <1>5, NextIsAddress
    DEF Advance, TDAt, MemType, Slots, TDs, ChipType
  <2>2. ~HeadInUse' BY <2>1, NextIsAddress DEF HeadInUse
  <2> QED BY <1>1, <1>5, <2>2 DEF Advance, ListInMemory, HeadState
<1>6. CASE Answered \/ NotAnswered
  <2>1. UNCHANGED <<ptr, cur>> /\ cur \in Addresses
    BY <1>6 DEF Answered, NotAnswered, ChipType
  <2>2. HeadInUse' = HeadInUse BY <2>1 DEF HeadInUse
  <2>3. mem'[Start].td = mem[Start].td
    BY <1>6, NextIsAddress DEF Answered, NotAnswered, MemType, Slots
  <2>4. CASE cur # Start
    <3>1. mem'[Start] = mem[Start]
      BY <1>6, <2>4, NextIsAddress DEF Answered, NotAnswered, MemType
    <3>2. answered' = answered \/ answered' = packet
      BY <1>6 DEF Answered, NotAnswered
    <3> QED
      BY <1>1, <2>2, <2>3, <3>1, <3>2 DEF ListInMemory, HeadState
  <2>5. CASE cur = Start
    <3>1. HeadInUse BY <2>5 DEF HeadInUse
    <3>2. mem'[Start].state = "done" => Answered
      BY <1>6, <2>5, NextIsAddress DEF NotAnswered, MemType, Slots
    <3>3. Present >= 5 /\ Answered => answered' = packet
      <4>1. Present >= 5 => mem[Start].td.pid % 256 = \hD0
        BY <1>2 DEF ListInMemory
      <4>2. Present >= 5 => Kind(mem[Start].td) = "setup"
        BY <4>1 DEF Kind
      <4> QED BY <2>5, <4>2 DEF Answered, TDAt
    <3>4. Present >= 5 => HeadState'
      BY <1>1, <2>2, <3>1, <3>2, <3>3 DEF ListInMemory, HeadState
    <3> QED BY <1>1, <2>3, <3>4 DEF ListInMemory
  <2> QED BY <2>4, <2>5
<1> QED BY <1>3, <1>4, <1>5, <1>6 DEF Chip

LEMMA AnsweredStep == AnsweredInv /\ [UsbNext]_usbVars => AnsweredInv'
<1> SUFFICES ASSUME AnsweredInv, [UsbNext]_usbVars PROVE ListInMemory'
  BY TypeStep DEF AnsweredInv
<1> USE DEF AnsweredInv, TypeInv
<1>1. ASSUME UNCHANGED <<mem, packet, answered, step, ptr, cur, written,
                         raced>>,
             pc' \in Asking => pc \in Asking,
             pc' = "send" => pc = "send" \/ written = 0
      PROVE  ListInMemory'
  BY <1>1 DEF ListInMemory, HeadState, HeadInUse, Present
<1>2. CASE SoftReset \/ Info \/ HandOver \/ ((Look \/ Relook) /\ Passed)
  <2>1. Present' = 0
    BY <1>2 DEF SoftReset, Passed, Info, HandOver, Goto, Control, Present,
      Asking, After, Look, Relook
  <2> QED BY <2>1 DEF ListInMemory
<1>3. CASE Clear \/ SieInit \/ InitAck \/ BusReset \/ BusAck
  BY <1>1, <1>3 DEF Clear, SieInit, InitAck, BusReset, BusAck, Goto,
    LeavesList, LeavesWorld, Asking, After
<1>4. CASE Detect \/ Absent \/ Flag \/ RetryWait \/ StartPoll \/ ReadKey
             \/ Watch \/ Gone
  BY <1>1, <1>4 DEF Detect, Absent, Flag, RetryWait, StartPoll, ReadKey,
    Watch, Gone, Goto, chipVars, Asking, After, Control
<1>5. CASE Take \/ Wipe \/ Retry \/ RetryWipe
  <2>1. Take \/ Wipe \/ Retry \/ RetryWipe => pc \in Asking
    BY DEF Take, Wipe, Retry, RetryWipe, Asking, After
  <2> QED
    BY <1>1, <1>5, <2>1 DEF Take, Wipe, Retry, RetryWipe, TakeMsg, WipeMsg,
      Goto, LeavesList, LeavesWorld
<1>6. CASE (Look \/ Relook) /\ ~Passed
  BY <1>1, <1>6 DEF Look, Relook, Goto, chipVars, Asking, After
<1>7. CASE Point
  <2>1. step # Polling => packet = Requests[step].name
    BY <1>7 DEF Point, ListInMemory, Present, Asking
  <2>2. Present' = 64 /\ Present = 64
    BY <1>7 DEF Point, Goto, Present, Asking
  <2> QED
    BY <1>7, <2>1, <2>2
    DEF Point, Goto, LeavesWorld, ListInMemory, HeadState
<1>8. CASE Send BY <1>8, SendKeeps
<1>9. CASE ChipStep BY <1>9, ChipKeeps DEF ChipStep
<1>10. CASE Cable
  BY <1>1, <1>10 DEF Cable, Unplug, Plug, mainVars, Control
<1>11. CASE UNCHANGED usbVars
  BY <1>1, <1>11 DEF usbVars, chipVars, mainVars, Control
<1> QED
  BY <1>2, <1>3, <1>4, <1>5, <1>6, <1>7, <1>8, <1>9, <1>10, <1>11
  DEF UsbNext, Main, BringUp, Request, PollLoop

(* A request is left behind only when the last request that a keyboard has *)
(* acknowledged since the last reset is that one (see EachStepAnswered),   *)
(* whatever message made main look, and whatever the chip did between any  *)
(* two words of the list.                                                  *)
THEOREM NoStepUnanswered == UsbSpec => EachStepAnswered
<1>1. AnsweredInv /\ [UsbNext]_usbVars =>
        [step' > step => raced \/ Requests[step].name = answered]_usbVars
  <2> SUFFICES ASSUME AnsweredInv, [UsbNext]_usbVars, step' > step
               PROVE  raced \/ Requests[step].name = answered
    OBVIOUS
  <2>2. ~(1 > step) /\ ~(step > step)
    BY NineRequests DEF AnsweredInv, TypeInv, MainType
  <2>3. (Look \/ Relook) /\ Passed
    BY <2>2 DEF UsbNext, Main, BringUp, Request, PollLoop, ChipStep, Cable,
      SoftReset, Clear, SieInit, InitAck, BusReset, BusAck, Detect, Absent,
      Send, Point, Flag, Take, Wipe, Look, Retry, RetryWipe, RetryWait,
      Relook, Info, HandOver, StartPoll, ReadKey, Watch, Gone, Goto, TakeMsg,
      mainVars, usbVars
  <2>4. FirstDone /\ pc \in After
    BY <2>2, <2>3 DEF Look, Relook, Goto, After
  <2>5. step # Polling /\ Present = 64
    BY <2>4 DEF AnsweredInv, TypeInv, Control, Present, Asking
  <2> QED BY <2>4, <2>5 DEF AnsweredInv, ListInMemory, HeadState, FirstDone
<1> QED
  BY <1>1, AnsweredStarts, AnsweredStep, PTL DEF UsbSpec, EachStepAnswered

-----------------------------------------------------------------------------
(* Where the i-th descriptor of every list is: twelve bytes each, the      *)
(* request behind the first.                                               *)
Slot(i) == IF i = 1 THEN Start ELSE \h508 + 12 * (i - 1)

(* Descriptors one behind the other, each leading to the next, and the     *)
(* buffers of eight bytes behind them.                                     *)
Arranged(l, last) ==
  /\ last \in 2 .. 10 /\ Len(l) = last
  /\ \A i \in 1 .. last : l[i].at = Slot(i)
  /\ \A i \in 1 .. last : l[i].next = IF i = last THEN 0 ELSE Slot(i + 1)
  /\ \A i \in 2 .. last - 1 : l[i].base = l[2].base + 8 * (i - 2)
  /\ last > 2 => l[2].base \in Int /\ l[2].base >= Slot(last) + 12

(* Full packets but for the last one, and no more than is asked for.       *)
Filled(l, last, asked) ==
  /\ \A i \in 2 .. last - 1 :
       l[i].len \in 1 .. 8 /\ (i < last - 1 => l[i].len = 8)
  /\ l[last].len = 0
  /\ (IF last = 2 THEN 0 ELSE 8 * (last - 3) + l[last - 1].len) <= asked

(* SETUP with DATA0, data stages that alternate, status with DATA1.        *)
Staged(l, last) ==
  /\ l[1].base = Packet /\ l[1].pid % 256 = \hD0 /\ l[1].ctl = 1
  /\ \A i \in 2 .. last - 1 :
       l[i].pid % 256 = \h90 /\ l[i].ctl = IF i % 2 = 0 THEN \h41 ELSE 1
  /\ l[last].pid % 256 = IF last = 2 THEN \h90 ELSE \h10
  /\ l[last].ctl = \h41

(* Neither descriptors nor the request overlap.                            *)
LEMMA SlotsApart ==
  /\ \A i \in 1 .. 10 : Slot(i) \in Int
  /\ \A i, j \in 1 .. 10 :
       i < j => Slot(i) + 12 <= Slot(j)
  /\ Slot(1) + 12 = Packet
  /\ \A i \in 2 .. 10 : Packet + 8 <= Slot(i)
  BY SMT DEF Slot, Start, Packet

(* Two areas one of which ends before the other do not.                    *)
LEMMA AreasApart ==
  ASSUME NEW s \in Int, NEW m \in Int, NEW t \in Int, NEW n \in Int,
         s + m <= t \/ t + n <= s
  PROVE  ~Overlap(Area(s, m), Area(t, n))
  BY DEF Overlap, Area

(* A list with such a layout, contents and stages is one the controller    *)
(* can walk.                                                               *)
LEMMA ArrangedFits ==
  ASSUME NEW r, NEW last \in 2 .. 10, Arranged(r.list, last),
         Filled(r.list, last, r.asked), Staged(r.list, last)
  PROVE  WellFormed(r)
<1> DEFINE l == r.list
           areas == [i \in 1 .. last |-> Area(l[i].at, 12)]
           buffers == [i \in 2 .. last - 1 |-> Area(l[i].base, l[i].len)]
<1>1. /\ Len(l) = last
      /\ \A i \in 1 .. last : l[i].at = Slot(i)
      /\ \A i \in 1 .. last : l[i].next = IF i = last THEN 0 ELSE Slot(i + 1)
      /\ \A i \in 2 .. last - 1 :
           /\ l[i].base = l[2].base + 8 * (i - 2)
           /\ l[i].len \in 1 .. 8 /\ (i < last - 1 => l[i].len = 8)
      /\ last > 2 => l[2].base \in Int /\ l[2].base >= Slot(last) + 12
  BY DEF Arranged, Filled
<1>2. /\ l[1].base = Packet /\ l[last].len = 0
      /\ l[1].pid % 256 = \hD0 /\ l[1].ctl \div 64 = 0
      /\ \A i \in 2 .. last - 1 :
           l[i].pid % 256 = \h90 /\ l[i].ctl \div 64 = (i + 1) % 2
      /\ l[last].pid % 256 = IF last = 2 THEN \h90 ELSE \h10
      /\ l[last].ctl \div 64 = 1
  BY DEF Staged, Filled
<1>3. /\ l[1].at = Start /\ l[1].base = Packet /\ l[last].next = 0
      /\ \A i \in 1 .. last - 1 : l[i].next = l[i + 1].at
  <2>1. 1 \in 1 .. last /\ last \in 1 .. last OBVIOUS
  <2>2. l[1].at = Start /\ l[last].next = 0 BY <1>1, <2>1 DEF Slot
  <2>3. ASSUME NEW i \in 1 .. last - 1 PROVE l[i].next = l[i + 1].at
    <3>1. i \in 1 .. last /\ i + 1 \in 1 .. last /\ i # last OBVIOUS
    <3> QED BY <1>1, <3>1
  <2> QED BY <1>2, <2>2, <2>3
<1>4. /\ Kind(l[1]) = "setup" /\ Toggle(l[1]) = 0
      /\ \A i \in 2 .. last - 1 :
           Kind(l[i]) = "in" /\ Toggle(l[i]) = (i + 1) % 2
      /\ Kind(l[last]) = (IF last = 2 THEN "in" ELSE "out")
      /\ l[last].len = 0 /\ Toggle(l[last]) = 1
  BY <1>2 DEF Kind, Toggle
<1>5. ASSUME NEW i \in 2 .. last - 2 PROVE l[i].len = 8
  <2>1. i \in 2 .. last - 1 /\ i < last - 1 OBVIOUS
  <2>2. l[i].len \in 1 .. 8 /\ (i < last - 1 => l[i].len = 8)
    BY <1>1, <2>1
  <2> QED BY <2>1, <2>2
<1>6. (IF last = 2 THEN 0 ELSE 8 * (last - 3) + l[last - 1].len) <= r.asked
  BY DEF Filled
<1>7. ASSUME NEW i \in 1 .. last PROVE ~Overlap(areas[i], Area(Packet, 8))
  <2>1. i \in 1 .. 10 /\ 12 \in Int /\ 8 \in Int /\ Packet \in Int
    BY DEF Packet
  <2>2. Slot(i) + 12 <= Packet \/ Packet + 8 <= Slot(i)
    BY <2>1, SlotsApart
  <2>3. ~Overlap(Area(Slot(i), 12), Area(Packet, 8))
    BY <2>1, <2>2, SlotsApart, AreasApart
  <2> QED  BY <1>1, <2>3
<1>8. ASSUME NEW i \in 1 .. last, NEW j \in 1 .. last, i # j
      PROVE  ~Overlap(areas[i], areas[j])
  <2>1. i \in 1 .. 10 /\ j \in 1 .. 10 /\ 12 \in Int
    BY <1>1
  <2>2. Slot(i) + 12 <= Slot(j) \/ Slot(j) + 12 <= Slot(i)
    BY <1>8, <2>1, SlotsApart
  <2>3. ~Overlap(Area(Slot(i), 12), Area(Slot(j), 12))
    BY <2>1, <2>2, SlotsApart, AreasApart
  <2> QED  BY <1>1, <2>3
<1>9. ASSUME NEW j \in 2 .. last - 1
      PROVE  /\ l[2].base \in Int /\ l[j].base \in Int /\ l[j].len \in Int
             /\ l[j].base >= Slot(last) + 12
  <2>1. l[j].base = l[2].base + 8 * (j - 2) /\ l[j].len \in 1 .. 8
    BY <1>1
  <2>2. l[2].base \in Int /\ l[2].base >= Slot(last) + 12
    BY <1>1
  <2>3. Slot(last) \in Int
    BY SlotsApart
  <2> QED  BY <2>1, <2>2, <2>3
<1>10. ASSUME NEW i \in 2 .. last - 1, NEW j \in 2 .. last - 1, i # j
       PROVE  ~Overlap(buffers[i], buffers[j])
  <2>1. /\ l[i].base = l[2].base + 8 * (i - 2) /\ l[i].len \in 1 .. 8
        /\ l[j].base = l[2].base + 8 * (j - 2) /\ l[j].len \in 1 .. 8
    BY <1>1
  <2>2. l[2].base \in Int
    BY <1>9
  <2>3. \/ l[i].base + l[i].len <= l[j].base
        \/ l[j].base + l[j].len <= l[i].base
    BY <1>10, <2>1, <2>2
  <2> QED  BY <1>9, <2>3, AreasApart
<1>11. ASSUME NEW i \in 1 .. last, NEW j \in 2 .. last - 1
       PROVE  ~Overlap(areas[i], buffers[j])
  <2>1. i \in 1 .. 10 /\ last \in 1 .. 10 /\ i <= last
    BY <1>1
  <2>2. Slot(i) <= Slot(last)
    BY <2>1, SlotsApart
  <2>3. Slot(i) + 12 <= l[j].base /\ Slot(i) \in Int
    BY <1>9, <2>1, <2>2, SlotsApart
  <2>4. ~Overlap(Area(Slot(i), 12), Area(l[j].base, l[j].len))
    BY <1>9, <2>3, AreasApart
  <2> QED  BY <1>1, <2>4
<1> QED
  BY <1>1, <1>3, <1>4, <1>5, <1>6, <1>7, <1>8, <1>10, <1>11 DEF WellFormed

(* The nine lists are laid out so.                                         *)
LEMMA ListsArranged ==
  /\ Arranged(UsbSetAddress, 2)
  /\ Arranged(UsbGetDeviceDesc1, 3)
  /\ Arranged(UsbGetDeviceDesc2, 5)
  /\ Arranged(UsbGetConfigDesc1, 4)
  /\ Arranged(UsbGetConfigDesc2, 7)
  /\ Arranged(UsbSetConfig, 2)
  /\ Arranged(UsbClassRequest, 2)
  /\ Arranged(UsbGetHidDesc, 3)
  /\ Arranged(UsbGetReportDesc, 10)
<1>1. Arranged(UsbSetAddress, 2)
  BY SMT DEF Arranged, UsbSetAddress, TD, Slot, Start
<1>2. Arranged(UsbGetDeviceDesc1, 3)
  BY SMT DEF Arranged, UsbGetDeviceDesc1, TD, Slot, Start
<1>3. Arranged(UsbGetDeviceDesc2, 5)
  BY SMT DEF Arranged, UsbGetDeviceDesc2, TD, Slot, Start
<1>4. Arranged(UsbGetConfigDesc1, 4)
  BY SMT DEF Arranged, UsbGetConfigDesc1, TD, Slot, Start
<1>5. Arranged(UsbGetConfigDesc2, 7)
  BY SMT DEF Arranged, UsbGetConfigDesc2, TD, Slot, Start
<1>6. Arranged(UsbSetConfig, 2)
  BY SMT DEF Arranged, UsbSetConfig, TD, Slot, Start
<1>7. Arranged(UsbClassRequest, 2)
  BY SMT DEF Arranged, UsbClassRequest, TD, Slot, Start
<1>8. Arranged(UsbGetHidDesc, 3)
  BY SMT DEF Arranged, UsbGetHidDesc, TD, Slot, Start
<1>9. Arranged(UsbGetReportDesc, 10)
  BY SMT DEF Arranged, UsbGetReportDesc, TD, Slot, Start
<1> QED  BY <1>1, <1>2, <1>3, <1>4, <1>5, <1>6, <1>7, <1>8, <1>9

(* They ask for what they have room for.                                   *)
LEMMA ListsFilled ==
  /\ Filled(UsbSetAddress, 2, 0)
  /\ Filled(UsbGetDeviceDesc1, 3, 8)
  /\ Filled(UsbGetDeviceDesc2, 5, 18)
  /\ Filled(UsbGetConfigDesc1, 4, 9)
  /\ Filled(UsbGetConfigDesc2, 7, 255)
  /\ Filled(UsbSetConfig, 2, 0)
  /\ Filled(UsbClassRequest, 2, 0)
  /\ Filled(UsbGetHidDesc, 3, 123)
  /\ Filled(UsbGetReportDesc, 10, 123)
<1>1. Filled(UsbSetAddress, 2, 0)
  BY SMT DEF Filled, UsbSetAddress, TD
<1>2. Filled(UsbGetDeviceDesc1, 3, 8)
  BY SMT DEF Filled, UsbGetDeviceDesc1, TD
<1>3. Filled(UsbGetDeviceDesc2, 5, 18)
  BY SMT DEF Filled, UsbGetDeviceDesc2, TD
<1>4. Filled(UsbGetConfigDesc1, 4, 9)
  BY SMT DEF Filled, UsbGetConfigDesc1, TD
<1>5. Filled(UsbGetConfigDesc2, 7, 255)
  BY SMT DEF Filled, UsbGetConfigDesc2, TD
<1>6. Filled(UsbSetConfig, 2, 0)
  BY SMT DEF Filled, UsbSetConfig, TD
<1>7. Filled(UsbClassRequest, 2, 0)
  BY SMT DEF Filled, UsbClassRequest, TD
<1>8. Filled(UsbGetHidDesc, 3, 123)
  BY SMT DEF Filled, UsbGetHidDesc, TD
<1>9. Filled(UsbGetReportDesc, 10, 123)
  BY SMT DEF Filled, UsbGetReportDesc, TD
<1> QED  BY <1>1, <1>2, <1>3, <1>4, <1>5, <1>6, <1>7, <1>8, <1>9

(* And their stages are SETUP, data and status.                            *)
LEMMA ListsStaged ==
  /\ Staged(UsbSetAddress, 2)
  /\ Staged(UsbGetDeviceDesc1, 3)
  /\ Staged(UsbGetDeviceDesc2, 5)
  /\ Staged(UsbGetConfigDesc1, 4)
  /\ Staged(UsbGetConfigDesc2, 7)
  /\ Staged(UsbSetConfig, 2)
  /\ Staged(UsbClassRequest, 2)
  /\ Staged(UsbGetHidDesc, 3)
  /\ Staged(UsbGetReportDesc, 10)
<1>1. Staged(UsbSetAddress, 2)
  BY SMT DEF Staged, UsbSetAddress, TD, Packet
<1>2. Staged(UsbGetDeviceDesc1, 3)
  BY SMT DEF Staged, UsbGetDeviceDesc1, TD, Packet
<1>3. Staged(UsbGetDeviceDesc2, 5)
  BY SMT DEF Staged, UsbGetDeviceDesc2, TD, Packet
<1>4. Staged(UsbGetConfigDesc1, 4)
  BY SMT DEF Staged, UsbGetConfigDesc1, TD, Packet
<1>5. Staged(UsbGetConfigDesc2, 7)
  BY SMT DEF Staged, UsbGetConfigDesc2, TD, Packet
<1>6. Staged(UsbSetConfig, 2)
  BY SMT DEF Staged, UsbSetConfig, TD, Packet
<1>7. Staged(UsbClassRequest, 2)
  BY SMT DEF Staged, UsbClassRequest, TD, Packet
<1>8. Staged(UsbGetHidDesc, 3)
  BY SMT DEF Staged, UsbGetHidDesc, TD, Packet
<1>9. Staged(UsbGetReportDesc, 10)
  BY SMT DEF Staged, UsbGetReportDesc, TD, Packet
<1> QED  BY <1>1, <1>2, <1>3, <1>4, <1>5, <1>6, <1>7, <1>8, <1>9

(* So every request is well formed.                                        *)
LEMMA RequestsFit == \A s \in 1 .. 9 : WellFormed(Requests[s])
<1>1. WellFormed(Requests[1])
  <2>1. Requests[1].list = UsbSetAddress /\ Requests[1].asked = 0
    BY SMT DEF Requests
  <2>2. 2 \in 2 .. 10
    OBVIOUS
  <2> QED
    BY <2>1, <2>2, ListsArranged, ListsFilled, ListsStaged, ArrangedFits
<1>2. WellFormed(Requests[2])
  <2>1. Requests[2].list = UsbGetDeviceDesc1 /\ Requests[2].asked = 8
    BY SMT DEF Requests
  <2>2. 3 \in 2 .. 10
    OBVIOUS
  <2> QED
    BY <2>1, <2>2, ListsArranged, ListsFilled, ListsStaged, ArrangedFits
<1>3. WellFormed(Requests[3])
  <2>1. Requests[3].list = UsbGetDeviceDesc2 /\ Requests[3].asked = 18
    BY SMT DEF Requests
  <2>2. 5 \in 2 .. 10
    OBVIOUS
  <2> QED
    BY <2>1, <2>2, ListsArranged, ListsFilled, ListsStaged, ArrangedFits
<1>4. WellFormed(Requests[4])
  <2>1. Requests[4].list = UsbGetConfigDesc1 /\ Requests[4].asked = 9
    BY SMT DEF Requests
  <2>2. 4 \in 2 .. 10
    OBVIOUS
  <2> QED
    BY <2>1, <2>2, ListsArranged, ListsFilled, ListsStaged, ArrangedFits
<1>5. WellFormed(Requests[5])
  <2>1. Requests[5].list = UsbGetConfigDesc2 /\ Requests[5].asked = 255
    BY SMT DEF Requests
  <2>2. 7 \in 2 .. 10
    OBVIOUS
  <2> QED
    BY <2>1, <2>2, ListsArranged, ListsFilled, ListsStaged, ArrangedFits
<1>6. WellFormed(Requests[6])
  <2>1. Requests[6].list = UsbSetConfig /\ Requests[6].asked = 0
    BY SMT DEF Requests
  <2>2. 2 \in 2 .. 10
    OBVIOUS
  <2> QED
    BY <2>1, <2>2, ListsArranged, ListsFilled, ListsStaged, ArrangedFits
<1>7. WellFormed(Requests[7])
  <2>1. Requests[7].list = UsbClassRequest /\ Requests[7].asked = 0
    BY SMT DEF Requests
  <2>2. 2 \in 2 .. 10
    OBVIOUS
  <2> QED
    BY <2>1, <2>2, ListsArranged, ListsFilled, ListsStaged, ArrangedFits
<1>8. WellFormed(Requests[8])
  <2>1. Requests[8].list = UsbGetHidDesc /\ Requests[8].asked = 123
    BY SMT DEF Requests
  <2>2. 3 \in 2 .. 10
    OBVIOUS
  <2> QED
    BY <2>1, <2>2, ListsArranged, ListsFilled, ListsStaged, ArrangedFits
<1>9. WellFormed(Requests[9])
  <2>1. Requests[9].list = UsbGetReportDesc /\ Requests[9].asked = 123
    BY SMT DEF Requests
  <2>2. 10 \in 2 .. 10
    OBVIOUS
  <2> QED
    BY <2>1, <2>2, ListsArranged, ListsFilled, ListsStaged, ArrangedFits
<1> QED  BY <1>1, <1>2, <1>3, <1>4, <1>5, <1>6, <1>7, <1>8, <1>9

(* usb.c: whatever the controller and the keyboard do, each list that main *)
(* hands over can be walked to its end and answered by a device.           *)
THEOREM ListsAlwaysWellFormed == UsbSpec => []ListsWellFormed
<1>1. UsbTypeOK => ListsWellFormed
  BY NineRequests, RequestsFit DEF UsbTypeOK, ListsWellFormed
<1> QED  BY <1>1, UsbTypeCorrect, PTL

=============================================================================
