---------------------------- MODULE UsbRequests ----------------------------
(***************************************************************************)
(* The transfer descriptors that usb.c writes into the memory of the USB   *)
(* controller, one list for each step of the enumeration, and the          *)
(* descriptor of main.c that polls the keyboard.  Each UsbXxx() of the     *)
(* source writes one list from 500h on: the SETUP descriptor, the eight    *)
(* bytes of the request, then the descriptors of the data and status       *)
(* stages.  A list is read by the controller along its "next" words.       *)
(***************************************************************************)
EXTENDS Integers, Sequences

(* A descriptor: its address, then the words that describe it.  The fifth  *)
(* word, always 0013h, is the state of the descriptor: see Cy7c67200.      *)
TD(at, base, len, pid, ctl, next) ==
  [at |-> at, base |-> base, len |-> len, pid |-> pid, ctl |-> ctl,
   next |-> next]

Start == \h500      \* where every list starts
Packet == \h50C     \* where the bytes of the request are

Device(td) == td.pid \div 256
Kind(td) ==
  CASE td.pid % 256 = \hD0 -> "setup"
    [] td.pid % 256 = \h90 -> "in"
    [] td.pid % 256 = \h10 -> "out"
    [] td.pid % 256 = \h91 -> "poll"
    [] OTHER -> "junk"
Toggle(td) == td.ctl \div 64

-----------------------------------------------------------------------------
UsbSetAddress ==
  << TD(\h500, \h50C, 8, \h00D0, \h01, \h514),
     TD(\h514, 0,     0, \h0090, \h41, 0) >>

UsbGetDeviceDesc1 ==
  << TD(\h500, \h50C, 8, \h02D0, \h01, \h514),
     TD(\h514, \h52C, 8, \h0290, \h41, \h520),
     TD(\h520, 0,     0, \h0210, \h41, 0) >>

UsbGetDeviceDesc2 ==
  << TD(\h500, \h50C, 8, \h02D0, \h01, \h514),
     TD(\h514, \h544, 8, \h0290, \h41, \h520),
     TD(\h520, \h54C, 8, \h0290, \h01, \h52C),
     TD(\h52C, \h554, 2, \h0290, \h41, \h538),
     TD(\h538, 0,     0, \h0210, \h41, 0) >>

(* A mutant: the second data descriptor leads back to itself.              *)
UsbGetConfigDesc1Loop ==
  << TD(\h500, \h50C, 8, \h02D0, \h01, \h514),
     TD(\h514, \h544, 8, \h0290, \h41, \h520),
     TD(\h520, \h54C, 1, \h0290, \h01, \h520),
     TD(\h52C, 0,     0, \h0210, \h41, 0) >>

UsbGetConfigDesc1 ==
  << TD(\h500, \h50C, 8, \h02D0, \h01, \h514),
     TD(\h514, \h544, 8, \h0290, \h41, \h520),
     TD(\h520, \h54C, 1, \h0290, \h01, \h52C),
     TD(\h52C, 0,     0, \h0210, \h41, 0) >>

UsbGetConfigDesc2 ==
  << TD(\h500, \h50C, 8, \h02D0, \h01, \h514),
     TD(\h514, \h55C, 8, \h0290, \h41, \h520),
     TD(\h520, \h564, 8, \h0290, \h01, \h52C),
     TD(\h52C, \h56C, 8, \h0290, \h41, \h538),
     TD(\h538, \h574, 8, \h0290, \h01, \h544),
     TD(\h544, \h57C, 2, \h0290, \h41, \h550),
     TD(\h550, 0,     0, \h0210, \h41, 0) >>

UsbSetConfig ==
  << TD(\h500, \h50C, 8, \h02D0, \h01, \h514),
     TD(\h514, 0,     0, \h0290, \h41, 0) >>

UsbClassRequest ==
  << TD(\h500, \h50C, 8, \h02D0, \h01, \h514),
     TD(\h514, 0,     0, \h0290, \h41, 0) >>

UsbGetHidDesc ==
  << TD(\h500, \h50C, 8, \h02D0, \h01, \h514),
     TD(\h514, \h544, 8, \h0290, \h41, \h520),
     TD(\h520, 0,     0, \h0210, \h41, 0) >>

UsbGetReportDesc ==
  << TD(\h500, \h50C, 8, \h02D0, \h01, \h514),
     TD(\h514, \h580, 8, \h0290, \h41, \h520),
     TD(\h520, \h588, 8, \h0290, \h01, \h52C),
     TD(\h52C, \h590, 8, \h0290, \h41, \h538),
     TD(\h538, \h598, 8, \h0290, \h01, \h544),
     TD(\h544, \h5A0, 8, \h0290, \h41, \h550),
     TD(\h550, \h5A8, 8, \h0290, \h01, \h55C),
     TD(\h55C, \h5B0, 8, \h0290, \h41, \h568),
     TD(\h568, \h5B8, 3, \h0290, \h01, \h574),
     TD(\h574, 0,     0, \h0210, \h41, 0) >>

(* The requests in the order of main, each with the length it asks for.    *)
Requests ==
  << [name |-> "SetAddress", list |-> UsbSetAddress,     asked |-> 0],
     [name |-> "Device1",    list |-> UsbGetDeviceDesc1, asked |-> 8],
     [name |-> "Device2",    list |-> UsbGetDeviceDesc2, asked |-> 18],
     [name |-> "Config1",    list |-> UsbGetConfigDesc1, asked |-> 9],
     [name |-> "Config2",    list |-> UsbGetConfigDesc2, asked |-> 255],
     [name |-> "SetConfig",  list |-> UsbSetConfig,      asked |-> 0],
     [name |-> "Class",      list |-> UsbClassRequest,   asked |-> 0],
     [name |-> "Hid",        list |-> UsbGetHidDesc,     asked |-> 123],
     [name |-> "Report",     list |-> UsbGetReportDesc,  asked |-> 123] >>

(* The descriptor of a poll: eight bytes from endpoint 1 to 51Ch.          *)
Poll(toggle) ==
  << TD(Start, \h51C, 8, \h0291, IF toggle = 1 THEN \h01 ELSE \h41, 0) >>

(* What main writes at 576h where the endpoint descriptor is, and then     *)
(* hands to the controller as if it were a list.                           *)
Junk == TD(\h576, \h73F, \h8105, 3, 8, 0)

-----------------------------------------------------------------------------
Area(from, len) == from .. from + len - 1
Overlap(s, t) == s \cap t # {}

(* A list is what the controller and the device need: the next words lead  *)
(* through all of it and end; the SETUP stage is DATA0 and the stages      *)
(* after it alternate from DATA1, the status stage being DATA1; the data   *)
(* come in packets of eight bytes but for the last one, no more of them    *)
(* than are asked for; no descriptor or buffer lies on another or on the   *)
(* request.                                                                *)
WellFormed(r) ==
  LET l == r.list
      last == Len(l)
      areas == [i \in 1 .. last |-> Area(l[i].at, 12)]
      buffers == [i \in 2 .. last - 1 |-> Area(l[i].base, l[i].len)]
      data == IF last = 2 THEN 0 ELSE 8 * (last - 3) + l[last - 1].len
  IN
  /\ l[1].at = Start /\ l[1].base = Packet /\ l[last].next = 0
  /\ \A i \in 1 .. last - 1 : l[i].next = l[i + 1].at
  /\ Kind(l[1]) = "setup" /\ Toggle(l[1]) = 0
  /\ \A i \in 2 .. last - 1 : Kind(l[i]) = "in" /\ Toggle(l[i]) = (i + 1) % 2
  /\ \A i \in 2 .. last - 2 : l[i].len = 8
  /\ Kind(l[last]) = (IF last = 2 THEN "in" ELSE "out")
  /\ l[last].len = 0 /\ Toggle(l[last]) = 1
  /\ data <= r.asked
  /\ \A i \in 1 .. last : ~Overlap(areas[i], Area(Packet, 8))
  /\ \A i, j \in 1 .. last : i # j => ~Overlap(areas[i], areas[j])
  /\ \A i, j \in 2 .. last - 1 : i # j => ~Overlap(buffers[i], buffers[j])
  /\ \A i \in 1 .. last, j \in 2 .. last - 1 : ~Overlap(areas[i], buffers[j])

=============================================================================
