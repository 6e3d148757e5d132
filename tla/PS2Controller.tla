--------------------------- MODULE PS2Controller ----------------------------
(***************************************************************************)
(* PS2_Controller.v as Mouse.sv instantiates it, with its receiver         *)
(* Altera_UP_PS2_Data_In.v and its transmitter                             *)
(* Altera_UP_PS2_Command_Out.v.  INITIALIZE_MOUSE is 1: after a reset the  *)
(* controller sends one command of its own.  Mouse.sv connects neither     *)
(* the_command nor send_command, which are then grounded, so the states of *)
(* the transceiver and of the receiver that wait for send_command are not  *)
(* reachable and left out, and so is idle_counter, which guards them.      *)
(* A HostEdge is one rising edge of the 50 MHz clock.                      *)
(***************************************************************************)
EXTENDS Integers

CONSTANTS
  Command,     \* the byte sent after a reset: 8'hf4
  Cycles101us, \* how long the host holds the clock low: 5050
  DataLow,     \* when it also pulls the data line low: 4096
  Cycles15ms,  \* how long it waits for the mouse's clock: 750000
  Cycles2ms    \* how long a transmission may take: 100000

ASSUME PS2Assumption ==
  /\ Command \in 0 .. 255
  /\ DataLow \in 1 .. Cycles101us
  /\ {Cycles101us, Cycles15ms, Cycles2ms} \subseteq Nat \ {0}

VARIABLES
  devClk, devDat,                 \* what the mouse does to the two wires
  ps2_clk_reg, last_ps2_clk, ps2_data_reg,
  transceiver, receiver, transmitter,
  data_count, data_shift_reg, received_data, received_data_en,
  cur_bit, command_initiate_counter, waiting_counter, transfer_counter,
  command_was_sent, error_communication_timed_out,
  init_done

sampled == <<ps2_clk_reg, last_ps2_clk, ps2_data_reg>>
receiverVars ==
  <<receiver, data_count, data_shift_reg, received_data, received_data_en>>
transmitterVars ==
  <<transmitter, cur_bit, command_initiate_counter, waiting_counter,
    transfer_counter, command_was_sent, error_communication_timed_out>>
hostVars == <<sampled, transceiver, receiverVars, transmitterVars, init_done>>

-----------------------------------------------------------------------------
BitOf(b, i) == (b \div 2^i) % 2

(* The odd parity of a byte, {^the_command ^ 1}.                           *)
OddParity(b) ==
  (1 + BitOf(b, 0) + BitOf(b, 1) + BitOf(b, 2) + BitOf(b, 3)
     + BitOf(b, 4) + BitOf(b, 5) + BitOf(b, 6) + BitOf(b, 7)) % 2

(* A mutant: the highest bit first.                                        *)
CommandBitHighFirst(i) ==
  IF i = 8 THEN OddParity(Command) ELSE BitOf(Command, 7 - i)

(* ps2_command: the byte, lowest bit first, and its parity.                *)
CommandBit(i) == IF i = 8 THEN OddParity(Command) ELSE BitOf(Command, i)

(* The host pulls a wire down or leaves it to the pull-up and the mouse.   *)
HostClk == IF transmitter = "initiate" THEN 0 ELSE 1

HostDat ==
  CASE transmitter = "transmit" -> CommandBit(cur_bit)
    [] transmitter = "wait" -> 0
    [] transmitter = "initiate" /\ command_initiate_counter >= DataLow -> 0
    [] OTHER -> 1

PS2_CLK == IF HostClk = 0 THEN 0 ELSE devClk
PS2_DAT == IF HostDat = 0 THEN 0 ELSE devDat

ps2_clk_posedge == ps2_clk_reg = 1 /\ last_ps2_clk = 0
ps2_clk_negedge == ps2_clk_reg = 0 /\ last_ps2_clk = 1

(* A mutant: the request does not fall after a timeout.                    *)
SendCommandHeld == ~init_done /\ ~command_was_sent

(* Until the command is sent it is sent again after every error.           *)
send_command ==
  ~init_done /\ ~command_was_sent /\ ~error_communication_timed_out

Sample ==
  /\ last_ps2_clk' = ps2_clk_reg
  /\ ps2_clk_reg' = PS2_CLK
  /\ ps2_data_reg' = PS2_DAT

(* A low data line at a rising edge of the mouse's clock is a start bit.   *)
Transceiver ==
  transceiver' =
    CASE transceiver = "idle" /\ ps2_data_reg = 0 /\ ps2_clk_posedge -> "data_in"
      [] transceiver = "data_in" /\ received_data_en -> "idle"
      [] OTHER -> transceiver

(* A mutant: the parity bit is not waited for.                             *)
ReceiverNoParity ==
  /\ receiver' =
       CASE receiver = "idle" /\ transceiver = "data_in" /\ ~received_data_en ->
              "data_in"
         [] receiver = "data_in" /\ ps2_clk_posedge /\ data_count = 7 -> "stop_in"
         [] receiver = "stop_in" /\ ps2_clk_posedge -> "idle"
         [] OTHER -> receiver
  /\ data_count' = IF receiver # "data_in" THEN 0
                   ELSE IF ps2_clk_posedge THEN data_count + 1 ELSE data_count
  /\ data_shift_reg' = IF receiver = "data_in" /\ ps2_clk_posedge
                       THEN ps2_data_reg * 128 + data_shift_reg \div 2
                       ELSE data_shift_reg
  /\ received_data' = IF receiver = "stop_in" THEN data_shift_reg ELSE received_data
  /\ received_data_en' = (receiver = "stop_in" /\ ps2_clk_posedge)

Receiver ==
  /\ receiver' =
       CASE receiver = "idle" /\ transceiver = "data_in" /\ ~received_data_en ->
              "data_in"
         [] receiver = "data_in" /\ ps2_clk_posedge /\ data_count = 7 -> "parity_in"
         [] receiver = "parity_in" /\ ps2_clk_posedge -> "stop_in"
         [] receiver = "stop_in" /\ ps2_clk_posedge -> "idle"
         [] OTHER -> receiver
  /\ data_count' = IF receiver # "data_in" THEN 0
                   ELSE IF ps2_clk_posedge THEN data_count + 1 ELSE data_count
  /\ data_shift_reg' = IF receiver = "data_in" /\ ps2_clk_posedge
                       THEN ps2_data_reg * 128 + data_shift_reg \div 2
                       ELSE data_shift_reg
  /\ received_data' = IF receiver = "stop_in" THEN data_shift_reg ELSE received_data
  /\ received_data_en' = (receiver = "stop_in" /\ ps2_clk_posedge)

(* A timer runs to its limit in its states and is zero in the others.      *)
Timer(t, running, limit) ==
  IF ~running THEN 0 ELSE IF t # limit THEN t + 1 ELSE t

Transferring == {"transmit", "stop", "ack"}

Transmitter ==
  /\ transmitter' =
       CASE transmitter = "idle" /\ send_command -> "initiate"
         [] transmitter = "initiate" /\ command_initiate_counter = Cycles101us ->
              "wait"
         [] transmitter = "wait" /\ ps2_clk_negedge -> "transmit"
         [] transmitter = "transmit" /\ ps2_clk_negedge /\ cur_bit = 8 -> "stop"
         [] transmitter = "stop" /\ ps2_clk_negedge -> "ack"
         [] transmitter = "ack" /\ ps2_clk_posedge -> "sent"
         [] transmitter \in {"sent", "error"} /\ ~send_command -> "idle"
         [] transmitter = "wait" /\ ~ps2_clk_negedge
              /\ waiting_counter = Cycles15ms -> "error"
         [] transmitter = "transmit" /\ ~(ps2_clk_negedge /\ cur_bit = 8)
              /\ transfer_counter = Cycles2ms -> "error"
         [] transmitter = "stop" /\ ~ps2_clk_negedge
              /\ transfer_counter = Cycles2ms -> "error"
         [] transmitter = "ack" /\ ~ps2_clk_posedge
              /\ transfer_counter = Cycles2ms -> "error"
         [] OTHER -> transmitter
  /\ cur_bit' = IF transmitter # "transmit" THEN 0
                ELSE IF ps2_clk_negedge THEN cur_bit + 1 ELSE cur_bit
  /\ command_initiate_counter' =
       Timer(command_initiate_counter, transmitter = "initiate", Cycles101us)
  /\ waiting_counter' = Timer(waiting_counter, transmitter = "wait", Cycles15ms)
  /\ transfer_counter' =
       Timer(transfer_counter, transmitter \in Transferring, Cycles2ms)
  /\ command_was_sent' =
       (transmitter = "sent" \/ (send_command /\ command_was_sent))
  /\ error_communication_timed_out' =
       (transmitter = "error" \/ (send_command /\ error_communication_timed_out))

HostEdge ==
  /\ Sample
  /\ Transceiver
  /\ Receiver
  /\ Transmitter
  /\ init_done' = (init_done \/ command_was_sent)

HostInit ==
  /\ ps2_clk_reg = 0 /\ last_ps2_clk = 0 /\ ps2_data_reg = 0
  /\ transceiver = "idle" /\ receiver = "idle" /\ transmitter = "idle"
  /\ data_count = 0 /\ data_shift_reg = 0 /\ received_data = 0
  /\ received_data_en = FALSE
  /\ cur_bit = 0 /\ command_initiate_counter = 0
  /\ waiting_counter = 0 /\ transfer_counter = 0
  /\ command_was_sent = FALSE /\ error_communication_timed_out = FALSE
  /\ init_done = FALSE

(* A clock edge with the reset key held.                                   *)
HostReset ==
  /\ ps2_clk_reg' = 1 /\ last_ps2_clk' = 1 /\ ps2_data_reg' = 1
  /\ transceiver' = "idle" /\ receiver' = "idle" /\ transmitter' = "idle"
  /\ data_count' = 0 /\ data_shift_reg' = 0 /\ received_data' = 0
  /\ received_data_en' = FALSE
  /\ cur_bit' = 0 /\ command_initiate_counter' = 0
  /\ waiting_counter' = 0 /\ transfer_counter' = 0
  /\ command_was_sent' = FALSE /\ error_communication_timed_out' = FALSE
  /\ init_done' = FALSE

=============================================================================
