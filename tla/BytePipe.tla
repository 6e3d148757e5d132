------------------------------ MODULE BytePipe ------------------------------
(***************************************************************************)
(* What each direction of the JTAG UART promises: a queue that loses,      *)
(* doubles and reorders nothing.  One end puts in bytes, the other takes   *)
(* them out, either of them several at a time.  The bytes carry            *)
(* consecutive numbers, so that a byte of the wrong place or time shows.   *)
(***************************************************************************)
EXTENDS Integers, Sequences

CONSTANTS
  Numbers,   \* the numbers 0 .. Numbers - 1 are used round and round
  Capacity   \* the most bytes there may be on their way

VARIABLES
  q,         \* the bytes on their way
  next,      \* the number of the next byte to be put in
  taken      \* the number of the next byte to be taken out

pipeVars == <<q, next, taken>>

(* n consecutive numbers from k on.                                        *)
Run(k, n) == [i \in 1 .. n |-> (k + i - 1) % Numbers]

PipeInit == q = <<>> /\ next = 0 /\ taken = 0

Put(n) ==
  /\ Len(q) + n <= Capacity
  /\ q' = q \o Run(next, n)
  /\ next' = (next + n) % Numbers
  /\ UNCHANGED taken

Get(n) ==
  /\ n <= Len(q)
  /\ SubSeq(q, 1, n) = Run(taken, n)
  /\ q' = SubSeq(q, n + 1, Len(q))
  /\ taken' = (taken + n) % Numbers
  /\ UNCHANGED next

PipeNext == \E n \in 1 .. Capacity : Put(n) \/ Get(n)

PipeSpec == PipeInit /\ [][PipeNext]_pipeVars

=============================================================================
