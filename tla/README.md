# PaintBrushr, specified and verified

PaintBrushr is a paint program in hardware: an FPGA drives a 640 x 480 VGA
monitor, reads a PS/2 mouse, and keeps a 440 x 280 picture of four bits per
pixel in on-chip memory.  There is no processor in the path.  A click on a tool
changes a register, and everything else follows from the beam: each pixel of
the picture is read just before the beam gets there, sent through the paint
logic, and written back just after, sixty times a second.

Beside the painter the repository has a Nios II system with two C programs, a
USB keyboard reader and a PS/2 mouse reader, and the drivers they run on.

This directory holds TLA+ models of both, the TLC runs that check them and TLAPS
proofs about them.  The models are translated from the Verilog, SystemVerilog and
C under `src/`; `PROJECT.json` maps each definition to its lines.

## The system

| Part | Source | State it keeps | What it does |
|---|---|---|---|
| VGA timing | `VGA_controller.sv` | `clkdiv`, `hc`, `vc`, the two pulses | divides the clock, counts the raster |
| Paint logic | `Color_Mapper.sv` | tool, colour, brush, `counter`, `pressed`, the flags of the operations, `toReplace`, `atCursor` | one decision per pixel: the brush, a frame operation, or the pixel as it was |
| Frame memories | `lab8.sv`, `ram.v` | `screen0/1`, `horizScreen`, `vertScreen`, the registers at their ports | the picture and two mirrored copies of it |
| Display | `Color_Mapper.sv`, `rom2.v` | sprite read registers | which region, swatch or sprite word is under the beam |
| Pointer | `Mouse.sv` | `byte1..3`, `counter`, `curX`, `curY` | turns a stream of bytes into a position and a button |
| PS/2 link | `PS2_Controller.v`, `Altera_UP_PS2_Data_In.v`, `Altera_UP_PS2_Command_Out.v` | a receiver, a transmitter with three timers, the sampled wires | enables the mouse, receives its bytes |
| HEX displays | `HexDriver.sv` | none | shows the three bytes |
| USB keyboard program | `software/usb_kb/main.c`, `usb.c` | the step reached, `toggle`; in the chip: descriptors, messages, mailbox | brings up the CY7C67200, enumerates a keyboard in nine requests, polls it |
| USB host port | `software/usb_kb/io_handler.c`, `hpi_io_intf.sv` | five parallel ports, the interface's registers | one register access of the chip per call |
| PS/2 mouse program | `software/ps2_mouse/main.c` | the last three bytes, `counter`, `PS2_prev`, `curX`, `curY` | moves a cursor with a mouse |
| Avalon PS/2 core, driver | `nios_system_ps2_0.v`, `altera_up_avalon_ps2.c` | FIFO, error bit; `device_type` | queues bytes, sends commands, finds out what is plugged in |
| JTAG UART | `nios_system_jtag_uart_0.v`, `altera_avalon_jtag_uart_*.c` | two FIFOs, interrupt enables; two rings, `irq_enable` | the programs' console |
| Left-overs | `ball.sv`, `CursorController.sv`, `frameSave.sv`, `PS2_Demo.v`, `testbench.sv` | | earlier labs and vendor demonstrations, instantiated nowhere |
| Board support | `nios_system/`, `software/*_bsp/HAL` | | generated by Qsys and the Nios tools |

How they interact.  `VGA_controller` gives the beam to the paint logic and the
addresses.  The paint logic and the raster counters are clocked by the rising
edge of the 25 MHz pixel clock, the memories by its falling edge; a read is
answered two falling edges later.  `Mouse` is clocked at 50 MHz, independent of
the beam, and the paint logic samples its position and button at every pixel.
The PS/2 wires are driven by both ends; the mouse provides the clock, and the
host may pull it low.  `KEY[0]` resets the raster, `byte1` (so the
button) and the PS/2 machines, but not the paint logic, the memories or the
position of the pointer.

The programs touch hardware by loads and stores only.  `usb_kb` and the CY7C67200
run concurrently and share the chip's memory, a message register and a mailbox,
each reached through four registers of the host port; nothing interrupts the
program.  `ps2_mouse` polls the data register of its core, once per pass.  The
JTAG driver is the only code with an interrupt routine: read, write and close
share two rings, a copy of the interrupt enables and the core with it.

What is hard.

* Pipelines.  The pixel read is two ahead of the pixel written.  An enable or
  an address off by one shifts a picture by a column per frame, perhaps only at
  the border.
* Operations that take a frame.  A flip, Clear, Random or the bucket starts at
  any pixel, lasts 420 000 pixels, and the mouse moves and clicks meanwhile.
* One-shot tools.  A button held for a second is held for 25 million clocks, and
  must enlarge the brush once.
* A flip reads one memory while writing it in another order.
* The mouse.  Two ends share two wires; a request may go unanswered, be
  answered as its timer ends, or be cut off by a reset; and the bytes are filed
  by counting from the reset.
* USB: the chip walks a list of descriptors while the program may be writing it
  again; messages are one bit each and may merge, double or be wiped; the
  keyboard may go at any step.
* Host port: an access is six stores; strobes, address and data move one at a
  time, through registers, over a bus either end may drive; and it must be one
  access, for the chip counts them.
* JTAG: two contexts, no lock; each turns interrupts off that the other needs.
* PS/2 programs: devices that answer late, in part or not at all; bytes that are
  filed by the number of the pass; unsigned arithmetic at the border.

## What makes each part correct

* Timing: the pulses fall on their pixels, never in the picture; frames recur.
* Paint logic: one effect per press; one operation at a time; every operation
  ends; a released button re-arms.
* Memories: the pixel that reaches the logic is the one behind the beam; a pixel
  of the canvas changes only at its own turn and for a reason; a held brush
  reaches every pixel it covers.
* Operations: over a whole frame each does what its button says.
* Display: a sprite pixel shows its own word; a click picks the colour seen.
* Pointer: on the screen for any bytes; each movement applied once with its sign.
* Link: the command is heard; the mouse is enabled; packets reach their registers.
* USB keyboard: no request is passed that was not answered; every list is one
  the chip can walk; resending ends; a removal is noticed.
* Host port: each call is exactly one access; one driver of the bus at a time.
* JTAG UART: both directions are queues; no wake-up is forgotten; calls end if
  the host takes part.
* PS/2 mouse program: initialisation returns; the cursor stays inside and does
  not drift.

`PROJECT.json` lists the corresponding hazards, each at its line.

## Modules

```
Raster ------+-- VGAController --- Display --- MCDisplay, Screen_proofs
             |      Layout -----------+  (Layout also in MCColorMapper)
             +-- Paint --- PaintOps --- MCPaintOps, Paint_proofs
ColorMapper -+     +------ MCPaint ------+
   +-- OneShot --- OneShot_proofs
   |      +------- MCOneShot (with MCColorMapper)
Pointer <= Mouse --- MouseStream --- MouseStream_proofs
PS2Controller -----------+               (Mouse implements Pointer)

BytePipe <= JtagUart (twice: TxPipe, RxPipe) --- JtagUart_proofs
JtagCore ----+
UsbRequests --- Cy7c67200 --- UsbKeyboard --- UsbKeyboard_proofs
HpiPort <= HpiWires --- HpiWires_proofs
PS2Port --- PS2Program --- PS2Program_proofs
                 +-------- MCPS2Program
```

* **Raster**: `hc` and `vc` and their common process.  `CounterProc` is
  `counter_proc`, used wherever something follows the beam.
* **VGAController**: a step is an edge of the 50 MHz clock or the asynchronous
  reset.  `PixelEdge` is an edge that raises `clkdiv`, with all three clocked
  processes; `HalfEdge` lowers it; `Reset` is `KEY[0]`.
* **Layout**, **Display**: the coordinate chains of `Color_Mapper.sv` as tables
  (`PickRows`, `ToolRows`, `SwatchRows`; the first match wins, as in an
  else-if chain), the colour tables, and the two sprite memories with their
  delayed outputs (`LogoSpriteEdge`, `ToolSpriteEdge`) driven by VGAController: the
  memories are clocked where the pixel clock falls (`HalfEdge`), which the reset key makes it do
  too (`DisplayReset`).  A memory has as many words as the source gives it: `ToolWords` is
  11 900 (`rom2.v:94`), the panel has 14 350 pixels, and an address beyond the end is answered
  with `NoWord`.
* **ColorMapper**: the `always_ff` of `Color_Mapper.sv`.  `Posedge` is one pixel
  clock: `PixelOut` (the data to the memories) together with the one branch
  of the big else-if that the code takes, one action per branch: `OpStep`,
  `PickColor`, `Larger`, `Smaller`, `SelectBrush`, `Eraser`, `StartOp`,
  `NoTool`, `Release`.  Alone, the memories may answer anything and the beam may
  be anywhere.
* **OneShot**: ColorMapper with a history variable, `spent`: the held button has
  already fired a one-shot tool.
* **Paint**: raster, paint logic and memories wired as in `lab8.sv`.  One step
  is a period of the pixel clock, `PixelPeriod`: on the rising edge `Posedge` and
  `CounterProc`, on the falling edge `MemoryEdge`, with the addresses and
  enables that follow from the new registers.  `screen0` and `screen1` share
  their addresses and enables and are one memory of 4-bit pixels.  A memory read at
  the address it writes answers with `Garbage` (the megafunction leaves this
  undefined).  `ResetLow` and `ResetHigh` press the key in either half of a
  period.
* **PaintOps**: Paint with a history of the operation that runs: its kind,
  the picture and pixel it started from, whether it ran alone, with a steady
  cursor and from a picture that had been still for a frame (in which the mirror
  memories take their copy).  `atCursor` holds what the beam found under the cursor when it last came by;
  `looked` says that neither the cursor nor that pixel has changed since.  The colour the bucket is
  to replace (`Target`) is then the pixel under the cursor itself, and the register only if the
  beam has not been there yet.  `before` is the colour of the fill before.
* **Mouse**: `XByte`, `YByte`, `StatusByte` are the three branches of the
  rotation, `Reset` the key; a step is a delivered byte.  **Pointer** is what
  the painter needs of it: a movement that has been reported and not made yet is owed
  (`owedX`, `owedY`), `Move` and `Button` make it, each with its own sign and size, and none is
  reported while another of its axis is owed.  The run `mouse_stream` and the theorem `Implements`
  show that Mouse implements it.
* **PS2Controller**: one 50 MHz edge (`HostEdge`) of the sampling registers, the
  transceiver, the receiver and the transmitter, and the two open-collector
  wires.  `Mouse.sv` connects neither `send_command` nor `the_command`; the fitter
  grounds them (`lab8.map.rpt` says so), so the transceiver states that need
  them are unreachable and left out.
* **MouseStream**: PS2Controller and Mouse as wired in `Mouse.sv`, with a PS/2
  mouse at the other end.  The mouse is external: it follows the protocol the
  controller's machines expect (it takes a command on request, acknowledges,
  streams packets, and stops when the clock is held), with phases of varying
  length.  Its self-test message, two more bytes, is taken to precede the reset.
  It takes any frame for the command: when the reset key goes down during one, the host lets go of
  the data line, and what the mouse then hears (ones, if the key stays down for long) is not
  followed further; `CommandHeard` leaves such frames out.
* **UsbRequests**: the nine descriptor lists of `usb.c`, the poll descriptor and the
  constants `main.c` writes over an endpoint descriptor (`Junk`), and what makes
  a list `WellFormed`.
* **Cy7c67200**: the chip and the keyboard, external: `Command` executes the mailbox,
  `Begin`, `Answered`, `NotAnswered` and `Advance` walk a list, `Post` sets a
  message, `Plug` and `Unplug` move the cable.  A retried transfer, or a removal,
  uses up one of `Faults`.
* **UsbKeyboard**: `main`, a register access that the chip could notice per
  action.  `BringUp` is everything up to the detection, `Request` one of the nine
  steps (`Send`, `Point`, `Flag`: write the list and its pointer, sleep, look;
  `Take`, `Wipe`: UsbWaitTDListDone; `Look`, `Retry`, `RetryWipe`, `RetryWait`,
  `Relook`: UsbGetRetryCnt), `PollLoop` the rest.
  `Send` writes a list word by word, in the order of `usb.c`: six words of the first descriptor, the
  fifth of which arms it, the four of the request, then the other descriptors.  It may stop after any
  of them the chip could tell from its neighbour (`Stops`), for one of `Faults`, and the chip then walks a
  list half old and half new (`Overwritten`, `PacketAfter`).  `Info` and `HandOver` are main's own
  five words and the pointer to them.  The ghost variable `raced` remembers that the chip was at the head of a
  list while it was armed for a request that was not in memory yet.
* **HpiPort**: the abstract host port, four registers and one access per call.
  **HpiWires** implements it: `IO_write` and `IO_read` are sequences of accesses
  to parallel ports (`PioAccess`), a step is a period of the 50 MHz clock, and
  `Hardware` is what `hpi_io_intf`, the bus and the chip's strobes do in it.  The
  strobes of the chip end an access; the data are what is on the bus then.
* **PS2Port**: the registers and the FIFO of the core with the device plugged into it;
  a command is sent within the write, since the core holds the processor.
* **PS2Program**: `alt_up_ps2_init`, a register access per action, and `Pass`, one turn
  of main's loop.
* **JtagCore**: FIFOs, `RI` and `WI`, and the pause that stands in for the host's
  presence.  **JtagUart**: the driver, an access to a shared variable or register
  per action; `Irq` is the routine, which runs to its end once started, at any point of
  `Program`.  **BytePipe** is a queue; each direction of the driver implements it.
* **MC\*** modules hold the constants that are too long for a cfg.

In every module, a definition whose comment begins "A mutant" is not part of
the model: it is a plausible bug, and shows that a property depends on the code.

## Runs

| Run | Cfg | Shows |
|---|---|---|
| `screen` | Screen | at every pixel of the real 800 x 525 raster, with resets: the horizontal pulse on its pixels, no pulse in the picture, frames recur once the key stays up; sprite pixels drawn from their own words as far as the memory has them, clicks pick what is seen |
| `vsync_comment` | VSync | *violated*: the vertical pulse is not on the lines its comment names |
| `mapper` | Mapper | all tools, on the real layout, any interleaving of clock, button and pointer: one effect per press, one operation at a time |
| `paint_ops` | PaintOps | what a frame of each flip, Clear and the bucket makes of a picture, the pixel at which it starts included |
| `paint_pipeline` | PaintPipeline | the read-ahead and the write-behind lose nothing, also across a reset; held brushes paint; operations end; release re-arms |
| `mouse_stream` | MouseStream | from the wires to the registers: every frame not broken off heard as the command, mouse enabled, packets understood, each movement made once with its sign, the pointer kept on the screen |
| `mouse_stream_late` | MouseStreamLate | *violated*: after seven unanswered requests the bytes are cut at the wrong bits |
| `jtag_uart` | JtagUart | reads, writes, closes, blocking or not, against the interrupt routine and the host: both directions are queues, no wake-up is forgotten, calls end |
| `usb_kb` | UsbKb | enumeration and polling against the running chip, with a retry, a removal or a list met half-written: steps answered, lists sound, resending ends, removal noticed |
| `ps2_mouse` | PS2Program | a mouse, a keyboard or nothing, unplugged and plugged in at any time: initialisation returns, the cursor stays inside, does not drift |
| `ps2_mouse_inserted` | PS2Inserted | *violated*: a mouse plugged in while main runs is not enabled |
| `hpi` | Hpi | all sequences of calls from power-up on, at any pace: one access per call, one driver of the bus |

### Bounds, and why they are enough

* `screen`, `vsync_comment`: the real constants; `screen` has 1 582 579 states.  The reset key goes
  down at the pixels of `TestResets` (ends of line and frame, in and beside logo and tools, the last row with
  words, in both pulses), in either half of the period, and stays down for any time: elsewhere
  a reset differs only in which word waits in a memory.
* `mapper`: one cursor on each of the twelve tools, on a swatch, on the canvas
  and on the desk, which are all the classes of `ToolAt` and `PickAt` the logic
  tells apart; two colours; frames of three pixels and brush sizes 0, 3, 6, so
  that both ends of each range are reached.  Presses and moves are unbounded.
* `paint_ops`: a 6 x 2 canvas in a 9 x 2 raster.  Six columns make three kinds of
  columns for a flip (border, middle, and one that is neither); two lines
  exchange with each other.  Nine of the twelve pixels have a colour of their
  own, three repeat one, so the bucket has something to replace.
  `MaxMouse = 3`: a move to a tool, a press, and one more event (a release or a
  move onto the canvas) at any pixel.
* `paint_pipeline`: a 3 x 2 canvas with the margins the enables use, all colours
  distinct, a brush that covers all of it or the bucket; two mouse events
  and one reset, at any half clock.  Everything the pipeline does is relative to
  the beam and repeats per line, so first, middle and last column
  are the cases.  The address spans wrap as the 9-bit and 17-bit
  addresses do.
* `mouse_stream`: the bytes and registers are real, the timers are shortened from
  5050, 4096, 750 000 and 100 000 cycles to 14, 10, 18 and 150, against a mouse whose
  phases take four to six cycles (really some 2000).  `StreamAssumption`
  states what is kept: an attentive mouse answers within the short wait, a whole
  transmission fits the long one, the clock is held longer than a bit.
  `MaxFailures = 6` is the largest number of timed-out requests for which the
  properties hold, as the next run shows with 7; the reset key goes down once, at any edge, for any
  time.  Four packets see the rotation return and the pointer come onto the screen and to its edges;
  their bytes (status 57, X 0, Y 56) are a movement of -256, the widest there is, and one of -200, and the
  command and its answer, taken for X and Y while `byte1` is 0, are positive ones.  The theorems `OnScreen` and `Implements`
  hold for every width and every byte.
* `jtag_uart`: FIFOs of 2 (really 64), thresholds 0 and 1 (really 8 free or held), rings of 3
  slots (really 2048): a ring holds two bytes, so it is full, empty,
  wrapped and split in two pieces, and it is larger, equal and smaller than what a
  FIFO holds or a call asks for (1 and 2).  Bytes carry numbers modulo 3, `Depth + BufLen - 1 = 4`
  may be on their way; a byte lost, doubled or exchanged with its neighbour shows.
* `usb_kb`: one keycode, one fault (a transfer that is
  retried, a cable that is pulled, which may be put back, or the chip getting in while a list is
  written, after any word), at any access of any step; 929 340 states.  The theorems hold for any number.
* `ps2_mouse`: a FIFO of 3 (really 256), so that it overflows; a time-out of 2 reads
  (really 131071); the screen is 11 x 6 positions around the start (really 511 x 351), so
  that two packets of up to 7 reach all borders; one device plugged in later.
* `hpi`: two words, two addresses, an access time of one clock and at least four clocks
  between two accesses.  The processor is a Nios II/e (`CPU_IMPLEMENTATION "tiny"`, `system.h:70` of both packages),
  which takes at least six per instruction; four is the least `WiresAssumption` admits, and slower is
  included (`Busy`).  Two words suffice for data left over from before the call to differ
  from the right ones.  An undriven bus is taken to keep its level for one clock.

### Fairness and liveness

Every liveness property of the painter assumes only that its clock never
stops: `WF(Clk)`, `WF(DisplayClk)`, `WF(PixelClock)`, `WF(PixelPeriod)`, `WF(Cycle)`.  These clocks
come from the board's oscillator (`clkdiv` is shown to follow from it in
`VGAController`), and their steps are always enabled.  Nothing is assumed of the
user: where a property needs the reset key to be left alone or the button to be
held, it says so as a hypothesis (`FramesRecur`, `HeldBrushPaints`,
`ReleaseRearms`).  The mouse in `MouseStream` shares the step of the host clock,
and its phases are bounded by `MaxPhase`; that it answers in the end is the
meaning of `MaxFailures`.

Of the programs it is assumed that the processor runs.  `JtagUart`: weak fairness of the
steps within a call and of the routine; calls need not be made, and what the host
does is a hypothesis of the property (`HostListens`, `HostPauses`).  `UsbKeyboard`:
weak fairness of `Main` and of the chip, and strong fairness of `Advance`: the loop that
writes a list again re-arms the descriptors each time, but sleeps 10 ms in between
(`main.c:214`), many times what the chip needs to retire one.  That a poll is answered is
not assumed, nor that anybody plugs or types.  `PS2Program`: weak fairness of the
driver and of the passes, none of the device.  `HpiWires` states no liveness.

### What the violated runs say

`mouse_stream_late` (`PS2_Controller.v:131`).  The receiver listens while the host
transmits, and counts the edges the host itself makes.  With up to six
unanswered requests exactly two bytes come out of this (the command, heard back,
and the acknowledgement), and the rotation in `Mouse.sv` depends on there being two.
Seven, 105 ms of self-test, shift the frames for good.

`vsync_comment` (`VGA_controller.sv:109`).  The comment at line 101 puts the vertical pulse on lines 490
and 491.  `vsync_proc` compares with a line added, as `hsync_proc` does with a pixel, to make up for the register;
but that register, too, is a pixel late, not a line.  The pulse is low from line
489, pixel 1, to line 491, pixel 0: two lines long, one early.  The theorem `VSyncIsEarly` says so for
all timings.

`ps2_mouse_inserted` (`ps2_mouse/main.c:49`).  `byte2 == (char)0xAA` never holds where char is
signed, so the branch "mouse inserted; initialize sending of data" (line 51) is never taken: a mouse plugged in
later fills `byte2` and `byte3` as the code expects and is not enabled.  `OnlyInitDoes` is the
general statement.

### Seen on the way

Met while modelling, without a violated run.  The properties are
stated so that they say what the code does.

In the painter:

* The tool panel needs 14 350 words (`imagemono.mif:1`), its memory has 11 900
  (`rom2.v:94`): rows 270 to 304 of the screen, the two flip buttons, have no word of their own.
  `SpritesAligned` says that they, and no other rows, are drawn from none.
* Flip Horizontal (`Color_Mapper.sv:50`) mirrors at an axis between the wrong columns:
  writing is delayed by a column, and `back_write` lacks the extra column that
  `ram_write` has.  `HorizontalFlip` states what happens.
* In its first clock the bucket (`Color_Mapper.sv:119`) compares with the register it is
  just loading: the pixel behind the beam is compared with the target of the previous fill
  (`op.before` in `ColorReplaced`).  What it loads, `atCursor`, is what the beam found when it last came
  by the cursor: a click within a frame of a movement, or of a change there, replaces the colour that was seen
  before (`looked`).
* Clear and the bucket are one operation, told apart by where the cursor is at
  each pixel (`Color_Mapper.sv:114`): Clear becomes a fill when the cursor enters the canvas.
  Clear leaves the pixel under the beam at the click.

In the programs:

* `usb_kb`: the mailbox is read right after the bus reset is requested (`main.c:128`), where
  the acknowledgement of the step before may still be.
* `UsbGetRetryCnt` waits for the control byte to become 03h (`usb.c:574`, called at
  `main.c:225`): after a retried transfer nobody changes it any more.  `UsbWaitTDListDone` waits for
  the message to equal TDListDone (`usb.c:557`): it may come together with another one, or between
  the read and the clearing, and is gone.  These are the loops `LostDone` names.
* A list that is written again (`main.c:210`) may complete twice; the second completion is taken
  for the next request's.  `EachStepAnswered` says that no request is skipped for it.
* `usb.c:196` arms the first descriptor of a list five stores before its request is complete
  (`usb.c:200`).  Without `raced` in `EachStepAnswered`, TLC passes a step unanswered in 36 steps, with a
  chip that gets in once: a resend leaves 500h pending; main takes the first completion, passes, and arms
  the descriptor of the next request; the chip starts there, sends the old request again and marks the
  new descriptor done.  What keeps the real program clear of it is time: it sleeps 10 ms after each resend
  (`main.c:214`), and the chip begins a pending list within a frame of 1 ms.
* `main.c:345` writes constants over an endpoint descriptor while the chip may be at the
  list before.
* `toggle` is not reset for a new keyboard (`main.c:473`); a keyboard that is pulled and put back
  between two looks is not noticed (`main.c:529`); KEYCODE may show 20h, a word of the
  last list, when a poll completes without a report (`main.c:520`), and stays after a removal.
* `ps2_mouse`: the number of the pass, not of the byte, says where a byte is filed
  (`counter` is advanced at every pass, while the comment at `main.c:40` speaks of packets).
  A late self-test byte makes a mouse
  unknown, a late identification a keyboard.
* `alt_up_ps2_read_fd` has a stray semicolon (driver, line 231) and would not end; nothing calls it.
* Both board support packages configure no system clock (`ALT_SYS_CLK none`): the JTAG driver's
  host-activity alarm never starts, and waits for a host that is not there are unbounded, although
  the comment in `altera_avalon_jtag_uart_close` speaks of a time-out.
* The parallel ports power up at 0, so chip select and both strobes are low, and both ends drive the bus, until
  `IO_init` has run.  `hpi_io_intf.sv:15` releases the bus a clock before the chip's strobe
  rises, so each write relies on the bus keeping its level for 20 ns.

Elsewhere: the second `// Flip Horizontal` comment
(`Color_Mapper.sv:230`) stands at the vertical flip.  The pointer powers up at
(0, 0), outside of the range it is clamped to, and the two bytes before the first packet
may move it off the screen until the mouse has been moved far enough; that
is why `StaysOnScreen` speaks of a pointer that is on the screen.

## Proofs

All theorems are about the specifications that TLC runs, for every value of the
constants that the modules' assumptions admit.

* `Screen_proofs`: `TypeCorrect`; `HSyncCorrect` and `VSyncIsEarly` (its `VSyncTwoLines` is where the
  vertical pulse is, instead of where the comment has it), which
  are inductive with the type invariant (the pulse after a pixel edge is a
  function of the counters before it, and the counters step by one or wrap); and
  `PictureNeverBlanked`, a consequence of the two, since the pulses lie beyond the
  display by `SyncAssumption`.  `ScreenKeepsTime`: `HSyncCorrect` and `PictureNeverBlanked` hold of the raster with the
  display connected, since `DisplaySpec` drives it only as `VGASpec` allows.
  `SpritesStayAligned`, for a raster of any size that holds the
  sprites and a tool memory of any size (TLC has the real ones), through resets: the output follows the word read one
  clock later, so the inductive `SpriteInv` says which word waits in each memory at each place of the
  raster (`LogoAhead`, `ToolsAhead`): within a row the next pixel's, beside the sprite
  the first of the next row.  `PickedIsAlwaysSeen`: the two coordinate chains of
  `Color_Mapper.sv` have their rectangles in the same order (`SameHits`), so the first that
  holds a point is the same in both, on the screen or off it.
* `OneShot_proofs`: `TypeCorrect` of ColorMapper, whose interesting part is that the brush
  size stays a multiple of 3 below 256, so it never wraps in its register; that
  invariant needs `BrushMax % 3 = 0`, true of 255.  `AtMostOneOperation`: the flags are
  false whenever the counter is zero; each branch of the else-if sets at most
  one, starting from zero, and the last pixel clears all.  `ShotTypeCorrect` adds the
  button, the pointer and the memories.  `OneShotHolds`: `OneShotPerPress` says nothing of
  `pressed`; the strengthening is `HeldIsRemembered`, a button that has had its
  effect is still down and `pressed` is set.  It is inductive because only
  `Release` clears `pressed`, and only with the button up (`PressedStays`), and
  only a tool that is not yet pressed fires (`FiringPresses`).
* `MouseStream_proofs`: `TypeCorrect`; `OnScreen`; `Implements`, a step simulation into
  `Pointer`.  The lemmas `DownIsMove` and `UpIsMove` say that the unsigned comparisons
  with their wrap-around clamp a coordinate that is on the screen;
  `MagnitudeIsSize` that nine bits hold the magnitude of every byte.  Each branch of the rotation is one
  action of Pointer: `XByte` reports, `YByte` makes the horizontal movement and reports the vertical one,
  `StatusByte` makes that and sets the button; a wrong sign or a movement made twice is no step of it.
  `CommandAlwaysHeard` is about the link and holds for the real timers, of which the run has
  short ones.  Its invariant `LinkInv` says how the host follows a frame: the samples are
  those of one and two cycles ago (`Sampled`), the transmitter has seen a fall of the clock two cycles
  after it (`Followed`), the transfer timer has not run longer than the frame (`InTime`), and the mouse has
  heard the first bits of `Frame`, at the top of its shift register (`Heard`; `NextBit` shows that the
  host's next bit makes the next value).  It is inductive only with what happens when a frame
  is broken off: the host holds the clock until the mouse has given up
  (`GivingUp`, which needs `2 * MaxPhase + 2 < Cycles101us`), and has seen it high again before it
  waits for a fall (`Waiting`).  `PacketsAlwaysUnderstood` is the other direction: see below.
  `MouseIsDriven` puts the two halves together: PS2Controller, the wires and the mouse drive Mouse
  only as `MouseSpec` allows, so (`PointerOnTheWires`) what is proved of Mouse by itself holds of the
  pointer behind the wires.
* `Paint_proofs`: see below.
* `JtagUart_proofs`: `JtagTypeCorrect`, by `TypeInv`, which adds to the types that the piece a call
  copies is no longer than the call (`Pieces`): without it an index could leave its
  ring.  `SendNeverForgotten` and `ReceiveNeverDeaf`, by `WakeInv`: device and driver agree
  about the enables, and `got` belongs to a read that has not returned.  `TxIsPipe` and
  `RxIsPipe` show that driver and core implement `BytePipe` in both directions: the
  mapping is the ring, read from the out index, and the FIFO, one behind the other.  The lemmas
  about rings (what storing a byte at the in index, or taking a piece at the out index, makes
  of `Held`) do the work; `PipeInv` adds to `TypeInv` what the call and the routine have in
  hand: the bytes on their way are numbered without a gap (`Numbered`), a piece is no longer than
  what the ring holds or has room for although the routine moves the other index, and `space` is
  no more than the FIFO has.  `ChunkHeadHolds` is a part of it.
* `UsbKeyboard_proofs`: `UsbTypeCorrect`; `NoStepUnanswered`.  The step counter moves only
  when main has looked at a control byte of 03h at the head of the list; the strengthening
  `ListInMemory` says that the request in memory is that of the step and that a
  head that is done has been answered by a keyboard; while a list is half-written it holds of what is
  there so far, as long as the head was not armed under the chip (`raced`), which is the hypothesis of
  `EachStepAnswered` too.  `ListsAlwaysWellFormed`, of the nine lists (the poll list and
  main's own words have no request): `ArrangedFits` shows
  for a list of any length up to ten that descriptors one behind the other with
  buffers of eight bytes behind them overlap nowhere; each of the nine lists is laid out so.
* `PS2Program_proofs`: `CursorStaysInRange`, `CursorNeverJumps`, `IdleMouseStays`, `OnlyInitDoes`, from
  one invariant: bytes are bytes (so a step is at most 7, and 7 is at most the lower
  limit, so nothing wraps), the cursor is inside, `PS2_prev` shows what the register
  showed when it was empty, and `enabled` in main comes from the driver.  `OnlyInitDoes`: an unsigned byte
  never equals a negative one, so no pass takes the branch for an inserted mouse.
* `HpiWires_proofs`: `BusHasOneDriver`.  What a call has still to do determines which strobes are
  low (`Stage`), and the registered read strobe has followed the port before the next
  access (`Follows`).  `EachCallOneAccess` is the refinement of `HpiPort`: `WordsInv`
  types the ports and wires; `Progress` says, for each stage of a call, which levels are settled, how
  long the chip has been strobed and how many accesses are left, so that the one
  step that ends a strobe maps to the access and all others to a stutter.

### The canvas

`Paint_proofs` follows one pixel through the memories, for every raster, canvas, margin
and address span that `PaintAssumption` and `OpsAssumption` admit.

* `BeamReadHolds` and `CanvasOnlyPainted`, by `PipelineInv`.  `BeamReadsItsPixel` is not
  inductive: the output of this period is the word read in the period before.
  `ReadAhead` states what that word is, from one column left of the canvas on.  The addresses
  wrap in their registers (`ColSpan`, `RowSpan`); the lemmas show that within the enables they do
  not.
* `ClearClears`, `BucketReplaces`, `FlipsVertically`, `FlipsHorizontally`, by `OpsInv`.
  What a frame makes of a picture would be an induction over its pixels; it is
  carried along instead, as an invariant of the operation that runs:
  `Untouched` (the pixels the beam has still to pass are those of the picture at the click) and
  `DoneSoFar` (those it has passed are finished), told apart by the counter, which
  `OnItsWay` ties to the beam.  At the end all have been passed, which is `DoneAtEnd`.
  `BucketReplaces` speaks of the colour under the cursor, not of the register: `Looked` (whenever the beam
  has come by and nothing has changed since, `atCursor` is the pixel under the cursor) makes the
  two the same at the click.
* For the flips, the source of a pixel has been painted over by the time it
  is needed, so `OpsInv` includes `MirrorInv`: every word of the two mirror memories is a copy
  of its pixel, if the picture has been still since the word was written
  (`MirrorWords`), and so is a word that has been read and waits for its pixel, also at
  the start of a line, where it is held from the end of the line before
  (`HeldWords`).  `OpWords` keeps these copies at the picture of the click while the operation
  runs.  The one word that is read in the clock that writes it (`Collides`) is excluded, as in
  the properties.

TLC checked `OpsInv`, `PipelineInv`, `PipeInv`, `Progress`, `LinkInv`, `PacketInv` and `SpriteInv` on the bounds of the runs
before they were proved.  Two assumptions came out of the proofs, in `OpsAssumption`: no tool
button lies on the canvas, and the canvas is wider than two columns.  On a canvas of two columns a word of
`vertScreen` would be read in the clock in which it is written, and its value
depends on the memory block; the real canvas has 440.

### Exactly two bytes

`PacketsUnderstood` rests on a count.  Mouse.sv files bytes by counting from the reset, and the
receiver listens to everything on the wires, the host's own command included.  The
invariant `PacketInv` follows the receiver through the start-up; `At(k)` says it has taken k bits of
eleven, `Counted(c)` that Mouse.sv will have taken c bytes.

1. Each request without an answer leaves one bit (`Asking`, `Released`): the host pulls
   the clock low and lets go of it with the data line low, which is a rising edge with
   data 0.  So n failures leave the receiver at one of the places 0 to n (`Before`).  That no other
   edge slips in, also when the mouse answers in the very cycle in which the host
   gives up, is `Failed`, `Calm` and `Harmless`; that the failures end when the mouse is awake is
   `Patient`, `Sleeping` and `Answered`.
2. The host's frame then adds eleven edges from a place between 1 and 7
   (`CommandTaken`).  The receiver ends a frame of its own before the host does: one byte.  What is left of
   the host's frame starts no other while it is high, and the upper four bits and the stop bit of 8'hF4
   are; its low parity bit (and the mouse's acknowledge) may start one, which leaves the receiver up to
   three bits into a frame (`InCommand`, `Acked`).  A place beyond 7, so a seventh failure, would reach into
   the low bits: `MouseStreamLate.cfg`.
3. The answer adds eleven more from place 0, 1 or 3 (`Sending`).  A receiver that is ahead ends
   its frame early, and the rest of 8'hFA, its last bits with parity and stop bit, is high.  Two bytes
   are counted, and the receiver is idle.
4. From there on receiver and mouse agree bit by bit (`InByte`, `Sent`, `BetweenBytes`): `Got` says
   that the first bits of the byte are in the shift register, `Latest` that the last byte is in its
   register or about to be.  `Rises` counts the mouse's clock as the host sees it, two cycles late.

A reset at any moment goes back to step 1, since the host forgets its count and its frame
together (`PacketReset`).  The theorem has the hypothesis `RealDevice`: the command is
8'hF4 (`Mouse.sv` has no other; `PS2_Controller.v:58`), the answer to it 8'hFA and bytes of eight bits
(the PS/2 protocol), and at most six requests fail.  The bound is exact, as the violated run shows; the
timers, the phases of the mouse's clock, the packets and the number of resets are arbitrary.

### Assumptions

They are those on constants (`RasterAssumption`, `SyncAssumption`, `SpriteAssumption`,
`MapperAssumption`, `PaintAssumption`, `OpsAssumption`, `MouseAssumption`, `PS2Assumption`,
`StreamAssumption`, `CoreAssumption`,
`UartAssumption`, `ChipAssumption`, `PortAssumption`, `ProgramAssumption`, `WiresAssumption`),
which TLC evaluates in the runs.  Two theorems have a hypothesis of their own, which the constants of
`MouseStream.cfg` satisfy: `RealDevice` for `PacketsAlwaysUnderstood` (above), and `ByteSpan = 256` for
`MouseIsDriven`, since the receiver has eight bits.

### Only model-checked

* Everything temporal beyond safety (`FramesRecur`, `OperationsEnd`, `ReleaseRearms`,
  `HeldBrushPaints`, `MouseEnabled`, `WriteEnds`, `ReadEnds`, `ResendEnds`, `RemovalNoticed`,
  `InitReturns`), which the prover cannot treat.  `HeldBrushPaints`, for one, needs the
  fairness of the clock.

Every invariant, action property and refinement that a run checks is a theorem, but for those of the
three violated runs.

## Not modelled

* The order in which brush, panel, canvas and crosshair override each other on
  the colour outputs: combinational and without effect on any other state.
* `Random` is noise: the XOR in the code of coordinates, picture and pins of an
  unconnected video decoder.
* The transceiver's command states, unreachable in the painter (see above).
* In the USB port: registers of the chip that change by themselves during an
  access; the two are separate models, and UsbKeyboard takes an access as a step.
* In the Avalon PS/2 core: the serial machines (those of the painter's link, see
  MouseStream), the interrupt, and the driver's functions that no program calls; scan
  codes of keyboards.
* HEX displays: a table.  The left-overs of the table above: not instantiated.
* The Qsys system and the HAL of the board support packages (file descriptors, start-up code,
  logging): generated or supplied, and not about this program.  They are most of the C
  in the repository.
* Metastability of the sampled wires, and timing below a clock.

## Plan

Done: the modules above, in the order VGAController, ColorMapper, Paint, PaintOps,
Mouse, Display, MouseStream, JtagUart, UsbKeyboard, PS2Program, HpiWires.

Next, the model: the command states of `PS2_Controller` as `Altera_UP_PS2.v` uses them, under
PS2Port; the register accesses of UsbKeyboard through HpiPort in one composition, with the chip
changing a register during an access; the file-descriptor table of the HAL; `ball.sv` and
`CursorController.sv`, should they be instantiated.

Next, the proofs: that the memories of `lab8.sv` drive the paint logic only as `MapperSpec` allows, as
`MouseIsDriven` does for the pointer (the reset key, which changes the button in the step of a
clock, needs a step of its own there); what the poll loop of UsbKeyboard may publish, once the second
hazard without a property has one; and an abstract specification of the canvas (one pixel at a time is
repainted or kept), implemented by Paint.
