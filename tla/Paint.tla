------------------------------- MODULE Paint --------------------------------
(***************************************************************************)
(* The paint path of lab8.sv: the raster counters, the paint logic of      *)
(* Color_Mapper.sv and the three frame memories, wired as in lab8.sv.      *)
(* screen0 and screen1 hold the low and the high bits of a pixel and share *)
(* every address and enable, so they are one memory, ram.  horizScreen and *)
(* vertScreen hold the picture mirrored.                                   *)
(*                                                                         *)
(* A step is one period of the pixel clock.  On the rising edge the        *)
(* counters and the paint logic take the pixel behind the beam; on the     *)
(* falling edge the memories sample the addresses, the enables and the     *)
(* data that follow from the new registers.  A read is answered two        *)
(* falling edges later, which is why lab8.sv reads a pixel ahead of the    *)
(* beam and writes a pixel behind it.                                      *)
(***************************************************************************)
EXTENDS Raster, ColorMapper

CONSTANTS
  ColSpan, RowSpan,  \* columns and rows the 9-bit halves of ram address: 512
  BackSpan,          \* addresses of a mirror memory: 2^17
  Garbage,           \* what a memory may answer for the address it writes
  InitCanvases,      \* pictures on the canvas at the start
  InitBrushes,       \* <<type, size, colour>> selected at the start
  MaxMouse,          \* bound on mouse events
  MaxResets          \* bound on resets

Cells == (0 .. W - 1) \X (0 .. H - 1)

ASSUME PaintAssumption ==
  /\ ColSpan \in Nat /\ RowSpan \in Nat /\ BackSpan \in Nat
  /\ X0 > 0 /\ (X0 > 1 \/ Y0 > 0) /\ X0 + W <= hpixels /\ Y0 + H <= vlines + 1
  /\ W > 1 /\ H > 0
  /\ W < ColSpan /\ Y0 + H <= RowSpan /\ vlines < Y0 + RowSpan
  /\ W * H < BackSpan
  /\ FrameLast = FrameLength - 1
  /\ Pixels = (0 .. hpixels) \X (0 .. vlines)
  /\ Garbage \subseteq Colors /\ Garbage # {}
  /\ InitCanvases \subseteq [Cells -> Colors]
  /\ InitBrushes \subseteq (0 .. 4) \X {3 * k : k \in 0 .. BrushMax \div 3} \X Colors
  /\ MaxMouse \in Nat /\ MaxResets \in Nat

VARIABLES
  ram, ramRead, ramOut,           \* screen1 and screen0
  horizScreen, horizRead, backOut,
  vertScreen, vertRead, backOut2,
  mouseEvents, resets             \* how many there have been

ramVars == <<ram, ramRead, ramOut>>
horizVars == <<horizScreen, horizRead, backOut>>
vertVars == <<vertScreen, vertRead, backOut2>>
memVars == <<ramVars, horizVars, vertVars>>
paintVars == <<hc, vc, mapperVars, memVars, mouseEvents, resets>>

Beam == <<hc, vc>>
xOffset == hc - X0
yOffset == vc - Y0

(* Mutants of the addresses: the pixel written is the one behind the beam, *)
(* not the one before it.                                                  *)
ramAddrWriteAtBeam == <<xOffset % ColSpan, yOffset % RowSpan>>
backAddrWriteAtBeam == (yOffset * W + (W - xOffset)) % BackSpan
backAddrWrite2AtBeam == ((H - 1 - yOffset) * W + xOffset) % BackSpan

(* The addresses of lab8.sv, with their truncations.                       *)
ramAddrRead == <<(xOffset + 1) % ColSpan, yOffset % RowSpan>>
ramAddrWrite == <<(xOffset - 1) % ColSpan, yOffset % RowSpan>>
backAddrRead == (yOffset * W + xOffset + 1) % BackSpan
backAddrWrite == (yOffset * W + (W - xOffset) - 1) % BackSpan
backAddrWrite2 == ((H - 1 - yOffset) * W + xOffset - 1) % BackSpan

(* Mutants of the enables: the extra column in front of the canvas and the *)
(* one behind it are left out.                                             *)
ram_readNoMargin == InCanvas(Beam)
ram_writeNoMargin == InCanvas(Beam)

(* The enables of Color_Mapper.sv.                                         *)
ram_read == InCanvas(Beam) \/ hc = X0 - 1
ram_write == InCanvas(Beam) \/ hc = X0 + W
back_read == InCanvas(Beam)
back_write == InCanvas(Beam)

(* What a memory answers to a read at the edge that may also write it.     *)
Answers(mem, read, write, enabled) ==
  IF enabled /\ read = write THEN Garbage ELSE {mem[read]}

(* The falling edge of each memory.                                        *)
RamEdge ==
  /\ ramOut' = ramRead
  /\ \/ /\ ram_read'
        /\ ramRead' \in Answers(ram, ramAddrRead', ramAddrWrite', ram_write')
     \/ ~ram_read' /\ UNCHANGED ramRead
  /\ ram' = IF ram_write' THEN [ram EXCEPT ![ramAddrWrite'] = ramIn'] ELSE ram

HorizEdge ==
  /\ backOut' = horizRead
  /\ \/ /\ back_read'
        /\ horizRead' \in
             Answers(horizScreen, backAddrRead', backAddrWrite', back_write')
     \/ ~back_read' /\ UNCHANGED horizRead
  /\ horizScreen' = IF back_write'
                    THEN [horizScreen EXCEPT ![backAddrWrite'] = backIn']
                    ELSE horizScreen

VertEdge ==
  /\ backOut2' = vertRead
  /\ \/ /\ back_read'
        /\ vertRead' \in
             Answers(vertScreen, backAddrRead', backAddrWrite2', back_write')
     \/ ~back_read' /\ UNCHANGED vertRead
  /\ vertScreen' = IF back_write'
                   THEN [vertScreen EXCEPT ![backAddrWrite2'] = backIn']
                   ELSE vertScreen

MemoryEdge == RamEdge /\ HorizEdge /\ VertEdge

canvas == [c \in Cells |-> ram[c]]

-----------------------------------------------------------------------------
(* A frame boundary after the picture has been still for a frame: the      *)
(* mirror memories hold what a frame writes to them, and white where it    *)
(* writes nothing but the idle pixel in front of the canvas.               *)
Mirror(pic, addr) ==
  [a \in 0 .. BackSpan - 1 |->
     IF \E c \in Cells : c[1] < W - 1 /\ addr[c] = a
     THEN pic[CHOOSE c \in Cells : c[1] < W - 1 /\ addr[c] = a]
     ELSE 0]

MirrorX == [c \in Cells |-> c[2] * W + W - 2 - c[1]]
MirrorY == [c \in Cells |-> (H - 1 - c[2]) * W + c[1]]

PaintInit ==
  /\ RasterInit
  /\ cursor \in Cursors /\ left_btn = FALSE
  /\ \E b \in InitBrushes :
       Brush_type = b[1] /\ Brush_size = b[2] /\ curColor = b[3]
  /\ counter = 0 /\ pressed = FALSE
  /\ horiz = FALSE /\ vert = FALSE /\ rando = FALSE
  /\ toReplace = 0 /\ atCursor = 0 /\ ramIn = 0 /\ backIn = 0
  /\ \E pic \in InitCanvases :
       /\ ram = [a \in (0 .. ColSpan - 1) \X (0 .. RowSpan - 1) |->
                   IF a \in Cells THEN pic[a] ELSE 0]
       /\ horizScreen = Mirror(pic, MirrorX)
       /\ vertScreen = Mirror(pic, MirrorY)
  /\ ramRead = 0 /\ ramOut = 0
  /\ horizRead = 0 /\ backOut = 0
  /\ vertRead = 0 /\ backOut2 = 0
  /\ mouseEvents = 0 /\ resets = 0

(* One period of the pixel clock.  rnd, the XOR of the beam, the picture   *)
(* and the video decoder's pins, is noise.                                 *)
PixelPeriod ==
  /\ \E rnd \in IF rando THEN Colors ELSE {0} :
       Posedge(Beam, ramOut, backOut, backOut2, rnd)
  /\ CounterProc
  /\ MemoryEdge
  /\ UNCHANGED <<inputs, mouseEvents, resets>>

MouseEvent ==
  /\ mouseEvents < MaxMouse
  /\ mouseEvents' = mouseEvents + 1
  /\ \/ left_btn' = ~left_btn /\ UNCHANGED cursor
     \/ cursor' \in Cursors \ {cursor} /\ UNCHANGED left_btn
  /\ UNCHANGED <<hc, vc, setting, counter, pressed, opFlags, pipe, memVars, resets>>

(* KEY[0] restarts the raster and forgets the mouse button; neither the    *)
(* paint logic nor a memory has a reset.  Pressed while the pixel clock is *)
(* high it cuts the period short: the falling edge finds the beam at the   *)
(* origin.                                                                 *)
ResetLow ==
  /\ resets < MaxResets
  /\ resets' = resets + 1
  /\ hc' = 0 /\ vc' = 0
  /\ left_btn' = FALSE
  /\ UNCHANGED <<cursor, setting, counter, pressed, opFlags, pipe, memVars,
                 mouseEvents>>

ResetHigh ==
  /\ resets < MaxResets
  /\ resets' = resets + 1
  /\ \E rnd \in IF rando THEN Colors ELSE {0} :
       Posedge(Beam, ramOut, backOut, backOut2, rnd)
  /\ hc' = 0 /\ vc' = 0
  /\ left_btn' = FALSE
  /\ MemoryEdge
  /\ UNCHANGED <<cursor, mouseEvents>>

PaintNext == PixelPeriod \/ MouseEvent \/ ResetLow \/ ResetHigh

PaintSpec ==
  PaintInit /\ [][PaintNext]_paintVars /\ WF_paintVars(PixelPeriod)

-----------------------------------------------------------------------------
(* Every pixel of the canvas is read, sent through the paint logic and     *)
(* written back in every frame.  It changes only while it is the pixel     *)
(* behind the beam, and only because an operation runs or the brush is on  *)
(* it: the read-ahead, the write-behind and the held outputs cancel out.   *)
OnlyPaintChangesCanvas ==
  [][\A c \in Cells :
       ram'[c] # ram[c] =>
         /\ c = <<xOffset, yOffset>>
         /\ OpRunning \/ Painting(Beam)]_paintVars

(* The pixel that reaches the paint logic is the one behind the beam, also *)
(* on the first column, also after a reset has moved the beam in the       *)
(* middle of a read, and although the address read lies two columns ahead  *)
(* of the address written.                                                 *)
BeamReadsItsPixel ==
  InCanvas(Beam) => ramOut = ram[<<xOffset, yOffset>>]

(* A brush held still on the canvas paints every pixel it covers, for good.*)
HeldBrushPaints ==
  /\ <>[](left_btn /\ cursorInCanvas /\ Brush_type < 4)
  /\ <>[][UNCHANGED <<cursor, setting>>]_paintVars
  => <>[](\A c \in Cells :
            Covers(<<c[1] + X0, c[2] + Y0>>) => ram[c] = curColor)

=============================================================================
