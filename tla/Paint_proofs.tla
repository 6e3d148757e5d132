---------------------------- MODULE Paint_proofs ----------------------------
(***************************************************************************)
(* Proofs about the drawing pipeline (Paint) and the operations that run   *)
(* over a full frame (PaintOps), for every canvas, every raster around it, *)
(* every picture and every path of the cursor.                             *)
(*                                                                         *)
(* The pipeline: a pixel is read one column ahead of the beam, passes two  *)
(* registers, and is written back one column behind it, in every frame,    *)
(* also when nothing draws. PipelineInv says what is in the registers in   *)
(* between; from it, the paint logic always holds the pixel under the      *)
(* beam, and the canvas changes only there and only for the brush or an    *)
(* operation.                                                              *)
(*                                                                         *)
(* The mirror memories: each pixel but those of the last column has a word *)
(* in either, written when the beam passes and read one pixel ahead of     *)
(* where it is used. MirrorInv: a word is a good copy for as long as the   *)
(* picture has been still since the beam wrote it.                         *)
(*                                                                         *)
(* The operations start anywhere in a frame and run for as many clocks as  *)
(* a frame has. OpsInv ties the counter to the way the beam has gone since *)
(* the start, and the canvas to that way: the pixels the beam has passed   *)
(* are done, the others still those of the picture at the start, which is  *)
(* also what the mirror memories hold until the operation ends.            *)
(***************************************************************************)
EXTENDS PaintOps, TLAPS

Rows == Y0 .. Y0 + H - 1
Addrs == (0 .. ColSpan - 1) \X (0 .. RowSpan - 1)

(* The pixel that is on its way from the memory to the paint logic.        *)
ReadAhead ==
  vc \in Rows /\ hc \in X0 - 1 .. X0 + W - 2 =>
    ramRead = ram[<<xOffset + 1, yOffset>>]

PipelineInv ==
  /\ hc \in 0 .. hpixels /\ vc \in 0 .. vlines
  /\ DOMAIN ram = Addrs
  /\ ReadAhead
  /\ BeamReadsItsPixel

-----------------------------------------------------------------------------
(* The assumptions as the steps below use them.                            *)
LEMMA Screen ==
  /\ X0 \in Int /\ Y0 \in Int /\ W \in Int /\ H \in Int
  /\ hpixels \in Int /\ vlines \in Int /\ ColSpan \in Int /\ RowSpan \in Int
  /\ X0 > 0 /\ Y0 >= 0 /\ (X0 > 1 \/ Y0 > 0) /\ W > 1 /\ H > 0
  /\ X0 + W <= hpixels /\ Y0 + H <= vlines + 1
  /\ W < ColSpan /\ Y0 + H <= RowSpan /\ vlines < Y0 + RowSpan
  BY PaintAssumption, MapperAssumption, RasterAssumption

(* The remainder of a number near the interval of remainders.              *)
LEMMA Wraps ==
  ASSUME NEW m \in Int, m > 0, NEW x \in Int
  PROVE  /\ 0 <= x /\ x < m => x % m = x
         /\ -m <= x /\ x < 0 => x % m = x + m
<1>1. \A q \in Int, r \in Int : 0 <= r /\ r < m /\ x = m * q + r => x % m = r
  BY SMT
<1>2. ASSUME 0 <= x, x < m PROVE x % m = x
  <2>1. x = m * 0 + x
    OBVIOUS
  <2> QED
    BY <1>1, <1>2, <2>1
<1>3. ASSUME -m <= x, x < 0 PROVE x % m = x + m
  <2>1. x = m * (-1) + (x + m) /\ x + m \in Int /\ 0 <= x + m /\ x + m < m
    BY <1>3
  <2>2. -1 \in Int
    OBVIOUS
  <2> QED
    BY <1>1, <2>1, <2>2
<1> QED
  BY <1>2, <1>3

(* The address written belongs to a pixel of the canvas only when the beam *)
(* is one column behind that pixel: the margin columns and the lines above *)
(* and below the canvas are truncated to addresses outside of it.          *)
LEMMA WriteSpot ==
  ASSUME NEW h \in 0 .. hpixels, NEW v \in 0 .. vlines, NEW c \in Cells,
         InCanvas(<<h, v>>) \/ h = X0 + W,
         c = <<((h - X0) - 1) % ColSpan, (v - Y0) % RowSpan>>
  PROVE  /\ v \in Rows /\ h \in X0 + 1 .. X0 + W
         /\ c = <<h - X0 - 1, v - Y0>>
<1> USE Screen
<1>1. c[1] \in 0 .. W - 1 /\ c[2] \in 0 .. H - 1
  BY DEF Cells
<1>2. c[1] = ((h - X0) - 1) % ColSpan /\ c[2] = (v - Y0) % RowSpan
  OBVIOUS
<1>3. h \in X0 .. X0 + W
  BY DEF InCanvas
<1>4. h # X0
  <2> SUFFICES ASSUME h = X0 PROVE FALSE
    OBVIOUS
  <2>1. (h - X0) - 1 = -1
    OBVIOUS
  <2>2. (-1) % ColSpan = (-1) + ColSpan
    BY Wraps
  <2> QED
    BY <1>1, <1>2, <2>1, <2>2
<1>5. ((h - X0) - 1) % ColSpan = (h - X0) - 1
  BY <1>3, <1>4, Wraps
<1>6. v \in Rows
  <2>1. CASE v < Y0
    <3>1. (v - Y0) % RowSpan = (v - Y0) + RowSpan
      BY <2>1, Wraps
    <3> QED
      BY <1>1, <1>2, <2>1, <3>1
  <2>2. CASE v > Y0 + H - 1
    <3>1. (v - Y0) % RowSpan = v - Y0
      BY <2>2, Wraps
    <3> QED
      BY <1>1, <1>2, <2>2, <3>1
  <2> QED
    BY <2>1, <2>2 DEF Rows
<1>7. (v - Y0) % RowSpan = v - Y0
  BY <1>6, Wraps DEF Rows
<1> QED
  BY <1>3, <1>4, <1>5, <1>6, <1>7

(* The address read is the pixel one column ahead, and not the one written.*)
LEMMA ReadSpot ==
  ASSUME NEW h \in X0 - 1 .. X0 + W - 2, NEW v \in Rows
  PROVE  /\ <<((h - X0) + 1) % ColSpan, (v - Y0) % RowSpan>>
              = <<(h - X0) + 1, v - Y0>>
         /\ <<(h - X0) + 1, v - Y0>> \in Cells
         /\ <<((h - X0) + 1) % ColSpan, (v - Y0) % RowSpan>>
              # <<((h - X0) - 1) % ColSpan, (v - Y0) % RowSpan>>
<1> USE Screen
<1>1. ((h - X0) + 1) % ColSpan = (h - X0) + 1
  BY Wraps
<1>2. (v - Y0) % RowSpan = v - Y0
  BY Wraps DEF Rows
<1>3. ((h - X0) - 1) % ColSpan # (h - X0) + 1
  <2>1. CASE h >= X0 + 1
    BY <2>1, Wraps
  <2>2. CASE h < X0 + 1
    <3>1. ((h - X0) - 1) % ColSpan = (h - X0) - 1 + ColSpan
      BY <2>2, Wraps
    <3> QED
      BY <2>2, <3>1
  <2> QED
    BY <2>1, <2>2
<1>4. <<(h - X0) + 1, v - Y0>> \in Cells
  BY DEF Cells, Rows
<1> QED
  BY <1>1, <1>2, <1>3, <1>4

-----------------------------------------------------------------------------
(* A falling edge changes at most the pixel one column in front of the     *)
(* beam, to what the paint logic has just put out.                         *)
LEMMA Written ==
  ASSUME RamEdge, DOMAIN ram = Addrs,
         hc' \in 0 .. hpixels, vc' \in 0 .. vlines,
         NEW c \in Cells, ram'[c] # ram[c]
  PROVE  /\ vc' \in Rows /\ hc' \in X0 + 1 .. X0 + W
         /\ c = <<hc' - X0 - 1, vc' - Y0>>
         /\ ram'[c] = ramIn'
<1> DEFINE a == <<((hc' - X0) - 1) % ColSpan, (vc' - Y0) % RowSpan>>
<1>1. ram_write' /\ ram' = [ram EXCEPT ![a] = ramIn']
  BY DEF RamEdge, ramAddrWrite, xOffset, yOffset
<1>2. c \in Addrs
  BY Screen DEF Cells, Addrs
<1> HIDE DEF a
<1>3. c = a /\ ram'[c] = ramIn'
  BY <1>1, <1>2
<1>4. InCanvas(<<hc', vc'>>) \/ hc' = X0 + W
  BY <1>1 DEF ram_write, Beam, InCanvas
<1> QED
  BY <1>3, <1>4, WriteSpot DEF a

(* A falling edge writes inside the memory or nowhere.                     *)
LEMMA EdgeDomain ==
  ASSUME RamEdge, DOMAIN ram = Addrs
  PROVE  DOMAIN ram' = Addrs
  BY DEF RamEdge

(* While the beam crosses the canvas, the word read is the pixel one       *)
(* column ahead, which the same edge does not write.                       *)
LEMMA ReadsAhead ==
  ASSUME RamEdge, DOMAIN ram = Addrs,
         hc' \in 0 .. hpixels, vc' \in 0 .. vlines
  PROVE  ReadAhead'
<1> DEFINE h == hc'
           v == vc'
           read == <<((h - X0) + 1) % ColSpan, (v - Y0) % RowSpan>>
           write == <<((h - X0) - 1) % ColSpan, (v - Y0) % RowSpan>>
           next == <<(h - X0) + 1, v - Y0>>
<1> SUFFICES ASSUME v \in Rows, h \in X0 - 1 .. X0 + W - 2
             PROVE  ramRead' = ram'[next]
  BY DEF ReadAhead, xOffset, yOffset
<1>1. read = next /\ next \in Cells /\ read # write
  BY ReadSpot
<1>2. ram_read'
  BY Screen DEF ram_read, InCanvas, Beam, Rows
<1>3. ramRead' \in Answers(ram, read, write, ram_write')
  BY <1>2 DEF RamEdge, ramAddrRead, ramAddrWrite, xOffset, yOffset
<1>4. ramRead' = ram[next]
  BY <1>1, <1>3 DEF Answers
<1>5. ram'[next] = ram[next]
  <2> SUFFICES ASSUME ram'[next] # ram[next] PROVE FALSE
    OBVIOUS
  <2>1. next = <<h - X0 - 1, v - Y0>>
    BY <1>1, Written
  <2>2. (h - X0) + 1 # h - X0 - 1
    BY Screen
  <2> QED
    BY <2>1, <2>2
<1> QED
  BY <1>4, <1>5

(* The pixel handed to the paint logic after an edge is the one read at    *)
(* the edge before, and is the one that is then behind the beam.           *)
LEMMA ReadsPixel ==
  ASSUME PipelineInv, RamEdge, CounterProc,
         hc' \in 0 .. hpixels, vc' \in 0 .. vlines
  PROVE  BeamReadsItsPixel'
<1> DEFINE x == hc' - X0
           y == vc' - Y0
<1> SUFFICES ASSUME InCanvas(<<hc', vc'>>) PROVE ramOut' = ram'[<<x, y>>]
  BY DEF BeamReadsItsPixel, xOffset, yOffset, Beam, InCanvas
<1>0. hc \in Int /\ vc \in Int /\ hc' \in Int /\ vc' \in Int
  BY DEF PipelineInv
<1>1. /\ hc' \in X0 .. X0 + W - 1 /\ vc' \in Rows
  BY <1>0, Screen DEF InCanvas, Rows
<1>2. hc' = hc + 1 /\ vc' = vc
  BY <1>1, Screen DEF CounterProc
<1>3. vc \in Rows /\ hc \in X0 - 1 .. X0 + W - 2
  BY <1>0, <1>1, <1>2, Screen
<1>4. ramRead = ram[<<(hc - X0) + 1, vc - Y0>>]
  BY <1>3 DEF PipelineInv, ReadAhead, xOffset, yOffset
<1>5. (hc - X0) + 1 = x /\ vc - Y0 = y
  BY <1>0, <1>2, Screen
<1>6. <<x, y>> \in Cells
  BY <1>0, <1>1, Screen DEF Cells, Rows
<1>7. ram'[<<x, y>>] = ram[<<x, y>>]
  <2> SUFFICES ASSUME ram'[<<x, y>>] # ram[<<x, y>>] PROVE FALSE
    OBVIOUS
  <2>1. <<x, y>> = <<hc' - X0 - 1, vc' - Y0>>
    BY <1>6, Written DEF PipelineInv
  <2>2. x # hc' - X0 - 1
    BY <1>0, Screen
  <2> QED
    BY <2>1, <2>2
<1>8. ramOut' = ramRead
  BY DEF RamEdge
<1> QED
  BY <1>4, <1>5, <1>7, <1>8

(* The counters stay on the raster.                                        *)
LEMMA CounterType ==
  ASSUME hc \in 0 .. hpixels, vc \in 0 .. vlines, CounterProc
  PROVE  hc' \in 0 .. hpixels /\ vc' \in 0 .. vlines
  BY RasterAssumption DEF CounterProc

(* With the beam at the origin nothing of this is at stake.                *)
LEMMA AtOrigin ==
  ASSUME hc' = 0, vc' = 0
  PROVE  ReadAhead' /\ BeamReadsItsPixel'
<1>1. ~(0 \in Rows /\ 0 \in X0 - 1 .. X0 + W - 2)
  BY Screen DEF Rows
<1>2. ~InCanvas(<<0, 0>>)
  BY Screen DEF InCanvas
<1>3. ReadAhead'
  BY <1>1 DEF ReadAhead
<1>4. BeamReadsItsPixel'
  BY <1>2 DEF BeamReadsItsPixel, Beam, InCanvas
<1> QED
  BY <1>3, <1>4

(* A start of the system has the pipeline invariant.                       *)
LEMMA PipelineInit == PaintInit => PipelineInv
<1> SUFFICES ASSUME PaintInit PROVE PipelineInv
  OBVIOUS
<1>1. hc = 0 /\ vc = 0
  BY DEF PaintInit, RasterInit
<1>2. DOMAIN ram = Addrs
  BY DEF PaintInit, Addrs
<1>3. ~(0 \in Rows /\ 0 \in X0 - 1 .. X0 + W - 2)
  BY Screen DEF Rows
<1>4. ~InCanvas(<<0, 0>>)
  BY Screen DEF InCanvas
<1> QED
  BY <1>1, <1>2, <1>3, <1>4, Screen
  DEF PipelineInv, ReadAhead, BeamReadsItsPixel, Beam

(* Every step keeps the pipeline invariant: a pixel clock moves the words  *)
(* on, a reset sends the beam off the canvas, a mouse event leaves all.    *)
LEMMA PipelineStep ==
  PipelineInv /\ [PaintNext]_paintVars => PipelineInv'
<1> SUFFICES ASSUME PipelineInv, [PaintNext]_paintVars PROVE PipelineInv'
  OBVIOUS
<1>0. hc \in 0 .. hpixels /\ vc \in 0 .. vlines /\ DOMAIN ram = Addrs
  BY DEF PipelineInv
<1>1. CASE PixelPeriod
  <2>1. RamEdge /\ CounterProc
    BY <1>1 DEF PixelPeriod, MemoryEdge
  <2>2. hc' \in 0 .. hpixels /\ vc' \in 0 .. vlines
    BY <1>0, <2>1, CounterType
  <2> QED
    BY <1>0, <2>1, <2>2, EdgeDomain, ReadsAhead, ReadsPixel DEF PipelineInv
<1>2. CASE ResetHigh
  <2>1. RamEdge /\ hc' = 0 /\ vc' = 0
    BY <1>2 DEF ResetHigh, MemoryEdge
  <2>2. hc' \in 0 .. hpixels /\ vc' \in 0 .. vlines
    BY <2>1, Screen
  <2> QED
    BY <1>0, <2>1, <2>2, EdgeDomain, AtOrigin DEF PipelineInv
<1>3. CASE ResetLow
  <2>1. hc' = 0 /\ vc' = 0 /\ ram' = ram
    BY <1>3 DEF ResetLow, memVars, ramVars
  <2>2. hc' \in 0 .. hpixels /\ vc' \in 0 .. vlines
    BY <2>1, Screen
  <2> QED
    BY <1>0, <2>1, <2>2, AtOrigin DEF PipelineInv
<1>4. CASE MouseEvent \/ UNCHANGED paintVars
  <2>1. UNCHANGED <<hc, vc, ram, ramRead, ramOut>>
    BY <1>4 DEF MouseEvent, paintVars, memVars, ramVars
  <2> QED
    BY <2>1 DEF PipelineInv, ReadAhead, BeamReadsItsPixel, Beam, xOffset,
                yOffset, InCanvas
<1> QED
  BY <1>1, <1>2, <1>3, <1>4 DEF PaintNext

(* The pixel that reaches the paint logic is the one behind the beam, for  *)
(* every canvas and every raster around it, also after a reset has moved   *)
(* the beam in the middle of a read.                                       *)
THEOREM BeamReadHolds == PaintSpec => []BeamReadsItsPixel
<1>1. PipelineInv => BeamReadsItsPixel
  BY DEF PipelineInv
<1> QED
  BY <1>1, PipelineInit, PipelineStep, PTL DEF PaintSpec

-----------------------------------------------------------------------------
(* Without an operation and outside the brush the paint logic puts out     *)
(* the pixel it was handed.                                                *)
LEMMA PassesThrough ==
  ASSUME NEW rnd, Posedge(Beam, ramOut, backOut, backOut2, rnd),
         ~OpRunning, ~Painting(Beam)
  PROVE  ramIn' = ramOut
  BY DEF Posedge, PixelOut

(* A falling edge changes a pixel only while it is the one behind the      *)
(* beam, and only for an operation or the brush.                           *)
LEMMA EdgePaints ==
  ASSUME PipelineInv, RamEdge,
         CounterProc \/ (hc' = 0 /\ vc' = 0),
         hc' \in 0 .. hpixels, vc' \in 0 .. vlines,
         NEW rnd, Posedge(Beam, ramOut, backOut, backOut2, rnd),
         NEW c \in Cells, ram'[c] # ram[c]
  PROVE  /\ c = <<xOffset, yOffset>> /\ InCanvas(Beam)
         /\ OpRunning \/ Painting(Beam)
<1>0. hc \in Int /\ vc \in Int /\ hc' \in Int /\ vc' \in Int
  BY DEF PipelineInv
<1>1. /\ vc' \in Rows /\ hc' \in X0 + 1 .. X0 + W
      /\ c = <<hc' - X0 - 1, vc' - Y0>> /\ ram'[c] = ramIn'
  BY Written DEF PipelineInv
<1>2. hc' = hc + 1 /\ vc' = vc
  BY <1>1, Screen DEF CounterProc
<1>3. hc' - X0 - 1 = hc - X0 /\ vc' - Y0 = vc - Y0
  BY <1>0, <1>2, Screen
<1>4. c = <<xOffset, yOffset>>
  BY <1>1, <1>3 DEF xOffset, yOffset
<1>5. InCanvas(Beam)
  BY <1>0, <1>1, <1>2, Screen DEF InCanvas, Beam, Rows
<1>6. ramOut = ram[c]
  BY <1>4, <1>5 DEF PipelineInv, BeamReadsItsPixel
<1>7. OpRunning \/ Painting(Beam)
  BY <1>1, <1>6, PassesThrough
<1> QED
  BY <1>4, <1>5, <1>7

(* Every pixel is rewritten in every frame, and yet it changes only while  *)
(* it is the pixel behind the beam, for an operation or for the brush: the *)
(* read-ahead, the write-behind and the truncated addresses cancel out,    *)
(* for every canvas and every raster around it.                            *)
THEOREM CanvasOnlyPainted == PaintSpec => OnlyPaintChangesCanvas
<1>1. ASSUME PipelineInv, [PaintNext]_paintVars
      PROVE  [\A c \in Cells :
                ram'[c] # ram[c] =>
                  /\ c = <<xOffset, yOffset>>
                  /\ OpRunning \/ Painting(Beam)]_paintVars
  <2> SUFFICES ASSUME PaintNext, NEW c \in Cells, ram'[c] # ram[c]
               PROVE  /\ c = <<xOffset, yOffset>>
                      /\ OpRunning \/ Painting(Beam)
    BY <1>1
  <2>1. CASE PixelPeriod
    <3>1. RamEdge /\ CounterProc
          /\ \E rnd : Posedge(Beam, ramOut, backOut, backOut2, rnd)
      BY <2>1 DEF PixelPeriod, MemoryEdge
    <3>2. hc' \in 0 .. hpixels /\ vc' \in 0 .. vlines
      BY <1>1, <3>1, CounterType DEF PipelineInv
    <3> QED
      BY <1>1, <3>1, <3>2, EdgePaints
  <2>2. CASE ResetHigh
    <3>1. RamEdge /\ hc' = 0 /\ vc' = 0
          /\ \E rnd : Posedge(Beam, ramOut, backOut, backOut2, rnd)
      BY <2>2 DEF ResetHigh, MemoryEdge
    <3>2. hc' \in 0 .. hpixels /\ vc' \in 0 .. vlines
      BY <3>1, Screen
    <3> QED
      BY <1>1, <3>1, <3>2, EdgePaints
  <2>3. CASE MouseEvent \/ ResetLow
    BY <2>3 DEF MouseEvent, ResetLow, memVars, ramVars
  <2> QED
    BY <2>1, <2>2, <2>3 DEF PaintNext
<1>2. PipelineInv /\ [PaintNext]_paintVars =>
        [\A c \in Cells :
           ram'[c] # ram[c] =>
             /\ c = <<xOffset, yOffset>>
             /\ OpRunning \/ Painting(Beam)]_paintVars
  BY <1>1
<1> QED
  BY <1>2, PipelineInit, PipelineStep, PTL
  DEF PaintSpec, OnlyPaintChangesCanvas

-----------------------------------------------------------------------------
(* Rows of w numbers: bounds, and two places have two numbers.             *)
LEMMA RowMajor ==
  ASSUME NEW w \in Int, w > 0, NEW r \in Int, NEW i \in 0 .. w - 1
  PROVE  /\ \A h \in Int : r \in 0 .. h - 1 => r * w + i \in 0 .. h * w - 1
         /\ \A s \in Int, j \in 0 .. w - 1 :
              r * w + i = s * w + j => r = s /\ i = j
<1>1. ASSUME NEW a \in Int, NEW b \in Int, a > b
      PROVE  a * w >= b * w + w
  <2>1. (a - b - 1) * w >= 0
    BY <1>1
  <2>2. a * w = b * w + w + (a - b - 1) * w
    BY <1>1
  <2> QED
    BY <1>1, <2>1, <2>2
<1>2. ASSUME NEW h \in Int, r \in 0 .. h - 1
      PROVE  r * w + i \in 0 .. h * w - 1
  <2>1. r * w >= 0 /\ r * w \in Int /\ h * w \in Int
    BY <1>2
  <2>2. h * w >= r * w + w
    BY <1>1, <1>2
  <2> QED
    BY <2>1, <2>2
<1>3. ASSUME NEW s \in Int, NEW j \in 0 .. w - 1, r * w + i = s * w + j
      PROVE  r = s /\ i = j
  <2>1. r * w \in Int /\ s * w \in Int
    OBVIOUS
  <2>2. CASE r > s
    <3>1. r * w >= s * w + w
      BY <1>1, <2>2
    <3> QED
      BY <1>3, <2>1, <3>1
  <2>3. CASE s > r
    <3>1. s * w >= r * w + w
      BY <1>1, <2>3
    <3> QED
      BY <1>3, <2>1, <3>1
  <2>4. CASE r = s
    BY <1>3, <2>1, <2>4
  <2> QED
    BY <2>2, <2>3, <2>4
<1> QED
  BY <1>2, <1>3

(* The raster numbered in the order of the beam: pixel (h, v) of all the   *)
(* positions of the counters, the blanked ones included.                   *)
Idx(h, v) == v * (hpixels + 1) + h

(* The numbers fill a frame, and the next position has the next number.    *)
LEMMA IdxFacts ==
  /\ FrameLast \in Int /\ FrameLast >= 1
  /\ \A h \in 0 .. hpixels, v \in 0 .. vlines : Idx(h, v) \in 0 .. FrameLast
  /\ \A h \in 0 .. hpixels, v \in 0 .. vlines : Idx(h + 1, v) = Idx(h, v) + 1
  /\ \A v \in 0 .. vlines : Idx(0, v + 1) = Idx(hpixels, v) + 1
  /\ Idx(0, 0) = 0 /\ Idx(hpixels, vlines) = FrameLast
<1> DEFINE l == hpixels + 1
<1>1. l \in Int /\ l > 0 /\ hpixels \in Int /\ vlines \in Int /\ vlines >= 0
      /\ hpixels >= 0 /\ hpixels = l - 1
  BY Screen
<1>2. FrameLast = l * (vlines + 1) - 1 /\ FrameLast \in Int /\ FrameLast >= 1
  <2>1. FrameLast = FrameLength - 1
    BY PaintAssumption
  <2>2. FrameLast \in Nat \ {0}
    BY MapperAssumption
  <2> QED
    BY <1>1, <2>1, <2>2 DEF FrameLength
<1> HIDE DEF l
<1>3. \A h, v : Idx(h, v) = v * l + h
  BY DEF Idx, l
<1>4. ASSUME NEW v \in 0 .. vlines
      PROVE  /\ v * l \in Int /\ v * l >= 0 /\ (v + 1) * l = v * l + l
             /\ (v + 1) * l <= l * (vlines + 1)
  <2>1. v \in Int /\ v >= 0 /\ vlines - v \in Int /\ vlines - v >= 0
    BY <1>1
  <2>2. v * l \in Int /\ v * l >= 0
    BY <1>1, <2>1
  <2>3. (v + 1) * l = v * l + l
    BY <1>1, <2>1
  <2>4. (vlines - v) * l >= 0
    BY <1>1, <2>1
  <2>5. l * (vlines + 1) = (v + 1) * l + (vlines - v) * l
    BY <1>1, <2>1
  <2>6. (v + 1) * l \in Int /\ (vlines - v) * l \in Int
    BY <1>1, <2>1
  <2> QED
    BY <2>2, <2>3, <2>4, <2>5, <2>6
<1>5. ASSUME NEW h \in 0 .. hpixels, NEW v \in 0 .. vlines
      PROVE  Idx(h, v) \in 0 .. FrameLast /\ Idx(h + 1, v) = Idx(h, v) + 1
  <2>1. /\ v * l \in Int /\ v * l >= 0 /\ v * l + l <= l * (vlines + 1)
    BY <1>4
  <2>2. h \in Int /\ h >= 0 /\ h <= l - 1
    BY <1>1
  <2>3. l * (vlines + 1) \in Int
    BY <1>1
  <2> QED
    BY <1>1, <1>2, <1>3, <2>1, <2>2, <2>3
<1>6. ASSUME NEW v \in 0 .. vlines
      PROVE  Idx(0, v + 1) = Idx(hpixels, v) + 1
  BY <1>1, <1>3, <1>4
<1>7. Idx(0, 0) = 0
  BY <1>1, <1>3
<1>8. Idx(hpixels, vlines) = FrameLast
  <2>1. vlines * l \in Int /\ l * (vlines + 1) = vlines * l + l
    BY <1>1
  <2> QED
    BY <1>1, <1>2, <1>3, <2>1
<1> QED
  BY <1>2, <1>5, <1>6, <1>7, <1>8

(* Two pixels of the raster have two numbers.                              *)
LEMMA IdxInjective ==
  ASSUME NEW h \in 0 .. hpixels, NEW v \in 0 .. vlines,
         NEW h2 \in 0 .. hpixels, NEW v2 \in 0 .. vlines,
         Idx(h, v) = Idx(h2, v2)
  PROVE  h = h2 /\ v = v2
<1> DEFINE l == hpixels + 1
<1>1. /\ l \in Int /\ l > 0 /\ v \in Int /\ v2 \in Int
      /\ h \in 0 .. l - 1 /\ h2 \in 0 .. l - 1
  BY Screen
<1>2. v * l + h = v2 * l + h2
  BY DEF Idx
<1> HIDE DEF l
<1>3. \A s \in Int, j \in 0 .. l - 1 :
        v * l + h = s * l + j => v = s /\ h = j
  BY <1>1, RowMajor
<1> QED
  BY <1>1, <1>2, <1>3

-----------------------------------------------------------------------------
(* How many pixel clocks after pixel a the beam is at pixel i.             *)
After(i, a) == IF i >= a THEN i - a ELSE i - a + FrameLast + 1

BeamIdx == Idx(hc, vc)
CellIdx(c) == Idx(c[1] + X0, c[2] + Y0)

(* The number of the pixel behind the beam, and of the next one.           *)
LEMMA NextIdx ==
  ASSUME hc \in 0 .. hpixels, vc \in 0 .. vlines, CounterProc
  PROVE  /\ BeamIdx \in 0 .. FrameLast /\ BeamIdx' \in 0 .. FrameLast
         /\ BeamIdx' = IF BeamIdx = FrameLast THEN 0 ELSE BeamIdx + 1
<1> DEFINE i == Idx(hc, vc)
           j == Idx(hc', vc')
<1>1. hc' \in 0 .. hpixels /\ vc' \in 0 .. vlines
  BY CounterType
<1>2. i \in 0 .. FrameLast /\ j \in 0 .. FrameLast
  BY <1>1, IdxFacts
<1>3. i # FrameLast => j = i + 1
  <2>1. CASE hc # hpixels
    BY <2>1, IdxFacts DEF CounterProc
  <2>2. CASE hc = hpixels /\ vc # vlines
    BY <2>2, IdxFacts DEF CounterProc
  <2>3. CASE hc = hpixels /\ vc = vlines
    BY <2>3, IdxFacts
  <2> QED
    BY <2>1, <2>2, <2>3
<1>4. i = FrameLast => j = 0
  <2> SUFFICES ASSUME i = FrameLast PROVE j = 0
    OBVIOUS
  <2>1. hc = hpixels /\ vc = vlines
    BY IdxFacts, IdxInjective, Screen
  <2> QED
    BY <2>1, IdxFacts DEF CounterProc
<1> QED
  BY <1>2, <1>3, <1>4 DEF BeamIdx

(* A pixel of the canvas is a position of the raster.                      *)
LEMMA CellFacts ==
  ASSUME NEW c \in Cells
  PROVE  /\ CellIdx(c) \in 0 .. FrameLast
         /\ c[1] + X0 \in 0 .. hpixels /\ c[2] + Y0 \in 0 .. vlines
         /\ c = <<c[1], c[2]>> /\ c[1] \in Int /\ c[2] \in Int
<1>1. /\ c[1] + X0 \in 0 .. hpixels /\ c[2] + Y0 \in 0 .. vlines
      /\ c = <<c[1], c[2]>> /\ c[1] \in Int /\ c[2] \in Int
  BY Screen DEF Cells
<1>2. CellIdx(c) \in 0 .. FrameLast
  BY <1>1, IdxFacts DEF CellIdx
<1> QED
  BY <1>1, <1>2

(* Only the pixel behind the beam has the number of the beam.              *)
LEMMA AtBeam ==
  ASSUME hc \in 0 .. hpixels, vc \in 0 .. vlines, NEW c \in Cells
  PROVE  CellIdx(c) = BeamIdx <=> c = <<xOffset, yOffset>>
<1>1. /\ c[1] + X0 \in 0 .. hpixels /\ c[2] + Y0 \in 0 .. vlines
      /\ c = <<c[1], c[2]>> /\ c[1] \in Int /\ c[2] \in Int
  BY CellFacts
<1>2. ASSUME CellIdx(c) = BeamIdx PROVE c = <<xOffset, yOffset>>
  <2>1. c[1] + X0 = hc /\ c[2] + Y0 = vc
    BY <1>1, <1>2, IdxInjective DEF CellIdx, BeamIdx
  <2>2. c[1] = hc - X0 /\ c[2] = vc - Y0
    BY <1>1, <2>1, Screen
  <2> QED
    BY <1>1, <2>2 DEF xOffset, yOffset
<1>3. ASSUME c = <<xOffset, yOffset>> PROVE CellIdx(c) = BeamIdx
  <2>1. c[1] + X0 = hc /\ c[2] + Y0 = vc
    BY <1>3, Screen DEF xOffset, yOffset
  <2> QED
    BY <2>1 DEF CellIdx, BeamIdx
<1> QED
  BY <1>2, <1>3

(* What a pixel clock does to the canvas.                                  *)
LEMMA CanvasStep ==
  ASSUME PipelineInv, RamEdge, CounterProc,
         NEW rnd, Posedge(Beam, ramOut, backOut, backOut2, rnd),
         NEW c \in Cells
  PROVE  /\ c # <<xOffset, yOffset>> => ram'[c] = ram[c]
         /\ c = <<xOffset, yOffset>> => ram'[c] = ramIn' /\ ramOut = ram[c]
<1>0. hc \in 0 .. hpixels /\ vc \in 0 .. vlines /\ DOMAIN ram = Addrs
  BY DEF PipelineInv
<1>1. hc' \in 0 .. hpixels /\ vc' \in 0 .. vlines
  BY <1>0, CounterType
<1>2. c # <<xOffset, yOffset>> => ram'[c] = ram[c]
  BY <1>1, EdgePaints
<1>3. ASSUME c = <<xOffset, yOffset>>
      PROVE  ram'[c] = ramIn' /\ ramOut = ram[c]
  <2>0. hc \in Int /\ vc \in Int /\ hc' \in Int /\ vc' \in Int
    BY <1>0, <1>1
  <2>1. hc - X0 \in 0 .. W - 1 /\ vc - Y0 \in 0 .. H - 1
    BY <1>3 DEF Cells, xOffset, yOffset
  <2>2. InCanvas(Beam)
    BY <2>0, <2>1, Screen DEF InCanvas, Beam
  <2>3. hc' = hc + 1 /\ vc' = vc
    BY <2>0, <2>1, Screen DEF CounterProc
  <2>4. ram_write'
    <3>1. hc' = X0 + W \/ InCanvas(<<hc', vc'>>)
      BY <2>0, <2>1, <2>3, Screen DEF InCanvas
    <3> QED
      BY <3>1 DEF ram_write, InCanvas, Beam
  <2>5. ramAddrWrite' = c
    <3>1. (hc' - X0) - 1 = hc - X0 /\ vc' - Y0 = vc - Y0
      BY <2>0, <2>3, Screen
    <3>2. (hc - X0) % ColSpan = hc - X0
      BY <2>1, Screen, Wraps
    <3>3. (vc - Y0) % RowSpan = vc - Y0
      BY <2>1, Screen, Wraps
    <3> QED
      BY <1>3, <3>1, <3>2, <3>3 DEF ramAddrWrite, xOffset, yOffset
  <2>6. c \in DOMAIN ram
    BY <1>0, Screen DEF Cells, Addrs
  <2>7. ram'[c] = ramIn'
    BY <2>4, <2>5, <2>6 DEF RamEdge
  <2>8. ramOut = ram[c]
    BY <1>3, <2>2 DEF PipelineInv, BeamReadsItsPixel
  <2> QED
    BY <2>7, <2>8
<1> QED
  BY <1>2, <1>3

-----------------------------------------------------------------------------
Logic == \E rnd : Posedge(Beam, ramOut, backOut, backOut2, rnd)

(* A pixel clock is a step of the paint logic, the counters, the memory.   *)
LEMMA PeriodIs ==
  ASSUME PixelPeriod
  PROVE  Logic /\ CounterProc /\ RamEdge
  BY DEF PixelPeriod, MemoryEdge, Logic

(* Only a running operation goes on while the counter counts.              *)
LEMMA OnlyOpStep ==
  ASSUME Logic, counter # 0
  PROVE  OpStep
<1>1. OpRunning
  BY DEF OpRunning
<1> QED
  BY <1>1 DEF Logic, Posedge, Larger, Smaller, SelectBrush, Eraser, StartOp,
              NoTool, Release, At

(* An operation starts by a click of the bucket or by one of the tools.    *)
LEMMA HowItStarts ==
  ASSUME Logic, counter = 0, counter' # 0
  PROVE  \/ BucketClick /\ OpStep
         \/ ~BucketClick /\ StartOp
<1>1. CASE OpStep
  BY <1>1 DEF OpStep, OpRunning
<1>2. CASE StartOp
  BY <1>2 DEF StartOp, At, OpRunning
<1> QED
  BY <1>1, <1>2 DEF Logic, Posedge, Larger, Smaller, SelectBrush, Eraser,
                    NoTool, Release

(* The operation counter counts a frame and then rests.                    *)
LEMMA CounterStep ==
  ASSUME Logic, counter \in 0 .. FrameLast
  PROVE  /\ counter' \in 0 .. FrameLast
         /\ counter # 0 =>
              counter' = IF counter = FrameLast THEN 0 ELSE counter + 1
         /\ counter = 0 => counter' \in {0, 1}
<1>0. FrameLast \in Int /\ FrameLast >= 1
  BY IdxFacts
<1>1. CASE counter # 0
  <2>1. OpStep
    BY <1>1, OnlyOpStep
  <2>2. counter' = IF counter = FrameLast THEN 0 ELSE counter + 1
    BY <2>1 DEF OpStep
  <2> QED
    BY <1>0, <1>1, <2>2
<1>2. CASE counter = 0 /\ counter' # 0
  <2>1. OpStep => counter' = counter + 1
    BY <1>2 DEF OpStep
  <2>2. StartOp => counter' = 1
    BY DEF StartOp
  <2>3. counter' = 1
    BY <1>2, <2>1, <2>2, HowItStarts
  <2> QED
    BY <1>0, <1>2, <2>3
<1> QED
  BY <1>0, <1>1, <1>2

(* Between operations no flag is set.                                      *)
LEMMA FlagsStep ==
  ASSUME Logic, counter \in 0 .. FrameLast,
         counter = 0 => ~horiz /\ ~vert /\ ~rando
  PROVE  counter' = 0 => ~horiz' /\ ~vert' /\ ~rando'
<1> SUFFICES ASSUME counter' = 0 PROVE ~horiz' /\ ~vert' /\ ~rando'
  OBVIOUS
<1>1. CASE counter # 0
  <2>1. OpStep
    BY <1>1, OnlyOpStep
  <2>2. counter + 1 # 0
    BY IdxFacts
  <2> QED
    BY <1>1, <2>1, <2>2 DEF OpStep
<1>2. CASE counter = 0
  <2>1. ~StartOp
    BY DEF StartOp
  <2>2. OpStep => UNCHANGED opFlags \/ (~horiz' /\ ~vert' /\ ~rando')
    BY DEF OpStep
  <2>3. UNCHANGED opFlags \/ (~horiz' /\ ~vert' /\ ~rando')
    BY <2>1, <2>2 DEF Logic, Posedge, Larger, Smaller, SelectBrush, Eraser,
                      NoTool, Release
  <2> QED
    BY <1>2, <2>3 DEF opFlags
<1> QED
  BY <1>1, <1>2

-----------------------------------------------------------------------------
(* The mirror memories, x for flip horizontal and y for flip vertical.     *)
Axes == {"x", "y"}
Mem(k) == IF k = "x" THEN horizScreen ELSE vertScreen
Held(k) == IF k = "x" THEN horizRead ELSE vertRead
Out(k) == IF k = "x" THEN backOut ELSE backOut2

(* The pixels that have a word in a mirror memory, the word, and the pixel *)
(* of which it is the copy.                                                *)
Kept == {c \in Cells : c[1] < W - 1}
Word(c) == c[2] * W + c[1]
Src(k, c) ==
  IF k = "x" THEN <<W - 2 - c[1], c[2]>> ELSE <<c[1], H - 1 - c[2]>>

(* The word of c is read while it is written.                              *)
Collides(k, c) == k = "x" /\ 2 * c[1] = W

(* The pixel clocks since the beam was at the pixel c.                     *)
Since(c) ==
  LET a == After(BeamIdx, CellIdx(c)) IN IF a = 0 THEN FrameLast + 1 ELSE a

(* The beam is between the read of the word of c and the pixel c: one      *)
(* pixel, or the gap between two lines.                                    *)
Pending(c) ==
  \/ c[1] > 0 /\ hc = c[1] + X0 - 1 /\ vc = c[2] + Y0
  \/ c[1] = 0 /\ c[2] > 0 /\ hc >= X0 + W - 1 /\ vc = c[2] + Y0 - 1
  \/ c[1] = 0 /\ c[2] > 0 /\ hc < X0 /\ vc = c[2] + Y0

AtPixel(c) == hc = c[1] + X0 /\ vc = c[2] + Y0

(* A word is a good copy as long as the picture has been still since it    *)
(* was written.                                                            *)
MirrorWords ==
  \A k \in Axes, c \in Kept :
    Since(Src(k, c)) <= still => Mem(k)[Word(c)] = ram[Src(k, c)]

(* So is a word that has been read and waits for its pixel.                *)
HeldWords ==
  \A k \in Axes, c \in Kept :
    Pending(c) /\ ~Collides(k, c) /\ Since(Src(k, c)) <= still =>
      Held(k) = ram[Src(k, c)]

MirrorInv ==
  /\ DOMAIN horizScreen = 0 .. BackSpan - 1
  /\ DOMAIN vertScreen = 0 .. BackSpan - 1
  /\ still \in 0 .. FrameLast + 1
  /\ MirrorWords /\ HeldWords

-----------------------------------------------------------------------------
(* Every pixel with a word has its own, and so has the source of the copy. *)
LEMMA KeptFacts ==
  ASSUME NEW c \in Kept
  PROVE  /\ c \in Cells /\ c = <<c[1], c[2]>>
         /\ c[1] \in 0 .. W - 2 /\ c[2] \in 0 .. H - 1
         /\ Word(c) \in 0 .. H * W - 2
         /\ \A k \in Axes : Src(k, c) \in Kept
         /\ \A r \in Int, j \in 0 .. W - 1 :
              Word(c) = r * W + j <=> c = <<j, r>>
<1>1. /\ c \in Cells /\ c = <<c[1], c[2]>>
      /\ c[1] \in 0 .. W - 2 /\ c[2] \in 0 .. H - 1
  BY Screen DEF Kept, Cells
<1>2. c[1] \in 0 .. W - 1 /\ W \in Int /\ W > 0 /\ H \in Int /\ c[2] \in Int
  BY <1>1, Screen
<1>3. Word(c) \in 0 .. H * W - 2
  <2>1. c[1] + 1 \in 0 .. W - 1
    BY <1>1, Screen
  <2>2. c[2] * W + (c[1] + 1) \in 0 .. H * W - 1
    BY <1>1, <1>2, <2>1, RowMajor
  <2>3. c[2] * W + c[1] \in 0 .. H * W - 1
    BY <1>1, <1>2, RowMajor
  <2>4. c[2] * W \in Int /\ H * W \in Int
    BY <1>2
  <2> QED
    BY <1>1, <1>2, <2>2, <2>3, <2>4 DEF Word
<1>4. \A k \in Axes : Src(k, c) \in Kept
  BY <1>1, Screen DEF Kept, Cells, Src
<1>5. \A r \in Int, j \in 0 .. W - 1 : Word(c) = r * W + j <=> c = <<j, r>>
  <2> TAKE r \in Int, j \in 0 .. W - 1
  <2>1. Word(c) = c[2] * W + c[1]
    BY DEF Word
  <2>2. Word(c) = r * W + j => c[2] = r /\ c[1] = j
    <3> SUFFICES ASSUME c[2] * W + c[1] = r * W + j
                 PROVE  c[2] = r /\ c[1] = j
      BY <2>1
    <3>1. \A s \in Int, i \in 0 .. W - 1 :
            c[2] * W + c[1] = s * W + i => c[2] = s /\ c[1] = i
      BY <1>2, RowMajor
    <3> QED
      BY <3>1
  <2>3. c = <<j, r>> => c[1] = j /\ c[2] = r
    OBVIOUS
  <2> QED
    BY <1>1, <2>1, <2>2, <2>3
<1> QED
  BY <1>1, <1>3, <1>4, <1>5

BackAddr(k) == IF k = "x" THEN backAddrWrite ELSE backAddrWrite2

(* The beam steps onto the canvas from the pixel before.                   *)
LEMMA OntoCanvas ==
  ASSUME hc \in 0 .. hpixels, vc \in 0 .. vlines, CounterProc,
         InCanvas(<<hc', vc'>>)
  PROVE  /\ hc' = hc + 1 /\ vc' = vc
         /\ xOffset \in -1 .. W - 2 /\ yOffset \in 0 .. H - 1
<1>1. hc' \in 0 .. hpixels /\ vc' \in 0 .. vlines
  BY CounterType
<1>2. hc' \in X0 .. X0 + W - 1 /\ vc' \in Y0 .. Y0 + H - 1
  BY <1>1, Screen DEF InCanvas
<1>3. hc' = hc + 1 /\ vc' = vc
  BY <1>2, Screen DEF CounterProc
<1> QED
  BY <1>2, <1>3, Screen DEF xOffset, yOffset

(* An edge writes the word of c only for the pixel c is the copy of.       *)
LEMMA WordAddress ==
  ASSUME hc \in 0 .. hpixels, vc \in 0 .. vlines, CounterProc,
         InCanvas(<<hc', vc'>>), NEW k \in Axes, NEW c \in Kept
  PROVE  Word(c) = BackAddr(k)' <=> Src(k, c) = <<xOffset, yOffset>>
<1> DEFINE x == xOffset
           y == yOffset
<1>1. /\ x \in -1 .. W - 2 /\ y \in 0 .. H - 1
      /\ xOffset' = x + 1 /\ yOffset' = y
  BY OntoCanvas, Screen DEF xOffset, yOffset
<1>2. /\ W \in Int /\ H \in Int /\ BackSpan \in Int /\ W * H < BackSpan
      /\ W > 1 /\ H > 0
  BY Screen, PaintAssumption
<1>3. /\ c = <<c[1], c[2]>> /\ c[1] \in 0 .. W - 2 /\ c[2] \in 0 .. H - 1
      /\ Word(c) \in 0 .. H * W - 2
      /\ \A r \in Int, j \in 0 .. W - 1 :
           Word(c) = r * W + j <=> c = <<j, r>>
  BY KeptFacts
<1>4. H * W \in Int /\ H * W = W * H /\ H * W > 0
  BY <1>2
<1>5. CASE k = "x"
  <2>1. BackAddr(k)' = (y * W + (W - (x + 1)) - 1) % BackSpan
    BY <1>1, <1>5 DEF BackAddr, backAddrWrite
  <2>2. W - 2 - x \in 0 .. W - 1
    BY <1>1, <1>2
  <2>3. y * W + (W - 2 - x) \in 0 .. H * W - 1
    BY <1>1, <1>2, <2>2, RowMajor
  <2>4. y * W + (W - (x + 1)) - 1 = y * W + (W - 2 - x)
    BY <1>1, <1>2
  <2>5. BackAddr(k)' = y * W + (W - 2 - x)
    BY <1>2, <1>4, <2>1, <2>3, <2>4, Wraps
  <2>6. Word(c) = BackAddr(k)' <=> c = <<W - 2 - x, y>>
    BY <1>1, <1>3, <2>2, <2>5
  <2>7. c = <<W - 2 - x, y>> <=> <<W - 2 - c[1], c[2]>> = <<x, y>>
    BY <1>1, <1>2, <1>3
  <2> QED
    BY <1>5, <2>6, <2>7 DEF Src
<1>6. CASE k = "y"
  <2>0. H - 1 - y \in 0 .. H - 1
    BY <1>1, <1>2
  <2>1. BackAddr(k)' = ((H - 1 - y) * W + (x + 1) - 1) % BackSpan
    BY <1>1, <1>6 DEF BackAddr, backAddrWrite2
  <2>2. (H - 1 - y) * W + (x + 1) - 1 = (H - 1 - y) * W + x
    BY <1>1, <1>2
  <2>3. CASE x >= 0
    <3>1. (H - 1 - y) * W + x \in 0 .. H * W - 1
      BY <1>1, <1>2, <2>0, <2>3, RowMajor
    <3>2. BackAddr(k)' = (H - 1 - y) * W + x
      BY <1>2, <1>4, <2>1, <2>2, <3>1, Wraps
    <3>3. Word(c) = BackAddr(k)' <=> c = <<x, H - 1 - y>>
      <4>1. x \in 0 .. W - 1 /\ H - 1 - y \in Int
        BY <1>1, <1>2, <2>3
      <4> QED
        BY <1>3, <3>2, <4>1
    <3>4. c = <<x, H - 1 - y>> <=> <<c[1], H - 1 - c[2]>> = <<x, y>>
      BY <1>1, <1>2, <1>3
    <3> QED
      BY <1>6, <3>3, <3>4 DEF Src
  <2>4. CASE x = -1
    <3>0. Src(k, c) # <<x, y>>
      BY <1>3, <1>6, <2>4 DEF Src
    <3>1. (H - 1 - y) * W + x = (H - 2 - y) * W + (W - 1)
      BY <1>1, <1>2, <2>4
    <3>2. CASE y = H - 1
      <4>1. (H - 1 - y) * W + x = -1
        BY <1>1, <1>2, <2>4, <3>2
      <4>2. BackAddr(k)' = (-1) % BackSpan
        BY <2>1, <2>2, <4>1
      <4>3. (-1) % BackSpan = (-1) + BackSpan
        BY <1>2, <1>4, Wraps
      <4> QED
        BY <1>2, <1>3, <1>4, <3>0, <4>2, <4>3
    <3>3. CASE y # H - 1
      <4>1. H - 2 - y \in 0 .. H - 1
        BY <1>1, <1>2, <3>3
      <4>2. (H - 2 - y) * W + (W - 1) \in 0 .. H * W - 1
        BY <1>2, <4>1, RowMajor
      <4>3. BackAddr(k)' = (H - 2 - y) * W + (W - 1)
        BY <1>2, <1>4, <2>1, <2>2, <3>1, <4>2, Wraps
      <4>4. Word(c) = BackAddr(k)' <=> c = <<W - 1, H - 2 - y>>
        BY <1>2, <1>3, <4>1, <4>3
      <4> QED
        BY <1>2, <1>3, <3>0, <4>4
    <3> QED
      BY <3>2, <3>3
  <2> QED
    BY <1>1, <2>3, <2>4
<1> QED
  BY <1>5, <1>6 DEF Axes

-----------------------------------------------------------------------------
(* The falling edge of the mirror memory k.                                *)
LEMMA EdgeOf ==
  ASSUME HorizEdge, VertEdge, NEW k \in Axes
  PROVE  /\ Out(k)' = Held(k)
         /\ back_read' =>
              Held(k)' \in
                Answers(Mem(k), backAddrRead', BackAddr(k)', back_write')
         /\ ~back_read' => Held(k)' = Held(k)
         /\ back_write' => Mem(k)' = [Mem(k) EXCEPT ![BackAddr(k)'] = backIn']
         /\ ~back_write' => Mem(k)' = Mem(k)
<1>1. CASE k = "x"
  BY <1>1 DEF HorizEdge, Out, Held, Mem, BackAddr
<1>2. CASE k = "y"
  BY <1>2 DEF VertEdge, Out, Held, Mem, BackAddr
<1> QED
  BY <1>1, <1>2 DEF Axes

(* The mirror memories are read and written while the beam is on the canvas.*)
LEMMA Enables ==
  /\ back_read' <=> InCanvas(<<hc', vc'>>)
  /\ back_write' <=> InCanvas(<<hc', vc'>>)
  BY DEF back_read, back_write, Beam, InCanvas

(* A pixel clock writes to the word of c only when the beam is at the      *)
(* pixel it is the copy of, and then always.                               *)
LEMMA WordWritten ==
  ASSUME hc \in 0 .. hpixels, vc \in 0 .. vlines, CounterProc,
         HorizEdge, VertEdge, NEW k \in Axes, NEW c \in Kept,
         DOMAIN Mem(k) = 0 .. BackSpan - 1
  PROVE  Mem(k)'[Word(c)] = IF Src(k, c) = <<xOffset, yOffset>> THEN backIn'
                            ELSE Mem(k)[Word(c)]
<1>1. Word(c) \in 0 .. BackSpan - 1
  <2>1. Word(c) \in 0 .. H * W - 2 /\ W * H < BackSpan
    BY KeptFacts, PaintAssumption
  <2>2. H * W = W * H /\ W * H \in Int /\ BackSpan \in Int
    BY Screen, PaintAssumption
  <2> QED
    BY <2>1, <2>2
<1>2. CASE InCanvas(<<hc', vc'>>)
  <2>1. Mem(k)' = [Mem(k) EXCEPT ![BackAddr(k)'] = backIn']
    BY <1>2, Enables, EdgeOf
  <2>2. Word(c) = BackAddr(k)' <=> Src(k, c) = <<xOffset, yOffset>>
    BY <1>2, WordAddress
  <2> QED
    BY <1>1, <2>1, <2>2
<1>3. CASE ~InCanvas(<<hc', vc'>>)
  <2>1. Mem(k)' = Mem(k)
    BY <1>3, Enables, EdgeOf
  <2>2. Src(k, c) # <<xOffset, yOffset>>
    <3> SUFFICES ASSUME Src(k, c) = <<xOffset, yOffset>> PROVE FALSE
      OBVIOUS
    <3>1. hc - X0 \in 0 .. W - 2 /\ vc - Y0 \in 0 .. H - 1
      BY KeptFacts DEF xOffset, yOffset
    <3>2. hc' = hc + 1 /\ vc' = vc
      BY <3>1, Screen DEF CounterProc
    <3> QED
      BY <1>3, <3>1, <3>2, Screen DEF InCanvas
  <2> QED
    BY <2>1, <2>2
<1> QED
  BY <1>2, <1>3

(* Addresses of the words read: the one of the next pixel, at the end of a *)
(* line the one of the first pixel of the next line.                       *)
LEMMA ReadAddress ==
  ASSUME NEW c \in Kept, NEW x \in 0 .. W - 1, NEW y \in Int,
         \/ c[1] = x + 1 /\ c[2] = y
         \/ c[1] = 0 /\ x = W - 1 /\ c[2] = y + 1
  PROVE  (y * W + x + 1) % BackSpan = Word(c)
<1>1. /\ W \in Int /\ H \in Int /\ BackSpan \in Int /\ W * H < BackSpan
      /\ W * H \in Int /\ H * W = W * H /\ W * H > 0
  BY Screen, PaintAssumption
<1>2. Word(c) \in 0 .. H * W - 2 /\ c[1] \in Int /\ c[2] \in Int
  BY KeptFacts
<1>3. y * W + x + 1 = Word(c)
  <2>1. CASE c[1] = x + 1 /\ c[2] = y
    BY <1>1, <2>1 DEF Word
  <2>2. CASE c[1] = 0 /\ x = W - 1 /\ c[2] = y + 1
    BY <1>1, <2>2 DEF Word
  <2> QED
    BY <2>1, <2>2
<1> QED
  BY <1>1, <1>2, <1>3, Wraps

(* A word is held for its pixel from the edge at which it is read, when    *)
(* the beam is not at the pixel that writes it, and stays held; nor does   *)
(* the beam pass the pixel that writes it in the gap between two lines.    *)
LEMMA WordRead ==
  ASSUME hc \in 0 .. hpixels, vc \in 0 .. vlines, CounterProc,
         HorizEdge, VertEdge, NEW k \in Axes, NEW c \in Kept,
         Pending(c)', ~Collides(k, c)
  PROVE  /\ Src(k, c) # <<xOffset, yOffset>>
         /\ \/ Held(k)' = Mem(k)[Word(c)]
            \/ Pending(c) /\ Held(k)' = Held(k)
<1>1. /\ hc' \in 0 .. hpixels /\ vc' \in 0 .. vlines
      /\ hc \in Int /\ vc \in Int /\ hc' \in Int /\ vc' \in Int
  BY CounterType
<1>2. c[1] \in 0 .. W - 2 /\ c[2] \in 0 .. H - 1 /\ c = <<c[1], c[2]>>
  BY KeptFacts
<1>3. W > 2
  BY OpsAssumption
<1>4. ASSUME InCanvas(<<hc', vc'>>),
             NEW x \in 0 .. W - 1, NEW y \in Int,
             x = hc' - X0, y = vc' - Y0,
             \/ c[1] = x + 1 /\ c[2] = y
             \/ c[1] = 0 /\ x = W - 1 /\ c[2] = y + 1
      PROVE  /\ Src(k, c) # <<xOffset, yOffset>>
             /\ Held(k)' = Mem(k)[Word(c)]
  <2>1. Src(k, c) # <<xOffset, yOffset>>
    <3>1. xOffset = x - 1 /\ yOffset = y
      BY <1>1, <1>4, OntoCanvas, Screen DEF xOffset, yOffset
    <3>2. CASE k = "x"
      BY <1>2, <1>3, <1>4, <3>1, <3>2, Screen DEF Src, Collides
    <3>3. CASE k = "y"
      BY <1>2, <1>3, <1>4, <3>1, <3>3, Screen DEF Src
    <3> QED
      BY <3>2, <3>3 DEF Axes
  <2>2. backAddrRead' = Word(c)
    <3>1. backAddrRead' = (y * W + x + 1) % BackSpan
      BY <1>4 DEF backAddrRead, xOffset, yOffset
    <3> QED
      BY <1>4, <3>1, ReadAddress
  <2>3. Word(c) # BackAddr(k)'
    BY <1>4, <2>1, WordAddress
  <2>4. Held(k)' \in Answers(Mem(k), Word(c), BackAddr(k)', back_write')
    BY <1>4, <2>2, Enables, EdgeOf
  <2> QED
    BY <2>1, <2>3, <2>4 DEF Answers
<1>5. CASE c[1] > 0 /\ hc' = c[1] + X0 - 1 /\ vc' = c[2] + Y0
  <2>1. InCanvas(<<hc', vc'>>)
    BY <1>2, <1>5, Screen DEF InCanvas
  <2>2. hc' - X0 \in 0 .. W - 1 /\ vc' - Y0 \in Int
        /\ c[1] = (hc' - X0) + 1 /\ c[2] = vc' - Y0
    BY <1>2, <1>5, Screen
  <2> QED
    BY <1>4, <2>1, <2>2
<1>6. CASE c[1] = 0 /\ c[2] > 0 /\ hc' = X0 + W - 1 /\ vc' = c[2] + Y0 - 1
  <2>1. InCanvas(<<hc', vc'>>)
    BY <1>2, <1>6, Screen DEF InCanvas
  <2>2. hc' - X0 \in 0 .. W - 1 /\ vc' - Y0 \in Int
        /\ hc' - X0 = W - 1 /\ c[2] = (vc' - Y0) + 1
    BY <1>2, <1>6, Screen
  <2> QED
    BY <1>4, <1>6, <2>1, <2>2
<1>7. ASSUME ~InCanvas(<<hc', vc'>>), Pending(c), hc < X0 \/ hc >= X0 + W - 1
      PROVE  /\ Src(k, c) # <<xOffset, yOffset>>
             /\ Pending(c) /\ Held(k)' = Held(k)
  <2>1. Held(k)' = Held(k)
    BY <1>7, Enables, EdgeOf
  <2>2. hc - X0 < 0 \/ hc - X0 >= W - 1
    BY <1>1, <1>7, Screen
  <2>3. Src(k, c)[1] \in 0 .. W - 2
    BY KeptFacts
  <2>4. <<xOffset, yOffset>>[1] = hc - X0
    BY DEF xOffset
  <2> QED
    BY <1>1, <1>7, <2>1, <2>2, <2>3, <2>4, Screen
<1>8. CASE c[1] = 0 /\ c[2] > 0 /\ hc' > X0 + W - 1 /\ vc' = c[2] + Y0 - 1
  <2>1. ~InCanvas(<<hc', vc'>>)
    BY <1>1, <1>8, Screen DEF InCanvas
  <2>2. hc' = hc + 1 /\ vc' = vc
    BY <1>1, <1>8, Screen DEF CounterProc
  <2>3. hc >= X0 + W - 1
    BY <1>1, <1>8, <2>2, Screen
  <2>4. Pending(c)
    BY <1>8, <2>2, <2>3 DEF Pending
  <2> QED
    BY <1>7, <2>1, <2>3, <2>4
<1>9. CASE c[1] = 0 /\ c[2] > 0 /\ hc' < X0 /\ vc' = c[2] + Y0
  <2>1. ~InCanvas(<<hc', vc'>>)
    BY <1>1, <1>9, Screen DEF InCanvas
  <2>2. CASE hc' = 0
    <3>1. hc = hpixels /\ vc' = vc + 1
      BY <1>1, <1>2, <1>9, <2>2, Screen DEF CounterProc
    <3>2. hc >= X0 + W - 1 /\ vc = c[2] + Y0 - 1
      BY <1>1, <1>2, <1>9, <3>1, Screen
    <3> QED
      BY <1>7, <1>9, <2>1, <3>2 DEF Pending
  <2>3. CASE hc' # 0
    <3>1. hc' = hc + 1 /\ vc' = vc
      BY <1>1, <2>3, Screen DEF CounterProc
    <3>2. hc < X0
      BY <1>1, <1>9, <3>1, Screen
    <3> QED
      BY <1>7, <1>9, <2>1, <3>1, <3>2 DEF Pending
  <2> QED
    BY <2>2, <2>3
<1>10. (Pending(c))' =>
         \/ c[1] > 0 /\ hc' = c[1] + X0 - 1 /\ vc' = c[2] + Y0
         \/ c[1] = 0 /\ c[2] > 0 /\ hc' >= X0 + W - 1 /\ vc' = c[2] + Y0 - 1
         \/ c[1] = 0 /\ c[2] > 0 /\ hc' < X0 /\ vc' = c[2] + Y0
  BY DEF Pending
<1>11. hc' >= X0 + W - 1 <=> hc' = X0 + W - 1 \/ hc' > X0 + W - 1
  BY <1>1, Screen
<1> QED
  BY <1>5, <1>6, <1>8, <1>9, <1>10, <1>11

(* When the beam comes to a pixel, its word has been waiting.              *)
LEMMA WordWaits ==
  ASSUME hc \in 0 .. hpixels, vc \in 0 .. vlines, CounterProc,
         NEW c \in Kept, c # <<0, 0>>, AtPixel(c)'
  PROVE  Pending(c)
<1>1. hc \in Int /\ vc \in Int /\ c = <<c[1], c[2]>>
      /\ c[1] \in 0 .. W - 2 /\ c[2] \in 0 .. H - 1
  BY KeptFacts
<1>2. hc' = c[1] + X0 /\ vc' = c[2] + Y0
  BY DEF AtPixel
<1>3. hc = c[1] + X0 - 1 /\ vc = c[2] + Y0
  BY <1>1, <1>2, Screen DEF CounterProc
<1>4. CASE c[1] > 0
  BY <1>3, <1>4 DEF Pending
<1>5. CASE c[1] = 0
  <2>1. c[2] > 0
    BY <1>1, <1>5
  <2>2. hc < X0
    BY <1>3, <1>5, Screen
  <2> QED
    BY <1>3, <1>5, <2>1, <2>2 DEF Pending
<1> QED
  BY <1>1, <1>4, <1>5

-----------------------------------------------------------------------------
(* The clocks since the beam was at a pixel count up to a frame.           *)
LEMMA SinceFacts ==
  ASSUME hc \in 0 .. hpixels, vc \in 0 .. vlines, NEW c \in Cells
  PROVE  /\ Since(c) \in 1 .. FrameLast + 1
         /\ CounterProc =>
              (Since(c))' = IF c = <<xOffset, yOffset>> THEN 1 ELSE Since(c) + 1
<1> DEFINE k == CellIdx(c)
           S(i, j) == IF After(i, j) = 0 THEN FrameLast + 1 ELSE After(i, j)
<1>1. k \in 0 .. FrameLast /\ BeamIdx \in 0 .. FrameLast /\ FrameLast \in Int
  BY CellFacts, IdxFacts DEF BeamIdx
<1>2. Since(c) = S(BeamIdx, k) /\ (Since(c))' = S(BeamIdx', k)
  BY DEF Since, CellIdx, Idx
<1>3. k = BeamIdx <=> c = <<xOffset, yOffset>>
  BY AtBeam
<1> HIDE DEF k
<1>4. S(BeamIdx, k) \in 1 .. FrameLast + 1
  BY <1>1 DEF After
<1>5. ASSUME CounterProc
      PROVE  S(BeamIdx', k) = IF k = BeamIdx THEN 1 ELSE S(BeamIdx, k) + 1
  <2>1. /\ BeamIdx' \in 0 .. FrameLast
        /\ BeamIdx' = IF BeamIdx = FrameLast THEN 0 ELSE BeamIdx + 1
    BY <1>5, NextIdx
  <2> QED
    BY <1>1, <2>1, IdxFacts DEF After
<1> QED
  BY <1>2, <1>3, <1>4, <1>5

(* The operation counter runs once through the frame.                      *)
LEMMA FrameIs == FrameLength = FrameLast + 1 /\ FrameLength \in Int
<1>1. FrameLast = FrameLength - 1
  BY PaintAssumption
<1>2. FrameLength \in Int
  BY Screen DEF FrameLength
<1> QED
  BY <1>1, <1>2

(* The steps of the history count how long the picture has been still.     *)
LEMMA StillStep ==
  ASSUME HistoryStep, still \in 0 .. FrameLast + 1
  PROVE  /\ still' \in 0 .. FrameLast + 1
         /\ still' # 0 =>
              still' <= still + 1 /\ \A c \in Cells : ram'[c] = ram[c]
<1>1. still' = IF canvas' # canvas THEN 0
               ELSE IF still = FrameLength THEN still ELSE still + 1
  BY DEF HistoryStep
<1>2. canvas' = canvas => \A c \in Cells : ram'[c] = ram[c]
  <2> SUFFICES ASSUME canvas' = canvas, NEW c \in Cells
               PROVE  ram'[c] = ram[c]
    OBVIOUS
  <2>1. canvas'[c] = ram'[c] /\ canvas[c] = ram[c]
    BY DEF canvas
  <2> QED
    BY <2>1
<1> QED
  BY <1>1, <1>2, FrameIs, IdxFacts

(* The pixel the paint logic copies to the mirror memories.                *)
LEMMA CopyOut ==
  ASSUME Logic
  PROVE  /\ Painting(Beam) => backIn' = ramIn'
         /\ ~Painting(Beam) => backIn' = ramOut
  BY DEF Logic, Posedge, PixelOut

(* A pixel clock keeps the good copies good: when the picture stays still the*)
(* new word is the pixel that goes to the canvas, and when it does not, all*)
(* words are in doubt.                                                     *)
LEMMA MirrorStep ==
  ASSUME PipelineInv, MirrorInv, PixelPeriod, HistoryStep
  PROVE  MirrorInv'
<1>1. Logic /\ CounterProc /\ RamEdge /\ HorizEdge /\ VertEdge
      /\ hc \in 0 .. hpixels /\ vc \in 0 .. vlines
  BY PeriodIs DEF PipelineInv, PixelPeriod, MemoryEdge
<1>2. /\ DOMAIN horizScreen' = 0 .. BackSpan - 1
      /\ DOMAIN vertScreen' = 0 .. BackSpan - 1
  BY <1>1 DEF MirrorInv, HorizEdge, VertEdge
<1>3. /\ still \in 0 .. FrameLast + 1 /\ still' \in 0 .. FrameLast + 1
      /\ still' # 0 =>
           still' <= still + 1 /\ \A c \in Cells : ram'[c] = ram[c]
  BY StillStep DEF MirrorInv
<1>4. ASSUME NEW s \in Cells, (Since(s))' <= still'
      PROVE  /\ ram'[s] = ram[s]
             /\ s # <<xOffset, yOffset>> => Since(s) <= still
  <2>1. /\ Since(s) \in 1 .. FrameLast + 1
        /\ (Since(s))' = IF s = <<xOffset, yOffset>> THEN 1 ELSE Since(s) + 1
    BY <1>1, SinceFacts
  <2>2. still' # 0 /\ FrameLast \in Int
    BY <1>3, <1>4, <2>1, IdxFacts
  <2> QED
    BY <1>3, <1>4, <2>1, <2>2
<1>5. MirrorWords'
  <2> SUFFICES ASSUME NEW k \in Axes, NEW c \in Kept,
                      (Since(Src(k, c)))' <= still'
               PROVE  Mem(k)'[Word(c)] = ram'[Src(k, c)]
    BY DEF MirrorWords
  <2> DEFINE s == Src(k, c)
  <2>1. s \in Cells
    BY KeptFacts
  <2>2. Mem(k)'[Word(c)] = IF s = <<xOffset, yOffset>> THEN backIn'
                           ELSE Mem(k)[Word(c)]
    <3>1. DOMAIN Mem(k) = 0 .. BackSpan - 1
      BY DEF MirrorInv, Mem
    <3> QED
      BY <1>1, <3>1, WordWritten
  <2>3. ram'[s] = ram[s] /\ (s # <<xOffset, yOffset>> => Since(s) <= still)
    BY <1>4, <2>1
  <2>4. CASE s = <<xOffset, yOffset>>
    <3>1. ram'[s] = ramIn' /\ ramOut = ram[s]
      BY <1>1, <2>1, <2>4, CanvasStep DEF Logic
    <3>2. backIn' = ram'[s]
      BY <1>1, <2>3, <3>1, CopyOut
    <3> QED
      BY <2>2, <2>4, <3>2
  <2>5. CASE s # <<xOffset, yOffset>>
    <3>1. Mem(k)[Word(c)] = ram[s]
      BY <2>3, <2>5 DEF MirrorInv, MirrorWords
    <3> QED
      BY <2>2, <2>3, <2>5, <3>1
  <2> QED
    BY <2>4, <2>5
<1>6. HeldWords'
  <2> SUFFICES ASSUME NEW k \in Axes, NEW c \in Kept, Pending(c)',
                      ~Collides(k, c), (Since(Src(k, c)))' <= still'
               PROVE  Held(k)' = ram'[Src(k, c)]
    BY DEF HeldWords, Collides
  <2>1. /\ Src(k, c) # <<xOffset, yOffset>>
        /\ \/ Held(k)' = Mem(k)[Word(c)]
           \/ Pending(c) /\ Held(k)' = Held(k)
    BY <1>1, WordRead
  <2>2. ram'[Src(k, c)] = ram[Src(k, c)] /\ Since(Src(k, c)) <= still
    BY <1>4, <2>1, KeptFacts
  <2> QED
    BY <2>1, <2>2 DEF MirrorInv, MirrorWords, HeldWords
<1> QED
  BY <1>2, <1>3, <1>5, <1>6 DEF MirrorInv

(* The system starts with the mirrors of the picture it starts with.       *)
LEMMA MirrorInitial == OpsInit => MirrorInv
<1> SUFFICES ASSUME OpsInit PROVE MirrorInv
  OBVIOUS
<1>1. PICK pic \in InitCanvases :
        /\ ram = [a \in (0 .. ColSpan - 1) \X (0 .. RowSpan - 1) |->
                    IF a \in Cells THEN pic[a] ELSE 0]
        /\ horizScreen = Mirror(pic, MirrorX)
        /\ vertScreen = Mirror(pic, MirrorY)
  BY DEF OpsInit, PaintInit
<1>2. /\ DOMAIN horizScreen = 0 .. BackSpan - 1
      /\ DOMAIN vertScreen = 0 .. BackSpan - 1
  BY <1>1 DEF Mirror
<1>3. still \in 0 .. FrameLast + 1
  BY FrameIs, IdxFacts DEF OpsInit
<1>4. MirrorWords
  <2> SUFFICES ASSUME NEW k \in Axes, NEW c \in Kept
               PROVE  Mem(k)[Word(c)] = ram[Src(k, c)]
    BY DEF MirrorWords
  <2> DEFINE addr == IF k = "x" THEN MirrorX ELSE MirrorY
             s == Src(k, c)
  <2>1. Mem(k) = Mirror(pic, addr)
    BY <1>1 DEF Mem
  <2>2. s \in Cells /\ s[1] < W - 1
    BY KeptFacts DEF Kept
  <2>3. \A d \in Cells : d[1] < W - 1 => (addr[d] = Word(c) <=> d = s)
    <3> SUFFICES ASSUME NEW d \in Kept
                 PROVE  addr[d] = Word(c) <=> d = s
      BY DEF Kept
    <3>1. /\ c = <<c[1], c[2]>> /\ c[1] \in 0 .. W - 2 /\ c[2] \in 0 .. H - 1
          /\ d = <<d[1], d[2]>> /\ d[1] \in 0 .. W - 2 /\ d[2] \in 0 .. H - 1
          /\ d \in Cells
          /\ \A r \in Int, j \in 0 .. W - 1 :
               Word(c) = r * W + j <=> c = <<j, r>>
      BY KeptFacts
    <3>2. CASE k = "x"
      <4>1. addr[d] = d[2] * W + W - 2 - d[1]
        BY <3>1, <3>2 DEF MirrorX
      <4>2. d[2] * W + W - 2 - d[1] = d[2] * W + (W - 2 - d[1])
        BY <3>1, Screen
      <4>3. W - 2 - d[1] \in 0 .. W - 1 /\ d[2] \in Int
        BY <3>1, Screen
      <4>4. addr[d] = Word(c) <=> c = <<W - 2 - d[1], d[2]>>
        BY <3>1, <4>1, <4>2, <4>3
      <4>5. c = <<W - 2 - d[1], d[2]>> <=> d = <<W - 2 - c[1], c[2]>>
        BY <3>1, Screen
      <4> QED
        BY <3>2, <4>4, <4>5 DEF Src
    <3>3. CASE k = "y"
      <4>1. addr[d] = (H - 1 - d[2]) * W + d[1]
        BY <3>1, <3>3 DEF MirrorY
      <4>2. d[1] \in 0 .. W - 1 /\ H - 1 - d[2] \in Int
        BY <3>1, Screen
      <4>3. addr[d] = Word(c) <=> c = <<d[1], H - 1 - d[2]>>
        BY <3>1, <4>1, <4>2
      <4>4. c = <<d[1], H - 1 - d[2]>> <=> d = <<c[1], H - 1 - c[2]>>
        BY <3>1, Screen
      <4> QED
        BY <3>3, <4>3, <4>4 DEF Src
    <3> QED
      BY <3>2, <3>3 DEF Axes
  <2>4. Word(c) \in 0 .. BackSpan - 1
    <3>1. Word(c) \in 0 .. H * W - 2 /\ W * H < BackSpan
      BY KeptFacts, PaintAssumption
    <3>2. H * W = W * H /\ W * H \in Int /\ BackSpan \in Int
      BY Screen, PaintAssumption
    <3> QED
      BY <3>1, <3>2
  <2>5. Mirror(pic, addr)[Word(c)] = pic[s]
    <3> HIDE DEF addr, s
    <3>1. (CHOOSE d \in Cells : d[1] < W - 1 /\ addr[d] = Word(c)) = s
      BY <2>2, <2>3
    <3> QED
      BY <2>2, <2>3, <2>4, <3>1 DEF Mirror
  <2>6. ram[s] = pic[s]
    <3>1. s \in (0 .. ColSpan - 1) \X (0 .. RowSpan - 1)
      BY <2>2, Screen DEF Cells
    <3> QED
      BY <1>1, <2>2, <3>1
  <2> QED
    BY <2>1, <2>5, <2>6
<1>5. HeldWords
  <2> SUFFICES ASSUME NEW c \in Kept, Pending(c) PROVE FALSE
    BY DEF HeldWords
  <2>1. hc = 0 /\ vc = 0
    BY DEF OpsInit, PaintInit, RasterInit
  <2> QED
    BY <2>1, KeptFacts, Screen DEF Pending
<1> QED
  BY <1>2, <1>3, <1>4, <1>5 DEF MirrorInv

-----------------------------------------------------------------------------
(* The operations that change the whole picture.                           *)
Fills == {"clear", "bucket"}
Flips == {"fliph", "flipv"}

(* The mirror memory a flip takes the picture from.                        *)
Axis == IF op.kind = "fliph" THEN "x" ELSE "y"

(* What the operation makes of the pixel c, and the pixels for which this  *)
(* is so when nothing has come in between.                                 *)
Result(c) ==
  IF op.kind = "clear" THEN 0
  ELSE IF op.kind = "bucket"
       THEN IF op.pic[c] = IF c = op.at THEN op.before ELSE op.target
            THEN op.colour ELSE op.pic[c]
       ELSE op.pic[Src(Axis, c)]

Sure(c) ==
  /\ op.kind # "bucket" => c # op.at
  /\ op.kind \in Flips => c \in Kept /\ c # <<0, 0>> /\ ~Collides(Axis, c)

Undisturbed ==
  /\ op.kind \in Fills \cup Flips
  /\ op.alone
  /\ op.kind \in Fills => op.steady
  /\ op.kind \in Flips => op.still

(* The operation has been at the pixel c.                                  *)
Passed(c) == After(CellIdx(c), CellIdx(op.at)) < counter

(* The history is a record with the fields that PaintOps gives it.         *)
IsOp ==
  op = [kind |-> op.kind, at |-> op.at, pic |-> op.pic, inside |-> op.inside,
        before |-> op.before, target |-> op.target, colour |-> op.colour, still |-> op.still,
        alone |-> op.alone, steady |-> op.steady]

(* The counter tells how far the beam is from where the operation started. *)
OnItsWay ==
  /\ op.at[1] + X0 \in 0 .. hpixels /\ op.at[2] + Y0 \in 0 .. vlines
  /\ op.at = <<op.at[1], op.at[2]>>
  /\ op.at[1] \in Int /\ op.at[2] \in Int
  /\ counter = After(BeamIdx, CellIdx(op.at))

(* Once the beam has looked, the register holds the colour under the       *)
(* cursor.                                                                 *)
Looked == looked /\ cursorInCanvas => atCursor = UnderCursor

(* The registers are those of the operation that was started.              *)
KeepsItsKind ==
  /\ op.kind \in Fills => ~horiz /\ ~vert /\ ~rando
  /\ op.kind = "clear" => ~op.inside
  /\ op.kind = "bucket" =>
       op.inside /\ toReplace = op.target /\ curColor = op.colour
  /\ op.kind = "fliph" => horiz
  /\ op.kind = "flipv" => ~horiz /\ vert

(* The mirror memories and what has been read of them are the picture the  *)
(* operation started on, although it is being painted over.                *)
OpWords ==
  op.alone /\ op.still =>
    \A k \in Axes, c \in Kept :
      /\ Mem(k)[Word(c)] = op.pic[Src(k, c)]
      /\ Pending(c) /\ ~Collides(k, c) => Held(k) = op.pic[Src(k, c)]
      /\ AtPixel(c) /\ ~Collides(k, c) /\ c # <<0, 0>> =>
           Out(k) = op.pic[Src(k, c)]

(* Ahead of the operation the picture is untouched; behind it, done.       *)
Untouched ==
  op.alone => \A c \in Cells \ {op.at} : ~Passed(c) => ram[c] = op.pic[c]

DoneSoFar ==
  Undisturbed => \A c \in Cells : Sure(c) /\ Passed(c) => ram[c] = Result(c)

DoneAtEnd ==
  Undisturbed => \A c \in Cells : Sure(c) => ram[c] = Result(c)

OpsInv ==
  /\ PipelineInv /\ MirrorInv /\ Looked
  /\ cursor \in Cursors /\ counter \in 0 .. FrameLast
  /\ counter = 0 => ~horiz /\ ~vert /\ ~rando
  /\ counter # 0 =>
       /\ IsOp /\ OnItsWay /\ KeepsItsKind
       /\ OpWords /\ Untouched /\ DoneSoFar
  /\ done => counter = 0 /\ DoneAtEnd

-----------------------------------------------------------------------------
(* While the mirror memories hold the picture p, they and the words read   *)
(* of them still do after a clock that copies p's pixel under the beam.    *)
LEMMA WordsStep ==
  ASSUME hc \in 0 .. hpixels, vc \in 0 .. vlines, CounterProc,
         HorizEdge, VertEdge, MirrorInv, NEW p,
         \A k \in Axes, c \in Kept :
           /\ Mem(k)[Word(c)] = p[Src(k, c)]
           /\ Pending(c) /\ ~Collides(k, c) => Held(k) = p[Src(k, c)],
         \A s \in Kept : s = <<xOffset, yOffset>> => backIn' = p[s]
  PROVE  \A k \in Axes, c \in Kept :
           /\ Mem(k)'[Word(c)] = p[Src(k, c)]
           /\ Pending(c)' /\ ~Collides(k, c) => Held(k)' = p[Src(k, c)]
           /\ AtPixel(c)' /\ ~Collides(k, c) /\ c # <<0, 0>> =>
                Out(k)' = p[Src(k, c)]
<1> TAKE k \in Axes, c \in Kept
<1>1. Src(k, c) \in Kept /\ DOMAIN Mem(k) = 0 .. BackSpan - 1
  BY KeptFacts DEF MirrorInv, Mem
<1>2. Mem(k)'[Word(c)] = p[Src(k, c)]
  BY <1>1, WordWritten
<1>3. ASSUME Pending(c)', ~Collides(k, c) PROVE Held(k)' = p[Src(k, c)]
  BY <1>3, WordRead
<1>4. ASSUME AtPixel(c)', ~Collides(k, c), c # <<0, 0>>
      PROVE  Out(k)' = p[Src(k, c)]
  BY <1>4, WordWaits, EdgeOf
<1> QED
  BY <1>2, <1>3, <1>4

(* The clock at which an operation starts establishes what it keeps.       *)
LEMMA StartStep ==
  ASSUME OpsInv, PixelPeriod, HistoryStep, counter = 0, counter' # 0
  PROVE  /\ IsOp' /\ OnItsWay' /\ KeepsItsKind'
         /\ OpWords' /\ Untouched' /\ DoneSoFar' /\ ~done'
<1>1. Logic /\ CounterProc /\ RamEdge /\ HorizEdge /\ VertEdge
      /\ PipelineInv /\ MirrorInv
      /\ hc \in 0 .. hpixels /\ vc \in 0 .. vlines
      /\ ~horiz /\ ~vert /\ ~rando
  BY PeriodIs DEF OpsInv, PipelineInv, PixelPeriod, MemoryEdge
<1>2. op' = StartedOp /\ ~done'
  BY DEF HistoryStep
<1>3. /\ op'.kind = Kind /\ op'.at = <<xOffset, yOffset>> /\ op'.pic = canvas
      /\ op'.inside = cursorInCanvas
      /\ op'.before = toReplace /\ op'.target = atCursor
      /\ op'.colour = curColor /\ op'.steady = TRUE
      /\ op'.still = (still = FrameLength) /\ op'.alone = ~Painting(Beam)
  <2>1. Target = atCursor
    BY DEF Target, Looked, OpsInv
  <2> QED
    BY <1>2, <2>1 DEF StartedOp
<1>4. IsOp'
  BY <1>2 DEF IsOp, StartedOp
<1>5. counter' = 1
  BY <1>1, CounterStep DEF OpsInv
<1>6. /\ op'.at[1] + X0 = hc /\ op'.at[2] + Y0 = vc
      /\ op'.at[1] \in Int /\ op'.at[2] \in Int
      /\ op'.at = <<op'.at[1], op'.at[2]>>
  BY <1>1, <1>3, Screen DEF xOffset, yOffset
<1>7. CellIdx(op'.at) = BeamIdx
  BY <1>6 DEF CellIdx, BeamIdx
<1>8. OnItsWay'
  <2>1. After(BeamIdx', BeamIdx) = 1
    BY <1>1, NextIdx, IdxFacts DEF After
  <2>2. (CellIdx(op.at))' = BeamIdx
    BY <1>7 DEF CellIdx, Idx
  <2>3. (After(BeamIdx, CellIdx(op.at)))' = After(BeamIdx', BeamIdx)
    BY <2>2 DEF After
  <2> QED
    BY <1>1, <1>5, <1>6, <2>1, <2>3 DEF OnItsWay
<1>9. KeepsItsKind'
  <2>1. CASE BucketClick /\ OpStep
    <3>1. Kind = "bucket" \/ Kind \in {"fliph", "flipv", "random"}
      BY <2>1 DEF Kind
    <3>2. /\ FrameLast # 0 /\ UNCHANGED opFlags /\ curColor' = curColor
          /\ toReplace' = atCursor
      BY <1>1, <1>5, <2>1, IdxFacts DEF OpStep, setting
    <3>3. cursorInCanvas
      BY <2>1 DEF BucketClick
    <3>4. Kind = "bucket"
      BY <1>1, <2>1, <3>2 DEF Kind, opFlags
    <3> QED
      BY <1>1, <1>3, <3>2, <3>3, <3>4 DEF KeepsItsKind, opFlags
  <2>2. CASE ~BucketClick /\ StartOp
    <3>1. PICK t \in OneShots :
            /\ At(t) /\ (rando' <=> rando \/ t = "random")
            /\ (horiz' <=> horiz \/ t = "fliph")
            /\ (vert' <=> vert \/ t = "flipv")
      BY <2>2 DEF StartOp
    <3>2. Kind # "bucket"
      BY <2>2 DEF Kind
    <3>3. Kind = "clear" => ~horiz' /\ ~vert' /\ ~rando' /\ t = "clear"
      BY <3>1 DEF Kind, OneShots
    <3>4. t = "clear" => ~cursorInCanvas
      <4>1. cursor \in Cursors
        BY DEF OpsInv
      <4>2. Tool[cursor] = t
        BY <3>1 DEF At
      <4> QED
        BY <4>1, <4>2, OpsAssumption DEF cursorInCanvas
    <3>5. (Kind = "fliph" => horiz') /\ (Kind = "flipv" => ~horiz' /\ vert')
      BY DEF Kind
    <3> QED
      BY <1>3, <3>2, <3>3, <3>4, <3>5 DEF KeepsItsKind, Fills
  <2> QED
    BY <1>1, <2>1, <2>2, HowItStarts
<1>10. \A c \in Cells : op'.pic[c] = ram[c]
  BY <1>3 DEF canvas
<1>11. OpWords'
  <2> SUFFICES ASSUME ~Painting(Beam), still = FrameLength
               PROVE  \A k \in Axes, c \in Kept :
                        /\ Mem(k)'[Word(c)] = op'.pic[Src(k, c)]
                        /\ Pending(c)' /\ ~Collides(k, c) =>
                             Held(k)' = op'.pic[Src(k, c)]
                        /\ AtPixel(c)' /\ ~Collides(k, c) /\ c # <<0, 0>> =>
                             Out(k)' = op'.pic[Src(k, c)]
    BY <1>3 DEF OpWords, Collides
  <2>1. ASSUME NEW k \in Axes, NEW c \in Kept
        PROVE  /\ Mem(k)[Word(c)] = op'.pic[Src(k, c)]
               /\ Pending(c) /\ ~Collides(k, c) =>
                    Held(k) = op'.pic[Src(k, c)]
    <3>1. Src(k, c) \in Cells
      BY KeptFacts
    <3>2. Since(Src(k, c)) <= still
      BY <1>1, <3>1, SinceFacts, FrameIs
    <3> QED
      BY <1>1, <1>10, <3>1, <3>2 DEF MirrorInv, MirrorWords, HeldWords
  <2>2. ASSUME NEW s \in Kept, s = <<xOffset, yOffset>>
        PROVE  backIn' = op'.pic[s]
    <3>1. s \in Cells
      BY KeptFacts
    <3>2. ramOut = ram[s]
      BY <1>1, <2>2, <3>1, CanvasStep DEF Logic
    <3> QED
      BY <1>1, <1>10, <3>1, <3>2, CopyOut
  <2> DEFINE p == op'.pic
  <2> HIDE DEF p
  <2>3. \A k \in Axes, c \in Kept :
          /\ Mem(k)[Word(c)] = p[Src(k, c)]
          /\ Pending(c) /\ ~Collides(k, c) => Held(k) = p[Src(k, c)]
    BY <2>1 DEF p
  <2>4. \A s \in Kept : s = <<xOffset, yOffset>> => backIn' = p[s]
    BY <2>2 DEF p
  <2> QED
    BY <1>1, <2>3, <2>4, WordsStep DEF p
<1>12. ASSUME NEW c \in Cells, c # op'.at
       PROVE  /\ ram'[c] = op'.pic[c]
              /\ ~(After(CellIdx(c), CellIdx(op'.at)) < counter')
  <2>1. ram'[c] = op'.pic[c]
    BY <1>1, <1>3, <1>10, <1>12, CanvasStep DEF Logic
  <2>2. CellIdx(c) # BeamIdx
    BY <1>1, <1>3, <1>12, AtBeam
  <2>3. After(CellIdx(c), BeamIdx) >= 1
    BY <1>1, <2>2, CellFacts, NextIdx, IdxFacts DEF After
  <2>4. After(CellIdx(c), BeamIdx) \in Int
    BY <1>1, CellFacts, NextIdx, IdxFacts DEF After
  <2> QED
    BY <1>5, <1>7, <2>1, <2>3, <2>4
<1>13. Untouched'
  BY <1>12 DEF Untouched
<1>14. DoneSoFar'
  <2> SUFFICES ASSUME Undisturbed', NEW c \in Cells, Sure(c)', Passed(c)'
               PROVE  ram'[c] = Result(c)'
    BY DEF DoneSoFar
  <2>1. c = op'.at /\ Kind = "bucket"
    BY <1>3, <1>12 DEF Passed, Sure
  <2>2. /\ ramOut = ram[c] /\ ram'[c] = ramIn' /\ ram[c] = op'.pic[c]
    BY <1>1, <1>3, <1>10, <2>1, CanvasStep DEF Logic
  <2>3. BucketClick /\ ~Painting(Beam)
    BY <1>1, <1>3, <2>1, HowItStarts DEF Kind, Undisturbed
  <2>4. ramIn' = IF toReplace = ramOut THEN curColor ELSE ramOut
    BY <1>1, <2>3
    DEF Logic, Posedge, PixelOut, OpRunning, OpPixel, BucketClick
  <2>5. Result(c)' = IF op'.pic[c] = op'.before THEN op'.colour ELSE op'.pic[c]
    BY <1>3, <2>1 DEF Result
  <2> QED
    BY <1>3, <2>2, <2>4, <2>5
<1> QED
  BY <1>2, <1>4, <1>8, <1>9, <1>11, <1>13, <1>14

-----------------------------------------------------------------------------
(* What the paint logic puts out while an operation runs undisturbed.      *)
LEMMA ResultPixel ==
  ASSUME Logic, counter # 0, KeepsItsKind, op.kind \in Fills \cup Flips,
         ~Painting(Beam), op.kind \in Fills => cursorInCanvas = op.inside,
         NEW c, c # op.at, ramOut = op.pic[c],
         op.kind \in Flips => Out(Axis) = op.pic[Src(Axis, c)]
  PROVE  ramIn' = Result(c)
<1>1. PICK rnd : Posedge(Beam, ramOut, backOut, backOut2, rnd)
  BY DEF Logic
<1>2. OpRunning
  BY DEF OpRunning
<1>3. ramIn' = OpPixel(ramOut, backOut, backOut2, rnd)
  BY <1>1, <1>2 DEF Posedge, PixelOut
<1>4. op.kind \in Fills => ~horiz /\ ~vert /\ ~rando
  BY DEF KeepsItsKind
<1>5. CASE op.kind = "clear"
  <2>1. ~cursorInCanvas
    BY <1>5 DEF KeepsItsKind, Fills
  <2> QED
    BY <1>3, <1>4, <1>5, <2>1 DEF OpPixel, Result, Fills
<1>6. CASE op.kind = "bucket"
  <2>1. cursorInCanvas /\ toReplace = op.target /\ curColor = op.colour
    BY <1>6 DEF KeepsItsKind, Fills
  <2> QED
    BY <1>3, <1>4, <1>6, <2>1 DEF OpPixel, Result, Fills
<1>7. CASE op.kind = "fliph"
  <2>1. backOut = op.pic[Src(Axis, c)]
    BY <1>7 DEF Flips, Axis, Out
  <2> QED
    BY <1>3, <1>7, <2>1 DEF KeepsItsKind, OpPixel, Result
<1>8. CASE op.kind = "flipv"
  <2>1. backOut2 = op.pic[Src(Axis, c)]
    BY <1>8 DEF Flips, Axis, Out
  <2> QED
    BY <1>3, <1>8, <2>1 DEF KeepsItsKind, OpPixel, Result
<1> QED
  BY <1>5, <1>6, <1>7, <1>8 DEF Fills, Flips

(* A clock of a running operation finishes one more pixel, and the last    *)
(* clock leaves every pixel finished.                                      *)
LEMMA RunStep ==
  ASSUME OpsInv, PixelPeriod, HistoryStep, counter # 0
  PROVE  /\ counter' # 0 =>
              /\ IsOp' /\ OnItsWay' /\ KeepsItsKind'
              /\ OpWords' /\ Untouched' /\ DoneSoFar' /\ ~done'
         /\ counter' = 0 => DoneAtEnd'
<1>1. Logic /\ CounterProc /\ RamEdge /\ HorizEdge /\ VertEdge
      /\ PipelineInv /\ MirrorInv
      /\ hc \in 0 .. hpixels /\ vc \in 0 .. vlines
      /\ counter \in 0 .. FrameLast
      /\ IsOp /\ OnItsWay /\ KeepsItsKind
      /\ OpWords /\ Untouched /\ DoneSoFar
  BY PeriodIs DEF OpsInv, PipelineInv, PixelPeriod, MemoryEdge
<1>2. /\ op' = [op EXCEPT !.alone = @ /\ ~Painting(Beam),
                          !.steady = @ /\ cursorInCanvas = op.inside]
      /\ done' = (counter' = 0)
  BY DEF HistoryStep
<1>3. /\ op'.kind = op.kind /\ op'.at = op.at /\ op'.pic = op.pic
      /\ op'.inside = op.inside
      /\ op'.before = op.before /\ op'.target = op.target
      /\ op'.colour = op.colour /\ op'.still = op.still
      /\ op'.alone => op.alone /\ ~Painting(Beam)
      /\ op'.steady => op.steady /\ cursorInCanvas = op.inside
  BY <1>1, <1>2 DEF IsOp
<1>4. IsOp'
  BY <1>1, <1>2 DEF IsOp
<1>5. OpStep /\ counter' = IF counter = FrameLast THEN 0 ELSE counter + 1
  BY <1>1, OnlyOpStep, CounterStep
<1>6. counter' # 0 => UNCHANGED <<horiz, vert, rando, toReplace, curColor>>
  BY <1>1, <1>5 DEF OpStep, opFlags, setting
<1>7. counter' # 0 => KeepsItsKind'
  BY <1>1, <1>3, <1>6 DEF KeepsItsKind
<1>8. CellIdx(op.at) \in 0 .. FrameLast /\ CellIdx(op'.at) = CellIdx(op.at)
  BY <1>1, <1>3, IdxFacts DEF OnItsWay, CellIdx
<1>9. counter' # 0 => OnItsWay'
  <2> SUFFICES ASSUME counter' # 0 PROVE OnItsWay'
    OBVIOUS
  <2> DEFINE a == CellIdx(op.at)
  <2>1. counter = After(BeamIdx, a) /\ counter # FrameLast
        /\ counter' = counter + 1
    BY <1>1, <1>5 DEF OnItsWay
  <2>2. /\ BeamIdx \in 0 .. FrameLast /\ BeamIdx' \in 0 .. FrameLast
        /\ BeamIdx' = IF BeamIdx = FrameLast THEN 0 ELSE BeamIdx + 1
    BY <1>1, NextIdx
  <2>3. a \in 0 .. FrameLast
    BY <1>8
  <2>4. After(BeamIdx', a) = After(BeamIdx, a) + 1
    <3> HIDE DEF a
    <3> QED
      BY <1>1, <2>1, <2>2, <2>3, IdxFacts DEF After
  <2>5. (CellIdx(op.at))' = a
    BY <1>3 DEF CellIdx, Idx
  <2>6. (After(BeamIdx, CellIdx(op.at)))' = After(BeamIdx', a)
    BY <2>5 DEF After
  <2> QED
    BY <1>1, <1>3, <2>1, <2>4, <2>6 DEF OnItsWay
<1>10. ASSUME NEW c \in Cells
       PROVE  /\ After(CellIdx(c), CellIdx(op.at)) \in 0 .. FrameLast
              /\ After(CellIdx(c), CellIdx(op.at)) = counter
                   <=> c = <<xOffset, yOffset>>
  <2> DEFINE a == CellIdx(op.at)
             k == CellIdx(c)
  <2>1. /\ a \in 0 .. FrameLast /\ k \in 0 .. FrameLast
        /\ BeamIdx \in 0 .. FrameLast
        /\ counter = After(BeamIdx, a)
    BY <1>1, <1>8, CellFacts, NextIdx DEF OnItsWay
  <2>2. k = BeamIdx <=> c = <<xOffset, yOffset>>
    BY <1>1, AtBeam
  <2> HIDE DEF a, k
  <2>3. After(k, a) = counter <=> k = BeamIdx
    BY <2>1, IdxFacts DEF After
  <2>4. After(k, a) \in 0 .. FrameLast
    BY <2>1, IdxFacts DEF After
  <2> QED
    BY <2>2, <2>3, <2>4 DEF a, k
<1>11. ASSUME NEW c \in Cells, c = <<xOffset, yOffset>>
       PROVE  /\ c # op.at /\ ramOut = ram[c] /\ ram'[c] = ramIn'
              /\ op.alone => ram[c] = op.pic[c]
  <2>1. ramOut = ram[c] /\ ram'[c] = ramIn'
    BY <1>1, <1>11, CanvasStep DEF Logic
  <2>2. After(CellIdx(c), CellIdx(op.at)) = counter
    BY <1>10, <1>11
  <2>3. ~Passed(c)
    BY <1>1, <2>2 DEF Passed
  <2>4. c # op.at
    <3> SUFFICES ASSUME c = op.at PROVE FALSE
      OBVIOUS
    <3>1. After(CellIdx(op.at), CellIdx(op.at)) = 0
      BY <1>8 DEF After
    <3> QED
      BY <2>2, <3>1
  <2> QED
    BY <1>1, <2>1, <2>3, <2>4 DEF Untouched
<1>12. OpWords'
  <2> SUFFICES ASSUME op'.alone, op.still
               PROVE  \A k \in Axes, c \in Kept :
                        /\ Mem(k)'[Word(c)] = op'.pic[Src(k, c)]
                        /\ Pending(c)' /\ ~Collides(k, c) =>
                             Held(k)' = op'.pic[Src(k, c)]
                        /\ AtPixel(c)' /\ ~Collides(k, c) /\ c # <<0, 0>> =>
                             Out(k)' = op'.pic[Src(k, c)]
    BY <1>3 DEF OpWords, Collides
  <2>1. \A k \in Axes, c \in Kept :
          /\ Mem(k)[Word(c)] = op.pic[Src(k, c)]
          /\ Pending(c) /\ ~Collides(k, c) => Held(k) = op.pic[Src(k, c)]
    BY <1>1, <1>3 DEF OpWords
  <2>2. \A s \in Kept : s = <<xOffset, yOffset>> => backIn' = op.pic[s]
    BY <1>1, <1>3, <1>11, CopyOut, KeptFacts
  <2> QED
    BY <1>1, <1>3, <2>1, <2>2, WordsStep
<1>13. \A c : /\ Result(c)' = Result(c) /\ (Sure(c)' <=> Sure(c))
              /\ Passed(c)' <=> After(CellIdx(c), CellIdx(op.at)) < counter'
  BY <1>3 DEF Result, Sure, Passed, After, CellIdx, Idx, Axis, Src, Collides
<1>14. ASSUME NEW c \in Cells, counter' # 0
       PROVE  Passed(c)' <=> Passed(c) \/ c = <<xOffset, yOffset>>
  <2>1. counter' = counter + 1
    BY <1>5, <1>14
  <2> QED
    BY <1>1, <1>10, <1>13, <2>1 DEF Passed
<1>15. counter' # 0 => Untouched'
  <2> SUFFICES ASSUME counter' # 0, op'.alone, NEW c \in Cells, c # op'.at,
                      ~Passed(c)'
               PROVE  ram'[c] = op'.pic[c]
    BY DEF Untouched
  <2>1. ~Passed(c) /\ c # <<xOffset, yOffset>>
    BY <1>14
  <2>2. ram'[c] = ram[c]
    BY <1>1, <2>1, CanvasStep DEF Logic
  <2> QED
    BY <1>1, <1>3, <2>1, <2>2 DEF Untouched
<1>16. ASSUME Undisturbed', NEW c \in Cells, Sure(c),
              Passed(c) \/ c = <<xOffset, yOffset>>
       PROVE  ram'[c] = Result(c)
  <2>1. /\ Undisturbed /\ ~Painting(Beam)
        /\ op.kind \in Fills => cursorInCanvas = op.inside
    BY <1>3, <1>16 DEF Undisturbed
  <2>2. CASE c = <<xOffset, yOffset>>
    <3>1. ramOut = op.pic[c] /\ ram'[c] = ramIn' /\ c # op.at
      BY <1>11, <2>1, <2>2 DEF Undisturbed
    <3>2. op.kind \in Flips => Out(Axis) = op.pic[Src(Axis, c)]
      <4>1. Axis \in Axes
        BY DEF Axis, Axes
      <4>2. AtPixel(c)
        BY <1>1, <2>2, Screen DEF AtPixel, xOffset, yOffset
      <4> QED
        BY <1>1, <1>16, <2>1, <4>1, <4>2 DEF OpWords, Sure, Undisturbed
    <3>3. ramIn' = Result(c)
      BY <1>1, <2>1, <3>1, <3>2, ResultPixel DEF Undisturbed
    <3> QED
      BY <3>1, <3>3
  <2>3. CASE c # <<xOffset, yOffset>>
    <3>1. ram'[c] = ram[c]
      BY <1>1, <2>3, CanvasStep DEF Logic
    <3> QED
      BY <1>1, <1>16, <2>1, <2>3, <3>1 DEF DoneSoFar
  <2> QED
    BY <2>2, <2>3
<1>17. counter' # 0 => DoneSoFar'
  BY <1>13, <1>14, <1>16 DEF DoneSoFar
<1>18. counter' = 0 => DoneAtEnd'
  <2> SUFFICES ASSUME counter' = 0, Undisturbed', NEW c \in Cells, Sure(c)'
               PROVE  ram'[c] = Result(c)'
    BY DEF DoneAtEnd
  <2>1. counter = FrameLast
    BY <1>1, <1>5
  <2>2. Passed(c) \/ c = <<xOffset, yOffset>>
    BY <1>1, <1>10, <2>1 DEF Passed
  <2> QED
    BY <1>13, <1>16, <2>2
<1> QED
  BY <1>2, <1>4, <1>7, <1>9, <1>12, <1>15, <1>17, <1>18

(* No operation runs at the start.                                         *)
LEMMA OpsInitial == OpsInit => OpsInv
<1> SUFFICES ASSUME OpsInit PROVE OpsInv
  OBVIOUS
<1>1. PipelineInv /\ MirrorInv
  BY PipelineInit, MirrorInitial DEF OpsInit
<1>2. cursor \in Cursors /\ counter = 0 /\ ~horiz /\ ~vert /\ ~rando /\ ~done
  BY DEF OpsInit, PaintInit
<1>3. Looked
  BY DEF OpsInit, Looked
<1> QED
  BY <1>1, <1>2, <1>3, IdxFacts DEF OpsInv

(* The beam that comes by the cursor reads the pixel there, and what it has*)
(* read stays true until the history says that it is not.                  *)
LEMMA LookedStep ==
  ASSUME PipelineInv, Looked, PixelPeriod, HistoryStep
  PROVE  Looked'
<1> SUFFICES ASSUME looked', cursorInCanvas' PROVE atCursor' = UnderCursor'
  BY DEF Looked
<1>1. Logic /\ UNCHANGED cursor
  BY PeriodIs DEF PixelPeriod, inputs
<1>2. (looked \/ cursor = Beam) /\ UnderCursor' = UnderCursor
  BY DEF HistoryStep
<1>3. cursorInCanvas
  BY <1>1 DEF cursorInCanvas, InCanvas
<1>4. atCursor' = IF cursor = Beam THEN ramOut ELSE atCursor
  BY <1>1 DEF Logic, Posedge, PixelOut
<1>5. ASSUME cursor = Beam PROVE ramOut = UnderCursor
  <2>1. InCanvas(Beam) /\ hc \in 0 .. hpixels /\ vc \in 0 .. vlines
    BY <1>3, <1>5 DEF cursorInCanvas, PipelineInv
  <2>2. <<xOffset, yOffset>> \in Cells
    BY <2>1, Screen DEF InCanvas, Beam, Cells, xOffset, yOffset
  <2>3. UnderCursor = canvas[<<xOffset, yOffset>>]
    BY <1>3, <1>5 DEF UnderCursor, Beam, xOffset, yOffset
  <2>4. ramOut = ram[<<xOffset, yOffset>>]
    BY <2>1 DEF PipelineInv, BeamReadsItsPixel
  <2> QED
    BY <2>2, <2>3, <2>4 DEF canvas
<1> QED
  BY <1>2, <1>3, <1>4, <1>5 DEF Looked

(* Every step keeps the invariant of the operations.                       *)
LEMMA OpsStep == OpsInv /\ [OpsNext]_opsVars => OpsInv'
<1> SUFFICES ASSUME OpsInv, [OpsNext]_opsVars PROVE OpsInv'
  OBVIOUS
<1>1. PipelineInv'
  <2>1. OpsNext \/ UNCHANGED opsVars => [PaintNext]_paintVars
    BY DEF OpsNext, opsVars, PaintNext
  <2> QED
    BY <2>1, PipelineStep DEF OpsInv
<1>2. CASE PixelPeriod /\ HistoryStep
  <2>1. Logic /\ cursor' \in Cursors
    BY <1>2, PeriodIs DEF OpsInv, PixelPeriod, inputs
  <2>2. /\ counter' \in 0 .. FrameLast
        /\ counter' = 0 => ~horiz' /\ ~vert' /\ ~rando'
    BY <2>1, CounterStep, FlagsStep DEF OpsInv
  <2>3. MirrorInv' /\ Looked'
    BY <1>2, MirrorStep, LookedStep DEF OpsInv
  <2>4. CASE counter = 0 /\ counter' # 0
    BY <1>1, <1>2, <2>1, <2>2, <2>3, <2>4, StartStep DEF OpsInv
  <2>5. CASE counter = 0 /\ counter' = 0
    <3>1. ~done'
      BY <1>2, <2>5 DEF HistoryStep
    <3> QED
      BY <1>1, <2>1, <2>2, <2>3, <2>5, <3>1 DEF OpsInv
  <2>6. CASE counter # 0
    <3>1. done' = (counter' = 0)
      BY <1>2, <2>6 DEF HistoryStep
    <3> QED
      BY <1>1, <1>2, <2>1, <2>2, <2>3, <2>6, <3>1, RunStep DEF OpsInv
  <2> QED
    BY <2>4, <2>5, <2>6
<1>3. CASE \/ MouseEvent /\ looked' = (looked /\ cursor' = cursor)
                /\ UNCHANGED <<op, done, still>>
           \/ UNCHANGED opsVars
  <2>1. UNCHANGED <<hc, vc, counter, horiz, vert, rando, toReplace, atCursor,
                    curColor, ram, op, done, still, horizScreen, horizRead, backOut,
                    vertScreen, vertRead, backOut2>>
    BY <1>3 DEF MouseEvent, opsVars, paintVars, mapperVars, memVars, ramVars,
                opFlags, pipe, setting, horizVars, vertVars
  <2>2. cursor' \in Cursors
    BY <1>3 DEF MouseEvent, opsVars, paintVars, mapperVars, inputs, OpsInv
  <2>3. \A k, c : /\ Mem(k)' = Mem(k) /\ Held(k)' = Held(k)
                  /\ Out(k)' = Out(k)
                  /\ (Pending(c)' <=> Pending(c))
                  /\ (AtPixel(c)' <=> AtPixel(c))
                  /\ Since(c)' = Since(c)
                  /\ Result(c)' = Result(c)
                  /\ (Sure(c)' <=> Sure(c))
                  /\ (Passed(c)' <=> Passed(c))
    BY <2>1 DEF Mem, Held, Out, Pending, AtPixel, Since, Result, Sure, Passed,
                After, BeamIdx, CellIdx, Idx, Axis, Src, Collides
  <2>4. MirrorInv'
    BY <2>1, <2>3
    DEF OpsInv, MirrorInv, MirrorWords, HeldWords, Collides
  <2>10. Looked'
    <3> SUFFICES ASSUME looked', cursorInCanvas'
                 PROVE  atCursor' = UnderCursor'
      BY DEF Looked
    <3>1. looked /\ cursor' = cursor
      BY <1>3 DEF opsVars, paintVars, mapperVars, inputs
    <3>2. cursorInCanvas /\ UnderCursor' = UnderCursor
      BY <2>1, <3>1 DEF cursorInCanvas, InCanvas, UnderCursor, canvas
    <3> QED
      BY <2>1, <3>1, <3>2 DEF Looked, OpsInv
  <2>5. (OnItsWay => OnItsWay') /\ (IsOp => IsOp')
    BY <2>1 DEF OnItsWay, After, BeamIdx, CellIdx, Idx, IsOp
  <2>6. KeepsItsKind => KeepsItsKind'
    BY <2>1 DEF KeepsItsKind
  <2>7. OpWords => OpWords'
    BY <2>1, <2>3 DEF OpWords, Collides
  <2>8. Undisturbed' <=> Undisturbed
    BY <2>1 DEF Undisturbed
  <2>9. /\ Untouched => Untouched'
        /\ DoneSoFar => DoneSoFar'
        /\ DoneAtEnd => DoneAtEnd'
    BY <2>1, <2>3, <2>8 DEF Untouched, DoneSoFar, DoneAtEnd
  <2> QED
    BY <1>1, <2>1, <2>2, <2>4, <2>5, <2>6, <2>7, <2>9, <2>10 DEF OpsInv
<1> QED
  BY <1>2, <1>3 DEF OpsNext

(* At the end of an operation the invariant says what the runs check.      *)
LEMMA EndsDone ==
  OpsInv => CanvasCleared /\ ColorReplaced /\ VerticalFlip /\ HorizontalFlip
<1> SUFFICES ASSUME OpsInv, done
             PROVE  CanvasCleared /\ ColorReplaced /\ VerticalFlip
                    /\ HorizontalFlip
  BY DEF CanvasCleared, ColorReplaced, VerticalFlip, HorizontalFlip, Ended
<1>1. /\ DoneAtEnd
      /\ \A c \in Cells : canvas[c] = ram[c]
  BY DEF OpsInv, canvas
<1>2. CanvasCleared
  <2> SUFFICES ASSUME op.kind = "clear", op.alone, op.steady,
                      NEW c \in Cells \ {op.at}
               PROVE  canvas[c] = 0
    BY DEF CanvasCleared, Ended
  <2>1. Undisturbed /\ Sure(c) /\ Result(c) = 0
    BY DEF Undisturbed, Sure, Result, Fills, Flips
  <2> QED
    BY <1>1, <2>1 DEF DoneAtEnd
<1>3. ColorReplaced
  <2> SUFFICES ASSUME op.kind = "bucket", op.alone, op.steady,
                      NEW c \in Cells
               PROVE  canvas[c] =
                        IF op.pic[c] = IF c = op.at THEN op.before
                                       ELSE op.target
                        THEN op.colour ELSE op.pic[c]
    BY DEF ColorReplaced, Ended
  <2>1. Undisturbed /\ Sure(c)
    BY DEF Undisturbed, Sure, Fills, Flips
  <2> QED
    BY <1>1, <2>1 DEF DoneAtEnd, Result
<1>4. VerticalFlip
  <2> SUFFICES ASSUME op.kind = "flipv", op.alone, op.still,
                      NEW c \in Flipped
               PROVE  canvas[c] = op.pic[<<c[1], H - 1 - c[2]>>]
    BY DEF VerticalFlip, Ended
  <2>1. c \in Cells /\ Undisturbed /\ Axis = "y"
    BY DEF Flipped, Undisturbed, Fills, Flips, Axis
  <2>2. Sure(c)
    BY <2>1 DEF Flipped, Sure, Kept, Collides
  <2>3. Result(c) = op.pic[<<c[1], H - 1 - c[2]>>]
    BY <2>1 DEF Result, Src
  <2> QED
    BY <1>1, <2>1, <2>2, <2>3 DEF DoneAtEnd
<1>5. HorizontalFlip
  <2> SUFFICES ASSUME op.kind = "fliph", op.alone, op.still,
                      NEW c \in Flipped, 2 * c[1] # W
               PROVE  canvas[c] = op.pic[<<W - 2 - c[1], c[2]>>]
    BY DEF HorizontalFlip, Ended
  <2>1. c \in Cells /\ Undisturbed /\ Axis = "x"
    BY DEF Flipped, Undisturbed, Fills, Flips, Axis
  <2>2. Sure(c)
    BY <2>1 DEF Flipped, Sure, Kept, Collides
  <2>3. Result(c) = op.pic[<<W - 2 - c[1], c[2]>>]
    BY <2>1 DEF Result, Src
  <2> QED
    BY <1>1, <2>1, <2>2, <2>3 DEF DoneAtEnd
<1> QED
  BY <1>2, <1>3, <1>4, <1>5

(* Clear whitens the whole canvas, wherever the beam was when it started,  *)
(* if the reset key is left alone, the brush did not paint and the cursor  *)
(* stayed on the same side of the edge of the canvas in between: when the  *)
(* counter is back at zero every pixel is white, but for the one that was  *)
(* behind the beam at the click.                                           *)
THEOREM ClearClears == OpsSpec => []CanvasCleared
<1> QED
  BY EndsDone, OpsInitial, OpsStep, PTL DEF OpsSpec

(* The bucket, under the same conditions, turns exactly the pixels that    *)
(* had the colour under the cursor at the click into the colour chosen, and*)
(* leaves every other pixel as it was.  Two things the code adds are part  *)
(* of the statement: the colour is the one under the cursor if the beam has*)
(* passed there since the cursor came or the colour changed, and what the  *)
(* register holds before that; and the pixel behind the beam at the click  *)
(* is compared with the colour that the fill before replaced.              *)
THEOREM BucketReplaces == OpsSpec => []ColorReplaced
<1> QED
  BY EndsDone, OpsInitial, OpsStep, PTL DEF OpsSpec

(* Flip vertical, started on a picture that has been still for a frame and *)
(* left alone by the brush, turns the picture upside down, although it     *)
(* overwrites the canvas from which the mirror memory is being written:    *)
(* all columns but the last, which never reaches the memory.               *)
THEOREM FlipsVertically == OpsSpec => []VerticalFlip
<1> QED
  BY EndsDone, OpsInitial, OpsStep, PTL DEF OpsSpec

(* Flip horizontal, under the same conditions, mirrors every line at the   *)
(* middle of all columns but the last; the pixel read while it is written, *)
(* at half of an even width, is excepted.                                  *)
THEOREM FlipsHorizontally == OpsSpec => []HorizontalFlip
<1> QED
  BY EndsDone, OpsInitial, OpsStep, PTL DEF OpsSpec

=============================================================================
