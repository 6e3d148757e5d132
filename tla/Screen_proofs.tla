--------------------------- MODULE Screen_proofs ----------------------------
(***************************************************************************)
(* What comes out of the video connector: the timing of the                *)
(* synchronisation pulses, for every raster and every choice of the pulse  *)
(* constants that SyncAssumption admits, and the sprites and swatches      *)
(* around the canvas, which both read the counters of module Raster.       *)
(***************************************************************************)
EXTENDS Display, WellFoundedInduction, TLAPS

USE DEF RasterTypeOK, VGATypeOK

(* What the proofs need of VGASpec, and what DisplaySpec has of it.        *)
VGASafe == VGAInit /\ [][VGANext]_vgaVars

LEMMA TypeStep == VGATypeOK /\ [VGANext]_vgaVars => VGATypeOK'
<1> SUFFICES ASSUME VGATypeOK, [VGANext]_vgaVars PROVE VGATypeOK'
  OBVIOUS
<1>1. CASE PixelEdge
  BY <1>1, RasterAssumption DEF PixelEdge, CounterProc, HSyncProc, VSyncProc
<1>2. CASE HalfEdge
  BY <1>2 DEF HalfEdge
<1>3. CASE Reset
  BY <1>3, RasterAssumption DEF Reset
<1>4. CASE UNCHANGED vgaVars
  BY <1>4 DEF vgaVars
<1> QED
  BY <1>1, <1>2, <1>3, <1>4 DEF VGANext, Clk

(* The counters stay inside the raster and the registers stay bits.        *)
THEOREM TypeCorrect == VGASafe => []VGATypeOK
<1>1. VGAInit => VGATypeOK
  BY RasterAssumption DEF VGAInit, RasterInit
<1> QED
  BY <1>1, TypeStep, PTL DEF VGASafe

(* The horizontal pulse is low on exactly the pixels its comment names:    *)
(* the register delay of hsync_proc and its + 1 cancel.                    *)
THEOREM HSyncCorrect == VGASafe => []HSyncOnItsPixels
<1> USE DEF HSyncOnItsPixels, JustReset
<1>1. VGAInit => HSyncOnItsPixels
  BY DEF VGAInit, RasterInit
<1>2. /\ VGATypeOK /\ HSyncOnItsPixels
      /\ [VGANext]_vgaVars
      => HSyncOnItsPixels'
  <2> SUFFICES ASSUME VGATypeOK, HSyncOnItsPixels, [VGANext]_vgaVars
               PROVE  HSyncOnItsPixels'
    OBVIOUS
  <2>1. CASE PixelEdge
    <3>1. CASE hc = hpixels
      BY <2>1, <3>1, RasterAssumption, SyncAssumption
      DEF PixelEdge, CounterProc, HSyncProc
    <3>2. CASE hc # hpixels
      BY <2>1, <3>2, RasterAssumption, SyncAssumption
      DEF PixelEdge, CounterProc, HSyncProc
    <3> QED
      BY <3>1, <3>2
  <2>2. CASE HalfEdge
    BY <2>2 DEF HalfEdge
  <2>3. CASE Reset
    BY <2>3 DEF Reset
  <2>4. CASE UNCHANGED vgaVars
    BY <2>4 DEF vgaVars
  <2> QED
    BY <2>1, <2>2, <2>3, <2>4 DEF VGANext, Clk
<1> QED
  BY <1>1, <1>2, TypeCorrect, PTL DEF VGASafe

(* Where the vertical pulse is: two lines of pixel clocks, but early by a  *)
(* line and late by a pixel.                                               *)
VSyncTwoLines ==
  ~JustReset =>
    (vs = 0 <=> \/ vc = VSyncLine - 1 /\ hc > 0
                \/ vc = VSyncLine
                \/ vc = VSyncLine + 1 /\ hc = 0)

(* The vertical pulse is exactly two lines of pixel clocks long, from one  *)
(* pixel into the line before VSyncLine: what VSyncOnItsLines, and the     *)
(* comment of vsync_proc, miss in every raster.                            *)
THEOREM VSyncIsEarly == VGASafe => []VSyncTwoLines
<1> USE DEF VSyncTwoLines, JustReset
<1>1. VGAInit => VSyncTwoLines
  BY DEF VGAInit, RasterInit
<1>2. /\ VGATypeOK /\ VSyncTwoLines
      /\ [VGANext]_vgaVars
      => VSyncTwoLines'
  <2> SUFFICES ASSUME VGATypeOK, VSyncTwoLines, [VGANext]_vgaVars
               PROVE  VSyncTwoLines'
    OBVIOUS
  <2>1. CASE PixelEdge
    <3>1. CASE hc = hpixels /\ vc = vlines
      BY <2>1, <3>1, RasterAssumption, SyncAssumption
      DEF PixelEdge, CounterProc, VSyncProc
    <3>2. CASE hc = hpixels /\ vc # vlines
      BY <2>1, <3>2, RasterAssumption, SyncAssumption
      DEF PixelEdge, CounterProc, VSyncProc
    <3>3. CASE hc # hpixels
      BY <2>1, <3>3, RasterAssumption, SyncAssumption
      DEF PixelEdge, CounterProc, VSyncProc
    <3> QED
      BY <3>1, <3>2, <3>3
  <2>2. CASE HalfEdge
    BY <2>2 DEF HalfEdge
  <2>3. CASE Reset
    BY <2>3 DEF Reset
  <2>4. CASE UNCHANGED vgaVars
    BY <2>4 DEF vgaVars
  <2> QED
    BY <2>1, <2>2, <2>3, <2>4 DEF VGANext, Clk
<1> QED
  BY <1>1, <1>2, TypeCorrect, PTL DEF VGASafe

(* No pulse falls on a displayed pixel.                                    *)
THEOREM PictureNeverBlanked == VGASafe => []SyncOutsidePicture
<1>1. VGATypeOK /\ HSyncOnItsPixels /\ VSyncTwoLines => SyncOutsidePicture
  BY SyncAssumption
  DEF HSyncOnItsPixels, VSyncTwoLines, SyncOutsidePicture, Display, JustReset
<1> QED
  BY <1>1, TypeCorrect, HSyncCorrect, VSyncIsEarly, PTL

-----------------------------------------------------------------------------
(* The screen with its sprites is driven by the controller: what has been  *)
(* proved of the one holds of the other.                                   *)
LEMMA DisplayStep == [DisplayNext]_displayVars => [VGANext]_vgaVars
  BY DEF DisplayNext, DisplayClk, DisplayReset, displayVars, VGANext, Clk

(* Pulses and picture as above, for the whole screen.                      *)
THEOREM ScreenKeepsTime ==
  DisplaySpec => [](HSyncOnItsPixels /\ SyncOutsidePicture)
<1>1. DisplayInit => VGAInit BY DEF DisplayInit
<1>2. DisplaySpec => VGASafe
  BY <1>1, DisplayStep, PTL DEF DisplaySpec, VGASafe
<1> QED
  BY <1>2, HSyncCorrect, PictureNeverBlanked, PTL

(* The word that waits in a sprite memory at each place of the raster: in  *)
(* a row of the sprite this pixel's, and after the falling edge the next   *)
(* pixel's; beside the row the first of the next row.  Without it          *)
(* SpritesAligned is not inductive, the output follows the word read one   *)
(* falling edge later.                                                     *)
LogoWord(n) == Word(n, LogoWords)
ToolWord(n) == Word(n, ToolWords)

LogoAhead ==
  /\ vc \in 10 .. 69 /\ hc \in 100 .. 289
       /\ (clkdiv = 1 => Beam # <<100, 10>>) =>
       romRead = LogoWord((vc - 10) * 190 + (hc - 100) + (1 - clkdiv))
  /\ vc \in 10 .. 68 /\ hc >= 290 => romRead = LogoWord((vc - 9) * 190)
  /\ vc \in 11 .. 69 /\ hc < 100 => romRead = LogoWord((vc - 10) * 190)

ToolsAhead ==
  /\ vc \in 100 .. 304 /\ hc \in 555 .. 624
       /\ (clkdiv = 1 => Beam # <<555, 100>>) =>
       romRead2 = ToolWord((vc - 100) * 70 + (hc - 555) + (1 - clkdiv))
  /\ vc \in 100 .. 303 /\ hc >= 625 => romRead2 = ToolWord((vc - 99) * 70)
  /\ vc \in 101 .. 304 /\ hc < 555 => romRead2 = ToolWord((vc - 100) * 70)

LogoAligned ==
  clkdiv = 0 /\ Logo(Beam) /\ Beam # <<100, 10>> =>
    romOut = LogoWord((vc - 10) * 190 + (hc - 100))

ToolsAligned ==
  clkdiv = 0 /\ Tools(Beam) /\ Beam # <<555, 100>> =>
    romOut2 = ToolWord((vc - 100) * 70 + (hc - 555))

(* The invariant of the sprite memories.                                   *)
SpriteInv ==
  VGATypeOK /\ LogoAhead /\ ToolsAhead /\ LogoAligned /\ ToolsAligned

(* Each pixel of the logo has a word.                                      *)
LEMMA SpritesFollow == SpriteInv => SpritesAligned
<1>1. \A row \in 0 .. 59, col \in 0 .. 189 :
        LogoWord(row * 190 + col) = row * 190 + col
  <2> SUFFICES ASSUME NEW row \in 0 .. 59, NEW col \in 0 .. 189
               PROVE  LogoWord(row * 190 + col) = row * 190 + col
    OBVIOUS
  <2>1. row * 190 + col < 60 * 190 OBVIOUS
  <2>2. row * 190 + col < LogoWords BY <2>1, SpriteAssumption
  <2> QED BY <2>2 DEF LogoWord, Word
<1>2. ASSUME SpriteInv, Logo(Beam)
      PROVE  vc - 10 \in 0 .. 59 /\ hc - 100 \in 0 .. 189
  BY <1>2 DEF SpriteInv, Logo, Beam, Inside
<1>3. ASSUME SpriteInv, Logo(Beam), clkdiv = 0, Beam # <<100, 10>>
      PROVE  romOut = (vc - 10) * 190 + (hc - 100)
  BY <1>1, <1>2, <1>3 DEF SpriteInv, LogoAligned
<1>4. ASSUME SpriteInv, Tools(Beam), clkdiv = 0, Beam # <<555, 100>>
      PROVE  LET own == (vc - 100) * 70 + (hc - 555) IN
             IF own < ToolWords THEN romOut2 = own ELSE romOut2 = NoWord
  BY <1>4 DEF SpriteInv, ToolsAligned, ToolWord, Word
<1> QED BY <1>3, <1>4 DEF SpritesAligned

(* No memory has been read yet, and the beam is left of every region; so   *)
(* it is after a reset.                                                    *)
LEMMA AtOrigin ==
  ASSUME hc = 0, vc = 0
  PROVE  LogoAhead /\ ToolsAhead /\ LogoAligned /\ ToolsAligned
  BY DEF LogoAhead, ToolsAhead, LogoAligned, ToolsAligned, Beam, Logo,
         Tools, Inside

LEMMA SpriteStarts == DisplayInit => SpriteInv
  BY AtOrigin, RasterAssumption
  DEF DisplayInit, VGAInit, RasterInit, SpriteInv

(* The address asked for in the last pixel of a sprite is still one of     *)
(* those a memory can tell, so the truncation to its width changes nothing.*)
LEMMA LogoFits ==
  \A row \in 0 .. 59, col \in 0 .. 189 :
    row * 190 + col + 1 \in 0 .. SpriteSpan - 1
  BY SpriteAssumption, 205 * 70 = 14350

(* The same for the tool buttons.                                          *)
LEMMA ToolsFit ==
  \A row \in 0 .. 204, col \in 0 .. 69 :
    row * 70 + col + 1 \in 0 .. SpriteSpan - 1
  BY SpriteAssumption, 205 * 70 = 14350

(* What the addresses are inside the regions.                              *)
LEMMA LogoAddress ==
  ASSUME VGATypeOK, Logo(Beam)
  PROVE  romAddrRead = (vc - 10) * 190 + (hc - 100) + 1
<1>1. hc \in 100 .. 289 /\ vc \in 10 .. 69 BY DEF Logo, Beam, Inside
<1>2. yLogoOffset % 512 = vc - 10 /\ xOffset % 512 = hc - 100
  BY <1>1 DEF yLogoOffset, xOffset
<1> DEFINE a == (vc - 10) * 190 + (hc - 100) + 1
<1>3. vc - 10 \in 0 .. 59 /\ hc - 100 \in 0 .. 189 BY <1>1
<1>4. a \in 0 .. SpriteSpan - 1 BY <1>3, LogoFits
<1>5. a % SpriteSpan = a
  <2> HIDE DEF a
  <2> QED BY <1>4, SpriteAssumption
<1> QED BY <1>2, <1>5 DEF romAddrRead

LEMMA ToolsAddress ==
  ASSUME VGATypeOK, Tools(Beam)
  PROVE  romAddrRead2 = (vc - 100) * 70 + (hc - 555) + 1
<1>1. hc \in 555 .. 624 /\ vc \in 100 .. 304 BY DEF Tools, Beam, Inside
<1>2. yOffset % 512 = vc - 100 /\ xToolOffset % 512 = hc - 555
  BY <1>1 DEF yOffset, xToolOffset
<1> DEFINE a == (vc - 100) * 70 + (hc - 555) + 1
<1>3. vc - 100 \in 0 .. 204 /\ hc - 555 \in 0 .. 69 BY <1>1
<1>4. a \in 0 .. SpriteSpan - 1 BY <1>3, ToolsFit
<1>5. a % SpriteSpan = a
  <2> HIDE DEF a
  <2> QED BY <1>4, SpriteAssumption
<1> QED BY <1>2, <1>5 DEF romAddrRead2

(* A rising edge: the beam moves on, the word of its pixel waits.          *)
LEMMA PixelStep ==
  ASSUME SpriteInv, PixelEdge, UNCHANGED romVars
  PROVE  LogoAhead' /\ ToolsAhead' /\ LogoAligned' /\ ToolsAligned'
<1> USE RasterAssumption, SpriteAssumption DEF SpriteInv
<1>1. clkdiv = 0 /\ clkdiv' = 1 /\ CounterProc BY DEF PixelEdge
<1>2. romRead' = romRead /\ romRead2' = romRead2 BY DEF romVars
<1>3. LogoAligned' /\ ToolsAligned' BY <1>1 DEF LogoAligned, ToolsAligned
<1>4. CASE hc = hpixels
  <2>1. hc' = 0 /\ (vc' = 0 \/ vc' = vc + 1) BY <1>1, <1>4 DEF CounterProc
  <2>2. LogoAhead' BY <1>2, <1>4, <2>1 DEF LogoAhead
  <2>3. ToolsAhead' BY <1>2, <1>4, <2>1 DEF ToolsAhead
  <2> QED BY <1>3, <2>2, <2>3
<1>5. CASE hc # hpixels
  <2>1. hc' = hc + 1 /\ vc' = vc BY <1>1, <1>5 DEF CounterProc
  <2>2. LogoAhead'
    <3>1. hc' \in 100 .. 289 => hc = 99 \/ hc \in 100 .. 288 BY <2>1
    <3>2. hc = 99 => (vc' - 10) * 190 + (hc' - 100) + (1 - clkdiv')
                       = (vc - 10) * 190
      BY <1>1, <2>1
    <3>3. (vc' - 10) * 190 + (hc' - 100) + (1 - clkdiv')
            = (vc - 10) * 190 + (hc - 100) + (1 - clkdiv)
      BY <1>1, <2>1
    <3>4. hc = 289 => (vc - 10) * 190 + (hc - 100) + (1 - clkdiv)
                        = (vc - 9) * 190
      BY <1>1
    <3> QED
      BY <1>1, <1>2, <2>1, <3>1, <3>2, <3>3, <3>4 DEF LogoAhead, Beam
  <2>3. ToolsAhead'
    <3>1. hc' \in 555 .. 624 => hc = 554 \/ hc \in 555 .. 623 BY <2>1
    <3>2. hc = 554 => (vc' - 100) * 70 + (hc' - 555) + (1 - clkdiv')
                       = (vc - 100) * 70
      BY <1>1, <2>1
    <3>3. (vc' - 100) * 70 + (hc' - 555) + (1 - clkdiv')
            = (vc - 100) * 70 + (hc - 555) + (1 - clkdiv)
      BY <1>1, <2>1
    <3>4. hc = 624 => (vc - 100) * 70 + (hc - 555) + (1 - clkdiv)
                        = (vc - 99) * 70
      BY <1>1
    <3> QED
      BY <1>1, <1>2, <2>1, <3>1, <3>2, <3>3, <3>4 DEF ToolsAhead, Beam
  <2> QED BY <1>3, <2>2, <2>3
<1> QED BY <1>4, <1>5

(* A falling edge: the word that waited goes to the output, and inside the *)
(* region the next one is read.                                            *)
LEMMA HalfStep ==
  ASSUME SpriteInv, HalfEdge, LogoSpriteEdge, ToolSpriteEdge
  PROVE  LogoAhead' /\ ToolsAhead' /\ LogoAligned' /\ ToolsAligned'
<1> USE DEF SpriteInv
<1>1. clkdiv = 1 /\ clkdiv' = 0 /\ hc' = hc /\ vc' = vc /\ Beam' = Beam
  BY DEF HalfEdge, Beam
<1>2. Logo(Beam) <=> hc \in 100 .. 289 /\ vc \in 10 .. 69
  BY DEF Logo, Beam, Inside
<1>3. Tools(Beam) <=> hc \in 555 .. 624 /\ vc \in 100 .. 304
  BY DEF Tools, Beam, Inside
<1>4. Logo(Beam) =>
        romRead' = LogoWord((vc - 10) * 190 + (hc - 100) + (1 - clkdiv'))
  BY <1>1, LogoAddress DEF LogoSpriteEdge, LogoWord
<1>5. Tools(Beam) =>
        romRead2' = ToolWord((vc - 100) * 70 + (hc - 555) + (1 - clkdiv'))
  BY <1>1, ToolsAddress DEF ToolSpriteEdge, ToolWord
<1>6. LogoAhead'
  BY <1>1, <1>2, <1>4 DEF LogoAhead, LogoSpriteEdge
<1>7. ToolsAhead'
  BY <1>1, <1>3, <1>5 DEF ToolsAhead, ToolSpriteEdge
<1>8. (vc - 10) * 190 + (hc - 100) + (1 - clkdiv) = (vc - 10) * 190 + (hc - 100)
      /\ (vc - 100) * 70 + (hc - 555) + (1 - clkdiv)
           = (vc - 100) * 70 + (hc - 555)
  BY <1>1
<1>9. LogoAligned'
  <2>1. romOut' = romRead BY DEF LogoSpriteEdge
  <2>2. Logo(Beam)' = Logo(Beam) BY <1>1 DEF Logo, Inside
  <2> QED BY <1>1, <1>2, <1>8, <2>1, <2>2 DEF LogoAhead, LogoAligned
<1>10. ToolsAligned'
  <2>1. romOut2' = romRead2 BY DEF ToolSpriteEdge
  <2>2. Tools(Beam)' = Tools(Beam) BY <1>1 DEF Tools, Inside
  <2> QED BY <1>1, <1>3, <1>8, <2>1, <2>2 DEF ToolsAhead, ToolsAligned
<1> QED BY <1>6, <1>7, <1>9, <1>10

(* When its colour is taken, each sprite pixel shows the word of its own,  *)
(* if it has one (see SpritesAligned), in a raster of any height, with     *)
(* tools' memories of any size and resets at any pixel.                    *)
THEOREM SpritesStayAligned == DisplaySpec => []SpritesAligned
<1>1. SpriteInv /\ [DisplayNext]_displayVars => SpriteInv'
  <2> SUFFICES ASSUME SpriteInv, [DisplayNext]_displayVars PROVE SpriteInv'
    OBVIOUS
  <2>1. VGATypeOK' BY DisplayStep, TypeStep DEF SpriteInv
  <2>2. CASE PixelEdge /\ UNCHANGED romVars
    BY <2>1, <2>2, PixelStep DEF SpriteInv
  <2>3. CASE HalfEdge /\ LogoSpriteEdge /\ ToolSpriteEdge
    BY <2>1, <2>3, HalfStep DEF SpriteInv
  <2>4. CASE DisplayReset
    <3>1. hc' = 0 /\ vc' = 0 BY <2>4 DEF DisplayReset, Reset
    <3>2. LogoAhead' /\ ToolsAhead' /\ LogoAligned' /\ ToolsAligned'
      BY <3>1 DEF LogoAhead, ToolsAhead, LogoAligned, ToolsAligned, Beam,
                  Logo, Tools, Inside
    <3> QED BY <2>1, <3>2 DEF SpriteInv
  <2>5. CASE UNCHANGED displayVars
    BY <2>1, <2>5
    DEF displayVars, vgaVars, romVars, SpriteInv, LogoAhead, ToolsAhead,
        LogoAligned, ToolsAligned, Beam
  <2> QED BY <2>2, <2>3, <2>4, <2>5 DEF DisplayNext, DisplayClk
<1> QED
  BY SpriteStarts, SpritesFollow, <1>1, PTL DEF DisplaySpec

-----------------------------------------------------------------------------
(* The rows of a chain of sixteen else-ifs, those that hold a point, and   *)
(* the first of a set of rows.                                             *)
Chain == 1 .. 16

Hits(rows, p) == {i \in DOMAIN rows : OnButton(p, rows[i])}

First(S) == CHOOSE i \in S : \A j \in S : i <= j

(* The chain answers with its first row that holds the point.              *)
LEMMA FirstOfHits ==
  ASSUME NEW rows, NEW p, NEW default
  PROVE  FirstMatch(rows, p, default) =
           IF Hits(rows, p) = {} THEN default
           ELSE rows[First(Hits(rows, p))][3]
  BY DEF FirstMatch, Hits, First

(* The click handler and the display test the same squares, in the same    *)
(* order.                                                                  *)
LEMMA SameSquares ==
  \A i \in Chain :
    PickRows[i][1] = SwatchRows[i][1] /\ PickRows[i][2] = SwatchRows[i][2]
  BY DEF Chain, PickRows, SwatchRows

(* Row by row, the swatch has the colour of the brush and of the canvas;   *)
(* the black one is the truncated constant 8'hf00.                         *)
LEMMA SameColours ==
  \A i \in Chain :
    /\ PickRows[i][3] = i - 1
    /\ SwatchRows[i][3] = BrushRGB(i - 1)
    /\ SwatchRows[i][3] = CanvasRGB(i - 1)
<1> SUFFICES ASSUME NEW i \in Chain
             PROVE  /\ PickRows[i][3] = i - 1
                    /\ SwatchRows[i][3] = BrushRGB(i - 1)
                    /\ SwatchRows[i][3] = CanvasRGB(i - 1)
  OBVIOUS
<1>1. PickRows[i][3] = i - 1
  BY DEF Chain, PickRows
<1>2. SwatchRows[i][3] = BrushRGB(i - 1)
  <2>1. Rgb(\hf00, \h00, \h00) = Black
    BY DEF Rgb, Black
  <2> QED
    BY <2>1 DEF Chain, SwatchRows, BrushRGB
<1>3. BrushRGB(i - 1) = CanvasRGB(i - 1)
  BY DEF Chain, BrushRGB, CanvasRGB
<1> QED  BY <1>1, <1>2, <1>3

(* A chain in which some row matches has a first row that does.            *)
LEMMA LeastHit ==
  ASSUME NEW S \in SUBSET Chain, S # {}
  PROVE  \E i \in S : \A j \in S : i <= j
<1>1. S \subseteq Nat
  BY DEF Chain
<1>2. PICK i \in S : \A j \in S : ~(<<j, i>> \in OpToRel(<, Nat))
  BY <1>1, NatLessThanWellFounded, WFMin, Zenon
<1>3. ASSUME NEW j \in S PROVE i <= j
  <2>1. ~(j < i)
    BY <1>1, <1>2 DEF OpToRel
  <2> QED  BY <1>1, <2>1
<1> QED  BY <1>3

(* A point is in the same rows of both chains.                             *)
LEMMA SameHits ==
  /\ DOMAIN PickRows = Chain /\ DOMAIN SwatchRows = Chain
  /\ \A p : Hits(PickRows, p) = Hits(SwatchRows, p)
<1>1. DOMAIN PickRows = Chain /\ DOMAIN SwatchRows = Chain
  BY DEF PickRows, SwatchRows, Chain
<1>2. ASSUME NEW p PROVE Hits(PickRows, p) = Hits(SwatchRows, p)
  BY <1>1, SameSquares DEF Hits, OnButton
<1> QED  BY <1>1, <1>2

(* Both chains miss, or both answer with the same row.                     *)
LEMMA OneAnswer ==
  ASSUME NEW p
  PROVE  \/ PickAt(p) = None /\ SwatchAt(p) = NoSwatch
         \/ \E i \in Chain : /\ PickAt(p) = PickRows[i][3]
                             /\ SwatchAt(p) = SwatchRows[i][3]
<1> DEFINE hits == Hits(PickRows, p)
<1>1. /\ PickAt(p) = IF hits = {} THEN None ELSE PickRows[First(hits)][3]
      /\ SwatchAt(p) =
           IF hits = {} THEN NoSwatch ELSE SwatchRows[First(hits)][3]
  <2>1. PickAt(p) = IF hits = {} THEN None ELSE PickRows[First(hits)][3]
    BY FirstOfHits DEF PickAt
  <2> DEFINE seen == Hits(SwatchRows, p)
  <2>2. SwatchAt(p) =
          IF seen = {} THEN NoSwatch ELSE SwatchRows[First(seen)][3]
    BY FirstOfHits DEF SwatchAt
  <2>3. hits = seen
    BY SameHits
  <2> HIDE DEF hits, seen
  <2> QED  BY <2>1, <2>2, <2>3
<1>2. ASSUME hits # {} PROVE First(hits) \in Chain
  <2>1. hits \in SUBSET Chain
    BY SameHits DEF Hits
  <2>2. PICK i \in hits : \A j \in hits : i <= j
    BY <1>2, <2>1, LeastHit
  <2>3. First(hits) \in hits
    BY <2>2 DEF First
  <2> QED  BY <2>1, <2>3
<1> HIDE DEF hits
<1> QED  BY <1>1, <1>2

(* So the two chains agree at every point, on the screen or off it.        *)
LEMMA PickedIsSeen == PickIsWhatYouSee
<1>1. CASE PickAt(Beam) = None /\ SwatchAt(Beam) = NoSwatch
  BY <1>1 DEF PickIsWhatYouSee
<1>2. ASSUME NEW i \in Chain,
             PickAt(Beam) = PickRows[i][3], SwatchAt(Beam) = SwatchRows[i][3]
      PROVE  PickIsWhatYouSee
  <2>1. PickAt(Beam) = i - 1 /\ i - 1 # None
    BY <1>2, SameColours DEF Chain, None
  <2>2. SwatchAt(Beam) = BrushRGB(i - 1) /\ SwatchAt(Beam) = CanvasRGB(i - 1)
    BY <1>2, SameColours
  <2> QED  BY <2>1, <2>2 DEF PickIsWhatYouSee
<1> QED  BY <1>1, <1>2, OneAnswer

(* What you click is what you see, wherever the beam is: the Cursor and    *)
(* the Draw chain of Color_Mapper.sv give the same colour at every pixel.  *)
THEOREM PickedIsAlwaysSeen == DisplaySpec => []PickIsWhatYouSee
  BY PickedIsSeen, PTL

=============================================================================
