------------------------------ MODULE Display -------------------------------
(***************************************************************************)
(* The sprite memories of lab8.sv (logoSprite, toolSprite) and what the    *)
(* screen shows around the canvas.  The memories are clocked on the        *)
(* falling edge of the pixel clock and answer two edges later, so lab8.sv  *)
(* asks for the word of the next pixel.  A step is an edge of the 50 MHz   *)
(* clock, as in VGAController, or the reset, which pulls the pixel clock   *)
(* down.  A memory word is modelled by its address.                        *)
(***************************************************************************)
EXTENDS VGAController, Layout

CONSTANTS
  SpriteSpan,  \* what the addresses of a sprite memory can tell: 2^14
  LogoWords,   \* the words of logoSprite: one for each pixel
  ToolWords,   \* the words of toolSprite: 11900, for 14350 pixels
  ResetAt      \* bound: the pixels at which the reset key goes down

(* A line goes on beyond the sprites.                                      *)
ASSUME SpriteAssumption ==
  /\ hpixels >= 625
  /\ SpriteSpan \in Nat /\ SpriteSpan > 205 * 70
  /\ LogoWords \in Nat /\ LogoWords >= 60 * 190
  /\ ToolWords \in Nat

VARIABLES
  romRead,  romOut,    \* logoSprite: the word read, the word at the output
  romRead2, romOut2    \* toolSprite

romVars == <<romRead, romOut, romRead2, romOut2>>
displayVars == <<vgaVars, romVars>>

(* The addresses, with their 9-bit and 14-bit truncations.                 *)
xOffset == (hc - 100) % 1024
yOffset == (vc - 100) % 1024
xToolOffset == (hc - 555) % 1024
yLogoOffset == (vc - 10) % 1024

romAddrRead ==
  ((yLogoOffset % 512) * 190 + (xOffset % 512) + 1) % SpriteSpan

romAddrRead2 ==
  ((yOffset % 512) * 70 + (xToolOffset % 512) + 1) % SpriteSpan

(* What a memory answers: a word of its own, or none that it was given.    *)
NoWord == -1
Word(address, words) == IF address < words THEN address ELSE NoWord

Beam == <<hc, vc>>

DisplayInit ==
  /\ VGAInit
  /\ romRead = 0 /\ romOut = 0
  /\ romRead2 = 0 /\ romOut2 = 0

(* A mutant: the enable of the last column is lost.                        *)
ToolSpriteEdgeShort ==
  /\ romRead2' = IF Tools(Beam) /\ hc # 624
                 THEN Word(romAddrRead2, ToolWords) ELSE romRead2
  /\ romOut2' = romRead2

(* The falling edge: a new word is read only inside the sprite's region,   *)
(* the last word read stays at the output until then.                      *)
LogoSpriteEdge ==
  /\ romRead' = IF Logo(Beam) THEN Word(romAddrRead, LogoWords) ELSE romRead
  /\ romOut' = romRead

ToolSpriteEdge ==
  /\ romRead2' = IF Tools(Beam) THEN Word(romAddrRead2, ToolWords)
                 ELSE romRead2
  /\ romOut2' = romRead2

DisplayClk ==
  \/ PixelEdge /\ UNCHANGED romVars
  \/ HalfEdge /\ LogoSpriteEdge /\ ToolSpriteEdge

(* The reset makes the pixel clock fall in the middle of a period, and the *)
(* memories see the counters before or after they have been cleared; at    *)
(* the origin neither is enabled.                                          *)
DisplayReset ==
  /\ Beam \in ResetAt /\ Reset
  /\ \/ clkdiv = 0 /\ UNCHANGED romVars
     \/ clkdiv = 1 /\ LogoSpriteEdge /\ ToolSpriteEdge
     \/ /\ clkdiv = 1 /\ romOut' = romRead /\ romOut2' = romRead2
        /\ UNCHANGED <<romRead, romRead2>>

DisplayNext == DisplayClk \/ DisplayReset

(* The board clock never stops.                                            *)
DisplaySpec ==
  DisplayInit /\ [][DisplayNext]_displayVars /\ WF_displayVars(DisplayClk)

-----------------------------------------------------------------------------
(* When the connector takes the colour of a pixel, at the end of its       *)
(* period, each sprite pixel is drawn from its own word, although nothing  *)
(* is read for the first column of a row: the address of the pixel after   *)
(* the last column is the first of the next row.  Only the corner pixel    *)
(* has no row before it.  What the tools' memory has no word for, the rows *)
(* of the flip buttons, is drawn from nothing.                             *)
SpritesAligned ==
  clkdiv = 0 =>
    /\ Logo(Beam) /\ Beam # <<100, 10>> =>
         romOut = (vc - 10) * 190 + (hc - 100)
    /\ Tools(Beam) /\ Beam # <<555, 100>> =>
         LET own == (vc - 100) * 70 + (hc - 555) IN
         IF own < ToolWords THEN romOut2 = own ELSE romOut2 = NoWord

(* What you click is what you see: at every pixel the colour a click picks *)
(* (the Cursor chain) is the colour displayed there (the Draw chain), and  *)
(* the brush and the canvas show that colour too.                          *)
PickIsWhatYouSee ==
  LET c == PickAt(Beam)
  IN  IF c = None THEN SwatchAt(Beam) = NoSwatch
      ELSE SwatchAt(Beam) = BrushRGB(c) /\ SwatchAt(Beam) = CanvasRGB(c)

=============================================================================
