------------------------------- MODULE Layout -------------------------------
(***************************************************************************)
(* The screen of PaintBrushr, in the pixel coordinates of Color_Mapper.sv: *)
(* its regions, the buttons as the click handler sees them, the swatches   *)
(* as the display sees them, and the three colour tables of the display.   *)
(* Every chain of else-ifs is a sequence of rows, the first match wins.    *)
(***************************************************************************)
EXTENDS Integers, Sequences

None == -1

(* Region tests on a point <<x, y>>.                                       *)
Inside(p, left, right, top, bottom) ==
  left <= p[1] /\ p[1] < right /\ top <= p[2] /\ p[2] < bottom

Canvas(p) == Inside(p, 100, 540, 100, 380)
Tools(p)  == Inside(p, 555, 625, 100, 305)
Logo(p)   == Inside(p, 100, 290, 10, 70)

(* Every button is a square of 30 pixels; a row is <<left, top, value>>.   *)
OnButton(p, row) == Inside(p, row[1], row[1] + 30, row[2], row[2] + 30)

(* The value of the first row of a chain whose square holds p.             *)
FirstMatch(chain, p, default) ==
  LET hits == {i \in DOMAIN chain : OnButton(p, chain[i])}
  IN  IF hits = {} THEN default
      ELSE chain[CHOOSE i \in hits : \A j \in hits : i <= j][3]

(* The colour a click picks.                                               *)
PickRows ==
  << <<55, 100, 0>>,  <<55, 135, 1>>,  <<15, 100, 2>>,  <<15, 135, 3>>,
     <<55, 170, 4>>,  <<55, 205, 5>>,  <<15, 170, 6>>,  <<15, 205, 7>>,
     <<55, 240, 8>>,  <<55, 275, 9>>,  <<15, 240, 10>>, <<15, 275, 11>>,
     <<55, 310, 12>>, <<55, 345, 13>>, <<15, 310, 14>>, <<15, 345, 15>> >>

(* A mutant: two colours of the chain are swapped.                         *)
PickAtSwapped(p) ==
  LET c == FirstMatch(PickRows, p, None)
  IN  IF c = 10 THEN 11 ELSE IF c = 11 THEN 10 ELSE c

PickAt(p) == FirstMatch(PickRows, p, None)

(* The tool a click selects.                                               *)
ToolRows ==
  << <<555, 100, "larger">>, <<595, 100, "smaller">>,
     <<555, 135, "circle">>, <<595, 135, "square">>,
     <<555, 170, "hline">>,  <<595, 170, "vline">>,
     <<555, 205, "random">>, <<595, 205, "bucket">>,
     <<555, 240, "eraser">>, <<595, 240, "clear">>,
     <<555, 275, "fliph">>,  <<595, 275, "flipv">> >>

ToolNames == {ToolRows[i][3] : i \in DOMAIN ToolRows}

ToolAt(p) == FirstMatch(ToolRows, p, "none")

-----------------------------------------------------------------------------
(* Colours as the 8-bit outputs hold them: a wider constant is truncated.  *)
Rgb(r, g, b) == <<r % 256, g % 256, b % 256>>

White     == Rgb(\hff, \hff, \hff)
DarkGrey  == Rgb(\h55, \h55, \h55)
Grey      == Rgb(\haa, \haa, \haa)
Black     == Rgb(\h00, \h00, \h00)
Red       == Rgb(\hff, \h00, \h00)
Green     == Rgb(\h00, \hff, \h00)
DarkRed   == Rgb(\h55, \h00, \h00)
DarkGreen == Rgb(\h00, \h55, \h00)
Blue      == Rgb(\h00, \h00, \hff)
Yellow    == Rgb(\hff, \hff, \h00)
DarkBlue  == Rgb(\h00, \h00, \h55)
Orange    == Rgb(\hff, \h55, \h00)
Magenta   == Rgb(\hff, \h00, \hff)
Cyan      == Rgb(\h00, \hff, \hff)
Purple    == Rgb(\h66, \h00, \h99)
Brown     == Rgb(\h99, \h33, \h00)
Desk      == Rgb(\h88, \h88, \h88)

(* The brush is drawn in the current colour.                               *)
BrushRGB(c) ==
  << White, DarkGrey, Grey, Black, Red, Green, DarkRed, DarkGreen,
     Blue, Yellow, DarkBlue, Orange, Magenta, Cyan, Purple, Brown >>[c + 1]

(* A canvas pixel, decoded from its high and its low two bits.             *)
CanvasRGB(c) ==
  LET ramOut2 == c \div 4
      ramOut  == c % 4
  IN  << <<White, DarkGrey, Grey, Black>>,
         <<Red, Green, DarkRed, DarkGreen>>,
         <<Blue, Yellow, DarkBlue, Orange>>,
         <<Magenta, Cyan, Purple, Brown>> >>[ramOut2 + 1][ramOut + 1]

(* The swatches; the constant 8'hf00 of the black one is three digits.     *)
SwatchRows ==
  << <<55, 100, White>>,   <<55, 135, DarkGrey>>, <<15, 100, Grey>>,
     <<15, 135, Rgb(\hf00, \h00, \h00)>>,
     <<55, 170, Red>>,     <<55, 205, Green>>,
     <<15, 170, DarkRed>>, <<15, 205, DarkGreen>>,
     <<55, 240, Blue>>,    <<55, 275, Yellow>>,
     <<15, 240, DarkBlue>>, <<15, 275, Orange>>,
     <<55, 310, Magenta>>, <<55, 345, Cyan>>,
     <<15, 310, Purple>>,  <<15, 345, Brown>> >>

NoSwatch == <<>>

SwatchAt(p) == FirstMatch(SwatchRows, p, NoSwatch)

=============================================================================
