---------------------------- MODULE Framebuffer -----------------------------
(***************************************************************************)
(* framebuffer.cpp: text, rectangles and scrolling on a linear             *)
(* framebuffer.  A pixel holds a colour or one dot of a glyph, <<glyph,    *)
(* row, column>>; character codes are numbers.  The screen has room for a  *)
(* line of text, and callers scroll by no more than its height: fb_scroll  *)
(* subtracts without looking.                                              *)
(***************************************************************************)
EXTENDS Integers, BootMachine

CONSTANTS
  Screens,                     \* [width, height] in pixels, as the loader may report them
  GlyphWidth, GlyphHeight,     \* 8 and 16
  FirstCode, LastCode,         \* 0x20 and 0x7E
  Codes,                       \* what fb_putchar is called with, besides \n, \r and \t
  Rects,                       \* [x, y, w, h] that fb_fill_rect is called with
  Scrolls,                     \* lines that fb_scroll is called with
  CoordMod                     \* uint32_t

ASSUME ScreenAssumption ==
  /\ GlyphWidth \in Nat \ {0} /\ GlyphHeight \in Nat \ {0} /\ CoordMod \in Nat \ {0}
  /\ \A s \in Screens : s.width \in Nat /\ s.height \in Nat /\ s.height >= GlyphHeight
  /\ \A r \in Rects : r.x \in Nat /\ r.y \in Nat /\ r.w \in Nat /\ r.h \in Nat
  /\ Scrolls \subseteq Nat

Black == 0
Boot == -1                     \* what the loader left on the screen
Paint == -2                    \* the colour that callers fill with
Solid(colour) == <<colour, 0, 0>>

VARIABLES
  kFb,                         \* the screen; NULL before framebuffer_init
  kFbCursorX, kFbCursorY,
  pixel,                       \* <<x, y>> -> what it holds
  text,                        \* history: upper left corner -> glyph, for the characters nothing has covered yet
  above                        \* history: where the line is that the last line feed left

screenVars == <<kFb, kFbCursorX, kFbCursorY, pixel, text, above>>

NoLine == GlyphHeight

ScreenInit ==
  /\ kFb = NULL /\ kFbCursorX = 0 /\ kFbCursorY = 0
  /\ pixel = <<>> /\ text = <<>> /\ above = NoLine

framebuffer_init(screen) ==
  /\ kFb = NULL
  /\ kFb' = screen
  /\ pixel' = [p \in (0..(screen.width - 1)) \X (0..(screen.height - 1)) |-> Solid(Boot)]
  /\ UNCHANGED <<kFbCursorX, kFbCursorY, text, above>>

-----------------------------------------------------------------------------
Box(x, y, w, h) == (x..(x + w - 1)) \X (y..(y + h - 1))
Cell(x, y) == Box(x, y, GlyphWidth, GlyphHeight)

(* The characters of f that keep clear of the pixels of S. *)
Clear(f, S) == [p \in {q \in DOMAIN f : Cell(q[1], q[2]) \cap S = {}} |-> f[p]]

(* put_pixel for every pixel that f has a value for; it leaves out what is *)
(* not on the screen.                                                      *)
put_pixel(f) == [p \in DOMAIN pixel |-> IF p \in DOMAIN f THEN f[p] ELSE pixel[p]]

fb_clear ==
  /\ kFb # NULL
  /\ pixel' = put_pixel([p \in DOMAIN pixel |-> Solid(Paint)])
  /\ text' = <<>>
  /\ UNCHANGED <<kFb, kFbCursorX, kFbCursorY, above>>

(* The end of the rectangle in one direction; the sum is a uint32_t. *)
End(from, length, limit) ==
  LET end == (from + length) % CoordMod IN IF end > limit THEN limit ELSE end

fb_fill_rect(r) ==
  /\ kFb # NULL
  /\ LET x_end == End(r.x, r.w, kFb.width)
         y_end == End(r.y, r.h, kFb.height)
     IN  pixel' = put_pixel([p \in (r.x..(x_end - 1)) \X (r.y..(y_end - 1)) |-> Solid(Paint)])
  /\ text' = Clear(text, Box(r.x, r.y, r.w, r.h))
  /\ UNCHANGED <<kFb, kFbCursorX, kFbCursorY, above>>

(* The rows move up, the vacated ones turn black. *)
Scrolled(px, lines) ==
  [p \in DOMAIN px |-> IF p[2] + lines < kFb.height THEN px[<<p[1], p[2] + lines>>] ELSE Solid(Black)]

(* Characters that leave at the top are no longer whole. *)
MovedUp(f, lines) ==
  [p \in {<<q[1], q[2] - lines>> : q \in {c \in DOMAIN f : c[2] >= lines}} |-> f[<<p[1], p[2] + lines>>]]

fb_scroll(lines) ==
  /\ kFb # NULL /\ lines # 0 /\ lines <= kFb.height
  /\ pixel' = Scrolled(pixel, lines)
  /\ text' = MovedUp(text, lines)
  /\ above' = NoLine
  /\ UNCHANGED <<kFb, kFbCursorX, kFbCursorY>>

-----------------------------------------------------------------------------
(* fb_putchar; fb_write calls it for one character after another. *)

AtBottom_Early(y) == y + GlyphHeight >= kFb.height
AtBottom(y) == y + GlyphHeight > kFb.height

(* The cursor goes to the next line, the screen scrolls when it is full.   *)
(* px, f: the pixels and the characters with those of this call.           *)
NextLine(px, f) ==
  LET y == kFbCursorY + GlyphHeight
      full == AtBottom(y)
  IN  /\ kFbCursorX' = 0
      /\ kFbCursorY' = IF full THEN kFb.height - GlyphHeight ELSE y
      /\ pixel' = IF full THEN Scrolled(px, GlyphHeight) ELSE px
      /\ text' = IF full THEN MovedUp(f, GlyphHeight) ELSE f
      /\ above' = IF full THEN kFbCursorY - GlyphHeight ELSE kFbCursorY

fb_putchar_Newline == kFb # NULL /\ NextLine(pixel, text) /\ UNCHANGED kFb

fb_putchar_Return ==
  /\ kFb # NULL
  /\ kFbCursorX' = 0
  /\ UNCHANGED <<kFb, kFbCursorY, pixel, text, above>>

(* Four cells on; nobody looks for the right edge. *)
fb_putchar_Tab ==
  /\ kFb # NULL
  /\ kFbCursorX' = (((kFbCursorX + 4 * GlyphWidth) % CoordMod) \div GlyphWidth) * GlyphWidth
  /\ UNCHANGED <<kFb, kFbCursorY, pixel, text, above>>

Printable == FirstCode..LastCode

(* Codes that are not printable count as a space. *)
Shown(code) == IF code \in Printable THEN code ELSE FirstCode

(* The rows of the font: row 0 is the glyph of FirstCode, the rows behind  *)
(* the one of LastCode are zero.                                           *)
kFont8x16(row) == IF row + FirstCode <= LastCode THEN row + FirstCode ELSE Black

Dot(glyph, row, col) == IF glyph = Black THEN Solid(Black) ELSE <<glyph, row, col>>

Drawn(glyph) ==
  put_pixel([p \in Cell(kFbCursorX, kFbCursorY) |-> Dot(glyph, p[2] - kFbCursorY, p[1] - kFbCursorX)])

Typed(glyph) ==
  LET at == <<kFbCursorX, kFbCursorY>>
      f  == Clear(text, Cell(kFbCursorX, kFbCursorY))
  IN  IF kFbCursorX >= kFb.width THEN text
      ELSE [p \in DOMAIN f \cup {at} |-> IF p = at THEN glyph ELSE f[p]]

(* The row of the font is taken by the code itself. *)
fb_putchar(code) ==
  /\ kFb # NULL
  /\ LET g == kFont8x16(Shown(code))
         x == (kFbCursorX + GlyphWidth) % CoordMod
     IN  IF (x + GlyphWidth) % CoordMod > kFb.width
         THEN NextLine(Drawn(g), Typed(g))
         ELSE /\ kFbCursorX' = x
              /\ pixel' = Drawn(g) /\ text' = Typed(g)
              /\ UNCHANGED <<kFbCursorY, above>>
  /\ UNCHANGED kFb

ScreenNext ==
  \/ \E s \in Screens : framebuffer_init(s)
  \/ fb_clear
  \/ \E r \in Rects : fb_fill_rect(r)
  \/ \E n \in Scrolls : fb_scroll(n)
  \/ fb_putchar_Newline \/ fb_putchar_Return \/ fb_putchar_Tab
  \/ \E c \in Codes : fb_putchar(c)

-----------------------------------------------------------------------------
(* Characters stay whole on the screen until something is put over them or *)
(* they leave at the top: lines of text do not overlap, also where the     *)
(* height is no multiple of a line's, and a rectangle covers no more than  *)
(* it should.  The cursor's line is on the screen, and so is the line that *)
(* a line feed has just left, if the screen has room for two.              *)
TextShown ==
  kFb # NULL =>
    /\ \A p \in DOMAIN text : \A d \in Cell(p[1], p[2]) \cap DOMAIN pixel :
         pixel[d] = Dot(text[p], d[2] - p[2], d[1] - p[1])
    /\ kFbCursorY + GlyphHeight <= kFb.height
    /\ kFb.height >= 2 * GlyphHeight => above >= 0

(* framebuffer.cpp: "8x16 bitmap (VGA-compatible glyphs 0x20-0x7E)".  A    *)
(* printable character is shown with its own glyph.                        *)
GlyphIsOwn == \A c \in Printable : kFont8x16(c) = c
=============================================================================
