------------------------------ MODULE Displays ------------------------------
(***************************************************************************)
(* drivers/st7789/st7789.c: a colour display over SPI.  The controller     *)
(* keeps a window, and pixels go to its cells row by row, from the first   *)
(* one again when it is full.  Any transfer may fail and ends the call.    *)
(*                                                                         *)
(* The picture of some panels does not start at the first cell of the      *)
(* controller's memory.  Where it starts is taken from the driver: how the *)
(* glass is wired to the cells is external.  A pixel is <<picture, index>>.*)
(***************************************************************************)
EXTENDS Integers, FiniteSets

CONSTANTS
  Panels,     \* the size of each kind of panel: "square", "round", "wide", "full" or another
  Gaps,       \* what the driver leaves free: 80 cells, 40, and 40 by 52
  Memory,     \* the cells that windows address
  Orientations,
  Pictures,
  Rects       \* the rectangles the application updates

(* _driver_st7789_configure_display: where the picture of a panel starts.  *)
Origin(kind, rotation) ==
  CASE kind = "square" -> [x |-> 0, y |-> IF rotation \in {180, 270} THEN Gaps.square ELSE 0]
    [] kind = "round" -> [x |-> 0, y |-> Gaps.round]
    [] kind = "wide" -> [x |-> Gaps.wide.x, y |-> Gaps.wide.y + IF rotation = 0 THEN 1 ELSE 0]
    [] OTHER -> [x |-> 0, y |-> 0]

ASSUME LcdAssumption ==
  /\ \A kind \in DOMAIN Panels : Panels[kind] \in [w : Nat \ {0}, h : Nat \ {0}]
  /\ Gaps \in [square : Nat, round : Nat, wide : [x : Nat, y : Nat]]
  /\ Memory \in [w : Nat \ {0}, h : Nat \ {0}]
  /\ 0 \in Orientations
  /\ \A kind \in DOMAIN Panels, rotation \in Orientations :
       /\ Origin(kind, rotation).x + Panels[kind].w <= Memory.w
       /\ Origin(kind, rotation).y + Panels[kind].h <= Memory.h
  /\ Rects \subseteq [x : Nat, y : Nat, w : Nat, h : Nat]

VARIABLES
  lcd,      \* the fields of driver_st7789_t, and whether it reset its controller
  view,     \* the window, the orientation and whether the display is on
  pixels,   \* the memory of the controller, as the orientation addresses it
  drawn     \* the last call that set up or drew, and how it ended

lcdVars == <<lcd, view, pixels, drawn>>

Dots == (0 .. Memory.w - 1) \X (0 .. Memory.h - 1)
Unknown == [dot \in Dots |-> <<0, 0>>]
In(rect, dot) ==
  /\ rect.x <= dot[1] /\ dot[1] < rect.x + rect.w
  /\ rect.y <= dot[2] /\ dot[2] < rect.y + rect.h

(* The cells of a whole panel.                                             *)
Screen(kind, rotation) ==
  [x |-> Origin(kind, rotation).x, y |-> Origin(kind, rotation).y,
   w |-> Panels[kind].w, h |-> Panels[kind].h]

NoRect == [x |-> 0, y |-> 0, w |-> 0, h |-> 0]
NothingDrawn == [op |-> "none", rect |-> NoRect, of |-> 0]
InvalidLcd == [valid |-> FALSE, kind |-> "none", rotation |-> 0, wired |-> FALSE, light |-> FALSE,
               reset |-> FALSE]

-----------------------------------------------------------------------------
(* _driver_st7789_send_command: of n commands in a row, with their data,   *)
(* some arrive before one fails.                                           *)
Arriving(n) == 0 .. n

(* The controller (external) after a reset: off, its window all of it.     *)
AfterReset == [rect |-> [x |-> 0, y |-> 0, w |-> Memory.w, h |-> Memory.h], rotation |-> -1, on |-> FALSE]

LcdInit ==
  /\ lcd = InvalidLcd
  /\ view = AfterReset
  /\ pixels = Unknown
  /\ drawn = NothingDrawn

(* The controller (external): what it holds when the first `sent` of the   *)
(* two commands of a window arrived.                                       *)
Windowed(old, rect, sent) ==
  [x |-> IF sent > 0 THEN rect.x ELSE old.x, w |-> IF sent > 0 THEN rect.w ELSE old.w,
   y |-> IF sent > 1 THEN rect.y ELSE old.y, h |-> IF sent > 1 THEN rect.h ELSE old.h]

(* Where a cell of the window comes in the row of its cells.               *)
Size(rect) == rect.w * rect.h
Index(rect, dot) == ((dot[2] - rect.y) * rect.w) + (dot[1] - rect.x)

(* Of `count` pixels sent to a window one came to a cell, and the last one *)
(* that did stays.                                                         *)
Reached(rect, count, dot) == In(rect, dot) /\ Index(rect, dot) < count
LastOf(rect, count, dot) ==
  Index(rect, dot) + (Size(rect) * ((count - 1 - Index(rect, dot)) \div Size(rect)))

-----------------------------------------------------------------------------

(* Mutation: a new orientation leaves the window as it is.                 *)
OrientedOnly(old, kind, rotation, sent) ==
  [old EXCEPT !.rotation = IF sent > 0 THEN rotation ELSE @]

(* _driver_st7789_configure_display: the orientation, then the window of   *)
(* the whole panel; `sent` of the three commands arrive.                   *)
Oriented(old, kind, rotation, sent) ==
  [old EXCEPT !.rotation = IF sent > 0 THEN rotation ELSE @,
              !.rect = Windowed(@, Screen(kind, rotation), sent - 1)]

SetUp == [NothingDrawn EXCEPT !.op = "configured"]

(* _driver_st7789_init_display resets the controller, by its pin and by a  *)
(* command, and sets it up: the display goes on (lit) before the three     *)
(* commands that configure it.  driver_st7789_init then lights the         *)
(* backlight.  Its pin and that of the reset are wired both or not at all. *)
LcdOpen(kind) ==
  /\ ~lcd.valid
  /\ \E lit, wired \in BOOLEAN : \E sent \in IF lit THEN Arriving(3) ELSE {0} :
       /\ view' = Oriented([AfterReset EXCEPT !.on = lit], kind, 0, sent)
       /\ IF sent = 3
          THEN /\ lcd' = [valid |-> TRUE, kind |-> kind, rotation |-> 0, wired |-> wired,
                          light |-> wired, reset |-> FALSE]
               /\ drawn' = SetUp
          ELSE lcd' = InvalidLcd /\ drawn' = NothingDrawn
  /\ pixels' = Unknown

(* There is no pin for the commands, or without a reset pin the first one  *)
(* is lost: a display that was on stays on.                                *)
LcdOpenFails ==
  /\ ~lcd.valid
  /\ drawn' = NothingDrawn /\ UNCHANGED <<lcd, view, pixels>>

(* driver_st7789_reset: the controller forgets its set-up, the driver not, *)
(* and the display stays off.  Without a pin nothing happens, where        *)
(* drivers_st7789.h:165-166 has a software reset.                          *)
LcdReset ==
  /\ lcd.valid
  /\ IF lcd.wired
     THEN view' = AfterReset /\ pixels' = Unknown /\ lcd' = [lcd EXCEPT !.reset = TRUE]
     ELSE UNCHANGED <<lcd, view, pixels>>
  /\ drawn' = NothingDrawn

(* driver_st7789_finalize.                                                 *)
LcdClose ==
  /\ lcd.valid
  /\ \E sent \in Arriving(1) : view' = [view EXCEPT !.on = @ /\ sent = 0]
  /\ lcd' = InvalidLcd /\ drawn' = NothingDrawn /\ UNCHANGED pixels

(* driver_st7789_set_rotation: what the memory holds is elsewhere from the *)
(* point of view of another orientation, and is not followed.              *)
SetRotation(rotation) ==
  /\ lcd.valid
  /\ lcd' = [lcd EXCEPT !.rotation = rotation]
  /\ \E sent \in Arriving(3) :
       /\ view' = Oriented(view, lcd.kind, rotation, sent)
       /\ drawn' = IF sent = 3 THEN SetUp ELSE NothingDrawn
       /\ pixels' = IF sent = 0 THEN pixels ELSE Unknown

(* driver_st7789_set_backlight.                                            *)
SetBacklight(bright) ==
  /\ lcd.valid
  /\ lcd' = IF lcd.wired THEN [lcd EXCEPT !.light = bright] ELSE lcd
  /\ UNCHANGED <<view, pixels, drawn>>

(* driver_st7789_fill: RAMWR and the pixels of a whole panel, or those     *)
(* that come through, to the window there is; a buffer for them may not be *)
(* had.                                                                    *)
Fill(colour) ==
  /\ lcd.valid
  /\ \E count \in {0, 1, Size(Panels[lcd.kind])} :  \* bound: of a transfer that fails, one pixel at most
       /\ pixels' = [dot \in Dots |->
                       IF Reached(view.rect, count, dot) THEN <<colour, 0>> ELSE pixels[dot]]
       /\ drawn' = [op |-> IF count = Size(Panels[lcd.kind]) THEN "fill" ELSE "torn",
                    rect |-> view.rect, of |-> colour]
  /\ UNCHANGED <<lcd, view>>

(* driver_st7789_update_rect refuses data of another size than that of the *)
(* rectangle, so an empty one, and one that leaves the panel.              *)
Refused(rect) ==
  \/ rect.w = 0 \/ rect.h = 0
  \/ rect.x + rect.w > Panels[lcd.kind].w \/ rect.y + rect.h > Panels[lcd.kind].h

(* driver_st7789_update_rect: driver_st7789_set_window, which does not add *)
(* the Origin, then driver_st7789_write_pixels.                            *)
UpdateRect(rect, picture) ==
  /\ lcd.valid
  /\ \/ drawn' = NothingDrawn /\ UNCHANGED <<view, pixels>>
     \/ /\ ~Refused(rect)
        /\ \E sent \in Arriving(2) : view' = [view EXCEPT !.rect = Windowed(@, rect, sent)]
        /\ drawn' = NothingDrawn /\ UNCHANGED pixels
     \/ /\ ~Refused(rect)
        /\ view' = [view EXCEPT !.rect = rect]
        /\ \E count \in {1, Size(rect)} :  \* bound: as above
             /\ pixels' = [dot \in Dots |-> IF Reached(rect, count, dot)
                                            THEN <<picture, LastOf(rect, count, dot)>> ELSE pixels[dot]]
             /\ drawn' = [op |-> IF count = Size(rect) THEN "rect" ELSE "torn", rect |-> rect, of |-> picture]
  /\ UNCHANGED lcd

LcdStep ==
  \/ LcdOpenFails \/ LcdClose \/ LcdReset
  \/ \E kind \in DOMAIN Panels : LcdOpen(kind)
  \/ \E rotation \in Orientations : SetRotation(rotation)
  \/ \E bright \in BOOLEAN : SetBacklight(bright)
  \/ \E colour \in Pictures : Fill(colour)
  \/ \E rect \in Rects, picture \in Pictures : UpdateRect(rect, picture)

-----------------------------------------------------------------------------
(* A display that its driver set up is on, and a rectangle that was        *)
(* updated shows its pixels, row by row, whatever failed before.  The      *)
(* second holds of panels whose picture starts at the first cell: on the   *)
(* others the driver misplaces the rectangle by that much.                 *)
RectShows ==
  /\ lcd.valid /\ ~lcd.reset => view.on
  /\ drawn.op = "rect" /\ Origin(lcd.kind, view.rotation) = [x |-> 0, y |-> 0] =>
       \A dot \in Dots : In(drawn.rect, dot) =>
         pixels[dot] = <<drawn.of, ((dot[2] - drawn.rect.y) * drawn.rect.w) + (dot[1] - drawn.rect.x)>>

(* The cells that a rectangle addresses are all that changes when it is    *)
(* updated, also when its transfer fails on the way.                       *)
RectOnly ==
  [][drawn'.op \in {"rect", "torn", "fill"} =>
       \A dot \in Dots : pixels'[dot] # pixels[dot] => In(drawn'.rect, dot)]_lcdVars

(* Right after the display was configured, with no reset since, a fill     *)
(* covers the panel wherever its picture starts, and nothing else.         *)
FillAfterRotation ==
  [][drawn.op = "configured" /\ drawn'.op = "fill" =>
       \A dot \in Dots :
         IF In(Screen(lcd.kind, view.rotation), dot) THEN pixels'[dot] = <<drawn'.of, 0>>
         ELSE pixels'[dot] = pixels[dot]]_lcdVars

-----------------------------------------------------------------------------
(***************************************************************************)
(* runtime-pix: a frame of pixels in rows of a stride, rectangles cleared  *)
(* in it, and the SDL display that shows it: made of a window, a renderer, *)
(* a texture and the frame, any of which may fail to be made, and run by   *)
(* a callback when its interval has passed.  The operations that the code  *)
(* leaves as TODO (points, copies, all drawing in mono) do nothing.        *)
(***************************************************************************)

CONSTANTS
  FrameW, FrameH,  \* the size of frames
  Alignments,      \* alignments of a row, in pixels
  Inks,            \* colours, 0 (a fresh frame's) among them
  Int16,           \* 2^16: sizes are unsigned 16-bit integers
  Interval,        \* interval_ms
  MaxTicks         \* the time that is modelled (bound)
ASSUME PixelsAssumption ==
  /\ {FrameW, FrameH} \subseteq Nat \ {0} /\ Alignments \subseteq Nat \ {0}
  /\ Int16 \in Nat /\ FrameW + 1 < Int16 /\ FrameH + 1 < Int16
  /\ Interval \in Nat /\ MaxTicks \in Nat

VARIABLES
  buffer,   \* format, stride, buf: cell -> colour; in use or not
  sdl,      \* the SDL objects that exist
  display,  \* the display: how far it is open and time_ms
  ticks,    \* SDL_GetTicks
  canvas,   \* history: what the pixels should be
  ran       \* history: when the callback last ran

pixVars == <<buffer, sdl, display, ticks, canvas, ran>>

Points == (0 .. FrameW - 1) \X (0 .. FrameH - 1)
Blank == [p \in Points |-> 0]
Undrawn == -1
NoFrame == [buf |-> "none", stride |-> 0, cells |-> <<>>, format |-> "none"]

PixelsInit ==
  /\ buffer = NoFrame /\ sdl = {} /\ ticks = 0
  /\ display = [pc |-> "closed", time |-> 0]
  /\ canvas = Blank /\ ran = Undrawn

-----------------------------------------------------------------------------
(* A row is aligned up; pixels of mono are eight to a byte.                *)
Stride(format, align) ==
  LET row == IF format = "mono" THEN FrameW \div 8 ELSE FrameW
  IN ((row + align - 1) \div align) * align

NewFrame(format, align) ==
  LET stride == Stride(format, align) IN
    [buf |-> "malloc", stride |-> stride, format |-> format,
     cells |-> [i \in 0 .. stride * FrameH - 1 |-> 0]]

FrameInit(format, align) ==
  /\ buffer.buf = "none" /\ display.pc = "closed"
  /\ buffer' = NewFrame(format, align) /\ canvas' = Blank
  /\ UNCHANGED <<sdl, display, ticks, ran>>

FrameFinalize ==
  /\ buffer.buf # "none" /\ display.pc = "closed"
  /\ buffer' = NoFrame /\ canvas' = Blank
  /\ UNCHANGED <<sdl, display, ticks, ran>>

(* A side of a rectangle, clipped to the frame: [at, size], where a zero   *)
(* is the whole side and sizes wrap around.                                *)
Clipped(at, size, side) ==
  LET from == IF size = 0 THEN 0 ELSE at
      long == IF size = 0 THEN side ELSE size
      cut == IF from < 0 THEN (long + from) % Int16 ELSE long
      start == IF from < 0 THEN 0 ELSE from
  IN <<start, IF start + cut > side THEN (side - start) % Int16 ELSE cut>>

(* Rows are filled one by one, and at once when nothing lies between them. *)
Filled(x, y) ==
  IF x[2] = FrameW /\ x[1] = 0 /\ buffer.stride = FrameW
  THEN (y[1] * buffer.stride) .. (y[1] * buffer.stride + x[2] * y[2] - 1)
  ELSE {(y[1] + j) * buffer.stride + x[1] + i : i \in 0 .. x[2] - 1, j \in 0 .. y[2] - 1}

(* Rectangles that overlap the frame, from half the frame before it on.    *)
Overlaps(x, y, w, h) == (w = 0 \/ x + w > 0) /\ (h = 0 \/ y + h > 0)

Cleared(f, ink, x, y, w, h) ==
  IF f.format = "mono" THEN f
  ELSE LET cells == Filled(Clipped(x, w, FrameW), Clipped(y, h, FrameH)) IN
         [f EXCEPT !.cells = [i \in DOMAIN @ |-> IF i \in cells THEN ink ELSE @[i]]]

Painted(ink, x, y, w, h) ==
  [p \in Points |-> IF /\ buffer.format = "rgba32"
                       /\ w = 0 \/ (p[1] >= x /\ p[1] < x + w)
                       /\ h = 0 \/ (p[2] >= y /\ p[2] < y + h)
                    THEN ink ELSE canvas[p]]

ClearRect(ink, x, y, w, h) ==
  /\ buffer.buf # "none" /\ display.pc = "closed"
  /\ buffer' = Cleared(buffer, ink, x, y, w, h) /\ canvas' = Painted(ink, x, y, w, h)
  /\ UNCHANGED <<sdl, display, ticks, ran>>

-----------------------------------------------------------------------------
(* pix_sdl_display_init goes from one object to the next; a failure ends   *)
(* it and destroys what there is by then.                                  *)
Opens(pc, made) ==
  /\ display' = [display EXCEPT !.pc = pc] /\ sdl' = sdl \cup made
  /\ UNCHANGED <<buffer, ticks, canvas, ran>>
OpenFails(destroyed) ==
  /\ display' = [display EXCEPT !.pc = "closed"] /\ sdl' = sdl \ destroyed
  /\ UNCHANGED <<buffer, ticks, canvas, ran>>

MakeWindow ==
  /\ display.pc = "closed" /\ buffer.buf = "none"
  /\ Opens("vsync", {"window", "renderer"})

SetVSync ==
  /\ display.pc = "vsync"
  /\ Opens("texture", {}) \/ OpenFails({"renderer", "window"})

MakeTexture ==
  /\ display.pc = "texture"
  /\ Opens("frame", {"texture"}) \/ OpenFails({"renderer", "window"})

MakeFrame ==
  /\ display.pc = "frame"
  /\ \/ OpenFails({"texture", "renderer", "window"})
     \/ /\ buffer' = NewFrame("rgba32", 1) /\ canvas' = Blank
        /\ display' = [pc |-> "open", time |-> 0] /\ ran' = Undrawn
        /\ UNCHANGED <<sdl, ticks>>

DisplayFinalize ==
  /\ display.pc = "open"
  /\ buffer' = NoFrame /\ canvas' = Blank /\ sdl' = {}
  /\ display' = [pc |-> "closed", time |-> 0] /\ ran' = Undrawn
  /\ UNCHANGED ticks

Pixel(f, p) == f.cells[p[2] * f.stride + p[1]]
Due == display.time = 0 \/ display.time + Interval <= ticks

(* pix_display_runloop with a callback that clears one rectangle; whether  *)
(* SDL then shows the frame is left out.                                   *)
RunFrame(ink, x, y, w, h) ==
  /\ display.pc = "open" /\ Due
  /\ buffer' = Cleared(buffer, ink, x, y, w, h) /\ canvas' = Painted(ink, x, y, w, h)
  /\ ran' = ticks
  /\ display' = [display EXCEPT !.time = ticks]
  /\ UNCHANGED <<sdl, ticks>>

TicksPass ==
  /\ ticks < MaxTicks /\ ticks' = ticks + 1
  /\ UNCHANGED <<buffer, sdl, display, canvas, ran>>

PixelsStep ==
  \/ \E f \in {"rgba32", "mono"}, a \in Alignments : FrameInit(f, a)
  \/ \E ink \in Inks, x \in -1 .. FrameW - 1, y \in -1 .. FrameH - 1,
        w \in 0 .. FrameW + 1, h \in 0 .. FrameH + 1 :
       Overlaps(x, y, w, h) /\ (RunFrame(ink, x, y, w, h) \/ ClearRect(ink, x, y, w, h))
  \/ FrameFinalize \/ MakeWindow \/ SetVSync \/ MakeTexture \/ MakeFrame
  \/ DisplayFinalize \/ TicksPass

-----------------------------------------------------------------------------
(* A rectangle that overlaps the frame is cleared where it does and nowhere *)
(* else: not in other rows, and not in the memory between rows.            *)
ClearsRect ==
  buffer.format = "rgba32" =>
    /\ \A p \in Points : Pixel(buffer, p) = canvas[p]
    /\ Cardinality({i \in DOMAIN buffer.cells : buffer.cells[i] # 0})
         = Cardinality({p \in Points : canvas[p] # 0})

(* A display that failed to open, or is closed, leaves no SDL object.      *)
NothingLeft == display.pc = "closed" => sdl = {}

(* Frames are an interval apart, whether or not the last one was shown (a  *)
(* frame at time 0 counts as none).                                        *)
Paced == [][ran' # ran /\ ran > 0 /\ ran' # Undrawn => ran' - ran >= Interval]_pixVars
=============================================================================
