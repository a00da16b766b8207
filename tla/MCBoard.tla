------------------------------ MODULE MCBoard -------------------------------
(* Instances of Board for TLC.                                             *)
EXTENDS Board

CONSTANTS button, lamp, indoor, outdoor, left, right

(* Those that answer at once or not at all, and those that a clock, a      *)
(* converter or other threads drive.                                       *)
Parts == {"pins", "pwm", "infrared", "epaper", "lcd", "sensor", "volume", "bus", "pixels"}
Clocked == {"led", "dog", "console", "adc", "timers"}
TwoSensors == {indoor, outdoor}
TwoNames == {left, right}
(* Of two pixels to a byte: one byte, one between two bytes, an empty one, *)
(* one of half a byte and one that crosses the edge.                       *)
FiveAreas == {[x |-> 1, y |-> 2, w |-> 1, h |-> 2], [x |-> 0, y |-> 1, w |-> 1, h |-> 2],
              [x |-> 1, y |-> 0, w |-> 0, h |-> 2], [x |-> 0, y |-> 0, w |-> 1, h |-> 1],
              [x |-> 1, y |-> 0, w |-> 2, h |-> 2]}
(* A panel with a gap when it is turned and one with gaps on two sides;    *)
(* 240 pixels are 2 here, 135 are 1.                                       *)
TwoPanels == [square |-> [w |-> 2, h |-> 2], wide |-> [w |-> 2, h |-> 1]]
SmallGaps == [square |-> 1, round |-> 1, wide |-> [x |-> 1, y |-> 1]]
NineCells == [w |-> 3, h |-> 3]
(* A column, the whole display, an empty one, one that crosses its edge.   *)
FourRects == {[x |-> 1, y |-> 0, w |-> 1, h |-> 2], [x |-> 0, y |-> 0, w |-> 2, h |-> 2],
              [x |-> 1, y |-> 1, w |-> 0, h |-> 1], [x |-> 1, y |-> 0, w |-> 2, h |-> 1]}
TwoPins == {button, lamp}
Periods == {1, 3, 4, 5, 7, 8, 9}
TwoMachines == {1, 2}
OneLine == {1}

(* No operation tells one name of a file from another.                     *)
Alike == Permutations(TwoNames)
=============================================================================
