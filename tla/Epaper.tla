------------------------------- MODULE Epaper -------------------------------
(***************************************************************************)
(* drivers/uc8151/uc8151.c: an e-paper panel over SPI.  A call of the      *)
(* driver is a script of commands, each of which may fail; the panel       *)
(* refreshes by itself, for seconds, and holds a pin while it does.        *)
(*                                                                         *)
(* The panel is Cols columns of Rows bytes, PixelsPerByte pixels (8) to a  *)
(* byte.  A byte of a framebuffer is <<frame, offset>>: which framebuffer  *)
(* it is of and where it was in it.  Areas are in pixels, as the           *)
(* application gives them, windows of the controller in whole bytes.       *)
(***************************************************************************)
EXTENDS Integers, Sequences, SequencesExt

CONSTANTS Cols, Rows, PixelsPerByte, Frames, Speeds, Rotations, Areas
ASSUME EpaperAssumption ==
  /\ Cols \in Nat \ {0} /\ Rows \in Nat \ {0} /\ PixelsPerByte \in Nat \ {0}
  /\ "default" \in Speeds /\ 0 \in Rotations
  /\ Areas \subseteq [x : Nat, y : Nat, w : Nat, h : Nat]

VARIABLES
  epaper,  \* the fields of driver_uc8151_t
  panel,   \* the controller of the panel
  script,  \* the commands the call has still to send
  call,    \* the call and what it returns
  late     \* history: a wait gave up while the panel was busy

epaperVars == <<epaper, panel, script, call, late>>

Cells == (0 .. Cols - 1) \X (0 .. Rows - 1)
Whole == [x |-> 0, y |-> 0, w |-> Cols, h |-> Rows]
Covers(window, c) ==
  /\ window.x <= c[1] /\ c[1] < window.x + window.w
  /\ window.y <= c[2] /\ c[2] < window.y + window.h

(* The byte of a framebuffer that belongs to a cell.                       *)
Own(frame, c) == <<frame, c[1] * Rows + c[2]>>

NoSettings == [speed |-> "none", rotation |-> -1]
NoPaperCall == [op |-> "none", area |-> Whole, frame |-> 0, ok |-> TRUE]
InvalidEpaper == [valid |-> FALSE, speed |-> "default", rotation |-> 0, blocking |-> TRUE]

EpaperInit ==
  /\ epaper = InvalidEpaper
  /\ panel = [sram |-> [c \in Cells |-> Own(0, c)], shown |-> [c \in Cells |-> Own(0, c)],
              area |-> Whole, partial |-> FALSE, at |-> 0, busy |-> FALSE,
              set |-> NoSettings, torn |-> FALSE]
  /\ script = <<>> /\ call = NoPaperCall /\ late = FALSE

-----------------------------------------------------------------------------
(* Scripts.  Every command but a table of waveforms that fails ends the    *)
(* call with false.                                                        *)
Do(cmd) == [cmd |-> cmd]

(* _driver_uc8151_setup.                                                   *)
Setup(fields) ==
  << Do("RESET"), [cmd |-> "PSR", rotation |-> fields.rotation],
     [cmd |-> "LUT", speed |-> fields.speed],
     Do("PWR"), Do("PON"), Do("WAIT"), Do("CONFIGURE"), Do("POF"), Do("WAIT") >>

Waits == IF epaper.blocking THEN <<Do("WAIT")>> ELSE <<>>
Bytes(frame, offset, count) == [k \in 1 .. count |-> <<frame, offset + k - 1>>]
Data(bytes) == [cmd |-> "DATA", bytes |-> bytes]
Refreshes == <<Do("DSP"), Do("DRF")>> \o Waits

(* Mutation: only a call that starts in blocking mode after one that did   *)
(* waits for it, so a full update does not wait before it starts.          *)
UpdateHurries(frame) ==
  <<Do("PON"), Do("PTOU"), Do("DTM2"), Data(Bytes(frame, 0, Cols * Rows))>> \o Refreshes

(* driver_uc8151_update.                                                   *)
Update(frame) ==
  Waits \o <<Do("PON"), Do("PTOU"), Do("DTM2"), Data(Bytes(frame, 0, Cols * Rows))>>
        \o Refreshes

(* The first byte of a column of an area and how many follow: y / 8 and    *)
(* height / 8 of driver_uc8151_partial_update.                             *)
First(area) == area.y \div PixelsPerByte
Band(area) == area.h \div PixelsPerByte
Column(frame, area, dx) == Data(Bytes(frame, (area.x + dx) * Rows + First(area), Band(area)))

(* The window the controller makes of the rows y .. y + height - 1 it is   *)
(* sent: it ignores the low bits of both, so a y between two bytes opens a *)
(* window one byte higher than the data that follow.                       *)
Window(area) ==
  [x |-> area.x, w |-> area.w, y |-> First(area),
   h |-> IF area.h = 0 THEN 0 ELSE (area.y + area.h - 1) \div PixelsPerByte + 1 - First(area)]

(* driver_uc8151_partial_update.                                           *)
PartialUpdate(frame, area) ==
  Waits \o <<Do("PON"), Do("PTIN"), [cmd |-> "PTL", window |-> Window(area)], Do("DTM2")>>
        \o [k \in 1 .. area.w |-> Column(frame, area, k - 1)] \o Refreshes

(* The areas a partial update refuses: those that leave the panel, and a   *)
(* height that is no whole number of bytes.  A y that is none is accepted, *)
(* and so is an area without a pixel.                                      *)
Outside(area) ==
  \/ area.x >= Cols \/ area.y >= Rows * PixelsPerByte
  \/ area.x + area.w > Cols \/ area.y + area.h > Rows * PixelsPerByte
  \/ area.h % PixelsPerByte # 0

(* The cells of an area that starts with a byte and is not empty.          *)
Aligned(area) == area.y % PixelsPerByte = 0 /\ area.w > 0 /\ area.h > 0
InArea(area, c) == Aligned(area) /\ Covers(Window(area), c)

-----------------------------------------------------------------------------
(* Calls of the application, which asks driver_uc8151_is_busy before every *)
(* call but an update in blocking mode: that one waits by itself.          *)
Begin(op, area, frame, commands) ==
  /\ script = <<>>
  /\ script' = commands
  /\ call' = [op |-> op, area |-> area, frame |-> frame, ok |-> TRUE]
  /\ UNCHANGED <<panel, late>>

EpaperOpen ==
  /\ ~epaper.valid /\ ~panel.busy
  /\ epaper' = [InvalidEpaper EXCEPT !.valid = TRUE]
  /\ Begin("init", Whole, 0, Setup(InvalidEpaper))

(* driver_uc8151_set_update_speed and driver_uc8151_set_rotation.          *)
SetSettings(speed, rotation) ==
  /\ epaper.valid /\ ~panel.busy
  /\ \/ epaper' = [epaper EXCEPT !.speed = speed] /\ rotation = epaper.rotation
     \/ epaper' = [epaper EXCEPT !.rotation = rotation] /\ speed = epaper.speed
  /\ Begin("set", Whole, 0, Setup(epaper'))

SetBlocking(blocking) ==
  /\ epaper.valid /\ script = <<>>
  /\ epaper' = [epaper EXCEPT !.blocking = blocking]
  /\ UNCHANGED <<panel, script, call, late>>

CallUpdate(frame) ==
  /\ epaper.valid /\ (epaper.blocking \/ ~panel.busy)
  /\ Begin("update", Whole, frame, Update(frame))
  /\ UNCHANGED epaper

CallPartial(frame, area) ==
  /\ epaper.valid /\ (epaper.blocking \/ ~panel.busy)
  /\ IF Outside(area)
       THEN /\ script = <<>> /\ call' = [NoPaperCall EXCEPT !.ok = FALSE]
            /\ UNCHANGED <<script, panel, late>>
       ELSE Begin("partial", area, frame, PartialUpdate(frame, area))
  /\ UNCHANGED epaper

(* driver_uc8151_finalize: the failure of its commands is ignored.         *)
EpaperClose ==
  /\ epaper.valid /\ ~panel.busy
  /\ epaper' = [epaper EXCEPT !.valid = FALSE]
  /\ Begin("finalize", Whole, 0, <<Do("POF"), Do("WAIT")>>)

-----------------------------------------------------------------------------
(* The panel (external).  Data and a reset tear a picture it still draws.  *)
Area == IF panel.partial THEN panel.area ELSE Whole

(* The k-th cell of the area, column by column.                            *)
CellAt(k) == <<Area.x + k \div Area.h, Area.y + (k % Area.h)>>

Written(bytes) ==
  [panel EXCEPT
     !.sram = [c \in Cells |->
                 LET k == {i \in 1 .. Len(bytes) : CellAt(panel.at + i - 1) = c}
                 IN  IF k = {} THEN @[c] ELSE bytes[CHOOSE i \in k : TRUE]],
     !.at = @ + Len(bytes), !.torn = @ \/ panel.busy]

Takes(command) ==
  CASE command.cmd = "RESET" ->
         [panel EXCEPT !.partial = FALSE, !.area = Whole, !.busy = FALSE,
                       !.set = NoSettings, !.torn = @ \/ panel.busy]
    [] command.cmd = "PSR"  -> [panel EXCEPT !.set.rotation = command.rotation]
    [] command.cmd = "LUT"  -> [panel EXCEPT !.set.speed = command.speed]
    [] command.cmd = "PTIN" -> [panel EXCEPT !.partial = TRUE]
    [] command.cmd = "PTOU" -> [panel EXCEPT !.partial = FALSE, !.area = Whole]
    [] command.cmd = "PTL"  -> [panel EXCEPT !.area = command.window]
    [] command.cmd = "DTM2" -> [panel EXCEPT !.at = 0]
    [] command.cmd = "DATA" -> Written(command.bytes)
    [] command.cmd = "DSP"  -> [panel EXCEPT !.at = 0]
    [] command.cmd = "DRF"  -> [panel EXCEPT !.busy = TRUE]
    [] OTHER -> panel

(* _driver_uc8151_send_command and _driver_uc8151_data.                    *)
Send ==
  /\ script # <<>> /\ Head(script).cmd # "WAIT"
  /\ panel' = Takes(Head(script)) /\ script' = Tail(script)
  /\ UNCHANGED <<epaper, call, late>>

(* A transfer that fails: init clears the structure, and the tables of     *)
(* waveforms are sent without a look at the result.                        *)
SendFails ==
  /\ script # <<>> /\ Head(script).cmd \notin {"WAIT", "RESET"}
  /\ IF Head(script).cmd = "LUT" \/ call.op = "finalize"
       THEN script' = Tail(script) /\ UNCHANGED <<call, epaper>>
       ELSE /\ script' = <<>> /\ call' = [call EXCEPT !.ok = FALSE]
            /\ epaper' = IF call.op = "init" THEN InvalidEpaper ELSE epaper
  /\ UNCHANGED <<panel, late>>

(* driver_uc8151_busy_wait: 201 polls of 100 ms, then it gives up.         *)
BusyWait ==
  /\ script # <<>> /\ Head(script).cmd = "WAIT"
  /\ script' = Tail(script) /\ late' = (late \/ panel.busy)
  /\ UNCHANGED <<epaper, panel, call>>

(* The panel has drawn what it was told to.  What it makes of a window     *)
(* that ends before it starts is not known: it may draw nothing or all.    *)
Redrawn ==
  IF Area.w > 0 /\ Area.h > 0 THEN {{c \in Cells : Covers(Area, c)}} ELSE {{}, Cells}

PanelDone ==
  /\ panel.busy
  /\ \E cells \in Redrawn :
       panel' = [panel EXCEPT
         !.busy = FALSE,
         !.shown = [c \in Cells |-> IF c \in cells THEN panel.sram[c] ELSE @[c]]]
  /\ UNCHANGED <<epaper, script, call, late>>

EpaperStep ==
  \/ EpaperOpen \/ EpaperClose \/ Send \/ SendFails \/ BusyWait \/ PanelDone
  \/ \E speed \in Speeds, rotation \in Rotations : SetSettings(speed, rotation)
  \/ \E blocking \in BOOLEAN : SetBlocking(blocking)
  \/ \E frame \in Frames : CallUpdate(frame)
  \/ \E frame \in Frames, area \in Areas : CallPartial(frame, area)

-----------------------------------------------------------------------------
(* No picture is torn: in blocking mode an update waits for the one before *)
(* it, also when that one was started in non-blocking mode, unless the     *)
(* wait gives up.                                                          *)
NeverTorn == panel.torn => late

Settled(op) == script = <<>> /\ call.op = op /\ call.ok /\ ~panel.busy /\ ~late

(* After a full update that returned true the panel shows the framebuffer, *)
(* every byte in its place, whatever calls failed half-way before.         *)
UpdateShows == Settled("update") => \A c \in Cells : panel.shown[c] = Own(call.frame, c)

(* After a partial update that returned true its area shows the bytes of   *)
(* the framebuffer that belong there, if it starts with a byte.  One that  *)
(* starts between two bytes is accepted and answered true as well          *)
(* (uc8151.c:714-723, drivers_uc8151.h:217-225), but the window the panel  *)
(* opens is a byte higher than the data (740-776), and what follows the    *)
(* first column lands elsewhere: the header's claim does not hold for it.  *)
PartialShows ==
  Settled("partial") =>
    \A c \in Cells : InArea(call.area, c) => panel.shown[c] = Own(call.frame, c)

(* After a setting that returned true the panel is rotated as the driver's *)
(* fields say and has the waveforms of their speed, or none: the loss of a *)
(* table is ignored (uc8151.c:194-198), so this true does not say that the *)
(* "speed was set successfully" (drivers_uc8151.h:132), only that no       *)
(* earlier speed is left.                                                  *)
SettingsReach ==
  Settled("set") =>
    /\ panel.set.rotation = epaper.rotation
    /\ panel.set.speed \in {"none", epaper.speed}

(* A panel on which any command may fail half-way, and that may still be   *)
(* busy, shows what the updates that succeeded have sent, whole, and has   *)
(* the settings that arrived.                                              *)
PanelShows ==
  /\ NeverTorn
  /\ UpdateShows
  /\ PartialShows
  /\ SettingsReach
=============================================================================
