SPECIFICATION Spec
CONSTANTS
  button = button  lamp = lamp  indoor = indoor  outdoor = outdoor
  left = left  right = right
  Pins <- TwoPins  Functions = {"SPI", "PWM"}
  Full = 4
  Top = 4  MaxDivider = 2  Fractions = 2  Percent = 5  Counts <- Periods
  MaxTimeout = 5  UpdateEvery = 3
  Machines <- TwoMachines  Lines <- OneLine  FifoSize = 2
  Cols = 2  Rows = 2  PixelsPerByte = 2  Frames = {1}  Speeds = {"default", "fast"}  Rotations = {0, 180}
  Areas <- FiveAreas
  Panels <- TwoPanels  Gaps <- SmallGaps  Memory <- NineCells  Orientations = {0, 180}
  Pictures = {1}  Rects <- FourRects
  Sensors <- TwoSensors
  Names <- TwoNames  MaxSize = 1
  Regs = {0, 1}  Vals = {0, 1, 5}
  Rounds = 2  LineLength = 2  Platforms = {"posix", "pico"}  BadLines = {TRUE, FALSE}
  ResetsRunning = FALSE
  FrameW = 2  FrameH = 2  Alignments = {1, 3}  Inks = {0, 1}  Int16 = 16
  Interval = 2  MaxTicks = 4
  Depth = 4  SampleCount = 2  Volts = {0, 9}  Stray = 3  MinVolt = 2  MaxVolt = 6
  Systems = {"linux", "darwin", "pico"}  Processors = {0}  MaxTold = 2  QueueSize = 1
  Devices <- Parts
INVARIANTS InterruptsFit RampHolds PanelShows TransfersTrue FilesSafe
PROPERTY ScreensDraw
SYMMETRY Alike
CHECK_DEADLOCK FALSE
