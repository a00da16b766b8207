SPECIFICATION Spec
CONSTANTS
  Header = 2  Align = 2  ObjectSize = 2  Capacity = 8  Sizes <- SomeSizes  MaxArenas = 3
  Items = {a}  Arrays = {x}  Maps = {m}  Keys = {k}  Nil = Nil
  MaxOwn = 1  MaxRetain = 2  MaxLength = 2  MaxPools = 2
  rootClass = rootClass  midClass = midClass  leafClass = leafClass
  Classes <- Three  Super <- Line  NoClass = NoClass  Statics <- JustMid
  CategoryLists <- Lists  MaxNesting = 2
  str1 = str1  str2 = str2  ptr1 = ptr1  ptr2 = ptr2
  Strs = {str1, str2}  Texts <- SomeTexts  Nothing = Nothing  Freed = Freed  Careful = TRUE
  MaxText = 3  MaxData = 2
  Second = 4  NanoTop = 9  LapseTop = 16  Milli = 2  DaySeconds = 2  MonthDays <- ShortYear
  Intervals <- SomeIntervals  MaxSeconds = 6  MaxUptime = 2
  IntTop = 4  LongTop = 8  LongArgs <- SomeLongs  PointerDigits = 2
  FlagSets <- SomeFlags  Widths = {0, 5}  Room = 24  Rooms = {0, 5}  Descriptions <- TwoAnswers
  Hashes = {1, 2, 3}  Pointers = {ptr1, ptr2}  Null = Null  Slots = 2  MaxTables = 2
  Selectors = {draw, copy}  Imps = {1, 2}  Cells = 3  Untyped = Untyped
  Kinds <- TwoKinds  Protocols <- FourProtocols  NameOf <- ProtocolNames
  Hierarchies <- Programs  ProtocolTableSize = 3
  Half <- Halves
  JsonTexts <- ShortTexts  JsonNumbers <- Longest  Members <- SomeMembers
  JsonKeys <- TwoKeys  MaxMembers = 2  MaxDepth = 1
  Signals = {"INT", "TERM"}
  Subjects <- Every
INVARIANTS ZoneSafe RetainsCounted MapHolds MethodsFound TextSafe JsonFaithful LaunchOrderly
PROPERTY ValuesExact
SYMMETRY Alike
CHECK_DEADLOCK FALSE
