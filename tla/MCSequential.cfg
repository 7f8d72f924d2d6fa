CONSTANTS
  UMax = 5
  Hvas = {0, 3}
  TableSize = 3
  MaxBoard = 5
  Numbers = {2, 3, 4, 6}
  MaxMarks = 5
  Reps = 2
  Base = 3
  MaxSize = 8
  Keys = {1, 2, 3}
  Values = {1, 2}
  Addresses = {1, 2, 3}
  Capacities = {0, 1, 2}
  MaxUses = 4
  Levels = 2
  NumSmall = 1
  NumMedium = 2
  NumLarge = 1
  Rows = 2
  Cols = 4
  Addends = {0, 1, 2}
  Targets = {1, 2, 4}
  MaxNums = 3
  MaxLen = 4
  MaxPoint = 3
  MaxItems = 3
  MemSize = 5
  Bits = 8
SPECIFICATION SequentialSpec
CHECK_DEADLOCK FALSE
INVARIANTS
  SameVerdicts
  TranslationsExact
  VerdictExact
  RaceOutcome
  ParsedExactly
  LruExact
  IslandsExact
  MinutesExact
  ExercisesExact
PROPERTY
  LotHonest
