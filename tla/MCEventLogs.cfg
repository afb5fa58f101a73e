CONSTANTS
  Runs = {r1, r2}
  EventIds = {a, b}
  OneRun = r1
  OneEventId = a
  Sessions = {s1, s2}
  MemoryEventIds = {a, b, c}
  MaxDepth = 2
SPECIFICATION EitherSpec
INVARIANTS
  NoCorruptionVerdict
  ReplayIsExact
  MigrationsAreExact
PROPERTIES
  EveryCallReturns
  BothImplementStream
