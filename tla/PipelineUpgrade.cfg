SPECIFICATION Spec
CONSTANTS
  f1 = f1  f2 = f2  f3 = f3  f4 = f4
  m1 = m1  m2 = m2
  p1 = p1  p3 = p3  p4 = p4
  NoFile = NoFile
  Handlers = {1}
  Files = {f1, f2, f3}
  Titles = {m1}
  TitleOf <- MCTitleOf
  PathOf <- MCPathOf
  Readable = {f1, f2}
  FullSize <- MCFullSize
  RightLength = {f1, f2}
  Unsized = {f2}
  RuntimeStates <- MCAlways
  Tracked = {f2, f3}
  NoEpisodeId = {}
  FfprobeStates <- MCAlways
  EditableKeys = {"validation_enabled"}
  Requestable = {m1}
  MaxJobs = 2
  MaxDeliveries = 1
  MaxFaults = 0
  MaxRestarts = 0
INVARIANTS DeletedIsSearched
PROPERTIES OutcomeBeforeEffects DeletesOnlyJobPath
