SPECIFICATION Spec
CONSTANTS
  f1 = f1  f2 = f2  f3 = f3  f4 = f4
  m1 = m1  m2 = m2
  p1 = p1  p3 = p3  p4 = p4
  NoFile = NoFile
  Handlers = {1, 2}
  Files = {f1, f4}
  Titles = {m1, m2}
  TitleOf <- MCTitleOf
  PathOf <- MCPathOf
  Readable = {f1, f4}
  FullSize <- MCFullSize
  RightLength = {f1, f4}
  Unsized = {}
  RuntimeStates <- MCAlways
  Tracked = {f1}
  NoEpisodeId = {}
  FfprobeStates <- MCVaries
  EditableKeys = {"auto_blocklist"}
  Requestable = {m1, m2}
  MaxJobs = 2
  MaxDeliveries = 1
  MaxFaults = 0
  MaxRestarts = 0
INVARIANTS TypeOK NoLostWakeup PassedIsFulfilled
PROPERTIES JobLifecycle NoBlocklistWithoutFfprobe
