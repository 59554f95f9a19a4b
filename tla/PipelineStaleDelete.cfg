SPECIFICATION Spec
CONSTANTS
  f1 = f1  f2 = f2  f3 = f3  f4 = f4
  m1 = m1  m2 = m2
  p1 = p1  p3 = p3  p4 = p4
  NoFile = NoFile
  Handlers = {1}
  Files = {f1, f2}
  Titles = {m1}
  TitleOf <- MCTitleOf
  PathOf <- MCPathOf
  Readable = {f1, f2}
  FullSize <- MCFullSize
  RightLength = {f1, f2}
  Unsized = {}
  RuntimeStates <- MCVaries
  Tracked = {f1}
  NoEpisodeId = {}
  FfprobeStates <- MCAlways
  EditableKeys = {}
  Requestable = {m1}
  MaxJobs = 1
  MaxDeliveries = 1
  MaxFaults = 0
  MaxRestarts = 0
PROPERTIES GoodFileKept
