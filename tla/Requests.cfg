SPECIFICATION MCSpec
CONSTANTS
  movie = movie  series = series
  NoTitle = NoTitle
  h1 = h1  h2 = h2
  Handlers = {h1, h2}
  Titles = {movie, series}
  AppOf <- MCAppOf
  MaxRequests = 2
  MaxItems = 2
  MaxFaults = 1
  MaxRemovals = 1
INVARIANTS TypeOK ApprovedWasAdded AvailableWasPassed
PROPERTIES RequestLifecycle
SYMMETRY Symmetry
