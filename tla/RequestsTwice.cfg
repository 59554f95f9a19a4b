SPECIFICATION MCSpec
CONSTANTS
  movie = movie  series = series
  NoTitle = NoTitle
  h1 = h1  h2 = h2
  Handlers = {h1, h2}
  Titles = {movie}
  AppOf <- MCAppOf
  MaxRequests = 1
  MaxItems = 1
  MaxFaults = 0
  MaxRemovals = 0
PROPERTIES NotApprovedTwice
SYMMETRY Symmetry
