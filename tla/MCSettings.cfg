\* Two PUTs of two pages, one stop, two clients of two names.
SPECIFICATION Spec
CONSTANTS
  n1 = n1
  n2 = n2
  Names = {n1, n2}
  p1 = p1
  p2 = p2
  Page = {p1, p2}
  MaxPuts = 2
  MaxStops = 1
SYMMETRY Symmetry
INVARIANT TypeOK
PROPERTY ChoicesUndoneOnlyByKeeper
 
PROPERTY SecretsKept
