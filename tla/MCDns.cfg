\* Two reloads, the first of which may fail so that its id is used again.
CONSTANTS
  c1 = c1
  c2 = c2
  h1 = h1
  h2 = h2
  Callers <- TwoCallers
  Hosts <- TwoHosts
  Configs <- MCConfigs
  MaxGens = 3
SYMMETRY Symmetry
SPECIFICATION Spec
INVARIANTS LookupsAccounted CacheSound
PROPERTIES EndedIsFinal
CHECK_DEADLOCK FALSE
