SPECIFICATION EmbSpec
CONSTANTS
  e1 = e1  e2 = e2  e3 = e3
  EmbVersions = {e1, e2, e3}
  NoEmb = NoEmb
  Operators = {o1}
  Writers = {w1}
  Movies = {m1}
  Registrations <- OneActiveThenShadows

SYMMETRY Alike
INVARIANTS EmbTypeOK LiveVersionHasVector
PROPERTIES ActivePersists
