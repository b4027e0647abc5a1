SPECIFICATION Spec
CONSTANTS
  p1 = p1
  p2 = p2
  m1 = m1
  m2 = m2
  Providers = {p1}
  Models = {m1}
  Urls = {1, 2}
  FirstUrl = 1
  ModelList = ModelList
  MaxRevision = 2
SYMMETRY Symmetric
PROPERTIES
  ReflectedAtOnce
