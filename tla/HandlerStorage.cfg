\* Two storages and three handlers, which may refer to any of the storages: the
\* destructor of a handler that is replaced may replace the one in its place.
SPECIFICATION Spec
CONSTANTS
  Storages = {s1, s2}
  Handlers = {h1, h2, h3}
  Null = Null
INVARIANTS
  HandlerAccounted
  CleanUp
