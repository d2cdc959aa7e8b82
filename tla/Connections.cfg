SPECIFICATION Spec
CONSTANTS
  Conns = {"c"}
  Endpoints = {"e1", "e2"}
  Opts = {"", "given"}
  Passwords = {"p1", "p2"}
  Keys = {"k1", "k2"}
  Handlers = {h1, h2}
  Accepts <- OneEach
SYMMETRY SymHandlers
INVARIANTS TypeOK CapsWereProbed
PROPERTY UncontendedWrites
