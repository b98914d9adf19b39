SPECIFICATION Spec
CONSTANTS
  Clients = {c1, c2}
  Emitters = {emitter}
  Collectors = {collector}
  Values = {on, off}
  None = None
INVARIANTS StreamCountIsClients
