SPECIFICATION Spec
CONSTANTS
  AccountIds = {a1, a2}
  ClientIds = {c1}
  Tabs = {t1}
  ClientRequests = {r1, r2}
  Keys = {k1}
  EndpointRequests = {e1, e2}
  None = None
SYMMETRY Symmetry
CHECK_DEADLOCK FALSE
INVARIANTS
  PublicClientsProve
  SpentCodesAreRefused
PROPERTIES
  ImplementsClientRegistry
