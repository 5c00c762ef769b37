SPECIFICATION Spec
CONSTANTS
  Tenants = {t1, t2}
  Endpoints = {e1}
  Replicas = {r1, r2}
  Types = {a, b}
  PerEndpoint = 1
  PerTenant = 2
  Workers = 2
  PageSize = 1
  MaxTries = 2
  MaxEvents = 2
  Budgets <- RaceFaultOrChange
CHECK_DEADLOCK FALSE
INVARIANTS TypeOK MissedOnlyRaced AcceptedOnce PendingIsNamed InFlightBounds
PROPERTY CursorAdvances
SYMMETRY Symmetry
