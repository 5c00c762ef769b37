SPECIFICATION Spec
CONSTANTS
  Tenants = {t1, t2}
  NoTenant = NoTenant
  Attaches = {a1, a2, a3}
  Openers = {h1, h2}
  MaxReseals = 1
SYMMETRY Interchangeable
INVARIANTS TypeOK TokenIsBound HeldOwn StrayIsTakenBack AttachedHasToken
PROPERTY ForgetsOwn
CHECK_DEADLOCK FALSE
