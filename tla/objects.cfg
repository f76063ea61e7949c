SPECIFICATION Spec
CONSTANTS
  NULL = NULL
  o1 = o1
  o2 = o2
  s1 = s1
  s2 = s2
  r1 = r1
  r2 = r2
  a1 = a1
  Oids = {o1, o2}
  Servants = {s1, s2}
  Requests = {r1, r2}
  Apps = {a1}
  Destroyers = {a1}
  Policies = {"map", "activator", "default"}
  Uniqueness = {TRUE, FALSE}
  MaxIncarnations = 2
INVARIANTS TypeOK UsersAreCounted ServantKept DestroyedIdle CompletionCovers
SYMMETRY Symmetry
CHECK_DEADLOCK FALSE
