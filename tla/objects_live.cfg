SPECIFICATION FairSpec
CONSTANTS
  NULL = NULL
  o1 = o1
  s1 = s1
  r1 = r1
  r2 = r2
  a1 = a1
  Oids = {o1}
  Servants = {s1}
  Requests = {r1, r2}
  Apps = {a1}
  Destroyers = {a1}
  Policies = {"map", "activator", "default"}
  Uniqueness = {TRUE}
  MaxIncarnations = 1
PROPERTIES DeactivationEnds DestroyEnds
CHECK_DEADLOCK FALSE
