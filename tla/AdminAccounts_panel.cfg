\* Two administrators, one of them yet to be created; two requests at a time, three sessions.
SPECIFICATION Spec
CONSTANTS
  Admins = {a1, a2}
  NoAdmin = NoAdmin
  Sessions = {s1, s2, s3}
  NoSession = NoSession
  Calls = {c1, c2}
SYMMETRY AdminSymmetry
INVARIANTS
  SuperadminRemains
  OneSessionPerLogin
PROPERTIES
  OwnRoleKept
