SPECIFICATION Spec
CONSTANTS
  Word = 32
  memory_bottom = 5
  memory_top = 24
  Request = {0, 4, 5, 9}
  Value = {v1, v2}
  Thread = {t1, t2}
  Any = Any
  Allow = {}
INVARIANTS TypeOK BlocksInside BlocksDisjoint ContentsKept
CHECK_DEADLOCK FALSE
