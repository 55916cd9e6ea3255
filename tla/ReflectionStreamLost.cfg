SPECIFICATION FairSpec
CONSTANTS
  Callers = {c1}
  Streams = {s1, s2}
  Symbols = {t1}
  Known = {t1}
  Refused = {}
  Nil = Nil
PROPERTIES
  ReflectionRecovers
