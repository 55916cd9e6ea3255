SPECIFICATION Spec
CONSTANTS
  Callers = {c1, c2}
  Streams = {s1, s2, s3}
  Symbols = {t1, t2, t3}
  Known = {t1}
  Refused = {t3}
  Nil = Nil
INVARIANTS
  OneStream
