SPECIFICATION Spec
CONSTANTS
  t = t
  s = s
  u = u
  i = i
  a = a
  b = b
  c = c
  v = v
  None = None
  Vectors <- MCVectors
  Number <- MCNumber
  Readable = {"scope"}
  Default <- MCDefault
  DefRate = 50
  Names <- MCNames
  Literals = {i}
  Addrs <- MCAddrs
  Six = {v}
  Answers <- MCAnswers
  Above <- MCAbove
  Files <- MCFiles
  Ports = {80, 22}
  PortsOf <- MCPortsOf
CHECK_DEADLOCK FALSE
INVARIANTS SubdomainsMatch
