SPECIFICATION Spec
CONSTANTS
  I = I
  O = O
  C = C
  D = D
  FileOrder <- MCFileOrder
  Kind <- MCKind
  Number <- MCNumber
  MaxLinks <- MCMaxLinks
  Freq <- MCFreq
  AutoConn <- MCAutoConn
  WithPort <- MCWithPort
  MAXIMUM_LINKS = 1
  CONNECTFREQUENCY = 10
  HANGONRETRYDELAY = 1
  Exempt <- MCExempt
  Files <- MCFiles
  Persons = {p}
  Conns = {s, t}
  Gens = {1, 2}
  Nil = Nil
  MaxRehash = 2
INVARIANTS
  LinksExact
  PointersLive
PROPERTIES
  ServersTried
