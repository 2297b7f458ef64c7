\* Another chat is opened while a reply streams.
SPECIFICATION Spec
CONSTANTS
  Convs = {c1, c2}
  Stored = {c1}
  None = None
  MaxTurns = 2
  MaxSaves = 1
  Window = 1
INVARIANTS SingleMessage
