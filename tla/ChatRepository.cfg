\* Two turns over two conversations, with every race between them.
SPECIFICATION Spec
CONSTANTS
  Convs = {c1, c2}
  Stored = {c1}
  None = None
  MaxTurns = 2
  MaxSaves = 1
  Window = 1
INVARIANTS TypeOK OwnText FullContext OneDraft AllStored
PROPERTIES NoWipe TurnEventuallyEnds
