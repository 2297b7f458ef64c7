\* Two providers, one of which logs; three switches flipped at any moment.
SPECIFICATION Spec
CONSTANTS
  Configs = {paid, free}
  LogsData = {free}
  None = None
  MaxToggles = 3
INVARIANTS TypeOK SentAsPermitted FallbackJustified LastWord
