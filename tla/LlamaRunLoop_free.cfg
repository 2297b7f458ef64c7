\* An unload takes the thread while a reply is suspended.
SPECIFICATION Spec
CONSTANTS
  Gens = {g1}
  None = None
  Manager = Manager
  BufferCap = 1
  MaxReply = 2
  MaxLoads = 1
INVARIANTS NoUseAfterFree
