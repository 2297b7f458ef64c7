\* Replies longer than the channel: flows suspend in emit.
SPECIFICATION Spec
CONSTANTS
  Gens = {g1, g2}
  None = None
  Manager = Manager
  BufferCap = 1
  MaxReply = 3
  MaxLoads = 2
INVARIANTS OwnContext OwnCache NoLeak
PROPERTIES RepliesEnd ManagerServed
