\* Two models, one GPU rung above the CPU, one job waiting behind the mutex holder.
SPECIFICATION Spec
CONSTANTS
  Files = {m1, m2}
  None = None
  GpuRungs = 1
  MaxQueue = 1
INVARIANTS TypeOK ViewsAgree ListAgrees NoCrashLoop
PROPERTIES SelectLoads EarlyCancelKeepsModel LoadingEnds
