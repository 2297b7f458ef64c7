\* Three threads at most; contexts of 4 and 8 tokens, batches of 3.
SPECIFICATION Spec
CONSTANTS
  MaxThreads = 3
  CounterWrap = 4
  N_BATCH = 3
  PAD = 4
  Workloads <- MCWorkloads
INVARIANTS QuietPool EveryDecodeFits FreshLogits NothingSwallowed
PROPERTIES ComputesInOrder CallsReturn
