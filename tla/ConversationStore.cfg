\* One save at a time, in a calm environment and under every hazard but overlapping
\* saves; writes may fail and the process may die between any two file operations.
SPECIFICATION Spec
CONSTANTS
  Savers = {s1, s2}
  MaxVersion = 5
  Environments = {{}, {"tornWrite", "copyFails", "readFails", "tempOnly"}}
INVARIANTS BackupOutlivesWrite
PROPERTIES HistorySurvives NoStaleHistory SavesAreAtomic
