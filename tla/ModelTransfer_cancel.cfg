\* One mirror, one try: a download that the user cancels.
SPECIFICATION Spec
CONSTANTS
  Mirrors = 1
  MaxRetries = 1
  Size = 2
  Callers = {"watcher", "reply"}
INVARIANT OneEnd
