\* Two mirrors, two tries of each, models of two pieces; the watcher and a reply share
\* the service.
SPECIFICATION Spec
CONSTANTS
  Mirrors = 2
  MaxRetries = 2
  Size = 2
  Callers = {"watcher", "reply"}
INVARIANTS TypeOK PromotesWhole Tidy Follows StopsAtRest Covered
PROPERTIES TransferEnds
