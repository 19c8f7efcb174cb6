SPECIFICATION Spec
CONSTANTS
  Async = {a1, a2}
  Cont = Cont
  Signals = {}
  Requests = {"halt"}
  Repeat = FALSE
  ExtraReplies = {}
  Timeouts = FALSE
  Unplugged = FALSE
  MaxReplies = 2
  MaxOutput = 1
INVARIANTS FailsForAReason
