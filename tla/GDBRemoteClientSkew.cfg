SPECIFICATION Spec
CONSTANTS
  Async = {a1, a2}
  Cont = Cont
  Signals = {}
  Requests = {"packet"}
  Repeat = FALSE
  ExtraReplies = {"late"}
  Timeouts = FALSE
  Unplugged = FALSE
  MaxReplies = 2
  MaxOutput = 1
INVARIANTS InSequence
