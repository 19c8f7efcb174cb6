SPECIFICATION FairSpec
CONSTANTS
  Async = {a1, a2}
  Cont = Cont
  Signals = {SIGA, SIGB}
  Requests = {"packet", "polite", "halt", SIGA, SIGB}
  Repeat = FALSE
  ExtraReplies = {"double", "late"}
  Timeouts = TRUE
  Unplugged = TRUE
  MaxReplies = 2
  MaxOutput = 1
INVARIANTS NobodyForgotten PacketsFindItStopped AnswersMatch RequestsTakeEffect
PROPERTIES SharesTheConnection RequestsEnd HaltEndsTheCall ResumesAfterwards
CHECK_DEADLOCK FALSE
