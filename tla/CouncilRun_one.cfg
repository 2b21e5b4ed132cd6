\* One request of two seats, models that may hang, two failing statements and one
\* crash: every interleaving inside a run.
CONSTANTS
  Requests = {r1}
  Seats = {s1, s2}
  Judge = judge
  None = none
  ViewOutcomes = {"usable", "danger", "timeout", "failed"}
  JudgeOutcomes = {"answer", "danger", "timeout"}
  MaxFaults = 2
  MaxCrashes = 1
SPECIFICATION FairSpec
INVARIANTS
  DoneFollowsEveryView
  SeatAnnouncedOnce
  DangerIsPrompt
  AnswerNamesItsViews
  RowsAgreeWithAnswer
  FinishedMeansSettled
PROPERTIES
  OutcomesAreFinal
  EveryRunEnds
  ImplementsLifecycle
\* A run ends, and a crashed or failed one is never taken up again.
CHECK_DEADLOCK FALSE
