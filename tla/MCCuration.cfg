SPECIFICATION Spec
CHECK_DEADLOCK FALSE
CONSTANTS
  Tasks = {1, 2, 3, 4}
  Builds <- MCBuilds
  Domains = {"tooling"}
  Amounts = {0, 1}
  LessonLists <- MCLessonLists
  LessonKeys = {"k", "j"}
  DomainOf <- MCDomainOf
  Inside <- MCInside
  ByHand = {"hand"}
  IdleTasks = 1
  Horizon = 1
  Starts <- MCStarts
  None = None
INVARIANTS RulesAreFrozen RuleHasItsRow
PROPERTIES AnswersStand OffersAreFair
