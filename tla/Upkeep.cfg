SPECIFICATION FairSpec
CONSTANTS
  Ours = {"macvz-a"}
  Foreign = {"db"}
  GracePeriod = 2
  Budgets <- MCBudgets
 
PROPERTIES ReapsPastGrace OrphansGo ReadinessReported
CHECK_DEADLOCK FALSE
