\* The default policy, an impatient one and one without backoff; 2.0 ** 6 is no float.
SPECIFICATION Spec
CONSTANTS
  Policies <- ThreePolicies
  Power <- PowersOfTwo
  Draws = {}
  ConnectTimes = {0, 40}
  Uptimes = {0, 16, 20, 240}
  MaxFloat = 63
  AttemptCap = 6
INVARIANTS TypeOK ServerSpared HoldDownWins RetriesGoOn
PROPERTIES StableForgets BudgetSpec
\* The client may give up.
CHECK_DEADLOCK FALSE
