SPECIFICATION Spec
CONSTANTS
  NULL = NULL
  Collation <- MCCollation
  LowerCase <- MCLowerCase
  Fields <- MCFields
  Rows <- MCRows
  Comparisons <- MCComparisons
  Terms <- MCTerms
  Durations <- MCDurations
  Timestamps <- MCTimestamps
  MaxNodes = 5
INVARIANTS
  AnswersTheFilter
  RefusesOnlyTheUnlisted
  NegationSplitsTheTable
CHECK_DEADLOCK FALSE
