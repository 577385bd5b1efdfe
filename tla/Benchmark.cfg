CONSTANTS
  Tasks = {t1}
  K = 2
  Limit = 1
  Workers = 2
  MaxRuns = 3
SPECIFICATION Spec
INVARIANTS CorrectIsKept RepetitionsBounded
