SPECIFICATION AuthoritySpec
CONSTANTS
  Agent = {a, b}
  Scope = {s}
  Operator = {o1, o2}
  Gate = {g}
  MaxTransitions = 3
  MaxMishaps = 1
INVARIANTS RuledByTheRegistry SavedOrTold
SYMMETRY Interchangeable
CHECK_DEADLOCK FALSE
