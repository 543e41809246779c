\* Starting at the first task of a play that gathers no facts.
SPECIFICATION Spec
CONSTANTS
  NumHandlers = 1
  Cases <- StartFirstCases
INVARIANTS
  GathersOnlyIfAsked
