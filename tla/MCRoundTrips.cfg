CONSTANTS
  Symbols = {"-"}
  Words = {"a", "p"}
  Quoted = {"Q"}
  Names = {"-", "p", "Q"}
  Priorities = {0, 200, 500}
  MaxOps = 2
  Declarations <- MCDeclarations
  Terms <- MCTerms
SPECIFICATION Spec
INVARIANT RoundTrips
