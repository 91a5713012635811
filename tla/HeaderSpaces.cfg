CONSTANTS
  Width = 3
  Operands <- MCOperands
  Changers <- MCChangers
  Hops <- MCHops
  MaxElements = 2
  MaxDiffs = 2
SPECIFICATION Spec
INVARIANTS
  TypeOK
  AlgebraExact
  RewritingKeeps
  PathDomainExact
  ComparisonsExact
