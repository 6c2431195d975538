SPECIFICATION MCSpec
CONSTANTS
  a1 = a1
  a2 = a2
  r1 = r1
  r2 = r2
  h1 = h1
  h2 = h2
  Advances <- MCAdvances
  Amount <- MCAmount
  Tenures = {2}
  Limits = {3}
  Rkds <- MCRkds
  Incentive <- MCIncentive
  Sale <- MCSale
  Periods = {1, 2}
  Repayments = {1}
  MaxRows = 3
  MaxAdvanced = 4
  MaxRepaid = 1
  Handlers <- MCHandlers
SYMMETRY MCSymmetry
INVARIANTS
  AdvanceBooksClose
  CreditMatchesAllocation
PROPERTIES
  CreditedIsPaid
CHECK_DEADLOCK FALSE
