\* An approved request allocated to a payslip that is already approved.
SPECIFICATION MCSpec
CONSTANTS
  a1 = a1
  a2 = a2
  r1 = r1
  r2 = r2
  h1 = h1
  h2 = h2
  Advances <- MCAdvances
  Amount <- MCAmount
  Tenures = {2}
  Limits = {3}
  Rkds <- MCRkds
  Incentive <- MCIncentive
  Sale <- MCSale
  Periods = {1, 2}
  Repayments = {}
  MaxRows = 2
  MaxAdvanced = 4
  MaxRepaid = 1
  Handlers <- MCHandlers
INVARIANT
  PaidSlipIncludesItsRkd
CHECK_DEADLOCK FALSE
