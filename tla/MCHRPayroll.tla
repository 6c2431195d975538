----------------------------- MODULE MCHRPayroll -----------------------------
(* Two advances, two RKD requests for one sale, two months, two handlers.     *)
EXTENDS HRPayroll, TLC

CONSTANTS a1, a2, r1, r2, h1, h2,
          MaxRows,       \* advances, RKD requests and payslips of one behaviour
          MaxAdvanced,   \* money paid into the wallet in one behaviour
          MaxRepaid      \* money repaid by hand in one behaviour

MCAdvances == {a1, a2}
MCAmount == [a \in MCAdvances |-> 2]
MCRkds == {r1, r2}
MCIncentive == [r \in MCRkds |-> IF r = r1 THEN 1 ELSE 2]
MCSale == [r \in MCRkds |-> "s"]
MCHandlers == {h1, h2}
MCSymmetry == Permutations(MCHandlers) \cup Permutations(MCAdvances)

WithinBounds ==
    /\ Cardinality({a \in Advances : advance[a].status # "none"})
         + Cardinality({r \in Rkds : rkd[r].status # "none"})
         + Cardinality({m \in Periods : Exists(m)}) <= MaxRows
    /\ entries.advanced <= MaxAdvanced
    /\ entries.fromWallet + entries.outside <= MaxRepaid

MCNext == PayrollNext /\ WithinBounds'
MCSpec == PayrollInit /\ [][MCNext]_payrollVars
=============================================================================
