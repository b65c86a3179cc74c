\* Two analyses, a cap of three calls and of three units of money.
CONSTANTS
    Callers = {c1, c2}
    Chain <- MCChain
    Estimates <- MCEstimates
    Costs <- MCCosts
    PerHour = 3
    PerDay = 3
SPECIFICATION Spec
INVARIANTS
    LedgerBalances
    
PROPERTIES
    EveryExplainEnds
