CONSTANTS
    cyber = cyber  breach = breach
    Policies <- MCPolicies
    AnnualPremium <- MCAnnualPremium
    Measurements <- MCMeasurements
    MaxSnapshots = 2
    MaxCrashes = 1
    Offers <- MCOffers
    MaxRuns = 3
    MaxInvoices = 2
SPECIFICATION Spec
INVARIANTS GoldenThread OneUsableToken  OverageBilledOnce
CHECK_DEADLOCK FALSE
