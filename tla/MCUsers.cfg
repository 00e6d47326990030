CONSTANTS
    boss = boss  freelancer = freelancer
    Accounts <- MCAccounts
    RoleAtStart <- MCRoleAtStart
    CountriesUsed <- MCCountries
    CurrenciesUsed <- MCCurrencies
    MaxAudit = 3
SPECIFICATION UsersSpec
INVARIANTS AuditExplainsRoles OnlyExecutivesAct PayableNeedsElevation
