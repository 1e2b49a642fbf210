SPECIFICATION Spec
CONSTANTS
  None = None
  Catalogue <- MCCatalogue
  Payloads <- MCPayloads
  PricingRequests <- MCRequests
  LegacyRules <- MCLegacyRules
INVARIANTS
  OverrideWins
CHECK_DEADLOCK FALSE
