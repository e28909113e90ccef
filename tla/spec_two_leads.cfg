SPECIFICATION Spec
CONSTANTS
  Plans <- MCTwoLeadPlans
  Events <- MCLedEvents
  Catalogue <- MCCatalogue
  Payloads <- MCPayloads
  CamelOf <- MCCamelOf
  Factor <- MCFactor
INVARIANT KernelsAgree
