SPECIFICATION Spec
CONSTANTS
  Plans <- MCPlans
  Events <- MCEvents
  Catalogue <- MCCatalogue
  Payloads <- MCPayloads
  CamelOf <- MCCamelOf
  Factor <- MCFactor
INVARIANTS
  KernelsAgreeOutsideGaps
  SupportedNeverFails
  ReadsSuffice
  AcceptedLowers
  FilledOncePerVariant
  ExcludedDisjoint
  NearestIsNearest
  UnionRows
