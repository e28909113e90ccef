SPECIFICATION Spec
CONSTANTS
  Catalogue <- MCCatalogue
  Payloads <- MCPayloads
  CamelOf <- MCCamelOf
  Number <- MCNumber
  Alphabet <- MCAlphabet
  BranchNamed <- MCBranchNamed
  Likeness <- MCLikeness
  MomentumWords <- MCMomentumWords
  DigitWords <- MCDigitWords
  Documents <- MCDocuments
  Specs <- MCSpecs
  RevisionsOf <- MCRevisionsOf
  Keys = {"a", "2", "-", "*", "^", "(", ")"}
  MaxKeys = 7
  MaxOpen = 2
  SlipsOf <- MCSlipsOf
  EditsOf <- MCEditsOf
  MaxSlips = 2
INVARIANTS
  ConventionalReading
  AliasIsOneOperand
  CertifiesAccepted
  RoundTrip
  DiffSeesEdits
  CertificateSeesEdits
  RepairRestores
CHECK_DEADLOCK FALSE
