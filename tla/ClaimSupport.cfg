SPECIFICATION Spec
CONSTANTS
  Urls = {a, b, c}
  SameSite = {b, c}
  MaxScrapes = 3
INVARIANTS OneEntryPerAddress NumberKeepsItsPage ExactIsGrounded CitationsResolve
