SPECIFICATION FairSpec
CONSTANTS
  MaxLogins = 2
  Requests = {r1, r2}
  Keyrings = {"absent", "works", "flaps"}
  None = none
INVARIANTS
  LoginIsReadBack
PROPERTIES
  HealsAfterLogin
