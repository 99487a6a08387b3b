SPECIFICATION Spec

CONSTANTS
  LAST_NONCE_PAGE = 2
  SIGNATURE_PAGES = 2
  SIGN_ATTEMPTS = 2
  CmdCap = 4
  MaxRounds = 2

INVARIANTS
  RefusedResent
