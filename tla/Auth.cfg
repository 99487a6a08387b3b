SPECIFICATION LiveSpec

CONSTANTS
  LAST_NONCE_PAGE = 2
  SIGNATURE_PAGES = 3
  SIGN_ATTEMPTS = 2
  CmdCap = 5
  MaxRounds = 2

INVARIANTS
  TypeOK
  SignatureForNonce
  LaterPagesResent
  SigningBudget

PROPERTIES
  RoundsKept
  BackToCommands
