SPECIFICATION FxSpec
CONSTANTS
  None = None
  Things = {a, b}
  Callers = {c, d}
  Two = {x, y}
  Codes = {one}
  Rail = rail
  MaxKeys = 3
  KYB_DOC_TYPES = {TAX_CERT}
  CERT_SUITES = {CREDIT_LEG}
  ALIAS_TYPES = {"PHONE", "GHANACARD"}
  MaxChallenges = 1
  OTP_MAX_ATTEMPTS = 1
  Rules <- TwoRules
  MaxSchedules = 3
  MaxTime = 2
  Amounts = {1, 2}
  DailyCap = 2
  MonthlyCap = 3
  Processes = {server}
  Subjects = {"named", "listed"}
  Entries = {"entry"}
  Direct <- SameAccount
  Strong <- SimilarName
  Blocking = {"entry"}
  CACHE_TTL = 1
  Hits = {1, 2, 3, 4}
  Cap = 2
  Knowing = {1, 3}
  Weights = {70, 90}
  MaxPayments = 3
  Dates = {a, b}
  Day = day
  Cases = {one}
  MaxRows = 4
  MaxJournals = 1
  Runs = {one}
  Deviations = {"missing", "amount", "state", "phantom"}
  Answers <- ThreeAnswers
  Asked = {7, 100}
  Sent <- TwoEnvelopes
  PayDigits = 2
  ReceiveDigits = 0
  SlippageCap = 50
  MaxQuotes = 2
SYMMETRY Symmetry
INVARIANTS
  NothingOfARefusedTransfer
CHECK_DEADLOCK FALSE
