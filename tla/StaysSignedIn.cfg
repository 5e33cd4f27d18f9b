SPECIFICATION VisitSpec
CONSTANTS
  r1 = r1
  r2 = r2
  k1 = k1
  k2 = k2
  a = a
  b = b
  ip = ip
  Unknown = Unknown
  Gone = Gone
  Unread = Unread
  Null = Null
  AppCodes = {999}
  Requests = {r1, r2}
  Handles <- Everything
  Keys = {k1, k2}
  Fee = 3
  MaxAttempts = 2
  MaxInvoices = 2
  MaxPayments = 2
  MaxCrashes = 1
  Accounts = {a, b}
  LimitOf <- Limits
  Window = 1
  MaxTime = 1
  MaxLogins = 3
  MaxRows = 2
  MaxLosses = 1
  MaxRenewals = 1
INVARIANT StaysSignedIn
CHECK_DEADLOCK FALSE
