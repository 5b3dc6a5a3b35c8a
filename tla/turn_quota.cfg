SPECIFICATION FairSpec
CONSTANTS
  Alloc = {a1, a2}
  Username <- Names
  User <- Alice
  NoUser = "none"
  Principal <- PrincipalOfAlice
  Caps = {1, 2}
  MaxBytes = 1
  Expiry <- AliceExpiry
  Known <- Static
  Lifetime = 1
  MaxTime = 3
CHECK_DEADLOCK FALSE
INVARIANTS CountExact CapHolds MetricsAgree RevokeIsThorough NoRelayOutlivesItsCredential FullServerKeepsItsSessions
PROPERTY RequestIsDecided
