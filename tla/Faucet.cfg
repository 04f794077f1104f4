SPECIFICATION FairSpec
CONSTANTS
  r1 = r1
  r2 = r2
  r3 = r3
  Requests = {r1, r2, r3}
  Spellings <- MCSpellings
  Lower <- MCLower
  Invalid = Invalid
  Signer = "0xfa"
  Calls <- MCCalls
  NoRequest = NoRequest
  Cooldown = 1
  MaxTime = 2
  MaxRestarts = 1
INVARIANTS
  LockoutMeansFunded
  OneDripPerCooldown
  NonceNotReused
  GrantedIsFunded
PROPERTY
  RequestsReturn
