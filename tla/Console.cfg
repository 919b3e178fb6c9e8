SPECIFICATION Spec
CONSTANTS
  None = None
  Account = {x, y}
  Solana = {y}
  Sample <- Texts
  Elsewhere <- Applications
  Remark <- Reasons
  Asset = {"usd1", "usd2", "point"}
  Network <- NetworkHere
  Places <- PlacesHere
  Unit <- Decimal
  Entered = {10, 15}
  Imported <- Drafts
  Wallet = {x1}
  Tab = {b1, b2}
  Owner = {o1, o2}
  Agent = {a1}
  Policy = {p1, p2}
  Target = {t1, t2}
  Run = {r1, r2}
  Path = {u1, u2}
  Profile = {f1, f2}
  Draft = Draft
  Plan = {q1, q2}
  Invoice = {v1, v2}
  Mine = v1
  Price = 2
  OtherPrice = 3
  Lifetime = 2
  Drift = 1
  MaxMembers = 2
  MaxSession = 2
  MaxFlows = 2
  MaxChallenges = 2
  MaxTime = 1
  MaxTokens = 2
  MaxChanges = 3
  MaxSigner = 3
  MaxBinding = 3
  MaxEdition = 2
  MaxEntered = 2
  MaxCases = 1
  MaxTyped = 1
  MaxResource = 2
  MaxVaults = 1
  MaxRuns = 1
  MaxTransfers = 2
  MaxAnswers = 1
SYMMETRY Symmetry
INVARIANTS
  ActsAsShown
  AnOwnerRemains
  OnlyGranted
  PoliciesKept
  NoKeyLost
  ShownIsCurrent
  AttestationHolds
  FormAgrees
  SignsWhatThePageShows
  VaultsAccountedFor
CHECK_DEADLOCK FALSE
