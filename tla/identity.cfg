SPECIFICATION MCSpec
CONSTANTS
  Process = {p1, p2}
  u1 = u1
  Credential = {c1, c2}
  Configured = {c1}
  User = {u1}
  UserOf <- OneUser
  Key = {k1, k2}
  NoKey = NoKey
  Nobody = Nobody
  MaxOnDemand = 1
  Login = {login1, login2}
  Basic = Basic
  ClaudeKey = ClaudeKey
  CodexKey = CodexKey
  Proxy = {x1, x2}
  Self = Self
  Bad = Bad
  Unset = Unset
  Target = {site, other, localhost}
  Loopback = {localhost}
  Direct = Direct
  Failed = Failed
  Received <- OutboundRequests
  Cases <- OutboundCases
  Account = {a1, a2}
  Fixture = Fixture
  Unnamed = Unnamed
SYMMETRY Symmetry
CONSTRAINT FewKeys
INVARIANTS
  SignsOnlyAsItself
  OneProvenIdentity
  RoutesAreConfigured
  AnswersAreItsOwn
PROPERTIES
  RecordsAreKept
CHECK_DEADLOCK FALSE
