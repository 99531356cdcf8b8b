\* One user with three requests and two tokens, then two users with one
\* request and three tokens.
CONSTANTS
  t1 = t1
  t2 = t2
  r1 = r1
  r2 = r2
  r3 = r3
  ann = ann
  bob = bob
  Tabs = {t1, t2}
  Requests = {r1, r2, r3}
  TabOf <- MCTabOf
  Accounts = {ann, bob}
  Nobody = Nobody
  MaxTokens = 3
SPECIFICATION ScenesSpec
INVARIANTS
  NoSelfInflictedReuse
  TokensStayHome
PROPERTIES
  RequestsEnd
