\* A wallet and a stranger, a store with room for one of them, and one disturbance
\* of any kind; every raw transaction one change away from some transaction of the
\* wallet, and two changes away from a standard one.
SPECIFICATION FairSpec
CONSTANTS
  Signer = {a1}
  Stranger = Stranger
  Bad = Bad
  ChainId = 1
  Chains = {1}
  Nonces = {0, 1, 2}
  Widths = {9, 17, 33}
  Cap = 1
  Ttl = 2
  MaxFaults = 1
  Nothing = Nothing
INVARIANTS AnswerFits NoQuietRejection EngineWithinProxy OneEncoding
PROPERTIES WedgeHeals
