SPECIFICATION FairSpec
CONSTANTS
  g1 = g1
  g2 = g2
  w1 = w1
  w2 = w2
  q1 = q1
  back = back
  both = both
  None = None
  Gifts <- TwoGifts
  Campaign <- TwoGifts
  Creator = w1
  Wallets <- TwoWallets
  Limit = 1
  Txs <- TwoTxs
  Spends <- TwoSpends
  Pays <- TwoPays
  MaxCoins = 1
  Requests <- OneRequest
  MaxKills = 1
CHECK_DEADLOCK FALSE
INVARIANT TypeOK
INVARIANT MarksAreTrue
INVARIANT SentIsTrue
PROPERTY SweptIsClaimed
