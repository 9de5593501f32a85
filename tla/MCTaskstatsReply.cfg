\* Every reply with an id and statistics of up to four words, with or without
\* padding.  After the walk the call returns.
SPECIFICATION FairSpec
CONSTANTS
  MaxWords = 4
  MsgWords = 16
INVARIANTS
  TypeOK
  ReadsAttributes
  StatisticsFound
PROPERTIES
  WalkEnds
CHECK_DEADLOCK FALSE
