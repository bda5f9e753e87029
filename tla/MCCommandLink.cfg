SPECIFICATION FairSpec
CONSTANTS
  s1 = s1
  s2 = s2
  NoCommand = NoCommand
  Free = Free
  Socket <- MCSocket
  Command <- MCCommand
  Client <- MCClient
  ClientOf <- MCClientOf
  SequenceOf <- MCSequenceOf
  MaxAttempts = 2
  CacheSize = 1
INVARIANTS
  ExecutedInOrder
  AnswerIsRight
PROPERTIES
  FinalAnswerStays
  EveryCommandAnswered
