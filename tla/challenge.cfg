SPECIFICATION MCSpec
CONSTANTS
  Traders = {t1, t2}
  Guessers = {t2}
  Quote = {q1, q2}
  NoQuote = NoQuote
  Nobody = Nobody
  EmptyLine = EmptyLine
  OtherLine = OtherLine
  MaxChallenges = 2
  MaxLines = 2
INVARIANTS
  JudgingInv
  FirstCorrectWins
  NoAnswerAhead
PROPERTY EveryLineProcessed
