CONSTANTS
  Claims <- MCClaims
  Terms <- MCTerms
  Slots <- MCSlots
  NoSlot = "none"
  Tokens <- MCTokens
  Slot <- MCSlot
  Session <- MCSession
  SessionDate <- MCSessionDate
  Accepted <- MCAccepted
  Event <- MCEvent
  QuestionDate = 20240310
  Phrase <- MCPhrase
  Perspective = "bitemporal"
  Years <- MCYears
  FirstWeekday = 6
  Questions <- MCQuestions
  Turn <- MCTurn
  Chars <- MCChars
  AsOf = 3
  Caps <- MCCaps
  Budget = 4
  Holds <- MCHolds
  Superseded <- MCSuperseded
  Question <- MCQuestion
  Missing <- MCMissing
  AbstainTiers = {}
SPECIFICATION AskSpec
CHECK_DEADLOCK FALSE
INVARIANTS
  AnswersFromOneSnapshot
  NoFalseAbsence
  PerspectiveIsKept
  PhraseNamesTheLatest
  HuntLosesNothing
PROPERTY
  IsAnswered
