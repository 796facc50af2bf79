SPECIFICATION SystemSpec
CONSTANTS
  Keys = {phone, desk}
  Keeps = phone
  SignsSets = {phone}
  Owner = owner
  Policies = 2
  LastSeed = 3
  MaxTables = 4
  Budgets <- MCBudgets
  Venues = {orca, byreal}
  Staged = {byreal}
  Spares <- MCSpares
INVARIANTS TypesOK AnswerPassesPage BotActsLast OneTable RevokedStays
PROPERTIES FundsWhole NeverPaidAgain Registers StaysClosed
CHECK_DEADLOCK FALSE
