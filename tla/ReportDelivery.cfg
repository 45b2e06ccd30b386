SPECIFICATION FairDeliverySpec
CONSTANTS
  Calls = {c1, c2, c3}
  Agents = {a1, outsider}
  Insiders = {a1}
  NoAgent = NoAgent
  NoCall = NoCall
INVARIANTS
  AnswersAgree
PROPERTIES
  FirstDeliveryStands
  EveryCallAnswered
\* Every call has been made and everybody is gone.
CHECK_DEADLOCK FALSE
