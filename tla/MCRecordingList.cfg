SPECIFICATION Spec
CONSTANTS
  Recs = {a}
  MaxVersion = 2
  MailMax = 3
  QueriesFail = TRUE
INVARIANTS
  TypeOK
  ListCatchesUp
  AmountIsRight
  ChangesAreShown
PROPERTIES
  KodiCatchesUp
