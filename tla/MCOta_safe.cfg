SPECIFICATION FairSpec
CONSTANTS
  CHUNKS = 2
  Images = {"good", "damaged", "old"}
  Rejected = {"old"}
  Damaged = {"damaged"}
  None = None
INVARIANTS
  TypeOK
  IdleMeansFree
  AnswerNamesNext
PROPERTIES
  CommittedIsWhole
  TransferEnds
