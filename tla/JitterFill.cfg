SPECIFICATION FairFillSpec
CONSTANTS
  Capacity = 4
  MaxBlock = 3
  MaxOffered = 8
  Word = 64
  Observers = {"network", "callback"}
INVARIANT TypeOK
INVARIANT WindowsDisjoint
INVARIANT DeliveredInOrder
INVARIANT LossIsCounted
INVARIANT OwnersSeeTrueFill
PROPERTY ImplementsFifo
PROPERTY AcceptedIsDelivered
