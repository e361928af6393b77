SPECIFICATION Spec
CONSTANTS
  MaxMessages = 4
  HeaderSize = 1
  Sizes <- Lengths
  PartialSends = {1, 2, 3, 4}
  MaxPartialSends = 2
  SendsFail = FALSE
INVARIANT DeliveredInOrder
