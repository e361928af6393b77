SPECIFICATION ExchangeFairSpec
CONSTANTS
  MaxMessages = 3
  HeaderSize = 1
  Sizes <- AllSizes
  PartialSends = {2, 3}
  MaxPartialSends = 2
  SendsFail = TRUE
  Sizeof <- Bytewise
  Base = 8
  Outside = Outside
  Objects <- SomeObjects
  Exchanges <- SomeExchanges
  TypeIds <- Ids
  Copies <- AllCopies
INVARIANTS StreamInv ReadsStayInside FieldsBeforeString
PROPERTIES ImplementsChannel ImplementsObjectChannel EventuallyDelivered
