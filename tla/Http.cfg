SPECIFICATION Spec
CONSTANTS
  Exchanges <- SomeExchanges
  BufferSize = 5
  IntMax = 31
  Room = 20
INVARIANTS
  TypeOK
  ResponseFaithful
  RequestFaithful
PROPERTIES
  SendReturns
