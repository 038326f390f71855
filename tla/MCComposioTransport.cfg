CONSTANTS
  c1 = c1
  c2 = c2
  Callers = {c1, c2}
  comment = comment
  opA = opA
  opB = opB
  textA = textA
  textB = textB
  NoRequest = NoRequest
  Requests <- AllKinds
SPECIFICATION FairSpec
INVARIANT DeliveredAtMostOnce
PROPERTIES ImplementsPromise CallsEnd
