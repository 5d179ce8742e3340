SPECIFICATION Spec
CONSTANTS
  Orders = {o1}
  Handlers = {h1, h2, h3}
  Instances = {i1}
  None = None
  MaxFaults = 2
INVARIANTS POTypeOK LockOrderWorks CreditedOnce SuccessMeansCredited
PROPERTIES FinalStatusIsFinal PaidIsCredited
CHECK_DEADLOCK FALSE
