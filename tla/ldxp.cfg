\* Two sessions of one or two users, one shop order they may share, two requests
\* at a time, one fault, with and without mail, on both kinds of database.
SPECIFICATION Spec
CONSTANTS
    u1 = u1
    u2 = u2
    Users = {u1, u2}
    Requests <- MCRequests
    Sessions = {1, 2}
    ShopOrders = {o1}
    MaxCalls = 2
    None = None
    MaxFaults = 1
INVARIANT LSTypeOK OrderCreditedOnce SuccessMeansCredited CreditNeedsPayment
PROPERTY PaymentIsNotUndone PaidIsCredited
