--------------------------- MODULE MCPaymentOrders ---------------------------
(* PaymentOrders on the sets its configuration names.                      *)
EXTENDS PaymentOrders
=============================================================================
