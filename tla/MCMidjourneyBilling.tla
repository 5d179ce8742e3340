------------------------ MODULE MCMidjourneyBilling ------------------------
(* MidjourneyBilling on the sets its configuration names.                  *)
EXTENDS MidjourneyBilling

\* From a subscription with a token, and a playground request from the wallet.
MCBills == {[source |-> "subscription", funding |-> 2, token |-> 2],
            [source |-> "wallet", funding |-> 2, token |-> 0]}
=============================================================================
