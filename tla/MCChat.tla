------------------------------- MODULE MCChat -------------------------------
(* A customer with two tabs, and a vendor who reads on the website's page. *)
EXTENDS Chat

CONSTANTS customer, vendor, c1, c2

MCPartyOf == [s \in Socket |-> customer]

=============================================================================
