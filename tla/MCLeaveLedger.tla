---- MODULE MCLeaveLedger ----
EXTENDS LeaveLedger
TwoDaysEach == [r \in Requests |-> 2]
GrowingGrants == [g \in Grants |-> g]
TwoDayGrants == [g \in Grants |-> 2]
====
