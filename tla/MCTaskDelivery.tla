--------------------------- MODULE MCTaskDelivery ---------------------------
EXTENDS TaskDelivery

CONSTANTS t1, c1, c2

\* A rolling deployment: the second process does not know the endpoint of t1.
OlderProcess == {<<c2, t1>>}

=============================================================================
