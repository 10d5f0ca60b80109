------------------------------ MODULE MCDelivery ------------------------------
EXTENDS Delivery

CONSTANTS d1, d2

\* d1 is a reply to a sender that drops repeated keys, d2 a guarded alert to one
\* that does not.
D == {d1, d2}
First == {d1}
Second == {d2}
=============================================================================
