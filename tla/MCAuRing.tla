------------------------------ MODULE MCAuRing ------------------------------
EXTENDS AuRing

\* One size that fits everywhere, one that fits a slot and not the sender's
\* buffer, one that fits neither.
MCSizes == {1, 2, 3}
=============================================================================
