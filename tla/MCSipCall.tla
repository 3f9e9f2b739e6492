----------------------------- MODULE MCSipCall -----------------------------
EXTENDS SipCall

\* The network may lose a message of any kind.
MCLosable == RequestKinds \cup ResponseKinds
=============================================================================
