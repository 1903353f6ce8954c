------------------------------- MODULE MCHub -------------------------------
\* Hub with channels that fill up.
EXTENDS Hub
=============================================================================
