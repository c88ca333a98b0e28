--------------------------- MODULE MCWebTransport ---------------------------
EXTENDS WebTransport
CONSTANTS s1, s2
=============================================================================
