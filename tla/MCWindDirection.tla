-------------------------- MODULE MCWindDirection --------------------------
EXTENDS WindDirection

SomeValues == {-2, 0, 1, 5}
=============================================================================
