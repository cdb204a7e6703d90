------------------------ MODULE MCSerializeExchange ------------------------
EXTENDS SerializeExchange
=============================================================================
