-------------------------- MODULE MCSerialTransfer --------------------------
\* The transfers of SerialTransfer with an empty file, one of a chunk and one
\* of two.
EXTENDS SerialTransfer

CONSTANTS x, y

MCFiles == {<<>>, <<x>>, <<x, y>>}
=============================================================================
