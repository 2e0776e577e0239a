---------------------------- MODULE MCBufferList ----------------------------
EXTENDS BufferList

MCStrings == { << >>, <<1>>, <<2, 3>> }
=============================================================================
