--------------------------- MODULE MCSpeechWedgeUnseen ---------------------------
EXTENDS SpeechServer
=============================================================================
