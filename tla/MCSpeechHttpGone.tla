--------------------------- MODULE MCSpeechHttpGone ---------------------------
EXTENDS SpeechServer
=============================================================================
