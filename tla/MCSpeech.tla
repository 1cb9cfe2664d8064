------------------------------- MODULE MCSpeech -------------------------------
EXTENDS SpeechServer
===============================================================================
