------------------------------- MODULE MCSender -------------------------------
EXTENDS Sender
=============================================================================
