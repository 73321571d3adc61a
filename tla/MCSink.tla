---- MODULE MCSink ----
EXTENDS Sink
=============================================================================
