----------------------------- MODULE MCHostStack -----------------------------
EXTENDS HostStack

=============================================================================
