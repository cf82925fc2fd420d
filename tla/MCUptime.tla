------------------------------ MODULE MCUptime ------------------------------
\* Instance of Uptime for TLC.
EXTENDS Uptime
=============================================================================
