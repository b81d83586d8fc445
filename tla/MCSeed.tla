------------------------------- MODULE MCSeed -------------------------------
\* A finite instance of Seed for TLC.
EXTENDS Seed
=============================================================================
