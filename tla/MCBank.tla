------------------------------- MODULE MCBank -------------------------------
EXTENDS Bank, TLC
=============================================================================
