------------------------------ MODULE SavesMC ------------------------------
EXTENDS Saves
=============================================================================
