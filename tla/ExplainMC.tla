----------------------------- MODULE ExplainMC -----------------------------
EXTENDS Explain
=============================================================================
