----------------------------- MODULE MCProgram -----------------------------
EXTENDS Program
=============================================================================
