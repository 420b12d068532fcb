---------------------------- MODULE MCValidation ----------------------------
EXTENDS Validation
=============================================================================
