----------------------------- MODULE MCConfirms -----------------------------
EXTENDS Confirms

=============================================================================
