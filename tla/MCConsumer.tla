----------------------------- MODULE MCConsumer -----------------------------
EXTENDS Consumer

=============================================================================
