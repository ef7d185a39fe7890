---- MODULE MCConnection ----
EXTENDS Connection
====
