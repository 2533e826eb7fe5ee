------------------------------ MODULE MCMemIDir ------------------------------
EXTENDS MemIDir
MCMaxLink == 2
====
