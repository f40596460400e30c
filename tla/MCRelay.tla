---- MODULE MCRelay ----
EXTENDS Relay
====
