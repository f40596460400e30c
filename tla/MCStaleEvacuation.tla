---- MODULE MCStaleEvacuation ----
EXTENDS StaleEvacuation
====
