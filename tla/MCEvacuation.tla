---- MODULE MCEvacuation ----
EXTENDS Evacuation
====
