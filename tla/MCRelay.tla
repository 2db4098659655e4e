------------------------------ MODULE MCRelay ------------------------------
EXTENDS Relay, TLC

\* Every client has a node key of its own.
MCKeyOf == [c \in Clients |-> c]
=============================================================================
