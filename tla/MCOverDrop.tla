----------------------------- MODULE MCOverDrop -----------------------------
EXTENDS OverDrop, TLC

CONSTANTS A, B, A2, ALong   \* editions of two files on the sender's disk

\* A2 is a later edition of A with the same length, ALong a longer one.
MCNameOf == [f \in Files |-> IF f = B THEN "b" ELSE "a"]
MCSizeOf == [f \in Files |-> IF f \in {ALong, B} THEN 3 ELSE 2]

TransferSymmetry == Permutations(Transfers)
=============================================================================
