------------------------- MODULE MCVerificationQueue -------------------------
EXTENDS VerificationQueue, TLC

CONSTANTS A1, A2, A3, B1, B2, C1, D1

\* A chain of one block, and of three.
Line1 == A1 :> Genesis
Line3 == Line1 @@ (A2 :> A1) @@ (A3 :> A2)

\* Two branches, and two blocks more.
Branches == Line3 @@ (B1 :> Genesis) @@ (B2 :> B1) @@ (C1 :> Genesis) @@ (D1 :> Genesis)
==============================================================================
