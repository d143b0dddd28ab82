--------------------------- MODULE MCControlPlane ---------------------------
(* Small instances of ControlPlane for TLC. *)
EXTENDS ControlPlane, TLC

CONSTANTS j1, j2, a1, a2, a3, h1, h2

OneJob == (j1 :> h1)
OneHarness == (j1 :> h1 @@ j2 :> h1)
OneSlotEach == (h1 :> 1 @@ h2 :> 1)
JobSymmetry == Permutations(Jobs) \cup Permutations(Attempts)
RetryNames == (1 :> a3 @@ 2 :> a2 @@ 3 :> a1)
DefaultNames == (1 :> a2 @@ 2 :> a1 @@ 3 :> a1)

=============================================================================
