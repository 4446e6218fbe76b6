----------------------------- MODULE MCManagement -----------------------------
(* Tunnels, names, tokens and requests are interchangeable.                *)
EXTENDS Management, TLC

CONSTANTS i1, i2, n1, n2, k1, k2, k3, r1, r2

Symmetry == Permutations({i1, i2}) \cup Permutations({n1, n2})
            \cup Permutations({k1, k2, k3}) \cup Permutations({r1, r2})

Periods == {0, 1}
=============================================================================
