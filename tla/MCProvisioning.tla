--------------------------- MODULE MCProvisioning ---------------------------
(***************************************************************************)
(* Instances of Provisioning for TLC: two names and three keys.            *)
(***************************************************************************)
EXTENDS Provisioning, TLC

CONSTANTS n1, n2, k1, k2, k3

\* k2 is presented for either name.
SharedKeys == n1 :> {k1, k2} @@ n2 :> {k2}

\* The box behind n1 may rotate its key; the one behind n2 keeps it.
OwnKeys == n1 :> {k1, k2} @@ n2 :> {k3}

\* Handlers are interchangeable (used by safety runs only).
HandlerSymmetry == Permutations(Reqs)
=============================================================================
