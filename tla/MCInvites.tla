----------------------------- MODULE MCInvites -----------------------------
(***************************************************************************)
(* Two invites of two accounts: the first is dialed with two keys, the     *)
(* second with one.  Both may be approved under the same machine names.    *)
(***************************************************************************)
EXTENDS Invites, TLC

CONSTANTS c1, c2, k1, k2, k3, a1, a2

MCOwnerOf == [c \in Codes |-> IF c = c1 THEN a1 ELSE a2]
MCKeysOf == [c \in Codes |-> IF c = c1 THEN {k1, k2} ELSE {k3}]

\* Handlers and names are interchangeable, and so are the two keys of one box.
Interchangeable == Permutations(Reqs) \cup Permutations(Names) \cup Permutations({k1, k2})
=============================================================================
