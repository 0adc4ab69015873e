------------------------------- MODULE MCBox -------------------------------
(* Instances of Box for TLC. *)
EXTENDS Box

CONSTANT c1

Shape(t, i, f, n, a) == [tunnel |-> t, invite |-> i, forwards |-> f, needs |-> n, admin |-> a]

\* Shipped with an invite, with a static tunnel, to be claimed, without
\* forwards; and the refused ones: both, a malformed invite, no credential.
MCConfigs ==
    { Shape(FALSE, c1, TRUE, TRUE, TRUE),
      Shape(TRUE, None, TRUE, TRUE, TRUE),
      Shape(FALSE, None, TRUE, TRUE, TRUE),
      Shape(FALSE, None, FALSE, FALSE, TRUE),
      Shape(TRUE, c1, TRUE, TRUE, TRUE),
      Shape(FALSE, "bad", TRUE, TRUE, TRUE),
      Shape(FALSE, c1, TRUE, TRUE, FALSE) }
=============================================================================
