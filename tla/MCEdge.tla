------------------------------- MODULE MCEdge -------------------------------
(* Instances of Edge for TLC. *)
EXTENDS Edge

\* Bytes of two bits: one host byte in the tunnel net, two in the other.
MCV6 == [len |-> 4, min |-> 2, max |-> 6]
MCV4 == [len |-> 2, min |-> 1, max |-> 3]

Good == [flags |-> TRUE, dummy |-> FALSE, debug |-> FALSE, secrets |-> TRUE, smtp |-> "good",
         subnet |-> [octets |-> <<1, 2, 0, 0>>, len |-> 4],
         wg_subnet |-> [octets |-> <<1, 0>>, len |-> 2]]

\* A production edge, a development site, and launches that do not boot.
MCLaunches ==
    { <<"edge", Good>>,
      <<"site", [Good EXCEPT !.dummy = TRUE, !.debug = TRUE, !.secrets = FALSE]>>,
      <<"edge", [Good EXCEPT !.dummy = TRUE]>>,
      <<"site", [Good EXCEPT !.flags = FALSE]>>,
      <<"site", [Good EXCEPT !.smtp = "broken"]>>,
      <<"edge", [Good EXCEPT !.secrets = FALSE]>>,
      <<"edge", [Good EXCEPT !.subnet.len = 3]>>,
      <<"site", [Good EXCEPT !.wg_subnet.octets = <<1, 3>>]>> }
=============================================================================
