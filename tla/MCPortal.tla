------------------------------ MODULE MCPortal ------------------------------
(***************************************************************************)
(* Portal for one person with one or two emails.                           *)
(***************************************************************************)
EXTENDS Portal, TLC

\* Nothing tells two emails, tokens, sessions or keys apart but what they stand for.
\* (For the action property only: symmetry is not sound for GetsIn.)
Alike == Permutations(Emails) \cup Permutations(Sessions) \cup Permutations(Links)
             \cup Permutations(Keys)

=============================================================================
