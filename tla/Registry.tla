------------------------------ MODULE Registry ------------------------------
(***************************************************************************)
(* What machine provisioning promises its callers, without handlers,       *)
(* Redis commands, crashes or restarts: a table of machines by name, whose *)
(* entries appear, change key and disappear in single steps, and indices   *)
(* each reserved once and for one name.  The promise ends (void) when an   *)
(* index is given back.  Provisioning implements it.                       *)
(***************************************************************************)
EXTENDS Integers

CONSTANTS Names, Keys, Indices, NoKey, NoName,
    Serial    \* whether operations on one name never overlap

VARIABLES
    entry,    \* the key and the index of each name; index 0 when it has none
    owner,    \* the name each index is reserved for
    void      \* whether an index has been given back

Empty == [key |-> NoKey, idx |-> 0]

Init ==
    /\ entry = [n \in Names |-> Empty]
    /\ owner = [i \in Indices |-> NoName]
    /\ void = FALSE

\* An index is reserved for a name, once.
Reserve(n, i) ==
    /\ owner[i] = NoName
    /\ owner' = [owner EXCEPT ![i] = n]
    /\ UNCHANGED <<entry, void>>

\* A name without an entry gets one, with an index reserved for it.
Register(n, k, i) ==
    /\ owner[i] = n /\ entry[n].idx = 0
    /\ entry' = [entry EXCEPT ![n] = [key |-> k, idx |-> i]]
    /\ UNCHANGED <<owner, void>>

\* A name gets a new key.  A rotation that overlaps a deletion may bring the
\* entry back, with an index the name had before.
Rotate(n, k, i) ==
    /\ owner[i] = n
    /\ Serial => entry[n].idx = i
    /\ entry' = [entry EXCEPT ![n] = [key |-> k, idx |-> i]]
    /\ UNCHANGED <<owner, void>>

\* An entry goes; the index stays reserved.
Release(n) ==
    /\ entry' = [entry EXCEPT ![n] = Empty]
    /\ UNCHANGED <<owner, void>>

\* An index is given back; without overlap nobody has a reason to.
GiveBack == ~Serial /\ void' = TRUE /\ UNCHANGED <<entry, owner>>

Next ==
    \/ \E n \in Names, i \in Indices :
        \/ Reserve(n, i)
        \/ \E k \in Keys : Register(n, k, i) \/ Rotate(n, k, i)
    \/ \E n \in Names : Release(n)
    \/ GiveBack

Spec == Init /\ [][void \/ Next]_<<entry, owner, void>>

=============================================================================
