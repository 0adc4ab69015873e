------------------------------ MODULE NixConfig ------------------------------
(***************************************************************************)
(* The walks of the parser of the box's dashboard over a configuration     *)
(* file (crates/client/src/dashboard/nix_config_parser.rs), as the code    *)
(* makes them, and what it means that they find, set, insert and list what *)
(* NixTree says.                                                           *)
(*                                                                         *)
(* A document is nested the way it is written.  An attribute set is a      *)
(* sequence of entries; an entry binds an attribute path, which may have   *)
(* several names.  An inherit of several names is as many entries.         *)
(***************************************************************************)
EXTENDS NixTree

AttrSet(entries) == [kind |-> "set", entries |-> entries]
Entry(names, value) == [names |-> names, value |-> value]
Inherit(name) == Entry(<<name>>, Value("inherit", <<>>))

\* An Entry::AttrpathValue, which every walk wants.
Binds(e) == e.value.kind # "inherit"

IsAttrSet(v) == v.kind = "set"
First(S) == CHOOSE i \in S : \A j \in S : i <= j
Rest(path, names) == SubSeq(path, Len(names) + 1, Len(path))

-----------------------------------------------------------------------------
(***************************************************************************)
(* The walks.  A place is the sequence of entry numbers that leads to it.  *)
(***************************************************************************)

\* find_in_attrset: entries are tried in turn, sets behind a prefix as well.
RECURSIVE FindInAttrset(_, _)
FindInAttrset(set, path) ==
    LET Under(i) ==
            LET e == set.entries[i]
            IN  IF ~Binds(e) \/ ~IsPrefix(e.names, path) THEN {}
                ELSE IF e.names = path THEN {<<i>>}
                ELSE IF IsAttrSet(e.value)
                     THEN {<<i>> \o p : p \in FindInAttrset(e.value, Rest(path, e.names))}
                ELSE {}
        hits == {i \in DOMAIN set.entries : Under(i) # {}}
    IN  IF hits = {} THEN {} ELSE Under(First(hits))

\* descend: the first entry that shares the path decides.  The path is blocked
\* by an entry that binds it, or more of it, and by a value that is not a set.
RECURSIVE Descend(_, _)
Descend(set, path) ==
    LET Owns(i) == LET n == set.entries[i].names
                   IN  Binds(set.entries[i]) /\ (IsPrefix(n, path) \/ IsStrictPrefix(path, n))
        owners == {i \in DOMAIN set.entries : Owns(i)}
        e == set.entries[First(owners)]
    IN  IF owners = {} THEN {[place |-> <<>>, remaining |-> path]}
        ELSE IF ~IsStrictPrefix(e.names, path) \/ ~IsAttrSet(e.value) THEN {}
        ELSE {[place |-> <<First(owners)>> \o d.place, remaining |-> d.remaining] :
                d \in Descend(e.value, Rest(path, e.names))}

\* splice_span: one value is replaced where it stands.
RECURSIVE SpliceSpan(_, _, _)
SpliceSpan(v, place, new) ==
    IF place = <<>> THEN new
    ELSE [v EXCEPT !.entries[Head(place)].value = SpliceSpan(@, Tail(place), new)]

\* splice_entry: one entry is added after the last.
RECURSIVE SpliceEntry(_, _, _)
SpliceEntry(v, place, entry) ==
    IF place = <<>> THEN [v EXCEPT !.entries = Append(@, entry)]
    ELSE [v EXCEPT !.entries[Head(place)].value = SpliceEntry(@, Tail(place), entry)]

\* set_attrpath.
Edited(d, path, new) ==
    LET found == IF IsAttrSet(d) THEN FindInAttrset(d, path) ELSE {}
        points == IF IsAttrSet(d) THEN Descend(d, path) ELSE {}
    IN  IF new.kind = "unparsable" THEN {}
        ELSE IF found # {} THEN {SpliceSpan(d, p, new) : p \in found}
        ELSE {SpliceEntry(d, i.place, Entry(i.remaining, new)) : i \in points}

\* collect_child_keys: a longer key gives its next name, a shorter one is entered.
RECURSIVE CollectChildKeys(_, _)
CollectChildKeys(set, path) ==
    UNION {LET e == set.entries[i]
           IN  IF ~Binds(e) THEN {}
               ELSE IF IsStrictPrefix(path, e.names) THEN {e.names[Len(path) + 1]}
               ELSE IF IsPrefix(e.names, path) /\ IsAttrSet(e.value)
                    THEN CollectChildKeys(e.value, Rest(path, e.names))
               ELSE {} : i \in DOMAIN set.entries}

-----------------------------------------------------------------------------
(***************************************************************************)
(* The tree of a document, for NixTree.                                    *)
(***************************************************************************)

RECURSIVE Nodes(_, _, _)
Nodes(v, place, path) ==
    IF ~IsAttrSet(v) THEN {<<place, Node(path, v, 0)>>} ELSE
    {<<place, Node(path, SetValue, Len(v.entries))>>}
    \cup UNION {Nodes(v.entries[i].value, Append(place, i), path \o v.entries[i].names) :
                  i \in DOMAIN v.entries}

TreeOf(v) ==
    LET nodes == Nodes(v, <<>>, <<>>)
    IN  [p \in {n[1] : n \in nodes} |-> (CHOOSE n \in nodes : n[1] = p)[2]]

-----------------------------------------------------------------------------
(***************************************************************************)
(* The walks against NixTree.                                              *)
(***************************************************************************)

\* In a document of any shape, with sets nested, dotted or spread over several
\* entries, find_in_attrset finds the first value at the path in the text.
FindsTheFirst(doc, path) ==
    (IF IsAttrSet(doc) THEN FindInAttrset(doc, path) ELSE {}) = FindValueNode(TreeOf(doc), path)

\* set_attrpath changes that value or adds one entry in the set its walk ends
\* at, and nothing else anywhere in the file.
EditsTheTree(doc, path, new) ==
    {TreeOf(d) : d \in Edited(doc, path, new)} = SetAttrpath(TreeOf(doc), path, new)

\* collect_child_keys lists the same users whichever way they are written.
ListsTheKeys(doc, path) ==
    (IF IsAttrSet(doc) THEN CollectChildKeys(doc, path) ELSE {}) = AttrsetKeys(TreeOf(doc), path)

Agree(doc, paths, news) ==
    \A path \in paths :
        /\ FindsTheFirst(doc, path) /\ ListsTheKeys(doc, path)
        /\ \A new \in news : EditsTheTree(doc, path, new)
=============================================================================
