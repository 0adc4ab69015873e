------------------------------- MODULE NixTree -------------------------------
(***************************************************************************)
(* The configuration file the box's dashboard edits, and what its parser   *)
(* (crates/client/src/dashboard/nix_config_parser.rs) promises to find,    *)
(* set and insert in it.  The module NixConfig has the walks that do so.   *)
(*                                                                         *)
(* A file is the tree its text parses to: a function from places to nodes. *)
(* A place is the sequence of entry numbers that leads to it, because the  *)
(* parser takes the first entry that matches; the empty place is the       *)
(* file's own expression.  A node has its full attribute path, however the *)
(* file spreads that over dotted names and nested sets.  A name that an    *)
(* inherit binds is a node of its own kind, which Nix counts and the       *)
(* parser skips.  An edit replaces the text of one value or adds one       *)
(* entry, so what else the text says is not modelled.                      *)
(***************************************************************************)
EXTENDS Integers, Sequences, SequencesExt

CONSTANTS
    Services,     \* SERVICE_LIST, in its order
    Users         \* user names a file may declare, in alphabetical order

\* The names and texts this module writes out; no backend of the provers knows
\* which values are strings.
ASSUME Literals ==
    {"networking", "hostName", "fortress", "baseDomain", "services", "enable",
     "users", "groups", "true", "false"} \subseteq STRING

\* A value: an attribute set, or something the dashboard reads as a boolean, a
\* string or a list of strings, or anything else; "inherit" is what an inherit
\* binds its name to.
Value(kind, text) == [kind |-> kind, text |-> text]
SetValue == Value("set", <<>>)
Kinds == {"set", "bool", "str", "list", "other", "unparsable", "inherit"}
Node(path, value, entries) == [path |-> path, value |-> value, entries |-> entries]

IsSet(node) == node.value.kind = "set"
Within(tree) == DOMAIN tree \ {<<>>}
Inherited(tree) == {p \in Within(tree) : tree[p].value.kind = "inherit"}
Children(tree, p) == {q \in Within(tree) : Front(q) = p}

\* Sets have entries, and an entry binds more of the path than its set.
IsTree(tree) ==
    /\ DOMAIN tree \subseteq Seq(Nat) /\ <<>> \in DOMAIN tree
    /\ \A p \in DOMAIN tree :
         tree[p] \in [path : Seq(STRING), value : [kind : Kinds, text : Seq(STRING)], entries : Nat]
    /\ tree[<<>>].path = <<>>
    /\ \A p \in Within(tree) :
         /\ Front(p) \in DOMAIN tree /\ IsSet(tree[Front(p)])
         /\ Last(p) <= tree[Front(p)].entries
         /\ IsStrictPrefix(tree[Front(p)].path, tree[p].path)

-----------------------------------------------------------------------------
(***************************************************************************)
(* Looking up.  An operator that may find nothing returns a set of at most *)
(* one element.  Every walk passes over an inherit.                        *)
(***************************************************************************)

\* Document order.
Before(p, q) ==
    \E k \in DOMAIN p \cap DOMAIN q :
        p[k] < q[k] /\ \A j \in 1..(k - 1) : p[j] = q[j]

\* find_value_node: the first node with this path, dotted or nested.
FindValueNode(tree, path) ==
    LET hits == {p \in Within(tree) \ Inherited(tree) : tree[p].path = path}
    IN  {p \in hits : \A q \in hits \ {p} : Before(p, q)}

FindAttrpath(tree, path) == {tree[p].value : p \in FindValueNode(tree, path)}

\* The entries of a set that share the path: they bind a part of it, or more.
Owners(tree, p, path) ==
    {q \in Children(tree, p) \ Inherited(tree) :
        IsPrefix(tree[q].path, path) \/ IsStrictPrefix(path, tree[q].path)}

\* insert_point: at every set on the way the first owner is followed, and it
\* must be a set and bind less than the path; the home of the new entry is
\* the set where nothing shares the path any more.
InsertPoint(tree, path) ==
    LET Descends(q) ==
            /\ \A o \in Owners(tree, Front(q), path) : Last(q) <= Last(o)
            /\ IsStrictPrefix(tree[q].path, path)
    IN  {p \in DOMAIN tree :
            /\ IsSet(tree[p]) /\ Owners(tree, p, path) = {}
            /\ \A k \in DOMAIN p : Descends(SubSeq(p, 1, k))}

-----------------------------------------------------------------------------
(***************************************************************************)
(* Editing.                                                                *)
(***************************************************************************)

\* splice_span: one value, with all that is below it, is replaced.
WithValue(tree, p, value) ==
    [q \in {q \in DOMAIN tree : ~IsStrictPrefix(p, q)} |->
        IF q = p THEN Node(tree[p].path, value, 0) ELSE tree[q]]

\* splice_entry: one entry is added after the last.
WithEntry(tree, p, path, value) ==
    LET new == Append(p, tree[p].entries + 1)
    IN  [q \in DOMAIN tree \cup {new} |->
            IF q = new THEN Node(path, value, 0)
            ELSE IF q = p THEN Node(tree[p].path, tree[p].value, tree[p].entries + 1)
            ELSE tree[q]]

\* quote_nix_string escapes quotes and backslashes and no "${": such a string
\* is read back as an interpolation, or not at all when its brace is open.
Quote(text) ==
    CASE text = "interpolated" -> Value("other", <<text>>)
      [] text = "unterminated" -> Value("unparsable", <<text>>)
      [] OTHER -> Value("str", <<text>>)

\* A list is written string by string, and read as one only if all of them are.
QuoteList(texts) ==
    Value(IF "unterminated" \in Range(texts) THEN "unparsable"
          ELSE IF "interpolated" \in Range(texts) THEN "other" ELSE "list", texts)

\* set_attrpath: the files it may yield, none when the path is blocked or the
\* result does not parse.
SetAttrpath(tree, path, new) ==
    LET found == FindValueNode(tree, path)
    IN  IF new.kind = "unparsable" THEN {}
        ELSE IF found # {} THEN {WithValue(tree, p, new) : p \in found}
        ELSE {WithEntry(tree, p, path, new) : p \in InsertPoint(tree, path)}

-----------------------------------------------------------------------------
(***************************************************************************)
(* What the dashboard shows of a file.                                     *)
(***************************************************************************)

HostnamePath == <<"networking", "hostName">>
DomainPath == <<"fortress", "baseDomain">>
ServicePath(s) == <<"fortress", "services", s, "enable">>
UsersRoot == <<"users", "users">>
GroupsPath(u) == <<"users", "users", u, "groups">>

\* attrset_keys: the names bound directly under a path, in either form.
AttrsetKeys(tree, path) ==
    {tree[p].path[Len(path) + 1] :
        p \in {q \in Within(tree) \ Inherited(tree) : IsStrictPrefix(path, tree[q].path)}}

\* The text of a value of the kind asked for; {} when there is none.
Read(tree, path, kind) == {v.text : v \in {w \in FindAttrpath(tree, path) : w.kind = kind}}

\* FortressConfig::extract.
Extract(tree) ==
    [hostname |-> Read(tree, HostnamePath, "str"),
     domain   |-> Read(tree, DomainPath, "str"),
     enabled  |-> [s \in Range(Services) |-> Read(tree, ServicePath(s), "bool")],
     groups   |-> [u \in AttrsetKeys(tree, UsersRoot) |-> Read(tree, GroupsPath(u), "list")]]

-----------------------------------------------------------------------------
(***************************************************************************)
(* The reference: what Nix makes of a file.                                *)
(***************************************************************************)

\* The values that are not sets.
Leaves(tree) == {p \in Within(tree) : ~IsSet(tree[p])}
Bindings(tree) == {<<tree[p].path, tree[p].value>> : p \in Leaves(tree)}

\* Nix merges sets, and rejects a file that binds a path twice or below a value,
\* an inherited one included.
Evaluates(tree) ==
    \A p, q \in Leaves(tree) : p # q => ~IsPrefix(tree[p].path, tree[q].path)

\* No set is spread over several entries: of two entries of a set neither binds
\* a part of what the other binds.
Unsplit(tree) ==
    \A p, q \in Within(tree) :
        p # q /\ Front(p) = Front(q) => ~IsPrefix(tree[p].path, tree[q].path)

\* The paths a save edits, and a file no inherit of which binds one of them or
\* something above or below it.
EditedPaths ==
    {HostnamePath, DomainPath} \cup {ServicePath(s) : s \in Range(Services)}
                               \cup {GroupsPath(u) : u \in Range(Users)}
Clear(tree, path) ==
    \A p \in Inherited(tree) : ~IsPrefix(tree[p].path, path) /\ ~IsPrefix(path, tree[p].path)
Tidy(tree) == Unsplit(tree) /\ \A path \in EditedPaths : Clear(tree, path)
=============================================================================
