----------------------------- MODULE MCDashboard -----------------------------
(* Instances of Dashboard for TLC. *)
EXTENDS Dashboard, MCNixConfig, TLC

Str(s) == Value("str", <<s>>)

\* A file from its nodes; a set is given with the number of its entries.
At(place, path, value) == <<place, Node(path, value, 0)>>
SetAt(place, path, entries) == <<place, Node(path, SetValue, entries)>>
Ok(nodes) ==
    [state |-> "ok",
     root  |-> [p \in {n[1] : n \in nodes} |-> (CHOOSE n \in nodes : n[1] = p)[2]]]

\* Nested sets, with a toggle, a user's groups and, first of all, an inherit.
Nested == Ok({
    SetAt(<<>>, <<>>, 4),
    At(<<1>>, <<"imports">>, Value("inherit", <<>>)),
    SetAt(<<2>>, <<"networking">>, 1),
    At(<<2, 1>>, HostnamePath, Str("h1")),
    SetAt(<<3>>, <<"fortress">>, 2),
    At(<<3, 1>>, DomainPath, Str("d1")),
    SetAt(<<3, 2>>, <<"fortress", "services", "jellyfin">>, 1),
    At(<<3, 2, 1>>, ServicePath("jellyfin"), Value("bool", <<"true">>)),
    SetAt(<<4>>, UsersRoot, 1),
    SetAt(<<4, 1>>, <<"users", "users", "ann">>, 1),
    At(<<4, 1, 1>>, GroupsPath("ann"), Value("list", <<"wheel">>))})

\* Dotted paths, an undeclared host name, a toggle that is an expression, and a
\* user without groups.
Dotted == Ok({
    SetAt(<<>>, <<>>, 3),
    At(<<1>>, DomainPath, Str("d1")),
    At(<<2>>, ServicePath("jellyfin"), Value("other", <<"mkForce">>)),
    At(<<3>>, <<"users", "users", "ann", "hashedPassword">>, Str("x"))})

\* Services come from elsewhere, and something is bound below a user's groups.
Blocked == Ok({
    SetAt(<<>>, <<>>, 2),
    At(<<1>>, <<"fortress", "services">>, Value("other", <<"import">>)),
    At(<<2>>, <<"users", "users", "ann", "groups", "x">>, Value("other", <<"y">>))})

MCFiles == {Nested, Dotted, Blocked, [state |-> "bad", root |-> NoFile]}

Form(h, on, groups) ==
    [hostname |-> h, domain |-> "d1", on |-> on, groups |-> [u \in {"ann"} |-> groups]]
MCForms == {Form("h2", {"cryptpad"}, <<>>), Form("h1", {"jellyfin"}, <<"wheel", "media">>),
            Form("unterminated", {}, <<"wheel">>), Form("interpolated", {"jellyfin"}, <<>>)}

RequestSymmetry == Permutations(Reqs) \cup Permutations(Tokens)
MCServices == <<"jellyfin", "cryptpad">>
MCUsers == <<"ann">>
=============================================================================
