----------------------------- MODULE MCNixConfig -----------------------------
(* Documents on which TLC compares the walks of NixConfig with NixTree. *)
EXTENDS NixConfig

V(text) == Value("str", <<text>>)

\* Keys of one and of two names, bound to a value or to a small set.
Keys == {<<"a">>, <<"a", "b">>, <<"b">>, <<"a", "b", "a">>}
Small == {<<Entry(n, V("x"))>> : n \in Keys \ {<<"a", "b", "a">>}} \cup {<<>>, <<Inherit("b")>>}
Inner ==
    {V("x")}
    \cup {AttrSet(entries) : entries \in Small}
    \cup {AttrSet(<<Entry(<<"b">>, AttrSet(entries))>>) : entries \in Small}
Entries == {Entry(n, v) : n \in Keys, v \in Inner}

\* Documents of up to two entries, and files that are no set at all.
MCDocs ==
    {AttrSet(<<>>), V("x")}
    \cup {AttrSet(<<e>>) : e \in Entries} \cup {AttrSet(<<Inherit(n), e>>) : n \in {"a", "c"}, e \in Entries}
    \cup {AttrSet(<<e, f>>) : e, f \in Entries}
MCPaths == Keys \cup {<<"a", "b", "b">>}
MCNews == {V("y"), Value("unparsable", <<"z">>)}

\* The walks find, set, insert and list what NixTree says, in these documents
\* and after every edit of one.
ASSUME WalksAgree ==
    \A doc \in MCDocs :
        /\ Agree(doc, MCPaths, MCNews)
        /\ \A path \in MCPaths, new \in MCNews :
             \A d \in Edited(doc, path, new) : Agree(d, MCPaths, MCNews)

\* Nix accepts this file, with a set that is spread over two entries, and rejects
\* what set_attrpath makes of it when a box is ticked: descend follows the first
\* entry although the second one owns the path.
ASSUME SplitIsRejected ==
    LET doc == AttrSet(<<Entry(<<"fortress">>, AttrSet(<<Entry(<<"baseDomain">>, V("x"))>>)),
                         Entry(<<"fortress", "services">>, Value("other", <<"import">>))>>)
        edited == Edited(doc, ServicePath("jellyfin"), Value("bool", <<"true">>))
    IN  /\ Evaluates(TreeOf(doc))
        /\ edited # {} /\ \A d \in edited : ~Evaluates(TreeOf(d))

\* So it is with a file that inherits the set a ticked box belongs to: descend
\* passes over the inherit and adds a second binding of the same name.
ASSUME InheritIsRejected ==
    LET doc == AttrSet(<<Inherit("fortress")>>)
        edited == Edited(doc, ServicePath("jellyfin"), Value("bool", <<"true">>))
    IN  /\ Evaluates(TreeOf(doc))
        /\ edited # {} /\ \A d \in edited : ~Evaluates(TreeOf(d))
=============================================================================
