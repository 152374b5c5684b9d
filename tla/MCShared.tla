------------------------------ MODULE MCShared ------------------------------
EXTENDS Shared

MCPaths == {<<"a">>, <<".h">>, <<"sub">>, <<"sub", "index.html">>,
            <<"sub", "b">>, <<"sub", "B">>, <<"sub", "dir">>}
MCRank  == [a |-> 2, b |-> 3, B |-> 3, dir |-> 4, sub |-> 6] @@
           (".h" :> 1) @@ ("index.html" :> 5)

Tree(n, d) == [p \in MCPaths |->
    CASE p = <<"sub">> -> Dir
      [] p \in {<<"a">>, <<"sub", "b">>} -> File(n)
      [] p = <<"sub", "dir">> -> d
      [] p \in {<<".h">>, <<"sub", "index.html">>} /\ d = Dir -> File(n)
      [] OTHER -> None]

MCTrees == {Tree(n, d) : n \in {0, 1, 2, 3, 4, 7, 16, 31, 32, 63, 64, 200}, d \in {Dir, None}}
=============================================================================
