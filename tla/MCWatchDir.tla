---------------------------- MODULE MCWatchDir -----------------------------
EXTENDS WatchDir

\* Nothing below the root, a directory, and one in it.
MCTrees == {{<<>>}, {<<>>, <<"a">>}, {<<>>, <<"a">>, <<"a", "b">>}}
MCIgnored == {<<"b">>}
MCNone == {}
=============================================================================
