------------------------------ MODULE MCMeasure -----------------------------
EXTENDS Measure, TLC

File(path) == [kind |-> "file", search |-> FALSE, path |-> path]
Dir(path) == [kind |-> "dir", search |-> FALSE, path |-> path]
DirSearch(path) == [kind |-> "dir", search |-> TRUE, path |-> path]

\* The list of /e is longer than that of the matches: a search reads on in it.
MCFilePaths == {"/a"}
MCListing == ("/d" :> <<"x">>) @@ ("/e" :> <<"y", "z", "w">>)
MCMatches == ("/[de]" :> <<"/d", "/e">>) @@ ("/n/.*" :> <<>>)
MCNoBase == {"/n/.*"}

\* p1 has a directory search, p2 a search in a directory that is not there, a
\* file and a directory, p3 a digest algorithm that is not supported.
MCManifest ==
  ("p1" :> <<DirSearch("/[de]")>>)
    @@ ("p2" :> <<DirSearch("/n/.*"), File("/a"), Dir("/e")>>)
    @@ ("p3" :> <<File("/a")>>)
MCDigest == ("p1" :> TRUE) @@ ("p2" :> TRUE) @@ ("p3" :> FALSE)
=============================================================================
