------------------------------ MODULE MCVerify ------------------------------
(* Small trees for TLC: a directory with a file in it, and two more entries.   *)
EXTENDS Verify

CONSTANTS x, y, long, old, new

MCPaths == 1..4
MCParent == <<0, 1, 0, 0>>
MCContents == {x, y, long} \* x and y have one size
MCSizeOf == [c \in MCContents |-> IF c = long THEN 2 ELSE 1]
MCMetas == {old, new}

File(c, m) == [type |-> "file", content |-> c, meta |-> m]
\* A full source tree, and one with a file in the directory's place.
MCSources == {<<Directory, File(x, old), File(x, old), File(x, old)>>,
              <<File(x, old), Absent, Symlink, File(x, old)>>}
MCDestinations ==
    {<<Directory, b, c, d>> : b \in {Absent, File(x, old), File(long, new)},
                              c \in {Absent, File(x, new), File(y, old), Symlink},
                              d \in {File(x, old), Directory}}
    \cup {<<a, Absent, c, d>> : a \in {Absent, File(x, old)},
                                c \in {File(x, old), Symlink},
                                d \in {File(x, old), File(y, new)}}
MCTrees == {[s \in Sides |-> IF s = "source" THEN t ELSE u] : t \in MCSources, u \in MCDestinations}
\* No --exclude; the directory; its file and the entry after it.
MCExcludes == {{}, {1}, {2, 3}}
=============================================================================
