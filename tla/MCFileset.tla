----------------------------- MODULE MCFileset -----------------------------
(* Small rosters for TLC: the paths a plan can choose, with their renamed     *)
(* forms, one path that only the user knows, and a directory inside another.  *)
EXTENDS Fileset

CONSTANTS a, b, ra, rb, u, s1, s2, top, sub

MCNames == {a, b}
MCPaths == {a, b, ra, rb, u}
MCRename == [n \in MCNames |-> IF n = a THEN ra ELSE rb]
MCDirs == {top, sub}
MCDirsOf == [p \in MCPaths |->
                IF p \in {a, ra} THEN {top, sub} ELSE IF p = u THEN {top} ELSE {}]
MCModeOf == [p \in MCPaths |-> IF p = b THEN "ro" ELSE "rw"]
MCUserFiles == {u}
MCUserDirs == {sub}
MCSeeds == {s1, s2}
MCSeedsFor == [n \in 0..MaxOps |-> IF n % 2 = 0 THEN {s1} ELSE {s2}]
=============================================================================
