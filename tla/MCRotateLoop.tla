--------------------------- MODULE MCRotateLoop ---------------------------
(* One name and its renamed form, so that TLC can follow long histories:      *)
(* several rotations, several faults, Init over an old fileset.               *)
EXTENDS RotateLoop

CONSTANTS a, ra, u, s1, s2, top

MCNames == {a}
MCPaths == {a, ra, u}
MCRename == [n \in MCNames |-> ra]
MCDirs == {top}
MCDirsOf == [p \in MCPaths |-> IF p = u THEN {} ELSE {top}]
MCModeOf == [p \in MCPaths |-> "ro"]
MCUserFiles == {u}
MCUserDirs == {}
MCSeeds == {s1, s2}
MCSeedsFor == [n \in 0..MaxOps |-> IF n % 2 = 0 THEN {s1} ELSE {s2}]
=============================================================================
