---------------------------- MODULE MCS3Fileset ----------------------------
(* Two names with their renamed forms and an object of the user's in the      *)
(* bucket.                                                                    *)
EXTENDS S3Fileset

CONSTANTS a, b, ra, rb, u, s1, s2

MCNames == {a, b}
MCPaths == {a, b, ra, rb, u}
MCRename == [n \in MCNames |-> IF n = a THEN ra ELSE rb]
MCModeOf == [p \in MCPaths |-> IF p = b THEN "ro" ELSE "rw"]
MCUserFiles == {u}
MCSeeds == {s1, s2}
MCSeedsFor == [n \in 0..MaxOps |-> IF n % 2 = 0 THEN {s1} ELSE {s2}]
=============================================================================
