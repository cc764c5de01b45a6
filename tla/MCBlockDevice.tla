--------------------------- MODULE MCBlockDevice ---------------------------
(* Small machines for TLC: two devices, two mount points of which none, one   *)
(* or both are in use before datasim runs.                                    *)
EXTENDS BlockDevice, TLC

CONSTANTS d1, d2

MCDevices == {d1, d2}
MCMounts == 1..2
\* Nothing mounted, a device of the user's at one mount point, one at both.
MCFirstMounts == {[m \in MCMounts |-> <<>>],
                  [m \in MCMounts |-> IF m = 1 THEN <<d1>> ELSE <<>>],
                  [m \in MCMounts |-> <<d1>>]}
MCNoMounts == {[m \in MCMounts |-> <<>>]}
MCOneMount == 1..1
MCOneFirst == {[m \in MCOneMount |-> <<>>]}
\* One device mounted over the other.
MCStackedMounts == MCNoMounts \cup {[m \in MCMounts |-> IF m = 1 THEN s ELSE <<>>] :
                                      s \in {<<d1, d2>>, <<d2, d1>>}}
\* Devices, and processes, differ in their names only.
MCSymmetry == Permutations(MCDevices) \cup Permutations(Procs)
=============================================================================
