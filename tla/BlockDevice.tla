----------------------------- MODULE BlockDevice -----------------------------
(***************************************************************************)
(* datasim block-device format and destroy, of                             *)
(* internal/filesystem/manager.go, over the state document of StateStore.  *)
(* Each command is a sequence of external commands (findmnt, umount, mkfs, *)
(* mount, wipefs, or one PowerShell script) and updates of the document;   *)
(* several datasim processes may run at a time, any step may fail, and a   *)
(* process may be killed between any two of them.                          *)
(*                                                                         *)
(* The machine is modelled from how the code uses it: a mount point holds  *)
(* a stack of mounts, umount takes the top one off, mount adds one.        *)
(* Somebody may mount by hand meanwhile.                                   *)
(***************************************************************************)
EXTENDS StateStore, Sequences

CONSTANTS
    Platform,    \* runtime.GOOS
    FirstMounts, \* what may be mounted before datasim runs: functions on Mounts
    NoDevice,    \* no device
    Enclosing,   \* what findmnt --target says of a directory that is no mount point:
                 \* the device of the filesystem it lies in, or NoDevice
    MaxOps,      \* bound on the commands begun
    MaxFaults    \* bound on failures, kills, reboots and mounts by others

ASSUME PlatformAssumption == Platform \in {"linux", "windows"}
ASSUME FirstAssumption == FirstMounts \subseteq [Mounts -> Seq(Devices)]
ASSUME NoDeviceAssumption == NoDevice \notin Devices /\ Enclosing \notin Devices
ASSUME BoundAssumption == MaxOps \in Nat /\ MaxFaults \in Nat

Commands == [kind : {"format", "destroy"}, mount : Mounts,
             device : Devices \cup {NoDevice}, force : BOOLEAN]
NoCommand == [kind |-> "none"]

VARIABLES
    mounts, \* mounts[m]: the devices mounted at m, the visible one last
    ready,  \* devices that hold a filesystem
    made,   \* mount points that are there as directories
    pc,     \* pc[p]: what p does next
    cmd,    \* cmd[p]: the command p runs
    todo,   \* todo[p]: mount points Format has yet to unmount
    record, \* record[p]: the device Destroy found for its mount point
    popped, \* popped[p]: the device that p's umount has unmounted
    ops,    \* commands begun so far
    faults, \* failures, kills, reboots and mounts by others so far
    formatted, \* what Format has mounted so far, kept for the properties
    unseen  \* unseen[p]: mount points where there may be mounts that p's lookups have not
            \* told it of, kept for the properties

machineVars == <<mounts, ready, made, formatted>>
commandVars == <<cmd, todo, record, popped>>
procVars == <<commandVars, unseen>>
vars == <<storeVars, machineVars, procVars, pc, ops, faults>>

Steps == {"idle",
          "source", "targets", "unmount", "mkfs", "mount",      \* Format on Linux
          "checkMount", "checkDevice", "script", "path",        \* Format on Windows
          "get", "lookup", "umount", "wipe",                    \* Destroy
          "dropDevice", "openFirst", "writeFirst", "renameFirst", \* the document, twice for Format
          "putRecord", "dropMount", "open", "write", "rename"}

Init ==
    /\ StoreInit
    /\ mounts \in FirstMounts
    /\ ready = UNION {{mounts[m][i] : i \in DOMAIN mounts[m]} : m \in Mounts}
    /\ made = {m \in Mounts : mounts[m] # <<>>}
    /\ pc = [p \in Procs |-> "idle"]
    /\ cmd = [p \in Procs |-> NoCommand]
    /\ todo = [p \in Procs |-> {}]
    /\ record = [p \in Procs |-> NoDevice]
    /\ popped = [p \in Procs |-> NoDevice]
    /\ ops = 0
    /\ faults = 0
    /\ formatted = {}
    /\ unseen = [p \in Procs |-> {}]

-----------------------------------------------------------------------------
(* Processes and mounts *)

Goto(p, step) == pc' = [pc EXCEPT ![p] = step]

Forgotten(f, gone, value) == [q \in Procs |-> IF q \in gone THEN value ELSE f[q]]

\* Processes that end, in whatever way, know nothing any more.
EndProcs(gone) ==
    /\ pc' = Forgotten(pc, gone, "idle")
    /\ cmd' = Forgotten(cmd, gone, NoCommand)
    /\ todo' = Forgotten(todo, gone, {})
    /\ record' = Forgotten(record, gone, NoDevice)
    /\ popped' = Forgotten(popped, gone, NoDevice)
    /\ unseen' = Forgotten(unseen, gone, {})

\* The command returns an error.
Quit(p) == EndProcs({p}) /\ Close({p})

Dev(p) == cmd[p].device
Mnt(p) == cmd[p].mount

Top(m) == IF mounts[m] = <<>> THEN NoDevice ELSE mounts[m][Len(mounts[m])]
\* findmnt --target: the top mount, or the filesystem around the directory.
Source(m) == IF mounts[m] # <<>> THEN Top(m) ELSE IF m \in made THEN Enclosing ELSE NoDevice
MountsOf(d) == {m \in Mounts : \E i \in DOMAIN mounts[m] : mounts[m][i] = d}
Pop(m) == mounts' = [mounts EXCEPT ![m] = SubSeq(@, 1, Len(@) - 1)]
Push(m, d) == mounts' = [mounts EXCEPT ![m] = Append(@, d)]

\* A mount at m escapes the processes that have looked up theirs, but for those in but.
Looked == {"targets", "unmount", "mkfs", "mount"}
Escapes(m, but) ==
    unseen' = [q \in Procs |-> IF q \notin but /\ pc[q] \in Looked THEN unseen[q] \cup {m} ELSE unseen[q]]

\* mount, on behalf of p's Format.
Attach(p) ==
    /\ Push(Mnt(p), Dev(p))
    /\ Escapes(Mnt(p), {p})
    /\ formatted' = formatted \cup {[mount |-> Mnt(p), device |-> Dev(p)]}

Begin(p) ==
    /\ pc[p] = "idle"
    /\ ops < MaxOps
    /\ \E c \in Commands :
          /\ c.kind = "destroy" => c.device = NoDevice /\ ~c.force
          /\ c.kind = "format" => c.device # NoDevice
          /\ cmd' = [cmd EXCEPT ![p] = c]
          /\ Goto(p, IF c.kind = "destroy" THEN "get"
                     ELSE IF Platform = "linux" THEN "source" ELSE "checkMount")
    /\ ops' = ops + 1
    /\ UNCHANGED <<storeVars, machineVars, todo, record, popped, unseen, faults>>

-----------------------------------------------------------------------------
(* Format on Linux *)

\* linuxMountedSource: what is mounted at the mount point.
FindSource(p) ==
    /\ pc[p] = "source"
    /\ todo' = [todo EXCEPT ![p] = IF Source(Mnt(p)) = NoDevice THEN {} ELSE {Mnt(p)}]
    /\ Goto(p, "targets")
    /\ UNCHANGED <<storeVars, machineVars, cmd, record, popped, unseen, ops, faults>>

\* findmntNotFound takes every findmnt that ends badly without a word, one that was
\* killed for instance, for one that has found nothing.
FindSourceFails(p) ==
    /\ pc[p] = "source"
    /\ faults < MaxFaults
    /\ Goto(p, "targets")
    /\ unseen' = [unseen EXCEPT ![p] = @ \cup {Mnt(p)}]
    /\ faults' = faults + 1
    /\ UNCHANGED <<storeVars, machineVars, commandVars, ops>>

\* The decision of prepareLinuxFormat on what is mounted at the mount point, which is in
\* todo, and where findmnt says the device is mounted: without --force either is an error;
\* with it, all those mount points are to be unmounted, once each.
Decide(p, targets) ==
    LET found == todo[p] \cup targets IN
    \/ /\ found # {} /\ ~cmd[p].force
       /\ Quit(p)
    \/ /\ found = {} \/ cmd[p].force
       /\ todo' = [todo EXCEPT ![p] = found]
       /\ unseen' = [unseen EXCEPT ![p] =
             (@ \ targets) \cup (MountsOf(Dev(p)) \ found) \cup {m \in found : Len(mounts[m]) > 1}]
       /\ Goto(p, IF found = {} THEN "mkfs" ELSE "unmount")
       /\ UNCHANGED <<storeVars, cmd, record, popped>>

\* Faulty variant: without --force only the mount point is looked at.
FindTargetsLate(p) ==
    /\ pc[p] = "targets"
    /\ \/ /\ todo[p] # {} /\ ~cmd[p].force
          /\ Quit(p)
       \/ /\ todo[p] = {} /\ ~cmd[p].force
          /\ Goto(p, "mkfs")
          /\ UNCHANGED <<storeVars, procVars>>
       \/ cmd[p].force /\ Decide(p, MountsOf(Dev(p)))
    /\ UNCHANGED <<machineVars, ops, faults>>

\* linuxMountedTargets: where the device is mounted.
FindTargets(p) ==
    /\ pc[p] = "targets"
    /\ Decide(p, MountsOf(Dev(p)))
    /\ UNCHANGED <<machineVars, ops, faults>>

\* The same when findmnt ends badly without a word.
FindTargetsFails(p) ==
    /\ pc[p] = "targets"
    /\ faults < MaxFaults
    /\ Decide(p, {})
    /\ faults' = faults + 1
    /\ UNCHANGED <<machineVars, ops>>

\* The mount points are unmounted in the order of their names.
First(p) == CHOOSE m \in todo[p] : \A n \in todo[p] : m <= n

\* Faulty variant: only the first of the mount points is unmounted.
UnmountOne(p) ==
    /\ pc[p] = "unmount"
    /\ \/ /\ mounts[First(p)] = <<>>
          /\ Quit(p)
          /\ UNCHANGED mounts
       \/ /\ mounts[First(p)] # <<>>
          /\ Pop(First(p))
          /\ todo' = [todo EXCEPT ![p] = {}]
          /\ Goto(p, "mkfs")
          /\ UNCHANGED <<storeVars, cmd, record, popped, unseen>>
    /\ UNCHANGED <<ready, made, formatted, ops, faults>>

\* umount, one mount point after the other in the order of their names; the
\* first that fails ends the command.
Unmount(p) ==
    /\ pc[p] = "unmount"
    /\ \/ /\ mounts[First(p)] = <<>>
          /\ Quit(p)
          /\ UNCHANGED mounts
       \/ /\ mounts[First(p)] # <<>>
          /\ Pop(First(p))
          /\ todo' = [todo EXCEPT ![p] = @ \ {First(p)}]
          /\ Goto(p, IF todo[p] = {First(p)} THEN "mkfs" ELSE "unmount")
          /\ UNCHANGED <<storeVars, cmd, record, popped, unseen>>
    /\ UNCHANGED <<ready, made, formatted, ops, faults>>

\* Faulty variant: the record is saved before the device is mounted.
MkfsThenRecord(p) ==
    /\ pc[p] = "mkfs"
    /\ made' = made \cup {Mnt(p)}
    /\ ready' = ready \cup {Dev(p)}
    /\ Goto(p, "dropDevice")
    /\ UNCHANGED <<storeVars, procVars, mounts, formatted, ops, faults>>

\* The mount point is made, then mkfs -f runs; it may refuse a mounted device.
Mkfs(p) ==
    /\ pc[p] = "mkfs"
    /\ made' = made \cup {Mnt(p)}
    /\ \/ /\ MountsOf(Dev(p)) # {}
          /\ Quit(p)
          /\ UNCHANGED ready
       \/ /\ ready' = ready \cup {Dev(p)}
          /\ Goto(p, "mount")
          /\ UNCHANGED <<storeVars, procVars>>
    /\ UNCHANGED <<mounts, formatted, ops, faults>>

\* mount; a device without a filesystem is an error, and so is one just mounted there.
Mount(p) ==
    /\ pc[p] = "mount"
    /\ \/ /\ Dev(p) \notin ready \/ Top(Mnt(p)) = Dev(p)
          /\ Quit(p)
          /\ UNCHANGED <<mounts, formatted>>
       \/ /\ Dev(p) \in ready /\ Top(Mnt(p)) # Dev(p)
          /\ Attach(p)
          /\ Goto(p, "dropDevice")
          /\ UNCHANGED <<storeVars, commandVars>>
    /\ UNCHANGED <<ready, made, ops, faults>>

-----------------------------------------------------------------------------
(* Format on Windows looks at the state document only, and unmounts nothing *)

CheckMount(p) ==
    /\ pc[p] = "checkMount"
    /\ \/ /\ ~Readable \/ (Recorded \cap At(Mnt(p)) # {} /\ ~cmd[p].force)
          /\ Quit(p)
       \/ /\ Readable
          /\ Recorded \cap At(Mnt(p)) = {} \/ cmd[p].force
          /\ Goto(p, "checkDevice")
          /\ UNCHANGED <<storeVars, procVars>>
    /\ UNCHANGED <<machineVars, ops, faults>>

\* GetByBlockDevice finds one record of the device, which does not count if it is
\* the mount point's own.
TrackedHere(p) == Recorded \cap On(Dev(p)) \cap At(Mnt(p))
TrackedElsewhere(p) == (Recorded \cap On(Dev(p))) \ At(Mnt(p))

\* Faulty variant: the device's record is not looked for.
CheckDeviceNot(p) ==
    /\ pc[p] = "checkDevice"
    /\ Goto(p, "script")
    /\ UNCHANGED <<storeVars, procVars, machineVars, ops, faults>>

CheckDevice(p) ==
    /\ pc[p] = "checkDevice"
    /\ \/ /\ ~Readable \/ (TrackedElsewhere(p) # {} /\ ~cmd[p].force)
          /\ Quit(p)
       \/ /\ Readable
          /\ TrackedElsewhere(p) = {} \/ TrackedHere(p) # {} \/ cmd[p].force
          /\ Goto(p, "script")
          /\ UNCHANGED <<storeVars, procVars>>
    /\ UNCHANGED <<machineVars, ops, faults>>

\* The script: Format-Volume.
FormatVolume(p) ==
    /\ pc[p] = "script"
    /\ ready' = ready \cup {Dev(p)}
    /\ made' = made \cup {Mnt(p)}
    /\ Goto(p, "path")
    /\ UNCHANGED <<storeVars, procVars, mounts, formatted, ops, faults>>

\* The script: Add-PartitionAccessPath; a path in use is an error.
AddPath(p) ==
    /\ pc[p] = "path"
    /\ \/ /\ mounts[Mnt(p)] # <<>> \/ Dev(p) \notin ready
          /\ Quit(p)
          /\ UNCHANGED <<mounts, formatted>>
       \/ /\ mounts[Mnt(p)] = <<>> /\ Dev(p) \in ready
          /\ Attach(p)
          /\ Goto(p, "dropDevice")
          /\ UNCHANGED <<storeVars, commandVars>>
    /\ UNCHANGED <<ready, made, ops, faults>>

-----------------------------------------------------------------------------
(* Destroy *)

\* The record of the mount point.
Get(p) ==
    /\ pc[p] = "get"
    /\ \/ /\ ~Readable
          /\ Quit(p)
       \/ /\ Readable
          /\ Recorded \cap At(Mnt(p)) = {}
          /\ Goto(p, IF Platform = "linux" THEN "lookup" ELSE "umount")
          /\ UNCHANGED <<storeVars, procVars>>
       \/ /\ Readable
          /\ \E r \in Recorded \cap At(Mnt(p)) : record' = [record EXCEPT ![p] = r.device]
          /\ Goto(p, "umount")
          /\ UNCHANGED <<storeVars, cmd, todo, popped, unseen>>
    /\ UNCHANGED <<machineVars, ops, faults>>

\* Without a record, on Linux, the device findmnt names.
Lookup(p) ==
    /\ pc[p] = "lookup"
    /\ record' = [record EXCEPT ![p] = Source(Mnt(p))]
    /\ Goto(p, "umount")
    /\ UNCHANGED <<storeVars, machineVars, cmd, todo, popped, unseen, ops, faults>>

\* umount, or Remove-PartitionAccessPath.  If no device is known the command
\* then fails on Linux, and leaves the disk alone on Windows.
Umount(p) ==
    /\ pc[p] = "umount"
    /\ \/ /\ mounts[Mnt(p)] = <<>>
          /\ Quit(p)
          /\ UNCHANGED mounts
       \/ /\ mounts[Mnt(p)] # <<>>
          /\ Pop(Mnt(p))
          /\ \/ record[p] = NoDevice /\ Platform = "linux" /\ Quit(p)
             \/ /\ record[p] # NoDevice \/ Platform = "windows"
                /\ popped' = [popped EXCEPT ![p] = Top(Mnt(p))]
                /\ Goto(p, IF record[p] = NoDevice THEN "dropMount" ELSE "wipe")
                /\ UNCHANGED <<storeVars, cmd, todo, record, unseen>>
    /\ UNCHANGED <<ready, made, formatted, ops, faults>>

\* wipefs -a, which may refuse a device that is mounted; Clear-Disk, which takes
\* the disk's access paths away.
Wipe(p) ==
    /\ pc[p] = "wipe"
    /\ \/ /\ Platform = "linux" /\ MountsOf(record[p]) # {}
          /\ Quit(p)
          /\ UNCHANGED <<mounts, ready>>
       \/ /\ ready' = ready \ {record[p]}
          /\ mounts' = IF Platform = "linux" THEN mounts
                       ELSE [m \in Mounts |-> IF Top(m) = record[p] THEN <<>> ELSE mounts[m]]
          /\ Goto(p, "dropMount")
          /\ UNCHANGED <<storeVars, procVars>>
    /\ UNCHANGED <<made, formatted, ops, faults>>

-----------------------------------------------------------------------------
(* The state document: DeleteByBlockDevice and Put, or Delete *)

\* Faulty variant: Format keeps the device's record of another mount point.
EditKeepsDevice(p) ==
    /\ \/ pc[p] = "dropDevice" /\ Load(p, {}, {}) /\ Goto(p, "openFirst")
       \/ /\ pc[p] = "putRecord"
          /\ Load(p, At(Mnt(p)), {[mount |-> Mnt(p), device |-> Dev(p)]})
          /\ Goto(p, "open")
       \/ pc[p] = "dropMount" /\ Load(p, At(Mnt(p)), {}) /\ Goto(p, "open")
    /\ UNCHANGED <<machineVars, procVars, ops, faults>>

\* Faulty variant: Destroy ends with Put and not with Delete.
EditPutsBack(p) ==
    /\ \/ pc[p] = "dropDevice" /\ Load(p, On(Dev(p)), {}) /\ Goto(p, "openFirst")
       \/ /\ pc[p] \in {"putRecord", "dropMount"}
          /\ Load(p, At(Mnt(p)), {[mount |-> Mnt(p), device |-> Dev(p)]})
          /\ Goto(p, "open")
    /\ UNCHANGED <<machineVars, procVars, ops, faults>>

Edit(p) ==
    /\ \/ pc[p] = "dropDevice" /\ Load(p, On(Dev(p)), {}) /\ Goto(p, "openFirst")
       \/ /\ pc[p] = "putRecord"
          /\ Load(p, At(Mnt(p)), {[mount |-> Mnt(p), device |-> Dev(p)]})
          /\ Goto(p, "open")
       \/ pc[p] = "dropMount" /\ Load(p, At(Mnt(p)), {}) /\ Goto(p, "open")
    /\ UNCHANGED <<machineVars, procVars, ops, faults>>

\* The document is not JSON, or empty: load fails.
EditUnreadable(p) ==
    /\ pc[p] \in {"dropDevice", "putRecord", "dropMount"}
    /\ ~Readable
    /\ Quit(p)
    /\ UNCHANGED <<machineVars, ops, faults>>

SaveOpen(p) ==
    /\ \/ pc[p] = "openFirst" /\ Goto(p, "writeFirst")
       \/ pc[p] = "open" /\ Goto(p, "write")
    /\ Open(p)
    /\ UNCHANGED <<machineVars, procVars, ops, faults>>

SaveWrite(p) ==
    /\ \/ pc[p] = "writeFirst" /\ Goto(p, "renameFirst")
       \/ pc[p] = "write" /\ Goto(p, "rename")
    /\ Write(p)
    /\ UNCHANGED <<machineVars, procVars, ops, faults>>

\* The rename after which Format goes on, and the one that ends a command well.
SaveRename(p) ==
    /\ \/ pc[p] = "renameFirst" /\ Goto(p, "putRecord") /\ UNCHANGED procVars
       \/ pc[p] = "rename" /\ EndProcs({p})
    /\ Rename(p)
    /\ UNCHANGED <<machineVars, ops, faults>>

\* Another process has renamed the temporary file away.
RenameMissing(p) ==
    /\ pc[p] \in {"renameFirst", "rename"}
    /\ tmp = Absent
    /\ Quit(p)
    /\ UNCHANGED <<machineVars, ops, faults>>

-----------------------------------------------------------------------------
(* Failures *)

\* A command or a system call fails, or the process is killed: what it was making may be
\* there, or the device's old filesystem may be gone.
Stop(p) ==
    /\ pc[p] # "idle"
    /\ faults < MaxFaults
    /\ Quit(p)
    /\ IF pc[p] \in {"mkfs", "script"}
       THEN ready' \in {ready, ready \ {Dev(p)}} /\ made' \in {made, made \cup {Mnt(p)}}
       ELSE UNCHANGED <<ready, made>>
    /\ faults' = faults + 1
    /\ UNCHANGED <<mounts, formatted, ops>>

\* Destroy goes on when its findmnt fails, knowing no device.
LookupFails(p) ==
    /\ pc[p] = "lookup"
    /\ faults < MaxFaults
    /\ Goto(p, "umount")
    /\ faults' = faults + 1
    /\ UNCHANGED <<storeVars, machineVars, procVars, ops>>

\* The machine reboots: nothing is mounted any more.
Reboot ==
    /\ faults < MaxFaults
    /\ mounts' = [m \in Mounts |-> <<>>]
    /\ EndProcs(Procs)
    /\ Close(Procs)
    /\ faults' = faults + 1
    /\ UNCHANGED <<ready, made, formatted, ops>>

\* Somebody mounts a device at a mount point, which on Windows must be free.
MountByHand ==
    /\ faults < MaxFaults
    /\ \E m \in Mounts, d \in ready \cap Devices :
          /\ IF Platform = "linux" THEN Top(m) # d ELSE mounts[m] = <<>>
          /\ Push(m, d)
          /\ Escapes(m, {})
          /\ made' = made \cup {m}
    /\ faults' = faults + 1
    /\ UNCHANGED <<storeVars, commandVars, ready, formatted, pc, ops>>

Proc(p) ==
    \/ Begin(p)
    \/ FindSource(p) \/ FindTargets(p) \/ Unmount(p) \/ Mkfs(p) \/ Mount(p)
    \/ FindSourceFails(p) \/ FindTargetsFails(p)
    \/ CheckMount(p) \/ CheckDevice(p) \/ FormatVolume(p) \/ AddPath(p)
    \/ Get(p) \/ Lookup(p) \/ Umount(p) \/ Wipe(p)
    \/ Edit(p) \/ EditUnreadable(p) \/ SaveOpen(p) \/ SaveWrite(p) \/ SaveRename(p)
    \/ RenameMissing(p)
    \/ LookupFails(p) \/ Stop(p)

Next == (\E p \in Procs : Proc(p)) \/ Reboot \/ MountByHand

Spec == Init /\ [][Next]_vars

-----------------------------------------------------------------------------
(* Properties *)

\* The types of the state.
TypeOK ==
    /\ StoreTypeOK
    /\ mounts \in [Mounts -> Seq(Devices)]
    /\ ready \subseteq Devices \cup {Enclosing}
    /\ made \subseteq Mounts
    /\ formatted \subseteq Records
    /\ pc \in [Procs -> Steps]
    /\ cmd \in [Procs -> Commands \cup {NoCommand}]
    /\ todo \in [Procs -> SUBSET Mounts]
    /\ record \in [Procs -> Devices \cup {NoDevice, Enclosing}]
    /\ popped \in [Procs -> Devices \cup {NoDevice}]
    /\ unseen \in [Procs -> SUBSET Mounts]
    /\ ops \in 0..MaxOps
    /\ faults \in 0..MaxFaults

\* A record names a device and a mount point that Format has brought together:
\* the document is only written after the mount, whatever processes overlap,
\* fail or are killed, and no half-written document is taken for records.
RecordsAreFormatted == Recorded \subseteq formatted

\* No two records share a mount point or a device: Get and GetByBlockDevice,
\* which return the first they find, and the Delete operations can then not differ.
OneRecordEach ==
    \A r, s \in Recorded : r # s => r.mount # s.mount /\ r.device # s.device

\* The document can be read at every step, also after a kill between two steps of
\* save: "save writes the state document atomically."  One process at a time keeps
\* this; two do not, for they share the temporary file.
StateReadable == Readable

\* The device and the mount point of a command are the only ones whose records it
\* removes: those of other mount points survive every update of the document that
\* leaves it readable.  Again of one process at a time: of two, the later may write back
\* what it has read before the other's update.
RecordsKept ==
    [][Readable' => \A r \in Recorded \ Recorded' :
          \E p \in Procs :
             cmd[p] # NoCommand /\ (r.mount = Mnt(p) \/ r.device = Dev(p))]_vars

Unforced(p) == cmd[p] # NoCommand /\ cmd[p].kind = "format" /\ ~cmd[p].force
Forced(p) == cmd[p] # NoCommand /\ cmd[p].kind = "format" /\ cmd[p].force
\* The step is one of p's own that is no failure.
Moves(p) == pc'[p] # pc[p] /\ faults' = faults
Reformats(p) == pc[p] \in {"mkfs", "script"} /\ pc'[p] \notin {pc[p], "idle"}

\* Where p's device is mounted, and p's mount point if something is mounted there.
InUse(p) == MountsOf(Dev(p)) \cup {m \in {Mnt(p)} : mounts[m] # <<>>}

\* Without --force, Format on Linux unmounts nothing, mounts over nothing and makes no
\* filesystem on a mounted device, but for what its two lookups could not tell it: a mount
\* made after them, or one that a findmnt that died did not name.
UnforcedLeavesMounts ==
    [][\A p \in Procs : Unforced(p) =>
          /\ Moves(p) => \A m \in Mounts \ unseen[p] : mounts[m] # <<>> => mounts'[m] = mounts[m]
          /\ Reformats(p) => InUse(p) \subseteq unseen[p]]_vars

\* With --force, Format on Linux makes its filesystem when the device is mounted nowhere and
\* nothing at the mount point, but for the same, and for what lay under the mounts it took
\* off: "Use --force when you want datasim to unmount the existing filesystem".
ForcedUnmountsFirst ==
    [][\A p \in Procs : Forced(p) /\ Reformats(p) => InUse(p) \subseteq unseen[p]]_vars

\* Without --force, Format reformats no device that datasim has a record of, and
\* none for a mount point that it has a record of (the only check on Windows).
TrackedIsSafe ==
    [][\A p \in Procs : Unforced(p) /\ Reformats(p) =>
          Recorded \cap (At(Mnt(p)) \cup On(Dev(p))) = {}]_vars

\* Destroy wipes the device that it has just unmounted and no other, though it
\* takes the device's name from the document and not from the mount table:
\* "destroyLinux unmounts and wipes a Linux filesystem."
WipesWhatItUnmounted ==
    [][\A p \in Procs : pc[p] = "wipe" /\ pc'[p] = "dropMount" => record[p] = popped[p]]_vars

\* Without failures no record misleads Destroy between commands: a recorded
\* device is in use nowhere but at its mount point, and nothing else is in use
\* there. (A forced Format that could not unmount its own mount point has freed
\* the device's others, and leaves their records.)
StateAgrees ==
    faults = 0 /\ (\A p \in Procs : pc[p] = "idle") =>
        \A r \in Recorded : MountsOf(r.device) \subseteq {r.mount} /\ Top(r.mount) \in {r.device, NoDevice}
=============================================================================
