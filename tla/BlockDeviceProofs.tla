------------------------- MODULE BlockDeviceProofs -------------------------
(***************************************************************************)
(* What holds of block-device format and destroy for any devices, mount    *)
(* points and number of processes.                                         *)
(*                                                                         *)
(* RecordsAreFormatted is not inductive: a record reaches the document by  *)
(* way of a process's copy and of the temporary file, and it is put into   *)
(* the copy by a process that has mounted its device some steps before.    *)
(* Sound follows it through all of these.                                  *)
(*                                                                         *)
(* MountInv follows what is mounted in Format's way from the lookups to    *)
(* mkfs: found and yet to be unmounted, or missed and so in unseen, whose  *)
(* part the other processes and the user add to.                           *)
(*                                                                         *)
(* What two processes can break is proved of one at a time (Alone), with   *)
(* failures, kills and reboots between any two steps.  AloneInv is about   *)
(* the document, its copy and the temporary file; AgreeInv about records   *)
(* and mounts, for which nothing may have escaped Format (SingleInv).      *)
(***************************************************************************)
EXTENDS BlockDevice, TLAPS

Held(content) == IF content.kind = "document" THEN content.records ELSE {}

FirstSave == {"dropDevice", "openFirst", "writeFirst", "renameFirst", "putRecord"}
FormatOnly == {"source", "targets", "unmount", "mkfs", "mount",
               "checkMount", "checkDevice", "script", "path"} \cup FirstSave

Sound ==
    /\ Held(file) \subseteq formatted
    /\ Held(tmp) \subseteq formatted
    /\ \A p \in Procs : doc[p] \subseteq formatted
    /\ \A p \in Procs : pc[p] # "idle" => cmd[p] \in Commands
    /\ \A p \in Procs : pc[p] \in FormatOnly => cmd[p].device \in Devices
    /\ \A p \in Procs :
          pc[p] \in FirstSave => [mount |-> Mnt(p), device |-> Dev(p)] \in formatted

IInv == TypeOK /\ Sound

\* The same invariant by the part of the state that a step touches.
FilesOK ==
    /\ file \in Contents
    /\ tmp \in Contents
    /\ Held(file) \subseteq formatted
    /\ Held(tmp) \subseteq formatted

MachineOK ==
    /\ mounts \in [Mounts -> Seq(Devices)]
    /\ ready \subseteq Devices \cup {Enclosing}
    /\ made \subseteq Mounts
    /\ formatted \subseteq Records

CopiesOK ==
    /\ doc \in [Procs -> SUBSET Records]
    /\ fd \in [Procs -> {"closed", "tmp", "file", "gone"}]
    /\ \A p \in Procs : doc[p] \subseteq formatted

ProcsOK ==
    /\ pc \in [Procs -> Steps]
    /\ cmd \in [Procs -> Commands \cup {NoCommand}]
    /\ todo \in [Procs -> SUBSET Mounts]
    /\ record \in [Procs -> Devices \cup {NoDevice, Enclosing}]
    /\ popped \in [Procs -> Devices \cup {NoDevice}]
    /\ unseen \in [Procs -> SUBSET Mounts]
    /\ \A p \in Procs : pc[p] # "idle" => cmd[p] \in Commands
    /\ \A p \in Procs : pc[p] \in FormatOnly => cmd[p].device \in Devices
    /\ \A p \in Procs :
          pc[p] \in FirstSave => [mount |-> Mnt(p), device |-> Dev(p)] \in formatted

CountsOK == ops \in 0..MaxOps /\ faults \in 0..MaxFaults

\* The parts are the invariant.
LEMMA Parts == IInv <=> FilesOK /\ MachineOK /\ CopiesOK /\ ProcsOK /\ CountsOK
BY DEF IInv, TypeOK, StoreTypeOK, Sound, FilesOK, MachineOK, CopiesOK, ProcsOK, CountsOK

\* The same after a step.
LEMMA PartsNext == FilesOK' /\ MachineOK' /\ CopiesOK' /\ ProcsOK' /\ CountsOK' => IInv'
BY DEF IInv, TypeOK, StoreTypeOK, Sound, FilesOK, MachineOK, CopiesOK, ProcsOK, CountsOK

\* The last mount of a mount point is a device, and taking it off leaves mounts.
LEMMA StackFacts ==
    ASSUME NEW s \in Seq(Devices)
    PROVE  /\ SubSeq(s, 1, Len(s) - 1) \in Seq(Devices)
           /\ s # <<>> => s[Len(s)] \in Devices
           /\ \A d \in Devices : Append(s, d) \in Seq(Devices)
<1>1. SubSeq(s, 1, Len(s) - 1) \in Seq(Devices)
  <2>1. CASE s = <<>>
    BY <2>1
  <2>2. CASE s # <<>>
    BY <2>2
  <2> QED BY <2>1, <2>2
<1>2. s # <<>> => s[Len(s)] \in Devices
  OBVIOUS
<1> QED BY <1>1, <1>2

\* Init establishes the invariant.
LEMMA InitInv == Init => IInv
<1> SUFFICES ASSUME Init PROVE IInv
  OBVIOUS
<1>0. mounts \in [Mounts -> Seq(Devices)]
  BY FirstAssumption DEF Init
<1>1. ready \subseteq Devices
  BY <1>0 DEF Init
<1>2. TypeOK
  BY <1>0, <1>1, BoundAssumption
     DEF Init, StoreInit, TypeOK, StoreTypeOK, Contents, Absent, Steps, NoCommand
<1>3. Sound
  BY DEF Init, StoreInit, Sound, Held, Absent, FormatOnly, FirstSave
<1> QED BY <1>2, <1>3 DEF IInv

-----------------------------------------------------------------------------
(* What the building blocks of the actions keep *)

\* The processes' part when some of them end, whatever becomes of the files.
LEMMA EndKeeps ==
    ASSUME IInv, NEW gone \in SUBSET Procs, EndProcs(gone), formatted' = formatted
    PROVE  ProcsOK'
<1> USE Parts
<1>1. /\ pc' \in [Procs -> Steps]
      /\ cmd' \in [Procs -> Commands \cup {NoCommand}]
      /\ todo' \in [Procs -> SUBSET Mounts]
      /\ record' \in [Procs -> Devices \cup {NoDevice, Enclosing}]
      /\ popped' \in [Procs -> Devices \cup {NoDevice}]
      /\ unseen' \in [Procs -> SUBSET Mounts]
  BY DEF EndProcs, Forgotten, ProcsOK, Steps
<1>2. \A q \in Procs : pc'[q] # "idle" => pc'[q] = pc[q] /\ cmd'[q] = cmd[q]
  BY DEF EndProcs, Forgotten, ProcsOK
<1> QED BY <1>1, <1>2 DEF ProcsOK, Mnt, Dev, FormatOnly, FirstSave

\* Processes that end keep the processes' part, whatever the machine does.
LEMMA QuitKeeps ==
    ASSUME IInv, NEW gone \in SUBSET Procs, EndProcs(gone), Close(gone),
           formatted' = formatted
    PROVE  FilesOK' /\ CopiesOK' /\ ProcsOK'
<1> USE Parts
<1>1. FilesOK'
  BY DEF Close, FilesOK, Held
<1>2. CopiesOK'
  BY DEF Close, CopiesOK
<1>3. ProcsOK'
  BY EndKeeps
<1> QED BY <1>1, <1>2, <1>3

\* One process that quits.
LEMMA QuitOneKeeps ==
    ASSUME IInv, NEW p \in Procs, Quit(p), formatted' = formatted
    PROVE  FilesOK' /\ CopiesOK' /\ ProcsOK'
BY QuitKeeps, {p} \in SUBSET Procs DEF Quit

\* A step that leaves the documents alone, at most mounting another device.
LEMMA StoreKeeps ==
    ASSUME IInv, UNCHANGED storeVars, formatted \subseteq formatted'
    PROVE  FilesOK' /\ CopiesOK'
BY Parts DEF storeVars, FilesOK, CopiesOK, Held

\* A process that goes on to another step of the same command.
LEMMA GotoOn ==
    ASSUME IInv, NEW p \in Procs, NEW step \in Steps, Goto(p, step),
           pc[p] # "idle", step # "idle", UNCHANGED commandVars,
           unseen' \in [Procs -> SUBSET Mounts], formatted \subseteq formatted',
           step \in FormatOnly => pc[p] \in FormatOnly,
           step \in FirstSave => [mount |-> Mnt(p), device |-> Dev(p)] \in formatted'
    PROVE  ProcsOK'
<1> USE Parts
<1>1. pc' \in [Procs -> Steps]
  BY DEF Goto, ProcsOK
<1>2. \A q \in Procs : pc'[q] = IF q = p THEN step ELSE pc[q]
  BY DEF Goto, ProcsOK
<1> QED BY <1>1, <1>2 DEF commandVars, ProcsOK, Mnt, Dev

\* The same, when nothing else of the processes changes.
LEMMA GotoKeeps ==
    ASSUME IInv, NEW p \in Procs, NEW step \in Steps, Goto(p, step),
           pc[p] # "idle", step # "idle", UNCHANGED procVars, formatted \subseteq formatted',
           step \in FormatOnly => pc[p] \in FormatOnly,
           step \in FirstSave => [mount |-> Mnt(p), device |-> Dev(p)] \in formatted'
    PROVE  ProcsOK'
<1>1. UNCHANGED commandVars /\ unseen' = unseen
  BY DEF procVars
<1>2. unseen' \in [Procs -> SUBSET Mounts]
  BY <1>1, Parts DEF ProcsOK
<1> QED BY <1>1, <1>2, GotoOn

\* Counters that a step leaves alone.
LEMMA CountsKeep ==
    ASSUME IInv, UNCHANGED <<ops, faults>>
    PROVE  CountsOK'
BY Parts DEF CountsOK

-----------------------------------------------------------------------------
(* Each action keeps the invariant *)

\* A command begins.
LEMMA InvBegin == ASSUME IInv, NEW p \in Procs, Begin(p) PROVE IInv'
<1> USE Parts, PartsNext
<1>1. FilesOK' /\ CopiesOK'
  BY StoreKeeps DEF Begin, machineVars
<1>2. MachineOK'
  BY DEF Begin, machineVars, MachineOK
<1>3. CountsOK'
  BY BoundAssumption DEF Begin, CountsOK
<1>4. ProcsOK'
  <2>1. PICK c \in Commands :
           /\ c.kind = "format" => c.device # NoDevice
           /\ cmd' = [cmd EXCEPT ![p] = c]
           /\ Goto(p, IF c.kind = "destroy" THEN "get"
                      ELSE IF Platform = "linux" THEN "source" ELSE "checkMount")
    BY DEF Begin
  <2>2. c.kind # "destroy" => c.device \in Devices
    BY <2>1 DEF Commands
  <2>3. /\ pc'[p] \in {"get", "source", "checkMount"}
        /\ c.kind = "destroy" => pc'[p] = "get"
        /\ cmd'[p] = c
        /\ pc' \in [Procs -> Steps]
        /\ \A q \in Procs : q # p => pc'[q] = pc[q] /\ cmd'[q] = cmd[q]
    BY <2>1 DEF Goto, ProcsOK, Steps
  <2>4. cmd' \in [Procs -> Commands \cup {NoCommand}]
    BY <2>1 DEF ProcsOK
  <2>5. \A q \in Procs : pc'[q] # "idle" => cmd'[q] \in Commands
    BY <2>3 DEF ProcsOK
  <2>6. \A q \in Procs : pc'[q] \in FormatOnly => cmd'[q].device \in Devices
    BY <2>2, <2>3 DEF ProcsOK, FormatOnly, FirstSave
  <2>7. \A q \in Procs : pc'[q] \in FirstSave =>
           [mount |-> cmd'[q].mount, device |-> cmd'[q].device] \in formatted'
    BY <2>3 DEF ProcsOK, FirstSave, Mnt, Dev, Begin, machineVars
  <2> QED BY <2>3, <2>4, <2>5, <2>6, <2>7 DEF Begin, ProcsOK, Mnt, Dev
<1> QED BY <1>1, <1>2, <1>3, <1>4

\* findmnt for the mount point.
LEMMA InvFindSource == ASSUME IInv, NEW p \in Procs, FindSource(p) PROVE IInv'
<1> USE Parts, PartsNext
<1>1. FilesOK' /\ CopiesOK' /\ CountsOK' /\ MachineOK'
  BY StoreKeeps, CountsKeep DEF FindSource, machineVars, MachineOK
<1>2. cmd[p] \in Commands
  BY DEF FindSource, ProcsOK
<1>3. Mnt(p) \in Mounts
  BY <1>2 DEF Commands, Mnt
<1>4. /\ pc' \in [Procs -> Steps]
      /\ todo' \in [Procs -> SUBSET Mounts]
      /\ \A q \in Procs : q # p => pc'[q] = pc[q]
      /\ pc'[p] = "targets"
  BY <1>3 DEF FindSource, Goto, ProcsOK, Steps
<1>5. ProcsOK'
  BY <1>4 DEF FindSource, machineVars, ProcsOK, FormatOnly, FirstSave, Mnt, Dev
<1> QED BY <1>1, <1>5

\* The same when findmnt dies without a word.
LEMMA InvFindSourceFails == ASSUME IInv, NEW p \in Procs, FindSourceFails(p) PROVE IInv'
<1> USE Parts, PartsNext
<1>1. FilesOK' /\ CopiesOK' /\ MachineOK' /\ formatted' = formatted
  BY StoreKeeps DEF FindSourceFails, machineVars, MachineOK
<1>2. CountsOK'
  BY BoundAssumption DEF FindSourceFails, CountsOK
<1>3. /\ pc[p] # "idle" /\ pc[p] \in FormatOnly /\ Goto(p, "targets") /\ UNCHANGED commandVars
      /\ cmd[p] \in Commands
  BY DEF FindSourceFails, FormatOnly, ProcsOK
<1>4. unseen' \in [Procs -> SUBSET Mounts]
  <2>1. Mnt(p) \in Mounts
    BY <1>3 DEF Commands, Mnt
  <2> QED BY <2>1 DEF FindSourceFails, ProcsOK
<1>5. ProcsOK'
  BY <1>1, <1>3, <1>4, GotoOn DEF Steps, FirstSave
<1> QED BY <1>1, <1>2, <1>5

\* A process that goes on and changes what it has yet to unmount.
LEMMA TodoKeeps ==
    ASSUME IInv, NEW p \in Procs, NEW step \in {"unmount", "mkfs"}, Goto(p, step),
           pc[p] \in FormatOnly, UNCHANGED <<cmd, record, popped, formatted>>,
           todo' \in [Procs -> SUBSET Mounts], unseen' \in [Procs -> SUBSET Mounts]
    PROVE  ProcsOK'
<1> USE Parts, PartsNext
<1>1. pc' \in [Procs -> Steps]
  BY DEF Goto, ProcsOK, Steps
<1>2. \A q \in Procs : pc'[q] = IF q = p THEN step ELSE pc[q]
  BY DEF Goto, ProcsOK
<1> QED BY <1>1, <1>2 DEF ProcsOK, FormatOnly, FirstSave, Mnt, Dev

\* What Decide chooses from, whatever findmnt has said.
LEMMA DecideCases ==
    ASSUME NEW p, NEW targets, Decide(p, targets)
    PROVE  LET found == todo[p] \cup targets IN
           \/ found # {} /\ ~cmd[p].force /\ Quit(p)
           \/ /\ found = {} \/ cmd[p].force
              /\ todo' = [todo EXCEPT ![p] = found]
              /\ unseen' = [unseen EXCEPT ![p] = (@ \ targets)
                              \cup (MountsOf(Dev(p)) \ found) \cup {m \in found : Len(mounts[m]) > 1}]
              /\ Goto(p, IF found = {} THEN "mkfs" ELSE "unmount")
              /\ UNCHANGED <<storeVars, cmd, record, popped>>
BY DEF Decide

\* findmnt for the device, well or badly ended.
LEMMA InvDecide ==
    ASSUME IInv, NEW p \in Procs, NEW targets \in SUBSET Mounts, pc[p] = "targets",
           Decide(p, targets), UNCHANGED machineVars, CountsOK'
    PROVE  IInv'
<1> USE Parts, PartsNext
<1> DEFINE found == todo[p] \cup targets
<1>1. MachineOK' /\ formatted' = formatted
  BY DEF machineVars, MachineOK
<1>2. CASE Quit(p)
  BY <1>1, <1>2, QuitOneKeeps
<1>3. ASSUME ~Quit(p) PROVE IInv'
  <2>1. /\ todo' = [todo EXCEPT ![p] = found]
        /\ unseen' = [unseen EXCEPT ![p] = (@ \ targets)
                        \cup (MountsOf(Dev(p)) \ found) \cup {m \in found : Len(mounts[m]) > 1}]
        /\ Goto(p, IF found = {} THEN "mkfs" ELSE "unmount")
        /\ UNCHANGED <<storeVars, cmd, record, popped>>
    BY <1>3, DecideCases
  <2>2. FilesOK' /\ CopiesOK'
    BY <1>1, <2>1, StoreKeeps
  <2>3. found \subseteq Mounts /\ MountsOf(Dev(p)) \subseteq Mounts
    BY DEF MountsOf, ProcsOK
  <2> HIDE DEF found
  <2>4. todo' \in [Procs -> SUBSET Mounts]
    BY <2>1, <2>3 DEF ProcsOK
  <2>5. unseen' \in [Procs -> SUBSET Mounts]
    <3> DEFINE more == (MountsOf(Dev(p)) \ found) \cup {m \in found : Len(mounts[m]) > 1}
    <3>1. more \subseteq Mounts
      BY <2>3
    <3>2. unseen' = [unseen EXCEPT ![p] = (@ \ targets) \cup more]
      BY <2>1
    <3> HIDE DEF more
    <3> QED BY <3>1, <3>2 DEF ProcsOK
  <2>6. pc[p] \in FormatOnly
    BY DEF FormatOnly
  <2>7. ProcsOK'
    <3>1. CASE found = {}
      BY <1>1, <2>1, <2>4, <2>5, <2>6, <3>1, TodoKeeps
    <3>2. CASE found # {}
      BY <1>1, <2>1, <2>4, <2>5, <2>6, <3>2, TodoKeeps
    <3> QED BY <3>1, <3>2
  <2> QED BY <1>1, <2>2, <2>7
<1> QED BY <1>2, <1>3

\* findmnt for the device.
LEMMA InvFindTargets ==
    ASSUME IInv, NEW p \in Procs, FindTargets(p) \/ FindTargetsFails(p)
    PROVE  IInv'
<1>1. CountsOK'
  BY BoundAssumption, Parts DEF FindTargets, FindTargetsFails, CountsOK
<1>2. MountsOf(Dev(p)) \in SUBSET Mounts /\ {} \in SUBSET Mounts
  BY DEF MountsOf
<1> QED BY <1>1, <1>2, InvDecide DEF FindTargets, FindTargetsFails

\* umount takes the last mount off.
LEMMA PopKeeps ==
    ASSUME IInv, NEW m, Pop(m)
    PROVE  mounts' \in [Mounts -> Seq(Devices)]
BY Parts, StackFacts DEF Pop, MachineOK

\* umount of one mount point.
LEMMA InvUnmount == ASSUME IInv, NEW p \in Procs, Unmount(p) PROVE IInv'
<1> USE Parts, PartsNext
<1>1. CountsOK' /\ formatted' = formatted
  BY CountsKeep DEF Unmount
<1>2. CASE Quit(p) /\ UNCHANGED mounts
  BY <1>1, <1>2, QuitOneKeeps DEF Unmount, MachineOK
<1>3. CASE /\ Pop(First(p))
           /\ todo' = [todo EXCEPT ![p] = @ \ {First(p)}]
           /\ Goto(p, IF todo[p] = {First(p)} THEN "mkfs" ELSE "unmount")
           /\ UNCHANGED <<storeVars, cmd, record, popped, unseen>>
  <2>1. FilesOK' /\ CopiesOK'
    BY <1>1, <1>3, StoreKeeps
  <2>2. MachineOK'
    BY <1>3, PopKeeps DEF Unmount, MachineOK
  <2>3. todo' \in [Procs -> SUBSET Mounts]
    BY <1>3 DEF ProcsOK
  <2>4. pc[p] \in FormatOnly /\ unseen' \in [Procs -> SUBSET Mounts]
    BY <1>3 DEF Unmount, FormatOnly, ProcsOK
  <2>5. ProcsOK'
    <3>1. CASE todo[p] = {First(p)}
      BY <1>1, <1>3, <2>3, <2>4, <3>1, TodoKeeps
    <3>2. CASE todo[p] # {First(p)}
      BY <1>1, <1>3, <2>3, <2>4, <3>2, TodoKeeps
    <3> QED BY <3>1, <3>2
  <2> QED BY <1>1, <2>1, <2>2, <2>5
<1>4. \/ /\ Pop(First(p))
         /\ todo' = [todo EXCEPT ![p] = @ \ {First(p)}]
         /\ Goto(p, IF todo[p] = {First(p)} THEN "mkfs" ELSE "unmount")
         /\ UNCHANGED <<storeVars, cmd, record, popped, unseen>>
      \/ Quit(p) /\ UNCHANGED mounts
  BY DEF Unmount
<1> QED BY <1>2, <1>3, <1>4

\* The command of a process that runs one names a mount point and, in Format, a
\* device; what is mounted there is a device, too.
LEMMA CommandFacts ==
    ASSUME IInv, NEW p \in Procs, pc[p] # "idle"
    PROVE  /\ cmd[p] \in Commands
           /\ Mnt(p) \in Mounts
           /\ pc[p] \in FormatOnly => Dev(p) \in Devices
           /\ Top(Mnt(p)) \in Devices \cup {NoDevice}
           /\ mounts[Mnt(p)] # <<>> => Top(Mnt(p)) \in Devices
<1> USE Parts
<1>1. cmd[p] \in Commands /\ (pc[p] \in FormatOnly => Dev(p) \in Devices)
  BY DEF ProcsOK, Dev
<1>2. Mnt(p) \in Mounts
  BY <1>1 DEF Commands, Mnt
<1>3. mounts[Mnt(p)] \in Seq(Devices)
  BY <1>2 DEF MachineOK
<1> QED BY <1>1, <1>2, <1>3, StackFacts DEF Top

\* The directory and the filesystem are made.
LEMMA InvMkfs == ASSUME IInv, NEW p \in Procs, Mkfs(p) PROVE IInv'
<1> USE Parts, PartsNext
<1>1. /\ Mnt(p) \in Mounts /\ Dev(p) \in Devices
      /\ pc[p] = "mkfs" /\ pc[p] \in FormatOnly
      /\ formatted' = formatted
      /\ CountsOK'
  BY CommandFacts, CountsKeep DEF Mkfs, FormatOnly
<1>2. MachineOK'
  BY <1>1 DEF Mkfs, MachineOK
<1>3. CASE Quit(p)
  BY <1>1, <1>2, <1>3, QuitOneKeeps
<1>4. CASE Goto(p, "mount") /\ UNCHANGED <<storeVars, procVars>>
  <2>1. FilesOK' /\ CopiesOK'
    BY <1>1, <1>4, StoreKeeps
  <2>2. ProcsOK'
    BY <1>1, <1>4, GotoKeeps DEF Steps, FirstSave
  <2> QED BY <1>1, <1>2, <2>1, <2>2
<1> QED BY <1>3, <1>4 DEF Mkfs

\* Processes may miss a mount.
LEMMA EscapesKeeps ==
    ASSUME IInv, NEW m \in Mounts, NEW but, Escapes(m, but)
    PROVE  unseen' \in [Procs -> SUBSET Mounts]
BY Parts DEF Escapes, ProcsOK

\* A device is mounted for Format, which goes on to the document.
LEMMA AttachKeeps ==
    ASSUME IInv, NEW p \in Procs, pc[p] \in FormatOnly, pc[p] # "idle",
           Attach(p), Goto(p, "dropDevice"), UNCHANGED <<storeVars, commandVars>>,
           UNCHANGED <<ready, made, ops, faults>>
    PROVE  IInv'
<1> USE Parts, PartsNext
<1>1. Mnt(p) \in Mounts /\ Dev(p) \in Devices /\ CountsOK'
  BY CommandFacts, CountsKeep
<1>2. /\ formatted \subseteq formatted'
      /\ [mount |-> Mnt(p), device |-> Dev(p)] \in formatted'
      /\ formatted' \subseteq Records
  BY <1>1 DEF Attach, MachineOK, Records
<1>3. mounts' \in [Mounts -> Seq(Devices)]
  BY <1>1, StackFacts DEF Attach, Push, MachineOK
<1>4. MachineOK'
  BY <1>2, <1>3 DEF MachineOK
<1>5. FilesOK' /\ CopiesOK'
  BY <1>2, StoreKeeps
<1>6. unseen' \in [Procs -> SUBSET Mounts]
  BY <1>1, EscapesKeeps DEF Attach
<1>7. ProcsOK'
  BY <1>2, <1>6, GotoOn DEF Steps
<1> QED BY <1>1, <1>4, <1>5, <1>7

\* mount on Linux.
LEMMA InvMount == ASSUME IInv, NEW p \in Procs, Mount(p) PROVE IInv'
<1> USE Parts, PartsNext
<1>1. pc[p] = "mount" /\ pc[p] \in FormatOnly /\ UNCHANGED <<ready, made, ops, faults>>
  BY DEF Mount, FormatOnly
<1>2. CASE Quit(p) /\ UNCHANGED <<mounts, formatted>>
  <2>1. MachineOK' /\ CountsOK'
    BY <1>1, <1>2, CountsKeep DEF MachineOK
  <2> QED BY <1>2, <2>1, QuitOneKeeps
<1>3. CASE /\ Attach(p)
           /\ Goto(p, "dropDevice")
           /\ UNCHANGED <<storeVars, commandVars>>
  BY <1>1, <1>3, AttachKeeps
<1> QED BY <1>2, <1>3 DEF Mount

\* Add-PartitionAccessPath on Windows.
LEMMA InvAddPath == ASSUME IInv, NEW p \in Procs, AddPath(p) PROVE IInv'
<1> USE Parts, PartsNext
<1>1. pc[p] = "path" /\ pc[p] \in FormatOnly /\ UNCHANGED <<ready, made, ops, faults>>
  BY DEF AddPath, FormatOnly
<1>2. CASE Quit(p) /\ UNCHANGED <<mounts, formatted>>
  <2>1. MachineOK' /\ CountsOK'
    BY <1>1, <1>2, CountsKeep DEF MachineOK
  <2> QED BY <1>2, <2>1, QuitOneKeeps
<1>3. CASE /\ Attach(p)
           /\ Goto(p, "dropDevice")
           /\ UNCHANGED <<storeVars, commandVars>>
  BY <1>1, <1>3, AttachKeeps
<1> QED BY <1>2, <1>3 DEF AddPath

\* The two looks at the document on Windows.
LEMMA InvCheckMount == ASSUME IInv, NEW p \in Procs, CheckMount(p) PROVE IInv'
<1> USE Parts, PartsNext
<1>1. /\ pc[p] = "checkMount" /\ pc[p] \in FormatOnly
      /\ formatted' = formatted /\ MachineOK' /\ CountsOK'
  BY CountsKeep DEF CheckMount, FormatOnly, machineVars, MachineOK
<1>2. CASE Quit(p)
  BY <1>1, <1>2, QuitOneKeeps
<1>3. CASE Goto(p, "checkDevice") /\ UNCHANGED <<storeVars, procVars>>
  BY <1>1, <1>3, StoreKeeps, GotoKeeps DEF Steps, FirstSave
<1> QED BY <1>2, <1>3 DEF CheckMount

\* The second of them.
LEMMA InvCheckDevice == ASSUME IInv, NEW p \in Procs, CheckDevice(p) PROVE IInv'
<1> USE Parts, PartsNext
<1>1. /\ pc[p] = "checkDevice" /\ pc[p] \in FormatOnly
      /\ formatted' = formatted /\ MachineOK' /\ CountsOK'
  BY CountsKeep DEF CheckDevice, FormatOnly, machineVars, MachineOK
<1>2. CASE Quit(p)
  BY <1>1, <1>2, QuitOneKeeps
<1>3. CASE Goto(p, "script") /\ UNCHANGED <<storeVars, procVars>>
  BY <1>1, <1>3, StoreKeeps, GotoKeeps DEF Steps, FirstSave
<1> QED BY <1>2, <1>3 DEF CheckDevice

\* Format-Volume on Windows.
LEMMA InvFormatVolume == ASSUME IInv, NEW p \in Procs, FormatVolume(p) PROVE IInv'
<1> USE Parts, PartsNext
<1>1. /\ Mnt(p) \in Mounts /\ Dev(p) \in Devices
      /\ pc[p] = "script" /\ pc[p] \in FormatOnly
      /\ formatted' = formatted /\ CountsOK'
  BY CommandFacts, CountsKeep DEF FormatVolume, FormatOnly
<1>2. MachineOK'
  BY <1>1 DEF FormatVolume, MachineOK
<1>3. FilesOK' /\ CopiesOK'
  BY <1>1, StoreKeeps DEF FormatVolume
<1>4. ProcsOK'
  BY <1>1, GotoKeeps DEF FormatVolume, Steps, FirstSave
<1> QED BY <1>1, <1>2, <1>3, <1>4

\* A process in Destroy that goes on, with what it has found out.
LEMMA DestroyKeeps ==
    ASSUME IInv, NEW p \in Procs, pc[p] # "idle",
           NEW step \in {"lookup", "umount", "wipe", "dropMount"}, Goto(p, step),
           UNCHANGED <<cmd, todo, unseen, formatted>>,
           record' \in [Procs -> Devices \cup {NoDevice, Enclosing}],
           popped' \in [Procs -> Devices \cup {NoDevice}]
    PROVE  ProcsOK'
<1> USE Parts
<1>1. pc' \in [Procs -> Steps]
  BY DEF Goto, ProcsOK, Steps
<1>2. \A q \in Procs : pc'[q] = IF q = p THEN step ELSE pc[q]
  BY DEF Goto, ProcsOK
<1> QED BY <1>1, <1>2 DEF ProcsOK, FormatOnly, FirstSave, Mnt, Dev

\* The record of the mount point.
LEMMA InvGet == ASSUME IInv, NEW p \in Procs, Get(p) PROVE IInv'
<1> USE Parts, PartsNext
<1>1. /\ pc[p] # "idle" /\ formatted' = formatted /\ MachineOK' /\ CountsOK'
  BY CountsKeep DEF Get, machineVars, MachineOK
<1>2. CASE Quit(p)
  BY <1>1, <1>2, QuitOneKeeps
<1>3. CASE /\ Goto(p, IF Platform = "linux" THEN "lookup" ELSE "umount")
           /\ UNCHANGED <<storeVars, procVars>>
  <2>1. FilesOK' /\ CopiesOK'
    BY <1>1, <1>3, StoreKeeps
  <2>2. /\ UNCHANGED <<cmd, todo, unseen, formatted>>
        /\ record' \in [Procs -> Devices \cup {NoDevice, Enclosing}]
        /\ popped' \in [Procs -> Devices \cup {NoDevice}]
    BY <1>1, <1>3 DEF procVars, commandVars, ProcsOK
  <2>3. ProcsOK'
    <3>1. CASE Platform = "linux"
      BY <1>1, <1>3, <2>2, <3>1, DestroyKeeps
    <3>2. CASE Platform # "linux"
      BY <1>1, <1>3, <2>2, <3>2, DestroyKeeps
    <3> QED BY <3>1, <3>2
  <2> QED BY <1>1, <2>1, <2>3
<1>4. CASE /\ \E r \in Recorded \cap At(Mnt(p)) : record' = [record EXCEPT ![p] = r.device]
           /\ Goto(p, "umount")
           /\ UNCHANGED <<storeVars, cmd, todo, popped, unseen>>
  <2>1. FilesOK' /\ CopiesOK'
    BY <1>1, <1>4, StoreKeeps
  <2>2. record' \in [Procs -> Devices \cup {NoDevice, Enclosing}]
    BY <1>4 DEF At, Records, ProcsOK
  <2>3. ProcsOK'
    BY <1>1, <1>4, <2>2, DestroyKeeps DEF ProcsOK
  <2> QED BY <1>1, <2>1, <2>3
<1> QED BY <1>2, <1>3, <1>4 DEF Get

\* findmnt in Destroy.
LEMMA InvLookup == ASSUME IInv, NEW p \in Procs, Lookup(p) PROVE IInv'
<1> USE Parts, PartsNext
<1>1. /\ pc[p] # "idle" /\ formatted' = formatted /\ MachineOK' /\ CountsOK'
  BY CountsKeep DEF Lookup, machineVars, MachineOK
<1>2. FilesOK' /\ CopiesOK'
  BY <1>1, StoreKeeps DEF Lookup
<1>3. Source(Mnt(p)) \in Devices \cup {NoDevice, Enclosing}
  BY <1>1, CommandFacts DEF Source
<1>4. record' \in [Procs -> Devices \cup {NoDevice, Enclosing}]
  BY <1>3 DEF Lookup, ProcsOK
<1>5. ProcsOK'
  BY <1>1, <1>4, DestroyKeeps DEF Lookup, ProcsOK
<1> QED BY <1>1, <1>2, <1>5

\* umount, or Remove-PartitionAccessPath.
LEMMA InvUmount == ASSUME IInv, NEW p \in Procs, Umount(p) PROVE IInv'
<1> USE Parts, PartsNext
<1>1. /\ pc[p] # "idle" /\ formatted' = formatted /\ UNCHANGED <<ready, made>> /\ CountsOK'
  BY CountsKeep DEF Umount
<1>2. MachineOK'
  <2>1. mounts' \in [Mounts -> Seq(Devices)]
    BY PopKeeps DEF Umount, MachineOK
  <2> QED BY <1>1, <2>1 DEF MachineOK
<1>3. CASE Quit(p)
  BY <1>1, <1>2, <1>3, QuitOneKeeps
<1>4. CASE /\ mounts[Mnt(p)] # <<>>
           /\ popped' = [popped EXCEPT ![p] = Top(Mnt(p))]
           /\ Goto(p, IF record[p] = NoDevice THEN "dropMount" ELSE "wipe")
           /\ UNCHANGED <<storeVars, cmd, todo, record, unseen>>
  <2>1. FilesOK' /\ CopiesOK'
    BY <1>1, <1>4, StoreKeeps
  <2>2. /\ popped' \in [Procs -> Devices \cup {NoDevice}]
        /\ record' \in [Procs -> Devices \cup {NoDevice, Enclosing}]
        /\ UNCHANGED <<cmd, todo, unseen, formatted>>
    BY <1>1, <1>4, CommandFacts DEF ProcsOK
  <2>3. ProcsOK'
    <3>1. CASE record[p] = NoDevice
      BY <1>1, <1>4, <2>2, <3>1, DestroyKeeps
    <3>2. CASE record[p] # NoDevice
      BY <1>1, <1>4, <2>2, <3>2, DestroyKeeps
    <3> QED BY <3>1, <3>2
  <2> QED BY <1>1, <1>2, <2>1, <2>3
<1> QED BY <1>3, <1>4 DEF Umount

\* wipefs, or Clear-Disk.
LEMMA InvWipe == ASSUME IInv, NEW p \in Procs, Wipe(p) PROVE IInv'
<1> USE Parts, PartsNext
<1>1. /\ pc[p] # "idle" /\ formatted' = formatted /\ made' = made /\ CountsOK'
  BY CountsKeep DEF Wipe
<1>2. MachineOK'
  <2>1. mounts' \in [Mounts -> Seq(Devices)]
    <3>1. mounts' = [m \in Mounts |-> IF Top(m) = record[p] THEN <<>> ELSE mounts[m]]
          \/ mounts' = mounts
      BY DEF Wipe
    <3>2. <<>> \in Seq(Devices) /\ mounts \in [Mounts -> Seq(Devices)]
      BY DEF MachineOK
    <3> QED BY <3>1, <3>2
  <2>2. ready' \subseteq ready
    BY DEF Wipe
  <2> QED BY <1>1, <2>1, <2>2 DEF MachineOK
<1>3. CASE Quit(p)
  BY <1>1, <1>2, <1>3, QuitOneKeeps
<1>4. CASE Goto(p, "dropMount") /\ UNCHANGED <<storeVars, procVars>>
  <2>1. FilesOK' /\ CopiesOK'
    BY <1>1, <1>4, StoreKeeps
  <2>2. ProcsOK'
    BY <1>1, <1>4, DestroyKeeps DEF procVars, commandVars, ProcsOK
  <2> QED BY <1>1, <1>2, <2>1, <2>2
<1> QED BY <1>3, <1>4 DEF Wipe

\* The copy that a process edits has formatted records only.
LEMMA LoadKeeps ==
    ASSUME IInv, NEW p \in Procs, NEW drop, NEW add \in SUBSET Records, Load(p, drop, add),
           formatted' = formatted, add \subseteq formatted
    PROVE  FilesOK' /\ CopiesOK'
<1> USE Parts
<1>1. Recorded \subseteq formatted /\ formatted \subseteq Records
  BY DEF Recorded, Held, FilesOK, MachineOK
<1>2. doc' \in [Procs -> SUBSET Records] /\ \A q \in Procs : doc'[q] \subseteq formatted
  BY <1>1 DEF Load, CopiesOK
<1>3. CopiesOK'
  BY <1>2 DEF Load, CopiesOK
<1>4. FilesOK'
  BY DEF Load, FilesOK, Held
<1> QED BY <1>3, <1>4

\* The document is read and the copy edited.
LEMMA InvEdit == ASSUME IInv, NEW p \in Procs, Edit(p) PROVE IInv'
<1> USE Parts, PartsNext
<1>1. /\ pc[p] \in {"dropDevice", "putRecord", "dropMount"}
      /\ formatted' = formatted /\ MachineOK' /\ CountsOK' /\ UNCHANGED procVars
  BY CountsKeep DEF Edit, machineVars, MachineOK
<1>2. CASE /\ pc[p] = "dropDevice" /\ Load(p, On(Dev(p)), {}) /\ Goto(p, "openFirst")
  <2>1. [mount |-> Mnt(p), device |-> Dev(p)] \in formatted'
    BY <1>1, <1>2 DEF ProcsOK, FirstSave
  <2>2. ProcsOK'
    BY <1>1, <1>2, <2>1, GotoKeeps DEF Steps, FormatOnly, FirstSave
  <2> QED BY <1>1, <1>2, <2>2, LoadKeeps
<1>3. CASE /\ pc[p] = "putRecord"
           /\ Load(p, At(Mnt(p)), {[mount |-> Mnt(p), device |-> Dev(p)]})
           /\ Goto(p, "open")
  <2>1. /\ [mount |-> Mnt(p), device |-> Dev(p)] \in formatted
        /\ formatted \subseteq Records
    BY <1>3 DEF ProcsOK, FirstSave, MachineOK
  <2>2. FilesOK' /\ CopiesOK'
    BY <1>1, <1>3, <2>1, LoadKeeps
  <2>3. ProcsOK'
    BY <1>1, <1>3, GotoKeeps DEF Steps, FormatOnly, FirstSave
  <2> QED BY <1>1, <2>2, <2>3
<1>4. CASE /\ pc[p] = "dropMount" /\ Load(p, At(Mnt(p)), {}) /\ Goto(p, "open")
  <2>1. ProcsOK'
    BY <1>1, <1>4, GotoKeeps DEF Steps, FormatOnly, FirstSave
  <2> QED BY <1>1, <1>4, <2>1, LoadKeeps
<1> QED BY <1>2, <1>3, <1>4 DEF Edit

\* The commands that end with an error over the document.
LEMMA InvDocumentFails ==
    ASSUME IInv, NEW p \in Procs, EditUnreadable(p) \/ RenameMissing(p) PROVE IInv'
<1> USE Parts, PartsNext
<1>1. MachineOK' /\ CountsOK' /\ formatted' = formatted /\ Quit(p)
  BY CountsKeep DEF EditUnreadable, RenameMissing, machineVars, MachineOK
<1> QED BY <1>1, QuitOneKeeps

\* os.WriteFile opens the temporary file.
LEMMA InvSaveOpen == ASSUME IInv, NEW p \in Procs, SaveOpen(p) PROVE IInv'
<1> USE Parts, PartsNext
<1>1. formatted' = formatted /\ MachineOK' /\ CountsOK' /\ UNCHANGED procVars
  BY CountsKeep DEF SaveOpen, machineVars, MachineOK
<1>2. FilesOK' /\ CopiesOK'
  BY <1>1 DEF SaveOpen, Open, FilesOK, CopiesOK, Contents, Empty, Held
<1>3. CASE pc[p] = "openFirst" /\ Goto(p, "writeFirst")
  <2>1. [mount |-> Mnt(p), device |-> Dev(p)] \in formatted'
    BY <1>1, <1>3 DEF ProcsOK, FirstSave
  <2>2. ProcsOK'
    BY <1>1, <1>3, <2>1, GotoKeeps DEF Steps, FormatOnly, FirstSave
  <2> QED BY <1>1, <1>2, <2>2
<1>4. CASE pc[p] = "open" /\ Goto(p, "write")
  <2>1. ProcsOK'
    BY <1>1, <1>4, GotoKeeps DEF Steps, FormatOnly, FirstSave
  <2> QED BY <1>1, <1>2, <2>1
<1> QED BY <1>3, <1>4 DEF SaveOpen

\* What is written over a file is a process's copy, or not a document.
LEMMA OverwrittenFacts ==
    ASSUME IInv, NEW p \in Procs, NEW old, NEW new \in Overwritten(p, old)
    PROVE  new \in Contents /\ Held(new) \subseteq formatted
<1> USE Parts
<1>1. doc[p] \in SUBSET Records /\ doc[p] \subseteq formatted
  BY DEF CopiesOK
<1>2. new = Document(doc[p]) \/ new = Torn
  BY DEF Overwritten
<1> QED BY <1>1, <1>2 DEF Contents, Document, Torn, Held

\* os.WriteFile writes what it has opened, wherever that is now.
LEMMA InvSaveWrite == ASSUME IInv, NEW p \in Procs, SaveWrite(p) PROVE IInv'
<1> USE Parts, PartsNext
<1>1. formatted' = formatted /\ MachineOK' /\ CountsOK' /\ UNCHANGED procVars
  BY CountsKeep DEF SaveWrite, machineVars, MachineOK
<1>2. FilesOK'
  <2>1. \/ tmp' \in Overwritten(p, tmp) /\ UNCHANGED file
        \/ file' \in Overwritten(p, file) /\ UNCHANGED tmp
        \/ UNCHANGED <<file, tmp>>
    BY DEF SaveWrite, Write
  <2>2. file' \in Contents /\ Held(file') \subseteq formatted
    BY <2>1, OverwrittenFacts DEF FilesOK
  <2>3. tmp' \in Contents /\ Held(tmp') \subseteq formatted
    BY <2>1, OverwrittenFacts DEF FilesOK
  <2> QED BY <1>1, <2>2, <2>3 DEF FilesOK, Held
<1>3. CopiesOK'
  BY <1>1 DEF SaveWrite, Write, CopiesOK
<1>4. CASE pc[p] = "writeFirst" /\ Goto(p, "renameFirst")
  <2>1. [mount |-> Mnt(p), device |-> Dev(p)] \in formatted'
    BY <1>1, <1>4 DEF ProcsOK, FirstSave
  <2>2. ProcsOK'
    BY <1>1, <1>4, <2>1, GotoKeeps DEF Steps, FormatOnly, FirstSave
  <2> QED BY <1>1, <1>2, <1>3, <2>2
<1>5. CASE pc[p] = "write" /\ Goto(p, "rename")
  <2>1. ProcsOK'
    BY <1>1, <1>5, GotoKeeps DEF Steps, FormatOnly, FirstSave
  <2> QED BY <1>1, <1>2, <1>3, <2>1
<1> QED BY <1>4, <1>5 DEF SaveWrite

\* os.Rename makes the temporary file the document.
LEMMA InvSaveRename == ASSUME IInv, NEW p \in Procs, SaveRename(p) PROVE IInv'
<1> USE Parts, PartsNext
<1>1. formatted' = formatted /\ MachineOK' /\ CountsOK'
  BY CountsKeep DEF SaveRename, machineVars, MachineOK
<1>2. FilesOK'
  BY <1>1 DEF SaveRename, Rename, FilesOK, Contents, Absent, Held
<1>3. CopiesOK'
  BY <1>1 DEF SaveRename, Rename, CopiesOK
<1>4. CASE pc[p] = "renameFirst" /\ Goto(p, "putRecord") /\ UNCHANGED procVars
  <2>1. [mount |-> Mnt(p), device |-> Dev(p)] \in formatted'
    BY <1>1, <1>4 DEF ProcsOK, FirstSave
  <2>2. ProcsOK'
    BY <1>1, <1>4, <2>1, GotoKeeps DEF Steps, FormatOnly, FirstSave
  <2> QED BY <1>1, <1>2, <1>3, <2>2
<1>5. CASE EndProcs({p})
  BY <1>1, <1>2, <1>3, <1>5, EndKeeps, {p} \in SUBSET Procs
<1> QED BY <1>4, <1>5 DEF SaveRename

\* A failed findmnt in Destroy.
LEMMA InvLookupFails == ASSUME IInv, NEW p \in Procs, LookupFails(p) PROVE IInv'
<1> USE Parts, PartsNext
<1>1. /\ pc[p] # "idle" /\ formatted' = formatted /\ MachineOK'
      /\ UNCHANGED <<storeVars, procVars>>
  BY DEF LookupFails, machineVars, MachineOK
<1>2. FilesOK' /\ CopiesOK'
  BY <1>1, StoreKeeps
<1>3. CountsOK'
  BY BoundAssumption DEF LookupFails, CountsOK
<1>4. ProcsOK'
  BY <1>1, DestroyKeeps DEF LookupFails, procVars, commandVars, ProcsOK
<1> QED BY <1>1, <1>2, <1>3, <1>4

\* A failure or a kill.
LEMMA InvStop == ASSUME IInv, NEW p \in Procs, Stop(p) PROVE IInv'
<1> USE Parts, PartsNext
<1>1. ready' \subseteq ready /\ made' \subseteq made \cup {Mnt(p)} /\ Mnt(p) \in Mounts
  BY CommandFacts DEF Stop
<1>2. MachineOK' /\ formatted' = formatted
  BY <1>1 DEF Stop, MachineOK
<1>3. CountsOK'
  BY BoundAssumption DEF Stop, CountsOK
<1> QED BY <1>2, <1>3, QuitOneKeeps DEF Stop

\* A reboot.
LEMMA InvReboot == ASSUME IInv, Reboot PROVE IInv'
<1> USE Parts, PartsNext
<1>1. MachineOK' /\ formatted' = formatted
  BY DEF Reboot, MachineOK
<1>2. CountsOK'
  BY BoundAssumption DEF Reboot, CountsOK
<1> QED BY <1>1, <1>2, QuitKeeps DEF Reboot

\* A mount by hand.
LEMMA InvMountByHand == ASSUME IInv, MountByHand PROVE IInv'
<1> USE Parts, PartsNext
<1>1. PICK m \in Mounts, d \in Devices : Push(m, d) /\ Escapes(m, {}) /\ made' = made \cup {m}
  BY DEF MountByHand
<1>2. mounts' \in [Mounts -> Seq(Devices)]
  BY <1>1, StackFacts DEF Push, MachineOK
<1>3. MachineOK' /\ formatted' = formatted
  BY <1>1, <1>2 DEF MountByHand, MachineOK
<1>4. FilesOK' /\ CopiesOK'
  BY <1>3, StoreKeeps DEF MountByHand
<1>5. CountsOK'
  BY BoundAssumption DEF MountByHand, CountsOK
<1>6. ProcsOK'
  BY <1>1, <1>3, EscapesKeeps DEF MountByHand, commandVars, ProcsOK, Mnt, Dev
<1> QED BY <1>3, <1>4, <1>5, <1>6

\* A step that changes nothing.
LEMMA InvStutter == ASSUME IInv, UNCHANGED vars PROVE IInv'
<1> USE Parts, PartsNext
<1>1. FilesOK' /\ CopiesOK' /\ CountsOK'
  BY StoreKeeps, CountsKeep DEF vars, machineVars
<1>2. MachineOK'
  BY DEF vars, machineVars, MachineOK
<1>3. ProcsOK'
  BY DEF vars, procVars, commandVars, machineVars, ProcsOK, Mnt, Dev
<1> QED BY <1>1, <1>2, <1>3

-----------------------------------------------------------------------------
(* Theorems *)

\* Every step of every process, with failures, kills and reboots, keeps the invariant.
THEOREM Inductive == Spec => []IInv
<1>1. IInv /\ [Next]_vars => IInv'
  <2> SUFFICES ASSUME IInv, [Next]_vars PROVE IInv'
    OBVIOUS
  <2>1. ASSUME NEW p \in Procs, Proc(p) PROVE IInv'
    BY <2>1, InvBegin, InvFindSource, InvFindSourceFails, InvFindTargets, InvUnmount, InvMkfs, InvMount,
       InvCheckMount, InvCheckDevice, InvFormatVolume, InvAddPath, InvGet, InvLookup,
       InvUmount, InvWipe, InvEdit, InvDocumentFails, InvSaveOpen, InvSaveWrite,
       InvSaveRename, InvLookupFails, InvStop
       DEF Proc
  <2> QED BY <2>1, InvReboot, InvMountByHand, InvStutter DEF Next
<1> QED BY InitInv, <1>1, PTL DEF Spec

\* The state of block-device format and destroy keeps its types, for any number of
\* processes, devices and mount points.
THEOREM TypeCorrect == Spec => []TypeOK
<1>1. IInv => TypeOK
  BY DEF IInv
<1> QED BY <1>1, Inductive, PTL

\* A record names a device and a mount point that Format has brought together, however
\* many processes write the document at the same time and wherever they are stopped.
THEOREM RecordsAreTrue == Spec => []RecordsAreFormatted
<1>1. IInv => RecordsAreFormatted
  BY DEF IInv, Sound, RecordsAreFormatted, Recorded, Held
<1> QED BY <1>1, Inductive, PTL

-----------------------------------------------------------------------------
(* One process at a time *)

\* There is one process at most: commands follow one another, failures and kills between.
Alone == \A p, q \in Procs : p = q

Distinct(records) ==
    \A r, s \in records : r # s => r.mount # s.mount /\ r.device # s.device

\* Steps at which what the document or the copy holds depends on the step.
SaveSteps == {"openFirst", "writeFirst", "renameFirst", "putRecord", "open", "write", "rename"}

\* Where a process that is alone stands between the document, its copy and the
\* temporary file.
Saving(p) ==
    /\ pc[p] \in {"writeFirst", "write"} => fd[p] = "tmp" /\ tmp = Empty
    /\ pc[p] \in {"renameFirst", "rename"} => tmp = Document(doc[p])
    /\ pc[p] \in SaveSteps \ {"putRecord"} => Distinct(doc[p])
    /\ pc[p] \in {"openFirst", "writeFirst", "renameFirst"} => doc[p] \cap On(Dev(p)) = {}
    /\ pc[p] = "putRecord" => Recorded \cap On(Dev(p)) = {}

AloneInv ==
    /\ Readable
    /\ Distinct(Recorded)
    /\ \A p \in Procs : Saving(p)

\* Steps that do not save leave the document alone.
LEMMA AloneElsewhere ==
    ASSUME Alone, AloneInv, NEW p \in Procs, UNCHANGED file, pc'[p] \notin SaveSteps
    PROVE  AloneInv'
<1>1. Readable' /\ Distinct(Recorded)'
  BY DEF AloneInv, Readable, Recorded, Distinct
<1>2. Saving(p)'
  BY DEF Saving, SaveSteps
<1> QED BY <1>1, <1>2 DEF Alone, AloneInv

\* A process that quits saves no more.
LEMMA AloneQuit ==
    ASSUME Alone, IInv, AloneInv, NEW p \in Procs, Quit(p)
    PROVE  AloneInv'
<1>1. pc'[p] = "idle" /\ UNCHANGED file
  BY Parts DEF Quit, EndProcs, Forgotten, Close, ProcsOK
<1> QED BY <1>1, AloneElsewhere DEF SaveSteps

\* Goto sets the process's step.
LEMMA GotoStep ==
    ASSUME IInv, NEW p \in Procs, NEW step, Goto(p, step)
    PROVE  pc'[p] = step
BY Parts DEF Goto, ProcsOK

\* The copy is edited.
LEMMA AloneEdit ==
    ASSUME Alone, IInv, AloneInv, NEW p \in Procs, Edit(p)
    PROVE  AloneInv'
<1> USE Parts
<1>1. Readable' /\ Distinct(Recorded)'
  BY DEF Edit, Load, AloneInv, Readable, Recorded, Distinct
<1>2. Dev(p)' = Dev(p) /\ UNCHANGED file
  BY DEF Edit, Load, procVars, commandVars, Dev
<1>3. \A r \in Recorded : r \in Records
  BY DEF Recorded, FilesOK, Contents, Absent, Empty, Torn
<1>4. Saving(p)'
  <2>1. CASE pc[p] = "dropDevice" /\ Load(p, On(Dev(p)), {}) /\ Goto(p, "openFirst")
    <3>1. pc'[p] = "openFirst"
      BY <2>1, GotoStep
    <3>2. doc'[p] = Recorded \ On(Dev(p))
      BY <2>1 DEF Load, CopiesOK
    <3>3. Distinct(doc'[p]) /\ doc'[p] \cap On(Dev(p)) = {}
      BY <3>2 DEF AloneInv, Distinct
    <3> QED BY <1>2, <3>1, <3>3 DEF Saving, On, Distinct
  <2>2. CASE /\ pc[p] = "putRecord"
             /\ Load(p, At(Mnt(p)), {[mount |-> Mnt(p), device |-> Dev(p)]})
             /\ Goto(p, "open")
    <3> DEFINE new == [mount |-> Mnt(p), device |-> Dev(p)]
    <3>1. pc'[p] = "open"
      BY <2>2, GotoStep
    <3>2. doc'[p] = (Recorded \ At(Mnt(p))) \cup {new}
      BY <2>2 DEF Load, CopiesOK
    <3>3. \A r \in Recorded \ At(Mnt(p)) : r.mount # new.mount /\ r.device # new.device
      BY <1>3, <2>2 DEF AloneInv, Saving, At, On
    <3>4. Distinct(doc'[p])
      <4>1. \A r, s \in Recorded : r # s => r.mount # s.mount /\ r.device # s.device
        BY DEF AloneInv, Distinct
      <4> HIDE DEF new
      <4> QED BY <3>2, <3>3, <4>1 DEF Distinct
    <3> QED BY <3>1, <3>4 DEF Saving, Distinct
  <2>3. CASE pc[p] = "dropMount" /\ Load(p, At(Mnt(p)), {}) /\ Goto(p, "open")
    <3>1. pc'[p] = "open"
      BY <2>3, GotoStep
    <3>2. doc'[p] = Recorded \ At(Mnt(p))
      BY <2>3 DEF Load, CopiesOK
    <3>3. Distinct(doc'[p])
      BY <3>2 DEF AloneInv, Distinct
    <3> QED BY <3>1, <3>3 DEF Saving, Distinct
  <2> QED BY <2>1, <2>2, <2>3 DEF Edit
<1> QED BY <1>1, <1>4 DEF Alone, AloneInv

\* The temporary file is opened.
LEMMA AloneOpen ==
    ASSUME Alone, IInv, AloneInv, NEW p \in Procs, SaveOpen(p)
    PROVE  AloneInv'
<1> USE Parts
<1>1. /\ UNCHANGED <<file, doc, cmd>>
      /\ fd'[p] = "tmp" /\ tmp' = Empty
  BY DEF SaveOpen, Open, procVars, commandVars, CopiesOK
<1>2. \/ pc[p] = "openFirst" /\ pc'[p] = "writeFirst"
      \/ pc[p] = "open" /\ pc'[p] = "write"
  BY GotoStep DEF SaveOpen
<1>3. Readable' /\ Distinct(Recorded)'
  BY <1>1 DEF AloneInv, Readable, Recorded, Distinct
<1>4. Saving(p)'
  BY <1>1, <1>2 DEF AloneInv, Saving, SaveSteps, Distinct, On, Dev
<1> QED BY <1>3, <1>4 DEF Alone, AloneInv

\* The temporary file is written.
LEMMA AloneWrite ==
    ASSUME Alone, IInv, AloneInv, NEW p \in Procs, SaveWrite(p)
    PROVE  AloneInv'
<1> USE Parts
<1>1. pc[p] \in {"writeFirst", "write"} /\ fd[p] = "tmp" /\ tmp = Empty
  BY DEF SaveWrite, AloneInv, Saving
<1>2. UNCHANGED <<file, doc, cmd>> /\ tmp' = Document(doc[p])
  BY <1>1 DEF SaveWrite, Write, Overwritten, procVars, commandVars
<1>3. \/ pc[p] = "writeFirst" /\ pc'[p] = "renameFirst"
      \/ pc[p] = "write" /\ pc'[p] = "rename"
  BY GotoStep DEF SaveWrite
<1>4. Readable' /\ Distinct(Recorded)'
  BY <1>2 DEF AloneInv, Readable, Recorded, Distinct
<1>5. Saving(p)'
  BY <1>2, <1>3 DEF AloneInv, Saving, SaveSteps, Distinct, On, Dev
<1> QED BY <1>4, <1>5 DEF Alone, AloneInv

\* The temporary file becomes the document.
LEMMA AloneRename ==
    ASSUME Alone, IInv, AloneInv, NEW p \in Procs, SaveRename(p)
    PROVE  AloneInv'
<1> USE Parts
<1>1. file' = Document(doc[p]) /\ Distinct(doc[p])
  BY DEF SaveRename, Rename, AloneInv, Saving, SaveSteps
<1>2. Recorded' = doc[p] /\ Readable'
  BY <1>1 DEF Recorded, Readable, Document, Empty, Torn
<1>3. Saving(p)'
  <2>1. CASE pc[p] = "renameFirst" /\ Goto(p, "putRecord") /\ UNCHANGED procVars
    <3>1. pc'[p] = "putRecord" /\ Dev(p)' = Dev(p)
      BY <2>1, GotoStep DEF procVars, commandVars, Dev
    <3>2. Recorded' \cap On(Dev(p)) = {}
      BY <1>2, <2>1 DEF AloneInv, Saving
    <3> QED BY <3>1, <3>2 DEF Saving, SaveSteps, On
  <2>2. CASE EndProcs({p})
    <3>1. pc'[p] = "idle"
      BY <2>2 DEF EndProcs, Forgotten, ProcsOK
    <3> QED BY <3>1 DEF Saving, SaveSteps
  <2> QED BY <2>1, <2>2 DEF SaveRename
<1> QED BY <1>1, <1>2, <1>3 DEF Alone, AloneInv, Distinct

\* Every step of the process keeps the document whole and its records distinct.
LEMMA AloneStep ==
    ASSUME Alone, IInv, AloneInv, [Next]_vars
    PROVE  AloneInv'
<1>1. ASSUME NEW p \in Procs, Proc(p) PROVE AloneInv'
  <2>1. CASE Edit(p) \/ SaveOpen(p) \/ SaveWrite(p) \/ SaveRename(p)
    BY <2>1, AloneEdit, AloneOpen, AloneWrite, AloneRename
  <2>2. CASE Quit(p)
    BY <2>2, AloneQuit
  <2>3. pc \in [Procs -> Steps]
    BY Parts DEF ProcsOK
  <2>4. CASE Begin(p)
    <3>1. PICK c \in Commands : Goto(p, IF c.kind = "destroy" THEN "get"
                     ELSE IF Platform = "linux" THEN "source" ELSE "checkMount")
      BY <2>4 DEF Begin
    <3>2. pc'[p] \in {"get", "source", "checkMount"}
      BY <3>1, GotoStep
    <3> QED BY <2>4, <3>2, AloneElsewhere DEF Begin, storeVars, SaveSteps
  <2>5. CASE FindSource(p) \/ FindSourceFails(p) \/ FindTargets(p) \/ FindTargetsFails(p)
             \/ Unmount(p)
    <3>1. Quit(p) \/ (UNCHANGED file /\ pc'[p] \in {"targets", "mkfs", "unmount"})
      BY <2>3, <2>5 DEF Goto, FindSource, FindSourceFails, FindTargets, FindTargetsFails, Decide,
         Unmount, storeVars
    <3> QED BY <2>2, <3>1, AloneElsewhere DEF SaveSteps
  <2>6. CASE Mkfs(p) \/ Mount(p) \/ AddPath(p)
    <3>1. Quit(p) \/ (UNCHANGED file /\ pc'[p] \in {"mount", "dropDevice"})
      BY <2>3, <2>6 DEF Goto, Mkfs, Mount, AddPath, storeVars
    <3> QED BY <2>2, <3>1, AloneElsewhere DEF SaveSteps
  <2>7. CASE CheckMount(p) \/ CheckDevice(p) \/ FormatVolume(p)
    <3>1. Quit(p) \/ (UNCHANGED file /\ pc'[p] \in {"checkDevice", "script", "path"})
      BY <2>3, <2>7 DEF Goto, CheckMount, CheckDevice, FormatVolume, storeVars
    <3> QED BY <2>2, <3>1, AloneElsewhere DEF SaveSteps
  <2>8. CASE Get(p) \/ Lookup(p) \/ LookupFails(p) \/ Umount(p) \/ Wipe(p)
    <3>1. Quit(p) \/ (UNCHANGED file /\ pc'[p] \in {"lookup", "umount", "dropMount", "wipe"})
      BY <2>3, <2>8 DEF Goto, Get, Lookup, LookupFails, Umount, Wipe, storeVars
    <3> QED BY <2>2, <3>1, AloneElsewhere DEF SaveSteps
  <2>9. CASE EditUnreadable(p) \/ RenameMissing(p) \/ Stop(p)
    BY <2>2, <2>9 DEF EditUnreadable, RenameMissing, Stop
  <2> QED BY <1>1, <2>1, <2>4, <2>5, <2>6, <2>7, <2>8, <2>9 DEF Proc
<1>2. CASE Reboot
  <2>1. UNCHANGED file /\ \A p \in Procs : pc'[p] = "idle"
    BY <1>2, Parts DEF Reboot, Close, EndProcs, Forgotten, ProcsOK
  <2>2. CASE Procs = {}
    BY <2>1, <2>2 DEF AloneInv, Readable, Recorded, Distinct
  <2>3. CASE Procs # {}
    BY <2>1, <2>3, AloneElsewhere DEF SaveSteps
  <2> QED BY <2>2, <2>3
<1>3. CASE UNCHANGED vars \/ MountByHand
  BY <1>3 DEF vars, MountByHand, storeVars, procVars, commandVars, machineVars, AloneInv, Saving,
     Readable, Recorded, Distinct, On, Dev
<1> QED BY <1>1, <1>2, <1>3 DEF Next

\* It holds at the start.
LEMMA AloneInit == Init => AloneInv
BY DEF Init, StoreInit, AloneInv, Readable, Recorded, Distinct, Saving, SaveSteps,
   Absent, Empty, Torn

\* Commands that follow one another keep both, whatever fails in between.
THEOREM AloneInductive ==
    ASSUME Alone
    PROVE  Spec => []AloneInv
<1>1. IInv /\ AloneInv /\ [Next]_vars => AloneInv'
  BY AloneStep
<1> QED BY AloneInit, <1>1, Inductive, PTL DEF Spec

\* As long as commands follow one another, a kill between any two steps of save leaves a
\* document that can be read.
THEOREM SaveIsAtomic ==
    ASSUME Alone
    PROVE  Spec => []StateReadable
<1>1. AloneInv => StateReadable
  BY DEF AloneInv, StateReadable
<1> QED BY <1>1, AloneInductive, PTL

\* As long as commands follow one another, no two records share a mount point or a
\* device, so that Get and GetByBlockDevice have one record to find.
THEOREM RecordsAreDistinct ==
    ASSUME Alone
    PROVE  Spec => []OneRecordEach
<1>1. AloneInv => OneRecordEach
  BY DEF AloneInv, Distinct, OneRecordEach
<1> QED BY <1>1, AloneInductive, PTL

-----------------------------------------------------------------------------
(* What is mounted, and what Format has been told of it *)

\* The steps of each command.
DestroyOnly == {"get", "lookup", "umount", "wipe", "dropMount"}
LinuxFormat == {"source", "targets", "unmount", "mkfs", "mount"}
WindowsFormat == {"checkMount", "checkDevice", "script", "path"}

\* A process at a step runs the command and the platform of that step.
OnItsWay(p) ==
    /\ pc[p] \in FormatOnly => cmd[p].kind = "format"
    /\ pc[p] \in DestroyOnly => cmd[p].kind = "destroy"
    /\ pc[p] \in LinuxFormat => Platform = "linux"
    /\ pc[p] \in WindowsFormat => Platform = "windows"

\* What Format on Linux could see in its way, it is going to unmount or has unmounted, and
\* one umount is then enough.
Clearing(p) ==
    /\ pc[p] = "targets" /\ mounts[Mnt(p)] # <<>> => Mnt(p) \in todo[p] \cup unseen[p]
    /\ pc[p] = "unmount" => cmd[p].force
    /\ pc[p] = "unmount" =>
          \A m \in InUse(p) \ unseen[p] : m \in todo[p] /\ Len(mounts[m]) <= 1
    /\ pc[p] \in {"mkfs", "mount"} => InUse(p) \subseteq unseen[p]

MountInv == \A p \in Procs : OnItsWay(p) /\ Clearing(p)

\* What becomes of a mount point, but for mounts added: it loses mounts or none.
Thinner(m) ==
    /\ mounts[m] = <<>> => mounts'[m] = <<>>
    /\ Len(mounts[m]) <= 1 => Len(mounts'[m]) <= 1
    /\ \A d : m \in MountsOf(d)' => m \in MountsOf(d)

\* What a step means to a process whose step it is not: every mount it adds escapes the process.
Spared(p) ==
    /\ pc'[p] = pc[p] /\ cmd'[p] = cmd[p] /\ todo'[p] = todo[p]
    /\ unseen[p] \subseteq unseen'[p]
    /\ pc[p] \in Looked => \A m \in Mounts : Thinner(m) \/ m \in unseen'[p]

\* Taking a mount off a mount point leaves the others alone, and nothing if it was alone.
LEMMA PopFacts ==
    ASSUME IInv, NEW m, Pop(m)
    PROVE  /\ \A n \in Mounts : n # m => mounts'[n] = mounts[n]
           /\ \A n \in Mounts : Len(mounts[n]) <= 1 => Len(mounts'[n]) <= 1
           /\ \A n \in Mounts : mounts[n] = <<>> => mounts'[n] = <<>>
           /\ m \in Mounts /\ Len(mounts[m]) <= 1 => mounts'[m] = <<>>
           /\ \A d : MountsOf(d)' \subseteq MountsOf(d)
<1>1. mounts \in [Mounts -> Seq(Devices)]
  BY Parts DEF MachineOK
<1>2. \A n \in Mounts : mounts'[n] = IF n = m THEN SubSeq(mounts[n], 1, Len(mounts[n]) - 1)
                                     ELSE mounts[n]
  BY <1>1 DEF Pop
<1>3. \A s \in Seq(Devices) :
         LET t == SubSeq(s, 1, Len(s) - 1) IN
            /\ Len(s) <= 1 => Len(t) <= 1
            /\ s = <<>> => t = <<>>
            /\ Len(s) <= 1 => t = <<>>
            /\ \A i \in DOMAIN t : i \in DOMAIN s /\ t[i] = s[i]
  <2> SUFFICES ASSUME NEW s \in Seq(Devices), NEW t, t = SubSeq(s, 1, Len(s) - 1)
               PROVE  /\ Len(s) <= 1 => Len(t) <= 1
                      /\ s = <<>> => t = <<>>
                      /\ Len(s) <= 1 => t = <<>>
                      /\ \A i \in DOMAIN t : i \in DOMAIN s /\ t[i] = s[i]
    OBVIOUS
  <2>1. CASE s = <<>>
    BY <2>1
  <2>2. CASE s # <<>>
    BY <2>2
  <2> QED BY <2>1, <2>2
<1>4. \A n \in Mounts : \A i \in DOMAIN mounts'[n] :
         i \in DOMAIN mounts[n] /\ mounts'[n][i] = mounts[n][i]
  BY <1>1, <1>2, <1>3
<1>5. \A d : MountsOf(d)' \subseteq MountsOf(d)
  BY <1>4 DEF MountsOf
<1>6. \A n \in Mounts : Len(mounts[n]) <= 1 => Len(mounts'[n]) <= 1
  BY <1>1, <1>2, <1>3
<1>7. \A n \in Mounts : mounts[n] = <<>> => mounts'[n] = <<>>
  BY <1>1, <1>2, <1>3
<1>8. m \in Mounts /\ Len(mounts[m]) <= 1 => mounts'[m] = <<>>
  BY <1>1, <1>2, <1>3
<1> QED BY <1>2, <1>5, <1>6, <1>7, <1>8

\* So no mount point gets more.
LEMMA PopThins == ASSUME IInv, NEW m, Pop(m) PROVE \A n \in Mounts : Thinner(n)
BY PopFacts DEF Thinner

\* Mounts that a step leaves alone.
LEMMA SameThins == ASSUME UNCHANGED mounts PROVE \A n \in Mounts : Thinner(n)
BY DEF Thinner, MountsOf

\* A mount added changes its own mount point only.
LEMMA PushFacts ==
    ASSUME IInv, NEW m \in Mounts, NEW d, Push(m, d)
    PROVE  /\ \A n \in Mounts : n # m => mounts'[n] = mounts[n]
           /\ \A n \in Mounts : n # m => Thinner(n)
<1>1. \A n \in Mounts : n # m => mounts'[n] = mounts[n]
  BY Parts DEF Push, MachineOK
<1> QED BY <1>1 DEF Thinner, MountsOf

\* A process that a step spares knows as much as before.
LEMMA SparedKeeps ==
    ASSUME IInv, NEW p \in Procs, Spared(p), OnItsWay(p), Clearing(p)
    PROVE  OnItsWay(p)' /\ Clearing(p)'
<1>1. OnItsWay(p)'
  BY DEF Spared, OnItsWay
<1>2. Mnt(p)' = Mnt(p) /\ Dev(p)' = Dev(p)
  BY DEF Spared, Mnt, Dev
<1>3. CASE pc[p] \in Looked
  <2>1. Mnt(p) \in Mounts
    BY <1>3, CommandFacts DEF Looked
  <2>2. \A m \in Mounts : Thinner(m) \/ m \in unseen'[p]
    BY <1>3 DEF Spared
  <2>3. ASSUME NEW m \in InUse(p)', m \notin unseen'[p]
        PROVE  /\ m \in InUse(p) \ unseen[p]
               /\ Len(mounts[m]) <= 1 => Len(mounts'[m]) <= 1
    <3>1. m \in Mounts
      BY <1>2, <2>1, <2>3 DEF InUse, MountsOf
    <3>2. Thinner(m) /\ m \notin unseen[p]
      BY <2>2, <2>3, <3>1 DEF Spared
    <3>3. m \in MountsOf(Dev(p))' => m \in MountsOf(Dev(p))
      <4>1. \A d : m \in MountsOf(d)' => m \in MountsOf(d)
        BY <3>2 DEF Thinner
      <4>2. MountsOf(Dev(p))' = {n \in Mounts : \E i \in DOMAIN mounts'[n] : mounts'[n][i] = Dev(p)}
        BY <1>2 DEF MountsOf
      <4> QED BY <4>1, <4>2 DEF MountsOf
    <3>4. m = Mnt(p) /\ mounts'[m] # <<>> => mounts[m] # <<>>
      BY <3>2 DEF Thinner
    <3>5. m \in InUse(p)
      BY <1>2, <2>3, <3>3, <3>4 DEF InUse
    <3> QED BY <3>2, <3>5 DEF Thinner
  <2>4. mounts'[Mnt(p)] # <<>> => mounts[Mnt(p)] # <<>> \/ Mnt(p) \in unseen'[p]
    BY <2>1, <2>2 DEF Thinner
  <2>5. /\ pc'[p] = pc[p] /\ cmd'[p] = cmd[p] /\ todo'[p] = todo[p]
        /\ unseen[p] \subseteq unseen'[p]
    BY DEF Spared
  <2>6. pc[p] = "unmount" =>
           \A m \in InUse(p)' \ unseen'[p] : m \in todo'[p] /\ Len(mounts'[m]) <= 1
    BY <2>3, <2>5 DEF Clearing
  <2>7. pc[p] \in {"mkfs", "mount"} => InUse(p)' \subseteq unseen'[p]
    BY <2>3, <2>5 DEF Clearing
  <2>8. pc[p] = "targets" /\ mounts'[Mnt(p)] # <<>> => Mnt(p) \in todo'[p] \cup unseen'[p]
    BY <2>4, <2>5 DEF Clearing
  <2> QED BY <1>1, <1>2, <2>5, <2>6, <2>7, <2>8 DEF Clearing
<1>4. CASE pc[p] \notin Looked
  BY <1>1, <1>4 DEF Spared, Clearing, Looked
<1> QED BY <1>3, <1>4

\* A step of one process spares the others.
LEMMA OthersSpared ==
    ASSUME IInv, NEW p \in Procs, Proc(p), NEW q \in Procs, q # p
    PROVE  Spared(q)
<1> USE Parts
<1>1. ASSUME pc'[q] = pc[q], cmd'[q] = cmd[q], todo'[q] = todo[q], unseen'[q] = unseen[q],
             \A m \in Mounts : Thinner(m)
      PROVE  Spared(q)
  BY <1>1 DEF Spared
<1>2. /\ pc \in [Procs -> Steps]
      /\ DOMAIN cmd = Procs /\ DOMAIN todo = Procs /\ DOMAIN unseen = Procs
      /\ cmd \in [Procs -> Commands \cup {NoCommand}]
      /\ todo \in [Procs -> SUBSET Mounts]
      /\ unseen \in [Procs -> SUBSET Mounts]
  BY DEF ProcsOK
<1>3. Quit(p) => pc'[q] = pc[q] /\ cmd'[q] = cmd[q] /\ todo'[q] = todo[q] /\ unseen'[q] = unseen[q]
  BY DEF Quit, EndProcs, Forgotten
<1>4. ASSUME NEW step, Goto(p, step) PROVE pc'[q] = pc[q]
  BY <1>2, <1>4 DEF Goto
<1>5. CASE Begin(p)
  <2>1. PICK c \in Commands :
           /\ cmd' = [cmd EXCEPT ![p] = c]
           /\ Goto(p, IF c.kind = "destroy" THEN "get"
                      ELSE IF Platform = "linux" THEN "source" ELSE "checkMount")
    BY <1>5 DEF Begin
  <2>2. UNCHANGED <<mounts, todo, unseen>>
    BY <1>5 DEF Begin, machineVars
  <2> QED BY <1>1, <1>2, <1>4, <2>1, <2>2, SameThins
<1>6. CASE FindSource(p) \/ FindSourceFails(p)
  BY <1>1, <1>2, <1>4, <1>6, SameThins DEF FindSource, FindSourceFails, machineVars, commandVars
<1>7. ASSUME NEW targets, Decide(p, targets), UNCHANGED mounts PROVE Spared(q)
  <2>1. CASE Quit(p)
    BY <1>1, <1>3, <1>7, <2>1, SameThins
  <2>2. CASE ~Quit(p)
    <3> DEFINE found == todo[p] \cup targets
               left == (unseen[p] \ targets) \cup (MountsOf(Dev(p)) \ found)
                          \cup {m \in found : Len(mounts[m]) > 1}
    <3>1. /\ todo' = [todo EXCEPT ![p] = found]
          /\ unseen' = [unseen EXCEPT ![p] = left]
          /\ Goto(p, IF found = {} THEN "mkfs" ELSE "unmount")
          /\ cmd' = cmd
      BY <1>2, <1>7, <2>2, DecideCases
    <3> HIDE DEF found, left
    <3> QED BY <1>1, <1>2, <1>4, <1>7, <3>1, SameThins
  <2> QED BY <2>1, <2>2
<1>8. CASE FindTargets(p) \/ FindTargetsFails(p)
  BY <1>7, <1>8 DEF FindTargets, FindTargetsFails, machineVars
<1>9. CASE Unmount(p)
  <2>1. CASE Quit(p) /\ UNCHANGED mounts
    BY <1>1, <1>3, <2>1, SameThins
  <2>2. CASE ~Quit(p) \/ ~UNCHANGED mounts
    BY <1>1, <1>2, <1>4, <1>9, <2>2, PopThins DEF Unmount
  <2> QED BY <2>1, <2>2
<1>10. CASE Umount(p)
  <2>1. CASE mounts[Mnt(p)] = <<>>
    BY <1>1, <1>3, <1>10, <2>1, SameThins DEF Umount
  <2>2. CASE mounts[Mnt(p)] # <<>>
    <3>1. \A n \in Mounts : Thinner(n)
      BY <1>10, <2>2, PopThins DEF Umount
    <3>2. CASE Quit(p)
      BY <1>1, <1>3, <3>1, <3>2
    <3>3. CASE ~Quit(p)
      BY <1>1, <1>2, <1>4, <1>10, <2>2, <3>1, <3>3 DEF Umount
    <3> QED BY <3>2, <3>3
  <2> QED BY <2>1, <2>2
<1>11. CASE Wipe(p)
  <2>1. \A n \in Mounts : Thinner(n)
    <3>1. CASE UNCHANGED mounts
      BY <3>1, SameThins
    <3>2. CASE mounts' = [m \in Mounts |-> IF Top(m) = record[p] THEN <<>> ELSE mounts[m]]
      <4>1. ASSUME NEW n \in Mounts PROVE Thinner(n)
        <5>1. mounts'[n] = <<>> \/ mounts'[n] = mounts[n]
          BY <3>2
        <5>2. Len(<<>>) <= 1 /\ DOMAIN <<>> = {}
          OBVIOUS
        <5> QED BY <5>1, <5>2 DEF Thinner, MountsOf
      <4> QED BY <4>1
    <3> QED BY <1>11, <3>1, <3>2 DEF Wipe
  <2>2. CASE Quit(p)
    BY <1>1, <1>3, <2>1, <2>2
  <2>3. CASE ~Quit(p)
    BY <1>1, <1>4, <1>11, <2>1, <2>3 DEF Wipe, procVars, commandVars
  <2> QED BY <2>2, <2>3
<1>12. CASE Mount(p) \/ AddPath(p)
  <2>1. CASE Quit(p) /\ UNCHANGED mounts
    BY <1>1, <1>3, <2>1, SameThins
  <2>2. CASE Attach(p) /\ Goto(p, "dropDevice") /\ UNCHANGED <<storeVars, commandVars>>
    <3>1. Mnt(p) \in Mounts
      BY <1>12, CommandFacts DEF Mount, AddPath
    <3>2. unseen'[q] = IF pc[q] \in Looked THEN unseen[q] \cup {Mnt(p)} ELSE unseen[q]
      BY <1>2, <2>2 DEF Attach, Escapes
    <3>3. \A n \in Mounts : n # Mnt(p) => Thinner(n)
      BY <2>2, <3>1, PushFacts DEF Attach
    <3> QED BY <1>4, <2>2, <3>2, <3>3 DEF Spared, commandVars
  <2> QED BY <1>12, <2>1, <2>2 DEF Mount, AddPath
<1>13. CASE Mkfs(p) \/ CheckMount(p) \/ CheckDevice(p) \/ FormatVolume(p)
  <2>1. \A n \in Mounts : Thinner(n)
    BY <1>13, SameThins DEF Mkfs, CheckMount, CheckDevice, FormatVolume, machineVars
  <2>2. CASE Quit(p)
    BY <1>1, <1>3, <2>1, <2>2
  <2>3. CASE ~Quit(p)
    BY <1>1, <1>4, <1>13, <2>1, <2>3
       DEF Mkfs, CheckMount, CheckDevice, FormatVolume, procVars, commandVars
  <2> QED BY <2>2, <2>3
<1>14. CASE Get(p) \/ Lookup(p) \/ LookupFails(p)
  <2>1. \A n \in Mounts : Thinner(n)
    BY <1>14, SameThins DEF Get, Lookup, LookupFails, machineVars
  <2>2. CASE Quit(p)
    BY <1>1, <1>3, <2>1, <2>2
  <2>3. CASE ~Quit(p)
    BY <1>1, <1>4, <1>14, <2>1, <2>3 DEF Get, Lookup, LookupFails, procVars, commandVars
  <2> QED BY <2>2, <2>3
<1>15. CASE Edit(p) \/ SaveOpen(p) \/ SaveWrite(p)
  <2>1. \A n \in Mounts : Thinner(n)
    BY <1>15, SameThins DEF Edit, SaveOpen, SaveWrite, machineVars
  <2> QED BY <1>1, <1>4, <1>15, <2>1 DEF Edit, SaveOpen, SaveWrite, procVars, commandVars
<1>16. CASE SaveRename(p)
  <2>1. \A n \in Mounts : Thinner(n)
    BY <1>16, SameThins DEF SaveRename, machineVars
  <2>2. CASE EndProcs({p})
    BY <1>1, <2>1, <2>2 DEF EndProcs, Forgotten
  <2>3. CASE ~EndProcs({p})
    BY <1>1, <1>4, <1>16, <2>1, <2>3 DEF SaveRename, procVars, commandVars
  <2> QED BY <2>2, <2>3
<1>17. CASE EditUnreadable(p) \/ RenameMissing(p) \/ Stop(p)
  BY <1>1, <1>3, <1>17, SameThins DEF EditUnreadable, RenameMissing, Stop, machineVars
<1> QED BY <1>5, <1>6, <1>8, <1>9, <1>10, <1>11, <1>12, <1>13, <1>14, <1>15, <1>16, <1>17 DEF Proc

\* A process that is somewhere else than on its way to a mount.
LEMMA MountElsewhere ==
    ASSUME NEW p \in Procs, pc'[p] \notin Looked, OnItsWay(p)'
    PROVE  OnItsWay(p)' /\ Clearing(p)'
BY DEF Clearing, Looked

\* A process that ends.
LEMMA MountQuit ==
    ASSUME IInv, NEW p \in Procs, EndProcs({p})
    PROVE  OnItsWay(p)' /\ Clearing(p)'
<1>1. pc'[p] = "idle"
  BY Parts DEF EndProcs, Forgotten, ProcsOK
<1> QED BY <1>1, MountElsewhere DEF OnItsWay, FormatOnly, FirstSave, DestroyOnly, LinuxFormat,
        WindowsFormat, Looked

\* Format on Linux looks at its mount point.
LEMMA MountSource ==
    ASSUME IInv, MountInv, NEW p \in Procs, FindSource(p) \/ FindSourceFails(p)
    PROVE  OnItsWay(p)' /\ Clearing(p)'
<1> USE Parts
<1>1. UNCHANGED <<mounts, cmd>> /\ OnItsWay(p) /\ pc[p] = "source" /\ Mnt(p)' = Mnt(p)
  BY DEF FindSource, FindSourceFails, machineVars, commandVars, MountInv, Mnt
<1>2. Mnt(p) \in Mounts /\ (mounts[Mnt(p)] # <<>> => Top(Mnt(p)) \in Devices)
  BY <1>1, CommandFacts
<1>3. pc'[p] = "targets"
  BY GotoStep DEF FindSource, FindSourceFails
<1>4. OnItsWay(p)'
  BY <1>1, <1>3 DEF OnItsWay, LinuxFormat, WindowsFormat, FormatOnly, FirstSave, DestroyOnly
<1>5. mounts[Mnt(p)] # <<>> => Mnt(p) \in todo'[p] \cup unseen'[p]
  <2>1. CASE FindSource(p)
    BY <1>2, <2>1, NoDeviceAssumption DEF FindSource, Source, ProcsOK
  <2>2. CASE FindSourceFails(p)
    BY <2>2 DEF FindSourceFails, ProcsOK
  <2> QED BY <2>1, <2>2
<1> QED BY <1>1, <1>3, <1>4, <1>5 DEF Clearing

\* Format on Linux looks for its device, and decides.
LEMMA MountDecide ==
    ASSUME IInv, MountInv, NEW p \in Procs, pc[p] = "targets", UNCHANGED mounts,
           NEW targets \in SUBSET Mounts, Decide(p, targets)
    PROVE  OnItsWay(p)' /\ Clearing(p)'
<1> USE Parts
<1> DEFINE found == todo[p] \cup targets
           left == (unseen[p] \ targets) \cup (MountsOf(Dev(p)) \ found)
                      \cup {m \in found : Len(mounts[m]) > 1}
<1>1. CASE Quit(p)
  BY <1>1, MountQuit DEF Quit
<1>2. CASE ~Quit(p)
  <2>1. /\ found = {} \/ cmd[p].force
        /\ todo'[p] = found /\ unseen'[p] = left /\ cmd' = cmd
        /\ Goto(p, IF found = {} THEN "mkfs" ELSE "unmount")
    BY <1>2, DecideCases DEF ProcsOK
  <2>2. pc'[p] = IF found = {} THEN "mkfs" ELSE "unmount"
    BY <2>1, GotoStep
  <2>3. OnItsWay(p) /\ Clearing(p)
    BY DEF MountInv
  <2>4. Mnt(p) \in Mounts /\ mounts \in [Mounts -> Seq(Devices)]
    BY CommandFacts DEF MachineOK
  <2>5. found \subseteq Mounts
    BY DEF ProcsOK
  <2>6. \A m \in InUse(p) \ left : m \in found /\ Len(mounts[m]) <= 1
    <3> SUFFICES ASSUME NEW m \in InUse(p), m \notin left PROVE m \in found /\ Len(mounts[m]) <= 1
      OBVIOUS
    <3>1. m \in found
      <4>1. CASE m \in MountsOf(Dev(p))
        BY <4>1
      <4>2. CASE m = Mnt(p) /\ mounts[m] # <<>>
        BY <2>3, <4>2 DEF Clearing
      <4> QED BY <4>1, <4>2 DEF InUse
    <3>2. ~(Len(mounts[m]) > 1) /\ Len(mounts[m]) \in Nat
      BY <2>4, <2>5, <3>1
    <3> QED BY <3>1, <3>2
  <2> HIDE DEF found, left
  <2>7. InUse(p)' = InUse(p) /\ Mnt(p)' = Mnt(p)
    BY <2>1 DEF InUse, MountsOf, Mnt, Dev
  <2>8. OnItsWay(p)'
    BY <2>1, <2>2, <2>3
       DEF OnItsWay, LinuxFormat, WindowsFormat, FormatOnly, FirstSave, DestroyOnly
  <2>9. Clearing(p)'
    <3>1. CASE found = {}
      BY <2>1, <2>2, <2>6, <2>7, <3>1 DEF Clearing
    <3>2. CASE found # {}
      BY <2>1, <2>2, <2>6, <2>7, <3>2 DEF Clearing
    <3> QED BY <3>1, <3>2
  <2> QED BY <2>8, <2>9
<1> QED BY <1>1, <1>2

\* Format on Linux unmounts.
LEMMA MountUnmount ==
    ASSUME IInv, MountInv, NEW p \in Procs, Unmount(p)
    PROVE  OnItsWay(p)' /\ Clearing(p)'
<1> USE Parts
<1>1. OnItsWay(p) /\ Clearing(p) /\ pc[p] = "unmount"
  BY DEF Unmount, MountInv
<1>2. CASE Quit(p)
  BY <1>2, MountQuit DEF Quit
<1>3. CASE /\ Pop(First(p))
           /\ todo' = [todo EXCEPT ![p] = @ \ {First(p)}]
           /\ Goto(p, IF todo[p] = {First(p)} THEN "mkfs" ELSE "unmount")
           /\ UNCHANGED <<storeVars, cmd, record, popped, unseen>>
  <2>1. /\ todo'[p] = todo[p] \ {First(p)} /\ cmd' = cmd /\ unseen' = unseen
        /\ todo[p] \subseteq Mounts /\ Mnt(p) \in Mounts
    BY <1>1, <1>3, CommandFacts DEF ProcsOK
  <2>2. pc'[p] = IF todo[p] = {First(p)} THEN "mkfs" ELSE "unmount"
    BY <1>3, GotoStep
  <2>3. OnItsWay(p)'
    BY <1>1, <2>1, <2>2
       DEF OnItsWay, LinuxFormat, WindowsFormat, FormatOnly, FirstSave, DestroyOnly
  <2>4. Mnt(p)' = Mnt(p) /\ Dev(p)' = Dev(p) /\ cmd[p].force
    BY <1>1, <2>1 DEF Mnt, Dev, Clearing
  <2>5. \A m \in InUse(p)' \ unseen[p] : m \in todo'[p] /\ Len(mounts'[m]) <= 1
    <3> SUFFICES ASSUME NEW m \in InUse(p)', m \notin unseen[p]
                 PROVE  m \in todo'[p] /\ Len(mounts'[m]) <= 1
      OBVIOUS
    <3>1. m \in Mounts /\ mounts'[m] # <<>>
      <4>1. MountsOf(Dev(p))' = {n \in Mounts : \E i \in DOMAIN mounts'[n] : mounts'[n][i] = Dev(p)}
        BY <2>4 DEF MountsOf
      <4>2. CASE m \in MountsOf(Dev(p))'
        BY <4>1, <4>2
      <4>3. CASE m = Mnt(p) /\ mounts'[m] # <<>>
        BY <2>1, <4>3
      <4> QED BY <2>4, <4>2, <4>3 DEF InUse
    <3>2. m \in InUse(p)
      <4>1. MountsOf(Dev(p))' \subseteq MountsOf(Dev(p))
        BY <1>3, <2>4, PopFacts DEF MountsOf
      <4>2. mounts'[Mnt(p)] # <<>> => mounts[Mnt(p)] # <<>>
        BY <1>3, <2>1, PopFacts
      <4> QED BY <2>4, <4>1, <4>2 DEF InUse
    <3>3. m \in todo[p] /\ Len(mounts[m]) <= 1
      BY <1>1, <3>2 DEF Clearing
    <3>4. m # First(p) /\ Len(mounts'[m]) <= 1
      BY <1>3, <3>1, <3>3, PopFacts
    <3> QED BY <2>1, <3>3, <3>4
  <2>6. Clearing(p)'
    <3>1. CASE todo[p] = {First(p)}
      BY <2>1, <2>2, <2>5, <3>1 DEF Clearing
    <3>2. CASE todo[p] # {First(p)}
      BY <2>1, <2>2, <2>4, <2>5, <3>2 DEF Clearing
    <3> QED BY <3>1, <3>2
  <2> QED BY <2>3, <2>6
<1>4. \/ /\ Pop(First(p))
         /\ todo' = [todo EXCEPT ![p] = @ \ {First(p)}]
         /\ Goto(p, IF todo[p] = {First(p)} THEN "mkfs" ELSE "unmount")
         /\ UNCHANGED <<storeVars, cmd, record, popped, unseen>>
      \/ Quit(p)
  BY DEF Unmount
<1> QED BY <1>2, <1>3, <1>4

\* Format mounts its device, on either platform.
LEMMA MountAttach ==
    ASSUME IInv, MountInv, NEW p \in Procs, Mount(p) \/ AddPath(p)
    PROVE  OnItsWay(p)' /\ Clearing(p)'
<1>1. OnItsWay(p)
  BY DEF MountInv
<1>2. CASE Quit(p)
  BY <1>2, MountQuit DEF Quit
<1>3. CASE Goto(p, "dropDevice") /\ UNCHANGED <<storeVars, commandVars>>
  <2>1. pc'[p] = "dropDevice" /\ cmd' = cmd
    BY <1>3, GotoStep DEF commandVars
  <2>2. OnItsWay(p)'
    BY <1>1, <2>1 DEF Mount, AddPath, OnItsWay, LinuxFormat, WindowsFormat, FormatOnly,
       FirstSave, DestroyOnly
  <2> QED BY <2>1, <2>2, MountElsewhere DEF Looked
<1> QED BY <1>2, <1>3 DEF Mount, AddPath

\* The step to the filesystem's making and the one after it.
LEMMA MountMkfs ==
    ASSUME IInv, MountInv, NEW p \in Procs, Mkfs(p)
    PROVE  OnItsWay(p)' /\ Clearing(p)'
<1>1. OnItsWay(p) /\ Clearing(p) /\ UNCHANGED mounts /\ pc[p] = "mkfs"
  BY DEF Mkfs, MountInv
<1>2. CASE Quit(p)
  BY <1>2, MountQuit DEF Quit
<1>3. CASE Goto(p, "mount") /\ UNCHANGED <<storeVars, procVars>>
  <2>1. pc'[p] = "mount" /\ cmd' = cmd /\ unseen' = unseen
    BY <1>3, GotoStep DEF procVars, commandVars
  <2>2. InUse(p)' = InUse(p)
    BY <1>1, <2>1 DEF InUse, MountsOf, Mnt, Dev
  <2> QED BY <1>1, <2>1, <2>2 DEF OnItsWay, Clearing,
          LinuxFormat, WindowsFormat, FormatOnly, FirstSave, DestroyOnly
<1> QED BY <1>2, <1>3 DEF Mkfs

\* A command begins.
LEMMA MountBegin ==
    ASSUME IInv, NEW p \in Procs, Begin(p)
    PROVE  OnItsWay(p)' /\ Clearing(p)'
<1> USE Parts
<1>1. PICK c \in Commands :
         /\ cmd' = [cmd EXCEPT ![p] = c]
         /\ Goto(p, IF c.kind = "destroy" THEN "get"
                    ELSE IF Platform = "linux" THEN "source" ELSE "checkMount")
  BY DEF Begin
<1>2. /\ cmd'[p] = c /\ c.kind \in {"format", "destroy"}
      /\ pc'[p] = IF c.kind = "destroy" THEN "get"
                  ELSE IF Platform = "linux" THEN "source" ELSE "checkMount"
  BY <1>1, GotoStep DEF ProcsOK, Commands
<1>3. OnItsWay(p)' /\ pc'[p] \notin Looked
  BY <1>2, PlatformAssumption DEF OnItsWay, LinuxFormat, WindowsFormat, FormatOnly, FirstSave,
     DestroyOnly, Looked
<1> QED BY <1>3, MountElsewhere

\* The rest of a command.
LEMMA MountRest ==
    ASSUME IInv, MountInv, NEW p \in Procs,
           \/ CheckMount(p) \/ CheckDevice(p) \/ FormatVolume(p)
           \/ Get(p) \/ Lookup(p) \/ LookupFails(p) \/ Umount(p) \/ Wipe(p)
           \/ Edit(p) \/ SaveOpen(p) \/ SaveWrite(p) \/ SaveRename(p)
           \/ EditUnreadable(p) \/ RenameMissing(p) \/ Stop(p)
    PROVE  OnItsWay(p)' /\ Clearing(p)'
<1> USE Parts
<1>1. OnItsWay(p)
  BY DEF MountInv
<1>2. CASE EndProcs({p})
  BY <1>2, MountQuit
<1>3. CASE ~EndProcs({p})
  <2>1. ~Quit(p)
    BY <1>3 DEF Quit
  <2>2. cmd' = cmd
    BY <1>3, <2>1 DEF CheckMount, CheckDevice, FormatVolume, Get, Lookup, LookupFails, Umount,
       Wipe, Edit, SaveOpen, SaveWrite, SaveRename, EditUnreadable, RenameMissing, Stop, procVars,
       commandVars
  <2>3. \/ pc[p] \in WindowsFormat /\ pc'[p] \in WindowsFormat
        \/ pc[p] \in DestroyOnly /\ pc'[p] \in DestroyOnly \cup {"open"}
        \/ pc[p] \in FirstSave /\ pc'[p] \in FirstSave \cup {"open"}
        \/ pc'[p] \in {"write", "rename"}
    <3>1. pc \in [Procs -> Steps]
      BY DEF ProcsOK
    <3>2. CASE CheckMount(p) \/ CheckDevice(p) \/ FormatVolume(p)
      BY <2>1, <3>1, <3>2 DEF CheckMount, CheckDevice, FormatVolume, Goto, WindowsFormat
    <3>3. CASE Get(p) \/ Lookup(p) \/ LookupFails(p) \/ Umount(p) \/ Wipe(p)
      BY <2>1, <3>1, <3>3 DEF Get, Lookup, LookupFails, Umount, Wipe, Goto, DestroyOnly
    <3>4. CASE Edit(p) \/ SaveOpen(p) \/ SaveWrite(p) \/ SaveRename(p)
      BY <1>3, <3>1, <3>4 DEF Edit, SaveOpen, SaveWrite, SaveRename, Goto, DestroyOnly, FirstSave
    <3>5. CASE EditUnreadable(p) \/ RenameMissing(p) \/ Stop(p)
      BY <2>1, <3>5 DEF EditUnreadable, RenameMissing, Stop
    <3> QED BY <3>2, <3>3, <3>4, <3>5
  <2>4. OnItsWay(p)'
    BY <1>1, <2>2, <2>3 DEF OnItsWay, FormatOnly, FirstSave, DestroyOnly, LinuxFormat, WindowsFormat
  <2>5. pc'[p] \notin Looked
    BY <2>3 DEF FirstSave, DestroyOnly, WindowsFormat, Looked
  <2> QED BY <2>4, <2>5, MountElsewhere
<1> QED BY <1>2, <1>3

\* A mount by hand escapes every process that has looked.
LEMMA MountHand ==
    ASSUME IInv, MountByHand, NEW p \in Procs
    PROVE  Spared(p)
<1>1. PICK m \in Mounts, d \in Devices : Push(m, d) /\ Escapes(m, {})
  BY DEF MountByHand
<1>2. unseen'[p] = IF pc[p] \in Looked THEN unseen[p] \cup {m} ELSE unseen[p]
  BY <1>1 DEF Escapes
<1>3. \A n \in Mounts : n # m => Thinner(n)
  BY <1>1, PushFacts
<1> QED BY <1>2, <1>3 DEF MountByHand, Spared, commandVars

\* Every step keeps it, for any number of processes.
LEMMA MountStep ==
    ASSUME IInv, MountInv, [Next]_vars
    PROVE  MountInv'
<1>1. ASSUME NEW p \in Procs, Proc(p), NEW q \in Procs PROVE OnItsWay(q)' /\ Clearing(q)'
  <2>1. CASE q = p
    <3>1. CASE FindTargets(p) \/ FindTargetsFails(p)
      <4>1. MountsOf(Dev(p)) \in SUBSET Mounts /\ {} \in SUBSET Mounts
        BY DEF MountsOf
      <4> QED BY <2>1, <3>1, <4>1, MountDecide DEF FindTargets, FindTargetsFails, machineVars
    <3> QED BY <1>1, <2>1, <3>1, MountSource, MountUnmount, MountAttach, MountMkfs, MountBegin,
            MountRest DEF Proc
  <2>2. CASE q # p
    BY <1>1, <2>2, OthersSpared, SparedKeeps DEF MountInv
  <2> QED BY <2>1, <2>2
<1>2. CASE Reboot
  <2>1. \A p \in Procs : pc'[p] = "idle"
    BY <1>2, Parts DEF Reboot, EndProcs, Forgotten, ProcsOK
  <2> QED BY <2>1 DEF MountInv, OnItsWay, Clearing, FormatOnly, FirstSave, DestroyOnly,
          LinuxFormat, WindowsFormat
<1>3. CASE MountByHand
  BY <1>3, MountHand, SparedKeeps DEF MountInv
<1>4. CASE UNCHANGED vars
  BY <1>4 DEF vars, procVars, commandVars, machineVars, MountInv, OnItsWay, Clearing, InUse, Mnt,
     Dev, MountsOf
<1> QED BY <1>1, <1>2, <1>3, <1>4 DEF Next, MountInv

\* What is in Format's way, and could be seen, it has found.
THEOREM MountsInductive == Spec => []MountInv
<1>1. Init => MountInv
  BY DEF Init, MountInv, OnItsWay, Clearing, FormatOnly, FirstSave, DestroyOnly,
     LinuxFormat, WindowsFormat
<1>2. IInv /\ MountInv /\ [Next]_vars => MountInv'
  BY MountStep
<1> QED BY <1>1, <1>2, Inductive, PTL DEF Spec

\* A step of Format on Linux without --force that is no failure: what was mounted and could be
\* seen stays so, and a filesystem is made where Format has looked.
LEMMA UnforcedStep ==
    ASSUME Platform = "linux", IInv, MountInv, [Next]_vars, NEW p \in Procs, Unforced(p)
    PROVE  /\ Moves(p) =>
                 \A m \in Mounts \ unseen[p] : mounts[m] # <<>> => mounts'[m] = mounts[m]
           /\ Reformats(p) => InUse(p) \subseteq unseen[p]
<1> USE Parts
<1>1. OnItsWay(p) /\ Clearing(p)
  BY DEF MountInv
<1>2. ~cmd[p].force /\ cmd[p].kind = "format"
  BY DEF Unforced
<1>3. ASSUME Moves(p), NEW m \in Mounts \ unseen[p], mounts[m] # <<>>
      PROVE  mounts'[m] = mounts[m]
  <2>1. faults \in Nat /\ pc'[p] # pc[p] /\ faults' = faults
    BY <1>3, BoundAssumption DEF CountsOK, Moves
  <2>2. ~Reboot /\ ~MountByHand /\ ~UNCHANGED vars
    BY <2>1 DEF Reboot, MountByHand, vars
  <2>3. Proc(p) /\ ~LookupFails(p) /\ ~Stop(p) /\ ~FindSourceFails(p) /\ ~FindTargetsFails(p)
    <3>1. PICK q \in Procs : Proc(q)
      BY <2>2 DEF Next
    <3>2. q = p
      BY <2>1, <3>1, OthersSpared DEF Spared
    <3> QED BY <2>1, <3>1, <3>2 DEF LookupFails, Stop, FindSourceFails, FindTargetsFails
  <2>4. mounts \in [Mounts -> Seq(Devices)]
    BY DEF MachineOK
  <2>5. CASE Mount(p)
    <3>1. pc[p] = "mount" /\ Mnt(p) \in Mounts
      BY <2>5, CommandFacts DEF Mount
    <3>2. m # Mnt(p)
      BY <1>1, <1>3, <3>1 DEF Clearing, InUse
    <3> QED BY <2>4, <2>5, <3>1, <3>2 DEF Mount, Attach, Push
  <2>6. CASE ~Mount(p)
    <3>1. ~Unmount(p) /\ ~Umount(p) /\ ~Wipe(p) /\ ~AddPath(p)
      BY <1>1, <1>2 DEF Unmount, Umount, Wipe, AddPath, Clearing, OnItsWay, DestroyOnly,
         WindowsFormat
    <3>2. UNCHANGED mounts
      BY <2>3, <2>6, <3>1 DEF Proc, Begin, FindSource, FindTargets, Mkfs, CheckMount, CheckDevice,
         FormatVolume, Get, Lookup, Edit, EditUnreadable, SaveOpen, SaveWrite, SaveRename,
         RenameMissing, machineVars
    <3> QED BY <3>2
  <2> QED BY <2>5, <2>6
<1>4. ASSUME Reformats(p) PROVE InUse(p) \subseteq unseen[p]
  <2>1. pc[p] = "mkfs"
    BY <1>1, <1>4 DEF Reformats, OnItsWay, WindowsFormat
  <2> QED BY <1>1, <2>1 DEF Clearing
<1> QED BY <1>3, <1>4

\* "Refuses to touch a device or mount point that is already mounted": on Linux Format without
\* --force unmounts nothing, mounts over nothing, and makes no filesystem on a mounted device,
\* of all that its lookups could tell it, whatever others mount and whichever processes run.
THEOREM UnforcedIsHarmless ==
    ASSUME Platform = "linux"
    PROVE  Spec => UnforcedLeavesMounts
<1>1. IInv /\ MountInv /\ [Next]_vars =>
         \A p \in Procs : Unforced(p) =>
            /\ Moves(p) =>
                  \A m \in Mounts \ unseen[p] : mounts[m] # <<>> => mounts'[m] = mounts[m]
            /\ Reformats(p) => InUse(p) \subseteq unseen[p]
  BY UnforcedStep
<1> QED BY <1>1, Inductive, MountsInductive, PTL DEF Spec, UnforcedLeavesMounts

\* With --force, Format on Linux makes its filesystem when it has unmounted all that its lookups
\* could tell it of its device and its mount point.
THEOREM ForcedIsClear ==
    ASSUME Platform = "linux"
    PROVE  Spec => ForcedUnmountsFirst
<1>1. ASSUME MountInv, NEW p \in Procs, Reformats(p) PROVE InUse(p) \subseteq unseen[p]
  <2>1. OnItsWay(p) /\ Clearing(p)
    BY <1>1 DEF MountInv
  <2>2. pc[p] = "mkfs"
    BY <1>1, <2>1 DEF Reformats, OnItsWay, WindowsFormat
  <2> QED BY <2>1, <2>2 DEF Clearing
<1>2. MountInv /\ [Next]_vars =>
         [\A p \in Procs : Forced(p) /\ Reformats(p) => InUse(p) \subseteq unseen[p]]_vars
  BY <1>1
<1> QED BY <1>2, MountsInductive, PTL DEF Spec, ForcedUnmountsFirst

-----------------------------------------------------------------------------
(* What follows is again of one process at a time *)

\* What Format on Windows has found out of the document is still so.
Tracked(p) ==
    /\ pc[p] \in {"checkDevice", "script"} /\ ~cmd[p].force => Recorded \cap At(Mnt(p)) = {}
    /\ pc[p] = "script" /\ ~cmd[p].force => Recorded \cap On(Dev(p)) = {}

TrackedInv == \A p \in Procs : OnItsWay(p) /\ Tracked(p)

\* The records that a command is about.
Mine(p) == At(Mnt(p)) \cup On(Dev(p))

\* A process that edits the document keeps what it is not about.
Keeping(p) == pc[p] \in SaveSteps \ {"putRecord"} => Recorded \ Mine(p) \subseteq doc[p]

KeepInv == \A p \in Procs : Keeping(p)

\* A record and the mount table agree, or nothing is mounted.
Agrees(r) == MountsOf(r.device) \subseteq {r.mount} /\ Top(r.mount) \in {r.device, NoDevice}

\* Format has mounted its device and not recorded it yet.
Attached(p) ==
    \/ pc[p] \in FirstSave
    \/ pc[p] \in {"open", "write", "rename"} /\ cmd[p].kind = "format"

\* What the records, and the copy that will become the document, say of the mounts.
AgreeInv ==
    faults = 0 =>
        /\ (\A p \in Procs : ~Attached(p)) => \A r \in Recorded : Agrees(r)
        /\ \A p \in Procs :
              /\ Attached(p) => mounts[Mnt(p)] = <<Dev(p)>> /\ MountsOf(Dev(p)) = {Mnt(p)}
              /\ Attached(p) => \A r \in Recorded \ Mine(p) : Agrees(r)
              /\ pc[p] \in {"openFirst", "writeFirst", "renameFirst"} => doc[p] \subseteq Recorded
              /\ pc[p] \in {"open", "write", "rename"} => \A r \in doc[p] : Agrees(r)

\* On Windows: what Format has found out of the document is so until it formats.
LEMMA TrackedStep ==
    ASSUME Alone, Platform = "windows", IInv, MountInv, TrackedInv, [Next]_vars
    PROVE  TrackedInv'
<1> USE Parts
<1>1. ASSUME NEW p \in Procs, OnItsWay(p)', pc'[p] \notin {"checkDevice", "script"}
      PROVE  TrackedInv'
  BY <1>1 DEF Alone, TrackedInv, Tracked
<1>2. ASSUME NEW p \in Procs, Proc(p) PROVE TrackedInv'
  <2>1. OnItsWay(p)'
    BY MountStep DEF MountInv
  <2>2. pc \in [Procs -> Steps]
    BY DEF ProcsOK
  <2>3. CASE Quit(p)
    BY <1>1, <2>1, <2>3 DEF Quit, EndProcs, Forgotten, ProcsOK
  <2>4. CASE CheckMount(p) /\ ~Quit(p)
    <3>1. /\ Recorded \cap At(Mnt(p)) = {} \/ cmd[p].force
          /\ pc'[p] = "checkDevice" /\ UNCHANGED <<storeVars, procVars>>
      BY <2>4, GotoStep DEF CheckMount
    <3> QED BY <2>1, <3>1 DEF Alone, TrackedInv, Tracked, storeVars, procVars, commandVars, Recorded, At, Mnt
  <2>5. CASE CheckDevice(p) /\ ~Quit(p)
    <3>1. /\ TrackedElsewhere(p) = {} \/ TrackedHere(p) # {} \/ cmd[p].force
          /\ pc[p] = "checkDevice" /\ pc'[p] = "script" /\ UNCHANGED <<storeVars, procVars>>
      BY <2>5, GotoStep DEF CheckDevice
    <3>2. ~cmd[p].force => Recorded \cap At(Mnt(p)) = {} /\ Recorded \cap On(Dev(p)) = {}
      BY <3>1 DEF TrackedInv, Tracked, TrackedElsewhere, TrackedHere
    <3> QED BY <2>1, <3>1, <3>2 DEF Alone, TrackedInv, Tracked, storeVars, procVars, commandVars,
            Recorded, At, On, Mnt, Dev
  <2>6. CASE ~CheckMount(p) /\ ~CheckDevice(p) /\ ~Quit(p)
    <3>1. pc'[p] \notin {"checkDevice", "script"}
      <4>1. CASE Begin(p)
        <5>1. PICK c \in Commands : Goto(p, IF c.kind = "destroy" THEN "get"
                       ELSE IF Platform = "linux" THEN "source" ELSE "checkMount")
          BY <4>1 DEF Begin
        <5> QED BY <5>1, GotoStep
      <4>2. CASE \/ FindSource(p) \/ FindSourceFails(p) \/ FindTargets(p) \/ FindTargetsFails(p)
                 \/ Unmount(p) \/ Mkfs(p) \/ Mount(p) \/ FormatVolume(p) \/ AddPath(p)
        BY <2>2, <2>6, <4>2 DEF FindSource, FindSourceFails, FindTargets, FindTargetsFails, Decide,
           Unmount, Mkfs, Mount, FormatVolume, AddPath, Goto
      <4>3. CASE Get(p) \/ Lookup(p) \/ LookupFails(p) \/ Umount(p) \/ Wipe(p)
        BY <2>2, <2>6, <4>3 DEF Get, Lookup, LookupFails, Umount, Wipe, Goto
      <4>4. CASE Edit(p) \/ SaveOpen(p) \/ SaveWrite(p) \/ SaveRename(p)
        BY <2>2, <4>4 DEF Edit, SaveOpen, SaveWrite, SaveRename, Goto, EndProcs, Forgotten
      <4>5. CASE EditUnreadable(p) \/ RenameMissing(p) \/ Stop(p)
        BY <2>6, <4>5 DEF EditUnreadable, RenameMissing, Stop
      <4> QED BY <1>2, <2>6, <4>1, <4>2, <4>3, <4>4, <4>5 DEF Proc
    <3> QED BY <1>1, <2>1, <3>1
  <2> QED BY <2>3, <2>4, <2>5, <2>6
<1>3. CASE Reboot
  <2>1. \A p \in Procs : pc'[p] = "idle"
    BY <1>3 DEF Reboot, EndProcs, Forgotten, ProcsOK
  <2> QED BY <2>1 DEF TrackedInv, Tracked, OnItsWay, FormatOnly, FirstSave, DestroyOnly,
          LinuxFormat, WindowsFormat
<1>4. CASE MountByHand
  BY <1>4, MountStep DEF MountInv, MountByHand, storeVars, commandVars, TrackedInv, Tracked,
     Recorded, At, On, Mnt, Dev
<1>5. CASE UNCHANGED vars
  BY <1>5 DEF vars, storeVars, procVars, commandVars, TrackedInv, Tracked, OnItsWay, Recorded, At,
     On, Mnt, Dev
<1> QED BY <1>2, <1>3, <1>4, <1>5 DEF Next

\* Nothing runs at first.
LEMMA IdleInit == Init => \A p \in Procs : pc[p] = "idle"
BY Zenon DEF Init

\* Nothing is found out at first.
LEMMA TrackedInit == Init => TrackedInv
<1> SUFFICES ASSUME Init PROVE TrackedInv
  OBVIOUS
<1>1. ASSUME NEW p \in Procs PROVE OnItsWay(p) /\ Tracked(p)
  <2>1. pc[p] = "idle"
    BY IdleInit
  <2>2. /\ pc[p] \notin FormatOnly /\ pc[p] \notin DestroyOnly /\ pc[p] \notin LinuxFormat
        /\ pc[p] \notin WindowsFormat /\ pc[p] \notin {"checkDevice", "script"}
    BY <2>1 DEF FormatOnly, FirstSave, DestroyOnly, LinuxFormat, WindowsFormat
  <2> QED BY <2>2 DEF OnItsWay, Tracked
<1> QED BY <1>1, Zenon DEF TrackedInv

\* On Windows Format without --force reformats no device that datasim has a record of, and none
\* for a mount point that it has a record of.
THEOREM TrackedAreSafe ==
    ASSUME Alone, Platform = "windows"
    PROVE  Spec => TrackedIsSafe
<1>1. IInv /\ MountInv /\ TrackedInv /\ [Next]_vars => TrackedInv'
  BY TrackedStep
<1>2. Spec => []TrackedInv
  BY TrackedInit, <1>1, Inductive, MountsInductive, PTL DEF Spec
<1>3. ASSUME TrackedInv, NEW p \in Procs, Unforced(p), Reformats(p)
      PROVE  Recorded \cap (At(Mnt(p)) \cup On(Dev(p))) = {}
  <2>1. OnItsWay(p) /\ Tracked(p)
    BY <1>3 DEF TrackedInv
  <2>2. pc[p] = "script"
    BY <1>3, <2>1 DEF Reformats, OnItsWay, LinuxFormat
  <2> QED BY <1>3, <2>1, <2>2 DEF Tracked, Unforced
<1>4. TrackedInv /\ [Next]_vars =>
         [\A p \in Procs : Unforced(p) /\ Reformats(p) =>
             Recorded \cap (At(Mnt(p)) \cup On(Dev(p))) = {}]_vars
  BY <1>3
<1> QED BY <1>2, <1>4, PTL DEF Spec, TrackedIsSafe

\* Only a rename changes the document, when a process is alone; what it edits keeps the records
\* it is not about.
LEMMA KeepStep ==
    ASSUME Alone, IInv, AloneInv, KeepInv, NEW p \in Procs, Proc(p)
    PROVE  KeepInv' /\ (Recorded' = Recorded \/ SaveRename(p))
<1> USE Parts
<1>1. pc \in [Procs -> Steps]
  BY DEF ProcsOK
<1>2. ASSUME pc'[p] \notin SaveSteps \ {"putRecord"} PROVE KeepInv'
  BY <1>2 DEF Alone, KeepInv, Keeping
<1>3. CASE Quit(p)
  <2>1. pc'[p] = "idle" /\ UNCHANGED file
    BY <1>3 DEF Quit, EndProcs, Forgotten, Close, ProcsOK
  <2> QED BY <1>2, <2>1 DEF SaveSteps, Recorded
<1>4. CASE Edit(p)
  <2>1. UNCHANGED <<file, cmd>>
    BY <1>4 DEF Edit, Load, procVars, commandVars
  <2>2. Recorded \ Mine(p) \subseteq doc'[p]
    BY <1>4 DEF Edit, Load, Mine, CopiesOK, At, On
  <2> QED BY <2>1, <2>2 DEF Alone, KeepInv, Keeping, Recorded, Mine, At, On, Mnt, Dev
<1>5. CASE SaveOpen(p) \/ SaveWrite(p)
  <2>1. SaveWrite(p) => fd[p] = "tmp"
    BY DEF SaveWrite, AloneInv, Saving
  <2>2. UNCHANGED <<file, doc, cmd>>
    BY <1>5, <2>1 DEF SaveOpen, SaveWrite, Open, Write, procVars, commandVars
  <2>3. pc[p] \in SaveSteps \ {"putRecord"}
    BY <1>5 DEF SaveOpen, SaveWrite, SaveSteps
  <2> QED BY <2>2, <2>3 DEF Alone, KeepInv, Keeping, Recorded, Mine, At, On, Mnt, Dev
<1>6. CASE SaveRename(p)
  <2>1. pc'[p] \in {"putRecord", "idle"}
    BY <1>1, <1>6 DEF SaveRename, Goto, EndProcs, Forgotten
  <2> QED BY <1>2, <1>6, <2>1 DEF SaveSteps
<1>7. CASE ~Edit(p) /\ ~SaveOpen(p) /\ ~SaveWrite(p) /\ ~SaveRename(p) /\ ~Quit(p)
  <2>1. UNCHANGED file /\ pc'[p] \notin SaveSteps
    <3>1. CASE Begin(p)
      <4>1. PICK c \in Commands : Goto(p, IF c.kind = "destroy" THEN "get"
                     ELSE IF Platform = "linux" THEN "source" ELSE "checkMount")
        BY <3>1 DEF Begin
      <4>2. pc'[p] \in {"get", "source", "checkMount"}
        BY <4>1, GotoStep
      <4> QED BY <3>1, <4>2 DEF Begin, storeVars, SaveSteps
    <3>2. CASE \/ FindSource(p) \/ FindSourceFails(p) \/ FindTargets(p) \/ FindTargetsFails(p)
               \/ Unmount(p) \/ Mkfs(p) \/ Mount(p) \/ AddPath(p)
      BY <1>1, <1>7, <3>2 DEF Goto, FindSource, FindSourceFails, FindTargets, FindTargetsFails,
         Decide, Unmount, Mkfs, Mount, AddPath, storeVars, SaveSteps
    <3>3. CASE CheckMount(p) \/ CheckDevice(p) \/ FormatVolume(p)
      BY <1>1, <1>7, <3>3 DEF Goto, CheckMount, CheckDevice, FormatVolume, storeVars, SaveSteps
    <3>4. CASE Get(p) \/ Lookup(p) \/ LookupFails(p) \/ Umount(p) \/ Wipe(p)
      BY <1>1, <1>7, <3>4 DEF Goto, Get, Lookup, LookupFails, Umount, Wipe, storeVars, SaveSteps
    <3>5. CASE EditUnreadable(p) \/ RenameMissing(p) \/ Stop(p)
      BY <1>7, <3>5 DEF EditUnreadable, RenameMissing, Stop
    <3> QED BY <1>7, <3>1, <3>2, <3>3, <3>4, <3>5 DEF Proc
  <2> QED BY <1>2, <2>1 DEF Recorded
<1> QED BY <1>3, <1>4, <1>5, <1>6, <1>7

\* As long as commands follow one another, a command removes from the document no record but
\* those of its own device and mount point, wherever it or an earlier one was stopped.
THEOREM OthersAreKept ==
    ASSUME Alone
    PROVE  Spec => RecordsKept
<1>1. Init => KeepInv
  BY DEF Init, KeepInv, Keeping, SaveSteps
<1>2. IInv /\ AloneInv /\ KeepInv /\ [Next]_vars => KeepInv'
  <2> SUFFICES ASSUME IInv, AloneInv, KeepInv, [Next]_vars PROVE KeepInv'
    OBVIOUS
  <2>1. CASE Reboot
    <3>1. \A p \in Procs : pc'[p] = "idle"
      BY <2>1, Parts DEF Reboot, EndProcs, Forgotten, ProcsOK
    <3> QED BY <3>1 DEF KeepInv, Keeping, SaveSteps
  <2>2. CASE MountByHand \/ UNCHANGED vars
    BY <2>2 DEF MountByHand, vars, storeVars, procVars, commandVars, KeepInv, Keeping, Recorded,
       Mine, At, On, Mnt, Dev
  <2> QED BY <2>1, <2>2, KeepStep DEF Next
<1>3. Spec => []KeepInv
  BY <1>1, <1>2, Inductive, AloneInductive, PTL DEF Spec
<1>4. IInv /\ AloneInv /\ KeepInv /\ [Next]_vars =>
         [Readable' => \A r \in Recorded \ Recorded' :
             \E p \in Procs : cmd[p] # NoCommand /\ (r.mount = Mnt(p) \/ r.device = Dev(p))]_vars
  <2> SUFFICES ASSUME IInv, AloneInv, KeepInv, [Next]_vars, NEW r \in Recorded \ Recorded'
               PROVE  \E p \in Procs :
                         cmd[p] # NoCommand /\ (r.mount = Mnt(p) \/ r.device = Dev(p))
    OBVIOUS
  <2>1. ~Reboot /\ ~MountByHand /\ ~UNCHANGED vars
    BY DEF Reboot, MountByHand, Close, vars, storeVars, Recorded
  <2>2. PICK p \in Procs : SaveRename(p)
    BY <2>1, KeepStep DEF Next
  <2>3. pc[p] \in {"renameFirst", "rename"} /\ Recorded' = doc[p]
    BY <2>2 DEF SaveRename, Rename, AloneInv, Saving, Recorded, Document
  <2>4. r \in Mine(p)
    BY <2>3 DEF KeepInv, Keeping, SaveSteps
  <2>5. cmd[p] \in Commands
    BY <2>3, CommandFacts
  <2>6. cmd[p] # NoCommand
    BY <2>5 DEF Commands, NoCommand
  <2> QED BY <2>4, <2>6 DEF Mine, At, On
<1> QED BY <1>3, <1>4, Inductive, AloneInductive, PTL DEF Spec, RecordsKept

-----------------------------------------------------------------------------
(* Records and mounts agree until something fails *)

\* At most one device is mounted at each mount point before datasim runs.
OneMountEach == \A f \in FirstMounts : \A m \in Mounts : Len(f[m]) <= 1

\* Until something fails nothing is stacked and nothing has escaped Format.
SingleInv ==
    faults = 0 =>
        /\ \A m \in Mounts : Len(mounts[m]) <= 1
        /\ \A p \in Procs : unseen[p] = {}

\* Every step keeps mounts single and in sight.
LEMMA SingleStep ==
    ASSUME Alone, IInv, MountInv, SingleInv, [Next]_vars
    PROVE  SingleInv'
<1> USE Parts
<1> SUFFICES ASSUME faults' = 0
             PROVE  /\ \A m \in Mounts : Len(mounts'[m]) <= 1
                    /\ \A p \in Procs : unseen'[p] = {}
  BY DEF SingleInv
<1>1. /\ faults \in Nat /\ mounts \in [Mounts -> Seq(Devices)]
      /\ unseen \in [Procs -> SUBSET Mounts]
  BY BoundAssumption DEF CountsOK, MachineOK, ProcsOK
<1>2. ~Reboot /\ ~MountByHand
  BY <1>1 DEF Reboot, MountByHand
<1>3. ASSUME NEW p \in Procs, Proc(p)
      PROVE  /\ \A m \in Mounts : Len(mounts'[m]) <= 1
             /\ \A q \in Procs : unseen'[q] = {}
  <2>1. ~Stop(p) /\ ~LookupFails(p) /\ ~FindSourceFails(p) /\ ~FindTargetsFails(p) /\ faults' = faults
    <3>1. ~Stop(p) /\ ~LookupFails(p) /\ ~FindSourceFails(p) /\ ~FindTargetsFails(p)
      BY <1>1 DEF Stop, LookupFails, FindSourceFails, FindTargetsFails
    <3> QED BY <1>3, <3>1 DEF Proc, Begin, FindSource, FindTargets, Unmount, Mkfs, Mount, CheckMount,
            CheckDevice, FormatVolume, AddPath, Get, Lookup, Umount, Wipe, Edit, EditUnreadable,
            SaveOpen, SaveWrite, SaveRename, RenameMissing
  <2>2. (\A m \in Mounts : Len(mounts[m]) <= 1) /\ unseen[p] = {} /\ \A q \in Procs : q = p
    BY <2>1 DEF SingleInv, Alone
  <2>3. EndProcs({p}) => unseen'[p] = {}
    BY DEF EndProcs, Forgotten
  <2>4. CASE Begin(p) \/ FindSource(p)
    BY <2>2, <2>4 DEF Begin, FindSource, machineVars
  <2>5. CASE FindTargets(p)
    <3>1. Decide(p, MountsOf(Dev(p))) /\ UNCHANGED mounts
      BY <2>5 DEF FindTargets, machineVars
    <3>2. ASSUME ~Quit(p) PROVE unseen'[p] = {}
      <4> DEFINE found == todo[p] \cup MountsOf(Dev(p))
                 left == (unseen[p] \ MountsOf(Dev(p))) \cup (MountsOf(Dev(p)) \ found)
                            \cup {m \in found : Len(mounts[m]) > 1}
      <4>1. unseen' = [unseen EXCEPT ![p] = left]
        BY <1>1, <3>1, <3>2, DecideCases
      <4>2. found \subseteq Mounts
        BY DEF MountsOf, ProcsOK
      <4>3. {m \in found : Len(mounts[m]) > 1} = {}
        BY <1>1, <2>2, <4>2
      <4>4. left = {}
        BY <2>2, <4>3
      <4> HIDE DEF left
      <4> QED BY <1>1, <4>1, <4>4
    <3> QED BY <2>2, <2>3, <3>1, <3>2 DEF Quit
  <2>6. CASE Unmount(p) \/ Umount(p)
    <3>1. UNCHANGED mounts \/ \E m : Pop(m)
      BY <2>6 DEF Unmount, Umount
    <3>2. \A m \in Mounts : Len(mounts'[m]) <= 1
      BY <2>2, <3>1, PopFacts
    <3>3. unseen'[p] = {}
      BY <2>2, <2>3, <2>6 DEF Unmount, Umount, Quit
    <3> QED BY <2>2, <3>2, <3>3
  <2>7. CASE Wipe(p)
    <3>1. \A m \in Mounts : mounts'[m] \in {mounts[m], <<>>}
      <4>1. UNCHANGED mounts \/ mounts' = [m \in Mounts |-> IF Top(m) = record[p] THEN <<>> ELSE mounts[m]]
        BY <2>7 DEF Wipe
      <4> QED BY <4>1
    <3>2. unseen'[p] = {}
      BY <2>2, <2>3, <2>7 DEF Wipe, Quit, procVars
    <3>3. Len(<<>>) <= 1
      OBVIOUS
    <3> QED BY <2>2, <3>1, <3>2, <3>3
  <2>8. CASE Mount(p) \/ AddPath(p)
    <3>1. CASE Quit(p) /\ UNCHANGED mounts
      BY <2>2, <2>3, <3>1 DEF Quit
    <3>2. CASE Attach(p) /\ (Mount(p) \/ mounts[Mnt(p)] = <<>>)
      <4>1. Mnt(p) \in Mounts
        BY <2>8, CommandFacts DEF Mount, AddPath
      <4>2. CASE mounts[Mnt(p)] = <<>>
        <5>1. unseen'[p] = {}
          BY <1>1, <2>2, <3>2 DEF Attach, Escapes
        <5>2. \A m \in Mounts : mounts'[m] = IF m = Mnt(p) THEN <<Dev(p)>> ELSE mounts[m]
          BY <1>1, <3>2, <4>2 DEF Attach, Push
        <5>3. Len(<<Dev(p)>>) <= 1
          OBVIOUS
        <5> QED BY <2>2, <5>1, <5>2, <5>3
      <4>3. CASE mounts[Mnt(p)] # <<>>
        <5>1. Mount(p)
          BY <3>2, <4>3
        <5> QED BY <2>2, <4>3, <5>1 DEF Mount, MountInv, Clearing, InUse
      <4> QED BY <4>2, <4>3
    <3> QED BY <2>8, <3>1, <3>2 DEF Mount, AddPath
  <2>9. CASE Mkfs(p) \/ CheckMount(p) \/ CheckDevice(p) \/ FormatVolume(p) \/ Get(p) \/ Lookup(p)
    BY <2>2, <2>3, <2>9 DEF Mkfs, CheckMount, CheckDevice, FormatVolume, Get, Lookup, Quit, procVars,
       machineVars
  <2>10. CASE \/ Edit(p) \/ EditUnreadable(p) \/ SaveOpen(p) \/ SaveWrite(p) \/ SaveRename(p)
              \/ RenameMissing(p)
    BY <2>2, <2>3, <2>10 DEF Edit, EditUnreadable, SaveOpen, SaveWrite, SaveRename, RenameMissing,
       Quit, procVars, machineVars
  <2> QED BY <1>3, <2>1, <2>4, <2>5, <2>6, <2>7, <2>8, <2>9, <2>10 DEF Proc
<1>4. CASE UNCHANGED vars
  BY <1>4 DEF vars, machineVars, procVars, SingleInv
<1> QED BY <1>2, <1>3, <1>4 DEF Next

\* The records are records.
LEMMA RecordedAreRecords == ASSUME IInv PROVE Recorded \subseteq Records
BY Parts DEF Recorded, FilesOK, Contents, Absent, Empty, Torn

\* Where nothing is mounted any more or anew, no record becomes wrong.
LEMMA AgreeSame ==
    ASSUME UNCHANGED mounts
    PROVE  \A r : Agrees(r) => Agrees(r)'
BY DEF Agrees, MountsOf, Top

\* Taking the only mount off makes no record wrong.
LEMMA AgreePop ==
    ASSUME IInv, NEW m \in Mounts, Pop(m), Len(mounts[m]) <= 1
    PROVE  \A r \in Records : Agrees(r) => Agrees(r)'
<1> SUFFICES ASSUME NEW r \in Records, Agrees(r) PROVE Agrees(r)'
  OBVIOUS
<1>1. MountsOf(r.device)' \subseteq MountsOf(r.device)
  BY PopFacts DEF MountsOf
<1>2. mounts'[m] = <<>> /\ \A n \in Mounts : n # m => mounts'[n] = mounts[n]
  BY PopFacts
<1>3. r.mount \in Mounts
  BY DEF Records
<1>4. Top(r.mount)' \in {Top(r.mount), NoDevice}
  BY <1>2, <1>3 DEF Top
<1> QED BY <1>1, <1>4 DEF Agrees

\* A process that has nothing attached and edits no document, before and after.
LEMMA AgreeElsewhere ==
    ASSUME Alone, AgreeInv, NEW p \in Procs, UNCHANGED <<file, faults>>,
           ~Attached(p), pc'[p] \notin FirstSave \cup {"open", "write", "rename"},
           \A r \in Recorded : Agrees(r) => Agrees(r)'
    PROVE  AgreeInv'
<1>1. ~Attached(p)' /\ Recorded' = Recorded
  BY DEF Attached, Recorded
<1>2. faults = 0 => \A r \in Recorded : Agrees(r)
  BY DEF Alone, AgreeInv
<1>3. faults' = 0 => \A r \in Recorded : Agrees(r)'
  BY <1>2
<1> QED BY <1>1, <1>3 DEF Alone, AgreeInv, FirstSave

\* Something has failed: nothing more is said.
LEMMA AgreeFaulty ==
    ASSUME IInv, faults' = faults + 1
    PROVE  AgreeInv'
<1>1. faults \in Nat
  BY BoundAssumption, Parts DEF CountsOK
<1>2. faults' # 0
  BY <1>1
<1> QED BY <1>2 DEF AgreeInv

\* A process that ends, without a failure, before it has mounted anything.
LEMMA AgreeQuit ==
    ASSUME Alone, IInv, AgreeInv, NEW p \in Procs, Quit(p), ~Attached(p), UNCHANGED faults,
           \A r \in Recorded : Agrees(r) => Agrees(r)'
    PROVE  AgreeInv'
<1>1. pc'[p] = "idle" /\ UNCHANGED file
  BY Parts DEF Quit, EndProcs, Forgotten, Close, ProcsOK
<1> QED BY <1>1, AgreeElsewhere DEF FirstSave

\* Format mounts its device.
LEMMA AgreeMount ==
    ASSUME Alone, IInv, MountInv, SingleInv, AgreeInv, faults = 0, NEW p \in Procs, Mount(p)
    PROVE  AgreeInv'
<1> USE Parts
<1>0. InUse(p) = {}
  BY DEF Mount, MountInv, Clearing, SingleInv
<1>1. /\ Mnt(p) \in Mounts /\ Dev(p) \in Devices
      /\ mounts[Mnt(p)] = <<>> /\ MountsOf(Dev(p)) = {}
      /\ pc[p] = "mount" /\ ~Attached(p) /\ UNCHANGED faults
  BY <1>0, CommandFacts DEF Mount, FormatOnly, FirstSave, Attached, InUse
<1>2. CASE Quit(p) /\ UNCHANGED mounts
  BY <1>1, <1>2, AgreeQuit, AgreeSame
<1>3. CASE Attach(p) /\ Goto(p, "dropDevice") /\ UNCHANGED <<storeVars, commandVars>>
  <2>1. /\ pc'[p] = "dropDevice" /\ Mnt(p)' = Mnt(p) /\ Dev(p)' = Dev(p)
        /\ Recorded' = Recorded /\ Mine(p)' = Mine(p)
    BY <1>3, GotoStep DEF storeVars, procVars, commandVars, Recorded, Mnt, Dev, Mine, At, On
  <2>2. \A n \in Mounts : mounts'[n] = IF n = Mnt(p) THEN <<Dev(p)>> ELSE mounts[n]
    BY <1>1, <1>3 DEF Attach, Push, MachineOK
  <2>3. mounts'[Mnt(p)] = <<Dev(p)>>
    BY <1>1, <2>2
  <2>4. MountsOf(Dev(p))' = {Mnt(p)}
    <3>1. Mnt(p) \in MountsOf(Dev(p))'
      BY <1>1, <2>1, <2>3 DEF MountsOf
    <3>2. ASSUME NEW n \in Mounts, n # Mnt(p) PROVE n \notin MountsOf(Dev(p))'
      BY <1>1, <2>1, <2>2, <3>2 DEF MountsOf
    <3> QED BY <3>1, <3>2 DEF MountsOf
  <2>5. ASSUME NEW r \in Recorded \ Mine(p), Agrees(r) PROVE Agrees(r)'
    <3>1. r \in Records /\ r.mount # Mnt(p) /\ r.device # Dev(p)
      BY RecordedAreRecords DEF Mine, At, On
    <3>2. r.mount \in Mounts
      BY <3>1 DEF Records
    <3>3. Top(r.mount)' = Top(r.mount)
      BY <2>2, <3>1, <3>2 DEF Top
    <3>4. MountsOf(r.device)' \subseteq MountsOf(r.device)
      <4>1. ASSUME NEW n \in Mounts, NEW i \in DOMAIN mounts'[n], mounts'[n][i] = r.device
            PROVE  n \in MountsOf(r.device)
        <5>1. n # Mnt(p)
          BY <2>3, <3>1, <4>1
        <5> QED BY <2>2, <4>1, <5>1 DEF MountsOf
      <4> QED BY <4>1 DEF MountsOf
    <3> QED BY <2>5, <3>3, <3>4 DEF Agrees
  <2>6. faults = 0 => \A r \in Recorded : Agrees(r)
    BY <1>1 DEF Alone, AgreeInv
  <2>7. faults' = 0 => \A r \in Recorded \ Mine(p) : Agrees(r)'
    BY <1>1, <2>5, <2>6
  <2>8. Attached(p)'
    BY <2>1 DEF Attached, FirstSave
  <2> QED BY <2>1, <2>3, <2>4, <2>7, <2>8 DEF Alone, AgreeInv
<1> QED BY <1>2, <1>3 DEF Mount

\* The copy is edited: it agrees with the mounts, if Format has dropped its device first.
LEMMA AgreeEdit ==
    ASSUME Alone, IInv, AloneInv, MountInv, AgreeInv, NEW p \in Procs, Edit(p)
    PROVE  AgreeInv'
<1> USE Parts
<1>1. UNCHANGED <<file, mounts, cmd, faults>> /\ OnItsWay(p)
  BY DEF Edit, Load, machineVars, procVars, commandVars, MountInv
<1>2. /\ Recorded' = Recorded /\ Mnt(p)' = Mnt(p) /\ Dev(p)' = Dev(p) /\ Mine(p)' = Mine(p)
      /\ MountsOf(Dev(p))' = MountsOf(Dev(p)) /\ \A r : Agrees(r)' <=> Agrees(r)
  BY <1>1 DEF Recorded, Mnt, Dev, Mine, At, On, MountsOf, Agrees, Top
<1>3. CASE pc[p] = "dropDevice" /\ Load(p, On(Dev(p)), {}) /\ Goto(p, "openFirst")
  <2>1. pc'[p] = "openFirst" /\ doc'[p] \subseteq Recorded
    BY <1>3, GotoStep DEF Load, CopiesOK
  <2>2. Attached(p) /\ Attached(p)'
    BY <1>3, <2>1 DEF Attached, FirstSave
  <2> QED BY <1>1, <1>2, <2>1, <2>2 DEF Alone, AgreeInv
<1>4. CASE /\ pc[p] = "putRecord"
           /\ Load(p, At(Mnt(p)), {[mount |-> Mnt(p), device |-> Dev(p)]})
           /\ Goto(p, "open")
  <2> DEFINE new == [mount |-> Mnt(p), device |-> Dev(p)]
  <2>1. pc'[p] = "open" /\ doc'[p] = (Recorded \ At(Mnt(p))) \cup {new}
    BY <1>4, GotoStep DEF Load, CopiesOK
  <2>2. Attached(p) /\ Attached(p)'
    BY <1>1, <1>4, <2>1 DEF Attached, FirstSave, OnItsWay, FormatOnly
  <2>3. Recorded \ At(Mnt(p)) \subseteq Recorded \ Mine(p)
    BY <1>4 DEF AloneInv, Saving, Mine
  <2>4. ASSUME faults = 0 PROVE Agrees(new)
    <3>1. mounts[Mnt(p)] = <<Dev(p)>> /\ MountsOf(Dev(p)) = {Mnt(p)}
      BY <2>2, <2>4 DEF AgreeInv
    <3>2. Top(Mnt(p)) = Dev(p)
      BY <3>1 DEF Top
    <3> QED BY <3>1, <3>2 DEF Agrees
  <2>5. faults = 0 => \A r \in doc'[p] : Agrees(r)'
    BY <1>2, <2>1, <2>2, <2>3, <2>4 DEF AgreeInv
  <2> QED BY <1>1, <1>2, <2>1, <2>2, <2>5 DEF Alone, AgreeInv
<1>5. CASE pc[p] = "dropMount" /\ Load(p, At(Mnt(p)), {}) /\ Goto(p, "open")
  <2>1. pc'[p] = "open" /\ doc'[p] \subseteq Recorded
    BY <1>5, GotoStep DEF Load, CopiesOK
  <2>2. ~Attached(p) /\ ~Attached(p)'
    BY <1>1, <1>5, <2>1 DEF Attached, FirstSave, OnItsWay, DestroyOnly
  <2>3. faults = 0 => \A r \in Recorded : Agrees(r)
    BY <2>2 DEF Alone, AgreeInv
  <2> QED BY <1>1, <1>2, <2>1, <2>2, <2>3 DEF Alone, AgreeInv
<1> QED BY <1>3, <1>4, <1>5 DEF Edit

\* The temporary file is opened and written.
LEMMA AgreeSave ==
    ASSUME Alone, IInv, AloneInv, AgreeInv, NEW p \in Procs, SaveOpen(p) \/ SaveWrite(p)
    PROVE  AgreeInv'
<1> USE Parts
<1>1. SaveWrite(p) => fd[p] = "tmp"
  BY DEF SaveWrite, AloneInv, Saving
<1>2. UNCHANGED <<file, doc, mounts, cmd, faults>>
  BY <1>1 DEF SaveOpen, SaveWrite, Open, Write, machineVars, procVars, commandVars
<1>3. /\ Recorded' = Recorded /\ Mnt(p)' = Mnt(p) /\ Dev(p)' = Dev(p) /\ Mine(p)' = Mine(p)
      /\ MountsOf(Dev(p))' = MountsOf(Dev(p)) /\ \A r : Agrees(r)' <=> Agrees(r)
  BY <1>2 DEF Recorded, Mnt, Dev, Mine, At, On, MountsOf, Agrees, Top
<1>4. \/ pc[p] = "openFirst" /\ pc'[p] = "writeFirst"
      \/ pc[p] = "writeFirst" /\ pc'[p] = "renameFirst"
      \/ pc[p] = "open" /\ pc'[p] = "write"
      \/ pc[p] = "write" /\ pc'[p] = "rename"
  BY GotoStep DEF SaveOpen, SaveWrite
<1>5. Attached(p)' <=> Attached(p)
  BY <1>2, <1>4 DEF Attached, FirstSave
<1> QED BY <1>2, <1>3, <1>4, <1>5 DEF Alone, AgreeInv

\* The copy becomes the document.
LEMMA AgreeRename ==
    ASSUME Alone, IInv, AloneInv, AgreeInv, NEW p \in Procs, SaveRename(p)
    PROVE  AgreeInv'
<1> USE Parts
<1>1. Recorded' = doc[p] /\ UNCHANGED <<mounts, faults>>
  BY DEF SaveRename, Rename, machineVars, AloneInv, Saving, Recorded, Document
<1>2. \A r : Agrees(r)' <=> Agrees(r)
  BY <1>1 DEF Agrees, MountsOf, Top
<1>3. CASE pc[p] = "renameFirst" /\ Goto(p, "putRecord") /\ UNCHANGED procVars
  <2>1. /\ pc'[p] = "putRecord" /\ Mnt(p)' = Mnt(p) /\ Dev(p)' = Dev(p) /\ Mine(p)' = Mine(p)
        /\ MountsOf(Dev(p))' = MountsOf(Dev(p))
    BY <1>1, <1>3, GotoStep DEF procVars, commandVars, Mnt, Dev, Mine, At, On, MountsOf
  <2>2. Attached(p) /\ Attached(p)'
    BY <1>3, <2>1 DEF Attached, FirstSave
  <2> QED BY <1>1, <1>2, <1>3, <2>1, <2>2 DEF Alone, AgreeInv
<1>4. CASE pc[p] = "rename" /\ EndProcs({p})
  <2>1. pc'[p] = "idle"
    BY <1>4 DEF EndProcs, Forgotten, ProcsOK
  <2>2. ~Attached(p)'
    BY <2>1 DEF Attached, FirstSave
  <2> QED BY <1>1, <1>2, <1>4, <2>1, <2>2 DEF Alone, AgreeInv
<1> QED BY <1>3, <1>4 DEF SaveRename

\* What begins a command, looks, unmounts or makes a filesystem.
LEMMA AgreeRest ==
    ASSUME Alone, Platform = "linux", IInv, SingleInv, AgreeInv, faults = 0, NEW p \in Procs,
           \/ Begin(p) \/ FindSource(p) \/ FindTargets(p) \/ Unmount(p) \/ Mkfs(p)
           \/ CheckMount(p) \/ CheckDevice(p) \/ FormatVolume(p)
           \/ Get(p) \/ Lookup(p) \/ Umount(p) \/ Wipe(p)
    PROVE  AgreeInv'
<1> USE Parts
<1>1. ~Attached(p) /\ UNCHANGED faults
  BY DEF Attached, FirstSave, Begin, FindSource, FindTargets, Unmount, Mkfs, CheckMount,
     CheckDevice, FormatVolume, Get, Lookup, Umount, Wipe
<1>2. \A m \in Mounts : Len(mounts[m]) <= 1
  BY DEF SingleInv
<1>3. \A r \in Records : Agrees(r) => Agrees(r)'
  <2>1. CASE Unmount(p) \/ Umount(p)
    <3>1. UNCHANGED mounts \/ \E m : Pop(m)
      BY <2>1 DEF Unmount, Umount
    <3>2. ASSUME NEW m, Pop(m) PROVE \A r \in Records : Agrees(r) => Agrees(r)'
      <4>1. CASE m \in Mounts
        BY <1>2, <3>2, <4>1, AgreePop
      <4>2. CASE m \notin Mounts
        <5>1. mounts' = mounts
          BY <3>2, <4>2 DEF Pop, MachineOK
        <5> QED BY <5>1, AgreeSame
      <4> QED BY <4>1, <4>2
    <3> QED BY <3>1, <3>2, AgreeSame
  <2>2. CASE ~Unmount(p) /\ ~Umount(p)
    <3>1. UNCHANGED mounts
      BY <2>2 DEF Begin, FindSource, FindTargets, Mkfs, CheckMount, CheckDevice, FormatVolume,
         Get, Lookup, Wipe, machineVars
    <3> QED BY <3>1, AgreeSame
  <2> QED BY <2>1, <2>2
<1>4. \A r \in Recorded : Agrees(r) => Agrees(r)'
  BY <1>3, RecordedAreRecords
<1>5. CASE Quit(p)
  BY <1>1, <1>4, <1>5, AgreeQuit
<1>6. CASE ~Quit(p)
  <2>1. UNCHANGED file
    BY <1>6 DEF Begin, FindSource, FindTargets, Decide, Unmount, Mkfs, CheckMount, CheckDevice,
       FormatVolume, Get, Lookup, Umount, Wipe, storeVars
  <2>2. pc'[p] \notin FirstSave \cup {"open", "write", "rename"}
    <3>1. pc \in [Procs -> Steps]
      BY DEF ProcsOK
    <3>2. CASE Begin(p)
      <4>1. PICK c \in Commands : Goto(p, IF c.kind = "destroy" THEN "get"
                     ELSE IF Platform = "linux" THEN "source" ELSE "checkMount")
        BY <3>2 DEF Begin
      <4>2. pc'[p] \in {"get", "source", "checkMount"}
        BY <4>1, GotoStep
      <4> QED BY <4>2 DEF FirstSave
    <3>3. CASE FindSource(p) \/ FindTargets(p) \/ Unmount(p) \/ Mkfs(p)
      BY <1>6, <3>1, <3>3 DEF FindSource, FindTargets, Decide, Unmount, Mkfs, Goto, FirstSave
    <3>4. CASE CheckMount(p) \/ CheckDevice(p) \/ FormatVolume(p)
      BY <1>6, <3>1, <3>4 DEF CheckMount, CheckDevice, FormatVolume, Goto, FirstSave
    <3>5. CASE Get(p) \/ Lookup(p) \/ Umount(p) \/ Wipe(p)
      BY <1>6, <3>1, <3>5 DEF Get, Lookup, Umount, Wipe, Goto, FirstSave
    <3> QED BY <3>2, <3>3, <3>4, <3>5
  <2> QED BY <1>1, <1>4, <2>1, <2>2, AgreeElsewhere
<1> QED BY <1>5, <1>6

\* Faults are counted, and never forgotten.
LEMMA FaultsGrow ==
    ASSUME IInv, [Next]_vars
    PROVE  faults \in Nat /\ faults' >= faults
<1>1. faults \in Nat
  BY BoundAssumption, Parts DEF CountsOK
<1>2. UNCHANGED faults \/ faults' = faults + 1
  BY DEF Next, Proc, vars, Reboot, MountByHand, Begin, FindSource, FindTargets, FindSourceFails,
     FindTargetsFails, Unmount, Mkfs, Mount, CheckMount, CheckDevice, FormatVolume, AddPath, Get,
     Lookup, Umount, Wipe, Edit, EditUnreadable, SaveOpen, SaveWrite, SaveRename, RenameMissing,
     LookupFails, Stop
<1> QED BY <1>1, <1>2

\* Every step on Linux keeps it.
LEMMA AgreeStep ==
    ASSUME Alone, Platform = "linux", IInv, AloneInv, MountInv, SingleInv, AgreeInv, [Next]_vars
    PROVE  AgreeInv'
<1> USE Parts
<1>0. SUFFICES ASSUME faults = 0 PROVE AgreeInv'
  <2>1. faults' >= faults /\ faults \in Nat
    BY FaultsGrow
  <2>2. faults # 0 => faults' # 0
    BY <2>1
  <2> QED BY <2>2 DEF AgreeInv
<1>1. ASSUME NEW p \in Procs, Proc(p) PROVE AgreeInv'
  <2>1. ~AddPath(p)
    BY DEF AddPath, MountInv, OnItsWay, WindowsFormat
  <2>2. ~EditUnreadable(p)
    BY DEF EditUnreadable, AloneInv
  <2>3. ~RenameMissing(p)
    BY DEF RenameMissing, AloneInv, Saving, Document, Absent
  <2>4. CASE LookupFails(p) \/ Stop(p) \/ FindSourceFails(p) \/ FindTargetsFails(p)
    BY <2>4, AgreeFaulty DEF LookupFails, Stop, FindSourceFails, FindTargetsFails
  <2> QED BY <1>0, <1>1, <2>1, <2>2, <2>3, <2>4, AgreeMount, AgreeEdit, AgreeSave, AgreeRename,
          AgreeRest DEF Proc
<1>2. CASE Reboot \/ MountByHand
  BY <1>2, AgreeFaulty DEF Reboot, MountByHand
<1>3. CASE UNCHANGED vars
  BY <1>3 DEF vars, storeVars, procVars, commandVars, machineVars, AgreeInv, Agrees, Attached, Recorded,
     Mine, At, On, Mnt, Dev, MountsOf, Top
<1> QED BY <1>1, <1>2, <1>3 DEF Next

\* Nothing is recorded at first.
LEMMA AgreeInit == Init => AgreeInv
<1> SUFFICES ASSUME Init PROVE AgreeInv
  OBVIOUS
<1>1. \A p \in Procs : pc[p] = "idle"
  BY IdleInit, Zenon
<1>2. Recorded = {}
  BY DEF Init, StoreInit, Recorded, Absent
<1> QED BY <1>1, <1>2 DEF AgreeInv, Attached, FirstSave

\* No record misleads Destroy between commands: on Linux, as long as commands follow one another
\* and none fails, a recorded device is in use nowhere but at its mount point, and nothing else
\* is in use there.
THEOREM StateIsRight ==
    ASSUME Alone, OneMountEach, Platform = "linux"
    PROVE  Spec => []StateAgrees
<1>1. Init => SingleInv
  BY DEF OneMountEach, Init, SingleInv
<1>2. IInv /\ MountInv /\ SingleInv /\ [Next]_vars => SingleInv'
  BY SingleStep
<1>3. IInv /\ AloneInv /\ MountInv /\ SingleInv /\ AgreeInv /\ [Next]_vars => AgreeInv'
  BY AgreeStep
<1>4. AgreeInv => StateAgrees
  BY DEF AgreeInv, StateAgrees, Attached, FirstSave, Agrees
<1> QED BY <1>1, <1>2, <1>3, <1>4, AgreeInit, Inductive, AloneInductive, MountsInductive, PTL
        DEF Spec
=============================================================================
