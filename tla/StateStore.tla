----------------------------- MODULE StateStore -----------------------------
(***************************************************************************)
(* The block-device state document of internal/filesystem/state_store.go.  *)
(* Every process loads the whole document, edits its copy, writes that to  *)
(* one temporary file and renames it over the document.  Nothing locks the *)
(* two files, and every process uses the same temporary name.              *)
(*                                                                         *)
(* os.WriteFile opens (and empties) the file and then writes.  A process   *)
(* that has opened the temporary file goes on writing to it wherever a     *)
(* rename has moved it.                                                    *)
(***************************************************************************)
EXTENDS Naturals

CONSTANTS
    Procs,   \* datasim processes
    Mounts,  \* mount points, in the order of their names
    Devices  \* block devices

ASSUME MountsAssumption == Mounts \subseteq Nat

Records == [mount : Mounts, device : Devices]

\* What a file holds: a document, nothing because it was opened for writing and not
\* written yet, or parts of two documents.  Or there is no such file.
Document(records) == [kind |-> "document", records |-> records]
Absent == [kind |-> "absent"]
Empty == [kind |-> "empty"]
Torn == [kind |-> "torn"]
Contents == [kind : {"document"}, records : SUBSET Records] \cup {Absent, Empty, Torn}

VARIABLES
    file, \* the document
    tmp,  \* the temporary file
    doc,  \* doc[p]: the document p has in memory
    fd    \* fd[p]: where the file is that p has open for writing

storeVars == <<file, tmp, doc, fd>>

StoreTypeOK ==
    /\ file \in Contents
    /\ tmp \in Contents
    /\ doc \in [Procs -> SUBSET Records]
    /\ fd \in [Procs -> {"closed", "tmp", "file", "gone"}]

StoreInit ==
    /\ file = Absent
    /\ tmp = Absent
    /\ doc = [p \in Procs |-> {}]
    /\ fd = [p \in Procs |-> "closed"]

\* A missing document has no records; one that is not JSON is an error.
Readable == file \notin {Empty, Torn}
Recorded == IF file.kind = "document" THEN file.records ELSE {}

At(m) == {r \in Records : r.mount = m}
On(d) == {r \in Records : r.device = d}

\* Faulty variant: the document is not read before it is edited.
LoadAfresh(p, drop, add) ==
    /\ Readable
    /\ doc' = [doc EXCEPT ![p] = add]
    /\ UNCHANGED <<file, tmp, fd>>

\* load, and the edit of the copy: DeleteFunc and append.
Load(p, drop, add) ==
    /\ Readable
    /\ doc' = [doc EXCEPT ![p] = (Recorded \ drop) \cup add]
    /\ UNCHANGED <<file, tmp, fd>>

\* Faulty variant: the document itself is opened.
OpenInPlace(p) ==
    /\ file' = Empty
    /\ tmp' = Empty
    /\ fd' = [fd EXCEPT ![p] = "file"]
    /\ UNCHANGED doc

\* os.WriteFile opens the temporary file with O_TRUNC.
Open(p) ==
    /\ tmp' = Empty
    /\ fd' = [fd EXCEPT ![p] = "tmp"]
    /\ UNCHANGED <<file, doc>>

\* Writing over what another process wrote may leave that one's end behind.
Overwritten(p, old) == {Document(doc[p])} \cup IF old = Empty THEN {} ELSE {Torn}

\* os.WriteFile writes and closes the file.
Write(p) ==
    /\ \/ fd[p] = "tmp" /\ tmp' \in Overwritten(p, tmp) /\ UNCHANGED file
       \/ fd[p] = "file" /\ file' \in Overwritten(p, file) /\ UNCHANGED tmp
       \/ fd[p] = "gone" /\ UNCHANGED <<file, tmp>>
    /\ fd' = [fd EXCEPT ![p] = "closed"]
    /\ UNCHANGED doc

\* os.Rename: a file still open keeps its writer.
Rename(p) ==
    /\ tmp # Absent
    /\ file' = tmp
    /\ tmp' = Absent
    /\ fd' = [q \in Procs |->
                CASE fd[q] = "tmp" -> "file"
                  [] fd[q] = "file" -> "gone"
                  [] OTHER -> fd[q]]
    /\ doc' = [doc EXCEPT ![p] = {}]

\* Processes end: what they have open is closed, what they knew is gone.
Close(gone) ==
    /\ fd' = [p \in Procs |-> IF p \in gone THEN "closed" ELSE fd[p]]
    /\ doc' = [p \in Procs |-> IF p \in gone THEN {} ELSE doc[p]]
    /\ UNCHANGED <<file, tmp>>
=============================================================================
