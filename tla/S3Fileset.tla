----------------------------- MODULE S3Fileset -----------------------------
(***************************************************************************)
(* Lifecycle over an object store: the calls of s3_target.go.  A request    *)
(* replaces or removes a whole object or leaves it alone; its answer may be *)
(* lost, so that the caller sees an error although the request was carried  *)
(* out.  PutObject is told the size beforehand, and stores nothing when the *)
(* stream ends before that.  A request ends with the process that sent it.  *)
(***************************************************************************)
EXTENDS Lifecycle

vars == lifeVars

-----------------------------------------------------------------------------
(* What a request sends *)

Written(n) == [i \in 1..n |-> plan.seed]

Planned(p) == NewSize(plan.mutations[p], records[p].size)

\* A mutation that keeps something of the old object reads it while it sends
\* the new one.
NeedsOld(p) == plan.mutations[p] # "rewrite"

\* io.LimitReader, and PutObject: at most n of what comes.
Cut(body, n) == SubSeq(body, 1, IF Len(body) < n THEN Len(body) ELSE n)

\* mutationReader: the pattern; or the old object with the pattern of what the
\* new size has more than the record; or at most the new size of the old object.
Stream(p) ==
    CASE plan.mutations[p] = "rewrite" -> Written(Planned(p))
      [] plan.mutations[p] = "append" -> stored[p].body \o Written(Planned(p) - records[p].size)
      [] plan.mutations[p] = "truncate" -> Cut(stored[p].body, Planned(p))

\* Faulty variant: the metadata of an object leave out its time.
ObjectUndated(body, mode) == [body |-> body, mode |-> mode, mtime |-> None]

Object(body, mode) == [body |-> body, mode |-> mode, mtime |-> plan.seed]

\* The object that a mutation puts: as much of the stream as it has announced.
NewObject(p) == Object(Cut(Stream(p), Planned(p)), records[p].mode)

\* The request is carried out at p, and its worker goes on as w.
Carry(p, object, w) ==
    /\ stored' = [stored EXCEPT ![p] = object]
    /\ touched' = touched \cup {p}
    /\ SetWork(p, w)

-----------------------------------------------------------------------------
(* The workers *)

\* RemoveObject; a missing object is no error.
DeleteObject(p) ==
    /\ Free("delete", p)
    /\ Carry(p, None, "done")
    /\ UNCHANGED <<manifest, cmdVars, phase, records, faults, doubtful>>

Readable(p) == ~NeedsOld(p) \/ stored[p] # None

\* Faulty variant: the size is not announced, and the stream may be of any length.
LongEnoughUnsized(p) == Readable(p)

\* The stream has the bytes that were announced.
LongEnough(p) == Readable(p) /\ Len(Stream(p)) >= Planned(p)

\* MutateSpec: the new object is put.  Of a stream that is longer an upload in
\* parts takes what was announced.
Mutate(p) ==
    /\ Free("mutate", p)
    /\ LongEnough(p)
    /\ Carry(p, NewObject(p), "done")
    /\ records' = [records EXCEPT
                     ![p].size = Planned(p),
                     ![p].sum = NewObject(p).body,
                     ![p].mtime = plan.seed]
    /\ UNCHANGED <<manifest, cmdVars, phase, faults, doubtful>>

\* MutateSpec fails: there is no old object, or the stream is not as long as
\* announced.  Of one that is longer the announced part may have been stored.
MutateRefused(p) ==
    /\ Free("mutate", p)
    /\ \/ /\ Readable(p) => Len(Stream(p)) # Planned(p)
          /\ SetWork(p, "failed")
          /\ UNCHANGED <<stored, touched>>
       \/ /\ Readable(p) /\ Len(Stream(p)) > Planned(p)
          /\ Carry(p, NewObject(p), "failed")
    /\ UNCHANGED <<manifest, cmdVars, phase, records, faults, doubtful>>

FreshObject(p) == Object(Written(plan.creates[p]), ModeOf[p])

\* WriteSpec: the object is put, whatever was there.
Create(p) ==
    /\ Free("create", p)
    /\ Carry(p, FreshObject(p), "done")
    /\ records' = [records EXCEPT ![p] =
                     [size |-> plan.creates[p], sum |-> FreshObject(p).body,
                      mode |-> ModeOf[p], mtime |-> plan.seed]]
    /\ UNCHANGED <<manifest, cmdVars, phase, faults, doubtful>>

Worker(p) == DeleteObject(p) \/ Mutate(p) \/ MutateRefused(p) \/ Create(p)

\* A request fails, or is cancelled with the context.
RequestFails(p) ==
    /\ faults < MaxFaults
    /\ Free(phase, p)
    /\ SetWork(p, "failed")
    /\ faults' = faults + 1
    /\ UNCHANGED <<stored, manifest, cmdVars, phase, records, touched, doubtful>>

\* A request is carried out, and the worker is told that it failed.
AnswerLost(p) ==
    /\ faults < MaxFaults
    /\ Free(phase, p)
    /\ \/ phase = "delete" /\ Carry(p, None, "failed")
       \/ phase = "mutate" /\ LongEnough(p) /\ Carry(p, NewObject(p), "failed")
       \/ phase = "create" /\ Carry(p, FreshObject(p), "failed")
    /\ faults' = faults + 1
    /\ UNCHANGED <<manifest, cmdVars, phase, records, doubtful>>

-----------------------------------------------------------------------------
(* The manifest object, and the end of the process *)

\* SaveManifest: one PutObject.  When its answer is lost the command ends as well,
\* with an error.
SaveManifest ==
    /\ phase = "save"
    /\ ~gaveUp
    /\ Replace
    /\ UNCHANGED <<stored, ops, faults>>

\* Cleanup does nothing, and DeleteManifest is one RemoveObject.
DeleteManifest ==
    /\ phase = "cleanup"
    /\ ~gaveUp
    /\ Remove
    /\ UNCHANGED <<stored, ops, faults>>

\* The manifest's request is not carried out.
ManifestFails ==
    /\ faults < MaxFaults
    /\ phase \in {"save", "cleanup"}
    /\ ~gaveUp
    /\ gaveUp' = TRUE
    /\ faults' = faults + 1
    /\ UNCHANGED <<stored, manifest, op, phase, plan, records, work, ops, touched, doubtful>>

\* The command returned the error and main calls os.Exit.
Exit ==
    /\ gaveUp
    /\ Abandon
    /\ UNCHANGED <<stored, manifest, ops, faults>>

\* The process is killed between any two steps.
Crash ==
    /\ faults < MaxFaults
    /\ op # "idle"
    /\ Abandon
    /\ faults' = faults + 1
    /\ UNCHANGED <<stored, manifest, ops>>

Step ==
    \/ \E p \in Paths : Worker(p)
    \/ Advance
    \/ SaveManifest \/ DeleteManifest
    \/ Exit

Next ==
    \/ Begin
    \/ Step
    \/ \E p \in Paths : RequestFails(p) \/ AnswerLost(p)
    \/ ManifestFails \/ Interrupt \/ Crash

Spec == LifeInit /\ [][Next]_vars

-----------------------------------------------------------------------------
(* What the documents say, and the code does not do *)

\* docs/design.md:52: rotations that append or truncate rewrite objects.  When
\* nothing has failed, an object that the manifest describes can be rewritten.
MutationsAreCarriedOut ==
    [][\A p \in Paths :
         work[p] = "todo" /\ work'[p] = "failed" => faults' > faults \/ p \in doubtful]_vars
=============================================================================
