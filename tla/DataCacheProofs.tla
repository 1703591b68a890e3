--------------------------- MODULE DataCacheProofs ---------------------------
(***************************************************************************)
(* Proofs about DataCache, for any number of processes, keys, changes and  *)
(* restarts: types and the lock file, and what can make a value in memory  *)
(* or a timestamp in the revision go back.                                 *)
(*                                                                         *)
(* The lemmas named ...Shape say once what an action does to the variables *)
(* in terms of their types. On top of TypeOK, StampInv bounds timestamps   *)
(* by the clock and JobInv relates a job to the memory of its process and  *)
(* to the revision: the memory is not older than the snapshot, what was    *)
(* found on file is newer than it, and the revision has not gained since   *)
(* it was read.                                                            *)
(***************************************************************************)
EXTENDS DataCache, TLAPS

-----------------------------------------------------------------------------
(* Entries, tasks and jobs *)

\* An entry has a timestamp exactly if it has a value.
LEMMA EntryFacts ==
    ASSUME NEW e \in Entry
    PROVE  /\ e.ts \in Nat /\ (e = Nothing <=> e.ts = 0)
           /\ e.val \in Value \cup {NoValue} /\ (e = Nothing <=> e.val = NoValue)
BY DataCacheAssumption DEF Entry, Nothing

\* A task to save sets one key.
LEMMA SaveFacts ==
    ASSUME NEW k \in Key, NEW e \in Entry
    PROVE  /\ Save(k, e) \in Task /\ Save(k, e) # Load
           /\ Save(k, e).op = "save"
           /\ \A j \in Key : Save(k, e).vals[j] = IF j = k THEN e ELSE Nothing
<1>1. NoEntries \in [Key -> Entry] /\ \A j \in Key : NoEntries[j] = Nothing
  BY DEF NoEntries, Entry
<1> QED
  BY <1>1 DEF Save, Task, Load

LEMMA LoadFacts ==
    /\ Load \in Task /\ Load.op = "load" /\ \A k \in Key : Load.vals[k] = Nothing
    /\ NoJob \in Job /\ NoJob.phase = "idle"
<1>1. NoEntries \in [Key -> Entry] /\ \A j \in Key : NoEntries[j] = Nothing
  BY DEF NoEntries, Entry
<1>2. Load \in Task
  BY <1>1 DEF Load, Task
<1> QED
  BY <1>1, <1>2 DEF Load, NoJob, Job

LEMMA OverlayFacts ==
    ASSUME NEW p \in [Key -> Entry], NEW e \in [Key -> Entry]
    PROVE  /\ Overlay(p, e) \in [Key -> Entry]
           /\ \A k \in Key : Overlay(p, e)[k] = IF p[k] # Nothing THEN p[k] ELSE e[k]
BY DEF Overlay

-----------------------------------------------------------------------------
(* What a step of the serializer does to its job *)

LEMMA BeginTaskShape ==
    ASSUME TypeOK, NEW c \in Proc, BeginTask(c)
    PROVE  /\ tasks[c] # <<>> /\ Head(tasks[c]) \in Task /\ job[c].phase = "idle"
           /\ tasks' \in [Proc -> Seq(Task)] /\ tasks'[c] = Tail(tasks[c])
           /\ \A d \in Proc \ {c} : tasks'[d] = tasks[d] /\ job'[d] = job[d]
           /\ job' \in [Proc -> Job] /\ job'[c].phase = "lock"
           /\ job'[c].task = Head(tasks[c]) /\ job'[c].base = mem[c]
           /\ UNCHANGED <<procVars, mem, notify, lock, diskVars, clock, bounds>>
<1>1. tasks \in [Proc -> Seq(Task)] /\ job \in [Proc -> Job] /\ mem[c] \in [Key -> Entry]
  BY DEF TypeOK
<1>2. tasks[c] # <<>> /\ Head(tasks[c]) \in Task /\ Tail(tasks[c]) \in Seq(Task)
  BY <1>1 DEF BeginTask
<1>3. job' = [job EXCEPT ![c].phase = "lock", ![c].task = Head(tasks[c]), ![c].base = mem[c]]
  BY DEF BeginTask
<1>4. job' \in [Proc -> Job] /\ job'[c].phase = "lock" /\ job'[c].task = Head(tasks[c])
      /\ job'[c].base = mem[c] /\ \A d \in Proc \ {c} : job'[d] = job[d]
  <2>1. /\ job'[c] = [job[c] EXCEPT !.phase = "lock", !.task = Head(tasks[c]), !.base = mem[c]]
        /\ \A d \in Proc \ {c} : job'[d] = job[d]
        /\ DOMAIN job' = Proc /\ job' = [d \in Proc |-> job'[d]]
    BY <1>1, <1>3
  <2>2. job[c] \in Job
    BY <1>1
  <2>3. /\ job'[c] \in Job /\ job'[c].phase = "lock"
        /\ job'[c].task = Head(tasks[c]) /\ job'[c].base = mem[c]
    BY <1>1, <1>2, <2>1, <2>2 DEF Job
  <2>4. \A d \in Proc : job'[d] \in Job
    BY <1>1, <2>1, <2>3
  <2> QED
    BY <2>1, <2>3, <2>4
<1> QED
  BY <1>1, <1>2, <1>4 DEF BeginTask

\* What beginUpdate finds newer on file.
Found(c, k, e) ==
    \/ e = Nothing
    \/ /\ e = [val |-> file[k], ts |-> rev.ts[k]] /\ file[k] # NoValue
       /\ rev.ts[k] > job[c].base[k].ts

\* What beginUpdate takes out of the revision.
Lost(c, k) == rev.ts[k] > job[c].base[k].ts /\ file[k] \in {NoValue, job[c].base[k].val}

LEMMA LockShape ==
    ASSUME TypeOK, NEW c \in Proc, LockAndRead(c)
    PROVE  /\ job[c].phase = "lock" /\ lock = NoProc /\ lock' = c
           /\ \A d \in Proc \ {c} : job'[d] = job[d]
           /\ job' \in [Proc -> Job] /\ job'[c].task = job[c].task /\ job'[c].base = job[c].base
           /\ job'[c].phase = IF job[c].task.op = "load" THEN "apply" ELSE "revision"
           /\ job'[c].orig = rev.ts
           /\ \A k \in Key : Found(c, k, job'[c].newer[k])
           /\ \/ UNCHANGED <<rev, revisions, notify>>
              \/ /\ \E k \in Key : Lost(c, k)
                 /\ rev' \in [uuid : Nat, ts : [Key -> Nat], pins : SUBSET Key, deferrals : SUBSET Key]
                 /\ \A k \in Key : rev'.ts[k] = rev.ts[k] \/ (rev'.ts[k] = 0 /\ Lost(c, k))
                 /\ revisions' \in Nat /\ notify' = notify \cup running
           /\ uuid' \in [Proc -> Nat] /\ admitQueue' \in [Proc -> SUBSET Key]
           /\ admitted' \in [Proc -> SUBSET Key]
           /\ UNCHANGED <<running, mem, tasks, file, clock, bounds>>
<1> DEFINE base  == job[c].base
           some  == ~UpToDate(c) /\ \E k \in Key : Newer(base, k)
           keys  == IF some THEN ToLoad(c, base) ELSE {}
           found == [k \in Key |-> IF k \in keys /\ file[k] \notin {NoValue, base[k].val}
                                   THEN [val |-> file[k], ts |-> rev.ts[k]] ELSE Nothing]
           missing == keys \ KeysOf(found)
           phase == IF job[c].task.op = "load" THEN "apply" ELSE "revision"
           stamps == [k \in Key |-> IF k \in missing THEN 0 ELSE rev.ts[k]]
<1>1. /\ job[c].phase = "lock" /\ lock = NoProc /\ lock' = c
      /\ job' = [job EXCEPT ![c].phase = phase, ![c].newer = found, ![c].orig = rev.ts]
      /\ \/ missing # {} /\ WriteNewRevision(c, stamps) /\ uuid' = [uuid EXCEPT ![c] = revisions + 1]
         \/ uuid' = [uuid EXCEPT ![c] = rev.uuid] /\ UNCHANGED <<rev, revisions, notify>>
      /\ admitted' = IF some THEN [admitted EXCEPT ![c] = @ \cup admitQueue[c]] ELSE admitted
      /\ admitQueue' = IF some THEN [admitQueue EXCEPT ![c] = {}] ELSE admitQueue
      /\ UNCHANGED <<running, mem, tasks, file, clock, bounds>>
  BY DEF LockAndRead, BeginUpdate
<1>2. /\ job \in [Proc -> Job] /\ base \in [Key -> Entry] /\ rev.ts \in [Key -> Nat]
      /\ file \in [Key -> Value \cup {NoValue}] /\ revisions \in Nat /\ rev.uuid \in Nat
      /\ uuid \in [Proc -> Nat] /\ admitted \in [Proc -> SUBSET Key] /\ admitQueue \in [Proc -> SUBSET Key]
      /\ Knows[c] \subseteq Key /\ Pinned \subseteq Key /\ Deferred \subseteq Key
  BY DataCacheAssumption DEF TypeOK, Job
<1>3. \A k \in Key : base[k].ts \in Nat
  BY <1>2, EntryFacts
<1>4. keys \subseteq {k \in Key : rev.ts[k] > base[k].ts}
  BY <1>2, <1>3 DEF ToLoad, Newer
<1>5. \A k \in Key : found[k] \in Entry /\ Found(c, k, found[k])
  <2> SUFFICES ASSUME NEW k \in Key PROVE found[k] \in Entry /\ Found(c, k, found[k])
    OBVIOUS
  <2>1. CASE k \in keys /\ file[k] \notin {NoValue, base[k].val}
    <3>1. rev.ts[k] > base[k].ts /\ rev.ts[k] \in Nat \ {0} /\ file[k] \in Value /\ file[k] # NoValue
      BY <1>2, <1>3, <1>4, <2>1
    <3>2. found[k] = [val |-> file[k], ts |-> rev.ts[k]]
      BY <2>1
    <3> HIDE DEF found
    <3> QED
      BY <3>1, <3>2 DEF Found, Entry
  <2>2. CASE ~(k \in keys /\ file[k] \notin {NoValue, base[k].val})
    <3>1. found[k] = Nothing
      BY <2>2
    <3> HIDE DEF found
    <3> QED
      BY <3>1 DEF Found, Entry
  <2> QED
    BY <2>1, <2>2
<1>6. \A k \in missing : Lost(c, k)
  <2> SUFFICES ASSUME NEW k \in keys, found[k] = Nothing PROVE Lost(c, k)
    BY <1>4 DEF KeysOf
  <2>1. k \in Key /\ rev.ts[k] > base[k].ts /\ base[k].ts \in Nat
    BY <1>3, <1>4
  <2>2. ASSUME file[k] \notin {NoValue, base[k].val} PROVE FALSE
    <3>1. found[k] = [val |-> file[k], ts |-> rev.ts[k]]
      BY <2>1, <2>2
    <3>2. Nothing.val = NoValue
      BY DEF Nothing
    <3> QED
      BY <2>2, <3>1, <3>2
  <2> QED
    BY <2>1, <2>2 DEF Lost
<1>7. found \in [Key -> Entry]
  BY <1>5
<1>8. /\ job' \in [Proc -> Job] /\ \A d \in Proc \ {c} : job'[d] = job[d]
      /\ job'[c].phase = phase /\ job'[c].newer = found /\ job'[c].orig = rev.ts
      /\ job'[c].task = job[c].task /\ job'[c].base = job[c].base
  <2>1. job' = [job EXCEPT ![c].phase = phase, ![c].newer = found, ![c].orig = rev.ts]
    BY <1>1
  <2>2. phase \in {"apply", "revision"}
    OBVIOUS
  <2> HIDE DEF found, missing, stamps, keys, some, phase, base
  <2>3. /\ job'[c] = [job[c] EXCEPT !.phase = phase, !.newer = found, !.orig = rev.ts]
        /\ \A d \in Proc \ {c} : job'[d] = job[d]
        /\ DOMAIN job' = Proc /\ job' = [d \in Proc |-> job'[d]]
    BY <1>2, <2>1
  <2>4. job[c] \in Job
    BY <1>2
  <2>5. /\ job'[c] \in Job
        /\ job'[c].phase = phase /\ job'[c].newer = found /\ job'[c].orig = rev.ts
        /\ job'[c].task = job[c].task /\ job'[c].base = job[c].base
    BY <1>2, <1>7, <2>2, <2>3, <2>4 DEF Job
  <2>6. \A d \in Proc : job'[d] \in Job
    BY <1>2, <2>3, <2>5
  <2> QED
    BY <2>3, <2>5, <2>6
<1>9. missing \subseteq Key
  BY <1>4
<1>10. ASSUME missing # {}, WriteNewRevision(c, stamps)
       PROVE  /\ \E k \in Key : Lost(c, k)
              /\ rev' \in [uuid : Nat, ts : [Key -> Nat], pins : SUBSET Key, deferrals : SUBSET Key]
              /\ \A k \in Key : rev'.ts[k] = rev.ts[k] \/ (rev'.ts[k] = 0 /\ Lost(c, k))
              /\ revisions' \in Nat /\ notify' = notify \cup running
  <2> HIDE DEF missing
  <2> QED
    BY <1>2, <1>6, <1>9, <1>10 DEF WriteNewRevision
<1>11. /\ uuid' \in [Proc -> Nat] /\ admitQueue' \in [Proc -> SUBSET Key]
       /\ admitted' \in [Proc -> SUBSET Key]
  <2> HIDE DEF missing, some, found
  <2> QED
    BY <1>1, <1>2
<1> HIDE DEF found, missing, stamps, some, phase
<1>12. \A k \in Key : Found(c, k, job'[c].newer[k])
  BY <1>5, <1>8
<1> QED
  BY <1>1, <1>8, <1>10, <1>11, <1>12 DEF phase


\* The end of a job, with or without files.
LEMMA FinishShape ==
    ASSUME TypeOK, NEW c \in Proc, FinishLoad(c) \/ SaveFiles(c)
    PROVE  /\ lock = c /\ lock' = NoProc
           /\ job' \in [Proc -> Job] /\ job'[c] = NoJob
           /\ \A d \in Proc \ {c} : job'[d] = job[d] /\ mem'[d] = mem[d]
           /\ mem' \in [Proc -> [Key -> Entry]]
           /\ \A k \in Key : mem'[c][k] = IF job[c].newer[k] # Nothing THEN job[c].newer[k] ELSE mem[c][k]
           /\ UNCHANGED <<procVars, tasks, notify, rev, revisions, clock, bounds>>
<1>1. /\ job \in [Proc -> Job] /\ mem \in [Proc -> [Key -> Entry]] /\ job[c].newer \in [Key -> Entry]
      /\ job[c].phase \in {"apply", "revision", "files"} <=> lock = c
  BY DEF TypeOK, Job
<1>2. /\ job' = [job EXCEPT ![c] = NoJob] /\ lock' = NoProc
      /\ mem' = [mem EXCEPT ![c] = Overlay(job[c].newer, mem[c])]
      /\ UNCHANGED <<procVars, tasks, notify, rev, revisions, clock, bounds>>
      /\ job[c].phase \in {"apply", "files"}
  BY DEF FinishLoad, SaveFiles, ApplyDeferredChanges, diskVars
<1>3. /\ Overlay(job[c].newer, mem[c]) \in [Key -> Entry]
      /\ \A k \in Key : Overlay(job[c].newer, mem[c])[k] =
                           IF job[c].newer[k] # Nothing THEN job[c].newer[k] ELSE mem[c][k]
  BY <1>1, OverlayFacts
<1>4. lock = c
  BY <1>1, <1>2
<1>5. job' \in [Proc -> Job] /\ job'[c] = NoJob /\ \A d \in Proc \ {c} : job'[d] = job[d]
  BY <1>1, <1>2, LoadFacts
<1>6. /\ mem' \in [Proc -> [Key -> Entry]] /\ mem'[c] = Overlay(job[c].newer, mem[c])
      /\ \A d \in Proc \ {c} : mem'[d] = mem[d]
  BY <1>1, <1>2, <1>3
<1> QED
  BY <1>2, <1>3, <1>4, <1>5, <1>6

LEMMA FilesShape ==
    ASSUME TypeOK, NEW c \in Proc, SaveFiles(c)
    PROVE  /\ job[c].phase = "files" /\ file' \in [Key -> Value \cup {NoValue}]
           /\ \A k \in Key : file'[k] = IF job[c].task.vals[k] # Nothing
                                        THEN job[c].task.vals[k].val ELSE file[k]
<1>1. file \in [Key -> Value \cup {NoValue}] /\ job[c].task.vals \in [Key -> Entry]
  BY DEF TypeOK, Job, Task
<1>2. \A k \in Key : job[c].task.vals[k].val \in Value \cup {NoValue}
  BY <1>1, EntryFacts
<1> QED
  BY <1>1, <1>2 DEF SaveFiles, KeysOf

LEMMA RevisionShape ==
    ASSUME TypeOK, NEW c \in Proc, SaveRevision(c)
    PROVE  /\ job[c].phase = "revision" /\ lock = c
           /\ job' \in [Proc -> Job] /\ job'[c].phase = "files"
           /\ job'[c].task = job[c].task /\ job'[c].base = job[c].base
           /\ \A k \in Key : job'[c].newer[k] = IF job[c].task.vals[k] # Nothing THEN Nothing
                                                ELSE job[c].newer[k]
           /\ \A d \in Proc \ {c} : job'[d] = job[d]
           /\ rev' \in [uuid : Nat, ts : [Key -> Nat], pins : SUBSET Key, deferrals : SUBSET Key]
           /\ rev'.pins = Pinned \cap Knows[c]
           /\ \A k \in Key : rev'.ts[k] = IF job[c].base[k].ts > 0 THEN job[c].base[k].ts ELSE job[c].orig[k]
           /\ revisions' \in Nat /\ notify' = notify \cup running /\ uuid' \in [Proc -> Nat]
           /\ UNCHANGED <<running, admitQueue, admitted, mem, tasks, lock, file, clock, bounds>>
<1> DEFINE newer == [k \in Key |-> IF k \in KeysOf(job[c].task.vals) THEN Nothing ELSE job[c].newer[k]]
<1>1. /\ job \in [Proc -> Job] /\ job[c] \in Job /\ job[c].newer \in [Key -> Entry]
      /\ job[c].task.vals \in [Key -> Entry] /\ job[c].base \in [Key -> Entry] /\ job[c].orig \in [Key -> Nat]
      /\ job[c].phase \in {"apply", "revision", "files"} <=> lock = c
      /\ revisions \in Nat /\ uuid \in [Proc -> Nat]
      /\ Knows[c] \subseteq Key /\ Pinned \subseteq Key /\ Deferred \subseteq Key
  BY DataCacheAssumption DEF TypeOK, Job, Task
<1>2. job' = [job EXCEPT ![c].phase = "files", ![c].newer = newer]
  BY DEF SaveRevision
<1>3. newer \in [Key -> Entry] /\ \A k \in Key : newer[k] = IF job[c].task.vals[k] # Nothing THEN Nothing
                                                             ELSE job[c].newer[k]
  BY <1>1 DEF KeysOf, Entry
<1>4. /\ job' \in [Proc -> Job] /\ job'[c].phase = "files" /\ job'[c].newer = newer
      /\ job'[c].task = job[c].task /\ job'[c].base = job[c].base
      /\ \A d \in Proc \ {c} : job'[d] = job[d]
  <2> HIDE DEF newer
  <2>1. /\ job'[c] = [job[c] EXCEPT !.phase = "files", !.newer = newer]
        /\ \A d \in Proc \ {c} : job'[d] = job[d]
        /\ DOMAIN job' = Proc /\ job' = [d \in Proc |-> job'[d]]
    BY <1>1, <1>2
  <2>2. /\ job'[c] \in Job /\ job'[c].phase = "files" /\ job'[c].newer = newer
        /\ job'[c].task = job[c].task /\ job'[c].base = job[c].base
    BY <1>1, <1>3, <2>1 DEF Job
  <2>3. \A d \in Proc : job'[d] \in Job
    BY <1>1, <2>1, <2>2
  <2> QED
    BY <2>1, <2>2, <2>3
<1>5. \A k \in Key : job[c].base[k].ts \in Nat
  BY <1>1, EntryFacts
<1>6. /\ RevisionOfSnapshot(c) \in [Key -> Nat]
      /\ \A k \in Key : RevisionOfSnapshot(c)[k] =
                           IF job[c].base[k].ts > 0 THEN job[c].base[k].ts ELSE job[c].orig[k]
  BY <1>1, <1>5 DEF RevisionOfSnapshot
<1>7. WriteNewRevision(c, RevisionOfSnapshot(c)) /\ uuid' = [uuid EXCEPT ![c] = revisions + 1]
  BY DEF SaveRevision
<1>8. /\ rev' \in [uuid : Nat, ts : [Key -> Nat], pins : SUBSET Key, deferrals : SUBSET Key]
      /\ rev'.pins = Pinned \cap Knows[c] /\ rev'.ts = RevisionOfSnapshot(c)
      /\ revisions' \in Nat /\ notify' = notify \cup running /\ uuid' \in [Proc -> Nat]
  BY <1>1, <1>6, <1>7 DEF WriteNewRevision
<1> HIDE DEF newer
<1> QED
  BY <1>1, <1>3, <1>4, <1>6, <1>8 DEF SaveRevision

-----------------------------------------------------------------------------
(* Types and the lock file *)

LEMMA TypeInit == Init => TypeOK
<1> SUFFICES ASSUME Init PROVE TypeOK
  OBVIOUS
<1>1. NoEntries \in [Key -> Entry]
  BY DEF NoEntries, Entry
<1> QED
  BY <1>1, LoadFacts, DataCacheAssumption DEF Init, TypeOK, NoJob

LEMMA SerializerType ==
    ASSUME TypeOK, NEW c \in Proc, SerializerStep(c)
    PROVE  TypeOK'
<1>1. CASE BeginTask(c)
  <2>1. \A d \in Proc : job'[d].phase \in {"apply", "revision", "files"} <=> lock' = d
    BY <1>1, BeginTaskShape DEF TypeOK
  <2> QED
    BY <1>1, <2>1, BeginTaskShape DEF TypeOK, procVars, diskVars, bounds
<1>2. CASE LockAndRead(c)
  <2>1. \A d \in Proc : job'[d].phase \in {"apply", "revision", "files"} <=> lock' = d
    BY <1>2, LockShape, DataCacheAssumption DEF TypeOK
  <2>2. /\ rev' \in [uuid : Nat, ts : [Key -> Nat], pins : SUBSET Key, deferrals : SUBSET Key]
        /\ revisions' \in Nat /\ notify' \in SUBSET running
    BY <1>2, LockShape DEF TypeOK
  <2>3. /\ job' \in [Proc -> Job] /\ lock' = c /\ UNCHANGED <<running, mem, tasks, file, clock, bounds>>
        /\ uuid' \in [Proc -> Nat] /\ admitQueue' \in [Proc -> SUBSET Key]
        /\ admitted' \in [Proc -> SUBSET Key]
    BY <1>2, LockShape
  <2> QED
    BY <2>1, <2>2, <2>3 DEF TypeOK, bounds
<1>3. CASE FinishLoad(c) \/ SaveFiles(c)
  <2>1. \A d \in Proc : job'[d].phase \in {"apply", "revision", "files"} <=> lock' = d
    <3>1. /\ lock = c /\ lock' = NoProc /\ job'[c] = NoJob /\ \A d \in Proc \ {c} : job'[d] = job[d]
      BY <1>3, FinishShape
    <3>2. \A d \in Proc : job[d].phase \in {"apply", "revision", "files"} <=> lock = d
      BY DEF TypeOK
    <3> QED
      BY <3>1, <3>2, LoadFacts, DataCacheAssumption
  <2>2. file' \in [Key -> Value \cup {NoValue}]
    BY <1>3, FilesShape DEF FinishLoad, diskVars, TypeOK
  <2>3. /\ lock' = NoProc /\ job' \in [Proc -> Job] /\ mem' \in [Proc -> [Key -> Entry]]
        /\ UNCHANGED <<procVars, tasks, notify, rev, revisions, clock, bounds>>
    BY <1>3, FinishShape
  <2> QED
    BY <2>1, <2>2, <2>3 DEF TypeOK, procVars, bounds
<1>4. CASE SaveRevision(c)
  <2>1. \A d \in Proc : job'[d].phase \in {"apply", "revision", "files"} <=> lock' = d
    <3>1. /\ job[c].phase = "revision" /\ lock = c /\ job'[c].phase = "files"
          /\ \A d \in Proc \ {c} : job'[d] = job[d]
          /\ lock' = lock
      BY <1>4, RevisionShape
    <3> QED
      BY <3>1 DEF TypeOK
  <2>2. /\ job' \in [Proc -> Job]
        /\ rev' \in [uuid : Nat, ts : [Key -> Nat], pins : SUBSET Key, deferrals : SUBSET Key]
        /\ revisions' \in Nat /\ notify' = notify \cup running /\ uuid' \in [Proc -> Nat]
        /\ UNCHANGED <<running, admitQueue, admitted, mem, tasks, lock, file, clock, bounds>>
    BY <1>4, RevisionShape
  <2> QED
    BY <2>1, <2>2 DEF TypeOK, bounds
<1> QED
  BY <1>1, <1>2, <1>3, <1>4 DEF SerializerStep

LEMMA SetShape ==
    ASSUME TypeOK, NEW c \in Proc, NEW k \in Key, NEW v \in Value, Set(c, k, v)
    PROVE  /\ c \in running /\ k \in Writes[c] /\ clock' = clock + 1 /\ used' = used \cup {v}
           /\ \A e : e = [val |-> v, ts |-> clock + 1] =>
                 /\ e \in Entry /\ e # Nothing
                 /\ mem'[c][k] = e /\ \A j \in Key \ {k} : mem'[c][j] = mem[c][j]
                 /\ tasks'[c] = Append(tasks[c], Save(k, e))
           /\ mem' \in [Proc -> [Key -> Entry]] /\ tasks' \in [Proc -> Seq(Task)]
           /\ \A d \in Proc \ {c} : mem'[d] = mem[d] /\ tasks'[d] = tasks[d]
           /\ admitQueue' \in [Proc -> SUBSET Key] /\ sets' \in 0 .. MaxSets
           /\ UNCHANGED <<running, admitted, uuid, job, notify, lock, diskVars, stops, loads>>
<1>1. /\ mem \in [Proc -> [Key -> Entry]] /\ tasks \in [Proc -> Seq(Task)] /\ clock \in Nat
      /\ admitQueue \in [Proc -> SUBSET Key] /\ sets \in 0 .. MaxSets
  BY DEF TypeOK
<1>2. PICK e : e = [val |-> v, ts |-> clock + 1]
  OBVIOUS
<1>3. e \in Entry /\ e # Nothing
  BY <1>1, <1>2 DEF Entry, Nothing
<1>4. /\ mem' = [mem EXCEPT ![c][k] = e]
      /\ tasks' = [tasks EXCEPT ![c] = Append(@, Save(k, e))]
      /\ sets < MaxSets /\ sets' = sets + 1 /\ admitQueue' = [admitQueue EXCEPT ![c] = @ \cup {k}]
  BY <1>2 DEF Set
<1>5. /\ mem' \in [Proc -> [Key -> Entry]] /\ mem'[c][k] = e
      /\ \A j \in Key \ {k} : mem'[c][j] = mem[c][j]
      /\ \A d \in Proc \ {c} : mem'[d] = mem[d]
  BY <1>1, <1>3, <1>4
<1>6. Save(k, e) \in Task
  BY <1>3, SaveFacts
<1>7. /\ tasks' \in [Proc -> Seq(Task)] /\ tasks'[c] = Append(tasks[c], Save(k, e))
      /\ \A d \in Proc \ {c} : tasks'[d] = tasks[d]
  <2>1. Append(tasks[c], Save(k, e)) \in Seq(Task)
    BY <1>1, <1>6
  <2> QED
    BY <1>1, <1>4, <2>1
<1>8. sets' \in 0 .. MaxSets /\ admitQueue' \in [Proc -> SUBSET Key]
  BY <1>1, <1>4, DataCacheAssumption
<1> QED
  BY <1>2, <1>3, <1>5, <1>7, <1>8 DEF Set

\* A load is appended to the tasks of a process.
LEMMA LoadPosted ==
    ASSUME TypeOK, NEW c \in Proc, FileChanged(c) \/ (\E k \in Key : Admit(c, k))
    PROVE  /\ c \in running
           /\ tasks' \in [Proc -> Seq(Task)] /\ tasks'[c] = Append(tasks[c], Load)
           /\ \A d \in Proc \ {c} : tasks'[d] = tasks[d]
           /\ UNCHANGED <<running, admitted, uuid, mem, job, lock, diskVars, clock, used, sets, stops>>
           /\ notify' \subseteq notify /\ admitQueue' \in [Proc -> SUBSET Key] /\ loads' \in 0 .. MaxLoads
<1>1. /\ tasks \in [Proc -> Seq(Task)] /\ admitQueue \in [Proc -> SUBSET Key]
      /\ notify \in SUBSET running /\ loads \in 0 .. MaxLoads
  BY DEF TypeOK
<1>2. tasks' = [tasks EXCEPT ![c] = Append(@, Load)]
  BY DEF FileChanged, Admit
<1>3. Append(tasks[c], Load) \in Seq(Task)
  BY <1>1, LoadFacts
<1>4. /\ tasks' \in [Proc -> Seq(Task)] /\ tasks'[c] = Append(tasks[c], Load)
      /\ \A d \in Proc \ {c} : tasks'[d] = tasks[d]
  BY <1>1, <1>2, <1>3
<1>5. CASE FileChanged(c)
  BY <1>1, <1>4, <1>5 DEF FileChanged, procVars, bounds
<1>6. CASE \E k \in Key : Admit(c, k)
  <2>1. PICK k \in Key : Admit(c, k)
    BY <1>6
  <2>2. admitQueue' \in [Proc -> SUBSET Key] /\ loads' \in 0 .. MaxLoads
    BY <1>1, <2>1, DataCacheAssumption DEF Admit
  <2> QED
    BY <1>4, <2>1, <2>2 DEF Admit
<1> QED
  BY <1>5, <1>6

\* A process starts or ends: its memory is filled from the files, or emptied.
LEMMA LifeShape ==
    ASSUME TypeOK, NEW c \in Proc, Start(c) \/ Stop(c)
    PROVE  /\ \/ c \notin running /\ lock = NoProc /\ running' = running \cup {c} /\ tasks'[c] = <<Load>>
              \/ c \in running /\ job[c].phase = "idle" /\ running' = running \ {c} /\ tasks'[c] = <<>>
           /\ mem' \in [Proc -> [Key -> Entry]] /\ tasks' \in [Proc -> Seq(Task)]
           /\ \A d \in Proc \ {c} : mem'[d] = mem[d] /\ tasks'[d] = tasks[d]
           /\ \A k \in Key : \/ mem'[c][k] = Nothing
                             \/ /\ lock = NoProc /\ rev.ts[k] > 0 /\ file[k] # NoValue
                                /\ mem'[c][k] = [val |-> file[k], ts |-> rev.ts[k]]
           /\ UNCHANGED <<job, lock, diskVars, clock, used, sets, loads>>
           /\ TypeOK'
<1>1. /\ mem \in [Proc -> [Key -> Entry]] /\ tasks \in [Proc -> Seq(Task)] /\ notify \in SUBSET running
      /\ rev.ts \in [Key -> Nat] /\ file \in [Key -> Value \cup {NoValue}]
  BY DEF TypeOK
<1>2. CASE Start(c)
  <2>1. PICK m : m = [k \in Key |-> IF k \in rev.pins /\ rev.ts[k] > 0 /\ file[k] # NoValue
                                    THEN [val |-> file[k], ts |-> rev.ts[k]] ELSE Nothing]
    OBVIOUS
  <2>2. \A k \in Key : /\ m[k] \in Entry
                       /\ \/ m[k] = Nothing
                          \/ rev.ts[k] > 0 /\ file[k] # NoValue /\ m[k] = [val |-> file[k], ts |-> rev.ts[k]]
    BY <1>1, <2>1 DEF Entry
  <2>3. m \in [Key -> Entry]
    BY <2>1, <2>2
  <2>4. mem' = [mem EXCEPT ![c] = m] /\ tasks' = [tasks EXCEPT ![c] = <<Load>>]
    BY <1>2, <2>1 DEF Start
  <2>5. /\ mem' \in [Proc -> [Key -> Entry]] /\ mem'[c] = m /\ \A d \in Proc \ {c} : mem'[d] = mem[d]
    BY <1>1, <2>3, <2>4
  <2>6. /\ tasks' \in [Proc -> Seq(Task)] /\ tasks'[c] = <<Load>> /\ \A d \in Proc \ {c} : tasks'[d] = tasks[d]
    BY <1>1, <2>4, LoadFacts
  <2>7. TypeOK'
    BY <1>2, <2>5, <2>6 DEF TypeOK, Start, diskVars, bounds
  <2> QED
    BY <1>2, <2>2, <2>5, <2>6, <2>7 DEF Start, bounds
<1>3. CASE Stop(c)
  <2>1. NoEntries \in [Key -> Entry] /\ \A k \in Key : NoEntries[k] = Nothing
    BY DEF NoEntries, Entry
  <2>2. mem' = [mem EXCEPT ![c] = NoEntries] /\ tasks' = [tasks EXCEPT ![c] = <<>>]
    BY <1>3 DEF Stop
  <2>3. /\ mem' \in [Proc -> [Key -> Entry]] /\ mem'[c] = NoEntries /\ \A d \in Proc \ {c} : mem'[d] = mem[d]
    BY <1>1, <2>1, <2>2
  <2>4. /\ tasks' \in [Proc -> Seq(Task)] /\ tasks'[c] = <<>> /\ \A d \in Proc \ {c} : tasks'[d] = tasks[d]
    BY <1>1, <2>2
  <2>5. /\ stops' \in 0 .. MaxStops /\ admitQueue' \in [Proc -> SUBSET Key]
        /\ admitted' \in [Proc -> SUBSET Key] /\ uuid' \in [Proc -> Nat]
        /\ running' \in SUBSET Proc /\ notify' \in SUBSET running'
    BY <1>1, <1>3, DataCacheAssumption DEF Stop, TypeOK
  <2>6. TypeOK'
    BY <1>3, <2>3, <2>4, <2>5 DEF TypeOK, Stop, diskVars
  <2> QED
    BY <1>3, <2>1, <2>3, <2>4, <2>6 DEF Stop
<1> QED
  BY <1>2, <1>3

LEMMA TypeNext == TypeOK /\ [Next]_vars => TypeOK'
<1> SUFFICES ASSUME TypeOK, [Next]_vars PROVE TypeOK'
  OBVIOUS
<1>1. CASE UNCHANGED vars
  BY <1>1 DEF TypeOK, vars, procVars, diskVars, bounds
<1>2. ASSUME NEW c \in Proc, Start(c) \/ Stop(c) PROVE TypeOK'
  BY <1>2, LifeShape
<1>3. ASSUME NEW c \in Proc, NEW k \in Key, NEW v \in Value, Set(c, k, v) PROVE TypeOK'
  <2>1. clock' \in Nat /\ used' \in SUBSET Value
    BY <1>3, SetShape DEF TypeOK
  <2>2. /\ mem' \in [Proc -> [Key -> Entry]] /\ tasks' \in [Proc -> Seq(Task)]
        /\ admitQueue' \in [Proc -> SUBSET Key] /\ sets' \in 0 .. MaxSets
        /\ UNCHANGED <<running, admitted, uuid, job, notify, lock, diskVars, stops, loads>>
    BY <1>3, SetShape
  <2> QED
    BY <2>1, <2>2 DEF TypeOK, diskVars
<1>4. ASSUME NEW c \in Proc, FileChanged(c) \/ (\E k \in Key : Admit(c, k)) PROVE TypeOK'
  <2>1. /\ tasks' \in [Proc -> Seq(Task)]
        /\ UNCHANGED <<running, admitted, uuid, mem, job, lock, diskVars, clock, used, sets, stops>>
        /\ notify' \subseteq notify /\ admitQueue' \in [Proc -> SUBSET Key] /\ loads' \in 0 .. MaxLoads
    BY <1>4, LoadPosted
  <2> QED
    BY <2>1 DEF TypeOK, diskVars
<1> QED
  BY <1>1, <1>2, <1>3, <1>4, SerializerType DEF Next

\* Every reachable state is well typed, and a serializer is between reading the revision
\* and finishing its task exactly if its process holds the lock file: two serializers are
\* never there at the same time.
THEOREM DataCacheTypes == Spec => []TypeOK
  BY TypeInit, TypeNext, PTL DEF Spec

-----------------------------------------------------------------------------
(* Timestamps *)

\* No timestamp is later than the clock.
StampInv ==
    /\ \A c \in Proc, k \in Key : mem[c][k].ts <= clock
    /\ \A k \in Key : rev.ts[k] <= clock
    /\ \A c \in Proc, k \in Key : /\ job[c].base[k].ts <= clock /\ job[c].newer[k].ts <= clock
                                  /\ job[c].orig[k] <= clock

\* The jobs of other processes are left alone.
LEMMA StampOthers ==
    ASSUME TypeOK, StampInv, clock' = clock, NEW c \in Proc,
           \A d \in Proc \ {c} : mem'[d] = mem[d] /\ job'[d] = job[d],
           \A k \in Key : /\ mem'[c][k].ts <= clock /\ rev'.ts[k] <= clock
                          /\ job'[c].base[k].ts <= clock /\ job'[c].newer[k].ts <= clock
                          /\ job'[c].orig[k] <= clock
    PROVE  StampInv'
BY DEF StampInv

LEMMA StampSerializer ==
    ASSUME TypeOK, StampInv, NEW c \in Proc, SerializerStep(c)
    PROVE  StampInv'
<1>1. /\ \A k \in Key : /\ mem[c][k].ts <= clock /\ rev.ts[k] <= clock
                        /\ job[c].base[k].ts <= clock /\ job[c].newer[k].ts <= clock
                        /\ job[c].orig[k] <= clock
      /\ clock \in Nat
  BY DEF StampInv, TypeOK
<1>2. CASE BeginTask(c)
  <2>1. /\ \A d \in Proc \ {c} : job'[d] = job[d]
        /\ job'[c].base = mem[c] /\ UNCHANGED <<mem, rev, clock>>
    BY <1>2, BeginTaskShape DEF diskVars
  <2>2. job'[c].newer = job[c].newer /\ job'[c].orig = job[c].orig
    BY <1>2 DEF BeginTask, TypeOK, Job
  <2> QED
    BY <1>1, <2>1, <2>2, StampOthers
<1>3. CASE LockAndRead(c)
  <2>1. /\ \A d \in Proc \ {c} : job'[d] = job[d]
        /\ job'[c].base = job[c].base /\ job'[c].orig = rev.ts /\ UNCHANGED <<mem, clock>>
        /\ \A k \in Key : Found(c, k, job'[c].newer[k])
    BY <1>3, LockShape
  <2>2. \A k \in Key : job'[c].newer[k].ts <= clock
    <3> SUFFICES ASSUME NEW k \in Key PROVE job'[c].newer[k].ts <= clock
      OBVIOUS
    <3>1. job'[c].newer[k].ts = 0 \/ job'[c].newer[k].ts = rev.ts[k]
      <4>1. Nothing.ts = 0
        BY DEF Nothing
      <4>2. PICK e : e = job'[c].newer[k]
        OBVIOUS
      <4>3. e = Nothing \/ e = [val |-> file[k], ts |-> rev.ts[k]]
        BY <2>1, <4>2 DEF Found
      <4> QED
        BY <4>1, <4>2, <4>3
    <3> QED
      BY <1>1, <3>1
  <2>3. \A k \in Key : rev'.ts[k] = rev.ts[k] \/ rev'.ts[k] = 0
    BY <1>3, LockShape
  <2>4. \A k \in Key : rev'.ts[k] <= clock
    BY <1>1, <2>3
  <2> QED
    BY <1>1, <2>1, <2>2, <2>4, StampOthers
<1>4. CASE FinishLoad(c) \/ SaveFiles(c)
  <2>1. /\ job'[c] = NoJob /\ \A d \in Proc \ {c} : job'[d] = job[d] /\ mem'[d] = mem[d]
        /\ UNCHANGED <<rev, clock>>
        /\ \A k \in Key : mem'[c][k] = IF job[c].newer[k] # Nothing THEN job[c].newer[k] ELSE mem[c][k]
    BY <1>4, FinishShape
  <2>2. \A k \in Key : mem'[c][k].ts <= clock
    BY <1>1, <2>1
  <2>3. \A k \in Key : /\ NoJob.base[k].ts <= clock /\ NoJob.newer[k].ts <= clock
                       /\ NoJob.orig[k] <= clock
    BY <1>1 DEF NoJob, NoEntries, Nothing
  <2> QED
    BY <1>1, <2>1, <2>2, <2>3, StampOthers
<1>5. CASE SaveRevision(c)
  <2>1. /\ \A d \in Proc \ {c} : job'[d] = job[d]
        /\ \A k \in Key : job'[c].newer[k] = IF job[c].task.vals[k] # Nothing THEN Nothing
                                             ELSE job[c].newer[k]
        /\ \A k \in Key : rev'.ts[k] = IF job[c].base[k].ts > 0 THEN job[c].base[k].ts ELSE job[c].orig[k]
        /\ UNCHANGED <<mem, clock>> /\ job'[c].base = job[c].base
    BY <1>5, RevisionShape
  <2>2. job'[c].orig = job[c].orig
    BY <1>5 DEF SaveRevision, TypeOK, Job
  <2>3. \A k \in Key : job'[c].newer[k].ts <= clock /\ rev'.ts[k] <= clock
    BY <1>1, <2>1 DEF Nothing
  <2> QED
    BY <1>1, <2>1, <2>2, <2>3, StampOthers
<1> QED
  BY <1>2, <1>3, <1>4, <1>5 DEF SerializerStep

LEMMA StampNext == TypeOK /\ StampInv /\ [Next]_vars => StampInv'
<1> SUFFICES ASSUME TypeOK, StampInv, [Next]_vars PROVE StampInv'
  OBVIOUS
<1>1. CASE UNCHANGED vars
  BY <1>1 DEF StampInv, vars, diskVars
<1>2. ASSUME NEW c \in Proc, Start(c) \/ Stop(c) PROVE StampInv'
  <2>1. /\ \A d \in Proc \ {c} : mem'[d] = mem[d]
        /\ \A k \in Key : \/ mem'[c][k] = Nothing
                          \/ mem'[c][k] = [val |-> file[k], ts |-> rev.ts[k]]
        /\ UNCHANGED <<job, rev, clock>>
    BY <1>2, LifeShape DEF diskVars
  <2>2. \A k \in Key : mem'[c][k].ts <= clock
    <3> SUFFICES ASSUME NEW k \in Key PROVE mem'[c][k].ts <= clock
      OBVIOUS
    <3>1. mem'[c][k].ts = 0 \/ mem'[c][k].ts = rev.ts[k]
      <4>1. Nothing.ts = 0
        BY DEF Nothing
      <4>2. PICK e : e = mem'[c][k]
        OBVIOUS
      <4>3. e = Nothing \/ e = [val |-> file[k], ts |-> rev.ts[k]]
        BY <2>1, <4>2
      <4> QED
        BY <4>1, <4>2, <4>3
    <3> QED
      BY <3>1 DEF StampInv, TypeOK
  <2> QED
    BY <2>1, <2>2 DEF StampInv
<1>3. ASSUME NEW c \in Proc, NEW k \in Key, NEW v \in Value, Set(c, k, v) PROVE StampInv'
  <2>1. PICK e : e = [val |-> v, ts |-> clock + 1]
    OBVIOUS
  <2>2. /\ clock' = clock + 1 /\ mem'[c][k] = e /\ \A j \in Key \ {k} : mem'[c][j] = mem[c][j]
        /\ \A d \in Proc \ {c} : mem'[d] = mem[d]
        /\ UNCHANGED <<job, rev>>
    BY <1>3, <2>1, SetShape DEF diskVars
  <2>3. /\ clock \in Nat /\ \A j \in Key : rev.ts[j] \in Nat
        /\ \A d \in Proc, j \in Key : /\ mem[d][j] \in Entry /\ job[d].base[j] \in Entry
                                      /\ job[d].newer[j] \in Entry /\ job[d].orig[j] \in Nat
    <3>1. clock \in Nat /\ rev.ts \in [Key -> Nat] /\ mem \in [Proc -> [Key -> Entry]]
      BY DEF TypeOK
    <3>2. \A d \in Proc : job[d] \in Job
      BY DEF TypeOK
    <3>3. \A d \in Proc : /\ job[d].base \in [Key -> Entry] /\ job[d].newer \in [Key -> Entry]
                          /\ job[d].orig \in [Key -> Nat]
      BY <3>2 DEF Job
    <3> QED
      BY <3>1, <3>3
  <2>4. \A d \in Proc, j \in Key : /\ mem[d][j].ts \in Nat /\ job[d].base[j].ts \in Nat
                                   /\ job[d].newer[j].ts \in Nat
    BY <2>3, EntryFacts
  <2>5. \A d \in Proc, j \in Key : mem'[d][j].ts <= clock + 1
    <3> SUFFICES ASSUME NEW d \in Proc, NEW j \in Key PROVE mem'[d][j].ts <= clock + 1
      OBVIOUS
    <3>1. CASE d = c /\ j = k
      BY <2>1, <2>2, <2>3, <3>1
    <3>2. CASE ~(d = c /\ j = k)
      <4>1. mem'[d][j] = mem[d][j]
        BY <2>2, <3>2
      <4> QED
        BY <2>3, <2>4, <4>1 DEF StampInv
    <3> QED
      BY <3>1, <3>2
  <2>6. \A j \in Key : rev'.ts[j] <= clock'
    BY <2>2, <2>3 DEF StampInv
  <2>7. \A d \in Proc, j \in Key : /\ job'[d].base[j].ts <= clock' /\ job'[d].newer[j].ts <= clock'
                                   /\ job'[d].orig[j] <= clock'
    BY <2>2, <2>3, <2>4 DEF StampInv
  <2> QED
    BY <2>2, <2>5, <2>6, <2>7 DEF StampInv
<1>4. ASSUME NEW c \in Proc, FileChanged(c) \/ (\E k \in Key : Admit(c, k)) PROVE StampInv'
  <2>1. UNCHANGED <<mem, job, rev, clock>>
    BY <1>4, LoadPosted DEF diskVars
  <2> QED
    BY <2>1 DEF StampInv
<1> QED
  BY <1>1, <1>2, <1>3, <1>4, StampSerializer DEF Next

LEMMA StampInit == Init => StampInv
  BY DEF Init, StampInv, NoJob, NoEntries, Nothing

-----------------------------------------------------------------------------
(* Jobs, memory and revision *)

\* A job runs in a process that runs; its snapshot is not newer than the memory, what it
\* found on file is newer than the snapshot, and as long as it has not written the
\* revision itself, the revision lists nothing newer than what it has read.
JobInv(c) ==
    /\ job[c].phase # "idle" => c \in running /\ \A k \in Key : job[c].base[k].ts <= mem[c][k].ts
    /\ c \notin running => tasks[c] = <<>>
    /\ lock = c => \A k \in Key : job[c].newer[k] # Nothing => job[c].newer[k].ts > job[c].base[k].ts
    /\ job[c].phase = "revision" => \A k \in Key : rev.ts[k] <= job[c].orig[k]

JobsOK == TypeOK /\ StampInv /\ \A c \in Proc : JobInv(c)

\* A process whose memory, tasks and job are left alone while the revision is not
\* written, or is written under a lock that it does not hold.
LEMMA JobOther ==
    ASSUME TypeOK, NEW d \in Proc, JobInv(d), d \in running' <=> d \in running,
           tasks'[d] = tasks[d], job'[d] = job[d], mem'[d] = mem[d], lock' = d => lock = d,
           rev' = rev \/ lock # d
    PROVE  JobInv(d)'
<1>1. job[d].phase = "revision" => lock = d
  BY DEF TypeOK
<1>2. job'[d].phase = "revision" => \A k \in Key : rev'.ts[k] <= job'[d].orig[k]
  BY <1>1 DEF JobInv
<1> QED
  BY <1>2 DEF JobInv

LEMMA JobSerializer ==
    ASSUME JobsOK, NEW c \in Proc, SerializerStep(c), NEW d \in Proc
    PROVE  JobInv(d)'
<1>1. TypeOK /\ JobInv(c) /\ JobInv(d)
  BY DEF JobsOK
<1>2. /\ \A k \in Key : mem[c][k] \in Entry /\ job[c].base[k] \in Entry /\ job[c].newer[k] \in Entry
      /\ \A k \in Key : rev.ts[k] \in Nat /\ job[c].orig[k] \in Nat
      /\ NoProc \notin Proc
      /\ job[c].phase \in {"apply", "revision", "files"} <=> lock = c
      /\ job[d].phase \in {"apply", "revision", "files"} <=> lock = d
  BY <1>1, DataCacheAssumption DEF TypeOK, Job
<1>3. \A k \in Key : mem[c][k].ts \in Nat /\ job[c].base[k].ts \in Nat /\ job[c].newer[k].ts \in Nat
  BY <1>2, EntryFacts
<1>4. CASE BeginTask(c)
  <2>1. /\ \A e \in Proc \ {c} : tasks'[e] = tasks[e] /\ job'[e] = job[e]
        /\ tasks[c] # <<>> /\ job[c].phase = "idle" /\ job'[c].phase = "lock" /\ job'[c].base = mem[c]
        /\ UNCHANGED <<running, mem, lock, rev>>
    BY <1>1, <1>4, BeginTaskShape DEF procVars, diskVars
  <2>2. CASE d # c
    BY <1>1, <2>1, <2>2, JobOther
  <2>3. CASE d = c
    <3>1. lock' # c
      BY <1>2, <2>1
    <3>2. \A k \in Key : job'[c].base[k].ts <= mem'[c][k].ts
      BY <1>3, <2>1
    <3> QED
      BY <1>1, <2>1, <2>3, <3>1, <3>2 DEF JobInv
  <2> QED
    BY <2>2, <2>3
<1>5. CASE LockAndRead(c)
  <2>1. /\ \A e \in Proc \ {c} : job'[e] = job[e]
        /\ job[c].phase = "lock" /\ lock = NoProc /\ lock' = c
        /\ job'[c].base = job[c].base /\ job'[c].orig = rev.ts
        /\ \A k \in Key : Found(c, k, job'[c].newer[k])
        /\ \A k \in Key : rev'.ts[k] = rev.ts[k] \/ rev'.ts[k] = 0
        /\ UNCHANGED <<running, mem, tasks>>
    BY <1>1, <1>5, LockShape
  <2>2. CASE d # c
    BY <1>1, <1>2, <2>1, <2>2, JobOther
  <2>3. CASE d = c
    <3>1. ASSUME NEW k \in Key, job'[c].newer[k] # Nothing
          PROVE  job'[c].newer[k].ts > job'[c].base[k].ts
      <4>1. PICK e : e = job'[c].newer[k]
        OBVIOUS
      <4>2. e = [val |-> file[k], ts |-> rev.ts[k]] /\ rev.ts[k] > job[c].base[k].ts
        BY <2>1, <3>1, <4>1 DEF Found
      <4> QED
        BY <2>1, <4>1, <4>2
    <3>2. \A k \in Key : rev'.ts[k] <= job'[c].orig[k]
      BY <1>2, <2>1
    <3>3. c \in running' /\ \A k \in Key : job'[c].base[k].ts <= mem'[c][k].ts
      BY <1>1, <2>1 DEF JobInv
    <3> QED
      BY <2>3, <3>1, <3>2, <3>3 DEF JobInv
  <2> QED
    BY <2>2, <2>3
<1>6. CASE FinishLoad(c) \/ SaveFiles(c)
  <2>1. /\ \A e \in Proc \ {c} : job'[e] = job[e] /\ mem'[e] = mem[e]
        /\ lock = c /\ lock' = NoProc /\ job'[c] = NoJob
        /\ UNCHANGED <<running, tasks, rev>>
    BY <1>1, <1>6, FinishShape DEF procVars
  <2>2. CASE d # c
    BY <1>1, <1>2, <2>1, <2>2, JobOther
  <2>3. CASE d = c
    <3>1. job'[c].phase = "idle" /\ lock' # c
      BY <1>2, <2>1, LoadFacts
    <3> QED
      BY <1>1, <2>1, <2>3, <3>1 DEF JobInv
  <2> QED
    BY <2>2, <2>3
<1>7. CASE SaveRevision(c)
  <2>1. /\ \A e \in Proc \ {c} : job'[e] = job[e]
        /\ job[c].phase = "revision" /\ lock = c /\ job'[c].phase = "files" /\ job'[c].base = job[c].base
        /\ \A k \in Key : job'[c].newer[k] = IF job[c].task.vals[k] # Nothing THEN Nothing
                                             ELSE job[c].newer[k]
        /\ UNCHANGED <<running, mem, tasks, lock>>
    BY <1>1, <1>7, RevisionShape
  <2>2. CASE d # c
    BY <1>1, <2>1, <2>2, JobOther
  <2>3. CASE d = c
    <3>1. ASSUME NEW k \in Key, job'[c].newer[k] # Nothing
          PROVE  job'[c].newer[k].ts > job'[c].base[k].ts
      <4>1. job'[c].newer[k] = job[c].newer[k] /\ job[c].newer[k] # Nothing
        BY <2>1, <3>1
      <4> QED
        BY <1>1, <2>1, <4>1 DEF JobInv
    <3>2. c \in running' /\ \A k \in Key : job'[c].base[k].ts <= mem'[c][k].ts
      BY <1>1, <2>1 DEF JobInv
    <3> QED
      BY <2>1, <2>3, <3>1, <3>2 DEF JobInv
  <2> QED
    BY <2>2, <2>3
<1> QED
  BY <1>4, <1>5, <1>6, <1>7 DEF SerializerStep

LEMMA JobNext == JobsOK /\ [Next]_vars => JobsOK'
<1> SUFFICES ASSUME JobsOK, [Next]_vars PROVE JobsOK'
  OBVIOUS
<1>1. TypeOK /\ StampInv /\ TypeOK' /\ StampInv'
  BY TypeNext, StampNext DEF JobsOK
<1>2. SUFFICES ASSUME NEW d \in Proc PROVE JobInv(d)'
  BY <1>1 DEF JobsOK
<1>3. JobInv(d) /\ \A k \in Key : mem[d][k] \in Entry /\ job[d].base[k] \in Entry
  BY <1>1 DEF JobsOK, TypeOK, Job
<1>4. clock \in Nat /\ \A k \in Key : mem[d][k].ts \in Nat /\ job[d].base[k].ts \in Nat
  BY <1>1, <1>3, EntryFacts DEF TypeOK
<1>5. CASE UNCHANGED vars
  BY <1>3, <1>5 DEF JobInv, vars, procVars, diskVars
<1>6. ASSUME NEW c \in Proc, Start(c) \/ Stop(c) PROVE JobInv(d)'
  <2>1. /\ \A e \in Proc \ {c} : mem'[e] = mem[e] /\ tasks'[e] = tasks[e]
        /\ UNCHANGED <<job, lock, rev>>
        /\ \/ c \notin running /\ running' = running \cup {c}
           \/ c \in running /\ job[c].phase = "idle" /\ running' = running \ {c} /\ tasks'[c] = <<>>
    BY <1>1, <1>6, LifeShape DEF diskVars
  <2>2. CASE d # c
    BY <1>1, <1>3, <2>1, <2>2, JobOther
  <2>3. CASE d = c
    <3>1. job'[d].phase = "idle"
      BY <1>3, <2>1, <2>3 DEF JobInv
    <3>2. lock' # d
      BY <1>1, <2>1, <3>1 DEF TypeOK
    <3> QED
      BY <2>1, <2>3, <3>1, <3>2 DEF JobInv
  <2> QED
    BY <2>2, <2>3
<1>7. ASSUME NEW c \in Proc, NEW k \in Key, NEW v \in Value, Set(c, k, v) PROVE JobInv(d)'
  <2>1. PICK e : e = [val |-> v, ts |-> clock + 1]
    OBVIOUS
  <2>2. /\ c \in running /\ mem'[c][k] = e /\ \A j \in Key \ {k} : mem'[c][j] = mem[c][j]
        /\ \A x \in Proc \ {c} : mem'[x] = mem[x] /\ tasks'[x] = tasks[x]
        /\ UNCHANGED <<running, job, lock, rev>>
    BY <1>1, <1>7, <2>1, SetShape DEF diskVars
  <2>3. CASE d # c
    BY <1>1, <1>3, <2>2, <2>3, JobOther
  <2>4. CASE d = c
    <3>1. ASSUME job[d].phase # "idle", NEW j \in Key PROVE job'[d].base[j].ts <= mem'[d][j].ts
      <4>1. CASE j = k
        BY <1>1, <1>4, <2>1, <2>2, <2>4, <4>1 DEF StampInv
      <4>2. CASE j # k
        BY <1>3, <2>2, <2>4, <3>1, <4>2 DEF JobInv
      <4> QED
        BY <4>1, <4>2
    <3> QED
      BY <1>3, <2>2, <2>4, <3>1 DEF JobInv
  <2> QED
    BY <2>3, <2>4
<1>8. ASSUME NEW c \in Proc, FileChanged(c) \/ (\E k \in Key : Admit(c, k)) PROVE JobInv(d)'
  <2>1. /\ c \in running /\ \A x \in Proc \ {c} : tasks'[x] = tasks[x]
        /\ UNCHANGED <<running, mem, job, lock, rev>>
    BY <1>1, <1>8, LoadPosted DEF diskVars
  <2> QED
    BY <1>3, <2>1 DEF JobInv
<1>9. ASSUME NEW c \in Proc, SerializerStep(c) PROVE JobInv(d)'
  BY <1>9, JobSerializer
<1> QED
  BY <1>5, <1>6, <1>7, <1>8, <1>9 DEF Next

LEMMA JobInit == Init => JobsOK
<1> SUFFICES ASSUME Init PROVE JobsOK
  OBVIOUS
<1>1. ASSUME NEW c \in Proc PROVE JobInv(c)
  BY DataCacheAssumption, LoadFacts DEF Init, JobInv
<1> QED
  BY <1>1, TypeInit, StampInit DEF JobsOK

LEMMA BackStep ==
    ASSUME JobsOK, [Next]_vars, NEW c \in running \cap running', NEW k \in Key,
           mem'[c][k].ts < mem[c][k].ts
    PROVE  job[c].phase \in {"apply", "files"} /\ job[c].base[k].ts < mem[c][k].ts
<1>1. TypeOK /\ StampInv /\ c \in Proc /\ clock \in Nat /\ mem[c][k] \in Entry
  BY DEF JobsOK, TypeOK
<1>2. mem[c][k].ts \in Nat /\ mem[c][k].ts <= clock /\ mem'[c][k] # mem[c][k]
  BY <1>1, EntryFacts DEF StampInv
<1>3. CASE UNCHANGED vars
  BY <1>2, <1>3 DEF vars
<1>4. ASSUME NEW d \in Proc, Start(d) \/ Stop(d) PROVE FALSE
  <2>1. c = d
    BY <1>1, <1>2, <1>4, LifeShape
  <2> QED
    BY <1>1, <1>4, <2>1, LifeShape
<1>5. ASSUME NEW d \in Proc, NEW j \in Key, NEW v \in Value, Set(d, j, v) PROVE FALSE
  <2>1. PICK e : e = [val |-> v, ts |-> clock + 1]
    OBVIOUS
  <2>2. /\ mem'[d][j] = e /\ \A i \in Key \ {j} : mem'[d][i] = mem[d][i]
        /\ \A q \in Proc \ {d} : mem'[q] = mem[q]
    BY <1>1, <1>5, <2>1, SetShape
  <2>3. mem'[c][k] = e
    BY <1>1, <1>2, <2>2
  <2> QED
    BY <1>1, <1>2, <2>1, <2>3
<1>6. ASSUME NEW d \in Proc, FileChanged(d) \/ (\E j \in Key : Admit(d, j)) PROVE FALSE
  BY <1>1, <1>2, <1>6, LoadPosted
<1>7. ASSUME NEW d \in Proc, SerializerStep(d)
      PROVE  job[c].phase \in {"apply", "files"} /\ job[c].base[k].ts < mem[c][k].ts
  <2>1. FinishLoad(d) \/ SaveFiles(d)
    BY <1>1, <1>2, <1>7, BeginTaskShape, LockShape, RevisionShape DEF SerializerStep
  <2>2. c = d /\ lock = d /\ job[d].newer[k] # Nothing /\ mem'[c][k] = job[d].newer[k]
    BY <1>1, <1>2, <2>1, FinishShape
  <2>3. job[c].newer[k].ts > job[c].base[k].ts
    BY <1>1, <2>2 DEF JobsOK, JobInv
  <2>4. job[c].newer[k] \in Entry /\ job[c].base[k] \in Entry
    BY <1>1 DEF TypeOK, Job
  <2>5. job[c].newer[k].ts \in Nat /\ job[c].base[k].ts \in Nat
    BY <2>4, EntryFacts
  <2>6. job[c].phase \in {"apply", "files"}
    BY <2>1, <2>2 DEF FinishLoad, SaveFiles
  <2> QED
    BY <1>2, <2>2, <2>3, <2>5, <2>6
<1> QED
  BY <1>2, <1>3, <1>4, <1>5, <1>6, <1>7 DEF Next

\* CDataCacheSerializer::applyDeferredChanges puts what was found on file into the memory
\* without a look at what the memory holds by then. Whatever processes, serializers and
\* watchers do, an older value takes the place of a newer one only at the end of a task,
\* and only if the main thread has set the value since the task took its snapshot.
THEOREM ForwardButForRaces == Spec => BackOnlyInRaces
<1>1. JobsOK /\ [Next]_vars
      => [\A c \in running \cap running', k \in Key :
             mem'[c][k].ts < mem[c][k].ts
                 => job[c].phase \in {"apply", "files"} /\ job[c].base[k].ts < mem[c][k].ts]_vars
  BY BackStep
<1> QED
  BY <1>1, JobInit, JobNext, PTL DEF Spec, BackOnlyInRaces

LEMMA RevisionStep ==
    ASSUME JobsOK, [Next]_vars, NEW k \in Key, rev'.ts[k] < rev.ts[k]
    PROVE  \E c \in running :
              /\ lock' = c /\ job[c].base[k].ts < rev.ts[k]
              /\ rev'.ts[k] = 0 => lock = NoProc /\ file[k] \in {NoValue, job[c].base[k].val}
<1>1. TypeOK /\ rev.ts[k] \in Nat
  BY DEF JobsOK, TypeOK
<1>2. rev' # rev
  BY <1>1
<1>3. PICK c \in Proc : LockAndRead(c) \/ SaveRevision(c)
  <2>1. ~ UNCHANGED vars
    BY <1>2 DEF vars, diskVars
  <2>2. \A c \in Proc : ~ Start(c) /\ ~ Stop(c) /\ ~ FileChanged(c) /\ \A j \in Key : ~ Admit(c, j)
    BY <1>2 DEF Start, Stop, FileChanged, Admit, diskVars
  <2>3. \A c \in Proc, j \in Key, v \in Value : ~ Set(c, j, v)
    BY <1>2 DEF Set, diskVars
  <2>4. \A c \in Proc : ~ BeginTask(c) /\ ~ FinishLoad(c) /\ ~ SaveFiles(c)
    BY <1>2 DEF BeginTask, FinishLoad, SaveFiles, diskVars
  <2> QED
    BY <2>1, <2>2, <2>3, <2>4 DEF Next, SerializerStep
<1>4. job[c].base[k] \in Entry /\ job[c].orig[k] \in Nat /\ JobInv(c)
  BY <1>1 DEF JobsOK, TypeOK, Job
<1>5. job[c].base[k].ts \in Nat
  BY <1>4, EntryFacts
<1>6. CASE LockAndRead(c)
  <2>1. /\ job[c].phase = "lock" /\ lock = NoProc /\ lock' = c
        /\ \A j \in Key : rev'.ts[j] = rev.ts[j] \/ (rev'.ts[j] = 0 /\ Lost(c, j))
    BY <1>1, <1>2, <1>6, LockShape
  <2>2. rev'.ts[k] = 0 /\ Lost(c, k)
    BY <1>1, <2>1
  <2>3. c \in running
    BY <1>4, <2>1 DEF JobInv
  <2> QED
    BY <1>1, <1>5, <2>1, <2>2, <2>3 DEF Lost
<1>7. CASE SaveRevision(c)
  <2>1. /\ job[c].phase = "revision" /\ lock' = c
        /\ rev'.ts[k] = IF job[c].base[k].ts > 0 THEN job[c].base[k].ts ELSE job[c].orig[k]
    BY <1>1, <1>7, RevisionShape
  <2>2. c \in running /\ rev.ts[k] <= job[c].orig[k]
    BY <1>4, <2>1 DEF JobInv
  <2>3. job[c].base[k].ts > 0 /\ rev'.ts[k] = job[c].base[k].ts
    BY <1>1, <1>4, <1>5, <2>1, <2>2
  <2> QED
    BY <1>1, <1>5, <2>1, <2>2, <2>3
<1> QED
  BY <1>3, <1>6, <1>7

\* CDataCacheRevision::writeNewRevision replaces the whole file. Whatever the processes
\* do, the timestamp of a key goes back only where a serializer with the lock file has an
\* older value of that key in its snapshot, and a key leaves the revision only where such
\* a serializer has just read it and found no file for it, or the value it has already:
\* no save drops a key.
THEOREM RevisionForwardButForOlder == Spec => RevisionBackOnlyByOlder
<1>1. JobsOK /\ [Next]_vars
      => [\A k \in Key :
             rev'.ts[k] < rev.ts[k]
                 => \E c \in running :
                       /\ lock' = c /\ job[c].base[k].ts < rev.ts[k]
                       /\ rev'.ts[k] = 0 => lock = NoProc /\ file[k] \in {NoValue, job[c].base[k].val}]_vars
  BY RevisionStep
<1> QED
  BY <1>1, JobInit, JobNext, PTL DEF Spec, RevisionBackOnlyByOlder
=============================================================================
