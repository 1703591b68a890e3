----------------------------- MODULE DataCache ------------------------------
(***************************************************************************)
(* The data cache of BlackMisc (CDataCache, CDataCacheSerializer,          *)
(* CDataCacheRevision): values that the processes of one computer share    *)
(* through files.                                                          *)
(*                                                                         *)
(* Each process keeps the values in memory. A worker thread, the           *)
(* serializer, executes load and save tasks in the order in which they     *)
(* were posted, holding a lock file that keeps the serializers of other    *)
(* processes out. The revision file names the newest revision and the      *)
(* timestamp of each value; a watcher tells every process when it was      *)
(* replaced. The main thread goes on while its serializer is at work: a    *)
(* task is split where the two threads can interfere.                      *)
(*                                                                         *)
(* The revision file exists and is readable. The times to live, the        *)
(* values of a session and synchronize() are not part of this module.      *)
(***************************************************************************)
EXTENDS Integers, Sequences, FiniteSets

CONSTANTS
    Proc,      \* processes
    Key,       \* keys of the values
    Value,     \* values
    NoValue,   \* the invalid CVariant
    NoProc,    \* nobody
    Pinned,    \* keys whose trait says isPinned()
    Deferred,  \* keys whose trait says isDeferred()
    Knows,     \* Knows[c]: keys for which process c has a CData member
    Writes,    \* Writes[c]: keys that process c sets
    MaxSets,   \* bound on the number of changes
    MaxStops,  \* bound on the number of times a process ends
    MaxLoads,  \* bound on the number of times a deferred value is admitted
    Overtake,  \* does a process set values while its serializer has work to do?
    Repeat     \* can a value be set that was set before, with a new timestamp?

ASSUME DataCacheAssumption ==
    /\ NoValue \notin Value
    /\ NoProc \notin Proc
    /\ Pinned \subseteq Key /\ Deferred \subseteq Key /\ Pinned \cap Deferred = {}
    /\ Knows \in [Proc -> SUBSET Key]
    /\ Writes \in [Proc -> SUBSET Key]
    /\ \A c \in Proc : Writes[c] \subseteq Knows[c]
    /\ MaxSets \in Nat /\ MaxStops \in Nat /\ MaxLoads \in Nat
    /\ Overtake \in BOOLEAN /\ Repeat \in BOOLEAN

VARIABLES
    running,    \* processes that run
    mem,        \* CValueCache::Element: value and timestamp, 0 if there is none
    tasks,      \* tasks posted to the serializer of a process
    job,        \* the task that the serializer is executing, with its phase
    admitQueue, \* CDataCacheRevision::m_admittedQueue
    admitted,   \* CDataCacheRevision::m_admittedValues
    uuid,       \* CDataCacheRevision::m_uuid, the revision a process has seen
    notify,     \* processes whose file watcher has something to report
    lock,       \* the process that holds the lock file
    rev,        \* the revision file
    file,       \* the values on file
    clock,      \* the last timestamp used
    revisions,  \* revisions written so far
    used,       \* values set so far
    sets, stops, loads

procVars == <<running, admitQueue, admitted, uuid>>
diskVars == <<rev, file, revisions>>
bounds   == <<used, sets, stops, loads>>
vars == <<procVars, mem, tasks, job, notify, lock, diskVars, clock, bounds>>

Nothing == [val |-> NoValue, ts |-> 0]

Entry == {Nothing} \cup [val : Value, ts : Nat \ {0}]

NoEntries == [k \in Key |-> Nothing]

Load == [op |-> "load", vals |-> NoEntries]

Save(k, e) == [op |-> "save", vals |-> [NoEntries EXCEPT ![k] = e]]

Task == [op : {"load", "save"}, vals : [Key -> Entry]]

\* A job is a task with the snapshot of the memory that was taken when it began,
\* the values that were newer on file, and the timestamps of the revision.
Job == [phase : {"idle", "lock", "apply", "revision", "files"}, task : Task,
        base : [Key -> Entry], newer : [Key -> Entry], orig : [Key -> Nat]]

NoJob == [phase |-> "idle", task |-> Load, base |-> NoEntries, newer |-> NoEntries,
          orig |-> [k \in Key |-> 0]]

KeysOf(packet) == {k \in Key : packet[k] # Nothing}

Overlay(packet, entries) ==
    [k \in Key |-> IF packet[k] # Nothing THEN packet[k] ELSE entries[k]]

-----------------------------------------------------------------------------
(* CDataCacheRevision *)

\* Mutant: the revision keeps its identifier.
WriteSameUuid(c, ts) ==
    /\ revisions' = revisions + 1
    /\ rev' = [uuid |-> rev.uuid, ts |-> ts,
               pins |-> Pinned \cap Knows[c], deferrals |-> Deferred \cap Knows[c]]
    /\ notify' = notify \cup running

\* writeNewRevision: the flags are those of the keys that the process knows.
\* Every process that watches the file is going to be notified.
WriteNewRevision(c, ts) ==
    /\ revisions' = revisions + 1
    /\ rev' = [uuid |-> revisions + 1, ts |-> ts,
               pins |-> Pinned \cap Knows[c], deferrals |-> Deferred \cap Knows[c]]
    /\ notify' = notify \cup running

\* beginUpdate: has the revision changed since the process has looked?
UpToDate(c) == rev.uuid = uuid[c] /\ admitQueue[c] = {}

\* beginUpdate: is the value on file newer than the one in the snapshot?
Newer(base, k) == base[k].ts < rev.ts[k]

\* beginUpdate: the keys to be loaded, unless they are deferred.
ToLoad(c, base) ==
    {k \in Key : Newer(base, k) /\ (k \in rev.deferrals => k \in admitted[c] \cup admitQueue[c])}

\* loadFromStore with what beginUpdate finds in the revision file. A value on
\* file that equals the one in memory is dropped by loadFromFiles, and what is
\* then missing is taken out of the revision. The result is in the job.
BeginUpdate(c, phase) ==
    LET base  == job[c].base
        some  == ~UpToDate(c) /\ \E k \in Key : Newer(base, k)
        keys  == IF some THEN ToLoad(c, base) ELSE {}
        found == [k \in Key |-> IF k \in keys /\ file[k] \notin {NoValue, base[k].val}
                                THEN [val |-> file[k], ts |-> rev.ts[k]] ELSE Nothing]
        missing == keys \ KeysOf(found)
    IN  /\ job' = [job EXCEPT ![c].phase = phase, ![c].newer = found, ![c].orig = rev.ts]
        /\ IF missing # {}
           THEN /\ WriteNewRevision(c, [k \in Key |-> IF k \in missing THEN 0 ELSE rev.ts[k]])
                /\ uuid' = [uuid EXCEPT ![c] = revisions + 1]
           ELSE /\ uuid' = [uuid EXCEPT ![c] = rev.uuid]
                /\ UNCHANGED <<rev, revisions, notify>>
        /\ admitted' = IF some THEN [admitted EXCEPT ![c] = @ \cup admitQueue[c]] ELSE admitted
        /\ admitQueue' = IF some THEN [admitQueue EXCEPT ![c] = {}] ELSE admitQueue

-----------------------------------------------------------------------------
(* CDataCacheSerializer, in its own thread *)

\* applyDeferredChanges: the cache ratifies the values that were loaded, since no
\* change of its own is ever pending.
ApplyDeferredChanges(c) == Overlay(job[c].newer, mem[c])

\* The serializer takes a task; the task makes the snapshot of the memory, which
\* is an argument of loadFromStore and saveToStore.
BeginTask(c) ==
    /\ job[c].phase = "idle" /\ tasks[c] # <<>>
    /\ tasks' = [tasks EXCEPT ![c] = Tail(@)]
    /\ job' = [job EXCEPT ![c].phase = "lock", ![c].task = Head(tasks[c]), ![c].base = mem[c]]
    /\ UNCHANGED <<procVars, mem, notify, lock, diskVars, clock, bounds>>

\* The lock file is locked, which may take a while, and the revision is read.
LockAndRead(c) ==
    /\ job[c].phase = "lock" /\ lock = NoProc
    /\ lock' = c
    /\ BeginUpdate(c, IF job[c].task.op = "load" THEN "apply" ELSE "revision")
    /\ UNCHANGED <<running, mem, tasks, file, clock, bounds>>

\* loadFromStore, after the files have been read: finishUpdate releases the lock.
FinishLoad(c) ==
    /\ job[c].phase = "apply"
    /\ mem' = [mem EXCEPT ![c] = ApplyDeferredChanges(c)]
    /\ job' = [job EXCEPT ![c] = NoJob]
    /\ lock' = NoProc
    /\ UNCHANGED <<procVars, tasks, notify, diskVars, clock, bounds>>

\* Mutant: the old revision has precedence over the snapshot.
RevisionOfOld(c) ==
    [k \in Key |-> IF job[c].orig[k] > 0 THEN job[c].orig[k] ELSE job[c].base[k].ts]

\* The timestamps of a new revision: those of the old one, overwritten by those
\* of the snapshot.
RevisionOfSnapshot(c) ==
    [k \in Key |-> IF job[c].base[k].ts > 0 THEN job[c].base[k].ts ELSE job[c].orig[k]]

\* saveToStore: the changes that are about to be overwritten are ignored; the new
\* revision is written.
SaveRevision(c) ==
    /\ job[c].phase = "revision"
    /\ WriteNewRevision(c, RevisionOfSnapshot(c))
    /\ uuid' = [uuid EXCEPT ![c] = revisions + 1]
    /\ job' = [job EXCEPT ![c].phase = "files",
                          ![c].newer = [k \in Key |->
                              IF k \in KeysOf(job[c].task.vals) THEN Nothing ELSE @[k]]]
    /\ UNCHANGED <<running, admitQueue, admitted, mem, tasks, lock, file, clock, bounds>>

\* saveToStore: the files are written, and what was newer there is applied.
SaveFiles(c) ==
    /\ job[c].phase = "files"
    /\ file' = [k \in Key |-> IF k \in KeysOf(job[c].task.vals)
                              THEN job[c].task.vals[k].val ELSE file[k]]
    /\ mem' = [mem EXCEPT ![c] = ApplyDeferredChanges(c)]
    /\ job' = [job EXCEPT ![c] = NoJob]
    /\ lock' = NoProc
    /\ UNCHANGED <<procVars, tasks, notify, rev, revisions, clock, bounds>>

-----------------------------------------------------------------------------
(* CDataCache, in the main thread *)

\* The constructor loads the pinned values at once, and a load of all values is
\* posted to the serializer. Processes do not start while the lock is held.
Start(c) ==
    /\ c \notin running
    /\ lock = NoProc
    /\ running' = running \cup {c}
    /\ mem' = [mem EXCEPT ![c] = [k \in Key |->
                  IF k \in rev.pins /\ rev.ts[k] > 0 /\ file[k] # NoValue
                  THEN [val |-> file[k], ts |-> rev.ts[k]] ELSE Nothing]]
    /\ tasks' = [tasks EXCEPT ![c] = <<Load>>]
    /\ UNCHANGED <<admitQueue, admitted, uuid, job, notify, lock, diskVars, clock, bounds>>

\* A process ends between two tasks; tasks that are still queued are lost.
Stop(c) ==
    /\ c \in running
    /\ stops < MaxStops /\ stops' = stops + 1
    /\ job[c].phase = "idle"
    /\ running' = running \ {c}
    /\ mem' = [mem EXCEPT ![c] = NoEntries]
    /\ tasks' = [tasks EXCEPT ![c] = <<>>]
    /\ admitQueue' = [admitQueue EXCEPT ![c] = {}]
    /\ admitted' = [admitted EXCEPT ![c] = {}]
    /\ uuid' = [uuid EXCEPT ![c] = 0]
    /\ notify' = notify \ {c}
    /\ UNCHANGED <<job, lock, diskVars, clock, used, sets, loads>>

\* Values that have not been used are interchangeable.
FreshValue == IF used = Value THEN NoValue ELSE CHOOSE v \in Value : v \notin used

\* CData::set: the value is admitted, changed in memory, and a save of what was
\* set is posted.
Set(c, k, v) ==
    /\ c \in running /\ k \in Writes[c]
    /\ sets < MaxSets /\ sets' = sets + 1
    /\ Overtake \/ (tasks[c] = <<>> /\ job[c].phase = "idle" /\ c \notin notify)
    /\ Repeat \/ v = FreshValue
    /\ used' = used \cup {v}
    /\ clock' = clock + 1
    /\ LET e == [val |-> v, ts |-> clock + 1] IN
       /\ mem' = [mem EXCEPT ![c][k] = e]
       /\ tasks' = [tasks EXCEPT ![c] = Append(@, Save(k, e))]
    /\ admitQueue' = [admitQueue EXCEPT ![c] = @ \cup {k}]
    /\ UNCHANGED <<running, admitted, uuid, job, notify, lock, diskVars, stops, loads>>

\* CData::admit: a deferred value is admitted, and a load is posted.
Admit(c, k) ==
    /\ c \in running /\ k \in Deferred \cap Knows[c]
    /\ loads < MaxLoads /\ loads' = loads + 1
    /\ admitQueue' = [admitQueue EXCEPT ![c] = @ \cup {k}]
    /\ tasks' = [tasks EXCEPT ![c] = Append(@, Load)]
    /\ UNCHANGED <<running, admitted, uuid, mem, job, notify, lock, diskVars, clock, used, sets, stops>>

\* QFileSystemWatcher::fileChanged posts a load.
FileChanged(c) ==
    /\ c \in notify
    /\ notify' = notify \ {c}
    /\ tasks' = [tasks EXCEPT ![c] = Append(@, Load)]
    /\ UNCHANGED <<procVars, mem, job, lock, diskVars, clock, bounds>>

-----------------------------------------------------------------------------
\* Nothing has been saved yet and no process runs.
Init ==
    /\ running = {} /\ notify = {} /\ lock = NoProc
    /\ mem = [c \in Proc |-> NoEntries]
    /\ tasks = [c \in Proc |-> <<>>]
    /\ job = [c \in Proc |-> NoJob]
    /\ admitQueue = [c \in Proc |-> {}] /\ admitted = [c \in Proc |-> {}]
    /\ uuid = [c \in Proc |-> 0]
    /\ rev = [uuid |-> 1, ts |-> [k \in Key |-> 0], pins |-> {}, deferrals |-> {}]
    /\ file = [k \in Key |-> NoValue]
    /\ clock = 0 /\ used = {} /\ revisions = 1 /\ sets = 0 /\ stops = 0 /\ loads = 0

SerializerStep(c) ==
    BeginTask(c) \/ LockAndRead(c) \/ FinishLoad(c) \/ SaveRevision(c) \/ SaveFiles(c)

Next ==
    \E c \in Proc :
        \/ Start(c) \/ Stop(c)
        \/ \E k \in Key, v \in Value : Set(c, k, v)
        \/ \E k \in Key : Admit(c, k)
        \/ FileChanged(c)
        \/ SerializerStep(c)

\* Serializers execute their tasks, also when they have to compete for the lock
\* file, and watchers report changes. Nobody has to make requests.
Fairness ==
    \A c \in Proc :
        /\ SF_vars(LockAndRead(c))
        /\ WF_vars(BeginTask(c) \/ FinishLoad(c) \/ SaveRevision(c) \/ SaveFiles(c))
        /\ WF_vars(FileChanged(c))

Spec == Init /\ [][Next]_vars /\ Fairness

-----------------------------------------------------------------------------
(* Properties *)

\* Every variable has its type.
TypeOK ==
    /\ running \in SUBSET Proc /\ notify \in SUBSET running
    /\ mem \in [Proc -> [Key -> Entry]]
    /\ tasks \in [Proc -> Seq(Task)]
    /\ job \in [Proc -> Job]
    /\ \A c \in Proc : job[c].phase \in {"apply", "revision", "files"} <=> lock = c
    /\ admitQueue \in [Proc -> SUBSET Key] /\ admitted \in [Proc -> SUBSET Key]
    /\ uuid \in [Proc -> Nat] /\ lock \in Proc \cup {NoProc}
    /\ rev \in [uuid : Nat, ts : [Key -> Nat], pins : SUBSET Key, deferrals : SUBSET Key]
    /\ file \in [Key -> Value \cup {NoValue}]
    /\ clock \in Nat /\ revisions \in Nat /\ used \in SUBSET Value
    /\ sets \in 0 .. MaxSets /\ stops \in 0 .. MaxStops /\ loads \in 0 .. MaxLoads

\* Timestamps are what loadFromStore compares instead of values: a process that
\* has the timestamp of the revision has the value of the file.
StampsTellValues ==
    \A c \in running, k \in Key :
        lock = NoProc /\ mem[c][k].ts > 0 /\ mem[c][k].ts = rev.ts[k]
            => mem[c][k].val = file[k]

\* applyDeferredChanges does not look at what the memory holds by then.  Still a value in
\* memory is replaced by an older one only when a task of the serializer ends, and only
\* if the main thread has set it since that task took its snapshot: what is loaded is
\* newer than the snapshot, which nothing but the main thread leaves behind.
BackOnlyInRaces ==
    [][\A c \in running \cap running', k \in Key :
          mem'[c][k].ts < mem[c][k].ts
              => job[c].phase \in {"apply", "files"} /\ job[c].base[k].ts < mem[c][k].ts]_vars

\* Every process rewrites the whole revision file, with keys it does not set.  The
\* timestamp of a key goes back only at the hands of a serializer that holds the lock
\* file and whose snapshot of that value is older, and the key leaves the revision only
\* where that serializer has read the revision and found no other value on file.
RevisionBackOnlyByOlder ==
    [][\A k \in Key :
          rev'.ts[k] < rev.ts[k]
              => \E c \in running :
                    /\ lock' = c /\ job[c].base[k].ts < rev.ts[k]
                    /\ rev'.ts[k] = 0 => lock = NoProc /\ file[k] \in {NoValue, job[c].base[k].val}]_vars

\* "File-based distribution between processes": when no more values are set, the
\* processes that run have what is on file, for every value that is not deferred.
Distributed ==
    \A c \in running, k \in Key \ Deferred :
        file[k] # NoValue => mem[c][k].val = file[k]

\* Under the fairness of serializers and file watchers this comes to hold.
EventuallyDistributed == <>[]Distributed
=============================================================================
