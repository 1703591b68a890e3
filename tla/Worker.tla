------------------------------- MODULE Worker -------------------------------
(***************************************************************************)
(* The life of a worker object (CWorkerBase, CWorker, CContinuousWorker)   *)
(* between the thread of its owner and its own thread.                     *)
(*                                                                         *)
(* The worker is moved into a new thread when it starts and back into the  *)
(* owner's thread when it has finished, where the event loop deletes it.   *)
(* QObject::thread(), the variable lives, is read several times in one     *)
(* call of quit() or quitAndWait(), and the worker may be moved in         *)
(* between. A step is what happens between two such reads or while the     *)
(* mutex of the finished flag is held.                                     *)
(***************************************************************************)
EXTENDS Naturals, Sequences

CONSTANTS
    Functor,    \* functors that are passed to then()
    Contextual, \* those with a context object, which lives in the owner's thread
    NoFunctor,  \* the null functor
    MaxCalls,   \* bound on the calls of the owner
    MaxQuits,   \* bound on the calls that make a continuous worker quit
    SelfQuits   \* may slots of the worker make it quit?

ASSUME WorkerAssumption ==
    /\ Contextual \subseteq Functor
    /\ NoFunctor \notin Functor
    /\ MaxCalls \in Nat
    /\ MaxQuits \in Nat
    /\ SelfQuits \in BOOLEAN

VARIABLES
    kind,        \* class of the worker: "task" (CWorker) or "continuous" (CContinuousWorker)
    lives,       \* QObject::thread() of the worker
    started,     \* CWorkerBase::m_started
    finished,    \* CWorkerBase::m_finished
    mutex,       \* the thread that holds CWorkerBase::m_finishedMutex
    enabled,     \* CContinuousWorker::m_enabled
    timer,       \* is CContinuousWorker::m_updateTimer active?
    posted,      \* what was shifted to the worker's thread: see Shifted
    conn,        \* functors connected to the signal finished
    queued,      \* calls of contextual functors in the owner's event queue
    calls,       \* how often a functor has been called
    deletion,    \* of the worker: "no", "posted" or "done"
    thr,         \* where the worker's thread is
    cleaned,     \* has cleanup() run, or the task been completed?
    quitReq,     \* threads whose event loop was told to quit
    interrupted, \* threads that were told that they are abandoned
    reaper,      \* the lambda that deletes the thread: "no", "posted", "waits", "done"
    pc,          \* where the owner is in a call
    fun,         \* functor of the owner's call of then()
    target,      \* the owner's local variable workerThread in quitAndWait()
    returned,    \* what the owner's last call has returned from
    ncalls,      \* calls of the owner so far
    nquits       \* quits so far

flagVars == <<started, finished, mutex, conn, queued, calls>>
loopVars == <<enabled, timer, posted>>
deadVars == <<lives, deletion, thr, cleaned, reaper>>
callVars == <<pc, fun, target, returned, ncalls>>
vars == <<kind, flagVars, loopVars, deadVars, quitReq, interrupted, callVars, nquits>>

Thread == {"owner", "worker"}

Direct == Functor \ Contextual

\* startUpdating() with a time, startUpdating() with a negative time, and
\* stopUpdateTimer().
Shifted == {"on", "off", "stop"}

-----------------------------------------------------------------------------
(* The finished flag *)

\* QMutexLocker lock(&m_finishedMutex)
Acquire(t) == mutex = "none" /\ mutex' = t

\* The signal finished: functors without a context are called by the emitting
\* thread, the others find a call in the event queue of the owner's thread.
EmitFinished ==
    /\ calls' = [f \in Functor |-> IF f \in conn \cap Direct THEN calls[f] + 1 ELSE calls[f]]
    /\ queued' = [f \in Functor |-> IF f \in conn \cap Contextual THEN queued[f] + 1 ELSE queued[f]]

-----------------------------------------------------------------------------
(* The thread of the worker *)

\* CRegularThread runs: a continuous worker calls initialize() and enters the
\* event loop, a task is executed.
ThreadStarts ==
    /\ thr = "starting"
    /\ thr' = IF kind = "task" THEN "working" ELSE "looping"
    /\ UNCHANGED <<flagVars, loopVars, lives, deletion, cleaned, reaper, quitReq, interrupted, callVars, nquits>>

\* CWorker::ps_runTask: m_result = m_task()
TaskDone ==
    /\ thr = "working"
    /\ thr' = "finishing"
    /\ cleaned' = TRUE
    /\ UNCHANGED <<flagVars, loopVars, lives, deletion, reaper, quitReq, interrupted, callVars, nquits>>

\* Mutant: finish() is connected to QThread::finished before cleanup().
LeaveLoopUnclean ==
    /\ thr = "looping" /\ "worker" \in quitReq
    /\ thr' = "finishing"
    /\ timer' = FALSE
    /\ UNCHANGED <<flagVars, enabled, posted, lives, deletion, cleaned, reaper, quitReq, interrupted, callVars, nquits>>

\* The event loop ends; QThread::finished stops the timer and calls cleanup().
LeaveLoop ==
    /\ thr = "looping" /\ "worker" \in quitReq
    /\ thr' = "finishing"
    /\ timer' = FALSE
    /\ cleaned' = TRUE
    /\ UNCHANGED <<flagVars, enabled, posted, lives, deletion, reaper, quitReq, interrupted, callVars, nquits>>

\* CWorkerBase::setFinished, first half: m_finished is set under the mutex.
SetFinished ==
    /\ thr = "finishing"
    /\ Acquire("worker")
    /\ finished' = TRUE
    /\ thr' = "emitting"
    /\ UNCHANGED <<started, conn, queued, calls, loopVars, lives, deletion, cleaned, reaper, quitReq, interrupted, callVars, nquits>>

\* CWorkerBase::setFinished, second half: the signal, then the mutex is released.
EmitAndUnlock ==
    /\ thr = "emitting"
    /\ EmitFinished
    /\ mutex' = "none"
    /\ thr' = "leaving"
    /\ UNCHANGED <<started, finished, conn, loopVars, lives, deletion, cleaned, reaper, quitReq, interrupted, callVars, nquits>>

\* Mutant: the worker is moved before it has posted its deletion and finished.
DeleteLaterMovesFirst ==
    /\ thr = "finishing" /\ deletion = "no"
    /\ deletion' = "posted" /\ lives' = "owner"
    /\ UNCHANGED <<flagVars, loopVars, thr, cleaned, reaper, quitReq, interrupted, callVars, nquits>>

\* CContinuousWorker::finish and CWorker::ps_runTask: deleteLater()
DeleteLater ==
    /\ thr = "leaving" /\ deletion = "no"
    /\ deletion' = "posted"
    /\ UNCHANGED <<flagVars, loopVars, lives, thr, cleaned, reaper, quitReq, interrupted, callVars, nquits>>

\* Mutant: nobody is left to quit and delete the thread.
MoveOnly ==
    /\ thr = "leaving" /\ deletion # "no"
    /\ lives' = "owner"
    /\ thr' = "moved"
    /\ UNCHANGED <<flagVars, loopVars, deletion, cleaned, reaper, quitReq, interrupted, callVars, nquits>>

\* moveToThread() to the thread of the owner; posted events follow the worker.
\* Then the lambda that deletes the thread is posted to the owner's thread.
MoveToOwner ==
    /\ thr = "leaving" /\ deletion # "no"
    /\ lives' = "owner"
    /\ thr' = "moved"
    /\ reaper' = "posted"
    /\ UNCHANGED <<flagVars, loopVars, deletion, cleaned, quitReq, interrupted, callVars, nquits>>

\* The thread of a continuous worker is at its end anyway; the event loop of a
\* task's thread waits for quit().
ThreadEnds ==
    /\ thr = "moved"
    /\ kind = "task" => "worker" \in quitReq
    /\ thr' = "ended"
    /\ UNCHANGED <<flagVars, loopVars, lives, deletion, cleaned, reaper, quitReq, interrupted, callVars, nquits>>

\* A shifted call in the worker's thread: startUpdating() inside
\* doIfNotFinished(), or the end of stopUpdateTimer().
RunPosted ==
    /\ thr = "looping" /\ posted # <<>>
    /\ mutex = "none"
    /\ ~finished
    /\ posted' = Tail(posted)
    /\ enabled' = IF Head(posted) = "stop" THEN enabled ELSE Head(posted) = "on"
    /\ timer' = (Head(posted) = "on")
    /\ UNCHANGED <<flagVars, deadVars, quitReq, interrupted, callVars, nquits>>

\* A slot of the worker, in its own thread, calls quit(), or quitAndWait(),
\* which returns at once in this thread. beforeQuit() may stop the timer.
SelfQuit(wait) ==
    /\ SelfQuits
    /\ thr = "looping"
    /\ nquits < MaxQuits /\ nquits' = nquits + 1
    /\ enabled' = FALSE
    /\ quitReq' = IF wait THEN quitReq ELSE quitReq \cup {lives}
    /\ timer' \in {timer, timer /\ wait}
    /\ UNCHANGED <<flagVars, posted, deadVars, interrupted, callVars>>

-----------------------------------------------------------------------------
(* The thread of the owner: calls *)

\* The owner makes another call; the worker has not been deleted.
OwnerCalls ==
    /\ pc = "idle" /\ deletion # "done"
    /\ ncalls < MaxCalls /\ ncalls' = ncalls + 1

\* CContinuousWorker::start (fromTaskImpl does the same for a task)
Start ==
    /\ OwnerCalls
    /\ ~started
    /\ started' = TRUE
    /\ lives' = "worker"
    /\ thr' = "starting"
    /\ returned' = "start"
    /\ UNCHANGED <<finished, mutex, conn, queued, calls, loopVars, deletion, cleaned, reaper, quitReq, interrupted, pc, fun, target, nquits>>

\* CContinuousWorker::quit and the first lines of quitAndWait: nothing more to
\* do if the worker lives in the thread of its owner.
QuitCalled(wait) ==
    /\ OwnerCalls
    /\ kind = "continuous"
    /\ nquits < MaxQuits /\ nquits' = nquits + 1
    /\ enabled' = FALSE
    /\ IF lives = "owner" THEN pc' = "idle" /\ returned' = "quit"
       ELSE pc' = (IF wait THEN "getThread" ELSE "quitThread") /\ returned' = "none"
    /\ target' = "none"
    /\ UNCHANGED <<flagVars, timer, posted, deadVars, quitReq, interrupted, fun>>

\* QThread *workerThread = thread()
GetThread ==
    /\ pc = "getThread"
    /\ target' = lives
    /\ pc' = "quitAgain"
    /\ UNCHANGED <<flagVars, loopVars, deadVars, quitReq, interrupted, fun, returned, ncalls, nquits>>

\* quitAndWait() and abandon() call quit(), which looks again where the worker
\* lives. quit() of a task does nothing.
QuitAgain ==
    /\ pc = "quitAgain"
    /\ enabled' = (kind = "task" /\ enabled)
    /\ pc' = IF kind = "continuous" /\ lives = "worker" THEN "quitThread"
             ELSE IF target = "none" THEN "idle" ELSE "wait"
    /\ returned' = IF pc' = "idle" THEN "quit" ELSE returned
    /\ UNCHANGED <<flagVars, timer, posted, deadVars, quitReq, interrupted, fun, target, ncalls, nquits>>

\* beforeQuit(), where a derived class may call stopUpdateTimer(), which does
\* nothing if the timer is not active; then thread()->quit().
QuitThread ==
    /\ pc = "quitThread"
    /\ posted' \in {posted} \cup (IF timer THEN {Append(posted, "stop")} ELSE {})
    /\ quitReq' = quitReq \cup {lives}
    /\ IF target = "none" THEN pc' = "idle" /\ returned' = "quit"
                          ELSE pc' = "wait" /\ UNCHANGED returned
    /\ UNCHANGED <<flagVars, enabled, timer, deadVars, interrupted, fun, target, ncalls, nquits>>

\* workerThread->wait(waitTimeoutMs()) returns when the thread has ended, after
\* the timeout, or at once if the owner's thread would wait for itself.
Wait ==
    /\ pc = "wait"
    /\ pc' = "idle"
    /\ returned' = IF target = "worker" /\ thr = "ended" THEN "quitAndWait" ELSE "quit"
    /\ UNCHANGED <<flagVars, loopVars, deadVars, quitReq, interrupted, fun, target, ncalls, nquits>>

\* abandon() goes on with quit(), abandonAndWait() with quitAndWait().
AfterInterrupt == {"quitAgain"} \cup (IF kind = "continuous" THEN {"waitAgain"} ELSE {})

\* quitAndWait() called by abandonAndWait()
WaitAgain ==
    /\ pc = "waitAgain"
    /\ enabled' = FALSE
    /\ IF lives = "owner" THEN pc' = "idle" /\ returned' = "quit"
                          ELSE pc' = "getThread" /\ UNCHANGED returned
    /\ UNCHANGED <<flagVars, timer, posted, deadVars, quitReq, interrupted, fun, target, ncalls, nquits>>

\* CWorkerBase::abandon: the check whether the worker lives in a thread of its
\* own. abandonAndWait() begins in the same way; that of a task is abandon()
\* and waitForFinished().
AbandonCalled ==
    /\ OwnerCalls
    /\ IF kind = "task" THEN UNCHANGED nquits ELSE nquits < MaxQuits /\ nquits' = nquits + 1
    /\ target' = "none"
    /\ pc' \in IF lives = "owner" THEN AfterInterrupt ELSE {"interrupt"}
    /\ returned' = "none"
    /\ UNCHANGED <<flagVars, loopVars, deadVars, quitReq, interrupted, fun>>

\* CWorkerBase::abandon, abandonAndWait: thread()->requestInterruption()
Interrupt ==
    /\ pc = "interrupt"
    /\ interrupted' = interrupted \cup {lives}
    /\ pc' \in AfterInterrupt
    /\ UNCHANGED <<flagVars, loopVars, deadVars, quitReq, fun, target, returned, ncalls, nquits>>

\* CContinuousWorker::startUpdating in the owner's thread: shifted to the thread
\* of the worker, whether the worker has been told to quit or not. Once the
\* worker has moved back the call is in the right thread and takes effect at
\* once, although the worker has finished.
StartUpdating(on) ==
    /\ OwnerCalls
    /\ kind = "continuous" /\ started
    /\ IF lives = "owner"
       THEN enabled' = on /\ timer' = on /\ UNCHANGED posted
       ELSE posted' = Append(posted, IF on THEN "on" ELSE "off") /\ UNCHANGED <<enabled, timer>>
    /\ returned' = "startUpdating"
    /\ UNCHANGED <<flagVars, deadVars, quitReq, interrupted, pc, fun, target, nquits>>

\* CWorkerBase::then: the mutex is locked and the functor connected. With wait
\* it is the functor of waitForFinished(), which nobody calls for a continuous
\* worker that has not been told to quit.
Then(f, wait) ==
    /\ OwnerCalls
    /\ f \notin conn
    /\ wait => f \in Direct /\ (IF kind = "task" THEN started ELSE "worker" \in quitReq)
    /\ Acquire("owner")
    /\ conn' = conn \cup {f}
    /\ fun' = f
    /\ pc' = IF wait THEN "thenWait" ELSE "then"
    /\ returned' = "none"
    /\ UNCHANGED <<started, finished, queued, calls, loopVars, deadVars, quitReq, interrupted, target, nquits>>

\* Mutant: a functor that is passed after the end is never called.
ThenTooLate ==
    /\ pc \in {"then", "thenWait"}
    /\ mutex' = "none"
    /\ pc' = IF pc = "then" THEN "idle" ELSE "promise"
    /\ returned' = IF pc = "then" THEN "then" ELSE returned
    /\ UNCHANGED <<started, finished, conn, queued, calls, loopVars, deadVars, quitReq, interrupted, fun, target, ncalls, nquits>>

\* CWorkerBase::then: if the worker has finished the functor is called. For
\* waitForFinished() the functor sets the promise whose future is waited for.
ThenIfFinished ==
    /\ pc \in {"then", "thenWait"}
    /\ calls' = IF finished THEN [calls EXCEPT ![fun] = @ + 1] ELSE calls
    /\ mutex' = "none"
    /\ pc' = IF pc = "then" THEN "idle" ELSE "promise"
    /\ returned' = IF pc = "then" THEN "then" ELSE returned
    /\ UNCHANGED <<started, finished, conn, queued, loopVars, deadVars, quitReq, interrupted, fun, target, ncalls, nquits>>

\* CWorkerBase::waitForFinished: promise.get_future().wait()
PromiseKept ==
    /\ pc = "promise"
    /\ calls[fun] > 0
    /\ pc' = "idle"
    /\ returned' = "waitForFinished"
    /\ UNCHANGED <<flagVars, loopVars, deadVars, quitReq, interrupted, fun, target, ncalls, nquits>>

-----------------------------------------------------------------------------
(* The thread of the owner: events *)

OwnerIdle == pc = "idle" /\ "owner" \notin quitReq

\* A queued call of a contextual functor.
CallQueued(f) ==
    /\ OwnerIdle
    /\ queued[f] > 0
    /\ queued' = [queued EXCEPT ![f] = @ - 1]
    /\ calls' = [calls EXCEPT ![f] = @ + 1]
    /\ UNCHANGED <<started, finished, mutex, conn, loopVars, deadVars, quitReq, interrupted, callVars, nquits>>

\* Mutant: startUpdating() is shifted without doIfNotFinished().
RunPostedAlways ==
    /\ OwnerIdle
    /\ lives = "owner" /\ finished /\ deletion # "done"
    /\ posted # <<>>
    /\ posted' = Tail(posted)
    /\ timer' = (Head(posted) = "on")
    /\ UNCHANGED <<flagVars, enabled, deadVars, quitReq, interrupted, callVars, nquits>>

\* A shifted call that has followed the worker: doIfNotFinished() drops a
\* startUpdating(), and stopUpdateTimer() stops a timer that has been restarted.
DropPosted ==
    /\ OwnerIdle
    /\ lives = "owner" /\ finished /\ deletion # "done"
    /\ posted # <<>>
    /\ mutex = "none"
    /\ posted' = Tail(posted)
    /\ timer' = (timer /\ Head(posted) # "stop")
    /\ UNCHANGED <<flagVars, enabled, deadVars, quitReq, interrupted, callVars, nquits>>

\* The DeferredDelete event of the worker, which deletes its timer too.
DeleteWorker ==
    /\ OwnerIdle
    /\ deletion = "posted" /\ lives = "owner"
    /\ deletion' = "done"
    /\ posted' = <<>> /\ timer' = FALSE
    /\ UNCHANGED <<flagVars, enabled, lives, thr, cleaned, reaper, quitReq, interrupted, callVars, nquits>>

\* The lambda posted by finish() tells the thread to quit, waits for it and
\* deletes it. The thread has nothing to do then but to end: its timeout of five
\* seconds is not modelled.
ReapThread ==
    /\ OwnerIdle
    /\ reaper = "posted"
    /\ reaper' = "waits"
    /\ quitReq' = quitReq \cup {"worker"}
    /\ pc' = "reap"
    /\ UNCHANGED <<flagVars, loopVars, lives, deletion, thr, cleaned, interrupted, fun, target, returned, ncalls, nquits>>

ThreadReaped ==
    /\ pc = "reap" /\ thr = "ended"
    /\ reaper' = "done"
    /\ pc' = "idle"
    /\ UNCHANGED <<flagVars, loopVars, lives, deletion, thr, cleaned, quitReq, interrupted, fun, target, returned, ncalls, nquits>>

-----------------------------------------------------------------------------
Init ==
    /\ kind \in {"task", "continuous"}
    /\ lives = "owner" /\ started = FALSE /\ finished = FALSE /\ mutex = "none"
    /\ enabled = TRUE /\ timer = FALSE /\ posted = <<>>
    /\ conn = {} /\ queued = [f \in Functor |-> 0] /\ calls = [f \in Functor |-> 0]
    /\ deletion = "no" /\ thr = "none" /\ cleaned = FALSE /\ reaper = "no"
    /\ quitReq = {} /\ interrupted = {}
    /\ pc = "idle" /\ fun = NoFunctor /\ target = "none" /\ returned = "none"
    /\ ncalls = 0 /\ nquits = 0

\* What the worker's thread does on its own account.
ThreadStep ==
    /\ \/ ThreadStarts \/ TaskDone \/ LeaveLoop
       \/ SetFinished \/ EmitAndUnlock \/ DeleteLater \/ MoveToOwner \/ ThreadEnds
       \/ RunPosted
    /\ UNCHANGED kind

\* The owner goes on with a call.
CallStep ==
    /\ \/ GetThread \/ QuitAgain \/ QuitThread \/ Wait
       \/ Interrupt \/ WaitAgain \/ ThenIfFinished \/ PromiseKept \/ ThreadReaped
    /\ UNCHANGED kind

\* The owner's event loop dispatches an event.
EventStep ==
    /\ \/ \E f \in Functor : CallQueued(f)
       \/ DropPosted \/ DeleteWorker \/ ReapThread
    /\ UNCHANGED kind

\* The owner calls a method of the worker.
OwnerCall ==
    /\ \/ Start
       \/ \E wait \in BOOLEAN : QuitCalled(wait)
       \/ AbandonCalled
       \/ \E on \in BOOLEAN : StartUpdating(on)
       \/ \E f \in Functor, wait \in BOOLEAN : Then(f, wait)
    /\ UNCHANGED kind

Next ==
    \/ ThreadStep
    \/ (\E wait \in BOOLEAN : SelfQuit(wait)) /\ UNCHANGED kind
    \/ OwnerCall
    \/ CallStep
    \/ EventStep

\* The operating system schedules both threads and their event loops dispatch
\* what has been posted. Nobody has to make calls.
Fairness == WF_vars(ThreadStep) /\ WF_vars(CallStep) /\ WF_vars(EventStep)

Spec == Init /\ [][Next]_vars /\ Fairness

-----------------------------------------------------------------------------
(* Properties *)

\* Every variable has its type.
TypeOK ==
    /\ kind \in {"task", "continuous"}
    /\ lives \in Thread /\ started \in BOOLEAN /\ finished \in BOOLEAN
    /\ mutex \in Thread \cup {"none"}
    /\ enabled \in BOOLEAN /\ timer \in BOOLEAN /\ posted \in Seq(Shifted)
    /\ conn \in SUBSET Functor
    /\ queued \in [Functor -> Nat] /\ calls \in [Functor -> Nat]
    /\ deletion \in {"no", "posted", "done"}
    /\ thr \in {"none", "starting", "working", "looping", "finishing", "emitting",
                "leaving", "moved", "ended"}
    /\ cleaned \in BOOLEAN
    /\ quitReq \in SUBSET Thread /\ interrupted \in SUBSET Thread
    /\ reaper \in {"no", "posted", "waits", "done"}
    /\ pc \in {"idle", "getThread", "quitAgain", "quitThread", "wait", "interrupt",
               "waitAgain", "then", "thenWait", "promise", "reap"}
    /\ fun \in Functor \cup {NoFunctor}
    /\ target \in Thread \cup {"none"}
    /\ returned \in {"none", "start", "quit", "quitAndWait", "startUpdating",
                     "then", "waitForFinished"}
    /\ ncalls \in 0 .. MaxCalls /\ nquits \in 0 .. MaxQuits

\* A functor passed to then() is called once, whether the worker finishes
\* before, during or after the call of then(): never twice, and not forgotten
\* once the worker has finished and nobody holds the mutex.
CalledOnce ==
    \A f \in Functor :
        /\ calls[f] + queued[f] <= 1
        /\ f \in conn /\ finished /\ mutex = "none" => calls[f] + queued[f] = 1

\* "move worker back to the thread which constructed it, so there is no race on
\* deletion" (finish, ps_runTask): when the owner's event loop deletes the
\* worker, the worker's thread does not touch it any more.
NoTouchAfterDelete == deletion = "done" => thr \in {"moved", "ended"}

\* When quitAndWait() has waited for the thread, cleanup() has run, the worker
\* is back in the owner's thread, as CAfvClient::gracefulShutdown asserts, and
\* when waitForFinished() returns the task is done.
WaitedForEnd ==
    /\ returned = "quitAndWait" => thr = "ended" /\ lives = "owner" /\ finished /\ cleaned
    /\ returned = "waitForFinished" => finished /\ cleaned

\* quit() "stops the thread the next time around its event loop": the worker's
\* thread, not the owner's.
OwnerKeepsRunning == "owner" \notin quitReq

\* The worker's thread has left setFinished().
Left == thr \in {"leaving", "moved", "ended"}

\* How the finished flag, its mutex and the calls of functors belong together:
\* the inductive invariant behind CalledOnce.
FinishedInv ==
    /\ finished <=> thr = "emitting" \/ Left
    /\ mutex = "worker" <=> thr = "emitting"
    /\ mutex = "owner" <=> pc \in {"then", "thenWait"}
    /\ pc \in {"then", "thenWait", "promise"} => fun \in conn
    /\ \A f \in Functor :
          calls[f] + queued[f] =
              IF Left /\ f \in conn /\ ~(pc \in {"then", "thenWait"} /\ f = fun) THEN 1 ELSE 0

\* Where the worker lives, who may delete it and when its thread is over: the
\* inductive invariant behind NoTouchAfterDelete and WaitedForEnd.
LifeInv ==
    /\ lives = "owner" <=> thr \in {"none", "moved", "ended"}
    /\ thr = "none" <=> ~started
    /\ reaper # "no" <=> thr \in {"moved", "ended"}
    /\ deletion = "posted" => Left
    /\ thr \in {"moved", "ended"} => deletion # "no"
    /\ deletion = "done" => thr \in {"moved", "ended"}
    /\ thr \in {"finishing", "emitting"} \/ Left => cleaned
    /\ timer => thr \in {"looping", "moved", "ended"}
    /\ returned = "quitAndWait" => thr = "ended"
    /\ returned = "waitForFinished" => finished
    /\ pc = "promise" /\ calls[fun] > 0 => finished

\* The inductive invariant.
WorkerInv == TypeOK /\ FinishedInv /\ LifeInv

\* A startUpdating() that was shifted to the worker's thread and comes too late
\* is dropped (doIfNotFinished), wherever the worker is by then: the timer of a
\* worker that has finished runs only when the worker is back in the owner's
\* thread and the owner itself has started it there with a call of its own.
LateStartDropped ==
    [][finished /\ timer' => lives = "owner" /\ (timer \/ ncalls' # ncalls)]_vars

\* Each blocking call of the owner returns, and so does the event that waits
\* for the end of the thread.
CallsReturn == (pc # "idle") ~> (pc = "idle")

\* A worker that has finished is deleted together with its thread, unless the
\* event loop that has to do it was told to quit (see OwnerKeepsRunning).
DeletedAtEnd == finished ~> (deletion = "done" /\ reaper = "done") \/ "owner" \in quitReq
=============================================================================
