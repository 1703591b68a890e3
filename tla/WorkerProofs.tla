---------------------------- MODULE WorkerProofs ----------------------------
(***************************************************************************)
(* The inductive invariant of Worker and what follows from it, for any set *)
(* of functors and any number of calls.                                    *)
(***************************************************************************)
EXTENDS Worker, TLAPS

\* Every action preserves the types.
LEMMA TypeStep == WorkerInv /\ [Next]_vars => TypeOK'
<1> SUFFICES ASSUME WorkerInv, [Next]_vars PROVE TypeOK'
  OBVIOUS
<1>0. kind' = kind
  BY DEF Next, ThreadStep, OwnerCall, CallStep, EventStep, vars
<1> USE <1>0, WorkerAssumption DEF WorkerInv, TypeOK, Thread, Shifted
<1>1. ASSUME ThreadStarts PROVE TypeOK'
  BY <1>1 DEF ThreadStarts, vars, flagVars, loopVars, deadVars, callVars
<1>2. ASSUME TaskDone PROVE TypeOK'
  BY <1>2 DEF TaskDone, vars, flagVars, loopVars, deadVars, callVars
<1>3. ASSUME LeaveLoop PROVE TypeOK'
  <2>1. timer' \in BOOLEAN /\ cleaned' \in BOOLEAN
    BY <1>3, Zenon DEF LeaveLoop
  <2> QED
    BY <1>3, <2>1 DEF LeaveLoop, vars, flagVars, loopVars, deadVars, callVars
<1>4. ASSUME SetFinished PROVE TypeOK'
  BY <1>4 DEF SetFinished, Acquire, vars, flagVars, loopVars, deadVars, callVars
<1>5. ASSUME EmitAndUnlock PROVE TypeOK'
  BY <1>5 DEF EmitAndUnlock, EmitFinished, vars, flagVars, loopVars, deadVars, callVars
<1>6. ASSUME DeleteLater PROVE TypeOK'
  BY <1>6 DEF DeleteLater, vars, flagVars, loopVars, deadVars, callVars
<1>7. ASSUME MoveToOwner PROVE TypeOK'
  BY <1>7 DEF MoveToOwner, vars, flagVars, loopVars, deadVars, callVars
<1>8. ASSUME ThreadEnds PROVE TypeOK'
  BY <1>8 DEF ThreadEnds, vars, flagVars, loopVars, deadVars, callVars
<1>9. ASSUME RunPosted PROVE TypeOK'
  <2>1. timer' \in BOOLEAN
    BY <1>9, Zenon DEF RunPosted
  <2>2. enabled' \in BOOLEAN
    BY <1>9, Zenon DEF RunPosted
  <2>3. posted' \in Seq(Shifted)
    BY <1>9 DEF RunPosted
  <2> QED
    BY <1>9, <2>1, <2>2, <2>3 DEF RunPosted, vars, flagVars, loopVars, deadVars, callVars
<1>10. ASSUME NEW wait \in BOOLEAN, SelfQuit(wait) PROVE TypeOK'
  <2>1. enabled' \in BOOLEAN
    BY <1>10, Zenon DEF SelfQuit
  <2>2. quitReq' \in SUBSET Thread
    BY <1>10 DEF SelfQuit
  <2>3. nquits' \in 0 .. MaxQuits
    BY <1>10 DEF SelfQuit
  <2>4. timer' \in BOOLEAN
    BY <1>10, Zenon DEF SelfQuit
  <2> QED
    BY <1>10, <2>1, <2>2, <2>3, <2>4 DEF SelfQuit, vars, flagVars, loopVars, deadVars, callVars
<1>11. ASSUME Start PROVE TypeOK'
  BY <1>11 DEF Start, OwnerCalls, vars, flagVars, loopVars, deadVars, callVars
<1>12. ASSUME NEW wait \in BOOLEAN, QuitCalled(wait) PROVE TypeOK'
  <2>1. enabled' \in BOOLEAN
    BY <1>12, Zenon DEF QuitCalled
  <2>2. nquits' \in 0 .. MaxQuits /\ ncalls' \in 0 .. MaxCalls
    BY <1>12 DEF QuitCalled, OwnerCalls
  <2>3. pc' \in {"idle", "getThread", "quitThread"} /\ returned' \in {"quit", "none"}
    BY <1>12, Zenon DEF QuitCalled
  <2> QED
    BY <1>12, <2>1, <2>2, <2>3 DEF QuitCalled, vars, flagVars, loopVars, deadVars, callVars
<1>13. ASSUME AbandonCalled PROVE TypeOK'
  BY <1>13 DEF AbandonCalled, AfterInterrupt, OwnerCalls, vars, flagVars, loopVars, deadVars, callVars
<1>14. ASSUME NEW on \in BOOLEAN, StartUpdating(on) PROVE TypeOK'
  <2>1. enabled' \in BOOLEAN /\ timer' \in BOOLEAN
    BY <1>14, Zenon DEF StartUpdating
  <2>2. Append(posted, IF on THEN "on" ELSE "off") \in Seq(Shifted)
    OBVIOUS
  <2>3. posted' \in Seq(Shifted)
    BY <1>14, <2>2, Zenon DEF StartUpdating
  <2> QED
    BY <1>14, <2>1, <2>3 DEF StartUpdating, OwnerCalls, vars, flagVars, loopVars, deadVars, callVars
<1>15. ASSUME NEW f \in Functor, NEW wait \in BOOLEAN, Then(f, wait) PROVE TypeOK'
  BY <1>15 DEF Then, OwnerCalls, Acquire, vars, flagVars, loopVars, deadVars, callVars
<1>16. ASSUME GetThread PROVE TypeOK'
  BY <1>16 DEF GetThread, vars, flagVars, loopVars, deadVars, callVars
<1>17. ASSUME QuitAgain PROVE TypeOK'
  BY <1>17 DEF QuitAgain, vars, flagVars, loopVars, deadVars, callVars
<1>18. ASSUME QuitThread PROVE TypeOK'
  <2>1. Append(posted, "stop") \in Seq(Shifted)
    OBVIOUS
  <2>2. posted' \in Seq(Shifted)
    BY <1>18, <2>1, Zenon DEF QuitThread
  <2> QED
    BY <1>18, <2>2 DEF QuitThread, vars, flagVars, loopVars, deadVars, callVars
<1>19. ASSUME Wait PROVE TypeOK'
  BY <1>19 DEF Wait, vars, flagVars, loopVars, deadVars, callVars
<1>20. ASSUME Interrupt PROVE TypeOK'
  BY <1>20 DEF Interrupt, AfterInterrupt, vars, flagVars, loopVars, deadVars, callVars
<1>21. ASSUME ThenIfFinished PROVE TypeOK'
  <2>1. calls' \in [Functor -> Nat]
    BY <1>21 DEF ThenIfFinished, FinishedInv
  <2>2. pc' \in {"idle", "promise"} /\ returned' \in {"then", returned}
    BY <1>21 DEF ThenIfFinished
  <2> QED
    BY <1>21, <2>1, <2>2 DEF ThenIfFinished, vars, flagVars, loopVars, deadVars, callVars
<1>22. ASSUME PromiseKept PROVE TypeOK'
  BY <1>22 DEF PromiseKept, vars, flagVars, loopVars, deadVars, callVars
<1>23. ASSUME ThreadReaped PROVE TypeOK'
  BY <1>23 DEF ThreadReaped, vars, flagVars, loopVars, deadVars, callVars
<1>24. ASSUME NEW f \in Functor, CallQueued(f) PROVE TypeOK'
  BY <1>24 DEF CallQueued, OwnerIdle, vars, flagVars, loopVars, deadVars, callVars
<1>25. ASSUME DropPosted PROVE TypeOK'
  <2>1. timer' \in BOOLEAN
    BY <1>25, Zenon DEF DropPosted
  <2> QED
    BY <1>25, <2>1 DEF DropPosted, OwnerIdle, vars, flagVars, loopVars, deadVars, callVars
<1>26. ASSUME DeleteWorker PROVE TypeOK'
  <2>1. timer' \in BOOLEAN
    BY <1>26, Zenon DEF DeleteWorker
  <2> QED
    BY <1>26, <2>1 DEF DeleteWorker, OwnerIdle, vars, flagVars, loopVars, deadVars, callVars
<1>27. ASSUME ReapThread PROVE TypeOK'
  BY <1>27 DEF ReapThread, OwnerIdle, vars, flagVars, loopVars, deadVars, callVars
<1>29. ASSUME WaitAgain PROVE TypeOK'
  <2>1. enabled' \in BOOLEAN
    BY <1>29, Zenon DEF WaitAgain
  <2> QED
    BY <1>29, <2>1 DEF WaitAgain, vars, flagVars, loopVars, deadVars, callVars
<1>28. CASE UNCHANGED vars
  BY <1>28 DEF vars, flagVars, loopVars, deadVars, callVars
<1> QED
  BY <1>1, <1>2, <1>3, <1>4, <1>5, <1>6, <1>7, <1>8, <1>9, <1>10, <1>11, <1>12,
     <1>13, <1>14, <1>15, <1>16, <1>17, <1>18, <1>19, <1>20, <1>21, <1>22, <1>23,
     <1>24, <1>25, <1>26, <1>27, <1>28, <1>29
     DEF Next, ThreadStep, OwnerCall, CallStep, EventStep

\* Every action preserves what ties the finished flag, the mutex and the calls of
\* functors together.
LEMMA FinishedStep == WorkerInv /\ [Next]_vars => FinishedInv'
<1> SUFFICES ASSUME WorkerInv, [Next]_vars PROVE FinishedInv'
  OBVIOUS
<1> USE WorkerAssumption DEF WorkerInv, TypeOK, FinishedInv, LifeInv, Left, Thread, Direct
<1>1. ASSUME ThreadStarts PROVE FinishedInv'
  BY <1>1 DEF ThreadStarts, vars, flagVars, loopVars, deadVars, callVars
<1>2. ASSUME TaskDone PROVE FinishedInv'
  BY <1>2 DEF TaskDone, vars, flagVars, loopVars, deadVars, callVars
<1>3. ASSUME LeaveLoop PROVE FinishedInv'
  BY <1>3 DEF LeaveLoop, vars, flagVars, loopVars, deadVars, callVars
<1>4. ASSUME SetFinished PROVE FinishedInv'
  BY <1>4 DEF SetFinished, Acquire, vars, flagVars, loopVars, deadVars, callVars
<1>5. ASSUME EmitAndUnlock PROVE FinishedInv'
  <2>1. ASSUME NEW f \in Functor
        PROVE calls'[f] + queued'[f] = IF f \in conn THEN 1 ELSE 0
    <3>1. calls[f] = 0 /\ queued[f] = 0
      <4>1. calls[f] + queued[f] = 0
        BY <1>5 DEF EmitAndUnlock
      <4>2. calls[f] \in Nat /\ queued[f] \in Nat
        OBVIOUS
      <4> HIDE DEF WorkerInv, FinishedInv, TypeOK, LifeInv
      <4> QED
        BY <4>1, <4>2
    <3>2. calls'[f] = IF f \in conn /\ f \notin Contextual THEN 1 ELSE 0
      BY <1>5, <3>1 DEF EmitAndUnlock, EmitFinished
    <3>3. queued'[f] = IF f \in conn /\ f \in Contextual THEN 1 ELSE 0
      BY <1>5, <3>1 DEF EmitAndUnlock, EmitFinished
    <3> HIDE DEF WorkerInv, FinishedInv, TypeOK, LifeInv
    <3>4. CASE f \in conn
      BY <3>2, <3>3, <3>4
    <3>5. CASE f \notin conn
      BY <3>2, <3>3, <3>5
    <3> QED
      BY <3>4, <3>5
  <2>2. pc \notin {"then", "thenWait"}
    BY <1>5 DEF EmitAndUnlock
  <2> QED
    BY <1>5, <2>1, <2>2 DEF EmitAndUnlock, vars, flagVars, loopVars, deadVars, callVars
<1>6. ASSUME DeleteLater PROVE FinishedInv'
  BY <1>6 DEF DeleteLater, vars, flagVars, loopVars, deadVars, callVars
<1>7. ASSUME MoveToOwner PROVE FinishedInv'
  BY <1>7 DEF MoveToOwner, vars, flagVars, loopVars, deadVars, callVars
<1>8. ASSUME ThreadEnds PROVE FinishedInv'
  BY <1>8 DEF ThreadEnds, vars, flagVars, loopVars, deadVars, callVars
<1>9. ASSUME RunPosted PROVE FinishedInv'
  BY <1>9 DEF RunPosted, vars, flagVars, loopVars, deadVars, callVars
<1>10. ASSUME NEW wait \in BOOLEAN, SelfQuit(wait) PROVE FinishedInv'
  BY <1>10 DEF SelfQuit, vars, flagVars, loopVars, deadVars, callVars
<1>11. ASSUME Start PROVE FinishedInv'
  BY <1>11 DEF Start, OwnerCalls, vars, flagVars, loopVars, deadVars, callVars
<1>12. ASSUME NEW wait \in BOOLEAN, QuitCalled(wait) PROVE FinishedInv'
  BY <1>12 DEF QuitCalled, OwnerCalls, vars, flagVars, loopVars, deadVars, callVars
<1>13. ASSUME AbandonCalled PROVE FinishedInv'
  BY <1>13 DEF AbandonCalled, AfterInterrupt, OwnerCalls, vars, flagVars, loopVars, deadVars, callVars
<1>14. ASSUME NEW on \in BOOLEAN, StartUpdating(on) PROVE FinishedInv'
  BY <1>14 DEF StartUpdating, OwnerCalls, vars, flagVars, loopVars, deadVars, callVars
<1>15. ASSUME NEW f \in Functor, NEW wait \in BOOLEAN, Then(f, wait) PROVE FinishedInv'
  BY <1>15 DEF Then, OwnerCalls, Acquire, vars, flagVars, loopVars, deadVars, callVars
<1>16. ASSUME GetThread PROVE FinishedInv'
  BY <1>16 DEF GetThread, vars, flagVars, loopVars, deadVars, callVars
<1>17. ASSUME QuitAgain PROVE FinishedInv'
  BY <1>17 DEF QuitAgain, vars, flagVars, loopVars, deadVars, callVars
<1>18. ASSUME QuitThread PROVE FinishedInv'
  BY <1>18 DEF QuitThread, vars, flagVars, loopVars, deadVars, callVars
<1>19. ASSUME Wait PROVE FinishedInv'
  BY <1>19 DEF Wait, vars, flagVars, loopVars, deadVars, callVars
<1>20. ASSUME Interrupt PROVE FinishedInv'
  BY <1>20 DEF Interrupt, AfterInterrupt, vars, flagVars, loopVars, deadVars, callVars
<1>21. ASSUME ThenIfFinished PROVE FinishedInv'
  BY <1>21 DEF ThenIfFinished, vars, flagVars, loopVars, deadVars, callVars
<1>22. ASSUME PromiseKept PROVE FinishedInv'
  BY <1>22 DEF PromiseKept, vars, flagVars, loopVars, deadVars, callVars
<1>23. ASSUME ThreadReaped PROVE FinishedInv'
  BY <1>23 DEF ThreadReaped, vars, flagVars, loopVars, deadVars, callVars
<1>24. ASSUME NEW f \in Functor, CallQueued(f) PROVE FinishedInv'
  BY <1>24 DEF CallQueued, OwnerIdle, vars, flagVars, loopVars, deadVars, callVars
<1>25. ASSUME DropPosted PROVE FinishedInv'
  BY <1>25 DEF DropPosted, OwnerIdle, vars, flagVars, loopVars, deadVars, callVars
<1>26. ASSUME DeleteWorker PROVE FinishedInv'
  BY <1>26 DEF DeleteWorker, OwnerIdle, vars, flagVars, loopVars, deadVars, callVars
<1>27. ASSUME ReapThread PROVE FinishedInv'
  BY <1>27 DEF ReapThread, OwnerIdle, vars, flagVars, loopVars, deadVars, callVars
<1>29. ASSUME WaitAgain PROVE FinishedInv'
  BY <1>29 DEF WaitAgain, vars, flagVars, loopVars, deadVars, callVars
<1>28. CASE UNCHANGED vars
  BY <1>28 DEF vars, flagVars, loopVars, deadVars, callVars
<1> QED
  BY <1>1, <1>2, <1>3, <1>4, <1>5, <1>6, <1>7, <1>8, <1>9, <1>10, <1>11, <1>12,
     <1>13, <1>14, <1>15, <1>16, <1>17, <1>18, <1>19, <1>20, <1>21, <1>22, <1>23,
     <1>24, <1>25, <1>26, <1>27, <1>28, <1>29
     DEF Next, ThreadStep, OwnerCall, CallStep, EventStep

\* Every action preserves what ties the thread in which the worker lives, its
\* deletion and the state of its thread together.
LEMMA LifeStep == WorkerInv /\ [Next]_vars => LifeInv'
<1> SUFFICES ASSUME WorkerInv, [Next]_vars PROVE LifeInv'
  OBVIOUS
<1> USE WorkerAssumption DEF WorkerInv, TypeOK, FinishedInv, LifeInv, Left, Thread
<1>1. ASSUME ThreadStarts PROVE LifeInv'
  BY <1>1 DEF ThreadStarts, vars, flagVars, loopVars, deadVars, callVars
<1>2. ASSUME TaskDone PROVE LifeInv'
  BY <1>2 DEF TaskDone, vars, flagVars, loopVars, deadVars, callVars
<1>3. ASSUME LeaveLoop PROVE LifeInv'
  BY <1>3 DEF LeaveLoop, vars, flagVars, loopVars, deadVars, callVars
<1>4. ASSUME SetFinished PROVE LifeInv'
  BY <1>4 DEF SetFinished, Acquire, vars, flagVars, loopVars, deadVars, callVars
<1>5. ASSUME EmitAndUnlock PROVE LifeInv'
  BY <1>5 DEF EmitAndUnlock, EmitFinished, vars, flagVars, loopVars, deadVars, callVars
<1>6. ASSUME DeleteLater PROVE LifeInv'
  BY <1>6 DEF DeleteLater, vars, flagVars, loopVars, deadVars, callVars
<1>7. ASSUME MoveToOwner PROVE LifeInv'
  BY <1>7 DEF MoveToOwner, vars, flagVars, loopVars, deadVars, callVars
<1>8. ASSUME ThreadEnds PROVE LifeInv'
  BY <1>8 DEF ThreadEnds, vars, flagVars, loopVars, deadVars, callVars
<1>9. ASSUME RunPosted PROVE LifeInv'
  BY <1>9 DEF RunPosted, vars, flagVars, loopVars, deadVars, callVars
<1>10. ASSUME NEW wait \in BOOLEAN, SelfQuit(wait) PROVE LifeInv'
  BY <1>10 DEF SelfQuit, vars, flagVars, loopVars, deadVars, callVars
<1>11. ASSUME Start PROVE LifeInv'
  BY <1>11 DEF Start, OwnerCalls, vars, flagVars, loopVars, deadVars, callVars
<1>12. ASSUME NEW wait \in BOOLEAN, QuitCalled(wait) PROVE LifeInv'
  BY <1>12 DEF QuitCalled, OwnerCalls, vars, flagVars, loopVars, deadVars, callVars
<1>13. ASSUME AbandonCalled PROVE LifeInv'
  BY <1>13 DEF AbandonCalled, AfterInterrupt, OwnerCalls, vars, flagVars, loopVars, deadVars, callVars
<1>14. ASSUME NEW on \in BOOLEAN, StartUpdating(on) PROVE LifeInv'
  BY <1>14 DEF StartUpdating, OwnerCalls, vars, flagVars, loopVars, deadVars, callVars
<1>15. ASSUME NEW f \in Functor, NEW wait \in BOOLEAN, Then(f, wait) PROVE LifeInv'
  BY <1>15 DEF Then, OwnerCalls, Acquire, vars, flagVars, loopVars, deadVars, callVars
<1>16. ASSUME GetThread PROVE LifeInv'
  BY <1>16 DEF GetThread, vars, flagVars, loopVars, deadVars, callVars
<1>17. ASSUME QuitAgain PROVE LifeInv'
  BY <1>17 DEF QuitAgain, vars, flagVars, loopVars, deadVars, callVars
<1>18. ASSUME QuitThread PROVE LifeInv'
  BY <1>18 DEF QuitThread, vars, flagVars, loopVars, deadVars, callVars
<1>19. ASSUME Wait PROVE LifeInv'
  BY <1>19 DEF Wait, vars, flagVars, loopVars, deadVars, callVars
<1>20. ASSUME Interrupt PROVE LifeInv'
  BY <1>20 DEF Interrupt, AfterInterrupt, vars, flagVars, loopVars, deadVars, callVars
<1>21. ASSUME ThenIfFinished PROVE LifeInv'
  BY <1>21 DEF ThenIfFinished, vars, flagVars, loopVars, deadVars, callVars
<1>22. ASSUME PromiseKept PROVE LifeInv'
  BY <1>22 DEF PromiseKept, vars, flagVars, loopVars, deadVars, callVars
<1>23. ASSUME ThreadReaped PROVE LifeInv'
  BY <1>23 DEF ThreadReaped, vars, flagVars, loopVars, deadVars, callVars
<1>24. ASSUME NEW f \in Functor, CallQueued(f) PROVE LifeInv'
  BY <1>24 DEF CallQueued, OwnerIdle, vars, flagVars, loopVars, deadVars, callVars
<1>25. ASSUME DropPosted PROVE LifeInv'
  BY <1>25 DEF DropPosted, OwnerIdle, vars, flagVars, loopVars, deadVars, callVars
<1>26. ASSUME DeleteWorker PROVE LifeInv'
  BY <1>26 DEF DeleteWorker, OwnerIdle, vars, flagVars, loopVars, deadVars, callVars
<1>27. ASSUME ReapThread PROVE LifeInv'
  BY <1>27 DEF ReapThread, OwnerIdle, vars, flagVars, loopVars, deadVars, callVars
<1>29. ASSUME WaitAgain PROVE LifeInv'
  BY <1>29 DEF WaitAgain, vars, flagVars, loopVars, deadVars, callVars
<1>28. CASE UNCHANGED vars
  BY <1>28 DEF vars, flagVars, loopVars, deadVars, callVars
<1> QED
  BY <1>1, <1>2, <1>3, <1>4, <1>5, <1>6, <1>7, <1>8, <1>9, <1>10, <1>11, <1>12,
     <1>13, <1>14, <1>15, <1>16, <1>17, <1>18, <1>19, <1>20, <1>21, <1>22, <1>23,
     <1>24, <1>25, <1>26, <1>27, <1>28, <1>29
     DEF Next, ThreadStep, OwnerCall, CallStep, EventStep

\* The invariant holds when the worker has been constructed.
LEMMA InvInit == Init => WorkerInv
<1> SUFFICES ASSUME Init PROVE WorkerInv
  OBVIOUS
<1> USE WorkerAssumption DEF Init
<1>1. TypeOK
  <2>1. posted \in Seq(BOOLEAN)
    BY DEF Init
  <2>2. enabled \in BOOLEAN /\ started \in BOOLEAN /\ finished \in BOOLEAN
        /\ timer \in BOOLEAN /\ cleaned \in BOOLEAN
    BY Zenon DEF Init
  <2> QED
    BY <2>1, <2>2 DEF TypeOK, Thread
<1>2. FinishedInv
  BY DEF FinishedInv, Left
<1>3. LifeInv
  BY DEF LifeInv, Left
<1> QED
  BY <1>1, <1>2, <1>3 DEF WorkerInv

\* The invariant that ties the finished flag, its mutex, the registered functors
\* and the place where the worker lives together holds in every state.
THEOREM WorkerInvariant == Spec => []WorkerInv
<1>1. WorkerInv /\ [Next]_vars => WorkerInv'
  BY TypeStep, FinishedStep, LifeStep DEF WorkerInv
<1> QED
  BY InvInit, <1>1, PTL DEF Spec

\* then() calls its functor exactly once, in whatever order it and
\* setFinished() get hold of the mutex.
THEOREM FunctorsCalledOnce == Spec => []CalledOnce
<1>1. WorkerInv => CalledOnce
  <2> SUFFICES ASSUME WorkerInv, NEW f \in Functor
               PROVE /\ calls[f] + queued[f] <= 1
                     /\ f \in conn /\ finished /\ mutex = "none" => calls[f] + queued[f] = 1
    BY DEF CalledOnce
  <2> QED
    BY DEF WorkerInv, FinishedInv
<1> QED
  BY WorkerInvariant, <1>1, PTL

\* The owner's event loop deletes the worker only when the worker's thread has
\* given it away for good.
THEOREM DeletionSafe == Spec => []NoTouchAfterDelete
<1>1. WorkerInv => NoTouchAfterDelete
  BY DEF WorkerInv, LifeInv, NoTouchAfterDelete
<1> QED
  BY WorkerInvariant, <1>1, PTL

\* A quitAndWait() that has not timed out finds the worker cleaned up, finished
\* and back in the owner's thread.
THEOREM WaitMeansEnd == Spec => []WaitedForEnd
<1>1. WorkerInv => WaitedForEnd
  BY DEF WorkerInv, LifeInv, FinishedInv, Left, WaitedForEnd, TypeOK
<1> QED
  BY WorkerInvariant, <1>1, PTL

\* A startUpdating() that reaches the worker after its end does not start the
\* timer: only a call the owner makes once the worker is back does.
THEOREM LateStartsDropped == Spec => LateStartDropped
<1>1. WorkerInv /\ [Next]_vars
        => [finished /\ timer' => lives = "owner" /\ (timer \/ ncalls' # ncalls)]_vars
  <2> SUFFICES ASSUME WorkerInv, Next, finished, timer'
               PROVE  lives = "owner" /\ (timer \/ ncalls' # ncalls)
    BY DEF vars
  <2>0. thr \in {"emitting", "leaving", "moved", "ended"}
    BY DEF WorkerInv, FinishedInv, Left
  <2>1. timer => lives = "owner"
    BY <2>0 DEF WorkerInv, LifeInv
  <2>2. CASE UNCHANGED timer
    BY <2>1, <2>2
  <2>3. ASSUME NEW on \in BOOLEAN, StartUpdating(on)
        PROVE  lives = "owner" /\ (timer \/ ncalls' # ncalls)
    <3>1. ncalls' # ncalls
      BY <2>3 DEF StartUpdating, OwnerCalls, WorkerInv, TypeOK
    <3>2. CASE lives = "owner"
      BY <3>1, <3>2
    <3>3. CASE lives # "owner"
      BY <2>1, <2>3, <3>3 DEF StartUpdating
    <3> QED
      BY <3>2, <3>3
  <2>4. CASE DropPosted
    BY <2>1, <2>4, Zenon DEF DropPosted
  <2>5. CASE DeleteWorker
    BY <2>5, Zenon DEF DeleteWorker
  <2>6. ~LeaveLoop /\ ~RunPosted
    BY <2>0, Zenon DEF LeaveLoop, RunPosted
  <2>7. ASSUME NEW wait \in BOOLEAN, SelfQuit(wait) PROVE FALSE
    BY <2>0, <2>7 DEF SelfQuit
  <2>8. UNCHANGED timer \/ (\E on \in BOOLEAN : StartUpdating(on)) \/ DropPosted \/ DeleteWorker
    BY <2>6, <2>7 DEF Next, ThreadStep, OwnerCall, CallStep, EventStep, flagVars, loopVars,
       deadVars, callVars, ThreadStarts, TaskDone, SetFinished, EmitAndUnlock, DeleteLater,
       MoveToOwner, ThreadEnds, GetThread, QuitAgain, QuitThread, Wait, Interrupt, WaitAgain,
       ThenIfFinished, PromiseKept, ThreadReaped, CallQueued, ReapThread, Start, QuitCalled,
       AbandonCalled, Then
  <2> QED
    BY <2>2, <2>3, <2>4, <2>5, <2>8
<1> QED
  BY WorkerInvariant, <1>1, PTL DEF Spec, LateStartDropped
=============================================================================
