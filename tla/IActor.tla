------------------------------- MODULE IActor -------------------------------
(***************************************************************************)
(* Producers and consumers as threads on the shared buffer: the run() loop *)
(* of pc/src/producer.cpp and consumer.cpp, and the start, rest and stop   *)
(* of pc/src/IActor.cpp.  Every step of the buffer is one of SharedBuffer, *)
(* conjoined with where its caller goes next.                              *)
(*                                                                         *)
(* stop() holds the mutex_ of the actor while it takes the mutex_ of the   *)
(* buffer, and joins the thread after it has released both.                *)
(***************************************************************************)
EXTENDS SharedBuffer

VARIABLES
  loop,        \* where the thread of each actor is in run()
  actorMutex,  \* the thread that holds IBufferActor::mutex_ of each actor
  stopping,    \* where each client is in IBufferActor::stop()
  target       \* the actor it is stopping

actorVars == <<loop, actorMutex, stopping, target>>
vars == <<bufferVars, actorVars>>

\* "check" and "work" evaluate the loop condition and the loop body; in rest(),
\* "rest" and "roused" contend for mutex_ to test the predicate, "drowsy" holds
\* it after a failed test, "resting" is blocked in stopCV_.wait_for, "rested" is
\* out of it because the delay is over.
LoopPlaces == {"new", "check", "rest", "drowsy", "resting", "roused", "rested",
               "work", "exited", "joined"}
StopPlaces == {"no", "locking", "notifying", "signalling", "joining"}

ActorInit ==
  /\ BufferInit
  /\ loop = [a \in Actors |-> "new"]
  /\ actorMutex = [a \in Actors |-> Nobody]
  /\ stopping = [c \in Clients |-> "no"]
  /\ target = [c \in Clients |-> Nobody]

Goto(a, place) == loop' = [loop EXCEPT ![a] = place]

-----------------------------------------------------------------------------
(* run(): while(sharedBuffer_->isRunning() && rest(delay)) produce or consume *)

CheckCall(a) ==
  /\ loop[a] = "check"
  /\ CallIsRunning(a)
  /\ UNCHANGED actorVars

\* Mutant of CheckReturn: the loop does not look at the buffer.
CheckReturnIgnored(a) ==
  /\ loop[a] = "check"
  /\ ReadBody(a)
  /\ Goto(a, "rest")
  /\ UNCHANGED <<actorMutex, stopping, target>>

CheckReturn(a) ==
  /\ loop[a] = "check"
  /\ ReadBody(a)
  /\ Goto(a, IF quitSignal THEN "exited" ELSE "rest")
  /\ UNCHANGED <<actorMutex, stopping, target>>

WorkCall(a) ==
  /\ loop[a] = "work"
  /\ IF a \in Producers THEN CallProduce(a) ELSE CallConsume(a)
  /\ UNCHANGED actorVars

\* The loop starts over when the operation returns.
WorkStep(a) ==
  /\ loop[a] = "work"
  /\ \/ a \in Producers /\ ProduceBody(a)
     \/ a \in Consumers /\ ConsumeBody(a)
     \/ Retest(a)
  /\ Goto(a, IF at'[a] = "out" THEN "check" ELSE "work")
  /\ UNCHANGED <<actorMutex, stopping, target>>

WorkSleep(a) == Sleep(a) /\ UNCHANGED actorVars
WorkWakeup(a) == SpuriousWakeup(a) /\ UNCHANGED actorVars

-----------------------------------------------------------------------------
(* rest(delay): stopCV_.wait_for(lock, delay, [quitSignal_]) *)

\* Lock mutex_ and test the predicate; returning releases mutex_ at once.
RestTest(a) ==
  /\ loop[a] \in {"rest", "roused"}
  /\ actorMutex[a] = Nobody
  /\ \/ actorQuit[a] /\ Goto(a, "exited") /\ UNCHANGED actorMutex
     \/ /\ ~actorQuit[a]
        /\ Goto(a, "drowsy")
        /\ actorMutex' = [actorMutex EXCEPT ![a] = a]
  /\ UNCHANGED <<bufferVars, stopping, target>>

\* Atomically release mutex_ and block on stopCV_.
RestSleep(a) ==
  /\ loop[a] = "drowsy"
  /\ Goto(a, "resting")
  /\ actorMutex' = [actorMutex EXCEPT ![a] = Nobody]
  /\ UNCHANGED <<bufferVars, stopping, target>>

RestSpuriousWakeup(a) ==
  /\ loop[a] = "resting"
  /\ Goto(a, "roused")
  /\ UNCHANGED <<bufferVars, actorMutex, stopping, target>>

RestTimeout(a) ==
  /\ loop[a] \in {"resting", "roused"}
  /\ Goto(a, "rested")
  /\ UNCHANGED <<bufferVars, actorMutex, stopping, target>>

\* Mutants of RestReturn: rest() reports that the delay is over, or that it is
\* not, without looking at the quit signal.
RestReturnUnchecked(a) ==
  /\ loop[a] = "rested"
  /\ actorMutex[a] = Nobody
  /\ Goto(a, "work")
  /\ UNCHANGED <<bufferVars, actorMutex, stopping, target>>

RestReturnTimedOut(a) ==
  /\ loop[a] = "rested"
  /\ actorMutex[a] = Nobody
  /\ Goto(a, "exited")
  /\ UNCHANGED <<bufferVars, actorMutex, stopping, target>>

\* The delay is over: wait_for returns the predicate, tested under mutex_.
RestReturn(a) ==
  /\ loop[a] = "rested"
  /\ actorMutex[a] = Nobody
  /\ Goto(a, IF actorQuit[a] THEN "exited" ELSE "work")
  /\ UNCHANGED <<bufferVars, actorMutex, stopping, target>>

-----------------------------------------------------------------------------
(* start() and stop(), called by a client *)

Start(c, a) ==
  /\ stopping[c] = "no" /\ at[c] = "out"
  /\ loop[a] = "new"
  /\ Goto(a, "check")
  /\ UNCHANGED <<bufferVars, actorMutex, stopping, target>>

\* An actor is stopped once, after it was started.
StopCall(c, a) ==
  /\ stopping[c] = "no" /\ at[c] = "out"
  /\ loop[a] # "new"
  /\ ~actorQuit[a] /\ \A d \in Clients : target[d] # a
  /\ stopping' = [stopping EXCEPT ![c] = "locking"]
  /\ target' = [target EXCEPT ![c] = a]
  /\ UNCHANGED <<bufferVars, loop, actorMutex>>

\* Mutants of StopLock: the signal is raised without mutex_, or the buffer is not
\* told about it.
StopLockUnguarded(c) ==
  /\ stopping[c] = "locking"
  /\ CallNotify(c, target[c])
  /\ stopping' = [stopping EXCEPT ![c] = "notifying"]
  /\ UNCHANGED <<loop, actorMutex, target>>

StopLockSilent(c) ==
  /\ stopping[c] = "locking"
  /\ actorMutex[target[c]] = Nobody
  /\ actorQuit' = [actorQuit EXCEPT ![target[c]] = TRUE]
  /\ actorMutex' = [actorMutex EXCEPT ![target[c]] = c]
  /\ stopping' = [stopping EXCEPT ![c] = "signalling"]
  /\ UNCHANGED <<items, currentIndex, quitSignal, mutex, op, at, event,
                 loop, target>>

\* Lock mutex_, raise quitSignal_, call sharedBuffer_->notify().
StopLock(c) ==
  /\ stopping[c] = "locking"
  /\ actorMutex[target[c]] = Nobody
  /\ CallNotify(c, target[c])
  /\ actorMutex' = [actorMutex EXCEPT ![target[c]] = c]
  /\ stopping' = [stopping EXCEPT ![c] = "notifying"]
  /\ UNCHANGED <<loop, target>>

StopNotified(c) ==
  /\ stopping[c] = "notifying"
  /\ NotifyBody(c)
  /\ stopping' = [stopping EXCEPT ![c] = "signalling"]
  /\ UNCHANGED <<loop, actorMutex, target>>

\* Mutant of StopSignal: the delay is not cut short.
StopSignalSilent(c) ==
  /\ stopping[c] = "signalling"
  /\ actorMutex' = [actorMutex EXCEPT ![target[c]] = Nobody]
  /\ stopping' = [stopping EXCEPT ![c] = "joining"]
  /\ UNCHANGED <<bufferVars, loop, target>>

\* stopCV_.notify_all() and mutex_.unlock().
StopSignal(c) ==
  /\ stopping[c] = "signalling"
  /\ loop' = [loop EXCEPT ![target[c]] = IF @ = "resting" THEN "roused" ELSE @]
  /\ actorMutex' = [actorMutex EXCEPT ![target[c]] = Nobody]
  /\ stopping' = [stopping EXCEPT ![c] = "joining"]
  /\ UNCHANGED <<bufferVars, target>>

\* thread_.join() returns once the thread has left run().
StopJoin(c) ==
  /\ stopping[c] = "joining"
  /\ loop[target[c]] = "exited"
  /\ Goto(target[c], "joined")
  /\ stopping' = [stopping EXCEPT ![c] = "no"]
  /\ target' = [target EXCEPT ![c] = Nobody]
  /\ UNCHANGED <<bufferVars, actorMutex>>

\* Between two stops a client may use the buffer itself.
ClientCall(c) ==
  /\ stopping[c] = "no"
  /\ CallStop(c) \/ CallGetCurrentIndex(c) \/ CallIsRunning(c)
  /\ UNCHANGED actorVars

ClientBody(c) == (StopBody(c) \/ ReadBody(c)) /\ UNCHANGED actorVars

BufferLock(t) == Lock(t) /\ UNCHANGED actorVars

-----------------------------------------------------------------------------

RunStep(a) ==
  \/ CheckCall(a) \/ CheckReturn(a)
  \/ WorkCall(a) \/ WorkStep(a) \/ WorkSleep(a)
  \/ RestTest(a) \/ RestSleep(a) \/ RestReturn(a)

StopStep(c) ==
  StopLock(c) \/ StopNotified(c) \/ StopSignal(c) \/ StopJoin(c) \/ ClientBody(c)

ActorNext ==
  \/ \E a \in Actors :
       \/ RunStep(a)
       \/ WorkWakeup(a) \/ RestSpuriousWakeup(a) \/ RestTimeout(a)
  \/ \E c \in Clients :
       \/ StopStep(c) \/ ClientCall(c)
       \/ \E a \in Actors : Start(c, a) \/ StopCall(c, a)
  \/ \E t \in Threads : BufferLock(t)

ActorSpec == ActorInit /\ [][ActorNext]_vars

\* Lock a mutex, of the buffer or of an actor; a thread contends for one at a time.
Acquire(t) ==
  \/ BufferLock(t)
  \/ t \in Actors /\ (RestTest(t) \/ RestReturn(t))
  \/ t \in Clients /\ StopLock(t)

\* Threads keep running and every mutex goes in the end to whoever keeps asking
\* for it.  The delay of rest() may be as long as it likes: no timeout is fair.
ActorFairness ==
  /\ \A a \in Actors : WF_vars(RunStep(a))
  /\ \A c \in Clients : WF_vars(StopStep(c))
  /\ \A t \in Threads : SF_vars(Acquire(t))

FairActorSpec == ActorSpec /\ ActorFairness

\* Every delay ends: wait_for fixes the deadline when it is called, so waking up
\* in between, which disables RestTimeout for a moment, does not put it off.
TimedActorSpec == FairActorSpec /\ \A a \in Actors : SF_vars(RestTimeout(a))

-----------------------------------------------------------------------------
(* Safety *)

\* Every variable keeps its type.
ActorTypeOK ==
  /\ TypeOK
  /\ loop \in [Actors -> LoopPlaces]
  /\ actorMutex \in [Actors -> Threads \cup {Nobody}]
  /\ stopping \in [Clients -> StopPlaces]
  /\ target \in [Clients -> Actors \cup {Nobody}]

\* No actor sleeps out its delay with its quit signal up, unless the signal on
\* stopCV_ that cuts the delay short is still to come.
NoLostStop ==
  \A a \in Actors :
    loop[a] \in {"drowsy", "resting"} /\ actorQuit[a] =>
      \E c \in Clients :
        target[c] = a /\ stopping[c] \in {"notifying", "signalling"}

\* A thread that has left run() has left the buffer, and nobody joins a thread
\* whose actor was not told to stop.
LeftForGood ==
  \A a \in Actors :
    /\ loop[a] \in {"new", "exited", "joined"} => at[a] = "out"
    /\ loop[a] = "joined" => actorQuit[a]
    /\ loop[a] = "exited" => actorQuit[a] \/ quitSignal

\* An actor that was told to stop finishes the operation it is in, and never
\* starts another round: it may fill or empty at most one more slot.
NoNewRoundOnceStopped ==
  [][\A a \in Actors :
       actorQuit[a] /\ loop[a] # "work" => loop'[a] # "work"]_vars

\* To the buffer, the actors are callers like any others.
UsesTheBuffer == BufferSpec

-----------------------------------------------------------------------------
(* Liveness *)

\* stop() returns, however long the delays of the actors are: it never waits for
\* a delay, for room, for an item or for a lock that is not given back.
StopReturns == \A c \in Clients : stopping[c] # "no" ~> stopping[c] = "no"

\* Once the buffer is stopped, every started thread leaves run() by itself when
\* its delay is over.
BufferStopEndsThreads ==
  \A a \in Actors :
    quitSignal /\ loop[a] # "new" ~> loop[a] \in {"exited", "joined"}

\* A producer that is left alone with an empty buffer fills it, whatever the
\* consumers do meanwhile, and a consumer empties a full one.
BufferMoves ==
  /\ \A p \in Producers :
       loop[p] # "new" /\ currentIndex = 0
         ~> currentIndex > 0 \/ actorQuit[p] \/ quitSignal
  /\ \A c \in Consumers :
       loop[c] # "new" /\ currentIndex = Size
         ~> currentIndex < Size \/ actorQuit[c] \/ quitSignal
=============================================================================
