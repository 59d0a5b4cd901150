---------------------------- MODULE IActorProofs ----------------------------
(***************************************************************************)
(* The safety of IActor for every number of actors and clients and every   *)
(* buffer size: the threads use the buffer as SharedBuffer allows, which   *)
(* carries the theorems of SharedBufferProofs over to them, and no stop of *)
(* an actor is lost or ignored.                                            *)
(***************************************************************************)
EXTENDS IActor, SharedBufferProofs

\* The variables of the threads keep their types; the buffer's are IInv's matter.
ActorTypes ==
  /\ loop \in [Actors -> LoopPlaces]
  /\ actorMutex \in [Actors -> Threads \cup {Nobody}]
  /\ stopping \in [Clients -> StopPlaces]
  /\ target \in [Clients -> Actors \cup {Nobody}]

\* A client has a target exactly while it is in stop(), an actor is the target of
\* one client at most, and its quit signal is up from the moment stop() has had
\* the lock.
StopsMatch ==
  /\ \A c \in Clients : stopping[c] = "no" <=> target[c] = Nobody
  /\ \A c, d \in Clients : target[c] = target[d] /\ target[c] # Nobody => c = d
  /\ \A c \in Clients :
       stopping[c] \in {"notifying", "signalling", "joining"}
         => actorQuit[target[c]]

\* The mutex_ of an actor is held by its thread between a failed test and the
\* wait, and by the client that stops it until it has signalled stopCV_.
ActorHolder ==
  /\ \A a \in Actors : loop[a] = "drowsy" <=> actorMutex[a] = a
  /\ \A c \in Clients :
       stopping[c] \in {"notifying", "signalling"} => actorMutex[target[c]] = c

\* A thread is in the buffer only from within its loop.
InsideLoop == \A a \in Actors : at[a] # "out" => loop[a] \in {"check", "work"}

\* A thread leaves run() for a reason, and is joined after it was told to stop.
LeftWithReason ==
  \A a \in Actors :
    /\ loop[a] = "joined" => actorQuit[a]
    /\ loop[a] = "exited" => actorQuit[a] \/ quitSignal

\* The inductive invariant, on top of that of the buffer.  NoLostStop needs
\* ActorHolder: stop() raises the signal when nobody is between test and wait.
ActorIInv ==
  /\ ActorTypes
  /\ StopsMatch
  /\ ActorHolder
  /\ InsideLoop
  /\ LeftWithReason
  /\ NoLostStop

-----------------------------------------------------------------------------
(* The threads use the buffer *)

\* Every step of the threads is a step of the buffer or leaves it alone.  Only
\* stop() needs an invariant: that it stops an actor.
LEMMA StepUsesTheBuffer ==
  ActorIInv /\ [ActorNext]_vars => [BufferNext]_bufferVars
<1> SUFFICES ASSUME ActorIInv, [ActorNext]_vars
             PROVE  [BufferNext]_bufferVars
  OBVIOUS
<1>1. ASSUME NEW a \in Actors, RunStep(a) PROVE [BufferNext]_bufferVars
  <2>1. CASE CheckCall(a)
    BY <2>1 DEF CheckCall, BufferNext, AnyStep, Threads
  <2>2. CASE CheckReturn(a)
    BY <2>2 DEF CheckReturn, BufferNext, AnyStep, Threads
  <2>3. CASE WorkCall(a)
    BY <2>3 DEF WorkCall, BufferNext, ActorStep, Actors
  <2>4. CASE WorkStep(a)
    BY <2>4 DEF WorkStep, BufferNext, ActorStep
  <2>5. CASE WorkSleep(a)
    BY <2>5 DEF WorkSleep, BufferNext, ActorStep
  <2>6. CASE RestTest(a) \/ RestSleep(a) \/ RestReturn(a)
    BY <2>6 DEF RestTest, RestSleep, RestReturn
  <2> QED BY <1>1, <2>1, <2>2, <2>3, <2>4, <2>5, <2>6 DEF RunStep
<1>2. ASSUME NEW a \in Actors,
             WorkWakeup(a) \/ RestSpuriousWakeup(a) \/ RestTimeout(a)
      PROVE  [BufferNext]_bufferVars
  BY <1>2
  DEF WorkWakeup, RestSpuriousWakeup, RestTimeout, BufferNext, ActorStep
<1>3. ASSUME NEW c \in Clients, StopStep(c) PROVE [BufferNext]_bufferVars
  <2>1. CASE StopLock(c)
    <3>1. target[c] \in Actors
      BY <2>1 DEF StopLock, ActorIInv, ActorTypes, StopsMatch
    <3> QED BY <2>1, <3>1 DEF StopLock, BufferNext, ClientStep
  <2>2. CASE StopNotified(c)
    BY <2>2 DEF StopNotified, BufferNext, ClientStep
  <2>3. CASE StopSignal(c) \/ StopJoin(c)
    BY <2>3 DEF StopSignal, StopJoin
  <2>4. CASE ClientBody(c)
    BY <2>4 DEF ClientBody, BufferNext, ClientStep, AnyStep, Threads
  <2> QED BY <1>3, <2>1, <2>2, <2>3, <2>4 DEF StopStep
<1>4. ASSUME NEW c \in Clients, ClientCall(c) PROVE [BufferNext]_bufferVars
  BY <1>4 DEF ClientCall, BufferNext, ClientStep, AnyStep, Threads
<1>5. ASSUME NEW c \in Clients, NEW a \in Actors, Start(c, a) \/ StopCall(c, a)
      PROVE  [BufferNext]_bufferVars
  BY <1>5 DEF Start, StopCall
<1>6. ASSUME NEW t \in Threads, BufferLock(t) PROVE [BufferNext]_bufferVars
  BY <1>6 DEF BufferLock, BufferNext, AnyStep
<1>7. CASE UNCHANGED vars
  BY <1>7 DEF vars
<1> QED BY <1>1, <1>2, <1>3, <1>4, <1>5, <1>6, <1>7 DEF ActorNext

-----------------------------------------------------------------------------
(* The inductive invariant *)

\* Before any thread is started the invariant holds.
LEMMA InitEstablishesActorIInv == ActorInit => ActorIInv
<1> SUFFICES ASSUME ActorInit PROVE ActorIInv
  OBVIOUS
<1> USE ConstantsAssumption DEF ActorInit, Actors, Threads
<1>1. ActorTypes
  BY DEF ActorTypes, LoopPlaces, StopPlaces
<1>2. StopsMatch /\ ActorHolder
  BY DEF StopsMatch, ActorHolder
<1>3. InsideLoop /\ LeftWithReason /\ NoLostStop
  BY DEF BufferInit, InsideLoop, LeftWithReason, NoLostStop
<1> QED BY <1>1, <1>2, <1>3 DEF ActorIInv

\* Every step of the threads keeps the invariant.  The buffer's invariant is used
\* for the types of its variables only.
\* First what a step that leaves the threads where they are must not do, then one
\* step of the proof for every action.
LEMMA StepPreservesActorIInv ==
  IInv /\ ActorIInv /\ [ActorNext]_vars => ActorIInv'
<1> SUFFICES ASSUME IInv, ActorIInv, [ActorNext]_vars PROVE ActorIInv'
  OBVIOUS
<1> USE ConstantsAssumption DEF ActorIInv, Actors, Threads
<1>0. /\ at \in [Threads -> Places]
      /\ actorQuit \in [Actors -> BOOLEAN]
      /\ quitSignal \in BOOLEAN
  BY DEF IInv, TypeOK
<1>1. ASSUME UNCHANGED <<actorVars, actorQuit>>,
             quitSignal => quitSignal',
             \A a \in Actors : at'[a] # "out" => loop[a] \in {"check", "work"}
      PROVE  ActorIInv'
  <2>1. ActorTypes'
    BY <1>0, <1>1 DEF actorVars, ActorTypes, LoopPlaces, StopPlaces
  <2>2. StopsMatch'
    BY <1>0, <1>1 DEF actorVars, ActorTypes, StopsMatch
  <2>3. ActorHolder'
    BY <1>0, <1>1 DEF actorVars, ActorTypes, StopsMatch, ActorHolder
  <2>4. InsideLoop'
    BY <1>0, <1>1 DEF actorVars, ActorTypes, InsideLoop
  <2>5. LeftWithReason'
    BY <1>0, <1>1 DEF actorVars, ActorTypes, StopsMatch, LeftWithReason
  <2>6. NoLostStop'
    BY <1>0, <1>1
    DEF actorVars, ActorTypes, StopsMatch, ActorHolder, NoLostStop
  <2> QED BY <2>1, <2>2, <2>3, <2>4, <2>5, <2>6 DEF ActorIInv
<1>2. ASSUME NEW a \in Actors, CheckReturn(a)
      PROVE  ActorIInv'
  <2>1. ActorTypes'
    BY <1>0, <1>2
    DEF CheckReturn, ReadBody, Goto, ActorTypes, LoopPlaces, StopPlaces
  <2>2. StopsMatch'
    BY <1>0, <1>2 DEF CheckReturn, ReadBody, Goto, ActorTypes, StopsMatch
  <2>3. ActorHolder'
    BY <1>0, <1>2
    DEF CheckReturn, ReadBody, Goto, ActorTypes, StopsMatch, ActorHolder
  <2>4. InsideLoop'
    BY <1>0, <1>2
    DEF CheckReturn, ReadBody, Goto, ActorTypes, InsideLoop, Return
  <2>5. LeftWithReason'
    BY <1>0, <1>2
    DEF CheckReturn, ReadBody, Goto, ActorTypes, StopsMatch, LeftWithReason
  <2>6. NoLostStop'
    BY <1>0, <1>2
    DEF CheckReturn, ReadBody, Goto, ActorTypes, StopsMatch, ActorHolder,
        NoLostStop
  <2> QED BY <2>1, <2>2, <2>3, <2>4, <2>5, <2>6 DEF ActorIInv
<1>3. ASSUME NEW a \in Actors, WorkStep(a)
      PROVE  ActorIInv'
  <2>1. ActorTypes'
    BY <1>0, <1>3
    DEF WorkStep, ProduceBody, ConsumeBody, Fill, Empty, Retest,
        TestPredicate, Goto,
        ActorTypes, LoopPlaces, StopPlaces
  <2>2. StopsMatch'
    BY <1>0, <1>3
    DEF WorkStep, ProduceBody, ConsumeBody, Fill, Empty, Retest,
        TestPredicate, Goto,
        ActorTypes, StopsMatch
  <2>3. ActorHolder'
    BY <1>0, <1>3
    DEF WorkStep, ProduceBody, ConsumeBody, Fill, Empty, Retest,
        TestPredicate, Goto,
        ActorTypes, StopsMatch, ActorHolder
  <2>4. InsideLoop'
    BY <1>0, <1>3
    DEF WorkStep, ProduceBody, ConsumeBody, Fill, Empty, Retest,
        TestPredicate, Goto,
        ActorTypes, InsideLoop, Return, NotifyAll
  <2>5. LeftWithReason'
    BY <1>0, <1>3
    DEF WorkStep, ProduceBody, ConsumeBody, Fill, Empty, Retest,
        TestPredicate, Goto,
        ActorTypes, StopsMatch, LeftWithReason
  <2>6. NoLostStop'
    BY <1>0, <1>3
    DEF WorkStep, ProduceBody, ConsumeBody, Fill, Empty, Retest,
        TestPredicate, Goto,
        ActorTypes, StopsMatch, ActorHolder, NoLostStop
  <2> QED BY <2>1, <2>2, <2>3, <2>4, <2>5, <2>6 DEF ActorIInv
<1>4. ASSUME NEW a \in Actors, RestTest(a)
      PROVE  ActorIInv'
  <2>1. ActorTypes'
    BY <1>0, <1>4
    DEF RestTest, bufferVars, Goto, ActorTypes, LoopPlaces, StopPlaces
  <2>2. StopsMatch'
    BY <1>0, <1>4 DEF RestTest, bufferVars, Goto, ActorTypes, StopsMatch
  <2>3. ActorHolder'
    BY <1>0, <1>4
    DEF RestTest, bufferVars, Goto, ActorTypes, StopsMatch, ActorHolder
  <2>4. InsideLoop'
    BY <1>0, <1>4 DEF RestTest, bufferVars, Goto, ActorTypes, InsideLoop
  <2>5. LeftWithReason'
    BY <1>0, <1>4
    DEF RestTest, bufferVars, Goto, ActorTypes, StopsMatch, LeftWithReason
  <2>6. NoLostStop'
    BY <1>0, <1>4
    DEF RestTest, bufferVars, Goto, ActorTypes, StopsMatch, ActorHolder,
        NoLostStop
  <2> QED BY <2>1, <2>2, <2>3, <2>4, <2>5, <2>6 DEF ActorIInv
<1>5. ASSUME NEW a \in Actors, RestSleep(a)
      PROVE  ActorIInv'
  <2>1. ActorTypes'
    BY <1>0, <1>5
    DEF RestSleep, bufferVars, Goto, ActorTypes, LoopPlaces, StopPlaces
  <2>2. StopsMatch'
    BY <1>0, <1>5 DEF RestSleep, bufferVars, Goto, ActorTypes, StopsMatch
  <2>3. ActorHolder'
    BY <1>0, <1>5
    DEF RestSleep, bufferVars, Goto, ActorTypes, StopsMatch, ActorHolder
  <2>4. InsideLoop'
    BY <1>0, <1>5 DEF RestSleep, bufferVars, Goto, ActorTypes, InsideLoop
  <2>5. LeftWithReason'
    BY <1>0, <1>5
    DEF RestSleep, bufferVars, Goto, ActorTypes, StopsMatch, LeftWithReason
  <2>6. NoLostStop'
    BY <1>0, <1>5
    DEF RestSleep, bufferVars, Goto, ActorTypes, StopsMatch, ActorHolder,
        NoLostStop
  <2> QED BY <2>1, <2>2, <2>3, <2>4, <2>5, <2>6 DEF ActorIInv
<1>6. ASSUME NEW a \in Actors, RestSpuriousWakeup(a)
      PROVE  ActorIInv'
  <2>1. ActorTypes'
    BY <1>0, <1>6
    DEF RestSpuriousWakeup, bufferVars, Goto, ActorTypes, LoopPlaces,
        StopPlaces
  <2>2. StopsMatch'
    BY <1>0, <1>6
    DEF RestSpuriousWakeup, bufferVars, Goto, ActorTypes, StopsMatch
  <2>3. ActorHolder'
    BY <1>0, <1>6
    DEF RestSpuriousWakeup, bufferVars, Goto, ActorTypes, StopsMatch,
        ActorHolder
  <2>4. InsideLoop'
    BY <1>0, <1>6
    DEF RestSpuriousWakeup, bufferVars, Goto, ActorTypes, InsideLoop
  <2>5. LeftWithReason'
    BY <1>0, <1>6
    DEF RestSpuriousWakeup, bufferVars, Goto, ActorTypes, StopsMatch,
        LeftWithReason
  <2>6. NoLostStop'
    BY <1>0, <1>6
    DEF RestSpuriousWakeup, bufferVars, Goto, ActorTypes, StopsMatch,
        ActorHolder, NoLostStop
  <2> QED BY <2>1, <2>2, <2>3, <2>4, <2>5, <2>6 DEF ActorIInv
<1>7. ASSUME NEW a \in Actors, RestTimeout(a)
      PROVE  ActorIInv'
  <2>1. ActorTypes'
    BY <1>0, <1>7
    DEF RestTimeout, bufferVars, Goto, ActorTypes, LoopPlaces, StopPlaces
  <2>2. StopsMatch'
    BY <1>0, <1>7 DEF RestTimeout, bufferVars, Goto, ActorTypes, StopsMatch
  <2>3. ActorHolder'
    BY <1>0, <1>7
    DEF RestTimeout, bufferVars, Goto, ActorTypes, StopsMatch, ActorHolder
  <2>4. InsideLoop'
    BY <1>0, <1>7 DEF RestTimeout, bufferVars, Goto, ActorTypes, InsideLoop
  <2>5. LeftWithReason'
    BY <1>0, <1>7
    DEF RestTimeout, bufferVars, Goto, ActorTypes, StopsMatch, LeftWithReason
  <2>6. NoLostStop'
    BY <1>0, <1>7
    DEF RestTimeout, bufferVars, Goto, ActorTypes, StopsMatch, ActorHolder,
        NoLostStop
  <2> QED BY <2>1, <2>2, <2>3, <2>4, <2>5, <2>6 DEF ActorIInv
<1>8. ASSUME NEW a \in Actors, RestReturn(a)
      PROVE  ActorIInv'
  <2>1. ActorTypes'
    BY <1>0, <1>8
    DEF RestReturn, bufferVars, Goto, ActorTypes, LoopPlaces, StopPlaces
  <2>2. StopsMatch'
    BY <1>0, <1>8 DEF RestReturn, bufferVars, Goto, ActorTypes, StopsMatch
  <2>3. ActorHolder'
    BY <1>0, <1>8
    DEF RestReturn, bufferVars, Goto, ActorTypes, StopsMatch, ActorHolder
  <2>4. InsideLoop'
    BY <1>0, <1>8 DEF RestReturn, bufferVars, Goto, ActorTypes, InsideLoop
  <2>5. LeftWithReason'
    BY <1>0, <1>8
    DEF RestReturn, bufferVars, Goto, ActorTypes, StopsMatch, LeftWithReason
  <2>6. NoLostStop'
    BY <1>0, <1>8
    DEF RestReturn, bufferVars, Goto, ActorTypes, StopsMatch, ActorHolder,
        NoLostStop
  <2> QED BY <2>1, <2>2, <2>3, <2>4, <2>5, <2>6 DEF ActorIInv
<1>9. ASSUME NEW c \in Clients, NEW a \in Actors, Start(c, a)
      PROVE  ActorIInv'
  <2>1. ActorTypes'
    BY <1>0, <1>9
    DEF Start, bufferVars, Goto, ActorTypes, LoopPlaces, StopPlaces
  <2>2. StopsMatch'
    BY <1>0, <1>9 DEF Start, bufferVars, Goto, ActorTypes, StopsMatch
  <2>3. ActorHolder'
    BY <1>0, <1>9
    DEF Start, bufferVars, Goto, ActorTypes, StopsMatch, ActorHolder
  <2>4. InsideLoop'
    BY <1>0, <1>9 DEF Start, bufferVars, Goto, ActorTypes, InsideLoop
  <2>5. LeftWithReason'
    BY <1>0, <1>9
    DEF Start, bufferVars, Goto, ActorTypes, StopsMatch, LeftWithReason
  <2>6. NoLostStop'
    BY <1>0, <1>9
    DEF Start, bufferVars, Goto, ActorTypes, StopsMatch, ActorHolder,
        NoLostStop
  <2> QED BY <2>1, <2>2, <2>3, <2>4, <2>5, <2>6 DEF ActorIInv
<1>10. ASSUME NEW c \in Clients, NEW a \in Actors, StopCall(c, a)
      PROVE  ActorIInv'
  <2>1. ActorTypes'
    BY <1>0, <1>10 DEF StopCall, bufferVars, ActorTypes, LoopPlaces, StopPlaces
  <2>2. StopsMatch'
    BY <1>0, <1>10 DEF StopCall, bufferVars, ActorTypes, StopsMatch
  <2>3. ActorHolder'
    BY <1>0, <1>10
    DEF StopCall, bufferVars, ActorTypes, StopsMatch, ActorHolder
  <2>4. InsideLoop'
    BY <1>0, <1>10 DEF StopCall, bufferVars, ActorTypes, InsideLoop
  <2>5. LeftWithReason'
    BY <1>0, <1>10
    DEF StopCall, bufferVars, ActorTypes, StopsMatch, LeftWithReason
  <2>6. NoLostStop'
    BY <1>0, <1>10
    DEF StopCall, bufferVars, ActorTypes, StopsMatch, ActorHolder, NoLostStop
  <2> QED BY <2>1, <2>2, <2>3, <2>4, <2>5, <2>6 DEF ActorIInv
<1>11. ASSUME NEW c \in Clients, StopLock(c)
      PROVE  ActorIInv'
  <2>1. ActorTypes'
    BY <1>0, <1>11 DEF StopLock, CallNotify, ActorTypes, LoopPlaces, StopPlaces
  <2>2. StopsMatch'
    BY <1>0, <1>11 DEF StopLock, CallNotify, ActorTypes, StopsMatch
  <2>3. ActorHolder'
    BY <1>0, <1>11
    DEF StopLock, CallNotify, ActorTypes, StopsMatch, ActorHolder
  <2>4. InsideLoop'
    BY <1>0, <1>11 DEF StopLock, CallNotify, ActorTypes, InsideLoop
  <2>5. LeftWithReason'
    BY <1>0, <1>11
    DEF StopLock, CallNotify, ActorTypes, StopsMatch, LeftWithReason
  <2>6. NoLostStop'
    BY <1>0, <1>11
    DEF StopLock, CallNotify, ActorTypes, StopsMatch, ActorHolder, NoLostStop
  <2> QED BY <2>1, <2>2, <2>3, <2>4, <2>5, <2>6 DEF ActorIInv
<1>12. ASSUME NEW c \in Clients, StopNotified(c)
      PROVE  ActorIInv'
  <2>1. ActorTypes'
    BY <1>0, <1>12
    DEF StopNotified, NotifyBody, ActorTypes, LoopPlaces, StopPlaces
  <2>2. StopsMatch'
    BY <1>0, <1>12 DEF StopNotified, NotifyBody, ActorTypes, StopsMatch
  <2>3. ActorHolder'
    BY <1>0, <1>12
    DEF StopNotified, NotifyBody, ActorTypes, StopsMatch, ActorHolder
  <2>4. InsideLoop'
    BY <1>0, <1>12
    DEF StopNotified, NotifyBody, ActorTypes, InsideLoop, Return, NotifyAll
  <2>5. LeftWithReason'
    BY <1>0, <1>12
    DEF StopNotified, NotifyBody, ActorTypes, StopsMatch, LeftWithReason
  <2>6. NoLostStop'
    BY <1>0, <1>12
    DEF StopNotified, NotifyBody, ActorTypes, StopsMatch, ActorHolder,
        NoLostStop
  <2> QED BY <2>1, <2>2, <2>3, <2>4, <2>5, <2>6 DEF ActorIInv
<1>13. ASSUME NEW c \in Clients, StopSignal(c)
      PROVE  ActorIInv'
  <2>1. ActorTypes'
    BY <1>0, <1>13
    DEF StopSignal, bufferVars, ActorTypes, LoopPlaces, StopPlaces
  <2>2. StopsMatch'
    BY <1>0, <1>13 DEF StopSignal, bufferVars, ActorTypes, StopsMatch
  <2>3. ActorHolder'
    BY <1>0, <1>13
    DEF StopSignal, bufferVars, ActorTypes, StopsMatch, ActorHolder
  <2>4. InsideLoop'
    BY <1>0, <1>13 DEF StopSignal, bufferVars, ActorTypes, InsideLoop
  <2>5. LeftWithReason'
    BY <1>0, <1>13
    DEF StopSignal, bufferVars, ActorTypes, StopsMatch, LeftWithReason
  <2>6. NoLostStop'
    BY <1>0, <1>13
    DEF StopSignal, bufferVars, ActorTypes, StopsMatch, ActorHolder, NoLostStop
  <2> QED BY <2>1, <2>2, <2>3, <2>4, <2>5, <2>6 DEF ActorIInv
<1>14. ASSUME NEW c \in Clients, StopJoin(c)
      PROVE  ActorIInv'
  <2>1. ActorTypes'
    BY <1>0, <1>14
    DEF StopJoin, bufferVars, Goto, ActorTypes, LoopPlaces, StopPlaces
  <2>2. StopsMatch'
    BY <1>0, <1>14 DEF StopJoin, bufferVars, Goto, ActorTypes, StopsMatch
  <2>3. ActorHolder'
    BY <1>0, <1>14
    DEF StopJoin, bufferVars, Goto, ActorTypes, StopsMatch, ActorHolder
  <2>4. InsideLoop'
    BY <1>0, <1>14 DEF StopJoin, bufferVars, Goto, ActorTypes, InsideLoop
  <2>5. LeftWithReason'
    BY <1>0, <1>14
    DEF StopJoin, bufferVars, Goto, ActorTypes, StopsMatch, LeftWithReason
  <2>6. NoLostStop'
    BY <1>0, <1>14
    DEF StopJoin, bufferVars, Goto, ActorTypes, StopsMatch, ActorHolder,
        NoLostStop
  <2> QED BY <2>1, <2>2, <2>3, <2>4, <2>5, <2>6 DEF ActorIInv
<1>15. ASSUME NEW a \in Actors,
             CheckCall(a) \/ WorkCall(a) \/ WorkSleep(a) \/ WorkWakeup(a)
      PROVE  ActorIInv'
  <2>1. UNCHANGED <<actorVars, actorQuit, quitSignal>>
    BY <1>15 DEF CheckCall, WorkCall, WorkSleep, WorkWakeup, CallIsRunning,
                 CallProduce, CallConsume, Enter, Sleep, SpuriousWakeup
  <2>2. \A b \in Actors : at'[b] # "out" => loop[b] \in {"check", "work"}
    BY <1>0, <1>15 DEF InsideLoop, CheckCall, WorkCall, WorkSleep, WorkWakeup,
      CallIsRunning, CallProduce, CallConsume, Enter, Sleep, SpuriousWakeup
  <2> QED BY <1>1, <2>1, <2>2
<1>16. ASSUME NEW c \in Clients, ClientCall(c) \/ ClientBody(c)
      PROVE  ActorIInv'
  <2>1. UNCHANGED <<actorVars, actorQuit>> /\ (quitSignal => quitSignal')
    BY <1>16 DEF ClientCall, ClientBody, CallStop, CallGetCurrentIndex,
                 CallIsRunning, Enter, StopBody, ReadBody
  <2>2. \A b \in Actors : at'[b] # "out" => loop[b] \in {"check", "work"}
    BY <1>0, <1>16 DEF InsideLoop, ClientCall, ClientBody, CallStop,
      CallGetCurrentIndex, CallIsRunning, Enter, StopBody, ReadBody, Return,
      NotifyAll
  <2> QED BY <1>1, <2>1, <2>2
<1>17. ASSUME NEW t \in Threads, BufferLock(t)
      PROVE  ActorIInv'
  <2>1. UNCHANGED <<actorVars, actorQuit, quitSignal>>
    BY <1>17 DEF BufferLock, Lock
  <2>2. \A b \in Actors : at'[b] # "out" => loop[b] \in {"check", "work"}
    BY <1>0, <1>17 DEF InsideLoop, BufferLock, Lock
  <2> QED BY <1>1, <2>1, <2>2
<1>18. CASE UNCHANGED vars
  BY <1>18
  DEF vars, bufferVars, actorVars, ActorTypes, StopsMatch, ActorHolder,
              InsideLoop, LeftWithReason, NoLostStop
<1> QED
  BY <1>2, <1>3, <1>4, <1>5, <1>6, <1>7, <1>8, <1>9, <1>10, <1>11, <1>12,
      <1>13, <1>14, <1>15, <1>16, <1>17, <1>18
  DEF ActorNext, RunStep, StopStep

\* Both invariants hold in every state of the threads.
LEMMA ActorIInvHolds == ActorSpec => [](IInv /\ ActorIInv)
<1>1. ActorInit => IInv /\ ActorIInv
  BY InitEstablishesIInv, InitEstablishesActorIInv DEF ActorInit
<1>2. IInv /\ ActorIInv /\ [ActorNext]_vars => IInv' /\ ActorIInv'
  BY StepUsesTheBuffer, StepPreservesIInv, StepPreservesActorIInv
<1> QED BY <1>1, <1>2, PTL DEF ActorSpec

-----------------------------------------------------------------------------
(* The theorems *)

\* The threads of the producers and the consumers, and the clients that stop
\* them, call the buffer as SharedBuffer allows: its theorems are theirs.
THEOREM ThreadsUseTheBuffer == ActorSpec => UsesTheBuffer
<1>1. ActorInit => BufferInit
  BY DEF ActorInit
<1> QED BY <1>1, StepUsesTheBuffer, ActorIInvHolds, PTL
        DEF ActorSpec, UsesTheBuffer, BufferSpec

\* Every variable of the threads keeps its type, on every buffer.
THEOREM ActorTypesAreKept == ActorSpec => []ActorTypeOK
<1>1. IInv /\ ActorIInv => ActorTypeOK
  BY DEF IInv, ActorIInv, ActorTypes, ActorTypeOK
<1> QED BY <1>1, ActorIInvHolds, PTL

\* However many actors rest while however many clients stop them: none sleeps out
\* its delay because the signal came between its test and its wait.
THEOREM NoStopIsLost == ActorSpec => []NoLostStop
BY ActorIInvHolds, PTL DEF ActorIInv

\* A thread that has left run() never comes back to the buffer, and left because
\* its actor or the buffer was stopped.
THEOREM ThreadsLeaveForGood == ActorSpec => []LeftForGood
<1>1. IInv /\ ActorIInv => LeftForGood
  BY DEF IInv, TypeOK, ActorIInv, InsideLoop, LeftWithReason, LeftForGood
<1> QED BY <1>1, ActorIInvHolds, PTL

\* An actor that was told to stop starts no new round: rest() looks at the signal
\* under the lock that stop() raised it under.
THEOREM NoNewRound == ActorSpec => NoNewRoundOnceStopped
<1> DEFINE NoNew == \A a \in Actors :
             actorQuit[a] /\ loop[a] # "work" => loop'[a] # "work"
<1>1. ActorIInv /\ [ActorNext]_vars => [NoNew]_vars
  <2> SUFFICES ASSUME ActorIInv, ActorNext PROVE NoNew
    OBVIOUS
  <2> USE DEF ActorIInv, ActorTypes
  <2>1. ASSUME NEW a \in Actors, RunStep(a) PROVE NoNew
    BY <2>1 DEF RunStep, CheckCall, CheckReturn, WorkCall, WorkStep, WorkSleep,
                RestTest, RestSleep, RestReturn, Goto, actorVars
  <2>2. ASSUME NEW a \in Actors,
               WorkWakeup(a) \/ RestSpuriousWakeup(a) \/ RestTimeout(a)
        PROVE  NoNew
    BY <2>2 DEF WorkWakeup, RestSpuriousWakeup, RestTimeout, Goto, actorVars
  <2>3. ASSUME NEW c \in Clients, StopStep(c) \/ ClientCall(c) PROVE NoNew
    BY <2>3 DEF StopStep, ClientCall, ClientBody, StopLock, StopNotified,
                StopSignal, StopJoin, Goto, actorVars
  <2>4. ASSUME NEW c \in Clients, NEW a \in Actors, Start(c, a) \/ StopCall(c, a)
        PROVE  NoNew
    BY <2>4 DEF Start, StopCall, Goto
  <2>5. ASSUME NEW t \in Threads, BufferLock(t) PROVE NoNew
    BY <2>5 DEF BufferLock, actorVars
  <2> QED BY <2>1, <2>2, <2>3, <2>4, <2>5 DEF ActorNext
<1> QED BY <1>1, ActorIInvHolds, PTL DEF ActorSpec, NoNewRoundOnceStopped
=============================================================================
