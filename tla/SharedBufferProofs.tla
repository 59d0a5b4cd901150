------------------------- MODULE SharedBufferProofs -------------------------
(***************************************************************************)
(* The safety of SharedBuffer for every number of actors and clients and   *)
(* every buffer size, and that it implements BoundedBuffer.                *)
(***************************************************************************)
EXTENDS SharedBuffer, TLAPS

\* mutex_ is held by exactly the thread that is inside a critical section.
HolderIsInside == \A t \in Threads : at[t] \in Holding <=> mutex = t

\* A thread has an operation exactly while it is inside one, and it is its own:
\* only actors wait, only producers produce and only consumers consume.
CallsMatch ==
  /\ \A t \in Threads : at[t] = "out" <=> op[t] = "none"
  /\ \A t \in Threads : op[t] = "produce" => t \in Producers
  /\ \A t \in Threads : op[t] = "consume" => t \in Consumers
  /\ \A a \in Actors :
       at[a] \in {"sleep", "asleep", "woken", "retest"}
         => op[a] \in {"produce", "consume"}

\* An event a client has not announced yet is announced by the notify() it is in.
EventIsPending == \A c \in Clients : event[c] # Nobody => op[c] = "notify"

\* The inductive invariant.  NoLostWakeup needs all of it: the event of a client
\* stays pending until its notify() has the mutex, which nobody else is inside,
\* and the sleepers it wakes are actors in an operation that waits.
IInv ==
  /\ TypeOK
  /\ HolderIsInside
  /\ CallsMatch
  /\ EventIsPending
  /\ FilledPrefix
  /\ NoLostWakeup

-----------------------------------------------------------------------------

\* The scan of a buffer whose first k items are filled ends at k.
LEMMA ScanFindsPrefix ==
  ASSUME NEW k \in 0 .. Size
  PROVE  CalculateCurrentIndex([s \in Slots |-> s < k]) = k
<1> DEFINE b == [s \in Slots |-> s < k]
<1> DEFINE IsFirstEmpty(n) ==
             /\ \A s \in Slots : s < n => b[s]
             /\ n < Size => ~b[n]
<1>0. \A s \in Slots : b[s] <=> s < k
  OBVIOUS
<1> HIDE DEF b
<1>1. IsFirstEmpty(k)
  BY <1>0, ConstantsAssumption DEF Slots
<1>2. \A n \in 0 .. Size : IsFirstEmpty(n) => n = k
  BY <1>0, ConstantsAssumption DEF Slots
<1>3. (CHOOSE n \in 0 .. Size : IsFirstEmpty(n)) = k
  <2> HIDE DEF IsFirstEmpty
  <2> QED BY <1>1, <1>2
<1> QED BY <1>3 DEF CalculateCurrentIndex, b

\* A buffer as the constructor leaves it satisfies the invariant.
LEMMA InitEstablishesIInv == BufferInit => IInv
<1> SUFFICES ASSUME BufferInit PROVE IInv
  OBVIOUS
<1> USE ConstantsAssumption
<1>1. PICK k \in 0 .. Size : items = [s \in Slots |-> s < k]
  BY DEF BufferInit, InitialItems
<1>2. currentIndex = k
  BY <1>1, ScanFindsPrefix DEF BufferInit
<1>3. TypeOK
  <2>1. items \in [Slots -> BOOLEAN]
    BY <1>1
  <2>2. currentIndex \in 0 .. Size
    BY <1>2
  <2> QED BY <2>1, <2>2 DEF BufferInit, TypeOK, Places
<1>4. FilledPrefix
  BY <1>1, <1>2 DEF FilledPrefix
<1>5. HolderIsInside /\ CallsMatch /\ EventIsPending /\ NoLostWakeup
  BY DEF BufferInit, HolderIsInside, Holding, CallsMatch, EventIsPending,
         NoLostWakeup, Actors, Threads
<1> QED BY <1>3, <1>4, <1>5 DEF IInv

-----------------------------------------------------------------------------

\* Every step of the monitor keeps the invariant: one step of the proof for every
\* action, with one for every part of the invariant under it.
LEMMA StepPreservesIInv == IInv /\ [BufferNext]_bufferVars => IInv'
<1> SUFFICES ASSUME IInv, [BufferNext]_bufferVars PROVE IInv'
  OBVIOUS
<1> USE ConstantsAssumption DEF IInv, Actors, Threads
<1>1. ASSUME NEW t \in Threads,
            Lock(t)
     PROVE  IInv'
  <2>1. TypeOK'
    BY <1>1 DEF Lock, TypeOK, Places, Slots
  <2>2. HolderIsInside'
    BY <1>1 DEF Lock, TypeOK, HolderIsInside, Holding
  <2>3. CallsMatch'
    BY <1>1 DEF Lock, TypeOK, CallsMatch
  <2>4. EventIsPending'
    BY <1>1 DEF Lock, TypeOK, CallsMatch, EventIsPending
  <2>5. FilledPrefix'
    BY <1>1 DEF Lock, TypeOK, FilledPrefix, Slots
  <2>6. NoLostWakeup'
    BY <1>1
    DEF Lock, TypeOK, HolderIsInside, Holding, CallsMatch, EventIsPending,
        NoLostWakeup, HasWork, Announcing
  <2> QED BY <2>1, <2>2, <2>3, <2>4, <2>5, <2>6 DEF IInv
<1>2. ASSUME NEW t \in Threads, NEW o \in Operations,
            Enter(t, o), UNCHANGED event,
            o = "produce" => t \in Producers, o = "consume" => t \in Consumers
     PROVE  IInv'
  <2>1. TypeOK'
    BY <1>2 DEF Enter, Operations, TypeOK, Places, Slots
  <2>2. HolderIsInside'
    BY <1>2 DEF Enter, Operations, TypeOK, HolderIsInside, Holding
  <2>3. CallsMatch'
    BY <1>2 DEF Enter, Operations, TypeOK, CallsMatch
  <2>4. EventIsPending'
    BY <1>2 DEF Enter, Operations, TypeOK, CallsMatch, EventIsPending
  <2>5. FilledPrefix'
    BY <1>2 DEF Enter, Operations, TypeOK, FilledPrefix, Slots
  <2>6. NoLostWakeup'
    BY <1>2
    DEF Enter, Operations, TypeOK, HolderIsInside, Holding, CallsMatch,
        EventIsPending, NoLostWakeup, HasWork, Announcing
  <2> QED BY <2>1, <2>2, <2>3, <2>4, <2>5, <2>6 DEF IInv
<1>3. ASSUME NEW c \in Clients, NEW a \in Actors,
            CallNotify(c, a)
     PROVE  IInv'
  <2>1. TypeOK'
    BY <1>3 DEF CallNotify, Operations, TypeOK, Places, Slots
  <2>2. HolderIsInside'
    BY <1>3 DEF CallNotify, Operations, TypeOK, HolderIsInside, Holding
  <2>3. CallsMatch'
    BY <1>3 DEF CallNotify, Operations, TypeOK, CallsMatch
  <2>4. EventIsPending'
    BY <1>3 DEF CallNotify, Operations, TypeOK, CallsMatch, EventIsPending
  <2>5. FilledPrefix'
    BY <1>3 DEF CallNotify, Operations, TypeOK, FilledPrefix, Slots
  <2>6. NoLostWakeup'
    BY <1>3
    DEF CallNotify, Operations, TypeOK, HolderIsInside, Holding, CallsMatch,
        EventIsPending, NoLostWakeup, HasWork, Announcing
  <2> QED BY <2>1, <2>2, <2>3, <2>4, <2>5, <2>6 DEF IInv
<1>4. ASSUME NEW a \in Actors,
            TestPredicate(a), at[a] \in {"body", "retest"},
            op[a] \in {"produce", "consume"}
     PROVE  IInv'
  <2>1. TypeOK'
    BY <1>4
    DEF TestPredicate, SeenRunning, StopsWaiting, Return, TypeOK, Places, Slots
  <2>2. HolderIsInside'
    BY <1>4
    DEF TestPredicate, SeenRunning, StopsWaiting, Return, TypeOK,
        HolderIsInside, Holding
  <2>3. CallsMatch'
    BY <1>4
    DEF TestPredicate, SeenRunning, StopsWaiting, Return, TypeOK, CallsMatch
  <2>4. EventIsPending'
    BY <1>4
    DEF TestPredicate, SeenRunning, StopsWaiting, Return, TypeOK, CallsMatch,
        EventIsPending
  <2>5. FilledPrefix'
    BY <1>4
    DEF TestPredicate, SeenRunning, StopsWaiting, Return, TypeOK,
        FilledPrefix, Slots
  <2>6. NoLostWakeup'
    <3>1. PICK running \in SeenRunning(a) :
            \/ StopsWaiting(a, running) /\ Return(a, at)
            \/ ~StopsWaiting(a, running) /\ at' = [at EXCEPT ![a] = "sleep"]
      BY <1>4 DEF TestPredicate
    <3>2. \A b \in Actors : HasWork(b)' = HasWork(b) /\ Announcing(b)' = Announcing(b)
      BY <1>4 DEF TestPredicate, HasWork, Announcing
    <3>3. UNCHANGED <<quitSignal, actorQuit>>
      BY <1>4 DEF TestPredicate
    <3>4. CASE Return(a, at)
      BY <3>2, <3>3, <3>4 DEF Return, TypeOK, NoLostWakeup
    <3>5. CASE ~StopsWaiting(a, running) /\ at' = [at EXCEPT ![a] = "sleep"]
      <4>1. actorQuit[a] => Announcing(a)
        BY <3>5 DEF SeenRunning, StopsWaiting
      <4>2. ~HasWork(a) /\ ~quitSignal
        BY <3>5 DEF StopsWaiting
      <4> QED BY <3>2, <3>3, <3>5, <4>1, <4>2 DEF TypeOK, NoLostWakeup
    <3> QED BY <3>1, <3>4, <3>5
  <2> QED BY <2>1, <2>2, <2>3, <2>4, <2>5, <2>6 DEF IInv
<1>5. ASSUME NEW p \in Producers,
            InBody(p, "produce"), currentIndex < Size,
            items' = [items EXCEPT ![currentIndex] = TRUE],
            currentIndex' = currentIndex + 1, Return(p, NotifyAll),
            UNCHANGED <<quitSignal, actorQuit, event>>
     PROVE  IInv'
  <2>1. TypeOK'
    BY <1>5 DEF InBody, Return, NotifyAll, TypeOK, Places, Slots
  <2>2. HolderIsInside'
    BY <1>5 DEF InBody, Return, NotifyAll, TypeOK, HolderIsInside, Holding
  <2>3. CallsMatch'
    BY <1>5 DEF InBody, Return, NotifyAll, TypeOK, CallsMatch
  <2>4. EventIsPending'
    BY <1>5 DEF InBody, Return, NotifyAll, TypeOK, CallsMatch, EventIsPending
  <2>5. FilledPrefix'
    BY <1>5 DEF InBody, Return, NotifyAll, TypeOK, FilledPrefix, Slots
  <2>6. NoLostWakeup'
    BY <1>5
    DEF InBody, Return, NotifyAll, TypeOK, HolderIsInside, Holding,
        CallsMatch, EventIsPending, NoLostWakeup, HasWork, Announcing
  <2> QED BY <2>1, <2>2, <2>3, <2>4, <2>5, <2>6 DEF IInv
<1>6. ASSUME NEW c \in Consumers,
            InBody(c, "consume"), currentIndex > 0,
            items' = [items EXCEPT ![currentIndex - 1] = FALSE],
            currentIndex' = currentIndex - 1, Return(c, NotifyAll),
            UNCHANGED <<quitSignal, actorQuit, event>>
     PROVE  IInv'
  <2>1. TypeOK'
    BY <1>6 DEF InBody, Return, NotifyAll, TypeOK, Places, Slots
  <2>2. HolderIsInside'
    BY <1>6 DEF InBody, Return, NotifyAll, TypeOK, HolderIsInside, Holding
  <2>3. CallsMatch'
    BY <1>6 DEF InBody, Return, NotifyAll, TypeOK, CallsMatch
  <2>4. EventIsPending'
    BY <1>6 DEF InBody, Return, NotifyAll, TypeOK, CallsMatch, EventIsPending
  <2>5. FilledPrefix'
    BY <1>6 DEF InBody, Return, NotifyAll, TypeOK, FilledPrefix, Slots
  <2>6. NoLostWakeup'
    BY <1>6
    DEF InBody, Return, NotifyAll, TypeOK, HolderIsInside, Holding,
        CallsMatch, EventIsPending, NoLostWakeup, HasWork, Announcing
  <2> QED BY <2>1, <2>2, <2>3, <2>4, <2>5, <2>6 DEF IInv
<1>7. ASSUME NEW a \in Actors,
            Sleep(a)
     PROVE  IInv'
  <2>1. TypeOK'
    BY <1>7 DEF Sleep, TypeOK, Places, Slots
  <2>2. HolderIsInside'
    BY <1>7 DEF Sleep, TypeOK, HolderIsInside, Holding
  <2>3. CallsMatch'
    BY <1>7 DEF Sleep, TypeOK, CallsMatch
  <2>4. EventIsPending'
    BY <1>7 DEF Sleep, TypeOK, CallsMatch, EventIsPending
  <2>5. FilledPrefix'
    BY <1>7 DEF Sleep, TypeOK, FilledPrefix, Slots
  <2>6. NoLostWakeup'
    BY <1>7
    DEF Sleep, TypeOK, HolderIsInside, Holding, CallsMatch, EventIsPending,
        NoLostWakeup, HasWork, Announcing
  <2> QED BY <2>1, <2>2, <2>3, <2>4, <2>5, <2>6 DEF IInv
<1>8. ASSUME NEW a \in Actors,
            SpuriousWakeup(a)
     PROVE  IInv'
  <2>1. TypeOK'
    BY <1>8 DEF SpuriousWakeup, TypeOK, Places, Slots
  <2>2. HolderIsInside'
    BY <1>8 DEF SpuriousWakeup, TypeOK, HolderIsInside, Holding
  <2>3. CallsMatch'
    BY <1>8 DEF SpuriousWakeup, TypeOK, CallsMatch
  <2>4. EventIsPending'
    BY <1>8 DEF SpuriousWakeup, TypeOK, CallsMatch, EventIsPending
  <2>5. FilledPrefix'
    BY <1>8 DEF SpuriousWakeup, TypeOK, FilledPrefix, Slots
  <2>6. NoLostWakeup'
    BY <1>8
    DEF SpuriousWakeup, TypeOK, HolderIsInside, Holding, CallsMatch,
        EventIsPending, NoLostWakeup, HasWork, Announcing
  <2> QED BY <2>1, <2>2, <2>3, <2>4, <2>5, <2>6 DEF IInv
<1>9. ASSUME NEW c \in Clients,
            StopBody(c)
     PROVE  IInv'
  <2>1. TypeOK'
    BY <1>9 DEF StopBody, InBody, Return, NotifyAll, TypeOK, Places, Slots
  <2>2. HolderIsInside'
    BY <1>9
    DEF StopBody, InBody, Return, NotifyAll, TypeOK, HolderIsInside, Holding
  <2>3. CallsMatch'
    BY <1>9 DEF StopBody, InBody, Return, NotifyAll, TypeOK, CallsMatch
  <2>4. EventIsPending'
    BY <1>9
    DEF StopBody, InBody, Return, NotifyAll, TypeOK, CallsMatch, EventIsPending
  <2>5. FilledPrefix'
    BY <1>9
    DEF StopBody, InBody, Return, NotifyAll, TypeOK, FilledPrefix, Slots
  <2>6. NoLostWakeup'
    BY <1>9
    DEF StopBody, InBody, Return, NotifyAll, TypeOK, HolderIsInside, Holding,
        CallsMatch, EventIsPending, NoLostWakeup, HasWork, Announcing
  <2> QED BY <2>1, <2>2, <2>3, <2>4, <2>5, <2>6 DEF IInv
<1>10. ASSUME NEW c \in Clients,
            NotifyBody(c)
     PROVE  IInv'
  <2>1. TypeOK'
    BY <1>10 DEF NotifyBody, InBody, Return, NotifyAll, TypeOK, Places, Slots
  <2>2. HolderIsInside'
    BY <1>10
    DEF NotifyBody, InBody, Return, NotifyAll, TypeOK, HolderIsInside, Holding
  <2>3. CallsMatch'
    BY <1>10 DEF NotifyBody, InBody, Return, NotifyAll, TypeOK, CallsMatch
  <2>4. EventIsPending'
    BY <1>10
    DEF NotifyBody, InBody, Return, NotifyAll, TypeOK, CallsMatch,
        EventIsPending
  <2>5. FilledPrefix'
    BY <1>10
    DEF NotifyBody, InBody, Return, NotifyAll, TypeOK, FilledPrefix, Slots
  <2>6. NoLostWakeup'
    BY <1>10
    DEF NotifyBody, InBody, Return, NotifyAll, TypeOK, HolderIsInside,
        Holding, CallsMatch, EventIsPending, NoLostWakeup, HasWork, Announcing
  <2> QED BY <2>1, <2>2, <2>3, <2>4, <2>5, <2>6 DEF IInv
<1>11. ASSUME NEW t \in Threads,
            ReadBody(t)
     PROVE  IInv'
  <2>1. TypeOK'
    BY <1>11 DEF ReadBody, InBody, Return, TypeOK, Places, Slots
  <2>2. HolderIsInside'
    BY <1>11 DEF ReadBody, InBody, Return, TypeOK, HolderIsInside, Holding
  <2>3. CallsMatch'
    BY <1>11 DEF ReadBody, InBody, Return, TypeOK, CallsMatch
  <2>4. EventIsPending'
    BY <1>11 DEF ReadBody, InBody, Return, TypeOK, CallsMatch, EventIsPending
  <2>5. FilledPrefix'
    BY <1>11 DEF ReadBody, InBody, Return, TypeOK, FilledPrefix, Slots
  <2>6. NoLostWakeup'
    BY <1>11
    DEF ReadBody, InBody, Return, TypeOK, HolderIsInside, Holding, CallsMatch,
        EventIsPending, NoLostWakeup, HasWork, Announcing
  <2> QED BY <2>1, <2>2, <2>3, <2>4, <2>5, <2>6 DEF IInv
<1>12. CASE UNCHANGED bufferVars
  BY <1>12
  DEF bufferVars, TypeOK, HolderIsInside, CallsMatch, EventIsPending,
      FilledPrefix, NoLostWakeup, HasWork, Announcing
<1> QED
  <2>1. ASSUME NEW a \in Actors, ActorStep(a) PROVE IInv'
    BY <2>1, <1>2, <1>4, <1>5, <1>6, <1>7, <1>8
    DEF ActorStep, CallProduce, CallConsume, ProduceBody, ConsumeBody, Fill,
        Empty, Retest,
        InBody, CallsMatch, Operations
  <2>2. ASSUME NEW c \in Clients, ClientStep(c) PROVE IInv'
    BY <2>2, <1>2, <1>3, <1>9, <1>10
    DEF ClientStep, CallStop, CallGetCurrentIndex, Operations
  <2>3. ASSUME NEW t \in Threads, AnyStep(t) PROVE IInv'
    BY <2>3, <1>1, <1>2, <1>11 DEF AnyStep, CallIsRunning, Operations
  <2> QED BY <1>12, <2>1, <2>2, <2>3 DEF BufferNext

\* The invariant holds in every state of every behaviour.
LEMMA IInvHolds == BufferSpec => []IInv
BY InitEstablishesIInv, StepPreservesIInv, PTL DEF BufferSpec

\* Type correctness: the index never leaves the buffer, whatever its size, and
\* the threads never leave the places the monitor gives them.
THEOREM TypesAreKept == BufferSpec => []TypeOK
BY IInvHolds, PTL DEF IInv

\* fill() only ever meets an empty item and empty() a filled one.
THEOREM PrefixIsKept == BufferSpec => []FilledPrefix
BY IInvHolds, PTL DEF IInv

\* No wake-up is lost, although the quit signal of an actor is written without
\* the mutex its wait predicate is tested under.
THEOREM NoWakeupIsLost == BufferSpec => []NoLostWakeup
BY IInvHolds, PTL DEF IInv

\* A producer and a consumer are never asleep together in a buffer with a slot:
\* the first sleeps over a full buffer, the second over an empty one.
THEOREM NeverBothAsleepHolds == BufferSpec => []NeverBothAsleep
<1>1. IInv => NeverBothAsleep
  <2> SUFFICES ASSUME IInv, Size > 0,
                      NEW p \in Producers, NEW c \in Consumers,
                      at[p] = "asleep", at[c] = "asleep"
               PROVE  FALSE
    BY DEF NeverBothAsleep
  <2>1. ~HasWork(p) /\ ~HasWork(c)
    BY DEF IInv, NoLostWakeup, Actors
  <2>2. c \notin Producers
    BY ConstantsAssumption
  <2>3. ~(currentIndex < Size) /\ ~(currentIndex > 0)
    BY <2>1, <2>2 DEF HasWork
  <2> QED BY <2>3, ConstantsAssumption DEF IInv, TypeOK
<1> QED BY <1>1, IInvHolds, PTL

-----------------------------------------------------------------------------
(* The monitor implements a bounded buffer *)

\* The index tells what the items say: because the filled items are a prefix.
LEMMA WorkIsService ==
  ASSUME IInv, NEW a \in Actors
  PROVE  HasWork(a) <=> Promised!CanServe(a)
<1> USE ConstantsAssumption
<1>1. currentIndex \in 0 .. Size /\ \A s \in Slots : items[s] <=> s < currentIndex
  BY DEF IInv, TypeOK, FilledPrefix
<1>2. currentIndex < Size <=> {s \in Slots : items[s]} # Slots
  <2>1. currentIndex < Size => currentIndex \in Slots /\ ~items[currentIndex]
    BY <1>1 DEF Slots
  <2>2. ~(currentIndex < Size) => \A s \in Slots : items[s]
    BY <1>1 DEF Slots
  <2> QED BY <2>1, <2>2
<1>3. currentIndex > 0 <=> {s \in Slots : items[s]} # {}
  <2>1. currentIndex > 0 => currentIndex - 1 \in Slots /\ items[currentIndex - 1]
    BY <1>1 DEF Slots
  <2>2. ~(currentIndex > 0) => \A s \in Slots : ~items[s]
    BY <1>1 DEF Slots
  <2> QED BY <2>1, <2>2
<1> QED BY <1>2, <1>3 DEF HasWork, Promised!CanServe, Actors

\* A constructed buffer is an open one with nobody blocked.
LEMMA InitImplementsInit == BufferInit => Promised!Init
BY DEF BufferInit, Promised!Init, Actors, Threads

\* A step of the monitor is one of the bounded buffer, or invisible to it: only
\* the bodies of produce, consume and stop, the raising of an actor's quit signal
\* and the tests of the wait predicate show outside.
LEMMA StepImplementsStep ==
  IInv /\ [BufferNext]_bufferVars => [Promised!Next]_Promised!abstractVars
<1> SUFFICES ASSUME IInv, [BufferNext]_bufferVars
             PROVE  [Promised!Next]_Promised!abstractVars
  OBVIOUS
<1> USE ConstantsAssumption DEF IInv, Actors, Threads
<1> DEFINE blocking == {"sleep", "asleep", "woken", "retest"}
           filled == {s \in Slots : items[s]}
           blocked == {a \in Actors : at[a] \in blocking}
           dismissed == {a \in Actors : actorQuit[a]}
           Stutter == UNCHANGED <<items, quitSignal, actorQuit>> /\ blocked' = blocked
<1>a. Stutter => UNCHANGED Promised!abstractVars
  BY DEF Promised!abstractVars
<1>1. ASSUME NEW t \in Threads, Lock(t)
      PROVE  Stutter
  BY <1>1 DEF Lock, TypeOK
<1>2. ASSUME NEW t \in Threads, NEW o \in Operations, Enter(t, o)
      PROVE  Stutter
  BY <1>2 DEF Enter, TypeOK
<1>3. ASSUME NEW c \in Clients, NEW a \in Actors, CallNotify(c, a)
      PROVE  Promised!Dismiss(a)
  <2>1. dismissed' = dismissed \cup {a}
    BY <1>3 DEF CallNotify, TypeOK
  <2>2. blocked' = blocked
    BY <1>3 DEF CallNotify, TypeOK
  <2> QED BY <1>3, <2>1, <2>2 DEF CallNotify, Promised!Dismiss
<1>4. ASSUME NEW a \in Actors, TestPredicate(a), at[a] \in {"body", "retest"}
      PROVE  Stutter \/ Promised!Block(a) \/ Promised!Release(a)
  <2>1. PICK running \in SeenRunning(a) :
          \/ StopsWaiting(a, running) /\ Return(a, at)
          \/ ~StopsWaiting(a, running) /\ at' = [at EXCEPT ![a] = "sleep"]
    BY <1>4 DEF TestPredicate
  <2>2. UNCHANGED <<items, quitSignal, actorQuit>>
    BY <1>4 DEF TestPredicate
  <2>3. CASE Return(a, at) /\ at[a] = "body"
    BY <2>2, <2>3 DEF Return, TypeOK
  <2>4. CASE StopsWaiting(a, running) /\ Return(a, at) /\ at[a] = "retest"
    <3>1. blocked' = blocked \ {a}
      BY <2>4 DEF Return, TypeOK
    <3>2. a \in blocked
      BY <2>4
    <3>3. HasWork(a) \/ quitSignal \/ actorQuit[a]
      BY <2>4 DEF StopsWaiting, SeenRunning
    <3>4. Promised!CanServe(a) \/ quitSignal \/ a \in dismissed
      BY <3>3, WorkIsService
    <3> QED BY <2>2, <3>1, <3>2, <3>4 DEF Promised!Release
  <2>5. CASE at' = [at EXCEPT ![a] = "sleep"] /\ at[a] = "retest"
    BY <2>2, <2>5 DEF TypeOK
  <2>6. CASE /\ ~StopsWaiting(a, running) /\ at' = [at EXCEPT ![a] = "sleep"]
             /\ at[a] = "body"
    <3>1. blocked' = blocked \cup {a}
      BY <2>6 DEF TypeOK
    <3>2. a \notin blocked
      BY <2>6
    <3>3. ~Promised!CanServe(a) /\ ~quitSignal
      BY <2>6, WorkIsService DEF StopsWaiting
    <3> QED BY <2>2, <3>1, <3>2, <3>3 DEF Promised!Block
  <2> QED BY <1>4, <2>1, <2>3, <2>4, <2>5, <2>6
<1>5. ASSUME NEW p \in Producers, ProduceBody(p)
      PROVE  Stutter \/ Promised!Put(p) \/ Promised!Block(p) \/ Promised!Release(p)
  <2>1. CASE TestPredicate(p)
    BY <1>4, <1>5, <2>1 DEF ProduceBody, InBody, Fill
  <2>2. CASE /\ currentIndex < Size
             /\ items' = [items EXCEPT ![currentIndex] = TRUE]
             /\ Return(p, NotifyAll)
             /\ UNCHANGED <<quitSignal, actorQuit, event>>
    <3>1. currentIndex \in Slots \ filled
      BY <2>2 DEF TypeOK, FilledPrefix, Slots
    <3>2. filled' = filled \cup {currentIndex}
      BY <2>2, <3>1 DEF TypeOK
    <3>3. at[p] = "body"
      BY <1>5 DEF ProduceBody, InBody, Fill
    <3>4. blocked' = blocked /\ p \notin blocked
      BY <2>2, <3>3 DEF Return, NotifyAll, TypeOK
    <3> QED BY <2>2, <3>1, <3>2, <3>4 DEF Promised!Put
  <2> QED BY <1>5, <2>1, <2>2 DEF ProduceBody, Fill
<1>6. ASSUME NEW c \in Consumers, ConsumeBody(c)
      PROVE  Stutter \/ Promised!Take(c) \/ Promised!Block(c) \/ Promised!Release(c)
  <2>1. CASE TestPredicate(c)
    BY <1>4, <1>6, <2>1 DEF ConsumeBody, InBody, Empty
  <2>2. CASE /\ currentIndex > 0
             /\ items' = [items EXCEPT ![currentIndex - 1] = FALSE]
             /\ Return(c, NotifyAll)
             /\ UNCHANGED <<quitSignal, actorQuit, event>>
    <3>1. currentIndex - 1 \in filled
      BY <2>2 DEF TypeOK, FilledPrefix, Slots
    <3>2. filled' = filled \ {currentIndex - 1}
      BY <2>2, <3>1 DEF TypeOK
    <3>3. at[c] = "body"
      BY <1>6 DEF ConsumeBody, InBody, Empty
    <3>4. blocked' = blocked /\ c \notin blocked
      BY <2>2, <3>3 DEF Return, NotifyAll, TypeOK
    <3> QED BY <2>2, <3>1, <3>2, <3>4 DEF Promised!Take
  <2> QED BY <1>6, <2>1, <2>2 DEF ConsumeBody, Empty
<1>7. ASSUME NEW a \in Actors, Sleep(a) \/ SpuriousWakeup(a)
      PROVE  Stutter
  BY <1>7 DEF Sleep, SpuriousWakeup, TypeOK
<1>8. ASSUME NEW c \in Clients, StopBody(c)
      PROVE  Promised!Close
  <2>1. blocked' = blocked
    BY <1>8 DEF StopBody, InBody, Return, NotifyAll, TypeOK
  <2> QED BY <1>8, <2>1 DEF StopBody, Promised!Close
<1>9. ASSUME NEW c \in Clients, NotifyBody(c)
      PROVE  Stutter
  BY <1>9 DEF NotifyBody, InBody, Return, NotifyAll, TypeOK
<1>10. ASSUME NEW t \in Threads, ReadBody(t)
       PROVE  Stutter
  BY <1>10 DEF ReadBody, InBody, Return, TypeOK
<1>11. CASE UNCHANGED bufferVars
  BY <1>11, <1>a DEF bufferVars
<1>12. ASSUME NEW a \in Actors, ActorStep(a)
       PROVE  Stutter \/ Promised!Next
  <2> HIDE DEF Stutter
  <2> QED BY <1>12, <1>2, <1>4, <1>5, <1>6, <1>7
          DEF ActorStep, CallProduce, CallConsume, Retest, Operations,
              Promised!Next, Promised!Actors
<1>13. ASSUME NEW c \in Clients, ClientStep(c)
       PROVE  Stutter \/ Promised!Next
  <2> HIDE DEF Stutter
  <2> QED BY <1>13, <1>2, <1>3, <1>8, <1>9
          DEF ClientStep, CallStop, CallGetCurrentIndex, Operations,
              Promised!Next, Promised!Actors
<1>14. ASSUME NEW t \in Threads, AnyStep(t)
       PROVE  Stutter
  <2> HIDE DEF Stutter
  <2> QED BY <1>14, <1>1, <1>2, <1>10 DEF AnyStep, CallIsRunning, Operations
<1> QED
  <2> HIDE DEF Stutter
  <2> QED BY <1>a, <1>11, <1>12, <1>13, <1>14 DEF BufferNext

\* Every behaviour of the monitor, mutex, condition variable, stale reads and
\* all, is one of a bounded buffer that serves one caller per step.
THEOREM ImplementsBoundedBuffer == BufferSpec => Promise
BY InitImplementsInit, StepImplementsStep, IInvHolds, PTL
DEF BufferSpec, Promise, Promised!Spec
=============================================================================
