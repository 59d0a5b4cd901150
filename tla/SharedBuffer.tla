---------------------------- MODULE SharedBuffer ----------------------------
(***************************************************************************)
(* The monitor of pc/src/sharedBuffer.cpp: one mutex, one condition        *)
(* variable, the items and the index of the next item to be filled.        *)
(*                                                                         *)
(* Every thread calls one operation at a time.  A call is entered, takes   *)
(* mutex_, runs its body under it, and returns; produce and consume may    *)
(* wait on quitCV_ in between.  Testing the wait predicate and going to    *)
(* sleep are two steps, so that whatever does not need mutex_ can happen   *)
(* between them.  The wait predicate reads IBufferActor::quitSignal_       *)
(* without the lock it is written under: until the thread that wrote it    *)
(* has been through mutex_, the reader may see the old or the new value.   *)
(***************************************************************************)
EXTENDS Integers

CONSTANTS
  Producers,  \* the Producer objects, each with its own thread
  Consumers,  \* the Consumer objects, each with its own thread
  Clients,    \* the threads that use the actors and the buffer from outside
  Size,       \* buffer_.size()
  Nobody      \* no thread, no actor

Actors == Producers \cup Consumers
Threads == Actors \cup Clients

ASSUME ConstantsAssumption ==
  /\ Size \in Nat
  /\ Producers \cap Consumers = {}
  /\ Actors \cap Clients = {}
  /\ Nobody \notin Threads

VARIABLES
  items,         \* buffer_: TRUE when the item of a slot is filled
  currentIndex,  \* currentIndex_, the slot of the next item to be filled
  quitSignal,    \* SharedBuffer::quitSignal_
  mutex,         \* the thread that holds SharedBuffer::mutex_, or Nobody
  op,            \* the operation each thread has called, "none" outside
  at,            \* where in that operation it is
  actorQuit,     \* IBufferActor::quitSignal_ of each actor
  event          \* the actor whose quitSignal_ a client raised and has not
                 \* announced through notify() yet, or Nobody

bufferVars ==
  <<items, currentIndex, quitSignal, mutex, op, at, actorQuit, event>>

Slots == 0 .. Size - 1
Operations ==
  {"produce", "consume", "isRunning", "notify", "stop", "getCurrentIndex"}

\* "lock" and "woken" contend for mutex_; "body", "retest" and "sleep" hold it;
\* "asleep" is blocked in quitCV_.wait, which has released it.
Places == {"out", "lock", "body", "sleep", "asleep", "woken", "retest"}
Holding == {"body", "sleep", "retest"}

-----------------------------------------------------------------------------
(* Construction *)

\* The buffers the program is given: the first k items are filled.
InitialItems == {[s \in Slots |-> s < k] : k \in 0 .. Size}

\* The scan stops at the first empty item, or at the end.
CalculateCurrentIndex(buffer) ==
  CHOOSE k \in 0 .. Size :
    /\ \A s \in Slots : s < k => buffer[s]
    /\ k < Size => ~buffer[k]

BufferInit ==
  /\ items \in InitialItems
  /\ currentIndex = CalculateCurrentIndex(items)
  /\ quitSignal = FALSE
  /\ mutex = Nobody
  /\ op = [t \in Threads |-> "none"]
  /\ at = [t \in Threads |-> "out"]
  /\ actorQuit = [a \in Actors |-> FALSE]
  /\ event = [c \in Clients |-> Nobody]

-----------------------------------------------------------------------------
(* The mutex and the condition variable *)

\* Mutant of NotifyAll: notify_one().
NotifyOne ==
  LET sleepers == {t \in Threads : at[t] = "asleep"}
      lucky == CHOOSE t \in sleepers : TRUE
  IN  IF sleepers = {} THEN at ELSE [at EXCEPT ![lucky] = "woken"]

\* quitCV_.notify_all(): where every thread is once the sleepers are woken.
NotifyAll == [t \in Threads |-> IF at[t] = "asleep" THEN "woken" ELSE at[t]]

\* Mutant of Return: the lock is not given back.
ReturnLocked(t, places) ==
  /\ at' = [places EXCEPT ![t] = "out"]
  /\ op' = [op EXCEPT ![t] = "none"]
  /\ UNCHANGED mutex

\* Leave the operation: release mutex_ and return to the caller.
Return(t, places) ==
  /\ at' = [places EXCEPT ![t] = "out"]
  /\ op' = [op EXCEPT ![t] = "none"]
  /\ mutex' = Nobody

\* Call an operation: the thread is about to lock mutex_.
Enter(t, o) ==
  /\ at[t] = "out"
  /\ at' = [at EXCEPT ![t] = "lock"]
  /\ op' = [op EXCEPT ![t] = o]
  /\ UNCHANGED <<items, currentIndex, quitSignal, mutex, actorQuit>>

\* Lock mutex_, on entry or on the way out of quitCV_.wait.
Lock(t) ==
  /\ at[t] \in {"lock", "woken"}
  /\ mutex = Nobody
  /\ mutex' = t
  /\ at' = [at EXCEPT ![t] = IF at[t] = "lock" THEN "body" ELSE "retest"]
  /\ UNCHANGED <<items, currentIndex, quitSignal, op, actorQuit, event>>

\* The body of operation o may run: t is in it and holds mutex_.
InBody(t, o) == at[t] = "body" /\ op[t] = o

-----------------------------------------------------------------------------
(* produce and consume *)

\* BufferItem::fill and empty.  Each asserts that the item is in the other state:
\* FilledPrefix below says that it is.
Fill(slot) == items' = [items EXCEPT ![slot] = TRUE]
Empty(slot) == items' = [items EXCEPT ![slot] = FALSE]

\* There is room for a producer, or an item for a consumer.
HasWork(a) == IF a \in Producers THEN currentIndex < Size ELSE currentIndex > 0

\* Some client has raised the quit signal of a and not been through mutex_ since.
Announcing(a) == \E c \in Clients : event[c] = a

\* What a may read as its isRunning(): its stop() has written quitSignal_, but
\* nothing orders that write before the read until notify() has locked mutex_.
SeenRunning(a) == {~actorQuit[a]} \cup {r \in {TRUE} : Announcing(a)}

\* Mutants of StopsWaiting: one of its terms forgotten.
StopsWaitingIgnoresStop(a, running) == HasWork(a) \/ ~running
StopsWaitingIgnoresActor(a, running) == HasWork(a) \/ quitSignal

StopsWaiting(a, running) == HasWork(a) \/ quitSignal \/ ~running

\* quitCV_.wait(lock, predicate): test the predicate, return or go to sleep.
TestPredicate(a) ==
  /\ \E running \in SeenRunning(a) :
       \/ StopsWaiting(a, running) /\ Return(a, at)
       \/ /\ ~StopsWaiting(a, running)
          /\ at' = [at EXCEPT ![a] = "sleep"]
          /\ UNCHANGED <<op, mutex>>
  /\ UNCHANGED <<items, currentIndex, quitSignal, actorQuit, event>>

\* Mutant of ProduceBody: the sleepers are not told about the new item.
ProduceBodySilent(p) ==
  /\ InBody(p, "produce")
  /\ \/ /\ currentIndex < Size
        /\ Fill(currentIndex)
        /\ currentIndex' = currentIndex + 1
        /\ Return(p, at)
        /\ UNCHANGED <<quitSignal, actorQuit, event>>
     \/ ~(currentIndex < Size) /\ TestPredicate(p)

ProduceBody(p) ==
  /\ InBody(p, "produce")
  /\ \/ /\ currentIndex < Size
        /\ Fill(currentIndex)
        /\ currentIndex' = currentIndex + 1
        /\ Return(p, NotifyAll)
        /\ UNCHANGED <<quitSignal, actorQuit, event>>
     \/ ~(currentIndex < Size) /\ TestPredicate(p)

\* Mutants of ConsumeBody: an item too many, the slot above the item, and no
\* word to the sleepers.
ConsumeBodyAtZero(c) ==
  /\ InBody(c, "consume")
  /\ currentIndex >= 0
  /\ Empty(currentIndex - 1)
  /\ currentIndex' = currentIndex - 1
  /\ Return(c, NotifyAll)
  /\ UNCHANGED <<quitSignal, actorQuit, event>>

ConsumeBodyPostDecrement(c) ==
  /\ InBody(c, "consume")
  /\ \/ /\ currentIndex > 0
        /\ Empty(currentIndex)
        /\ currentIndex' = currentIndex - 1
        /\ Return(c, NotifyAll)
        /\ UNCHANGED <<quitSignal, actorQuit, event>>
     \/ ~(currentIndex > 0) /\ TestPredicate(c)

ConsumeBodySilent(c) ==
  /\ InBody(c, "consume")
  /\ \/ /\ currentIndex > 0
        /\ Empty(currentIndex - 1)
        /\ currentIndex' = currentIndex - 1
        /\ Return(c, at)
        /\ UNCHANGED <<quitSignal, actorQuit, event>>
     \/ ~(currentIndex > 0) /\ TestPredicate(c)

ConsumeBody(c) ==
  /\ InBody(c, "consume")
  /\ \/ /\ currentIndex > 0
        /\ Empty(currentIndex - 1)
        /\ currentIndex' = currentIndex - 1
        /\ Return(c, NotifyAll)
        /\ UNCHANGED <<quitSignal, actorQuit, event>>
     \/ ~(currentIndex > 0) /\ TestPredicate(c)

\* Atomically release mutex_ and block on quitCV_.
Sleep(a) ==
  /\ at[a] = "sleep"
  /\ at' = [at EXCEPT ![a] = "asleep"]
  /\ mutex' = Nobody
  /\ UNCHANGED <<items, currentIndex, quitSignal, op, actorQuit, event>>

\* A condition variable may wake a thread nobody notified.
SpuriousWakeup(a) ==
  /\ at[a] = "asleep"
  /\ at' = [at EXCEPT ![a] = "woken"]
  /\ UNCHANGED <<items, currentIndex, quitSignal, mutex, op, actorQuit, event>>

Retest(a) == at[a] = "retest" /\ TestPredicate(a)

-----------------------------------------------------------------------------
(* The other operations *)

StopBody(c) ==
  /\ InBody(c, "stop")
  /\ quitSignal' = TRUE
  /\ Return(c, NotifyAll)
  /\ UNCHANGED <<items, currentIndex, actorQuit, event>>

\* Mutant of NotifyBody: the condition variable is signalled without mutex_.
NotifyBodyUnlocked(c) ==
  /\ at[c] = "lock" /\ op[c] = "notify"
  /\ at' = [NotifyAll EXCEPT ![c] = "out"]
  /\ op' = [op EXCEPT ![c] = "none"]
  /\ event' = [event EXCEPT ![c] = Nobody]
  /\ UNCHANGED <<items, currentIndex, quitSignal, mutex, actorQuit>>

NotifyBody(c) ==
  /\ InBody(c, "notify")
  /\ event' = [event EXCEPT ![c] = Nobody]
  /\ Return(c, NotifyAll)
  /\ UNCHANGED <<items, currentIndex, quitSignal, actorQuit>>

\* isRunning and getCurrentIndex only read; the caller's next step uses the value.
ReadBody(t) ==
  /\ InBody(t, "isRunning") \/ InBody(t, "getCurrentIndex")
  /\ Return(t, at)
  /\ UNCHANGED <<items, currentIndex, quitSignal, actorQuit, event>>

-----------------------------------------------------------------------------
(* The callers *)

CallProduce(p) == Enter(p, "produce") /\ UNCHANGED event
CallConsume(c) == Enter(c, "consume") /\ UNCHANGED event
CallIsRunning(t) == Enter(t, "isRunning") /\ UNCHANGED event
CallStop(c) == Enter(c, "stop") /\ UNCHANGED event
CallGetCurrentIndex(c) == Enter(c, "getCurrentIndex") /\ UNCHANGED event

\* IBufferActor::stop, as far as the buffer sees it: the quit signal of actor a
\* is raised without mutex_, then notify() is called.  An actor is stopped once.
CallNotify(c, a) ==
  /\ ~actorQuit[a]
  /\ at[c] = "out"
  /\ at' = [at EXCEPT ![c] = "lock"]
  /\ op' = [op EXCEPT ![c] = "notify"]
  /\ actorQuit' = [actorQuit EXCEPT ![a] = TRUE]
  /\ event' = [event EXCEPT ![c] = a]
  /\ UNCHANGED <<items, currentIndex, quitSignal, mutex>>

ActorStep(a) ==
  \/ a \in Producers /\ (CallProduce(a) \/ ProduceBody(a))
  \/ a \in Consumers /\ (CallConsume(a) \/ ConsumeBody(a))
  \/ Sleep(a) \/ SpuriousWakeup(a) \/ Retest(a)

ClientStep(c) ==
  \/ CallStop(c) \/ StopBody(c) \/ CallGetCurrentIndex(c) \/ NotifyBody(c)
  \/ \E a \in Actors : CallNotify(c, a)

AnyStep(t) == CallIsRunning(t) \/ Lock(t) \/ ReadBody(t)

BufferNext ==
  \/ \E a \in Actors : ActorStep(a)
  \/ \E c \in Clients : ClientStep(c)
  \/ \E t \in Threads : AnyStep(t)

BufferSpec == BufferInit /\ [][BufferNext]_bufferVars

\* A running thread keeps running, and mutex_ goes in the end to every thread
\* that keeps asking for it.  Nothing obliges a thread to call an operation, or
\* the condition variable to wake a thread nobody notified.
Body(t) ==
  \/ t \in Producers /\ ProduceBody(t)
  \/ t \in Consumers /\ ConsumeBody(t)
  \/ t \in Actors /\ (Sleep(t) \/ Retest(t))
  \/ t \in Clients /\ (StopBody(t) \/ NotifyBody(t))
  \/ ReadBody(t)

BufferFairness ==
  \A t \in Threads : WF_bufferVars(Body(t)) /\ SF_bufferVars(Lock(t))

FairBufferSpec == BufferSpec /\ BufferFairness

-----------------------------------------------------------------------------
(* Safety *)

\* Every variable keeps its type; in particular the index stays within the
\* buffer, so that produce and consume never reach outside buffer_.
TypeOK ==
  /\ items \in [Slots -> BOOLEAN]
  /\ currentIndex \in 0 .. Size
  /\ quitSignal \in BOOLEAN
  /\ mutex \in Threads \cup {Nobody}
  /\ op \in [Threads -> Operations \cup {"none"}]
  /\ at \in [Threads -> Places]
  /\ actorQuit \in [Actors -> BOOLEAN]
  /\ event \in [Clients -> Actors \cup {Nobody}]

\* The filled items are exactly those below currentIndex_: fill() is only called
\* on an empty item and empty() on a filled one, as BufferItem asserts.
FilledPrefix == \A s \in Slots : items[s] <=> s < currentIndex

\* Whoever sleeps in produce or consume, or is past the last test before it, has
\* a reason to: the buffer cannot serve it and is not stopped, and if its own
\* quit signal is up, the notify() that wakes it is still to come.
NoLostWakeup ==
  \A a \in Actors :
    at[a] \in {"sleep", "asleep"} =>
      /\ ~HasWork(a)
      /\ ~quitSignal
      /\ actorQuit[a] => Announcing(a)

\* Producers wait for consumers and consumers for producers, but never both:
\* one of two sleepers of different kinds could go on.
NeverBothAsleep ==
  Size > 0 =>
    ~ \E p \in Producers, c \in Consumers : at[p] = "asleep" /\ at[c] = "asleep"

-----------------------------------------------------------------------------
(* What the monitor implements *)

\* The refinement mapping reads the items, not the index: a call is blocked from
\* the failed test of its predicate until it returns.
Promised == INSTANCE BoundedBuffer WITH
  filled <- {s \in Slots : items[s]},
  closed <- quitSignal,
  dismissed <- {a \in Actors : actorQuit[a]},
  blocked <- {a \in Actors : at[a] \in {"sleep", "asleep", "woken", "retest"}}

\* Seen from outside, mutex, condition variable and index are a bounded buffer.
Promise == Promised!Spec

-----------------------------------------------------------------------------
(* Liveness *)

\* A call held back in produce or consume returns once its actor is stopped or
\* the whole buffer is: removing an actor and shutting down never hang on it.
DismissedReturns ==
  \A a \in Actors :
    op[a] \in {"produce", "consume"} /\ (actorQuit[a] \/ quitSignal)
      ~> op[a] \notin {"produce", "consume"}

\* A call that sleeps while the buffer can serve it again is let go, unless
\* somebody else takes the room (or the item) first.
ServedOrOvertaken ==
  \A a \in Actors :
    at[a] # "out" /\ HasWork(a) ~> at[a] = "out" \/ ~HasWork(a)

\* The operations that never wait on the condition variable always return.
OthersReturn ==
  \A t \in Threads :
    at[t] # "out" ~> at[t] = "out" \/ op[t] \in {"produce", "consume"}

-----------------------------------------------------------------------------
(* What the comments say, and the code does not do *)

\* sharedBuffer.h, stop(): "Stops the buffer from accepting and/or returning
\* elements".
StoppedBufferIsFrozen == [][quitSignal => UNCHANGED items]_bufferVars

\* sharedBuffer.h, produce(): "Adds an element to the buffer [...] If the buffer
\* is full, this call will block until a consumer consumes an item", of a call
\* that neither a stop of the buffer nor of its producer cut short.
ProduceAddsAnElement ==
  [][\A p \in Producers :
       op[p] = "produce" /\ op'[p] = "none" /\ ~quitSignal /\ ~actorQuit[p]
         => currentIndex' = currentIndex + 1]_bufferVars
=============================================================================
