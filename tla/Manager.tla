------------------------------- MODULE Manager -------------------------------
(***************************************************************************)
(* ProducerConsumerManager (pc/src/manager.cpp), which IPC (pc/src/IPC.cpp)*)
(* forwards every call to: the two lists of actors, each under a mutex of  *)
(* its own, and the life of the shared buffer, for one session from        *)
(* start() to stop().  Clients are the threads that call IPC.              *)
(*                                                                         *)
(* A removal holds the mutex of its list while it stops the actor and      *)
(* joins its thread; stop() removes every producer, then every consumer,   *)
(* then stops the buffer and deletes it.  The session ends there: what a   *)
(* thread still under way does with the deleted buffer is undefined, and   *)
(* the model takes no step after it.                                       *)
(***************************************************************************)
EXTENDS IActor, Sequences, FiniteSets

CONSTANTS
  OverlapStop,  \* other IPC calls may run while stop() does
  Faults        \* what may throw in addProducer and addConsumer

ASSUME ManagerAssumption ==
  /\ OverlapStop \in BOOLEAN
  /\ Faults \subseteq {"new", "start", "push_back"}

VARIABLES
  life,       \* sharedBuffer_: "none" before start(), "live", "deleted" after stop()
  list,       \* producers_ and consumers_
  lost,       \* actors that were created and put on no list: nobody will stop or
              \* delete them
  listMutex,  \* the client that holds mutexProducers_ (mutexConsumers_)
  job,        \* the IPC call each client is in
  kind,       \* the list it is at
  step        \* where in the call it is

managerVars == <<life, list, lost, listMutex, job, kind, step>>
allVars == <<vars, managerVars>>

Kinds == {"producers", "consumers"}
Jobs == {"add", "remove", "removeAll", "stop", "read"}
Steps == {"lock", "check", "create", "pick", "stopping", "close", "delete", "read"}

Pool(k) == IF k = "producers" THEN Producers ELSE Consumers
Fresh(k) == {a \in Pool(k) \ lost : loop[a] = "new"}

ManagerInit ==
  /\ ActorInit
  /\ life = "none"
  /\ list = [k \in Kinds |-> <<>>]
  /\ lost = {}
  /\ listMutex = [k \in Kinds |-> Nobody]
  /\ job = [c \in Clients |-> "none"]
  /\ kind = [c \in Clients |-> "none"]
  /\ step = [c \in Clients |-> "none"]

At(c, s) == step[c] = s
GotoStep(c, s) == step' = [step EXCEPT ![c] = s]
Unlock(k) == listMutex' = [listMutex EXCEPT ![k] = Nobody]

\* The IPC call returns.
Done(c) ==
  /\ job' = [job EXCEPT ![c] = "none"]
  /\ kind' = [kind EXCEPT ![c] = "none"]
  /\ GotoStep(c, "none")

\* On to the next step of the same call.
Proceed(c, s) == GotoStep(c, s) /\ UNCHANGED <<job, kind>>

-----------------------------------------------------------------------------
(* The calls *)

\* start(): the buffer of the session is created.
StartSession(c) ==
  /\ life = "none"
  /\ life' = "live"
  /\ UNCHANGED <<vars, list, lost, listMutex, job, kind, step>>

\* Calls are made between start() and stop(), which is called once; unless
\* OverlapStop, stop() has the manager to itself.
MayCall(c, j) ==
  /\ job[c] = "none"
  /\ (j = "stop" \/ ~OverlapStop) => \A d \in Clients : job[d] # "stop"
  /\ (j = "stop" /\ ~OverlapStop) => \A d \in Clients : job[d] = "none"

Call(c, j, k, s) ==
  /\ job' = [job EXCEPT ![c] = j]
  /\ kind' = [kind EXCEPT ![c] = k]
  /\ GotoStep(c, s)
  /\ UNCHANGED <<vars, life, list, lost, listMutex>>

\* addProducer and addConsumer; the pool bounds how many are added in a session.
CallAdd(c, k) ==
  /\ MayCall(c, "add")
  /\ Cardinality({d \in Clients : job[d] = "add" /\ kind[d] = k})
       < Cardinality(Fresh(k))
  /\ Call(c, "add", k, "lock")

CallRemove(c, k) == MayCall(c, "remove") /\ Call(c, "remove", k, "lock")
CallRemoveAll(c, k) == MayCall(c, "removeAll") /\ Call(c, "removeAll", k, "lock")
CallStopSession(c) == MayCall(c, "stop") /\ Call(c, "stop", "producers", "lock")
CallRead(c) == MayCall(c, "read") /\ Call(c, "read", "none", "read")

\* Mutant of LockList: nothing is locked that somebody else may hold.
LockListUnguarded(c) ==
  /\ At(c, "lock")
  /\ listMutex' = [listMutex EXCEPT ![kind[c]] = c]
  /\ Proceed(c, IF job[c] = "add" THEN "check" ELSE "pick")
  /\ UNCHANGED <<vars, life, list, lost>>

\* std::scoped_lock of the mutex of the list.
LockList(c) ==
  /\ At(c, "lock")
  /\ listMutex[kind[c]] = Nobody
  /\ listMutex' = [listMutex EXCEPT ![kind[c]] = c]
  /\ Proceed(c, IF job[c] = "add" THEN "check" ELSE "pick")
  /\ UNCHANGED <<vars, life, list, lost>>

-----------------------------------------------------------------------------
(* Adding *)

AddCheck(c) ==
  /\ At(c, "check")
  /\ CallIsRunning(c)
  /\ UNCHANGED <<actorVars, managerVars>>

AddChecked(c) ==
  /\ At(c, "check")
  /\ ReadBody(c)
  /\ \/ quitSignal /\ Unlock(kind[c]) /\ Done(c)
     \/ ~quitSignal /\ UNCHANGED listMutex /\ Proceed(c, "create")
  /\ UNCHANGED <<actorVars, life, list, lost>>

\* Mutant of AddCreate: a consumer lands among the producers.
AddCreateMisplaced(c) ==
  /\ At(c, "create")
  /\ \E a \in Fresh(kind[c]) :
       /\ Start(c, a)
       /\ list' = [list EXCEPT !["producers"] = Append(@, a)]
  /\ Unlock(kind[c])
  /\ Done(c)
  /\ UNCHANGED <<life, lost>>

\* new, start(), push_back; the lock is released on return.
AddCreate(c) ==
  /\ At(c, "create")
  /\ \E a \in Fresh(kind[c]) :
       /\ Start(c, a)
       /\ list' = [list EXCEPT ![kind[c]] = Append(@, a)]
  /\ Unlock(kind[c])
  /\ Done(c)
  /\ UNCHANGED <<life, lost>>

\* An exception leaves the function: the lock is released and the call is over.
\* Without memory there is no actor, without a thread it is lost before it was
\* started, and if push_back throws it is lost while its thread runs.
AddFails(c) ==
  /\ At(c, "create")
  /\ \/ "new" \in Faults /\ UNCHANGED <<vars, lost>>
     \/ \E a \in Fresh(kind[c]) :
          /\ lost' = lost \cup {a}
          /\ \/ "start" \in Faults /\ UNCHANGED vars
             \/ "push_back" \in Faults /\ Start(c, a)
  /\ Unlock(kind[c])
  /\ Done(c)
  /\ UNCHANGED <<life, list>>

-----------------------------------------------------------------------------
(* Removing: the front of the list, once or until the list is empty *)

RemoveFront(c) ==
  /\ At(c, "pick")
  /\ list[kind[c]] # <<>>
  /\ StopCall(c, Head(list[kind[c]]))
  /\ Proceed(c, "stopping")
  /\ UNCHANGED <<life, list, lost, listMutex>>

\* Mutants of Leave: an early return that keeps the lock, and a stop() that
\* forgets the consumers.
LeaveLocked(c) ==
  /\ UNCHANGED listMutex
  /\ \/ job[c] # "stop" /\ Done(c)
     \/ /\ job[c] = "stop" /\ kind[c] = "producers"
        /\ kind' = [kind EXCEPT ![c] = "consumers"]
        /\ GotoStep(c, "lock")
        /\ UNCHANGED job
     \/ job[c] = "stop" /\ kind[c] = "consumers" /\ Proceed(c, "close")

LeaveConsumers(c) ==
  /\ Unlock(kind[c])
  /\ \/ job[c] # "stop" /\ Done(c)
     \/ job[c] = "stop" /\ Proceed(c, "close")

\* The list is unlocked; stop() goes on to the consumers, then to the buffer.
Leave(c) ==
  /\ Unlock(kind[c])
  /\ \/ job[c] # "stop" /\ Done(c)
     \/ /\ job[c] = "stop" /\ kind[c] = "producers"
        /\ kind' = [kind EXCEPT ![c] = "consumers"]
        /\ GotoStep(c, "lock")
        /\ UNCHANGED job
     \/ job[c] = "stop" /\ kind[c] = "consumers" /\ Proceed(c, "close")

RemoveNothing(c) ==
  /\ At(c, "pick")
  /\ list[kind[c]] = <<>>
  /\ Leave(c)
  /\ UNCHANGED <<vars, life, list, lost>>

\* Mutants of RemoveJoined: the actor stays in the list, is deleted without
\* waiting for its thread, or gives up the lock although more are to follow.
RemoveJoinedKept(c) ==
  /\ At(c, "stopping")
  /\ StopJoin(c)
  /\ Leave(c)
  /\ UNCHANGED <<life, list, lost>>

RemoveUnjoined(c) ==
  /\ At(c, "stopping")
  /\ stopping[c] = "joining"
  /\ stopping' = [stopping EXCEPT ![c] = "no"]
  /\ target' = [target EXCEPT ![c] = Nobody]
  /\ list' = [list EXCEPT ![kind[c]] = Tail(@)]
  /\ \/ job[c] = "remove" /\ Leave(c)
     \/ job[c] # "remove" /\ UNCHANGED listMutex /\ Proceed(c, "pick")
  /\ UNCHANGED <<bufferVars, loop, actorMutex, life, lost>>

RemoveJoinedUnlocking(c) ==
  /\ At(c, "stopping")
  /\ StopJoin(c)
  /\ list' = [list EXCEPT ![kind[c]] = Tail(@)]
  /\ \/ job[c] = "remove" /\ Leave(c)
     \/ job[c] # "remove" /\ Unlock(kind[c]) /\ Proceed(c, "lock")
  /\ UNCHANGED <<life, lost>>

\* The thread is joined: erase the actor from the list and delete it.
RemoveJoined(c) ==
  /\ At(c, "stopping")
  /\ StopJoin(c)
  /\ list' = [list EXCEPT ![kind[c]] = Tail(@)]
  /\ \/ job[c] = "remove" /\ Leave(c)
     \/ job[c] # "remove" /\ UNCHANGED listMutex /\ Proceed(c, "pick")
  /\ UNCHANGED <<life, lost>>

-----------------------------------------------------------------------------
(* stop(), after the removals, and getCurrentIndex() *)

CloseCall(c) ==
  /\ At(c, "close")
  /\ CallStop(c)
  /\ UNCHANGED <<actorVars, managerVars>>

CloseReturn(c) ==
  /\ At(c, "close")
  /\ StopBody(c)
  /\ Proceed(c, "delete")
  /\ UNCHANGED <<actorVars, life, list, lost, listMutex>>

DeleteBuffer(c) ==
  /\ At(c, "delete")
  /\ life' = "deleted"
  /\ Done(c)
  /\ UNCHANGED <<vars, list, lost, listMutex>>

ReadCall(c) ==
  /\ At(c, "read")
  /\ CallGetCurrentIndex(c)
  /\ UNCHANGED <<actorVars, managerVars>>

ReadReturn(c) ==
  /\ At(c, "read")
  /\ ReadBody(c)
  /\ Done(c)
  /\ UNCHANGED <<actorVars, life, list, lost, listMutex>>

-----------------------------------------------------------------------------

JobStep(c) ==
  \/ AddCheck(c) \/ AddChecked(c) \/ AddCreate(c) \/ AddFails(c)
  \/ RemoveFront(c) \/ RemoveNothing(c) \/ RemoveJoined(c)
  \/ CloseCall(c) \/ CloseReturn(c) \/ DeleteBuffer(c)
  \/ ReadCall(c) \/ ReadReturn(c)
  \/ (StopLock(c) \/ StopNotified(c) \/ StopSignal(c)) /\ UNCHANGED managerVars

NewCall(c) ==
  \/ CallStopSession(c) \/ CallRead(c)
  \/ \E k \in Kinds : CallAdd(c, k) \/ CallRemove(c, k) \/ CallRemoveAll(c, k)

ThreadStep(a) ==
  /\ RunStep(a) \/ WorkWakeup(a) \/ RestSpuriousWakeup(a) \/ RestTimeout(a)
  /\ UNCHANGED managerVars

SessionStep ==
  \/ \E c \in Clients : NewCall(c) \/ LockList(c) \/ JobStep(c)
  \/ \E a \in Actors : ThreadStep(a)
  \/ \E t \in Threads : BufferLock(t) /\ UNCHANGED managerVars

ManagerNext ==
  \/ life = "none" /\ \E c \in Clients : StartSession(c)
  \/ life = "live" /\ SessionStep
  \/ life = "deleted" /\ UNCHANGED allVars

ManagerSpec == ManagerInit /\ [][ManagerNext]_allVars

\* Whatever a thread of the session does next, the mutexes it waits for included.
ActorRuns(a) == (RunStep(a) \/ BufferLock(a)) /\ UNCHANGED managerVars
ClientRuns(c) ==
  LockList(c) \/ JobStep(c) \/ (BufferLock(c) /\ UNCHANGED managerVars)

\* A thread keeps running, and every mutex goes in the end to whoever keeps asking
\* for it: as a thread does one thing at a time, strong fairness of all it does is
\* strong fairness of each.  Nobody is obliged to call IPC, nor a delay to end.
ManagerFairness ==
  /\ \A a \in Actors : SF_allVars(life = "live" /\ ActorRuns(a))
  /\ \A c \in Clients : SF_allVars(life = "live" /\ ClientRuns(c))

FairManagerSpec == ManagerSpec /\ ManagerFairness

-----------------------------------------------------------------------------
(* Safety *)

\* Every variable keeps its type.
ManagerTypeOK ==
  /\ ActorTypeOK
  /\ life \in {"none", "live", "deleted"}
  /\ lost \subseteq Actors
  /\ DOMAIN list = Kinds
  /\ \A k \in Kinds : list[k] \in Seq(Pool(k))
  /\ listMutex \in [Kinds -> Clients \cup {Nobody}]
  /\ job \in [Clients -> Jobs \cup {"none"}]
  /\ kind \in [Clients -> Kinds \cup {"none"}]
  /\ step \in [Clients -> Steps \cup {"none"}]

\* The lists hold every actor whose thread may run, once, and no other: none is
\* stopped twice, none is used after it was deleted, and none is forgotten but
\* those that adding lost when it failed.
ListedOnce ==
  \A k \in Kinds :
    /\ \A a \in Pool(k) :
         loop[a] \notin {"new", "joined"} /\ a \notin lost <=>
           \E i \in 1 .. Len(list[k]) : list[k][i] = a
    /\ \A i, j \in 1 .. Len(list[k]) : list[k][i] = list[k][j] => i = j

\* Whoever stops an actor holds the mutex of its list, and stops its front.
StopsUnderLock ==
  \A c \in Clients :
    stopping[c] # "no" =>
      /\ listMutex[kind[c]] = c
      /\ list[kind[c]] # <<>> /\ target[c] = Head(list[kind[c]])

\* No thread that uses the buffer outlives it, is inside it or holds its mutex, no
\* actor is left behind, and the lists are empty and unlocked: the next start()
\* finds the manager as the first one did.  What adding lost is the exception.
NothingOutlivesTheBuffer ==
  life = "deleted" =>
    /\ \A a \in Actors \ lost : loop[a] \in {"new", "joined"}
    /\ \A t \in Threads \ lost : at[t] = "out" /\ mutex # t
    /\ \A k \in Kinds : list[k] = <<>> /\ listMutex[k] = Nobody
    /\ \A c \in Clients : job[c] = "none"

\* What the call of a client has still to deal with.
ToDo(c) ==
  CASE job[c] \in {"add", "remove"} -> {kind[c]}
    [] job[c] = "removeAll" -> {k \in {kind[c]} : At(c, "lock")}
    [] job[c] = "stop" -> {"buffer"} \cup {k \in {kind[c]} : At(c, "lock")}
                            \cup ({"consumers"} \ {kind[c]})
    [] OTHER -> {}

\* A crew is gone as soon as the list that is to be emptied is locked.
Emptying(k) ==
  \E c \in Clients : listMutex[k] = c /\ job[c] \in {"removeAll", "stop"}

Session == INSTANCE Session WITH
  crew <- [k \in Kinds |-> IF Emptying(k) THEN <<>> ELSE list[k]],
  call <- job,
  due <- [c \in Clients |-> ToDo(c)]

\* Each call takes effect at one instant while it is under way: in particular
\* nobody is added to a list that is being emptied, and stop() finds the session
\* as the last call before it left it.
ActsAtOnce == Session!SessionSpec

\* The manager starts, stops and uses the actors as IActor allows.
DrivesActors == ActorSpec

\* Every IPC call returns, however long the delays are, though it may have to wait
\* for the list that another client holds while it joins a thread, and though that
\* thread may be stuck in the buffer.  While stop() is called nobody else calls:
\* what a call does on the deleted buffer is undefined.
CallsReturn == \A c \in Clients : job[c] # "none" ~> job[c] = "none"

-----------------------------------------------------------------------------
(* What the comments say, and the code does not do *)

\* IPC.h, stop(): "Stops the shared buffer, the producers and the consumers".
StopStopsEverybody ==
  life = "deleted" =>
    \A a \in Actors : loop[a] \in {"new", "exited", "joined"}
=============================================================================
