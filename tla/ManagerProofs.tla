---------------------------- MODULE ManagerProofs ----------------------------
(***************************************************************************)
(* The safety of Manager for every number of actors and clients: it drives *)
(* the actors as IActor allows, whose theorems become its own, its lists   *)
(* hold the actors that run and no other, whoever stops one of them has    *)
(* locked its list, and a stop() that nothing overlaps deletes the buffer  *)
(* when nobody uses it any more.                                           *)
(***************************************************************************)
EXTENDS Manager, IActorProofs

\* Where a client holds the mutex of the list it is at.
Locked == {"check", "create", "pick", "stopping"}

\* The variables of the manager keep their types; the actors' are ActorIInv's
\* matter.
ManagerTypes ==
  /\ life \in {"none", "live", "deleted"}
  /\ lost \subseteq Actors
  /\ list \in [Kinds -> Seq(Actors)]
  /\ \A k \in Kinds : list[k] \in Seq(Pool(k))
  /\ listMutex \in [Kinds -> Clients \cup {Nobody}]
  /\ job \in [Clients -> Jobs \cup {"none"}]
  /\ kind \in [Clients -> Kinds \cup {"none"}]
  /\ step \in [Clients -> Steps \cup {"none"}]

\* A client that wants a list or has it is at one, and the list it has is locked
\* by it.
HoldsItsList ==
  /\ \A c \in Clients : step[c] \in Locked \cup {"lock"} => kind[c] \in Kinds
  /\ \A c \in Clients, k \in Kinds :
       listMutex[k] = c <=> kind[c] = k /\ step[c] \in Locked

\* A client is in IBufferActor::stop exactly while it removes an actor, the front
\* of the list.
StopsTheFront ==
  \A c \in Clients :
    /\ stopping[c] # "no" <=> step[c] = "stopping"
    /\ step[c] = "stopping" =>
         list[kind[c]] # <<>> /\ target[c] = Head(list[kind[c]])

\* A client that is in no call is nowhere.
IdleNowhere == \A c \in Clients : job[c] = "none" => step[c] = "none"

\* The actors whose threads may run.
Running(a) == loop[a] \notin {"new", "joined"}

Listed(s, a) == \E i \in 1 .. Len(s) : s[i] = a
Distinct(s) == \A i, j \in 1 .. Len(s) : s[i] = s[j] => i = j

\* The inductive invariant, on top of those of the buffer and of the actors.
ManagerIInv ==
  /\ ManagerTypes
  /\ HoldsItsList
  /\ StopsTheFront
  /\ IdleNowhere
  /\ ListedOnce

-----------------------------------------------------------------------------
(* Sequences *)

\* An element appended to a sequence is listed, and is the front of the empty one
\* only.
LEMMA AppendLists ==
  ASSUME NEW S, NEW s \in Seq(S), NEW a \in S
  PROVE  /\ Append(s, a) \in Seq(S)
         /\ \A x : Listed(Append(s, a), x) <=> Listed(s, x) \/ x = a
         /\ Distinct(s) /\ ~Listed(s, a) => Distinct(Append(s, a))
<1>1. /\ Append(s, a) \in Seq(S)
      /\ Len(s) \in Nat
      /\ Len(Append(s, a)) = Len(s) + 1
      /\ \A i \in 1 .. Len(s) : Append(s, a)[i] = s[i]
      /\ Append(s, a)[Len(s) + 1] = a
  OBVIOUS
<1>2. \A x : Listed(Append(s, a), x) <=> Listed(s, x) \/ x = a
  BY <1>1 DEF Listed
<1>3. Distinct(s) /\ ~Listed(s, a) => Distinct(Append(s, a))
  BY <1>1 DEF Listed, Distinct
<1> QED BY <1>1, <1>2, <1>3

\* The tail of a sequence without repetition lists what it lists but its head.
LEMMA TailLists ==
  ASSUME NEW S, NEW s \in Seq(S), s # <<>>, Distinct(s)
  PROVE  /\ Tail(s) \in Seq(S)
         /\ Head(s) \in S /\ Listed(s, Head(s))
         /\ Distinct(Tail(s))
         /\ \A x : Listed(Tail(s), x) <=> Listed(s, x) /\ x # Head(s)
<1>1. /\ Tail(s) \in Seq(S)
      /\ Len(s) \in Nat /\ Len(s) > 0
      /\ Len(Tail(s)) = Len(s) - 1
      /\ \A i \in 1 .. Len(s) - 1 : Tail(s)[i] = s[i + 1]
      /\ Head(s) = s[1] /\ s[1] \in S
  OBVIOUS
<1>2. Listed(s, Head(s))
  BY <1>1 DEF Listed
<1>3. Distinct(Tail(s))
  BY <1>1 DEF Distinct
<1>4. ASSUME NEW x PROVE Listed(Tail(s), x) <=> Listed(s, x) /\ x # Head(s)
  <2>1. Listed(Tail(s), x) => Listed(s, x) /\ x # Head(s)
    BY <1>1 DEF Listed, Distinct
  <2>2. ASSUME Listed(s, x), x # Head(s) PROVE Listed(Tail(s), x)
    <3>1. PICK i \in 1 .. Len(s) : s[i] = x
      BY <2>2 DEF Listed
    <3>2. i - 1 \in 1 .. Len(s) - 1 /\ Tail(s)[i - 1] = x
      BY <1>1, <2>2, <3>1
    <3> QED BY <1>1, <3>2 DEF Listed
  <2> QED BY <2>1, <2>2
<1> QED BY <1>1, <1>2, <1>3, <1>4

-----------------------------------------------------------------------------
(* The manager drives the actors *)

\* Every step of the manager is a step of the actors or leaves them alone: a client
\* uses the buffer only when it is stopping nobody, and what it stops is an actor.
LEMMA StepDrivesActors ==
  ManagerIInv /\ [ManagerNext]_allVars => [ActorNext]_vars
<1> SUFFICES ASSUME ManagerIInv, [ManagerNext]_allVars PROVE [ActorNext]_vars
  OBVIOUS
<1>1. ASSUME NEW c \in Clients, AddCreate(c) \/ AddFails(c)
      PROVE  [ActorNext]_vars
  <2>1. ASSUME NEW a \in Fresh(kind[c]), Start(c, a) PROVE [ActorNext]_vars
    BY <2>1 DEF Fresh, Pool, ActorNext, Actors
  <2> QED BY <1>1, <2>1 DEF AddCreate, AddFails
<1>2. ASSUME NEW c \in Clients, RemoveFront(c) PROVE [ActorNext]_vars
  <2>1. kind[c] \in Kinds
    BY <1>2 DEF RemoveFront, At, ManagerIInv, HoldsItsList, Locked
  <2>2. Head(list[kind[c]]) \in Actors
    BY <1>2, <2>1 DEF RemoveFront, ManagerIInv, ManagerTypes
  <2> QED BY <1>2, <2>2 DEF RemoveFront, ActorNext
<1>3. ASSUME NEW c \in Clients, AddCheck(c) \/ CloseCall(c) \/ ReadCall(c)
      PROVE  [ActorNext]_vars
  <2>1. stopping[c] = "no"
    BY <1>3 DEF AddCheck, CloseCall, ReadCall, At, ManagerIInv, StopsTheFront
  <2> QED BY <1>3, <2>1
          DEF AddCheck, CloseCall, ReadCall, ClientCall, ActorNext
<1>4. ASSUME NEW c \in Clients, AddChecked(c) \/ CloseReturn(c) \/ ReadReturn(c)
      PROVE  [ActorNext]_vars
  BY <1>4
  DEF AddChecked, CloseReturn, ReadReturn, ClientBody, StopStep, ActorNext
<1>5. ASSUME NEW c \in Clients,
             RemoveJoined(c) \/ StopLock(c) \/ StopNotified(c) \/ StopSignal(c)
      PROVE  [ActorNext]_vars
  BY <1>5 DEF RemoveJoined, StopStep, ActorNext
<1>6. ASSUME NEW c \in Clients, RemoveNothing(c) \/ DeleteBuffer(c) \/ LockList(c)
      PROVE  [ActorNext]_vars
  BY <1>6 DEF RemoveNothing, DeleteBuffer, LockList
<1>7. ASSUME NEW c \in Clients, NewCall(c) \/ StartSession(c)
      PROVE  [ActorNext]_vars
  BY <1>7 DEF NewCall, StartSession, CallAdd, CallRemove, CallRemoveAll,
              CallStopSession, CallRead, Call
<1>8. ASSUME NEW a \in Actors, ThreadStep(a) PROVE [ActorNext]_vars
  BY <1>8 DEF ThreadStep, ActorNext
<1>9. ASSUME NEW t \in Threads, BufferLock(t) PROVE [ActorNext]_vars
  BY <1>9 DEF ActorNext
<1>10. CASE UNCHANGED allVars
  BY <1>10 DEF allVars
<1> QED BY <1>1, <1>2, <1>3, <1>4, <1>5, <1>6, <1>7, <1>8, <1>9, <1>10
        DEF ManagerNext, SessionStep, JobStep

-----------------------------------------------------------------------------
(* The inductive invariant *)

\* Before start() the invariant holds.
LEMMA InitEstablishesManagerIInv == ManagerInit => ManagerIInv
<1> SUFFICES ASSUME ManagerInit PROVE ManagerIInv
  OBVIOUS
<1> USE ConstantsAssumption DEF ManagerInit, ActorInit
<1>1. ManagerTypes
  BY DEF ManagerTypes, Kinds, Pool
<1>2. HoldsItsList
  BY DEF HoldsItsList, Locked, Kinds, Threads
<1>3. StopsTheFront
  BY DEF StopsTheFront
<1>4. IdleNowhere
  BY DEF IdleNowhere
<1>5. ListedOnce
  BY DEF ListedOnce, Pool, Actors, Kinds
<1> QED BY <1>1, <1>2, <1>3, <1>4, <1>5 DEF ManagerIInv

\* What the threads do on their own changes nothing the manager knows of them.
LEMMA ThreadsKeepManagerIInv ==
  ASSUME ManagerIInv, UNCHANGED managerVars, target' = target,
         \A c \in Clients : stopping'[c] # "no" <=> stopping[c] # "no",
         \A a \in Actors : loop'[a] \in {"new", "joined"}
                              <=> loop[a] \in {"new", "joined"}
  PROVE  ManagerIInv'
<1>1. ManagerTypes'
  BY DEF managerVars, ManagerIInv, ManagerTypes
<1>2. HoldsItsList'
  BY DEF managerVars, ManagerIInv, HoldsItsList
<1>3. StopsTheFront'
  BY DEF managerVars, ManagerIInv, StopsTheFront
<1>4. \A k \in Kinds : \A a \in Pool(k) :
        loop'[a] \in {"new", "joined"} <=> loop[a] \in {"new", "joined"}
  BY DEF Pool, Actors
<1>5. ListedOnce'
  BY <1>4 DEF managerVars, ManagerIInv, ListedOnce
<1>6. IdleNowhere'
  BY DEF managerVars, ManagerIInv, IdleNowhere
<1> QED BY <1>1, <1>2, <1>3, <1>5, <1>6 DEF ManagerIInv

\* Nor does a step that only moves a client on from one place to another, neither
\* into IBufferActor::stop nor out of it.
LEMMA MovesKeepManagerIInv ==
  ASSUME ManagerIInv, ManagerTypes', HoldsItsList', IdleNowhere',
         UNCHANGED <<actorVars, list, lost>>,
         \A c \in Clients :
           /\ step'[c] = "stopping" <=> step[c] = "stopping"
           /\ step[c] = "stopping" => kind'[c] = kind[c]
  PROVE  ManagerIInv'
<1>1. UNCHANGED <<loop, stopping, target, list, lost>>
  BY DEF actorVars
<1>2. StopsTheFront'
  <2>1. ASSUME NEW c \in Clients, step'[c] = "stopping"
        PROVE  list'[kind'[c]] # <<>> /\ target'[c] = Head(list'[kind'[c]])
    BY <1>1, <2>1 DEF ManagerIInv, StopsTheFront
  <2> QED BY <1>1, <2>1 DEF ManagerIInv, StopsTheFront
<1>3. ListedOnce'
  BY <1>1 DEF ManagerIInv, ListedOnce
<1> QED BY <1>2, <1>3 DEF ManagerIInv

\* Leaving a list, for good, for the other list or for the buffer.
LEMMA LeavingKeepsTheLocks ==
  ASSUME ManagerIInv, NEW c \in Clients, step[c] \in Locked,
         Leave(c) \/ (Unlock(kind[c]) /\ Done(c)), UNCHANGED life,
         lost' \in SUBSET Actors, list' \in [Kinds -> Seq(Actors)],
         \A k \in Kinds : list'[k] \in Seq(Pool(k))
  PROVE  /\ ManagerTypes' /\ HoldsItsList' /\ IdleNowhere'
         /\ step'[c] # "stopping"
         /\ \A d \in Clients \ {c} : step'[d] = step[d] /\ kind'[d] = kind[d]
<1> USE ConstantsAssumption DEF ManagerIInv, ManagerTypes, Threads
<1>1. kind[c] \in Kinds /\ listMutex[kind[c]] = c
  BY DEF HoldsItsList
<1>2. ManagerTypes'
  <2>1. life' \in {"none", "live", "deleted"} /\ lost' \subseteq Actors
    OBVIOUS
  <2>2. listMutex' \in [Kinds -> Clients \cup {Nobody}]
    BY <1>1 DEF Leave, Unlock
  <2>3. /\ job' \in [Clients -> Jobs \cup {"none"}]
        /\ kind' \in [Clients -> Kinds \cup {"none"}]
        /\ step' \in [Clients -> Steps \cup {"none"}]
    BY DEF Leave, Done, Proceed, GotoStep, Kinds, Steps
  <2> QED BY <2>1, <2>2, <2>3
<1>3. /\ step'[c] \notin Locked
      /\ step'[c] = "lock" => kind'[c] \in Kinds
      /\ \A d \in Clients \ {c} : step'[d] = step[d] /\ kind'[d] = kind[d]
  BY <1>1 DEF Leave, Done, Proceed, GotoStep, Locked, Kinds
<1>4. /\ listMutex'[kind[c]] = Nobody
      /\ \A k \in Kinds \ {kind[c]} : listMutex'[k] = listMutex[k]
  BY <1>1 DEF Leave, Unlock
<1>5. HoldsItsList'
  <2>1. ASSUME NEW d \in Clients, step'[d] \in Locked \cup {"lock"}
        PROVE  kind'[d] \in Kinds
    BY <1>3, <2>1 DEF HoldsItsList
  <2>2. ASSUME NEW d \in Clients, NEW k \in Kinds
        PROVE  listMutex'[k] = d <=> kind'[d] = k /\ step'[d] \in Locked
    <3>1. CASE d = c
      BY <1>1, <1>3, <1>4, <3>1 DEF HoldsItsList
    <3>2. CASE d # c /\ k = kind[c]
      BY <1>1, <1>3, <1>4, <3>2 DEF HoldsItsList
    <3>3. CASE d # c /\ k # kind[c]
      BY <1>1, <1>3, <1>4, <3>3 DEF HoldsItsList
    <3> QED BY <3>1, <3>2, <3>3
  <2> QED BY <2>1, <2>2 DEF HoldsItsList
<1>6. IdleNowhere'
  BY DEF Leave, Done, Proceed, GotoStep, IdleNowhere
<1> QED BY <1>2, <1>3, <1>5, <1>6 DEF Locked

\* A step of the threads, or of a stop() that goes on, keeps the invariant.
LEMMA ThreadStepPreservesManagerIInv ==
  ASSUME ActorIInv, ManagerIInv,
         \/ \E a \in Actors : ThreadStep(a)
         \/ \E c \in Clients :
              /\ StopLock(c) \/ StopNotified(c) \/ StopSignal(c)
              /\ UNCHANGED managerVars
         \/ \E t \in Threads : BufferLock(t) /\ UNCHANGED managerVars
  PROVE  ManagerIInv'
<1> USE DEF ActorIInv, ActorTypes
<1>1. ASSUME NEW a \in Actors, ThreadStep(a) PROVE ManagerIInv'
  <2>1. /\ UNCHANGED managerVars
        /\ UNCHANGED <<stopping, target>>
        /\ \/ UNCHANGED loop
           \/ /\ loop[a] \notin {"new", "joined"}
              /\ \E place \in LoopPlaces \ {"new", "joined"} : Goto(a, place)
    BY <1>1
    DEF ThreadStep, RunStep, CheckCall, CheckReturn, WorkCall, WorkStep, WorkSleep,
        WorkWakeup, RestTest, RestSleep, RestReturn, RestSpuriousWakeup,
        RestTimeout, actorVars, LoopPlaces
  <2>2. \A b \in Actors : loop'[b] \in {"new", "joined"}
                          <=> loop[b] \in {"new", "joined"}
    BY <2>1 DEF Goto
  <2> QED BY <2>1, <2>2, ThreadsKeepManagerIInv
<1>2. ASSUME NEW c \in Clients, UNCHANGED managerVars,
             StopLock(c) \/ StopNotified(c) \/ StopSignal(c)
      PROVE  ManagerIInv'
  <2>1. target' = target
    BY <1>2 DEF StopLock, StopNotified, StopSignal
  <2>2. \A d \in Clients : stopping'[d] # "no" <=> stopping[d] # "no"
    BY <1>2 DEF StopLock, StopNotified, StopSignal
  <2>3. \A b \in Actors : loop'[b] \in {"new", "joined"}
                          <=> loop[b] \in {"new", "joined"}
    BY <1>2 DEF StopLock, StopNotified, StopSignal
  <2> QED BY <1>2, <2>1, <2>2, <2>3, ThreadsKeepManagerIInv
<1>3. ASSUME NEW t \in Threads, BufferLock(t), UNCHANGED managerVars
      PROVE  ManagerIInv'
  BY <1>3, ThreadsKeepManagerIInv DEF BufferLock, actorVars
<1> QED BY <1>1, <1>2, <1>3

\* A client that neither takes nor leaves an actor moves on, and changes nothing
\* but its own place and the mutex of the list it is at.
LEMMA ClientMovePreservesManagerIInv ==
  ASSUME ManagerIInv, NEW c \in Clients,
         StartSession(c) \/ NewCall(c) \/ LockList(c) \/ AddChecked(c)
           \/ RemoveNothing(c) \/ CloseReturn(c) \/ DeleteBuffer(c)
           \/ ReadReturn(c)
  PROVE  ManagerIInv'
<1> USE ConstantsAssumption DEF ManagerIInv, ManagerTypes, Threads
<1>1. ASSUME StartSession(c) PROVE ManagerIInv'
  BY <1>1, MovesKeepManagerIInv
  DEF StartSession, vars, HoldsItsList, IdleNowhere
<1>2. ASSUME NEW j \in Jobs, NEW k \in Kinds \cup {"none"},
             NEW s \in {"lock", "read"}, s = "lock" => k \in Kinds,
             MayCall(c, j), Call(c, j, k, s)
      PROVE  ManagerIInv'
  <2>1. step[c] = "none"
    BY <1>2 DEF MayCall, IdleNowhere
  <2>2. ManagerTypes'
    BY <1>2 DEF Call, GotoStep, Jobs, Steps
  <2>3. HoldsItsList'
    BY <1>2, <2>1 DEF Call, GotoStep, HoldsItsList, Locked
  <2>4. IdleNowhere'
    BY <1>2 DEF Call, GotoStep, IdleNowhere, Jobs
  <2>5. /\ UNCHANGED <<actorVars, list, lost>>
        /\ \A d \in Clients :
             /\ step'[d] = "stopping" <=> step[d] = "stopping"
             /\ step[d] = "stopping" => kind'[d] = kind[d]
    BY <1>2, <2>1 DEF Call, GotoStep, vars
  <2> QED BY <2>2, <2>3, <2>4, <2>5, MovesKeepManagerIInv
<1>3. ASSUME NewCall(c) PROVE ManagerIInv'
  BY <1>2, <1>3
  DEF NewCall, CallAdd, CallRemove, CallRemoveAll, CallStopSession, CallRead, Kinds,
      Jobs
<1>4. ASSUME LockList(c) PROVE ManagerIInv'
  <2>1. step[c] = "lock" /\ kind[c] \in Kinds /\ listMutex[kind[c]] = Nobody
    BY <1>4 DEF LockList, At, HoldsItsList
  <2>2. /\ step'[c] \in {"check", "pick"}
        /\ \A d \in Clients \ {c} : step'[d] = step[d]
        /\ UNCHANGED <<job, kind>>
    BY <1>4 DEF LockList, Proceed, GotoStep
  <2>3. ManagerTypes'
    BY <1>4, <2>1 DEF LockList, Proceed, GotoStep, Steps
  <2>4. HoldsItsList'
    <3>1. ASSUME NEW d \in Clients, step'[d] \in Locked \cup {"lock"}
          PROVE  kind'[d] \in Kinds
      BY <2>1, <2>2, <3>1 DEF HoldsItsList
    <3>2. ASSUME NEW d \in Clients, NEW k \in Kinds
          PROVE  listMutex'[k] = d <=> kind'[d] = k /\ step'[d] \in Locked
      <4>1. CASE d = c
        BY <1>4, <2>1, <2>2, <4>1 DEF LockList, HoldsItsList, Locked
      <4>2. CASE d # c
        BY <1>4, <2>1, <2>2, <4>2 DEF LockList, HoldsItsList
      <4> QED BY <4>1, <4>2
    <3> QED BY <3>1, <3>2 DEF HoldsItsList
  <2>5. IdleNowhere'
    BY <2>1, <2>2 DEF IdleNowhere
  <2>6. UNCHANGED <<actorVars, list, lost>>
    BY <1>4 DEF LockList, vars
  <2> QED BY <2>1, <2>2, <2>3, <2>4, <2>5, <2>6, MovesKeepManagerIInv
<1>5. ASSUME AddChecked(c) PROVE ManagerIInv'
  <2>1. step[c] = "check" /\ kind[c] \in Kinds /\ listMutex[kind[c]] = c
    BY <1>5 DEF AddChecked, At, HoldsItsList, Locked
  <2>2. UNCHANGED <<actorVars, list, lost>>
    BY <1>5 DEF AddChecked
  <2>3. CASE UNCHANGED listMutex /\ Proceed(c, "create")
    <3>1. ManagerTypes'
      BY <1>5, <2>3 DEF AddChecked, Proceed, GotoStep, Steps
    <3>2. HoldsItsList'
      BY <2>1, <2>3 DEF Proceed, GotoStep, HoldsItsList, Locked
    <3>3. IdleNowhere'
      BY <2>1, <2>3 DEF Proceed, GotoStep, IdleNowhere
    <3> QED BY <2>1, <2>2, <2>3, <3>1, <3>2, <3>3, MovesKeepManagerIInv
            DEF Proceed, GotoStep
  <2>4. CASE Unlock(kind[c]) /\ Done(c)
    <3>1. UNCHANGED <<life, lost>> /\ UNCHANGED list /\ step[c] \in Locked
      BY <1>5, <2>1 DEF AddChecked, Locked
    <3>2. /\ ManagerTypes' /\ HoldsItsList' /\ IdleNowhere'
          /\ step'[c] # "stopping"
          /\ \A d \in Clients \ {c} : step'[d] = step[d] /\ kind'[d] = kind[d]
      BY <2>4, <3>1, LeavingKeepsTheLocks
    <3> QED BY <2>1, <2>2, <3>2, MovesKeepManagerIInv
  <2> QED BY <1>5, <2>3, <2>4 DEF AddChecked
<1>6. ASSUME RemoveNothing(c) PROVE ManagerIInv'
  <2>1. /\ UNCHANGED <<actorVars, life, list, lost>>
        /\ step[c] = "pick" /\ step[c] \in Locked /\ Leave(c)
    BY <1>6 DEF RemoveNothing, At, Locked, vars
  <2>2. /\ ManagerTypes' /\ HoldsItsList' /\ IdleNowhere'
        /\ step'[c] # "stopping"
        /\ \A d \in Clients \ {c} : step'[d] = step[d] /\ kind'[d] = kind[d]
    BY <2>1, LeavingKeepsTheLocks
  <2> QED BY <2>1, <2>2, MovesKeepManagerIInv
<1>7. ASSUME CloseReturn(c) \/ DeleteBuffer(c) \/ ReadReturn(c)
      PROVE  ManagerIInv'
  <2>1. /\ UNCHANGED <<actorVars, list, lost, listMutex>>
        /\ step[c] \notin Locked /\ step'[c] \notin Locked \cup {"lock"}
        /\ \A d \in Clients \ {c} : step'[d] = step[d] /\ kind'[d] = kind[d]
    BY <1>7 DEF CloseReturn, DeleteBuffer, ReadReturn, At, Done, Proceed, GotoStep,
                Locked, vars
  <2>2. ManagerTypes'
    BY <1>7 DEF CloseReturn, DeleteBuffer, ReadReturn, Done, Proceed, GotoStep,
                Steps
  <2>3. HoldsItsList'
    BY <2>1 DEF HoldsItsList
  <2>4. IdleNowhere'
    BY <1>7 DEF CloseReturn, DeleteBuffer, ReadReturn, At, Done, Proceed, GotoStep,
                IdleNowhere
  <2> QED BY <2>1, <2>2, <2>3, <2>4, MovesKeepManagerIInv DEF Locked
<1> QED BY <1>1, <1>3, <1>4, <1>5, <1>6, <1>7

\* Adding an actor lists it or, when it fails, loses it.
LEMMA AddPreservesManagerIInv ==
  ASSUME ActorIInv, ManagerIInv, NEW c \in Clients, AddCreate(c) \/ AddFails(c)
  PROVE  ManagerIInv'
<1> USE ConstantsAssumption DEF ManagerIInv, ManagerTypes, ActorIInv, ActorTypes
<1>1. /\ step[c] = "create" /\ step[c] \in Locked
      /\ kind[c] \in Kinds /\ listMutex[kind[c]] = c
      /\ Unlock(kind[c]) /\ Done(c)
      /\ UNCHANGED <<life, stopping, target>>
  BY DEF AddCreate, AddFails, Start, At, Locked, HoldsItsList, vars, actorVars
<1>2. ASSUME UNCHANGED list, lost' \in SUBSET Actors,
             \A k \in Kinds : \A a \in Pool(k) :
               loop'[a] \notin {"new", "joined"} /\ a \notin lost'
                 <=> loop[a] \notin {"new", "joined"} /\ a \notin lost
      PROVE  ManagerIInv'
  <2>1. /\ ManagerTypes' /\ HoldsItsList' /\ IdleNowhere'
        /\ step'[c] # "stopping"
        /\ \A d \in Clients \ {c} : step'[d] = step[d] /\ kind'[d] = kind[d]
    BY <1>1, <1>2, LeavingKeepsTheLocks
  <2>2. StopsTheFront'
    BY <1>1, <1>2, <2>1 DEF StopsTheFront
  <2>3. ListedOnce'
    BY <1>2 DEF ListedOnce
  <2> QED BY <2>1, <2>2, <2>3
<1>3. CASE UNCHANGED <<vars, lost, list>>
  BY <1>2, <1>3 DEF vars, actorVars
<1>4. ASSUME NEW a \in Fresh(kind[c]), lost' = lost \cup {a}, UNCHANGED list,
             UNCHANGED loop \/ Goto(a, "check")
      PROVE  ManagerIInv'
  <2>1. a \in Actors /\ loop[a] = "new"
    BY <1>4 DEF Fresh, Pool, Actors
  <2>2. \A k \in Kinds : \A b \in Pool(k) :
          loop'[b] \notin {"new", "joined"} /\ b \notin lost'
            <=> loop[b] \notin {"new", "joined"} /\ b \notin lost
    BY <1>4, <2>1 DEF Goto, Pool, Actors
  <2> QED BY <1>2, <1>4, <2>1, <2>2
<1>5. ASSUME NEW a \in Fresh(kind[c]), Goto(a, "check"), UNCHANGED lost,
             list' = [list EXCEPT ![kind[c]] = Append(@, a)]
      PROVE  ManagerIInv'
  <2>1. a \in Pool(kind[c]) /\ a \in Actors /\ loop[a] = "new" /\ a \notin lost
    BY <1>5 DEF Fresh, Pool, Actors
  <2>2. /\ list[kind[c]] \in Seq(Pool(kind[c]))
        /\ Distinct(list[kind[c]])
        /\ \A b \in Pool(kind[c]) :
             Running(b) /\ b \notin lost <=> Listed(list[kind[c]], b)
    BY <1>1 DEF ListedOnce, Distinct, Listed, Running
  <2>3. /\ list'[kind[c]] = Append(list[kind[c]], a)
        /\ \A k \in Kinds \ {kind[c]} : list'[k] = list[k]
    BY <1>1, <1>5
  <2>4. /\ list'[kind[c]] \in Seq(Pool(kind[c]))
        /\ \A x : Listed(list'[kind[c]], x) <=> Listed(list[kind[c]], x) \/ x = a
        /\ Distinct(list'[kind[c]])
    <3>1. ~Listed(list[kind[c]], a)
      BY <2>1, <2>2 DEF Running
    <3> QED BY <2>1, <2>2, <2>3, <3>1, AppendLists
  <2>5. /\ list' \in [Kinds -> Seq(Actors)]
        /\ \A k \in Kinds : list'[k] \in Seq(Pool(k))
    <3>1. list[kind[c]] \in Seq(Actors)
      BY <1>1
    <3>2. Append(list[kind[c]], a) \in Seq(Actors)
      BY <2>1, <3>1
    <3> QED BY <1>5, <2>3, <2>4, <3>2
  <2>6. /\ ManagerTypes' /\ HoldsItsList' /\ IdleNowhere'
        /\ step'[c] # "stopping"
        /\ \A d \in Clients \ {c} : step'[d] = step[d] /\ kind'[d] = kind[d]
    BY <1>1, <1>5, <2>5, LeavingKeepsTheLocks
  <2>7. StopsTheFront'
    <3>1. ASSUME NEW d \in Clients, step'[d] = "stopping"
          PROVE  list'[kind'[d]] # <<>> /\ target'[d] = Head(list'[kind'[d]])
      <4>1. d # c /\ step[d] = "stopping" /\ kind'[d] = kind[d]
        BY <2>6, <3>1
      <4>2. kind[d] \in Kinds \ {kind[c]}
        BY <1>1, <4>1 DEF HoldsItsList, Locked
      <4> QED BY <1>1, <2>3, <4>1, <4>2 DEF StopsTheFront
    <3> QED BY <1>1, <2>6, <3>1 DEF StopsTheFront
  <2>8. ListedOnce'
    <3>1. ASSUME NEW k \in Kinds
          PROVE  /\ \A b \in Pool(k) :
                       Running(b)' /\ b \notin lost' <=> Listed(list'[k], b)
                 /\ Distinct(list'[k])
      <4>1. CASE k = kind[c]
        <5>1. \A b \in Pool(k) : loop'[b] = IF b = a THEN "check" ELSE loop[b]
          BY <1>5 DEF Goto, Pool, Actors
        <5> QED BY <1>5, <2>1, <2>2, <2>4, <4>1, <5>1 DEF Running
      <4>2. CASE k # kind[c]
        <5>1. a \notin Pool(k)
          BY <1>1, <2>1, <4>2 DEF Pool, Kinds
        <5>2. \A b \in Pool(k) : loop'[b] = loop[b]
          BY <1>5, <5>1 DEF Goto, Pool, Actors
        <5>3. list'[k] = list[k] /\ lost' = lost
          BY <1>5, <2>3, <4>2
        <5>4. Distinct(list[k]) /\ \A b \in Pool(k) :
                Running(b) /\ b \notin lost <=> Listed(list[k], b)
          BY DEF ListedOnce, Listed, Distinct, Running
        <5> QED BY <5>2, <5>3, <5>4 DEF Running
      <4> QED BY <4>1, <4>2
    <3> QED BY <3>1 DEF ListedOnce, Listed, Distinct, Running
  <2> QED BY <2>6, <2>7, <2>8
<1>6. CASE AddCreate(c)
  BY <1>5, <1>6 DEF AddCreate, Start
<1>7. CASE AddFails(c)
  BY <1>3, <1>4, <1>7 DEF AddFails, Start, vars, actorVars
<1> QED BY <1>6, <1>7

\* A removal begins with the front of the list.
LEMMA RemoveFrontPreservesManagerIInv ==
  ASSUME ActorIInv, ManagerIInv, NEW c \in Clients, RemoveFront(c)
  PROVE  ManagerIInv'
<1> USE ConstantsAssumption DEF ManagerIInv, ManagerTypes, ActorIInv, ActorTypes
<1>1. /\ step[c] = "pick" /\ step[c] \in Locked /\ list[kind[c]] # <<>>
      /\ step' = [step EXCEPT ![c] = "stopping"]
      /\ stopping' = [stopping EXCEPT ![c] = "locking"]
      /\ target' = [target EXCEPT ![c] = Head(list[kind[c]])]
      /\ UNCHANGED <<loop, life, list, lost, listMutex, job, kind>>
  BY DEF RemoveFront, StopCall, At, Proceed, GotoStep, Locked
<1>2. ManagerTypes'
  BY <1>1 DEF Steps
<1>3. HoldsItsList'
  BY <1>1 DEF HoldsItsList, Locked
<1>4. StopsTheFront'
  BY <1>1 DEF StopsTheFront
<1>5. IdleNowhere'
  BY <1>1 DEF IdleNowhere
<1>6. ListedOnce'
  BY <1>1 DEF ListedOnce
<1> QED BY <1>2, <1>3, <1>4, <1>5, <1>6

\* It ends when its thread is joined: the list is without it, and nobody else
\* had anything to do with that list.
LEMMA RemoveJoinedPreservesManagerIInv ==
  ASSUME ActorIInv, ManagerIInv, NEW c \in Clients, RemoveJoined(c)
  PROVE  ManagerIInv'
<1> USE ConstantsAssumption DEF ManagerIInv, ManagerTypes, ActorIInv, ActorTypes
<1> DEFINE front == Head(list[kind[c]])
<1>1. /\ step[c] = "stopping" /\ step[c] \in Locked
      /\ kind[c] \in Kinds /\ listMutex[kind[c]] = c
      /\ list[kind[c]] # <<>> /\ target[c] = front
      /\ UNCHANGED <<life, lost>>
  BY DEF RemoveJoined, At, Locked, HoldsItsList, StopsTheFront
<1>2. /\ list[kind[c]] \in Seq(Pool(kind[c]))
      /\ Distinct(list[kind[c]])
      /\ \A b \in Pool(kind[c]) :
           Running(b) /\ b \notin lost <=> Listed(list[kind[c]], b)
  BY <1>1 DEF ListedOnce, Distinct, Listed, Running
<1>3. /\ front \in Pool(kind[c]) /\ front \in Actors
      /\ Tail(list[kind[c]]) \in Seq(Pool(kind[c]))
      /\ Distinct(Tail(list[kind[c]]))
      /\ \A x : Listed(Tail(list[kind[c]]), x)
                <=> Listed(list[kind[c]], x) /\ x # front
  <2>1. front \in Pool(kind[c])
    BY <1>1, <1>2, TailLists
  <2>2. front \in Actors
    BY <2>1 DEF Pool, Actors
  <2> QED BY <1>1, <1>2, <2>1, <2>2, TailLists
<1>4. /\ list' = [list EXCEPT ![kind[c]] = Tail(@)]
      /\ loop' = [loop EXCEPT ![front] = "joined"]
      /\ stopping' = [stopping EXCEPT ![c] = "no"]
      /\ target' = [target EXCEPT ![c] = Nobody]
  BY <1>1 DEF RemoveJoined, StopJoin, Goto
<1>5. /\ list'[kind[c]] = Tail(list[kind[c]])
      /\ \A k \in Kinds \ {kind[c]} : list'[k] = list[k]
  BY <1>1, <1>4
<1>6. /\ list' \in [Kinds -> Seq(Actors)]
      /\ \A k \in Kinds : list'[k] \in Seq(Pool(k))
  <2>1. list[kind[c]] \in Seq(Actors)
    BY <1>1
  <2>2. Tail(list[kind[c]]) \in Seq(Actors)
    BY <1>1, <2>1
  <2> QED BY <1>3, <1>4, <1>5, <2>2
<1>7. /\ ManagerTypes' /\ HoldsItsList' /\ IdleNowhere'
      /\ step'[c] # "stopping"
      /\ \A d \in Clients \ {c} : step'[d] = step[d] /\ kind'[d] = kind[d]
  <2>1. CASE Leave(c)
    BY <1>1, <1>6, <2>1, LeavingKeepsTheLocks
  <2>2. CASE UNCHANGED listMutex /\ Proceed(c, "pick")
    <3>1. ManagerTypes'
      BY <1>1, <1>6, <2>2 DEF Proceed, GotoStep, Steps
    <3>2. HoldsItsList'
      BY <1>1, <2>2 DEF Proceed, GotoStep, HoldsItsList, Locked
    <3>3. IdleNowhere'
      BY <1>1, <2>2 DEF Proceed, GotoStep, IdleNowhere
    <3> QED BY <2>2, <3>1, <3>2, <3>3 DEF Proceed, GotoStep
  <2> QED BY <2>1, <2>2 DEF RemoveJoined
<1>8. StopsTheFront'
  <2>1. ASSUME NEW d \in Clients, step'[d] = "stopping"
        PROVE  list'[kind'[d]] # <<>> /\ target'[d] = Head(list'[kind'[d]])
    <3>1. d # c /\ step[d] = "stopping" /\ kind'[d] = kind[d]
      BY <1>7, <2>1
    <3>2. kind[d] \in Kinds \ {kind[c]}
      BY <1>1, <3>1 DEF HoldsItsList, Locked
    <3> QED BY <1>4, <1>5, <3>1, <3>2 DEF StopsTheFront
  <2>2. \A d \in Clients : stopping'[d] # "no" <=> step'[d] = "stopping"
    BY <1>1, <1>4, <1>7 DEF StopsTheFront
  <2> QED BY <2>1, <2>2 DEF StopsTheFront
<1>9. ListedOnce'
  <2>1. ASSUME NEW k \in Kinds
        PROVE  /\ \A b \in Pool(k) :
                     Running(b)' /\ b \notin lost' <=> Listed(list'[k], b)
               /\ Distinct(list'[k])
    <3>1. \A b \in Pool(k) : loop'[b] = IF b = front THEN "joined" ELSE loop[b]
      BY <1>4 DEF Pool, Actors
    <3>2. CASE k = kind[c]
      BY <1>1, <1>2, <1>3, <1>5, <3>1, <3>2 DEF Running
    <3>3. CASE k # kind[c]
      <4>1. front \notin Pool(k)
        BY <1>1, <1>3, <3>3 DEF Pool, Kinds
      <4>2. list'[k] = list[k] /\ lost' = lost
        BY <1>1, <1>5, <3>3
      <4>3. Distinct(list[k]) /\ \A b \in Pool(k) :
              Running(b) /\ b \notin lost <=> Listed(list[k], b)
        BY DEF ListedOnce, Listed, Distinct, Running
      <4> QED BY <3>1, <4>1, <4>2, <4>3 DEF Running
    <3> QED BY <3>2, <3>3
  <2> QED BY <2>1 DEF ListedOnce, Listed, Distinct, Running
<1> QED BY <1>7, <1>8, <1>9

\* Every step of the manager keeps the invariant.
LEMMA StepPreservesManagerIInv ==
  ActorIInv /\ ManagerIInv /\ [ManagerNext]_allVars => ManagerIInv'
<1> SUFFICES ASSUME ActorIInv, ManagerIInv, [ManagerNext]_allVars
             PROVE  ManagerIInv'
  OBVIOUS
<1>1. ASSUME UNCHANGED <<actorVars, managerVars>> PROVE ManagerIInv'
  BY <1>1, ThreadsKeepManagerIInv DEF actorVars
<1>2. CASE UNCHANGED allVars
  BY <1>1, <1>2 DEF allVars, vars
<1>3. ASSUME NEW c \in Clients, StartSession(c) \/ NewCall(c) \/ LockList(c)
      PROVE  ManagerIInv'
  BY <1>3, ClientMovePreservesManagerIInv
<1>4. ASSUME NEW c \in Clients, JobStep(c) PROVE ManagerIInv'
  <2>1. CASE AddCheck(c) \/ CloseCall(c) \/ ReadCall(c)
    BY <1>1, <2>1 DEF AddCheck, CloseCall, ReadCall
  <2>2. CASE AddChecked(c) \/ RemoveNothing(c) \/ CloseReturn(c)
               \/ DeleteBuffer(c) \/ ReadReturn(c)
    BY <2>2, ClientMovePreservesManagerIInv
  <2>3. CASE AddCreate(c) \/ AddFails(c)
    BY <2>3, AddPreservesManagerIInv
  <2>4. CASE RemoveFront(c)
    BY <2>4, RemoveFrontPreservesManagerIInv
  <2>5. CASE RemoveJoined(c)
    BY <2>5, RemoveJoinedPreservesManagerIInv
  <2>6. CASE /\ StopLock(c) \/ StopNotified(c) \/ StopSignal(c)
             /\ UNCHANGED managerVars
    BY <2>6, ThreadStepPreservesManagerIInv
  <2> QED BY <1>4, <2>1, <2>2, <2>3, <2>4, <2>5, <2>6 DEF JobStep
<1>5. ASSUME NEW a \in Actors, ThreadStep(a) PROVE ManagerIInv'
  BY <1>5, ThreadStepPreservesManagerIInv
<1>6. ASSUME NEW t \in Threads, BufferLock(t), UNCHANGED managerVars
      PROVE  ManagerIInv'
  BY <1>6, ThreadStepPreservesManagerIInv
<1> QED BY <1>2, <1>3, <1>4, <1>5, <1>6 DEF ManagerNext, SessionStep

\* The three inductive invariants hold in every state of a session.
LEMMA ManagerIInvHolds == ManagerSpec => [](IInv /\ ActorIInv /\ ManagerIInv)
<1>1. ManagerInit => IInv /\ ActorIInv /\ ManagerIInv
  BY InitEstablishesIInv, InitEstablishesActorIInv, InitEstablishesManagerIInv
  DEF ManagerInit, ActorInit
<1>2. IInv /\ ActorIInv /\ ManagerIInv /\ [ManagerNext]_allVars
        => IInv' /\ ActorIInv' /\ ManagerIInv'
  BY StepDrivesActors, StepUsesTheBuffer, StepPreservesIInv,
     StepPreservesActorIInv, StepPreservesManagerIInv
<1> QED BY <1>1, <1>2, PTL DEF ManagerSpec

-----------------------------------------------------------------------------
(* stop(), when it has the manager to itself *)

\* No call overlaps one of stop(): the clients see to it, or there is only one.
StopIsAlone == OverlapStop => \A c, d \in Clients : c = d

\* A client that is inside the buffer is there for the step it is at.
InTheBuffer ==
  \A c \in Clients :
    at[c] # "out" => step[c] \in {"check", "close", "read"}
                      \/ stopping[c] = "notifying"

\* While stop() is called nobody else calls IPC.
StopsAlone ==
  \A c, d \in Clients : job[c] = "stop" /\ job[d] # "none" => c = d

\* What stop() has emptied by the time it is where it is.
StopInOrder ==
  \A c \in Clients :
    /\ step[c] \in {"close", "delete"} => job[c] = "stop"
    /\ job[c] = "stop" =>
         /\ kind[c] \in Kinds
         /\ step[c] \in {"lock", "pick", "stopping", "close", "delete"}
         /\ kind[c] = "consumers" => list["producers"] = <<>>
         /\ step[c] \in {"close", "delete"} =>
              kind[c] = "consumers" /\ list["consumers"] = <<>>

\* What DeleteBuffer needs to know, and what it leaves behind.
StopIInv ==
  /\ InTheBuffer
  /\ StopsAlone
  /\ StopInOrder
  /\ NothingOutlivesTheBuffer

\* Before start() nobody is in a call or in the buffer.
LEMMA InitEstablishesStopIInv == ManagerInit => StopIInv
BY DEF ManagerInit, ActorInit, BufferInit, StopIInv, InTheBuffer, StopsAlone,
       StopInOrder, NothingOutlivesTheBuffer, Threads

\* No step leaves a client inside the buffer that moves on.
LEMMA StepPreservesInTheBuffer ==
  ASSUME IInv, ActorIInv, ManagerIInv, InTheBuffer, [ManagerNext]_allVars
  PROVE  InTheBuffer'
<1>0. /\ at \in [Threads -> Places]
      /\ stopping \in [Clients -> StopPlaces]
      /\ job \in [Clients -> Jobs \cup {"none"}]
      /\ kind \in [Clients -> Kinds \cup {"none"}]
      /\ step \in [Clients -> Steps \cup {"none"}]
  BY DEF IInv, TypeOK, ActorIInv, ActorTypes, ManagerIInv, ManagerTypes
<1> USE ConstantsAssumption, <1>0 DEF Threads, Actors, InTheBuffer, Return, NotifyAll
<1>1. ASSUME UNCHANGED <<step, stopping>>,
             \A c \in Clients : at'[c] # "out" => at[c] # "out"
      PROVE  InTheBuffer'
  BY <1>1
<1>2. CASE UNCHANGED allVars
  BY <1>1, <1>2 DEF allVars, vars, bufferVars, actorVars, managerVars
<1>3. ASSUME NEW a \in Actors, ThreadStep(a) PROVE InTheBuffer'
  <2>1. UNCHANGED <<step, stopping>>
    BY <1>3 DEF ThreadStep, managerVars, RunStep, CheckCall, CheckReturn, WorkCall,
       WorkStep, WorkSleep, WorkWakeup, RestTest, RestSleep, RestReturn,
       RestSpuriousWakeup, RestTimeout, actorVars
  <2>2. \A c \in Clients : at'[c] # "out" => at[c] # "out"
    BY <1>3 DEF ThreadStep, RunStep, CheckCall, CheckReturn, WorkCall, WorkStep,
       WorkSleep, WorkWakeup, RestTest, RestSleep, RestReturn, RestSpuriousWakeup,
       RestTimeout, bufferVars, CallIsRunning, CallProduce, CallConsume, Enter,
       ReadBody, ProduceBody, ConsumeBody, Retest, TestPredicate, Sleep,
       SpuriousWakeup
  <2> QED BY <1>1, <2>1, <2>2
<1>4. ASSUME NEW t \in Threads, BufferLock(t), UNCHANGED managerVars
      PROVE  InTheBuffer'
  BY <1>1, <1>4 DEF BufferLock, Lock, actorVars, managerVars
<1>5. ASSUME NEW c \in Clients,
             AddCheck(c) \/ CloseCall(c) \/ ReadCall(c)
      PROVE  InTheBuffer'
  BY <1>5 DEF AddCheck, CloseCall, ReadCall, At, CallIsRunning, CallStop,
     CallGetCurrentIndex, Enter, actorVars, managerVars
<1>6. ASSUME NEW c \in Clients, UNCHANGED stopping, at'[c] = "out",
             \A d \in Clients \ {c} :
               step'[d] = step[d] /\ (at'[d] # "out" => at[d] # "out")
      PROVE  InTheBuffer'
  BY <1>6
<1>7. ASSUME NEW c \in Clients, AddChecked(c) \/ CloseReturn(c) \/ ReadReturn(c)
      PROVE  InTheBuffer'
  BY <1>6, <1>7 DEF AddChecked, CloseReturn, ReadReturn, ReadBody, StopBody, Done,
     Proceed, GotoStep, actorVars
<1>8. ASSUME NEW c \in Clients, step[c] \notin {"check", "close", "read"},
             stopping[c] # "notifying", UNCHANGED <<at, stopping>>,
             \A d \in Clients \ {c} : step'[d] = step[d]
      PROVE  InTheBuffer'
  BY <1>6, <1>8
<1>9. ASSUME NEW c \in Clients,
             LockList(c) \/ RemoveNothing(c) \/ DeleteBuffer(c) \/ AddFails(c)
               \/ AddCreate(c)
      PROVE  InTheBuffer'
  <2>1. step[c] \notin {"check", "close", "read"} /\ stopping[c] # "notifying"
    BY <1>9 DEF LockList, RemoveNothing, DeleteBuffer, AddFails, AddCreate, At,
       ManagerIInv, StopsTheFront
  <2>2. UNCHANGED <<at, stopping>>
    BY <1>9 DEF LockList, RemoveNothing, DeleteBuffer, AddFails, AddCreate, Start,
       vars, bufferVars, actorVars
  <2>3. \A d \in Clients \ {c} : step'[d] = step[d]
    BY <1>9 DEF LockList, RemoveNothing, DeleteBuffer, AddFails, AddCreate, Leave,
       Done, Proceed, GotoStep
  <2> QED BY <1>8, <2>1, <2>2, <2>3
<1>10. ASSUME NEW c \in Clients, NewCall(c) PROVE InTheBuffer'
  <2>1. /\ step[c] = "none" /\ UNCHANGED <<at, stopping>>
        /\ \A d \in Clients \ {c} : step'[d] = step[d]
    BY <1>10 DEF NewCall, CallAdd, CallRemove, CallRemoveAll, CallStopSession,
       CallRead, MayCall, Call, GotoStep, vars, bufferVars, actorVars, ManagerIInv,
       IdleNowhere
  <2>2. stopping[c] # "notifying"
    BY <2>1 DEF ManagerIInv, StopsTheFront
  <2> QED BY <1>8, <2>1, <2>2
<1>11. ASSUME NEW c \in Clients, StartSession(c) PROVE InTheBuffer'
  BY <1>1, <1>11 DEF StartSession, vars, bufferVars, actorVars
<1>12. ASSUME NEW c \in Clients, RemoveFront(c) PROVE InTheBuffer'
  BY <1>12 DEF RemoveFront, StopCall, At, Proceed, GotoStep, bufferVars
<1>13. ASSUME NEW c \in Clients, RemoveJoined(c) PROVE InTheBuffer'
  <2>1. at[c] = "out"
    BY <1>13 DEF RemoveJoined, StopJoin, At
  <2>2. /\ UNCHANGED at
        /\ \A d \in Clients \ {c} :
             step'[d] = step[d] /\ stopping'[d] = stopping[d]
    BY <1>13 DEF RemoveJoined, StopJoin, Leave, Done, Proceed, GotoStep, bufferVars
  <2> QED BY <2>1, <2>2
<1>14. ASSUME NEW c \in Clients, UNCHANGED managerVars,
              StopLock(c) \/ StopNotified(c) \/ StopSignal(c)
       PROVE  InTheBuffer'
  <2>1. UNCHANGED step /\ \A d \in Clients \ {c} : stopping'[d] = stopping[d]
    BY <1>14 DEF StopLock, StopNotified, StopSignal, managerVars
  <2>2. \A d \in Clients \ {c} : at'[d] # "out" => at[d] # "out"
    BY <1>14 DEF StopLock, StopNotified, StopSignal, CallNotify, NotifyBody,
       bufferVars
  <2>3. at'[c] # "out" => step[c] \in {"check", "close", "read"}
                           \/ stopping'[c] = "notifying"
    BY <1>14 DEF StopLock, StopNotified, StopSignal, CallNotify, NotifyBody,
       bufferVars, ActorIInv, ActorTypes
  <2> QED BY <2>1, <2>2, <2>3
<1> QED BY <1>2, <1>3, <1>4, <1>5, <1>7, <1>9, <1>10, <1>11, <1>12, <1>13, <1>14
        DEF ManagerNext, SessionStep, JobStep

\* stop() starts when no other call is under way, and no other call starts before
\* it returns; so what it has emptied stays empty.
LEMMA StepPreservesStopInOrder ==
  ASSUME StopIsAlone, ManagerIInv, StopsAlone, StopInOrder,
         [ManagerNext]_allVars
  PROVE  StopsAlone' /\ StopInOrder'
<1>0. /\ list \in [Kinds -> Seq(Actors)]
      /\ job \in [Clients -> Jobs \cup {"none"}]
      /\ kind \in [Clients -> Kinds \cup {"none"}]
      /\ step \in [Clients -> Steps \cup {"none"}]
  BY DEF ManagerIInv, ManagerTypes
<1>1. ASSUME UNCHANGED <<list, job, kind, step>> PROVE StopsAlone' /\ StopInOrder'
  BY <1>1 DEF StopsAlone, StopInOrder
<1>2. ASSUME NEW c \in Clients, NEW j \in Jobs, NEW k \in Kinds \cup {"none"},
             NEW s \in {"lock", "read"}, j = "stop" => k = "producers" /\ s = "lock",
             MayCall(c, j), Call(c, j, k, s)
      PROVE  StopsAlone' /\ StopInOrder'
  <2>1. /\ \A d \in Clients : job[d] # "stop"
        /\ j = "stop" => \A d \in Clients : job[d] = "none"
    BY <1>2 DEF MayCall, StopIsAlone
  <2>2. /\ job' = [job EXCEPT ![c] = j] /\ kind' = [kind EXCEPT ![c] = k]
        /\ step' = [step EXCEPT ![c] = s] /\ UNCHANGED list
    BY <1>2 DEF Call, GotoStep
  <2>3. StopsAlone'
    BY <1>0, <2>1, <2>2 DEF StopsAlone
  <2>4. ASSUME NEW d \in Clients
        PROVE  /\ step'[d] \in {"close", "delete"} => job'[d] = "stop"
               /\ job'[d] = "stop" => kind'[d] = "producers" /\ step'[d] = "lock"
    BY <1>0, <1>2, <2>1, <2>2 DEF StopInOrder
  <2> QED BY <2>3, <2>4 DEF StopInOrder, Kinds
<1>3. ASSUME NEW c \in Clients, NewCall(c) PROVE StopsAlone' /\ StopInOrder'
  BY <1>2, <1>3 DEF NewCall, CallAdd, CallRemove, CallRemoveAll, CallStopSession,
     CallRead, Kinds, Jobs
<1>4. ASSUME NEW c \in Clients, job[c] \notin {"stop", "none"},
             job'[c] \in {job[c], "none"}, step'[c] \notin {"close", "delete"},
             \A d \in Clients \ {c} : job'[d] = job[d] /\ step'[d] = step[d]
      PROVE  StopsAlone' /\ StopInOrder'
  BY <1>4 DEF StopsAlone, StopInOrder
<1>5. ASSUME NEW c \in Clients, job[c] = "stop",
             \A d \in Clients \ {c} : job'[d] = job[d] /\ step'[d] = step[d],
             step'[c] \in {"close", "delete"} => job'[c] = "stop",
             job'[c] = "stop" =>
               /\ kind'[c] \in Kinds
               /\ step'[c] \in {"lock", "pick", "stopping", "close", "delete"}
               /\ kind'[c] = "consumers" => list'["producers"] = <<>>
               /\ step'[c] \in {"close", "delete"} =>
                    kind'[c] = "consumers" /\ list'["consumers"] = <<>>
      PROVE  StopsAlone' /\ StopInOrder'
  BY <1>5 DEF StopsAlone, StopInOrder
<1>6. ASSUME NEW c \in Clients, step[c] # "none"
      PROVE  job[c] # "none"
  BY <1>6 DEF ManagerIInv, IdleNowhere
<1>7. ASSUME NEW c \in Clients, LockList(c) PROVE StopsAlone' /\ StopInOrder'
  <2>1. step[c] = "lock" /\ job[c] # "none"
    BY <1>6, <1>7 DEF LockList, At
  <2>2. /\ UNCHANGED <<job, kind, list>>
        /\ step' = [step EXCEPT ![c] = IF job[c] = "add" THEN "check" ELSE "pick"]
    BY <1>7 DEF LockList, Proceed, GotoStep
  <2>3. CASE job[c] # "stop"
    BY <1>0, <1>4, <2>1, <2>2, <2>3
  <2>4. CASE job[c] = "stop"
    <3>1. /\ kind[c] \in Kinds
          /\ kind[c] = "consumers" => list["producers"] = <<>>
      BY <2>4 DEF StopInOrder
    <3>2. step'[c] = "pick" /\ \A d \in Clients \ {c} : step'[d] = step[d]
      BY <1>0, <2>2, <2>4
    <3> QED BY <1>5, <2>2, <2>4, <3>1, <3>2
  <2> QED BY <2>3, <2>4
<1>8. ASSUME NEW c \in Clients,
             AddChecked(c) \/ AddCreate(c) \/ AddFails(c) \/ ReadReturn(c)
      PROVE  StopsAlone' /\ StopInOrder'
  <2>1. step[c] \in {"check", "create", "read"} /\ job[c] # "none"
    BY <1>6, <1>8 DEF AddChecked, AddCreate, AddFails, ReadReturn, At
  <2>2. job[c] # "stop"
    BY <2>1 DEF StopInOrder
  <2>3. /\ job'[c] \in {job[c], "none"} /\ step'[c] \notin {"close", "delete"}
        /\ \A d \in Clients \ {c} : job'[d] = job[d] /\ step'[d] = step[d]
    BY <1>0, <1>8 DEF AddChecked, AddCreate, AddFails, ReadReturn, Done, Proceed,
       GotoStep
  <2> QED BY <1>4, <2>1, <2>2, <2>3
<1>9. ASSUME NEW c \in Clients, RemoveFront(c) PROVE StopsAlone' /\ StopInOrder'
  <2>1. /\ step[c] = "pick" /\ job[c] # "none" /\ UNCHANGED <<job, kind, list>>
        /\ step' = [step EXCEPT ![c] = "stopping"]
    BY <1>6, <1>9 DEF RemoveFront, At, Proceed, GotoStep
  <2>2. step'[c] = "stopping" /\ \A d \in Clients \ {c} : step'[d] = step[d]
    BY <1>0, <2>1
  <2>3. CASE job[c] # "stop"
    BY <1>4, <2>1, <2>2, <2>3
  <2>4. CASE job[c] = "stop"
    <3>1. /\ kind[c] \in Kinds
          /\ kind[c] = "consumers" => list["producers"] = <<>>
      BY <2>4 DEF StopInOrder
    <3> QED BY <1>5, <2>1, <2>2, <2>4, <3>1
  <2> QED BY <2>3, <2>4
<1>10. ASSUME NEW c \in Clients, RemoveNothing(c)
       PROVE  StopsAlone' /\ StopInOrder'
  <2>1. /\ step[c] = "pick" /\ job[c] # "none" /\ UNCHANGED list
        /\ list[kind[c]] = <<>> /\ Leave(c)
    BY <1>6, <1>10 DEF RemoveNothing, At
  <2>2. \A d \in Clients \ {c} : job'[d] = job[d] /\ step'[d] = step[d]
    BY <1>0, <2>1 DEF Leave, Done, Proceed, GotoStep
  <2>3. CASE job[c] # "stop"
    <3>1. job'[c] = "none" /\ step'[c] = "none"
      BY <1>0, <2>1, <2>3 DEF Leave, Done, GotoStep
    <3> QED BY <1>4, <2>1, <2>2, <2>3, <3>1
  <2>4. CASE job[c] = "stop" /\ kind[c] = "producers"
    <3>1. kind'[c] = "consumers" /\ step'[c] = "lock"
      BY <1>0, <2>1, <2>4 DEF Leave, GotoStep
    <3> QED BY <1>5, <2>1, <2>2, <2>4, <3>1 DEF Kinds
  <2>5. CASE job[c] = "stop" /\ kind[c] = "consumers"
    <3>1. job'[c] = "stop" /\ kind'[c] = "consumers" /\ step'[c] = "close"
      BY <1>0, <2>1, <2>5 DEF Leave, Proceed, GotoStep
    <3>2. list["producers"] = <<>>
      BY <2>5 DEF StopInOrder
    <3> QED BY <1>5, <2>1, <2>2, <2>5, <3>1, <3>2 DEF Kinds
  <2>6. job[c] = "stop" => kind[c] \in Kinds
    BY DEF StopInOrder
  <2> QED BY <2>3, <2>4, <2>5, <2>6 DEF Kinds
<1>11. ASSUME NEW c \in Clients, RemoveJoined(c) PROVE StopsAlone' /\ StopInOrder'
  <2>1. /\ step[c] = "stopping" /\ job[c] # "none"
        /\ list' = [list EXCEPT ![kind[c]] = Tail(@)]
        /\ \/ job[c] = "remove" /\ Leave(c)
           \/ job[c] # "remove" /\ Proceed(c, "pick")
    BY <1>6, <1>11 DEF RemoveJoined, At
  <2>2. \A d \in Clients \ {c} : job'[d] = job[d] /\ step'[d] = step[d]
    BY <1>0, <2>1 DEF Leave, Done, Proceed, GotoStep
  <2>3. CASE job[c] # "stop"
    <3>1. job'[c] \in {job[c], "none"} /\ step'[c] \in {"none", "pick"}
      BY <1>0, <2>1, <2>3 DEF Leave, Done, Proceed, GotoStep
    <3> QED BY <1>4, <2>1, <2>2, <2>3, <3>1
  <2>4. CASE job[c] = "stop"
    <3>1. UNCHANGED <<job, kind>> /\ step'[c] = "pick"
      BY <1>0, <2>1, <2>4 DEF Proceed, GotoStep
    <3>2. /\ kind[c] \in Kinds
          /\ kind[c] = "consumers" => list["producers"] = <<>>
      BY <2>4 DEF StopInOrder
    <3>3. kind[c] = "consumers" => list'["producers"] = <<>>
      BY <1>0, <2>1, <3>2 DEF Kinds
    <3> QED BY <1>5, <2>2, <2>4, <3>1, <3>2, <3>3
  <2> QED BY <2>3, <2>4
<1>12. ASSUME NEW c \in Clients, CloseReturn(c) PROVE StopsAlone' /\ StopInOrder'
  <2>1. /\ step[c] = "close" /\ step' = [step EXCEPT ![c] = "delete"]
        /\ UNCHANGED <<list, job, kind>>
    BY <1>12 DEF CloseReturn, At, Proceed, GotoStep
  <2>2. /\ job[c] = "stop" /\ kind[c] = "consumers"
        /\ list["producers"] = <<>> /\ list["consumers"] = <<>>
    BY <2>1 DEF StopInOrder
  <2>3. step'[c] = "delete" /\ \A d \in Clients \ {c} : step'[d] = step[d]
    BY <1>0, <2>1
  <2> QED BY <1>5, <2>1, <2>2, <2>3 DEF Kinds
<1>13. ASSUME NEW c \in Clients, DeleteBuffer(c)
       PROVE  StopsAlone' /\ StopInOrder'
  <2>1. step[c] = "delete" /\ Done(c)
    BY <1>13 DEF DeleteBuffer, At
  <2>2. job[c] = "stop"
    BY <2>1 DEF StopInOrder
  <2>3. /\ job'[c] = "none" /\ step'[c] = "none"
        /\ \A d \in Clients \ {c} : job'[d] = job[d] /\ step'[d] = step[d]
    BY <1>0, <2>1 DEF Done, GotoStep
  <2> QED BY <1>5, <2>2, <2>3
<1>14. ASSUME NEW c \in Clients,
              AddCheck(c) \/ CloseCall(c) \/ ReadCall(c) \/ StartSession(c)
       PROVE  StopsAlone' /\ StopInOrder'
  BY <1>1, <1>14 DEF AddCheck, CloseCall, ReadCall, StartSession, managerVars
<1>15. ASSUME NEW a \in Actors, ThreadStep(a) PROVE StopsAlone' /\ StopInOrder'
  BY <1>1, <1>15 DEF ThreadStep, managerVars
<1>16. ASSUME UNCHANGED managerVars PROVE StopsAlone' /\ StopInOrder'
  BY <1>1, <1>16 DEF managerVars
<1>17. CASE UNCHANGED allVars
  BY <1>16, <1>17 DEF allVars
<1> QED BY <1>3, <1>7, <1>8, <1>9, <1>10, <1>11, <1>12, <1>13, <1>14, <1>15, <1>16,
           <1>17 DEF ManagerNext, SessionStep, JobStep

\* stop() deletes the buffer when both lists are empty and nobody else is in a
\* call: every actor is joined, was never started or is lost, and no client has
\* stayed inside.
LEMMA StepPreservesNothingOutlives ==
  ASSUME IInv, ActorIInv, ManagerIInv, StopIInv, [ManagerNext]_allVars
  PROVE  NothingOutlivesTheBuffer'
<1> USE ConstantsAssumption DEF Threads, Actors, StopIInv
<1>1. ASSUME NEW c \in Clients, DeleteBuffer(c) PROVE NothingOutlivesTheBuffer'
  <2>1. /\ step[c] = "delete" /\ UNCHANGED <<at, mutex, loop, list, lost, listMutex>>
        /\ job' = [job EXCEPT ![c] = "none"]
    BY <1>1 DEF DeleteBuffer, At, Done, vars, bufferVars, actorVars
  <2>2. job[c] = "stop" /\ \A k \in Kinds : list[k] = <<>>
    BY <2>1 DEF StopInOrder, Kinds
  <2>3. \A d \in Clients \ {c} : job[d] = "none" /\ step[d] = "none"
    BY <2>2 DEF StopsAlone, ManagerIInv, IdleNowhere
  <2>4. \A d \in Clients : job'[d] = "none"
    BY <2>1, <2>3 DEF ManagerIInv, ManagerTypes
  <2>5. \A a \in Actors \ lost : loop[a] \in {"new", "joined"}
    <3>1. ASSUME NEW k \in Kinds, NEW a \in Pool(k), a \notin lost
          PROVE  loop[a] \in {"new", "joined"}
      <4>1. Len(list[k]) = 0
        BY <2>2
      <4> QED BY <3>1, <4>1 DEF ManagerIInv, ListedOnce
    <3> QED BY <3>1 DEF Pool, Kinds
  <2>6. \A a \in Actors \ lost : at[a] = "out"
    BY <2>5 DEF ActorIInv, InsideLoop
  <2>7. \A d \in Clients : at[d] = "out"
    <3>1. \A d \in Clients : step[d] \in {"none", "delete"}
      BY <2>1, <2>3
    <3>2. \A d \in Clients : stopping[d] = "no"
      BY <3>1 DEF ManagerIInv, StopsTheFront
    <3> QED BY <3>1, <3>2 DEF InTheBuffer
  <2>8. \A t \in Threads : at[t] = "out" => mutex # t
    BY DEF IInv, HolderIsInside, Holding
  <2>9. \A k \in Kinds : listMutex[k] = Nobody
    <3>1. \A d \in Clients : step[d] \notin Locked
      BY <2>1, <2>3 DEF Locked
    <3> QED BY <3>1 DEF ManagerIInv, ManagerTypes, HoldsItsList
  <2> QED BY <2>1, <2>2, <2>4, <2>5, <2>6, <2>7, <2>8, <2>9
          DEF NothingOutlivesTheBuffer
<1>2. CASE UNCHANGED allVars
  BY <1>2 DEF allVars, vars, bufferVars, actorVars, managerVars, StopIInv,
     NothingOutlivesTheBuffer
<1>3. ASSUME life' # "deleted" PROVE NothingOutlivesTheBuffer'
  BY <1>3 DEF NothingOutlivesTheBuffer
<1>4. ASSUME NEW c \in Clients, StartSession(c) PROVE life' # "deleted"
  BY <1>4 DEF StartSession
<1>5. ASSUME life = "live", SessionStep, \A c \in Clients : ~DeleteBuffer(c)
      PROVE  life' # "deleted"
  <2>1. ASSUME NEW c \in Clients, NewCall(c) \/ LockList(c) PROVE UNCHANGED life
    BY <2>1 DEF NewCall, CallAdd, CallRemove, CallRemoveAll, CallStopSession,
       CallRead, Call, LockList
  <2>2. ASSUME NEW c \in Clients, JobStep(c) PROVE UNCHANGED life
    BY <1>5, <2>2 DEF JobStep, AddCheck, AddChecked, AddCreate, AddFails,
       RemoveFront, RemoveNothing, RemoveJoined, CloseCall, CloseReturn, ReadCall,
       ReadReturn, managerVars
  <2>3. ASSUME NEW a \in Actors, ThreadStep(a) PROVE UNCHANGED life
    BY <2>3 DEF ThreadStep, managerVars
  <2> QED BY <1>5, <2>1, <2>2, <2>3 DEF SessionStep, managerVars
<1> QED BY <1>1, <1>2, <1>3, <1>4, <1>5 DEF ManagerNext

\* Without an overlapping call, that invariant holds in every state of a session.
LEMMA StopIInvHolds ==
  ASSUME StopIsAlone PROVE ManagerSpec => []StopIInv
<1>1. IInv /\ ActorIInv /\ ManagerIInv /\ StopIInv /\ [ManagerNext]_allVars
        => StopIInv'
  BY StepPreservesInTheBuffer, StepPreservesStopInOrder,
     StepPreservesNothingOutlives DEF StopIInv
<1> QED BY <1>1, InitEstablishesStopIInv, ManagerIInvHolds, PTL DEF ManagerSpec

-----------------------------------------------------------------------------
(* Who is started *)

\* A thread does not start by itself.
LEMMA NobodyStartsAlone ==
  ASSUME ActorIInv, NEW a \in Actors, NEW b \in Actors, loop[b] = "new",
         ThreadStep(a) \/ BufferLock(a)
  PROVE  loop'[b] = "new"
<1>0. /\ loop \in [Actors -> LoopPlaces]
      /\ \A d \in Actors : at[d] # "out" => loop[d] # "new"
  BY DEF ActorIInv, ActorTypes, InsideLoop
<1>1. CASE UNCHANGED loop
  BY <1>1
<1>2. CASE loop[a] # "new" /\ \E place \in LoopPlaces : Goto(a, place)
  BY <1>0, <1>2 DEF Goto
<1>3. CASE RunStep(a)
  <2>1. CASE CheckCall(a) \/ WorkCall(a) \/ WorkSleep(a)
    BY <1>1, <2>1 DEF CheckCall, WorkCall, WorkSleep, actorVars
  <2>2. CASE CheckReturn(a)
    BY <1>2, <2>2 DEF CheckReturn, LoopPlaces
  <2>3. CASE WorkStep(a)
    BY <1>2, <2>3 DEF WorkStep, LoopPlaces
  <2>4. CASE RestTest(a) \/ RestSleep(a) \/ RestReturn(a)
    BY <1>2, <2>4 DEF RestTest, RestSleep, RestReturn, LoopPlaces
  <2> QED BY <1>3, <2>1, <2>2, <2>3, <2>4 DEF RunStep
<1>4. CASE WorkWakeup(a) \/ BufferLock(a)
  BY <1>1, <1>4 DEF WorkWakeup, BufferLock, actorVars
<1>5. CASE RestSpuriousWakeup(a) \/ RestTimeout(a)
  BY <1>2, <1>5 DEF RestSpuriousWakeup, RestTimeout, LoopPlaces
<1> QED BY <1>3, <1>4, <1>5 DEF ThreadStep

\* A step within a call starts an actor of the list that the call adds to, which is
\* not a lost one, or none; an actor that it loses was new, and stays so unless
\* push_back throws.
LEMMA CallsStartActors ==
  ASSUME ActorIInv, ManagerIInv, NEW c \in Clients, LockList(c) \/ JobStep(c)
  PROVE  /\ \A a \in Actors :
              loop[a] = "new" =>
                \/ loop'[a] = "new"
                \/ step[c] = "create" /\ a \in Pool(kind[c]) \ lost
         /\ \A a \in lost' \ lost : loop'[a] = "new" \/ "push_back" \in Faults
         /\ Faults = {} => lost' = lost
<1>0. /\ loop \in [Actors -> LoopPlaces] /\ target \in [Clients -> Actors \cup {Nobody}]
      /\ step[c] = "create" => kind[c] \in Kinds
  BY DEF ActorIInv, ActorTypes, ManagerIInv, HoldsItsList, Locked
<1>1. CASE AddCreate(c)
  <2>1. step[c] = "create" /\ lost' = lost
    BY <1>1 DEF AddCreate, At
  <2>2. PICK b \in Fresh(kind[c]) : Start(c, b)
    BY <1>1 DEF AddCreate
  <2>3. b \in Pool(kind[c]) \ lost
    BY <2>2 DEF Fresh
  <2> QED BY <1>0, <2>1, <2>2, <2>3 DEF Start, Goto
<1>2. CASE AddFails(c)
  <2>1. step[c] = "create"
    BY <1>2 DEF AddFails, At
  <2>2. CASE "new" \in Faults /\ UNCHANGED <<vars, lost>>
    BY <2>2 DEF vars, actorVars
  <2>3. ASSUME NEW b \in Fresh(kind[c]), lost' = lost \cup {b},
               \/ "start" \in Faults /\ UNCHANGED vars
               \/ "push_back" \in Faults /\ Start(c, b)
        PROVE  /\ \A a \in Actors :
                    loop[a] = "new" =>
                      \/ loop'[a] = "new"
                      \/ step[c] = "create" /\ a \in Pool(kind[c]) \ lost
               /\ \A a \in lost' \ lost : loop'[a] = "new" \/ "push_back" \in Faults
               /\ Faults = {} => lost' = lost
    <3>1. b \in Pool(kind[c]) \ lost /\ loop[b] = "new"
      BY DEF Fresh
    <3> QED BY <1>0, <2>1, <2>3, <3>1 DEF Start, Goto, vars, actorVars
  <2> QED BY <1>2, <2>2, <2>3 DEF AddFails
<1>3. CASE StopSignal(c) /\ UNCHANGED managerVars
  BY <1>0, <1>3 DEF StopSignal, managerVars
<1>4. CASE RemoveJoined(c)
  BY <1>0, <1>4 DEF RemoveJoined, StopJoin, Goto
<1>5. CASE UNCHANGED <<loop, lost>>
  BY <1>5
<1>6. CASE LockList(c) \/ AddCheck(c) \/ AddChecked(c) \/ RemoveFront(c)
             \/ RemoveNothing(c) \/ CloseCall(c) \/ CloseReturn(c) \/ DeleteBuffer(c)
             \/ ReadCall(c) \/ ReadReturn(c)
  BY <1>5, <1>6
  DEF LockList, AddCheck, AddChecked, RemoveFront, StopCall, RemoveNothing, CloseCall,
      CloseReturn, DeleteBuffer, ReadCall, ReadReturn, vars, actorVars, managerVars
<1>7. CASE (StopLock(c) \/ StopNotified(c)) /\ UNCHANGED managerVars
  BY <1>5, <1>7 DEF StopLock, StopNotified, managerVars
<1> QED BY <1>1, <1>2, <1>3, <1>4, <1>6, <1>7 DEF JobStep

\* What adding has lost never runs.
LostNeverRun == \A a \in lost : loop[a] = "new"

\* That is so if push_back does not throw.
LEMMA StepPreservesLostNeverRun ==
  ASSUME "push_back" \notin Faults, ActorIInv, ManagerIInv, LostNeverRun,
         [ManagerNext]_allVars
  PROVE  LostNeverRun'
<1>0. lost \subseteq Actors
  BY DEF ManagerIInv, ManagerTypes
<1>1. ASSUME UNCHANGED <<loop, lost>> PROVE LostNeverRun'
  BY <1>1 DEF LostNeverRun
<1>2. ASSUME NEW c \in Clients, LockList(c) \/ JobStep(c) PROVE LostNeverRun'
  BY <1>0, <1>2, CallsStartActors DEF LostNeverRun
<1>3. ASSUME NEW c \in Clients, StartSession(c) \/ NewCall(c) PROVE LostNeverRun'
  BY <1>1, <1>3 DEF StartSession, NewCall, CallAdd, CallRemove, CallRemoveAll,
     CallStopSession, CallRead, Call, vars, actorVars
<1>4. ASSUME NEW a \in Actors, ThreadStep(a) PROVE LostNeverRun'
  <2>1. \A b \in Actors : loop[b] = "new" => loop'[b] = "new"
    BY <1>4, NobodyStartsAlone
  <2>2. UNCHANGED lost
    BY <1>4 DEF ThreadStep, managerVars
  <2> QED BY <1>0, <2>1, <2>2 DEF LostNeverRun
<1>5. ASSUME NEW t \in Threads, BufferLock(t), UNCHANGED managerVars
      PROVE  LostNeverRun'
  BY <1>1, <1>5 DEF BufferLock, actorVars, managerVars
<1>6. CASE UNCHANGED allVars
  BY <1>1, <1>6 DEF allVars, vars, actorVars, managerVars
<1> QED BY <1>2, <1>3, <1>4, <1>5, <1>6 DEF ManagerNext, SessionStep

-----------------------------------------------------------------------------
(* The theorems *)

\* However many clients call IPC at once, and whatever adding an actor fails at,
\* the manager starts, stops and uses the actors as IActor allows: no actor is
\* stopped twice or before it was started, and the theorems of IActorProofs and of
\* SharedBufferProofs are the session's.
THEOREM ManagerDrivesActors == ManagerSpec => DrivesActors
<1>1. ManagerInit => ActorInit
  BY DEF ManagerInit
<1> QED BY <1>1, StepDrivesActors, ManagerIInvHolds, PTL
        DEF ManagerSpec, DrivesActors, ActorSpec

\* Every variable of a session keeps its type.
THEOREM ManagerTypesAreKept == ManagerSpec => []ManagerTypeOK
<1>1. IInv /\ ActorIInv /\ ManagerIInv => ManagerTypeOK
  BY DEF IInv, ActorIInv, ActorTypes, ActorTypeOK, ManagerIInv, ManagerTypes,
     ManagerTypeOK
<1> QED BY <1>1, ManagerIInvHolds, PTL

\* producers_ and consumers_ hold every actor that runs once and no other, but for
\* those that adding lost: no removal meets an actor twice, or misses one.
THEOREM ActorsAreListedOnce == ManagerSpec => []ListedOnce
BY ManagerIInvHolds, PTL DEF ManagerIInv

\* An actor is stopped and joined under the mutex of its list, at its front, so
\* that two clients never stop the same one and the erased one is the joined one.
THEOREM ActorsStopUnderLock == ManagerSpec => []StopsUnderLock
<1>1. ManagerIInv => StopsUnderLock
  BY DEF ManagerIInv, HoldsItsList, StopsTheFront, Locked, StopsUnderLock
<1> QED BY <1>1, ManagerIInvHolds, PTL

\* When stop() deletes the buffer and no other IPC call overlaps it, as in every
\* program that calls IPC from one thread, no thread that uses the buffer is left but
\* those of the actors that adding lost.
THEOREM BufferOutlivesItsUsers ==
  ASSUME StopIsAlone PROVE ManagerSpec => []NothingOutlivesTheBuffer
<1>1. StopIInv => NothingOutlivesTheBuffer
  BY DEF StopIInv
<1> QED BY <1>1, StopIInvHolds, PTL

\* What the comment says of stop(), that it stops the producers and the consumers,
\* is true of a program whose calls do not overlap it, such as one that calls IPC from
\* one thread, unless push_back has left it with an actor that is on no list.
THEOREM StopAloneStopsEverybody ==
  ASSUME StopIsAlone, "push_back" \notin Faults
  PROVE  ManagerSpec => []StopStopsEverybody
<1>1. ManagerInit => LostNeverRun
  BY DEF ManagerInit, LostNeverRun
<1>2. ActorIInv /\ ManagerIInv /\ LostNeverRun /\ [ManagerNext]_allVars
        => LostNeverRun'
  BY StepPreservesLostNeverRun
<1>3. StopIInv /\ LostNeverRun => StopStopsEverybody
  BY DEF StopIInv, NothingOutlivesTheBuffer, LostNeverRun, StopStopsEverybody
<1> QED BY <1>1, <1>2, <1>3, ManagerIInvHolds, StopIInvHolds, PTL DEF ManagerSpec
=============================================================================
