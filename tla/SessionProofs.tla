---------------------------- MODULE SessionProofs ----------------------------
(***************************************************************************)
(* Manager implements Session for every number of actors and clients, and  *)
(* whatever adding an actor fails at, when stop() overlaps no other call:  *)
(* each call takes effect at one instant.  A removal of one actor does when *)
(* the joined actor is erased, a removal of a whole crew when its list is  *)
(* locked.                                                                 *)
(***************************************************************************)
EXTENDS ManagerProofs

\* What Session sees as its crew and its due.
Crew == [k \in Kinds |-> IF Emptying(k) THEN <<>> ELSE list[k]]
Due == [c \in Clients |-> ToDo(c)]

\* A client is only at the steps of the call it is in; closing and deleting the
\* buffer are StopInOrder's matter.
StepsMatchJobs ==
  \A c \in Clients :
    /\ step[c] = "lock" => job[c] \in {"add", "remove", "removeAll", "stop"}
    /\ step[c] \in {"check", "create"} => job[c] = "add"
    /\ step[c] \in {"pick", "stopping"} => job[c] \in {"remove", "removeAll", "stop"}
    /\ step[c] = "read" => job[c] = "read"

-----------------------------------------------------------------------------
(* The steps of the calls *)

\* Before start() no client is in a call.
LEMMA InitEstablishesStepsMatchJobs == ManagerInit => StepsMatchJobs
BY DEF ManagerInit, StepsMatchJobs

\* Every step of the manager leaves every client at a step of its call.
LEMMA StepPreservesStepsMatchJobs ==
  ASSUME ManagerIInv, StepsMatchJobs, [ManagerNext]_allVars
  PROVE  StepsMatchJobs'
<1>0. /\ job \in [Clients -> Jobs \cup {"none"}]
      /\ kind \in [Clients -> Kinds \cup {"none"}]
      /\ step \in [Clients -> Steps \cup {"none"}]
  BY DEF ManagerIInv, ManagerTypes
<1>1. ASSUME UNCHANGED <<job, step>> PROVE StepsMatchJobs'
  BY <1>1 DEF StepsMatchJobs
<1>2. ASSUME NEW c \in Clients, NewCall(c) PROVE StepsMatchJobs'
  BY <1>0, <1>2 DEF NewCall, CallAdd, CallRemove, CallRemoveAll, CallStopSession,
     CallRead, Call, GotoStep, StepsMatchJobs
<1>3. ASSUME NEW c \in Clients, LockList(c) PROVE StepsMatchJobs'
  BY <1>0, <1>3 DEF LockList, At, Proceed, GotoStep, StepsMatchJobs
<1>4. ASSUME NEW c \in Clients, AddChecked(c) PROVE StepsMatchJobs'
  BY <1>0, <1>4 DEF AddChecked, At, Done, Proceed, GotoStep, StepsMatchJobs
<1>5. ASSUME NEW c \in Clients,
             AddCreate(c) \/ AddFails(c) \/ DeleteBuffer(c) \/ ReadReturn(c)
      PROVE  StepsMatchJobs'
  BY <1>0, <1>5 DEF AddCreate, AddFails, DeleteBuffer, ReadReturn, Done, GotoStep,
     StepsMatchJobs
<1>6. ASSUME NEW c \in Clients, RemoveFront(c) \/ CloseReturn(c)
      PROVE  StepsMatchJobs'
  BY <1>0, <1>6 DEF RemoveFront, CloseReturn, At, Proceed, GotoStep, StepsMatchJobs
<1>7. ASSUME NEW c \in Clients, RemoveNothing(c) \/ RemoveJoined(c)
      PROVE  StepsMatchJobs'
  BY <1>0, <1>7 DEF RemoveNothing, RemoveJoined, At, Leave, Done, Proceed, GotoStep,
     StepsMatchJobs
<1>8. ASSUME NEW c \in Clients,
             AddCheck(c) \/ CloseCall(c) \/ ReadCall(c) \/ StartSession(c)
      PROVE  StepsMatchJobs'
  BY <1>1, <1>8 DEF AddCheck, CloseCall, ReadCall, StartSession, managerVars
<1>9. ASSUME UNCHANGED managerVars PROVE StepsMatchJobs'
  BY <1>1, <1>9 DEF managerVars
<1>10. ASSUME NEW a \in Actors, ThreadStep(a) PROVE StepsMatchJobs'
  BY <1>9, <1>10 DEF ThreadStep
<1>11. CASE UNCHANGED allVars
  BY <1>9, <1>11 DEF allVars
<1> QED BY <1>2, <1>3, <1>4, <1>5, <1>6, <1>7, <1>8, <1>9, <1>10, <1>11
        DEF ManagerNext, SessionStep, JobStep

-----------------------------------------------------------------------------
(* The crews and what is due, in terms of the locks *)

\* The crew of a list that nobody has locked is that list; who has locked it to
\* empty it has sent the crew away.
LEMMA CrewOfList ==
  ASSUME ManagerIInv, NEW k \in Kinds
  PROVE  /\ listMutex[k] = Nobody => Crew[k] = list[k]
         /\ \A c \in Clients : listMutex[k] = c =>
              Crew[k] = IF job[c] \in {"removeAll", "stop"} THEN <<>> ELSE list[k]
BY ConstantsAssumption DEF Threads, Crew, Emptying

\* What a client does leaves the crew alone that it has not locked.
LEMMA OtherCrewStays ==
  ASSUME ManagerIInv, NEW c \in Clients, NEW k \in Kinds,
         listMutex[k] # c, listMutex'[k] = listMutex[k], list'[k] = list[k],
         \A d \in Clients \ {c} : job'[d] = job[d]
  PROVE  Crew'[k] = Crew[k]
<1>1. Emptying(k)' <=> Emptying(k)
  BY DEF Emptying
<1> QED BY <1>1 DEF Crew

\* Nor does it change what is due of the others.
LEMMA OtherDueStays ==
  ASSUME NEW c \in Clients, NEW d \in Clients,
         job'[d] = job[d], kind'[d] = kind[d], step'[d] = step[d]
  PROVE  Due'[d] = Due[d]
BY DEF Due, ToDo, At

\* A client that has locked a list works on that list: what it does to the crews
\* and to what is due, it does there.
LEMMA AtTheList ==
  ASSUME ManagerIInv, NEW c \in Clients, step[c] \in Locked
  PROVE  /\ kind[c] \in Kinds /\ listMutex[kind[c]] = c
         /\ \A k \in Kinds \ {kind[c]} : listMutex[k] # c
         /\ Crew[kind[c]] = IF job[c] \in {"removeAll", "stop"}
                              THEN <<>> ELSE list[kind[c]]
<1>1. /\ kind[c] \in Kinds /\ listMutex[kind[c]] = c
      /\ \A k \in Kinds \ {kind[c]} : listMutex[k] # c
  BY DEF ManagerIInv, HoldsItsList
<1> QED BY <1>1, CrewOfList

-----------------------------------------------------------------------------
(* Every step is one of Session, or none *)

\* What takes effect when a client leaves its list, or changes places at it.
LEMMA ListStepTakesEffect ==
  ASSUME ManagerIInv, NEW c \in Clients, step[c] \in Locked,
         job' \in [Clients -> Jobs \cup {"none"}],
         \A k \in Kinds \ {kind[c]} : /\ list'[k] = list[k]
                                      /\ listMutex'[k] = listMutex[k],
         \A d \in Clients \ {c} :
           job'[d] = job[d] /\ kind'[d] = kind[d] /\ step'[d] = step[d]
  PROVE  /\ \A k \in Kinds \ {kind[c]} : Crew'[k] = Crew[k]
         /\ Crew' = [Crew EXCEPT ![kind[c]] = Crew'[kind[c]]]
         /\ Due' = [Due EXCEPT ![c] = ToDo(c)']
         /\ job' = [job EXCEPT ![c] = job'[c]]
<1>1. \A k \in Kinds \ {kind[c]} : Crew'[k] = Crew[k]
  BY AtTheList, OtherCrewStays
<1>2. \A d \in Clients \ {c} : Due'[d] = Due[d]
  BY OtherDueStays
<1>3. Crew' = [Crew EXCEPT ![kind[c]] = Crew'[kind[c]]]
  <2>1. Crew = [k \in Kinds |-> Crew[k]] /\ Crew' = [k \in Kinds |-> Crew'[k]]
    BY DEF Crew
  <2> QED BY <1>1, <2>1
<1>4. Due' = [Due EXCEPT ![c] = ToDo(c)']
  <2>1. /\ Due = [d \in Clients |-> Due[d]] /\ Due' = [d \in Clients |-> Due'[d]]
        /\ Due'[c] = ToDo(c)'
    BY DEF Due
  <2> QED BY <1>2, <2>1
<1>5. job' = [job EXCEPT ![c] = job'[c]]
  BY DEF ManagerIInv, ManagerTypes
<1> QED BY <1>1, <1>3, <1>4, <1>5

\* Calls are made as Session makes them.
LEMMA MakingACall ==
  ASSUME StopIsAlone, ManagerIInv, life = "live", NEW c \in Clients,
         NEW j \in Jobs, NEW k \in Kinds \cup {"none"}, NEW s \in {"lock", "read"},
         MayCall(c, j), Call(c, j, k, s), NEW work,
         work = ToDo(c)'
  PROVE  Session!Make(c, j, work)
<1> USE DEF ManagerIInv, ManagerTypes
<1>1. /\ job[c] = "none" /\ step[c] = "none"
      /\ \A d \in Clients : job[d] # "stop" /\ (j = "stop" => job[d] = "none")
  BY DEF MayCall, IdleNowhere, StopIsAlone
<1>2. /\ job' = [job EXCEPT ![c] = j]
      /\ \A d \in Clients \ {c} :
           job'[d] = job[d] /\ kind'[d] = kind[d] /\ step'[d] = step[d]
      /\ UNCHANGED <<life, list, listMutex>>
  BY DEF Call, GotoStep
<1>3. Crew' = Crew
  <2>1. \A n \in Kinds : listMutex[n] # c
    BY <1>1 DEF HoldsItsList, Locked
  <2>2. \A n \in Kinds : Crew'[n] = Crew[n]
    BY <1>2, <2>1, OtherCrewStays
  <2>3. Crew = [n \in Kinds |-> Crew[n]] /\ Crew' = [n \in Kinds |-> Crew'[n]]
    BY DEF Crew
  <2> QED BY <2>2, <2>3
<1>4. Due' = [Due EXCEPT ![c] = work]
  <2>1. \A d \in Clients \ {c} : Due'[d] = Due[d]
    BY <1>2, OtherDueStays
  <2>2. /\ Due = [d \in Clients |-> Due[d]] /\ Due' = [d \in Clients |-> Due'[d]]
        /\ Due'[c] = work
    BY DEF Due
  <2> QED BY <2>1, <2>2
<1> QED BY <1>1, <1>2, <1>3, <1>4 DEF Session!Make, Crew, Due

\* The calls that Session knows, with what they have to deal with.
LEMMA NewCallIsMade ==
  ASSUME StopIsAlone, ManagerIInv, life = "live", NEW c \in Clients, NewCall(c)
  PROVE  Session!MakeAny(c)
<1>0. /\ job \in [Clients -> Jobs \cup {"none"}]
      /\ kind \in [Clients -> Kinds \cup {"none"}]
      /\ step \in [Clients -> Steps \cup {"none"}]
  BY DEF ManagerIInv, ManagerTypes
<1>1. ASSUME NEW k \in Kinds, NEW j \in {"add", "remove", "removeAll"},
             MayCall(c, j), Call(c, j, k, "lock")
      PROVE  Session!MakeAny(c)
  <2>1. ToDo(c)' = {k}
    BY <1>0, <1>1 DEF Call, GotoStep, ToDo, At, Kinds
  <2>2. Session!Make(c, j, {k})
    BY <1>1, <2>1, MakingACall DEF Jobs
  <2> QED BY <2>2 DEF Session!MakeAny, Session!Kinds, Kinds
<1>2. ASSUME CallStopSession(c) PROVE Session!MakeAny(c)
  <2>1. ToDo(c)' = Session!Kinds \cup {"buffer"}
    BY <1>0, <1>2 DEF CallStopSession, Call, GotoStep, ToDo, At, Session!Kinds
  <2>2. Session!Make(c, "stop", Session!Kinds \cup {"buffer"})
    BY <1>2, <2>1, MakingACall DEF CallStopSession, Jobs, Kinds
  <2> QED BY <2>2 DEF Session!MakeAny
<1>3. ASSUME CallRead(c) PROVE Session!MakeAny(c)
  <2>1. ToDo(c)' = {}
    BY <1>0, <1>3 DEF CallRead, Call, GotoStep, ToDo, At
  <2>2. Session!Make(c, "read", {})
    BY <1>3, <2>1, MakingACall DEF CallRead, Jobs
  <2> QED BY <2>2 DEF Session!MakeAny
<1> QED BY <1>1, <1>2, <1>3 DEF NewCall, CallAdd, CallRemove, CallRemoveAll

\* Locking a list sends its crew away if the call is to empty it, and else has no
\* effect yet.
LEMMA LockingTakesEffect ==
  ASSUME ManagerIInv, StepsMatchJobs, NEW c \in Clients, LockList(c)
  PROVE  UNCHANGED <<life, Crew, job, Due>> \/ Session!Work(c)
<1> USE DEF ManagerIInv, ManagerTypes
<1>1. /\ step[c] = "lock" /\ kind[c] \in Kinds /\ listMutex[kind[c]] = Nobody
      /\ job[c] \in {"add", "remove", "removeAll", "stop"}
      /\ UNCHANGED <<life, list, job, kind>>
      /\ listMutex' = [listMutex EXCEPT ![kind[c]] = c]
      /\ step' = [step EXCEPT ![c] = IF job[c] = "add" THEN "check" ELSE "pick"]
  BY DEF LockList, At, Proceed, GotoStep, HoldsItsList, StepsMatchJobs
<1>2. /\ \A k \in Kinds \ {kind[c]} : Crew'[k] = Crew[k]
      /\ \A d \in Clients \ {c} : Due'[d] = Due[d]
  <2>1. \A k \in Kinds \ {kind[c]} :
          listMutex[k] # c /\ listMutex'[k] = listMutex[k]
    BY <1>1 DEF HoldsItsList, Locked
  <2>2. \A d \in Clients \ {c} : step'[d] = step[d]
    BY <1>1
  <2> QED BY <1>1, <2>1, <2>2, OtherCrewStays, OtherDueStays
<1>3. /\ Crew[kind[c]] = list[kind[c]]
      /\ Crew'[kind[c]] = IF job[c] \in {"removeAll", "stop"}
                            THEN <<>> ELSE list[kind[c]]
  <2>1. Crew[kind[c]] = list[kind[c]]
    BY <1>1, CrewOfList
  <2>2. listMutex'[kind[c]] = c
    BY <1>1
  <2>3. Emptying(kind[c])' <=> job[c] \in {"removeAll", "stop"}
    BY <1>1, <2>2 DEF Emptying
  <2> QED BY <1>1, <2>1, <2>3 DEF Crew
<1>4. /\ Due[c] = ToDo(c) /\ Due'[c] = ToDo(c)'
      /\ step'[c] # "lock"
  BY <1>1 DEF Due
<1>5. /\ Crew = [k \in Kinds |-> Crew[k]] /\ Crew' = [k \in Kinds |-> Crew'[k]]
      /\ Due = [d \in Clients |-> Due[d]] /\ Due' = [d \in Clients |-> Due'[d]]
  BY DEF Crew, Due
<1>6. CASE job[c] \in {"add", "remove"}
  <2>1. ToDo(c)' = ToDo(c)
    BY <1>1, <1>6 DEF ToDo
  <2>2. Crew' = Crew
    BY <1>2, <1>3, <1>5, <1>6
  <2>3. Due' = Due
    BY <1>2, <1>4, <1>5, <2>1
  <2> QED BY <1>1, <2>2, <2>3
<1>7. CASE job[c] \in {"removeAll", "stop"}
  <2>1. /\ kind[c] \in ToDo(c) /\ ToDo(c)' = ToDo(c) \ {kind[c]}
        /\ kind[c] = "consumers" => "producers" \notin ToDo(c)
    BY <1>1, <1>4, <1>7 DEF ToDo, At, Kinds
  <2>2. Crew' = [Crew EXCEPT ![kind[c]] = <<>>]
    BY <1>1, <1>2, <1>3, <1>5, <1>7
  <2>3. Due' = [Due EXCEPT ![c] = @ \ {kind[c]}]
    BY <1>2, <1>4, <1>5, <2>1
  <2>4. kind[c] \in Due[c] /\ (kind[c] = "consumers" => "producers" \notin Due[c])
    BY <1>4, <2>1
  <2>5. ASSUME NEW k \in Kinds, k = kind[c] PROVE Session!Work(c)
    <3>1. Session!RemoveAll(c, k)
      BY <1>1, <1>7, <2>2, <2>3, <2>4, <2>5 DEF Session!RemoveAll, Crew, Due
    <3> QED BY <3>1 DEF Session!Work, Session!Kinds, Kinds
  <2> QED BY <1>1, <2>5
<1> QED BY <1>1, <1>6, <1>7

\* An actor that was created is the youngest of its crew; one that was not leaves
\* the crew as it is.
LEMMA AddingTakesEffect ==
  ASSUME ManagerIInv, StepsMatchJobs, NEW c \in Clients,
         AddChecked(c) \/ AddCreate(c) \/ AddFails(c)
  PROVE  UNCHANGED <<life, Crew, job, Due>> \/ Session!Work(c)
<1> USE DEF ManagerIInv, ManagerTypes
<1>1. /\ step[c] \in Locked /\ job[c] = "add" /\ life' = life
      /\ kind[c] \in Kinds /\ listMutex[kind[c]] = c
      /\ Crew[kind[c]] = list[kind[c]] /\ Due[c] = {kind[c]}
  <2>1. step[c] \in {"check", "create"} /\ step[c] \in Locked /\ life' = life
    BY DEF AddChecked, AddCreate, AddFails, At, Locked
  <2>2. job[c] = "add"
    BY <2>1 DEF StepsMatchJobs
  <2> QED BY <2>1, <2>2, AtTheList DEF Due, ToDo
<1>2. ASSUME \A k \in Kinds \ {kind[c]} : list'[k] = list[k],
             Unlock(kind[c]), Done(c)
      PROVE  /\ Crew' = [Crew EXCEPT ![kind[c]] = list'[kind[c]]]
             /\ job' = [job EXCEPT ![c] = "none"]
             /\ Due' = [Due EXCEPT ![c] = {}]
  <2>1. /\ \A k \in Kinds \ {kind[c]} : listMutex'[k] = listMutex[k]
        /\ listMutex'[kind[c]] = Nobody
        /\ job' = [job EXCEPT ![c] = "none"] /\ job'[c] = "none"
        /\ \A d \in Clients \ {c} :
             job'[d] = job[d] /\ kind'[d] = kind[d] /\ step'[d] = step[d]
    BY <1>1, <1>2 DEF Unlock, Done, GotoStep
  <2>2. ToDo(c)' = {}
    BY <2>1 DEF ToDo
  <2>3. ASSUME NEW k \in Kinds, k = kind[c] PROVE Crew'[k] = list'[k]
    <3>1. ~Emptying(k)'
      BY <2>1, <2>3, ConstantsAssumption DEF Emptying, Threads
    <3> QED BY <3>1 DEF Crew
  <2>4. /\ Crew' = [Crew EXCEPT ![kind[c]] = Crew'[kind[c]]]
        /\ Due' = [Due EXCEPT ![c] = ToDo(c)']
    BY <1>1, <1>2, <2>1, ListStepTakesEffect
  <2> QED BY <1>1, <2>1, <2>2, <2>3, <2>4
<1>3. ASSUME UNCHANGED list, Unlock(kind[c]), Done(c) PROVE Session!Work(c)
  <2>1. Crew' = Crew
    <3>1. Crew' = [Crew EXCEPT ![kind[c]] = list[kind[c]]]
      BY <1>2, <1>3
    <3>2. Crew = [k \in Kinds |-> Crew[k]]
      BY DEF Crew
    <3> QED BY <1>1, <3>1, <3>2
  <2>2. Session!AddFails(c)
    BY <1>1, <1>2, <1>3, <2>1
    DEF Session!AddFails, Session!Return, Crew, Due
  <2> QED BY <2>2 DEF Session!Work
<1>4. ASSUME NEW k \in Kinds, k = kind[c], NEW a \in Pool(k), Unlock(k), Done(c),
             list' = [list EXCEPT ![k] = Append(@, a)]
      PROVE  Session!Work(c)
  <2>1. /\ list'[k] = Append(list[k], a)
        /\ \A n \in Kinds \ {k} : list'[n] = list[n]
    BY <1>1, <1>4
  <2>2. /\ Crew' = [Crew EXCEPT ![k] = Append(@, a)]
        /\ job' = [job EXCEPT ![c] = "none"] /\ Due' = [Due EXCEPT ![c] = {}]
    <3>1. /\ Crew' = [Crew EXCEPT ![k] = list'[k]]
          /\ job' = [job EXCEPT ![c] = "none"] /\ Due' = [Due EXCEPT ![c] = {}]
      BY <1>2, <1>4, <2>1
    <3>2. Crew = [n \in Kinds |-> Crew[n]] /\ Crew[k] = list[k]
      BY <1>1, <1>4 DEF Crew
    <3> QED BY <2>1, <3>1, <3>2
  <2>3. /\ k \in Due[c]
        /\ \E b \in Session!Pool(k) : Crew' = [Crew EXCEPT ![k] = Append(@, b)]
    BY <1>1, <1>4, <2>2 DEF Session!Pool, Pool
  <2>4. Session!Add(c, k)
    BY <1>1, <2>2, <2>3 DEF Session!Add, Session!Return, Crew, Due
  <2> QED BY <2>4 DEF Session!Work, Session!Kinds, Kinds
<1>5. CASE AddChecked(c)
  <2>1. CASE UNCHANGED listMutex /\ Proceed(c, "create")
    <3>1. UNCHANGED <<list, listMutex, job, kind>>
      BY <1>5, <2>1 DEF AddChecked, Proceed
    <3>2. Crew' = Crew
      BY <3>1 DEF Crew, Emptying
    <3>3. \A d \in Clients : Due'[d] = Due[d]
      <4>1. ASSUME NEW d \in Clients PROVE ToDo(d)' = ToDo(d)
        <5>1. At(d, "lock")' <=> At(d, "lock")
          BY <1>5, <2>1 DEF AddChecked, At, Proceed, GotoStep
        <5> QED BY <3>1, <5>1 DEF ToDo
      <4> QED BY <4>1 DEF Due
    <3> QED BY <1>1, <3>1, <3>2, <3>3 DEF Due
  <2>2. CASE Unlock(kind[c]) /\ Done(c)
    BY <1>3, <1>5, <2>2 DEF AddChecked
  <2> QED BY <1>5, <2>1, <2>2 DEF AddChecked
<1>6. CASE AddFails(c)
  BY <1>3, <1>6 DEF AddFails
<1>7. CASE AddCreate(c)
  <2>1. \E a \in Pool(kind[c]) : list' = [list EXCEPT ![kind[c]] = Append(@, a)]
    BY <1>7 DEF AddCreate, Fresh
  <2> QED BY <1>1, <1>4, <1>7, <2>1 DEF AddCreate
<1> QED BY <1>5, <1>6, <1>7

\* While a client stops actors of a list that it keeps locked, nothing takes effect:
\* a crew that is being emptied is gone already.
LEMMA StayingHasNoEffect ==
  ASSUME ManagerIInv, NEW c \in Clients, step[c] \in {"pick", "stopping"},
         UNCHANGED <<listMutex, job, kind>>,
         step' \in [Clients -> Steps \cup {"none"}], step'[c] \in {"pick", "stopping"},
         \A d \in Clients \ {c} : step'[d] = step[d],
         \/ UNCHANGED list
         \/ /\ job[c] \in {"removeAll", "stop"}
            /\ \A k \in Kinds \ {kind[c]} : list'[k] = list[k]
  PROVE  UNCHANGED <<Crew, Due>>
<1>1. \A k \in Kinds : Emptying(k)' <=> Emptying(k)
  BY DEF Emptying
<1>2. job[c] \in {"removeAll", "stop"} =>
        \A k \in Kinds : k = kind[c] => Emptying(k)
  BY AtTheList DEF Emptying, Locked
<1>3. Crew' = Crew
  BY <1>1, <1>2 DEF Crew
<1>4. \A d \in Clients : ToDo(d)' = ToDo(d)
  BY DEF ToDo, At
<1> QED BY <1>3, <1>4 DEF Due

\* Leaving a list: a removal of one actor has taken effect, one of all of them is
\* over, and stop() goes on to what it has still to deal with.
LEMMA LeavingTakesEffect ==
  ASSUME ManagerIInv, StepsMatchJobs, NEW c \in Clients, NEW k \in Kinds,
         k = kind[c], step[c] \in {"pick", "stopping"}, Leave(c), UNCHANGED life,
         \A n \in Kinds \ {k} : list'[n] = list[n],
         list'[k] = IF list[k] = <<>> THEN <<>> ELSE Tail(list[k]),
         job[c] # "remove" => list'[k] = <<>>
  PROVE  UNCHANGED <<life, Crew, job, Due>> \/ Session!Work(c)
<1> USE DEF ManagerIInv, ManagerTypes
<1>1. /\ job[c] \in {"remove", "removeAll", "stop"} /\ step[c] \in Locked
      /\ listMutex[k] = c
      /\ Crew[k] = IF job[c] \in {"removeAll", "stop"} THEN <<>> ELSE list[k]
  <2>1. step[c] \in Locked
    BY DEF Locked
  <2> QED BY <2>1, AtTheList DEF StepsMatchJobs
<1>2. /\ listMutex' = [listMutex EXCEPT ![k] = Nobody]
      /\ job' \in [Clients -> Jobs \cup {"none"}]
      /\ \A d \in Clients \ {c} :
           job'[d] = job[d] /\ kind'[d] = kind[d] /\ step'[d] = step[d]
  BY DEF Leave, Unlock, Done, Proceed, GotoStep
<1>3. Crew'[k] = list'[k]
  <2>1. ~Emptying(k)'
    BY <1>2, ConstantsAssumption DEF Emptying, Threads
  <2> QED BY <2>1 DEF Crew
<1>4. /\ Crew' = [Crew EXCEPT ![k] = list'[k]]
      /\ Due' = [Due EXCEPT ![c] = ToDo(c)']
  BY <1>1, <1>2, <1>3, ListStepTakesEffect
<1>5. /\ Crew = [n \in Kinds |-> Crew[n]]
      /\ Due = [d \in Clients |-> Due[d]] /\ Due[c] = ToDo(c)
  BY DEF Crew, Due
<1>6. CASE job[c] = "remove"
  <2>1. job' = [job EXCEPT ![c] = "none"] /\ job'[c] = "none"
    BY <1>6 DEF Leave, Done
  <2>2. ToDo(c)' = {} /\ k \in Due[c]
    BY <1>5, <1>6, <2>1 DEF ToDo
  <2>3. Crew' = [Crew EXCEPT ![k] = IF @ = <<>> THEN @ ELSE Tail(@)]
    BY <1>1, <1>4, <1>5, <1>6
  <2>4. Session!Remove(c, k)
    BY <1>4, <1>6, <2>1, <2>2, <2>3 DEF Session!Remove, Session!Return, Crew, Due
  <2> QED BY <2>4 DEF Session!Work, Session!Kinds, Kinds
<1>7. ASSUME job[c] # "remove" PROVE Crew' = Crew
  BY <1>1, <1>4, <1>5, <1>7
<1>8. CASE job[c] = "removeAll"
  <2>1. job' = [job EXCEPT ![c] = "none"] /\ job'[c] = "none"
    BY <1>8 DEF Leave, Done
  <2>2. ToDo(c)' = {} /\ Due[c] = {}
    BY <1>5, <1>8, <2>1 DEF ToDo, At
  <2>3. Session!Finish(c)
    BY <1>4, <1>7, <1>8, <2>1, <2>2 DEF Session!Finish, Session!Return, Crew, Due
  <2> QED BY <2>3 DEF Session!Work
<1>9. CASE job[c] = "stop"
  <2>1. /\ job' = job
        /\ \/ k = "producers" /\ kind'[c] = "consumers" /\ step'[c] = "lock"
           \/ k = "consumers" /\ kind'[c] = "consumers" /\ step'[c] = "close"
    BY <1>9 DEF Leave, Proceed, GotoStep
  <2>2. ToDo(c)' = ToDo(c)
    <3>1. At(c, "lock")' <=> k = "producers"
      BY <2>1 DEF At
    <3> QED BY <1>9, <2>1, <3>1 DEF ToDo, At
  <2>3. Due' = Due
    BY <1>4, <1>5, <2>2
  <2> QED BY <1>7, <1>9, <2>1, <2>3
<1> QED BY <1>1, <1>6, <1>8, <1>9

\* A removal takes effect when the oldest is erased, or at the list that is empty.
LEMMA RemovingTakesEffect ==
  ASSUME ManagerIInv, StepsMatchJobs, NEW c \in Clients,
         RemoveFront(c) \/ RemoveNothing(c) \/ RemoveJoined(c)
  PROVE  UNCHANGED <<life, Crew, job, Due>> \/ Session!Work(c)
<1> USE DEF ManagerIInv, ManagerTypes
<1>1. /\ step[c] \in {"pick", "stopping"} /\ life' = life
      /\ job[c] \in {"remove", "removeAll", "stop"} /\ kind[c] \in Kinds
  BY DEF RemoveFront, RemoveNothing, RemoveJoined, At, StepsMatchJobs, HoldsItsList,
     Locked
<1>2. CASE RemoveFront(c)
  <2>1. /\ UNCHANGED <<listMutex, job, kind, list>>
        /\ step' = [step EXCEPT ![c] = "stopping"]
    BY <1>2 DEF RemoveFront, Proceed, GotoStep
  <2> QED BY <1>1, <2>1, StayingHasNoEffect DEF Steps
<1>3. CASE RemoveNothing(c)
  <2>1. list' = list /\ list[kind[c]] = <<>> /\ Leave(c)
    BY <1>3 DEF RemoveNothing
  <2> QED BY <1>1, <2>1, LeavingTakesEffect
<1>4. CASE RemoveJoined(c)
  <2>1. /\ list' = [list EXCEPT ![kind[c]] = Tail(@)] /\ list[kind[c]] # <<>>
        /\ step[c] = "stopping"
    BY <1>4 DEF RemoveJoined, At, StopsTheFront
  <2>2. CASE job[c] = "remove" /\ Leave(c)
    BY <1>1, <2>1, <2>2, LeavingTakesEffect
  <2>3. CASE job[c] # "remove" /\ UNCHANGED listMutex /\ Proceed(c, "pick")
    <3>1. /\ UNCHANGED <<listMutex, job, kind>>
          /\ step' = [step EXCEPT ![c] = "pick"]
      BY <2>3 DEF Proceed, GotoStep
    <3> QED BY <1>1, <2>1, <2>3, <3>1, StayingHasNoEffect DEF Steps
  <2> QED BY <1>4, <2>2, <2>3 DEF RemoveJoined
<1> QED BY <1>2, <1>3, <1>4

\* Away from the lists, nothing takes effect but that a call returns.
LEMMA AwayFromTheLists ==
  ASSUME ManagerIInv, NEW c \in Clients, step[c] \notin Locked,
         UNCHANGED <<list, listMutex>>,
         \A d \in Clients \ {c} :
           job'[d] = job[d] /\ kind'[d] = kind[d] /\ step'[d] = step[d]
  PROVE  Crew' = Crew /\ Due' = [Due EXCEPT ![c] = ToDo(c)']
<1>1. \A k \in Kinds : listMutex[k] # c
  BY DEF ManagerIInv, HoldsItsList
<1>2. \A k \in Kinds : Crew'[k] = Crew[k]
  BY <1>1, OtherCrewStays
<1>3. \A d \in Clients \ {c} : Due'[d] = Due[d]
  BY OtherDueStays
<1>4. /\ Crew = [k \in Kinds |-> Crew[k]] /\ Crew' = [k \in Kinds |-> Crew'[k]]
      /\ Due = [d \in Clients |-> Due[d]] /\ Due' = [d \in Clients |-> Due'[d]]
      /\ Due'[c] = ToDo(c)'
  BY DEF Crew, Due
<1> QED BY <1>2, <1>3, <1>4

\* stop() takes its last effect when the buffer is deleted; getCurrentIndex() has
\* none.
LEMMA ClosingTakesEffect ==
  ASSUME ManagerIInv, StepsMatchJobs, StopInOrder, NEW c \in Clients,
         CloseReturn(c) \/ DeleteBuffer(c) \/ ReadReturn(c)
  PROVE  UNCHANGED <<life, Crew, job, Due>> \/ Session!Work(c)
<1> USE DEF ManagerIInv, ManagerTypes
<1>1. Due = [d \in Clients |-> Due[d]] /\ Due[c] = ToDo(c)
  BY DEF Due
<1>2. CASE CloseReturn(c)
  <2>1. /\ step[c] = "close" /\ step' = [step EXCEPT ![c] = "delete"]
        /\ UNCHANGED <<life, list, listMutex, job, kind>>
    BY <1>2 DEF CloseReturn, At, Proceed, GotoStep
  <2>2. Crew' = Crew /\ Due' = [Due EXCEPT ![c] = ToDo(c)']
    BY <2>1, AwayFromTheLists DEF Locked
  <2>3. ToDo(c)' = ToDo(c)
    BY <2>1 DEF ToDo, At
  <2> QED BY <1>1, <2>1, <2>2, <2>3
<1>3. ASSUME step[c] \notin Locked, Done(c), UNCHANGED <<list, listMutex>>
      PROVE  /\ Crew' = Crew /\ Due' = [Due EXCEPT ![c] = {}]
             /\ job' = [job EXCEPT ![c] = "none"]
  <2>1. /\ job' = [job EXCEPT ![c] = "none"] /\ job'[c] = "none"
        /\ \A d \in Clients \ {c} :
             job'[d] = job[d] /\ kind'[d] = kind[d] /\ step'[d] = step[d]
    BY <1>3 DEF Done, GotoStep
  <2>2. ToDo(c)' = {}
    BY <2>1 DEF ToDo
  <2> QED BY <1>3, <2>1, <2>2, AwayFromTheLists
<1>4. CASE DeleteBuffer(c)
  <2>1. /\ step[c] = "delete" /\ life' = "deleted"
        /\ UNCHANGED <<list, listMutex>> /\ Done(c)
    BY <1>4 DEF DeleteBuffer, At
  <2>2. job[c] = "stop" /\ kind[c] = "consumers"
    BY <2>1 DEF StopInOrder
  <2>3. Due[c] = {"buffer"}
    BY <1>1, <2>1, <2>2 DEF ToDo, At
  <2>4. Session!Close(c)
    BY <1>3, <2>1, <2>2, <2>3
    DEF Session!Close, Session!Return, Crew, Due, Locked
  <2> QED BY <2>4 DEF Session!Work
<1>5. CASE ReadReturn(c)
  <2>1. /\ step[c] = "read" /\ UNCHANGED <<life, list, listMutex>> /\ Done(c)
    BY <1>5 DEF ReadReturn, At
  <2>2. job[c] = "read" /\ Due[c] = {}
    BY <1>1, <2>1 DEF StepsMatchJobs, ToDo
  <2>3. Session!Finish(c)
    BY <1>3, <2>1, <2>2 DEF Session!Finish, Session!Return, Crew, Due, Locked
  <2> QED BY <2>3 DEF Session!Work
<1> QED BY <1>2, <1>4, <1>5

\* Every step of the manager takes effect as one of Session, or has none.
LEMMA StepTakesEffect ==
  ASSUME StopIsAlone, ManagerIInv, StepsMatchJobs, StopInOrder,
         [ManagerNext]_allVars
  PROVE  [Session!SessionNext]_(Session!sessionVars)
<1>1. ASSUME UNCHANGED <<life, Crew, job, Due>>
      PROVE  UNCHANGED Session!sessionVars
  BY <1>1 DEF Session!sessionVars, Crew, Due
<1>2. ASSUME UNCHANGED managerVars PROVE UNCHANGED <<life, Crew, job, Due>>
  <2>1. UNCHANGED <<life, list, listMutex, job, kind, step>>
    BY <1>2 DEF managerVars
  <2> QED BY <2>1 DEF Crew, Due, Emptying, ToDo, At
<1>3. ASSUME NEW c \in Clients, life = "none", StartSession(c) PROVE Session!Open
  <2>1. /\ life' = "live"
        /\ UNCHANGED <<list, listMutex, job, kind, step>>
    BY <1>3 DEF StartSession
  <2>2. UNCHANGED <<Crew, Due>>
    BY <2>1 DEF Crew, Due, Emptying, ToDo, At
  <2> QED BY <1>3, <2>1, <2>2 DEF Session!Open, Crew, Due
<1>4. ASSUME NEW c \in Clients, life = "live", NewCall(c) \/ LockList(c)
      PROVE  [Session!SessionNext]_(Session!sessionVars)
  <2>1. UNCHANGED <<life, Crew, job, Due>> \/ Session!MakeAny(c) \/ Session!Work(c)
    BY <1>4, NewCallIsMade, LockingTakesEffect
  <2> QED BY <1>1, <2>1 DEF Session!SessionNext
<1>5. ASSUME NEW c \in Clients, JobStep(c)
      PROVE  [Session!SessionNext]_(Session!sessionVars)
  <2>1. CASE AddCheck(c) \/ CloseCall(c) \/ ReadCall(c) \/ UNCHANGED managerVars
    BY <1>1, <1>2, <2>1 DEF AddCheck, CloseCall, ReadCall
  <2>2. CASE \/ AddChecked(c) \/ AddCreate(c) \/ AddFails(c)
             \/ RemoveFront(c) \/ RemoveNothing(c) \/ RemoveJoined(c)
             \/ CloseReturn(c) \/ DeleteBuffer(c) \/ ReadReturn(c)
    <3>1. UNCHANGED <<life, Crew, job, Due>> \/ Session!Work(c)
      BY <2>2, AddingTakesEffect, RemovingTakesEffect, ClosingTakesEffect
    <3> QED BY <1>1, <3>1 DEF Session!SessionNext
  <2> QED BY <1>5, <2>1, <2>2 DEF JobStep
<1>6. CASE UNCHANGED allVars
  BY <1>1, <1>2, <1>6 DEF allVars
<1>7. CASE life = "live" /\ SessionStep
  BY <1>1, <1>2, <1>4, <1>5, <1>7 DEF SessionStep, ThreadStep
<1> QED BY <1>3, <1>6, <1>7 DEF ManagerNext, Session!SessionNext

-----------------------------------------------------------------------------
(* The theorem *)

\* Each call of IPC takes effect at one instant between being made and returning:
\* nobody is added to a list that is being emptied, a removal erases the oldest or
\* finds nobody, and stop() sends the producers away, then the consumers, then
\* deletes the buffer.  Adding may fail anywhere; stop() overlaps no other call.
THEOREM CallsActAtOnce ==
  ASSUME StopIsAlone PROVE ManagerSpec => ActsAtOnce
<1>1. ManagerInit => Session!SessionInit
  <2>1. ASSUME ManagerInit PROVE Session!SessionInit
    <3>1. \A k \in Kinds : ~Emptying(k)
      BY <2>1 DEF ManagerInit, Emptying
    <3>2. Crew = [k \in Kinds |-> <<>>]
      BY <2>1, <3>1 DEF ManagerInit, Crew
    <3>3. Due = [c \in Clients |-> {}]
      BY <2>1 DEF ManagerInit, Due, ToDo
    <3> QED BY <2>1, <3>2, <3>3
            DEF ManagerInit, Session!SessionInit, Session!Kinds, Kinds, Crew, Due
  <2> QED BY <2>1
<1>2. ManagerIInv /\ StopIInv /\ StepsMatchJobs /\ [ManagerNext]_allVars
        => StepsMatchJobs' /\ [Session!SessionNext]_(Session!sessionVars)
  BY StepPreservesStepsMatchJobs, StepTakesEffect DEF StopIInv
<1> QED BY <1>1, <1>2, InitEstablishesStepsMatchJobs, ManagerIInvHolds, StopIInvHolds,
           PTL DEF ManagerSpec, ActsAtOnce, Session!SessionSpec
=============================================================================
