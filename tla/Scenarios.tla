------------------------------ MODULE Scenarios ------------------------------
(***************************************************************************)
(* The tests of testApps/src/test.cpp: one thread that builds a buffer,    *)
(* calls IPC, polls the index until it has the value it waits for, stops   *)
(* the session, looks at the items and checks for leaks.  Each test is a   *)
(* script of statements, run on Manager.                                   *)
(*                                                                         *)
(* A poll may run out of tries at any time: how long the actors take is    *)
(* not modelled.  The numbers of actors and of items are those of the      *)
(* constants, not of the tests.                                            *)
(***************************************************************************)
EXTENDS Manager

VARIABLES
  test,    \* the test that is run
  line,    \* its next statement
  verdict  \* what it found: "passed" so far, "timed out" in a poll, or "failed"

testVars == <<allVars, test, line, verdict>>

Tests == {"filled", "emptied", "refilled", "crowded"}

-----------------------------------------------------------------------------
(* The scripts *)

Statement(do, arg) == [do |-> do, arg |-> arg]
Begin == <<Statement("start", "none")>>
Await(index) == <<Statement("await", index)>>
Stop == <<Statement("stop", "none")>>
Expect(filled) == <<Statement("expect", filled)>>
TearDown == <<Statement("tear down", "none")>>

\* One producer, one consumer, and so on, until one kind runs out.
CreateProducersAndConsumers(producers, consumers) ==
  LET fewer == IF producers < consumers THEN producers ELSE consumers
  IN  [i \in 1 .. producers + consumers |->
         Statement("add",
           IF IF i <= 2 * fewer THEN i % 2 = 1 ELSE producers > consumers
             THEN "producers" ELSE "consumers")]

Many(k) == Cardinality(Pool(k))

\* A producer fills the buffer.
Filled ==
  CreateProducersAndConsumers(1, 0) \o Await(Size) \o Stop \o Expect(TRUE)

\* A consumer empties it.
Emptied ==
  CreateProducersAndConsumers(0, 1) \o Await(0) \o Stop \o Expect(FALSE)

\* Several producers fill it, are removed, and several consumers empty it.
Refilled ==
  CreateProducersAndConsumers(Many("producers"), 0) \o Await(Size)
    \o <<Statement("removeAll", "producers")>>
    \o CreateProducersAndConsumers(0, Many("consumers")) \o Await(0) \o Stop

\* Many are stopped while they rest.
Crowded ==
  CreateProducersAndConsumers(Many("producers"), Many("consumers")) \o Stop

Script(t) ==
  Begin \o (CASE t = "filled" -> Filled
              [] t = "emptied" -> Emptied
              [] t = "refilled" -> Refilled
              [] t = "crowded" -> Crowded) \o TearDown

TestInit ==
  /\ ManagerInit
  /\ test \in Tests
  /\ items = [s \in Slots |-> test = "emptied"]
  /\ line = 1
  /\ verdict = "passed"

Over == line > Len(Script(test))
Doing(s) == ~Over /\ Script(test)[line].do = s
Argument == Script(test)[line].arg

-----------------------------------------------------------------------------
(* Running a script *)

\* A call of IPC is made; waitForIndexValue calls getCurrentIndex.
CallIPC(c) ==
  /\ life = "live"
  /\ \/ Doing("add") /\ CallAdd(c, Argument)
     \/ Doing("removeAll") /\ CallRemoveAll(c, Argument)
     \/ Doing("stop") /\ CallStopSession(c)
     \/ Doing("await") /\ CallRead(c)
  /\ UNCHANGED <<test, line, verdict>>

\* What waitForIndexValue makes of the index: it returns, it sleeps and polls
\* again, or, whatever it saw, this was the last of its tries.
Polled ==
  \/ currentIndex = Argument /\ line' = line + 1 /\ UNCHANGED verdict
  \/ currentIndex # Argument /\ UNCHANGED <<line, verdict>>
  \/ line' = line + 1 /\ verdict' = "timed out"

\* A step within the call; when it returns the script goes on.
InCall(c) ==
  /\ life = "live"
  /\ LockList(c) \/ JobStep(c)
  /\ \/ job'[c] # "none" /\ UNCHANGED <<line, verdict>>
     \/ job'[c] = "none" /\ Doing("await") /\ Polled
     \/ /\ job'[c] = "none" /\ ~Doing("await")
        /\ line' = line + 1
        /\ UNCHANGED verdict
  /\ UNCHANGED test

StartTest(c) ==
  /\ Doing("start")
  /\ StartSession(c)
  /\ line' = line + 1
  /\ UNCHANGED <<test, verdict>>

\* EXPECT_TRUE or EXPECT_FALSE of every item, and the leak check of TearDown: the
\* buffer and every actor that was created have been deleted.
Finding ==
  \/ Doing("expect") /\ \A s \in Slots : items[s] = Argument
  \/ /\ Doing("tear down")
     /\ life = "deleted" /\ lost = {}
     /\ \A a \in Actors : loop[a] \in {"new", "joined"}

Check ==
  /\ Doing("expect") \/ Doing("tear down")
  /\ verdict' = IF Finding \/ (verdict = "timed out" /\ Doing("expect"))
                  THEN verdict ELSE "failed"
  /\ line' = line + 1
  /\ UNCHANGED <<allVars, test>>

TesterStep(c) ==
  \/ CallIPC(c) \/ InCall(c) \/ StartTest(c) \/ Check
  \/ life = "live" /\ BufferLock(c) /\ UNCHANGED <<managerVars, test, line, verdict>>

ActorStepOf(a) ==
  /\ life = "live"
  /\ ThreadStep(a) \/ (BufferLock(a) /\ UNCHANGED managerVars)
  /\ UNCHANGED <<test, line, verdict>>

TestNext ==
  \/ \E c \in Clients : TesterStep(c)
  \/ \E a \in Actors : ActorStepOf(a)
  \/ Over /\ UNCHANGED testVars

\* As in ManagerFairness; moreover the tester does not stop in the middle of a
\* script, and delays end, except in the test that stops everybody while they rest.
TestFairness ==
  /\ \A c \in Clients : SF_testVars(TesterStep(c))
  /\ \A a \in Actors :
       /\ SF_allVars(life = "live" /\ ActorRuns(a))
       /\ SF_allVars(life = "live" /\ test # "crowded" /\ RestTimeout(a)
                      /\ UNCHANGED managerVars)

TestSpec == TestInit /\ [][TestNext]_testVars /\ TestFairness

-----------------------------------------------------------------------------

\* Every test finds what it expects if its polls do not time out: the index read
\* while actors run still holds when they are stopped, because actors of only one
\* kind are there, and nothing that a test created is left when it ends.
ExpectationsHold == verdict # "failed"

\* Every test ends although its polls have no limit: the value they wait for is
\* reached and seen.  The last one ends although no delay does.
TestsEnd == <>Over
=============================================================================
