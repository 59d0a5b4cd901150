---------------------------- MODULE ScenarioProofs ----------------------------
(***************************************************************************)
(* The tests of Scenarios find what they expect, for every number of       *)
(* actors and every buffer size: what a poll has seen still holds when the *)
(* items are looked at, and nothing is left at the end.                    *)
(***************************************************************************)
EXTENDS Scenarios, SessionProofs, SequenceTheorems, FiniteSetTheorems

-----------------------------------------------------------------------------
(* The scripts *)

Arguments == Nat \cup BOOLEAN \cup Kinds \cup {"none"}
Suits(do, arg) == do \in {"add", "removeAll"} => arg \in Kinds
Statements(does) == {s \in [do : does, arg : Arguments] : Suits(s.do, s.arg)}

\* What is done while the session is open, and in a test altogether.
InSession == {"add", "await", "removeAll"}
Lines == Statements(InSession \cup {"start", "stop", "expect", "tear down"})

\* A script that opens a session, closes it in line last, and then only looks at
\* what it has done.
OpensAndCloses(s, last) ==
  /\ s \in Seq(Lines)
  /\ last \in 2 .. Len(s) - 1
  /\ s[1].do = "start"
  /\ \A i \in 2 .. last - 1 : s[i].do \in InSession
  /\ s[last].do = "stop"
  /\ \A i \in last + 1 .. Len(s) - 1 : s[i].do = "expect"
  /\ s[Len(s)].do = "tear down"

\* What a statement is.
LEMMA StatementIsOne ==
  ASSUME NEW does, NEW do \in does, NEW arg \in Arguments, Suits(do, arg)
  PROVE  /\ Statement(do, arg) \in Statements(does)
         /\ Statement(do, arg).do = do /\ Statement(do, arg).arg = arg
BY DEF Statement, Statements

\* What is done in a statement, and to what.
LEMMA StatementsOf ==
  ASSUME NEW does, NEW s \in Statements(does)
  PROVE  s.do \in does /\ Suits(s.do, s.arg)
BY DEF Statements

\* More things to do make more statements.
LEMMA MoreStatements ==
  ASSUME NEW some, NEW more, some \subseteq more
  PROVE  Statements(some) \subseteq Statements(more)
BY DEF Statements

\* What stands where when a line is added after a script.
LEMMA OneAfter ==
  ASSUME NEW S, NEW s \in Seq(S), NEW x \in S
  PROVE  /\ s \o <<x>> \in Seq(S) /\ Len(s \o <<x>>) = Len(s) + 1
         /\ \A i \in 1 .. Len(s) : (s \o <<x>>)[i] = s[i]
         /\ (s \o <<x>>)[Len(s) + 1] = x
<1>1. <<x>> \in Seq(S) /\ Len(<<x>>) = 1 /\ <<x>>[1] = x
  OBVIOUS
<1> QED BY <1>1

\* The same of a line put before it: the others move up.
LEMMA OneBefore ==
  ASSUME NEW S, NEW s \in Seq(S), NEW x \in S
  PROVE  /\ <<x>> \o s \in Seq(S) /\ Len(<<x>> \o s) = Len(s) + 1
         /\ (<<x>> \o s)[1] = x
         /\ \A i \in 1 .. Len(s) : (<<x>> \o s)[i + 1] = s[i]
<1>1. <<x>> \in Seq(S) /\ Len(<<x>>) = 1 /\ <<x>>[1] = x
  OBVIOUS
<1> QED BY <1>1

\* A script that expects nothing.
LEMMA ScriptThatOnlyRuns ==
  ASSUME NEW body \in Seq(Statements(InSession)), NEW s,
         s = Begin \o (body \o Stop) \o TearDown
  PROVE  OpensAndCloses(s, Len(s) - 1)
<1>1. body \in Seq(Lines)
  <2>1. Statements(InSession) \subseteq Lines
    BY MoreStatements DEF Lines
  <2> QED BY <2>1, SeqMonotonic
<1>2. Len(body) \in Nat /\ \A i \in 1 .. Len(body) : body[i].do \in InSession
  <2>1. \A i \in 1 .. Len(body) : body[i] \in Statements(InSession)
    OBVIOUS
  <2> QED BY <2>1, StatementsOf
<1>3. PICK first \in Lines : Begin = <<first>> /\ first.do = "start"
  BY StatementIsOne DEF Begin, Lines, Arguments, Suits
<1>4. PICK stop \in Lines : Stop = <<stop>> /\ stop.do = "stop"
  BY StatementIsOne DEF Stop, Lines, Arguments, Suits
<1>5. PICK end \in Lines : TearDown = <<end>> /\ end.do = "tear down"
  BY StatementIsOne DEF TearDown, Lines, Arguments, Suits
<1>6. PICK inner \in Seq(Lines) :
        /\ inner = body \o <<stop>> /\ Len(inner) = Len(body) + 1
        /\ \A i \in 1 .. Len(body) : inner[i] = body[i]
        /\ inner[Len(body) + 1] = stop
  BY <1>1, OneAfter
<1>7. PICK opened \in Seq(Lines) :
        /\ opened = <<first>> \o inner /\ Len(opened) = Len(inner) + 1
        /\ opened[1] = first
        /\ \A i \in 1 .. Len(inner) : opened[i + 1] = inner[i]
  <2>1. /\ <<first>> \o inner \in Seq(Lines) /\ Len(<<first>> \o inner) = Len(inner) + 1
        /\ (<<first>> \o inner)[1] = first
        /\ \A i \in 1 .. Len(inner) : (<<first>> \o inner)[i + 1] = inner[i]
    BY OneBefore
  <2> QED BY <2>1, Zenon
<1>8. /\ s \in Seq(Lines) /\ Len(s) = Len(opened) + 1
      /\ \A i \in 1 .. Len(opened) : s[i] = opened[i]
      /\ s[Len(opened) + 1] = end
  <2>1. s = opened \o <<end>>
    BY <1>3, <1>4, <1>5, <1>6, <1>7
  <2> QED BY <2>1, OneAfter
<1>9. /\ Len(s) = Len(body) + 3 /\ s[1] = first
      /\ s[Len(body) + 2] = stop /\ s[Len(body) + 3] = end
  <2>1. 1 \in 1 .. Len(opened) /\ Len(body) + 1 \in 1 .. Len(inner)
    BY <1>2, <1>6, <1>7
  <2>2. s[Len(body) + 2] = opened[Len(body) + 2]
    BY <1>2, <1>6, <1>7, <1>8
  <2>3. opened[(Len(body) + 1) + 1] = stop
    BY <1>6, <1>7, <2>1
  <2>4. (Len(body) + 1) + 1 = Len(body) + 2 /\ Len(s) = Len(body) + 3
    BY <1>2, <1>6, <1>7, <1>8
  <2>5. s[1] = first
    BY <1>7, <1>8, <2>1
  <2>6. Len(opened) + 1 = Len(body) + 3
    BY <1>2, <1>6, <1>7
  <2> QED BY <1>8, <2>2, <2>3, <2>4, <2>5, <2>6
<1>10. ASSUME NEW i \in 2 .. Len(body) + 1 PROVE s[i].do \in InSession
  <2>1. /\ i - 1 \in 1 .. Len(body) /\ i - 1 \in 1 .. Len(inner)
        /\ i \in 1 .. Len(opened) /\ (i - 1) + 1 = i
    BY <1>2, <1>6, <1>7
  <2>2. s[i] = body[i - 1]
    BY <1>6, <1>7, <1>8, <2>1
  <2> QED BY <1>2, <2>1, <2>2
<1>11. /\ Len(s) - 1 = Len(body) + 2 /\ Len(s) - 1 \in 2 .. Len(s) - 1
       /\ Len(s) - 1 - 1 = Len(body) + 1 /\ (Len(s) - 1) + 1 .. Len(s) - 1 = {}
  BY <1>2, <1>9
<1> QED BY <1>3, <1>4, <1>5, <1>8, <1>9, <1>10, <1>11 DEF OpensAndCloses

\* A script of six lines, as those of Filled and Emptied.
Six(a, b, c, d, e, f) == <<a>> \o (<<b>> \o <<c>> \o <<d>> \o <<e>>) \o <<f>>

Spells(s, a, b, c, d, e, f) ==
  /\ s \in Seq(Lines) /\ Len(s) = 6
  /\ s[1] = a /\ s[2] = b /\ s[3] = c /\ s[4] = d /\ s[5] = e /\ s[6] = f

\* It has the six lines, in that order.
LEMMA ScriptOfSix ==
  ASSUME NEW a \in Lines, NEW b \in Lines, NEW c \in Lines, NEW d \in Lines,
         NEW e \in Lines, NEW f \in Lines
  PROVE  Spells(Six(a, b, c, d, e, f), a, b, c, d, e, f)
<1>1. PICK s1 \in Seq(Lines) : s1 = <<b>> /\ Len(s1) = 1 /\ s1[1] = b
  <2>1. <<b>> \in Seq(Lines) /\ Len(<<b>>) = 1 /\ <<b>>[1] = b
    OBVIOUS
  <2> QED BY <2>1, Zenon
<1>2. PICK s2 \in Seq(Lines) :
        /\ s2 = s1 \o <<c>> /\ Len(s2) = 2
        /\ s2[1] = b /\ s2[2] = c
  <2> DEFINE r == s1 \o <<c>>
  <2>1. /\ r \in Seq(Lines) /\ Len(r) = Len(s1) + 1
        /\ \A i \in 1 .. Len(s1) : r[i] = s1[i]
        /\ r[Len(s1) + 1] = c
    BY <1>1, OneAfter
  <2> HIDE DEF r
  <2>2. Len(r) = 2 /\ r[1] = b /\ r[2] = c
    BY <1>1, <2>1
  <2> QED BY <2>1, <2>2 DEF r
<1>3. PICK s3 \in Seq(Lines) :
        /\ s3 = s2 \o <<d>> /\ Len(s3) = 3
        /\ s3[1] = b /\ s3[2] = c /\ s3[3] = d
  <2> DEFINE r == s2 \o <<d>>
  <2>1. /\ r \in Seq(Lines) /\ Len(r) = Len(s2) + 1
        /\ \A i \in 1 .. Len(s2) : r[i] = s2[i]
        /\ r[Len(s2) + 1] = d
    BY <1>2, OneAfter
  <2> HIDE DEF r
  <2>2. Len(r) = 3 /\ r[1] = b /\ r[2] = c /\ r[3] = d
    BY <1>2, <2>1
  <2> QED BY <2>1, <2>2 DEF r
<1>4. PICK s4 \in Seq(Lines) :
        /\ s4 = s3 \o <<e>> /\ Len(s4) = 4
        /\ s4[1] = b /\ s4[2] = c /\ s4[3] = d /\ s4[4] = e
  <2> DEFINE r == s3 \o <<e>>
  <2>1. /\ r \in Seq(Lines) /\ Len(r) = Len(s3) + 1
        /\ \A i \in 1 .. Len(s3) : r[i] = s3[i]
        /\ r[Len(s3) + 1] = e
    BY <1>3, OneAfter
  <2> HIDE DEF r
  <2>2. Len(r) = 4 /\ r[1] = b /\ r[2] = c /\ r[3] = d /\ r[4] = e
    BY <1>3, <2>1
  <2> QED BY <2>1, <2>2 DEF r
<1>5. PICK s5 \in Seq(Lines) :
        /\ s5 = <<a>> \o s4 /\ Len(s5) = 5
        /\ s5[1] = a /\ s5[2] = b /\ s5[3] = c /\ s5[4] = d /\ s5[5] = e
  <2> DEFINE r == <<a>> \o s4
  <2>1. /\ r \in Seq(Lines) /\ Len(r) = Len(s4) + 1
        /\ r[1] = a
        /\ \A i \in 1 .. Len(s4) : r[i + 1] = s4[i]
    BY <1>4, OneBefore
  <2> HIDE DEF r
  <2>2. Len(r) = 5 /\ r[1] = a
    BY <1>4, <2>1
  <2>3. r[1 + 1] = b /\ r[2 + 1] = c /\ r[3 + 1] = d /\ r[4 + 1] = e
    BY <1>4, <2>1
  <2>4. r[2] = b /\ r[3] = c /\ r[4] = d /\ r[5] = e
    BY <2>3
  <2> QED BY <2>1, <2>2, <2>4 DEF r
<1>6. PICK s6 \in Seq(Lines) :
        /\ s6 = s5 \o <<f>> /\ Len(s6) = 6
        /\ s6[1] = a /\ s6[2] = b /\ s6[3] = c /\ s6[4] = d /\ s6[5] = e /\ s6[6] = f
  <2> DEFINE r == s5 \o <<f>>
  <2>1. /\ r \in Seq(Lines) /\ Len(r) = Len(s5) + 1
        /\ \A i \in 1 .. Len(s5) : r[i] = s5[i]
        /\ r[Len(s5) + 1] = f
    BY <1>5, OneAfter
  <2> HIDE DEF r
  <2>2. /\ Len(r) = 6
        /\ r[1] = a /\ r[2] = b /\ r[3] = c /\ r[4] = d /\ r[5] = e /\ r[6] = f
    BY <1>5, <2>1
  <2> QED BY <2>1, <2>2 DEF r
<1>7. s6 = Six(a, b, c, d, e, f)
  BY <1>1, <1>2, <1>3, <1>4, <1>5, <1>6 DEF Six
<1> QED BY <1>6, <1>7, Zenon DEF Spells

\* What is put together of statements while the session is open.
LEMMA BodyParts ==
  /\ \A p, c \in Nat : CreateProducersAndConsumers(p, c) \in Seq(Statements(InSession))
  /\ \A index \in Nat : Await(index) \in Seq(Statements(InSession))
  /\ <<Statement("removeAll", "producers")>> \in Seq(Statements(InSession))
<1>1. ASSUME NEW p \in Nat, NEW c \in Nat
      PROVE  CreateProducersAndConsumers(p, c) \in Seq(Statements(InSession))
  <2>1. \A k \in Kinds : Statement("add", k) \in Statements(InSession)
    BY StatementIsOne DEF InSession, Arguments, Suits
  <2>2. p + c \in Nat
    OBVIOUS
  <2> QED BY <2>1, <2>2 DEF CreateProducersAndConsumers, Kinds
<1>2. ASSUME NEW index \in Nat PROVE Await(index) \in Seq(Statements(InSession))
  <2>1. Statement("await", index) \in Statements(InSession)
    BY StatementIsOne DEF InSession, Arguments, Suits
  <2> QED BY <2>1 DEF Await
<1>3. Statement("removeAll", "producers") \in Statements(InSession)
  BY StatementIsOne DEF InSession, Arguments, Suits, Kinds
<1> QED BY <1>1, <1>2, <1>3

\* Filling and emptying take a single actor.
LEMMA CreateOne ==
  /\ CreateProducersAndConsumers(1, 0) = <<Statement("add", "producers")>>
  /\ CreateProducersAndConsumers(0, 1) = <<Statement("add", "consumers")>>
<1>1. /\ CreateProducersAndConsumers(1, 0)
             = [i \in 1 .. 1 |-> Statement("add", "producers")]
      /\ CreateProducersAndConsumers(0, 1)
             = [i \in 1 .. 1 |-> Statement("add", "consumers")]
  BY DEF CreateProducersAndConsumers
<1> QED BY <1>1

\* The tests that fill and empty the buffer have six lines each: one actor is added,
\* its work awaited, and the items looked at after stop().
LEMMA FilledAndEmptied ==
  ASSUME NEW t \in {"filled", "emptied"}
  PROVE  LET s == Script(t)
         IN  /\ s \in Seq(Lines) /\ Len(s) = 6
             /\ s[1].do = "start" /\ s[2].do = "add" /\ s[3].do = "await"
             /\ s[4].do = "stop" /\ s[5].do = "expect" /\ s[6].do = "tear down"
             /\ s[2].arg = IF t = "filled" THEN "producers" ELSE "consumers"
             /\ s[3].arg = IF t = "filled" THEN Size ELSE 0
             /\ s[5].arg = (t = "filled")
<1>1. \A do \in InSession \cup {"start", "stop", "expect", "tear down"},
         arg \in Arguments :
        Suits(do, arg) =>
          /\ Statement(do, arg) \in Lines
          /\ Statement(do, arg).do = do /\ Statement(do, arg).arg = arg
  BY StatementIsOne DEF Lines
<1>2. ASSUME NEW k \in Kinds, NEW index \in Nat, NEW filled \in BOOLEAN,
             Script(t) = Begin \o (<<Statement("add", k)>> \o Await(index) \o Stop
                                     \o Expect(filled)) \o TearDown
      PROVE  LET s == Script(t)
             IN  /\ s \in Seq(Lines) /\ Len(s) = 6
                 /\ s[1].do = "start" /\ s[2].do = "add" /\ s[3].do = "await"
                 /\ s[4].do = "stop" /\ s[5].do = "expect" /\ s[6].do = "tear down"
                 /\ s[2].arg = k /\ s[3].arg = index /\ s[5].arg = filled
  <2>1. PICK a \in Lines : a = Statement("start", "none") /\ a.do = "start"
    BY <1>1 DEF InSession, Arguments, Suits
  <2>2. PICK b \in Lines : b = Statement("add", k) /\ b.do = "add" /\ b.arg = k
    BY <1>1 DEF InSession, Arguments, Suits
  <2>3. PICK c \in Lines :
          c = Statement("await", index) /\ c.do = "await" /\ c.arg = index
    BY <1>1 DEF InSession, Arguments, Suits
  <2>4. PICK d \in Lines : d = Statement("stop", "none") /\ d.do = "stop"
    BY <1>1 DEF InSession, Arguments, Suits
  <2>5. PICK e \in Lines :
          e = Statement("expect", filled) /\ e.do = "expect" /\ e.arg = filled
    BY <1>1 DEF InSession, Arguments, Suits
  <2>6. PICK f \in Lines : f = Statement("tear down", "none") /\ f.do = "tear down"
    BY <1>1 DEF InSession, Arguments, Suits
  <2>7. Script(t) = Six(a, b, c, d, e, f)
    BY <1>2, <2>1, <2>2, <2>3, <2>4, <2>5, <2>6
    DEF Begin, Await, Stop, Expect, TearDown, Six
  <2>8. Spells(Six(a, b, c, d, e, f), a, b, c, d, e, f)
    BY ScriptOfSix
  <2>9. Spells(Script(t), a, b, c, d, e, f)
    BY <2>7, <2>8
  <2> QED BY <2>1, <2>2, <2>3, <2>4, <2>5, <2>6, <2>9, Zenon DEF Spells
<1>3. CASE t = "filled"
  <2>1. Script(t) = Begin \o (<<Statement("add", "producers")>> \o Await(Size) \o Stop
                                \o Expect(TRUE)) \o TearDown
    BY <1>3, CreateOne DEF Script, Filled
  <2> QED BY <1>2, <1>3, <2>1, ConstantsAssumption DEF Kinds
<1>4. CASE t = "emptied"
  <2>1. Script(t) = Begin \o (<<Statement("add", "consumers")>> \o Await(0) \o Stop
                                \o Expect(FALSE)) \o TearDown
    BY <1>4, CreateOne DEF Script, Emptied
  <2> QED BY <1>2, <1>4, <2>1 DEF Kinds
<1> QED BY <1>3, <1>4

\* The line in which a script calls stop().
StopLine(t) ==
  IF t \in {"filled", "emptied"} THEN Len(Script(t)) - 2 ELSE Len(Script(t)) - 1

\* Every test opens a session, closes it and looks at what is left, and looks at the
\* items in between if it fills or empties the buffer.
LEMMA ScriptsOpenAndClose ==
  ASSUME IsFiniteSet(Producers), IsFiniteSet(Consumers), NEW t \in Tests
  PROVE  OpensAndCloses(Script(t), StopLine(t))
<1>1. \A k \in Kinds : Many(k) \in Nat
  BY FS_CardinalityType DEF Many, Pool
<1>2. CASE t \in {"filled", "emptied"}
  <2>1. /\ Script(t) \in Seq(Lines) /\ Len(Script(t)) = 6
        /\ Script(t)[1].do = "start" /\ Script(t)[2].do = "add"
        /\ Script(t)[3].do = "await" /\ Script(t)[4].do = "stop"
        /\ Script(t)[5].do = "expect" /\ Script(t)[6].do = "tear down"
    BY <1>2, FilledAndEmptied
  <2>2. StopLine(t) = 4
    <3>1. StopLine(t) = Len(Script(t)) - 2
      BY <1>2 DEF StopLine
    <3>2. Len(Script(t)) = 6
      BY <2>1
    <3> QED BY <3>1, <3>2
  <2>3. 4 \in 2 .. 6 - 1 /\ 2 .. 4 - 1 = {2, 3} /\ 4 + 1 .. 6 - 1 = {5}
    OBVIOUS
  <2> QED BY <2>1, <2>2, <2>3 DEF OpensAndCloses, InSession
<1>3. CASE t = "refilled"
  <2> DEFINE create == CreateProducersAndConsumers(Many("producers"), 0)
             more == CreateProducersAndConsumers(0, Many("consumers"))
             remove == <<Statement("removeAll", "producers")>>
  <2>1. /\ create \in Seq(Statements(InSession)) /\ more \in Seq(Statements(InSession))
        /\ remove \in Seq(Statements(InSession))
        /\ Await(Size) \in Seq(Statements(InSession))
        /\ Await(0) \in Seq(Statements(InSession))
    BY <1>1, BodyParts, ConstantsAssumption DEF Kinds
  <2> HIDE DEF create, more, remove
  <2>2. create \o Await(Size) \o remove \o more \o Await(0)
          \in Seq(Statements(InSession))
    BY <2>1
  <2>3. Script(t) = Begin \o (create \o Await(Size) \o remove \o more \o Await(0)
                                \o Stop) \o TearDown
    BY <1>3 DEF Script, Refilled, create, more, remove
  <2> QED BY <1>3, <2>2, <2>3, ScriptThatOnlyRuns DEF StopLine
<1>4. CASE t = "crowded"
  <2>1. CreateProducersAndConsumers(Many("producers"), Many("consumers"))
          \in Seq(Statements(InSession))
    BY <1>1, BodyParts DEF Kinds
  <2>2. Script(t) = Begin \o (CreateProducersAndConsumers(Many("producers"),
                                                          Many("consumers"))
                                \o Stop) \o TearDown
    BY <1>4 DEF Script, Crowded
  <2> QED BY <1>4, <2>1, <2>2, ScriptThatOnlyRuns DEF StopLine
<1> QED BY <1>2, <1>3, <1>4 DEF Tests

-----------------------------------------------------------------------------
(* The inductive invariant *)

\* One thread runs the test, adding an actor does not throw, and the actors can be
\* counted.
AsTested ==
  /\ Faults = {}
  /\ \A c, d \in Clients : c = d
  /\ IsFiniteSet(Producers) /\ IsFiniteSet(Consumers)

TestTypes ==
  /\ test \in Tests
  /\ line \in 1 .. Len(Script(test)) + 1
  /\ verdict \in {"passed", "timed out"}

\* The session is open from the first line to the one that stops it.
LifeOfLine ==
  /\ life = "none" <=> line = 1
  /\ life = "deleted" <=> line > StopLine(test)

\* The call of IPC that is under way is that of the line.
CallOfLine ==
  \A c \in Clients :
    job[c] # "none" =>
      \/ job[c] = "read" /\ Doing("await")
      \/ job[c] = "add" /\ Doing("add") /\ kind[c] = Argument
      \/ job[c] = "removeAll" /\ Doing("removeAll")
      \/ job[c] = "stop" /\ Doing("stop")

\* Only actors of one kind are there when the buffer is filled or emptied, so that
\* what a poll has seen, in line 3, stays.
Undisturbed ==
  /\ test = "filled" =>
       /\ \A a \in Consumers : loop[a] = "new"
       /\ line > 3 /\ verdict = "passed" => currentIndex = Size
  /\ test = "emptied" =>
       /\ \A a \in Producers : loop[a] = "new"
       /\ line > 3 /\ verdict = "passed" => currentIndex = 0

TestIInv ==
  /\ TestTypes
  /\ lost = {}
  /\ LifeOfLine
  /\ CallOfLine
  /\ Undisturbed

-----------------------------------------------------------------------------
(* Where a test is in its script *)

\* What is done in a line tells where the line is.
LEMMA PartsOfAScript ==
  ASSUME NEW s, NEW last, OpensAndCloses(s, last), NEW i \in 1 .. Len(s)
  PROVE  /\ last \in 2 .. Len(s) - 1
         /\ Suits(s[i].do, s[i].arg)
         /\ s[i].do = "start" => i = 1
         /\ s[i].do \in InSession => i \in 2 .. last - 1
         /\ s[i].do = "stop" => i = last
         /\ s[i].do = "expect" => i \in last + 1 .. Len(s) - 1
         /\ s[i].do = "tear down" => i = Len(s)
<1>1. /\ s \in Seq(Lines) /\ last \in 2 .. Len(s) - 1
      /\ s[1].do = "start" /\ s[last].do = "stop" /\ s[Len(s)].do = "tear down"
      /\ \A j \in 2 .. last - 1 : s[j].do \in InSession
      /\ \A j \in last + 1 .. Len(s) - 1 : s[j].do = "expect"
  BY Zenon DEF OpensAndCloses
<1>2. Len(s) \in Nat /\ s[i] \in Lines
  BY <1>1, LenProperties, ElementOfSeq, Zenon
<1>3. Suits(s[i].do, s[i].arg)
  BY <1>2, StatementsOf, Zenon DEF Lines
<1>4. \/ i = 1 \/ i \in 2 .. last - 1 \/ i = last \/ i \in last + 1 .. Len(s) - 1
      \/ i = Len(s)
  <2>1. ASSUME NEW n \in Nat, NEW l \in 2 .. n - 1, NEW j \in 1 .. n
        PROVE  j = 1 \/ j \in 2 .. l - 1 \/ j = l \/ j \in l + 1 .. n - 1 \/ j = n
    OBVIOUS
  <2> QED BY <1>1, <1>2, <2>1, Zenon
<1> QED BY <1>1, <1>3, <1>4, Zenon DEF InSession

\* The same of the line a test is at.
LEMMA LinesOfTheTest ==
  ASSUME AsTested, TestTypes
  PROVE  /\ StopLine(test) \in 2 .. Len(Script(test)) - 1
         /\ Len(Script(test)) \in Nat
         /\ ~Over => line \in 1 .. Len(Script(test))
         /\ Doing("start") => line = 1
         /\ Doing("add") \/ Doing("await") \/ Doing("removeAll") =>
              line \in 2 .. StopLine(test) - 1
         /\ Doing("add") \/ Doing("removeAll") => Argument \in Kinds
         /\ Doing("stop") => line = StopLine(test)
         /\ Doing("expect") => line \in StopLine(test) + 1 .. Len(Script(test)) - 1
         /\ Doing("tear down") => line = Len(Script(test))
<1>1. OpensAndCloses(Script(test), StopLine(test))
  BY ScriptsOpenAndClose DEF AsTested, TestTypes
<1>2. StopLine(test) \in 2 .. Len(Script(test)) - 1 /\ Len(Script(test)) \in Nat
  BY <1>1, LenProperties, Zenon DEF OpensAndCloses
<1>3. ~Over => line \in 1 .. Len(Script(test))
  <2>1. ASSUME NEW n \in Nat, NEW l \in 1 .. n + 1, ~(l > n) PROVE l \in 1 .. n
    BY <2>1
  <2> QED BY <1>2, <2>1, Zenon DEF Over, TestTypes
<1>4. ASSUME ~Over
      PROVE  LET s == Script(test)[line]
             IN  /\ Suits(s.do, s.arg)
                 /\ s.do = "start" => line = 1
                 /\ s.do \in InSession => line \in 2 .. StopLine(test) - 1
                 /\ s.do = "stop" => line = StopLine(test)
                 /\ s.do = "expect" =>
                      line \in StopLine(test) + 1 .. Len(Script(test)) - 1
                 /\ s.do = "tear down" => line = Len(Script(test))
  BY <1>1, <1>3, <1>4, PartsOfAScript
<1> QED BY <1>2, <1>3, <1>4 DEF Doing, Argument, InSession, Suits

\* The lines of the tests that fill or empty the buffer.
LEMMA LinesOfFilledAndEmptied ==
  ASSUME TestTypes, test \in {"filled", "emptied"}
  PROVE  /\ StopLine(test) = 4 /\ Len(Script(test)) = 6
         /\ Doing("add") =>
              /\ line = 2
              /\ Argument = IF test = "filled" THEN "producers" ELSE "consumers"
         /\ ~Doing("removeAll")
         /\ Doing("await") => line = 3 /\ Argument = IF test = "filled" THEN Size ELSE 0
         /\ Doing("expect") => Argument = (test = "filled")
<1>1. /\ Script(test) \in Seq(Lines) /\ Len(Script(test)) = 6
      /\ Script(test)[1].do = "start" /\ Script(test)[2].do = "add"
      /\ Script(test)[3].do = "await" /\ Script(test)[4].do = "stop"
      /\ Script(test)[5].do = "expect" /\ Script(test)[6].do = "tear down"
      /\ Script(test)[2].arg = IF test = "filled" THEN "producers" ELSE "consumers"
      /\ Script(test)[3].arg = IF test = "filled" THEN Size ELSE 0
      /\ Script(test)[5].arg = (test = "filled")
  BY FilledAndEmptied, Zenon
<1>2. StopLine(test) = 4
  <2>1. StopLine(test) = Len(Script(test)) - 2
    BY DEF StopLine
  <2>2. 6 - 2 = 4
    OBVIOUS
  <2> QED BY <1>1, <2>1, <2>2, Zenon
<1>3. ~Over => line \in {1, 2, 3, 4, 5, 6}
  <2>1. ASSUME NEW l \in 1 .. 6 + 1, ~(l > 6) PROVE l \in {1, 2, 3, 4, 5, 6}
    BY <2>1
  <2> QED BY <1>1, <2>1, Zenon DEF Over, TestTypes
<1>4. Doing("add") => line = 2
  BY <1>1, <1>3 DEF Doing
<1>5. Doing("await") => line = 3
  BY <1>1, <1>3 DEF Doing
<1>6. Doing("expect") => line = 5
  BY <1>1, <1>3 DEF Doing
<1>7. ~Doing("removeAll")
  BY <1>1, <1>3 DEF Doing
<1>8. Doing("expect") => Argument = (test = "filled")
  BY <1>1, <1>6, Zenon DEF Argument
<1> QED BY <1>1, <1>2, <1>4, <1>5, <1>7, <1>8 DEF Argument

\* A test takes the steps of a session.
LEMMA TestRunsASession ==
  ASSUME AsTested, TestTypes, [TestNext]_testVars PROVE [ManagerNext]_allVars
<1>1. ASSUME NEW c \in Clients, TesterStep(c) PROVE [ManagerNext]_allVars
  <2>1. CASE CallIPC(c)
    <3>1. life = "live" /\ NewCall(c)
      BY <2>1, LinesOfTheTest DEF CallIPC, NewCall
    <3> QED BY <3>1 DEF ManagerNext, SessionStep
  <2>2. CASE InCall(c)
    BY <2>2 DEF InCall, ManagerNext, SessionStep
  <2>3. CASE StartTest(c)
    BY <2>3 DEF StartTest, StartSession, ManagerNext
  <2>4. CASE Check
    BY <2>4 DEF Check
  <2>5. CASE /\ life = "live" /\ BufferLock(c)
             /\ UNCHANGED <<managerVars, test, line, verdict>>
    BY <2>5 DEF ManagerNext, SessionStep, Threads
  <2> QED BY <1>1, <2>1, <2>2, <2>3, <2>4, <2>5 DEF TesterStep
<1>2. ASSUME NEW a \in Actors, ActorStepOf(a) PROVE [ManagerNext]_allVars
  BY <1>2 DEF ActorStepOf, ManagerNext, SessionStep, Threads
<1>3. CASE UNCHANGED testVars
  BY <1>3 DEF testVars
<1> QED BY <1>1, <1>2, <1>3 DEF TestNext

-----------------------------------------------------------------------------
(* What a step does to the buffer and to the actors *)

\* The index moves when a producer finds room or a consumer an item.
LEMMA IndexMoves ==
  ASSUME [BufferNext]_bufferVars
  PROVE  \/ currentIndex' = currentIndex
         \/ currentIndex < Size /\ \E p \in Producers : at[p] # "out"
         \/ currentIndex > 0 /\ \E c \in Consumers : at[c] # "out"
<1>1. ASSUME NEW a \in Actors, ActorStep(a)
      PROVE  \/ currentIndex' = currentIndex
             \/ currentIndex < Size /\ \E p \in Producers : at[p] # "out"
             \/ currentIndex > 0 /\ \E c \in Consumers : at[c] # "out"
  BY <1>1 DEF ActorStep, CallProduce, CallConsume, Enter, ProduceBody, ConsumeBody,
     InBody, TestPredicate, Sleep, SpuriousWakeup, Retest
<1>2. ASSUME NEW c \in Clients, ClientStep(c) PROVE currentIndex' = currentIndex
  BY <1>2 DEF ClientStep, CallStop, StopBody, CallGetCurrentIndex, NotifyBody,
     CallNotify, Enter
<1>3. ASSUME NEW t \in Threads, AnyStep(t) PROVE currentIndex' = currentIndex
  BY <1>3 DEF AnyStep, CallIsRunning, Enter, Lock, ReadBody
<1> QED BY <1>1, <1>2, <1>3 DEF BufferNext, bufferVars

\* A step within a call leaves the call as it is, or hands a list over within
\* stop(), or is its last: the buffer is deleted if it is a call of stop(), and
\* read if it is one of getCurrentIndex.
LEMMA CallsGoOn ==
  ASSUME ManagerIInv, StopIInv, StepsMatchJobs, NEW c \in Clients,
         LockList(c) \/ JobStep(c)
  PROVE  /\ job[c] # "none"
         /\ \A d \in Clients \ {c} : job'[d] = job[d] /\ kind'[d] = kind[d]
         /\ \/ /\ job'[c] = job[c] /\ life' = life
               /\ job[c] # "stop" => kind'[c] = kind[c]
            \/ /\ job'[c] = "none"
               /\ life' = IF job[c] = "stop" THEN "deleted" ELSE life
               /\ job[c] = "read" => ReadBody(c)
<1>0. /\ job \in [Clients -> Jobs \cup {"none"}]
      /\ kind \in [Clients -> Kinds \cup {"none"}]
      /\ step[c] # "none" => job[c] # "none"
      /\ stopping[c] # "no" <=> step[c] = "stopping"
      /\ step[c] \in {"close", "delete"} => job[c] = "stop"
      /\ step[c] \in {"check", "create"} => job[c] = "add"
      /\ step[c] \in {"pick", "stopping"} => job[c] \in {"remove", "removeAll", "stop"}
      /\ step[c] = "read" => job[c] = "read"
  BY DEF ManagerIInv, ManagerTypes, IdleNowhere, StopsTheFront, StopIInv, StopInOrder,
     StepsMatchJobs
<1>1. CASE LockList(c)
  BY <1>0, <1>1 DEF LockList, At, Proceed
<1>2. CASE AddCheck(c) \/ CloseCall(c) \/ ReadCall(c)
  BY <1>0, <1>2 DEF AddCheck, CloseCall, ReadCall, At, managerVars
<1>3. CASE AddChecked(c)
  BY <1>0, <1>3 DEF AddChecked, At, Done, Proceed
<1>4. CASE AddCreate(c) \/ AddFails(c)
  BY <1>0, <1>4 DEF AddCreate, AddFails, At, Done
<1>5. CASE RemoveFront(c) \/ CloseReturn(c)
  BY <1>0, <1>5 DEF RemoveFront, CloseReturn, At, Proceed
<1>6. CASE RemoveNothing(c) \/ RemoveJoined(c)
  BY <1>0, <1>6 DEF RemoveNothing, RemoveJoined, At, Leave, Done, Proceed
<1>7. CASE DeleteBuffer(c)
  BY <1>0, <1>7 DEF DeleteBuffer, At, Done
<1>8. CASE ReadReturn(c)
  BY <1>0, <1>8 DEF ReadReturn, At, Done
<1>9. CASE (StopLock(c) \/ StopNotified(c) \/ StopSignal(c)) /\ UNCHANGED managerVars
  BY <1>0, <1>9 DEF StopLock, StopNotified, StopSignal, managerVars
<1> QED BY <1>1, <1>2, <1>3, <1>4, <1>5, <1>6, <1>7, <1>8, <1>9 DEF JobStep

-----------------------------------------------------------------------------
(* The invariant is inductive *)

\* A new test has made no call and started no actor.
LEMMA InitEstablishesTestIInv == AsTested /\ TestInit => TestIInv
<1> SUFFICES ASSUME AsTested, TestInit PROVE TestIInv
  OBVIOUS
<1>1. OpensAndCloses(Script(test), StopLine(test))
  BY ScriptsOpenAndClose DEF AsTested, TestInit
<1>2. StopLine(test) \in 2 .. Len(Script(test)) - 1 /\ Len(Script(test)) \in Nat
  BY <1>1, LenProperties, Zenon DEF OpensAndCloses
<1>3. test \in Tests /\ line = 1 /\ verdict = "passed" /\ life = "none" /\ lost = {}
  BY DEF TestInit, ManagerInit
<1>4. TestTypes
  <2>1. 1 \in 1 .. Len(Script(test)) + 1
    BY <1>2
  <2> QED BY <1>3, <2>1 DEF TestTypes
<1>5. LifeOfLine
  BY <1>2, <1>3 DEF LifeOfLine
<1>6. CallOfLine
  BY DEF CallOfLine, TestInit, ManagerInit
<1>7. Undisturbed
  BY <1>3 DEF Undisturbed, TestInit, ManagerInit, ActorInit, Actors
<1> QED BY <1>3, <1>4, <1>5, <1>6, <1>7 DEF TestIInv

\* No actor of the other kind is started, and the index stays where a poll saw it.
LEMMA UndisturbedStays ==
  ASSUME TestTypes, ActorIInv, Undisturbed, [BufferNext]_bufferVars, test' = test,
         \A a \in Actors :
           loop[a] = "new" =>
             loop'[a] = "new" \/ (Doing("add") /\ a \in Pool(Argument)),
         test \in {"filled", "emptied"} /\ line' > 3 /\ verdict' = "passed" =>
           \/ line > 3 /\ verdict = "passed"
           \/ Doing("await") /\ currentIndex' = Argument
  PROVE  Undisturbed'
<1>1. \A a \in Actors : loop[a] = "new" => at[a] = "out"
  BY DEF ActorIInv, InsideLoop
<1>2. Producers \cap Consumers = {} /\ Size \in Nat
  BY ConstantsAssumption
<1>3. ASSUME test = "filled"
      PROVE  /\ \A a \in Consumers : loop'[a] = "new"
             /\ line' > 3 /\ verdict' = "passed" => currentIndex' = Size
  <2>1. \A a \in Consumers : loop[a] = "new"
    BY <1>3 DEF Undisturbed
  <2>2. /\ Doing("add") => Argument = "producers"
        /\ Doing("await") => Argument = Size
    BY <1>3, LinesOfFilledAndEmptied
  <2>3. ASSUME NEW a \in Consumers PROVE loop'[a] = "new"
    BY <1>2, <2>1, <2>2 DEF Actors, Pool
  <2>4. ASSUME line > 3, verdict = "passed" PROVE currentIndex' = Size
    <3>1. currentIndex = Size
      BY <1>3, <2>4 DEF Undisturbed
    <3>2. ~(\E a \in Consumers : at[a] # "out")
      BY <1>1, <2>1 DEF Actors
    <3> QED BY <1>2, <3>1, <3>2, IndexMoves
  <2> QED BY <1>3, <2>2, <2>3, <2>4
<1>4. ASSUME test = "emptied"
      PROVE  /\ \A a \in Producers : loop'[a] = "new"
             /\ line' > 3 /\ verdict' = "passed" => currentIndex' = 0
  <2>1. \A a \in Producers : loop[a] = "new"
    BY <1>4 DEF Undisturbed
  <2>2. /\ Doing("add") => Argument = "consumers"
        /\ Doing("await") => Argument = 0
    BY <1>4, LinesOfFilledAndEmptied
  <2>3. ASSUME NEW a \in Producers PROVE loop'[a] = "new"
    BY <1>2, <2>1, <2>2 DEF Actors, Pool
  <2>4. ASSUME line > 3, verdict = "passed" PROVE currentIndex' = 0
    <3>1. currentIndex = 0
      BY <1>4, <2>4 DEF Undisturbed
    <3>2. ~(\E a \in Producers : at[a] # "out")
      BY <1>1, <2>1 DEF Actors
    <3> QED BY <3>1, <3>2, IndexMoves
  <2> QED BY <1>4, <2>2, <2>3, <2>4
<1> QED BY <1>3, <1>4 DEF Undisturbed

\* As long as the test is in the same line and in no other call, only the actors
\* can make a difference.
LEMMA SameLineKeepsTestIInv ==
  ASSUME TestIInv, UNCHANGED <<test, line, verdict, life, lost>>, CallOfLine',
         ActorIInv, [BufferNext]_bufferVars,
         \A a \in Actors :
           loop[a] = "new" =>
             loop'[a] = "new" \/ (Doing("add") /\ a \in Pool(Argument))
  PROVE  TestIInv'
<1>1. TestTypes' /\ LifeOfLine' /\ lost' = {}
  BY DEF TestIInv, TestTypes, LifeOfLine
<1>2. Undisturbed'
  BY UndisturbedStays DEF TestIInv
<1> QED BY <1>1, <1>2 DEF TestIInv

\* A test that makes a call makes the one its line says.
LEMMA MakingACallKeepsTestIInv ==
  ASSUME AsTested, ActorIInv, ManagerIInv, TestIInv, NEW c \in Clients, CallIPC(c),
         [BufferNext]_bufferVars
  PROVE  TestIInv'
<1>1. /\ UNCHANGED <<test, line, verdict, life, lost, loop>>
      /\ job \in [Clients -> Jobs \cup {"none"}]
      /\ kind \in [Clients -> Kinds \cup {"none"}]
  BY DEF CallIPC, CallAdd, CallRemoveAll, CallStopSession, CallRead, Call, vars,
     actorVars, ManagerIInv, ManagerTypes
<1>2. \/ Doing("add") /\ job'[c] = "add" /\ kind'[c] = Argument
      \/ Doing("removeAll") /\ job'[c] = "removeAll"
      \/ Doing("stop") /\ job'[c] = "stop"
      \/ Doing("await") /\ job'[c] = "read"
  BY <1>1 DEF CallIPC, CallAdd, CallRemoveAll, CallStopSession, CallRead, Call
<1>3. \A s : Doing(s)' <=> Doing(s)
  BY <1>1 DEF Doing, Over
<1>4. Argument' = Argument
  BY <1>1 DEF Argument
<1>5. \A d \in Clients : d = c
  BY DEF AsTested
<1>6. CallOfLine'
  BY <1>2, <1>3, <1>4, <1>5 DEF CallOfLine
<1> QED BY <1>1, <1>6, SameLineKeepsTestIInv

\* What the test makes of a step of its call: it stays in its line until the call
\* returns, and in one that polls until it has seen the index it waits for or has no
\* tries left.
LEMMA StepInCallKeepsTestIInv ==
  ASSUME AsTested, ActorIInv, ManagerIInv, StopIInv, StepsMatchJobs, TestIInv,
         NEW c \in Clients, InCall(c), [BufferNext]_bufferVars
  PROVE  TestIInv'
<1>0. \A d \in Clients : d = c
  BY DEF AsTested
<1>1. /\ job[c] # "none"
      /\ \/ /\ job'[c] = job[c] /\ life' = life
            /\ job[c] # "stop" => kind'[c] = kind[c]
         \/ /\ job'[c] = "none"
            /\ life' = IF job[c] = "stop" THEN "deleted" ELSE life
            /\ job[c] = "read" => ReadBody(c)
  BY CallsGoOn DEF InCall
<1>2. /\ lost' = lost
      /\ \A a \in Actors :
           loop[a] = "new" =>
             loop'[a] = "new" \/ (step[c] = "create" /\ a \in Pool(kind[c]))
  BY CallsStartActors DEF InCall, AsTested
<1>3. \/ job[c] = "read" /\ Doing("await")
      \/ job[c] = "add" /\ Doing("add") /\ kind[c] = Argument
      \/ job[c] = "removeAll" /\ Doing("removeAll")
      \/ job[c] = "stop" /\ Doing("stop")
  BY <1>1 DEF TestIInv, CallOfLine
<1>4. \A a \in Actors :
        loop[a] = "new" => loop'[a] = "new" \/ (Doing("add") /\ a \in Pool(Argument))
  <2>1. step[c] = "create" => Doing("add") /\ kind[c] = Argument
    BY <1>3 DEF StepsMatchJobs
  <2> QED BY <1>2, <2>1
<1>5. TestTypes /\ test' = test /\ life = "live"
  BY DEF TestIInv, InCall
<1>6. /\ line \in 1 .. StopLine(test) /\ line \in Nat /\ line # 1
      /\ StopLine(test) \in 2 .. Len(Script(test)) - 1 /\ Len(Script(test)) \in Nat
      /\ line = StopLine(test) <=> job[c] = "stop"
  <2>1. /\ StopLine(test) \in 2 .. Len(Script(test)) - 1 /\ Len(Script(test)) \in Nat
        /\ job[c] # "stop" => line \in 2 .. StopLine(test) - 1
        /\ job[c] = "stop" => line = StopLine(test)
    BY <1>3, <1>5, LinesOfTheTest
  <2> QED BY <2>1
<1>7. CASE job'[c] # "none"
  <2>1. job'[c] = job[c] /\ life' = life /\ (job[c] # "stop" => kind'[c] = kind[c])
    BY <1>1, <1>7
  <2>2. UNCHANGED <<line, verdict>>
    BY <1>7 DEF InCall
  <2>3. \A s : Doing(s)' <=> Doing(s)
    BY <1>5, <2>2 DEF Doing, Over
  <2>4. Argument' = Argument
    BY <1>5, <2>2 DEF Argument
  <2>5. CallOfLine'
    BY <1>0, <1>3, <2>1, <2>3, <2>4 DEF CallOfLine
  <2> QED BY <1>2, <1>4, <1>5, <2>1, <2>2, <2>5, SameLineKeepsTestIInv
<1>8. CASE job'[c] = "none"
  <2>1. CallOfLine'
    BY <1>0, <1>8 DEF CallOfLine
  <2>2. CASE Doing("await")
    <3>1. job[c] = "read" /\ life' = life /\ currentIndex' = currentIndex
      <4>1. job[c] = "read"
        BY <1>3, <2>2 DEF Doing
      <4> QED BY <1>1, <1>8, <4>1 DEF ReadBody
    <3>2. Polled
      BY <1>8, <2>2 DEF InCall
    <3>3. /\ line' = line \/ line' = line + 1
          /\ verdict' \in {verdict, "timed out"}
      BY <3>2 DEF Polled
    <3>4. line' \in 1 .. Len(Script(test)) + 1 /\ line' # 1 /\ ~(line' > StopLine(test))
      <4>1. line < StopLine(test)
        BY <1>6, <3>1
      <4>2. CASE line' = line
        BY <1>6, <4>1, <4>2
      <4>3. CASE line' = line + 1
        BY <1>6, <4>1, <4>3
      <4> QED BY <3>3, <4>2, <4>3
    <3>5. TestTypes' /\ LifeOfLine'
      <4>1. StopLine(test)' = StopLine(test)
        BY <1>5 DEF StopLine
      <4> QED BY <1>5, <3>1, <3>3, <3>4, <4>1 DEF TestTypes, LifeOfLine
    <3>6. verdict' = "passed" =>
            \/ line' = line /\ verdict = "passed"
            \/ currentIndex' = Argument
      BY <3>1, <3>2 DEF Polled
    <3>7. Undisturbed'
      BY <1>4, <1>5, <2>2, <3>6, UndisturbedStays DEF TestIInv
    <3> QED BY <1>2, <2>1, <3>5, <3>7 DEF TestIInv
  <2>3. CASE ~Doing("await")
    <3>1. line' = line + 1 /\ verdict' = verdict
      BY <1>8, <2>3 DEF InCall
    <3>2. job[c] # "read" /\ life' = IF job[c] = "stop" THEN "deleted" ELSE life
      BY <1>1, <1>3, <1>8, <2>3
    <3>3. TestTypes'
      <4>1. line' \in 1 .. Len(Script(test)) + 1
        BY <1>6, <3>1
      <4> QED BY <1>5, <3>1, <4>1 DEF TestTypes
    <3>4. LifeOfLine'
      <4>1. line' # 1 /\ (line' > StopLine(test) <=> job[c] = "stop")
        BY <1>6, <3>1
      <4>2. StopLine(test)' = StopLine(test)
        BY <1>5 DEF StopLine
      <4> QED BY <1>5, <3>2, <4>1, <4>2 DEF LifeOfLine
    <3>5. test \in {"filled", "emptied"} => line = 2 \/ line = 4
      <4>1. ASSUME test \in {"filled", "emptied"} PROVE line = 2 \/ line = 4
        BY <1>3, <1>5, <1>6, <2>3, <4>1, LinesOfFilledAndEmptied
      <4> QED BY <4>1
    <3>6. test \in {"filled", "emptied"} /\ line' > 3 => line > 3
      BY <3>1, <3>5
    <3>7. Undisturbed'
      BY <1>4, <1>5, <3>1, <3>6, UndisturbedStays DEF TestIInv
    <3> QED BY <1>2, <2>1, <3>3, <3>4, <3>7 DEF TestIInv
  <2> QED BY <2>2, <2>3
<1> QED BY <1>7, <1>8

\* A slot is below the size, and not below 0.
LEMMA SlotsOfTheBuffer == \A slot \in Slots : slot < Size /\ ~(slot < 0)
BY ConstantsAssumption DEF Slots

\* The lines after the one that stops the session: five if it is the fourth of six,
\* none but the last if there is one only.
LEMMA LinesAfterStop ==
  ASSUME NEW n \in Nat, NEW last \in 2 .. n - 1, NEW l \in 1 .. n
  PROVE  /\ l = n => l > last
         /\ l \in last + 1 .. n - 1 => last # n - 1 /\ l > last
         /\ l > last /\ last = 4 => l > 3
OBVIOUS

\* What the test looks at, after stop(), is as it expects, unless a poll that should
\* have seen to it has timed out.
LEMMA ChecksSucceed ==
  ASSUME AsTested, IInv, StopIInv, TestIInv,
         Doing("expect") \/ Doing("tear down")
  PROVE  Finding \/ (verdict = "timed out" /\ Doing("expect"))
<1>1. TestTypes /\ LifeOfLine /\ lost = {}
  BY DEF TestIInv
<1>2. /\ Len(Script(test)) \in Nat /\ StopLine(test) \in 2 .. Len(Script(test)) - 1
      /\ line \in 1 .. Len(Script(test))
      /\ Doing("expect") => line \in StopLine(test) + 1 .. Len(Script(test)) - 1
      /\ Doing("tear down") => line = Len(Script(test))
  <2>1. ~Over
    BY DEF Doing
  <2> QED BY <1>1, <2>1, LinesOfTheTest, Zenon
<1>3. CASE Doing("expect")
  <2>1. test \in {"filled", "emptied"}
    <3>1. StopLine(test) # Len(Script(test)) - 1
      BY <1>2, <1>3, LinesAfterStop, Zenon
    <3> QED BY <3>1 DEF StopLine
  <2>2. line > 3
    <3>1. StopLine(test) = 4
      BY <1>1, <2>1, LinesOfFilledAndEmptied, Zenon
    <3> QED BY <1>2, <1>3, <3>1, LinesAfterStop, Zenon
  <2>3. Argument = (test = "filled")
    BY <1>1, <1>3, <2>1, LinesOfFilledAndEmptied, Zenon
  <2>4. CASE verdict = "passed"
    <3>1. ASSUME NEW slot \in Slots PROVE items[slot] = (test = "filled")
      <4>1. items[slot] \in BOOLEAN /\ (items[slot] <=> slot < currentIndex)
        BY DEF IInv, TypeOK, FilledPrefix
      <4>2. CASE test = "filled"
        <5>1. currentIndex = Size
          BY <2>2, <2>4, <4>2 DEF TestIInv, Undisturbed
        <5>2. slot < currentIndex
          BY <5>1, SlotsOfTheBuffer, Zenon
        <5> QED BY <4>1, <4>2, <5>2, Zenon
      <4>3. CASE test = "emptied"
        <5>1. currentIndex = 0
          BY <2>2, <2>4, <4>3 DEF TestIInv, Undisturbed
        <5>2. ~(slot < currentIndex)
          BY <5>1, SlotsOfTheBuffer, Zenon
        <5>3. test # "filled"
          BY <4>3
        <5> QED BY <4>1, <5>2, <5>3, Zenon
      <4> QED BY <2>1, <4>2, <4>3
    <3> QED BY <1>3, <2>3, <3>1, Zenon DEF Finding
  <2> QED BY <1>1, <1>3, <2>4 DEF TestTypes
<1>4. CASE Doing("tear down")
  <2>1. life = "deleted"
    <3>1. line > StopLine(test)
      BY <1>2, <1>4, LinesAfterStop, Zenon
    <3> QED BY <1>1, <3>1 DEF LifeOfLine
  <2>2. \A a \in Actors : loop[a] \in {"new", "joined"}
    BY <1>1, <2>1 DEF StopIInv, NothingOutlivesTheBuffer
  <2> QED BY <1>1, <1>4, <2>1, <2>2 DEF Finding
<1> QED BY <1>3, <1>4

\* So the test goes on to its end.
LEMMA CheckKeepsTestIInv ==
  ASSUME AsTested, IInv, StopIInv, TestIInv, Check PROVE TestIInv'
<1>1. /\ verdict' = verdict /\ line' = line + 1 /\ test' = test
      /\ UNCHANGED <<loop, currentIndex, life, lost, job>>
  BY ChecksSucceed DEF Check, allVars, vars, bufferVars, actorVars, managerVars
<1>2. TestTypes /\ LifeOfLine /\ lost = {}
  BY DEF TestIInv
<1>3. /\ line \in StopLine(test) + 1 .. Len(Script(test))
      /\ StopLine(test) \in 2 .. Len(Script(test)) - 1 /\ Len(Script(test)) \in Nat
  <2>1. /\ StopLine(test) \in 2 .. Len(Script(test)) - 1 /\ Len(Script(test)) \in Nat
        /\ \/ line \in StopLine(test) + 1 .. Len(Script(test)) - 1
           \/ line = Len(Script(test))
    BY <1>2, LinesOfTheTest DEF Check
  <2> QED BY <2>1
<1>4. /\ line' \in 1 .. Len(Script(test)) + 1 /\ line' # 1
      /\ line > StopLine(test) /\ line' > StopLine(test)
  BY <1>1, <1>3
<1>5. life = "deleted"
  BY <1>2, <1>4 DEF LifeOfLine
<1>6. TestTypes' /\ LifeOfLine'
  <2>1. StopLine(test)' = StopLine(test)
    BY <1>1 DEF StopLine
  <2> QED BY <1>1, <1>2, <1>4, <1>5, <2>1 DEF TestTypes, LifeOfLine
<1>7. CallOfLine'
  <2>1. \A c \in Clients : job[c] = "none"
    BY <1>5 DEF StopIInv, NothingOutlivesTheBuffer
  <2> QED BY <1>1, <2>1 DEF CallOfLine
<1>8. Undisturbed'
  <2>1. test \in {"filled", "emptied"} => line > 3
    <3>1. test \in {"filled", "emptied"} => StopLine(test) = 4
      BY <1>2, LinesOfFilledAndEmptied
    <3> QED BY <1>3, <3>1
  <2> QED BY <1>1, <2>1 DEF TestIInv, Undisturbed
<1> QED BY <1>1, <1>2, <1>6, <1>7, <1>8 DEF TestIInv

\* The first line opens the session.
LEMMA StartKeepsTestIInv ==
  ASSUME AsTested, TestIInv, NEW c \in Clients, StartTest(c) PROVE TestIInv'
<1>1. /\ verdict' = verdict /\ line' = line + 1 /\ test' = test /\ life' = "live"
      /\ UNCHANGED <<loop, currentIndex, lost, job>>
  BY DEF StartTest, StartSession, vars, bufferVars, actorVars
<1>2. TestTypes /\ lost = {} /\ Doing("start")
  BY DEF TestIInv, StartTest
<1>3. /\ line = 1
      /\ StopLine(test) \in 2 .. Len(Script(test)) - 1 /\ Len(Script(test)) \in Nat
  BY <1>2, LinesOfTheTest
<1>4. /\ line' \in 1 .. Len(Script(test)) + 1 /\ line' # 1 /\ ~(line' > StopLine(test))
      /\ ~(line' > 3)
  BY <1>1, <1>3
<1>5. TestTypes' /\ LifeOfLine'
  <2>1. StopLine(test)' = StopLine(test)
    BY <1>1 DEF StopLine
  <2>2. test \in Tests /\ verdict \in {"passed", "timed out"}
    BY <1>2 DEF TestTypes
  <2> QED BY <1>1, <1>4, <2>1, <2>2 DEF TestTypes, LifeOfLine
<1>6. CallOfLine'
  <2>1. \A d \in Clients : job[d] = "none"
    BY <1>2 DEF TestIInv, CallOfLine, Doing
  <2> QED BY <1>1, <2>1 DEF CallOfLine
<1>7. Undisturbed'
  BY <1>1, <1>4 DEF TestIInv, Undisturbed
<1> QED BY <1>1, <1>2, <1>5, <1>6, <1>7 DEF TestIInv

\* No step of the test, or of the threads it has started, takes the invariant away.
LEMMA StepPreservesTestIInv ==
  ASSUME AsTested, IInv, ActorIInv, ManagerIInv, StopIInv, StepsMatchJobs, TestIInv,
         [TestNext]_testVars
  PROVE  TestIInv'
<1>1. [BufferNext]_bufferVars
  BY TestRunsASession, StepDrivesActors, StepUsesTheBuffer DEF TestIInv
<1>2. ASSUME UNCHANGED <<managerVars, test, line, verdict>>,
             \A a \in Actors : loop[a] = "new" => loop'[a] = "new"
      PROVE  TestIInv'
  <2>1. UNCHANGED <<life, lost, job, kind>>
    BY <1>2 DEF managerVars
  <2>2. \A s : Doing(s)' <=> Doing(s)
    BY <1>2 DEF Doing, Over
  <2>3. Argument' = Argument
    BY <1>2 DEF Argument
  <2>4. CallOfLine'
    BY <2>1, <2>2, <2>3 DEF TestIInv, CallOfLine
  <2> QED BY <1>1, <1>2, <2>1, <2>4, SameLineKeepsTestIInv
<1>3. ASSUME NEW c \in Clients, TesterStep(c) PROVE TestIInv'
  <2>1. CASE CallIPC(c)
    BY <1>1, <2>1, MakingACallKeepsTestIInv
  <2>2. CASE InCall(c)
    BY <1>1, <2>2, StepInCallKeepsTestIInv
  <2>3. CASE StartTest(c)
    BY <2>3, StartKeepsTestIInv
  <2>4. CASE Check
    BY <2>4, CheckKeepsTestIInv
  <2>5. CASE /\ life = "live" /\ BufferLock(c)
             /\ UNCHANGED <<managerVars, test, line, verdict>>
    BY <1>2, <2>5 DEF BufferLock, actorVars
  <2> QED BY <1>3, <2>1, <2>2, <2>3, <2>4, <2>5 DEF TesterStep
<1>4. ASSUME NEW a \in Actors, ActorStepOf(a) PROVE TestIInv'
  <2>1. UNCHANGED <<managerVars, test, line, verdict>>
    BY <1>4 DEF ActorStepOf, ThreadStep
  <2>2. \A b \in Actors : loop[b] = "new" => loop'[b] = "new"
    BY <1>4, NobodyStartsAlone DEF ActorStepOf
  <2> QED BY <1>2, <2>1, <2>2
<1>5. CASE UNCHANGED testVars
  BY <1>2, <1>5 DEF testVars, allVars, vars, actorVars
<1> QED BY <1>3, <1>4, <1>5 DEF TestNext

-----------------------------------------------------------------------------
(* The theorems *)

\* The invariants of the session and of the script hold throughout a test.
LEMMA TestInvariantHolds ==
  ASSUME AsTested
  PROVE  TestSpec => [](IInv /\ ActorIInv /\ ManagerIInv /\ StopIInv /\ StepsMatchJobs
                          /\ TestIInv)
<1> DEFINE All == IInv /\ ActorIInv /\ ManagerIInv /\ StopIInv /\ StepsMatchJobs
                    /\ TestIInv
<1>1. TestInit => All
  BY InitEstablishesIInv, InitEstablishesActorIInv, InitEstablishesManagerIInv,
     InitEstablishesStopIInv, InitEstablishesStepsMatchJobs, InitEstablishesTestIInv
  DEF TestInit, ManagerInit, ActorInit
<1>2. All /\ [TestNext]_testVars => All'
  <2> SUFFICES ASSUME All, [TestNext]_testVars PROVE All'
    OBVIOUS
  <2>1. TestIInv'
    BY StepPreservesTestIInv
  <2>2. [ManagerNext]_allVars
    BY TestRunsASession DEF TestIInv
  <2>3. [ActorNext]_vars
    BY <2>2, StepDrivesActors
  <2>4. IInv' /\ ActorIInv'
    BY <2>3, StepUsesTheBuffer, StepPreservesIInv, StepPreservesActorIInv
  <2>5. ManagerIInv' /\ StepsMatchJobs'
    BY <2>2, StepPreservesManagerIInv, StepPreservesStepsMatchJobs
  <2>6. StopIInv'
    BY <2>2, StepPreservesInTheBuffer, StepPreservesStopInOrder,
       StepPreservesNothingOutlives DEF StopIInv, AsTested, StopIsAlone
  <2> QED BY <2>1, <2>4, <2>5, <2>6
<1> QED BY <1>1, <1>2, PTL DEF TestSpec

\* Each test runs a session of the manager: whatever is proved of sessions holds in
\* the tests.
THEOREM TestsAreSessions == ASSUME AsTested PROVE TestSpec => ManagerSpec
<1>1. TestInit => ManagerInit
  BY DEF TestInit
<1>2. TestIInv /\ [TestNext]_testVars => [ManagerNext]_allVars
  BY TestRunsASession DEF TestIInv
<1> QED BY <1>1, <1>2, TestInvariantHolds, PTL DEF TestSpec, ManagerSpec

\* No test fails, however many actors it creates and however large its buffer is: an
\* index that a poll has seen still holds when the items are looked at, since by
\* then only actors of one kind were there, and stop() leaves nothing behind.
THEOREM TestsFindWhatTheyExpect ==
  ASSUME AsTested PROVE TestSpec => []ExpectationsHold
<1>1. TestIInv => ExpectationsHold
  BY DEF TestIInv, TestTypes, ExpectationsHold
<1> QED BY <1>1, TestInvariantHolds, PTL
=============================================================================
