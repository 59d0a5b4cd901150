----------------------------- MODULE ShellProofs -----------------------------
(***************************************************************************)
(* The safety of Shell for every number of commands, of threads and of     *)
(* actors: the commands are carried out one after the other as the menu    *)
(* says, and the items outlive everybody who uses them.                    *)
(***************************************************************************)
EXTENDS Shell, TLAPS, WellFoundedInduction

-----------------------------------------------------------------------------
(* What a list of commands makes of a crew *)

\* A set of natural numbers that is not empty has a least one.
LEMMA LeastNatural ==
  ASSUME NEW T \in SUBSET Nat, T # {}
  PROVE  \E m \in T : \A n \in T : m <= n
<1> DEFINE Less == {ss \in Nat \X Nat : ss[1] < ss[2]}
<1>1. IsWellFoundedOn(Less, Nat)
  BY NatLessThanWellFounded DEF OpToRel
<1>2. \E m \in T : \A n \in T : ~ (<<n, m>> \in Less)
  BY <1>1, WFMin, Zenon
<1>3. PICK m \in T : \A n \in T : ~ (<<n, m>> \in Less)
  BY <1>2
<1>4. ASSUME NEW n \in T PROVE m <= n
  <2>1. <<n, m>> \in Nat \X Nat /\ ~(<<n, m>> \in Less)
    BY <1>3
  <2>2. ~(<<n, m>>[1] < <<n, m>>[2])
    BY <2>1
  <2> QED BY <2>2
<1> QED BY <1>4

\* A set that holds 0 and the successor of what it holds is that of all natural
\* numbers: induction, over a set.
LEMMA SetInduction ==
  ASSUME NEW S \in SUBSET Nat, 0 \in S, \A n \in S : n + 1 \in S
  PROVE  S = Nat
<1> SUFFICES ASSUME Nat \ S # {} PROVE FALSE
  OBVIOUS
<1>1. PICK m \in Nat \ S : \A n \in Nat \ S : m <= n
  BY LeastNatural
<1> QED BY <1>1

\* The sizes of a crew after each of the commands.
Sizes(k, s, size) ==
  size = [n \in 0 .. Len(s) |-> IF n = 0 THEN 0 ELSE Menu(k, size[n - 1], s[n])]

\* Every command takes a size to a size.
LEMMA MenuIsASize ==
  ASSUME NEW k, NEW size \in Nat, NEW n PROVE Menu(k, size, n) \in Nat
BY DEF Menu

\* The first N of them.
Upto(k, s, N, size) ==
  /\ size[0] = 0
  /\ \A n \in 1 .. N : size[n] = Menu(k, size[n - 1], s[n])

\* There are such sizes.
LEMMA SizesExist ==
  ASSUME NEW k, NEW S, NEW s \in Seq(S)
  PROVE  \E size \in [0 .. Len(s) -> Nat] : Sizes(k, s, size)
<1> DEFINE Reached == {N \in Nat : \E f \in [0 .. N -> Nat] : Upto(k, s, N, f)}
<1>1. 0 \in Reached
  <2>1. Upto(k, s, 0, [n \in 0 .. 0 |-> 0])
    BY DEF Upto
  <2> QED BY <2>1
<1>2. ASSUME NEW N \in Reached PROVE N + 1 \in Reached
  <2>1. PICK f \in [0 .. N -> Nat] : Upto(k, s, N, f)
    OBVIOUS
  <2>2. N \in Nat
    OBVIOUS
  <2> DEFINE last == Menu(k, f[N], s[N + 1])
             next == [n \in 0 .. N + 1 |-> IF n <= N THEN f[n] ELSE last]
  <2>3. last \in Nat
    BY <2>2, MenuIsASize
  <2> HIDE DEF last
  <2>4. next \in [0 .. N + 1 -> Nat]
    BY <2>2, <2>3
  <2>5. next[N + 1] = last /\ \A n \in 0 .. N : next[n] = f[n]
    BY <2>2
  <2> HIDE DEF next
  <2>6. ASSUME NEW n \in 1 .. N + 1 PROVE next[n] = Menu(k, next[n - 1], s[n])
    <3>1. CASE n = N + 1
      <4>1. n - 1 = N /\ next[N] = f[N]
        BY <2>2, <2>5, <3>1
      <4> QED BY <2>5, <3>1, <4>1 DEF last
    <3>2. CASE n # N + 1
      <4>1. n \in 1 .. N /\ n - 1 \in 0 .. N /\ n \in 0 .. N
        BY <2>2, <3>2
      <4> QED BY <2>1, <2>5, <4>1 DEF Upto
    <3> QED BY <3>1, <3>2
  <2>7. next[0] = 0
    BY <2>1, <2>2, <2>5 DEF Upto
  <2>8. Upto(k, s, N + 1, next)
    BY <2>6, <2>7 DEF Upto
  <2> QED BY <2>2, <2>4, <2>8
<1>3. Len(s) \in Reached
  <2>1. Reached \in SUBSET Nat
    OBVIOUS
  <2> HIDE DEF Reached
  <2>2. Reached = Nat
    BY <1>1, <1>2, <2>1, SetInduction
  <2> QED BY <2>2
<1>4. PICK f \in [0 .. Len(s) -> Nat] : Upto(k, s, Len(s), f)
  BY <1>3
<1>5. Sizes(k, s, f)
  <2>1. \A n \in 0 .. Len(s) : f[n] = IF n = 0 THEN 0 ELSE Menu(k, f[n - 1], s[n])
    BY <1>4 DEF Upto
  <2> QED BY <2>1 DEF Sizes
<1> QED BY <1>5

\* The size after all the commands is the last of them.
LEMMA CarriedOutIsTheLast ==
  ASSUME NEW k, NEW S, NEW s \in Seq(S)
  PROVE  /\ CarriedOut(k, s) \in Nat
         /\ \E size : Sizes(k, s, size) /\ CarriedOut(k, s) = size[Len(s)]
<1> DEFINE size == CHOOSE f : Sizes(k, s, f)
<1>1. CarriedOut(k, s) = size[Len(s)]
  BY DEF CarriedOut, Sizes
<1>2. Sizes(k, s, size)
  BY SizesExist
<1> HIDE DEF size
<1>3. size[Len(s)] \in Nat
  <2>1. PICK f \in [0 .. Len(s) -> Nat] : Sizes(k, s, f)
    BY SizesExist
  <2> DEFINE Same == {n \in Nat : n <= Len(s) => size[n] = f[n]}
  <2>2. Same = Nat
    <3>1. Same \in SUBSET Nat /\ 0 \in Same
      BY <1>2, <2>1 DEF Sizes
    <3>2. ASSUME NEW n \in Same PROVE n + 1 \in Same
      <4>1. CASE n + 1 <= Len(s)
        <5>1. n + 1 \in 0 .. Len(s) /\ size[n] = f[n] /\ n + 1 # 0 /\ (n + 1) - 1 = n
          BY <4>1
        <5>2. size[n + 1] = Menu(k, size[n], s[n + 1])
          BY <1>2, <5>1 DEF Sizes
        <5>3. f[n + 1] = Menu(k, f[n], s[n + 1])
          BY <2>1, <5>1 DEF Sizes
        <5> QED BY <5>1, <5>2, <5>3
      <4> QED BY <4>1
    <3> HIDE DEF Same
    <3> QED BY <3>1, <3>2, SetInduction
  <2> QED BY <2>1, <2>2
<1> QED BY <1>1, <1>2, <1>3

\* No command leaves nobody in the crew; one more does to it what the menu says.
LEMMA CarriedOutStepwise ==
  ASSUME NEW k, NEW S, NEW s \in Seq(S)
  PROVE  /\ CarriedOut(k, <<>>) = 0
         /\ \A n \in S : CarriedOut(k, Append(s, n)) = Menu(k, CarriedOut(k, s), n)
<1>1. CarriedOut(k, <<>>) = 0
  <2>1. <<>> \in Seq(S) /\ Len(<<>>) = 0
    OBVIOUS
  <2>2. PICK size : Sizes(k, <<>>, size) /\ CarriedOut(k, <<>>) = size[Len(<<>>)]
    BY <2>1, CarriedOutIsTheLast
  <2> QED BY <2>1, <2>2 DEF Sizes
<1>2. ASSUME NEW n \in S
      PROVE  CarriedOut(k, Append(s, n)) = Menu(k, CarriedOut(k, s), n)
  <2> DEFINE t == Append(s, n)
  <2>1. /\ t \in Seq(S) /\ Len(t) = Len(s) + 1 /\ Len(s) \in Nat
        /\ \A i \in 1 .. Len(s) : t[i] = s[i]
        /\ t[Len(s) + 1] = n
    OBVIOUS
  <2> HIDE DEF t
  <2>2. PICK f : Sizes(k, s, f) /\ CarriedOut(k, s) = f[Len(s)]
    BY CarriedOutIsTheLast
  <2>3. PICK g : Sizes(k, t, g) /\ CarriedOut(k, t) = g[Len(t)]
    BY <2>1, CarriedOutIsTheLast
  <2> DEFINE Same == {i \in Nat : i <= Len(s) => f[i] = g[i]}
  <2>4. Same = Nat
    <3>1. Same \in SUBSET Nat /\ 0 \in Same
      BY <2>1, <2>2, <2>3 DEF Sizes
    <3>2. ASSUME NEW i \in Same PROVE i + 1 \in Same
      <4>1. CASE i + 1 <= Len(s)
        <5>1. /\ i + 1 \in 1 .. Len(s) /\ i + 1 \in 0 .. Len(s)
              /\ i + 1 \in 0 .. Len(t) /\ f[i] = g[i] /\ i + 1 # 0 /\ (i + 1) - 1 = i
          BY <2>1, <4>1
        <5>2. f[i + 1] = Menu(k, f[i], s[i + 1])
          BY <2>2, <5>1 DEF Sizes
        <5>3. g[i + 1] = Menu(k, g[i], t[i + 1])
          BY <2>3, <5>1 DEF Sizes
        <5> QED BY <2>1, <5>1, <5>2, <5>3
      <4> QED BY <4>1
    <3> HIDE DEF Same
    <3> QED BY <3>1, <3>2, SetInduction
  <2>5. f[Len(s)] = g[Len(s)]
    BY <2>1, <2>4
  <2>6. /\ Len(t) \in 0 .. Len(t) /\ Len(t) # 0 /\ Len(t) - 1 = Len(s)
        /\ t[Len(t)] = n
    BY <2>1
  <2>7. g[Len(t)] = Menu(k, g[Len(t) - 1], t[Len(t)])
    BY <2>3, <2>6 DEF Sizes
  <2> QED BY <2>2, <2>3, <2>5, <2>6, <2>7 DEF t
<1> QED BY <1>1, <1>2

-----------------------------------------------------------------------------
(* The commands *)

\* What a case of the switch does to the size of a crew.
Effect(case, k, size) ==
  IF case.crew # k THEN size
  ELSE CASE case.call = "add" -> size + case.times
         [] case.call = "remove" -> IF size > 0 THEN size - 1 ELSE 0
         [] OTHER -> 0

\* What the switch makes of a command is what the menu says of it.
LEMMA CommandsDoAsTheMenuSays ==
  ASSUME NEW n \in DOMAIN Commands
  PROVE  /\ Commands[n].crew \in Kinds
         /\ Commands[n].call \in {"add", "remove", "removeAll"}
         /\ Commands[n].times \in Nat
         /\ Commands[n].call # "add" => Commands[n].times = 1
         /\ \A k \in Kinds, size \in Nat :
              Menu(k, size, n) = Effect(Commands[n], k, size)
<1>1. n \in 1 .. 8
  BY DEF Commands, Cases
<1>2. /\ Commands[1] = Case("add", "producers", 1)
      /\ Commands[2] = Case("add", "consumers", 1)
      /\ Commands[3] = Case("remove", "producers", 1)
      /\ Commands[4] = Case("remove", "consumers", 1)
      /\ Commands[5] = Case("removeAll", "producers", 1)
      /\ Commands[6] = Case("removeAll", "consumers", 1)
      /\ Commands[7] = Case("add", "producers", 5)
      /\ Commands[8] = Case("add", "consumers", 5)
  BY DEF Commands, Cases
<1>3. ASSUME NEW size \in Nat
      PROVE  /\ Menu("producers", size, n) =
                  CASE n = 1 -> size + 1
                    [] n = 3 -> IF size > 0 THEN size - 1 ELSE 0
                    [] n = 5 -> 0
                    [] n = 7 -> size + 5
                    [] OTHER -> size
             /\ Menu("consumers", size, n) =
                  CASE n = 2 -> size + 1
                    [] n = 4 -> IF size > 0 THEN size - 1 ELSE 0
                    [] n = 6 -> 0
                    [] n = 8 -> size + 5
                    [] OTHER -> size
  BY DEF Menu
<1>4. CASE n = 1
  BY <1>2, <1>3, <1>4 DEF Case, Effect, Kinds
<1>5. CASE n = 2
  BY <1>2, <1>3, <1>5 DEF Case, Effect, Kinds
<1>6. CASE n = 3
  BY <1>2, <1>3, <1>6 DEF Case, Effect, Kinds
<1>7. CASE n = 4
  BY <1>2, <1>3, <1>7 DEF Case, Effect, Kinds
<1>8. CASE n = 5
  BY <1>2, <1>3, <1>8 DEF Case, Effect, Kinds
<1>9. CASE n = 6
  BY <1>2, <1>3, <1>9 DEF Case, Effect, Kinds
<1>10. CASE n = 7
  BY <1>2, <1>3, <1>10 DEF Case, Effect, Kinds
<1>11. CASE n = 8
  BY <1>2, <1>3, <1>11 DEF Case, Effect, Kinds
<1> QED BY <1>1, <1>4, <1>5, <1>6, <1>7, <1>8, <1>9, <1>10, <1>11

\* A number that is no command does nothing.
LEMMA OtherNumbersDoNothing ==
  ASSUME NEW n \in Int, n \notin DOMAIN Commands, NEW k \in Kinds, NEW size
  PROVE  Menu(k, size, n) = size
<1>1. DOMAIN Commands = 1 .. 8
  BY DEF Commands, Cases
<1> QED BY <1>1 DEF Menu

-----------------------------------------------------------------------------
(* The inductive invariant *)

Command == Commands[input]

\* The variables keep their types, the crews as far as their sizes go.
ShellTypes ==
  /\ pc \in {"start", "read", "switch", "call", "wait", "stop", "destroy",
             "returned", "terminated"}
  /\ input \in Int
  /\ failed \in BOOLEAN
  /\ left \in Nat
  /\ typed \in Seq(Int)
  /\ crew \in [Kinds -> Seq(Producers \cup Consumers)]
  /\ call \in [Clients -> Calls \cup {"none"}]
  /\ due \in [Clients -> SUBSET (Kinds \cup {"buffer"})]

\* The shell is in a call of IPC only while it waits for it to return, in one, and
\* it is the call that it made.
InItsCall ==
  /\ pc \in {"call", "wait"} => input \in DOMAIN Commands
  /\ pc \notin {"wait", "stop"} => \A c \in Clients : call[c] = "none"
  /\ pc \in {"wait", "stop"} =>
       \A c \in Clients :
         call[c] \in {"none", IF pc = "wait" THEN Command.call ELSE "stop"}
  /\ pc = "wait" =>
       \A c \in Clients : call[c] # "none" => due[c] \subseteq {Command.crew}
  /\ \A c, d \in Clients : call[c] # "none" /\ call[d] # "none" => c = d

\* stop() has sent away every crew that is not due any more, and nobody comes after
\* it.
SentAway ==
  /\ pc = "stop" =>
       \A c \in Clients, k \in Kinds :
         call[c] = "stop" /\ k \notin due[c] => crew[k] = <<>>
  /\ ItemsGoLast

\* What a crew will be when the call of the command has been made as often as it is
\* still to be made, and has taken its effect.
CrewToBe(k) ==
  LET size == Len(crew[k])
      made == pc = "wait"
  IN  IF Command.crew # k THEN size
      ELSE CASE Command.call = "add" -> size + left + (IF made THEN 1 ELSE 0)
             [] Command.call = "remove" ->
                  IF made \/ left = 1 THEN Effect(Command, k, size) ELSE size
             [] OTHER -> 0

\* What has been typed is carried out, or the rest of it is under way.
CarryingOut ==
  ~failed =>
    \A k \in Kinds :
      /\ pc \in {"start", "read"} => Len(crew[k]) = CarriedOut(k, typed)
      /\ pc = "switch" => Menu(k, Len(crew[k]), input) = CarriedOut(k, typed)
      /\ pc \in {"call", "wait"} => CrewToBe(k) = CarriedOut(k, typed)

\* A command to remove makes one call; one that removes a whole crew has done so
\* when nothing is due any more.
RemovesOnce ==
  pc \in {"call", "wait"} /\ Command.call # "add" =>
    /\ left <= 1 /\ (pc = "wait" => left = 0)
    /\ Command.call = "removeAll" =>
         /\ pc = "call" /\ left = 0 => crew[Command.crew] = <<>>
         /\ pc = "wait" =>
              \A c \in Clients :
                call[c] # "none" /\ Command.crew \notin due[c]
                  => crew[Command.crew] = <<>>

ShellIInv ==
  /\ ShellTypes
  /\ InItsCall
  /\ SentAway
  /\ CarryingOut
  /\ RemovesOnce

-----------------------------------------------------------------------------
(* Every step preserves it *)

\* Before start() the crews are empty, as nothing typed makes them.
LEMMA InitEstablishesShellIInv == ShellInit => ShellIInv
<1> SUFFICES ASSUME ShellInit PROVE ShellIInv
  OBVIOUS
<1>1. typed = <<>> /\ typed \in Seq(Int)
  BY DEF ShellInit
<1>2. \A k \in Kinds : CarriedOut(k, typed) = 0
  BY <1>1, CarriedOutStepwise
<1>3. \A k \in Kinds : crew[k] = <<>> /\ Len(crew[k]) = 0
  BY DEF ShellInit, SessionInit
<1>4. ShellTypes
  <2>1. <<>> \in Seq(Producers \cup Consumers)
    OBVIOUS
  <2>2. crew \in [Kinds -> Seq(Producers \cup Consumers)]
    BY <2>1 DEF ShellInit, SessionInit
  <2>3. input \in Int /\ left \in Nat
    BY DEF ShellInit
  <2> QED BY <1>1, <2>2, <2>3 DEF ShellInit, SessionInit, ShellTypes
<1>5. InItsCall /\ SentAway /\ RemovesOnce
  BY DEF ShellInit, SessionInit, InItsCall, SentAway, ItemsGoLast, RemovesOnce
<1>6. CarryingOut
  BY <1>2, <1>3 DEF ShellInit, CarryingOut
<1> QED BY <1>4, <1>5, <1>6 DEF ShellIInv

\* Every step keeps the types.
LEMMA StepPreservesShellTypes ==
  ASSUME ShellIInv, [ShellNext]_shellVars PROVE ShellTypes'
<1> USE DEF ShellIInv, ShellTypes
<1>1. ASSUME UNCHANGED <<typed, sessionVars>>,
             pc' = pc \/ pc' \in {"read", "switch", "call", "returned"},
             input' \in Int, failed' \in BOOLEAN, left' \in Nat
      PROVE  ShellTypes'
  BY <1>1 DEF sessionVars
<1>2. ASSUME StartBuffer PROVE ShellTypes'
  BY <1>2 DEF StartBuffer, Open
<1>3. ASSUME ReadNothing \/ DestroyBufferElements \/ ReadEnd PROVE ShellTypes'
  BY <1>1, <1>3 DEF ReadNothing, DestroyBufferElements, ReadEnd
<1>4. ASSUME Switch PROVE ShellTypes'
  BY <1>1, <1>4, CommandsDoAsTheMenuSays DEF Switch
<1>5. ASSUME NEW v \in {0, NoCommand}, ReadGarbage(v) PROVE ShellTypes'
  BY <1>1, <1>5 DEF ReadGarbage, NoCommand
<1>6. ASSUME NEW n \in 0 .. NoCommand, ReadCommand(n) PROVE ShellTypes'
  BY <1>6 DEF ReadCommand, sessionVars, NoCommand
<1>7. ASSUME NEW c \in Clients, NEW j \in Calls,
             NEW work \in SUBSET (Kinds \cup {"buffer"}), Make(c, j, work),
             UNCHANGED <<input, failed, typed>>, left' \in Nat, pc' \in {"wait", "stop"}
      PROVE  ShellTypes'
  BY <1>7 DEF Make
<1>8. ASSUME NEW c \in Clients, CallIPC(c) PROVE ShellTypes'
  <2>1. CASE left > 0
    <3>1. Command.call \in Calls /\ Command.crew \in Kinds
      BY <1>8, CommandsDoAsTheMenuSays DEF CallIPC, InItsCall, Command, Calls
    <3>2. /\ Make(c, Command.call, {Command.crew}) /\ UNCHANGED <<input, failed, typed>>
          /\ left' \in Nat /\ pc' = "wait"
      BY <1>8, <2>1 DEF CallIPC, Command
    <3> QED BY <1>7, <3>1, <3>2
  <2>2. CASE ~(left > 0)
    BY <1>1, <1>8, <2>2 DEF CallIPC
  <2> QED BY <2>1, <2>2
<1>9. ASSUME NEW c \in Clients, Quit(c) PROVE ShellTypes'
  BY <1>7, <1>9 DEF Quit, Calls
<1>10. ASSUME NEW c \in Clients, NEW k \in Kinds,
              Add(c, k) \/ Remove(c, k) \/ RemoveAll(c, k) \/ Finish(c)
                \/ AddFails(c) \/ Close(c),
              UNCHANGED <<input, failed, left, typed>>,
              pc' \in {"call", "wait", "terminated", "destroy", "stop"}
       PROVE  ShellTypes'
  <2>1. CASE Add(c, k)
    <3>1. PICK a \in Pool(k) : crew' = [crew EXCEPT ![k] = Append(@, a)]
      BY <2>1 DEF Add
    <3>2. Append(crew[k], a) \in Seq(Producers \cup Consumers)
      BY <3>1 DEF Pool
    <3>3. /\ call' = [call EXCEPT ![c] = "none"] /\ due' = [due EXCEPT ![c] = {}]
      BY <2>1 DEF Add, Return
    <3> QED BY <1>10, <3>1, <3>2, <3>3
  <2>2. CASE Remove(c, k)
    <3>1. crew[k] # <<>> => Tail(crew[k]) \in Seq(Producers \cup Consumers)
      OBVIOUS
    <3> QED BY <1>10, <2>2, <3>1 DEF Remove, Return
  <2>3. CASE RemoveAll(c, k)
    BY <1>10, <2>3 DEF RemoveAll
  <2>4. CASE Finish(c) \/ AddFails(c) \/ Close(c)
    BY <1>10, <2>4 DEF Finish, AddFails, Close, Return
  <2> QED BY <1>10, <2>1, <2>2, <2>3, <2>4
<1>11. ASSUME NEW c \in Clients, InCall(c) \/ Uncaught(c) \/ Stopping(c)
       PROVE  ShellTypes'
  BY <1>10, <1>11 DEF InCall, Uncaught, Stopping, Kinds
<1>12. CASE UNCHANGED shellVars
  BY <1>1, <1>12 DEF shellVars
<1> QED BY <1>2, <1>3, <1>4, <1>5, <1>6, <1>8, <1>9, <1>11, <1>12
        DEF ShellNext, ShellStep, UserStep

\* The shell stays in one call at a time, and stop() sends everybody away before
\* the items are deleted.
LEMMA StepPreservesTheCall ==
  ASSUME ShellIInv, [ShellNext]_shellVars PROVE InItsCall' /\ SentAway'
<1> USE DEF ShellIInv, ShellTypes, InItsCall, SentAway, ItemsGoLast, Kinds
<1>1. ASSUME UNCHANGED sessionVars, pc \notin {"wait", "stop"},
             pc' \in {"read", "switch"}
      PROVE  InItsCall' /\ SentAway'
  BY <1>1 DEF sessionVars
<1>2. ASSUME StartBuffer PROVE InItsCall' /\ SentAway'
  BY <1>2 DEF StartBuffer, Open
<1>3. ASSUME \/ ReadNothing \/ ReadEnd
             \/ \E n \in 0 .. NoCommand : ReadCommand(n)
             \/ \E v \in {0, NoCommand} : ReadGarbage(v)
      PROVE  InItsCall' /\ SentAway'
  BY <1>1, <1>3 DEF ReadNothing, ReadEnd, ReadCommand, ReadGarbage, Reading
<1>4. ASSUME Switch PROVE InItsCall' /\ SentAway'
  BY <1>4 DEF Switch, sessionVars
<1>5. ASSUME DestroyBufferElements PROVE InItsCall' /\ SentAway'
  BY <1>5 DEF DestroyBufferElements, sessionVars
<1>6. ASSUME NEW c \in Clients, CallIPC(c) PROVE InItsCall' /\ SentAway'
  <2>1. CASE left > 0
    <3>1. /\ pc = "call" /\ pc' = "wait" /\ UNCHANGED <<input, life, crew>>
          /\ call' = [call EXCEPT ![c] = Command.call]
          /\ due' = [due EXCEPT ![c] = {Command.crew}]
      BY <1>6, <2>1 DEF CallIPC, Make, Command
    <3>2. Command' = Command
      BY <3>1 DEF Command
    <3>3. \A d \in Clients \ {c} : call'[d] = "none"
      BY <3>1
    <3>4. call'[c] = Command.call /\ due'[c] = {Command.crew}
      BY <3>1
    <3>5. InItsCall'
      BY <3>1, <3>2, <3>3, <3>4
    <3> QED BY <3>1, <3>5
  <2>2. CASE ~(left > 0)
    BY <1>1, <1>6, <2>2 DEF CallIPC
  <2> QED BY <2>1, <2>2
<1>7. ASSUME NEW c \in Clients, InCall(c) PROVE InItsCall' /\ SentAway'
  <2>1. /\ pc = "wait" /\ pc' = IF call'[c] = "none" THEN "call" ELSE "wait"
        /\ UNCHANGED input
    BY <1>7 DEF InCall
  <2>2. /\ call[c] # "none"
        /\ \/ call' = [call EXCEPT ![c] = "none"] /\ due' = [due EXCEPT ![c] = {}]
           \/ call' = call /\ \E k \in Kinds : due' = [due EXCEPT ![c] = @ \ {k}]
    BY <1>7 DEF InCall, Add, Remove, RemoveAll, Finish, Return
  <2>3. Command' = Command
    BY <2>1 DEF Command
  <2>4. \A d \in Clients \ {c} : call[d] = "none" /\ call'[d] = "none"
    BY <2>2
  <2>5. due'[c] \subseteq due[c]
    BY <2>2
  <2>6. InItsCall'
    BY <2>1, <2>2, <2>3, <2>4, <2>5
  <2> QED BY <2>1, <2>6
<1>8. ASSUME NEW c \in Clients, Uncaught(c) PROVE InItsCall' /\ SentAway'
  BY <1>8 DEF Uncaught, AddFails, Return
<1>9. ASSUME NEW c \in Clients, Quit(c) PROVE InItsCall' /\ SentAway'
  BY <1>9 DEF Quit, Make
<1>10. ASSUME NEW c \in Clients, NEW k \in Kinds, pc = "stop", pc' = "stop",
              RemoveAll(c, k), UNCHANGED input
       PROVE  InItsCall' /\ SentAway'
  <2>1. /\ call[c] = "stop" /\ k \in due[c] /\ call' = call
        /\ crew' = [crew EXCEPT ![k] = <<>>] /\ due' = [due EXCEPT ![c] = @ \ {k}]
    BY <1>10 DEF RemoveAll
  <2>2. InItsCall'
    BY <1>10, <2>1
  <2>3. ASSUME NEW d \in Clients, call'[d] = "stop", NEW n \in Kinds, n \notin due'[d]
        PROVE  crew'[n] = <<>>
    BY <1>10, <2>1, <2>3
  <2> QED BY <1>10, <2>2, <2>3
<1>11. ASSUME NEW c \in Clients, pc = "stop", pc' = "destroy", Close(c)
       PROVE  InItsCall' /\ SentAway'
  <2>1. /\ call[c] = "stop" /\ due[c] = {"buffer"} /\ life' = "deleted"
        /\ call' = [call EXCEPT ![c] = "none"] /\ crew' = crew
    BY <1>11 DEF Close, Return
  <2> QED BY <1>11, <2>1
<1>12. CASE UNCHANGED shellVars
  <2>1. UNCHANGED <<pc, input, left, life, crew, call, due>>
    BY <1>12 DEF shellVars, sessionVars
  <2> QED BY <2>1 DEF Command
<1> QED BY <1>2, <1>3, <1>4, <1>5, <1>6, <1>7, <1>8, <1>9, <1>10, <1>11, <1>12
        DEF ShellNext, ShellStep, UserStep, Stopping

\* The size of a crew when somebody comes, or the oldest leaves.
LEMMA CrewSizes ==
  ASSUME ShellTypes, NEW k \in Kinds
  PROVE  /\ Len(crew[k]) \in Nat
         /\ Len(crew[k]) = 0 <=> crew[k] = <<>>
         /\ \A a : Len(Append(crew[k], a)) = Len(crew[k]) + 1
         /\ crew[k] # <<>> => Len(Tail(crew[k])) = Len(crew[k]) - 1
BY DEF ShellTypes

\* A call that is under way brings its crew to the size it is to have.
LEMMA CallCarriesOut ==
  ASSUME ShellIInv, ShellTypes', NEW c \in Clients, InCall(c)
  PROVE  CarryingOut' /\ RemovesOnce'
<1> USE DEF ShellIInv, Kinds
<1>1. /\ pc = "wait" /\ pc' = IF call'[c] = "none" THEN "call" ELSE "wait"
      /\ input \in DOMAIN Commands /\ UNCHANGED <<input, failed, left, typed>>
      /\ Command' = Command /\ call[c] = Command.call /\ due[c] \subseteq {Command.crew}
      /\ \A d \in Clients \ {c} : call[d] = "none"
  <2>1. call[c] # "none"
    BY DEF InCall, Add, Remove, RemoveAll, Finish
  <2> QED BY <2>1 DEF InCall, InItsCall, Command
<1>2. /\ Command.crew \in Kinds /\ Command.call \in {"add", "remove", "removeAll"}
      /\ left \in Nat
      /\ Command.call # "add" => left = 0
  BY <1>1, CommandsDoAsTheMenuSays DEF Command, RemovesOnce, ShellTypes
<1>3. ASSUME NEW n \in Kinds PROVE Len(crew[n]) \in Nat /\ Len(crew'[n]) \in Nat
  BY <1>3 DEF ShellTypes
<1>4. ASSUME NEW k \in Kinds, k = Command.crew, Command.call = "add", Add(c, k)
      PROVE  CarryingOut' /\ RemovesOnce'
  <2>1. /\ \E a : crew' = [crew EXCEPT ![k] = Append(@, a)]
        /\ call' = [call EXCEPT ![c] = "none"] /\ pc' = "call"
    BY <1>1, <1>4 DEF Add, Return, ShellTypes
  <2>2. /\ Len(crew'[k]) = Len(crew[k]) + 1
        /\ \A n \in Kinds \ {k} : Len(crew'[n]) = Len(crew[n])
    BY <2>1, CrewSizes DEF ShellTypes
  <2>3. CrewToBe(k) = Len(crew[k]) + left + 1
    BY <1>1, <1>4 DEF CrewToBe
  <2>4. CrewToBe(k)' = Len(crew[k]) + 1 + left + 0
    BY <1>1, <1>4, <2>1, <2>2 DEF CrewToBe
  <2>5. \A n \in Kinds \ {k} : CrewToBe(n)' = CrewToBe(n)
    BY <1>1, <1>4, <2>2 DEF CrewToBe
  <2>6. \A n \in Kinds : CrewToBe(n)' = CrewToBe(n)
    <3>1. CrewToBe(k)' = CrewToBe(k)
      BY <1>2, <1>3, <2>3, <2>4
    <3> QED BY <2>5, <3>1
  <2> QED BY <1>1, <1>4, <2>1, <2>6 DEF CarryingOut, RemovesOnce
<1>5. ASSUME NEW k \in Kinds, k = Command.crew, Command.call = "remove", Remove(c, k)
      PROVE  CarryingOut' /\ RemovesOnce'
  <2>1. /\ crew' = [crew EXCEPT ![k] = IF @ = <<>> THEN @ ELSE Tail(@)]
        /\ call' = [call EXCEPT ![c] = "none"] /\ pc' = "call"
    BY <1>1, <1>5 DEF Remove, Return, ShellTypes
  <2>2. /\ Len(crew'[k]) = IF Len(crew[k]) > 0 THEN Len(crew[k]) - 1 ELSE 0
        /\ \A n \in Kinds \ {k} : Len(crew'[n]) = Len(crew[n])
    BY <2>1, <1>3, CrewSizes DEF ShellTypes
  <2>3. \A n \in Kinds : CrewToBe(n)' = CrewToBe(n)
    BY <1>1, <1>2, <1>3, <1>5, <2>1, <2>2 DEF CrewToBe, Effect
  <2> QED BY <1>1, <1>2, <1>5, <2>1, <2>3 DEF CarryingOut, RemovesOnce
<1>6. ASSUME NEW k \in Kinds, k = Command.crew, Command.call = "removeAll",
             RemoveAll(c, k)
      PROVE  CarryingOut' /\ RemovesOnce'
  <2>1. crew' = [crew EXCEPT ![k] = <<>>] /\ call' = call /\ pc' = "wait"
    BY <1>1, <1>6 DEF RemoveAll
  <2>2. crew'[k] = <<>> /\ \A n \in Kinds \ {k} : Len(crew'[n]) = Len(crew[n])
    BY <2>1 DEF ShellTypes
  <2>3. \A n \in Kinds : CrewToBe(n)' = CrewToBe(n)
    BY <1>1, <1>2, <1>3, <1>6, <2>1, <2>2 DEF CrewToBe
  <2> QED BY <1>1, <1>2, <1>6, <2>1, <2>2, <2>3 DEF CarryingOut, RemovesOnce
<1>7. ASSUME Command.call = "removeAll", Finish(c)
      PROVE  CarryingOut' /\ RemovesOnce'
  <2>1. crew' = crew /\ due[c] = {} /\ pc' = "call"
    BY <1>1, <1>7 DEF Finish, Return, ShellTypes
  <2>2. crew[Command.crew] = <<>>
    BY <1>1, <1>7, <2>1 DEF RemovesOnce
  <2>3. \A n \in Kinds : CrewToBe(n)' = CrewToBe(n)
    BY <1>1, <1>2, <1>7, <2>1 DEF CrewToBe
  <2> QED BY <1>1, <1>2, <1>7, <2>1, <2>2, <2>3 DEF CarryingOut, RemovesOnce
<1>8. \/ \E k \in Kinds : Add(c, k) \/ Remove(c, k) \/ RemoveAll(c, k)
      \/ Finish(c)
  BY DEF InCall
<1> QED BY <1>1, <1>2, <1>4, <1>5, <1>6, <1>7, <1>8
        DEF Add, Remove, RemoveAll, Finish

\* Whatever the shell does, what was typed is carried out or under way.
LEMMA StepPreservesCarryingOut ==
  ASSUME ShellIInv, ShellTypes', [ShellNext]_shellVars
  PROVE  CarryingOut' /\ RemovesOnce'
<1> USE DEF ShellIInv, Kinds
<1>0. /\ \A n \in Kinds : Len(crew[n]) \in Nat
      /\ left \in Nat /\ typed \in Seq(Int)
  BY DEF ShellTypes
<1>1. ASSUME StartBuffer PROVE CarryingOut' /\ RemovesOnce'
  BY <1>1 DEF StartBuffer, Open, CarryingOut, RemovesOnce
<1>2. ASSUME NEW n \in 0 .. NoCommand, ReadCommand(n)
      PROVE  CarryingOut' /\ RemovesOnce'
  <2>1. /\ pc = "read" /\ pc' = "switch" /\ ~failed /\ crew' = crew
        /\ input' = n /\ typed' = Append(typed, n)
    BY <1>2 DEF ReadCommand, Reading, sessionVars
  <2>2. n \in Int
    BY DEF NoCommand
  <2>3. \A k \in Kinds : CarriedOut(k, typed)' = Menu(k, CarriedOut(k, typed), n)
    BY <1>0, <2>1, <2>2, CarriedOutStepwise
  <2> QED BY <2>1, <2>3 DEF CarryingOut, RemovesOnce
<1>3. ASSUME \/ ReadNothing \/ ReadEnd
             \/ \E v \in {0, NoCommand} : ReadGarbage(v)
      PROVE  CarryingOut' /\ RemovesOnce'
  <2>1. failed' /\ pc' = "switch"
    BY <1>3 DEF ReadNothing, Reading, ReadEnd, ReadGarbage
  <2> QED BY <2>1 DEF CarryingOut, RemovesOnce
<1>4. ASSUME Switch, input \in DOMAIN Commands PROVE CarryingOut' /\ RemovesOnce'
  <2>1. /\ pc = "switch" /\ pc' = "call" /\ left' = Command.times
        /\ UNCHANGED <<crew, input, failed, typed>>
    BY <1>4 DEF Switch, sessionVars, Command
  <2>2. /\ Command' = Command
        /\ Command.crew \in Kinds /\ Command.call \in {"add", "remove", "removeAll"}
        /\ Command.times \in Nat
        /\ Command.call # "add" => Command.times = 1
        /\ \A k \in Kinds, size \in Nat :
             Menu(k, size, input) = Effect(Command, k, size)
    BY <1>4, <2>1, CommandsDoAsTheMenuSays DEF Command
  <2>3. ASSUME NEW k \in Kinds PROVE CrewToBe(k)' = Menu(k, Len(crew[k]), input)
    BY <1>0, <2>1, <2>2 DEF CrewToBe, Effect
  <2> QED BY <2>1, <2>2, <2>3 DEF CarryingOut, RemovesOnce
<1>5. ASSUME Switch, input \notin DOMAIN Commands PROVE CarryingOut' /\ RemovesOnce'
  <2>1. /\ pc = "switch" /\ pc' = "read" /\ UNCHANGED <<crew, input, failed, typed>>
    BY <1>5 DEF Switch, sessionVars
  <2>2. \A k \in Kinds : Menu(k, Len(crew[k]), input) = Len(crew[k])
    BY <1>5, OtherNumbersDoNothing DEF ShellTypes
  <2> QED BY <2>1, <2>2 DEF CarryingOut, RemovesOnce
<1>6. ASSUME NEW c \in Clients, CallIPC(c) PROVE CarryingOut' /\ RemovesOnce'
  <2>0. /\ pc = "call" /\ UNCHANGED <<crew, input, failed, typed>>
        /\ Command' = Command /\ input \in DOMAIN Commands
        /\ Command.call \in {"add", "remove", "removeAll"}
    BY <1>6, CommandsDoAsTheMenuSays
    DEF CallIPC, Make, Command, sessionVars, InItsCall
  <2>1. CASE left > 0
    <3>1. /\ pc' = "wait" /\ left' = left - 1
          /\ call' = [call EXCEPT ![c] = Command.call]
          /\ due' = [due EXCEPT ![c] = {Command.crew}]
      BY <1>6, <2>1 DEF CallIPC, Make, Command
    <3>2. Command.call # "add" => left = 1 /\ left' = 0
      BY <1>0, <2>0, <2>1, <3>1 DEF RemovesOnce
    <3>3. \A k \in Kinds : CrewToBe(k)' = CrewToBe(k)
      BY <1>0, <2>0, <3>1, <3>2 DEF CrewToBe
    <3>4. \A d \in Clients : call'[d] # "none" => due'[d] = {Command.crew}
      BY <2>0, <3>1 DEF InItsCall, ShellTypes
    <3> QED BY <2>0, <3>1, <3>2, <3>3, <3>4 DEF CarryingOut, RemovesOnce
  <2>2. CASE ~(left > 0)
    <3>1. pc' = "read" /\ left = 0
      BY <1>0, <1>6, <2>2 DEF CallIPC
    <3>2. ASSUME NEW k \in Kinds PROVE CrewToBe(k) = Len(crew[k])
      <4>1. Command.call = "removeAll" /\ Command.crew = k => Len(crew[k]) = 0
        BY <2>0, <3>1 DEF RemovesOnce
      <4> QED BY <1>0, <2>0, <3>1, <4>1 DEF CrewToBe
    <3> QED BY <2>0, <3>1, <3>2 DEF CarryingOut, RemovesOnce
  <2> QED BY <2>1, <2>2
<1>7. ASSUME pc' \notin {"start", "read", "switch", "call", "wait"}
      PROVE  CarryingOut' /\ RemovesOnce'
  BY <1>7 DEF CarryingOut, RemovesOnce
<1>8. ASSUME NEW c \in Clients, Uncaught(c) \/ Quit(c) \/ Stopping(c)
      PROVE  CarryingOut' /\ RemovesOnce'
  BY <1>7, <1>8 DEF Uncaught, Quit, Stopping
<1>9. ASSUME DestroyBufferElements PROVE CarryingOut' /\ RemovesOnce'
  BY <1>7, <1>9 DEF DestroyBufferElements
<1>10. CASE UNCHANGED shellVars
  <2>1. UNCHANGED <<pc, input, failed, left, typed, crew, call, due>>
    BY <1>10 DEF shellVars, sessionVars
  <2> QED BY <2>1 DEF CarryingOut, RemovesOnce, CrewToBe, Command
<1> QED BY <1>1, <1>2, <1>3, <1>4, <1>5, <1>6, <1>8, <1>9, <1>10, CallCarriesOut
        DEF ShellNext, ShellStep, UserStep

\* The invariant holds in every state of the shell.
LEMMA ShellIInvHolds == ShellSpec => []ShellIInv
<1>1. ShellIInv /\ [ShellNext]_shellVars => ShellIInv'
  BY StepPreservesShellTypes, StepPreservesTheCall, StepPreservesCarryingOut
  DEF ShellIInv
<1> QED BY <1>1, InitEstablishesShellIInv, PTL DEF ShellSpec

-----------------------------------------------------------------------------
(* A batch that is cut short *)

\* A call that has been made and has not returned is not counted in left any more.
Made == IF pc = "wait" THEN 1 ELSE 0

\* A batch is made of no more calls than the switch says, for the command that was
\* typed last, and in an open session.
InABatch ==
  /\ pc \in {"read", "switch", "call", "wait", "terminated"} => life = "live"
  /\ pc \in {"switch", "call", "wait"} /\ ~failed =>
       typed # <<>> /\ typed[Len(typed)] = input
  /\ pc \in {"call", "wait"} => left + Made <= Command.times

\* A list that is not empty is its front and its last element.
LEMMA FrontAndLast ==
  ASSUME NEW S, NEW s \in Seq(S), s # <<>>
  PROVE  /\ SubSeq(s, 1, Len(s) - 1) \in Seq(S)
         /\ s[Len(s)] \in S
         /\ s = Append(SubSeq(s, 1, Len(s) - 1), s[Len(s)])
OBVIOUS

\* A crew that lacks the calls of a batch that are left, and one more.
LEMMA PartOfABatch ==
  ASSUME NEW before \in Nat, NEW size \in Nat, NEW times \in Nat, NEW rest \in Nat,
         NEW after, after = before + times, after = size + (rest + 1),
         rest + 1 <= times
  PROVE  before <= size /\ size < after /\ size <= after
OBVIOUS

\* When adding fails, what the last command has added is there, and what it has
\* still to add is not.
LEMMA FailureLeavesHalf ==
  ASSUME ShellIInv, InABatch, NEW c \in Clients, Uncaught(c)
  PROVE  DiesHalfway'
<1> USE DEF ShellIInv, Kinds
<1> SUFFICES ASSUME ~failed' PROVE DiesHalfway'
  BY DEF DiesHalfway
<1> DEFINE before == SubSeq(typed, 1, Len(typed) - 1)
<1>1. /\ pc = "wait" /\ call[c] = "add" /\ ~failed
      /\ UNCHANGED <<input, failed, left, typed, life, crew>>
  BY DEF Uncaught, AddFails
<1>2. input \in DOMAIN Commands /\ Command.call = "add"
  BY <1>1 DEF InItsCall
<1>3. /\ life = "live" /\ typed # <<>> /\ typed[Len(typed)] = input
      /\ left + 1 <= Command.times
  BY <1>1 DEF InABatch, Made
<1>4. /\ Command.crew \in Kinds /\ Command.times \in Nat /\ left \in Nat
      /\ \A k \in Kinds, size \in Nat :
           Menu(k, size, input) = Effect(Command, k, size)
  BY <1>2, CommandsDoAsTheMenuSays DEF Command, ShellTypes
<1>5. ASSUME NEW k \in Kinds
      PROVE  /\ CarriedOut(k, before) \in Nat
             /\ CarriedOut(k, typed) =
                  CarriedOut(k, before) + IF k = Command.crew THEN Command.times ELSE 0
  <2>1. before \in Seq(Int) /\ input \in Int /\ typed = Append(before, input)
    BY <1>3, FrontAndLast DEF ShellTypes
  <2>2. CarriedOut(k, before) \in Nat
    BY <2>1, CarriedOutIsTheLast
  <2>3. CarriedOut(k, typed) = Menu(k, CarriedOut(k, before), input)
    BY <2>1, CarriedOutStepwise
  <2> HIDE DEF before
  <2>4. CarriedOut(k, typed) = Effect(Command, k, CarriedOut(k, before))
    BY <1>4, <2>2, <2>3
  <2> QED BY <1>2, <1>4, <2>2, <2>4 DEF Effect
<1>6. ASSUME NEW k \in Kinds
      PROVE  /\ Len(crew[k]) \in Nat
             /\ CarriedOut(k, typed) =
                  Len(crew[k]) + IF k = Command.crew THEN left + 1 ELSE 0
  <2>1. Len(crew[k]) \in Nat
    BY DEF ShellTypes
  <2>2. CarriedOut(k, typed) = CrewToBe(k)
    BY <1>1 DEF CarryingOut
  <2> QED BY <1>1, <1>2, <1>4, <2>1, <2>2 DEF CrewToBe
<1> HIDE DEF before
<1>7. ASSUME NEW k \in Kinds
      PROVE  /\ CarriedOut(k, before) <= Len(crew[k])
             /\ Len(crew[k]) <= CarriedOut(k, typed)
             /\ k = Command.crew => Len(crew[k]) < CarriedOut(k, typed)
  <2>1. CASE k = Command.crew
    <3>1. /\ CarriedOut(k, typed) = CarriedOut(k, before) + Command.times
          /\ CarriedOut(k, typed) = Len(crew[k]) + (left + 1)
          /\ CarriedOut(k, before) \in Nat /\ Len(crew[k]) \in Nat
      BY <1>5, <1>6, <2>1
    <3>2. left \in Nat /\ Command.times \in Nat /\ left + 1 <= Command.times
      BY <1>3, <1>4
    <3> QED BY <3>1, <3>2, PartOfABatch
  <2>2. CASE k # Command.crew
    BY <1>5, <1>6, <2>2
  <2> QED BY <2>1, <2>2
<1> QED BY <1>1, <1>3, <1>4, <1>7 DEF DiesHalfway, before

\* Every step keeps the batch, and the process dies of a failing add only.
LEMMA StepPreservesTheBatch ==
  ASSUME ShellIInv, InABatch, DiesHalfway, [ShellNext]_shellVars
  PROVE  InABatch' /\ DiesHalfway'
<1> USE DEF ShellIInv, InABatch, Made
<1>1. ASSUME pc' # "terminated" PROVE DiesHalfway'
  BY <1>1 DEF DiesHalfway
<1>2. ASSUME StartBuffer PROVE InABatch' /\ DiesHalfway'
  BY <1>1, <1>2 DEF StartBuffer, Open
<1>3. ASSUME NEW n \in 0 .. NoCommand, ReadCommand(n) PROVE InABatch' /\ DiesHalfway'
  <2>1. /\ pc = "read" /\ pc' = "switch" /\ input' = n
        /\ typed' = Append(typed, n) /\ life' = life
    BY <1>3 DEF ReadCommand, Reading, sessionVars
  <2>2. typed' # <<>> /\ typed'[Len(typed')] = n
    BY <2>1 DEF ShellTypes
  <2> QED BY <1>1, <2>1, <2>2
<1>4. ASSUME ReadNothing \/ ReadEnd \/ \E v \in {0, NoCommand} : ReadGarbage(v)
      PROVE  InABatch' /\ DiesHalfway'
  <2>1. pc = "read" /\ pc' = "switch" /\ failed' /\ life' = life
    BY <1>4 DEF ReadNothing, ReadEnd, ReadGarbage, Reading, sessionVars
  <2> QED BY <1>1, <2>1
<1>5. ASSUME Switch PROVE InABatch' /\ DiesHalfway'
  <2>1. /\ pc = "switch" /\ life' = life /\ UNCHANGED <<input, failed, typed>>
        /\ pc' = "read" \/ (pc' = "call" /\ left' = Command.times)
    BY <1>5 DEF Switch, sessionVars, Command
  <2>2. Command' = Command
    BY <2>1 DEF Command
  <2>3. pc' = "call" => Command.times \in Nat
    BY <1>5, CommandsDoAsTheMenuSays DEF Switch, Command
  <2> QED BY <1>1, <2>1, <2>2, <2>3
<1>6. ASSUME NEW c \in Clients, CallIPC(c) PROVE InABatch' /\ DiesHalfway'
  <2>1. /\ pc = "call" /\ life' = life /\ UNCHANGED <<input, failed, typed>>
        /\ pc' = "read" \/ (pc' = "wait" /\ left' = left - 1)
    BY <1>6 DEF CallIPC, Make, sessionVars
  <2>2. Command' = Command /\ left \in Nat /\ Command.times \in Nat
    BY <2>1, CommandsDoAsTheMenuSays DEF Command, ShellTypes, InItsCall
  <2> QED BY <1>1, <2>1, <2>2
<1>7. ASSUME NEW c \in Clients, InCall(c) PROVE InABatch' /\ DiesHalfway'
  <2>1. /\ pc = "wait" /\ pc' \in {"call", "wait"} /\ life' = life
        /\ UNCHANGED <<input, failed, left, typed>>
    BY <1>7 DEF InCall, Add, Remove, RemoveAll, Finish
  <2>2. Command' = Command /\ left \in Nat /\ Command.times \in Nat
    BY <2>1, CommandsDoAsTheMenuSays DEF Command, ShellTypes, InItsCall
  <2> QED BY <1>1, <2>1, <2>2
<1>8. ASSUME NEW c \in Clients, Uncaught(c) PROVE InABatch' /\ DiesHalfway'
  <2>1. pc = "wait" /\ pc' = "terminated" /\ life' = life
    BY <1>8 DEF Uncaught, AddFails
  <2> QED BY <1>8, <2>1, FailureLeavesHalf
<1>9. ASSUME NEW c \in Clients, Quit(c) \/ Stopping(c) \/ DestroyBufferElements
      PROVE  InABatch' /\ DiesHalfway'
  <2>1. pc' \in {"stop", "destroy", "returned"}
    BY <1>9 DEF Quit, Stopping, DestroyBufferElements
  <2> QED BY <1>1, <2>1
<1>10. CASE UNCHANGED shellVars
  <2>1. UNCHANGED <<pc, input, failed, left, typed, life, crew>>
    BY <1>10 DEF shellVars, sessionVars
  <2> QED BY <2>1 DEF Command, DiesHalfway
<1> QED BY <1>2, <1>3, <1>4, <1>5, <1>6, <1>7, <1>8, <1>9, <1>10
        DEF ShellNext, ShellStep, UserStep

-----------------------------------------------------------------------------
(* The theorems *)

\* When the shell asks for the next command, the crews are what the commands typed so
\* far make of them as the menu says, however many they were, unless a read failed.
THEOREM CommandsAreCarriedOut == ShellSpec => []CrewsAsTyped
<1>1. ShellIInv => CrewsAsTyped
  BY DEF ShellIInv, CarryingOut, CrewsAsTyped
<1> QED BY <1>1, ShellIInvHolds, PTL

\* When an exception ends the process, nothing is undone: the commands before it are
\* carried out, its own in part, and the session is open, whatever the batch was.
THEOREM FailureEndsHalfway == ShellSpec => []DiesHalfway
<1>1. ShellInit => InABatch /\ DiesHalfway
  BY DEF ShellInit, InABatch, DiesHalfway
<1>2. ShellIInv /\ InABatch /\ DiesHalfway /\ [ShellNext]_shellVars
        => InABatch' /\ DiesHalfway'
  BY StepPreservesTheBatch
<1> QED BY <1>1, <1>2, ShellIInvHolds, PTL DEF ShellSpec

\* main() deletes the items after stop() has sent every actor away and deleted the
\* buffer, whatever was typed and whatever reading it failed at.
THEOREM ItemsOutliveTheirUsers == ShellSpec => []ItemsGoLast
<1>1. ShellIInv => ItemsGoLast
  BY DEF ShellIInv, SentAway
<1> QED BY <1>1, ShellIInvHolds, PTL
=============================================================================
