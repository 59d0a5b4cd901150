-------------------------------- MODULE Shell --------------------------------
(***************************************************************************)
(* The shell of testApps/src/main.cpp: one thread that reads commands from *)
(* the standard input and calls IPC, whose calls are those of Session.     *)
(*                                                                         *)
(* An extraction that fails says so only in the state of the stream, which *)
(* the shell never looks at: what is not a number leaves 0 in input, what  *)
(* does not fit an int leaves the largest one, and at the end of the input *)
(* input keeps its value.  Every extraction after that fails as well and   *)
(* keeps it, too.                                                          *)
(***************************************************************************)
EXTENDS Integers, Session

CONSTANTS
  MaxThreads,  \* how many threads the system can give the process
  MaxTyped     \* bound on the commands typed before the 0 that quits

ASSUME ShellAssumption == MaxThreads \in Nat /\ MaxTyped \in Nat

VARIABLES
  pc,      \* where main() is
  input,   \* the last command read
  failed,  \* whether std::cin has failed
  left,    \* how many times the call of a command is still to be made
  typed    \* the commands read so far, those repeated at the end of input not
           \* counted

shellVars == <<sessionVars, pc, input, failed, left, typed>>

\* The numbers without a command are all one number.
NoCommand == 9

\* The cases of the switch: a call, for a crew, so many times.
Case(job, k, times) == [call |-> job, crew |-> k, times |-> times]
Cases(batch) ==
  <<Case("add", "producers", 1), Case("add", "consumers", 1),
    Case("remove", "producers", 1), Case("remove", "consumers", 1),
    Case("removeAll", "producers", 1), Case("removeAll", "consumers", 1),
    Case("add", "producers", batch), Case("add", "consumers", batch)>>

\* Mutant of Commands: for(size_t i = 0; i <= 5; ++i).
CommandsOffByOne == Cases(6)

Commands == Cases(5)

ShellInit ==
  /\ SessionInit
  /\ pc = "start"
  /\ input = -1
  /\ failed = FALSE
  /\ left = 0
  /\ typed = <<>>

-----------------------------------------------------------------------------

StartBuffer ==
  /\ pc = "start"
  /\ Open
  /\ pc' = "read"
  /\ UNCHANGED <<input, failed, left, typed>>

\* Mutant of Reading: while (true).
ReadingForever == pc = "read"

\* while (input != 0) std::cin >> input.
Reading == pc = "read" /\ input # 0

ReadCommand(n) ==
  /\ Reading /\ ~failed
  /\ n # 0 => Len(typed) < MaxTyped
  /\ input' = n
  /\ typed' = Append(typed, n)
  /\ pc' = "switch"
  /\ UNCHANGED <<sessionVars, failed, left>>

\* A word, or a number that is too large.
ReadGarbage(value) ==
  /\ Reading /\ ~failed
  /\ input' = value
  /\ failed' = TRUE
  /\ pc' = "switch"
  /\ UNCHANGED <<sessionVars, left, typed>>

ReadEnd ==
  /\ Reading /\ ~failed
  /\ failed' = TRUE
  /\ pc' = "switch"
  /\ UNCHANGED <<sessionVars, input, left, typed>>

ReadNothing ==
  /\ Reading /\ failed
  /\ pc' = "switch"
  /\ UNCHANGED <<sessionVars, input, failed, left, typed>>

Switch ==
  /\ pc = "switch"
  /\ IF input \in DOMAIN Commands
       THEN left' = Commands[input].times /\ pc' = "call"
       ELSE UNCHANGED left /\ pc' = "read"
  /\ UNCHANGED <<sessionVars, input, failed, typed>>

CallIPC(c) ==
  /\ pc = "call"
  /\ IF left > 0
       THEN /\ Make(c, Commands[input].call, {Commands[input].crew})
            /\ left' = left - 1
            /\ pc' = "wait"
       ELSE pc' = "read" /\ UNCHANGED <<sessionVars, left>>
  /\ UNCHANGED <<input, failed, typed>>

Crowd == Len(crew["producers"]) + Len(crew["consumers"])

\* The call does its work; adding needs a thread.
InCall(c) ==
  /\ pc = "wait"
  /\ \/ \E k \in Kinds :
          (Crowd < MaxThreads /\ Add(c, k)) \/ Remove(c, k) \/ RemoveAll(c, k)
     \/ Finish(c)
  /\ pc' = IF call'[c] = "none" THEN "call" ELSE "wait"
  /\ UNCHANGED <<input, failed, left, typed>>

\* Mutant of Uncaught: the loops of a batch catch the exception and go on.
UncaughtButInBatches(c) ==
  /\ pc = "wait"
  /\ AddFails(c)
  /\ pc' = IF Commands[input].times = 1 THEN "terminated" ELSE "call"
  /\ UNCHANGED <<input, failed, left, typed>>

\* Nobody catches what a failing addProducer throws.
Uncaught(c) ==
  /\ pc = "wait"
  /\ AddFails(c)
  /\ pc' = "terminated"
  /\ UNCHANGED <<input, failed, left, typed>>

\* After the loop.
Quit(c) ==
  /\ pc = "read" /\ input = 0
  /\ Make(c, "stop", Kinds \cup {"buffer"})
  /\ pc' = "stop"
  /\ UNCHANGED <<input, failed, left, typed>>

\* Mutant of Stopping: the items are deleted while stop() is under way.
StoppingEarly(c) ==
  /\ pc = "stop"
  /\ \/ \E k \in Kinds : RemoveAll(c, k)
     \/ Close(c)
  /\ pc' = "destroy"
  /\ UNCHANGED <<input, failed, left, typed>>

Stopping(c) ==
  /\ pc = "stop"
  /\ \/ (\E k \in Kinds : RemoveAll(c, k)) /\ UNCHANGED pc
     \/ Close(c) /\ pc' = "destroy"
  /\ UNCHANGED <<input, failed, left, typed>>

\* The items are deleted and main() returns.
DestroyBufferElements ==
  /\ pc = "destroy"
  /\ pc' = "returned"
  /\ UNCHANGED <<sessionVars, input, failed, left, typed>>

-----------------------------------------------------------------------------

ShellStep(c) ==
  \/ StartBuffer \/ ReadNothing \/ Switch \/ DestroyBufferElements
  \/ CallIPC(c) \/ InCall(c) \/ Uncaught(c) \/ Quit(c) \/ Stopping(c)

UserStep ==
  \/ \E n \in 0 .. NoCommand : ReadCommand(n)
  \/ \E value \in {0, NoCommand} : ReadGarbage(value)
  \/ ReadEnd

ShellNext ==
  \/ \E c \in Clients : ShellStep(c)
  \/ UserStep
  \/ pc \in {"terminated", "returned"} /\ UNCHANGED shellVars

\* The shell keeps running and the calls of IPC return (Manager's CallsReturn).
\* Nobody is obliged to type anything.
ShellSpec ==
  /\ ShellInit /\ [][ShellNext]_shellVars
  /\ \A c \in Clients : WF_shellVars(ShellStep(c))

-----------------------------------------------------------------------------

\* What the menu says a command does to a crew of a given size.
Menu(k, size, n) ==
  LET own(p, c) == n = IF k = "producers" THEN p ELSE c
  IN  CASE own(1, 2) -> size + 1
        [] own(3, 4) -> IF size > 0 THEN size - 1 ELSE 0
        [] own(5, 6) -> 0
        [] own(7, 8) -> size + 5
        [] OTHER -> size

\* The size of a crew after some commands, one after the other.
CarriedOut(k, commands) ==
  LET size[n \in 0 .. Len(commands)] ==
        IF n = 0 THEN 0 ELSE Menu(k, size[n - 1], commands[n])
  IN  size[Len(commands)]

\* When the shell asks for the next command, the crews are what the commands typed
\* so far make of them.
CrewsAsTyped ==
  pc = "read" /\ input # 0 /\ ~failed =>
    \A k \in Kinds : Len(crew[k]) = CarriedOut(k, typed)

\* The items are deleted when no actor can touch them any more: stop() has sent
\* both crews away and deleted the buffer before.
ItemsGoLast ==
  pc \in {"destroy", "returned"} =>
    life = "deleted" /\ \A k \in Kinds : crew[k] = <<>>

\* An exception in the middle of a batch ends the process there and then: the
\* commands before it are carried out in full, its own actors are added in part,
\* and the session is still open, so all of them still run.
DiesHalfway ==
  pc = "terminated" /\ ~failed =>
    LET before(k) == CarriedOut(k, SubSeq(typed, 1, Len(typed) - 1))
        after(k) == CarriedOut(k, typed)
    IN  /\ life = "live"
        /\ \A k \in Kinds : before(k) <= Len(crew[k]) /\ Len(crew[k]) <= after(k)
        /\ \E k \in Kinds : Len(crew[k]) < after(k)

\* A 0, or a word that reads as 0, ends the shell, whatever came before.
QuitEndsShell == input = 0 ~> pc = "returned"

-----------------------------------------------------------------------------
(* What the menu says, and the code does not do *)

\* "1: Add a producer." and so on: a command that was typed is carried out once,
\* so that nobody is added when there is nothing more to read.
NobodyUnasked ==
  [][failed => \A k \in Kinds : Len(crew'[k]) <= Len(crew[k])]_shellVars
=============================================================================
