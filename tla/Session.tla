------------------------------- MODULE Session -------------------------------
(***************************************************************************)
(* What IPC promises the threads that call it, from start() to stop(): two *)
(* crews of actors, oldest first, and calls that each take effect at one   *)
(* instant between being made and returning.  No list is locked here, no   *)
(* thread is joined, and no buffer is seen.                                *)
(*                                                                         *)
(* Manager implements this when stop() overlaps no other call; the shell,  *)
(* which calls IPC from one thread, is built on it (Shell).                *)
(***************************************************************************)
EXTENDS Sequences

CONSTANTS
  Producers,  \* what a producer in the crew may be
  Consumers,  \* what a consumer in the crew may be
  Clients     \* the threads that call IPC

VARIABLES
  life,  \* "none" before start(), "live", "deleted" after stop()
  crew,  \* the producers and the consumers that were added and not removed
  call,  \* the call each client is in
  due    \* what that call has still to deal with

sessionVars == <<life, crew, call, due>>

Kinds == {"producers", "consumers"}
Calls == {"add", "remove", "removeAll", "stop", "read"}
Pool(k) == IF k = "producers" THEN Producers ELSE Consumers

SessionInit ==
  /\ life = "none"
  /\ crew = [k \in Kinds |-> <<>>]
  /\ call = [c \in Clients |-> "none"]
  /\ due = [c \in Clients |-> {}]

-----------------------------------------------------------------------------

Open ==
  /\ life = "none"
  /\ life' = "live"
  /\ UNCHANGED <<crew, call, due>>

\* stop() has the session to itself; of the other calls one client may make one
\* while another client is in the middle of its own.
Make(c, j, work) ==
  /\ life = "live"
  /\ call[c] = "none"
  /\ \A d \in Clients : call[d] # "stop" /\ (j = "stop" => call[d] = "none")
  /\ call' = [call EXCEPT ![c] = j]
  /\ due' = [due EXCEPT ![c] = work]
  /\ UNCHANGED <<life, crew>>

\* The call returns.
Return(c) ==
  /\ call' = [call EXCEPT ![c] = "none"]
  /\ due' = [due EXCEPT ![c] = {}]

\* A new actor is the youngest of its crew.
Add(c, k) ==
  /\ call[c] = "add" /\ k \in due[c]
  /\ \E a \in Pool(k) : crew' = [crew EXCEPT ![k] = Append(@, a)]
  /\ Return(c)
  /\ UNCHANGED life

\* The actor could not be created: the call throws and adds nobody.
AddFails(c) ==
  /\ call[c] = "add"
  /\ Return(c)
  /\ UNCHANGED <<life, crew>>

\* The oldest leaves, if there is one.
Remove(c, k) ==
  /\ call[c] = "remove" /\ k \in due[c]
  /\ crew' = [crew EXCEPT ![k] = IF @ = <<>> THEN @ ELSE Tail(@)]
  /\ Return(c)
  /\ UNCHANGED life

\* A whole crew leaves at one instant: nobody is added to what is left of it.
\* stop() sends the producers away before the consumers.
RemoveAll(c, k) ==
  /\ call[c] \in {"removeAll", "stop"} /\ k \in due[c]
  /\ k = "consumers" => "producers" \notin due[c]
  /\ crew' = [crew EXCEPT ![k] = <<>>]
  /\ due' = [due EXCEPT ![c] = @ \ {k}]
  /\ UNCHANGED <<life, call>>

Close(c) ==
  /\ call[c] = "stop" /\ due[c] = {"buffer"}
  /\ life' = "deleted"
  /\ Return(c)
  /\ UNCHANGED crew

Finish(c) ==
  /\ call[c] \in {"removeAll", "read"} /\ due[c] = {}
  /\ Return(c)
  /\ UNCHANGED <<life, crew>>

-----------------------------------------------------------------------------

MakeAny(c) ==
  \/ \E j \in {"add", "remove", "removeAll"}, k \in Kinds : Make(c, j, {k})
  \/ Make(c, "read", {})
  \/ Make(c, "stop", Kinds \cup {"buffer"})

Work(c) ==
  \/ \E k \in Kinds : Add(c, k) \/ Remove(c, k) \/ RemoveAll(c, k)
  \/ AddFails(c) \/ Close(c) \/ Finish(c)

SessionNext == Open \/ \E c \in Clients : MakeAny(c) \/ Work(c)

SessionSpec == SessionInit /\ [][SessionNext]_sessionVars
=============================================================================
