---------------------------- MODULE BoundedBuffer ----------------------------
(***************************************************************************)
(* What a shared buffer promises to its callers, whatever lock, condition  *)
(* variable or index it is built from: a producer fills one empty slot, a  *)
(* consumer empties one filled slot, and a caller may be held back only    *)
(* while the buffer has nothing for it.  Every operation is one step.      *)
(* SharedBuffer implements this specification (SharedBuffer!Promise).      *)
(***************************************************************************)
CONSTANTS
  Producers,  \* the producer objects
  Consumers,  \* the consumer objects
  Slots       \* the places of the buffer

VARIABLES
  filled,     \* the slots that hold an item
  closed,     \* the buffer was told to stop
  dismissed,  \* the actors that were told to stop
  blocked     \* the actors held back inside a call

abstractVars == <<filled, closed, dismissed, blocked>>

Actors == Producers \cup Consumers

\* The buffer has a slot (an item) for this producer (consumer).
CanServe(a) ==
  \/ a \in Producers /\ filled # Slots
  \/ a \in Consumers /\ filled # {}

Init ==
  /\ filled \in SUBSET Slots
  /\ closed = FALSE
  /\ dismissed = {}
  /\ blocked = {}

Put(p) ==
  /\ p \notin blocked
  /\ \E s \in Slots \ filled : filled' = filled \cup {s}
  /\ UNCHANGED <<closed, dismissed, blocked>>

Take(c) ==
  /\ c \notin blocked
  /\ \E s \in filled : filled' = filled \ {s}
  /\ UNCHANGED <<closed, dismissed, blocked>>

\* A caller is held back only by a buffer that cannot serve it and is open.  It
\* may have been dismissed already: the news can reach it after it blocked.
Block(a) ==
  /\ a \notin blocked
  /\ ~CanServe(a)
  /\ ~closed
  /\ blocked' = blocked \cup {a}
  /\ UNCHANGED <<filled, closed, dismissed>>

\* It is let go when the buffer can serve it, is closed, or it was dismissed.
Release(a) ==
  /\ a \in blocked
  /\ CanServe(a) \/ closed \/ a \in dismissed
  /\ blocked' = blocked \ {a}
  /\ UNCHANGED <<filled, closed, dismissed>>

Close ==
  /\ closed' = TRUE
  /\ UNCHANGED <<filled, dismissed, blocked>>

Dismiss(a) ==
  /\ dismissed' = dismissed \cup {a}
  /\ UNCHANGED <<filled, closed, blocked>>

Next ==
  \/ \E p \in Producers : Put(p)
  \/ \E c \in Consumers : Take(c)
  \/ \E a \in Actors : Block(a) \/ Release(a) \/ Dismiss(a)
  \/ Close

Spec == Init /\ [][Next]_abstractVars
=============================================================================
