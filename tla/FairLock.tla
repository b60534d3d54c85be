------------------------------- MODULE FairLock -------------------------------
(***************************************************************************)
(* What the database's write lock promises: writers stand in one line, the *)
(* one at its head writes, nobody jumps the line, and whoever gives up     *)
(* leaves it without disturbing the others.                                *)
(***************************************************************************)
EXTENDS Sequences, Naturals

CONSTANT Tasks

VARIABLE line  \* the writers in the order they came; the head is writing

Standing == {line[i] : i \in 1..Len(line)}

Without(s, i) == SubSeq(s, 1, i - 1) \o SubSeq(s, i + 1, Len(s))

Init == line = <<>>

Arrive(c) == c \notin Standing /\ line' = Append(line, c)

Leave == line # <<>> /\ line' = Tail(line)

GiveUp(i) == i > 1 /\ line' = Without(line, i)

Next ==
  \/ \E c \in Tasks : Arrive(c)
  \/ Leave
  \/ \E i \in 1..Len(line) : GiveUp(i)

Spec == Init /\ [][Next]_line

\* The one who writes eventually leaves.
FairSpec == Spec /\ WF_line(Leave)
==============================================================================
