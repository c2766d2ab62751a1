----------------------------- MODULE ChatReplies -----------------------------
(***************************************************************************)
(* What the consumer of chat() may rely on (index.d.ts: chunks until a     *)
(* done or error chunk): the reply comes in order, nothing of it twice,    *)
(* nothing of another chat in it, and done comes when it is whole.  There  *)
(* is no agent, no stream and no handler here.  ChatStream implements it.  *)
(***************************************************************************)
EXTENDS Naturals, Sequences

CONSTANTS Chat, Reply

VARIABLES
  at,   \* where each chat is: idle, reading, or how it ended
  told  \* the text each consumer was given so far

vars == <<at, told>>

Init == at = [c \in Chat |-> "idle"] /\ told = [c \in Chat |-> <<>>]

Ask(c) ==
  /\ at[c] = "idle" /\ at' = [at EXCEPT ![c] = "reading"]
  /\ UNCHANGED told

\* Some more of the reply; an empty chunk tells nothing.
Tell(c) ==
  /\ at[c] = "reading"
  /\ \E n \in Len(told[c])..Len(Reply) : told' = [told EXCEPT ![c] = SubSeq(Reply, 1, n)]
  /\ UNCHANGED at

\* A chat ends well when all is told, and in an error, an exception or a break at any time.
End(c) ==
  /\ at[c] = "reading"
  /\ \E e \in {"done", "error", "thrown", "broken"} :
       (e = "done" => told[c] = Reply) /\ at' = [at EXCEPT ![c] = e]
  /\ UNCHANGED told

Next == \E c \in Chat : Ask(c) \/ Tell(c) \/ End(c)

Spec == Init /\ [][Next]_vars

=============================================================================
