----------------------------- MODULE SharedBoard -----------------------------
(***************************************************************************)
(* examples/dht-shared.js: agents each post one idea to a hub, which puts  *)
(* it on the board and sends the whole board to everyone connected.  An    *)
(* agent is through when it has seen a board with an idea of each.         *)
(***************************************************************************)
EXTENDS Naturals, Sequences, FiniteSets, SequencesExt

CONSTANT Agent

VARIABLES
  at,    \* of each agent: thinking, connecting, posted, through, cut
  conns, \* the sockets the hub has
  board, \* the ideas on the board, by their agents
  down, up, \* the lines on their way from the hub and to it
  final, \* the board each agent ended with
  main,  \* running, done, aborted
  lost   \* a connection was lost

vars == <<at, conns, board, down, up, final, main, lost>>

Init ==
  /\ at = [a \in Agent |-> "thinking"] /\ conns = {} /\ board = <<>>
  /\ down = [a \in Agent |-> <<>>] /\ up = [a \in Agent |-> <<>>]
  /\ final = [a \in Agent |-> <<>>] /\ main = "running" /\ lost = FALSE

TypeOK ==
  /\ at \in [Agent -> {"thinking", "connecting", "posted", "through", "cut"}]
  /\ conns \subseteq Agent /\ board \in Seq(Agent)
  /\ down \in [Agent -> Seq(Seq(Agent))] /\ up \in [Agent -> Seq(Agent)]
  /\ final \in [Agent -> Seq(Agent)]
  /\ main \in {"running", "done", "aborted"} /\ lost \in BOOLEAN
  /\ \A a \in Agent : at[a] = "cut" => lost /\ a \notin conns

Expected == Cardinality(Agent)

\* The agent has its idea and connects.
Think(a) ==
  /\ main = "running" /\ at[a] = "thinking" /\ at' = [at EXCEPT ![a] = "connecting"]
  /\ UNCHANGED <<conns, board, down, up, final, main, lost>>

\* A turn that throws rejects runAgent, and main with it.
Abort(a) ==
  /\ main = "running" /\ at[a] = "thinking" /\ main' = "aborted"
  /\ UNCHANGED <<at, conns, board, down, up, final, lost>>

\* The connection, at the hub's end and then at the agent's, which posts.
Accept(a) ==
  /\ main = "running" /\ at[a] = "connecting" /\ a \notin conns
  /\ conns' = conns \cup {a}
  /\ UNCHANGED <<at, board, down, up, final, main, lost>>

Open(a) ==
  /\ main = "running" /\ at[a] = "connecting" /\ a \in conns
  /\ at' = [at EXCEPT ![a] = "posted"] /\ up' = [up EXCEPT ![a] = Append(@, a)]
  /\ UNCHANGED <<conns, board, down, final, main, lost>>

\* Mutant: the board goes out before the idea is on it.
HubReads_Late(a) ==
  /\ main = "running" /\ up[a] # <<>> /\ up' = [up EXCEPT ![a] = Tail(@)]
  /\ board' = Append(board, Head(up[a]))
  /\ down' = [c \in Agent |-> IF c \in conns THEN Append(down[c], board) ELSE down[c]]
  /\ UNCHANGED <<at, conns, final, main, lost>>

HubReads(a) ==
  /\ main = "running" /\ up[a] # <<>> /\ up' = [up EXCEPT ![a] = Tail(@)]
  /\ board' = Append(board, Head(up[a]))
  /\ down' = [c \in Agent |-> IF c \in conns THEN Append(down[c], board') ELSE down[c]]
  /\ UNCHANGED <<at, conns, final, main, lost>>

\* Mutant: an agent does not wait for the last idea.
AgentReads_Short(a) ==
  /\ main = "running" /\ down[a] # <<>> /\ down' = [down EXCEPT ![a] = Tail(@)]
  /\ IF Len(Head(down[a])) >= Expected - 1 /\ at[a] # "through"
       THEN at' = [at EXCEPT ![a] = "through"] /\ final' = [final EXCEPT ![a] = Head(down[a])]
       ELSE UNCHANGED <<at, final>>
  /\ UNCHANGED <<conns, board, up, main, lost>>

\* The promise resolves once, with the first board that is full.
AgentReads(a) ==
  /\ main = "running" /\ down[a] # <<>> /\ down' = [down EXCEPT ![a] = Tail(@)]
  /\ IF Len(Head(down[a])) >= Expected /\ at[a] # "through"
       THEN at' = [at EXCEPT ![a] = "through"] /\ final' = [final EXCEPT ![a] = Head(down[a])]
       ELSE UNCHANGED <<at, final>>
  /\ UNCHANGED <<conns, board, up, main, lost>>

\* A socket that is lost, or never opens: 'close' takes it from the hub, and the agent does
\* not connect again.
Drop(a) ==
  /\ main = "running" /\ (a \in conns \/ at[a] = "connecting")
  /\ conns' = conns \ {a} /\ lost' = TRUE
  /\ at' = [at EXCEPT ![a] = IF @ = "through" THEN @ ELSE "cut"]
  /\ down' = [down EXCEPT ![a] = <<>>] /\ up' = [up EXCEPT ![a] = <<>>]
  /\ UNCHANGED <<board, final, main>>

Finish ==
  /\ main = "running" /\ \A a \in Agent : at[a] = "through"
  /\ main' = "done" /\ conns' = {}
  /\ down' = [a \in Agent |-> <<>>] /\ up' = [a \in Agent |-> <<>>]
  /\ UNCHANGED <<at, board, final, lost>>

AgentStep(a) == Think(a) \/ Accept(a) \/ Open(a) \/ HubReads(a) \/ AgentReads(a)
Next == Finish \/ \E a \in Agent : AgentStep(a) \/ Drop(a) \/ Abort(a)

\* Agents answer; sockets that are not lost connect and deliver.
Fairness == /\ WF_vars(Finish)
            /\ \A a \in Agent : /\ WF_vars(HubReads(a)) /\ WF_vars(AgentReads(a))
                                /\ WF_vars(Think(a) \/ Accept(a) \/ Open(a))

Spec == Init /\ [][Next]_vars /\ Fairness

-----------------------------------------------------------------------------
\* All agents that are through saw one and the same board, with an idea of each (main
\* prints the first agent's, "as every agent saw it").
SameBoard ==
  \A a, b \in Agent : at[a] = "through" /\ at[b] = "through" =>
    final[a] = final[b] /\ ToSet(final[a]) = Agent

\* Unless a connection is lost or an agent fails, every agent gets its board.
BoardShared == main = "running" ~> main \in {"done", "aborted"} \/ lost

=============================================================================
