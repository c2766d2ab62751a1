----------------------------- MODULE SwarmCollab -----------------------------
(***************************************************************************)
(* examples/swarm-collab.js: two agents that met on a Hyperswarm topic     *)
(* answer each other in turn, a fixed number of rounds, and leave.  Each   *)
(* message is a round's number; who receives it takes the next.            *)
(*                                                                         *)
(* Hyperswarm connects the two again when a connection is lost; MaxConns   *)
(* bounds how often.                                                       *)
(***************************************************************************)
EXTENDS Naturals, Sequences, FiniteSets

CONSTANTS Rounds, MaxConns

Agent == {"alice", "bob"}
Partner(a) == IF a = "alice" THEN "bob" ELSE "alice"
Max == 2 * Rounds

VARIABLES
  conn,    \* the connection there is, or the number of the last one
  linked,  \* whether it is up
  started,
  asking,  \* the turns an agent's chat is busy with: their round and connection
  wire,    \* the messages on their way to each agent
  at,      \* of each agent: active, done (it closes), left
  lost,    \* a message or a connection was lost
  aborted

vars == <<conn, linked, started, asking, wire, at, lost, aborted>>

Init ==
  /\ conn = 0 /\ linked = FALSE /\ started = FALSE
  /\ asking = [a \in Agent |-> {}] /\ wire = [a \in Agent |-> <<>>]
  /\ at = [a \in Agent |-> "active"] /\ lost = FALSE /\ aborted = FALSE

Meeting == /\ ~ linked /\ conn < MaxConns /\ \A a \in Agent : at[a] # "left"
           /\ conn' = conn + 1 /\ linked' = TRUE /\ ~ aborted

RoundOn == [round : 1..Max, on : 1..MaxConns]

\* A turn and a message are of a round of the conversation, which a connection started, and
\* what is on its way is so on a connection that is up.
TypeOK ==
  /\ conn \in 0..MaxConns /\ linked \in BOOLEAN /\ (linked => conn > 0)
  /\ started = (conn > 0)
  /\ asking \in [Agent -> SUBSET RoundOn] /\ wire \in [Agent -> Seq(1..Max)]
  /\ at \in [Agent -> {"active", "done", "left"}]
  /\ \A a \in Agent : wire[a] # <<>> => linked
  /\ lost \in BOOLEAN /\ aborted \in BOOLEAN

\* Mutant: every connection opens the conversation.
Connect_Restarts ==
  /\ Meeting /\ started' = TRUE
  /\ asking' = [asking EXCEPT !["alice"] = @ \cup {[round |-> 1, on |-> conn']}]
  /\ UNCHANGED <<wire, at, lost, aborted>>

\* 'connection' at both ends: they listen, and the first time alice opens.
Connect ==
  /\ Meeting /\ started' = TRUE
  /\ asking' = IF started THEN asking
               ELSE [asking EXCEPT !["alice"] = @ \cup {[round |-> 1, on |-> conn']}]
  /\ UNCHANGED <<wire, at, lost, aborted>>

\* The agent's reply goes out on the connection the question came on, if that is up yet;
\* the last round's is followed by finish().
Answer(a) ==
  /\ ~ aborted /\ \E turn \in asking[a] :
       /\ asking' = [asking EXCEPT ![a] = @ \ {turn}]
       /\ IF linked /\ turn.on = conn
            THEN wire' = [wire EXCEPT ![Partner(a)] = Append(@, turn.round)]
                 /\ UNCHANGED lost
            ELSE lost' = TRUE /\ UNCHANGED wire
       /\ at' = [at EXCEPT ![a] = IF turn.round >= Max THEN "done" ELSE @]
  /\ UNCHANGED <<conn, linked, started, aborted>>

\* A chat that throws is a rejection nobody handles.
Abort(a) ==
  /\ asking[a] # {} /\ ~ aborted /\ aborted' = TRUE
  /\ UNCHANGED <<conn, linked, started, asking, wire, at, lost>>

\* Mutant: a message past the last round is ignored.
OnMessage_Ignores(a) ==
  /\ ~ aborted /\ wire[a] # <<>> /\ wire' = [wire EXCEPT ![a] = Tail(@)]
  /\ LET round == Head(wire[a]) + 1 IN
     asking' = IF at[a] = "active" /\ round <= Max
                 THEN [asking EXCEPT ![a] = @ \cup {[round |-> round, on |-> conn]}]
                 ELSE asking
  /\ UNCHANGED <<conn, linked, started, at, lost, aborted>>

\* onMessage, turn: an agent that is done ignores it, one past the last round finishes.
OnMessage(a) ==
  /\ ~ aborted /\ wire[a] # <<>> /\ wire' = [wire EXCEPT ![a] = Tail(@)]
  /\ LET round == Head(wire[a]) + 1 IN
     /\ asking' = IF at[a] = "active" /\ round <= Max
                    THEN [asking EXCEPT ![a] = @ \cup {[round |-> round, on |-> conn]}]
                    ELSE asking
     /\ at' = [at EXCEPT ![a] = IF @ = "active" /\ round > Max THEN "done" ELSE @]
  /\ UNCHANGED <<conn, linked, started, lost, aborted>>

Unlinked == linked' = FALSE /\ wire' = [a \in Agent |-> <<>>]

Drop ==
  /\ linked /\ Unlinked /\ lost' = TRUE
  /\ UNCHANGED <<conn, started, asking, at, aborted>>

\* finish(): the instance and the store are closed, then the swarm goes, and with it what
\* its connection had not delivered.
Leave(a) ==
  /\ ~ aborted /\ at[a] = "done" /\ at' = [at EXCEPT ![a] = "left"] /\ Unlinked
  /\ lost' = (lost \/ \E b \in Agent : wire[b] # <<>>)
  /\ UNCHANGED <<conn, started, asking, aborted>>

Next == Connect \/ Drop \/ \E a \in Agent : Answer(a) \/ OnMessage(a) \/ Leave(a) \/ Abort(a)

\* The swarm finds the peer, agents answer, what is not lost is delivered.
Fairness == /\ WF_vars(Connect)
            /\ \A a \in Agent : WF_vars(Answer(a)) /\ WF_vars(OnMessage(a)) /\ WF_vars(Leave(a))

Spec == Init /\ [][Next]_vars /\ Fairness

-----------------------------------------------------------------------------
\* One turn at a time: there is one agent asking or one message on its way, also across a
\* reconnect.  So no session has two chats at once, which is what keeps every turn in the
\* bee (Bareclaw, lostupdate).
OneTurnAtATime ==
  Cardinality(asking["alice"]) + Cardinality(asking["bob"])
    + Len(wire["alice"]) + Len(wire["bob"]) <= 1

\* Unless something is lost or a chat fails, both agents finish and leave.
BothLeave == <>(lost \/ aborted \/ \A a \in Agent : at[a] = "left")

=============================================================================
