------------------------------- MODULE Examples ------------------------------
(***************************************************************************)
(* The example programs side by side: program is the one that was started, *)
(* the variables of the others keep their initial values.                  *)
(***************************************************************************)
EXTENDS Naturals, Sequences, FiniteSets

CONSTANTS
  Category, PerCategory, Correlator, Answers, \* the code review
  BoardAgent,                                 \* the shared board
  Rounds, MaxConns,                           \* the swarm collaboration
  Turns, Pieces                               \* the terminal app

ASSUME CategoriesFinite == IsFiniteSet(Category) /\ PerCategory \in Nat
ASSUME CorrelatorApart  == Correlator \notin Category \X (1..PerCategory)
ASSUME AgentsFinite     == IsFiniteSet(BoardAgent)
ASSUME BoundsAreNumbers == Turns \in Nat /\ Pieces \in Nat
ASSUME RoundsAreNumbers == Rounds \in Nat \ {0} /\ MaxConns \in Nat

VARIABLES
  program,
  rmain, ragent, rconns, rdown, rup, reviews, correlation, report, rlost,
  bat, bconns, board, bdown, bup, bfinal, bmain, blost,
  conn, linked, started, asking, wire, cat, clost, caborted,
  ready, entries, pending, streaming, gen, stage, sent, pulls, loop, typedOver

Review == INSTANCE CodeReview
  WITH main <- rmain, agent <- ragent, conns <- rconns, down <- rdown, up <- rup, lost <- rlost
Shared == INSTANCE SharedBoard
  WITH Agent <- BoardAgent, at <- bat, conns <- bconns, down <- bdown, up <- bup, final <- bfinal,
       main <- bmain, lost <- blost
Collab == INSTANCE SwarmCollab WITH at <- cat, lost <- clost, aborted <- caborted
Tui == INSTANCE P2PTui

rvars == <<rmain, ragent, rconns, rdown, rup, reviews, correlation, report, rlost>>
bvars == <<bat, bconns, board, bdown, bup, bfinal, bmain, blost>>
cvars == <<conn, linked, started, asking, wire, cat, clost, caborted>>
tvars == <<ready, entries, pending, streaming, gen, stage, sent, pulls, loop, typedOver>>
vars  == <<program, rvars, bvars, cvars, tvars>>

Init == /\ program \in {"review", "shared", "collab", "tui"}
        /\ Review!Init /\ Shared!Init /\ Collab!Init /\ Tui!Init

Next ==
  /\ UNCHANGED program
  /\ \/ program = "review" /\ Review!Next /\ UNCHANGED <<bvars, cvars, tvars>>
     \/ program = "shared" /\ Shared!Next /\ UNCHANGED <<rvars, cvars, tvars>>
     \/ program = "collab" /\ Collab!Next /\ UNCHANGED <<rvars, bvars, tvars>>
     \/ program = "tui" /\ Tui!Next /\ UNCHANGED <<rvars, bvars, cvars>>

\* The fairness of the program that runs.
Fairness ==
  /\ WF_rvars(program = "review" /\ Review!MainStep)
  /\ WF_rvars(program = "review" /\ Review!ReadCorrelator)
  /\ \A s \in Review!Specs : WF_rvars(program = "review" /\ Review!ReadReviewer(s))
  /\ \A a \in Review!Client : WF_rvars(program = "review" /\ Review!ClientStep(a))
  /\ WF_bvars(program = "shared" /\ Shared!Finish)
  /\ \A a \in BoardAgent :
       /\ WF_bvars(program = "shared" /\ Shared!HubReads(a))
       /\ WF_bvars(program = "shared" /\ Shared!AgentReads(a))
       /\ WF_bvars(program = "shared" /\ (Shared!Think(a) \/ Shared!Accept(a) \/ Shared!Open(a)))
  /\ WF_cvars(program = "collab" /\ Collab!Connect)
  /\ \A a \in Collab!Agent :
       /\ WF_cvars(program = "collab" /\ Collab!Answer(a))
       /\ WF_cvars(program = "collab" /\ Collab!OnMessage(a))
       /\ WF_cvars(program = "collab" /\ Collab!Leave(a))
  /\ WF_tvars(program = "tui" /\ Tui!Boot) /\ WF_tvars(program = "tui" /\ Tui!Update)
  /\ \A t \in Tui!Turn : WF_tvars(program = "tui" /\ Tui!Yield(t))

Spec == Init /\ [][Next]_vars /\ Fairness

-----------------------------------------------------------------------------
\* Every variable of each of the four programs keeps its type.
TypeOK ==
  /\ program \in {"review", "shared", "collab", "tui"}
  /\ Review!TypeOK /\ Shared!TypeOK /\ Collab!TypeOK /\ Tui!TypeOK

\* CodeReview: the report rests on one review of every reviewer, and its consensus and
\* action list agree.
ReportExact == Review!ReportExact

\* CodeReview: the review ends unless a connection is lost or an agent fails.
ReviewEnds == program = "review" ~> rmain \in {"done", "aborted"} \/ rlost

\* SharedBoard: all agents that are through saw one and the same board.
SameBoard == Shared!SameBoard

\* SharedBoard: every agent gets its board unless a connection is lost or an agent fails.
BoardShared == program = "shared" ~> bmain \in {"done", "aborted"} \/ blost

\* SwarmCollab: one turn at a time, so no session has two chats at once.
OneTurnAtATime == Collab!OneTurnAtATime

\* SwarmCollab: both agents leave unless something is lost or a chat fails.
BothLeave ==
  program = "collab" ~> clost \/ caborted \/ \A a \in Collab!Agent : cat[a] = "left"

\* P2PTui: unless a question was asked over a reply that was coming, every reply in the
\* transcript is one turn's own and whole.
RepliesWhole == Tui!RepliesWhole

\* P2PTui: the generator of the turn that was asked last is pulled to its end.
LatestDrains == Tui!LatestDrains

\* P2PTui: whatever fails, the user can type again.
GetsIdle == Tui!GetsIdle

=============================================================================
