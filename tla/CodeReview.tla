------------------------------ MODULE CodeReview -----------------------------
(***************************************************************************)
(* examples/swarm-code-review.js: a hub pushes a diff to a panel of        *)
(* reviewers and collects a review from each; a correlator, started when   *)
(* the panel is complete, gets the whole board from the hub and answers    *)
(* with a verdict; main then reports.  Hub and clients talk over one       *)
(* socket each, which delivers in order what it does not lose.             *)
(*                                                                         *)
(* A text is the set of the kinds of lines it has: json (a tool call a     *)
(* small model wrote as text), bullet, pass ("LGTM" and the like), prose.  *)
(***************************************************************************)
EXTENDS Naturals, Sequences, FiniteSets

CONSTANTS
  Category,
  PerCategory, \* PER_CATEGORY
  Correlator,
  Answers      \* the texts that agents answer

Specs  == Category \X (1..PerCategory)
Client == Specs \cup {Correlator}

VARIABLES
  main,    \* where main() is
  agent,   \* of each client: none, making, connecting, waiting, asking, filed
  conns,   \* the sockets the hub has
  down, up, \* the lines on their way from the hub and to the hub
  reviews, \* the reviews filed, in order
  correlation,
  report,  \* what was reported: the consensus and the action items
  lost     \* a connection was lost or never made

net  == <<conns, down, up>>
vars == <<main, agent, net, reviews, correlation, report, lost>>

Nothing == [rows |-> {}, items |-> {}]

Init ==
  /\ main = "panel" /\ agent = [a \in Client |-> IF a \in Specs THEN "making" ELSE "none"]
  /\ conns = {} /\ down = [a \in Client |-> <<>>] /\ up = [a \in Client |-> <<>>]
  /\ reviews = <<>> /\ correlation = FALSE /\ report = Nothing /\ lost = FALSE

Running == main \notin {"cleanup", "done", "aborted"}

-----------------------------------------------------------------------------
(* What a review says. *)

CleanReview(text) == text \ {"json"}

\* The finding of a review, or nothing when the reviewer passed.
Findings(text) ==
  LET t == CleanReview(text)
  IN IF "bullet" \notin t /\ "pass" \in t THEN {} ELSE t

\* Mutant: whether a reviewer passed is looked up in what it wrote.
IsClean_Raw(text) == "pass" \in text

IsClean(text) == Findings(text) = {}

ActionItems(rs) ==
  {[from |-> rs[i].from, text |-> Findings(rs[i].review)] :
     i \in {j \in DOMAIN rs : Findings(rs[j].review) # {}}}

Summarize(rs) ==
  {LET of    == {i \in DOMAIN rs : rs[i].from[1] = c}
       clean == {i \in of : IsClean(rs[i].review)}
   IN [category |-> c, clean |-> Cardinality(clean), total |-> Cardinality(of),
       status |-> IF of # {} /\ clean = of THEN "clean"
                  ELSE IF clean = {} THEN "issues" ELSE "mixed"] : c \in Category}

-----------------------------------------------------------------------------
(* What is sent. *)

Task     == [type |-> "task"]
\* A board is a prefix of the reviews: its length says which.
Board(n) == [type |-> "board", n |-> n]
AText    == Answers \cup {{"prose"}}
AReview  == [type : {"review"}, from : Specs, review : AText]
Verdict  == [type : {"correlation"}, from : {Correlator}, review : AText]

\* The board holds reviews only, and reviewers' only; no client was sent a board that the
\* hub did not have yet; and until main reports there is no report.
TypeOK ==
  /\ main \in {"panel", "allIn", "correlator", "correlated", "cleanup", "done", "aborted"}
  /\ agent \in [Client -> {"none", "making", "connecting", "waiting", "asking", "filed"}]
  /\ conns \subseteq Client /\ correlation \in BOOLEAN /\ lost \in BOOLEAN
  /\ reviews \in Seq(AReview) /\ up \in [Client -> Seq(AReview \cup Verdict)]
  /\ down \in [Client -> Seq({Task} \cup {Board(n) : n \in 0..Len(reviews)})]
  /\ report = IF main \in {"cleanup", "done"}
                THEN [rows |-> Summarize(reviews), items |-> ActionItems(reviews)] ELSE Nothing

-----------------------------------------------------------------------------
(* Clients. *)

\* makeAgent is done, and the client connects to the hub.
Make(a) ==
  /\ Running /\ agent[a] = "making" /\ agent' = [agent EXCEPT ![a] = "connecting"]
  /\ UNCHANGED <<main, net, reviews, correlation, report, lost>>

\* Mutant: a reviewer takes every message for its task.
ReadReviewer_Any(s) ==
  /\ Running /\ down[s] # <<>> /\ down' = [down EXCEPT ![s] = Tail(@)]
  /\ agent' = [agent EXCEPT ![s] = "asking"]
  /\ UNCHANGED <<main, conns, up, reviews, correlation, report, lost>>

\* The first task starts the review; boards are not for reviewers.
ReadReviewer(s) ==
  /\ Running /\ down[s] # <<>> /\ down' = [down EXCEPT ![s] = Tail(@)]
  /\ agent' = IF Head(down[s]).type = "task" /\ agent[s] = "waiting"
                THEN [agent EXCEPT ![s] = "asking"] ELSE agent
  /\ UNCHANGED <<main, conns, up, reviews, correlation, report, lost>>

\* Mutant: the correlator waits for one review more than there are.
ReadCorrelator_Over ==
  LET a == Correlator IN
  /\ Running /\ down[a] # <<>> /\ down' = [down EXCEPT ![a] = Tail(@)]
  /\ agent' = IF Head(down[a]).type = "board" /\ agent[a] = "waiting"
                 /\ Head(down[a]).n > Cardinality(Specs)
                THEN [agent EXCEPT ![a] = "asking"] ELSE agent
  /\ UNCHANGED <<main, conns, up, reviews, correlation, report, lost>>

\* The correlator waits for a board that is full.
ReadCorrelator ==
  LET a == Correlator IN
  /\ Running /\ down[a] # <<>> /\ down' = [down EXCEPT ![a] = Tail(@)]
  /\ agent' = IF Head(down[a]).type = "board" /\ agent[a] = "waiting"
                 /\ Head(down[a]).n >= Cardinality(Specs)
                THEN [agent EXCEPT ![a] = "asking"] ELSE agent
  /\ UNCHANGED <<main, conns, up, reviews, correlation, report, lost>>

Write(a, msg) == up' = [up EXCEPT ![a] = IF a \in conns THEN Append(@, msg) ELSE @]

\* ask() never returns an empty text.
Ask(a) ==
  /\ Running /\ agent[a] = "asking" /\ agent' = [agent EXCEPT ![a] = "filed"]
  /\ \E text \in Answers :
       Write(a, [type |-> IF a \in Specs THEN "review" ELSE "correlation",
                 from |-> a, review |-> IF text = {} THEN {"prose"} ELSE text])
  /\ UNCHANGED <<main, conns, down, reviews, correlation, report, lost>>

\* A turn that throws, or an agent that cannot be made, is a rejection nobody handles.
Abort(a) ==
  /\ Running /\ agent[a] \in {"making", "asking"} /\ main' = "aborted"
  /\ UNCHANGED <<agent, net, reviews, correlation, report, lost>>

-----------------------------------------------------------------------------
(* The hub. *)

Accept(a) ==
  /\ Running /\ agent[a] = "connecting" /\ agent' = [agent EXCEPT ![a] = "waiting"]
  /\ conns' = conns \cup {a}
  /\ down' = [down EXCEPT ![a] = <<Task, Board(Len(reviews))>>]
  /\ UNCHANGED <<main, up, reviews, correlation, report, lost>>

\* Mutant: whatever a client files is a review.
HubReads_Any(a) ==
  /\ Running /\ up[a] # <<>> /\ up' = [up EXCEPT ![a] = Tail(@)]
  /\ reviews' = Append(reviews, Head(up[a]))
  /\ down' = [c \in Client |-> IF c \in conns
                                 THEN Append(down[c], Board(Len(reviews'))) ELSE down[c]]
  /\ UNCHANGED <<main, agent, conns, correlation, report, lost>>

HubReads(a) ==
  /\ Running /\ up[a] # <<>> /\ up' = [up EXCEPT ![a] = Tail(@)]
  /\ \/ /\ Head(up[a]).type = "review"
        /\ reviews' = Append(reviews, Head(up[a]))
        /\ down' = [c \in Client |-> IF c \in conns
                                       THEN Append(down[c], Board(Len(reviews'))) ELSE down[c]]
        /\ UNCHANGED correlation
     \/ /\ Head(up[a]).type = "correlation"
        /\ correlation' = TRUE /\ UNCHANGED <<reviews, down>>
  /\ UNCHANGED <<main, agent, conns, report, lost>>

\* A socket that errs is dropped on both sides, and nobody connects again: the client
\* waits on.
Drop(a) ==
  /\ Running /\ (a \in conns \/ agent[a] = "connecting")
  /\ conns' = conns \ {a} /\ lost' = TRUE
  /\ agent' = [agent EXCEPT ![a] = IF @ = "connecting" THEN "waiting" ELSE @]
  /\ down' = [down EXCEPT ![a] = <<>>] /\ up' = [up EXCEPT ![a] = <<>>]
  /\ UNCHANGED <<main, reviews, correlation, report>>

-----------------------------------------------------------------------------
(* main: the panel, all reviews in, the correlator, its verdict, the report, the end. *)

Goto(from, to) == main = from /\ main' = to

PanelMade ==
  /\ Goto("panel", "allIn") /\ \A s \in Specs : agent[s] # "making"
  /\ UNCHANGED <<agent, net, reviews, correlation, report, lost>>

\* The promise was resolved when the board got its last review.
AllIn ==
  /\ Goto("allIn", "correlator") /\ Len(reviews) >= Cardinality(Specs)
  /\ agent' = [agent EXCEPT ![Correlator] = "making"]
  /\ UNCHANGED <<net, reviews, correlation, report, lost>>

CorrelatorMade ==
  /\ Goto("correlator", "correlated") /\ agent[Correlator] # "making"
  /\ UNCHANGED <<agent, net, reviews, correlation, report, lost>>

Report ==
  /\ Goto("correlated", "cleanup") /\ correlation
  /\ report' = [rows |-> Summarize(reviews), items |-> ActionItems(reviews)]
  /\ UNCHANGED <<agent, net, reviews, correlation, lost>>

Cleanup ==
  /\ Goto("cleanup", "done") /\ conns' = {}
  /\ down' = [a \in Client |-> <<>>] /\ up' = [a \in Client |-> <<>>]
  /\ UNCHANGED <<agent, reviews, correlation, report, lost>>

-----------------------------------------------------------------------------
ClientStep(a) == Make(a) \/ Ask(a) \/ Accept(a) \/ HubReads(a)
ReadStep  == ReadCorrelator \/ \E s \in Specs : ReadReviewer(s)
MainStep  == PanelMade \/ AllIn \/ CorrelatorMade \/ Report \/ Cleanup

Next == \/ MainStep \/ ReadStep
        \/ \E a \in Client : ClientStep(a) \/ Drop(a) \/ Abort(a)

\* Agents are made and answer, sockets that are not lost connect and deliver.
Fairness == /\ WF_vars(MainStep) /\ WF_vars(ReadCorrelator)
            /\ \A s \in Specs : WF_vars(ReadReviewer(s))
            /\ \A a \in Client : WF_vars(ClientStep(a))

Spec == Init /\ [][Next]_vars /\ Fairness

-----------------------------------------------------------------------------
Reported == main \in {"cleanup", "done"}

\* The report rests on one review of every reviewer, none missing and none counted twice,
\* however connections and filings interleave with the broadcasts of the board; and the
\* consensus and the action list never disagree (the comment on findings()): what a lens
\* did not pass is on the list, and a clean lens has nothing there.
ReportExact ==
  Reported =>
    /\ \A s \in Specs : Cardinality({i \in DOMAIN reviews : reviews[i].from = s}) = 1
    /\ \A row \in report.rows :
         /\ row.total = PerCategory
         /\ row.total = row.clean
               + Cardinality({it \in report.items : it.from[1] = row.category})

\* Unless a connection is lost or an agent fails, the review comes to its end.
ReviewEnds == main = "panel" ~> main \in {"done", "aborted"} \/ lost

=============================================================================
