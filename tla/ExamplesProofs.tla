--------------------------- MODULE ExamplesProofs ---------------------------
(* Theorems about the example programs, for any agents, panels, rounds and turns. *)
EXTENDS Examples, TLAPS, FiniteSetTheorems, SequenceTheorems

(***************************************************************************)
(* SwarmCollab.  There is one token at most: a turn that an agent's chat   *)
(* is busy with, or a message on its way.                                  *)
(***************************************************************************)
Sent(a, r)   == [x \in Collab!Agent |-> IF x = a THEN <<r>> ELSE <<>>]
Busy(a, t)  == [x \in Collab!Agent |-> IF x = a THEN {t} ELSE {}]
NothingSent  == [x \in Collab!Agent |-> <<>>]
NobodyAsked  == [x \in Collab!Agent |-> {}]
ATurn        == [round : Nat, on : Nat]

OneToken ==
  /\ conn \in Nat
  /\ \/ asking = NobodyAsked /\ wire = NothingSent
     \/ \E a \in Collab!Agent, t \in ATurn : started = TRUE /\ asking = Busy(a, t) /\ wire = NothingSent
     \/ \E a \in Collab!Agent, r \in Nat : started = TRUE /\ asking = NobodyAsked /\ wire = Sent(a, r)

(* There stays one token in the collaboration: with the driver, on the wire or with an agent. *)
LEMMA OneTokenInductive ==
  ASSUME OneToken, [Collab!Next]_cvars
  PROVE  OneToken'
<1> USE DEF Sent, Busy, NothingSent, NobodyAsked, ATurn, Collab!Agent, OneToken
<1>1. CASE UNCHANGED cvars
  BY <1>1 DEF cvars
<1>2. CASE Collab!Connect
  <2>1. started' /\ conn' \in Nat /\ wire' = wire /\ (started => asking' = asking)
    BY <1>2 DEF Collab!Connect, Collab!Meeting
  <2>2. CASE started
    BY <2>1, <2>2
  <2>3. CASE ~ started
    <3>1. asking = NobodyAsked /\ wire' = NothingSent
      BY <2>1, <2>3
    <3>2. asking' = Busy("alice", [round |-> 1, on |-> conn'])
      BY <1>2, <2>3, <3>1 DEF Collab!Connect
    <3> QED
      BY <2>1, <3>1, <3>2
  <2> QED
    BY <2>2, <2>3
<1>3. CASE Collab!Drop
  BY <1>3 DEF Collab!Drop, Collab!Unlinked
<1>4. ASSUME NEW b \in Collab!Agent, Collab!Answer(b)
      PROVE  OneToken'
  <2>1. PICK t \in asking[b] :
             /\ asking' = [asking EXCEPT ![b] = @ \ {t}]
             /\ \/ wire' = [wire EXCEPT ![Collab!Partner(b)] = Append(@, t.round)]
                \/ UNCHANGED wire
    BY <1>4 DEF Collab!Answer
  <2>2. PICK a \in Collab!Agent, s \in ATurn :
          started = TRUE /\ asking = Busy(a, s) /\ wire = NothingSent
    <3> HIDE DEF ATurn
    <3> QED
      BY <2>1
  <2>3. a = b /\ s = t
    BY <2>1, <2>2
  <2>4. asking' = NobodyAsked
    BY <2>1, <2>2, <2>3
  <2>5. t.round \in Nat /\ Collab!Partner(b) \in Collab!Agent
    BY <2>2, <2>3 DEF Collab!Partner
  <2>6. wire' = NothingSent \/ wire' = Sent(Collab!Partner(b), t.round)
    <3>1. CASE UNCHANGED wire
      BY <2>2, <3>1
    <3>2. CASE wire' = [wire EXCEPT ![Collab!Partner(b)] = Append(@, t.round)]
      <4>1. Append(<<>>, t.round) = <<t.round>>
        OBVIOUS
      <4> QED
        BY <2>2, <2>5, <3>2, <4>1
    <3> QED
      BY <2>1, <3>1, <3>2
  <2>7. conn' = conn /\ started' = started
    BY <1>4 DEF Collab!Answer
  <2> HIDE DEF Sent, NothingSent, NobodyAsked, Busy, ATurn, Collab!Agent
  <2> QED
    BY <2>2, <2>4, <2>5, <2>6, <2>7
<1>5. ASSUME NEW b \in Collab!Agent, Collab!OnMessage(b)
      PROVE  OneToken'
  <2>1. wire[b] # <<>> /\ wire' = [wire EXCEPT ![b] = Tail(@)]
    BY <1>5 DEF Collab!OnMessage
  <2>2. PICK a \in Collab!Agent, r \in Nat : started = TRUE /\ asking = NobodyAsked /\ wire = Sent(a, r)
    <3> HIDE DEF ATurn
    <3> QED
      BY <2>1
  <2>3. a = b
    BY <2>1, <2>2
  <2>4. wire' = NothingSent
    <3>1. Tail(<<r>>) = <<>>
      OBVIOUS
    <3>2. wire[b] = <<r>> /\ \A x \in Collab!Agent : x # b => wire[x] = <<>>
      BY <2>2, <2>3
    <3>3. wire' = [wire EXCEPT ![b] = <<>>] /\ wire = Sent(b, r)
      BY <2>1, <2>2, <2>3, <3>1, <3>2
    <3> QED
      BY <3>3
  <2> DEFINE next == [round |-> r + 1, on |-> conn]
  <2>5. Head(wire[b]) = r
    <3>1. wire[b] = <<r>>
      BY <2>2, <2>3
    <3>2. Head(<<r>>) = r
      OBVIOUS
    <3> QED
      BY <3>1, <3>2
  <2>6. asking' = asking \/ asking' = [asking EXCEPT ![b] = @ \cup {next}]
    BY <1>5, <2>5 DEF Collab!OnMessage
  <2>7. asking' = NobodyAsked \/ asking' = Busy(b, next)
    BY <2>2, <2>6
  <2>8. next \in ATurn /\ conn' = conn /\ started' = started
    BY <1>5 DEF Collab!OnMessage
  <2> HIDE DEF Sent, NothingSent, NobodyAsked, Busy, ATurn, Collab!Agent, next
  <2> QED
    BY <2>2, <2>4, <2>7, <2>8
<1>6. ASSUME NEW b \in Collab!Agent, Collab!Leave(b) \/ Collab!Abort(b)
      PROVE  OneToken'
  BY <1>6 DEF Collab!Leave, Collab!Abort, Collab!Unlinked
<1> QED
  BY <1>1, <1>2, <1>3, <1>4, <1>5, <1>6 DEF Collab!Next

(* The collaboration's Cardinality is the one the lemmas of FiniteSets are about. *)
LEMMA CollabCardinality == ASSUME NEW S PROVE Collab!Cardinality(S) = Cardinality(S)
BY DEF Cardinality, Collab!Cardinality

(* With one token there is one turn. *)
LEMMA OneTokenOneTurn == OneToken => OneTurnAtATime
<1> USE DEF Sent, Busy, NothingSent, NobodyAsked, Collab!Agent
<1> SUFFICES ASSUME OneToken PROVE OneTurnAtATime
  OBVIOUS
<1>1. \A x : Cardinality({x}) = 1
  BY FS_Singleton
<1>2. Cardinality({}) = 0
  BY FS_EmptySet
<1> DEFINE A == Cardinality(asking["alice"])
           B == Cardinality(asking["bob"])
           L == Len(wire["alice"])
           M == Len(wire["bob"])
<1>3. CASE asking = NobodyAsked
  <2>1. A = 0 /\ B = 0
    BY <1>2, <1>3
  <2>2. L \in Nat /\ M \in Nat /\ L + M <= 1
    <3>1. CASE wire = NothingSent
      BY <3>1
    <3>2. ASSUME NEW a \in Collab!Agent, NEW r \in Nat, wire = Sent(a, r)
          PROVE  L \in Nat /\ M \in Nat /\ L + M <= 1
      BY <3>2
    <3>3. asking # Busy("alice", 0)
      BY <1>3
    <3> QED
      BY <1>3, <3>1, <3>2 DEF OneToken
  <2> HIDE DEF A, B, L, M
  <2>3. A + B + L + M <= 1
    BY <2>1, <2>2
  <2> QED
    BY <2>3, CollabCardinality DEF OneTurnAtATime, Collab!OneTurnAtATime, A, B, L, M
<1>4. ASSUME NEW a \in Collab!Agent, NEW t, asking = Busy(a, t), wire = NothingSent
      PROVE  OneTurnAtATime
  <2>1. A \in {0, 1} /\ B \in {0, 1} /\ A + B = 1
    <3>1. \/ asking["alice"] = {t} /\ asking["bob"] = {}
          \/ asking["alice"] = {} /\ asking["bob"] = {t}
      BY <1>4
    <3>2. Cardinality({t}) = 1
      BY <1>1
    <3> QED
      BY <1>2, <3>1, <3>2
  <2>2. L = 0 /\ M = 0
    BY <1>4
  <2> HIDE DEF A, B, L, M
  <2>3. A + B + L + M <= 1
    BY <2>1, <2>2
  <2> QED
    BY <2>3, CollabCardinality DEF OneTurnAtATime, Collab!OneTurnAtATime, A, B, L, M
<1> QED
  BY <1>3, <1>4 DEF OneToken

\* SwarmCollab, whatever is lost and however often the two connect again: at most one agent
\* asks, or one message travels, so no session is ever in two chats at once (onMessage, turn).
THEOREM ChatsNeverOverlap == Spec => []OneTurnAtATime
<1>1. Init => OneToken
  <2>1. Init => Collab!Init
    BY DEF Init
  <2>2. Collab!Init => conn = 0 /\ asking = NobodyAsked /\ wire = NothingSent
    BY DEF Collab!Init, NothingSent, NobodyAsked
  <2> QED
    BY <2>1, <2>2 DEF OneToken
<1>2. OneToken /\ [Next]_vars => OneToken'
  BY OneTokenInductive DEF Next, vars, cvars
<1> QED
  BY <1>1, <1>2, OneTokenOneTurn, PTL DEF Spec

-----------------------------------------------------------------------------
(***************************************************************************)
(* SharedBoard.  Each agent posts once, so the board never repeats an      *)
(* idea, and what was sent out is a beginning of the board: a beginning    *)
(* that is long enough is the board.                                       *)
(***************************************************************************)
LEMMA NoRepeats ==
  ASSUME NEW S, IsFiniteSet(S), NEW s \in Seq(S),
         \A i, j \in 1..Len(s) : s[i] = s[j] => i = j
  PROVE  /\ Len(s) <= Cardinality(S)
         /\ Len(s) = Cardinality(S) => {s[i] : i \in 1..Len(s)} = S
<1> DEFINE n == Len(s)
<1>1. n \in Nat /\ s \in [1..n -> S]
  BY LenProperties
<1>2. s \in Injection(1..n, S)
  BY <1>1 DEF Injection, IsInjective
<1>3. Cardinality(1..n) = n
  BY <1>1, FS_Interval
<1>4. n <= Cardinality(S) /\ (n = Cardinality(S) => s \in Surjection(1..n, S))
  BY <1>2, <1>3, FS_Injection
<1>5. s \in Surjection(1..n, S) => {s[i] : i \in 1..n} = S
  BY <1>1 DEF Surjection
<1> QED
  BY <1>4, <1>5

OnBoard(a) == \E i \in 1..Len(board) : board[i] = a

Beginning ==
  {b \in Seq(BoardAgent) : Len(b) <= Len(board) /\ \A i \in 1..Len(b) : b[i] = board[i]}

SharedTyped ==
  /\ bat \in [BoardAgent -> {"thinking", "connecting", "posted", "through", "cut"}]
  /\ board \in Seq(BoardAgent) /\ bup \in [BoardAgent -> Seq(BoardAgent)]
  /\ bdown \in [BoardAgent -> Seq(Beginning)] /\ bfinal \in [BoardAgent -> Beginning]
  /\ \A a \in BoardAgent : bat[a] = "through" => Len(bfinal[a]) >= Cardinality(BoardAgent)

OneIdeaEach ==
  /\ \A i, j \in 1..Len(board) : board[i] = board[j] => i = j
  /\ \A a \in BoardAgent : bup[a] = <<>> \/ (bup[a] = <<a>> /\ ~ OnBoard(a))
  /\ \A a \in BoardAgent : bat[a] \in {"thinking", "connecting"} => bup[a] = <<>> /\ ~ OnBoard(a)

SharedInv == SharedTyped /\ OneIdeaEach

(* The shared board's Cardinality is the one the lemmas of FiniteSets are about. *)
LEMMA SharedCardinality == ASSUME NEW S PROVE Shared!Cardinality(S) = Cardinality(S)
BY DEF Cardinality, Shared!Cardinality

(* Every step of the shared board keeps each agent's idea on it once, or on its way to it. *)
LEMMA SharedInvInductive ==
  ASSUME SharedInv, [Shared!Next]_bvars
  PROVE  SharedInv'
<1> USE DEF SharedInv
<1>0. ASSUME NEW b \in Seq(BoardAgent), NEW a \in BoardAgent
      PROVE  Append(b, a) \in Seq(BoardAgent) /\ Append(<<>>, a) = <<a>>
             /\ Head(<<a>>) = a /\ Tail(<<a>>) = <<>>
  OBVIOUS
<1>a. ASSUME UNCHANGED board PROVE Beginning' = Beginning /\ \A a : OnBoard(a)' <=> OnBoard(a)
  BY <1>a DEF Beginning, OnBoard
<1>1. CASE UNCHANGED bvars
  BY <1>1, <1>a DEF bvars, SharedTyped, OneIdeaEach
<1>b. <<>> \in Seq(Beginning)
  OBVIOUS
<1>2. CASE Shared!Finish
  BY <1>2, <1>a, <1>b DEF Shared!Finish, SharedTyped, OneIdeaEach
<1>3. ASSUME NEW a \in BoardAgent, Shared!Think(a) \/ Shared!Accept(a) \/ Shared!Abort(a)
      PROVE  SharedInv'
  <2> USE <1>3 DEF Shared!Think, Shared!Accept, Shared!Abort
  <2>1. SharedTyped'
    BY <1>a DEF SharedTyped
  <2>2. OneIdeaEach'
    BY <1>a DEF OneIdeaEach, SharedTyped
  <2> QED
    BY <2>1, <2>2
<1>4. ASSUME NEW a \in BoardAgent, Shared!Open(a)
      PROVE  SharedInv'
  <2>1. /\ bup' = [bup EXCEPT ![a] = <<a>>] /\ ~ OnBoard(a)
        /\ bat' = [bat EXCEPT ![a] = "posted"]
        /\ UNCHANGED <<board, bdown, bfinal>>
    BY <1>4, <1>0 DEF Shared!Open, OneIdeaEach, SharedTyped
  <2>2. SharedTyped'
    BY <1>a, <2>1 DEF SharedTyped
  <2>3. OneIdeaEach'
    BY <1>a, <2>1 DEF OneIdeaEach, SharedTyped
  <2> QED
    BY <2>2, <2>3
<1>5. ASSUME NEW a \in BoardAgent, Shared!Drop(a)
      PROVE  SharedInv'
  <2> USE <1>5 DEF Shared!Drop
  <2>1. SharedTyped'
    BY <1>a, <1>b DEF SharedTyped
  <2>2. OneIdeaEach'
    BY <1>a DEF OneIdeaEach, SharedTyped
  <2> QED
    BY <2>1, <2>2
<1>6. ASSUME NEW a \in BoardAgent, Shared!AgentReads(a)
      PROVE  SharedInv'
  <2>1. Head(bdown[a]) \in Beginning /\ Tail(bdown[a]) \in Seq(Beginning)
    BY <1>6, HeadTailProperties DEF Shared!AgentReads, SharedTyped
  <2>2. UNCHANGED <<board, bup>> /\ bdown' = [bdown EXCEPT ![a] = Tail(@)]
    BY <1>6 DEF Shared!AgentReads
  <2>3. SharedTyped'
    BY <1>6, <1>a, <2>1, SharedCardinality DEF Shared!AgentReads, SharedTyped, Shared!Expected
  <2>4. OneIdeaEach'
    BY <1>6, <1>a, <2>2 DEF OneIdeaEach, SharedTyped, Shared!AgentReads
  <2> QED
    BY <2>3, <2>4
<1>7. ASSUME NEW a \in BoardAgent, Shared!HubReads(a)
      PROVE  SharedInv'
  <2>1. /\ ~ OnBoard(a) /\ board' = Append(board, a)
        /\ bup' = [bup EXCEPT ![a] = <<>>]
        /\ bat[a] \notin {"thinking", "connecting"}
        /\ bdown' = [c \in BoardAgent |-> IF c \in bconns THEN Append(bdown[c], board') ELSE bdown[c]]
        /\ UNCHANGED <<bat, bfinal>>
    BY <1>0, <1>7 DEF Shared!HubReads, OneIdeaEach, SharedTyped
  <2>2. /\ board \in Seq(BoardAgent) /\ board' \in Seq(BoardAgent) /\ Len(board') = Len(board) + 1
        /\ \A i \in 1..Len(board) : board'[i] = board[i]
        /\ board'[Len(board')] = a
    BY <2>1 DEF SharedTyped
  <2>3. Beginning \subseteq Beginning' /\ board' \in Beginning'
    BY <2>2 DEF Beginning
  <2>4. SharedTyped'
    <3>1. ASSUME NEW c \in BoardAgent PROVE bdown'[c] \in Seq(Beginning')
      <4>1. bdown[c] \in Seq(Beginning')
        BY <2>3, SeqMonotonic DEF SharedTyped
      <4>2. Append(bdown[c], board') \in Seq(Beginning')
        BY <2>3, <4>1, AppendProperties
      <4> QED
        BY <2>1, <4>1, <4>2
    <3>2. bdown' \in [BoardAgent -> Seq(Beginning')]
      BY <2>1, <3>1
    <3>3. bup' \in [BoardAgent -> Seq(BoardAgent)]
      BY <2>1 DEF SharedTyped
    <3> QED
      BY <2>1, <2>2, <2>3, <3>2, <3>3 DEF SharedTyped
  <2>5. \A c \in BoardAgent : OnBoard(c)' <=> OnBoard(c) \/ c = a
    BY <2>2 DEF OnBoard
  <2>6. \A i, j \in 1..Len(board') : board'[i] = board'[j] => i = j
    BY <2>1, <2>2 DEF OnBoard, OneIdeaEach
  <2>7. OneIdeaEach'
    BY <2>1, <2>5, <2>6 DEF OneIdeaEach, SharedTyped
  <2> QED
    BY <2>4, <2>7
<1> QED
  BY <1>1, <1>2, <1>3, <1>4, <1>5, <1>6, <1>7 DEF Shared!Next, Shared!AgentStep

(* The inductive invariant is as strong as SameBoard. *)
LEMMA SharedInvSame == SharedInv => SameBoard
<1> SUFFICES ASSUME SharedInv PROVE SameBoard
  OBVIOUS
<1>1. /\ Len(board) <= Cardinality(BoardAgent)
      /\ Len(board) = Cardinality(BoardAgent) => {board[i] : i \in 1..Len(board)} = BoardAgent
  BY AgentsFinite, NoRepeats DEF SharedInv, SharedTyped, OneIdeaEach
<1>2. ASSUME NEW a \in BoardAgent, bat[a] = "through"
      PROVE  bfinal[a] = board /\ Shared!ToSet(bfinal[a]) = BoardAgent
  <2>1. bfinal[a] \in Beginning /\ board \in Seq(BoardAgent) /\ Len(bfinal[a]) >= Cardinality(BoardAgent)
    BY <1>2 DEF SharedInv, SharedTyped
  <2>2. Cardinality(BoardAgent) \in Nat
    BY AgentsFinite, FS_CardinalityType
  <2>3. Len(bfinal[a]) = Len(board) /\ Len(board) = Cardinality(BoardAgent)
    BY <1>1, <2>1, <2>2 DEF Beginning
  <2>4. bfinal[a] = board
    BY <2>1, <2>3, SeqEqual DEF Beginning
  <2> QED
    BY <1>1, <2>1, <2>3, <2>4, LenProperties DEF Shared!ToSet
<1> QED
  BY <1>2 DEF SameBoard, Shared!SameBoard

\* SharedBoard, for any number of agents: all who are through hold the same board, with an
\* idea of each of them on it, although none of them waits for another.
THEOREM BoardsAgree == Spec => []SameBoard
<1>1. Init => SharedInv
  <2>1. Init => Shared!Init
    BY DEF Init
  <2>2. Shared!Init => SharedInv
    BY DEF Shared!Init, SharedInv, SharedTyped, OneIdeaEach, OnBoard, Beginning
  <2> QED
    BY <2>1, <2>2
<1>2. SharedInv /\ [Next]_vars => SharedInv'
  BY SharedInvInductive DEF Next, vars, bvars
<1> QED
  BY <1>1, <1>2, SharedInvSame, PTL DEF Spec

-----------------------------------------------------------------------------
(***************************************************************************)
(* CodeReview.  Each reviewer files once, so the count that main waits for *)
(* is reached only when every reviewer has filed.                          *)
(***************************************************************************)
LEMMA ReviewCardinality == ASSUME NEW S PROVE Review!Cardinality(S) = Cardinality(S)
BY DEF Cardinality, Review!Cardinality

Filed(s) == \E i \in 1..Len(reviews) : reviews[i].from = s

ReviewTyped ==
  /\ rmain \in {"panel", "allIn", "correlator", "correlated", "cleanup", "done", "aborted"}
  /\ ragent \in [Review!Client -> {"none", "making", "connecting", "waiting", "asking", "filed"}]
  /\ rconns \subseteq Review!Client
  /\ correlation \in BOOLEAN /\ rlost \in BOOLEAN
  /\ reviews \in Seq(Review!AReview)
  /\ rup \in [Review!Client -> Seq(Review!AReview \cup Review!Verdict)]
  /\ rup[Correlator] \in Seq(Review!Verdict)

OneReviewEach ==
  /\ \A i, j \in 1..Len(reviews) : reviews[i].from = reviews[j].from => i = j
  /\ \A s \in Review!Specs :
       \/ rup[s] = <<>>
       \/ ragent[s] = "filed" /\ ~ Filed(s)
          /\ \E r \in Review!AReview : r.from = s /\ rup[s] = <<r>>
  /\ \A s \in Review!Specs : ragent[s] # "filed" => ~ Filed(s)

AllCounted ==
  /\ rmain \in {"correlator", "correlated", "cleanup", "done"} =>
       Len(reviews) >= Cardinality(Review!Specs)
  /\ rmain \in {"cleanup", "done"} =>
       report = [rows |-> Review!Summarize(reviews), items |-> Review!ActionItems(reviews)]

ReviewInv == ReviewTyped /\ OneReviewEach /\ AllCounted

(* The correlator is a client of its own, besides the specialists. *)
LEMMA CorrelatorIsNoSpec ==
  Correlator \notin Review!Specs /\ Correlator \in Review!Client /\ Review!Specs \subseteq Review!Client
BY CorrelatorApart DEF Review!Specs, Review!Client

(* The panel is finite. *)
LEMMA SpecsCounted == IsFiniteSet(Review!Specs) /\ Cardinality(Review!Specs) \in Nat
<1>1. IsFiniteSet(1..PerCategory)
  BY CategoriesFinite, FS_Interval
<1> QED
  BY <1>1, CategoriesFinite, FS_Product, FS_CardinalityType DEF Review!Specs

(* Every step of the panel keeps each specialist's review counted once. *)
LEMMA ReviewInvInductive ==
  ASSUME ReviewInv, [Review!Next]_rvars
  PROVE  ReviewInv'
<1> USE CorrelatorIsNoSpec DEF ReviewInv, Review!Running, Review!net
<1>1. ASSUME UNCHANGED reviews
      PROVE  \A s : Filed(s)' <=> Filed(s)
  BY <1>1 DEF Filed
<1>2. CASE UNCHANGED rvars
  <2>1. ReviewTyped'
    BY <1>2 DEF rvars, ReviewTyped
  <2>2. OneReviewEach'
    BY <1>1, <1>2 DEF rvars, OneReviewEach
  <2>3. AllCounted'
    BY <1>2 DEF rvars, AllCounted
  <2> QED
    BY <2>1, <2>2, <2>3
<1>3. CASE Review!MainStep
  <2> USE DEF Review!Goto
  <2>1. CASE Review!PanelMade \/ Review!AllIn \/ Review!CorrelatorMade
    <3> USE <2>1 DEF Review!PanelMade, Review!AllIn, Review!CorrelatorMade
    <3>1. ReviewTyped'
      BY DEF ReviewTyped
    <3>2. OneReviewEach'
      BY <1>1 DEF OneReviewEach, ReviewTyped
    <3>3. AllCounted'
      BY ReviewCardinality DEF AllCounted
    <3> QED
      BY <3>1, <3>2, <3>3
  <2>2. CASE Review!Report
    <3> USE <2>2 DEF Review!Report
    <3>1. ReviewTyped'
      BY DEF ReviewTyped
    <3>2. OneReviewEach'
      BY <1>1 DEF OneReviewEach
    <3>3. AllCounted'
      BY DEF AllCounted
    <3> QED
      BY <3>1, <3>2, <3>3
  <2>3. CASE Review!Cleanup
    <3> USE <2>3 DEF Review!Cleanup
    <3>1. ReviewTyped'
      BY DEF ReviewTyped
    <3>2. OneReviewEach'
      BY <1>1 DEF OneReviewEach
    <3>3. AllCounted'
      BY DEF AllCounted
    <3> QED
      BY <3>1, <3>2, <3>3
  <2> QED
    BY <1>3, <2>1, <2>2, <2>3 DEF Review!MainStep
<1>4. ASSUME NEW a \in Review!Client,
             Review!Make(a) \/ Review!Accept(a) \/ Review!Abort(a) \/ Review!Drop(a)
      PROVE  ReviewInv'
  <2> USE <1>4 DEF Review!Make, Review!Accept, Review!Abort, Review!Drop
  <2>1. ReviewTyped'
    <3>1. rup' = rup \/ rup' = [rup EXCEPT ![a] = <<>>]
      OBVIOUS
    <3>2. /\ rup' \in [Review!Client -> Seq(Review!AReview \cup Review!Verdict)]
          /\ rup'[Correlator] \in Seq(Review!Verdict)
      <4> HIDE <1>4 DEF Review!Make, Review!Accept, Review!Abort, Review!Drop
      <4>1. <<>> \in Seq(Review!AReview \cup Review!Verdict) /\ <<>> \in Seq(Review!Verdict)
        OBVIOUS
      <4> HIDE DEF Review!AReview, Review!Verdict
      <4> QED
        BY <3>1, <4>1 DEF ReviewTyped
    <3>3. ragent' \in [Review!Client -> {"none", "making", "connecting", "waiting", "asking", "filed"}]
      BY DEF ReviewTyped
    <3> QED
      BY <3>2, <3>3 DEF ReviewTyped
  <2>2. UNCHANGED reviews
    OBVIOUS
  <2>3. ASSUME NEW s \in Review!Specs
        PROVE  /\ rup'[s] \in {rup[s], <<>>}
               /\ ragent[s] = "filed" <=> ragent'[s] = "filed"
    BY DEF ReviewTyped
  <2>4. OneReviewEach'
    BY <1>1, <2>2, <2>3 DEF OneReviewEach
  <2>5. AllCounted'
    BY DEF AllCounted
  <2> QED
    BY <2>1, <2>4, <2>5
<1>5. CASE Review!ReadStep
  <2>1. PICK a \in Review!Client :
             /\ ragent' = ragent \/ (ragent[a] = "waiting" /\ ragent' = [ragent EXCEPT ![a] = "asking"])
             /\ UNCHANGED <<rmain, rconns, rup, reviews, correlation, report, rlost>>
    BY <1>5 DEF Review!ReadStep, Review!ReadCorrelator, Review!ReadReviewer
  <2>2. ReviewTyped'
    BY <2>1 DEF ReviewTyped
  <2>3. OneReviewEach'
    BY <1>1, <2>1 DEF OneReviewEach, ReviewTyped
  <2>4. AllCounted'
    BY <2>1 DEF AllCounted
  <2> QED
    BY <2>2, <2>3, <2>4
<1>6. ASSUME NEW a \in Review!Client, Review!Ask(a)
      PROVE  ReviewInv'
  <2>1. PICK m : /\ m \in IF a \in Review!Specs THEN Review!AReview ELSE Review!Verdict
                 /\ m.from = a
                 /\ rup' = [rup EXCEPT ![a] = IF a \in rconns THEN Append(@, m) ELSE @]
    <3>1. PICK text \in Answers :
            Review!Write(a, [type |-> IF a \in Review!Specs THEN "review" ELSE "correlation",
                             from |-> a, review |-> IF text = {} THEN {"prose"} ELSE text])
      BY <1>6 DEF Review!Ask
    <3> DEFINE said == IF text = {} THEN {"prose"} ELSE text
               m == [type |-> IF a \in Review!Specs THEN "review" ELSE "correlation",
                     from |-> a, review |-> said]
    <3>2. a \notin Review!Specs => a = Correlator
      BY DEF Review!Client
    <3>3. said \in Review!AText
      BY DEF Review!AText
    <3>4. m \in IF a \in Review!Specs THEN Review!AReview ELSE Review!Verdict
      BY <3>2, <3>3 DEF Review!AReview, Review!Verdict
    <3>5. m.from = a /\ Review!Write(a, m)
      BY <3>1
    <3> HIDE DEF m
    <3> QED
      BY <3>4, <3>5 DEF Review!Write
  <2>2. /\ ragent[a] = "asking" /\ ragent' = [ragent EXCEPT ![a] = "filed"]
        /\ UNCHANGED <<rmain, rconns, reviews, correlation, report, rlost>>
    BY <1>6 DEF Review!Ask
  <2>3. ReviewTyped'
    <3>1. \A c \in Review!Client : rup'[c] \in Seq(Review!AReview \cup Review!Verdict)
      BY <2>1 DEF ReviewTyped
    <3>2. rup'[Correlator] \in Seq(Review!Verdict)
      <4>1. CASE a = Correlator
        BY <2>1, <4>1 DEF ReviewTyped
      <4>2. CASE a # Correlator
        BY <2>1, <4>2 DEF ReviewTyped
      <4> QED
        BY <4>1, <4>2
    <3>3. rup' \in [Review!Client -> Seq(Review!AReview \cup Review!Verdict)]
      BY <2>1, <3>1 DEF ReviewTyped
    <3> QED
      BY <2>2, <3>2, <3>3 DEF ReviewTyped
  <2>4. OneReviewEach'
    <3>1. a \in Review!Specs => rup[a] = <<>> /\ ~ Filed(a) /\ (rup'[a] = <<>> \/ rup'[a] = <<m>>)
      <4>1. a \in Review!Specs => rup[a] = <<>> /\ ~ Filed(a)
        BY <2>2 DEF OneReviewEach
      <4>2. rup'[a] = rup[a] \/ rup'[a] = Append(rup[a], m)
        BY <2>1 DEF ReviewTyped
      <4>3. Append(<<>>, m) = <<m>>
        OBVIOUS
      <4> QED
        BY <4>1, <4>2, <4>3
    <3>2. ASSUME NEW s \in Review!Specs
          PROVE  \/ rup'[s] = <<>>
                 \/ ragent'[s] = "filed" /\ ~ Filed(s)'
                    /\ \E r \in Review!AReview : r.from = s /\ rup'[s] = <<r>>
      <4>1. CASE s = a
        BY <1>1, <2>1, <2>2, <3>1, <4>1 DEF ReviewTyped
      <4>2. CASE s # a
        <5>1. rup'[s] = rup[s] /\ ragent'[s] = ragent[s]
          BY <2>1, <2>2, <4>2 DEF ReviewTyped
        <5> QED
          BY <1>1, <2>2, <5>1 DEF OneReviewEach
      <4> QED
        BY <4>1, <4>2
    <3>3. \A s \in Review!Specs : ragent'[s] # "filed" => ~ Filed(s)'
      BY <1>1, <2>2 DEF OneReviewEach, ReviewTyped
    <3> QED
      BY <2>2, <3>2, <3>3 DEF OneReviewEach
  <2>5. AllCounted'
    BY <2>2 DEF AllCounted
  <2> QED
    BY <2>3, <2>4, <2>5
<1>7. ASSUME NEW a \in Review!Client, Review!HubReads(a)
      PROVE  ReviewInv'
  <2>1. /\ rup[a] # <<>> /\ rup' = [rup EXCEPT ![a] = Tail(@)]
        /\ UNCHANGED <<rmain, ragent, rconns, report, rlost>>
        /\ rmain \notin {"cleanup", "done"}
    BY <1>7 DEF Review!HubReads
  <2>2. CASE a = Correlator
    <3>1. Head(rup[a]) \in Review!Verdict /\ Tail(rup[a]) \in Seq(Review!Verdict)
      BY <2>1, <2>2, HeadTailProperties DEF ReviewTyped
    <3>2. correlation' = TRUE /\ UNCHANGED reviews
      BY <1>7, <3>1 DEF Review!HubReads, Review!Verdict
    <3>3. ReviewTyped'
      <4>1. Tail(rup[a]) \in Seq(Review!AReview \cup Review!Verdict)
        BY <3>1, SeqMonotonic
      <4> QED
        BY <2>1, <2>2, <3>1, <3>2, <4>1 DEF ReviewTyped
    <3>4. OneReviewEach'
      BY <1>1, <2>1, <2>2, <3>2 DEF OneReviewEach
    <3>5. AllCounted'
      BY <2>1, <3>2 DEF AllCounted
    <3> QED
      BY <3>3, <3>4, <3>5
  <2>3. CASE a \in Review!Specs
    <3>1. PICK r \in Review!AReview : /\ r.from = a /\ rup[a] = <<r>>
                               /\ ragent[a] = "filed" /\ ~ Filed(a)
      BY <2>1, <2>3 DEF OneReviewEach
    <3>2. Head(rup[a]) = r /\ Tail(rup[a]) = <<>>
      BY <3>1
    <3>3. reviews' = Append(reviews, r) /\ UNCHANGED correlation
      BY <1>7, <3>2 DEF Review!HubReads, Review!AReview
    <3>4. rup' = [rup EXCEPT ![a] = <<>>]
      BY <2>1, <3>2
    <3>5. /\ reviews' \in Seq(Review!AReview) /\ Len(reviews') = Len(reviews) + 1 /\ Len(reviews) \in Nat
          /\ \A i \in 1..Len(reviews) : reviews'[i] = reviews[i]
          /\ reviews'[Len(reviews')] = r
      BY <3>3 DEF ReviewTyped
    <3>6. ReviewTyped'
      BY <2>1, <2>3, <3>3, <3>4, <3>5 DEF ReviewTyped
    <3>7. \A s \in Review!Specs : Filed(s)' <=> Filed(s) \/ s = a
      BY <3>1, <3>5 DEF Filed
    <3>8. \A i, j \in 1..Len(reviews') : reviews'[i].from = reviews'[j].from => i = j
      BY <3>1, <3>5 DEF OneReviewEach, Filed
    <3>9. OneReviewEach'
      BY <2>1, <3>1, <3>4, <3>7, <3>8 DEF OneReviewEach, ReviewTyped
    <3>10. Cardinality(Review!Specs) \in Nat => AllCounted'
      BY <2>1, <3>5 DEF AllCounted
    <3> QED
      BY <3>6, <3>9, <3>10, SpecsCounted
  <2> QED
    BY <2>2, <2>3 DEF Review!Client
<1> QED
  BY <1>2, <1>3, <1>4, <1>5, <1>6, <1>7 DEF Review!Next, Review!ClientStep

(* The index sets that a report counts. *)
Of(c)    == {i \in DOMAIN reviews : reviews[i].from[1] = c}
Clean(c) == {i \in Of(c) : Review!IsClean(reviews[i].review)}
Dirty(c) == Of(c) \ Clean(c)
ItemsOf(c) == {it \in Review!ActionItems(reviews) : it.from[1] = c}

(* When as many reviews are in as there are specialists, each has one. *)
LEMMA FullPanel ==
  ASSUME ReviewInv, Len(reviews) >= Cardinality(Review!Specs)
  PROVE  \A s \in Review!Specs : \E i \in 1..Len(reviews) : reviews[i].from = s
<1> DEFINE froms == [i \in 1..Len(reviews) |-> reviews[i].from]
<1>1. reviews \in Seq(Review!AReview) /\ Len(reviews) \in Nat
  BY DEF ReviewInv, ReviewTyped
<1>2. froms \in Seq(Review!Specs) /\ Len(froms) = Len(reviews)
  <2>1. \A i \in 1..Len(reviews) : reviews[i].from \in Review!Specs
    <3>1. \A i \in 1..Len(reviews) : reviews[i] \in Review!AReview
      BY <1>1, ElementOfSeq
    <3> QED
      BY <3>1 DEF Review!AReview
  <2> QED
    BY <1>1, <2>1
<1>3. \A i, j \in 1..Len(froms) : froms[i] = froms[j] => i = j
  BY <1>2 DEF ReviewInv, OneReviewEach
<1> HIDE DEF froms
<1>4. Len(froms) = Cardinality(Review!Specs) /\ {froms[i] : i \in 1..Len(froms)} = Review!Specs
  BY <1>1, <1>2, <1>3, SpecsCounted, NoRepeats
<1> QED
  BY <1>2, <1>4 DEF froms

(* ... and no more than the one. *)
LEMMA CountedOnce ==
  ASSUME ReviewInv, Len(reviews) >= Cardinality(Review!Specs), NEW s \in Review!Specs
  PROVE  Cardinality({i \in DOMAIN reviews : reviews[i].from = s}) = 1
<1>1. DOMAIN reviews = 1..Len(reviews)
  BY DEF ReviewInv, ReviewTyped
<1>2. PICK i \in 1..Len(reviews) : reviews[i].from = s
  BY FullPanel
<1>3. {j \in DOMAIN reviews : reviews[j].from = s} = {i}
  BY <1>1, <1>2 DEF ReviewInv, OneReviewEach
<1> QED
  BY <1>3, FS_Singleton

(* A full panel has PerCategory reviews under every lens. *)
LEMMA LensCounted ==
  ASSUME ReviewInv, Len(reviews) >= Cardinality(Review!Specs), NEW c \in Category
  PROVE  IsFiniteSet(Of(c)) /\ Cardinality(Of(c)) = PerCategory
<1> DEFINE place == [i \in Of(c) |-> reviews[i].from[2]]
<1>1. reviews \in Seq(Review!AReview) /\ DOMAIN reviews = 1..Len(reviews)
  BY DEF ReviewInv, ReviewTyped
<1>2. ASSUME NEW i \in Of(c)
      PROVE  reviews[i].from = <<c, place[i]>> /\ place[i] \in 1..PerCategory
  <2>1. reviews[i] \in Review!AReview /\ reviews[i].from[1] = c
    BY <1>1, ElementOfSeq DEF Of
  <2>2. PICK d \in Category, k \in 1..PerCategory : reviews[i].from = <<d, k>>
    BY <2>1 DEF Review!AReview, Review!Specs
  <2> QED
    BY <2>1, <2>2
<1>3. place \in [Of(c) -> 1..PerCategory]
  BY <1>2
<1>4. ASSUME NEW i \in Of(c), NEW j \in Of(c), place[i] = place[j]
      PROVE  i = j
  <2>1. reviews[i].from = reviews[j].from
    BY <1>2, <1>4
  <2>2. i \in 1..Len(reviews) /\ j \in 1..Len(reviews)
    BY <1>1 DEF Of
  <2> QED
    BY <2>1, <2>2 DEF ReviewInv, OneReviewEach
<1>5. ASSUME NEW k \in 1..PerCategory
      PROVE  \E i \in Of(c) : place[i] = k
  <2>1. <<c, k>> \in Review!Specs
    BY DEF Review!Specs
  <2>2. PICK i \in 1..Len(reviews) : reviews[i].from = <<c, k>>
    BY <2>1, FullPanel
  <2>3. i \in Of(c)
    BY <1>1, <2>2 DEF Of
  <2> QED
    BY <2>2, <2>3
<1> HIDE DEF place
<1>6. place \in Injection(Of(c), 1..PerCategory) /\ place \in Surjection(Of(c), 1..PerCategory)
  BY <1>3, <1>4, <1>5 DEF Injection, IsInjective, Surjection
<1>7. IsFiniteSet(1..PerCategory) /\ Cardinality(1..PerCategory) = PerCategory
  BY CategoriesFinite, FS_Interval
<1> QED
  BY <1>6, <1>7, FS_Injection

(* A lens has as many action items as reviews with findings. *)
LEMMA DirtyListed ==
  ASSUME ReviewInv, NEW c \in Category, IsFiniteSet(Of(c))
  PROVE  Cardinality(ItemsOf(c)) = Cardinality(Dirty(c))
<1> DEFINE item == [i \in Dirty(c) |->
                      [from |-> reviews[i].from, text |-> Review!Findings(reviews[i].review)]]
<1>1. DOMAIN reviews = 1..Len(reviews)
  BY DEF ReviewInv, ReviewTyped
<1>2. ItemsOf(c) = {item[i] : i \in Dirty(c)}
  <2>1. Dirty(c) = {i \in DOMAIN reviews : /\ reviews[i].from[1] = c
                                           /\ Review!Findings(reviews[i].review) # {}}
    BY DEF Dirty, Clean, Of, Review!IsClean
  <2>2. ASSUME NEW it \in ItemsOf(c)
        PROVE  \E i \in Dirty(c) : it = item[i]
    <3>1. PICK i \in DOMAIN reviews :
            /\ Review!Findings(reviews[i].review) # {}
            /\ it = [from |-> reviews[i].from, text |-> Review!Findings(reviews[i].review)]
      BY DEF ItemsOf, Review!ActionItems
    <3>2. reviews[i].from[1] = c
      BY <3>1 DEF ItemsOf
    <3> QED
      BY <2>1, <3>1, <3>2
  <2>3. ASSUME NEW i \in Dirty(c)
        PROVE  item[i] \in ItemsOf(c)
    BY <2>1, <2>3 DEF ItemsOf, Review!ActionItems
  <2> QED
    BY <2>2, <2>3
<1>3. \A i \in Dirty(c) : i \in 1..Len(reviews)
  BY <1>1 DEF Dirty, Of
<1>4. ASSUME NEW i \in Dirty(c), NEW j \in Dirty(c), item[i] = item[j]
      PROVE  i = j
  <2>1. reviews[i].from = reviews[j].from
    BY <1>4
  <2> QED
    BY <1>3, <2>1 DEF ReviewInv, OneReviewEach
<1> HIDE DEF item
<1>5. item \in [Dirty(c) -> ItemsOf(c)]
  BY <1>2 DEF item
<1>6. item \in Bijection(Dirty(c), ItemsOf(c))
  BY <1>2, <1>4, <1>5 DEF Bijection, Injection, IsInjective, Surjection
<1>7. IsFiniteSet(Dirty(c))
  BY FS_Subset DEF Dirty
<1> QED
  BY <1>6, <1>7, FS_Bijection DEF ExistsBijection

(* The inductive invariant is as strong as ReportExact. *)
LEMMA ReviewInvExact == ReviewInv => ReportExact
<1> SUFFICES ASSUME ReviewInv, Review!Reported PROVE ReportExact
  BY DEF ReportExact, Review!ReportExact
<1>1. Len(reviews) >= Cardinality(Review!Specs)
  BY DEF ReviewInv, AllCounted, Review!Reported
<1>2. /\ report.rows = Review!Summarize(reviews)
      /\ report.items = Review!ActionItems(reviews)
  BY DEF ReviewInv, AllCounted, Review!Reported
<1>3. ASSUME NEW s \in Review!Specs
      PROVE  Review!Cardinality({i \in DOMAIN reviews : reviews[i].from = s}) = 1
  BY <1>1, CountedOnce, ReviewCardinality
<1>4. ASSUME NEW row \in report.rows
      PROVE  /\ row.total = PerCategory
             /\ row.total = row.clean
                  + Review!Cardinality({it \in report.items : it.from[1] = row.category})
  <2>1. PICK c \in Category : /\ row.category = c /\ row.clean = Cardinality(Clean(c))
                              /\ row.total = Cardinality(Of(c))
    <3>1. PICK c \in Category : row =
            [category |-> c, clean |-> Review!Cardinality(Clean(c)),
             total |-> Review!Cardinality(Of(c)),
             status |-> IF Of(c) # {} /\ Clean(c) = Of(c) THEN "clean"
                        ELSE IF Clean(c) = {} THEN "issues" ELSE "mixed"]
      BY <1>2, Zenon DEF Review!Summarize, Of, Clean
    <3>2. /\ row.category = c /\ row.clean = Review!Cardinality(Clean(c))
          /\ row.total = Review!Cardinality(Of(c))
      BY <3>1
    <3> QED
      BY <3>2, ReviewCardinality
  <2>2. IsFiniteSet(Of(c)) /\ Cardinality(Of(c)) = PerCategory
    BY <1>1, LensCounted
  <2>3. Cardinality(ItemsOf(c)) = Cardinality(Dirty(c))
    BY <2>2, DirtyListed
  <2>4. Cardinality(Dirty(c)) = Cardinality(Of(c)) - Cardinality(Clean(c))
    <3>1. Clean(c) \subseteq Of(c) /\ Of(c) \cap Clean(c) = Clean(c)
      BY DEF Clean
    <3> QED
      BY <2>2, <3>1, FS_Difference DEF Dirty
  <2>5. Cardinality(Clean(c)) \in Nat
    <3>1. Clean(c) \subseteq Of(c)
      BY DEF Clean
    <3> QED
      BY <2>2, <3>1, FS_Subset, FS_CardinalityType
  <2>6. {it \in report.items : it.from[1] = row.category} = ItemsOf(c)
    BY <1>2, <2>1 DEF ItemsOf
  <2>7. Review!Cardinality({it \in report.items : it.from[1] = row.category}) = row.total - row.clean
    BY <2>1, <2>3, <2>4, <2>6, ReviewCardinality
  <2>8. row.total \in Nat /\ row.clean \in Nat /\ row.total = PerCategory
    BY <2>1, <2>2, <2>5, CategoriesFinite
  <2>9. \A t, n \in Nat : \A k : k = t - n => t = n + k
    OBVIOUS
  <2> QED
    BY <2>7, <2>8, <2>9
<1> QED
  BY <1>3, <1>4 DEF ReportExact, Review!ReportExact

(* The panel starts with no reviews. *)
LEMMA ReviewInvInit == Review!Init => ReviewInv
<1> SUFFICES ASSUME Review!Init PROVE ReviewInv
  OBVIOUS
<1> USE CorrelatorIsNoSpec DEF Review!Init
<1>1. ReviewTyped
  <2>1. /\ <<>> \in Seq(Review!AReview \cup Review!Verdict) /\ <<>> \in Seq(Review!Verdict)
        /\ <<>> \in Seq(Review!AReview) /\ {} \subseteq Review!Client
    OBVIOUS
  <2>2. correlation \in BOOLEAN /\ rlost \in BOOLEAN
    OBVIOUS
  <2>3. ragent \in [Review!Client -> {"none", "making", "connecting", "waiting", "asking", "filed"}]
    OBVIOUS
  <2> QED
    BY <2>1, <2>2, <2>3 DEF ReviewTyped
<1>2. OneReviewEach
  BY DEF OneReviewEach, Filed
<1>3. AllCounted
  BY DEF AllCounted
<1> QED
  BY <1>1, <1>2, <1>3 DEF ReviewInv

\* CodeReview, for any panel and any answers: the report rests on exactly one review of each
\* reviewer, and each lens' clean reviews and action items add up to its reviewers.
THEOREM ReportsAreExact == Spec => []ReportExact
<1>1. Init => ReviewInv
  BY ReviewInvInit DEF Init
<1>2. ReviewInv /\ [Next]_vars => ReviewInv'
  BY ReviewInvInductive DEF Next, vars, rvars
<1> QED
  BY <1>1, <1>2, ReviewInvExact, PTL DEF Spec

-----------------------------------------------------------------------------
(***************************************************************************)
(* P2PTui.  As long as no question was asked over a reply that was coming, *)
(* only the latest turn's generator is running, and what it is asked for   *)
(* or has answered is one thing at a time; earlier ones may still owe      *)
(* their end.                                                              *)
(***************************************************************************)
TuiTyped ==
  /\ ready \in {"booting", "ready", "failed", "quit"} /\ streaming \in BOOLEAN
  /\ typedOver \in BOOLEAN
  /\ entries \in Seq(Tui!Entry) /\ pending \in Seq(Tui!Piece) /\ loop \in Seq(Tui!Message)
  /\ gen \in 0..Turns /\ stage \in [Tui!Turn -> {"none", "running", "ended", "finished"}]
  /\ sent \in [Tui!Turn -> 0..Pieces] /\ pulls \in [Tui!Turn -> Nat]

Begun ==
  \A t \in Tui!Turn : /\ stage[t] = "none" <=> t > gen
                      /\ stage[t] = "none" => pulls[t] = 0 /\ sent[t] = 0

(* The turns before the latest have come to their terminal chunk, or failed. *)
TurnsInOrder == \A t \in Tui!Turn : t < gen => stage[t] \in {"ended", "finished"}

Upto(t, k) == [n \in 1..k |-> <<t, n>>]
Coming(msg) == msg.type \in {"chunk", "terminal"}

(* A piece or a terminal chunk on its way is the latest turn's, and what pending lacks. *)
Due(msg) ==
  /\ gen # 0 /\ pulls[gen] = 0 /\ msg.turn = gen
  /\ \/ /\ msg.type = "chunk" /\ stage[gen] = "running"
        /\ msg.n = sent[gen] /\ pending = Upto(gen, sent[gen] - 1)
     \/ msg.type = "terminal" /\ stage[gen] = "ended" /\ pending = Upto(gen, sent[gen])

OnePull ==
  /\ gen # 0 /\ stage[gen] = "running" /\ pulls[gen] # 0 =>
       pulls[gen] = 1 /\ pending = Upto(gen, sent[gen])
  /\ \A i \in 1..Len(loop) : Coming(loop[i]) => Due(loop[i])
  /\ \A i, j \in 1..Len(loop) : Coming(loop[i]) /\ Coming(loop[j]) => i = j

Asked(q, t) == q = [role |-> "user", turn |-> t]

ReplyOf(i, t) ==
  /\ stage[t] \in {"ended", "finished"}
  /\ entries[i].of \in {Tui!Given(t), Append(Tui!Given(t), <<t, 0>>)}
  /\ entries[i].of[1][1] = t
  /\ \E q \in 1..(i - 1) : Asked(entries[q], t)
  /\ \A j \in 1..(i - 1) : entries[j].role = "user" => entries[j].turn <= t

Transcript ==
  /\ ready = "booting" => gen = 0
  /\ gen # 0 => \E q \in 1..Len(entries) : Asked(entries[q], gen)
  /\ \A i \in 1..Len(entries) :
       /\ entries[i].role = "user" => entries[i].turn \in 1..gen
       /\ entries[i].role = "assistant" => \E t \in 1..gen : ReplyOf(i, t)

Ordered == TurnsInOrder /\ OnePull /\ Transcript

TuiInv == TuiTyped /\ Begun /\ (~ typedOver => Ordered)

(* The inductive invariant is as strong as RepliesWhole. *)
LEMMA TuiInvReplies == TuiInv => RepliesWhole
<1> SUFFICES ASSUME TuiInv, ~ typedOver PROVE Tui!WholeReplies
  BY DEF RepliesWhole, Tui!RepliesWhole
<1>1. DOMAIN entries = 1..Len(entries) /\ Len(entries) \in Nat
  BY DEF TuiInv, TuiTyped
<1>2. ASSUME NEW i \in DOMAIN entries, entries[i].role = "assistant"
      PROVE  /\ entries[i].of \in {Tui!Given(entries[i].of[1][1]),
                                   Append(Tui!Given(entries[i].of[1][1]), <<entries[i].of[1][1], 0>>)}
             /\ \E q \in 1..(i - 1) : entries[q] = [role |-> "user", turn |-> entries[i].of[1][1]]
             /\ \A j \in DOMAIN entries : entries[j].role = "user" /\ j < i =>
                  entries[j].turn <= entries[i].of[1][1]
  <2>1. PICK t \in 1..gen : ReplyOf(i, t)
    BY <1>1, <1>2 DEF TuiInv, Ordered, Transcript
  <2>2. \A j \in DOMAIN entries : j < i => j \in 1..(i - 1)
    BY <1>1
  <2> QED
    BY <2>1, <2>2 DEF ReplyOf, Asked
<1> QED
  BY <1>2 DEF Tui!WholeReplies

(* The inductive invariant is as strong as the terminal app's type invariant. *)
LEMMA TuiInvTyped == TuiInv => Tui!TypeOK
BY DEF TuiInv, TuiTyped, Begun, Tui!TypeOK

(* What Append does. *)
LEMMA Appended ==
  ASSUME NEW S, NEW s \in Seq(S), NEW e \in S
  PROVE  /\ Append(s, e) \in Seq(S) /\ Len(Append(s, e)) = Len(s) + 1 /\ Len(s) \in Nat
         /\ \A i \in 1..Len(s) : Append(s, e)[i] = s[i]
         /\ Append(s, e)[Len(s) + 1] = e
OBVIOUS

(* What update() takes off the loop. *)
LEMMA Taken ==
  ASSUME TuiTyped, loop # <<>>
  PROVE  /\ Head(loop) \in Tui!Message /\ Head(loop) = loop[1] /\ 1 \in 1..Len(loop)
         /\ Tail(loop) \in Seq(Tui!Message) /\ Len(loop) \in Nat
         /\ \A i \in 1..Len(Tail(loop)) : /\ Tail(loop)[i] = loop[i + 1]
                                          /\ i + 1 \in 1..Len(loop) /\ i + 1 # 1
<1>1. loop \in Seq(Tui!Message) /\ Len(loop) \in Nat /\ 1 \in 1..Len(loop)
  BY DEF TuiTyped
<1>2. Len(Tail(loop)) = Len(loop) - 1 /\ Tail(loop) \in Seq(Tui!Message)
  BY <1>1, HeadTailProperties
<1> QED
  BY <1>1, <1>2, HeadTailProperties

(* Every step of the terminal app keeps its variables' types. *)
LEMMA TuiTypedInductive ==
  ASSUME TuiTyped, Begun, [Tui!Next]_tvars
  PROVE  TuiTyped' /\ Begun'
<1> USE BoundsAreNumbers
<1>0. /\ gen \in 0..Turns /\ Tui!Turn \subseteq Nat /\ Turns \in Nat /\ Pieces \in Nat
      /\ \A t \in Tui!Turn : t \in 1..Turns
  BY DEF TuiTyped, Tui!Turn
<1>1. /\ [role |-> "system"] \in Tui!Entry /\ [role |-> "tool"] \in Tui!Entry
      /\ \A t \in Tui!Turn : [role |-> "user", turn |-> t] \in Tui!Entry
      /\ \A r \in Seq(Tui!Piece) : [role |-> "assistant", of |-> r] \in Tui!Entry
  BY DEF Tui!Entry
<1>2. ASSUME NEW e \in Tui!Entry, Tui!Says(e) PROVE entries' \in Seq(Tui!Entry)
  BY <1>2, Appended DEF Tui!Says, TuiTyped
<1>3. ASSUME NEW m \in Tui!Message, Tui!Receives(m) PROVE loop' \in Seq(Tui!Message)
  BY <1>3, Appended DEF Tui!Receives, TuiTyped
<1>4. ASSUME NEW t, Tui!Pull(t), UNCHANGED <<gen, stage, sent>>, t = gen
      PROVE  pulls' \in [Tui!Turn -> Nat] /\ Begun'
  <2>1. pulls' \in [Tui!Turn -> Nat]
    <3>1. pulls \in [Tui!Turn -> Nat] /\ pulls' = [pulls EXCEPT ![t] = @ + 1]
      BY <1>4 DEF Tui!Pull, TuiTyped
    <3>2. CASE t \in Tui!Turn
      <4>1. pulls[t] + 1 \in Nat
        BY <3>1, <3>2
      <4> QED
        BY <3>1, <4>1
    <3>3. CASE t \notin Tui!Turn
      BY <3>1, <3>3
    <3> QED
      BY <3>2, <3>3
  <2>2. \A u \in Tui!Turn : u # gen => pulls'[u] = pulls[u]
    BY <1>4 DEF Tui!Pull, TuiTyped
  <2>3. \A u \in Tui!Turn : u > gen => u # gen
    BY <1>0
  <2> QED
    BY <1>4, <2>1, <2>2, <2>3 DEF Begun
<1>5. CASE UNCHANGED tvars
  BY <1>5 DEF tvars, TuiTyped, Begun
<1>6. CASE Tui!Quit
  BY <1>6 DEF Tui!Quit, TuiTyped, Begun
<1>7. CASE Tui!Boot
  <2>1. entries' \in Seq(Tui!Entry)
    <3>1. \A e \in Tui!Entry : <<e>> \in Seq(Tui!Entry)
      OBVIOUS
    <3>2. <<>> \in Seq(Tui!Entry)
      OBVIOUS
    <3> QED
      BY <1>1, <1>7, <3>1, <3>2 DEF Tui!Boot
  <2> QED
    BY <1>7, <2>1 DEF Tui!Boot, TuiTyped, Begun
<1>8. ASSUME NEW t \in Tui!Turn, Tui!Submit(t)
      PROVE  TuiTyped' /\ Begun'
  <2>1. /\ t = gen + 1 /\ UNCHANGED <<ready, sent, loop>> /\ pending' = <<>>
        /\ streaming' = TRUE /\ gen' = t /\ stage' = [stage EXCEPT ![t] = "running"]
        /\ pulls' = [pulls EXCEPT ![t] = @ + 1] /\ Tui!Says([role |-> "user", turn |-> t])
        /\ typedOver' \in BOOLEAN
    BY <1>8 DEF Tui!Submit, Tui!Pull, TuiTyped, Tui!StillComing
  <2>2. entries' \in Seq(Tui!Entry) /\ pending' \in Seq(Tui!Piece)
    BY <1>1, <1>2, <2>1
  <2>3. gen' \in 0..Turns
    BY <1>0, <2>1
  <2>4. pulls' \in [Tui!Turn -> Nat]
        /\ stage' \in [Tui!Turn -> {"none", "running", "ended", "finished"}]
    BY <2>1 DEF TuiTyped
  <2>5. TuiTyped'
    BY <2>1, <2>2, <2>3, <2>4 DEF TuiTyped
  <2>6. ASSUME NEW u \in Tui!Turn
        PROVE  /\ stage'[u] = "none" <=> u > gen'
               /\ stage'[u] = "none" => pulls'[u] = 0 /\ sent'[u] = 0
    <3>1. CASE u = t
      BY <1>0, <2>1, <3>1 DEF TuiTyped
    <3>2. CASE u # t
      <4>1. stage'[u] = stage[u] /\ pulls'[u] = pulls[u] /\ sent'[u] = sent[u]
        BY <2>1, <3>2 DEF TuiTyped
      <4>2. u > gen' <=> u > gen
        BY <1>0, <2>1, <3>2
      <4> QED
        BY <4>1, <4>2 DEF Begun
    <3> QED
      BY <3>1, <3>2
  <2> QED
    BY <2>5, <2>6 DEF Begun
<1>9. ASSUME NEW t \in Tui!Turn, Tui!Yield(t)
      PROVE  TuiTyped' /\ Begun'
  <2>1. /\ pulls[t] > 0 /\ pulls[t] \in Nat /\ pulls' = [pulls EXCEPT ![t] = @ - 1]
        /\ UNCHANGED <<ready, entries, pending, streaming, gen, typedOver>>
    BY <1>9 DEF Tui!Yield, TuiTyped
  <2>2. stage[t] # "none" /\ pulls' \in [Tui!Turn -> Nat]
    BY <2>1 DEF Begun, TuiTyped
  <2>3. /\ loop' \in Seq(Tui!Message) /\ sent' \in [Tui!Turn -> 0..Pieces]
        /\ stage' \in [Tui!Turn -> {"none", "running", "ended", "finished"}]
        /\ stage'[t] # "none"
        /\ \A u \in Tui!Turn : u # t => stage'[u] = stage[u] /\ sent'[u] = sent[u]
    <3>1. CASE /\ stage[t] = "running" /\ sent[t] < Pieces
               /\ sent' = [sent EXCEPT ![t] = @ + 1]
               /\ Tui!Receives([type |-> "chunk", turn |-> t, n |-> sent[t] + 1])
               /\ UNCHANGED stage
      <4>1. sent[t] \in 0..Pieces /\ sent[t] + 1 \in 1..Pieces
        BY <3>1 DEF TuiTyped
      <4>2. [type |-> "chunk", turn |-> t, n |-> sent[t] + 1] \in Tui!Message
        BY <4>1 DEF Tui!Message
      <4>3. loop' \in Seq(Tui!Message)
        BY <1>3, <3>1, <4>2
      <4> QED
        BY <3>1, <4>1, <4>3 DEF TuiTyped
    <3>2. CASE /\ stage[t] = "running" /\ stage' = [stage EXCEPT ![t] = "ended"]
               /\ \E failed \in BOOLEAN :
                    Tui!Receives([type |-> "terminal", turn |-> t, failed |-> failed])
               /\ UNCHANGED sent
      <4>1. \A failed \in BOOLEAN :
              [type |-> "terminal", turn |-> t, failed |-> failed] \in Tui!Message
        BY DEF Tui!Message
      <4>2. loop' \in Seq(Tui!Message)
        BY <1>3, <3>2, <4>1
      <4> QED
        BY <3>2, <4>2 DEF TuiTyped
    <3>3. CASE \E type \in {"end", "error"} :
                 /\ stage' = [stage EXCEPT ![t] = "finished"]
                 /\ Tui!Receives([type |-> type]) /\ UNCHANGED sent
      <4>1. \A type \in {"end", "error"} : [type |-> type] \in Tui!Message
        BY DEF Tui!Message
      <4>2. loop' \in Seq(Tui!Message)
        BY <1>3, <3>3, <4>1
      <4> QED
        BY <3>3, <4>2 DEF TuiTyped
    <3> QED
      BY <1>9, <3>1, <3>2, <3>3 DEF Tui!Yield
  <2>4. TuiTyped'
    BY <2>1, <2>2, <2>3 DEF TuiTyped
  <2>5. Begun'
    <3>1. \A u \in Tui!Turn : u # t => pulls'[u] = pulls[u]
      BY <2>1 DEF TuiTyped
    <3> QED
      BY <2>1, <2>2, <2>3, <3>1 DEF Begun
  <2> QED
    BY <2>4, <2>5
<1>10. ASSUME NEW t \in Tui!Turn, Tui!Tool(t)
       PROVE  TuiTyped' /\ Begun'
  <2>1. [type |-> "tool"] \in Tui!Message
    BY DEF Tui!Message
  <2>2. loop' \in Seq(Tui!Message)
    BY <1>3, <1>10, <2>1 DEF Tui!Tool
  <2> QED
    BY <1>10, <2>2 DEF Tui!Tool, TuiTyped, Begun
\* update()
<1>11. ASSUME loop # <<>>, loop' = Tail(loop)
       PROVE  Head(loop) \in Tui!Message /\ loop' \in Seq(Tui!Message)
  BY <1>11, Taken
<1>12. CASE Tui!OnChunk
  <2>1. /\ loop # <<>> /\ Head(loop).type = "chunk" /\ loop' = Tail(loop)
        /\ pending' = Append(pending, <<Head(loop).turn, Head(loop).n>>) /\ Tui!Pull(gen)
        /\ UNCHANGED <<ready, entries, streaming, gen, stage, sent, typedOver>>
    BY <1>12 DEF Tui!OnChunk, Tui!Handles
  <2>2. Head(loop).turn \in Tui!Turn /\ Head(loop).n \in 1..Pieces
    BY <1>11, <2>1 DEF Tui!Message
  <2>3. <<Head(loop).turn, Head(loop).n>> \in Tui!Piece
    BY <1>0, <2>2 DEF Tui!Piece
  <2>4. pending' \in Seq(Tui!Piece)
    BY <2>1, <2>3, Appended DEF TuiTyped
  <2> QED
    BY <1>4, <1>11, <2>1, <2>4 DEF TuiTyped
<1>13. CASE Tui!OnTerminal
  <2>1. /\ loop # <<>> /\ Head(loop).type = "terminal" /\ loop' = Tail(loop)
        /\ Tui!Commit(Head(loop)) /\ pending' = <<>> /\ streaming' = FALSE /\ Tui!Pull(gen)
        /\ UNCHANGED <<ready, gen, stage, sent, typedOver>>
    BY <1>13 DEF Tui!OnTerminal, Tui!Handles
  <2>2. Head(loop).turn \in Tui!Turn
    BY <1>11, <2>1 DEF Tui!Message
  <2>3. <<Head(loop).turn, 0>> \in Tui!Piece
    BY <1>0, <2>2 DEF Tui!Piece
  <2>4. Tui!Reply(Head(loop)) \in Seq(Tui!Piece)
    BY <2>3, Appended DEF TuiTyped, Tui!Reply
  <2>5. entries' \in Seq(Tui!Entry)
    BY <1>1, <1>2, <2>1, <2>4 DEF Tui!Commit, TuiTyped
  <2>6. pending' \in Seq(Tui!Piece) /\ streaming' \in BOOLEAN
    <3>1. <<>> \in Seq(Tui!Piece)
      OBVIOUS
    <3> QED
      BY <2>1, <3>1
  <2> QED
    BY <1>4, <1>11, <2>1, <2>5, <2>6 DEF TuiTyped
<1>14. CASE Tui!OnEnd \/ Tui!OnError \/ Tui!OnTool
  <2>1. /\ loop # <<>> /\ loop' = Tail(loop) /\ streaming' \in BOOLEAN
        /\ \/ UNCHANGED entries
           \/ Tui!Says([role |-> "system"]) \/ Tui!Says([role |-> "tool"])
        /\ UNCHANGED <<ready, pending, gen, stage, sent, pulls, typedOver>>
    BY <1>14 DEF Tui!OnEnd, Tui!OnError, Tui!OnTool, Tui!Handles, TuiTyped
  <2>2. entries' \in Seq(Tui!Entry)
    BY <1>1, <1>2, <2>1 DEF TuiTyped
  <2> QED
    BY <1>11, <2>1, <2>2 DEF TuiTyped, Begun
<1> QED
  BY <1>5, <1>6, <1>7, <1>8, <1>9, <1>10, <1>12, <1>13, <1>14 DEF Tui!Next, Tui!Update

(* The transcript only grows, and a turn's reply stays as it was told. *)
Grows == /\ Len(entries) \in Nat /\ Len(entries') \in Nat /\ Len(entries) <= Len(entries')
         /\ \A i \in 1..Len(entries) : entries'[i] = entries[i]

(* A finished turn's reply stays in the transcript where it was. *)
LEMMA ReplyKept ==
  ASSUME Grows, NEW i \in 1..Len(entries), NEW t, ReplyOf(i, t),
         stage'[t] \in {"ended", "finished"}, sent'[t] = sent[t]
  PROVE  ReplyOf(i, t)'
<1>1. Tui!Given(t)' = Tui!Given(t)
  BY DEF Tui!Given
<1>2. i \in Nat /\ \A j \in 1..(i - 1) : j \in 1..Len(entries)
  BY DEF Grows
<1> QED
  BY <1>1, <1>2 DEF ReplyOf, Grows, Asked

(* A step that only adds system and tool entries keeps the transcript whole. *)
LEMMA TranscriptKept ==
  ASSUME Transcript, Grows, gen' = gen, ready' = "booting" => ready = "booting",
         \A t \in 1..gen : stage[t] \in {"ended", "finished"} =>
           stage'[t] \in {"ended", "finished"} /\ sent'[t] = sent[t],
         \A i \in 1..Len(entries') : i > Len(entries) =>
           entries'[i].role \in {"system", "tool"}
  PROVE  Transcript'
<1>1. gen # 0 => \E q \in 1..Len(entries') : Asked(entries'[q], gen)
  <2> SUFFICES ASSUME gen # 0 PROVE \E q \in 1..Len(entries') : Asked(entries'[q], gen)
    OBVIOUS
  <2>1. PICK q \in 1..Len(entries) : Asked(entries[q], gen)
    BY DEF Transcript
  <2> QED
    BY <2>1 DEF Grows
<1>2. ASSUME NEW i \in 1..Len(entries')
      PROVE  /\ entries'[i].role = "user" => entries'[i].turn \in 1..gen
             /\ entries'[i].role = "assistant" => \E t \in 1..gen : ReplyOf(i, t)'
  <2>1. CASE i > Len(entries)
    BY <2>1
  <2>2. CASE i <= Len(entries)
    <3>1. i \in 1..Len(entries) /\ entries'[i] = entries[i]
      BY <2>2 DEF Grows
    <3>2. ASSUME NEW t \in 1..gen, ReplyOf(i, t) PROVE ReplyOf(i, t)'
      BY <3>1, <3>2, ReplyKept DEF ReplyOf
    <3> QED
      BY <3>1, <3>2 DEF Transcript
  <2> QED
    BY <2>1, <2>2 DEF Grows
<1> QED
  BY <1>1, <1>2 DEF Transcript

(* A message that is no piece and no terminal chunk comes or goes: the rest is as before. *)
LEMMA OnePullKept ==
  ASSUME TuiTyped, OnePull, UNCHANGED <<gen, pending>>,
         gen # 0 => pulls'[gen] = pulls[gen] /\ stage'[gen] = stage[gen] /\ sent'[gen] = sent[gen],
         NEW m \in Tui!Message, ~ Coming(m),
         \/ loop' = loop
         \/ loop' = Append(loop, m)
         \/ loop # <<>> /\ loop' = Tail(loop)
  PROVE  OnePull'
<1>1. \A msg : Due(msg) => Due(msg)'
  BY DEF Due
<1>2. CASE loop' = loop
  BY <1>1, <1>2 DEF OnePull
<1>3. CASE loop' = Append(loop, m)
  <2>1. /\ \A i \in 1..Len(loop) : loop'[i] = loop[i]
        /\ Len(loop) \in Nat /\ Len(loop') = Len(loop) + 1 /\ loop'[Len(loop) + 1] = m
    BY <1>3, Appended DEF TuiTyped
  <2>2. \A i \in 1..Len(loop') :
          Coming(loop'[i]) => i \in 1..Len(loop) /\ loop'[i] = loop[i]
    BY <2>1
  <2> QED
    BY <1>1, <2>2 DEF OnePull
<1>4. CASE loop # <<>> /\ loop' = Tail(loop)
  <2>1. \A i \in 1..Len(loop') : loop'[i] = loop[i + 1] /\ i + 1 \in 1..Len(loop)
    BY <1>4, Taken
  <2>2. \A i, j \in 1..Len(loop') : i + 1 = j + 1 => i = j
    OBVIOUS
  <2> QED
    BY <1>1, <2>1, <2>2 DEF OnePull
<1> QED
  BY <1>2, <1>3, <1>4

(* The answer of the latest turn's generator is the only thing to come. *)
LEMMA AnswersDue ==
  ASSUME TuiTyped, OnePull, gen # 0, pulls[gen] # 0, gen' = gen,
         NEW m \in Tui!Message, loop' = Append(loop, m),
         Coming(m) => Due(m)', stage'[gen] = "running" => pulls'[gen] = 0
  PROVE  OnePull'
<1>1. \A i \in 1..Len(loop) : ~ Coming(loop[i])
  BY DEF OnePull, Due
<1>2. /\ Len(loop') = Len(loop) + 1 /\ Len(loop) \in Nat /\ loop'[Len(loop) + 1] = m
      /\ \A i \in 1..Len(loop) : loop'[i] = loop[i]
  BY Appended DEF TuiTyped
<1>3. \A i \in 1..Len(loop') : Coming(loop'[i]) => i = Len(loop) + 1 /\ loop'[i] = m
  BY <1>1, <1>2
<1> QED
  BY <1>3 DEF OnePull

(* What is due is the only thing to come: once it is handled nothing is. *)
LEMMA TakesDue ==
  ASSUME TuiTyped, OnePull, loop # <<>>, Coming(Head(loop))
  PROVE  /\ Head(loop) \in Tui!Message /\ Due(Head(loop))
         /\ \A i \in 1..Len(Tail(loop)) : ~ Coming(Tail(loop)[i])
<1>1. Head(loop) \in Tui!Message /\ Head(loop) = loop[1] /\ 1 \in 1..Len(loop)
  BY Taken
<1>2. Due(Head(loop))
  BY <1>1 DEF OnePull
<1>3. ASSUME NEW i \in 1..Len(Tail(loop)) PROVE ~ Coming(Tail(loop)[i])
  <2>1. i + 1 \in 1..Len(loop) /\ i + 1 # 1 /\ Tail(loop)[i] = loop[i + 1]
    BY Taken
  <2> QED
    BY <1>1, <2>1 DEF OnePull
<1> QED
  BY <1>1, <1>2, <1>3

(* Every step keeps the order, a question over a reply that was coming aside. *)
LEMMA OrderedInductive ==
  ASSUME TuiTyped, Begun, Ordered, [Tui!Next]_tvars, TuiTyped', ~ typedOver'
  PROVE  Ordered'
<1> USE BoundsAreNumbers DEF Ordered
<1>0. /\ gen \in 0..Turns /\ (gen # 0 => gen \in Tui!Turn) /\ Tui!Turn \subseteq Nat
      /\ 0 \notin Tui!Turn /\ Len(entries) \in Nat /\ Len(loop) \in Nat
      /\ \A t \in 1..gen : t \in Tui!Turn
  BY DEF TuiTyped, Tui!Turn
<1>1. ASSUME UNCHANGED entries PROVE Grows
  BY <1>0, <1>1 DEF Grows
<1>2. ASSUME UNCHANGED <<entries, gen, stage, sent>>, ready' = "booting" => ready = "booting"
      PROVE  Transcript' /\ TurnsInOrder'
  BY <1>0, <1>1, <1>2, TranscriptKept DEF TurnsInOrder
<1>3. ASSUME NEW e, Tui!Says(e), e \in Tui!Entry
      PROVE  /\ Grows /\ Len(entries') = Len(entries) + 1 /\ entries'[Len(entries) + 1] = e
             /\ \A i \in 1..Len(entries') : i <= Len(entries) \/ (i = Len(entries) + 1 /\ entries'[i] = e)
  <2>1. /\ Len(entries') = Len(entries) + 1 /\ entries'[Len(entries) + 1] = e
        /\ \A i \in 1..Len(entries) : entries'[i] = entries[i]
    BY <1>3, Appended DEF Tui!Says, TuiTyped
  <2> QED
    BY <1>0, <2>1 DEF Grows
\* An entry that is neither a question nor a reply.
<1>4. ASSUME NEW role \in {"system", "tool"}, Tui!Says([role |-> role]),
             UNCHANGED <<gen, stage, sent, ready>>
      PROVE  Transcript' /\ TurnsInOrder'
  <2> DEFINE e == [role |-> role]
  <2>1. e \in Tui!Entry /\ e.role = role
    BY DEF Tui!Entry
  <2> HIDE DEF e
  <2>2. /\ Grows /\ Len(entries') = Len(entries) + 1
        /\ \A i \in 1..Len(entries') : i <= Len(entries) \/ entries'[i] = e
    BY <1>3, <1>4, <2>1 DEF e
  <2>3. \A i \in 1..Len(entries') : i > Len(entries) => entries'[i].role \in {"system", "tool"}
    BY <1>0, <2>1, <2>2
  <2> QED
    BY <1>0, <1>4, <2>2, <2>3, TranscriptKept DEF TurnsInOrder
<1>5. CASE UNCHANGED tvars \/ Tui!Quit
  <2>1. UNCHANGED <<entries, pending, streaming, gen, stage, sent, pulls, loop>>
        /\ (ready' = "booting" => ready = "booting")
    BY <1>5 DEF tvars, Tui!Quit
  <2>2. OnePull'
    BY <2>1 DEF OnePull, Due
  <2> QED
    BY <1>2, <2>1, <2>2
<1>6. CASE Tui!Boot
  <2>1. /\ gen = 0 /\ UNCHANGED <<pending, streaming, gen, stage, sent, pulls, loop>>
        /\ ready' \in {"ready", "failed"}
        /\ entries' = <<>> \/ entries' = <<[role |-> "system"]>>
    BY <1>6 DEF Tui!Boot, Transcript
  <2>2. \A i \in 1..Len(entries') : entries'[i].role = "system"
    BY <2>1
  <2>3. OnePull' /\ TurnsInOrder'
    BY <2>1 DEF OnePull, Due, TurnsInOrder
  <2>4. Transcript'
    BY <2>1, <2>2 DEF Transcript
  <2> QED
    BY <2>3, <2>4
<1>7. ASSUME NEW t \in Tui!Turn, Tui!Submit(t)
      PROVE  Ordered'
  <2> DEFINE e == [role |-> "user", turn |-> t]
  <2>1. /\ ready = "ready" /\ UNCHANGED <<ready, sent, loop>> /\ t = gen + 1
        /\ pending' = <<>> /\ gen' = t /\ Tui!Says(e)
        /\ stage' = [stage EXCEPT ![t] = "running"]
        /\ pulls' = [pulls EXCEPT ![t] = @ + 1] /\ ~ Tui!StillComing
    BY <1>7 DEF Tui!Submit, Tui!Pull
  <2>2. stage[t] = "none" /\ sent[t] = 0 /\ pulls[t] = 0
    BY <1>0, <2>1 DEF Begun
  <2>3. /\ \A u \in Tui!Turn : stage[u] # "running"
        /\ \A i \in 1..Len(loop) : ~ Coming(loop[i])
    <3>1. DOMAIN loop = 1..Len(loop)
      BY DEF TuiTyped
    <3> QED
      BY <2>1, <3>1 DEF Tui!StillComing, Coming
  <2>4. e \in Tui!Entry /\ Asked(e, t) /\ e.role = "user" /\ e.turn = t
    BY DEF Tui!Entry, Asked
  <2> HIDE DEF e
  <2>5. /\ Grows /\ Len(entries') = Len(entries) + 1 /\ entries'[Len(entries) + 1] = e
        /\ \A i \in 1..Len(entries') : i <= Len(entries) \/ entries'[i] = e
    BY <1>3, <2>1, <2>4
  <2>6. \A u \in Tui!Turn : u # t => stage'[u] = stage[u] /\ sent'[u] = sent[u]
    BY <2>1 DEF TuiTyped
  <2>7. TurnsInOrder'
    <3>1. ASSUME NEW u \in Tui!Turn, u < gen' PROVE stage'[u] \in {"ended", "finished"}
      <4>1. u # t /\ ~ u > gen
        BY <1>0, <2>1, <3>1
      <4>2. stage[u] # "none"
        BY <4>1 DEF Begun
      <4> QED
        BY <2>3, <2>6, <4>1, <4>2 DEF TuiTyped
    <3> QED
      BY <3>1 DEF TurnsInOrder
  <2>8. OnePull'
    <3>1. pulls'[gen'] = 1 /\ pending' = Upto(gen', sent'[gen'])
      BY <2>1, <2>2 DEF TuiTyped, Upto
    <3> QED
      BY <2>1, <2>3, <3>1 DEF OnePull
  <2>9. Transcript'
    <3>1. ready' # "booting" /\ \E q \in 1..Len(entries') : Asked(entries'[q], gen')
      BY <1>0, <2>1, <2>4, <2>5
    <3>2. ASSUME NEW i \in 1..Len(entries')
          PROVE  /\ entries'[i].role = "user" => entries'[i].turn \in 1..gen'
                 /\ entries'[i].role = "assistant" => \E u \in 1..gen' : ReplyOf(i, u)'
      <4>1. CASE entries'[i] = e
        <5>1. t \in 1..gen'
          BY <1>0, <2>1
        <5> QED
          BY <2>4, <4>1, <5>1
      <4>2. CASE i <= Len(entries)
        <5>1. i \in 1..Len(entries) /\ entries'[i] = entries[i]
          BY <4>2, <2>5 DEF Grows
        <5>2. ASSUME NEW u \in 1..gen
              PROVE  u \in 1..gen' /\ u \in Tui!Turn /\ u # t
          BY <1>0, <2>1
        <5>3. ASSUME NEW u \in 1..gen, ReplyOf(i, u)
              PROVE  ReplyOf(i, u)'
          <6>1. stage'[u] = stage[u] /\ sent'[u] = sent[u]
            BY <2>6, <5>2
          <6> QED
            BY <2>5, <5>1, <5>3, <6>1, ReplyKept DEF ReplyOf
        <5> QED
          BY <5>1, <5>2, <5>3 DEF Transcript
      <4> QED
        BY <2>5, <4>1, <4>2
    <3> QED
      BY <3>1, <3>2 DEF Transcript
  <2> QED
    BY <2>7, <2>8, <2>9
<1>8. ASSUME NEW t \in Tui!Turn, Tui!Tool(t)
      PROVE  Ordered'
  <2> DEFINE m == [type |-> "tool"]
  <2>1. /\ UNCHANGED <<ready, entries, pending, gen, stage, sent, pulls>> /\ loop' = Append(loop, m)
    BY <1>8 DEF Tui!Tool, Tui!Receives
  <2>2. m \in Tui!Message /\ ~ Coming(m)
    BY DEF Tui!Message, Coming
  <2> HIDE DEF m
  <2>3. OnePull'
    BY <2>1, <2>2, OnePullKept
  <2> QED
    BY <1>2, <2>1, <2>3
<1>9. ASSUME NEW t \in Tui!Turn, Tui!Yield(t)
      PROVE  Ordered'
  <2>1. /\ pulls[t] > 0 /\ pulls[t] \in Nat /\ pulls' = [pulls EXCEPT ![t] = @ - 1]
        /\ UNCHANGED <<ready, entries, pending, gen>>
    BY <1>9 DEF Tui!Yield, TuiTyped
  <2>2. stage[t] # "none" /\ gen # 0 /\ (t = gen \/ t < gen)
    BY <1>0, <2>1 DEF Begun
  \* What a generator answers, and where that leaves it.
  <2>3. \E m \in Tui!Message :
          /\ loop' = Append(loop, m)
          /\ \A u \in Tui!Turn : u # t => stage'[u] = stage[u] /\ sent'[u] = sent[u]
          /\ stage[t] \in {"ended", "finished"} =>
               ~ Coming(m) /\ stage'[t] = "finished" /\ sent'[t] = sent[t]
          /\ stage[t] = "running" /\ Coming(m) => m.turn = t
          /\ \/ m.type = "chunk" /\ stage'[t] = "running" /\ sent'[t] = sent[t] + 1 /\ m.n = sent'[t]
             \/ m.type = "terminal" /\ stage'[t] = "ended" /\ sent'[t] = sent[t]
             \/ ~ Coming(m) /\ stage'[t] = "finished" /\ sent'[t] = sent[t]
    <3>1. CASE /\ stage[t] = "running" /\ sent[t] < Pieces
               /\ sent' = [sent EXCEPT ![t] = @ + 1]
               /\ Tui!Receives([type |-> "chunk", turn |-> t, n |-> sent[t] + 1])
               /\ UNCHANGED stage
      <4> DEFINE m == [type |-> "chunk", turn |-> t, n |-> sent[t] + 1]
      <4>1. sent[t] \in 0..Pieces /\ sent[t] + 1 \in 1..Pieces
        BY <3>1 DEF TuiTyped
      <4>2. m \in Tui!Message /\ m.type = "chunk" /\ m.turn = t /\ m.n = sent[t] + 1
        BY <4>1 DEF Tui!Message
      <4>3. loop' = Append(loop, m)
        BY <3>1 DEF Tui!Receives
      <4> HIDE DEF m
      <4>4. sent'[t] = sent[t] + 1
            /\ \A u \in Tui!Turn : u # t => stage'[u] = stage[u] /\ sent'[u] = sent[u]
        BY <3>1 DEF TuiTyped
      <4> QED
        BY <3>1, <4>2, <4>3, <4>4
    <3>2. CASE /\ stage[t] = "running" /\ stage' = [stage EXCEPT ![t] = "ended"]
               /\ \E failed \in BOOLEAN :
                    Tui!Receives([type |-> "terminal", turn |-> t, failed |-> failed])
               /\ UNCHANGED sent
      <4>1. PICK failed \in BOOLEAN :
              Tui!Receives([type |-> "terminal", turn |-> t, failed |-> failed])
        BY <3>2
      <4> DEFINE m == [type |-> "terminal", turn |-> t, failed |-> failed]
      <4>2. m \in Tui!Message /\ m.type = "terminal" /\ m.turn = t
        BY DEF Tui!Message
      <4>3. loop' = Append(loop, m)
        BY <4>1 DEF Tui!Receives
      <4> HIDE DEF m
      <4>4. stage'[t] = "ended" /\ sent'[t] = sent[t]
            /\ \A u \in Tui!Turn : u # t => stage'[u] = stage[u] /\ sent'[u] = sent[u]
        BY <3>2 DEF TuiTyped
      <4> QED
        BY <3>2, <4>2, <4>3, <4>4
    <3>3. CASE \E type \in {"end", "error"} :
                 /\ stage' = [stage EXCEPT ![t] = "finished"]
                 /\ Tui!Receives([type |-> type]) /\ UNCHANGED sent
      <4>1. PICK type \in {"end", "error"} :
              /\ stage' = [stage EXCEPT ![t] = "finished"]
              /\ Tui!Receives([type |-> type]) /\ UNCHANGED sent
        BY <3>3
      <4> DEFINE m == [type |-> type]
      <4>2. m \in Tui!Message /\ ~ Coming(m)
        BY DEF Tui!Message, Coming
      <4>3. loop' = Append(loop, m)
        BY <4>1 DEF Tui!Receives
      <4> HIDE DEF m
      <4>4. stage'[t] = "finished" /\ sent'[t] = sent[t]
            /\ \A u \in Tui!Turn : u # t => stage'[u] = stage[u] /\ sent'[u] = sent[u]
        BY <4>1 DEF TuiTyped
      <4> QED
        BY <4>2, <4>3, <4>4
    <3> QED
      BY <1>9, <3>1, <3>2, <3>3 DEF Tui!Yield
  <2>4. PICK m \in Tui!Message :
          /\ loop' = Append(loop, m)
          /\ \A u \in Tui!Turn : u # t => stage'[u] = stage[u] /\ sent'[u] = sent[u]
          /\ stage[t] \in {"ended", "finished"} =>
               ~ Coming(m) /\ stage'[t] = "finished" /\ sent'[t] = sent[t]
          /\ stage[t] = "running" /\ Coming(m) => m.turn = t
          /\ \/ m.type = "chunk" /\ stage'[t] = "running" /\ sent'[t] = sent[t] + 1 /\ m.n = sent'[t]
             \/ m.type = "terminal" /\ stage'[t] = "ended" /\ sent'[t] = sent[t]
             \/ ~ Coming(m) /\ stage'[t] = "finished" /\ sent'[t] = sent[t]
    BY <2>3
  <2>5. TurnsInOrder'
    <3>1. ASSUME NEW u \in Tui!Turn, u < gen PROVE stage'[u] \in {"ended", "finished"}
      BY <2>4, <3>1 DEF TurnsInOrder
    <3> QED
      BY <2>1, <3>1 DEF TurnsInOrder
  <2>6. OnePull'
    <3>1. CASE t = gen
      <4>1. gen # 0 /\ gen' = gen /\ pulls[gen] # 0
        BY <2>1, <2>2, <3>1
      <4>2. CASE stage[t] = "running"
        <5>1. pulls[t] = 1 /\ pending = Upto(t, sent[t])
          BY <2>1, <2>2, <3>1, <4>2 DEF OnePull
        <5>2. pulls'[gen] = 0
          BY <2>1, <3>1, <5>1 DEF TuiTyped
        <5>3. m.type = "chunk" => pending' = Upto(t, sent'[t] - 1)
          <6>1. sent[t] \in Nat
            BY DEF TuiTyped
          <6>2. m.type = "chunk" => sent'[t] = sent[t] + 1
            BY <2>4 DEF Coming
          <6>3. m.type = "chunk" => sent'[t] - 1 = sent[t]
            BY <6>1, <6>2
          <6> QED
            BY <2>1, <5>1, <6>3
        <5>4. m.type = "terminal" => pending' = Upto(t, sent'[t])
          BY <2>1, <2>4, <5>1 DEF Coming
        <5>5. Coming(m) => Due(m)'
          BY <2>4, <3>1, <4>1, <4>2, <5>2, <5>3, <5>4 DEF Due, Coming
        <5> QED
          BY <2>4, <4>1, <5>2, <5>5, AnswersDue
      <4>3. CASE stage[t] # "running"
        <5>1. ~ Coming(m) /\ stage'[gen] = "finished"
          BY <2>2, <2>4, <3>1, <4>3 DEF TuiTyped
        <5> QED
          BY <2>4, <4>1, <5>1, AnswersDue
      <4> QED
        BY <4>2, <4>3
    <3>2. CASE t < gen
      <4>1. gen \in Tui!Turn /\ gen # t
        BY <1>0, <2>2, <3>2
      <4>2. ~ Coming(m)
        BY <2>4, <3>2 DEF TurnsInOrder
      <4>3. pulls'[gen] = pulls[gen] /\ stage'[gen] = stage[gen] /\ sent'[gen] = sent[gen]
        BY <2>1, <2>4, <4>1 DEF TuiTyped
      <4> QED
        BY <2>1, <2>4, <4>2, <4>3, OnePullKept
    <3> QED
      BY <2>2, <3>1, <3>2
  <2>7. Transcript'
    <3>1. \A u \in 1..gen : stage[u] \in {"ended", "finished"} =>
            stage'[u] \in {"ended", "finished"} /\ sent'[u] = sent[u]
      BY <1>0, <2>4
    <3> QED
      BY <1>0, <1>1, <2>1, <3>1, TranscriptKept
  <2> QED
    BY <2>5, <2>6, <2>7
\* update(): a message that is no piece and no terminal chunk.
<1>10. CASE Tui!OnEnd \/ Tui!OnError \/ Tui!OnTool
  <2>1. /\ loop # <<>> /\ loop' = Tail(loop)
        /\ UNCHANGED entries \/ (\E role \in {"system", "tool"} : Tui!Says([role |-> role]))
        /\ UNCHANGED <<ready, pending, gen, stage, sent, pulls>>
    BY <1>10 DEF Tui!OnEnd, Tui!OnError, Tui!OnTool, Tui!Handles
  <2>2. [type |-> "end"] \in Tui!Message /\ ~ Coming([type |-> "end"])
    BY DEF Tui!Message, Coming
  <2>3. OnePull'
    BY <2>1, <2>2, OnePullKept
  <2>4. Transcript' /\ TurnsInOrder'
    BY <1>2, <1>4, <2>1
  <2> QED
    BY <2>3, <2>4
\* update(): a piece or a terminal chunk is taken, and the latest turn is pulled again.
<1>11. ASSUME loop # <<>>, Coming(Head(loop)), loop' = Tail(loop), Tui!Pull(gen),
              UNCHANGED <<gen, stage, sent>>,
              stage[gen] = "running" => pending' = Upto(gen, sent[gen])
       PROVE  TurnsInOrder' /\ OnePull'
  <2>1. /\ gen # 0 /\ pulls[gen] = 0
        /\ \A i \in 1..Len(loop') : ~ Coming(loop'[i])
    BY <1>11, TakesDue DEF Due
  <2>2. pulls'[gen] = 1
    BY <1>0, <1>11, <2>1 DEF Tui!Pull, TuiTyped
  <2>3. TurnsInOrder'
    BY <1>11 DEF TurnsInOrder
  <2>4. OnePull'
    BY <1>11, <2>1, <2>2 DEF OnePull
  <2> QED
    BY <2>3, <2>4
<1>12. CASE Tui!OnChunk
  <2> DEFINE msg == Head(loop)
  <2>1. /\ loop # <<>> /\ msg.type = "chunk" /\ loop' = Tail(loop) /\ Tui!Pull(gen)
        /\ pending' = Append(pending, <<msg.turn, msg.n>>)
        /\ UNCHANGED <<ready, entries, gen, stage, sent>>
    BY <1>12 DEF Tui!OnChunk, Tui!Handles
  <2>2. Coming(msg)
    BY <2>1 DEF Coming
  <2>3. msg \in Tui!Message /\ Due(msg)
    BY <2>1, <2>2, TakesDue
  <2>4. TurnsInOrder' /\ OnePull'
    <3> HIDE DEF msg
    <3>1. msg.n \in 1..Pieces
      BY <2>1, <2>3 DEF Tui!Message
    <3>2. /\ msg.turn = gen /\ msg.n = sent[gen] /\ sent[gen] \in Nat \ {0}
          /\ pending = Upto(gen, sent[gen] - 1)
      BY <2>1, <2>3, <3>1 DEF Due
    <3>3. pending' = Upto(gen, sent[gen])
      BY <2>1, <3>2 DEF Upto
    <3> QED
      BY <1>11, <2>1, <2>2, <3>3 DEF msg
  <2> QED
    BY <1>2, <2>1, <2>4
<1>13. CASE Tui!OnTerminal
  <2> DEFINE msg == Head(loop)
             reply == Tui!Reply(msg)
             e == [role |-> "assistant", of |-> reply]
  <2>1. /\ loop # <<>> /\ msg.type = "terminal" /\ loop' = Tail(loop) /\ Tui!Pull(gen)
        /\ pending' = <<>> /\ UNCHANGED <<ready, gen, stage, sent>>
        /\ UNCHANGED entries \/ (reply # <<>> /\ Tui!Says(e))
    BY <1>13 DEF Tui!OnTerminal, Tui!Handles, Tui!Commit
  <2>2. Coming(msg)
    BY <2>1 DEF Coming
  <2>3. msg \in Tui!Message /\ Due(msg)
    BY <2>1, <2>2, TakesDue
  <2>4. reply = pending \/ reply = Append(pending, <<msg.turn, 0>>)
    BY DEF Tui!Reply
  <2> HIDE DEF reply
  <2>5. TurnsInOrder' /\ OnePull'
    <3>1. stage[gen] # "running"
      BY <2>1, <2>3 DEF Due
    <3> QED
      BY <1>11, <2>1, <2>2, <3>1
  <2> HIDE DEF msg
  <2>6. gen # 0 /\ stage[gen] = "ended" /\ msg.turn = gen /\ pending = Upto(gen, sent[gen])
    BY <2>1, <2>3 DEF Due
  <2>7. CASE UNCHANGED entries
    BY <1>2, <2>1, <2>5, <2>7
  <2>8. CASE reply # <<>> /\ Tui!Says(e)
    <3>1. /\ reply \in {Tui!Given(gen), Append(Tui!Given(gen), <<gen, 0>>)}
          /\ reply \in Seq(Tui!Piece) /\ reply[1][1] = gen
      <4>1. Tui!Given(gen) = pending /\ pending \in Seq(Tui!Piece)
        BY <2>6 DEF Tui!Given, Upto, TuiTyped
      <4>2. reply = pending \/ reply = Append(pending, <<gen, 0>>)
        BY <2>4, <2>6
      <4>3. <<gen, 0>> \in Tui!Piece
        BY <1>0, <2>6 DEF Tui!Piece
      <4>4. Append(pending, <<gen, 0>>) \in Seq(Tui!Piece)
        BY <4>1, <4>3
      <4>5. sent[gen] \in Nat /\ Len(pending) = sent[gen]
        BY <1>0, <2>6 DEF Upto, TuiTyped
      <4>6. \A n \in 1..sent[gen] : pending[n] = <<gen, n>>
        BY <2>6 DEF Upto
      <4>7. reply[1][1] = gen
        <5>1. CASE sent[gen] = 0
          BY <2>8, <4>1, <4>2, <4>5, <5>1, EmptySeq
        <5>2. CASE sent[gen] # 0
          BY <4>1, <4>2, <4>3, <4>5, <4>6, <5>2, Appended
        <5> QED
          BY <5>1, <5>2
      <4> QED
        BY <4>1, <4>2, <4>4, <4>7
    <3>2. e \in Tui!Entry /\ e.of = reply /\ e.role = "assistant"
      BY <3>1 DEF Tui!Entry
    <3> HIDE DEF e
    <3>3. /\ Grows /\ Len(entries') = Len(entries) + 1 /\ entries'[Len(entries) + 1] = e
          /\ \A i \in 1..Len(entries') : i <= Len(entries) \/ (i = Len(entries) + 1 /\ entries'[i] = e)
      BY <1>3, <2>8, <3>2
    <3>4. ASSUME NEW i \in 1..Len(entries'), i > Len(entries), NEW t, t = gen
          PROVE  entries'[i].role = "assistant" /\ ReplyOf(i, t)'
      <4>1. i = Len(entries) + 1 /\ entries'[i] = e /\ \A j \in 1..(i - 1) : j \in 1..Len(entries)
        BY <1>0, <3>3, <3>4
      <4>2. Tui!Given(t)' = Tui!Given(gen)
        BY <2>1, <3>4 DEF Tui!Given
      <4>3. \E q \in 1..(i - 1) : Asked(entries'[q], gen)
        BY <2>6, <3>3, <4>1 DEF Transcript, Grows
      <4>4. ASSUME NEW j \in 1..(i - 1), entries'[j].role = "user"
            PROVE  entries'[j].turn <= gen
        <5>1. entries'[j] = entries[j] /\ entries[j].turn \in 1..gen
          BY <3>3, <4>1, <4>4 DEF Transcript, Grows
        <5> QED
          BY <1>0, <5>1
      <4> QED
        BY <2>1, <2>6, <3>1, <3>2, <3>4, <4>1, <4>2, <4>3, <4>4 DEF ReplyOf
    <3>5. Transcript'
      <4>1. ready' # "booting" \/ gen = 0
        BY <2>1 DEF Transcript
      <4>2. \E q \in 1..Len(entries') : Asked(entries'[q], gen)
        BY <2>6, <3>3 DEF Transcript, Grows
      <4>3. ASSUME NEW i \in 1..Len(entries')
            PROVE  /\ entries'[i].role = "user" => entries'[i].turn \in 1..gen
                   /\ entries'[i].role = "assistant" => \E t \in 1..gen : ReplyOf(i, t)'
        <5>1. CASE i > Len(entries)
          <6>1. gen \in 1..gen
            BY <1>0, <2>6
          <6>2. entries'[i].role = "assistant" /\ \A t : t = gen => ReplyOf(i, t)'
            BY <3>4, <5>1
          <6> QED
            BY <6>1, <6>2
        <5>2. CASE i <= Len(entries)
          <6>1. i \in 1..Len(entries) /\ entries'[i] = entries[i]
            BY <3>3, <5>2 DEF Grows
          <6>2. ASSUME NEW t \in 1..gen, ReplyOf(i, t) PROVE ReplyOf(i, t)'
            <7>1. stage'[t] \in {"ended", "finished"} /\ sent'[t] = sent[t]
              BY <2>1, <6>2 DEF ReplyOf
            <7> QED
              BY <3>3, <6>1, <6>2, <7>1, ReplyKept
          <6> QED
            BY <6>1, <6>2 DEF Transcript
        <5> QED
          BY <1>0, <3>3, <5>1, <5>2
      <4> QED
        BY <2>1, <4>1, <4>2, <4>3 DEF Transcript
    <3> QED
      BY <2>5, <3>5
  <2> QED
    BY <2>1, <2>7, <2>8
<1> QED
  BY <1>5, <1>6, <1>7, <1>8, <1>9, <1>10, <1>12, <1>13 DEF Tui!Next, Tui!Update

(* Every step of the terminal app keeps the inductive invariant. *)
LEMMA TuiInvInductive ==
  ASSUME TuiInv, [Tui!Next]_tvars
  PROVE  TuiInv'
<1>1. TuiTyped' /\ Begun'
  BY TuiTypedInductive DEF TuiInv
<1>2. ~ typedOver' => ~ typedOver
  BY DEF Tui!Next, Tui!Boot, Tui!Update, Tui!OnChunk, Tui!OnTerminal, Tui!OnEnd, Tui!OnError,
         Tui!OnTool, Tui!Quit, Tui!Submit, Tui!Yield, Tui!Tool, tvars
<1> QED
  BY <1>1, <1>2, OrderedInductive DEF TuiInv

(* The terminal app starts with an empty transcript. *)
LEMMA TuiInvInit == Tui!Init => TuiInv
<1> SUFFICES ASSUME Tui!Init PROVE TuiInv
  OBVIOUS
<1> USE BoundsAreNumbers DEF Tui!Init
<1>1. TuiTyped
  <2>1. <<>> \in Seq(Tui!Message) /\ <<>> \in Seq(Tui!Entry) /\ <<>> \in Seq(Tui!Piece)
    OBVIOUS
  <2>2. gen \in 0..Turns /\ sent \in [Tui!Turn -> 0..Pieces] /\ pulls \in [Tui!Turn -> Nat]
    OBVIOUS
  <2>3. stage \in [Tui!Turn -> {"none", "running", "ended", "finished"}]
    OBVIOUS
  <2>4. streaming \in BOOLEAN /\ typedOver \in BOOLEAN
    OBVIOUS
  <2> QED
    BY <2>1, <2>2, <2>3, <2>4 DEF TuiTyped
<1>2. Begun /\ TurnsInOrder
  BY DEF Begun, TurnsInOrder, Tui!Turn
<1>3. OnePull /\ Transcript
  BY DEF OnePull, Transcript
<1> QED
  BY <1>1, <1>2, <1>3 DEF TuiInv, Ordered

\* P2PTui, for any number of turns and pieces: unless a question was asked over a reply that
\* was coming, every reply of the transcript is the whole of one turn's, after its question.
THEOREM RepliesAreWhole == Spec => []RepliesWhole
<1>1. Init => TuiInv
  BY TuiInvInit DEF Init
<1>2. TuiInv /\ [Next]_vars => TuiInv'
  BY TuiInvInductive DEF Next, vars, tvars
<1> QED
  BY <1>1, <1>2, TuiInvReplies, PTL DEF Spec

-----------------------------------------------------------------------------
(***************************************************************************)
(* The types of the other three, each inductive by itself.                 *)
(***************************************************************************)
(* Every step of the collaboration keeps its variables' types. *)
LEMMA CollabTypedInductive ==
  ASSUME Collab!TypeOK, [Collab!Next]_cvars
  PROVE  Collab!TypeOK'
<1> USE RoundsAreNumbers
<1>0. /\ Collab!Max \in Nat \ {0} /\ conn \in Nat
      /\ \A a \in Collab!Agent : wire[a] \in Seq(1..Collab!Max) /\ Collab!Partner(a) \in Collab!Agent
  BY DEF Collab!TypeOK, Collab!Max, Collab!Partner, Collab!Agent
<1>1. CASE UNCHANGED cvars
  BY <1>1 DEF cvars, Collab!TypeOK
<1>2. CASE Collab!Connect
  <2>1. /\ conn' = conn + 1 /\ conn' \in 0..MaxConns /\ conn' > 0 /\ linked' = TRUE /\ started' = TRUE
        /\ UNCHANGED <<wire, cat, clost, caborted>>
    BY <1>0, <1>2 DEF Collab!Connect, Collab!Meeting
  <2>2. [round |-> 1, on |-> conn'] \in Collab!RoundOn /\ "alice" \in Collab!Agent
    BY <1>0, <2>1 DEF Collab!RoundOn, Collab!Agent
  <2>3. asking' \in [Collab!Agent -> SUBSET Collab!RoundOn]
    BY <1>2, <2>2 DEF Collab!Connect, Collab!TypeOK
  <2>4. started' = (conn' > 0)
    BY <2>1
  <2> QED
    BY <2>1, <2>3, <2>4 DEF Collab!TypeOK
<1>3. CASE Collab!Drop
  <2>1. wire' \in [Collab!Agent -> Seq(1..Collab!Max)] /\ \A a \in Collab!Agent : wire'[a] = <<>>
    BY <1>3 DEF Collab!Drop, Collab!Unlinked
  <2> QED
    BY <1>3, <2>1 DEF Collab!Drop, Collab!Unlinked, Collab!TypeOK
<1>4. ASSUME NEW b \in Collab!Agent, Collab!Answer(b)
      PROVE  Collab!TypeOK'
  <2>1. PICK t \in asking[b] :
          /\ asking' = [asking EXCEPT ![b] = @ \ {t}]
          /\ \/ linked /\ wire' = [wire EXCEPT ![Collab!Partner(b)] = Append(@, t.round)] /\ UNCHANGED clost
             \/ clost' = TRUE /\ UNCHANGED wire
          /\ cat' = [cat EXCEPT ![b] = IF t.round >= Collab!Max THEN "done" ELSE @]
    BY <1>4 DEF Collab!Answer
  <2>2. t.round \in 1..Collab!Max
    BY <2>1 DEF Collab!TypeOK, Collab!RoundOn
  <2>3. asking' \in [Collab!Agent -> SUBSET Collab!RoundOn] /\ clost' \in BOOLEAN
        /\ cat' \in [Collab!Agent -> {"active", "done", "left"}]
    BY <2>1 DEF Collab!TypeOK
  <2>4. wire' \in [Collab!Agent -> Seq(1..Collab!Max)]
        /\ \A a \in Collab!Agent : wire'[a] # <<>> => linked
    <3>1. Append(wire[Collab!Partner(b)], t.round) \in Seq(1..Collab!Max)
      BY <1>0, <2>2
    <3>2. \A a \in Collab!Agent :
            /\ wire'[a] = wire[a]
               \/ (linked /\ wire'[a] = Append(wire[Collab!Partner(b)], t.round))
            /\ wire'[a] \in Seq(1..Collab!Max)
      BY <1>0, <2>1, <3>1 DEF Collab!TypeOK
    <3>3. wire' \in [Collab!Agent -> Seq(1..Collab!Max)]
      <4> HIDE DEF Collab!Max
      <4>1. wire \in [Collab!Agent -> Seq(1..Collab!Max)]
        BY DEF Collab!TypeOK
      <4>2. CASE UNCHANGED wire
        BY <4>1, <4>2
      <4>3. CASE wire' = [wire EXCEPT ![Collab!Partner(b)] = Append(@, t.round)]
        BY <1>0, <3>1, <4>1, <4>3
      <4> QED
        BY <2>1, <4>2, <4>3
    <3> QED
      BY <3>2, <3>3 DEF Collab!TypeOK
  <2> QED
    BY <1>4, <2>3, <2>4 DEF Collab!Answer, Collab!TypeOK
<1>5. ASSUME NEW b \in Collab!Agent, Collab!Abort(b)
      PROVE  Collab!TypeOK'
  BY <1>5 DEF Collab!Abort, Collab!TypeOK
<1>6. ASSUME NEW b \in Collab!Agent, Collab!OnMessage(b)
      PROVE  Collab!TypeOK'
  <2> DEFINE r == Head(wire[b]) + 1
  <2>1. /\ wire[b] # <<>> /\ wire' = [wire EXCEPT ![b] = Tail(@)]
        /\ asking' = IF cat[b] = "active" /\ r <= Collab!Max
                       THEN [asking EXCEPT ![b] = @ \cup {[round |-> r, on |-> conn]}] ELSE asking
        /\ cat' = [cat EXCEPT ![b] = IF @ = "active" /\ r > Collab!Max THEN "done" ELSE @]
        /\ UNCHANGED <<conn, linked, started, clost, caborted>>
    BY <1>6 DEF Collab!OnMessage
  <2>2. Head(wire[b]) \in 1..Collab!Max /\ Tail(wire[b]) \in Seq(1..Collab!Max) /\ linked
    BY <1>0, <2>1, HeadTailProperties DEF Collab!TypeOK
  <2>3. conn \in 1..MaxConns
    BY <1>0, <2>2 DEF Collab!TypeOK
  <2>4. r \in Nat /\ r >= 1
    BY <1>0, <2>2
  <2> HIDE DEF r
  <2>5. r <= Collab!Max => [round |-> r, on |-> conn] \in Collab!RoundOn
    BY <1>0, <2>3, <2>4 DEF Collab!RoundOn
  <2>6. asking' \in [Collab!Agent -> SUBSET Collab!RoundOn]
    BY <2>1, <2>5 DEF Collab!TypeOK
  <2>7. wire' \in [Collab!Agent -> Seq(1..Collab!Max)]
    BY <2>1, <2>2 DEF Collab!TypeOK
  <2>8. cat' \in [Collab!Agent -> {"active", "done", "left"}]
    BY <2>1 DEF Collab!TypeOK
  <2> QED
    BY <2>1, <2>2, <2>6, <2>7, <2>8 DEF Collab!TypeOK
<1>7. ASSUME NEW b \in Collab!Agent, Collab!Leave(b)
      PROVE  Collab!TypeOK'
  <2>1. wire' \in [Collab!Agent -> Seq(1..Collab!Max)] /\ \A a \in Collab!Agent : wire'[a] = <<>>
    BY <1>7 DEF Collab!Leave, Collab!Unlinked
  <2> QED
    BY <1>7, <2>1 DEF Collab!Leave, Collab!Unlinked, Collab!TypeOK
<1> QED
  BY <1>1, <1>2, <1>3, <1>4, <1>5, <1>6, <1>7 DEF Collab!Next

(* The collaboration starts with its variables' types. *)
LEMMA CollabTypedInit == Collab!Init => Collab!TypeOK
<1> SUFFICES ASSUME Collab!Init PROVE Collab!TypeOK
  OBVIOUS
<1>1. /\ wire \in [Collab!Agent -> Seq(1..Collab!Max)] /\ \A a \in Collab!Agent : wire[a] = <<>>
      /\ asking \in [Collab!Agent -> SUBSET Collab!RoundOn]
  BY DEF Collab!Init
<1>2. conn \in 0..MaxConns
  BY RoundsAreNumbers DEF Collab!Init
<1>3. started = (conn > 0)
  <2>1. conn = 0 /\ started = FALSE
    BY DEF Collab!Init
  <2>2. (conn > 0) = FALSE
    BY <2>1
  <2> QED
    BY <2>1, <2>2, Zenon
<1> QED
  BY <1>1, <1>2, <1>3 DEF Collab!Init, Collab!TypeOK

(* Every step of the shared board keeps its variables' types. *)
LEMMA SharedTypedInductive ==
  ASSUME Shared!TypeOK, [Shared!Next]_bvars
  PROVE  Shared!TypeOK'
<1>0. <<>> \in Seq(BoardAgent) /\ <<>> \in Seq(Seq(BoardAgent))
  OBVIOUS
<1>1. CASE UNCHANGED bvars
  BY <1>1 DEF bvars, Shared!TypeOK
<1>2. CASE Shared!Finish
  BY <1>0, <1>2 DEF Shared!Finish, Shared!TypeOK
<1>3. ASSUME NEW a \in BoardAgent, Shared!Think(a) \/ Shared!Accept(a) \/ Shared!Abort(a)
      PROVE  Shared!TypeOK'
  BY <1>3 DEF Shared!Think, Shared!Accept, Shared!Abort, Shared!TypeOK
<1>4. ASSUME NEW a \in BoardAgent, Shared!Open(a)
      PROVE  Shared!TypeOK'
  <2>1. Append(bup[a], a) \in Seq(BoardAgent)
    BY DEF Shared!TypeOK
  <2> QED
    BY <1>4, <2>1 DEF Shared!Open, Shared!TypeOK
<1>5. ASSUME NEW a \in BoardAgent, Shared!HubReads(a)
      PROVE  Shared!TypeOK'
  <2>1. /\ bup[a] # <<>> /\ bup' = [bup EXCEPT ![a] = Tail(@)] /\ board' = Append(board, Head(bup[a]))
        /\ bdown' = [c \in BoardAgent |-> IF c \in bconns THEN Append(bdown[c], board') ELSE bdown[c]]
        /\ UNCHANGED <<bat, bconns, bfinal, bmain, blost>>
    BY <1>5 DEF Shared!HubReads
  <2>2. Head(bup[a]) \in BoardAgent /\ Tail(bup[a]) \in Seq(BoardAgent)
    BY <2>1, HeadTailProperties DEF Shared!TypeOK
  <2>3. board' \in Seq(BoardAgent)
    BY <2>1, <2>2 DEF Shared!TypeOK
  <2>4. \A c \in BoardAgent : bdown'[c] \in Seq(Seq(BoardAgent))
    BY <2>1, <2>3, Appended DEF Shared!TypeOK
  <2>5. bdown' \in [BoardAgent -> Seq(Seq(BoardAgent))] /\ bup' \in [BoardAgent -> Seq(BoardAgent)]
    BY <2>1, <2>2, <2>4 DEF Shared!TypeOK
  <2> QED
    BY <2>1, <2>3, <2>5 DEF Shared!TypeOK
<1>6. ASSUME NEW a \in BoardAgent, Shared!AgentReads(a)
      PROVE  Shared!TypeOK'
  <2>1. /\ bdown[a] # <<>> /\ bdown' = [bdown EXCEPT ![a] = Tail(@)]
        /\ \/ bat' = [bat EXCEPT ![a] = "through"] /\ bfinal' = [bfinal EXCEPT ![a] = Head(bdown[a])]
           \/ UNCHANGED <<bat, bfinal>>
        /\ UNCHANGED <<bconns, board, bup, bmain, blost>>
    BY <1>6 DEF Shared!AgentReads
  <2>2. Head(bdown[a]) \in Seq(BoardAgent) /\ Tail(bdown[a]) \in Seq(Seq(BoardAgent))
    BY <2>1, HeadTailProperties DEF Shared!TypeOK
  <2>3. bdown' \in [BoardAgent -> Seq(Seq(BoardAgent))]
    BY <2>1, <2>2 DEF Shared!TypeOK
  <2>4. bfinal' \in [BoardAgent -> Seq(BoardAgent)]
    BY <2>1, <2>2 DEF Shared!TypeOK
  <2>5. bat' \in [BoardAgent -> {"thinking", "connecting", "posted", "through", "cut"}]
        /\ \A c \in BoardAgent : bat'[c] = "cut" => bat[c] = "cut"
    BY <2>1 DEF Shared!TypeOK
  <2> QED
    BY <2>1, <2>3, <2>4, <2>5 DEF Shared!TypeOK
<1>7. ASSUME NEW a \in BoardAgent, Shared!Drop(a)
      PROVE  Shared!TypeOK'
  BY <1>0, <1>7 DEF Shared!Drop, Shared!TypeOK
<1> QED
  BY <1>1, <1>2, <1>3, <1>4, <1>5, <1>6, <1>7 DEF Shared!Next, Shared!AgentStep

(* The shared board starts with its variables' types. *)
LEMMA SharedTypedInit == Shared!Init => Shared!TypeOK
<1>1. <<>> \in Seq(BoardAgent) /\ <<>> \in Seq(Seq(BoardAgent))
  OBVIOUS
<1> QED
  BY <1>1 DEF Shared!Init, Shared!TypeOK

(* Every step of the code review keeps its variables' types. *)
LEMMA ReviewTypedInductive ==
  ASSUME Review!TypeOK, [Review!Next]_rvars
  PROVE  Review!TypeOK'
<1> DEFINE Down  == {Review!Task} \cup {Review!Board(n) : n \in 0..Len(reviews)}
           Filing == Review!AReview \cup Review!Verdict
<1>0. /\ <<>> \in Seq(Down) /\ <<>> \in Seq(Filing) /\ Len(reviews) \in Nat
      /\ Review!Task \in Down /\ Review!Board(Len(reviews)) \in Down
  BY DEF Review!TypeOK
\* main, the agents, what is sent: with the reviews unchanged the report stays what it says.
<1>1. ASSUME UNCHANGED <<reviews, report>>,
             rmain' = rmain \/ (Review!Running /\ rmain' \in
               {"panel", "allIn", "correlator", "correlated", "aborted"}),
             ragent' \in [Review!Client -> {"none", "making", "connecting", "waiting", "asking", "filed"}],
             rconns' \subseteq Review!Client, correlation' \in BOOLEAN, rlost' \in BOOLEAN,
             rup' \in [Review!Client -> Seq(Filing)], rdown' \in [Review!Client -> Seq(Down)]
      PROVE  Review!TypeOK'
  <2>1. report' = IF rmain' \in {"cleanup", "done"}
                    THEN [rows |-> Review!Summarize(reviews), items |-> Review!ActionItems(reviews)]
                    ELSE Review!Nothing
    BY <1>1 DEF Review!TypeOK, Review!Running
  <2>2. Review!Summarize(reviews)' = Review!Summarize(reviews)
        /\ Review!ActionItems(reviews)' = Review!ActionItems(reviews)
    BY <1>1
  <2>3. rmain' \in {"panel", "allIn", "correlator", "correlated", "cleanup", "done", "aborted"}
    BY <1>1 DEF Review!TypeOK
  <2> QED
    BY <1>1, <2>1, <2>2, <2>3 DEF Review!TypeOK
<1>2. ASSUME NEW a \in Review!Client
      PROVE  rup[a] \in Seq(Filing) /\ rdown[a] \in Seq(Down)
  BY DEF Review!TypeOK
<1>3. CASE UNCHANGED rvars
  BY <1>1, <1>3 DEF rvars, Review!TypeOK
<1>4. ASSUME NEW a \in Review!Client, Review!Make(a) \/ Review!Abort(a)
      PROVE  Review!TypeOK'
  <2>1. ragent' \in [Review!Client -> {"none", "making", "connecting", "waiting", "asking", "filed"}]
    BY <1>4 DEF Review!Make, Review!Abort, Review!TypeOK
  <2> QED
    BY <1>1, <1>4, <2>1 DEF Review!Make, Review!Abort, Review!net, Review!TypeOK
<1>5. ASSUME NEW a \in Review!Client, rdown[a] # <<>>, rdown' = [rdown EXCEPT ![a] = Tail(@)],
             ragent' = [ragent EXCEPT ![a] = "asking"] \/ UNCHANGED ragent,
             UNCHANGED <<rmain, rconns, rup, reviews, correlation, report, rlost>>
      PROVE  Review!TypeOK'
  <2>1. Tail(rdown[a]) \in Seq(Down)
    BY <1>2, <1>5, HeadTailProperties
  <2>2. rdown' \in [Review!Client -> Seq(Down)]
        /\ ragent' \in [Review!Client -> {"none", "making", "connecting", "waiting", "asking", "filed"}]
    BY <1>5, <2>1 DEF Review!TypeOK
  <2> QED
    BY <1>1, <1>5, <2>2 DEF Review!TypeOK
<1>6. ASSUME NEW s \in Review!Specs, Review!ReadReviewer(s)
      PROVE  Review!TypeOK'
  BY <1>5, <1>6, CorrelatorIsNoSpec DEF Review!ReadReviewer
<1>7. CASE Review!ReadCorrelator
  BY <1>5, <1>7, CorrelatorIsNoSpec DEF Review!ReadCorrelator
<1>8. ASSUME NEW a \in Review!Client, Review!Ask(a)
      PROVE  Review!TypeOK'
  <2>1. PICK text \in Answers :
          Review!Write(a, [type |-> IF a \in Review!Specs THEN "review" ELSE "correlation",
                           from |-> a, review |-> IF text = {} THEN {"prose"} ELSE text])
    BY <1>8 DEF Review!Ask
  <2> DEFINE m == [type |-> IF a \in Review!Specs THEN "review" ELSE "correlation",
                   from |-> a, review |-> IF text = {} THEN {"prose"} ELSE text]
  <2>2. m \in Filing
    BY DEF Review!AReview, Review!Verdict, Review!AText, Review!Client
  <2> HIDE DEF m
  <2>3. Append(rup[a], m) \in Seq(Filing)
    BY <1>2, <2>2, Appended
  <2>4. rup' \in [Review!Client -> Seq(Filing)]
    BY <1>2, <2>1, <2>3 DEF Review!Write, Review!TypeOK, m
  <2>5. ragent' \in [Review!Client -> {"none", "making", "connecting", "waiting", "asking", "filed"}]
    BY <1>8 DEF Review!Ask, Review!TypeOK
  <2> QED
    BY <1>1, <1>8, <2>4, <2>5 DEF Review!Ask, Review!TypeOK
<1>9. ASSUME NEW a \in Review!Client, Review!Accept(a)
      PROVE  Review!TypeOK'
  <2>1. <<Review!Task, Review!Board(Len(reviews))>> \in Seq(Down)
    <3> HIDE DEF Down
    <3> QED
      BY <1>0
  <2>2. rdown' \in [Review!Client -> Seq(Down)]
        /\ ragent' \in [Review!Client -> {"none", "making", "connecting", "waiting", "asking", "filed"}]
    BY <1>9, <2>1 DEF Review!Accept, Review!TypeOK
  <2> QED
    BY <1>1, <1>9, <2>2 DEF Review!Accept, Review!TypeOK
<1>10. ASSUME NEW a \in Review!Client, Review!Drop(a)
       PROVE  Review!TypeOK'
  <2>1. /\ rdown' \in [Review!Client -> Seq(Down)] /\ rup' \in [Review!Client -> Seq(Filing)]
        /\ ragent' \in [Review!Client -> {"none", "making", "connecting", "waiting", "asking", "filed"}]
    BY <1>0, <1>10 DEF Review!Drop, Review!TypeOK
  <2> QED
    BY <1>1, <1>10, <2>1 DEF Review!Drop, Review!TypeOK
<1>11. ASSUME NEW a \in Review!Client, Review!HubReads(a)
       PROVE  Review!TypeOK'
  <2>1. /\ Review!Running /\ rup[a] # <<>> /\ rup' = [rup EXCEPT ![a] = Tail(@)]
        /\ UNCHANGED <<rmain, ragent, rconns, report, rlost>>
    BY <1>11 DEF Review!HubReads
  <2>2. Head(rup[a]) \in Filing /\ Tail(rup[a]) \in Seq(Filing)
    BY <1>2, <2>1, HeadTailProperties
  <2>3. rup' \in [Review!Client -> Seq(Filing)]
    BY <2>1, <2>2 DEF Review!TypeOK
  <2>4. CASE correlation' = TRUE /\ UNCHANGED <<reviews, rdown>>
    BY <1>1, <2>1, <2>3, <2>4 DEF Review!TypeOK
  <2>5. CASE /\ Head(rup[a]).type = "review" /\ UNCHANGED correlation
             /\ reviews' = Append(reviews, Head(rup[a]))
             /\ rdown' = [c \in Review!Client |->
                            IF c \in rconns THEN Append(rdown[c], Review!Board(Len(reviews')))
                            ELSE rdown[c]]
    <3> DEFINE DownNow == {Review!Task} \cup {Review!Board(n) : n \in 0..Len(reviews')}
    <3>1. Head(rup[a]) \in Review!AReview
      BY <2>2, <2>5 DEF Review!Verdict
    <3>2. reviews' \in Seq(Review!AReview) /\ Len(reviews') = Len(reviews) + 1
      BY <2>5, <3>1, Appended DEF Review!TypeOK
    <3>3. Down \subseteq DownNow /\ Review!Board(Len(reviews')) \in DownNow
      BY <1>0, <3>2
    <3>4. ASSUME NEW c \in Review!Client PROVE rdown'[c] \in Seq(DownNow)
      <4>1. rdown[c] \in Seq(DownNow)
        <5>1. \A S, T : S \subseteq T => Seq(S) \subseteq Seq(T)
          OBVIOUS
        <5> HIDE DEF Down, DownNow
        <5> QED
          BY <1>2, <3>3, <5>1
      <4> HIDE DEF DownNow
      <4>2. Append(rdown[c], Review!Board(Len(reviews'))) \in Seq(DownNow)
        BY <3>3, <4>1, Appended
      <4> QED
        BY <2>5, <4>1, <4>2
    <3>5. rdown' \in [Review!Client -> Seq(DownNow)]
      BY <2>5, <3>4
    <3>6. rmain' \notin {"cleanup", "done"} /\ report' = Review!Nothing
      BY <2>1 DEF Review!Running, Review!TypeOK
    <3> QED
      BY <2>1, <2>3, <2>5, <3>2, <3>5, <3>6 DEF Review!TypeOK
  <2> QED
    BY <1>11, <2>4, <2>5 DEF Review!HubReads
<1>12. CASE Review!PanelMade \/ Review!CorrelatorMade
  BY <1>1, <1>12
     DEF Review!PanelMade, Review!CorrelatorMade, Review!Goto, Review!net, Review!Running,
         Review!TypeOK
<1>13. CASE Review!AllIn
  <2>1. ragent' \in [Review!Client -> {"none", "making", "connecting", "waiting", "asking", "filed"}]
    BY <1>13 DEF Review!AllIn, Review!TypeOK
  <2> QED
    BY <1>1, <1>13, <2>1 DEF Review!AllIn, Review!Goto, Review!net, Review!Running, Review!TypeOK
<1>14. CASE Review!Report
  BY <1>14 DEF Review!Report, Review!Goto, Review!net, Review!TypeOK
<1>15. CASE Review!Cleanup
  <2>1. /\ rdown' \in [Review!Client -> Seq(Down)] /\ rup' \in [Review!Client -> Seq(Filing)]
        /\ rmain = "cleanup" /\ rmain' = "done" /\ rconns' = {}
        /\ UNCHANGED <<ragent, reviews, correlation, report, rlost>>
    BY <1>0, <1>15 DEF Review!Cleanup, Review!Goto
  <2>2. Review!Summarize(reviews)' = Review!Summarize(reviews)
        /\ Review!ActionItems(reviews)' = Review!ActionItems(reviews)
    BY <2>1
  <2> QED
    BY <2>1, <2>2 DEF Review!TypeOK
<1> QED
  BY <1>3, <1>4, <1>6, <1>7, <1>8, <1>9, <1>10, <1>11, <1>12, <1>13, <1>14, <1>15
     DEF Review!Next, Review!MainStep, Review!ReadStep, Review!ClientStep

(* The code review starts with its variables' types. *)
LEMMA ReviewTypedInit == Review!Init => Review!TypeOK
<1>1. \A S : <<>> \in Seq(S)
  OBVIOUS
<1> QED
  BY <1>1 DEF Review!Init, Review!TypeOK

\* Every variable of each of the four programs keeps its type: what is on the review's board
\* and in its report, what the hubs have sent, the collaboration's turns and messages, and the
\* terminal app's transcript and loop, for every panel, board, number of rounds and of turns.
THEOREM ExamplesTyped == Spec => []TypeOK
<1> DEFINE Inv == TypeOK /\ TuiInv
<1>1. Init => Inv
  BY ReviewTypedInit, SharedTypedInit, CollabTypedInit, TuiInvInit, TuiInvTyped DEF Init, TypeOK
<1>2. Inv /\ [Next]_vars => Inv'
  <2> SUFFICES ASSUME Inv, [Next]_vars PROVE Inv'
    OBVIOUS
  <2>1. /\ [Review!Next]_rvars /\ [Shared!Next]_bvars /\ [Collab!Next]_cvars /\ [Tui!Next]_tvars
        /\ UNCHANGED program
    BY DEF Next, vars
  <2>2. TuiInv' /\ Review!TypeOK' /\ Shared!TypeOK' /\ Collab!TypeOK'
    BY <2>1, TuiInvInductive, ReviewTypedInductive, SharedTypedInductive, CollabTypedInductive
       DEF TypeOK
  <2>3. TuiInv' => Tui!TypeOK'
    BY <2>2 DEF TuiInv, TuiTyped, Begun, Tui!TypeOK
  <2> QED
    BY <2>1, <2>2, <2>3 DEF TypeOK
<1> QED
  BY <1>1, <1>2, PTL DEF Spec
=============================================================================
