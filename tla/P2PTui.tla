------------------------------- MODULE P2PTui -------------------------------
(***************************************************************************)
(* ChatApp of examples/p2p-tui.js: one user and one agent's chat stream    *)
(* around a message loop.  update() handles one message at a time; a       *)
(* command runs beside it and puts its message into the loop.  pull() asks *)
(* the generator of a turn for one chunk, and whoever handles the chunk    *)
(* pulls again: the loop of a chat is spread over messages.                *)
(*                                                                         *)
(* The user may ask again as soon as the app takes input, which is from    *)
(* the terminal chunk on, before the generator has ended: so several       *)
(* generators may be under way.  The bounds are Turns and Pieces.          *)
(***************************************************************************)
EXTENDS Naturals, Sequences, SequencesExt

CONSTANTS Turns, Pieces

Turn == 1..Turns

VARIABLES
  ready,     \* booting, ready, failed, quit
  entries,   \* the transcript: of each entry its role, and its turn or its pieces
  pending,   \* the reply accumulating
  streaming,
  gen,       \* the turn whose generator this.gen is, 0 before the first
  stage,     \* where each generator is: none, running, ended, finished
  sent,      \* the pieces of its reply a generator has given
  pulls,     \* the pulls that await each generator
  loop,      \* the messages of commands, waiting for update()
  typedOver  \* history: some question was asked while a reply was still coming

vars == <<ready, entries, pending, streaming, gen, stage, sent, pulls, loop, typedOver>>

Init ==
  /\ ready = "booting" /\ entries = <<>> /\ pending = <<>> /\ streaming = FALSE /\ gen = 0
  /\ stage = [t \in Turn |-> "none"] /\ sent = [t \in Turn |-> 0]
  /\ pulls = [t \in Turn |-> 0] /\ loop = <<>> /\ typedOver = FALSE

\* A piece of a reply is its turn's nth; an error chunk's text counts as the piece 0.
Piece == Turn \X (0..Pieces)
Entry == [role : {"user"}, turn : Turn] \cup [role : {"assistant"}, of : Seq(Piece)]
           \cup [role : {"system", "tool"}]
Message == [type : {"chunk"}, turn : Turn, n : 1..Pieces]
             \cup [type : {"terminal"}, turn : Turn, failed : BOOLEAN]
             \cup [type : {"end", "error", "tool"}]

\* Every message of the loop is one that update() has a case for; a turn that was not asked
\* has no generator to pull.
TypeOK ==
  /\ ready \in {"booting", "ready", "failed", "quit"} /\ streaming \in BOOLEAN
  /\ typedOver \in BOOLEAN
  /\ entries \in Seq(Entry) /\ pending \in Seq(Piece) /\ loop \in Seq(Message)
  /\ gen \in 0..Turns /\ stage \in [Turn -> {"none", "running", "ended", "finished"}]
  /\ sent \in [Turn -> 0..Pieces] /\ pulls \in [Turn -> Nat]
  /\ \A t \in Turn : stage[t] = "none" <=> t > gen
  /\ \A t \in Turn : stage[t] = "none" => pulls[t] = 0 /\ sent[t] = 0

-----------------------------------------------------------------------------
Receives(msg) == loop' = Append(loop, msg)
Says(entry)   == entries' = Append(entries, entry)
\* update() takes the oldest message, and may issue a pull.
Handles(type) == loop # <<>> /\ Head(loop).type = type /\ ready # "quit"
Pull(t) == pulls' = [pulls EXCEPT ![t] = @ + 1]

\* _boot resolves to 'ready', or rejects, which the runtime turns into 'error'.
Boot ==
  /\ ready = "booting"
  /\ \/ ready' = "ready" /\ entries' = <<>>
     \/ ready' = "failed" /\ entries' = <<[role |-> "system"]>>
  /\ UNCHANGED <<pending, streaming, gen, stage, sent, pulls, loop, typedOver>>

\* Whether a turn's pieces or its terminal chunk are still to come, or to be handled.
StillComing == \/ \E t \in Turn : stage[t] = "running"
               \/ \E i \in DOMAIN loop : loop[i].type \in {"chunk", "terminal"}

\* Mutant: what a failed turn left in pending stays there.
Submit_Keeps(t) ==
  /\ ready = "ready" /\ ~ streaming /\ t = gen + 1
  /\ Says([role |-> "user", turn |-> t])
  /\ streaming' = TRUE /\ gen' = t
  /\ stage' = [stage EXCEPT ![t] = "running"] /\ Pull(t)
  /\ typedOver' = (typedOver \/ StillComing)
  /\ UNCHANGED <<ready, pending, sent, loop>>

\* Enter, when idle: chat() is called and its generator pulled for the first time.
Submit(t) ==
  /\ ready = "ready" /\ ~ streaming /\ t = gen + 1
  /\ Says([role |-> "user", turn |-> t])
  /\ pending' = <<>> /\ streaming' = TRUE /\ gen' = t
  /\ stage' = [stage EXCEPT ![t] = "running"] /\ Pull(t)
  /\ typedOver' = (typedOver \/ StillComing)
  /\ UNCHANGED <<ready, sent, loop>>

\* A pull is answered: the next piece, the terminal chunk, or, once chat() has persisted,
\* the generator's end.  The stream or the persisting may throw instead.
Yield(t) ==
  /\ pulls[t] > 0 /\ pulls' = [pulls EXCEPT ![t] = @ - 1]
  /\ \/ /\ stage[t] = "running" /\ sent[t] < Pieces
        /\ sent' = [sent EXCEPT ![t] = @ + 1]
        /\ Receives([type |-> "chunk", turn |-> t, n |-> sent[t] + 1])
        /\ UNCHANGED stage
     \/ /\ stage[t] = "running" /\ stage' = [stage EXCEPT ![t] = "ended"]
        /\ \E failed \in BOOLEAN :
             Receives([type |-> "terminal", turn |-> t, failed |-> failed])
        /\ UNCHANGED sent
     \/ /\ stage[t] \in {"ended", "finished"} /\ stage' = [stage EXCEPT ![t] = "finished"]
        /\ Receives([type |-> "end"]) /\ UNCHANGED sent
     \/ /\ stage[t] \in {"running", "ended"} /\ stage' = [stage EXCEPT ![t] = "finished"]
        /\ Receives([type |-> "error"]) /\ UNCHANGED sent
  /\ UNCHANGED <<ready, entries, pending, streaming, gen, typedOver>>

\* A tool call of the agent's turn sends itself into the loop.
Tool(t) ==
  /\ stage[t] = "running" /\ ~ Contains(loop, [type |-> "tool"])
  /\ Len(SelectSeq(entries, LAMBDA e : e.role = "tool")) < 1   \* bound: one entry
  /\ Receives([type |-> "tool"])
  /\ UNCHANGED <<ready, entries, pending, streaming, gen, stage, sent, pulls, typedOver>>

-----------------------------------------------------------------------------
\* content: kept, and this.gen, whichever it is by now, is pulled again.
OnChunk ==
  /\ Handles("chunk") /\ loop' = Tail(loop)
  /\ pending' = Append(pending, <<Head(loop).turn, Head(loop).n>>)
  /\ Pull(gen)
  /\ UNCHANGED <<ready, entries, streaming, gen, stage, sent, typedOver>>

\* An error chunk adds its text to the reply, as the piece 0.
Reply(msg) == IF msg.failed THEN Append(pending, <<msg.turn, 0>>) ELSE pending
Commit(msg) ==
  IF Reply(msg) = <<>> THEN UNCHANGED entries
  ELSE Says([role |-> "assistant", of |-> Reply(msg)])

\* Mutant: the terminal chunk is the last one pulled.
OnTerminal_Last ==
  /\ Handles("terminal") /\ loop' = Tail(loop)
  /\ Commit(Head(loop))
  /\ pending' = <<>> /\ streaming' = FALSE
  /\ UNCHANGED <<ready, gen, stage, sent, pulls, typedOver>>

\* done or error: the reply becomes an entry, and one more pull lets chat() persist.
OnTerminal ==
  /\ Handles("terminal") /\ loop' = Tail(loop)
  /\ Commit(Head(loop))
  /\ pending' = <<>> /\ streaming' = FALSE /\ Pull(gen)
  /\ UNCHANGED <<ready, gen, stage, sent, typedOver>>

OnEnd ==
  /\ Handles("end") /\ loop' = Tail(loop) /\ streaming' = FALSE
  /\ UNCHANGED <<ready, entries, pending, gen, stage, sent, pulls, typedOver>>

\* Mutant: a failed turn leaves the app waiting for it.
OnError_Waits ==
  /\ Handles("error") /\ loop' = Tail(loop)
  /\ Says([role |-> "system"])
  /\ UNCHANGED <<ready, pending, streaming, gen, stage, sent, pulls, typedOver>>

\* What came of the reply so far stays in pending, which the next turn drops.
OnError ==
  /\ Handles("error") /\ loop' = Tail(loop)
  /\ Says([role |-> "system"]) /\ streaming' = FALSE
  /\ UNCHANGED <<ready, pending, gen, stage, sent, pulls, typedOver>>

OnTool ==
  /\ Handles("tool") /\ loop' = Tail(loop)
  /\ Says([role |-> "tool"])
  /\ UNCHANGED <<ready, pending, streaming, gen, stage, sent, pulls, typedOver>>

\* The program ends, and shutdown() closes the agent.
Quit ==
  /\ ready # "quit" /\ ready' = "quit"
  /\ UNCHANGED <<entries, pending, streaming, gen, stage, sent, pulls, loop, typedOver>>

Update == OnChunk \/ OnTerminal \/ OnEnd \/ OnError \/ OnTool

Next == Boot \/ Update \/ Quit \/ \E t \in Turn : Submit(t) \/ Yield(t) \/ Tool(t)

\* The loop runs and generators answer; nobody has to submit or quit.
Fairness == WF_vars(Boot) /\ WF_vars(Update) /\ \A t \in Turn : WF_vars(Yield(t))

Spec == Init /\ [][Next]_vars /\ Fairness

-----------------------------------------------------------------------------
Given(t) == [n \in 1..sent[t] |-> <<t, n>>]
WholeReplies ==
  \A i \in DOMAIN entries : entries[i].role = "assistant" =>
    LET reply == entries[i].of
        t == reply[1][1]
    IN /\ reply \in {Given(t), Append(Given(t), <<t, 0>>)}
       /\ \E q \in 1..(i - 1) : entries[q] = [role |-> "user", turn |-> t]
       /\ \A j \in DOMAIN entries : entries[j].role = "user" /\ j < i => entries[j].turn <= t

\* Every reply in the transcript is one turn's own: all the pieces its generator gave, once
\* and in order, nothing of another turn, and after that turn's question and no later one;
\* also when the user asked before the last turn's generator had ended, and while that one's
\* end or error is still on its way.  Not so once a question was asked over a reply that was
\* coming, which the app lets happen: an old turn's end clears streaming for the new one.
RepliesWhole == ~ typedOver => WholeReplies

\* The turn that this.gen is of is pulled to its end.
LatestDrains ==
  \A t \in Turn :
    stage[t] = "running" /\ gen = t ~> stage[t] = "finished" \/ gen # t \/ ready = "quit"

\* Every turn's generator is pulled to its end, so that chat() persists it (the comment on
\* pull(): update() "re-issues pull() until the generator is exhausted").
TurnsDrain == \A t \in Turn : stage[t] = "running" ~> stage[t] = "finished" \/ ready = "quit"

\* The app does not stay busy: whatever fails, the user can type again.
GetsIdle == streaming ~> ~ streaming \/ ready = "quit"

=============================================================================
