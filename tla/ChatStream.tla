----------------------------- MODULE ChatStream -----------------------------
(***************************************************************************)
(* One chat from the agent's turn to the consumer of the generator:        *)
(* Chat, streamer and StreamDelegate in go/pkg/server, handleChat and      *)
(* SendStream in go/hrpc/hrpc.go, and the loop of chat() in src/index.js.  *)
(* Several chats run at once, each in a goroutine of its own; the agent    *)
(* reaches a chat's stream only by the chat id it was handed.              *)
(*                                                                         *)
(* The text of a turn is the sequence 1..Pieces, so a frame is the pieces  *)
(* it carries; every turn has the same numbers, told apart by "of".        *)
(***************************************************************************)
EXTENDS Naturals, Sequences, FiniteSets

CONSTANTS
  Chat,    \* the chats of one agent process
  Pieces,  \* how many pieces a streaming provider cuts a reply into; may be 0
  Window   \* frames buffered by the receiver before it pauses the sender

ASSUME StreamAssumption == Pieces \in Nat /\ Window \in Nat \ {0}

VARIABLES
  providerErr, \* no model is reachable; settled when the server is made
  callIDs,   \* the server's counter
  id,        \* the chat id of each handler, 0 when it has none
  streamers, \* the delegate's map: a set of <<chat id, chat whose stream it is>>
  h,         \* where each handler is
  next,      \* the piece the turn comes to next
  published, \* of each chat's streamer
  buf,       \* frames on the way to, or buffered at, the JavaScript side
  paused,    \* the receiver has paused the stream
  closed,    \* the receiver has closed the stream
  dead,      \* the channel has ended
  reader,    \* the for-await loop over the stream
  got        \* what the consumer of each chat was given

go   == <<providerErr, callIDs, id, streamers, h, next, published>>
link == <<paused, closed, dead>>
js   == <<reader, got>>
vars == <<providerErr, callIDs, id, streamers, h, next, published, buf, paused, closed, dead,
          reader, got>>

Text == [i \in 1..Pieces |-> i]
Content(c, text) == [type |-> "content", of |-> c, text |-> text]
Terminal(c, t)   == [type |-> t, of |-> c, text |-> <<>>]
IsTerminal(f)    == f.type \in {"done", "error"}

Init ==
  /\ providerErr \in BOOLEAN
  /\ callIDs = 0 /\ id = [c \in Chat |-> 0] /\ streamers = {}
  /\ h = [c \in Chat |-> "idle"] /\ next = [c \in Chat |-> 1]
  /\ published = [c \in Chat |-> FALSE]
  /\ buf = [c \in Chat |-> <<>>]
  /\ paused = [c \in Chat |-> FALSE] /\ closed = [c \in Chat |-> FALSE] /\ dead = FALSE
  /\ reader = [c \in Chat |-> "idle"] /\ got = [c \in Chat |-> <<>>]

-----------------------------------------------------------------------------
(* The stream of one chat: Send blocks while it is paused, and fails once closed. *)

CanSend(c) == ~ paused[c] /\ ~ closed[c] /\ ~ dead
\* Mutant: a sender waiting on a paused stream is not woken by its close.
SendFails_Sleeps(c) == dead

SendFails(c) == closed[c] \/ dead
Put(c, f)   == buf' = [buf EXCEPT ![c] = Append(@, f)]
Goto(c, s)  == h' = [h EXCEPT ![c] = s]

-----------------------------------------------------------------------------
(* Go: the handler of one chat. *)

Without(i) == {s \in streamers : s[1] # i}

\* Mutant: chats are told apart by something two of them can share.
Start_SharedId(c) ==
  /\ h[c] = "asked" /\ ~ dead /\ ~ providerErr
  /\ id' = [id EXCEPT ![c] = 1] /\ streamers' = Without(1) \cup {<<1, c>>}
  /\ Goto(c, "turn")
  /\ UNCHANGED <<providerErr, callIDs, next, published, buf, link, js>>

\* The request arrives; Chat takes an id and registers its streamer under it.
Start(c) ==
  /\ h[c] = "asked" /\ ~ dead
  /\ IF providerErr
       THEN Goto(c, "error") /\ UNCHANGED <<callIDs, id, streamers>>
       ELSE /\ callIDs' = callIDs + 1 /\ id' = [id EXCEPT ![c] = callIDs + 1]
            /\ streamers' = Without(callIDs + 1) \cup {<<callIDs + 1, c>>}
            /\ Goto(c, "turn")
  /\ UNCHANGED <<providerErr, next, published, buf, link, js>>

\* The agent has a piece, and GetStreamer finds a streamer under the turn's id.
Streams(c) ==
  /\ h[c] = "turn" /\ next[c] <= Pieces
  /\ next[c] = 1 \/ published[c]     \* a provider streams a reply from its start
  /\ \E s \in streamers : s[1] = id[c]
  /\ Goto(c, "update")
  /\ UNCHANGED <<providerErr, callIDs, id, streamers, next, published, buf, link, js>>

\* Update sends the piece on the stream it was given; a failure fails the turn.
Update(c) ==
  /\ h[c] = "update"
  /\ \E s \in streamers :
       /\ s[1] = id[c]
       /\ \/ /\ CanSend(s[2]) /\ Put(s[2], Content(c, <<next[c]>>))
             /\ published' = [published EXCEPT ![s[2]] = TRUE]
             /\ next' = [next EXCEPT ![c] = @ + 1] /\ Goto(c, "turn")
          \/ SendFails(s[2]) /\ Goto(c, "error") /\ UNCHANGED <<buf, published, next>>
  /\ UNCHANGED <<providerErr, callIDs, id, streamers, link, js>>

\* The turn returns its reply, streamed to the end or not at all ...
TurnReturns(c) ==
  /\ h[c] = "turn" /\ next[c] \in {1, Pieces + 1}
  /\ Goto(c, "reply")
  /\ UNCHANGED <<providerErr, callIDs, id, streamers, next, published, buf, link, js>>

\* Mutant: a panic in the agent ends the handler where it is.
TurnFails_Panics(c) ==
  /\ h[c] = "turn" /\ Goto(c, "panicked")
  /\ UNCHANGED <<providerErr, callIDs, id, streamers, next, published, buf, link, js>>

\* Mutant: a failed turn just returns.
TurnFails_Silent(c) ==
  /\ h[c] = "turn" /\ Goto(c, "close")
  /\ UNCHANGED <<providerErr, callIDs, id, streamers, next, published, buf, link, js>>

\* Mutant: a failed turn returns without closing the stream.
TurnFails_Gone(c) ==
  /\ h[c] = "turn" /\ streamers' = Without(id[c]) /\ Goto(c, "gone")
  /\ UNCHANGED <<providerErr, callIDs, id, next, published, buf, link, js>>

\* ... or an error: its own, a recovered panic, a cancelled context.
TurnFails(c) ==
  /\ h[c] = "turn" /\ Goto(c, "error")
  /\ UNCHANGED <<providerErr, callIDs, id, streamers, next, published, buf, link, js>>

\* Mutant: the reply goes out whole after it was streamed.
SendReply_Always(c) ==
  /\ h[c] = "reply" /\ CanSend(c) /\ Put(c, Content(c, Text)) /\ Goto(c, "done")
  /\ UNCHANGED <<providerErr, callIDs, id, streamers, next, published, link, js>>

\* A reply that was never streamed goes out whole, before the terminal chunk.
SendReply(c) ==
  /\ h[c] = "reply"
  /\ \/ published[c] /\ Goto(c, "done") /\ UNCHANGED buf
     \/ ~ published[c] /\ CanSend(c) /\ Put(c, Content(c, Text)) /\ Goto(c, "done")
     \/ ~ published[c] /\ SendFails(c) /\ Goto(c, "destroy") /\ UNCHANGED buf
  /\ UNCHANGED <<providerErr, callIDs, id, streamers, next, published, link, js>>

SendTerminal(c) ==
  /\ h[c] \in {"done", "error"}
  /\ \/ CanSend(c) /\ Put(c, Terminal(c, h[c])) /\ Goto(c, "close")
     \/ SendFails(c) /\ Goto(c, "destroy") /\ UNCHANGED buf
  /\ UNCHANGED <<providerErr, callIDs, id, streamers, next, published, link, js>>

\* Mutant: only a chat that ends well unregisters.
Return_Leaks(c) ==
  /\ h[c] \in {"close", "destroy"}
  /\ streamers' = IF h[c] = "close" THEN Without(id[c]) ELSE streamers
  /\ Goto(c, "gone")
  /\ UNCHANGED <<providerErr, callIDs, id, next, published, buf, link, js>>

\* Chat returns, which runs its deferred unregister; handleChat then closes the stream,
\* or destroys it with the error.
Return(c) ==
  /\ h[c] \in {"close", "destroy"}
  /\ streamers' = Without(id[c])
  /\ IF SendFails(c) THEN UNCHANGED buf
                     ELSE Put(c, [type |-> h[c], of |-> c, text |-> <<>>])
  /\ Goto(c, "gone")
  /\ UNCHANGED <<providerErr, callIDs, id, next, published, link, js>>

-----------------------------------------------------------------------------
(* JavaScript: chat() and its consumer. *)

Ask(c) ==
  /\ reader[c] = "idle" /\ ~ dead
  /\ Goto(c, "asked") /\ reader' = [reader EXCEPT ![c] = "reading"]
  /\ UNCHANGED <<providerErr, callIDs, id, streamers, next, published, buf, link, got>>

\* One turn of the loop.  Leaving it, by a terminal chunk or an end, closes the stream.
Read(c) ==
  /\ reader[c] = "reading" /\ buf[c] # <<>>
  /\ LET f == Head(buf[c]) IN
     /\ buf' = [buf EXCEPT ![c] = Tail(@)]
     /\ got' = IF f.type \in {"close", "destroy"} THEN got
               ELSE [got EXCEPT ![c] = Append(@, f)]
     /\ reader' = [reader EXCEPT ![c] = IF f.type = "content" THEN "reading"
                                        ELSE IF f.type = "destroy" THEN "thrown" ELSE "ended"]
     /\ closed' = IF f.type = "content" THEN closed ELSE [closed EXCEPT ![c] = TRUE]
  /\ UNCHANGED <<go, paused, dead>>

\* The consumer breaks out of its own loop: return() on the generator closes the stream.
Break(c) ==
  /\ reader[c] = "reading"
  /\ reader' = [reader EXCEPT ![c] = "broken"] /\ closed' = [closed EXCEPT ![c] = TRUE]
  /\ UNCHANGED <<go, buf, paused, dead, got>>

\* The stream asks the sender to stop at a full buffer and to go on at an empty one.
Pause(c) ==
  /\ reader[c] = "reading" /\ Len(buf[c]) >= Window /\ ~ paused[c]
  /\ paused' = [paused EXCEPT ![c] = TRUE]
  /\ UNCHANGED <<go, buf, closed, dead, js>>

Resume(c) ==
  /\ paused[c] /\ buf[c] = <<>>
  /\ paused' = [paused EXCEPT ![c] = FALSE]
  /\ UNCHANGED <<go, buf, closed, dead, js>>

\* The channel ends: what is in flight fails on both sides, frames may be lost.
ChannelEnds ==
  /\ ~ dead /\ dead' = TRUE
  /\ UNCHANGED <<go, buf, paused, closed, js>>

Throw(c) ==
  /\ dead /\ reader[c] = "reading"
  /\ reader' = [reader EXCEPT ![c] = "thrown"]
  /\ UNCHANGED <<go, buf, link, got>>

-----------------------------------------------------------------------------
Handler(c) == \/ Start(c) \/ Streams(c) \/ Update(c) \/ TurnReturns(c) \/ TurnFails(c)
              \/ SendReply(c) \/ SendTerminal(c) \/ Return(c)
Consumer(c) == Read(c) \/ Throw(c)

Handling(c) == h[c] \notin {"idle", "asked", "gone"}

\* Nothing is in progress.  Anything else with no step to take is a deadlock.
AllQuiet ==
  /\ \A c \in Chat : ~ Handling(c) /\ reader[c] # "reading"
  /\ UNCHANGED vars

Next == \/ ChannelEnds \/ AllQuiet
        \/ \E c \in Chat : Handler(c) \/ Consumer(c) \/ Ask(c) \/ Break(c) \/ Pause(c) \/ Resume(c)

\* Turns end, consumers pull (or break), and the stream resumes a drained sender.
Fairness == \A c \in Chat : WF_vars(Handler(c)) /\ WF_vars(Consumer(c)) /\ WF_vars(Resume(c))

Spec == Init /\ [][Next]_vars /\ Fairness

-----------------------------------------------------------------------------
Frame == [type : {"content", "done", "error", "close", "destroy"}, of : Chat,
          text : Seq(1..Pieces)]

TypeOK ==
  /\ providerErr \in BOOLEAN /\ callIDs \in Nat /\ id \in [Chat -> Nat] /\ streamers \subseteq (Nat \ {0}) \X Chat
  /\ h \in [Chat -> {"idle", "asked", "turn", "update", "reply", "done", "error",
                     "close", "destroy", "gone"}]
  /\ next \in [Chat -> 1..(Pieces + 1)] /\ published \in [Chat -> BOOLEAN]
  /\ \A c \in Chat : h[c] = "update" => next[c] <= Pieces
  /\ buf \in [Chat -> Seq(Frame)]
  /\ paused \in [Chat -> BOOLEAN] /\ closed \in [Chat -> BOOLEAN] /\ dead \in BOOLEAN
  /\ reader \in [Chat -> {"idle", "reading", "ended", "broken", "thrown"}]
  /\ got \in [Chat -> Seq(Frame)]

\* A consumer is given only chunks of its own chat, however many chats stream at once
\* and whatever session they are on.
NoCrosstalk == \A c \in Chat : \A i \in 1..Len(got[c]) : got[c][i].of = c

\* The generator ends without an error only after a terminal chunk, and that chunk is the
\* last and only one (index.d.ts: yields chunks until a done or error chunk).
EndsWithTerminal ==
  \A c \in Chat : reader[c] = "ended" =>
    \E n \in {Len(got[c])} : n > 0 /\ \A i \in 1..n : IsTerminal(got[c][i]) <=> i = n

\* After done the consumer holds the reply, whole, in order and once, whether the
\* provider streamed it or not (server.go: delivers its text exactly once).
TextOf(fs) ==
  LET T[n \in 0..Len(fs)] == IF n = 0 THEN <<>> ELSE T[n - 1] \o fs[n].text IN T[Len(fs)]
ReplyExactlyOnce ==
  \A c \in Chat : got[c] # <<>> /\ got[c][Len(got[c])].type = "done" => TextOf(got[c]) = Text

\* What the consumers are given implements a reply that is told in order: at every moment a
\* beginning of the chat's own reply, that no failure, break or other chat takes anything
\* out of or puts anything into, and all of it when done comes.
Replies == INSTANCE ChatReplies
             WITH Reply <- Text, told <- [c \in Chat |-> TextOf(got[c])],
                  at <- [c \in Chat |-> IF reader[c] = "ended" THEN got[c][Len(got[c])].type
                                                             ELSE reader[c]]
ImplementsReplies == Replies!Spec

\* The delegate keeps a streamer exactly as long as its chat is being handled: none is
\* left behind by an error, a panic, a broken consumer or a dead channel.
DelegateExact == streamers = {<<id[c], c>> : c \in {d \in Chat : Handling(d) /\ ~ providerErr}}

\* Every handler returns, also when its consumer broke while the stream was paused.
HandlerReturns == \A c \in Chat : Handling(c) ~> h[c] = "gone"

\* Every consumer that keeps pulling comes to an end.
ConsumerEnds == \A c \in Chat : reader[c] = "reading" ~> reader[c] # "reading"

=============================================================================
