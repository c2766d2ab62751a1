# Verification of bareclaw

TLA+ models of bareclaw, the TLC runs that check them and the TLAPS proofs about
them. bareclaw runs the picoclaw agent, a Go process, as a child of a JavaScript
program, talks to it over one pipe, and keeps the agent's sessions in a Hyperbee.

Run everything from this directory:

    tlc -workers 2 -config durable.cfg MCBareclaw.tla
    tlapm BareclawProofs.tla

## 1. The system

| Component | Source | State it keeps | Operations | Talks to |
|---|---|---|---|---|
| Bareclaw instance | `src/index.js`, `src/lib/spawn.js` | `_rpc`, `_proc`, `_bee` (each null before open and after close), `opened`, `_tools` | `ready`, `chat`, `session`, `sessions`, `exportSession`, `importSession`, `registerTool`, `close` | agent by RPC; bee by get, put, flush |
| Bee | Hyperbee, used by `src/index.js` | `picoclaw/sessions/<key>/data` and `.../scope` | `tryPut` + `flush`, `get`, range read | survives instances, crashes |
| Agent, sessions | `src/go/pkg/server/server.go`, `state.go` | history and summary of each session, in memory and in files of picoclaw's | `SessionCreate/List/Export/Import`, `StateExport/Import`, `turn` | picoclaw (external) |
| Agent, chats | `server.go`, `stream.go` | `callIDs`, the delegate's map of streamers, `published` | `Chat`, `Update`, `register`, `unregister`, `GetStreamer` | one response stream per chat |
| Tool bridge | `index.js`, `server.go`, `tools.go` | `_tools` in JavaScript, the agent's tool registry, `attached` | `registerTool`, `ToolRegister`, `Attach`, `Execute`, `_onToolExec` | RPC in both directions |
| RPC channel | `src/spec/hrpc/index.js`, `src/go/hrpc/hrpc.go` | requests in flight, open streams, whether it has ended | ten commands; nine requests, one event; one streamed response | bare-rpc (external) |
| Wire codecs | `src/spec/hrpc/messages.js`, `src/go/schema/schema.go` | none | encode and decode of twelve message types and two enumerations | compact-encoding (external) |
| Declarations | `src/build.js` | none | declares types and calls, from which both codecs and both channels are generated | hyperschema, hrpc (external) |
| Agent process | `src/go/cmd/main.go` | configuration, provider | start, serve, exit at end of file | |
| P2P tools | `src/examples/tools/p2p.js` | `swarms`, `servers`, `conns`, `nextId`, the inbox of each | fifteen tools: twelve that join, serve, connect, write, read, list and close, three that compute | Hyperswarm, HyperDHT (external) |
| Terminal app | `src/examples/p2p-tui.js` | `entries`, `pending`, `streaming`, `gen` | keys, the chunks of a chat, tool events, errors | one instance, a message loop |
| Code review panel | `src/examples/swarm-code-review.js` | the hub's `conns`, `reviews`, `correlation`; each agent's progress | file a review, correlate, report | one instance per agent, sockets |
| Shared board | `src/examples/dht-shared.js` | `board`, `conns` | post an idea, broadcast the board | one instance per agent, sockets |
| Swarm collaboration | `src/examples/swarm-collab.js` | `started`, each agent's `conn` | take turns | two instances, a swarm |

What is hard in it:

- **Two copies of each session.** The bee is the copy that survives, the agent's is
  the one that turns change, and neither is locked while it is moved over the other:
  `_loadFromStore` moves bee to agent, `_persistSession` agent to bee, `importSession`
  sets both one after the other.
- **Awaits.** Every method of the instance, and of the P2P tools, is cut into steps by its
  awaits, and a second call, `close()`, the agent's own turn or its exit runs in between.
- **Lifecycles that differ.** The application, the agent and a chat's consumer each
  can end first. The agent keeps files of its own, so a restart finds in it whatever
  it last had.
- **Goroutines.** Each request runs in one of its own: chats overlap, registrations
  are applied in either order, and requests are served before `Attach`.
- **Backpressure.** `SendStream.Send` blocks on a receiver that has paused.
- **Two generated codecs** that agree on nothing but numbers and bytes.
- **Loops spread over events.** The terminal app pulls a generator one chunk per message;
  the hubs of the examples count what arrives to know when they are through.

`PROJECT.json` lists each of these hazards at its line with the properties that
cover it.

## 2. The modules

| Module | Models | State and code |
|---|---|---|
| `DurableSessions` | what the application may rely on | a record per session, the sessions listed, the calls acknowledged |
| `Bareclaw` | instance, bee, agent process, sessions | `phase` is `_open`/`_close`, `go` the process, `hist` the agent's history, `bee`/`stored`/`scopes` the two kinds of bee entries, `todo` the loops of `_loadFromStore` and `_close`, `pc`, `blob`, `turn` each call |
| `ChatReplies` | what the consumer of a chat may rely on | where each chat is, and the text its consumer was told |
| `ChatStream` | one response stream per chat | `h` is where `Chat` and `handleChat` are, `streamers` the delegate, `buf`, `paused`, `closed` the stream, `reader`, `got` the loop of `chat()` |
| `ToolBridge` | tools known on two sides | `handlers` is `_tools`, `defs` the agent's registry, `reg` each `registerTool`, `x` each `Execute` |
| `Wire` | both codecs | one definition per message and language, and one writer and one reader for both |
| `Schema` (EXTENDS `Wire`) | `build.js` | each declared type and call; `LaidOut` is the generators' rule |
| `Hrpc` (EXTENDS `Schema`) | a call in either direction | `frame` holds bytes and a command number, `handled` what the other side made of them |
| `P2PTools` (EXTENDS `Wire`) | the P2P tools | `seq` is `nextId`, `table` the three maps, `call` and `close` each tool call, `node` what it made, `wire`/`inbox` the messages |
| `P2PTui` | the terminal app | `ready`, `entries`, `pending`, `streaming`, `gen` are the app's; `loop` the message loop; `stage`, `pulls` each generator |
| `CodeReview`, `SharedBoard`, `SwarmCollab` | one example each | what the hub has, where each agent is, the lines on each socket |
| `Examples` | the four programs of `src/examples` with several parties, side by side | `program` is the one that was started; its steps leave the others' variables alone |
| `MC...` | instances of these for TLC | |
| `...Proofs`, `BareclawRefinement` | theorems | `WireProofs` has what the codecs do with whole messages, on which `HrpcProofs` and `P2PToolsProofs` rest |

One action is one handler, or one stretch of one between two awaits. Mutants, the
definitions whose names have an underscore (`Send_Early` for `Send`), are not part of
any specification; each is what its module would say had the code a certain bug,
and shows that the property it is listed with in `PROJECT.json` can fail.

### Bareclaw

A history is the set of calls whose content it holds. A completed chat adds itself; an
import replaces the set by its own; a blob is a copy of the set, or holds `Corrupt`
when picoclaw's importer would refuse it. `Open` leaves in the agent, for each session,
either what it last had or nothing: picoclaw's files survive, or the directory is new.
So an agent that died with a turn unsaved, or one on another machine, is covered.
`Text` gives each key its characters, and `ListedAs` what `_listStoreKeys` makes of its entries:
a name that ends at the first slash, and none from U+00FF on, where the range of line 163 ends.
`Key` has with each key the name it is listed by.

The application of the model uses the instance as the README shows it (`Overlap =
FALSE`: one call at a time on each session, sessions in parallel, and no close with
calls in flight) or in any way at all (`Overlap = TRUE`). It may break out of a
chat (`EarlyBreak`), the agent may die at any time (`GoMayDie`), and the
application may crash at any time and start again.

Left to the environment, as nondeterminism: whether a turn succeeds, whether an
import parses, whether picoclaw's `Save` fails, whether a `SessionExport` or an import is
answered with an error, when each promise settles. Taken
from it: a flush of the bee is one atomic put, and it does not fail while the bee is
open; blobs of the agent's own exports parse; a channel that ends rejects every request
that still waits on it, which is bare-rpc's.

`acked` is the set of the calls that returned and whose content is therefore promised. A call
leaves it when the agent takes the blob of a later import of its session: from that moment on the
session's old content may be gone, also when the import is then rejected because `Save` failed.
An import that the agent refuses takes nothing out of it.

### DurableSessions

The abstract specification has no agent, no opening and no closing. `Keep` is the only
step that changes a record: it may take in turns that nobody was told of (a chat that was
broken off ends later), it must keep every acknowledged call of its session, and what it
drops it drops for an import that comes into the record in that very step. `Return`
acknowledges a call and needs its content in the record and its session in the list. `Accept`
is an import that was taken: what its session had is no longer promised.
`Bareclaw!ImplementsDurable` maps `record` to `bee`, `listed` to `Listed` and `on` to
`key`: an open, a reload, a flush that changes nothing, a close, a death of the agent and
a crash are all stutters.

### ChatStream

The text of a turn is the sequence `1..Pieces`. A provider streams a reply from its
first piece or not at all. A piece is what `Update` is given: an increment. The
receiver pauses a sender at `Window` frames and lets it go on when it has drained.
`providerErr` is a server made without a model.

### ChatReplies

The abstract specification of a chat's stream: the consumer is told a growing beginning of the
reply, and is told `done` when that is the whole. There is no agent, no frame, no id and no
handler in it. `ChatStream!ImplementsReplies` maps `at` to the consumer's loop and `told` to the
text of the chunks that it read: everything the agent and the streams do is a stutter.

### ToolBridge

Registrations are numbered in the order of the calls of `registerTool`, which makes
"at least as new as" a comparison of numbers. A tool call remembers the definition it
was made by. `Attach` comes at any time after the first request. A registration is answered
with an error for a schema that is no object, and rejected at the channel's end.

### Wire, Schema and Hrpc

Each message type is a list of fields with their bits, once from the JavaScript and
once from the Go source; the writer and the reader are shared, and take a language for
the points in which the two differ: what counts as present, and what an absent field
decodes to. Bytes are real, lengths have one, two or four. A writer writes an array of any
length and a reader refuses one over `MaxArrayLength` (`schema.go:360`, `433`; JavaScript's
`c.array` likewise), which is compact-encoding's constant and taken to be one number in both
languages; a message is said to fit (`Fits`) when its array is not over it. `Schema` has the declarations of `build.js` once more, and
`GeneratedAsDeclared` holds the two generated sides against them. `Hrpc` has one call at a
time: calls share nothing but the channel, whose matching of answers to requests is
bare-rpc's. Of a chat's stream it has one frame.

### P2PTools

Nodes are named by the opening calls that made them; a handle is a map and a number, and
`table` says which node it leads to. An opening call takes its number before it awaits the
network, so that calls overlap with numbers taken, and each call may fail, close twice or
find the node gone. Two swarms of one topic meet; a connection meets the server of its
key. The messages are encoded and decoded by the bytes of `Wire`, since `tryDecode` tells a
message from plain text by whether the bytes decode. A key is the set of the characters of
its z32 text, which is all that `parseKey` looks at.

### The examples

`P2PTui` has the message loop: what a key press, a chunk, the end of a generator or an error
does, and who pulls next. The user types whenever the app takes input, also in the time between
the terminal chunk and the generator's end; `typedOver` records whether a question was asked while
the pieces or the terminal chunk of another reply were still to come. `Quit` is one step: what
`shutdown()` closes, and a boot that still runs, change nothing of what the module has.
`CodeReview` and `SharedBoard` have a hub and one socket per
agent, which keeps the order and may be lost; `SwarmCollab` has the swarm, which
connects the two again. What a model answers is a choice.

## 3. The runs

| Run | Instance | Result |
|---|---|---|
| `durable` | 3 calls, 2 sessions, no overlap, breaks, dying agent, crashes; symmetric in both (the texts of both keys are plain, so a key is only its own listing) | the instance implements `DurableSessions`; acknowledged calls stay in the bee and in the open agent; `close()` flushes all |
| `overlap` | 2 calls, 2 sessions, everything overlaps | the bee stays loadable and behind the agent; every call and every close of a running agent settles |
| `stream` | 2 chats, 2 pieces, window 1 | own chunks only, one terminal chunk, no streamer left; handlers return, consumers end; the whole implements `ChatReplies`: the reply comes once and in order |
| `tools` | 2 names, 3 registrations, 2 calls | handlers are never older than definitions; calls return |
| `rpc` | all commands; texts of 0, 1 and 253 bytes, buffers null, empty, of 2 and of 65,536 bytes, arrays of up to 3 with `MaxArrayLength = 2` | the other side gets what was sent, in both directions, and refuses an array over the limit and nothing else; both are as declared |
| `p2p` | 3 opening and 2 closing calls, 1 write | handles stay apart, nothing that lives is out of reach, messages are read once, calls settle |
| `examples` | 2 reviewers and a correlator; 3 agents on the board; 3 rounds on 2 connections; 3 turns of 1 piece, asked whenever the app takes input | each program does what it is for, and ends |

Why these bounds are enough to be interesting: two sessions show one session's loop
disturbing another; the third call lets a session be written, replaced and written
again across a restart; restarts and crashes are not bounded at all. Window 1 makes
every second frame meet a paused stream. Two pieces are the least that can come in the
wrong order or be repeated. Three registrations give one name an old, a newer and a
newest handler. 253 is where compact-encoding's lengths become longer than a byte,
65,536 where the two bytes after the prefix no longer hold them, and the one-byte text
is also a valid flags byte, so that a shifted reader goes on reading.
Three opening calls are a server, the connection to it, and a third that overlaps both or
uses a number that a closed one left; two closing calls can close one node twice or cross.
A number given twice needs two opening calls, a message out of turn one write. Two
reviewers and three board agents let a client connect before, while and after the others'
lines arrive. Two connections are one reconnect. Three turns let a chat end, fail and be
followed by another, and let one be asked before the generators of two others have ended. One
piece and the text of an error chunk are what a reply can mix up; `RepliesWhole` is proved for any
number of pieces. Three elements are one more than an array may have, two are as many as it may.

`CHECK_DEADLOCK FALSE` stands where the system may stop: in `p2p` and `z32key` no tool
has to be called and the bounds run out, in `examples` and `typeahead` the programs end.

Five runs show what the code does against what its texts say:

| Run | Property | What happens |
|---|---|---|
| `earlybreak` | `EndedTurnsInBee` | `index.js:81` says that a turn is persisted also when the caller breaks out. The export runs at once and the turn ends later: it is in the agent and not in the bee. The next turn of that session, or `close()`, stores it. |
| `closehang` | `CloseReturns` | `index.js:51` calls SIGKILL the backstop. An agent that exits between the last flush and line 56 has emitted its exit event already, and `close()` never settles. |
| `lostupdate` | `BeeNeverRegresses` | Two overlapping chats of one session: the older export is flushed last. The bee has lost a turn until the next persist; a crash loses it if the agent's files are gone too. |
| `z32key` | `ServedKeyConnects` | `parseKey` (`p2p.js:47`) tells a z32 key by RFC 4648's alphabet. z-base-32 has 8, 1 and 9: a key that `dht_serve` returned is refused by `dht_connect`, but for the few without them. The hex form of the key works. |
| `typeahead` | `TurnsDrain` | The comment at `p2p-tui.js:51` has `update()` pull "until the generator is exhausted". The app takes input again at the terminal chunk (line 239), before the generator has ended and `chat()` has persisted. A second question asked then streams when the first generator's end arrives and makes the app idle (line 224); a third replaces `this.gen` (line 212), and every pull from then on goes to the third: the second's `chat()` neither ends nor persists. |

`AckedInBee`, `AgentRemembers` and the refinement are therefore checked, and proved, for
plain keys and calls that do not overlap on a session; `CloseSettles` leaves out the agent
that is gone before the shutdown; `RepliesWhole` leaves out a terminal in which a question was
asked over a reply that was still coming, and `LatestDrains` says of the newest turn only what
`typeahead` refutes of every turn. Without these limits TLC refutes them.

### What else the models show

These are no disagreements with a text, and no run expects them; they bound what the
properties say.

- A content chunk of an empty text, the reply of a turn that had none or an empty `Update`, has no
  content on the wire and null in JavaScript (`messages.js:126`), where `index.d.ts:42` has a
  string. A consumer that adds it to a text adds the word "null", as `p2p-tui.js:231` would. On the
  wire null and the empty text are one, so `HandledAsCalled` and `AnsweredAsReturned` take them so.
- A session key with a slash is stored under its own name and listed by what comes before the
  slash (`index.js:166`); one that begins at U+00FF or above falls out of the range that is read
  (line 163). Such a session is neither reloaded nor flushed by `close()`, and `sessions()` does
  not have it. Keys that `session()` returns are picoclaw's; `chat()` and `importSession()` take
  any. `Listed` has this for any `Text`; the runs and theorems are for plain keys.
- A `close()` whose flush loop is rejected (`index.js:41`) leaves the bee open and the agent
  running, and a second `close()` gives the same rejection. `CloseSettles` says that `close()` comes
  back, by resolving or by rejecting, and no more.
- An import that the agent took and whose `Save` failed (`server.go:174`) is rejected with the
  agent already changed: the next persist of the session stores it. No property tells this
  from an import that was accepted.
- A provider that streams a part of its reply and returns the whole would have the rest left out
  (`server.go:64`). `TurnReturns` takes it that a turn which returns has streamed all or nothing.
- A reply over which the next question was asked ends up with pieces of both turns, as the
  `pending` of the two is one string (`p2p-tui.js:230`).
- The code review's comments speak of two agents per category
  (`swarm-code-review.js:2,29,48`); `PER_CATEGORY` is 1. The model has it as a constant and the run
  takes 2, the harder case.
- `delivered` and `sent: true` of the P2P tools count writes. `EveryMessageOnce` begins
  where a message arrived.
- A `dht_connect` or `dht_serve` that fails leaves the DHT node that it made running, with no
  handle. `NothingOrphaned` is about calls that succeeded.
- A raw text of a foreign program whose bytes happen to decode is buffered as a message.
- `swarm-collab.js` destroys its swarm right after the last write. If that write is lost the
  other agent waits; `BothLeave` leaves out lost messages.

### Fairness

Weak fairness, per call or per handler, and only for steps that the runtime takes by
itself: a promise that can settle settles, a turn of the agent ends, a goroutine that can
go on goes on, a consumer that has not broken off keeps pulling, a drained stream
resumes, `main` goes on to `Attach`, the shutdown's timer fires. Nobody is bound to call,
close, break, crash or die, and the agent need not react to the end of the pipe: in
`Bareclaw` the fairness of the exit is that of the timer's kill. One turn is taken to
end because providers answer or time out; that is picoclaw's.

For the P2P tools: what a call awaits of the network settles, one way or the other, so that for
`dht_connect` the library is taken to emit `error` whenever `open` does not come; nobody
meets, writes or closes by force. For the examples: agents answer, a socket that is not
lost connects and delivers, the swarm finds its peers, the app's loop runs and a generator
that is pulled answers; the user need not type or quit. A lost connection or a failed agent
frees the liveness properties of the examples by name (`lost`, `aborted`), and the models
let both happen.

## 4. What is proved

All theorems are for every value of the constants that satisfies the modules' assumptions and
the theorem's own, which are named below.

| Theorem | Says |
|---|---|
| `BareclawProofs!TypeCorrect` | `Spec => []TypeOK` |
| `BareclawProofs!NeverPoisoned` | no call stores a blob that the agent refuses, overlap or not |
| `BareclawProofs!AcknowledgedIsDurable` | `[]AckedInBee`, without overlap and for plain keys |
| `BareclawProofs!ReloadIsComplete` | `[]AgentRemembers`, under the same assumptions |
| `BareclawRefinement!SessionsAreDurable` | `Bareclaw` implements `DurableSessions`, under the same assumptions |
| `BareclawRefinement!TurnsStayInBee` | `BeeNeverRegresses`, under the same assumptions: no step takes a turn out of the bee but on a session that was imported |
| `BareclawRefinement!CloseIsComplete` | `[]CloseFlushedAll`, under the same assumptions |
| `BareclawRefinement!AgentNeverBehind` | `[]BeeBehindAgent`, for plain keys, overlap or not |
| `ChatStreamProofs!StreamTyped` | `Spec => []TypeOK`: no handler is left in a state without a next step |
| `ChatStreamProofs!NoStreamerLeaks` | the delegate is exact |
| `ChatStreamProofs!ChatsStaySeparate` | no crosstalk |
| `ChatStreamProofs!TerminalChunkLast` | a loop that ended read one terminal chunk, last |
| `ChatStreamProofs!ReplyToldOnce` | what it read is the reply, each piece once and in order, streamed or not |
| `ChatStreamProofs!StreamTellsReplies` | `ChatStream` implements `ChatReplies` |
| `ToolBridgeProofs!BridgeTyped` | `Spec => []TypeOK`; a call that went out did so after `Attach` |
| `ToolBridgeProofs!CallsRunFreshHandlers` | no tool call runs a handler older than its definition, or none |
| `WireProofs!BlockRead` | a text that one codec wrote is read back as it was, and what follows it is left |
| `WireProofs!MessageRead` | a message of any type that either language wrote, with no array over the limit, is read by either, whole |
| `WireProofs!LongArraysRefused` | one with an array over the limit is read by neither |
| `HrpcProofs!TypeCorrect` | `Spec => []TypeOK` |
| `HrpcProofs!HandlersAreCalledRight` | `[]HandledAsCalled`: the named command, with the arguments given |
| `HrpcProofs!AnswersAreReturnedRight` | `[]AnsweredAsReturned`: what the handler returned |
| `HrpcProofs!AllIsReadable` | `[]NothingUnreadable`: a call reaches its handler, and an answer is read, just when it has no array over the limit |
| `HrpcProofs!AllIsAsDeclared` | `[]GeneratedAsDeclared`: both sides call by the numbers and types of `build.js`, and lay them out by its rule |
| `P2PToolsProofs!ToolsTyped` | `Spec => []TypeOK` |
| `P2PToolsProofs!HandlesStayApart` | a handle leads to its own call's node or nowhere |
| `P2PToolsProofs!NoNodeIsLost` | a node that lives has its handle |
| `P2PToolsProofs!MessagesReadOnce` | `[]EveryMessageOnce`, if no foreign text happens to decode |
| `ExamplesProofs!ChatsNeverOverlap` | `[]OneTurnAtATime` |
| `ExamplesProofs!BoardsAgree` | `[]SameBoard` |
| `ExamplesProofs!ReportsAreExact` | `[]ReportExact` |
| `ExamplesProofs!RepliesAreWhole` | `[]RepliesWhole` |
| `ExamplesProofs!ExamplesTyped` | `Spec => []TypeOK`, of all four programs |

The assumptions, and what justifies them:

- *Without overlap, for plain keys*: `Overlap = FALSE`, as the README of the library uses it, and
  `PlainKeys`: keys that are not empty, have no slash and begin below U+00FF. `PlainListed` proves
  of `_listStoreKeys` that each such key is listed by its own entries and by no other's. The runs
  `lostupdate` shows that the first is needed, the slash in section 3 that the second is.
- `Wire!NoneAssumption`: null is no text. `Wire!MaxArrayAssumption`: the limit of an array is a
  number. `P2PTools!MessageAssumption`: a message's sender and text
  are bytes, less than two gigabytes of each, where TLC's numbers end.
- `Hrpc!ValuesAssumption`: a side gives its codec messages of the fields that the types declare
  (`IsMessage`): texts, buffers that may be null, arrays of texts, an enumeration's values, and
  for an optional text in JavaScript null. The same bound on their length. A text is its UTF-8
  bytes; the codecs are not asked about bytes that are none.
- `PlainText`, a hypothesis of `MessagesReadOnce`: a text that a foreign program sends is not by
  accident a message in the codec's bytes. One that is gets buffered as that message, which
  `tryDecode` cannot know.
- `Examples`: the agents and the categories are finitely many, the correlator is not a
  reviewer, and the rounds, connections, turns and pieces are numbers.

The arguments:

- **Bareclaw.** `AckedInBee` is not inductive: it says nothing of the blob that a call is
  about to put. The invariant `Durable` adds that a call awaits only what its operation
  awaits (`PcMatchesOp`), that at most one call is active on a session and none while the
  instance closes or is down (`Exclusive`), that what is acknowledged is in the bee and,
  once its session is loaded, in the agent (`Saved`), and that a blob in hand has
  everything acknowledged on its session, or is the import that replaces it
  (`InFlight`).
- **Refinement.** Two more invariants, each inductive together with `Durable`. `OwnContent`: the
  agent, the bee and every blob in hand hold only calls of their own session. `Ahead`: a
  loaded agent and a blob in hand are ahead of the bee, unless an import newly comes into
  them, and the agent is ahead of the blob. The second is what a put of an old blob would
  break, and what overlap does break. `RecordStep` then maps each action: `Flush` and
  `CloseFlush` to `Keep` or `Return`, `Issue` to `Issue`, all others to a stutter.
- **No turn leaves the bee.** `BeeNeverRegresses`, which `lostupdate` refutes for calls that
  overlap, follows from the refinement: a record loses something only in a `Keep` that an import
  comes into (`OnlyImportsRemove`).
- **A complete close.** `Flushes`: while `_close` flushes, a listed session is still in the
  loop, in its hands, or flushed; nothing is listed anew, because no call is active.
- **The agent is never behind.** `Behind`: between two opens the agent's history of a session that
  no import touches only grows, so a blob read from it stays behind it however late
  it is put. This needs nothing about overlap.
- **ChatStream.** `Separate` adds to the two properties that ids of chats being handled
  are distinct and at most `callIDs`, that only a chat's own frames are on its stream, and
  that a handler begins with its reader. Then the one streamer an id finds is the chat's
  own. `Ordered` adds what is still unread: as long as a consumer reads it has read only
  content, and on its stream the close comes after a terminal chunk. `Told` is about what was
  read and what is unread together (`Given`): while a handler streams it is the pieces
  published so far, and from the moment a reply is sent it is the whole reply. It
  moves from the stream to the reader and loses nothing. `TextOfPieces` computes the fold over
  chunks, by the least number of chunks for which it would be wrong.
- **ChatStream implements ChatReplies.** `ReplyExactlyOnce`, which it implies, is of loops that ended; a refinement
  needs the same of every state in between. `Pieced`: what a consumer has read, and what is unread
  on its stream after that, are the pieces one after the other or the whole reply as one frame
  (`Shaped`), and a chunk that is no content has no text. Then the text of what was read is a
  beginning of the reply (`TextOfShaped`) and one more read makes it a longer one (`ReadTells`); that `done` is read when
  it is whole is `ReplyExactlyOnce`.
- **ToolBridge.** `_tools` never gets older, and the agent's registry is never ahead of it;
  a call carries the definition it was made by, and finds a handler no older.
- **P2PTools.** `Reachable`: the number of a call is its place in the order of calls, hence
  distinct; an entry of a map is the call whose number it has; a call that succeeded
  and is not gone is entered; a close has a target that succeeded. `Delivered`: the bytes on a
  wire read, at the node they go to, as the message that was written, or the plain text; from the
  wire to the inbox and on to the reader nothing is lost or repeated. What is written reads so
  by `ParcelRead`, which is `BlockRead` twice, or by `PlainText`.
- **Wire.** The bytes of a message are its fields' laid end to end, so that there is a sequence of
  what is left from each field on (`Flattened`, by induction on the number of fields: `UpTo`, from
  the library's well-founded induction). Reading goes along it: if the reader has
  what is left from a field on, and of the fields before it the values and the flags
  (`ReadUpTo`), then it has so of the next (`FieldRead`). The two lists of each type are the
  same (`EncodingsAgree`) and each is `Sound`: an optional field has a bit of its own and comes after
  the flags; this is what makes the flags tell what follows (`FlagsTell`). A state blob is an array
  of frames and each frame a message (`StateBlobRead`). The number in front of an array over the
  limit is read as any other, and the reader fails there (`ManyRefused`).
- **Hrpc.** `CallInv`: what is in flight is what a side wrote, under the number of its caller's
  command (`Framed`, `Asked`), a handler that was called was called right (`Handled`), and an answer
  is there only from the handler's return on (`Answered`). The number leads the dispatcher to the
  caller's command (`Numbers`), whose types are one on both sides (`TypesAgree`); then
  `MessageRead` has it that the bytes are read as what they were, and `LongArraysRefused` that
  what does not fit is not read at all. `AllIsAsDeclared` adds that the
  number leads to the declaration of the call in `build.js`, and that each of the declared types is
  laid out alike in both languages and by the generators' rule (`TypesLaidOut`).
- **SwarmCollab.** `OneToken`: a chat that an agent waits for, a line on the wire: of these there
  is at most one in all, and none before `started`. A reconnect finds that set and makes no second.
- **SharedBoard.** `SharedInv`: every line that the hub wrote, and what an agent has read of
  them, is a beginning of its board, and the board has at most one idea of each agent. A board
  of as many ideas as there are agents is therefore the whole of it.
- **CodeReview.** `ReviewInv`: a reviewer's review is in one place only: not yet written, on its
  socket, or in `reviews`; then a hub that has as many as there are reviewers has one of each.
- **P2PTui.** `TuiInv`: the variables keep their types however the user types; and until a question
  is asked over a reply, there is one pull or one chunk under way of the turn whose reply is still
  to come, what its generator has yielded is, piece by piece, what `pending` holds, and each entry of
  the transcript is whole (`Ordered`). A late end or error of an earlier turn touches none of these.

Each of these invariants was checked by TLC on the runs' instances first.

Every invariant of the passing runs and both refinements are proved, and `BeeNeverRegresses` and
`ReplyExactlyOnce`, which follow from them. Only model-checked are the liveness properties, which
rest on fairness: TLAPS has no rules that reach them.

## 5. Not modelled

picoclaw, Hyperbee, Corestore, bare-rpc, compact-encoding, hyperschema, hrpc, Hyperswarm,
HyperDHT and the pipe are external: each is modelled by what the code in `src/` relies on.
The text of errors, logging, the flags of `main`, the argument list of `spawn.js` and the
executable bit that `bareclaw.js` sets have no state. `StateExport` and `StateImport` have
no caller in JavaScript and are in `Hrpc` only. `key_info`, `codec_encode` and `codec_decode` of the
P2P tools compute an answer and keep nothing.

`example.js`, `dht-rpc.js` and `peer-scan-tool.js` call one method after the other and keep no
state in between. (`dht-rpc.js:79` looks for chunks of type `tool_call`, which
`build.js:29` does not have: that branch never runs.) The prompts, the diff, the drawing of the
terminal app and the wording of the report are left out.

`spec/schema/index.js` has the text of `spec/hrpc/messages.js` again and is not what the
channel loads.

## 6. Plan

1. *Done.* `Bareclaw`, `ChatStream`, `ToolBridge`, `Wire`, `Hrpc` and their runs.
2. *Done.* `DurableSessions` and the refinement, checked and proved; `CloseFlushedAll`,
   `BeeBehindAgent` and `EndsWithTerminal` proved.
3. *Done.* `Schema`, the P2P tools with their proofs, the terminal app and the three examples
   that have several agents.
4. The whole-state commands: `StateExport` and `StateImport`, which stop at the first session
   that fails, against turns that run meanwhile.
5. *Done.* The listing of `_listStoreKeys` over keys as text, and what it makes of plain keys proved.
6. *Done.* Proofs about the four examples, of `ReplyExactlyOnce` and of `EveryMessageOnce`.
7. *Done.* The codecs proved for whole messages, and with them what `Hrpc` promises.
8. *Done.* `ChatReplies` and the refinement, `BeeNeverRegresses` and `GeneratedAsDeclared` proved.
