------------------------------ MODULE P2PTools ------------------------------
(***************************************************************************)
(* The tools that examples/tools/p2p.js gives an agent: swarms it joins,   *)
(* servers it runs and connections it opens over Hyperswarm and HyperDHT.  *)
(* A tool call is a handler that the model calls when it likes, also while *)
(* earlier calls still await the network.  An opening call (swarm_join,    *)
(* dht_serve, dht_connect) makes a node and returns a handle to it; every  *)
(* other tool finds the node by its handle in one of three maps.           *)
(*                                                                         *)
(* Nodes are numbered by the opening calls that made them.  Two swarms of  *)
(* one topic, and a connection and the server it names, talk to each       *)
(* other; 0 is a program elsewhere, which writes plain text.               *)
(***************************************************************************)
EXTENDS Wire, FiniteSets

CONSTANTS
  MaxOpen,   \* bound: opening calls
  MaxSent,   \* bound: writes to the network
  MaxClose,  \* bound: closing calls
  Topic,     \* topics of swarms
  Key,       \* keys of servers, each the set of characters of its z32 text
  Message,   \* messages the model sends, with from and text
  RawText    \* what a program that is no bareclaw writes

ASSUME BoundsAssumption == {MaxOpen, MaxSent, MaxClose} \subseteq Nat
ASSUME MessageAssumption == Message \subseteq [from : Bytes, text : Bytes]
                            /\ RawText \subseteq Seq(Byte)

Opener == 1..MaxOpen
Closer == 1..MaxClose
Kind   == {"swarm", "server", "conn"}

VARIABLES
  seq,     \* the counter of handles
  started, \* how many opening calls were made
  kind, id, name, \* of an opening call: its tool, its number, its topic, key or key text
  call,    \* where each is: idle, waiting, ok, refused (the key), failed
  node,    \* of its node: none, up, closing, gone
  table,   \* swarms, servers, conns: the opening call a handle leads to, 0 when none
  link,    \* the connections that are open, a set of pairs of nodes
  wire,    \* what is on its way from one node to another
  inbox,   \* the messages a node has buffered
  due, read, \* those that reached it, and those a tool has returned
  sent,
  close, target \* where each closing call is, and the node it closes

opening == <<seq, started, kind, id, name>>
data    == <<wire, inbox, due, read, sent>>
closing == <<close, target>>
vars    == <<opening, call, node, table, link, data, closing>>

Init ==
  /\ seq = 0 /\ started = 0
  /\ kind = [c \in Opener |-> "none"] /\ id = [c \in Opener |-> 0]
  /\ name = [c \in Opener |-> None]
  /\ call = [c \in Opener |-> "idle"] /\ node = [c \in Opener |-> "none"]
  /\ table = [k \in Kind |-> [i \in Opener |-> 0]]
  /\ link = {} /\ wire = [p \in (0..MaxOpen) \X Opener |-> <<>>]
  /\ inbox = [c \in Opener |-> <<>>] /\ due = inbox /\ read = inbox /\ sent = 0
  /\ close = [u \in Closer |-> "idle"] /\ target = [u \in Closer |-> 0]

CallsTyped ==
  /\ seq \in 0..MaxOpen /\ started \in 0..MaxOpen
  /\ kind \in [Opener -> Kind \cup {"none"}] /\ id \in [Opener -> 0..MaxOpen]
  /\ call \in [Opener -> {"idle", "waiting", "ok", "refused", "failed"}]
  /\ node \in [Opener -> {"none", "up", "closing", "gone"}]
  /\ table \in [Kind -> [Opener -> 0..MaxOpen]]
  /\ close \in [Closer -> {"idle", "stopping", "destroying", "closed", "failed"}]
  /\ target \in [Closer -> 0..MaxOpen]
  /\ \A c \in Opener : node[c] = "none" <=> call[c] \in {"idle", "refused"}

TypeOK ==
  /\ CallsTyped
  /\ link \subseteq {{c, d} : c \in Opener, d \in 0..MaxOpen}
  /\ sent \in 0..MaxSent

-----------------------------------------------------------------------------
(* Keys and messages. *)

\* z-base-32's alphabet is ybndrfg8ejkmcpqxot1uwisza345h769.  These of its characters are
\* not in [a-z2-7].
BeyondClass == {"8", "1", "9"}

ToZ32(key) == [form |-> "z32", chars |-> key]
ToHex(key) == [form |-> "hex", chars |-> key]

\* Only the text's form and characters decide; hex digits always match.
ParseKey(text) == text.form = "z32" => text.chars \cap BeyondClass = {}

\* Mutant: the decoder reads the two fields the other way around.
EncodeMsg_Swapped(m) == Block(m.text) \o Block(m.from)

\* msgCodec, through encodeWith.
EncodeMsg(m) == Block(m.from) \o Block(m.text)

\* The first characters of a peer's key.
KeyPrefix(d) == <<200 + d>>

\* Bytes that are not two strings are taken as a text.
TryDecode(bytes, d) ==
  LET f == TakeBlock(Reader(bytes))
      t == TakeBlock(f)
  IN IF t.ok THEN [from |-> f.val, text |-> t.val]
             ELSE [from |-> KeyPrefix(d), text |-> bytes]

-----------------------------------------------------------------------------
(* Opening. *)

\* Mutant: a handle is numbered by the nodes there are.
NextId_Live == 1 + Cardinality({c \in Opener : \E k \in Kind, i \in Opener : table[k][i] = c})

NextId == seq + 1

Begin(k, n, st, nd) ==
  /\ started < MaxOpen /\ started' = started + 1 /\ seq' = seq + 1
  /\ LET c == started + 1 IN
     /\ kind' = [kind EXCEPT ![c] = k] /\ id' = [id EXCEPT ![c] = NextId]
     /\ name' = [name EXCEPT ![c] = n]
     /\ call' = [call EXCEPT ![c] = st] /\ node' = [node EXCEPT ![c] = nd]
  /\ UNCHANGED <<table, link, data, closing>>

SwarmJoin(t)  == Begin("swarm", t, "waiting", "up")
DhtServe(key) == Begin("server", ToZ32(key), "waiting", "up")
\* Mutant: the node is made before the key is parsed.
DhtConnect_Late(text) ==
  IF ParseKey(text) THEN Begin("conn", text, "waiting", "up")
                    ELSE Begin("conn", text, "refused", "up")

\* The id is taken first, and an invalid key throws before there is a node.
DhtConnect(text) ==
  IF ParseKey(text) THEN Begin("conn", text, "waiting", "up")
                    ELSE Begin("conn", text, "refused", "none")

\* The awaited network call is done: the node enters its map and the handle is returned.
Enter(c) ==
  /\ call' = [call EXCEPT ![c] = "ok"]
  /\ table' = [table EXCEPT ![kind[c]][id[c]] = c]

Flushed(c) ==
  /\ kind[c] = "swarm" /\ call[c] = "waiting" /\ Enter(c)
  /\ UNCHANGED <<opening, node, link, data, closing>>

Listens(c) ==
  /\ kind[c] = "server" /\ call[c] = "waiting" /\ Enter(c)
  /\ UNCHANGED <<opening, node, link, data, closing>>

\* socket 'open': the server named has accepted, one of this process or one elsewhere.
Opens(c) ==
  /\ kind[c] = "conn" /\ call[c] = "waiting" /\ Enter(c)
  /\ \E s \in 0..MaxOpen :
       /\ s # 0 => /\ kind[s] = "server" /\ call[s] = "ok" /\ node[s] = "up"
                  /\ name[s].chars = name[c].chars
       /\ link' = link \cup {{c, s}}
  /\ UNCHANGED <<opening, node, data, closing>>

\* Mutant: dht_connect waits for 'open' alone.
OpenFails_Unheard(c) ==
  /\ kind[c] = "server" /\ call[c] = "waiting"
  /\ call' = [call EXCEPT ![c] = "failed"]
  /\ UNCHANGED <<opening, node, table, link, data, closing>>

\* listen() rejects or the socket errs: the call throws, and leaves its node as it is.
OpenFails(c) ==
  /\ kind[c] \in {"server", "conn"} /\ call[c] = "waiting"
  /\ call' = [call EXCEPT ![c] = "failed"]
  /\ UNCHANGED <<opening, node, table, link, data, closing>>

-----------------------------------------------------------------------------
(* Traffic. *)

Peers(c) == {d \in 0..MaxOpen : d # c /\ {c, d} \in link}

\* Hyperswarm connects two swarms of one topic, also before swarm_join has returned.
Meet(c, d) ==
  /\ c < d /\ kind[c] = "swarm" /\ kind[d] = "swarm" /\ name[c] = name[d]
  /\ node[c] = "up" /\ node[d] = "up" /\ {c, d} \notin link
  /\ link' = link \cup {{c, d}}
  /\ UNCHANGED <<opening, call, node, table, data, closing>>

\* A lost connection loses what is on it.
Unlink(gone) ==
  /\ link' = link \ gone
  /\ wire' = [p \in DOMAIN wire |-> IF {p[1], p[2]} \in gone THEN <<>> ELSE wire[p]]

Drop(c, d) ==
  /\ {c, d} \in link /\ Unlink({{c, d}})
  /\ UNCHANGED <<opening, call, node, table, inbox, due, read, sent, closing>>

Write(c, to, m) ==
  /\ sent < MaxSent /\ sent' = sent + 1
  /\ wire' = [p \in DOMAIN wire |->
                IF p[1] = c /\ p[2] \in to
                  THEN Append(wire[p], [bytes |-> EncodeMsg(m), is |-> m]) ELSE wire[p]]
  /\ UNCHANGED <<opening, call, node, table, link, inbox, due, read, closing>>

SwarmBroadcast(i, m) ==
  LET c == table["swarm"][i] IN c # 0 /\ Peers(c) # {} /\ Write(c, Peers(c), m)
\* A write on a socket that is dead goes nowhere.
DhtSend(i, m) ==
  LET c == table["conn"][i] IN c # 0 /\ Peers(c) # {} /\ Write(c, Peers(c), m)

\* Plain text from elsewhere: to a swarm or a server, or the answer of a server.
Stranger(c, raw) ==
  /\ IF kind[c] = "conn" THEN {0, c} \in link ELSE node[c] = "up"
  /\ sent < MaxSent /\ sent' = sent + 1
  /\ wire' = [wire EXCEPT ![<<0, c>>] =
                Append(@, [bytes |-> raw, is |-> [from |-> KeyPrefix(0), text |-> raw]])]
  /\ UNCHANGED <<opening, call, node, table, link, inbox, due, read, closing>>

\* The listeners of swarms and servers are there from the connection on, that of
\* dht_connect from the 'open' on, and until it is there the socket keeps what comes.
Reads(c) == node[c] \in {"up", "closing"}

\* Mutant: the inbox that swarm_join listens with is not the one it enters.
Data_Early(d, c) ==
  /\ wire[<<d, c>>] # <<>> /\ Reads(c)
  /\ LET x == Head(wire[<<d, c>>]) IN
     /\ inbox' = [inbox EXCEPT ![c] = IF call[c] = "waiting" THEN @
                                      ELSE Append(@, TryDecode(x.bytes, d))]
     /\ due' = [due EXCEPT ![c] = Append(@, x.is)]
  /\ wire' = [wire EXCEPT ![<<d, c>>] = Tail(@)]
  /\ UNCHANGED <<opening, call, node, table, link, read, sent, closing>>

Data(d, c) ==
  /\ wire[<<d, c>>] # <<>> /\ Reads(c)
  /\ LET x == Head(wire[<<d, c>>]) IN
     /\ inbox' = [inbox EXCEPT ![c] = Append(@, TryDecode(x.bytes, d))]
     /\ due' = [due EXCEPT ![c] = Append(@, x.is)]
  /\ wire' = [wire EXCEPT ![<<d, c>>] = Tail(@)]
  /\ UNCHANGED <<opening, call, node, table, link, read, sent, closing>>

Splice(c) ==
  /\ c # 0 /\ inbox[c] # <<>>
  /\ read' = [read EXCEPT ![c] = @ \o inbox[c]] /\ inbox' = [inbox EXCEPT ![c] = <<>>]
  /\ UNCHANGED <<opening, call, node, table, link, wire, due, sent, closing>>

SwarmMessages(i)     == Splice(table["swarm"][i])
DhtServerMessages(i) == Splice(table["server"][i])
DhtMessages(i)       == Splice(table["conn"][i])

-----------------------------------------------------------------------------
(* Closing. *)

CloseBegin(u, c, st) ==
  /\ close[u] = "idle" /\ c # 0 /\ \A v \in 1..(u - 1) : close[v] # "idle"
  /\ close' = [close EXCEPT ![u] = st] /\ target' = [target EXCEPT ![u] = c]

SwarmClose(u, i) ==
  /\ CloseBegin(u, table["swarm"][i], "destroying")
  /\ UNCHANGED <<opening, call, node, table, link, data>>

\* Two awaits: the server, then its node.
DhtCloseServer(u, i) ==
  /\ CloseBegin(u, table["server"][i], "stopping")
  /\ UNCHANGED <<opening, call, node, table, link, data>>

\* The socket goes at once.
DhtCloseConn(u, i) ==
  LET c == table["conn"][i] IN
  /\ CloseBegin(u, c, "destroying")
  /\ Unlink({l \in link : c \in l})
  /\ UNCHANGED <<opening, call, node, table, inbox, due, read, sent>>

\* server.close() is done; it no longer accepts.
ServerStops(u) ==
  LET c == target[u] IN
  /\ close[u] = "stopping" /\ close' = [close EXCEPT ![u] = "destroying"]
  /\ node' = [node EXCEPT ![c] = IF @ = "up" THEN "closing" ELSE @]
  /\ UNCHANGED <<opening, call, table, link, data, target>>

\* destroy() is done.
Destroyed(u) ==
  LET c == target[u] IN
  /\ close[u] = "destroying" /\ node[c] # "gone"
  /\ node' = [node EXCEPT ![c] = "gone"]
  /\ link' = {l \in link : c \notin l}
  /\ wire' = [p \in DOMAIN wire |-> IF p[1] = c \/ p[2] = c THEN <<>> ELSE wire[p]]
  /\ UNCHANGED <<opening, call, table, inbox, due, read, sent, closing>>

\* The await returns: the handle is deleted.
CloseReturns(u) ==
  LET c == target[u] IN
  /\ close[u] = "destroying" /\ node[c] = "gone"
  /\ table' = [table EXCEPT ![kind[c]][id[c]] = 0]
  /\ close' = [close EXCEPT ![u] = "closed"]
  /\ UNCHANGED <<opening, call, node, link, data, target>>

\* Mutant: the handle is deleted whatever comes of the teardown.
CloseFails_Finally(u) ==
  /\ close[u] \in {"stopping", "destroying"} /\ node[target[u]] # "gone"
  /\ close' = [close EXCEPT ![u] = "failed"]
  /\ table' = [table EXCEPT ![kind[target[u]]][id[target[u]]] = 0]
  /\ UNCHANGED <<opening, call, node, link, data, target>>

\* A teardown that rejects throws out of the call and leaves the handle: it can be retried.
CloseFails(u) ==
  /\ close[u] \in {"stopping", "destroying"} /\ node[target[u]] # "gone"
  /\ close' = [close EXCEPT ![u] = "failed"]
  /\ UNCHANGED <<opening, call, node, table, link, data, target>>

-----------------------------------------------------------------------------
OpenStep(c)  == Flushed(c) \/ Listens(c) \/ Opens(c) \/ OpenFails(c)
CloseStep(u) == ServerStops(u) \/ Destroyed(u) \/ CloseReturns(u) \/ CloseFails(u)

OpenTool == \/ \E t \in Topic : SwarmJoin(t)
            \/ \E k \in Key : DhtServe(k) \/ DhtConnect(ToZ32(k)) \/ DhtConnect(ToHex(k))
UseTool(i) == \/ \E m \in Message : SwarmBroadcast(i, m) \/ DhtSend(i, m)
              \/ SwarmMessages(i) \/ DhtServerMessages(i) \/ DhtMessages(i)
CloseTool(u, i) == SwarmClose(u, i) \/ DhtCloseServer(u, i) \/ DhtCloseConn(u, i)
Network(c) == \/ \E d \in Opener : Meet(c, d)
              \/ \E d \in 0..MaxOpen : Drop(c, d) \/ Data(d, c)
              \/ \E raw \in RawText : Stranger(c, raw)

Next == \/ OpenTool
        \/ \E c \in Opener : OpenStep(c) \/ UseTool(c) \/ Network(c)
        \/ \E u \in Closer : CloseStep(u) \/ \E i \in Opener : CloseTool(u, i)

\* What a call awaits of the network ends, a connection that does not open by an error;
\* nobody has to call.
Fairness == /\ \A c \in Opener : WF_vars(Flushed(c) \/ Listens(c) \/ OpenFails(c))
            /\ \A u \in Closer : WF_vars(CloseStep(u))

Spec == Init /\ [][Next]_vars /\ Fairness

-----------------------------------------------------------------------------
\* A handle that an opening call returned leads to the node that this call made or, once
\* that is closed, nowhere: never to a later node or to one of another kind, whatever
\* calls overlap, fail, or close what others use.
HandleReachesOwn ==
  \A c \in Opener : call[c] = "ok" => table[kind[c]][id[c]] \in {0, c}

\* A node whose opening call succeeded can be reached and closed as long as it lives, also
\* after a close of it failed half way.
NothingOrphaned ==
  \A c \in Opener :
    call[c] = "ok" /\ node[c] # "gone" => table[kind[c]][id[c]] = c

\* Every message that reached a node is read once or still buffered, in order, and as its
\* sender wrote it, from the moment of the connection on.
EveryMessageOnce == \A c \in Opener : read[c] \o inbox[c] = due[c]

\* Every opening and every closing call settles.
CallsSettle ==
  /\ \A c \in Opener : call[c] = "waiting" ~> call[c] # "waiting"
  /\ \A u \in Closer : close[u] \in {"stopping", "destroying"} ~> close[u] \in {"closed", "failed"}

\* A key that dht_serve returned is one that dht_connect takes (dht_connect: "its public
\* key (z32 or hex)").
ServedKeyConnects ==
  \A s, c \in Opener :
    kind[s] = "server" /\ call[s] = "ok" /\ kind[c] = "conn" /\ name[c] = name[s] =>
      call[c] # "refused"

=============================================================================
