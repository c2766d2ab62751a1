------------------------------ MODULE Bareclaw ------------------------------
(***************************************************************************)
(* src/index.js: one application, one Bareclaw instance at a time, the Go  *)
(* agent process it spawns and the Hyperbee that outlives both.  A session *)
(* has two copies: the history inside Go (hist) and the blob in the bee    *)
(* (bee).  Every method that moves one copy over the other is an action    *)
(* here, cut at each await where another step can run.                     *)
(*                                                                         *)
(* A history, and so a blob, is the set of the calls whose content it      *)
(* holds: a chat adds itself, an import replaces the set by its own.       *)
(***************************************************************************)
EXTENDS Naturals, SequencesExt

CONSTANTS
  Key,        \* session keys
  Text,       \* [Key -> Seq(Nat)]: the characters of each
  Call,       \* calls of the application; each is made at most once
  Closer,     \* the flush loop of _close, which persists like a call does
  Corrupt,    \* content of a blob that the agent's importer refuses
  None,
  Overlap,    \* the application may use a session, or close, with calls in flight
  EarlyBreak, \* the consumer of a chat may break before its terminal chunk
  GoMayDie    \* the agent process may exit on its own

ASSUME ConstantsAssumption ==
  /\ Closer \notin Call /\ Corrupt \notin Call /\ None \notin Key
  /\ {Overlap, EarlyBreak, GoMayDie} \subseteq BOOLEAN

ASSUME TextAssumption ==
  Text \in [Key -> Seq(Nat)] /\ \A k, l \in Key : Text[k] = Text[l] => k = l

VARIABLES
  phase,   \* of the instance: its _open and _close
  go,      \* the agent process
  hist,    \* the agent's history of each session, in memory or on its disk
  bee,     \* the blob under picoclaw/sessions/<key>/data, {} when there is none
  stored,  \* the keys that have such a blob
  scopes,  \* the keys that have a picoclaw/sessions/<key>/scope entry
  todo,    \* the keys the loop of _loadFromStore or of _close has left
  op, key, \* what each call is, and the session it is on
  pc,      \* where each call (and the flush loop) is; the name of the request it awaits
  turn,    \* the agent's turn of each chat
  blob,    \* the blob a call has in hand
  sawDone, \* the chats whose consumer was given the done chunk
  acked    \* the calls that returned, minus what a later import replaced

inst  == <<phase, go, todo>>
store == <<bee, stored, scopes>>
args  == <<op, key>>
vars  == <<phase, go, hist, bee, stored, scopes, todo, op, key, pc, turn, blob,
           sawDone, acked>>

Persister == Call \cup {Closer}
Content   == SUBSET (Call \cup {Corrupt})
Active(c) == pc[c] \notin {"idle", "ok", "error"}
BeeOpen   == phase \in {"load", "open", "flush", "closeFailed"}

TypeOK ==
  /\ phase \in {"down", "load", "open", "openFailed", "flush", "shutdown",
                "closed", "closeFailed"}
  /\ go \in {"up", "exited"}
  /\ hist \in [Key -> Content] /\ bee \in [Key -> Content]
  /\ stored \subseteq Key /\ scopes \subseteq Key /\ todo \subseteq Key
  /\ op \in [Call -> {"none", "chat", "session", "import"}]
  /\ key \in [Persister -> Key \cup {None}]
  /\ pc \in [Persister -> {"idle", "ready", "chat", "session", "import",
                           "persist", "export", "put", "ok", "error"}]
  /\ turn \in [Call -> {"none", "running", "done", "failed"}]
  /\ blob \in [Persister -> Content]
  /\ sawDone \subseteq Call /\ acked \subseteq Call
  /\ pc[Closer] \in {"idle", "export", "put"}
  /\ \A p \in Persister : pc[p] # "idle" => key[p] \in Key
  /\ \A c \in Call : pc[c] # "idle" => op[c] # "none"
  /\ todo # {} => phase \in {"load", "openFailed", "flush", "closeFailed"}
  /\ pc[Closer] # "idle" => phase = "flush"

Init ==
  /\ phase = "down" /\ go = "exited" /\ todo = {}
  /\ hist = [k \in Key |-> {}] /\ bee = [k \in Key |-> {}]
  /\ stored = {} /\ scopes = {}
  /\ op = [c \in Call |-> "none"] /\ key = [p \in Persister |-> None]
  /\ pc = [p \in Persister |-> "idle"]
  /\ turn = [c \in Call |-> "none"]
  /\ blob = [p \in Persister |-> {}]
  /\ sawDone = {} /\ acked = {}

-----------------------------------------------------------------------------
(* Opening: a fresh agent, then one import per listed session. *)

Slash == 47

\* _listStoreKeys: an entry of k is "<k>/data" or "<k>/scope" after the prefix; it is in the
\* range if it begins below U+00FF, and what comes before its first slash is listed.
ListedAs == [k \in Key |-> {l \in Key :
  /\ Text[l] # <<>> /\ Text[l][1] < 255 /\ \A i \in DOMAIN Text[l] : Text[l][i] # Slash
  /\ IsPrefix(Append(Text[l], Slash), Append(Text[k], Slash))}]
Listed == UNION {ListedAs[k] : k \in stored \cup scopes}

\* The agent keeps files of its own: of each session it finds what it last had, or nothing.
Open ==
  /\ phase \in {"down", "closed"} /\ ~ \E c \in Call : Active(c)
  /\ phase' = "load" /\ go' = "up" /\ todo' = Listed
  /\ \E kept \in SUBSET Key :
       hist' = [k \in Key |-> IF k \in kept THEN hist[k] ELSE {}]
  /\ UNCHANGED <<store, args, pc, turn, blob, sawDone, acked>>

\* Mutant: a session that has a blob is the one passed over.
LoadSession_Skips(k) ==
  /\ phase = "load" /\ k \in todo /\ todo' = todo \ {k}
  /\ UNCHANGED <<phase, go, hist, store, args, pc, turn, blob, sawDone, acked>>

LoadSession(k) ==
  /\ phase = "load" /\ k \in todo /\ todo' = todo \ {k}
  /\ \/ k \notin stored /\ UNCHANGED <<phase, hist>>
     \/ /\ k \in stored /\ go = "up" /\ Corrupt \notin bee[k]
        /\ hist' = [hist EXCEPT ![k] = bee[k]]
        /\ phase' \in {"load", "openFailed"}   \* the agent's Save may fail
     \/ /\ k \in stored /\ phase' = "openFailed" /\ UNCHANGED hist
  /\ UNCHANGED <<go, store, args, pc, turn, blob, sawDone, acked>>

\* Mutant: _open resolves without waiting for the imports.
LoadDone_Early ==
  /\ phase = "load" /\ phase' = "open"
  /\ UNCHANGED <<go, todo, hist, store, args, pc, turn, blob, sawDone, acked>>

LoadDone ==
  /\ phase = "load" /\ todo = {} /\ phase' = "open"
  /\ UNCHANGED <<go, todo, hist, store, args, pc, turn, blob, sawDone, acked>>

-----------------------------------------------------------------------------
(* Calls: chat, session and importSession. *)

Issue(c, o, k) ==
  /\ pc[c] = "idle" /\ phase # "down"
  /\ Overlap \/ /\ phase \in {"load", "open", "openFailed"}
                /\ ~ \E d \in Call : Active(d) /\ key[d] = k
  /\ op' = [op EXCEPT ![c] = o] /\ key' = [key EXCEPT ![c] = k]
  /\ pc' = [pc EXCEPT ![c] = "ready"]
  /\ \E content \in IF o = "import" THEN {{c}, {Corrupt}} ELSE {{}} :
       blob' = [blob EXCEPT ![c] = content]
  /\ UNCHANGED <<inst, hist, store, turn, sawDone, acked>>

\* Mutant: a chat does not wait for opened.
Send_Early(c) ==
  /\ pc[c] = "ready" /\ phase \in {"load", "open"} /\ op[c] = "chat"
  /\ pc' = [pc EXCEPT ![c] = "chat"] /\ turn' = [turn EXCEPT ![c] = "running"]
  /\ UNCHANGED <<inst, hist, store, args, blob, sawDone, acked>>

\* Mutant: ready() of an instance that failed to open never rejects.
Send_Waits(c) ==
  /\ pc[c] = "ready" /\ phase \notin {"load", "openFailed"}
  /\ IF phase \in {"open", "flush", "closeFailed"}
       THEN /\ pc' = [pc EXCEPT ![c] = op[c]]
            /\ turn' = IF op[c] = "chat" /\ go = "up"
                         THEN [turn EXCEPT ![c] = "running"] ELSE turn
       ELSE pc' = [pc EXCEPT ![c] = "error"] /\ UNCHANGED turn
  /\ UNCHANGED <<inst, hist, store, args, blob, sawDone, acked>>

\* opened is awaited; the request then goes out unless the pipe is ended or _rpc is null.
Send(c) ==
  /\ pc[c] = "ready" /\ phase # "load"
  /\ IF phase \in {"open", "flush", "closeFailed"}
       THEN /\ pc' = [pc EXCEPT ![c] = op[c]]
            /\ turn' = IF op[c] = "chat" /\ go = "up"
                         THEN [turn EXCEPT ![c] = "running"] ELSE turn
       ELSE pc' = [pc EXCEPT ![c] = "error"] /\ UNCHANGED turn
  /\ UNCHANGED <<inst, hist, store, args, blob, sawDone, acked>>

\* The agent finishes the turn, whether or not the consumer is still reading.
GoTurn(c) ==
  /\ go = "up" /\ turn[c] = "running"
  /\ \/ turn' = [turn EXCEPT ![c] = "done"]
        /\ hist' = [hist EXCEPT ![key[c]] = @ \cup {c}]
     \/ turn' = [turn EXCEPT ![c] = "failed"] /\ UNCHANGED hist
  /\ UNCHANGED <<inst, store, args, pc, blob, sawDone, acked>>

ReadTerminal(c) ==
  /\ pc[c] = "chat" /\ turn[c] \in {"done", "failed"}
  /\ pc' = [pc EXCEPT ![c] = "persist"]
  /\ sawDone' = IF turn[c] = "done" THEN sawDone \cup {c} ELSE sawDone
  /\ UNCHANGED <<inst, hist, store, args, turn, blob, acked>>

Break(c) ==
  /\ EarlyBreak /\ pc[c] = "chat"
  /\ pc' = [pc EXCEPT ![c] = "persist"]
  /\ UNCHANGED <<inst, hist, store, args, turn, blob, sawDone, acked>>

Acks(c) == op[c] = "chat" => c \in sawDone

\* _persistSession returns without a word once _close has nulled _rpc and _bee.
PersistStart(c) ==
  /\ pc[c] = "persist"
  /\ pc' = [pc EXCEPT ![c] = IF phase = "closed" THEN "ok"
                             ELSE IF phase = "shutdown" THEN "error" ELSE "export"]
  /\ acked' = IF phase = "closed" /\ Acks(c) THEN acked \cup {c} ELSE acked
  /\ UNCHANGED <<inst, hist, store, args, turn, blob, sawDone>>

\* Mutant: the call returns with its flush still to come.
GoExport_Unflushed(p) ==
  /\ pc[p] = "export" /\ go = "up"
  /\ blob' = [blob EXCEPT ![p] = hist[key[p]]]
  /\ pc' = [pc EXCEPT ![p] = "put"]
  /\ acked' = IF p \in Call /\ Acks(p) THEN acked \cup {p} ELSE acked
  /\ UNCHANGED <<inst, hist, store, args, turn, sawDone>>

GoExport(p) ==
  /\ pc[p] = "export" /\ go = "up"
  /\ blob' = [blob EXCEPT ![p] = hist[key[p]]]
  /\ pc' = [pc EXCEPT ![p] = "put"]
  /\ UNCHANGED <<inst, hist, store, args, turn, sawDone, acked>>

GoCreate(c) ==
  /\ pc[c] = "session" /\ go = "up"
  /\ pc' = [pc EXCEPT ![c] = "put"]
  /\ UNCHANGED <<inst, hist, store, args, turn, blob, sawDone, acked>>

\* Mutant: importSession puts the blob whatever the agent says of it.
GoImport_Ignored(c) ==
  /\ pc[c] = "import" /\ go = "up"
  /\ pc' = [pc EXCEPT ![c] = "put"]
  /\ UNCHANGED <<inst, hist, store, args, turn, blob, sawDone, acked>>

\* restore: without an agent, or with a blob that does not parse, nothing changes; a failed
\* Save leaves the new history.  What that history replaces is no longer promised.
GoImport(c) ==
  /\ pc[c] = "import" /\ go = "up"
  /\ \/ /\ Corrupt \notin blob[c]
        /\ hist' = [hist EXCEPT ![key[c]] = blob[c]]
        /\ acked' = {d \in acked : key[d] # key[c] \/ op[d] = "session"}
        /\ \E next \in {"put", "error"} : pc' = [pc EXCEPT ![c] = next]
     \/ pc' = [pc EXCEPT ![c] = "error"] /\ UNCHANGED <<hist, acked>>
  /\ UNCHANGED <<inst, store, args, turn, blob, sawDone>>

\* write, tryPut and flush: one atomic put, refused by a bee that is closed or null.
Flush(c) ==
  /\ pc[c] = "put"
  /\ IF BeeOpen
       THEN /\ IF op[c] = "session"
                 THEN scopes' = scopes \cup {key[c]} /\ UNCHANGED <<bee, stored>>
                 ELSE /\ bee' = [bee EXCEPT ![key[c]] = blob[c]]
                      /\ stored' = stored \cup {key[c]} /\ UNCHANGED scopes
            /\ pc' = [pc EXCEPT ![c] = "ok"]
            /\ acked' = IF Acks(c) THEN acked \cup {c} ELSE acked
       ELSE pc' = [pc EXCEPT ![c] = "error"] /\ UNCHANGED <<store, acked>>
  /\ UNCHANGED <<inst, hist, args, turn, blob, sawDone>>

\* A request the agent has not answered when it exits is rejected; SessionExport may answer
\* with an error of its own.
ChannelFail(c) ==
  /\ \/ pc[c] \in {"chat", "session", "import"} /\ go # "up"
     \/ pc[c] = "export"
  /\ pc' = [pc EXCEPT ![c] = "error"]
  /\ UNCHANGED <<inst, hist, store, args, turn, blob, sawDone, acked>>

-----------------------------------------------------------------------------
(* Closing: persist every listed session in turn, close the bee, end the pipe. *)

Close ==
  /\ phase = "open" /\ (Overlap \/ ~ \E c \in Call : Active(c))
  /\ phase' = "flush" /\ todo' = Listed
  /\ UNCHANGED <<go, hist, store, args, pc, turn, blob, sawDone, acked>>

CloseNext(k) ==
  /\ phase = "flush" /\ pc[Closer] = "idle" /\ k \in todo
  /\ todo' = todo \ {k}
  /\ key' = [key EXCEPT ![Closer] = k] /\ pc' = [pc EXCEPT ![Closer] = "export"]
  /\ UNCHANGED <<phase, go, hist, store, op, turn, blob, sawDone, acked>>

CloseFlush ==
  /\ phase = "flush" /\ pc[Closer] = "put"
  /\ bee' = [bee EXCEPT ![key[Closer]] = blob[Closer]]
  /\ stored' = stored \cup {key[Closer]}
  /\ pc' = [pc EXCEPT ![Closer] = "idle"]
  /\ UNCHANGED <<inst, hist, scopes, args, turn, blob, sawDone, acked>>

\* One rejected export rejects the loop, and _close with it: nothing after it runs.
CloseFail ==
  /\ pc[Closer] = "export"
  /\ phase' = "closeFailed" /\ pc' = [pc EXCEPT ![Closer] = "idle"]
  /\ UNCHANGED <<go, todo, hist, store, args, turn, blob, sawDone, acked>>

\* Mutant: the flush loop is not awaited.
CloseBee_Early ==
  /\ phase = "flush" /\ phase' = "shutdown"
  /\ UNCHANGED <<go, todo, hist, store, args, pc, turn, blob, sawDone, acked>>

\* bee.close(), then _shutdownProc arms the timer, waits for exit and ends the pipe.
CloseBee ==
  /\ phase = "flush" /\ todo = {} /\ pc[Closer] = "idle"
  /\ phase' = "shutdown"
  /\ UNCHANGED <<go, todo, hist, store, args, pc, turn, blob, sawDone, acked>>

LoseTurns == turn' = [c \in Call |-> IF turn[c] = "running" THEN "failed" ELSE turn[c]]

\* The exit event resolves _shutdownProc; _rpc and _bee become null.
Exit ==
  /\ phase = "shutdown" /\ go = "up"
  /\ go' = "exited" /\ phase' = "closed" /\ LoseTurns
  /\ UNCHANGED <<todo, hist, store, args, pc, blob, sawDone, acked>>

\* Mutant: no timer is armed.
Kill9_Never == FALSE

GoEof == Exit   \* the agent reads end of file and returns from main
Kill9 == Exit   \* or the timer sends SIGKILL after two seconds

\* Nobody listens for an exit outside _shutdownProc.
GoDies ==
  /\ GoMayDie /\ go = "up" /\ phase # "shutdown"
  /\ go' = "exited" /\ LoseTurns
  /\ UNCHANGED <<phase, todo, hist, store, args, pc, blob, sawDone, acked>>

\* The application's process ends: its calls never return, and the agent reads end of file.
Crash ==
  /\ phase # "down"
  /\ phase' = "down" /\ go' = "exited" /\ todo' = {} /\ LoseTurns
  /\ pc' = [p \in Persister |-> IF p = Closer THEN "idle"
                                ELSE IF Active(p) THEN "error" ELSE pc[p]]
  /\ UNCHANGED <<hist, store, args, blob, sawDone, acked>>

-----------------------------------------------------------------------------
CallStep(c) ==
  \/ Send(c) \/ ReadTerminal(c) \/ PersistStart(c) \/ Flush(c) \/ ChannelFail(c)
  \/ GoTurn(c) \/ GoExport(c) \/ GoCreate(c) \/ GoImport(c)

InstanceStep ==
  \/ \E k \in Key : LoadSession(k) \/ CloseNext(k)
  \/ LoadDone \/ GoExport(Closer) \/ CloseFlush \/ CloseFail \/ CloseBee \/ Kill9

Next ==
  \/ InstanceStep \/ Open \/ Close \/ GoEof \/ GoDies \/ Crash
  \/ \E c \in Call :
       \/ CallStep(c) \/ Break(c)
       \/ \E o \in {"chat", "session", "import"}, k \in Key : Issue(c, o, k)

\* Promises settle and the agent's turns end; nobody has to call, break, close or crash.
Fairness == WF_vars(InstanceStep) /\ \A c \in Call : WF_vars(CallStep(c))

Spec == Init /\ [][Next]_vars /\ Fairness

-----------------------------------------------------------------------------
(* What README.md and index.d.ts promise of a session. *)

\* After a chat was given done, or an import or a session() returned, the session is
\* listed and the bee holds what the call left, whatever closes, crashes, reopens and
\* calls on any session follow, until an import replaces it (README: a session
\* survives restarts, each turn is persisted).
AckedInBee ==
  \A c \in acked :
    /\ key[c] \in Listed
    /\ IF op[c] = "session" THEN key[c] \in scopes ELSE c \in bee[key[c]]

\* The two copies and the crossing between them implement one durable record per session:
\* no open, close, crash, failed step or reload shows in it, no turn leaves it but for an
\* import, and no call returns before its content is in it.
Promised == INSTANCE DurableSessions
              WITH on <- [c \in Call |-> key[c]], record <- bee, listed <- Listed
ImplementsDurable == Promised!Spec

\* An open agent that no call is changing remembers every acknowledged turn and import:
\* the reload has put the bee's copy over whatever the agent's own files held.
AgentRemembers ==
  phase = "open" /\ go = "up" =>
    \A c \in acked : \/ op[c] = "session"
                     \/ \E d \in Call : Active(d) /\ key[d] = key[c]
                     \/ c \in hist[key[c]]

\* No call stores a blob that the agent refuses: a later _loadFromStore is never poisoned.
BeeDecodable == \A k \in Key : Corrupt \notin bee[k]

\* After a close that succeeded, the bee holds the agent's final history of every session
\* it lists (README: close flushes each session's final state to the bee), save turns that
\* their callers broke off and that were still running.
Broken(k) == {c \in Call : op[c] = "chat" /\ key[c] = k /\ c \notin sawDone}
CloseFlushedAll ==
  phase = "closed" =>
    \A k \in Listed : bee[k] \subseteq hist[k] /\ hist[k] \subseteq bee[k] \cup Broken(k)

\* The bee never loses a turn it already holds, except to an import on that session
\* (README: after each turn the session's history is persisted into the bee).
ImportedOn(k) == \E d \in Call : op[d] = "import" /\ key[d] = k
BeeNeverRegresses == [][\A k \in Key : ImportedOn(k) \/ bee[k] \subseteq bee'[k]]_vars

\* Between opening and closing, the bee holds only turns the agent has too, whatever
\* calls overlap: the agent is where the next persist reads from, so a turn that only
\* the bee has would be gone with it.  An import sets the two copies one by one.
BeeBehindAgent ==
  phase \in {"open", "flush"} =>
    \A k \in stored : ImportedOn(k) \/ bee[k] \subseteq hist[k]

\* A chat whose turn the agent completed has left that turn in the bee when it ends, also
\* when the caller broke out early (index.js:81, index.d.ts: persisted automatically).
EndedTurnsInBee ==
  \A c \in Call : op[c] = "chat" /\ pc[c] = "ok" /\ turn[c] = "done"
                  => c \in bee[key[c]] \/ ImportedOn(key[c])

\* close() settles, it resolves or it rejects, as long as the agent process is there to be
\* shut down: a running agent that ignores the end of the pipe does not hold it up.
CloseSettles ==
  phase = "flush" ~> \/ phase \in {"closed", "closeFailed", "down"}
                     \/ phase = "shutdown" /\ go = "exited"

\* close() settles whatever state the agent is in (_shutdownProc: closing the pipe makes
\* Go exit, SIGKILL is the backstop).
CloseReturns == phase = "flush" ~> phase \in {"closed", "closeFailed", "down"}

\* Every call settles, also across a close or an exit of the agent.
CallsSettle == \A c \in Call : Active(c) ~> ~ Active(c)

=============================================================================
