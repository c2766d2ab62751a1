----------------------------- MODULE ToolBridge -----------------------------
(***************************************************************************)
(* Tools registered in JavaScript and called by the agent: registerTool    *)
(* and _onToolExec in src/index.js, ToolRegister, Attach, client and       *)
(* jsTool.Execute in go/pkg/server.  A tool is known twice: by its handler *)
(* in the _tools map and by its definition in the agent's registry.        *)
(* Registrations are numbered in the order in which registerTool is called.*)
(***************************************************************************)
EXTENDS Naturals

CONSTANTS
  Name,    \* tool names
  MaxReg,  \* bound on the calls of registerTool
  Exec,    \* the agent's tool calls, in any number of turns at once
  None

ASSUME BridgeAssumption == MaxReg \in Nat /\ None \notin Name

VARIABLES
  attached, \* the server holds its channel
  dead,     \* the channel has ended
  regs,     \* registrations so far
  tool,     \* the name each is for
  reg,      \* where each is
  handlers, \* _tools: the registration whose handler a name has, 0 when none
  defs,     \* the agent's registry: whose definition a name has, 0 when none
  x,        \* where each tool call is
  called,   \* the tool each is for
  def,      \* the definition the agent called it by
  ran,      \* the registration whose handler ran for it, 0 when none was found
  result    \* what the agent is told

regVars == <<regs, tool, reg, handlers>>
exec    == <<x, called, def, ran, result>>
vars    == <<attached, dead, regs, tool, reg, handlers, defs, x, called, def, ran,
             result>>

Reg == 1..MaxReg
Running(e) == x[e] \notin {"idle", "returned"}

Init ==
  /\ attached = FALSE /\ dead = FALSE /\ regs = 0
  /\ tool = [v \in Reg |-> None] /\ reg = [v \in Reg |-> "idle"]
  /\ handlers = [n \in Name |-> 0] /\ defs = [n \in Name |-> 0]
  /\ x = [e \in Exec |-> "idle"] /\ called = [e \in Exec |-> None] /\ def = [e \in Exec |-> 0]
  /\ ran = [e \in Exec |-> 0] /\ result = [e \in Exec |-> "none"]

TypeOK ==
  /\ attached \in BOOLEAN /\ dead \in BOOLEAN /\ regs \in 0..MaxReg
  /\ tool \in [Reg -> Name \cup {None}] /\ reg \in [Reg -> {"idle", "sent", "ok", "failed"}]
  /\ handlers \in [Name -> 0..MaxReg] /\ defs \in [Name -> 0..MaxReg]
  /\ x \in [Exec -> {"idle", "gate", "sent", "running", "replied", "returned"}]
  /\ called \in [Exec -> Name \cup {None}] /\ def \in [Exec -> 0..MaxReg]
  /\ ran \in [Exec -> 0..MaxReg]
  /\ \A v \in Reg : reg[v] # "idle" => tool[v] \in Name
  /\ \A e \in Exec : x[e] # "idle" => called[e] \in Name
  /\ \A e \in Exec : x[e] \in {"sent", "running", "replied"} => attached
  /\ result \in [Exec -> {"none", "output", "empty", "toolError", "rpcError"}]

-----------------------------------------------------------------------------
\* Mutant: the definition goes out and the handler is not in the map yet.
Register_Late(n) ==
  /\ regs < MaxReg /\ regs' = regs + 1
  /\ tool' = [tool EXCEPT ![regs + 1] = n] /\ reg' = [reg EXCEPT ![regs + 1] = "sent"]
  /\ UNCHANGED <<attached, dead, handlers, defs, exec>>

\* registerTool: the handler first, then the request; a schema that has no JSON throws
\* between the two.
Register(n) ==
  /\ regs < MaxReg /\ regs' = regs + 1
  /\ tool' = [tool EXCEPT ![regs + 1] = n]
  /\ handlers' = [handlers EXCEPT ![n] = regs + 1]
  /\ \E s \in {"sent", "failed"} : reg' = [reg EXCEPT ![regs + 1] = s]
  /\ UNCHANGED <<attached, dead, defs, exec>>

\* ToolRegister runs in the request's own goroutine: two requests in either order.
GoRegister(v) ==
  /\ reg[v] = "sent" /\ ~ dead
  /\ defs' = [defs EXCEPT ![tool[v]] = v] /\ reg' = [reg EXCEPT ![v] = "ok"]
  /\ UNCHANGED <<attached, dead, regs, tool, handlers, exec>>

\* Its error, for a schema that is not an object, or the channel's end rejects registerTool.
RegisterFails(v) ==
  /\ reg[v] = "sent"
  /\ reg' = [reg EXCEPT ![v] = "failed"]
  /\ UNCHANGED <<attached, dead, regs, tool, handlers, defs, exec>>

\* hrpc.New is already serving when main comes to Attach.
Attach ==
  /\ ~ attached /\ attached' = TRUE
  /\ UNCHANGED <<dead, regVars, defs, exec>>

ChannelEnds ==
  /\ ~ dead /\ dead' = TRUE
  /\ UNCHANGED <<attached, regVars, defs, exec>>

-----------------------------------------------------------------------------
CallTool(e, n) ==
  /\ x[e] = "idle" /\ ~ dead /\ defs[n] # 0
  /\ x' = [x EXCEPT ![e] = "gate"]
  /\ called' = [called EXCEPT ![e] = n] /\ def' = [def EXCEPT ![e] = defs[n]]
  /\ UNCHANGED <<attached, dead, regVars, defs, ran, result>>

\* Mutant: Execute takes the server's channel without waiting for Attach.
Gate_Open(e) ==
  /\ x[e] = "gate"
  /\ x' = [x EXCEPT ![e] = "sent"]
  /\ UNCHANGED <<attached, dead, regVars, defs, called, def, ran, result>>

\* client: wait for the channel, then send ToolExec on it.
Gate(e) ==
  /\ x[e] = "gate" /\ attached
  /\ x' = [x EXCEPT ![e] = "sent"]
  /\ UNCHANGED <<attached, dead, regVars, defs, called, def, ran, result>>

\* _onToolExec takes the handler the map has now and starts it.
JsToolExec(e) ==
  /\ x[e] = "sent" /\ x' = [x EXCEPT ![e] = "running"]
  /\ ran' = [ran EXCEPT ![e] = handlers[called[e]]]
  /\ UNCHANGED <<attached, dead, regVars, defs, called, def, result>>

\* The handler returns a value or nothing, or throws; no handler is a null output.
HandlerSettles(e) ==
  /\ x[e] = "running" /\ x' = [x EXCEPT ![e] = "replied"]
  /\ \E out \in IF ran[e] = 0 THEN {"empty"} ELSE {"output", "empty", "toolError"} :
       result' = [result EXCEPT ![e] = out]
  /\ UNCHANGED <<attached, dead, regVars, defs, called, def, ran>>

ToolReturns(e) ==
  /\ x[e] = "replied" /\ ~ dead
  /\ x' = [x EXCEPT ![e] = "returned"]
  /\ UNCHANGED <<attached, dead, regVars, defs, called, def, ran, result>>

\* Mutant: the wait for the reply does not watch the context.
ToolCancelled_Gate(e) ==
  /\ x[e] = "gate" /\ dead
  /\ x' = [x EXCEPT ![e] = "returned"] /\ result' = [result EXCEPT ![e] = "rpcError"]
  /\ UNCHANGED <<attached, dead, regVars, defs, called, def, ran>>

\* The channel's end cancels the context that client and ReplyContext wait under.
ToolCancelled(e) ==
  /\ Running(e) /\ dead
  /\ x' = [x EXCEPT ![e] = "returned"] /\ result' = [result EXCEPT ![e] = "rpcError"]
  /\ UNCHANGED <<attached, dead, regVars, defs, called, def, ran>>

-----------------------------------------------------------------------------
ExecStep(e) == Gate(e) \/ JsToolExec(e) \/ HandlerSettles(e) \/ ToolReturns(e) \/ ToolCancelled(e)
RegStep(v)  == GoRegister(v) \/ RegisterFails(v)

\* No registration and no call is in progress.
AllQuiet ==
  /\ \A v \in Reg : reg[v] # "sent"
  /\ \A e \in Exec : ~ Running(e)
  /\ UNCHANGED vars

Next == \/ Attach \/ ChannelEnds \/ AllQuiet
        \/ \E n \in Name : Register(n)
        \/ \E v \in Reg : RegStep(v)
        \/ \E e \in Exec : ExecStep(e) \/ \E n \in Name : CallTool(e, n)

\* main goes on to Attach and handlers settle; nothing has to register or call a tool.
Fairness == /\ WF_vars(Attach)
            /\ \A v \in Reg : WF_vars(RegStep(v))
            /\ \A e \in Exec : WF_vars(ExecStep(e))

Spec == Init /\ [][Next]_vars /\ Fairness

-----------------------------------------------------------------------------
\* A tool call runs a handler, and one at least as new as the definition the agent called
\* it by, however registrations of one name overlap each other and the calls: arguments
\* made for a new schema never reach an older handler, and no call is answered by the null
\* output of a missing handler.
HandlerFresh ==
  \A e \in Exec : x[e] \in {"running", "replied"} => ran[e] # 0 /\ ran[e] >= def[e]

\* Every tool call returns to its turn, also when the channel ends before or during it.
ExecReturns == \A e \in Exec : Running(e) ~> ~ Running(e)

=============================================================================
