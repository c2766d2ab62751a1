-------------------------- MODULE ToolBridgeProofs --------------------------
(* Theorems about ToolBridge, for any tools, registrations and calls. *)
EXTENDS ToolBridge, TLAPS

(* HandlerFresh holds because registerTool stores the handler before it asks the agent:
   every request on its way, and so every definition the agent can hold, was preceded by
   its handler, and a handler is only ever replaced by a newer one. *)
Sent == \A v \in Reg : reg[v] # "idle" => v <= regs
HandlersLead == /\ \A v \in Reg : reg[v] = "sent" => handlers[tool[v]] >= v
                /\ \A n \in Name : handlers[n] >= defs[n] /\ handlers[n] <= regs
CallsKnown == \A e \in Exec : x[e] # "idle" =>
                def[e] # 0 /\ def[e] <= handlers[called[e]]
Fresh == Sent /\ HandlersLead /\ CallsKnown /\ HandlerFresh

\* Every variable of the bridge keeps its type; and no call is out, or comes back, before
\* Attach has given the server its channel.
THEOREM BridgeTyped == Spec => []TypeOK
<1> USE BridgeAssumption DEF TypeOK, Reg
<1>1. Init => TypeOK
  <2> SUFFICES ASSUME Init PROVE TypeOK
    OBVIOUS
  <2>1. attached \in BOOLEAN /\ dead \in BOOLEAN
    BY DEF Init
  <2>2. regs \in 0..MaxReg
    BY DEF Init
  <2> QED BY <2>1, <2>2 DEF Init
<1>2. ASSUME TypeOK, [Next]_vars PROVE TypeOK'
  <2>1. CASE UNCHANGED vars
    BY <1>2, <2>1 DEF vars
  <2>2. CASE Attach \/ ChannelEnds \/ AllQuiet
    BY <1>2, <2>2 DEF Attach, ChannelEnds, AllQuiet, vars, regVars, exec
  <2>3. ASSUME NEW n \in Name, Register(n) PROVE TypeOK'
    <3>1. regs + 1 \in Reg /\ regs' \in 0..MaxReg
      BY <1>2, <2>3 DEF Register
    <3> QED BY <1>2, <2>3, <3>1 DEF Register, exec
  <2>4. ASSUME NEW v \in Reg, RegStep(v) PROVE TypeOK'
    <3>1. CASE GoRegister(v) BY <1>2, <3>1 DEF GoRegister, exec
    <3>2. CASE RegisterFails(v) BY <1>2, <3>2 DEF RegisterFails, exec
    <3> QED BY <2>4, <3>1, <3>2 DEF RegStep
  <2>5. ASSUME NEW e \in Exec, NEW n \in Name, CallTool(e, n) PROVE TypeOK'
    BY <1>2, <2>5 DEF CallTool, regVars
  <2>6. ASSUME NEW e \in Exec, Gate(e) \/ ToolReturns(e) \/ ToolCancelled(e) PROVE TypeOK'
    BY <1>2, <2>6 DEF Gate, ToolReturns, ToolCancelled, Running, regVars
  <2>7. ASSUME NEW e \in Exec, HandlerSettles(e) PROVE TypeOK'
    BY <1>2, <2>7 DEF HandlerSettles, regVars
  <2>8. ASSUME NEW e \in Exec, JsToolExec(e) PROVE TypeOK'
    BY <1>2, <2>8 DEF JsToolExec, regVars
  <2> QED BY <1>2, <2>1, <2>2, <2>3, <2>4, <2>5, <2>6, <2>7, <2>8 DEF Next, ExecStep
<1> QED BY <1>1, <1>2, PTL DEF Spec

\* A tool call runs a handler that is no older than the definition the agent called.
THEOREM CallsRunFreshHandlers == Spec => []HandlerFresh
<1> USE BridgeAssumption DEF TypeOK, Reg, Fresh, Sent, HandlersLead, CallsKnown, HandlerFresh
<1>1. Init => Fresh
  BY DEF Init
<1>2. ASSUME TypeOK, Fresh, [Next]_vars PROVE Fresh'
  <2>1. CASE UNCHANGED vars
    BY <1>2, <2>1 DEF vars
  <2>2. CASE Attach \/ ChannelEnds \/ AllQuiet
    BY <1>2, <2>2 DEF Attach, ChannelEnds, AllQuiet, vars, regVars, exec
  <2>3. ASSUME NEW n \in Name, Register(n) PROVE Fresh'
    BY <1>2, <2>3 DEF Register, exec
  <2>4. ASSUME NEW v \in Reg, RegStep(v) PROVE Fresh'
    <3>1. CASE GoRegister(v) BY <1>2, <3>1 DEF GoRegister, exec
    <3>2. CASE RegisterFails(v) BY <1>2, <3>2 DEF RegisterFails, exec
    <3> QED BY <2>4, <3>1, <3>2 DEF RegStep
  <2>5. ASSUME NEW e \in Exec, NEW n \in Name, CallTool(e, n) PROVE Fresh'
    BY <1>2, <2>5 DEF CallTool, regVars
  <2>6. ASSUME NEW e \in Exec, Gate(e) \/ ToolReturns(e) \/ ToolCancelled(e) PROVE Fresh'
    BY <1>2, <2>6 DEF Gate, ToolReturns, ToolCancelled, Running, regVars
  <2>7. ASSUME NEW e \in Exec, HandlerSettles(e) PROVE Fresh'
    BY <1>2, <2>7 DEF HandlerSettles, regVars
  <2>8. ASSUME NEW e \in Exec, JsToolExec(e) PROVE Fresh'
    BY <1>2, <2>8 DEF JsToolExec, regVars
  <2> QED BY <1>2, <2>1, <2>2, <2>3, <2>4, <2>5, <2>6, <2>7, <2>8 DEF Next, ExecStep
<1>3. Fresh => HandlerFresh
  BY DEF Fresh
<1> QED BY <1>1, <1>2, <1>3, BridgeTyped, PTL DEF Spec

=============================================================================
