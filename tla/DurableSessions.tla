--------------------------- MODULE DurableSessions ---------------------------
(***************************************************************************)
(* What an application may rely on (README: "Persisting sessions",         *)
(* index.d.ts): a registry of sessions with a record each, which outlives  *)
(* every instance, agent process and crash.  There is no agent here and no *)
(* opening or closing: to the record these are steps that change nothing.  *)
(* Bareclaw, used with one call at a time on a session, implements it.     *)
(***************************************************************************)
CONSTANTS Key, Call, None

VARIABLES
  op, on,  \* what each call is, and the session it is on
  record,  \* the calls whose content the record of each session holds
  listed,  \* the sessions that sessions() lists
  acked    \* the calls that returned, minus what a later import replaced

vars == <<op, on, record, listed, acked>>

Init ==
  /\ op = [c \in Call |-> "none"] /\ on = [c \in Call |-> None]
  /\ record = [k \in Key |-> {}] /\ listed = {} /\ acked = {}

Issue(c, o, k) ==
  /\ op[c] = "none"
  /\ op' = [op EXCEPT ![c] = o] /\ on' = [on EXCEPT ![c] = k]
  /\ UNCHANGED <<record, listed, acked>>

\* An import that is accepted may from here on replace what its session had.
Accept(c) ==
  /\ op[c] = "import" /\ c \notin acked
  /\ acked' = {d \in acked : on[d] # on[c] \/ op[d] = "session"}
  /\ UNCHANGED <<op, on, record, listed>>

\* A record holds turns and imports of its own session, all that are acknowledged among
\* them; it loses something only to an import that comes into it.
Recorded(k, new) ==
  /\ \A c \in new : on[c] = k /\ op[c] \in {"chat", "import"}
  /\ \A d \in acked : on[d] = k /\ op[d] # "session" => d \in new
  /\ \/ record[k] \subseteq new
     \/ \E c \in new \ record[k] : op[c] = "import"

Keep(k) ==
  /\ \E new \in SUBSET Call :
       Recorded(k, new) /\ record' = [record EXCEPT ![k] = new]
  /\ listed' \in {listed, listed \cup {k}}

\* A call returns with what it did on record.
Return(c) ==
  /\ op[c] # "none" /\ Keep(on[c])
  /\ acked' = acked \cup {c}
  /\ on[c] \in listed' /\ (op[c] # "session" => c \in record'[on[c]])
  /\ UNCHANGED <<op, on>>

Next ==
  \/ \E c \in Call : \/ Return(c) \/ Accept(c)
                     \/ \E o \in {"chat", "session", "import"}, k \in Key : Issue(c, o, k)
  \/ \E k \in Key : Keep(k) /\ UNCHANGED <<op, on, acked>>

Spec == Init /\ [][Next]_vars

=============================================================================
