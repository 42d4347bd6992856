--------------------------- MODULE ReplicatedStore ---------------------------
(***************************************************************************)
(* What the replicated control-plane store promises its clients: one       *)
(* database, on which every write takes effect at most once and in one     *)
(* order, and a write that was acknowledged has taken effect.  A write     *)
(* that was answered with an error may take effect all the same, then or   *)
(* later.  RaftStore implements this specification.                        *)
(***************************************************************************)
CONSTANTS
  Requests,             \* client requests
  Commands,             \* commands a request may carry
  EmptyContents,        \* the empty database
  Effect(_, _),         \* Effect(d, c): the database after command c on d
  None                  \* no command, no answer

VARIABLES
  contents,             \* the database
  command,              \* command[r]: what request r writes, or None
  effective,            \* the requests whose write took effect
  answer                \* answer[r]: what the client was told, or None

vars == <<contents, command, effective, answer>>

Init ==
  /\ contents = EmptyContents
  /\ command = [r \in Requests |-> None]
  /\ effective = {}
  /\ answer = [r \in Requests |-> None]

Invoke(r) ==
  /\ command[r] = None /\ answer[r] = None
  /\ \E c \in Commands : command' = [command EXCEPT ![r] = c]
  /\ UNCHANGED <<contents, effective, answer>>

TakeEffect(r) ==
  /\ command[r] # None
  /\ r \notin effective
  /\ contents' = Effect(contents, command[r])
  /\ effective' = effective \cup {r}
  /\ UNCHANGED <<command, answer>>

\* Reads, rejected requests and failures are answered without an effect; a
\* write is acknowledged after it.  One failure may end several requests.
Answer ==
  /\ \A r \in Requests :
       answer'[r] # answer[r] =>
         /\ answer[r] = None
         /\ answer'[r] = "ok" /\ command[r] # None => r \in effective
  /\ UNCHANGED <<contents, command, effective>>

Next ==
  \/ \E r \in Requests : Invoke(r) \/ TakeEffect(r)
  \/ Answer

Spec == Init /\ [][Next]_vars
=============================================================================
