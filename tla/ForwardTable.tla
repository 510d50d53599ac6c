----------------------------- MODULE ForwardTable -----------------------------
(***************************************************************************)
(* What the utility promises the plugin of port forwards, whichever driver *)
(* keeps them and in whatever steps: PUT, DELETE and GET of port forwards  *)
(* (server/port_forwards_handler.go).                                      *)
(*                                                                         *)
(* A request puts the promises on its ports in abeyance.  While it works,  *)
(* fails or dies, the table may change on those ports and on no others;    *)
(* what it answers with success holds until the next request on the port.  *)
(* A driver that does not keep the machines of forwards may also lose      *)
(* forwards, and then it promises them no more.                            *)
(***************************************************************************)
CONSTANTS
  Ports, \* host ports
  Open,  \* nothing is promised
  Gone   \* promised: the port is not forwarded

VARIABLES
  table,   \* the forwards that are listed: port, guest and desc
  promise, \* promise[p]: a forward, Gone or Open
  keeps    \* does the driver keep the machines of forwards?

vars == <<table, promise, keeps>>

\* Table t has of port p what v promises.
Honours(v, t, p) ==
  \/ v = Open
  \/ v = Gone /\ \A f \in t : f.port # p
  \/ v \notin {Open, Gone} /\ \E f \in t : f.port = p /\ f.guest = v.guest /\ (keeps => f = v)

Init ==
  /\ table = {}
  /\ promise = [p \in Ports |-> Open]
  /\ keeps \in BOOLEAN

Accept ==
  /\ \E ports \in SUBSET Ports : promise' = [p \in Ports |-> IF p \in ports THEN Open ELSE promise[p]]
  /\ UNCHANGED <<table, keeps>>

Work ==
  /\ \A p \in Ports : Honours(promise[p], table', p)
  /\ UNCHANGED <<promise, keeps>>

Answer ==
  /\ \A p \in Ports : promise'[p] # promise[p] => promise[p] = Open /\ Honours(promise'[p], table, p)
  /\ promise' = [p \in Ports |-> promise'[p]]
  /\ UNCHANGED <<table, keeps>>

Lose ==
  /\ ~keeps
  /\ \E ports \in SUBSET {p \in Ports : promise[p] # Gone} :
       promise' = [p \in Ports |-> IF p \in ports THEN Open ELSE promise[p]]
  /\ \A p \in Ports : Honours(promise'[p], table', p)
  /\ UNCHANGED keeps

Next == Accept \/ Work \/ Answer \/ Lose

Spec == Init /\ [][Next]_vars
=============================================================================
