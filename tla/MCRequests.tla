----------------------------- MODULE MCRequests -----------------------------
(* Instances of Requests for TLC.                                          *)
EXTENDS Requests
CONSTANTS n1, n2, queue, login

\* Two bulk requests with two notes in opposite orders, one of them under a key, the start of an AI
\* job of a note, a login: neither of these takes a key.
MCKeyed == {<<n1, n2>>}
MCPlan == MCKeyed \cup {<<n2, n1>>, GeneratePlan(n1, queue), LoginPlan(login)}
=============================================================================
