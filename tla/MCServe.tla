------------------------------ MODULE MCServe ------------------------------
(***************************************************************************)
(* Instances of ServeProxy for TLC.                                         *)
(***************************************************************************)
EXTENDS ServeProxy

CONSTANT Prober  \* the request that may be a probe

Chat == [method |-> "POST", path |-> <<"v1", "chat", "completions">>]

\* A request for tokens and two probes of the default blacklist, one of them below
\* a listed path.
AllCalls == {Chat,
             [method |-> "GET",     path |-> <<"v1", "models", "m">>],
             [method |-> "OPTIONS", path |-> <<"v1", "chat", "completions">>]}

ProbeCall == {[method |-> "GET", path |-> <<"probe">>]}

NoRules == {}

ProbeRule == {[method |-> "GET", path |-> <<"probe">>]}

\* The hold with each answer to a slow backend, and no hold.
AllOptions ==
  [hold : {TRUE}, timeout : Waits] \cup [hold : {FALSE}, timeout : {"forever"}]

Default == {[hold |-> TRUE, timeout |-> "forever"]}

\* All requests but one are for tokens.
ChatInit == Init /\ \A r \in Requests \ {Prober} : call[r] = Chat

ChatSpec == ChatInit /\ [][Next]_vars /\ Fairness
=============================================================================
