------------------------------- MODULE AmiRpc -------------------------------
(***************************************************************************)
(* What AmiClient::action promises to its callers, with no connection,     *)
(* lock or buffer in sight: a call is opened at most once, is closed at    *)
(* most once, and is answered only if Asterisk dealt with the action (the  *)
(* answer may be its error).  A failed call promises nothing: Asterisk may *)
(* deal with it before or after the caller has been told that it failed.   *)
(***************************************************************************)
CONSTANT Call

VARIABLES status,     \* what each caller knows of its call
          performed   \* the calls whose action Asterisk has dealt with

rpcVars == <<status, performed>>

RpcTypeOK == /\ status \in [Call -> {"unused", "open", "answered", "failed"}]
             /\ performed \subseteq Call

RpcInit == /\ status = [c \in Call |-> "unused"]
           /\ performed = {}

Open(c) == /\ status[c] = "unused"
           /\ status' = [status EXCEPT ![c] = "open"]
           /\ UNCHANGED performed

Perform(c) == /\ status[c] # "unused"
              /\ c \notin performed
              /\ performed' = performed \cup {c}
              /\ UNCHANGED status

Answer(c) == /\ status[c] = "open"
             /\ c \in performed
             /\ status' = [status EXCEPT ![c] = "answered"]
             /\ UNCHANGED performed

Fail(c) == /\ status[c] = "open"
           /\ status' = [status EXCEPT ![c] = "failed"]
           /\ UNCHANGED performed

RpcNext == \E c \in Call : Open(c) \/ Perform(c) \/ Answer(c) \/ Fail(c)

RpcSpec == RpcInit /\ [][RpcNext]_rpcVars
=============================================================================
