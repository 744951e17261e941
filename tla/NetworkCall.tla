---------------------------- MODULE NetworkCall ----------------------------
(***************************************************************************)
(* What a command run in a container promises the code that asked for it   *)
(* (networkutil.Client's Do and Delete, doHookAction): one answer, and the *)
(* answer "ok" only when the command succeeded.  An answer given after the *)
(* caller's deadline has passed promises nothing.                          *)
(***************************************************************************)
CONSTANT Call

VARIABLES
    succeeded,  \* call -> the command has succeeded
    expired,    \* call -> the deadline of the caller's context has passed
    result      \* call -> "none", then the answer: "ok" or "err"

NCInit ==
    /\ succeeded = [c \in Call |-> FALSE]
    /\ expired = [c \in Call |-> FALSE]
    /\ result = [c \in Call |-> "none"]

Succeed(c) ==
    /\ succeeded' = [succeeded EXCEPT ![c] = TRUE]
    /\ UNCHANGED <<expired, result>>

Expire(c) ==
    /\ expired' = [expired EXCEPT ![c] = TRUE]
    /\ UNCHANGED <<succeeded, result>>

Answer(c) ==
    /\ result[c] = "none"
    /\ \/ result' = [result EXCEPT ![c] = "err"]
       \/ /\ succeeded[c] \/ expired[c]
          /\ result' = [result EXCEPT ![c] = "ok"]
    /\ UNCHANGED <<succeeded, expired>>

NCNext == \E c \in Call : Succeed(c) \/ Expire(c) \/ Answer(c)

NCSpec == NCInit /\ [][NCNext]_<<succeeded, expired, result>>
=============================================================================
