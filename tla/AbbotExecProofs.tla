-------------------------- MODULE AbbotExecProofs --------------------------
(***************************************************************************)
(* Proofs about AbbotExec, for any number of calls of any kinds: a pod     *)
(* whose deletion has no deadline is removed only after its network was,   *)
(* and the calls implement NetworkCall.                                    *)
(*                                                                         *)
(* Neither is inductive.  What they rest on is that a closed channel from  *)
(* which no error can be received is evidence: the goroutine closes it     *)
(* only after Exec returned, and an error is missing from it only when     *)
(* there was none, when the deadline made the goroutine drop it, or when   *)
(* the caller has taken it and gone.                                       *)
(***************************************************************************)
EXTENDS AbbotExec, TLAPS

Before == {Idle, "find", "state", "start", "recheck", "exec"}

\* What holds of one call.
CallInv(c) ==
    /\ pc[c] = Idle => kind[c] = "none" /\ ~expired[c] /\ ~removed[c]
    /\ pc[c] \in Before => exec[c] = Idle
    /\ pc[c] \notin {"remove", "done"} => result[c] = "none"
    /\ exec[c] \in {Idle, "running"} => ~succeeded[c]
    /\ closed[c] => exec[c] = "over"
    /\ pc[c] = "select" /\ exec[c] \in {"close", "over"} =>
         buffered[c] > 0 \/ succeeded[c] \/ expired[c] \/ stderr[c]
    /\ pc[c] = "remove" \/ removed[c] =>
         exec[c] = "over" /\ (succeeded[c] \/ expired[c])
    /\ expired[c] => Timed(c)

IInv == TypeOK /\ \A c \in Call : CallInv(c)

LEMMA InitIInv == Init => IInv
  BY DEF Init, IInv, TypeOK, CallInv, Before, Idle, Timed

\* A step of one call leaves the other calls' variables alone.
Others(c) ==
    \A d \in Call \ {c} :
        /\ pc'[d] = pc[d]
        /\ kind'[d] = kind[d]
        /\ exec'[d] = exec[d]
        /\ buffered'[d] = buffered[d]
        /\ closed'[d] = closed[d]
        /\ stderr'[d] = stderr[d]
        /\ succeeded'[d] = succeeded[d]
        /\ expired'[d] = expired[d]
        /\ result'[d] = result[d]
        /\ removed'[d] = removed[d]

LEMMA OneCall ==
  ASSUME NEW c \in Call, IInv, TypeOK', CallInv(c)', Others(c)
  PROVE  IInv'
  BY DEF IInv, Others, CallInv, Timed

LEMMA BeginsIInv ==
  ASSUME NEW c \in Call, NEW k \in Kinds, IInv, Begins(c, k)
  PROVE  IInv'
  <1>1. TypeOK'
    BY DEF IInv, TypeOK, Begins, Goto, execVars, Idle
  <1>2. CallInv(c)'
    BY DEF IInv, TypeOK, CallInv, Before, Begins, Goto, execVars, Idle, Timed
  <1>3. Others(c)
    BY DEF IInv, TypeOK, Others, Begins, Goto, execVars
  <1> QED
    BY <1>1, <1>2, <1>3, OneCall

LEMMA CallerStepIInv ==
  ASSUME NEW c \in Call, IInv, CallerStep(c)
  PROVE  IInv'
  <1>1. CASE Finds(c)
    <2>1. TypeOK'
      BY <1>1 DEF IInv, TypeOK, Finds, Goto, Answer, Deletes, execVars, Idle
    <2>2. CallInv(c)'
      BY <1>1 DEF IInv, TypeOK, CallInv, Before, Finds, Goto, Answer, Deletes, execVars, Idle, Timed
    <2>3. Others(c)
      BY <1>1 DEF IInv, TypeOK, Others, Finds, Goto, Answer, Deletes, execVars
    <2> QED
      BY <2>1, <2>2, <2>3, OneCall
  <1>2. CASE ChecksState(c)
    <2>1. TypeOK'
      BY <1>2, ZenonT(60) DEF IInv, TypeOK, ChecksState, Goto, Answer, Deletes, execVars, Idle
    <2>2. CallInv(c)'
      BY <1>2, ZenonT(60) DEF IInv, TypeOK, CallInv, Before, ChecksState, Goto, Answer, Deletes, execVars, Idle, Timed
    <2>3. Others(c)
      BY <1>2, ZenonT(60) DEF IInv, TypeOK, Others, ChecksState, Goto, Answer, Deletes, execVars
    <2> QED
      BY <2>1, <2>2, <2>3, OneCall
  <1>3. CASE StartsAbbot(c)
    <2>1. TypeOK'
      BY <1>3 DEF IInv, TypeOK, StartsAbbot, Goto, Answer, Deletes, execVars, Idle
    <2>2. CallInv(c)'
      BY <1>3 DEF IInv, TypeOK, CallInv, Before, StartsAbbot, Goto, Answer, Deletes, execVars, Idle, Timed
    <2>3. Others(c)
      BY <1>3 DEF IInv, TypeOK, Others, StartsAbbot, Goto, Answer, Deletes, execVars
    <2> QED
      BY <2>1, <2>2, <2>3, OneCall
  <1>4. CASE StartRefused(c)
    <2>1. TypeOK'
      BY <1>4 DEF IInv, TypeOK, StartRefused, Goto, Answer, Deletes, execVars, Idle
    <2>2. CallInv(c)'
      BY <1>4 DEF IInv, TypeOK, CallInv, Before, StartRefused, Goto, Answer, Deletes, execVars, Idle, Timed
    <2>3. Others(c)
      BY <1>4 DEF IInv, TypeOK, Others, StartRefused, Goto, Answer, Deletes, execVars
    <2> QED
      BY <2>1, <2>2, <2>3, OneCall
  <1>5. CASE Rechecks(c)
    <2>1. TypeOK'
      BY <1>5 DEF IInv, TypeOK, Rechecks, Goto, Answer, Deletes, execVars, Idle
    <2>2. CallInv(c)'
      BY <1>5 DEF IInv, TypeOK, CallInv, Before, Rechecks, Goto, Answer, Deletes, execVars, Idle, Timed
    <2>3. Others(c)
      BY <1>5 DEF IInv, TypeOK, Others, Rechecks, Goto, Answer, Deletes, execVars
    <2> QED
      BY <2>1, <2>2, <2>3, OneCall
  <1>6. CASE Execs(c)
    <2>1. TypeOK'
      BY <1>6 DEF IInv, TypeOK, Execs, Goto, Answer, Deletes, execVars, Idle
    <2>2. CallInv(c)'
      BY <1>6 DEF IInv, TypeOK, CallInv, Before, Execs, Goto, Answer, Deletes, execVars, Idle, Timed
    <2>3. Others(c)
      BY <1>6 DEF IInv, TypeOK, Others, Execs, Goto, Answer, Deletes, execVars
    <2> QED
      BY <2>1, <2>2, <2>3, OneCall
  <1>7. CASE SelectsError(c)
    <2>1. TypeOK'
      BY <1>7 DEF IInv, TypeOK, SelectsError, Goto, Answer, Deletes, execVars, Idle
    <2>2. CallInv(c)'
      BY <1>7 DEF IInv, TypeOK, CallInv, Before, SelectsError, Goto, Answer, Deletes, execVars, Idle, Timed
    <2>3. Others(c)
      BY <1>7 DEF IInv, TypeOK, Others, SelectsError, Goto, Answer, Deletes, execVars
    <2> QED
      BY <2>1, <2>2, <2>3, OneCall
  <1>8. CASE SelectsClosed(c)
    <2>1. TypeOK'
      BY <1>8 DEF IInv, TypeOK, SelectsClosed, Goto, Answer, Deletes, execVars, Idle
    <2>2. CallInv(c)'
      BY <1>8 DEF IInv, TypeOK, CallInv, Before, SelectsClosed, Goto, Answer, Deletes, execVars, Idle, Timed
    <2>3. Others(c)
      BY <1>8 DEF IInv, TypeOK, Others, SelectsClosed, Goto, Answer, Deletes, execVars
    <2> QED
      BY <2>1, <2>2, <2>3, OneCall
  <1>9. CASE SelectsExpired(c)
    <2>1. TypeOK'
      BY <1>9 DEF IInv, TypeOK, SelectsExpired, Goto, Answer, Deletes, execVars, Idle
    <2>2. CallInv(c)'
      BY <1>9 DEF IInv, TypeOK, CallInv, Before, SelectsExpired, Goto, Answer, Deletes, execVars, Idle, Timed
    <2>3. Others(c)
      BY <1>9 DEF IInv, TypeOK, Others, SelectsExpired, Goto, Answer, Deletes, execVars
    <2> QED
      BY <2>1, <2>2, <2>3, OneCall
  <1>10. CASE Removes(c)
    <2>1. TypeOK'
      BY <1>10 DEF IInv, TypeOK, Removes, Goto, Answer, Deletes, execVars, Idle
    <2>2. CallInv(c)'
      BY <1>10 DEF IInv, TypeOK, CallInv, Before, Removes, Goto, Answer, Deletes, execVars, Idle, Timed
    <2>3. Others(c)
      BY <1>10 DEF IInv, TypeOK, Others, Removes, Goto, Answer, Deletes, execVars
    <2> QED
      BY <2>1, <2>2, <2>3, OneCall
  <1> QED
    BY <1>1, <1>2, <1>3, <1>4, <1>5, <1>6, <1>7, <1>8, <1>9, <1>10 DEF CallerStep

LEMMA CommandStepIInv ==
  ASSUME NEW c \in Call, IInv, CommandStep(c)
  PROVE  IInv'
  <1>1. CASE CommandSucceeds(c)
    <2>1. TypeOK'
      BY <1>1 DEF IInv, TypeOK, CommandSucceeds, callerVars, Idle
    <2>2. CallInv(c)'
      BY <1>1 DEF IInv, TypeOK, CallInv, Before, CommandSucceeds, callerVars, Idle, Timed
    <2>3. Others(c)
      BY <1>1 DEF IInv, TypeOK, Others, CommandSucceeds, callerVars
    <2> QED
      BY <2>1, <2>2, <2>3, OneCall
  <1>2. CASE CommandFails(c)
    <2>1. TypeOK'
      BY <1>2 DEF IInv, TypeOK, CommandFails, callerVars, Idle
    <2>2. CallInv(c)'
      BY <1>2 DEF IInv, TypeOK, CallInv, Before, CommandFails, callerVars, Idle, Timed
    <2>3. Others(c)
      BY <1>2 DEF IInv, TypeOK, Others, CommandFails, callerVars
    <2> QED
      BY <2>1, <2>2, <2>3, OneCall
  <1>3. CASE ExecFails(c)
    <2>1. TypeOK'
      BY <1>3 DEF IInv, TypeOK, ExecFails, callerVars, Idle
    <2>2. CallInv(c)'
      BY <1>3 DEF IInv, TypeOK, CallInv, Before, ExecFails, callerVars, Idle, Timed
    <2>3. Others(c)
      BY <1>3 DEF IInv, TypeOK, Others, ExecFails, callerVars
    <2> QED
      BY <2>1, <2>2, <2>3, OneCall
  <1> QED
    BY <1>1, <1>2, <1>3 DEF CommandStep

LEMMA ReportStepIInv ==
  ASSUME NEW c \in Call, IInv, ReportStep(c)
  PROVE  IInv'
  <1>1. CASE ExecReports(c)
    <2>1. TypeOK'
      BY <1>1 DEF IInv, TypeOK, ExecReports, callerVars, Idle
    <2>2. CallInv(c)'
      BY <1>1 DEF IInv, TypeOK, CallInv, Before, ExecReports, callerVars, Idle, Timed
    <2>3. Others(c)
      BY <1>1 DEF IInv, TypeOK, Others, ExecReports, callerVars
    <2> QED
      BY <2>1, <2>2, <2>3, OneCall
  <1>2. CASE ExecDrops(c)
    <2>1. TypeOK'
      BY <1>2 DEF IInv, TypeOK, ExecDrops, callerVars, Idle
    <2>2. CallInv(c)'
      BY <1>2 DEF IInv, TypeOK, CallInv, Before, ExecDrops, callerVars, Idle, Timed
    <2>3. Others(c)
      BY <1>2 DEF IInv, TypeOK, Others, ExecDrops, callerVars
    <2> QED
      BY <2>1, <2>2, <2>3, OneCall
  <1>3. CASE ExecCloses(c)
    <2>1. TypeOK'
      BY <1>3 DEF IInv, TypeOK, ExecCloses, callerVars, Idle
    <2>2. CallInv(c)'
      BY <1>3 DEF IInv, TypeOK, CallInv, Before, ExecCloses, callerVars, Idle, Timed
    <2>3. Others(c)
      BY <1>3 DEF IInv, TypeOK, Others, ExecCloses, callerVars
    <2> QED
      BY <2>1, <2>2, <2>3, OneCall
  <1> QED
    BY <1>1, <1>2, <1>3 DEF ReportStep

LEMMA ExpiresIInv ==
  ASSUME NEW c \in Call, IInv, Expires(c)
  PROVE  IInv'
  <1>1. TypeOK'
    BY DEF IInv, TypeOK, Expires, execVars
  <1>2. CallInv(c)'
    BY DEF IInv, TypeOK, CallInv, Before, Expires, execVars, Idle, Timed
  <1>3. Others(c)
    BY DEF IInv, TypeOK, Others, Expires, execVars
  <1> QED
    BY <1>1, <1>2, <1>3, OneCall

LEMMA AbbotIInv ==
  ASSUME IInv, AbbotChanges
  PROVE  IInv'
  <1>1. TypeOK'
    BY DEF IInv, TypeOK, AbbotChanges, AbbotExits, AbbotRestarts,
           AbbotRemoved, execVars
  <1>2. \A c \in Call : CallInv(c)'
    BY DEF IInv, CallInv, Timed, AbbotChanges, execVars
  <1> QED
    BY <1>1, <1>2 DEF IInv

LEMMA StutterIInv ==
  ASSUME IInv, UNCHANGED vars
  PROVE  IInv'
  BY DEF IInv, TypeOK, CallInv, Timed, vars

LEMMA NextIInv ==
  ASSUME IInv, [Next]_vars
  PROVE  IInv'
  <1>1. CASE AbbotChanges
    BY <1>1, AbbotIInv
  <1>2. ASSUME NEW c \in Call, CallStep(c)
        PROVE  IInv'
    BY <1>2, BeginsIInv, CallerStepIInv, CommandStepIInv, ReportStepIInv,
       ExpiresIInv DEF CallStep
  <1>3. CASE UNCHANGED vars
    BY <1>3, StutterIInv
  <1> QED
    BY <1>1, <1>2, <1>3 DEF Next

THEOREM Inductive == Spec => []IInv
  BY InitIInv, NextIInv, PTL DEF Spec

(* deletePod under context.TODO() removes a pod only after abbot's command
   for it succeeded, for any calls running beside it. *)
THEOREM RemovalFollowsRelease == Spec => []RemovedWhenReleased
  <1>1. IInv => RemovedWhenReleased
    BY DEF IInv, CallInv, RemovedWhenReleased, Timed
  <1> QED
    BY <1>1, Inductive, PTL
-----------------------------------------------------------------------------
(***************************************************************************)
(* The refinement.  A step that answers maps to Answer, one in which the   *)
(* command succeeds to Succeed, the deadline to Expire, any other step     *)
(* changes nothing the abstract specification sees.                        *)
(***************************************************************************)
NCStep == [NC!NCNext]_<<succeeded, expired, result>>

LEMMA Answers ==
  ASSUME NEW c \in Call, NEW r \in {"ok", "err"}, Answer(c, r),
         result[c] = "none", r = "ok" => succeeded[c] \/ expired[c],
         UNCHANGED <<succeeded, expired>>
  PROVE  NCStep
  <1>1. NC!Answer(c)
    BY Zenon DEF NC!Answer, Answer
  <1> QED
    BY <1>1 DEF NCStep, NC!NCNext

LEMMA CallerMaps ==
  ASSUME NEW c \in Call, IInv, CallerStep(c)
  PROVE  NCStep
  <1> USE DEF execVars
  <1>1. CASE Finds(c)
    BY <1>1, Answers DEF IInv, CallInv, Finds, Goto, NCStep
  <1>2. CASE ChecksState(c)
    BY <1>2, Answers, Zenon DEF IInv, TypeOK, CallInv, ChecksState, Goto, NCStep
  <1>3. CASE StartsAbbot(c)
    BY <1>3 DEF StartsAbbot, Goto, NCStep
  <1>4. CASE StartRefused(c)
    BY <1>4, Answers DEF IInv, CallInv, StartRefused
  <1>5. CASE Rechecks(c)
    BY <1>5, Answers DEF IInv, CallInv, Rechecks, Goto, NCStep
  <1>6. CASE Execs(c)
    BY <1>6 DEF Execs, Goto, NCStep
  <1>7. CASE SelectsError(c)
    BY <1>7, Answers DEF IInv, CallInv, SelectsError
  <1>8. CASE SelectsClosed(c)
    <2>1. stderr[c] \/ succeeded[c] \/ expired[c]
      BY <1>8 DEF IInv, TypeOK, CallInv, SelectsClosed
    <2>2. result[c] = "none" /\ UNCHANGED <<succeeded, expired>>
      BY <1>8 DEF IInv, CallInv, SelectsClosed
    <2>3. CASE stderr[c]
      BY <1>8, <2>2, <2>3, Answers DEF SelectsClosed
    <2>4. CASE ~stderr[c]
      BY <1>8, <2>1, <2>2, <2>4, Answers DEF SelectsClosed
    <2> QED
      BY <2>3, <2>4
  <1>9. CASE SelectsExpired(c)
    BY <1>9, Answers DEF IInv, CallInv, SelectsExpired
  <1>10. CASE Removes(c)
    BY <1>10 DEF Removes, Goto, NCStep
  <1> QED
    BY <1>1, <1>2, <1>3, <1>4, <1>5, <1>6, <1>7, <1>8, <1>9, <1>10
       DEF CallerStep

LEMMA CommandMaps ==
  ASSUME NEW c \in Call, IInv, CommandStep(c)
  PROVE  NCStep
  <1> USE DEF callerVars
  <1>1. CASE CommandSucceeds(c)
    BY <1>1, Zenon DEF CommandSucceeds, NCStep, NC!NCNext, NC!Succeed
  <1>2. CASE CommandFails(c)
    BY <1>2 DEF CommandFails, NCStep
  <1>3. CASE ExecFails(c)
    <2>1. PICK ran \in BOOLEAN :
            succeeded' = [succeeded EXCEPT ![c] = ran]
      BY <1>3, Zenon DEF ExecFails
    <2>2. UNCHANGED <<expired, result>>
      BY <1>3 DEF ExecFails
    <2>3. CASE ran = TRUE
      BY <2>1, <2>2, <2>3, Zenon DEF NCStep, NC!NCNext, NC!Succeed
    <2>4. CASE ran = FALSE
      <3>1. succeeded[c] = FALSE /\ succeeded \in [Call -> BOOLEAN]
        BY <1>3 DEF IInv, TypeOK, CallInv, ExecFails
      <3>2. UNCHANGED succeeded
        BY <2>1, <2>4, <3>1
      <3> QED
        BY <2>2, <3>2 DEF NCStep
    <2> QED
      BY <2>3, <2>4, Zenon
  <1> QED
    BY <1>1, <1>2, <1>3 DEF CommandStep

LEMMA NextMaps ==
  ASSUME IInv, [Next]_vars
  PROVE  NCStep
  <1>1. CASE AbbotChanges \/ UNCHANGED vars
    BY <1>1 DEF AbbotChanges, execVars, vars, NCStep
  <1>2. ASSUME NEW c \in Call, CallStep(c)
        PROVE  NCStep
    <2>1. ASSUME NEW k \in Kinds, Begins(c, k)
          PROVE  NCStep
      BY <2>1 DEF Begins, Goto, execVars, NCStep
    <2>2. CASE ReportStep(c)
      BY <2>2 DEF ReportStep, ExecReports, ExecDrops, ExecCloses, callerVars,
                  NCStep
    <2>3. CASE Expires(c)
      BY <2>3, Zenon DEF Expires, execVars, NCStep, NC!NCNext, NC!Expire
    <2> QED
      BY <1>2, <2>1, <2>2, <2>3, CallerMaps, CommandMaps DEF CallStep
  <1> QED
    BY <1>1, <1>2 DEF Next

(* The network client's operations and doHookAction answer each call once, and
   "ok" before the deadline only when the command succeeded: AbbotExec
   implements NetworkCall for every set of calls and kinds. *)
THEOREM CallsImplementNetworkCall == Spec => ImplementsNetworkCall
  <1>1. Init => NC!NCInit
    BY DEF Init, NC!NCInit
  <1>2. IInv /\ [Next]_vars => [NC!NCNext]_<<succeeded, expired, result>>
    BY NextMaps DEF NCStep
  <1> QED
    BY <1>1, <1>2, Inductive, PTL DEF Spec, ImplementsNetworkCall, NC!NCSpec
=============================================================================
