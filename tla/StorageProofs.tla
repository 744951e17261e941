---------------------------- MODULE StorageProofs ---------------------------
(***************************************************************************)
(* Two stores of a node.  No mark of the storage client is stale, for any  *)
(* set of mount points, any number of mounters and rounds, both drivers    *)
(* and all failures.  EnsureImages leaves in the image store what it was   *)
(* asked for, and nothing else comes there.                                *)
(***************************************************************************)
EXTENDS Storage, Images, TLAPS

\* The volume and the mounter of a call of Mount are known while it needs them.
CallsOK ==
    \A k \in Caller :
        /\ call[k].pc \in {"mount", "wait", "unmark"} => call[k].vol \in Vol
        /\ call[k].pc = "wait" => call[k].cmd \in Cmd

\* Only a mounter that was started has a goroutine, and it has a mount point:
\* a fresh mounter is not the mounter of any mark.
MonitorsOK ==
    \A c \in Cmd :
        /\ mon[c] # "none" => proc[c] # "none"
        /\ mon[c] # "none" => vol[c] \in Vol

\* The loop of CleanupPodData is left before its counter passes the bound.
RoundsOK == pod.pc \in {"unmount", "unmounting"} => pod.round < MaxRound

IInv == TypeOK /\ CallsOK /\ MonitorsOK /\ RoundsOK /\ NoStaleMark
-----------------------------------------------------------------------------
\* What the sets of the model are.
LEMMA Constants ==
    /\ MaxRound \in Nat
    /\ None \notin Cmd /\ Pod \in Caller /\ Cmd \subseteq Caller
    /\ NoCall \in [pc : {"idle", "mount", "wait", "unmark", "ok", "failed"},
                   vol : Vol \cup {None}, cmd : Cmd \cup {None}]
    /\ NoCall.pc = "idle"
  BY StorageAssumption DEF None, Cmd, Pod, Caller, NoCall

LEMMA IInvInit == Init => IInv
  <1> SUFFICES ASSUME Init PROVE IInv
    OBVIOUS
  <1> USE Constants
  <1>1. pod \in [pc : PodPC, todo : SUBSET Vol, round : 0 .. MaxRound, err : BOOLEAN]
    BY DEF Init, PodPC
  <1>2. TypeOK
    BY <1>1 DEF Init, TypeOK
  <1>3. CallsOK /\ MonitorsOK /\ RoundsOK /\ NoStaleMark
    BY DEF Init, CallsOK, MonitorsOK, RoundsOK, NoStaleMark
  <1> QED
    BY <1>2, <1>3 DEF IInv

\* A call of Mount: it marks the mount point with the mounter it has started.
LEMMA MountKeeps ==
    ASSUME IInv, NEW k \in Caller, MountStep(k)
    PROVE  IInv'
  <1> USE Constants DEF IInv
  <1>0. call[k] \in [pc : {"idle", "mount", "wait", "unmark", "ok", "failed"},
                     vol : Vol \cup {None}, cmd : Cmd \cup {None}]
    BY DEF TypeOK
  <1>1. CASE MountRefused(k) \/ MountNoCommand(k) \/ MountStartFails(k) \/ MountPassed(k)
    <2>1. /\ UNCHANGED <<mounted, proc, vol, waiting, passed, mon, pod, podUp, config>>
          /\ stuck' \in {stuck, TRUE}
          /\ \E p \in {"failed", "ok"} : call' = [call EXCEPT ![k].pc = p]
      BY <1>1 DEF MountRefused, MountNoCommand, MountStartFails, MountPassed
    <2>a. PICK p \in {"failed", "ok"} : call' = [call EXCEPT ![k].pc = p]
      BY <2>1
    <2>b. stuck' \in BOOLEAN
      BY <2>1 DEF TypeOK
    <2>2. TypeOK'
      BY <1>0, <2>1, <2>a, <2>b DEF TypeOK, config
    <2>3. CallsOK'
      BY <2>a DEF TypeOK, CallsOK
    <2> QED
      BY <2>1, <2>2, <2>3 DEF MonitorsOK, RoundsOK, NoStaleMark
  <1>2. CASE MountStarts(k)
    <2>1. PICK c \in Fresh :
              /\ proc' = [proc EXCEPT ![c] = "running"]
              /\ vol' = [vol EXCEPT ![c] = call[k].vol]
              /\ waiting' = waiting \cup {c}
              /\ mounted' = [mounted EXCEPT ![call[k].vol] = c]
              /\ mon' = [mon EXCEPT ![c] = "wait"]
              /\ call' = [call EXCEPT ![k].pc = "wait", ![k].cmd = c]
              /\ UNCHANGED <<stuck, passed, pod, podUp, config>>
      BY <1>2 DEF MountStarts
    <2>2. c \in Cmd /\ proc[c] = "none" /\ call[k].vol \in Vol
      BY <1>2 DEF Fresh, MountStarts, CallsOK
    <2>3. TypeOK'
      BY <2>1, <2>2 DEF TypeOK, config
    <2>4. CallsOK'
      BY <2>1, <2>2 DEF TypeOK, CallsOK
    <2>5. MonitorsOK' /\ RoundsOK'
      BY <2>1, <2>2 DEF TypeOK, MonitorsOK, RoundsOK
    <2>6. NoStaleMark'
      <3>1. mon[c] = "none"
        BY <2>2 DEF MonitorsOK
      <3>2. \A v \in Vol : mounted[v] # c
        BY <2>2, <3>1 DEF NoStaleMark
      <3> QED
        BY <2>1, <2>2, <3>2 DEF TypeOK, NoStaleMark
    <2> QED
      BY <2>3, <2>4, <2>5, <2>6
  <1>3. CASE MountSeesExit(k)
    <2> DEFINE c == call[k].cmd
    <2>1. /\ c \in Cmd /\ mon[c] = "wait"
          /\ mon' = [mon EXCEPT ![c] = "delete"]
          /\ \E p \in {"unmark", "ok"} : call' = [call EXCEPT ![k].pc = p]
          /\ call[k].pc = "wait"
          /\ UNCHANGED <<stuck, mounted, proc, vol, waiting, passed, pod, podUp, config>>
      BY <1>3 DEF MountSeesExit, CallsOK
    <2> HIDE DEF c
    <2>2. TypeOK'
      BY <2>1 DEF TypeOK, config
    <2>3. CallsOK'
      BY <2>1 DEF TypeOK, CallsOK
    <2>4. MonitorsOK' /\ RoundsOK' /\ NoStaleMark'
      BY <2>1 DEF TypeOK, MonitorsOK, RoundsOK, NoStaleMark
    <2> QED
      BY <2>2, <2>3, <2>4
  <1>4. CASE MountUnmarks(k)
    <2>1. /\ mounted' = [mounted EXCEPT ![call[k].vol] = None]
          /\ call' = [call EXCEPT ![k].pc = "failed"]
          /\ UNCHANGED <<stuck, proc, vol, waiting, passed, mon, pod, podUp, config>>
      BY <1>4 DEF MountUnmarks
    <2>2. TypeOK'
      BY <2>1 DEF TypeOK, config
    <2>3. CallsOK'
      BY <2>1 DEF TypeOK, CallsOK
    <2>4. MonitorsOK' /\ RoundsOK' /\ NoStaleMark'
      BY <2>1 DEF TypeOK, MonitorsOK, RoundsOK, NoStaleMark
    <2> QED
      BY <2>2, <2>3, <2>4
  <1> QED
    BY <1>1, <1>2, <1>3, <1>4 DEF MountStep

\* The goroutine of a mounter: its mark goes before it stops waiting.
LEMMA MonitorKeeps ==
    ASSUME IInv, NEW c \in Cmd, MonitorStep(c)
    PROVE  IInv'
  <1> USE Constants DEF IInv
  <1>1. CASE MonitorDeletes(c)
    <2>1. /\ mounted' = [mounted EXCEPT ![vol[c]] = None]
          /\ \E m \in {"handler", "done"} : mon' = [mon EXCEPT ![c] = m]
          /\ mon[c] # "none"
          /\ UNCHANGED <<stuck, proc, vol, waiting, passed, call, pod, podUp, config>>
      BY <1>1 DEF MonitorDeletes
    <2>a. PICK m \in {"handler", "done"} : mon' = [mon EXCEPT ![c] = m]
      BY <2>1
    <2>2. vol[c] \in Vol
      BY <2>1 DEF MonitorsOK
    <2>3. TypeOK'
      BY <2>1, <2>a DEF TypeOK, config
    <2>4. NoStaleMark'
      BY <2>1, <2>2, <2>a DEF TypeOK, NoStaleMark
    <2>5. MonitorsOK'
      BY <2>1, <2>a DEF TypeOK, MonitorsOK
    <2> QED
      BY <2>1, <2>3, <2>4, <2>5 DEF CallsOK, RoundsOK
  <1>2. CASE MonitorPanics(c) \/ HandlerGivesUp(c)
    <2>1. /\ \/ mon[c] = "wait" /\ mon' = [mon EXCEPT ![c] = "deleteH"]
             \/ mon[c] = "handler" /\ mon' = [mon EXCEPT ![c] = "done"]
          /\ UNCHANGED <<stuck, mounted, proc, vol, waiting, passed, call, pod, podUp, config>>
      BY <1>2 DEF MonitorPanics, HandlerGivesUp
    <2>a. PICK m \in {"deleteH", "done"} : /\ mon' = [mon EXCEPT ![c] = m]
                                           /\ m = "deleteH" \/ mon[c] = "handler"
                                           /\ mon[c] # "none"
      BY <2>1
    <2>2. TypeOK'
      BY <2>1, <2>a DEF TypeOK, config
    <2>3. MonitorsOK' /\ NoStaleMark'
      BY <2>1, <2>a DEF TypeOK, MonitorsOK, NoStaleMark
    <2> QED
      BY <2>1, <2>2, <2>3 DEF CallsOK, RoundsOK
  <1>3. CASE HandlerMounts(c) \/ HandlerReturns(c)
    <2> DEFINE new == [pc |-> "mount", vol |-> vol[c], cmd |-> None]
    <2>1. /\ mon[c] \in {"handler", "mounting"}
          /\ \E m \in {"mounting", "done"} : mon' = [mon EXCEPT ![c] = m]
          /\ \E r \in {new, NoCall} : call' = [call EXCEPT ![c] = r]
          /\ UNCHANGED <<stuck, mounted, proc, vol, waiting, passed, pod, podUp, config>>
      BY <1>3 DEF HandlerMounts, HandlerReturns
    <2>2. vol[c] \in Vol
      BY <2>1 DEF MonitorsOK
    <2>a. PICK m \in {"mounting", "done"} : mon' = [mon EXCEPT ![c] = m]
      BY <2>1
    <2>b. PICK r \in {new, NoCall} : call' = [call EXCEPT ![c] = r]
      BY <2>1
    <2>c. /\ r \in [pc : {"idle", "mount", "wait", "unmark", "ok", "failed"},
                    vol : Vol \cup {None}, cmd : Cmd \cup {None}]
          /\ r.pc = "mount" => r.vol \in Vol
          /\ r.pc \in {"mount", "idle"}
      BY <2>2
    <2>3. TypeOK'
      BY <2>1, <2>a, <2>b, <2>c DEF TypeOK, config
    <2>4. CallsOK'
      BY <2>b, <2>c DEF TypeOK, CallsOK
    <2>5. MonitorsOK' /\ NoStaleMark'
      BY <2>1, <2>a DEF TypeOK, MonitorsOK, NoStaleMark
    <2> QED
      BY <2>1, <2>3, <2>4, <2>5 DEF RoundsOK
  <1> QED
    BY <1>1, <1>2, <1>3 DEF MonitorStep

\* The mounter and its success wait.
LEMMA MounterKeeps ==
    ASSUME IInv, NEW c \in Cmd, SuccessWaitOver(c) \/ MounterExits(c)
    PROVE  IInv'
  <1> USE DEF IInv
  <1>1. CASE SuccessWaitOver(c)
    BY <1>1 DEF SuccessWaitOver, TypeOK, config, CallsOK, MonitorsOK, RoundsOK, NoStaleMark
  <1>2. CASE MounterExits(c)
    BY <1>2 DEF MounterExits, Exited, TypeOK, config, CallsOK, MonitorsOK, RoundsOK, NoStaleMark
  <1> QED
    BY <1>1, <1>2

\* The goroutine of the pod: it only takes marks away.
LEMMA PodKeeps ==
    ASSUME IInv, PodStep \/ PodCreated \/ PodDeleteAsked
    PROVE  IInv'
  <1> USE Constants DEF IInv
  <1>0. /\ pod \in [pc : PodPC, todo : SUBSET Vol, round : 0 .. MaxRound, err : BOOLEAN]
        /\ call[Pod] \in [pc : {"idle", "mount", "wait", "unmark", "ok", "failed"},
                          vol : Vol \cup {None}, cmd : Cmd \cup {None}]
        /\ vols \in SUBSET Vol
    BY DEF TypeOK
  <1>1. CASE PodCreated \/ PodRuns \/ PodDeleteAsked \/ PodRemoved \/ CleanRemoves
    <2>1. /\ UNCHANGED <<stuck, mounted, proc, vol, waiting, passed, mon, call, config>>
          /\ podUp' \in BOOLEAN
          /\ pod' \in [pc : PodPC, todo : SUBSET Vol, round : 0 .. MaxRound, err : BOOLEAN]
          /\ RoundsOK'
      <3>1. CASE PodCreated
        BY <1>0, <3>1 DEF PodPC, PodCreated, RoundsOK
      <3>2. CASE PodRuns \/ PodDeleteAsked
        <4>1. PICK p \in {"up", "remove"} : pod' = [pod EXCEPT !.pc = p]
          BY <3>2 DEF PodRuns, PodDeleteAsked
        <4> QED
          BY <1>0, <3>2, <4>1 DEF TypeOK, PodPC, PodRuns, PodDeleteAsked, RoundsOK
      <3>3. CASE CleanRemoves
        <4>1. CASE pod' = [pod EXCEPT !.pc = "idle"]
          BY <1>0, <3>3, <4>1 DEF TypeOK, PodPC, CleanRemoves, RoundsOK
        <4>2. CASE pod' = [pod EXCEPT !.pc = "unmount", !.todo = vols, !.err = TRUE]
                     /\ pod.round # MaxRound
          <5>1. pod' \in [pc : PodPC, todo : SUBSET Vol, round : 0 .. MaxRound, err : BOOLEAN]
            BY <1>0, <4>2 DEF PodPC
          <5>2. pod'.round = pod.round /\ pod.round < MaxRound
            BY <1>0, <4>2
          <5>3. podUp' \in BOOLEAN
            BY <3>3 DEF CleanRemoves, TypeOK
          <5> QED
            BY <3>3, <5>1, <5>2, <5>3 DEF CleanRemoves, RoundsOK
        <4> QED
          BY <3>3, <4>1, <4>2 DEF CleanRemoves
      <3>4. CASE PodRemoved
        <4>1. pod' \in [pc : PodPC, todo : SUBSET Vol, round : 0 .. MaxRound, err : BOOLEAN]
          <5>1. pod' = [pod EXCEPT !.pc = "clean", !.round = 0]
            BY <3>4 DEF PodRemoved
          <5>2. 0 \in 0 .. MaxRound
            OBVIOUS
          <5> QED
            BY <1>0, <5>1, <5>2, Zenon DEF PodPC
        <4>2. pod'.pc = "clean"
          BY <1>0, <3>4 DEF PodRemoved
        <4> QED
          BY <3>4, <4>1, <4>2 DEF PodRemoved, RoundsOK
      <3> QED
        BY <1>1, <3>1, <3>2, <3>3, <3>4
    <2> QED
      BY <2>1 DEF TypeOK, config, CallsOK, MonitorsOK, NoStaleMark
  <1>2. CASE PodMounts \/ PodMountReturns \/ CleanRoundEnds
    <2>1. /\ UNCHANGED <<stuck, mounted, proc, vol, waiting, passed, mon, podUp, config>>
          /\ pod' \in [pc : PodPC, todo : SUBSET Vol, round : 0 .. MaxRound, err : BOOLEAN]
          /\ RoundsOK'
      <3>1. CASE PodMounts
        <4>1. PICK v \in pod.todo : pod' = [pod EXCEPT !.pc = "mounting", !.todo = @ \ {v}]
          BY <3>1 DEF PodMounts
        <4> QED
          BY <1>0, <3>1, <4>1 DEF PodPC, PodMounts, RoundsOK
      <3>2. CASE PodMountReturns
        BY <1>0, <3>2 DEF PodPC, PodMountReturns, RoundsOK
      <3>3. CASE CleanRoundEnds
        <4>1. pod.round + 1 \in 0 .. MaxRound
          BY <1>0, <3>3 DEF CleanRoundEnds, RoundsOK
        <4>2. CASE pod' = [pod EXCEPT !.round = @ + 1, !.todo = vols] /\ pod.round + 1 < MaxRound
          BY <1>0, <3>3, <4>1, <4>2 DEF PodPC, CleanRoundEnds, RoundsOK
        <4>3. CASE pod' = [pod EXCEPT !.pc = "clean", !.round = @ + 1]
          BY <1>0, <3>3, <4>1, <4>3 DEF PodPC, CleanRoundEnds, RoundsOK
        <4> QED
          BY <3>3, <4>2, <4>3 DEF CleanRoundEnds
      <3> QED
        BY <1>2, <3>1, <3>2, <3>3
    <2>2. \/ call' = [call EXCEPT ![Pod] = NoCall]
          \/ \E v \in Vol : call' = [call EXCEPT ![Pod] = [pc |-> "mount", vol |-> v, cmd |-> None]]
      BY <1>0, <1>2 DEF PodMounts, PodMountReturns, CleanRoundEnds
    <2>3. TypeOK'
      BY <2>1, <2>2 DEF TypeOK, config
    <2>4. CallsOK'
      BY <2>2 DEF TypeOK, CallsOK
    <2> QED
      BY <2>1, <2>3, <2>4 DEF MonitorsOK, NoStaleMark
  <1>3. CASE CleanUnmounts
    <2>1. PICK v \in pod.todo :
              /\ pod' = [pod EXCEPT !.todo = @ \ {v},
                                    !.pc = IF InUse(v) THEN "unmounting" ELSE "unmount",
                                    !.err = FALSE]
              /\ call' = [call EXCEPT ![Pod] = [pc |-> "idle", vol |-> v, cmd |-> mounted[v]]]
              /\ mounted' = [mounted EXCEPT ![v] = None]
              /\ pod.pc = "unmount"
              /\ UNCHANGED <<stuck, proc, vol, waiting, passed, mon, podUp, config>>
      BY <1>3 DEF CleanUnmounts
    <2>2. v \in Vol
      BY <1>0
    <2>3. /\ pod' \in [pc : PodPC, todo : SUBSET Vol, round : 0 .. MaxRound, err : BOOLEAN]
          /\ RoundsOK'
      BY <1>0, <2>1 DEF PodPC, RoundsOK
    <2>4. TypeOK'
      BY <2>1, <2>2, <2>3 DEF TypeOK, config
    <2>5. CallsOK'
      BY <2>1, <2>2 DEF TypeOK, CallsOK
    <2>6. NoStaleMark'
      BY <2>1, <2>2 DEF TypeOK, NoStaleMark
    <2> QED
      BY <2>1, <2>3, <2>4, <2>5, <2>6 DEF MonitorsOK
  <1>4. CASE CleanUnmountCmd
    <2> DEFINE c == call[Pod].cmd
    <2>1. /\ \/ proc' = [proc EXCEPT ![c] = IF @ = "running" THEN "detached" ELSE @]
             \/ proc' = proc
          /\ pod' \in [pc : PodPC, todo : SUBSET Vol, round : 0 .. MaxRound, err : BOOLEAN]
          /\ RoundsOK'
          /\ call' = [call EXCEPT ![Pod] = NoCall]
          /\ UNCHANGED <<stuck, mounted, vol, waiting, passed, mon, podUp, config>>
      BY <1>0, <1>4 DEF CleanUnmountCmd, PodPC, RoundsOK
    <2> HIDE DEF c
    <2>2. proc' \in [Cmd -> {"none", "running", "detached"} \cup Exited]
      BY <2>1 DEF TypeOK
    <2>3. \A d \in Cmd : proc'[d] = "none" <=> proc[d] = "none"
      BY <2>1 DEF TypeOK
    <2>4. TypeOK'
      BY <2>1, <2>2 DEF TypeOK, config
    <2>5. CallsOK'
      BY <2>1 DEF TypeOK, CallsOK
    <2> QED
      BY <2>1, <2>3, <2>4, <2>5 DEF MonitorsOK, NoStaleMark
  <1> QED
    BY <1>1, <1>2, <1>3, <1>4 DEF PodStep

LEMMA IInvStep == IInv /\ [Next]_vars => IInv'
  <1> SUFFICES ASSUME IInv, [Next]_vars PROVE IInv'
    OBVIOUS
  <1>1. CASE UNCHANGED vars
    BY <1>1 DEF vars, config, IInv, TypeOK, CallsOK, MonitorsOK, RoundsOK, NoStaleMark
  <1> QED
    BY <1>1, MountKeeps, MonitorKeeps, MounterKeeps, PodKeeps DEF Next

\* With any interleaving of the goroutines, mounters that exit at any time, and
\* start and unmount commands that fail, a mount point that the client takes
\* for mounted has a mounter that was started for it and a goroutine that will
\* take the mark away: no later Mount of it is refused for a mounter that is
\* gone and forgotten.
THEOREM NoStaleMarks == Spec => []NoStaleMark
  <1>1. IInv => NoStaleMark
    BY DEF IInv
  <1> QED
    BY <1>1, IInvInit, IInvStep, PTL DEF Spec

\* The storage client and its callers keep their types.
THEOREM StorageTypes == Spec => []TypeOK
  <1>1. IInv => TypeOK
    BY DEF IInv
  <1> QED
    BY <1>1, IInvInit, IInvStep, PTL DEF Spec
-----------------------------------------------------------------------------
(***************************************************************************)
(* What EnsureImages leaves in the image store, for any set of commands    *)
(* that run side by side, any images and any failures.                     *)
(***************************************************************************)
PC == {"idle", "pull", "list", "marshal", "ok", "err"}

StoreTyped ==
    /\ pc \in [ImageCmd -> PC]
    /\ DOMAIN all = ImageCmd
    /\ left \in [ImageCmd -> SUBSET Image]

\* What a command has done: it names no image before it starts, and while it
\* pulls, the images the loop has visited are in the store.
Progress ==
    \A c \in ImageCmd :
        /\ pc[c] = "idle" => DOMAIN all[c] = {}
        /\ pc[c] = "pull" => left[c] \subseteq DOMAIN all[c]
        /\ pc[c] = "pull" => DOMAIN all[c] \ left[c] \subseteq store

StoreInv == StoreTyped /\ Progress /\ EnsuredPresent /\ NeverFetched
-----------------------------------------------------------------------------
LEMMA StoreInvInit == ImagesInit => StoreInv
  <1> SUFFICES ASSUME ImagesInit PROVE StoreInv
    OBVIOUS
  <1>1. StoreTyped
    BY DEF ImagesInit, StoreTyped, PC
  <1>2. \A c \in ImageCmd : pc[c] = "idle" /\ DOMAIN all[c] = {}
    BY DEF ImagesInit, NoImages
  <1>3. NeverFetched
    BY DEF ImagesInit, NeverFetched
  <1> QED
    BY <1>1, <1>2, <1>3 DEF StoreInv, Progress, EnsuredPresent

\* A command starts: allImages has the images it names and the pause image.
LEMMA EnsuresKeeps ==
    ASSUME StoreInv, NEW c \in ImageCmd, NEW images \in Images, Ensures(c, images)
    PROVE  StoreInv'
  <1> DEFINE merged == Merged(images)
  <1>1. DOMAIN merged \in SUBSET Image
    BY ImagesAssumption DEF Images, Merged
  <1> HIDE DEF merged
  <1>2. /\ pc[c] = "idle" /\ pc' = [pc EXCEPT ![c] = "pull"]
        /\ all' = [all EXCEPT ![c] = merged]
        /\ left' = [left EXCEPT ![c] = DOMAIN merged]
        /\ UNCHANGED <<store, initial, status, process>>
    BY DEF Ensures, Goto, merged
  <1>3. StoreTyped'
    BY <1>1, <1>2 DEF StoreInv, StoreTyped, PC
  <1>4. Progress' /\ EnsuredPresent'
    BY <1>2 DEF StoreInv, StoreTyped, Progress, EnsuredPresent
  <1>5. NeverFetched'
    <2> SUFFICES ASSUME NEW i \in store \ initial
                 PROVE  \E d \in ImageCmd : i \in DOMAIN all'[d] /\ all'[d][i] # "never"
      BY <1>2 DEF NeverFetched
    <2>1. PICK d \in ImageCmd : i \in DOMAIN all[d] /\ all[d][i] # "never"
      BY DEF StoreInv, NeverFetched
    <2>2. d # c
      BY <1>2, <2>1 DEF StoreInv, Progress
    <2> QED
      BY <1>2, <2>1, <2>2 DEF StoreInv, StoreTyped
  <1> QED
    BY <1>3, <1>4, <1>5 DEF StoreInv

\* The store only grows, by an image a command may fetch.
LEMMA PullsKeeps ==
    ASSUME StoreInv, NEW c \in ImageCmd, NEW i \in Image, Pulls(c, i)
    PROVE  StoreInv'
  <1>1. /\ pc[c] = "pull" /\ i \in left[c]
        /\ all[c][i] = "never" => i \in store
        /\ store' = store \cup {i}
        /\ left' = [left EXCEPT ![c] = @ \ {i}]
        /\ UNCHANGED <<initial, pc, all, status, process>>
    BY DEF Pulls
  <1>2. StoreTyped'
    BY <1>1 DEF StoreInv, StoreTyped
  <1>3. Progress' /\ EnsuredPresent'
    BY <1>1 DEF StoreInv, StoreTyped, Progress, EnsuredPresent
  <1>4. NeverFetched'
    <2>1. i \in DOMAIN all[c]
      BY <1>1 DEF StoreInv, Progress
    <2> QED
      BY <1>1, <2>1 DEF StoreInv, NeverFetched
  <1> QED
    BY <1>2, <1>3, <1>4 DEF StoreInv

\* The other steps move a command on and leave the store alone.
LEMMA OthersKeep ==
    ASSUME StoreInv, NEW c \in ImageCmd,
           \/ \E i \in Image : PullFails(c, i)
           \/ PullsDone(c)
           \/ \E digested \in SUBSET Image : Lists(c, digested)
           \/ ListFails(c)
           \/ Marshals(c)
    PROVE  StoreInv'
  <1>1. /\ UNCHANGED <<store, initial, all, left>>
        /\ \/ pc' = [pc EXCEPT ![c] = "err"]
           \/ pc' = [pc EXCEPT ![c] = "list"] /\ pc[c] = "pull" /\ left[c] = {}
           \/ pc' = [pc EXCEPT ![c] = "marshal"] /\ pc[c] = "list"
           \/ pc' = [pc EXCEPT ![c] = "ok"] /\ pc[c] = "marshal"
           \/ pc' = pc
    BY DEF PullFails, PullsDone, Lists, ListFails, Marshals, Goto
  <1>2. StoreTyped'
    BY <1>1 DEF StoreInv, StoreTyped, PC
  <1>3. Progress' /\ EnsuredPresent'
    BY <1>1 DEF StoreInv, StoreTyped, Progress, EnsuredPresent
  <1>4. NeverFetched'
    BY <1>1 DEF StoreInv, NeverFetched
  <1> QED
    BY <1>2, <1>3, <1>4 DEF StoreInv

LEMMA StoreInvStep == StoreInv /\ [ImagesNext]_imagesVars => StoreInv'
  <1> SUFFICES ASSUME StoreInv, [ImagesNext]_imagesVars PROVE StoreInv'
    OBVIOUS
  <1>1. CASE UNCHANGED imagesVars
    BY <1>1 DEF imagesVars, StoreInv, StoreTyped, Progress, EnsuredPresent, NeverFetched
  <1> QED
    BY <1>1, EnsuresKeeps, PullsKeeps, OthersKeep DEF ImagesNext, CmdStep

\* Whatever commands pull beside it, and whichever of their pulls fail, an
\* EnsureImages that got past its loop has every image it names in the store.
THEOREM ImagesEnsured == ImagesSpec => []EnsuredPresent
  <1>1. StoreInv => EnsuredPresent
    BY DEF StoreInv
  <1> QED
    BY <1>1, StoreInvInit, StoreInvStep, PTL DEF ImagesSpec

\* An image that was not in the store at the start was asked for by a command
\* whose policy lets it be fetched.
THEOREM OnlyAskedFetched == ImagesSpec => []NeverFetched
  <1>1. StoreInv => NeverFetched
    BY DEF StoreInv
  <1> QED
    BY <1>1, StoreInvInit, StoreInvStep, PTL DEF ImagesSpec
=============================================================================
