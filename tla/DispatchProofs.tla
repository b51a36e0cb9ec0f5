--------------------------- MODULE DispatchProofs ---------------------------
(***************************************************************************)
(* The safety of the routing core for every set of messages and sessions   *)
(* and every capacity: type correctness, the consumer of each registered   *)
(* queue, the gate's slots, the deferred turns, the separation of          *)
(* automations from running turns.                                         *)
(***************************************************************************)
EXTENDS Dispatch, FiniteSetTheorems, TLAPS

Busy == {s \in Sessions : turn[s] # "idle"}

\* What the end of a turn changes, and what it leaves alone.
TaskTypes ==
    /\ inbound \in Seq(Msgs)
    /\ activeTasks \in [Sessions -> SUBSET Msgs]
    /\ lockQ \in [Sessions -> Seq(Msgs)]
    /\ turn \in [Sessions -> Stages]
    /\ pendingQueues \in [Sessions -> Seq(Msgs) \cup {None}]
    /\ \A s \in Sessions : Len(Queued(s)) <= QueueCap
    /\ deferred \in [Sessions -> Seq(Msgs)]
    /\ permits \in Nat
    /\ cancelled \subseteq Msgs
OtherTypes ==
    /\ control \in Msgs \cup {None}
    /\ awaits \in [Msgs -> SUBSET Msgs]
    /\ waiters \in [Automations -> {"none", "waiting", "ok", "error", "gone"}]
    /\ rounds \in [Sessions -> 0 .. MaxRounds]
    /\ fate \in [Msgs -> Fates]

\* A session past lock and gate has a task, a registered queue has a turn.
Owned == \A s \in Sessions :
            /\ turn[s] # "idle" => lockQ[s] # <<>>
            /\ Registered(s) => turn[s] # "idle"
FollowUpKinds == \A s \in Sessions : \A i \in DOMAIN Queued(s) :
                    Kind[Queued(s)[i]] # "auto"
DeferredKinds == \A s \in Sessions : \A i \in DOMAIN deferred[s] :
                    Kind[deferred[s][i]] = "auto" /\ Sess[deferred[s][i]] = s

\* The part of the inductive invariant that does not mention fates.
QueueInv ==
    /\ TaskTypes
    /\ Owned
    /\ PermitsConserved
    /\ NoStrandedDeferred
    /\ FollowUpKinds
    /\ DeferredKinds

IInv == QueueInv /\ OtherTypes /\ AutomationsNotInjected
-----------------------------------------------------------------------------
(* The gate *)

\* Taking or releasing one session changes the number of busy ones by one.
LEMMA BusyFinite == ASSUME TRUE PROVE IsFiniteSet(Busy)
  BY FS_Subset, DispatchAssumption DEF Busy, DispatchAssumption

\* A session that passes the gate is one more busy session.
LEMMA OneMoreBusy ==
    ASSUME NEW s \in Sessions, turn \in [Sessions -> Stages],
           turn[s] = "idle", turn'[s] # "idle",
           \A r \in Sessions \ {s} : turn'[r] = turn[r]
    PROVE  Cardinality(Busy') = Cardinality(Busy) + 1
  <1>1. Busy' = Busy \cup {s} /\ s \notin Busy
    BY DEF Busy
  <1>. QED BY <1>1, BusyFinite, FS_AddElement

\* An element of an appended sequence is the new one or an old one.
LEMMA AppendedIs ==
    ASSUME NEW T, NEW q \in Seq(T), NEW x, NEW i \in DOMAIN Append(q, x)
    PROVE  \/ i = Len(q) + 1 /\ Append(q, x)[i] = x
           \/ i \in DOMAIN q /\ Append(q, x)[i] = q[i]
  <1>1. DOMAIN Append(q, x) = 1 .. Len(q) + 1 /\ Len(q) \in Nat /\ DOMAIN q = 1 .. Len(q)
    OBVIOUS
  <1>2. CASE i = Len(q) + 1
    BY <1>2
  <1>3. CASE i # Len(q) + 1
    <2>1. i \in 1 .. Len(q)
      BY <1>1, <1>3
    <2>. QED BY <1>1, <2>1
  <1>. QED BY <1>2, <1>3

\* A session whose turn ends is one busy session less.
LEMMA OneLessBusy ==
    ASSUME NEW s \in Sessions, turn \in [Sessions -> Stages],
           turn[s] # "idle", turn'[s] = "idle",
           \A r \in Sessions \ {s} : turn'[r] = turn[r]
    PROVE  Cardinality(Busy') = Cardinality(Busy) - 1
  <1>1. Busy' = Busy \ {s} /\ s \in Busy
    BY DEF Busy
  <1>. QED BY <1>1, BusyFinite, FS_RemoveElement
-----------------------------------------------------------------------------
(* The end of a turn *)

\* Publishing the leftovers and one deferred turn keeps the bus well typed,
\* and whoever is still deferred has an automation on the bus.
LEMMA PublishNextDeferredWakes ==
    ASSUME QueueInv, NEW s \in Sessions, NEW leftover \in Seq(Msgs),
           PublishNextDeferred(s, leftover)
    PROVE  /\ inbound' \in Seq(Msgs)
           /\ deferred' \in [Sessions -> Seq(Msgs)]
           /\ DeferredKinds'
           /\ \A r \in Sessions \ {s} : deferred'[r] = deferred[r]
           /\ \A i \in DOMAIN inbound :
                 i \in DOMAIN inbound' /\ inbound'[i] = inbound[i]
           /\ deferred'[s] # <<>> =>
                 \E i \in DOMAIN inbound' :
                     Sess[inbound'[i]] = s /\ Kind[inbound'[i]] = "auto"
  <1>. USE DEF QueueInv, TaskTypes
  <1>1. deferred' = [deferred EXCEPT ![s] = IF @ = <<>> THEN @ ELSE Tail(@)]
    BY DEF PublishNextDeferred
  <1>2. deferred' \in [Sessions -> Seq(Msgs)]
    BY <1>1
  <1>3. Wake(s) \in Seq(Msgs)
    BY DEF Wake
  <1>4. inbound' = inbound \o leftover \o Wake(s)
    BY DEF PublishNextDeferred
  <1>5. DeferredKinds'
    BY <1>1 DEF DeferredKinds
  <1>6. ASSUME deferred'[s] # <<>>
        PROVE  \E i \in DOMAIN inbound' :
                  Sess[inbound'[i]] = s /\ Kind[inbound'[i]] = "auto"
    <2>1. deferred[s] # <<>> /\ Wake(s) = <<Head(deferred[s])>>
      BY <1>1, <1>6 DEF Wake
    <2>2. Kind[Head(deferred[s])] = "auto" /\ Sess[Head(deferred[s])] = s
      BY <2>1 DEF DeferredKinds
    <2>3. Len(inbound') \in DOMAIN inbound'
          /\ inbound'[Len(inbound')] = Head(deferred[s])
      BY <2>1, <1>4
    <2>. QED BY <2>2, <2>3
  <1>7. inbound \o leftover \in Seq(Msgs) /\ inbound' \in Seq(Msgs)
    BY <1>3, <1>4
  <1>8. ASSUME NEW i \in DOMAIN inbound
        PROVE  i \in DOMAIN inbound' /\ inbound'[i] = inbound[i]
    <2>1. i \in DOMAIN (inbound \o leftover)
          /\ (inbound \o leftover)[i] = inbound[i]
      OBVIOUS
    <2>. QED BY <2>1, <1>3, <1>4, <1>7
  <1>9. \A r \in Sessions \ {s} : deferred'[r] = deferred[r]
    BY <1>1
  <1>. QED BY <1>2, <1>5, <1>6, <1>7, <1>8, <1>9
-----------------------------------------------------------------------------
\* Closing a turn keeps the invariant: the slot is given back once, and the
\* session left without a task has its deferred automation on the bus.
LEMMA CloseKeepsQueueInv ==
    ASSUME QueueInv, NEW s \in Sessions, NEW leftover \in Seq(Msgs),
           turn[s] # "idle", Close(s, leftover)
    PROVE  QueueInv'
  <1>. USE DEF QueueInv
  <1>1. PublishNextDeferred(s, leftover)
    BY DEF Close
  <1>2. /\ inbound' \in Seq(Msgs)
        /\ deferred' \in [Sessions -> Seq(Msgs)]
        /\ DeferredKinds'
    BY <1>1, PublishNextDeferredWakes
  <1>3. lockQ[s] # <<>>
    BY DEF Owned
  <1>4. TaskTypes'
    <2>1. lockQ' \in [Sessions -> Seq(Msgs)]
      BY <1>3 DEF Close, TaskTypes
    <2>2. /\ activeTasks' \in [Sessions -> SUBSET Msgs]
          /\ turn' \in [Sessions -> Stages]
          /\ cancelled' \subseteq Msgs
      BY DEF Close, TaskTypes, Stages
    <2>3. pendingQueues' \in [Sessions -> Seq(Msgs) \cup {None}]
          /\ \A r \in Sessions : Len(Queued(r)') <= QueueCap
      BY DispatchAssumption
      DEF Close, Unregister, TaskTypes, Queued, DispatchAssumption
    <2>4. permits' \in Nat
      BY DEF Close, ReleaseGate, TaskTypes
    <2>. QED BY <1>2, <2>1, <2>2, <2>3, <2>4 DEF TaskTypes
  <1>5. Owned'
    BY DEF Owned, Close, Unregister, Registered, TaskTypes
  <1>6. PermitsConserved'
    <2>1. Cardinality(Busy') = Cardinality(Busy) - 1
      BY OneLessBusy DEF Close, TaskTypes
    <2>2. Cardinality(Busy) \in Nat
      BY BusyFinite, FS_CardinalityType
    <2>. QED BY <2>1, <2>2, DispatchAssumption
         DEF PermitsConserved, Busy, Close, ReleaseGate, TaskTypes,
             DispatchAssumption
  <1>7. NoStrandedDeferred'
    <2>1. ASSUME NEW r \in Sessions, deferred'[r] # <<>>, r # s,
                 lockQ'[r] = <<>>
          PROVE  \E i \in DOMAIN inbound' :
                    Sess[inbound'[i]] = r /\ Kind[inbound'[i]] = "auto"
      <3>1. deferred[r] # <<>> /\ lockQ[r] = <<>>
        BY <1>1, <2>1, PublishNextDeferredWakes DEF Close, TaskTypes
      <3>2. PICK i \in DOMAIN inbound :
                    Sess[inbound[i]] = r /\ Kind[inbound[i]] = "auto"
        BY <3>1 DEF NoStrandedDeferred
      <3>3. i \in DOMAIN inbound' /\ inbound'[i] = inbound[i]
        BY <1>1, PublishNextDeferredWakes
      <3>. QED BY <3>2, <3>3
    <2>2. deferred'[s] # <<>> =>
             \E i \in DOMAIN inbound' : Sess[inbound'[i]] = s /\ Kind[inbound'[i]] = "auto"
      BY <1>1, PublishNextDeferredWakes
    <2>. QED BY ONLY <2>1, <2>2 DEF NoStrandedDeferred
  <1>8. FollowUpKinds'
    BY DEF FollowUpKinds, Queued, Close, Unregister, TaskTypes
  <1>. QED BY <1>2, <1>4, <1>5, <1>6, <1>7, <1>8
-----------------------------------------------------------------------------
(* One step keeps the queues right *)

\* Who waited for an automation on the bus still finds one after a message
\* that is not such an automation was consumed.
LEMMA ConsumeKeepsWakers ==
    ASSUME TaskTypes, NEW m \in Msgs, Consume(m), NEW r \in Sessions,
           Kind[m] # "auto" \/ Sess[m] # r,
           \E i \in DOMAIN inbound :
               Sess[inbound[i]] = r /\ Kind[inbound[i]] = "auto"
    PROVE  \E i \in DOMAIN inbound' :
               Sess[inbound'[i]] = r /\ Kind[inbound'[i]] = "auto"
  <1>. USE DEF TaskTypes, Consume
  <1>1. PICK i \in DOMAIN inbound :
               Sess[inbound[i]] = r /\ Kind[inbound[i]] = "auto"
    OBVIOUS
  <1>2. i # 1
    BY <1>1
  <1>3. i - 1 \in DOMAIN inbound' /\ inbound'[i - 1] = inbound[i]
    BY <1>1, <1>2
  <1>. QED BY <1>1, <1>3

\* A step of run() that changes no task and no queue, for a message that is
\* not an automation.
LEMMA ConsumeKeepsQueueInv ==
    ASSUME QueueInv, NEW m \in Msgs, Consume(m), Kind[m] # "auto",
           UNCHANGED <<lockQ, turn, pendingQueues, deferred, permits>>,
           activeTasks' \in [Sessions -> SUBSET Msgs], cancelled' \subseteq Msgs
    PROVE  QueueInv'
  <1>. USE DEF QueueInv
  <1>1. inbound' \in Seq(Msgs)
    BY DEF Consume, TaskTypes
  <1>2. TaskTypes'
    BY <1>1 DEF TaskTypes, Queued
  <1>3. NoStrandedDeferred'
    BY ConsumeKeepsWakers DEF NoStrandedDeferred
  <1>4. Owned' /\ PermitsConserved' /\ FollowUpKinds' /\ DeferredKinds'
    BY DEF Owned, PermitsConserved, FollowUpKinds, DeferredKinds, Queued,
           Registered
  <1>. QED BY <1>2, <1>3, <1>4

\* A message on the bus disturbs nothing; an automation there may only help
\* the deferred ones.
LEMMA PublishKeepsQueueInv ==
    ASSUME QueueInv, NEW m \in Msgs, Publish(m)
    PROVE  QueueInv'
  <1>. USE DEF QueueInv
  <1>1. /\ inbound' = Append(inbound, m)
        /\ UNCHANGED <<tasks, pendingQueues, deferred>>
    BY DEF Publish
  <1>2. TaskTypes'
    BY <1>1 DEF TaskTypes, tasks, Queued
  <1>3. NoStrandedDeferred'
    <2>1. \A i \in DOMAIN inbound : i \in DOMAIN inbound'
                                  /\ inbound'[i] = inbound[i]
      BY <1>1 DEF TaskTypes
    <2>. QED BY <1>1, <2>1 DEF NoStrandedDeferred, tasks
  <1>4. Owned' /\ PermitsConserved' /\ FollowUpKinds' /\ DeferredKinds'
    BY <1>1 DEF Owned, PermitsConserved, FollowUpKinds, DeferredKinds, Queued,
                Registered, tasks
  <1>. QED BY <1>2, <1>3, <1>4

\* Whatever run() does with the message it takes off the bus: an automation
\* that leaves the bus finds a task of its session or becomes one.
LEMMA ReceiveKeepsQueueInv ==
    ASSUME QueueInv, OtherTypes, NEW m \in Msgs, Receive(m)
    PROVE  QueueInv'
  <1>. USE DEF QueueInv
  <1>1. CASE ReceiveControl(m)
    <2>1. activeTasks' \in [Sessions -> SUBSET Msgs] /\ cancelled' \subseteq Msgs
      BY <1>1, DispatchAssumption
      DEF ReceiveControl, CancelActiveTasks, CancelTargets, TaskTypes,
          DispatchAssumption
    <2>. QED BY <1>1, <2>1, ConsumeKeepsQueueInv DEF ReceiveControl
  <1>2. CASE ReceiveDropped(m)
    BY <1>2, ConsumeKeepsQueueInv DEF ReceiveDropped, tasks, TaskTypes
  <1>3. CASE ReceiveCommand(m)
    BY <1>3, ConsumeKeepsQueueInv DEF ReceiveCommand, tasks, TaskTypes
  <1>4. CASE ReceiveDeferred(m)
    <2>. USE <1>4, DispatchAssumption
         DEF ReceiveDeferred, DispatchAssumption
    <2>1. /\ Consume(m) /\ Kind[m] = "auto" /\ Registered(Sess[m])
          /\ Sess[m] \in Sessions
          /\ UNCHANGED <<tasks, pendingQueues>>
      BY DEF Defers
    <2>2. deferred' \in [Sessions -> Seq(Msgs)] /\ inbound' \in Seq(Msgs)
      BY <2>1 DEF TaskTypes, Consume
    <2>3. TaskTypes'
      BY <2>1, <2>2 DEF TaskTypes, tasks, Queued
    <2>4. lockQ'[Sess[m]] # <<>>
      BY <2>1 DEF Owned, tasks
    <2>5. NoStrandedDeferred'
      <3>1. ASSUME NEW r \in Sessions, deferred'[r] # <<>>
            PROVE  \/ lockQ'[r] # <<>>
                   \/ \E i \in DOMAIN inbound' : /\ Sess[inbound'[i]] = r
                                                /\ Kind[inbound'[i]] = "auto"
        <4>1. CASE r = Sess[m]
          BY <2>1, <2>4, <4>1 DEF tasks
        <4>2. CASE r # Sess[m]
          <5>1. deferred'[r] = deferred[r] /\ lockQ'[r] = lockQ[r]
            BY <2>1, <4>2 DEF TaskTypes, tasks
          <5>2. CASE lockQ[r] # <<>>
            BY <5>1, <5>2
          <5>3. CASE \E i \in DOMAIN inbound : /\ Sess[inbound[i]] = r
                                                /\ Kind[inbound[i]] = "auto"
            BY <2>1, <4>2, <5>3, ConsumeKeepsWakers
          <5>. QED BY <3>1, <5>1, <5>2, <5>3 DEF NoStrandedDeferred
        <4>. QED BY <4>1, <4>2
      <3>. QED BY <3>1 DEF NoStrandedDeferred
    <2>6. DeferredKinds'
      <3>1. deferred' = [deferred EXCEPT ![Sess[m]] = Append(@, m)]
        OBVIOUS
      <3>2. \A r \in Sessions : deferred[r] \in Seq(Msgs)
        BY DEF TaskTypes
      <3>3. ASSUME NEW r \in Sessions, NEW i \in DOMAIN deferred'[r]
            PROVE  Kind[deferred'[r][i]] = "auto" /\ Sess[deferred'[r][i]] = r
        <4>1. CASE r = Sess[m]
          <5>1. deferred'[r] = Append(deferred[r], m)
            BY <2>1, <3>1, <4>1 DEF TaskTypes
          <5>2. \/ i = Len(deferred[r]) + 1 /\ deferred'[r][i] = m
                \/ /\ i \in DOMAIN deferred[r]
                   /\ deferred'[r][i] = deferred[r][i]
            BY ONLY <3>2, <4>1, <5>1, AppendedIs
          <5>. QED BY <2>1, <4>1, <5>2 DEF DeferredKinds
        <4>2. CASE r # Sess[m]
          BY <2>1, <3>1, <3>3, <4>2 DEF DeferredKinds, TaskTypes
        <4>. QED BY <4>1, <4>2
      <3>. QED BY <3>3 DEF DeferredKinds
    <2>7. Owned' /\ PermitsConserved' /\ FollowUpKinds'
      BY <2>1 DEF Owned, PermitsConserved, FollowUpKinds, Queued, Registered,
                  tasks
    <2>. QED BY <2>3, <2>5, <2>6, <2>7
  <1>5. CASE ReceiveFollowUp(m)
    <2>. USE <1>5, DispatchAssumption DEF ReceiveFollowUp, DispatchAssumption
    <2>1. /\ Consume(m) /\ Kind[m] # "auto" /\ Registered(Sess[m])
          /\ Sess[m] \in Sessions
          /\ Len(pendingQueues[Sess[m]]) < QueueCap
          /\ pendingQueues[Sess[m]] \in Seq(Msgs)
          /\ UNCHANGED <<tasks, deferred>>
      BY DEF Injects, Defers, Registered, TaskTypes
    <2>2. /\ inbound' \in Seq(Msgs)
          /\ pendingQueues' \in [Sessions -> Seq(Msgs) \cup {None}]
      BY <2>1 DEF TaskTypes, Consume
    <2>3. /\ Queued(Sess[m])' = Append(Queued(Sess[m]), m)
          /\ Queued(Sess[m]) \in Seq(Msgs)
          /\ \A r \in Sessions \ {Sess[m]} : Queued(r)' = Queued(r)
      <3>1. pendingQueues' = [pendingQueues EXCEPT ![Sess[m]] = Append(@, m)]
        OBVIOUS
      <3>2. pendingQueues'[Sess[m]] = Append(pendingQueues[Sess[m]], m)
        BY <2>1, <3>1 DEF TaskTypes
      <3>3. pendingQueues'[Sess[m]] \in Seq(Msgs)
        BY <2>1, <3>2
      <3>4. pendingQueues'[Sess[m]] # None
        BY <3>3
      <3>5. \A r \in Sessions \ {Sess[m]} : pendingQueues'[r] = pendingQueues[r]
        BY <3>1 DEF TaskTypes
      <3>. QED BY <2>1, <3>2, <3>4, <3>5 DEF Queued, Registered
    <2>4. \A r \in Sessions : Len(Queued(r)') <= QueueCap
      <3>1. Len(Queued(Sess[m])') <= QueueCap
        BY <2>1, <2>3 DEF Queued, Registered
      <3>2. ASSUME NEW r \in Sessions \ {Sess[m]} PROVE Len(Queued(r)') <= QueueCap
        BY <2>3 DEF TaskTypes
      <3>. QED BY <3>1, <3>2
    <2>5. TaskTypes'
      BY <2>1, <2>2, <2>4 DEF TaskTypes, tasks
    <2>6. NoStrandedDeferred'
      BY <2>1, ConsumeKeepsWakers DEF NoStrandedDeferred, tasks
    <2>7. FollowUpKinds'
      <3>1. ASSUME NEW i \in DOMAIN Queued(Sess[m])'
            PROVE  Kind[Queued(Sess[m])'[i]] # "auto"
        <4>1. \/ /\ i = Len(Queued(Sess[m])) + 1
                 /\ Queued(Sess[m])'[i] = m
              \/ /\ i \in DOMAIN Queued(Sess[m])
                 /\ Queued(Sess[m])'[i] = Queued(Sess[m])[i]
          BY ONLY <2>3, <3>1, AppendedIs
        <4>. QED BY <2>1, <4>1 DEF FollowUpKinds
      <3>2. ASSUME NEW r \in Sessions \ {Sess[m]}, NEW i \in DOMAIN Queued(r)'
            PROVE  Kind[Queued(r)'[i]] # "auto"
        BY <2>3, <3>2 DEF FollowUpKinds
      <3>. QED BY <3>1, <3>2 DEF FollowUpKinds
    <2>8. PermitsConserved' /\ DeferredKinds'
      BY <2>1 DEF PermitsConserved, DeferredKinds, tasks
    <2>9. Owned'
      <3>1. UNCHANGED <<turn, lockQ>>
        BY <2>1 DEF tasks
      <3>2. \A r \in Sessions : Registered(r)' <=> Registered(r)
        <4>1. pendingQueues' = [pendingQueues EXCEPT ![Sess[m]] = Append(@, m)]
          OBVIOUS
        <4>2. pendingQueues'[Sess[m]] = Append(pendingQueues[Sess[m]], m)
          BY <2>1, <4>1 DEF TaskTypes
        <4>3. pendingQueues'[Sess[m]] \in Seq(Msgs)
          BY <2>1, <4>2
        <4>4. ASSUME NEW r \in Sessions \ {Sess[m]} PROVE pendingQueues'[r] = pendingQueues[r]
          BY ONLY <4>1, <4>4, TaskTypes DEF TaskTypes
        <4>. QED BY ONLY <2>1, <4>3, <4>4, DispatchAssumption DEF Registered, DispatchAssumption
      <3>. QED BY <3>1, <3>2 DEF Owned
    <2>. QED BY <2>5, <2>6, <2>7, <2>8, <2>9
  <1>6. CASE ReceiveTask(m)
    <2>. USE <1>6, DispatchAssumption DEF ReceiveTask, DispatchAssumption
    <2>1. /\ Consume(m) /\ Sess[m] \in Sessions
          /\ UNCHANGED <<turn, pendingQueues, deferred, permits, cancelled>>
      OBVIOUS
    <2>2. /\ inbound' \in Seq(Msgs)
          /\ activeTasks' \in [Sessions -> SUBSET Msgs]
          /\ lockQ' \in [Sessions -> Seq(Msgs)]
          /\ \A r \in Sessions : lockQ[r] # <<>> => lockQ'[r] # <<>>
          /\ lockQ'[Sess[m]] # <<>>
      <3>1. lockQ' = [lockQ EXCEPT ![Sess[m]] = Append(@, m)]
        OBVIOUS
      <3>2. /\ lockQ[Sess[m]] \in Seq(Msgs)
            /\ lockQ'[Sess[m]] = Append(lockQ[Sess[m]], m)
        BY <2>1, <3>1 DEF TaskTypes
      <3>3. lockQ'[Sess[m]] # <<>> /\ lockQ'[Sess[m]] \in Seq(Msgs)
        BY <3>2
      <3>4. \A r \in Sessions \ {Sess[m]} : lockQ'[r] = lockQ[r]
        BY <3>1 DEF TaskTypes
      <3>5. lockQ' \in [Sessions -> Seq(Msgs)]
        BY ONLY <2>1, <3>1, <3>3, TaskTypes DEF TaskTypes
      <3>6. inbound' \in Seq(Msgs) /\ activeTasks' \in [Sessions -> SUBSET Msgs]
        BY <2>1 DEF TaskTypes, Consume
      <3>. QED BY <3>3, <3>4, <3>5, <3>6
    <2>3. TaskTypes'
      <3>1. \A r \in Sessions : Queued(r)' = Queued(r)
        BY <2>1 DEF Queued
      <3>. QED BY <2>1, <2>2, <3>1 DEF TaskTypes
    <2>4. NoStrandedDeferred'
      <3>. SUFFICES ASSUME NEW r \in Sessions, deferred'[r] # <<>>, lockQ'[r] = <<>>
                    PROVE  \E i \in DOMAIN inbound' :
                              Sess[inbound'[i]] = r /\ Kind[inbound'[i]] = "auto"
        BY DEF NoStrandedDeferred
      <3>1. deferred[r] # <<>> /\ lockQ[r] = <<>> /\ r # Sess[m]
        BY <2>1, <2>2
      <3>2. \E i \in DOMAIN inbound : Sess[inbound[i]] = r /\ Kind[inbound[i]] = "auto"
        BY <3>1 DEF NoStrandedDeferred
      <3>. QED BY <2>1, <3>1, <3>2, ConsumeKeepsWakers
    <2>5. Owned'
      BY <2>1, <2>2 DEF Owned, Registered
    <2>6. PermitsConserved' /\ DeferredKinds' /\ FollowUpKinds'
      BY <2>1 DEF PermitsConserved, DeferredKinds, FollowUpKinds, Queued
    <2>. QED BY <2>3, <2>4, <2>5, <2>6
  <1>. QED BY <1>1, <1>2, <1>3, <1>4, <1>5, <1>6 DEF Receive
-----------------------------------------------------------------------------
(* One step of a session keeps the queues right *)

\* A control command ends: /stop may drop the injection queue.
LEMMA FinishControlKeepsQueueInv ==
    ASSUME QueueInv, OtherTypes, FinishControl
    PROVE  QueueInv'
  <1>. USE DEF QueueInv
  <1>1. control \in Msgs /\ Sess[control] \in Sessions
    BY DispatchAssumption DEF FinishControl, OtherTypes, DispatchAssumption
  <1>2. \/ UNCHANGED pendingQueues
        \/ pendingQueues' = [pendingQueues EXCEPT ![Sess[control]] = None]
    BY DEF FinishControl
  <1>3. UNCHANGED <<bus, tasks>>
    BY DEF FinishControl
  <1>4. \A s \in Sessions :
           \/ pendingQueues'[s] = pendingQueues[s]
           \/ pendingQueues'[s] = None
    BY <1>1, <1>2 DEF TaskTypes
  <1>5. \A s \in Sessions : Len(Queued(s)') <= QueueCap
    BY <1>4, DispatchAssumption DEF TaskTypes, Queued, DispatchAssumption
  <1>6. TaskTypes'
    BY <1>1, <1>2, <1>3, <1>5 DEF TaskTypes, bus, tasks
  <1>7. Owned' /\ FollowUpKinds'
    BY <1>3, <1>4 DEF Owned, FollowUpKinds, Queued, Registered, tasks
  <1>8. PermitsConserved' /\ NoStrandedDeferred' /\ DeferredKinds'
    BY <1>3 DEF PermitsConserved, NoStrandedDeferred, DeferredKinds, bus, tasks
  <1>. QED BY <1>6, <1>7, <1>8

\* A task gets lock and gate slot and registers its queue.
LEMMA StartTurnKeepsQueueInv ==
    ASSUME QueueInv, NEW s \in Sessions, StartTurn(s)
    PROVE  QueueInv'
  <1>. USE DEF QueueInv
  <1>1. /\ lockQ[s] # <<>> /\ turn[s] = "idle" /\ permits > 0
        /\ permits' = permits - 1
        /\ turn' = [turn EXCEPT ![s] = "running"]
        /\ pendingQueues' = [pendingQueues EXCEPT ![s] = <<>>]
        /\ UNCHANGED <<bus, activeTasks, lockQ, cancelled>>
    BY DEF StartTurn, Running
  <1>2. \A r \in Sessions : Queued(r)' = IF r = s THEN <<>> ELSE Queued(r)
    BY <1>1, DispatchAssumption DEF TaskTypes, Queued, DispatchAssumption
  <1>3. TaskTypes'
    BY <1>1, <1>2, DispatchAssumption
    DEF TaskTypes, bus, Stages, DispatchAssumption
  <1>4. Owned'
    BY <1>1 DEF Owned, Registered, TaskTypes
  <1>5. PermitsConserved'
    <2>1. Cardinality(Busy') = Cardinality(Busy) + 1
      BY <1>1, OneMoreBusy DEF TaskTypes
    <2>2. Cardinality(Busy) \in Nat
      BY BusyFinite, FS_CardinalityType
    <2>. QED BY <1>1, <2>1, <2>2, DispatchAssumption
         DEF PermitsConserved, Busy, TaskTypes, DispatchAssumption
  <1>6. FollowUpKinds'
    BY <1>2 DEF FollowUpKinds
  <1>7. NoStrandedDeferred' /\ DeferredKinds'
    BY <1>1 DEF NoStrandedDeferred, DeferredKinds, bus
  <1>. QED BY <1>3, <1>4, <1>5, <1>6, <1>7

\* A follow-up is taken from the queue into the running turn.
LEMMA InjectKeepsQueueInv ==
    ASSUME QueueInv, NEW s \in Sessions, Inject(s)
    PROVE  QueueInv'
  <1>. USE DEF QueueInv
  <1>1. /\ Queued(s) # <<>>
        /\ pendingQueues' = [pendingQueues EXCEPT ![s] = Tail(@)]
        /\ UNCHANGED <<bus, tasks>>
    BY DEF Inject
  <1>2. pendingQueues[s] \in Seq(Msgs) /\ pendingQueues[s] = Queued(s)
    BY <1>1 DEF Queued, TaskTypes
  <1>3. pendingQueues'[s] = Tail(Queued(s)) /\ Tail(Queued(s)) \in Seq(Msgs)
    BY <1>1, <1>2 DEF TaskTypes
  <1>4. Queued(s)' = Tail(Queued(s))
    BY <1>3, DispatchAssumption DEF Queued, DispatchAssumption
  <1>5. \A r \in Sessions \ {s} : pendingQueues'[r] = pendingQueues[r]
    BY <1>1 DEF TaskTypes
  <1>6. \A r \in Sessions \ {s} : Queued(r)' = Queued(r)
    BY <1>5 DEF Queued
  <1>7. Len(Queued(s)') <= QueueCap
    BY <1>1, <1>2, <1>4, DispatchAssumption DEF TaskTypes, DispatchAssumption
  <1>8. TaskTypes'
    <2>1. pendingQueues' \in [Sessions -> Seq(Msgs) \cup {None}]
      BY <1>1, <1>3, <1>5 DEF TaskTypes
    <2>2. \A r \in Sessions : Len(Queued(r)') <= QueueCap
      BY <1>6, <1>7 DEF TaskTypes
    <2>. QED BY <1>1, <2>1, <2>2 DEF TaskTypes, bus, tasks
  <1>9. FollowUpKinds'
    <2>1. ASSUME NEW i \in DOMAIN Queued(s)'
          PROVE  Kind[Queued(s)'[i]] # "auto"
      <3>1. i + 1 \in DOMAIN Queued(s) /\ Queued(s)'[i] = Queued(s)[i + 1]
        BY <1>1, <1>2, <1>4, <2>1
      <3>. QED BY <3>1 DEF FollowUpKinds
    <2>. QED BY <1>6, <2>1 DEF FollowUpKinds
  <1>10. Owned'
    BY <1>1, <1>2, <1>5, DispatchAssumption
    DEF Owned, Registered, tasks, DispatchAssumption
  <1>11. PermitsConserved' /\ NoStrandedDeferred' /\ DeferredKinds'
    BY <1>1 DEF PermitsConserved, NoStrandedDeferred, DeferredKinds, bus, tasks
  <1>. QED BY <1>8, <1>9, <1>10, <1>11

\* A turn that changes stage without entering or leaving the gate.
LEMMA StageKeepsQueueInv ==
    ASSUME QueueInv, NEW s \in Sessions, turn[s] # "idle",
           turn' \in [Sessions -> Stages], turn'[s] # "idle",
           \A r \in Sessions \ {s} : turn'[r] = turn[r],
           activeTasks' \in [Sessions -> SUBSET Msgs], cancelled' \subseteq Msgs,
           UNCHANGED <<bus, lockQ, pendingQueues, permits>>
    PROVE  QueueInv'
  <1>. USE DEF QueueInv
  <1>1. TaskTypes'
    BY DEF TaskTypes, Queued, bus
  <1>2. Busy' = Busy
    BY DEF Busy
  <1>3. Owned' /\ FollowUpKinds'
    BY DEF Owned, Registered, FollowUpKinds, Queued
  <1>4. PermitsConserved'
    <2>1. PermitsConserved <=> permits + Cardinality(Busy) = GateCap
      BY DEF PermitsConserved, Busy
    <2>2. PermitsConserved' <=> permits' + Cardinality(Busy') = GateCap
      BY DEF PermitsConserved, Busy
    <2>. QED BY <1>2, <2>1, <2>2
  <1>5. NoStrandedDeferred' /\ DeferredKinds'
    BY DEF NoStrandedDeferred, DeferredKinds, bus
  <1>. QED BY <1>1, <1>3, <1>4, <1>5

\* A task cancelled before its turn leaves the lock's queue and wakes one
\* deferred turn.
LEMMA AbortWaitingKeepsQueueInv ==
    ASSUME QueueInv, NEW s \in Sessions, NEW i \in Nat, AbortWaiting(s, i)
    PROVE  QueueInv'
  <1>. USE DEF QueueInv
  <1>1. /\ PublishNextDeferred(s, <<>>)
        /\ i \in DOMAIN lockQ[s]
        /\ i = 1 => turn[s] = "idle"
        /\ lockQ' = [lockQ EXCEPT ![s] = SubSeq(@, 1, i - 1)
                                           \o SubSeq(@, i + 1, Len(@))]
        /\ UNCHANGED <<turn, pendingQueues, permits>>
    BY DEF AbortWaiting, CloseUnstarted
  <1>2. /\ inbound' \in Seq(Msgs)
        /\ deferred' \in [Sessions -> Seq(Msgs)]
        /\ DeferredKinds'
        /\ \A r \in Sessions \ {s} : deferred'[r] = deferred[r]
        /\ \A j \in DOMAIN inbound :
               j \in DOMAIN inbound' /\ inbound'[j] = inbound[j]
        /\ deferred'[s] # <<>> =>
               \E j \in DOMAIN inbound' :
                   Sess[inbound'[j]] = s /\ Kind[inbound'[j]] = "auto"
    <2>1. <<>> \in Seq(Msgs)
      OBVIOUS
    <2>. QED BY <1>1, <2>1, PublishNextDeferredWakes
  <1>3. lockQ[s] \in Seq(Msgs) /\ i \in 1 .. Len(lockQ[s])
    BY <1>1 DEF TaskTypes
  <1>4. /\ SubSeq(lockQ[s], 1, i - 1) \in Seq(Msgs)
        /\ Len(SubSeq(lockQ[s], 1, i - 1)) = i - 1
        /\ SubSeq(lockQ[s], i + 1, Len(lockQ[s])) \in Seq(Msgs)
    BY <1>3
  <1>5. /\ lockQ'[s] = SubSeq(lockQ[s], 1, i - 1)
                          \o SubSeq(lockQ[s], i + 1, Len(lockQ[s]))
        /\ \A r \in Sessions \ {s} : lockQ'[r] = lockQ[r]
        /\ lockQ' \in [Sessions -> Seq(Msgs)]
    <2>1. lockQ'[s] = SubSeq(lockQ[s], 1, i - 1)
                        \o SubSeq(lockQ[s], i + 1, Len(lockQ[s]))
      BY <1>1 DEF TaskTypes
    <2>2. lockQ'[s] \in Seq(Msgs)
      BY <1>4, <2>1
    <2>3. \A r \in Sessions \ {s} : lockQ'[r] = lockQ[r]
      BY <1>1 DEF TaskTypes
    <2>4. lockQ' \in [Sessions -> Seq(Msgs)]
      BY <1>1, <2>2, <2>3 DEF TaskTypes
    <2>. QED BY <2>1, <2>3, <2>4
  <1>6. i # 1 => lockQ'[s] # <<>>
    BY <1>3, <1>4, <1>5
  <1>7. TaskTypes'
    <2>1. activeTasks' \in [Sessions -> SUBSET Msgs] /\ cancelled' \subseteq Msgs
      BY DEF AbortWaiting, TaskTypes
    <2>. QED BY <1>1, <1>2, <1>5, <2>1 DEF TaskTypes, Queued
  <1>8. Owned'
    BY <1>1, <1>5, <1>6 DEF Owned, Registered
  <1>9. NoStrandedDeferred'
    <2>1. ASSUME NEW r \in Sessions, r # s, deferred'[r] # <<>>,
                 lockQ'[r] = <<>>
          PROVE  \E j \in DOMAIN inbound' :
                    Sess[inbound'[j]] = r /\ Kind[inbound'[j]] = "auto"
      <3>1. deferred[r] # <<>> /\ lockQ[r] = <<>>
        BY <1>2, <1>5, <2>1
      <3>2. PICK j \in DOMAIN inbound :
                    Sess[inbound[j]] = r /\ Kind[inbound[j]] = "auto"
        BY <3>1 DEF NoStrandedDeferred
      <3>3. j \in DOMAIN inbound' /\ inbound'[j] = inbound[j]
        BY <1>2
      <3>. QED BY <3>2, <3>3
    <2>. QED BY <1>2, <2>1 DEF NoStrandedDeferred
  <1>10. PermitsConserved' /\ FollowUpKinds'
    BY <1>1 DEF PermitsConserved, FollowUpKinds, Queued
  <1>. QED BY <1>2, <1>7, <1>8, <1>9, <1>10

\* Closing a turn with its own queue, or with its continuation appended.
LEMMA CloseStep ==
    ASSUME QueueInv, NEW s \in Sessions, NEW stage \in Stages \ {"idle"},
           Running(s, stage),
           Close(s, Queued(s)) \/ Close(s, Append(Queued(s), Owner(s)))
    PROVE  QueueInv'
  <1>1. Queued(s) \in Seq(Msgs)
    BY DEF QueueInv, TaskTypes, Queued
  <1>2. Owner(s) \in Msgs
    BY DEF QueueInv, TaskTypes, Owner, Running
  <1>3. Append(Queued(s), Owner(s)) \in Seq(Msgs)
    BY <1>1, <1>2
  <1>. QED BY <1>1, <1>3, CloseKeepsQueueInv DEF Running

\* The steps of a running turn.
LEMMA StepKeepsQueueInv ==
    ASSUME QueueInv, NEW s \in Sessions, Step(s)
    PROVE  QueueInv'
  <1>. USE DEF Running
  <1>1. CASE Inject(s)
    BY <1>1, InjectKeepsQueueInv
  <1>2. CASE EndTurn(s)
    BY <1>2, CloseStep DEF EndTurn, Stages
  <1>3. CASE ContinueTurn(s)
    BY <1>3, CloseStep DEF ContinueTurn, CanContinue, Stages
  <1>4. CASE BlockOnFullQueue(s)
    BY <1>4, StageKeepsQueueInv
    DEF BlockOnFullQueue, CanContinue, QueueInv, TaskTypes, Stages, bus
  <1>5. CASE ClearSession(s)
    <2>1. Owner(s) \in Msgs
      BY <1>5 DEF ClearSession, Owner, QueueInv, TaskTypes
    <2>2. activeTasks' \in [Sessions -> SUBSET Msgs] /\ cancelled' \subseteq Msgs
      BY <1>5 DEF ClearSession, CancelActiveTasks, CancelTargets, QueueInv,
                  TaskTypes
    <2>. QED BY <1>5, <2>2, StageKeepsQueueInv
         DEF ClearSession, QueueInv, TaskTypes, Stages, bus
  <1>6. CASE SessionCleared(s)
    BY <1>6, CloseStep DEF SessionCleared, Stages
  <1>7. CASE AbortTurn(s)
    BY <1>7, CloseStep DEF AbortTurn, Stages
  <1>. QED BY <1>1, <1>2, <1>3, <1>4, <1>5, <1>6, <1>7 DEF Step
-----------------------------------------------------------------------------
(* Callers and fates *)

\* The variables the queue invariant does not mention keep their types.
LEMMA OtherTypesStep ==
    ASSUME QueueInv, OtherTypes, [Next]_vars
    PROVE  OtherTypes'
  <1>. USE DispatchAssumption
       DEF QueueInv, OtherTypes, DispatchAssumption
  <1>1. ASSUME NEW m \in Msgs, Publish(m) PROVE OtherTypes'
    BY <1>1 DEF Publish, Settle, Fates, Automations
  <1>2. ASSUME NEW m \in Automations, CallerCancelled(m) PROVE OtherTypes'
    BY <1>2 DEF CallerCancelled, Automations
  <1>3. ASSUME NEW m \in Msgs, Receive(m) PROVE OtherTypes'
    <2>1. CASE ReceiveControl(m)
      BY <1>3, <2>1 DEF ReceiveControl, CancelActiveTasks, CancelTargets,
                        TaskTypes
    <2>2. CASE ReceiveDropped(m) \/ ReceiveCommand(m)
      BY <1>3, <2>2 DEF ReceiveDropped, ReceiveCommand, Settle, Fates
    <2>3. CASE ReceiveDeferred(m) \/ ReceiveFollowUp(m) \/ ReceiveTask(m)
      BY <1>3, <2>3 DEF ReceiveDeferred, ReceiveFollowUp, ReceiveTask
    <2>. QED BY <1>3, <2>1, <2>2, <2>3 DEF Receive
  <1>4. CASE FinishControl
    BY <1>4 DEF FinishControl, Fates
  <1>5. ASSUME NEW s \in Sessions, StartTurn(s) PROVE OtherTypes'
    BY <1>5 DEF StartTurn
  <1>6. ASSUME NEW s \in Sessions, Step(s) PROVE OtherTypes'
    <2>1. lockQ[s] # <<>> => Owner(s) \in Msgs
      BY DEF TaskTypes, Owner
    <2>2. Queued(s) # <<>> => Head(Queued(s)) \in Msgs
      BY DEF TaskTypes, Queued
    <2>3. \A m \in Msgs, o \in {"ok", "error"} :
             Complete(m, o) =>
               waiters' \in [Automations ->
                               {"none", "waiting", "ok", "error", "gone"}]
      BY DEF Complete
    <2>4. CASE Inject(s)
      BY <1>6, <2>2, <2>4 DEF Inject, Settle, Fates
    <2>5. CASE EndTurn(s)
      <3>1. Owner(s) \in Msgs
        BY <2>1, <2>5 DEF EndTurn, Running
      <3>2. waiters' \in [Automations ->
                            {"none", "waiting", "ok", "error", "gone"}]
        BY <2>3, <2>5, <3>1 DEF EndTurn
      <3>3. fate' \in [Msgs -> Fates]
        BY <2>5, <3>1 DEF EndTurn, Settle, Fates
      <3>4. rounds' \in [Sessions -> 0 .. MaxRounds]
        <4>1. rounds' = rounds \/ rounds' = [rounds EXCEPT ![s] = 0]
          BY <2>5 DEF EndTurn
        <4>2. 0 \in 0 .. MaxRounds
          OBVIOUS
        <4>. QED BY <4>1, <4>2
      <3>. QED BY <2>5, <3>2, <3>3, <3>4 DEF EndTurn
    <2>6. CASE ContinueTurn(s)
      <3>1. Owner(s) \in Msgs /\ rounds[s] < MaxRounds
        BY <2>1, <2>6 DEF ContinueTurn, CanContinue, Running
      <3>2. waiters' \in [Automations ->
                            {"none", "waiting", "ok", "error", "gone"}]
        BY <2>3, <2>6, <3>1 DEF ContinueTurn
      <3>3. rounds' \in [Sessions -> 0 .. MaxRounds]
        BY <2>6, <3>1 DEF ContinueTurn
      <3>. QED BY <2>6, <3>2, <3>3 DEF ContinueTurn
    <2>7. CASE BlockOnFullQueue(s)
      BY <1>6, <2>7 DEF BlockOnFullQueue, CanContinue
    <2>8. CASE ClearSession(s)
      BY <1>6, <2>1, <2>8 DEF ClearSession, CancelActiveTasks, CancelTargets,
                              Running, TaskTypes
    <2>9. CASE SessionCleared(s)
      BY <1>6, <2>1, <2>9 DEF SessionCleared, Running, Settle, Fates
    <2>10. CASE AbortTurn(s)
      <3>1. Owner(s) \in Msgs
        BY <2>1, <2>10 DEF AbortTurn, Running
      <3>2. waiters' \in [Automations ->
                            {"none", "waiting", "ok", "error", "gone"}]
        BY <2>3, <2>10, <3>1 DEF AbortTurn
      <3>3. fate' \in [Msgs -> Fates]
        BY <2>10, <3>1 DEF AbortTurn, Settle, Fates
      <3>. QED BY <2>10, <3>2, <3>3 DEF AbortTurn
    <2>. QED BY <1>6, <2>4, <2>5, <2>6, <2>7, <2>8, <2>9, <2>10 DEF Step
  <1>7. ASSUME NEW s \in Sessions, NEW i \in Nat, AbortWaiting(s, i)
        PROVE  OtherTypes'
    <2>1. lockQ[s][i] \in Msgs
      BY <1>7 DEF AbortWaiting, TaskTypes
    <2>. QED BY <1>7, <2>1 DEF AbortWaiting, Settle, Fates
  <1>8. CASE UNCHANGED vars
    BY <1>8 DEF vars
  <1>. QED BY <1>1, <1>2, <1>3, <1>4, <1>5, <1>6, <1>7, <1>8
       DEF Next, Quiescent

\* Only a message taken from an injection queue becomes part of a turn.
LEMMA AutomationsStayApart ==
    ASSUME QueueInv, OtherTypes, AutomationsNotInjected, [Next]_vars
    PROVE  AutomationsNotInjected'
  <1>. USE DispatchAssumption
       DEF AutomationsNotInjected, OtherTypes, Automations, DispatchAssumption
  <1>1. ASSUME NEW m \in Msgs, Publish(m) PROVE AutomationsNotInjected'
    BY <1>1 DEF Publish, Settle
  <1>2. ASSUME NEW m \in Automations, CallerCancelled(m)
        PROVE  AutomationsNotInjected'
    BY <1>2 DEF CallerCancelled
  <1>3. ASSUME NEW m \in Msgs, Receive(m) PROVE AutomationsNotInjected'
    BY <1>3 DEF Receive, ReceiveControl, ReceiveDropped, ReceiveCommand,
                ReceiveDeferred, ReceiveFollowUp, ReceiveTask, Settle
  <1>4. CASE FinishControl
    BY <1>4 DEF FinishControl
  <1>5. ASSUME NEW s \in Sessions, StartTurn(s) PROVE AutomationsNotInjected'
    BY <1>5 DEF StartTurn
  <1>6. ASSUME NEW s \in Sessions, Step(s) PROVE AutomationsNotInjected'
    <2>1. CASE Inject(s)
      <3>1. Queued(s) \in Seq(Msgs) /\ Queued(s) # <<>>
        BY <2>1 DEF Inject, QueueInv, TaskTypes, Queued
      <3>2. Kind[Head(Queued(s))] # "auto"
        BY <3>1 DEF QueueInv, FollowUpKinds
      <3>. QED BY <2>1, <3>2 DEF Inject, Settle
    <2>2. CASE ~Inject(s)
      BY <1>6, <2>2 DEF Step, EndTurn, ContinueTurn, BlockOnFullQueue,
                        ClearSession, SessionCleared, AbortTurn, Settle
    <2>. QED BY <2>1, <2>2
  <1>7. ASSUME NEW s \in Sessions, NEW i \in Nat, AbortWaiting(s, i)
        PROVE  AutomationsNotInjected'
    BY <1>7 DEF AbortWaiting, Settle
  <1>8. CASE UNCHANGED vars
    BY <1>8 DEF vars
  <1>. QED BY <1>1, <1>2, <1>3, <1>4, <1>5, <1>6, <1>7, <1>8
       DEF Next, Quiescent
-----------------------------------------------------------------------------
(* The inductive invariant *)

\* The agent starts with everything empty.
LEMMA InitIInv == Init => IInv
  <1>. SUFFICES ASSUME Init PROVE IInv
    OBVIOUS
  <1>. USE DispatchAssumption DEF Init, DispatchAssumption
  <1>1. TaskTypes
    BY DEF TaskTypes, Queued, Stages
  <1>2. OtherTypes
    BY DEF OtherTypes, Fates
  <1>3. Owned /\ FollowUpKinds /\ DeferredKinds /\ NoStrandedDeferred
    BY DEF Owned, Registered, FollowUpKinds, DeferredKinds, Queued,
           NoStrandedDeferred
  <1>4. PermitsConserved
    <2>1. Busy = {}
      BY DEF Busy
    <2>2. Cardinality(Busy) = 0
      BY <2>1, FS_EmptySet
    <2>3. PermitsConserved <=> permits + Cardinality(Busy) = GateCap
      BY DEF PermitsConserved, Busy
    <2>. QED BY <2>2, <2>3
  <1>5. AutomationsNotInjected
    BY DEF AutomationsNotInjected, Automations
  <1>. QED BY <1>1, <1>2, <1>3, <1>4, <1>5 DEF IInv, QueueInv

\* Every step keeps the inductive invariant.
LEMMA NextIInv == IInv /\ [Next]_vars => IInv'
  <1>. SUFFICES ASSUME IInv, [Next]_vars PROVE IInv'
    OBVIOUS
  <1>. USE DEF IInv
  <1>1. QueueInv'
    <2>1. ASSUME NEW m \in Automations, CallerCancelled(m) PROVE QueueInv'
      BY <2>1 DEF CallerCancelled, bus, tasks, QueueInv, TaskTypes, Owned,
                  PermitsConserved, NoStrandedDeferred, FollowUpKinds,
                  DeferredKinds, Queued, Registered
    <2>2. CASE UNCHANGED vars
      BY <2>2 DEF vars, QueueInv, TaskTypes, Owned, PermitsConserved,
                  NoStrandedDeferred, FollowUpKinds, DeferredKinds, Queued,
                  Registered
    <2>. QED BY <2>1, <2>2, PublishKeepsQueueInv, ReceiveKeepsQueueInv,
                FinishControlKeepsQueueInv, StartTurnKeepsQueueInv,
                StepKeepsQueueInv, AbortWaitingKeepsQueueInv
         DEF Next, Quiescent
  <1>2. OtherTypes' /\ AutomationsNotInjected'
    BY OtherTypesStep, AutomationsStayApart
  <1>. QED BY <1>1, <1>2

\* The strengthening from which the theorems below follow.
THEOREM Invariant == Spec => []IInv
  BY InitIInv, NextIInv, PTL DEF Spec
-----------------------------------------------------------------------------
(* What follows from it *)

\* Every variable keeps its type: no injection queue grows past its maxsize
\* and the gate has never fewer than no free slot nor more than GateCap.
THEOREM TypeCorrect == Spec => []TypeOK
  <1>1. IInv => TypeOK
    <2>. SUFFICES ASSUME IInv PROVE TypeOK
      OBVIOUS
    <2>1. permits + Cardinality(Busy) = GateCap
      BY DEF IInv, QueueInv, PermitsConserved, Busy
    <2>2. Cardinality(Busy) \in Nat
      BY BusyFinite, FS_CardinalityType
    <2>3. permits \in 0 .. GateCap
      BY <2>1, <2>2, DispatchAssumption
      DEF IInv, QueueInv, TaskTypes, DispatchAssumption
    <2>. QED BY <2>3 DEF IInv, QueueInv, TaskTypes, OtherTypes, TypeOK
  <1>. QED BY <1>1, Invariant, PTL

\* A registered injection queue always has a turn that consumes it or gives
\* its messages back.
THEOREM QueuesHaveConsumers == Spec => []QueueHasConsumer
  <1>1. IInv => QueueHasConsumer
    BY DEF IInv, QueueInv, Owned, QueueHasConsumer
  <1>. QED BY <1>1, Invariant, PTL

\* The gate neither loses nor gains a slot, whichever way turns end.
THEOREM GateIsConserved == Spec => []PermitsConserved
  <1>1. IInv => PermitsConserved
    BY DEF IInv, QueueInv
  <1>. QED BY <1>1, Invariant, PTL

\* A deferred automation always has a task or an automation of its session
\* left to wake it.
THEOREM DeferredAreWoken == Spec => []NoStrandedDeferred
  <1>1. IInv => NoStrandedDeferred
    BY DEF IInv, QueueInv
  <1>. QED BY <1>1, Invariant, PTL

\* No automation is ever injected into a running turn.
THEOREM AutomationsSeparate == Spec => []AutomationsNotInjected
  <1>1. IInv => AutomationsNotInjected
    BY DEF IInv
  <1>. QED BY <1>1, Invariant, PTL

\* The tables of the loop are sound: types, gate and separation together.
THEOREM TablesAreSound == Spec => []TablesSound
  BY TypeCorrect, GateIsConserved, AutomationsSeparate, PTL DEF TablesSound
-----------------------------------------------------------------------------
(***************************************************************************)
(* Where the messages are: a live message is in exactly one place, and only*)
(* a control command of its own session ever stops one.                    *)
(***************************************************************************)
Distinct(q) == \A i, j \in DOMAIN q : q[i] = q[j] => i = j
Held(s) == Elems(lockQ[s]) \cup Elems(Queued(s)) \cup Elems(deferred[s])
Located(m) == m \in Elems(inbound) \/ m = control \/ m \in Held(Sess[m])

\* A message is in one of the places only.
Apart(m, s) ==
    /\ m \in Elems(inbound) => m # control /\ m \notin Held(s)
    /\ m = control => m \notin Held(s)
    /\ m \in Elems(lockQ[s]) => m \notin Elems(Queued(s)) \cup Elems(deferred[s])
    /\ m \in Elems(Queued(s)) => m \notin Elems(deferred[s])

\* The messages of one session: nowhere twice, in no other session's queues,
\* and somewhere as long as they are live.
Tidy(s) ==
    /\ Distinct(lockQ[s]) /\ Distinct(Queued(s)) /\ Distinct(deferred[s])
    /\ \A m \in Held(s) : Sess[m] = s
    /\ \A m \in Msgs : Sess[m] = s =>
          Apart(m, s) /\ (fate[m] = "live" <=> Located(m))

PlaceInv == Distinct(inbound) /\ \A s \in Sessions : Tidy(s)
-----------------------------------------------------------------------------
(* Sequences without repetition *)

\* What is appended is new.
LEMMA AppendDistinct ==
    ASSUME NEW q \in Seq(Msgs), NEW m \in Msgs
    PROVE  /\ Append(q, m) \in Seq(Msgs)
           /\ Elems(Append(q, m)) = Elems(q) \cup {m}
           /\ Distinct(q) /\ m \notin Elems(q) => Distinct(Append(q, m))
  <1>1. /\ Append(q, m) \in Seq(Msgs) /\ Len(Append(q, m)) = Len(q) + 1
        /\ DOMAIN Append(q, m) = 1 .. Len(q) + 1 /\ DOMAIN q = 1 .. Len(q)
        /\ \A i \in 1 .. Len(q) : Append(q, m)[i] = q[i]
        /\ Append(q, m)[Len(q) + 1] = m /\ Len(q) \in Nat
    OBVIOUS
  <1>2. Elems(Append(q, m)) = Elems(q) \cup {m}
    BY <1>1 DEF Elems
  <1>3. ASSUME Distinct(q), m \notin Elems(q) PROVE Distinct(Append(q, m))
    BY <1>1, <1>3 DEF Elems, Distinct
  <1>. QED BY <1>1, <1>2, <1>3

\* The head leaves.
LEMMA TailDistinct ==
    ASSUME NEW q \in Seq(Msgs), q # <<>>
    PROVE  /\ Tail(q) \in Seq(Msgs) /\ Head(q) \in Elems(q) /\ Head(q) \in Msgs
           /\ Elems(Tail(q)) \subseteq Elems(q)
           /\ Distinct(q) => Distinct(Tail(q)) /\ Elems(Tail(q)) = Elems(q) \ {Head(q)}
  <1>1. /\ Tail(q) \in Seq(Msgs) /\ Len(Tail(q)) = Len(q) - 1 /\ Len(q) \in Nat
        /\ Len(q) # 0 /\ DOMAIN q = 1 .. Len(q)
        /\ DOMAIN Tail(q) = 1 .. Len(q) - 1
        /\ \A i \in 1 .. Len(q) - 1 : Tail(q)[i] = q[i + 1]
        /\ Head(q) = q[1]
    OBVIOUS
  <1>2. Head(q) \in Elems(q) /\ Head(q) \in Msgs
    BY <1>1 DEF Elems
  <1>3. Elems(Tail(q)) \subseteq Elems(q)
    BY <1>1 DEF Elems
  <1>4. ASSUME Distinct(q)
        PROVE  Distinct(Tail(q)) /\ Elems(Tail(q)) = Elems(q) \ {Head(q)}
    <2>1. Distinct(Tail(q))
      <3>. SUFFICES ASSUME NEW i \in 1 .. Len(q) - 1, NEW j \in 1 .. Len(q) - 1,
                           q[i + 1] = q[j + 1]
                    PROVE  i = j
        BY <1>1 DEF Distinct
      <3>1. i + 1 \in DOMAIN q /\ j + 1 \in DOMAIN q
        BY <1>1
      <3>. QED BY <1>4, <3>1 DEF Distinct
    <2>2. Head(q) \notin Elems(Tail(q))
      <3>. SUFFICES ASSUME NEW i \in 1 .. Len(q) - 1, q[i + 1] = q[1] PROVE FALSE
        BY <1>1 DEF Elems
      <3>1. i + 1 \in DOMAIN q /\ 1 \in DOMAIN q
        BY <1>1
      <3>. QED BY <1>4, <3>1 DEF Distinct
    <2>3. ASSUME NEW m \in Elems(q), m # Head(q) PROVE m \in Elems(Tail(q))
      <3>1. PICK i \in 1 .. Len(q) : m = q[i]
        BY <1>1 DEF Elems
      <3>2. i - 1 \in DOMAIN Tail(q) /\ Tail(q)[i - 1] = m
        BY <1>1, <2>3, <3>1
      <3>. QED BY <3>2 DEF Elems
    <2>. QED BY <1>3, <2>1, <2>2, <2>3
  <1>. QED BY <1>1, <1>2, <1>3, <1>4

\* Two sequences with nothing in common.
LEMMA ConcatDistinct ==
    ASSUME NEW p \in Seq(Msgs), NEW q \in Seq(Msgs)
    PROVE  /\ p \o q \in Seq(Msgs)
           /\ Elems(p \o q) = Elems(p) \cup Elems(q)
           /\ Distinct(p) /\ Distinct(q) /\ Elems(p) \cap Elems(q) = {} => Distinct(p \o q)
  <1>1. /\ p \o q \in Seq(Msgs) /\ Len(p) \in Nat /\ Len(q) \in Nat
        /\ DOMAIN p = 1 .. Len(p) /\ DOMAIN q = 1 .. Len(q)
        /\ DOMAIN (p \o q) = 1 .. Len(p) + Len(q)
        /\ \A i \in 1 .. Len(p) : (p \o q)[i] = p[i]
        /\ \A i \in 1 .. Len(q) : (p \o q)[Len(p) + i] = q[i]
    OBVIOUS
  <1>2. \A i \in DOMAIN (p \o q) :
           \/ i \in DOMAIN p /\ (p \o q)[i] = p[i]
           \/ i - Len(p) \in DOMAIN q /\ (p \o q)[i] = q[i - Len(p)]
    <2>. SUFFICES ASSUME NEW i \in 1 .. Len(p) + Len(q), ~(i \in 1 .. Len(p))
                  PROVE  i - Len(p) \in DOMAIN q /\ (p \o q)[i] = q[i - Len(p)]
      BY <1>1
    <2>1. i - Len(p) \in 1 .. Len(q) /\ i = Len(p) + (i - Len(p))
      BY <1>1
    <2>. QED BY <1>1, <2>1
  <1>3. Elems(p \o q) = Elems(p) \cup Elems(q)
    <2>1. Elems(p \o q) \subseteq Elems(p) \cup Elems(q)
      BY <1>2 DEF Elems
    <2>2. Elems(p) \subseteq Elems(p \o q)
      BY <1>1 DEF Elems
    <2>3. ASSUME NEW i \in 1 .. Len(q) PROVE q[i] \in Elems(p \o q)
      <3>1. Len(p) + i \in DOMAIN (p \o q)
        BY <1>1
      <3>. QED BY <1>1, <3>1 DEF Elems
    <2>. QED BY <1>1, <2>1, <2>2, <2>3 DEF Elems
  <1>4. ASSUME Distinct(p), Distinct(q), Elems(p) \cap Elems(q) = {},
               NEW i \in DOMAIN (p \o q), NEW j \in DOMAIN (p \o q),
               (p \o q)[i] = (p \o q)[j]
        PROVE  i = j
    <2>1. CASE i \in DOMAIN p /\ (p \o q)[i] = p[i]
      <3>1. j \in DOMAIN p /\ (p \o q)[j] = p[j]
        <4>1. (p \o q)[i] \in Elems(p)
          BY <2>1 DEF Elems
        <4>2. ~(j - Len(p) \in DOMAIN q /\ (p \o q)[j] = q[j - Len(p)])
          BY <1>4, <4>1 DEF Elems
        <4>. QED BY <1>2, <1>4, <4>2
      <3>. QED BY <1>4, <2>1, <3>1 DEF Distinct
    <2>2. CASE i - Len(p) \in DOMAIN q /\ (p \o q)[i] = q[i - Len(p)]
      <3>1. j - Len(p) \in DOMAIN q /\ (p \o q)[j] = q[j - Len(p)]
        <4>1. (p \o q)[i] \in Elems(q)
          BY <2>2 DEF Elems
        <4>2. ~(j \in DOMAIN p /\ (p \o q)[j] = p[j])
          BY <1>4, <4>1 DEF Elems
        <4>. QED BY <1>2, <1>4, <4>2
      <3>2. i - Len(p) = j - Len(p)
        BY <1>4, <2>2, <3>1 DEF Distinct
      <3>. QED BY <1>1, <3>2
    <2>. QED BY <1>2, <2>1, <2>2
  <1>. QED BY <1>1, <1>3, <1>4 DEF Distinct

\* One element is taken out.
LEMMA WithoutDistinct ==
    ASSUME NEW q \in Seq(Msgs), NEW i \in DOMAIN q, Distinct(q)
    PROVE  LET w == SubSeq(q, 1, i - 1) \o SubSeq(q, i + 1, Len(q))
           IN w \in Seq(Msgs) /\ Distinct(w) /\ Elems(w) = Elems(q) \ {q[i]}
  <1>. DEFINE u == SubSeq(q, 1, i - 1)
              v == SubSeq(q, i + 1, Len(q))
  <1>1. Len(q) \in Nat /\ i \in 1 .. Len(q) /\ DOMAIN q = 1 .. Len(q)
    OBVIOUS
  <1>2. /\ u \in Seq(Msgs) /\ DOMAIN u = 1 .. i - 1
        /\ \A k \in 1 .. i - 1 : u[k] = q[k]
    <2>1. u \in Seq(Msgs)
      BY <1>1
    <2>2. DOMAIN u = 1 .. i - 1
      BY <1>1
    <2>3. \A k \in 1 .. i - 1 : u[k] = q[k]
      BY <1>1
    <2>. QED BY <2>1, <2>2, <2>3
  <1>3. /\ v \in Seq(Msgs) /\ DOMAIN v = 1 .. Len(q) - i
        /\ \A k \in 1 .. Len(q) - i : v[k] = q[i + k]
    <2>1. v \in Seq(Msgs)
      BY <1>1
    <2>2. DOMAIN v = 1 .. Len(q) - i
      BY <1>1
    <2>3. \A k \in 1 .. Len(q) - i : v[k] = q[i + k]
      BY <1>1
    <2>. QED BY <2>1, <2>2, <2>3
  <1>. HIDE DEF u, v
  <1>4. Distinct(u)
    <2>. SUFFICES ASSUME NEW k \in 1 .. i - 1, NEW l \in 1 .. i - 1, q[k] = q[l]
                  PROVE  k = l
      BY <1>2 DEF Distinct
    <2>1. k \in DOMAIN q /\ l \in DOMAIN q
      BY <1>1
    <2>. QED BY <2>1 DEF Distinct
  <1>5. Distinct(v)
    <2>. SUFFICES ASSUME NEW k \in 1 .. Len(q) - i, NEW l \in 1 .. Len(q) - i,
                         q[i + k] = q[i + l]
                  PROVE  k = l
      BY <1>3 DEF Distinct
    <2>1. i + k \in DOMAIN q /\ i + l \in DOMAIN q
      BY <1>1
    <2>2. i + k = i + l
      BY <2>1 DEF Distinct
    <2>. QED BY <1>1, <2>2
  <1>6. Elems(u) \cap Elems(v) = {}
    <2>. SUFFICES ASSUME NEW k \in 1 .. i - 1, NEW l \in 1 .. Len(q) - i,
                         q[k] = q[i + l]
                  PROVE  FALSE
      BY <1>2, <1>3 DEF Elems
    <2>1. k \in DOMAIN q /\ i + l \in DOMAIN q
      BY <1>1
    <2>2. k = i + l
      BY <2>1 DEF Distinct
    <2>. QED BY <1>1, <2>2
  <1>7. Elems(u) \cup Elems(v) = Elems(q) \ {q[i]}
    <2>1. ASSUME NEW k \in 1 .. Len(q), k # i PROVE q[k] \in Elems(u) \cup Elems(v)
      <3>1. CASE k < i
        BY <1>1, <1>2, <2>1, <3>1 DEF Elems
      <3>2. CASE k > i
        <4>1. k - i \in 1 .. Len(q) - i /\ i + (k - i) = k
          BY ONLY <1>1, <3>2, k \in 1 .. Len(q)
        <4>2. k - i \in DOMAIN v /\ v[k - i] = q[k]
          BY ONLY <1>3, <4>1
        <4>. QED BY <4>2 DEF Elems
      <3>. QED BY <1>1, <2>1, <3>1, <3>2
    <2>2. Elems(q) \ {q[i]} \subseteq Elems(u) \cup Elems(v)
      <3>. SUFFICES ASSUME NEW m \in Elems(q), m # q[i]
                    PROVE  m \in Elems(u) \cup Elems(v)
        OBVIOUS
      <3>1. PICK k \in 1 .. Len(q) : m = q[k]
        BY <1>1 DEF Elems
      <3>. QED BY <2>1, <3>1
    <2>3. ASSUME NEW m \in Elems(u) \cup Elems(v) PROVE m \in Elems(q) /\ m # q[i]
      <3>1. PICK k \in 1 .. Len(q) : k # i /\ m = q[k]
        <4>1. CASE m \in Elems(u)
          <5>1. PICK k \in 1 .. i - 1 : m = u[k]
            BY <1>2, <4>1 DEF Elems
          <5>. QED BY <1>1, <1>2, <5>1
        <4>2. CASE m \in Elems(v)
          <5>1. PICK k \in 1 .. Len(q) - i : m = v[k]
            BY <1>3, <4>2 DEF Elems
          <5>2. i + k \in 1 .. Len(q) /\ i + k # i /\ m = q[i + k]
            BY <1>1, <1>3, <5>1
          <5>. QED BY <5>2
        <4>. QED BY <2>3, <4>1, <4>2
      <3>. QED BY <1>1, <3>1 DEF Elems, Distinct
    <2>. QED BY <2>2, <2>3
  <1>8. u \o v \in Seq(Msgs) /\ Distinct(u \o v) /\ Elems(u \o v) = Elems(u) \cup Elems(v)
    BY <1>2, <1>3, <1>4, <1>5, <1>6, ConcatDistinct
  <1>. QED BY <1>7, <1>8 DEF u, v
-----------------------------------------------------------------------------
(* One session at a time *)

\* A step that moves messages of session s only leaves the others tidy.
LEMMA OthersTidy ==
    ASSUME NEW s \in Sessions, PlaceInv,
           \A r \in Sessions \ {s} :
               lockQ'[r] = lockQ[r] /\ Queued(r)' = Queued(r) /\ deferred'[r] = deferred[r],
           \A m \in Msgs : Sess[m] # s =>
               /\ m \in Elems(inbound') <=> m \in Elems(inbound)
               /\ m = control' <=> m = control
               /\ fate'[m] = "live" <=> fate[m] = "live",
           Distinct(inbound'), Tidy(s)'
    PROVE  PlaceInv'
  <1>1. ASSUME NEW r \in Sessions, r # s PROVE Tidy(r)'
    <2>1. Tidy(r) /\ Held(r)' = Held(r)
      BY <1>1 DEF PlaceInv, Held
    <2>2. ASSUME NEW m \in Msgs, Sess[m] = r
          PROVE  Apart(m, r)' /\ (fate'[m] = "live" <=> Located(m)')
      <3>1. /\ m \in Elems(inbound') <=> m \in Elems(inbound)
            /\ m = control' <=> m = control
            /\ fate'[m] = "live" <=> fate[m] = "live"
        BY <1>1, <2>2
      <3>2. Apart(m, r) /\ (fate[m] = "live" <=> Located(m))
        BY <2>1, <2>2 DEF Tidy
      <3>. QED BY <1>1, <2>1, <2>2, <3>1, <3>2 DEF Apart, Located
    <2>. QED BY <1>1, <2>1, <2>2 DEF Tidy
  <1>. QED BY <1>1 DEF PlaceInv

\* The types the proofs below need, and what the queues hold.
LEMMA Typed ==
    ASSUME IInv
    PROVE  /\ inbound \in Seq(Msgs)
           /\ lockQ \in [Sessions -> Seq(Msgs)]
           /\ pendingQueues \in [Sessions -> Seq(Msgs) \cup {None}]
           /\ deferred \in [Sessions -> Seq(Msgs)]
           /\ fate \in [Msgs -> Fates]
           /\ \A s \in Sessions : Queued(s) \in Seq(Msgs)
           /\ \A s \in Sessions : Held(s) \subseteq Msgs
  <1>1. /\ inbound \in Seq(Msgs)
        /\ lockQ \in [Sessions -> Seq(Msgs)]
        /\ pendingQueues \in [Sessions -> Seq(Msgs) \cup {None}]
        /\ deferred \in [Sessions -> Seq(Msgs)]
        /\ fate \in [Msgs -> Fates]
    BY DEF IInv, QueueInv, TaskTypes, OtherTypes
  <1>2. \A s \in Sessions : Queued(s) \in Seq(Msgs)
    BY <1>1 DEF Queued
  <1>3. \A q \in Seq(Msgs) : Elems(q) \subseteq Msgs
    BY DEF Elems
  <1>. QED BY <1>1, <1>2, <1>3 DEF Held

\* A queue that is unregistered, or registered anew, is empty.
LEMMA Emptied ==
    ASSUME NEW s \in Sessions, NEW e \in {None, <<>>}, IInv,
           pendingQueues' = [pendingQueues EXCEPT ![s] = e]
    PROVE  /\ Queued(s)' = <<>> /\ Elems(Queued(s)') = {} /\ Distinct(Queued(s)')
           /\ \A r \in Sessions \ {s} : Queued(r)' = Queued(r)
  <1>1. pendingQueues'[s] = e /\ \A r \in Sessions \ {s} : pendingQueues'[r] = pendingQueues[r]
    BY Typed
  <1>2. Queued(s)' = <<>>
    BY <1>1 DEF Queued
  <1>3. Elems(<<>>) = {} /\ Distinct(<<>>)
    BY DEF Elems, Distinct
  <1>. QED BY <1>1, <1>2, <1>3 DEF Queued

\* The messages L go back to the bus, and the deferred messages W with them.
Woken(s, L, W) ==
    /\ Elems(inbound') = Elems(inbound) \cup L \cup W
    /\ Elems(deferred'[s]) = Elems(deferred[s]) \ W
    /\ Distinct(inbound') /\ Distinct(deferred'[s])
    /\ \A r \in Sessions \ {s} : deferred'[r] = deferred[r]
    /\ \A m \in W : Sess[m] = s /\ Kind[m] = "auto"

\* What the end of a task puts on the bus.
LEMMA WakesDistinct ==
    ASSUME IInv, PlaceInv, NEW s \in Sessions, NEW leftover \in Seq(Msgs),
           Distinct(leftover), \A m \in Elems(leftover) : Sess[m] = s,
           Elems(leftover) \cap (Elems(inbound) \cup Elems(deferred[s])) = {},
           PublishNextDeferred(s, leftover)
    PROVE  \E W \in SUBSET Elems(deferred[s]) : Woken(s, Elems(leftover), W)
  <1>. USE DEF Woken
  <1>. DEFINE W == Elems(Wake(s))
  <1>1. /\ deferred[s] \in Seq(Msgs) /\ inbound \in Seq(Msgs)
        /\ Distinct(inbound) /\ Distinct(deferred[s])
        /\ \A m \in Elems(deferred[s]) : Sess[m] = s
    BY Typed DEF PlaceInv, Tidy, Held
  <1>2. /\ deferred'[s] = IF deferred[s] = <<>> THEN <<>> ELSE Tail(deferred[s])
        /\ \A r \in Sessions \ {s} : deferred'[r] = deferred[r]
    BY Typed DEF PublishNextDeferred
  <1>3. /\ Wake(s) \in Seq(Msgs) /\ Distinct(Wake(s)) /\ W \subseteq Elems(deferred[s])
        /\ Elems(deferred'[s]) = Elems(deferred[s]) \ W /\ Distinct(deferred'[s])
    <2>1. CASE deferred[s] = <<>>
      BY <1>1, <1>2, <2>1 DEF Wake, Elems, Distinct
    <2>2. CASE deferred[s] # <<>>
      <3>1. /\ Head(deferred[s]) \in Elems(deferred[s]) /\ Head(deferred[s]) \in Msgs
            /\ Distinct(Tail(deferred[s]))
            /\ Elems(Tail(deferred[s])) = Elems(deferred[s]) \ {Head(deferred[s])}
        BY <1>1, <2>2, TailDistinct
      <3>2. Wake(s) = <<Head(deferred[s])>> /\ deferred'[s] = Tail(deferred[s])
        BY <1>2, <2>2 DEF Wake
      <3>3. W = {Head(deferred[s])} /\ Distinct(Wake(s)) /\ Wake(s) \in Seq(Msgs)
        BY <3>1, <3>2 DEF Elems, Distinct
      <3>. QED BY <3>1, <3>2, <3>3
    <2>. QED BY <2>1, <2>2
  <1>4. Elems(inbound) \cap Elems(deferred[s]) = {}
    <2>. SUFFICES ASSUME NEW m \in Elems(deferred[s]), m \in Elems(inbound) PROVE FALSE
      OBVIOUS
    <2>1. m \in Msgs /\ Sess[m] = s /\ m \in Held(s)
      BY <1>1, Typed DEF Held
    <2>. QED BY <2>1 DEF PlaceInv, Tidy, Apart
  <1>5. /\ inbound \o leftover \in Seq(Msgs) /\ Distinct(inbound \o leftover)
        /\ Elems(inbound \o leftover) = Elems(inbound) \cup Elems(leftover)
    BY <1>1, ConcatDistinct
  <1>6. /\ Distinct((inbound \o leftover) \o Wake(s))
        /\ Elems((inbound \o leftover) \o Wake(s)) = Elems(inbound) \cup Elems(leftover) \cup W
    <2>1. Elems(inbound \o leftover) \cap Elems(Wake(s)) = {}
      BY <1>3, <1>4, <1>5
    <2>2. Wake(s) \in Seq(Msgs) /\ Distinct(Wake(s))
      BY <1>3
    <2>. QED BY ONLY <1>5, <2>1, <2>2, ConcatDistinct
  <1>7. inbound' = (inbound \o leftover) \o Wake(s)
    BY DEF PublishNextDeferred
  <1>8. \A m \in Elems(deferred[s]) : Kind[m] = "auto"
    BY DEF IInv, QueueInv, DeferredKinds, Elems
  <1>9. \A m \in W : Sess[m] = s /\ Kind[m] = "auto"
    BY <1>1, <1>3, <1>8
  <1>. HIDE DEF W
  <1>. QED BY <1>2, <1>3, <1>6, <1>7, <1>9
-----------------------------------------------------------------------------
(* The steps of the senders and of run() *)

\* A live message of the bus is there only.
LEMMA Consumed ==
    ASSUME IInv, PlaceInv, NEW m \in Msgs, Consume(m)
    PROVE  /\ Elems(inbound') = Elems(inbound) \ {m} /\ Distinct(inbound')
           /\ m \in Elems(inbound) /\ m \notin Held(Sess[m]) /\ fate[m] = "live"
           /\ Sess[m] \in Sessions /\ control = None /\ m # None
  <1>1. /\ inbound \in Seq(Msgs) /\ inbound # <<>> /\ m = Head(inbound)
        /\ inbound' = Tail(inbound) /\ control = None
    BY Typed DEF Consume
  <1>2. Sess[m] \in Sessions /\ None \notin Msgs
    BY DispatchAssumption DEF DispatchAssumption
  <1>3. /\ Elems(inbound') = Elems(inbound) \ {m} /\ Distinct(inbound')
        /\ m \in Elems(inbound)
    BY <1>1, TailDistinct DEF PlaceInv
  <1>4. Tidy(Sess[m])
    BY <1>2 DEF PlaceInv
  <1>5. m \notin Held(Sess[m]) /\ fate[m] = "live"
    BY <1>3, <1>4 DEF Tidy, Apart, Located
  <1>. QED BY <1>1, <1>2, <1>3, <1>5

\* A message that was not sent is nowhere.
LEMMA PublishKeepsPlaces ==
    ASSUME IInv, PlaceInv, NEW m \in Msgs, Publish(m)
    PROVE  PlaceInv'
  <1>. DEFINE s == Sess[m]
  <1>1. s \in Sessions
    BY DispatchAssumption DEF DispatchAssumption
  <1>2. /\ inbound' = Append(inbound, m) /\ fate' = [fate EXCEPT ![m] = "live"]
        /\ fate[m] # "live"
        /\ UNCHANGED <<control, lockQ, pendingQueues, deferred>>
    BY DEF Publish, Settle, tasks
  <1>3. Tidy(s) /\ Distinct(inbound)
    BY <1>1 DEF PlaceInv
  <1>4. ~Located(m)
    BY <1>2, <1>3 DEF Tidy
  <1>5. Elems(inbound') = Elems(inbound) \cup {m} /\ Distinct(inbound')
    BY <1>2, <1>3, <1>4, Typed, AppendDistinct DEF Located
  <1>6. /\ fate'[m] = "live"
        /\ \A n \in Msgs \ {m} : fate'[n] = fate[n]
    BY <1>2, Typed
  <1>7. \A r \in Sessions : Queued(r)' = Queued(r) /\ Held(r)' = Held(r)
    BY <1>2 DEF Queued, Held
  <1>8. Tidy(s)'
    <2>1. ASSUME NEW n \in Msgs, Sess[n] = s
          PROVE  Apart(n, s)' /\ (fate'[n] = "live" <=> Located(n)')
      <3>1. Apart(n, s) /\ (fate[n] = "live" <=> Located(n))
        BY <1>3, <2>1 DEF Tidy
      <3>2. Apart(n, s)'
        BY <1>1, <1>2, <1>4, <1>5, <1>7, <3>1 DEF Apart, Located
      <3>3. fate'[n] = "live" <=> Located(n)'
        BY <1>1, <1>2, <1>5, <1>6, <1>7, <2>1, <3>1 DEF Located
      <3>. QED BY <3>2, <3>3
    <2>2. \A n \in Held(s)' : Sess[n] = s
      BY <1>1, <1>3, <1>7 DEF Tidy
    <2>. QED BY <1>1, <1>2, <1>3, <1>7, <2>1, <2>2 DEF Tidy
  <1>. HIDE DEF s
  <1>. QED BY <1>1, <1>2, <1>5, <1>6, <1>7, <1>8, OthersTidy DEF s

\* run() puts a message it consumed in one place, or has done with it.
LEMMA RouteKeepsPlaces ==
    ASSUME IInv, PlaceInv, NEW m \in Msgs, Consume(m), NEW s, s = Sess[m],
           NEW place \in {"control", "task", "queue", "deferred", "nowhere"},
           control' = IF place = "control" THEN m ELSE None,
           Elems(lockQ'[s]) = Elems(lockQ[s]) \cup (IF place = "task" THEN {m} ELSE {}),
           Elems(Queued(s)') = Elems(Queued(s)) \cup (IF place = "queue" THEN {m} ELSE {}),
           Elems(deferred'[s]) = Elems(deferred[s])
                                 \cup (IF place = "deferred" THEN {m} ELSE {}),
           Distinct(lockQ'[s]), Distinct(Queued(s)'), Distinct(deferred'[s]),
           \A r \in Sessions \ {s} :
               lockQ'[r] = lockQ[r] /\ Queued(r)' = Queued(r) /\ deferred'[r] = deferred[r],
           fate'[m] = "live" <=> place # "nowhere",
           \A n \in Msgs \ {m} : fate'[n] = fate[n]
    PROVE  PlaceInv'
  <1>1. /\ Elems(inbound') = Elems(inbound) \ {m} /\ Distinct(inbound')
        /\ m \in Elems(inbound) /\ m \notin Held(s) /\ fate[m] = "live"
        /\ s \in Sessions /\ control = None /\ m # None /\ None \notin Msgs
    BY Consumed, DispatchAssumption DEF DispatchAssumption
  <1>2. Tidy(s)
    BY <1>1 DEF PlaceInv
  <1>3. \A n \in Held(s)' : Sess[n] = s
    BY <1>1, <1>2 DEF Tidy, Held
  <1>4. ASSUME NEW n \in Msgs, Sess[n] = s
        PROVE  Apart(n, s)' /\ (fate'[n] = "live" <=> Located(n)')
    <2>1. Apart(n, s) /\ (fate[n] = "live" <=> Located(n))
      BY <1>2, <1>4 DEF Tidy
    <2>2. CASE n = m
      <3>1. /\ n \notin Elems(inbound') /\ n \notin Elems(lockQ[s])
            /\ n \notin Elems(Queued(s)) /\ n \notin Elems(deferred[s])
        BY <1>1, <2>2 DEF Held
      <3>. QED BY <1>1, <1>4, <2>2, <3>1 DEF Apart, Located, Held
    <2>3. CASE n # m
      <3>1. /\ n \in Elems(inbound') <=> n \in Elems(inbound)
            /\ n # control /\ n # control'
            /\ n \in Elems(lockQ'[s]) <=> n \in Elems(lockQ[s])
            /\ n \in Elems(Queued(s)') <=> n \in Elems(Queued(s))
            /\ n \in Elems(deferred'[s]) <=> n \in Elems(deferred[s])
            /\ fate'[n] = fate[n]
        BY <1>1, <1>4, <2>3
      <3>. QED BY <1>4, <2>1, <3>1 DEF Apart, Located, Held
    <2>. QED BY <2>2, <2>3
  <1>5. Tidy(s)'
    BY <1>3, <1>4 DEF Tidy
  <1>6. \A n \in Msgs : Sess[n] # s =>
           /\ n \in Elems(inbound') <=> n \in Elems(inbound)
           /\ n = control' <=> n = control
           /\ fate'[n] = "live" <=> fate[n] = "live"
    BY <1>1
  <1>. QED BY <1>1, <1>5, <1>6, OthersTidy

\* The routes of run(), one by one.
LEMMA ReceiveKeepsPlaces ==
    ASSUME IInv, PlaceInv, NEW m \in Msgs, Receive(m)
    PROVE  PlaceInv'
  <1>. DEFINE s == Sess[m]
  <1>1. s \in Sessions
    BY DispatchAssumption DEF DispatchAssumption
  <1>2. /\ lockQ[s] \in Seq(Msgs) /\ Queued(s) \in Seq(Msgs) /\ deferred[s] \in Seq(Msgs)
        /\ Distinct(lockQ[s]) /\ Distinct(Queued(s)) /\ Distinct(deferred[s])
    BY <1>1, Typed DEF PlaceInv, Tidy
  <1>3. ASSUME Consume(m)
        PROVE  /\ control = None /\ fate[m] = "live"
               /\ m \notin Elems(lockQ[s]) /\ m \notin Elems(Queued(s))
               /\ m \notin Elems(deferred[s])
    BY <1>3, Consumed DEF Held
  <1>4. CASE ReceiveControl(m)
    <2>1. /\ Consume(m) /\ control' = m
          /\ UNCHANGED <<lockQ, pendingQueues, deferred, fate>>
      BY <1>4 DEF ReceiveControl
    <2>. QED BY <1>2, <1>3, <2>1, RouteKeepsPlaces DEF Queued
  <1>5. CASE ReceiveDropped(m) \/ ReceiveCommand(m)
    <2>1. /\ Consume(m) /\ UNCHANGED <<control, lockQ, pendingQueues, deferred>>
          /\ \E f \in {"dropped", "done"} : fate' = [fate EXCEPT ![m] = f]
      BY <1>5 DEF ReceiveDropped, ReceiveCommand, Settle, tasks
    <2>2. fate'[m] # "live" /\ \A n \in Msgs \ {m} : fate'[n] = fate[n]
      BY <2>1, Typed
    <2>. QED BY <1>2, <1>3, <2>1, <2>2, RouteKeepsPlaces DEF Queued
  <1>6. CASE ReceiveDeferred(m)
    <2>1. /\ Consume(m) /\ UNCHANGED <<control, lockQ, pendingQueues, fate>>
          /\ deferred' = [deferred EXCEPT ![s] = Append(@, m)]
      BY <1>6 DEF ReceiveDeferred, tasks
    <2>2. /\ deferred'[s] = Append(deferred[s], m)
          /\ \A r \in Sessions \ {s} : deferred'[r] = deferred[r]
      BY <1>1, <2>1, Typed
    <2>3. Elems(deferred'[s]) = Elems(deferred[s]) \cup {m} /\ Distinct(deferred'[s])
      BY <1>2, <1>3, <2>1, <2>2, AppendDistinct
    <2>. QED BY <1>2, <1>3, <2>1, <2>2, <2>3, RouteKeepsPlaces DEF Queued
  <1>7. CASE ReceiveFollowUp(m)
    <2>1. /\ Consume(m) /\ UNCHANGED <<control, lockQ, deferred, fate>>
          /\ pendingQueues' = [pendingQueues EXCEPT ![s] = Append(@, m)]
          /\ pendingQueues[s] # None
      BY <1>7 DEF ReceiveFollowUp, Injects, Registered, tasks
    <2>2. /\ Queued(s)' = Append(Queued(s), m)
          /\ \A r \in Sessions \ {s} : Queued(r)' = Queued(r)
      <3>1. /\ pendingQueues'[s] = Append(pendingQueues[s], m)
            /\ \A r \in Sessions \ {s} : pendingQueues'[r] = pendingQueues[r]
        BY <1>1, <2>1, Typed
      <3>2. pendingQueues[s] \in Seq(Msgs) /\ Append(pendingQueues[s], m) \in Seq(Msgs)
        BY <1>1, <2>1, Typed
      <3>3. None \notin Seq(Msgs)
        BY DispatchAssumption DEF DispatchAssumption
      <3>. QED BY <2>1, <3>1, <3>2, <3>3 DEF Queued
    <2>3. Elems(Queued(s)') = Elems(Queued(s)) \cup {m} /\ Distinct(Queued(s)')
      BY <1>2, <1>3, <2>1, <2>2, AppendDistinct
    <2>. QED BY <1>2, <1>3, <2>1, <2>2, <2>3, RouteKeepsPlaces
  <1>8. CASE ReceiveTask(m)
    <2>1. /\ Consume(m) /\ UNCHANGED <<control, pendingQueues, deferred, fate>>
          /\ lockQ' = [lockQ EXCEPT ![s] = Append(@, m)]
      BY <1>8 DEF ReceiveTask
    <2>2. /\ lockQ'[s] = Append(lockQ[s], m)
          /\ \A r \in Sessions \ {s} : lockQ'[r] = lockQ[r]
      BY <1>1, <2>1, Typed
    <2>3. Elems(lockQ'[s]) = Elems(lockQ[s]) \cup {m} /\ Distinct(lockQ'[s])
      BY <1>2, <1>3, <2>1, <2>2, AppendDistinct
    <2>. QED BY <1>2, <1>3, <2>1, <2>2, <2>3, RouteKeepsPlaces DEF Queued
  <1>. QED BY <1>4, <1>5, <1>6, <1>7, <1>8 DEF Receive

\* /stop settles what it drains from the queue, and itself.
LEMMA FinishControlKeepsPlaces ==
    ASSUME IInv, PlaceInv, FinishControl
    PROVE  PlaceInv'
  <1>1. control \in Msgs /\ Sess[control] \in Sessions /\ None \notin Msgs
    BY DispatchAssumption DEF FinishControl, IInv, OtherTypes, DispatchAssumption
  <1>2. PICK c \in Msgs, s \in Sessions : c = control /\ s = Sess[c]
    BY <1>1
  <1>. DEFINE drained == IF Kind[c] = "stop" THEN Elems(Queued(s)) ELSE {}
  <1>3. /\ control' = None /\ UNCHANGED <<inbound, lockQ, deferred>>
        /\ fate' = [m \in Msgs |-> CASE m = c -> "done"
                                     [] m \in drained -> "stopped"
                                     [] OTHER -> fate[m]]
        /\ pendingQueues' = IF Kind[c] = "stop"
                            THEN [pendingQueues EXCEPT ![s] = None]
                            ELSE pendingQueues
    BY <1>2 DEF FinishControl, bus, tasks
  <1>4. Tidy(s) /\ Distinct(inbound)
    BY DEF PlaceInv
  <1>6. PICK d \in SUBSET Elems(Queued(s)) : d = drained
    OBVIOUS
  <1>7. /\ Distinct(Queued(s)') /\ Elems(Queued(s)') = Elems(Queued(s)) \ d
        /\ \A r \in Sessions \ {s} : Queued(r)' = Queued(r)
    <2>1. CASE Kind[c] = "stop"
      BY <1>3, <1>6, <2>1, Emptied
    <2>2. CASE Kind[c] # "stop"
      BY <1>3, <1>4, <1>6, <2>2 DEF Queued, Tidy
    <2>. QED BY <2>1, <2>2
  <1>8. \A m \in Msgs :
           fate'[m] = "live" <=> fate[m] = "live" /\ m # c /\ m \notin d
    BY <1>3, <1>6
  <1>. HIDE DEF drained
  <1>9. Tidy(s)'
    <2>1. ASSUME NEW m \in Msgs, Sess[m] = s
          PROVE  Apart(m, s)' /\ (fate'[m] = "live" <=> Located(m)')
      <3>1. Apart(m, s) /\ (fate[m] = "live" <=> Located(m))
        BY <1>4, <2>1 DEF Tidy
      <3>2. m # control'
        BY <1>1, <1>3
      <3>3. Apart(m, s)'
        BY <1>3, <1>7, <3>1, <3>2 DEF Apart, Held
      <3>4. fate'[m] = "live" <=> Located(m)'
        BY <1>2, <1>3, <1>7, <1>8, <2>1, <3>1, <3>2 DEF Apart, Located, Held
      <3>. QED BY <3>3, <3>4
    <2>2. \A m \in Held(s)' : Sess[m] = s
      BY <1>3, <1>4, <1>7 DEF Tidy, Held
    <2>. QED BY <1>3, <1>4, <1>7, <2>1, <2>2 DEF Tidy
  <1>10. \A m \in Msgs : Sess[m] # s =>
           /\ m \in Elems(inbound') <=> m \in Elems(inbound)
           /\ m = control' <=> m = control
           /\ fate'[m] = "live" <=> fate[m] = "live"
    BY <1>1, <1>2, <1>3, <1>4, <1>8 DEF Tidy, Held
  <1>. QED BY <1>3, <1>4, <1>7, <1>9, <1>10, OthersTidy
-----------------------------------------------------------------------------
(* The steps of a task *)

\* The queue a turn registers is empty, as was the one that was not there.
LEMMA StartTurnKeepsPlaces ==
    ASSUME IInv, PlaceInv, NEW s \in Sessions, StartTurn(s)
    PROVE  PlaceInv'
  <1>1. /\ turn[s] = "idle" /\ pendingQueues' = [pendingQueues EXCEPT ![s] = <<>>]
        /\ UNCHANGED <<inbound, control, lockQ, deferred, fate>>
    BY DEF StartTurn, Running, bus
  <1>2. Queued(s) = <<>>
    BY <1>1 DEF IInv, QueueInv, Owned, Registered, Queued
  <1>3. \A r \in Sessions : Queued(r)' = Queued(r)
    BY <1>1, <1>2, Emptied
  <1>4. \A r \in Sessions : Held(r)' = Held(r)
    BY <1>1, <1>3 DEF Held
  <1>5. ASSUME NEW r \in Sessions PROVE Tidy(r)'
    <2>1. Tidy(r)
      BY DEF PlaceInv
    <2>2. ASSUME NEW m \in Msgs, Sess[m] = r
          PROVE  Apart(m, r)' /\ (fate'[m] = "live" <=> Located(m)')
      BY <1>1, <1>3, <1>4, <2>1, <2>2 DEF Tidy, Apart, Located
    <2>. QED BY <1>1, <1>3, <1>4, <2>1, <2>2 DEF Tidy
  <1>. QED BY <1>1, <1>5 DEF PlaceInv

\* The follow-up that is injected leaves the queue.
LEMMA InjectKeepsPlaces ==
    ASSUME IInv, PlaceInv, NEW s \in Sessions, Inject(s)
    PROVE  PlaceInv'
  <1>. DEFINE h == Head(Queued(s))
  <1>1. /\ Queued(s) # <<>> /\ Queued(s) \in Seq(Msgs)
        /\ pendingQueues' = [pendingQueues EXCEPT ![s] = Tail(@)]
        /\ fate' = [fate EXCEPT ![h] = "injected"]
        /\ UNCHANGED <<inbound, control, lockQ, deferred>>
    BY Typed DEF Inject, Settle, bus, tasks
  <1>2. /\ Queued(s)' = Tail(Queued(s))
        /\ \A r \in Sessions \ {s} : Queued(r)' = Queued(r)
    <2>1. pendingQueues[s] # None /\ Queued(s) = pendingQueues[s]
      BY <1>1 DEF Queued
    <2>2. /\ pendingQueues'[s] = Tail(pendingQueues[s])
          /\ \A r \in Sessions \ {s} : pendingQueues'[r] = pendingQueues[r]
      BY <1>1, Typed
    <2>3. Tail(pendingQueues[s]) \in Seq(Msgs)
      BY <1>1, <2>1, TailDistinct
    <2>4. None \notin Seq(Msgs)
      BY DispatchAssumption DEF DispatchAssumption
    <2>. QED BY <2>1, <2>2, <2>3, <2>4 DEF Queued
  <1>3. Tidy(s) /\ Distinct(inbound)
    BY DEF PlaceInv
  <1>4. /\ Elems(Queued(s)') = Elems(Queued(s)) \ {h} /\ Distinct(Queued(s)')
        /\ h \in Elems(Queued(s)) /\ h \in Msgs
    BY <1>1, <1>2, <1>3, TailDistinct DEF Tidy
  <1>5. Sess[h] = s
    BY <1>3, <1>4 DEF Tidy, Held
  <1>. HIDE DEF h
  <1>6. fate'[h] # "live" /\ \A m \in Msgs \ {h} : fate'[m] = fate[m]
    BY <1>1, <1>4, Typed
  <1>7. Tidy(s)'
    <2>1. ASSUME NEW m \in Msgs, Sess[m] = s
          PROVE  Apart(m, s)' /\ (fate'[m] = "live" <=> Located(m)')
      <3>1. Apart(m, s) /\ (fate[m] = "live" <=> Located(m))
        BY <1>3, <2>1 DEF Tidy
      <3>2. Apart(m, s)'
        BY <1>1, <1>4, <3>1 DEF Apart, Held
      <3>3. fate'[m] = "live" <=> Located(m)'
        BY <1>1, <1>4, <1>6, <2>1, <3>1 DEF Apart, Located, Held
      <3>. QED BY <3>2, <3>3
    <2>2. \A m \in Held(s)' : Sess[m] = s
      BY <1>1, <1>3, <1>4 DEF Tidy, Held
    <2>. QED BY <1>1, <1>3, <1>4, <2>1, <2>2 DEF Tidy
  <1>8. \A m \in Msgs : Sess[m] # s =>
           /\ m \in Elems(inbound') <=> m \in Elems(inbound)
           /\ m = control' <=> m = control
           /\ fate'[m] = "live" <=> fate[m] = "live"
    BY <1>1, <1>5, <1>6
  <1>. QED BY <1>1, <1>2, <1>3, <1>7, <1>8, OthersTidy
-----------------------------------------------------------------------------
(* The end of a task *)

\* The task that ends settles unless it is among the leftovers; they and one
\* deferred turn go to the bus.
LEMMA TaskEndKeepsPlaces ==
    ASSUME IInv, PlaceInv, NEW s \in Sessions, NEW leftover \in Seq(Msgs),
           NEW m \in Elems(lockQ[s]), PublishNextDeferred(s, leftover),
           Distinct(leftover),
           \/ Elems(leftover) = Elems(Queued(s)) \ Elems(Queued(s)')
           \/ Elems(leftover) = (Elems(Queued(s)) \ Elems(Queued(s)')) \cup {m},
           Elems(Queued(s)') \subseteq Elems(Queued(s)), Distinct(Queued(s)'),
           Elems(lockQ'[s]) = Elems(lockQ[s]) \ {m}, Distinct(lockQ'[s]),
           \A r \in Sessions \ {s} : lockQ'[r] = lockQ[r] /\ Queued(r)' = Queued(r),
           control' = control,
           fate'[m] = "live" <=> m \in Elems(leftover),
           \A n \in Msgs \ {m} : fate'[n] = fate[n]
    PROVE  PlaceInv'
  <1>1. Tidy(s) /\ m \in Msgs /\ Sess[m] = s
    BY Typed DEF PlaceInv, Tidy, Held
  <1>2. ASSUME NEW n \in Elems(leftover)
        PROVE  /\ n \in Msgs /\ Sess[n] = s /\ n \in Held(s)
               /\ n \notin Elems(inbound) \cup Elems(deferred[s])
    <2>1. n \in Elems(Queued(s)) \/ n \in Elems(lockQ[s])
      BY <1>2
    <2>2. n \in Msgs /\ Sess[n] = s /\ n \in Held(s)
      BY <1>1, <2>1, Typed DEF Tidy, Held
    <2>. QED BY <1>1, <2>1, <2>2 DEF Tidy, Apart
  <1>3. PICK W \in SUBSET Elems(deferred[s]) : Woken(s, Elems(leftover), W)
    <2>1. /\ \A n \in Elems(leftover) : Sess[n] = s
          /\ Elems(leftover) \cap (Elems(inbound) \cup Elems(deferred[s])) = {}
      BY <1>2
    <2>. QED BY <2>1, WakesDistinct
  <1>. USE DEF Woken
  <1>4. Tidy(s)'
    <2>1. ASSUME NEW n \in Msgs, Sess[n] = s
          PROVE  Apart(n, s)' /\ (fate'[n] = "live" <=> Located(n)')
      <3>. DEFINE I == n \in Elems(inbound)
                  C == n = control
                  L == n \in Elems(lockQ[s])
                  P == n \in Elems(Queued(s))
                  D == n \in Elems(deferred[s])
                  PP == n \in Elems(Queued(s)')
      <3>1. /\ I => ~C /\ ~L /\ ~P /\ ~D
            /\ C => ~L /\ ~P /\ ~D
            /\ L => ~P /\ ~D
            /\ P => ~D
            /\ fate[n] = "live" <=> I \/ C \/ L \/ P \/ D
        BY <1>1, <2>1 DEF Tidy, Apart, Located, Held
      <3>2. /\ PP => P
            /\ n \in Elems(inbound') <=> I \/ n \in Elems(leftover) \/ n \in W
            /\ n \in Elems(deferred'[s]) <=> D /\ n \notin W
            /\ n \in Elems(lockQ'[s]) <=> L /\ n # m
            /\ n \in W => D
            /\ n = control' <=> C
            /\ n = m => L
        BY <1>3
      <3>3. n \in Elems(leftover) <=> \/ P /\ ~PP
                                      \/ n = m /\ m \in Elems(leftover)
        BY <3>1, <3>2
      <3>4. fate'[n] = "live" <=> IF n = m THEN m \in Elems(leftover) ELSE fate[n] = "live"
        BY <2>1
      <3>5. Apart(n, s)'
        BY <3>1, <3>2, <3>3 DEF Apart, Held
      <3>6. Located(n)' <=> \/ n \in Elems(inbound') \/ n = control'
                            \/ n \in Elems(lockQ'[s]) \/ PP \/ n \in Elems(deferred'[s])
        BY <2>1 DEF Located, Held
      <3>7. fate'[n] = "live" <=> Located(n)'
        BY <3>1, <3>2, <3>3, <3>4, <3>6
      <3>. QED BY <3>5, <3>7
    <2>2. \A n \in Held(s)' : Sess[n] = s
      BY <1>1, <1>3 DEF Tidy, Held
    <2>. QED BY <1>1, <1>3, <2>1, <2>2 DEF Tidy
  <1>5. \A n \in Msgs : Sess[n] # s =>
           /\ n \in Elems(inbound') <=> n \in Elems(inbound)
           /\ n = control' <=> n = control
           /\ fate'[n] = "live" <=> fate[n] = "live"
    BY <1>1, <1>2, <1>3
  <1>. QED BY <1>3, <1>4, <1>5, OthersTidy

\* The end of a turn that was past lock and gate.
LEMMA CloseKeepsPlaces ==
    ASSUME IInv, PlaceInv, NEW s \in Sessions, NEW leftover \in Seq(Msgs),
           lockQ[s] # <<>>, Close(s, leftover),
           leftover = Queued(s) \/ leftover = Append(Queued(s), Owner(s)),
           control' = control,
           fate'[Owner(s)] = "live" <=> leftover # Queued(s),
           \A n \in Msgs \ {Owner(s)} : fate'[n] = fate[n]
    PROVE  PlaceInv'
  <1>1. /\ lockQ[s] \in Seq(Msgs) /\ Queued(s) \in Seq(Msgs)
        /\ Distinct(lockQ[s]) /\ Distinct(Queued(s))
    BY Typed DEF PlaceInv, Tidy
  <1>2. PICK m \in Msgs : m = Owner(s)
    BY <1>1, TailDistinct DEF Owner
  <1>3. /\ m \in Elems(lockQ[s]) /\ Distinct(Tail(lockQ[s]))
        /\ Elems(Tail(lockQ[s])) = Elems(lockQ[s]) \ {m}
    BY <1>1, <1>2, TailDistinct DEF Owner
  <1>4. m \notin Elems(Queued(s))
    <2>1. Tidy(s) /\ Sess[m] = s
      BY <1>3 DEF PlaceInv, Tidy, Held
    <2>. QED BY <1>3, <2>1 DEF Tidy, Apart
  <1>5. /\ PublishNextDeferred(s, leftover)
        /\ lockQ'[s] = Tail(lockQ[s]) /\ \A r \in Sessions \ {s} : lockQ'[r] = lockQ[r]
        /\ pendingQueues' = [pendingQueues EXCEPT ![s] = None]
    BY Typed DEF Close, Unregister
  <1>6. /\ Elems(Queued(s)') = {} /\ Distinct(Queued(s)')
        /\ \A r \in Sessions \ {s} : Queued(r)' = Queued(r)
    BY <1>5, Emptied
  <1>7. CASE leftover = Queued(s)
    BY <1>1, <1>2, <1>3, <1>4, <1>5, <1>6, <1>7, TaskEndKeepsPlaces
  <1>8. CASE leftover = Append(Queued(s), Owner(s))
    <2>1. Elems(leftover) = Elems(Queued(s)) \cup {m} /\ Distinct(leftover)
      BY <1>1, <1>2, <1>4, <1>8, AppendDistinct
    <2>2. leftover # Queued(s)
      BY <1>4, <2>1
    <2>. QED BY <1>2, <1>3, <1>5, <1>6, <2>1, <2>2, TaskEndKeepsPlaces
  <1>. QED BY <1>7, <1>8

\* A task that was cancelled before it started publishes no leftovers.
LEMMA AbortWaitingKeepsPlaces ==
    ASSUME IInv, PlaceInv, NEW s \in Sessions, NEW i \in DOMAIN lockQ[s],
           AbortWaiting(s, i)
    PROVE  PlaceInv'
  <1>1. /\ lockQ[s] \in Seq(Msgs) /\ Distinct(lockQ[s])
        /\ Distinct(Queued(s))
    BY Typed DEF PlaceInv, Tidy
  <1>2. PICK m \in Elems(lockQ[s]) : m = lockQ[s][i]
    BY DEF Elems
  <1>3. m \in Msgs
    BY <1>1 DEF Elems
  <1>. DEFINE w == SubSeq(lockQ[s], 1, i - 1) \o SubSeq(lockQ[s], i + 1, Len(lockQ[s]))
  <1>4. Distinct(w) /\ Elems(w) = Elems(lockQ[s]) \ {m}
    BY <1>1, <1>2, WithoutDistinct
  <1>5. lockQ'[s] = w /\ \A r \in Sessions \ {s} : lockQ'[r] = lockQ[r]
    BY Typed DEF AbortWaiting
  <1>6. /\ PublishNextDeferred(s, <<>>) /\ UNCHANGED <<control, pendingQueues>>
        /\ fate' = [fate EXCEPT ![m] = "stopped"]
    BY <1>2 DEF AbortWaiting, CloseUnstarted, Settle
  <1>7. fate'[m] # "live" /\ \A n \in Msgs \ {m} : fate'[n] = fate[n]
    BY <1>3, <1>6, Typed
  <1>8. /\ Elems(<<>>) = {} /\ Distinct(<<>>) /\ <<>> \in Seq(Msgs)
    BY DEF Elems, Distinct
  <1>9. \A r \in Sessions : Queued(r)' = Queued(r)
    BY <1>6 DEF Queued
  <1>10. /\ Elems(<<>>) = Elems(Queued(s)) \ Elems(Queued(s)')
         /\ Elems(Queued(s)') \subseteq Elems(Queued(s)) /\ Distinct(Queued(s)')
         /\ Elems(lockQ'[s]) = Elems(lockQ[s]) \ {m} /\ Distinct(lockQ'[s])
         /\ fate'[m] = "live" <=> m \in Elems(<<>>)
    BY <1>1, <1>4, <1>5, <1>7, <1>8, <1>9
  <1>. QED BY <1>5, <1>6, <1>7, <1>8, <1>9, <1>10, TaskEndKeepsPlaces

\* The owner of a lock has not settled.
LEMMA OwnerLive ==
    ASSUME IInv, PlaceInv, NEW s \in Sessions, lockQ[s] # <<>>
    PROVE  fate[Owner(s)] = "live"
  <1>1. Owner(s) \in Msgs /\ Owner(s) \in Held(s)
    BY Typed, TailDistinct DEF Owner, Held
  <1>2. Tidy(s)
    BY DEF PlaceInv
  <1>. QED BY <1>1, <1>2 DEF Tidy, Located

\* A step that moves no message.
LEMMA StutterKeepsPlaces ==
    ASSUME PlaceInv,
           UNCHANGED <<inbound, control, lockQ, pendingQueues, deferred, fate>>
    PROVE  PlaceInv'
  <1>1. \A s \in Sessions : Queued(s)' = Queued(s) /\ Held(s)' = Held(s)
    BY DEF Queued, Held
  <1>2. ASSUME NEW s \in Sessions PROVE Tidy(s)'
    <2>1. Tidy(s)
      BY DEF PlaceInv
    <2>2. ASSUME NEW m \in Msgs, Sess[m] = s
          PROVE  Apart(m, s)' /\ (fate'[m] = "live" <=> Located(m)')
      BY <1>1, <2>1, <2>2 DEF Tidy, Apart, Located
    <2>. QED BY <1>1, <2>1, <2>2 DEF Tidy
  <1>. QED BY <1>2 DEF PlaceInv

\* The steps of a turn.
LEMMA StepKeepsPlaces ==
    ASSUME IInv, PlaceInv, NEW s \in Sessions, Step(s)
    PROVE  PlaceInv'
  <1>1. /\ lockQ[s] \in Seq(Msgs) /\ Queued(s) \in Seq(Msgs)
        /\ lockQ[s] # <<>> => Owner(s) \in Msgs
        /\ fate \in [Msgs -> Fates]
    BY Typed, TailDistinct DEF Owner
  <1>2. CASE Inject(s)
    BY <1>2, InjectKeepsPlaces
  <1>3. CASE EndTurn(s)
    <2>1. /\ lockQ[s] # <<>> /\ Close(s, Queued(s)) /\ control' = control
          /\ \E f \in {"done", "failed"} : fate' = [fate EXCEPT ![Owner(s)] = f]
      BY <1>3 DEF EndTurn, Running, Settle
    <2>2. /\ fate'[Owner(s)] # "live"
          /\ \A n \in Msgs \ {Owner(s)} : fate'[n] = fate[n]
      BY <1>1, <2>1
    <2>. QED BY <1>1, <2>1, <2>2, CloseKeepsPlaces
  <1>4. CASE ContinueTurn(s)
    <2>1. /\ lockQ[s] # <<>> /\ Close(s, Append(Queued(s), Owner(s)))
          /\ control' = control /\ fate' = fate
      BY <1>4 DEF ContinueTurn, CanContinue, Running
    <2>2. fate[Owner(s)] = "live"
      BY <1>1, <2>1, OwnerLive
    <2>3. Append(Queued(s), Owner(s)) \in Seq(Msgs)
          /\ Append(Queued(s), Owner(s)) # Queued(s)
      BY <1>1, <2>1
    <2>. QED BY <1>1, <2>1, <2>2, <2>3, CloseKeepsPlaces
  <1>5. CASE BlockOnFullQueue(s) \/ ClearSession(s)
    <2>1. UNCHANGED <<inbound, control, lockQ, pendingQueues, deferred, fate>>
      BY <1>5 DEF BlockOnFullQueue, ClearSession, bus
    <2>. QED BY <2>1, StutterKeepsPlaces
  <1>6. CASE SessionCleared(s) \/ AbortTurn(s)
    <2>1. /\ lockQ[s] # <<>> /\ Close(s, Queued(s)) /\ control' = control
          /\ \E f \in {"done", "stopped"} : fate' = [fate EXCEPT ![Owner(s)] = f]
      BY <1>6 DEF SessionCleared, AbortTurn, Running, Settle
    <2>2. /\ fate'[Owner(s)] # "live"
          /\ \A n \in Msgs \ {Owner(s)} : fate'[n] = fate[n]
      BY <1>1, <2>1
    <2>. QED BY <1>1, <2>1, <2>2, CloseKeepsPlaces
  <1>. QED BY <1>2, <1>3, <1>4, <1>5, <1>6 DEF Step
-----------------------------------------------------------------------------
(* The specification *)

\* From the first state on, through every step.
THEOREM PlacesAlways == Spec => []PlaceInv
  <1>1. Init => PlaceInv
    <2>. SUFFICES ASSUME Init PROVE PlaceInv
      OBVIOUS
    <2>1. /\ inbound = <<>> /\ control = None
          /\ \A s \in Sessions : lockQ[s] = <<>> /\ Queued(s) = <<>> /\ deferred[s] = <<>>
          /\ \A m \in Msgs : fate[m] = "unsent"
          /\ None \notin Msgs
      BY DispatchAssumption DEF Init, Queued, DispatchAssumption
    <2>2. Elems(<<>>) = {} /\ Distinct(<<>>)
      BY DEF Elems, Distinct
    <2>3. \A s \in Sessions : Held(s) = {}
      BY <2>1, <2>2 DEF Held
    <2>4. ASSUME NEW s \in Sessions PROVE Tidy(s)
      BY <2>1, <2>2, <2>3 DEF Tidy, Apart, Located
    <2>. QED BY <2>1, <2>2, <2>4 DEF PlaceInv
  <1>2. IInv /\ PlaceInv /\ [Next]_vars => PlaceInv'
    <2>. SUFFICES ASSUME IInv, PlaceInv, [Next]_vars PROVE PlaceInv'
      OBVIOUS
    <2>1. ASSUME NEW m \in Msgs, Publish(m) PROVE PlaceInv'
      BY <2>1, PublishKeepsPlaces
    <2>2. ASSUME NEW m \in Msgs, Receive(m) PROVE PlaceInv'
      BY <2>2, ReceiveKeepsPlaces
    <2>3. ASSUME NEW m \in Automations, CallerCancelled(m) PROVE PlaceInv'
      BY <2>3, StutterKeepsPlaces DEF CallerCancelled, bus, tasks
    <2>4. CASE FinishControl
      BY <2>4, FinishControlKeepsPlaces
    <2>5. ASSUME NEW s \in Sessions, StartTurn(s) PROVE PlaceInv'
      BY <2>5, StartTurnKeepsPlaces
    <2>6. ASSUME NEW s \in Sessions, Step(s) PROVE PlaceInv'
      BY <2>6, StepKeepsPlaces
    <2>7. ASSUME NEW s \in Sessions, NEW i \in 1 .. Cardinality(Msgs),
                 AbortWaiting(s, i)
          PROVE  PlaceInv'
      BY <2>7, AbortWaitingKeepsPlaces DEF AbortWaiting
    <2>8. CASE Quiescent \/ UNCHANGED vars
      BY <2>8, StutterKeepsPlaces DEF Quiescent, vars
    <2>. QED BY <2>1, <2>2, <2>3, <2>4, <2>5, <2>6, <2>7, <2>8 DEF Next
  <1>. QED BY <1>1, <1>2, Invariant, PTL DEF Spec

\* A message has at most one position in a sequence without repetition.
Spots(tag, q, m) == {<<tag, i>> : i \in {j \in DOMAIN q : q[j] = m}}

LEMMA Spot ==
    ASSUME NEW q, Distinct(q), NEW m, NEW tag
    PROVE  /\ m \notin Elems(q) => Spots(tag, q, m) = {}
           /\ m \in Elems(q) => \E x : Spots(tag, q, m) = {x}
  <1>. DEFINE P == {j \in DOMAIN q : q[j] = m}
  <1>1. ASSUME m \notin Elems(q) PROVE Spots(tag, q, m) = {}
    BY <1>1 DEF Elems, Spots
  <1>2. ASSUME m \in Elems(q) PROVE \E x : Spots(tag, q, m) = {x}
    <2>1. PICK i \in DOMAIN q : q[i] = m
      BY <1>2 DEF Elems
    <2>2. P = {i}
      BY <2>1 DEF Distinct
    <2>3. Spots(tag, q, m) = {<<tag, i>>}
      BY <2>2 DEF Spots
    <2>. QED BY <2>3
  <1>. QED BY <1>1, <1>2

\* No message is lost or handled twice: until it is answered, injected, given
\* up or stopped it is in exactly one place, whatever is cancelled, republished
\* or deferred in between.
THEOREM MessagesExactlyOnce == Spec => []ExactlyOnce
  <1>1. IInv /\ PlaceInv => ExactlyOnce
    <2>. SUFFICES ASSUME IInv, PlaceInv, NEW m \in Msgs
                  PROVE  Cardinality(Places(m)) = (IF fate[m] = "live" THEN 1 ELSE 0)
      BY DEF ExactlyOnce
    <2>1. PICK s \in Sessions : s = Sess[m]
      BY DispatchAssumption DEF DispatchAssumption
    <2>. DEFINE I == Spots("inbound", inbound, m)
                C == {<<"control", 0>> : c \in {control} \cap {m}}
                L == Spots("task", lockQ[s], m)
                P == Spots("pending", Queued(s), m)
                D == Spots("deferred", deferred[s], m)
    <2>2. Places(m) = I \cup C \cup L \cup P \cup D
      BY <2>1 DEF Places, Spots
    <2>3. /\ Distinct(inbound) /\ Distinct(lockQ[s]) /\ Distinct(Queued(s))
          /\ Distinct(deferred[s]) /\ Apart(m, s)
          /\ fate[m] = "live" <=> Located(m)
      BY <2>1 DEF PlaceInv, Tidy
    <2>4. /\ m \notin Elems(inbound) => I = {}
          /\ m \in Elems(inbound) => \E x : I = {x}
      BY <2>3, Spot
    <2>5. /\ m # control => C = {}
          /\ m = control => \E x : C = {x}
      <3>1. m = control => C = {<<"control", 0>>}
        OBVIOUS
      <3>2. m # control => C = {}
        OBVIOUS
      <3>. QED BY <3>1, <3>2
    <2>6. /\ m \notin Elems(lockQ[s]) => L = {}
          /\ m \in Elems(lockQ[s]) => \E x : L = {x}
      BY <2>3, Spot
    <2>7. /\ m \notin Elems(Queued(s)) => P = {}
          /\ m \in Elems(Queued(s)) => \E x : P = {x}
      BY <2>3, Spot
    <2>8. /\ m \notin Elems(deferred[s]) => D = {}
          /\ m \in Elems(deferred[s]) => \E x : D = {x}
      BY <2>3, Spot
    <2>. HIDE DEF I, C, L, P, D
    <2>9. fate[m] = "live" => \E x : Places(m) = {x}
      <3>. SUFFICES ASSUME Located(m) PROVE \E x : Places(m) = {x}
        BY <2>3
      <3>1. CASE m \in Elems(inbound)
        BY <2>2, <2>3, <2>4, <2>5, <2>6, <2>7, <2>8, <3>1 DEF Apart, Held
      <3>2. CASE m = control
        BY <2>2, <2>3, <2>4, <2>5, <2>6, <2>7, <2>8, <3>2 DEF Apart, Held
      <3>3. CASE m \in Elems(lockQ[s])
        BY <2>2, <2>3, <2>4, <2>5, <2>6, <2>7, <2>8, <3>3 DEF Apart, Held
      <3>4. CASE m \in Elems(Queued(s))
        BY <2>2, <2>3, <2>4, <2>5, <2>6, <2>7, <2>8, <3>4 DEF Apart, Held
      <3>5. CASE m \in Elems(deferred[s])
        BY <2>2, <2>3, <2>4, <2>5, <2>6, <2>7, <2>8, <3>5 DEF Apart, Held
      <3>. QED BY <2>1, <3>1, <3>2, <3>3, <3>4, <3>5 DEF Located, Held
    <2>10. fate[m] # "live" => Places(m) = {}
      BY <2>1, <2>2, <2>3, <2>4, <2>5, <2>6, <2>7, <2>8 DEF Located, Held
    <2>. QED BY <2>9, <2>10, FS_Singleton, FS_EmptySet
  <1>. QED BY <1>1, PlacesAlways, Invariant, PTL
-----------------------------------------------------------------------------
(* Who stops a message *)

Stops == {"stop", "new", "discard"}

\* A command that was taken off the bus, and one of that session.
Issued(c) == Kind[c] \in Stops /\ fate[c] # "unsent" /\ c \notin Elems(inbound)
Stopper(s) == \E c \in Msgs : Sess[c] = s /\ Issued(c)

\* A cancellation in flight has its command; the tables hold messages of their
\* session, and no command waits in a queue of follow-ups.
ActiveHome == \A s \in Sessions : \A m \in activeTasks[s] : Sess[m] = s
QueuedKinds == \A s \in Sessions : \A m \in Elems(Queued(s)) : Kind[m] \notin Stops
StopInv ==
    /\ ActiveHome /\ QueuedKinds
    /\ control # None => Kind[control] \in Stops
    /\ \A m \in cancelled : Stopper(Sess[m])
    /\ \A m \in Msgs : fate[m] = "stopped" => Stopper(Sess[m])

\* The end of a task puts no command back on the bus.
LEMMA WakesNoCommand ==
    ASSUME IInv, NEW s \in Sessions, NEW leftover \in Seq(Msgs),
           PublishNextDeferred(s, leftover),
           \A m \in Elems(leftover) : Kind[m] \notin Stops
    PROVE  \A m \in Elems(inbound') : m \in Elems(inbound) \/ Kind[m] \notin Stops
  <1>1. /\ Wake(s) \in Seq(Msgs)
        /\ \A m \in Elems(Wake(s)) : Kind[m] = "auto"
    <2>1. CASE deferred[s] = <<>>
      BY <2>1 DEF Wake, Elems
    <2>2. CASE deferred[s] # <<>>
      <3>1. Head(deferred[s]) \in Elems(deferred[s]) /\ Head(deferred[s]) \in Msgs
        BY <2>2, Typed, TailDistinct
      <3>2. Kind[Head(deferred[s])] = "auto"
        BY <3>1 DEF IInv, QueueInv, DeferredKinds, Elems
      <3>3. Wake(s) = <<Head(deferred[s])>>
        BY <2>2 DEF Wake
      <3>. QED BY <3>1, <3>2, <3>3 DEF Elems
    <2>. QED BY <2>1, <2>2
  <1>2. inbound \in Seq(Msgs) /\ inbound' = (inbound \o leftover) \o Wake(s)
    BY Typed DEF PublishNextDeferred
  <1>3. inbound \o leftover \in Seq(Msgs)
        /\ Elems(inbound \o leftover) = Elems(inbound) \cup Elems(leftover)
    BY <1>2, ConcatDistinct
  <1>4. Elems((inbound \o leftover) \o Wake(s))
            = Elems(inbound) \cup Elems(leftover) \cup Elems(Wake(s))
    BY <1>1, <1>3, ConcatDistinct
  <1>. QED BY <1>1, <1>2, <1>4 DEF Stops

\* What the end of a turn leaves of the tables.
LEMMA CloseKeepsStops ==
    ASSUME IInv, PlaceInv, StopInv, NEW s \in Sessions, NEW leftover \in Seq(Msgs),
           lockQ[s] # <<>>, Close(s, leftover),
           \/ leftover = Queued(s)
           \/ leftover = Append(Queued(s), Owner(s)) /\ Kind[Owner(s)] \notin Stops
    PROVE  /\ \A m \in Elems(inbound') : m \in Elems(inbound) \/ Kind[m] \notin Stops
           /\ ActiveHome' /\ QueuedKinds' /\ cancelled' \subseteq cancelled
  <1>1. /\ Queued(s) \in Seq(Msgs) /\ Owner(s) \in Msgs
        /\ activeTasks \in [Sessions -> SUBSET Msgs]
    BY Typed, TailDistinct DEF Owner, IInv, QueueInv, TaskTypes
  <1>2. \A m \in Elems(leftover) : Kind[m] \notin Stops
    <2>1. \A m \in Elems(Queued(s)) : Kind[m] \notin Stops
      BY DEF StopInv, QueuedKinds
    <2>2. CASE leftover = Queued(s)
      BY <2>1, <2>2
    <2>3. CASE leftover = Append(Queued(s), Owner(s)) /\ Kind[Owner(s)] \notin Stops
      <3>1. Elems(leftover) = Elems(Queued(s)) \cup {Owner(s)}
        BY <1>1, <2>3, AppendDistinct
      <3>. QED BY <2>1, <2>3, <3>1
    <2>. QED BY <2>2, <2>3
  <1>3. \A m \in Elems(inbound') : m \in Elems(inbound) \/ Kind[m] \notin Stops
    BY <1>2, WakesNoCommand DEF Close
  <1>4. pendingQueues' = [pendingQueues EXCEPT ![s] = None]
    BY DEF Close, Unregister
  <1>5. QueuedKinds'
    <2>1. Elems(Queued(s)') = {} /\ \A r \in Sessions \ {s} : Queued(r)' = Queued(r)
      BY <1>4, Emptied
    <2>. QED BY <2>1 DEF StopInv, QueuedKinds
  <1>6. ActiveHome' /\ cancelled' \subseteq cancelled
    BY <1>1 DEF StopInv, ActiveHome, Close
  <1>. QED BY <1>3, <1>5, <1>6

\* What a step must show: the tables hold what they should, no command returns
\* to the bus, and whoever is cancelled or stopped has a command.
LEMMA StopFrame ==
    ASSUME IInv, PlaceInv, StopInv, ActiveHome', QueuedKinds',
           control' # None => Kind[control'] \in Stops,
           \A m \in Elems(inbound') :
               m \in Elems(inbound) \/ Kind[m] \notin Stops \/ fate[m] = "unsent",
           \A m \in Msgs : fate'[m] = "unsent" => fate[m] = "unsent",
           \A m \in cancelled' : m \in cancelled \/ Stopper(Sess[m]) \/ Stopper(Sess[m])',
           \A m \in Msgs : fate'[m] = "stopped" =>
               fate[m] = "stopped" \/ Stopper(Sess[m]) \/ Stopper(Sess[m])'
    PROVE  StopInv'
  <1>1. ASSUME NEW c \in Msgs, Issued(c) PROVE Issued(c)'
    BY <1>1 DEF Issued
  <1>2. ASSUME NEW s, Stopper(s) PROVE Stopper(s)'
    BY <1>1, <1>2 DEF Stopper
  <1>3. ASSUME NEW m \in cancelled' PROVE Stopper(Sess[m])'
    BY <1>2, <1>3 DEF StopInv
  <1>4. ASSUME NEW m \in Msgs, fate'[m] = "stopped" PROVE Stopper(Sess[m])'
    BY <1>2, <1>4 DEF StopInv
  <1>. QED BY <1>3, <1>4 DEF StopInv

\* run() cancels tasks of the session of the command it took off the bus.
LEMMA ReceiveKeepsStops ==
    ASSUME IInv, PlaceInv, StopInv, NEW m \in Msgs, Receive(m)
    PROVE  StopInv'
  <1>1. PICK s \in Sessions : s = Sess[m]
    BY DispatchAssumption DEF DispatchAssumption
  <1>2. /\ activeTasks \in [Sessions -> SUBSET Msgs] /\ fate \in [Msgs -> Fates]
        /\ Queued(s) \in Seq(Msgs)
    BY Typed DEF IInv, QueueInv, TaskTypes
  <1>3. /\ Consume(m) /\ Elems(inbound') = Elems(inbound) \ {m}
        /\ fate[m] = "live" /\ control = None
    <2>1. Consume(m)
      BY DEF Receive, ReceiveControl, ReceiveDropped, ReceiveCommand, ReceiveDeferred,
             ReceiveFollowUp, ReceiveTask
    <2>. QED BY <2>1, Consumed
  <1>4. CASE ReceiveControl(m)
    <2>1. /\ control' = m /\ Kind[m] \in Stops
          /\ UNCHANGED <<pendingQueues, fate>>
          /\ cancelled' = cancelled \cup (activeTasks[s] \ {m})
          /\ activeTasks' = [activeTasks EXCEPT ![s] = {}]
      BY <1>1, <1>4 DEF ReceiveControl, CancelActiveTasks, CancelTargets, Stops
    <2>2. Stopper(s)'
      <3>1. Issued(m)'
        BY <1>3, <2>1 DEF Issued
      <3>. QED BY <1>1, <3>1 DEF Stopper
    <2>3. \A n \in cancelled' : n \in cancelled \/ Stopper(Sess[n])'
      BY <2>1, <2>2 DEF StopInv, ActiveHome
    <2>4. ActiveHome' /\ QueuedKinds'
      BY <1>2, <2>1 DEF StopInv, ActiveHome, QueuedKinds, Queued
    <2>. QED BY <1>3, <2>1, <2>3, <2>4, StopFrame
  <1>5. CASE ReceiveDropped(m) \/ ReceiveCommand(m)
    <2>1. /\ UNCHANGED <<control, activeTasks, pendingQueues, cancelled>>
          /\ \E f \in {"dropped", "done"} : fate' = [fate EXCEPT ![m] = f]
      BY <1>5 DEF ReceiveDropped, ReceiveCommand, Settle, tasks
    <2>2. ActiveHome' /\ QueuedKinds'
      BY <2>1 DEF StopInv, ActiveHome, QueuedKinds, Queued
    <2>. QED BY <1>2, <1>3, <2>1, <2>2, StopFrame
  <1>6. CASE ReceiveDeferred(m)
    <2>1. UNCHANGED <<control, activeTasks, pendingQueues, cancelled, fate>>
      BY <1>6 DEF ReceiveDeferred, tasks
    <2>2. ActiveHome' /\ QueuedKinds'
      BY <2>1 DEF StopInv, ActiveHome, QueuedKinds, Queued
    <2>. QED BY <1>3, <2>1, <2>2, StopFrame
  <1>7. CASE ReceiveFollowUp(m)
    <2>1. /\ UNCHANGED <<control, activeTasks, cancelled, fate>>
          /\ pendingQueues' = [pendingQueues EXCEPT ![s] = Append(@, m)]
          /\ pendingQueues[s] # None /\ Kind[m] \notin Stops
      BY <1>1, <1>7 DEF ReceiveFollowUp, Injects, Registered, tasks, Stops
    <2>2. /\ Queued(s)' = Append(Queued(s), m)
          /\ \A r \in Sessions \ {s} : Queued(r)' = Queued(r)
      <3>1. /\ pendingQueues'[s] = Append(pendingQueues[s], m)
            /\ \A r \in Sessions \ {s} : pendingQueues'[r] = pendingQueues[r]
        BY <2>1, Typed
      <3>2. pendingQueues[s] \in Seq(Msgs) /\ Append(pendingQueues[s], m) \in Seq(Msgs)
        BY <2>1, Typed
      <3>3. None \notin Seq(Msgs)
        BY DispatchAssumption DEF DispatchAssumption
      <3>. QED BY <2>1, <3>1, <3>2, <3>3 DEF Queued
    <2>3. Elems(Queued(s)') = Elems(Queued(s)) \cup {m}
      BY <1>2, <2>2, AppendDistinct
    <2>4. ActiveHome' /\ QueuedKinds'
      BY <2>1, <2>2, <2>3 DEF StopInv, ActiveHome, QueuedKinds
    <2>. QED BY <1>3, <2>1, <2>4, StopFrame
  <1>8. CASE ReceiveTask(m)
    <2>1. /\ UNCHANGED <<control, pendingQueues, cancelled, fate>>
          /\ activeTasks' = [activeTasks EXCEPT ![s] = @ \cup {m}]
      BY <1>1, <1>8 DEF ReceiveTask
    <2>2. ActiveHome' /\ QueuedKinds'
      BY <1>1, <1>2, <2>1 DEF StopInv, ActiveHome, QueuedKinds, Queued
    <2>. QED BY <1>3, <2>1, <2>2, StopFrame
  <1>. QED BY <1>4, <1>5, <1>6, <1>7, <1>8 DEF Receive

\* /stop drains the queue of its own session.
LEMMA FinishControlKeepsStops ==
    ASSUME IInv, PlaceInv, StopInv, FinishControl
    PROVE  StopInv'
  <1>1. control \in Msgs /\ Sess[control] \in Sessions /\ None \notin Msgs
    BY DispatchAssumption DEF FinishControl, IInv, OtherTypes, DispatchAssumption
  <1>2. PICK c \in Msgs, s \in Sessions : c = control /\ s = Sess[c]
    BY <1>1
  <1>. DEFINE drained == IF Kind[c] = "stop" THEN Elems(Queued(s)) ELSE {}
  <1>3. /\ control' = None /\ UNCHANGED <<inbound, activeTasks, cancelled>>
        /\ fate' = [m \in Msgs |-> CASE m = c -> "done"
                                     [] m \in drained -> "stopped"
                                     [] OTHER -> fate[m]]
        /\ pendingQueues' = IF Kind[c] = "stop"
                            THEN [pendingQueues EXCEPT ![s] = None]
                            ELSE pendingQueues
    BY <1>2 DEF FinishControl, bus, tasks
  <1>4. Tidy(s)
    BY DEF PlaceInv
  <1>5. Stopper(s)
    <2>1. Kind[c] \in Stops
      BY <1>1, <1>2 DEF StopInv
    <2>2. fate[c] = "live" /\ c \notin Elems(inbound)
      BY <1>2, <1>4 DEF Tidy, Apart, Located
    <2>. QED BY <1>2, <2>1, <2>2 DEF Stopper, Issued
  <1>6. \A m \in drained : Sess[m] = s
    BY <1>4 DEF Tidy, Held
  <1>7. QueuedKinds'
    <2>1. CASE Kind[c] = "stop"
      <3>1. Elems(Queued(s)') = {} /\ \A r \in Sessions \ {s} : Queued(r)' = Queued(r)
        BY <1>3, <2>1, Emptied
      <3>. QED BY <3>1 DEF StopInv, QueuedKinds
    <2>2. CASE Kind[c] # "stop"
      BY <1>3, <2>2 DEF StopInv, QueuedKinds, Queued
    <2>. QED BY <2>1, <2>2
  <1>8. ActiveHome'
    BY <1>3 DEF StopInv, ActiveHome
  <1>. HIDE DEF drained
  <1>9. \A m \in Msgs : fate'[m] = "stopped" => fate[m] = "stopped" \/ Stopper(Sess[m])
    BY <1>3, <1>5, <1>6
  <1>10. \A m \in Msgs : fate'[m] = "unsent" => fate[m] = "unsent"
    BY <1>3
  <1>. QED BY <1>3, <1>7, <1>8, <1>9, <1>10, StopFrame

\* A task ends as stopped only with a cancellation in flight.
LEMMA StepKeepsStops ==
    ASSUME IInv, PlaceInv, StopInv, NEW s \in Sessions, Step(s)
    PROVE  StopInv'
  <1>1. /\ Queued(s) \in Seq(Msgs) /\ activeTasks \in [Sessions -> SUBSET Msgs]
        /\ lockQ[s] # <<>> => Owner(s) \in Msgs /\ Owner(s) \in Elems(lockQ[s])
        /\ fate \in [Msgs -> Fates]
    BY Typed, TailDistinct DEF Owner, IInv, QueueInv, TaskTypes
  <1>2. CASE Inject(s)
    <2>1. /\ UNCHANGED <<inbound, control, activeTasks, cancelled>>
          /\ Queued(s) # <<>> /\ fate' = [fate EXCEPT ![Head(Queued(s))] = "injected"]
          /\ pendingQueues' = [pendingQueues EXCEPT ![s] = Tail(@)]
      BY <1>2 DEF Inject, Settle, bus, tasks
    <2>2. /\ pendingQueues[s] # None /\ Queued(s) = pendingQueues[s]
          /\ pendingQueues'[s] = Tail(pendingQueues[s])
          /\ \A r \in Sessions \ {s} : pendingQueues'[r] = pendingQueues[r]
      BY <2>1, Typed DEF Queued
    <2>3. /\ Tail(Queued(s)) \in Seq(Msgs) /\ None \notin Seq(Msgs)
          /\ Elems(Tail(Queued(s))) \subseteq Elems(Queued(s))
      BY <1>1, <2>1, TailDistinct, DispatchAssumption DEF DispatchAssumption
    <2>4. /\ Elems(Queued(s)') \subseteq Elems(Queued(s))
          /\ \A r \in Sessions \ {s} : Queued(r)' = Queued(r)
      BY <2>2, <2>3 DEF Queued
    <2>5. ActiveHome' /\ QueuedKinds'
      BY <2>1, <2>4 DEF StopInv, ActiveHome, QueuedKinds
    <2>6. \A m \in Msgs : fate'[m] = fate[m] \/ fate'[m] = "injected"
      BY <1>1, <2>1
    <2>. QED BY <2>1, <2>5, <2>6, StopFrame DEF StopInv
  <1>3. CASE EndTurn(s) \/ SessionCleared(s)
    <2>1. /\ lockQ[s] # <<>> /\ Close(s, Queued(s)) /\ control' = control
          /\ \E f \in {"done", "failed"} : fate' = [fate EXCEPT ![Owner(s)] = f]
      BY <1>3 DEF EndTurn, SessionCleared, Running, Settle
    <2>2. \A m \in Msgs : fate'[m] \in {fate[m], "done", "failed"}
      BY <1>1, <2>1
    <2>3. /\ \A m \in Elems(inbound') : m \in Elems(inbound) \/ Kind[m] \notin Stops
          /\ ActiveHome' /\ QueuedKinds' /\ cancelled' \subseteq cancelled
      BY <1>1, <2>1, CloseKeepsStops
    <2>. QED BY <2>1, <2>2, <2>3, StopFrame DEF StopInv
  <1>4. CASE ContinueTurn(s)
    <2>1. /\ lockQ[s] # <<>> /\ Close(s, Append(Queued(s), Owner(s)))
          /\ control' = control /\ fate' = fate /\ Kind[Owner(s)] \notin Stops
      BY <1>4 DEF ContinueTurn, CanContinue, Running, Stops
    <2>2. Append(Queued(s), Owner(s)) \in Seq(Msgs)
      BY <1>1, <2>1
    <2>3. /\ \A m \in Elems(inbound') : m \in Elems(inbound) \/ Kind[m] \notin Stops
          /\ ActiveHome' /\ QueuedKinds' /\ cancelled' \subseteq cancelled
      BY <2>1, <2>2, CloseKeepsStops
    <2>. QED BY <2>1, <2>3, StopFrame DEF StopInv
  <1>5. CASE BlockOnFullQueue(s)
    <2>1. UNCHANGED <<inbound, control, activeTasks, pendingQueues, cancelled, fate>>
      BY <1>5 DEF BlockOnFullQueue, bus
    <2>2. ActiveHome' /\ QueuedKinds'
      BY <2>1 DEF StopInv, ActiveHome, QueuedKinds, Queued
    <2>. QED BY <2>1, <2>2, StopFrame DEF StopInv
  <1>6. CASE ClearSession(s)
    <2>1. /\ UNCHANGED <<inbound, control, pendingQueues, fate>>
          /\ lockQ[s] # <<>> /\ Kind[Owner(s)] = "new"
          /\ cancelled' = cancelled \cup (activeTasks[s] \ {Owner(s)})
          /\ activeTasks' = [activeTasks EXCEPT ![s] = {}]
      BY <1>6 DEF ClearSession, Running, CancelActiveTasks, CancelTargets, bus
    <2>2. Stopper(s)
      <3>1. Tidy(s) /\ Owner(s) \in Held(s)
        BY <1>1, <2>1 DEF PlaceInv, Held
      <3>2. /\ Sess[Owner(s)] = s /\ fate[Owner(s)] = "live"
            /\ Owner(s) \notin Elems(inbound)
        BY <1>1, <2>1, <3>1 DEF Tidy, Apart, Located
      <3>. QED BY <1>1, <2>1, <3>2 DEF Stopper, Issued, Stops
    <2>3. ActiveHome' /\ QueuedKinds'
      BY <1>1, <2>1 DEF StopInv, ActiveHome, QueuedKinds, Queued
    <2>4. \A m \in cancelled' : m \in cancelled \/ Stopper(Sess[m])
      BY <2>1, <2>2 DEF StopInv, ActiveHome
    <2>. QED BY <2>1, <2>3, <2>4, StopFrame DEF StopInv
  <1>7. CASE AbortTurn(s)
    <2>1. /\ lockQ[s] # <<>> /\ Close(s, Queued(s)) /\ control' = control
          /\ Owner(s) \in cancelled /\ fate' = [fate EXCEPT ![Owner(s)] = "stopped"]
      BY <1>7 DEF AbortTurn, Running, Settle
    <2>2. Stopper(Sess[Owner(s)])
      BY <2>1 DEF StopInv
    <2>3. \A m \in Msgs : fate'[m] = fate[m] \/ (m = Owner(s) /\ fate'[m] = "stopped")
      BY <1>1, <2>1
    <2>4. /\ \A m \in Elems(inbound') : m \in Elems(inbound) \/ Kind[m] \notin Stops
          /\ ActiveHome' /\ QueuedKinds' /\ cancelled' \subseteq cancelled
      BY <1>1, <2>1, CloseKeepsStops
    <2>. QED BY <2>1, <2>2, <2>3, <2>4, StopFrame DEF StopInv
  <1>. QED BY <1>2, <1>3, <1>4, <1>5, <1>6, <1>7 DEF Step

\* So does a task that had not started.
LEMMA AbortWaitingKeepsStops ==
    ASSUME IInv, PlaceInv, StopInv, NEW s \in Sessions, NEW i \in DOMAIN lockQ[s],
           AbortWaiting(s, i)
    PROVE  StopInv'
  <1>1. PICK m \in Msgs : m = lockQ[s][i]
    BY Typed
  <1>2. /\ m \in cancelled /\ fate' = [fate EXCEPT ![m] = "stopped"]
        /\ PublishNextDeferred(s, <<>>) /\ UNCHANGED <<control, pendingQueues>>
        /\ activeTasks' = [activeTasks EXCEPT ![s] = @ \ {m}]
        /\ cancelled' = cancelled \ {m}
    BY <1>1 DEF AbortWaiting, CloseUnstarted, Settle
  <1>3. Stopper(Sess[m])
    BY <1>2 DEF StopInv
  <1>4. \A n \in Elems(inbound') : n \in Elems(inbound) \/ Kind[n] \notin Stops
    <2>1. <<>> \in Seq(Msgs) /\ Elems(<<>>) = {}
      BY DEF Elems
    <2>. QED BY <1>2, <2>1, WakesNoCommand
  <1>5. ActiveHome' /\ QueuedKinds'
    <2>1. activeTasks \in [Sessions -> SUBSET Msgs]
      BY DEF IInv, QueueInv, TaskTypes
    <2>. QED BY <1>2, <2>1 DEF StopInv, ActiveHome, QueuedKinds, Queued
  <1>6. \A n \in Msgs : fate'[n] = fate[n] \/ (n = m /\ fate'[n] = "stopped")
    BY <1>2, Typed
  <1>. QED BY <1>2, <1>3, <1>4, <1>5, <1>6, StopFrame DEF StopInv

\* Steps that touch none of this.
LEMMA StutterKeepsStops ==
    ASSUME IInv, PlaceInv, StopInv,
           UNCHANGED <<inbound, control, activeTasks, pendingQueues, cancelled, fate>>
    PROVE  StopInv'
  <1>1. ActiveHome' /\ QueuedKinds'
    BY DEF StopInv, ActiveHome, QueuedKinds, Queued
  <1>. QED BY <1>1, StopFrame DEF StopInv

\* Only /stop, /new or a discard of its own session loses a message: no turn is
\* cancelled, and no follow-up drained, on behalf of another session or before
\* the command was consumed.
THEOREM OnlyCommandsStop == Spec => []StoppedByCommand
  <1>1. Init => StopInv
    <2>. SUFFICES ASSUME Init PROVE StopInv
      OBVIOUS
    <2>1. \A s \in Sessions : Elems(Queued(s)) = {} /\ activeTasks[s] = {}
      BY DEF Init, Queued, Elems
    <2>. QED BY <2>1 DEF Init, StopInv, ActiveHome, QueuedKinds
  <1>2. IInv /\ PlaceInv /\ StopInv /\ [Next]_vars => StopInv'
    <2>. SUFFICES ASSUME IInv, PlaceInv, StopInv, [Next]_vars PROVE StopInv'
      OBVIOUS
    <2>1. ASSUME NEW m \in Msgs, Publish(m) PROVE StopInv'
      <3>1. /\ fate[m] = "unsent" /\ inbound' = Append(inbound, m)
            /\ fate' = [fate EXCEPT ![m] = "live"]
            /\ UNCHANGED <<control, activeTasks, pendingQueues, cancelled>>
        BY <2>1 DEF Publish, Settle, tasks
      <3>2. Elems(inbound') = Elems(inbound) \cup {m}
        BY <3>1, Typed, AppendDistinct
      <3>3. \A n \in Msgs : fate'[n] = fate[n] \/ fate'[n] = "live"
        BY <3>1, Typed
      <3>4. ActiveHome' /\ QueuedKinds'
        BY <3>1 DEF StopInv, ActiveHome, QueuedKinds, Queued
      <3>. QED BY <3>1, <3>2, <3>3, <3>4, StopFrame DEF StopInv
    <2>2. ASSUME NEW m \in Msgs, Receive(m) PROVE StopInv'
      BY <2>2, ReceiveKeepsStops
    <2>3. ASSUME NEW m \in Automations, CallerCancelled(m) PROVE StopInv'
      BY <2>3, StutterKeepsStops DEF CallerCancelled, bus, tasks
    <2>4. CASE FinishControl
      BY <2>4, FinishControlKeepsStops
    <2>5. ASSUME NEW s \in Sessions, StartTurn(s) PROVE StopInv'
      <3>1. /\ UNCHANGED <<inbound, control, activeTasks, cancelled, fate>>
            /\ pendingQueues' = [pendingQueues EXCEPT ![s] = <<>>]
        BY <2>5 DEF StartTurn, bus
      <3>2. Elems(Queued(s)') = {} /\ \A r \in Sessions \ {s} : Queued(r)' = Queued(r)
        BY <3>1, Emptied
      <3>3. ActiveHome' /\ QueuedKinds'
        BY <3>1, <3>2 DEF StopInv, ActiveHome, QueuedKinds
      <3>. QED BY <3>1, <3>3, StopFrame DEF StopInv
    <2>6. ASSUME NEW s \in Sessions, Step(s) PROVE StopInv'
      BY <2>6, StepKeepsStops
    <2>7. ASSUME NEW s \in Sessions, NEW i \in 1 .. Cardinality(Msgs),
                 AbortWaiting(s, i)
          PROVE  StopInv'
      BY <2>7, AbortWaitingKeepsStops DEF AbortWaiting
    <2>8. CASE Quiescent \/ UNCHANGED vars
      BY <2>8, StutterKeepsStops DEF Quiescent, vars
    <2>. QED BY <2>1, <2>2, <2>3, <2>4, <2>5, <2>6, <2>7, <2>8 DEF Next
  <1>3. StopInv => StoppedByCommand
    BY DEF StopInv, Stopper, Issued, Stops, StoppedByCommand
  <1>. QED BY <1>1, <1>2, <1>3, Invariant, PlacesAlways, PTL DEF Spec
=============================================================================
