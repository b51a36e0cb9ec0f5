------------------------- MODULE LocalTriggersProofs -------------------------
(***************************************************************************)
(* The local-trigger queue for every set of deliveries and triggers and    *)
(* every bound: no delivery is lost, every claim has an owner, and nothing *)
(* is submitted more than MaxAttempts times.                               *)
(***************************************************************************)
EXTENDS LocalTriggers, FiniteSetTheorems, TLAPS

Up == phase # "down"

\* Submissions that the attempts written so far do not count yet.
Uncounted(i) == IF phase \in {"waiting", "stuck"} /\ i = 1 THEN 1 ELSE 0

\* A file never holds the last attempt; its count covers the submissions.
Counts ==
    /\ \A d \in In(inbox) : inbox[d] < MaxAttempts /\ submits[d] <= inbox[d]
    /\ \A d \in In(processing) :
          processing[d] < MaxAttempts /\ submits[d] <= processing[d] + 1
    /\ \A d \in Deliveries \ accepted : submits[d] = 0

\* Where the files of a delivery may be at the same time.
Directories ==
    /\ In(inbox) \cup In(processing) \cup In(failed) \subseteq accepted
    /\ In(inbox) \cap In(failed) = {}
    /\ \A d \in In(failed) \cap In(processing) : LastAttempt(processing[d])
    /\ \A d \in In(inbox) \cap In(processing) : ~LastAttempt(processing[d])
    /\ Up => In(inbox) \cap In(processing) = {}
    /\ Up => In(processing) \subseteq InBatch

\* What the runner remembers of a claim agrees with the claimed file.
Held(i) ==
    LET d == batch[i].id
        n == batch[i].attempts
    IN  /\ d \in accepted
        /\ d \notin In(inbox) \cup In(failed)
        /\ n < MaxAttempts
        /\ processing[d] \in {NoFile, n}
        /\ Deleted(d) \/ d \in In(processing)
        /\ submits[d] <= n + Uncounted(i)

BatchOwned ==
    /\ phase \in {"down", "polling"} => batch = <<>>
    /\ \A i, j \in DOMAIN batch : batch[i].id = batch[j].id => i = j
    /\ \A i \in DOMAIN batch : Held(i)

\* The inductive invariant.
IInv ==
    /\ TypeOK
    /\ Counts
    /\ Directories
    /\ BatchOwned
    /\ SubmitsBounded
    /\ NothingLost
-----------------------------------------------------------------------------
\* The elements of the batch are deliveries with a number of attempts.
LEMMA BatchTypes ==
    ASSUME batch \in Seq(Claims)
    PROVE  /\ DOMAIN batch = 1 .. Len(batch) /\ Len(batch) \in Nat
           /\ \A i \in DOMAIN batch :
                 /\ batch[i].id \in Deliveries
                 /\ batch[i].attempts \in Nat /\ batch[i].attempts <= MaxAttempts
                 /\ batch[i] \in Claims
  <1>1. \A i \in DOMAIN batch : batch[i] \in Claims
    OBVIOUS
  <1>2. \A c \in Claims :
           c.id \in Deliveries /\ c.attempts \in Nat /\ c.attempts <= MaxAttempts
    BY TriggersAssumption DEF Claims, Attempts, TriggersAssumption
  <1>. QED BY <1>1, <1>2

\* Initially there is nothing to lose.
LEMMA InitIInv == Init => IInv
  <1>. SUFFICES ASSUME Init PROVE IInv
    OBVIOUS
  <1>. USE TriggersAssumption DEF TriggersAssumption, Init
  <1>1. TypeOK
    <2>1. batch \in Seq(Claims)
      OBVIOUS
    <2>2. crashes \in 0 .. MaxCrashes
      OBVIOUS
    <2>. QED BY ONLY Init, <2>1, <2>2 DEF Init, TypeOK, Attempts, Statuses
  <1>2. Counts /\ Directories
    BY DEF Counts, Directories, In, Up
  <1>3. BatchOwned /\ SubmitsBounded /\ NothingLost
    BY DEF BatchOwned, SubmitsBounded, NothingLost
  <1>. QED BY <1>1, <1>2, <1>3 DEF IInv
-----------------------------------------------------------------------------
(* The triggers *)

\* Creating a trigger, enabling or disabling one does not touch a delivery.
LEMMA EditKeepsIInv ==
    ASSUME IInv, NEW t \in Triggers, NEW to \in {"enabled", "disabled"},
           CreateTrigger(t) \/ EnableTrigger(t, to)
    PROVE  IInv'
  <1>. USE TriggersAssumption DEF TriggersAssumption, IInv
  <1>1. /\ UNCHANGED <<files, runs, runner, submits, history>>
        /\ triggers' \in [Triggers -> {"absent", "enabled", "disabled", "deleted"}]
        /\ \A r \in Triggers : triggers'[r] = "deleted" <=> triggers[r] = "deleted"
    <2>1. UNCHANGED <<files, runs, runner, submits, history>>
      BY DEF CreateTrigger, EnableTrigger
    <2>2. PICK v \in {"enabled", "disabled"} :
             triggers[t] # "deleted" /\ triggers' = [triggers EXCEPT ![t] = v]
      BY DEF CreateTrigger, EnableTrigger
    <2>3. triggers \in [Triggers -> {"absent", "enabled", "disabled", "deleted"}]
      BY DEF TypeOK
    <2>4. \A r \in Triggers \ {t} : triggers'[r] = triggers[r]
      BY <2>2, <2>3
    <2>5. triggers'[t] = v
      BY <2>2, <2>3
    <2>6. triggers' \in [Triggers -> {"absent", "enabled", "disabled", "deleted"}]
      BY <2>2, <2>3
    <2>. QED BY <2>1, <2>2, <2>4, <2>5, <2>6
  <1>. USE <1>1 DEF files, runner, history
  <1>2. TypeOK'
    BY DEF TypeOK
  <1>3. \A d \in Deliveries : Deleted(d)' = Deleted(d)
    BY DEF Deleted
  <1>4. Counts' /\ Directories' /\ SubmitsBounded'
    BY DEF Counts, Directories, SubmitsBounded, In, Up, InBatch
  <1>5. BatchOwned'
    <2>1. \A i \in DOMAIN batch : Held(i)'
      BY <1>3, BatchTypes DEF BatchOwned, Held, In, Uncounted, TypeOK
    <2>. QED BY <2>1 DEF BatchOwned
  <1>6. NothingLost'
    BY <1>3 DEF NothingLost, In, TypeOK
  <1>. QED BY <1>2, <1>4, <1>5, <1>6

\* Removing files of a trigger that is deleted loses nothing: its deliveries
\* are no longer owed.
LEMMA RemoveKeepsIInv ==
    ASSUME IInv, NEW t \in Triggers, RemoveTrigger(t),
           NEW D \in SUBSET Of(t), D = Of(t) \/ phase' = "down",
           inbox' = Erase(inbox, D),
           processing' = Erase(processing, D),
           failed' = Erase(failed, D),
           UNCHANGED <<runs, submits, accepted>>,
           crashes' \in 0 .. MaxCrashes,
           \/ UNCHANGED <<phase, batch>>
           \/ phase' = "down" /\ batch' = <<>>
    PROVE  IInv'
  <1>. USE TriggersAssumption DEF TriggersAssumption, IInv
  <1>1. /\ triggers' = [triggers EXCEPT ![t] = "deleted"]
        /\ triggers' \in [Triggers -> {"absent", "enabled", "disabled", "deleted"}]
    BY DEF RemoveTrigger, TypeOK
  <1>2. /\ \A d \in Deliveries : Deleted(d) => Deleted(d)'
        /\ \A d \in D : Deleted(d)'
    BY <1>1 DEF Deleted, TypeOK, Of
  <1>3. /\ \A d \in Deliveries \ D : /\ inbox'[d] = inbox[d]
                                     /\ processing'[d] = processing[d]
                                     /\ failed'[d] = failed[d]
        /\ \A d \in Deliveries \cap D : /\ inbox'[d] = NoFile
                                        /\ processing'[d] = NoFile
                                        /\ failed'[d] = NoFile
        /\ In(inbox)' = In(inbox) \ D
        /\ In(processing)' = In(processing) \ D
        /\ In(failed)' = In(failed) \ D
    BY DEF Erase, In
  <1>4. /\ inbox' \in [Deliveries -> Attempts \cup {NoFile}]
        /\ processing' \in [Deliveries -> Attempts \cup {NoFile}]
        /\ failed' \in [Deliveries -> Attempts \cup {NoFile}]
    BY DEF Erase, TypeOK
  <1>5. TypeOK'
    <2>1. batch \in Seq(Claims) /\ <<>> \in Seq(Claims)
      BY DEF TypeOK
    <2>2. batch' \in Seq(Claims) /\ phase' \in {"down", "polling", "delivering", "waiting", "stuck"}
      BY <2>1 DEF TypeOK
    <2>. QED BY <1>1, <1>4, <2>2 DEF TypeOK
  <1>6. Counts' /\ SubmitsBounded'
    BY <1>3 DEF Counts, SubmitsBounded, In
  <1>7. Directories'
    BY <1>3 DEF Directories, In, Up, InBatch, LastAttempt
  <1>8. BatchOwned'
    <2>1. CASE batch' = <<>>
      BY <2>1 DEF BatchOwned
    <2>2. CASE UNCHANGED <<phase, batch>>
      <3>1. ASSUME NEW i \in DOMAIN batch PROVE Held(i)'
        <4>1. batch[i].id \in Deliveries
          BY BatchTypes DEF TypeOK
        <4>2. Held(i)
          BY DEF BatchOwned
        <4>. QED BY <2>2, <4>1, <4>2, <1>2, <1>3 DEF Held, Uncounted, In
      <3>. QED BY <2>2, <3>1 DEF BatchOwned
    <2>. QED BY <2>1, <2>2
  <1>9. NothingLost'
    BY <1>2, <1>3 DEF NothingLost, TypeOK
  <1>. QED BY <1>5, <1>6, <1>7, <1>8, <1>9

\* Deleting a trigger, with or without an exit between the two steps.
LEMMA DeleteKeepsIInv ==
    ASSUME IInv, NEW t \in Triggers, DeleteTrigger(t) \/ ExitInDelete(t)
    PROVE  IInv'
  <1>1. CASE DeleteTrigger(t)
    BY <1>1, RemoveKeepsIInv DEF DeleteTrigger, runner, history, IInv, TypeOK
  <1>2. CASE ExitInDelete(t)
    <2>1. crashes' \in 0 .. MaxCrashes /\ phase' = "down" /\ batch' = <<>>
      BY <1>2, TriggersAssumption DEF ExitInDelete, Exit, IInv, TypeOK, TriggersAssumption
    <2>. QED BY <1>2, <2>1, RemoveKeepsIInv DEF ExitInDelete
  <1>. QED BY <1>1, <1>2
-----------------------------------------------------------------------------
(* The deliveries *)

\* A new delivery is nowhere else, so its file in the inbox is the only one.
LEMMA EnqueueKeepsIInv ==
    ASSUME IInv, NEW e \in Deliveries, Enqueue(e)
    PROVE  IInv'
  <1>. USE TriggersAssumption DEF TriggersAssumption, IInv, Enqueue
  <1>1. /\ inbox' \in [Deliveries -> Attempts \cup {NoFile}]
        /\ runs' \in [Deliveries -> Statuses]
        /\ \A d \in Deliveries \ {e} : runs'[d] = runs[d] /\ inbox'[d] = inbox[d]
        /\ inbox'[e] = 0
        /\ UNCHANGED <<triggers, processing, failed, phase, batch, submits, crashes>>
        /\ accepted' = accepted \cup {e}
    BY DEF TypeOK, Attempts, Statuses, runner
  <1>2. /\ e \notin accepted
        /\ In(inbox)' = In(inbox) \cup {e}
        /\ In(processing)' = In(processing)
        /\ In(failed)' = In(failed)
    BY <1>1 DEF In
  <1>3. TypeOK'
    BY <1>1 DEF TypeOK
  <1>4. Counts' /\ SubmitsBounded'
    <2>1. submits[e] = 0
      BY <1>2 DEF Counts
    <2>2. \A d \in In(inbox)' : inbox'[d] < MaxAttempts /\ submits'[d] <= inbox'[d]
      BY <1>1, <1>2, <2>1 DEF Counts, In
    <2>. QED BY <1>1, <1>2, <2>2 DEF Counts, SubmitsBounded
  <1>5. Directories'
    <2>1. InBatch' = InBatch /\ Up' = Up
      BY <1>1 DEF InBatch, Up
    <2>2. \A d \in In(failed)' \cap In(processing)' : LastAttempt(processing'[d])
      BY <1>1, <1>2 DEF Directories
    <2>4. \A d \in In(inbox)' \cap In(processing)' : ~LastAttempt(processing'[d])
      BY <1>1, <1>2 DEF Directories
    <2>3. /\ In(inbox)' \cup In(processing)' \cup In(failed)' \subseteq accepted'
          /\ In(inbox)' \cap In(failed)' = {}
          /\ Up' => In(inbox)' \cap In(processing)' = {}
          /\ Up' => In(processing)' \subseteq InBatch'
      BY <1>2, <2>1 DEF Directories
    <2>. QED BY <2>2, <2>3, <2>4 DEF Directories
  <1>6. BatchOwned'
    <2>1. ASSUME NEW i \in DOMAIN batch PROVE Held(i)'
      <3>1. batch[i].id \in Deliveries \ {e}
        BY <1>2, BatchTypes DEF TypeOK, BatchOwned, Held
      <3>2. Held(i)
        BY DEF BatchOwned
      <3>. QED BY <3>1, <3>2, <1>1, <1>2 DEF Held, Uncounted, Deleted
    <2>. QED BY <2>1, <1>1 DEF BatchOwned
  <1>7. NothingLost'
    BY <1>1, <1>2 DEF NothingLost, Deleted, TypeOK
  <1>. QED BY <1>3, <1>4, <1>5, <1>6, <1>7

-----------------------------------------------------------------------------
(* Requeueing *)

\* What Requeue does to the directories: every delivery of D gets a copy with
\* one more attempt in the inbox or, at the last attempt, in failed.
Requeued(count, D, gone) ==
    /\ inbox' \in [Deliveries -> Attempts \cup {NoFile}]
    /\ processing' \in [Deliveries -> Attempts \cup {NoFile}]
    /\ failed' \in [Deliveries -> Attempts \cup {NoFile}]
    /\ \A d \in Deliveries \ D : inbox'[d] = inbox[d] /\ failed'[d] = failed[d]
    /\ \A d \in D : LastAttempt(count[d]) => inbox'[d] = inbox[d]
    /\ \A d \in D : ~LastAttempt(count[d]) =>
          inbox'[d] = count[d] + 1 /\ count[d] + 1 < MaxAttempts
    /\ \A d \in Deliveries \ gone : processing'[d] = processing[d]
    /\ In(inbox)' = In(inbox) \cup {d \in D : ~LastAttempt(count[d])}
    /\ In(failed)' = In(failed) \cup {d \in D : LastAttempt(count[d])}
    /\ In(processing)' = In(processing) \ gone

\* Requeue does what Requeued says when no count is at the limit.
LEMMA RequeueFacts ==
    ASSUME TypeOK, NEW count, NEW D \in SUBSET Deliveries, NEW gone \in SUBSET D,
           \A d \in D : count[d] \in Nat /\ count[d] < MaxAttempts,
           Requeue(count, D, gone)
    PROVE  Requeued(count, D, gone)
  <1>. USE TriggersAssumption DEF TriggersAssumption
  <1>1. \A d \in D : count[d] + 1 \in Attempts /\ Retried(count[d]) = count[d] + 1
    BY DEF Attempts, Retried
  <1>2. /\ inbox' \in [Deliveries -> Attempts \cup {NoFile}]
        /\ failed' \in [Deliveries -> Attempts \cup {NoFile}]
    BY <1>1 DEF Requeue, TypeOK
  <1>3. processing' \in [Deliveries -> Attempts \cup {NoFile}]
    BY DEF Requeue, Erase, TypeOK
  <1>4. /\ \A d \in Deliveries \ D : inbox'[d] = inbox[d] /\ failed'[d] = failed[d]
        /\ \A d \in D : LastAttempt(count[d]) =>
              inbox'[d] = inbox[d] /\ failed'[d] = count[d] + 1
        /\ \A d \in D : ~LastAttempt(count[d]) =>
              inbox'[d] = count[d] + 1 /\ failed'[d] = failed[d]
    BY <1>1 DEF Requeue
  <1>5. /\ \A d \in Deliveries \ gone : processing'[d] = processing[d]
        /\ \A d \in gone : processing'[d] = NoFile
    BY DEF Requeue, Erase
  <1>6. \A d \in D : ~LastAttempt(count[d]) => count[d] + 1 < MaxAttempts
    BY DEF LastAttempt
  <1>7. \A d \in D : count[d] + 1 # NoFile /\ count[d] + 1 \in Nat
    OBVIOUS
  <1>8. In(inbox)' = In(inbox) \cup {d \in D : ~LastAttempt(count[d])}
    <2>. SUFFICES ASSUME NEW d \in Deliveries
                  PROVE  inbox'[d] # NoFile <=>
                            inbox[d] # NoFile \/ (d \in D /\ ~LastAttempt(count[d]))
      BY DEF In
    <2>. QED BY <1>4, <1>7
  <1>9. In(failed)' = In(failed) \cup {d \in D : LastAttempt(count[d])}
    <2>. SUFFICES ASSUME NEW d \in Deliveries
                  PROVE  failed'[d] # NoFile <=>
                            failed[d] # NoFile \/ (d \in D /\ LastAttempt(count[d]))
      BY DEF In
    <2>. QED BY <1>4, <1>7
  <1>10. In(processing)' = In(processing) \ gone
    BY <1>5 DEF In
  <1>. QED BY <1>2, <1>3, <1>4, <1>5, <1>6, <1>8, <1>9, <1>10 DEF Requeued

\* Recovery, complete or not, keeps the invariant: overwriting the copy that
\* an earlier exit left in the inbox writes the same count again.
LEMMA RecoverKeepsIInv ==
    ASSUME IInv, phase = "down",
           NEW D \in SUBSET In(processing), NEW gone \in SUBSET D,
           Requeue(processing, D, gone),
           \/ phase' = "down"
           \/ phase' = "polling" /\ gone = In(processing),
           UNCHANGED <<triggers, runs, batch, submits, accepted>>,
           crashes' \in 0 .. MaxCrashes
    PROVE  IInv'
  <1>. USE TriggersAssumption DEF TriggersAssumption, IInv
  <1>1. \A d \in In(processing) : processing[d] \in Nat /\ processing[d] < MaxAttempts
    BY DEF In, TypeOK, Attempts, Counts
  <1>2. D \in SUBSET Deliveries
    BY DEF In
  <1>3. Requeued(processing, D, gone)
    BY <1>1, <1>2, RequeueFacts
  <1>4. TypeOK'
    BY <1>3 DEF TypeOK, Requeued
  <1>5. batch = <<>> /\ batch' = <<>>
    BY DEF BatchOwned
  <1>6. BatchOwned'
    BY <1>5 DEF BatchOwned
  <1>7. SubmitsBounded' /\ NothingLost'
    BY <1>3 DEF Requeued, SubmitsBounded, NothingLost, Deleted
  <1>8. Counts'
    <2>1. ASSUME NEW d \in In(inbox)'
          PROVE  inbox'[d] < MaxAttempts /\ submits[d] <= inbox'[d]
      <3>1. CASE d \in D /\ ~LastAttempt(processing[d])
        BY <3>1, <1>3 DEF Requeued, Counts, In
      <3>2. CASE ~(d \in D /\ ~LastAttempt(processing[d]))
        BY <3>2, <1>3 DEF Requeued, Counts, In
      <3>. QED BY <3>1, <3>2
    <2>2. \A d \in In(processing)' :
             processing'[d] < MaxAttempts /\ submits[d] <= processing'[d] + 1
      BY <1>3 DEF Requeued, Counts, In
    <2>. QED BY <2>1, <2>2 DEF Counts
  <1>9. Directories'
    <2>1. In(inbox)' \cap In(failed)' = {}
      BY <1>3 DEF Requeued, Directories
    <2>4. In(inbox)' \cup In(processing)' \cup In(failed)' \subseteq accepted'
      BY <1>3 DEF Requeued, Directories
    <2>2. \A d \in In(failed)' \cap In(processing)' : LastAttempt(processing'[d])
      BY <1>3 DEF Requeued, Directories, In
    <2>5. \A d \in In(inbox)' \cap In(processing)' : ~LastAttempt(processing'[d])
      BY <1>3 DEF Requeued, Directories, In
    <2>3. Up' => In(processing)' = {}
      BY <1>3 DEF Requeued, Up
    <2>. QED BY <2>1, <2>2, <2>3, <2>4, <2>5 DEF Directories
  <1>. QED BY <1>4, <1>6, <1>7, <1>8, <1>9


\* Starting the gateway, or dying while it starts.
LEMMA StartKeepsIInv ==
    ASSUME IInv, Start \/ ExitInStart
    PROVE  IInv'
  <1>1. CASE Start
    BY <1>1, RecoverKeepsIInv DEF Start, history, IInv, TypeOK
  <1>2. CASE ExitInStart
    <2>1. PICK d \in In(processing), copied \in BOOLEAN :
             LET before == {e \in In(processing) : e < d}
             IN Requeue(processing, before \cup (IF copied THEN {d} ELSE {}), before)
      BY <1>2 DEF ExitInStart
    <2>2. crashes' \in 0 .. MaxCrashes
      BY <1>2, TriggersAssumption DEF ExitInStart, IInv, TypeOK, TriggersAssumption
    <2>3. /\ phase = "down" /\ phase' = "down"
          /\ UNCHANGED <<triggers, runs, batch, submits, accepted>>
      BY <1>2 DEF ExitInStart, runner
    <2>. DEFINE before == {e \in In(processing) : e < d}
                D == before \cup (IF copied THEN {d} ELSE {})
    <2>4. D \in SUBSET In(processing) /\ before \in SUBSET D
      OBVIOUS
    <2>. QED BY <2>1, <2>2, <2>3, <2>4, RecoverKeepsIInv
  <1>. QED BY <1>1, <1>2
-----------------------------------------------------------------------------
(* Claiming *)

\* A claim moves files of the inbox that processing does not hold.
LEMMA MoveFacts ==
    ASSUME TypeOK, NEW D \in SUBSET In(inbox), MoveToProcessing(D)
    PROVE  /\ inbox' \in [Deliveries -> Attempts \cup {NoFile}]
           /\ processing' \in [Deliveries -> Attempts \cup {NoFile}]
           /\ In(inbox)' = In(inbox) \ D
           /\ In(processing)' = In(processing) \cup D
           /\ \A d \in D : processing'[d] = inbox[d]
           /\ \A d \in Deliveries \ D :
                 inbox'[d] = inbox[d] /\ processing'[d] = processing[d]
  <1>1. D \subseteq Deliveries
    BY DEF In
  <1>2. /\ inbox' \in [Deliveries -> Attempts \cup {NoFile}]
        /\ processing' \in [Deliveries -> Attempts \cup {NoFile}]
    BY <1>1 DEF MoveToProcessing, Erase, TypeOK
  <1>3. /\ \A d \in D : processing'[d] = inbox[d] /\ inbox'[d] = NoFile
        /\ \A d \in Deliveries \ D :
              inbox'[d] = inbox[d] /\ processing'[d] = processing[d]
    BY <1>1 DEF MoveToProcessing, Erase
  <1>4. In(inbox)' = In(inbox) \ D /\ In(processing)' = In(processing) \cup D
    BY <1>1, <1>3 DEF In
  <1>. QED BY <1>2, <1>3, <1>4

\* Between two batches nothing is in processing; a claim, complete or not,
\* keeps all of the invariant that does not speak of the batch.
LEMMA MoveKeepsFiles ==
    ASSUME IInv, phase = "polling", NEW D \in SUBSET In(inbox), MoveToProcessing(D),
           UNCHANGED <<triggers, failed, runs, submits, accepted>>
    PROVE  /\ In(processing) = {}
           /\ Counts' /\ SubmitsBounded' /\ NothingLost'
           /\ In(inbox)' \cup In(processing)' \cup In(failed)' \subseteq accepted'
           /\ In(inbox)' \cap In(failed)' = {}
           /\ In(processing)' \cap (In(failed)' \cup In(inbox)') = {}
  <1>. USE TriggersAssumption DEF TriggersAssumption, IInv
  <1>1. In(processing) = {}
    BY DEF BatchOwned, Directories, Up, InBatch
  <1>2. /\ In(inbox)' = In(inbox) \ D
        /\ In(processing)' = In(processing) \cup D
        /\ \A d \in D : processing'[d] = inbox[d]
        /\ \A d \in Deliveries \ D :
              inbox'[d] = inbox[d] /\ processing'[d] = processing[d]
    BY MoveFacts
  <1>3. In(failed)' = In(failed)
    BY DEF In
  <1>4. D \subseteq Deliveries /\ In(inbox)' \subseteq Deliveries \ D
    BY <1>2 DEF In
  <1>5. \A d \in D : inbox[d] \in Nat /\ submits[d] \in Nat
    BY <1>4 DEF In, TypeOK, Attempts
  <1>6. Counts'
    <2>1. \A d \in In(inbox)' : inbox'[d] < MaxAttempts /\ submits[d] <= inbox'[d]
      BY <1>2, <1>4 DEF Counts
    <2>2. \A d \in In(processing)' :
             processing'[d] < MaxAttempts /\ submits[d] <= processing'[d] + 1
      BY <1>1, <1>2, <1>5 DEF Counts
    <2>. QED BY <2>1, <2>2 DEF Counts
  <1>7. SubmitsBounded'
    BY DEF SubmitsBounded
  <1>8. NothingLost'
    BY <1>2, <1>3 DEF NothingLost, Deleted
  <1>. QED BY <1>1, <1>2, <1>3, <1>6, <1>7, <1>8 DEF Directories

\* The batch holds exactly what was claimed.
LEMMA ClaimKeepsIInv ==
    ASSUME IInv, Claim
    PROVE  IInv'
  <1>. USE TriggersAssumption DEF TriggersAssumption
  <1>. DEFINE D == Oldest(BatchSize)
  <1>1. D \in SUBSET In(inbox) /\ D \subseteq Deliveries /\ IsFiniteSet(D)
    BY FS_Subset DEF Oldest, In
  <1>2. Cardinality(D) \in Nat
    BY <1>1, FS_CardinalityType
  <1>3. /\ phase = "polling" /\ phase' = "delivering"
        /\ MoveToProcessing(D)
        /\ UNCHANGED <<triggers, failed, runs, submits, accepted, crashes>>
    BY DEF Claim, history
  <1>4. PICK q \in Orders(D) :
           batch' = [i \in DOMAIN q |-> [id |-> q[i], attempts |-> inbox[q[i]]]]
    BY DEF Claim
  <1>5. /\ q \in [1 .. Cardinality(D) -> D] /\ DOMAIN q = 1 .. Cardinality(D)
        /\ \A d \in D : \E i \in DOMAIN q : q[i] = d
        /\ \A i, j \in DOMAIN q : i < j => q[i] < q[j]
    BY DEF Orders
  <1>6. \A i \in DOMAIN q : q[i] \in D /\ q[i] \in Nat
    BY <1>1, <1>5
  <1>7. \A i, j \in DOMAIN q : q[i] = q[j] => i = j
    <2>. SUFFICES ASSUME NEW i \in DOMAIN q, NEW j \in DOMAIN q, i # j
                  PROVE  q[i] # q[j]
      OBVIOUS
    <2>1. i < j \/ j < i
      BY <1>2, <1>5
    <2>. QED BY <2>1, <1>5, <1>6
  <1>8. /\ DOMAIN batch' = DOMAIN q
        /\ \A i \in DOMAIN q : batch'[i].id = q[i] /\ batch'[i].attempts = inbox[q[i]]
    BY <1>4
  <1>9. \A d \in D : /\ inbox[d] \in Attempts /\ inbox[d] \in Nat
                     /\ inbox[d] < MaxAttempts /\ submits[d] <= inbox[d]
    BY <1>1 DEF IInv, TypeOK, Counts, In, Attempts
  <1>10. batch' \in Seq(Claims)
    <2>1. \A i \in 1 .. Cardinality(D) :
             [id |-> q[i], attempts |-> inbox[q[i]]] \in Claims
      BY <1>1, <1>5, <1>6, <1>9 DEF Claims
    <2>2. batch' \in [1 .. Cardinality(D) -> Claims]
      BY <2>1, <1>4, <1>5
    <2>. QED BY <2>2, <1>2
  <1>11. /\ In(processing) = {}
         /\ Counts' /\ SubmitsBounded' /\ NothingLost'
         /\ In(inbox)' \cup In(processing)' \cup In(failed)' \subseteq accepted'
         /\ In(inbox)' \cap In(failed)' = {}
         /\ In(processing)' \cap (In(failed)' \cup In(inbox)') = {}
    BY <1>1, <1>3, MoveKeepsFiles
  <1>12. /\ inbox' \in [Deliveries -> Attempts \cup {NoFile}]
         /\ processing' \in [Deliveries -> Attempts \cup {NoFile}]
         /\ In(processing)' = In(processing) \cup D
         /\ \A d \in D : processing'[d] = inbox[d]
    BY <1>1, <1>3, MoveFacts DEF IInv
  <1>13. TypeOK'
    BY <1>3, <1>10, <1>12 DEF IInv, TypeOK
  <1>14. Directories'
    <2>1. In(processing)' \subseteq InBatch'
      BY <1>5, <1>8, <1>11, <1>12 DEF InBatch
    <2>. QED BY <2>1, <1>11 DEF Directories
  <1>15. BatchOwned'
    <2>1. ASSUME NEW i \in DOMAIN batch' PROVE Held(i)'
      <3>1. /\ batch'[i].id \in D /\ batch'[i].attempts = inbox[batch'[i].id]
        BY <1>6, <1>8
      <3>2. batch'[i].id \in In(processing)'
        BY <3>1, <1>12
      <3>3. Uncounted(i)' = 0
        BY <1>3 DEF Uncounted
      <3>. QED BY <3>1, <3>2, <3>3, <1>3, <1>9, <1>11, <1>12 DEF Held
    <2>2. \A i, j \in DOMAIN batch' : batch'[i].id = batch'[j].id => i = j
      BY <1>7, <1>8
    <2>. QED BY <2>1, <2>2, <1>3 DEF BatchOwned
  <1>. QED BY <1>11, <1>13, <1>14, <1>15 DEF IInv


\* What a claim moved before the gateway died waits in processing.
LEMMA ExitInClaimKeepsIInv ==
    ASSUME IInv, ExitInClaim
    PROVE  IInv'
  <1>. USE TriggersAssumption DEF TriggersAssumption
  <1>1. PICK n \in 1 .. BatchSize : MoveToProcessing(Oldest(n))
    BY DEF ExitInClaim
  <1>2. /\ phase = "polling" /\ phase' = "down" /\ batch' = <<>>
        /\ crashes' \in 0 .. MaxCrashes
        /\ UNCHANGED <<triggers, failed, runs, submits, accepted>>
    BY DEF ExitInClaim, Exit, IInv, TypeOK
  <1>3. Oldest(n) \in SUBSET In(inbox)
    BY DEF Oldest
  <1>4. /\ In(processing) = {}
        /\ Counts' /\ SubmitsBounded' /\ NothingLost'
        /\ In(inbox)' \cup In(processing)' \cup In(failed)' \subseteq accepted'
        /\ In(inbox)' \cap In(failed)' = {}
        /\ In(processing)' \cap (In(failed)' \cup In(inbox)') = {}
    BY <1>1, <1>2, <1>3, MoveKeepsFiles
  <1>5. /\ inbox' \in [Deliveries -> Attempts \cup {NoFile}]
        /\ processing' \in [Deliveries -> Attempts \cup {NoFile}]
    BY <1>1, <1>3, MoveFacts DEF IInv
  <1>6. TypeOK'
    <2>1. <<>> \in Seq(Claims)
      OBVIOUS
    <2>. QED BY <1>2, <1>5, <2>1 DEF IInv, TypeOK
  <1>7. Directories' /\ BatchOwned'
    BY <1>2, <1>4 DEF Directories, BatchOwned, Up
  <1>. QED BY <1>4, <1>6, <1>7 DEF IInv
-----------------------------------------------------------------------------
(* Handling the first claim of the batch *)

\* What is known of the claim at the head of the batch.
LEMMA CurrentFacts ==
    ASSUME IInv, batch # <<>>
    PROVE  /\ 1 \in DOMAIN batch /\ Current = batch[1]
           /\ Current.id \in Deliveries /\ Current.id \in accepted
           /\ Current.attempts \in Nat /\ Current.attempts < MaxAttempts
           /\ Held(1) /\ Up
           /\ Current.id \notin In(inbox) \cup In(failed)
           /\ processing[Current.id] \in {NoFile, Current.attempts}
           /\ Deleted(Current.id) \/ Current.id \in In(processing)
           /\ submits[Current.id] \in Nat
           /\ submits[Current.id] <= Current.attempts + Uncounted(1)
  <1>1. batch \in Seq(Claims)
    BY DEF IInv, TypeOK
  <1>2. 1 \in DOMAIN batch /\ Current = batch[1]
    BY <1>1 DEF Current
  <1>3. Held(1) /\ Up
    BY <1>2 DEF IInv, BatchOwned, Up
  <1>4. Current.id \in Deliveries /\ Current.attempts \in Nat
    BY <1>1, <1>2, BatchTypes
  <1>5. submits[Current.id] \in Nat
    BY <1>4 DEF IInv, TypeOK
  <1>. QED BY <1>2, <1>3, <1>4, <1>5 DEF Held

\* The batch without its first claim.
LEMMA RestFacts ==
    ASSUME IInv, batch # <<>>
    PROVE  /\ Tail(batch) \in Seq(Claims)
           /\ \A i \in DOMAIN Tail(batch) :
                 i \in Nat /\ i + 1 \in DOMAIN batch /\ Tail(batch)[i] = batch[i + 1]
           /\ \A i \in DOMAIN Tail(batch) : Tail(batch)[i].id # Current.id
           /\ \A d \in InBatch \ {Current.id} :
                 \E i \in DOMAIN Tail(batch) : Tail(batch)[i].id = d
  <1>1. batch \in Seq(Claims) /\ Len(batch) \in Nat \ {0}
    BY DEF IInv, TypeOK
  <1>2. /\ Tail(batch) \in Seq(Claims)
        /\ DOMAIN Tail(batch) = 1 .. Len(batch) - 1
        /\ DOMAIN batch = 1 .. Len(batch)
        /\ \A i \in 1 .. Len(batch) - 1 : Tail(batch)[i] = batch[i + 1]
    BY <1>1
  <1>3. \A i \in DOMAIN Tail(batch) :
           i \in Nat /\ i + 1 \in DOMAIN batch /\ Tail(batch)[i] = batch[i + 1]
    BY <1>1, <1>2
  <1>4. ASSUME NEW i \in DOMAIN Tail(batch) PROVE Tail(batch)[i].id # Current.id
    <2>1. i + 1 \in DOMAIN batch /\ i + 1 # 1
      BY <1>2, <1>3
    <2>. QED BY <2>1, <1>3, CurrentFacts DEF IInv, BatchOwned
  <1>5. ASSUME NEW d \in InBatch \ {Current.id}
        PROVE  \E i \in DOMAIN Tail(batch) : Tail(batch)[i].id = d
    <2>1. PICK j \in DOMAIN batch : batch[j].id = d
      BY DEF InBatch
    <2>2. j # 1
      BY <2>1, CurrentFacts
    <2>3. j - 1 \in DOMAIN Tail(batch) /\ (j - 1) + 1 = j
      BY <1>1, <1>2, <2>2
    <2>. QED BY <2>1, <2>3, <1>3
  <1>. QED BY <1>2, <1>3, <1>4, <1>5

\* Going on to the next claim: nothing has changed for the rest of the batch.
LEMMA ProceedKeepsBatch ==
    ASSUME IInv, batch # <<>>, Proceed,
           UNCHANGED <<triggers, submits, accepted>>,
           \A d \in Deliveries \ {Current.id} :
              /\ inbox'[d] = inbox[d]
              /\ processing'[d] = processing[d]
              /\ failed'[d] = failed[d]
    PROVE  /\ BatchOwned'
           /\ batch' \in Seq(Claims)
           /\ phase' \in {"polling", "delivering"}
           /\ InBatch \ {Current.id} \subseteq InBatch'
  <1>1. batch' = Tail(batch) /\ phase' \in {"polling", "delivering"}
        /\ (phase' = "polling" => batch' = <<>>)
    BY DEF Proceed
  <1>2. batch' \in Seq(Claims) /\ InBatch \ {Current.id} \subseteq InBatch'
    <2>1. batch' \in Seq(Claims)
      BY <1>1, RestFacts
    <2>2. ASSUME NEW d \in InBatch \ {Current.id} PROVE d \in InBatch'
      <3>1. PICK i \in DOMAIN Tail(batch) : Tail(batch)[i].id = d
        BY RestFacts
      <3>. QED BY <1>1, <3>1 DEF InBatch
    <2>. QED BY <2>1, <2>2
  <1>3. ASSUME NEW i \in DOMAIN batch' PROVE Held(i)'
    <2>1. /\ i \in Nat /\ i + 1 \in DOMAIN batch
          /\ batch'[i] = batch[i + 1]
          /\ batch[i + 1].id # Current.id
      BY <1>1, RestFacts
    <2>2. /\ batch[i + 1].id \in Deliveries /\ batch[i + 1].attempts \in Nat
          /\ Held(i + 1)
      BY <2>1, BatchTypes DEF IInv, TypeOK, BatchOwned
    <2>3. Uncounted(i + 1) = 0 /\ Uncounted(i)' = 0
      BY <1>1, <2>1 DEF Uncounted
    <2>. QED BY <2>1, <2>2, <2>3 DEF Held, In, Deleted
  <1>4. \A i, j \in DOMAIN batch' : batch'[i].id = batch'[j].id => i = j
    <2>1. \A i \in DOMAIN batch' :
             i \in Nat /\ i + 1 \in DOMAIN batch /\ batch'[i] = batch[i + 1]
      BY <1>1, RestFacts
    <2>. QED BY <2>1 DEF IInv, BatchOwned
  <1>5. phase' \in {"down", "polling"} => batch' = <<>>
    BY <1>1
  <1>. QED BY <1>1, <1>2, <1>3, <1>4, <1>5 DEF BatchOwned


\* A submission is covered by the attempt that the claim still has.
LEMMA SubmitKeepsIInv ==
    ASSUME IInv, Submit
    PROVE  IInv'
  <1>. USE TriggersAssumption DEF TriggersAssumption
  <1>. DEFINE c == Current.id
  <1>1. /\ batch # <<>> /\ phase = "delivering" /\ phase' = "waiting"
        /\ triggers[TriggerOf[c]] = "enabled"
        /\ runs' = [runs EXCEPT ![c] = "processing"]
        /\ submits' = [submits EXCEPT ![c] = @ + 1]
        /\ UNCHANGED <<triggers, inbox, processing, failed, batch, accepted, crashes>>
    BY DEF Submit, Handling, Deliverable, HoldOnSubmit, history
  <1>2. /\ 1 \in DOMAIN batch /\ Current = batch[1]
        /\ c \in Deliveries /\ c \in accepted
        /\ Current.attempts \in Nat /\ Current.attempts < MaxAttempts
        /\ c \notin In(inbox) \cup In(failed)
        /\ processing[c] \in {NoFile, Current.attempts}
        /\ Deleted(c) \/ c \in In(processing)
        /\ submits[c] \in Nat /\ submits[c] <= Current.attempts + Uncounted(1)
    BY <1>1, CurrentFacts
  <1>3. c \in In(processing)
    BY <1>1, <1>2 DEF Deleted
  <1>4. submits[c] <= Current.attempts /\ processing[c] = Current.attempts
    BY <1>1, <1>2, <1>3 DEF Uncounted, In
  <1>5. /\ submits' \in [Deliveries -> Nat] /\ runs' \in [Deliveries -> Statuses]
        /\ submits'[c] = submits[c] + 1
        /\ \A d \in Deliveries \ {c} : submits'[d] = submits[d] /\ runs'[d] = runs[d]
    BY <1>1, <1>2 DEF IInv, TypeOK, Statuses
  <1>6. TypeOK'
    BY <1>1, <1>5 DEF IInv, TypeOK
  <1>7. /\ In(inbox)' = In(inbox) /\ In(processing)' = In(processing)
        /\ In(failed)' = In(failed) /\ InBatch' = InBatch /\ Up /\ Up'
    BY <1>1 DEF In, InBatch, Up
  <1>8. Counts'
    <2>1. \A d \in In(inbox) : inbox[d] < MaxAttempts /\ submits'[d] <= inbox[d]
      BY <1>2, <1>5 DEF IInv, Counts, In
    <2>2. ASSUME NEW d \in In(processing)
          PROVE  processing[d] < MaxAttempts /\ submits'[d] <= processing[d] + 1
      BY <1>2, <1>4, <1>5 DEF IInv, Counts, In
    <2>3. \A d \in Deliveries \ accepted : submits'[d] = 0
      BY <1>2, <1>5 DEF IInv, Counts
    <2>. QED BY <1>1, <1>7, <2>1, <2>2, <2>3 DEF Counts
  <1>9. SubmitsBounded'
    BY <1>2, <1>4, <1>5 DEF IInv, SubmitsBounded
  <1>10. NothingLost'
    BY <1>1, <1>3, <1>5, <1>7 DEF IInv, NothingLost, Deleted
  <1>11. Directories'
    BY <1>1, <1>7 DEF IInv, Directories
  <1>12. BatchOwned'
    <2>1. ASSUME NEW i \in DOMAIN batch PROVE Held(i)'
      <3>1. CASE i = 1
        BY <3>1, <1>1, <1>2, <1>3, <1>4, <1>5, <1>7 DEF Held, Uncounted
      <3>2. CASE i # 1
        <4>1. Held(i) /\ batch[i].id # c
          BY <3>2, <1>2 DEF IInv, BatchOwned
        <4>2. batch[i].id \in Deliveries /\ Uncounted(i) = 0 /\ Uncounted(i)' = 0
          BY <3>2, BatchTypes DEF IInv, TypeOK, Uncounted
        <4>. QED BY <4>1, <4>2, <1>1, <1>5, <1>7 DEF Held, Deleted
      <3>. QED BY <3>1, <3>2
    <2>. QED BY <2>1, <1>1 DEF IInv, BatchOwned
  <1>. QED BY <1>6, <1>8, <1>9, <1>10, <1>11, <1>12 DEF IInv

\* A delivery that ended says so in its record before its file is removed.
LEMMA CompleteKeepsIInv ==
    ASSUME IInv, Complete
    PROVE  IInv'
  <1>. DEFINE c == Current.id
  <1>1. PICK status \in {"ok", "error"} :
           Ending(status) /\ runs' = [runs EXCEPT ![c] = status]
    BY DEF Complete
  <1>2. /\ batch # <<>> /\ Proceed
        /\ processing' = Erase(processing, {c})
        /\ UNCHANGED <<triggers, inbox, failed, submits, accepted, crashes>>
    BY <1>1 DEF Complete, Ending, Handling, history
  <1>3. c \in Deliveries /\ Up
    BY <1>2, CurrentFacts
  <1>4. /\ processing'[c] = NoFile
        /\ \A d \in Deliveries \ {c} : processing'[d] = processing[d] /\ runs'[d] = runs[d]
        /\ runs'[c] \in {"ok", "error"}
        /\ processing' \in [Deliveries -> Attempts \cup {NoFile}]
        /\ runs' \in [Deliveries -> Statuses]
    <2>1. processing \in [Deliveries -> Attempts \cup {NoFile}] /\ runs \in [Deliveries -> Statuses]
      BY DEF IInv, TypeOK
    <2>2. status \in Statuses
      BY DEF Statuses
    <2>3. runs' \in [Deliveries -> Statuses] /\ runs'[c] = status
          /\ \A d \in Deliveries \ {c} : runs'[d] = runs[d]
      BY <2>1, <2>2, <1>1, <1>3
    <2>4. /\ processing'[c] = NoFile
          /\ \A d \in Deliveries \ {c} : processing'[d] = processing[d]
          /\ processing' \in [Deliveries -> Attempts \cup {NoFile}]
      BY <2>1, <1>2, <1>3 DEF Erase
    <2>. QED BY <2>3, <2>4
  <1>5. /\ In(inbox)' = In(inbox) /\ In(failed)' = In(failed)
        /\ In(processing)' = In(processing) \ {c}
    BY <1>2, <1>3, <1>4 DEF In
  <1>6. /\ BatchOwned' /\ batch' \in Seq(Claims)
        /\ phase' \in {"polling", "delivering"}
        /\ InBatch \ {c} \subseteq InBatch'
    BY <1>2, <1>4, ProceedKeepsBatch
  <1>7. TypeOK'
    BY <1>2, <1>4, <1>6 DEF IInv, TypeOK
  <1>8. Counts' /\ SubmitsBounded'
    BY <1>2, <1>3, <1>4, <1>5 DEF IInv, Counts, SubmitsBounded, In
  <1>9. NothingLost'
    BY <1>2, <1>4, <1>5 DEF IInv, NothingLost, Deleted, TypeOK
  <1>10. Directories'
    <2>1. /\ In(failed)' \cap In(processing)' \subseteq Deliveries \ {c}
          /\ In(inbox)' \cap In(processing)' \subseteq Deliveries \ {c}
      BY <1>5 DEF In
    <2>2. /\ \A d \in In(failed)' \cap In(processing)' : LastAttempt(processing'[d])
          /\ \A d \in In(inbox)' \cap In(processing)' : ~LastAttempt(processing'[d])
      BY <2>1, <1>4, <1>5 DEF IInv, Directories
    <2>. QED BY <2>2, <1>2, <1>3, <1>5, <1>6 DEF IInv, Directories
  <1>. QED BY <1>6, <1>7, <1>8, <1>9, <1>10 DEF IInv

\* The gateway dies and leaves the files as they are.
LEMMA ExitKeepsIInv ==
    ASSUME IInv, Exit, UNCHANGED <<triggers, files, submits, accepted>>,
           runs' \in [Deliveries -> Statuses],
           NothingLost'
    PROVE  IInv'
  <1>1. /\ phase' = "down" /\ batch' = <<>>
        /\ crashes' \in 0 .. MaxCrashes
        /\ UNCHANGED <<inbox, processing, failed>>
    BY TriggersAssumption DEF Exit, files, IInv, TypeOK, TriggersAssumption
  <1>2. TypeOK'
    <2>1. <<>> \in Seq(Claims)
      OBVIOUS
    <2>. QED BY <1>1, <2>1 DEF IInv, TypeOK
  <1>3. Counts' /\ SubmitsBounded'
    BY <1>1 DEF IInv, Counts, SubmitsBounded, In
  <1>4. Directories' /\ BatchOwned'
    <2>1. /\ In(inbox)' = In(inbox) /\ In(processing)' = In(processing)
          /\ In(failed)' = In(failed) /\ ~Up'
      BY <1>1 DEF In, Up
    <2>. QED BY <1>1, <2>1 DEF IInv, Directories, BatchOwned
  <1>. QED BY <1>2, <1>3, <1>4 DEF IInv

\* An exit between the record and the removal of the file, or anywhere else.
LEMMA CrashKeepsIInv ==
    ASSUME IInv, ExitInComplete \/ Crash
    PROVE  IInv'
  <1>1. CASE ExitInComplete
    <2>1. PICK status \in {"ok", "error"} :
             Ending(status) /\ runs' = [runs EXCEPT ![Current.id] = status]
      BY <1>1 DEF ExitInComplete
    <2>2. /\ Exit /\ UNCHANGED <<triggers, files, submits, accepted>>
          /\ batch # <<>>
      BY <1>1, <2>1 DEF ExitInComplete, Ending, Handling
    <2>3. Current.id \in Deliveries
      BY <2>2, CurrentFacts
    <2>4. /\ runs' \in [Deliveries -> Statuses]
          /\ runs'[Current.id] \in {"ok", "error"}
          /\ \A d \in Deliveries \ {Current.id} : runs'[d] = runs[d]
      BY <2>1, <2>3 DEF IInv, TypeOK, Statuses
    <2>5. NothingLost'
      BY <2>2, <2>4 DEF IInv, TypeOK, NothingLost, Deleted, In, files
    <2>. QED BY <2>2, <2>4, <2>5, ExitKeepsIInv
  <1>2. CASE Crash
    <2>1. NothingLost'
      BY <1>2 DEF Crash, files, IInv, NothingLost, Deleted, In
    <2>2. runs' \in [Deliveries -> Statuses]
      BY <1>2 DEF Crash, IInv, TypeOK
    <2>. QED BY <1>2, <2>1, <2>2, ExitKeepsIInv DEF Crash
  <1>. QED BY <1>1, <1>2


\* Requeueing the first claim, its original removed or (only when the gateway
\* dies) still there.
LEMMA RequeueKeepsIInv ==
    ASSUME IInv, batch # <<>>,
           NEW gone \in SUBSET {Current.id},
           Requeue(CurrentCount, {Current.id}, gone),
           UNCHANGED <<triggers, submits, accepted>>,
           crashes' \in 0 .. MaxCrashes,
           runs' \in [Deliveries -> Statuses],
           \A d \in Deliveries \ {Current.id} : runs'[d] = runs[d],
           \/ phase' = "down" /\ batch' = <<>>
           \/ Proceed /\ gone = {Current.id}
    PROVE  IInv'
  <1>. USE TriggersAssumption DEF TriggersAssumption
  <1>. DEFINE c == Current.id
              n == Current.attempts
  <1>1. /\ 1 \in DOMAIN batch /\ Current = batch[1]
        /\ c \in Deliveries /\ c \in accepted
        /\ n \in Nat /\ n < MaxAttempts /\ Up
        /\ c \notin In(inbox) \cup In(failed)
        /\ processing[c] \in {NoFile, n}
        /\ submits[c] \in Nat /\ submits[c] <= n + Uncounted(1)
    BY CurrentFacts
  <1>2. CurrentCount[c] = n
    BY DEF CurrentCount
  <1>3. Requeued(CurrentCount, {c}, gone)
    <2>1. {c} \in SUBSET Deliveries
      BY <1>1
    <2>2. \A d \in {c} : CurrentCount[d] \in Nat /\ CurrentCount[d] < MaxAttempts
      BY <1>1, <1>2
    <2>. QED BY <2>1, <2>2, RequeueFacts DEF IInv
  <1>4. /\ inbox' \in [Deliveries -> Attempts \cup {NoFile}]
        /\ processing' \in [Deliveries -> Attempts \cup {NoFile}]
        /\ failed' \in [Deliveries -> Attempts \cup {NoFile}]
        /\ \A d \in Deliveries \ {c} : /\ inbox'[d] = inbox[d]
                                       /\ failed'[d] = failed[d]
                                       /\ processing'[d] = processing[d]
        /\ c \notin gone => processing'[c] = processing[c]
        /\ LastAttempt(n) => /\ In(inbox)' = In(inbox)
                             /\ In(failed)' = In(failed) \cup {c}
        /\ ~LastAttempt(n) => /\ In(inbox)' = In(inbox) \cup {c}
                              /\ In(failed)' = In(failed)
                              /\ inbox'[c] = n + 1 /\ n + 1 < MaxAttempts
        /\ In(processing)' = In(processing) \ gone
    <2>1. /\ inbox' \in [Deliveries -> Attempts \cup {NoFile}]
          /\ processing' \in [Deliveries -> Attempts \cup {NoFile}]
          /\ failed' \in [Deliveries -> Attempts \cup {NoFile}]
          /\ In(processing)' = In(processing) \ gone
      BY <1>3 DEF Requeued
    <2>2. \A d \in Deliveries \ {c} : inbox'[d] = inbox[d] /\ failed'[d] = failed[d]
      BY <1>3 DEF Requeued
    <2>3. \A d \in Deliveries \ gone : processing'[d] = processing[d]
      BY <1>3 DEF Requeued
    <2>4. /\ In(inbox)' = In(inbox) \cup {d \in {c} : ~LastAttempt(CurrentCount[d])}
          /\ In(failed)' = In(failed) \cup {d \in {c} : LastAttempt(CurrentCount[d])}
      BY <1>3 DEF Requeued
    <2>5. ~LastAttempt(n) => inbox'[c] = n + 1 /\ n + 1 < MaxAttempts
      BY <1>2, <1>3 DEF Requeued
    <2>6. LastAttempt(n) => In(inbox)' = In(inbox) /\ In(failed)' = In(failed) \cup {c}
      BY <1>2, <2>4
    <2>7. ~LastAttempt(n) => In(inbox)' = In(inbox) \cup {c} /\ In(failed)' = In(failed)
      BY <1>2, <2>4
    <2>8. /\ \A d \in Deliveries \ {c} : processing'[d] = processing[d]
          /\ c \notin gone => processing'[c] = processing[c]
      BY <1>1, <2>3
    <2>. QED BY ONLY <2>1, <2>2, <2>5, <2>6, <2>7, <2>8
  <1>5. submits[c] <= n + 1
    BY <1>1 DEF Uncounted
  <1>6. batch' \in Seq(Claims) /\ phase' \in {"down", "polling", "delivering", "waiting", "stuck"}
        /\ BatchOwned'
    <2>1. CASE phase' = "down" /\ batch' = <<>>
      BY <2>1 DEF BatchOwned
    <2>2. CASE Proceed
      BY <2>2, <1>4, ProceedKeepsBatch
    <2>. QED BY <2>1, <2>2
  <1>7. TypeOK'
    BY <1>4, <1>6 DEF IInv, TypeOK
  <1>8. Counts'
    <2>1. ASSUME NEW d \in In(inbox)'
          PROVE  inbox'[d] < MaxAttempts /\ submits[d] <= inbox'[d]
      <3>1. CASE d = c
        BY <3>1, <1>1, <1>4, <1>5
      <3>2. CASE d # c
        <4>1. d \in In(inbox) /\ inbox'[d] = inbox[d]
          BY <3>2, <1>4 DEF In
        <4>. QED BY <4>1 DEF IInv, Counts
      <3>. QED BY <3>1, <3>2
    <2>2. ASSUME NEW d \in In(processing)'
          PROVE  processing'[d] < MaxAttempts /\ submits[d] <= processing'[d] + 1
      <3>1. d \in In(processing) /\ processing'[d] = processing[d]
        BY <1>4 DEF In
      <3>. QED BY <3>1 DEF IInv, Counts
    <2>. QED BY <2>1, <2>2 DEF IInv, Counts
  <1>9. SubmitsBounded'
    BY DEF IInv, SubmitsBounded
  <1>10. NothingLost'
    <2>1. c \in In(inbox)' \cup In(failed)'
      BY <1>4
    <2>2. \A d \in Deliveries \ {c} :
             d \in In(inbox) \cup In(processing) \cup In(failed)
             => d \in In(inbox)' \cup In(processing)' \cup In(failed)'
      BY <1>4 DEF In
    <2>3. accepted \subseteq Deliveries /\ accepted' = accepted
      BY DEF IInv, TypeOK
    <2>4. ASSUME NEW d \in accepted,
                 ~Deleted(d)', runs'[d] \notin {"ok", "error"}
          PROVE  d \in In(inbox)' \cup In(processing)' \cup In(failed)'
      <3>1. CASE d = c
        BY <2>1, <3>1
      <3>2. CASE d # c
        <4>1. runs'[d] = runs[d] /\ ~Deleted(d)
          BY <2>3, <2>4, <3>2 DEF Deleted
        <4>2. d \in In(inbox) \cup In(processing) \cup In(failed)
          BY <2>4, <4>1 DEF IInv, NothingLost
        <4>. QED BY <2>2, <2>3, <3>2, <4>2
      <3>. QED BY <3>1, <3>2
    <2>. QED BY <2>3, <2>4 DEF NothingLost
  <1>11. Directories'
    <2>1. In(inbox)' \cap In(failed)' = {}
          /\ In(inbox)' \cup In(processing)' \cup In(failed)' \subseteq accepted
      BY <1>1, <1>4 DEF IInv, Directories
    <2>2. ASSUME NEW d \in In(processing)'
          PROVE  /\ d \in In(failed)' => LastAttempt(processing'[d])
                 /\ d \in In(inbox)' => ~LastAttempt(processing'[d])
      <3>1. d \in In(processing) /\ processing'[d] = processing[d]
        BY <1>4 DEF In
      <3>2. CASE d = c
        <4>1. processing'[d] = n
          BY <3>1, <3>2, <1>1 DEF In
        <4>. QED BY <4>1, <3>2, <1>1, <1>4
      <3>3. CASE d # c
        BY <3>1, <3>3, <1>4 DEF IInv, Directories
      <3>. QED BY <3>2, <3>3
    <2>3. Up' => /\ In(inbox)' \cap In(processing)' = {}
                 /\ In(processing)' \subseteq InBatch'
      <3>1. CASE phase' = "down"
        BY <3>1 DEF Up
      <3>2. CASE Proceed /\ gone = {c}
        <4>1. InBatch \ {c} \subseteq InBatch'
          BY <3>2, <1>4, ProceedKeepsBatch
        <4>. QED BY <3>2, <4>1, <1>1, <1>4 DEF IInv, Directories
      <3>. QED BY <3>1, <3>2
    <2>. QED BY <2>1, <2>2, <2>3 DEF Directories
  <1>. QED BY <1>6, <1>7, <1>8, <1>9, <1>10, <1>11 DEF IInv

\* A retry, a retry that dies half-way, and a cancelled turn.
LEMMA RetryKeepsIInv ==
    ASSUME IInv, Retry \/ ExitInRetry \/ Cancelled
    PROVE  IInv'
  <1>. USE TriggersAssumption DEF TriggersAssumption
  <1>1. batch # <<>>
    BY DEF Retry, ExitInRetry, Cancelled, Undecided, Handling
  <1>2. Current.id \in Deliveries
    BY <1>1, CurrentFacts
  <1>3. runs \in [Deliveries -> Statuses] /\ crashes \in 0 .. MaxCrashes
    BY DEF IInv, TypeOK
  <1>4. {"error", "retrying", "interrupted"} \subseteq Statuses
    BY DEF Statuses
  <1>5. CASE Retry
    <2>1. /\ runs' \in [Deliveries -> Statuses]
          /\ \A d \in Deliveries \ {Current.id} : runs'[d] = runs[d]
      BY <1>2, <1>3, <1>4, <1>5 DEF Retry
    <2>. QED BY <1>1, <1>3, <1>5, <2>1, RequeueKeepsIInv DEF Retry, history
  <1>6. CASE ExitInRetry
    <2>1. PICK gone \in SUBSET {Current.id} : Requeue(CurrentCount, {Current.id}, gone)
      BY <1>6 DEF ExitInRetry
    <2>. QED BY <1>1, <1>3, <1>6, <2>1, RequeueKeepsIInv DEF ExitInRetry, Exit
  <1>7. CASE Cancelled
    <2>1. /\ runs' \in [Deliveries -> Statuses]
          /\ \A d \in Deliveries \ {Current.id} : runs'[d] = runs[d]
      BY <1>2, <1>3, <1>4, <1>7 DEF Cancelled
    <2>2. crashes' \in 0 .. MaxCrashes /\ phase' = "down" /\ batch' = <<>>
      BY <1>3, <1>7 DEF Cancelled, Exit
    <2>. QED BY <1>1, <1>7, <2>1, <2>2, RequeueKeepsIInv DEF Cancelled
  <1>. QED BY <1>5, <1>6, <1>7

\* A dropped turn: the runner goes on holding the claim.
LEMMA DroppedKeepsIInv ==
    ASSUME IInv, Dropped
    PROVE  IInv'
  <1>1. /\ phase = "waiting" /\ phase' = "stuck"
        /\ UNCHANGED <<triggers, inbox, processing, failed, runs, batch, submits,
                      accepted, crashes>>
    BY DEF Dropped, Handling, files, history
  <1>2. \A i \in DOMAIN batch : Uncounted(i)' = Uncounted(i)
    BY <1>1 DEF Uncounted
  <1>3. BatchOwned'
    <2>1. ASSUME NEW i \in DOMAIN batch PROVE Held(i)'
      <3>1. Held(i)
        BY DEF IInv, BatchOwned
      <3>. QED BY <3>1, <1>1, <1>2 DEF Held, In, Deleted
    <2>. QED BY <1>1, <2>1 DEF IInv, BatchOwned
  <1>4. TypeOK'
    BY <1>1 DEF IInv, TypeOK
  <1>. QED BY <1>1, <1>3, <1>4 DEF IInv, Counts, Directories, SubmitsBounded, NothingLost,
              In, Up, InBatch, Deleted
-----------------------------------------------------------------------------
(* The theorems *)

\* Every step keeps the invariant.
LEMMA NextKeepsIInv == IInv /\ [Next]_vars => IInv'
  <1>. SUFFICES ASSUME IInv, [Next]_vars PROVE IInv'
    OBVIOUS
  <1>1. CASE UNCHANGED vars
    <2>1. UNCHANGED <<triggers, inbox, processing, failed, runs, phase, batch, submits,
                      accepted, crashes>>
      BY <1>1 DEF vars, files, runner, history
    <2>. QED BY <2>1 DEF IInv, TypeOK, Counts, Directories, BatchOwned, Held,
                SubmitsBounded, NothingLost, In, Up, InBatch, Deleted, Uncounted
  <1>2. CASE Next
    <2>1. ASSUME NEW t \in Triggers, NEW to \in {"enabled", "disabled"},
                 CreateTrigger(t) \/ EnableTrigger(t, to)
          PROVE  IInv'
      BY <2>1, EditKeepsIInv
    <2>2. ASSUME NEW t \in Triggers, DeleteTrigger(t) \/ ExitInDelete(t)
          PROVE  IInv'
      BY <2>2, DeleteKeepsIInv
    <2>3. ASSUME NEW d \in Deliveries, Enqueue(d) PROVE IInv'
      BY <2>3, EnqueueKeepsIInv
    <2>4. CASE Start \/ ExitInStart
      BY <2>4, StartKeepsIInv
    <2>5. CASE ExitInClaim
      BY <2>5, ExitInClaimKeepsIInv
    <2>6. CASE Handle
      BY <2>6, ClaimKeepsIInv, SubmitKeepsIInv, CompleteKeepsIInv, RetryKeepsIInv
      DEF Handle
    <2>7. CASE ExitInComplete \/ Crash
      BY <2>7, CrashKeepsIInv
    <2>8. CASE ExitInRetry \/ Cancelled
      BY <2>8, RetryKeepsIInv
    <2>9. CASE Sleep
      BY <2>9, <1>1 DEF Sleep
    <2>10. CASE Dropped
      BY <2>10, DroppedKeepsIInv
    <2>. QED BY <1>2, <2>1, <2>2, <2>3, <2>4, <2>5, <2>6, <2>7, <2>8, <2>9, <2>10 DEF Next
  <1>. QED BY <1>1, <1>2

\* The strengthening from which the theorems below follow.
THEOREM Invariant == Spec => []IInv
  BY InitIInv, NextKeepsIInv, PTL DEF Spec

\* Type correctness of the queue.
THEOREM TypeCorrect == Spec => []TypeOK
  <1>1. IInv => TypeOK
    BY DEF IInv
  <1>. QED BY <1>1, Invariant, PTL

\* No delivery is lost, wherever the gateway or the CLI dies.
THEOREM NoDeliveryLost == Spec => []NothingLost
  <1>1. IInv => NothingLost
    BY DEF IInv
  <1>. QED BY <1>1, Invariant, PTL

\* Every claimed file has an owner and every delivery one file while the
\* gateway is up.
THEOREM ClaimsAreOwned == Spec => []ClaimsOwned
  <1>1. IInv => ClaimsOwned
    BY DEF IInv, Directories, ClaimsOwned, Up
  <1>. QED BY <1>1, Invariant, PTL

\* A delivery is submitted at most MaxAttempts times, whatever mixture of
\* crashes, cancellations and retries it meets.
THEOREM AttemptsBounded == Spec => []SubmitsBounded
  <1>1. IInv => SubmitsBounded
    BY DEF IInv
  <1>. QED BY <1>1, Invariant, PTL

\* The files keep their types and every claim its owner.
THEOREM FilesAreSound == Spec => []FilesSound
  BY TypeCorrect, ClaimsAreOwned, PTL DEF FilesSound
-----------------------------------------------------------------------------
(* The promised queue: the files and the runner implement DeliveryQueue.   *)
(* Each step of the store, of the runner, and of an exit in the middle of  *)
(* either is a step of that queue or leaves it as it is.                   *)

Bar == [d \in Deliveries |-> DeliveryState(d)]

\* The queue does not move.
Stays == Bar' = Bar /\ submits' = submits

\* What DeliveryState says, case by case.
LEMMA States ==
    ASSUME NEW d \in Deliveries
    PROVE  /\ Bar[d] = DeliveryState(d)
           /\ d \notin accepted => DeliveryState(d) = "none"
           /\ d \in accepted /\ Deleted(d) => DeliveryState(d) = "void"
           /\ d \in accepted /\ ~Deleted(d) =>
                 DeliveryState(d) = IF d \in In(inbox) \cup In(processing) THEN "pending"
                                    ELSE IF d \in In(failed) THEN "failed" ELSE "settled"
  BY DEF Bar, DeliveryState

\* A delivery whose trigger and files are where they were, or that still has
\* a file to be handled, keeps its state.
LEMMA SameState ==
    ASSUME NEW d \in Deliveries,
           d \in accepted' <=> d \in accepted,
           Deleted(d)' <=> Deleted(d),
           \/ Deleted(d)
           \/ /\ d \in In(inbox)' \cup In(processing)'
              /\ d \in In(inbox) \cup In(processing)
           \/ /\ d \notin In(inbox)' \cup In(processing)'
              /\ d \notin In(inbox) \cup In(processing)
              /\ d \in In(failed)' <=> d \in In(failed)
    PROVE  DeliveryState(d)' = DeliveryState(d)
  <1>1. CASE d \notin accepted
    BY <1>1 DEF DeliveryState
  <1>2. CASE d \in accepted /\ Deleted(d)
    BY <1>2 DEF DeliveryState
  <1>3. CASE d \in accepted /\ ~Deleted(d)
    BY <1>3 DEF DeliveryState
  <1>. QED BY <1>1, <1>2, <1>3

\* Steps that leave triggers, files and submissions alone.
LEMMA IdleStays ==
    ASSUME UNCHANGED <<inbox, processing, failed, submits, accepted>>,
           \A d \in Deliveries : Deleted(d)' <=> Deleted(d)
    PROVE  Stays
  <1>1. In(inbox)' = In(inbox) /\ In(processing)' = In(processing) /\ In(failed)' = In(failed)
    BY DEF In
  <1>2. \A d \in Deliveries : DeliveryState(d)' = DeliveryState(d)
    BY <1>1, SameState
  <1>. QED BY <1>2 DEF Bar, Stays
-----------------------------------------------------------------------------
\* The deletion of a trigger, complete or not, voids what was accepted for it.
LEMMA DeleteVoids ==
    ASSUME IInv, NEW t \in Triggers, DeleteTrigger(t) \/ ExitInDelete(t)
    PROVE  \E D \in SUBSET Deliveries : Promise!Void(D)
  <1>. DEFINE D == Of(t) \cap accepted
  <1>1. /\ triggers[t] # "deleted" /\ triggers' = [triggers EXCEPT ![t] = "deleted"]
        /\ UNCHANGED <<submits, accepted>>
        /\ \E E \in SUBSET Of(t) :
              /\ inbox' = Erase(inbox, E)
              /\ processing' = Erase(processing, E)
              /\ failed' = Erase(failed, E)
    BY DEF DeleteTrigger, ExitInDelete, RemoveTrigger, history
  <1>2. \A d \in Deliveries :
           /\ Deleted(d)' <=> Deleted(d) \/ d \in Of(t)
           /\ d \in Of(t) => ~Deleted(d)
    BY <1>1, TriggersAssumption DEF Deleted, Of, IInv, TypeOK, TriggersAssumption
  <1>3. D \in SUBSET Deliveries
    BY DEF Of
  <1>4. \A d \in D : Bar[d] \notin {"none", "void"}
    BY <1>2, <1>3, States
  <1>5. ASSUME NEW d \in Deliveries
        PROVE  DeliveryState(d)' = IF d \in D THEN "void" ELSE Bar[d]
    <2>1. CASE d \in D
      BY <1>1, <1>2, <1>3, <2>1 DEF DeliveryState
    <2>2. CASE d \notin Of(t)
      <3>1. /\ d \in In(inbox)' <=> d \in In(inbox)
            /\ d \in In(processing)' <=> d \in In(processing)
            /\ d \in In(failed)' <=> d \in In(failed)
        BY <1>1, <2>2 DEF In, Erase
      <3>. QED BY <1>1, <1>2, <2>2, <3>1, SameState, States
    <2>3. CASE d \in Of(t) \ accepted
      BY <1>1, <2>3, States DEF DeliveryState
    <2>. QED BY <2>1, <2>2, <2>3
  <1>6. Bar' = [d \in Deliveries |-> IF d \in D THEN "void" ELSE Bar[d]]
    BY <1>5 DEF Bar
  <1>7. Promise!Void(D)
    BY <1>1, <1>4, <1>6 DEF Promise!Void, Bar
  <1>. QED BY <1>3, <1>7

\* An enqueued delivery is accepted.
LEMMA EnqueueAccepts ==
    ASSUME IInv, NEW e \in Deliveries, Enqueue(e)
    PROVE  Promise!Accept(e)
  <1>. USE TriggersAssumption DEF TriggersAssumption
  <1>1. /\ e \notin accepted /\ accepted' = accepted \cup {e} /\ ~Deleted(e)
        /\ inbox' = [inbox EXCEPT ![e] = 0]
        /\ UNCHANGED <<triggers, processing, failed, submits>>
    BY DEF Enqueue, Deleted
  <1>2. /\ In(inbox)' = In(inbox) \cup {e}
        /\ In(processing)' = In(processing) /\ In(failed)' = In(failed)
        /\ \A d \in Deliveries : Deleted(d)' <=> Deleted(d)
    BY <1>1 DEF In, Deleted, IInv, TypeOK
  <1>3. Bar[e] = "none"
    BY <1>1, States
  <1>4. DeliveryState(e)' = "pending"
    BY <1>1, <1>2 DEF DeliveryState
  <1>5. \A d \in Deliveries \ {e} : DeliveryState(d)' = Bar[d]
    BY <1>1, <1>2, SameState, States
  <1>6. Bar' = [Bar EXCEPT ![e] = "pending"]
    BY <1>4, <1>5 DEF Bar
  <1>. QED BY <1>1, <1>3, <1>6 DEF Promise!Accept, Bar

\* A claim moves files that stay pending.
LEMMA MoveStays ==
    ASSUME IInv, NEW D \in SUBSET In(inbox), MoveToProcessing(D),
           UNCHANGED <<triggers, failed, submits, accepted>>
    PROVE  Stays
  <1>1. In(inbox)' = In(inbox) \ D /\ In(processing)' = In(processing) \cup D
    BY MoveFacts DEF IInv
  <1>2. In(failed)' = In(failed) /\ \A d \in Deliveries : Deleted(d)' <=> Deleted(d)
    BY DEF In, Deleted
  <1>3. \A d \in Deliveries : DeliveryState(d)' = DeliveryState(d)
    BY <1>1, <1>2, SameState
  <1>. QED BY <1>3 DEF Bar, Stays
-----------------------------------------------------------------------------
\* Requeueing files that are claimed: the originals removed at their last
\* attempt fail, everything else is pending still.
LEMMA RequeueFails ==
    ASSUME IInv, NEW count, NEW D \in SUBSET accepted, NEW gone \in SUBSET D,
           Requeued(count, D, gone),
           \A d \in D : Deleted(d) \/ d \in In(processing),
           \A d \in gone : LastAttempt(count[d]) => d \notin In(inbox),
           UNCHANGED <<triggers, submits, accepted>>
    PROVE  Stays \/ \E F \in SUBSET Deliveries : Promise!Fail(F)
  <1>. DEFINE F == {d \in gone : ~Deleted(d) /\ LastAttempt(count[d])}
  <1>1. F \in SUBSET Deliveries /\ D \subseteq Deliveries
    BY DEF IInv, TypeOK
  <1>2. /\ In(inbox)' = In(inbox) \cup {d \in D : ~LastAttempt(count[d])}
        /\ In(failed)' = In(failed) \cup {d \in D : LastAttempt(count[d])}
        /\ In(processing)' = In(processing) \ gone
        /\ \A d \in Deliveries : Deleted(d)' <=> Deleted(d)
    BY DEF Requeued, Deleted
  <1>3. \A d \in F : Bar[d] = "pending"
    BY <1>1, States
  <1>4. ASSUME NEW d \in Deliveries
        PROVE  DeliveryState(d)' = IF d \in F THEN "failed" ELSE Bar[d]
    <2>1. CASE d \in F
      <3>1. d \in accepted' /\ ~Deleted(d)' /\ d \in In(failed)'
        BY <1>2, <2>1
      <3>2. d \notin In(inbox)' /\ d \notin In(processing)'
        BY <1>2, <2>1
      <3>. QED BY <2>1, <3>1, <3>2 DEF DeliveryState
    <2>2. CASE d \notin F
      <3>1. CASE d \in D
        BY <1>2, <2>2, <3>1, SameState, States
      <3>2. CASE d \notin D
        BY <1>2, <2>2, <3>2, SameState, States
      <3>. QED BY <3>1, <3>2
    <2>. QED BY <2>1, <2>2
  <1>5. Bar' = [d \in Deliveries |-> IF d \in F THEN "failed" ELSE Bar[d]]
    BY <1>4 DEF Bar
  <1>6. CASE F = {}
    <2>1. \A d \in Deliveries : DeliveryState(d)' = DeliveryState(d)
      BY <1>4, <1>6, States
    <2>. QED BY <2>1 DEF Bar, Stays
  <1>7. CASE F # {}
    <2>1. Promise!Fail(F)
      BY <1>3, <1>5, <1>7 DEF Promise!Fail, Promise!Pending, Bar
    <2>. QED BY <1>1, <2>1
  <1>. QED BY <1>6, <1>7

\* Recovery, complete or not: what was at its last attempt fails.
LEMMA RecoverFails ==
    ASSUME IInv, Start \/ ExitInStart
    PROVE  Stays \/ \E F \in SUBSET Deliveries : Promise!Fail(F)
  <1>. USE TriggersAssumption DEF TriggersAssumption
  <1>1. /\ UNCHANGED <<triggers, submits, accepted>>
        /\ \E D \in SUBSET In(processing) : \E gone \in SUBSET D :
              Requeue(processing, D, gone)
    <2>1. CASE Start
      BY <2>1 DEF Start, history
    <2>2. CASE ExitInStart
      <3>1. PICK d \in In(processing), copied \in BOOLEAN :
               LET before == {e \in In(processing) : e < d}
               IN Requeue(processing, before \cup (IF copied THEN {d} ELSE {}), before)
        BY <2>2 DEF ExitInStart
      <3>2. UNCHANGED <<triggers, submits, accepted>>
        BY <2>2 DEF ExitInStart
      <3>. QED BY <3>1, <3>2
    <2>. QED BY <2>1, <2>2
  <1>2. PICK D \in SUBSET In(processing), gone \in SUBSET In(processing) :
           gone \subseteq D /\ Requeue(processing, D, gone)
    BY <1>1
  <1>3. /\ \A d \in In(processing) : processing[d] \in Nat /\ processing[d] < MaxAttempts
        /\ D \in SUBSET Deliveries
    BY DEF In, IInv, TypeOK, Attempts, Counts
  <1>4. Requeued(processing, D, gone)
    BY <1>2, <1>3, RequeueFacts DEF IInv
  <1>5. D \in SUBSET accepted
    BY DEF IInv, Directories
  <1>6. \A d \in gone : LastAttempt(processing[d]) => d \notin In(inbox)
    BY DEF IInv, Directories
  <1>. QED BY <1>1, <1>2, <1>4, <1>5, <1>6, RequeueFails
-----------------------------------------------------------------------------
\* A turn is submitted for a pending delivery with an attempt left.
LEMMA SubmitSubmits ==
    ASSUME IInv, Submit
    PROVE  \E d \in Deliveries : Promise!Submit(d)
  <1>. USE TriggersAssumption DEF TriggersAssumption
  <1>1. /\ batch # <<>> /\ phase = "delivering" /\ Deliverable(Current.id)
        /\ submits' = [submits EXCEPT ![Current.id] = @ + 1]
        /\ UNCHANGED <<triggers, inbox, processing, failed, accepted>>
    BY DEF Submit, Handling, HoldOnSubmit, history
  <1>2. /\ Current.id \in Deliveries /\ Current.id \in accepted
        /\ Deleted(Current.id) \/ Current.id \in In(processing)
        /\ submits[Current.id] \in Nat /\ Current.attempts \in Nat
        /\ Current.attempts < MaxAttempts
        /\ submits[Current.id] <= Current.attempts
    BY <1>1, CurrentFacts DEF Uncounted
  <1>3. ~Deleted(Current.id)
    BY <1>1 DEF Deliverable, Deleted
  <1>4. Bar[Current.id] = "pending"
    BY <1>2, <1>3, States
  <1>5. submits[Current.id] < MaxAttempts
    BY <1>2
  <1>6. In(inbox)' = In(inbox) /\ In(processing)' = In(processing) /\ In(failed)' = In(failed)
    BY <1>1 DEF In
  <1>7. \A d \in Deliveries : DeliveryState(d)' = DeliveryState(d)
    BY <1>1, <1>6, SameState DEF Deleted
  <1>8. Bar' = Bar
    BY <1>7 DEF Bar
  <1>9. Promise!Submit(Current.id)
    BY <1>1, <1>4, <1>5, <1>8 DEF Promise!Submit, Promise!Pending, Bar
  <1>. QED BY <1>2, <1>9

\* What ended is settled, unless its trigger was deleted meanwhile.
LEMMA CompleteSettles ==
    ASSUME IInv, Complete
    PROVE  Stays \/ \E d \in Deliveries : Promise!Settle(d)
  <1>1. /\ batch # <<>> /\ processing' = Erase(processing, {Current.id})
        /\ UNCHANGED <<triggers, inbox, failed, submits, accepted>>
    BY DEF Complete, Ending, Handling, history
  <1>2. PICK c \in Deliveries : c = Current.id
    BY <1>1, CurrentFacts
  <1>3. /\ c \in accepted /\ c \notin In(inbox) \cup In(failed)
        /\ Deleted(c) \/ c \in In(processing)
    BY <1>1, <1>2, CurrentFacts
  <1>4. /\ In(inbox)' = In(inbox) /\ In(failed)' = In(failed)
        /\ In(processing)' = In(processing) \ {c}
        /\ \A d \in Deliveries : Deleted(d)' <=> Deleted(d)
    BY <1>1, <1>2 DEF In, Erase, Deleted
  <1>5. \A d \in Deliveries \ {c} : DeliveryState(d)' = DeliveryState(d)
    BY <1>1, <1>4, SameState
  <1>6. CASE Deleted(c)
    <2>1. DeliveryState(c)' = DeliveryState(c)
      BY <1>1, <1>4, <1>6, SameState
    <2>2. \A d \in Deliveries : DeliveryState(d)' = DeliveryState(d)
      BY <1>5, <2>1
    <2>. QED BY <1>1, <2>2 DEF Bar, Stays
  <1>7. CASE ~Deleted(c)
    <2>1. Bar[c] = "pending"
      BY <1>3, <1>7, States
    <2>2. DeliveryState(c)' = "settled"
      BY <1>1, <1>3, <1>4, <1>7 DEF DeliveryState
    <2>3. Bar' = [Bar EXCEPT ![c] = "settled"]
      BY <1>5, <2>2 DEF Bar
    <2>4. Promise!Settle(c)
      BY <1>1, <2>1, <2>3 DEF Promise!Settle, Promise!Pending, Bar
    <2>. QED BY <2>4
  <1>. QED BY <1>6, <1>7

\* A retry, complete or not, and the cancellation of a turn: the delivery
\* fails at its last attempt.
LEMMA RetryFails ==
    ASSUME IInv, Retry \/ ExitInRetry \/ Cancelled
    PROVE  Stays \/ \E F \in SUBSET Deliveries : Promise!Fail(F)
  <1>1. /\ batch # <<>> /\ UNCHANGED <<triggers, submits, accepted>>
        /\ \E gone \in SUBSET {Current.id} : Requeue(CurrentCount, {Current.id}, gone)
    BY DEF Retry, ExitInRetry, Cancelled, Undecided, Handling, history
  <1>2. PICK gone \in SUBSET {Current.id} : Requeue(CurrentCount, {Current.id}, gone)
    BY <1>1
  <1>3. /\ Current.id \in Deliveries /\ Current.id \in accepted
        /\ Current.attempts \in Nat /\ Current.attempts < MaxAttempts
        /\ Deleted(Current.id) \/ Current.id \in In(processing)
        /\ Current.id \notin In(inbox)
    BY <1>1, CurrentFacts
  <1>4. CurrentCount[Current.id] = Current.attempts
    BY DEF CurrentCount
  <1>5. Requeued(CurrentCount, {Current.id}, gone)
    BY <1>2, <1>3, <1>4, RequeueFacts DEF IInv
  <1>. QED BY <1>1, <1>3, <1>5, RequeueFails
-----------------------------------------------------------------------------
\* The queue of the local triggers keeps the promise of its documentation: an
\* accepted delivery ends only for a reason, is submitted at most MaxAttempts
\* times and never after it ended, wherever the gateway or the CLI dies.
THEOREM QueueKept == Spec => ImplementsQueue
  <1>1. Init => Promise!Init
    <2>. SUFFICES ASSUME Init PROVE Promise!Init
      OBVIOUS
    <2>1. accepted = {} /\ submits = [d \in Deliveries |-> 0]
      BY DEF Init
    <2>2. Bar = [d \in Deliveries |-> "none"]
      BY <2>1 DEF Bar, DeliveryState
    <2>. QED BY <2>1, <2>2 DEF Promise!Init, Bar
  <1>2. IInv /\ [Next]_vars => [Promise!Next]_(Promise!vars)
    <2>. SUFFICES ASSUME IInv, [Next]_vars PROVE Stays \/ Promise!Next
      BY DEF Stays, Bar, Promise!vars
    <2>1. ASSUME NEW t \in Triggers, NEW to \in {"enabled", "disabled"},
                 CreateTrigger(t) \/ EnableTrigger(t, to)
          PROVE  Stays
      <3>1. /\ UNCHANGED <<inbox, processing, failed, submits, accepted>>
            /\ \A r \in Triggers : triggers'[r] = "deleted" <=> triggers[r] = "deleted"
        BY <2>1 DEF CreateTrigger, EnableTrigger, IInv, TypeOK, files, history
      <3>. QED BY <3>1, IdleStays, TriggersAssumption DEF Deleted, TriggersAssumption
    <2>2. ASSUME NEW t \in Triggers, DeleteTrigger(t) \/ ExitInDelete(t)
          PROVE  Promise!Next
      BY <2>2, DeleteVoids DEF Promise!Next
    <2>3. ASSUME NEW d \in Deliveries, Enqueue(d) PROVE Promise!Next
      BY <2>3, EnqueueAccepts DEF Promise!Next
    <2>4. CASE Start \/ ExitInStart
      BY <2>4, RecoverFails DEF Promise!Next
    <2>5. CASE Claim \/ ExitInClaim
      <3>1. /\ \E D \in SUBSET In(inbox) : MoveToProcessing(D)
            /\ UNCHANGED <<triggers, failed, submits, accepted>>
        BY <2>5 DEF Claim, ExitInClaim, Oldest, history
      <3>. QED BY <3>1, MoveStays
    <2>6. CASE Submit
      BY <2>6, SubmitSubmits DEF Promise!Next
    <2>7. CASE Complete
      BY <2>7, CompleteSettles DEF Promise!Next
    <2>8. CASE Retry \/ ExitInRetry \/ Cancelled
      BY <2>8, RetryFails DEF Promise!Next
    <2>9. CASE ExitInComplete \/ Crash \/ Sleep \/ Dropped \/ UNCHANGED vars
      <3>1. UNCHANGED <<triggers, inbox, processing, failed, submits, accepted>>
        BY <2>9 DEF ExitInComplete, Crash, Sleep, Dropped, vars, files, history
      <3>. QED BY <3>1, IdleStays DEF Deleted
    <2>. QED BY <2>1, <2>2, <2>3, <2>4, <2>5, <2>6, <2>7, <2>8, <2>9 DEF Next, Handle
  <1>. QED BY <1>1, <1>2, Invariant, PTL DEF Spec, ImplementsQueue, Promise!Spec
=============================================================================
