-------------------------- MODULE CronServiceProofs --------------------------
(***************************************************************************)
(* Proofs about CronService for every set of jobs and every bound.         *)
(*                                                                         *)
(* The argument: an entry that is enabled never has a time at or before    *)
(* one that the job has completed (Ahead).  It holds of the table in       *)
(* memory at all times and of the one on disk whenever the timer is        *)
(* asleep, which is when a load may replace the one by the other.          *)
(***************************************************************************)
EXTENDS CronService, FiniteSetTheorems, TLAPS

\* Every time of an enabled entry comes after those the job has completed.
Ahead(s) ==
    \A j \in Jobs :
        s[j] # NoJob /\ s[j].enabled /\ s[j].next # 0 =>
            \A k \in Nat : <<j, k>> \in completed => k < s[j].next

Logs == [Jobs -> Entry \cup {NoJob, Keep}]
Batch == due \cup ({current} \ {Idle})

\* A damaged file is counted; a gateway that is down executes nothing.
Sane ==
    /\ disk = Unreadable => corruptions # 0
    /\ ~up => manual = {}

\* Whatever has an entry anywhere, or completed a run, was created.
Known ==
    /\ System \subseteq used
    /\ \A j \in Jobs :
          \/ store[j] # NoJob
          \/ actions[j] \in Entry
          \/ disk # Unreadable /\ disk[j] # NoJob
          => j \in used
    /\ \A p \in completed : p[1] \in used /\ p[2] <= now

\* A job whose creation is still in the log has not run, and is in no table
\* in memory; a deletion in the log was asked for.
LogFresh ==
    \A j \in Jobs :
        /\ actions[j] \in Entry =>
              store[j] = NoJob /\ \A k \in Nat : <<j, k>> \notin completed
        /\ actions[j] = NoJob => j \in gone

TablesAhead ==
    /\ Ahead(store)
    /\ timer = "asleep" /\ disk # Unreadable => Ahead(disk)

BatchFresh ==
    /\ CompletedOnce
    /\ current \in submitted \cup {Idle} /\ current \notin due
    /\ \A p \in Batch : p[2] <= now /\ p[1] \in used /\ actions[p[1]] \notin Entry

Saved == timer = "asleep" /\ corruptions = 0 => disk = store

Survive ==
    corruptions = 0 /\ ~logLost =>
        \A j \in used \ gone :
            \/ j \in System
            \/ actions[j] \in Entry
            \/ disk[j] # NoJob /\ (up => store[j] # NoJob)

IInv ==
    /\ TypeOK
    /\ Sane
    /\ Known
    /\ LogFresh
    /\ TablesAhead
    /\ BatchFresh
    /\ BatchEnabled
    /\ Saved
    /\ Survive

-----------------------------------------------------------------------------

\* What counts as an execution: a batch does, so there is none while the
\* files are read.
LEMMA ActiveFacts ==
    ASSUME TypeOK
    PROVE  Active \in Nat /\ (timer = "busy" => Active # 0 /\ ~Reads)
  <1>1. Cardinality(manual) \in Nat
    BY CronAssumption, FS_Subset, FS_CardinalityType DEF CronAssumption, TypeOK
  <1>. QED BY <1>1 DEF TypeOK, Active, Reads

\* The next run is none or later than now.
LEMMA NextRunLater ==
    ASSUME TypeOK, NEW j \in Jobs
    PROVE  NextRun(j) \in Nat /\ (NextRun(j) = 0 \/ NextRun(j) > now)
  BY CronAssumption DEF CronAssumption, TypeOK, NextRun

\* A new entry is an entry.
LEMMA NewEntryType ==
    ASSUME TypeOK, NEW j \in Jobs
    PROVE  NewEntry(j) \in Entry
  BY NextRunLater DEF NewEntry, Entry

\* Replaying the log keeps a table a table.
LEMMA ReplayType ==
    ASSUME NEW table \in Tables, NEW log \in Logs
    PROVE  Replay(table, log) \in Tables
  BY CronAssumption DEF CronAssumption, Tables, Logs, Replay

\* What a load leaves is well typed.
LEMMA LoadTypes ==
    ASSUME TypeOK
    PROVE  /\ Loaded \in Tables
           /\ LoadedLog \in Logs
           /\ LoadedDisk \in Tables \cup {Unreadable}
  <1>1. Untouched \in Logs /\ actions \in Logs /\ Nothing \in Tables
    BY DEF Untouched, Logs, Nothing, Tables, TypeOK
  <1>2. Reads => disk \in Tables
    BY DEF Reads, TypeOK
  <1>. QED BY <1>1, <1>2, ReplayType DEF TypeOK, Loaded, LoadedLog, LoadedDisk

\* A table one entry of which was replaced.
LEMMA ExceptType ==
    ASSUME NEW s \in Tables, NEW j \in Jobs, NEW e \in Entry \cup {NoJob}
    PROVE  /\ [s EXCEPT ![j] = e] \in Tables
           /\ [s EXCEPT ![j] = e][j] = e
           /\ \A i \in Jobs : i # j => [s EXCEPT ![j] = e][i] = s[i]
  BY DEF Tables

\* A job in the table after a load has no creation left in the log.
LEMMA LoadFresh ==
    ASSUME IInv, NEW j \in Jobs
    PROVE  /\ LoadedLog[j] \in Entry =>
                 /\ actions[j] \in Entry
                 /\ Loaded[j] = NoJob
                 /\ \A k \in Nat : <<j, k>> \notin completed
           /\ LoadedLog[j] = NoJob => j \in gone
           /\ Loaded[j] # NoJob => j \in used
           /\ LoadedDisk # Unreadable /\ LoadedDisk[j] # NoJob => j \in used
  <1>. USE CronAssumption DEF CronAssumption, IInv, TypeOK
  <1>1. CASE Reads
    <2>1. /\ Loaded[j] = IF actions[j] = Keep THEN disk[j] ELSE actions[j]
          /\ LoadedDisk = Loaded
          /\ LoadedLog[j] = Keep
      BY <1>1 DEF Loaded, LoadedDisk, LoadedLog, Replay, Untouched
    <2>2. Loaded[j] # NoJob => j \in used
      BY <1>1, <2>1 DEF Known, Reads
    <2>. QED BY <2>1, <2>2
  <1>2. CASE ~Reads
    <2>1. /\ Loaded = store
          /\ LoadedLog = actions
          /\ LoadedDisk = Nothing \/ LoadedDisk = disk
      BY <1>2 DEF Loaded, LoadedDisk, LoadedLog
    <2>. QED BY <2>1 DEF LogFresh, Known, Nothing
  <1>. QED BY <1>1, <1>2

\* In the table after a load every enabled entry is ahead of what completed.
LEMMA LoadAhead ==
    ASSUME IInv, up
    PROVE  /\ Ahead(Loaded)
           /\ timer = "asleep" /\ LoadedDisk # Unreadable => Ahead(LoadedDisk)
  <1>. USE CronAssumption DEF CronAssumption, IInv, TypeOK
  <1>1. CASE Reads
    <2>1. timer = "asleep" /\ disk # Unreadable
      BY <1>1, ActiveFacts DEF Reads
    <2>2. Ahead(disk)
      BY <2>1 DEF TablesAhead
    <2>3. Ahead(Loaded)
      <3>1. ASSUME NEW j \in Jobs, Loaded[j] # NoJob, Loaded[j].enabled,
                   Loaded[j].next # 0, NEW k \in Nat, <<j, k>> \in completed
            PROVE  k < Loaded[j].next
        <4>1. Loaded[j] = IF actions[j] = Keep THEN disk[j] ELSE actions[j]
          BY <1>1 DEF Loaded, Replay
        <4>2. actions[j] \notin Entry
          BY <3>1 DEF LogFresh
        <4>3. Loaded[j] = disk[j]
          BY <3>1, <4>1, <4>2
        <4>. QED BY <2>2, <3>1, <4>3 DEF Ahead
      <3>. QED BY <3>1 DEF Ahead
    <2>. QED BY <1>1, <2>3 DEF LoadedDisk
  <1>2. CASE ~Reads
    <2>1. Loaded = store /\ (LoadedDisk = Nothing \/ LoadedDisk = disk)
      BY <1>2 DEF Loaded, LoadedDisk
    <2>2. Ahead(Nothing)
      BY DEF Ahead, Nothing
    <2>. QED BY <2>1, <2>2 DEF TablesAhead
  <1>. QED BY <1>1, <1>2

\* Unless the file is damaged, memory and disk agree after a load that runs
\* beside no execution, and no created job is lost.
LEMMA LoadSaved ==
    ASSUME IInv, up, corruptions = 0
    PROVE  /\ LoadedDisk # Unreadable
           /\ timer = "asleep" => LoadedDisk = Loaded
           /\ ~logLost => \A j \in used \ gone :
                 \/ j \in System
                 \/ LoadedLog[j] \in Entry
                 \/ LoadedDisk[j] # NoJob /\ Loaded[j] # NoJob
  <1>. USE CronAssumption DEF CronAssumption, IInv, TypeOK
  <1>0. disk # Unreadable
    BY DEF Sane
  <1>1. CASE Reads
    <2>1. timer = "asleep" /\ disk = store
      BY <1>1, ActiveFacts DEF Saved, Reads
    <2>2. /\ LoadedDisk = Loaded /\ Loaded \in Tables
          /\ \A j \in Jobs : Loaded[j] = IF actions[j] = Keep THEN disk[j]
                                         ELSE actions[j]
      BY <1>1, LoadTypes DEF LoadedDisk, Loaded, Replay
    <2>3. ASSUME ~logLost, NEW j \in used \ gone, j \notin System
          PROVE  Loaded[j] # NoJob
      <3>1. actions[j] # NoJob /\ (actions[j] \in Entry \/ disk[j] # NoJob)
        BY <2>3 DEF LogFresh, Survive
      <3>. QED BY <2>2, <3>1
    <2>. QED BY <2>2, <2>3
  <1>2. CASE ~Reads
    <2>1. Loaded = store /\ LoadedLog = actions /\ LoadedDisk = disk
      BY <1>0, <1>2 DEF Loaded, LoadedDisk, LoadedLog, Reads
    <2>. QED BY <1>0, <2>1 DEF Survive, Saved
  <1>. QED BY <1>1, <1>2

\* While a batch runs a load returns what is in memory.
LEMMA LoadBusy ==
    ASSUME TypeOK, timer = "busy"
    PROVE  Loaded = store /\ LoadedLog = actions /\ LoadedDisk = disk
  BY ActiveFacts DEF Loaded, LoadedLog, LoadedDisk

\* The invariant's conjuncts about the tables, for every step that loads and
\* then leaves the table s in memory: alone, or saved as well.
LEMMA TablesStep ==
    ASSUME IInv, up, up' = up,
           NEW s \in Tables, store' = s,
           disk' \in {s, LoadedDisk}, actions' = LoadedLog,
           Ahead(s),
           \A j \in Jobs : s[j] # NoJob => LoadedLog[j] \notin Entry /\ j \in used',
           used \subseteq used', used' \subseteq Jobs,
           gone \subseteq gone', gone' \subseteq Jobs,
           corruptions = 0 /\ ~logLost => \A j \in used' \ gone' :
               \/ j \in System
               \/ LoadedLog[j] \in Entry
               \/ s[j] # NoJob /\ disk'[j] # NoJob,
           timer' = "asleep" => disk' = s \/ (timer = "asleep" /\ s = Loaded),
           UNCHANGED <<now, completed, logLost, corruptions>>
    PROVE  /\ disk' \in Tables \cup {Unreadable} /\ actions' \in Logs
           /\ disk' = Unreadable => corruptions # 0
           /\ Known' /\ LogFresh' /\ TablesAhead' /\ Saved' /\ Survive'
  <1>. USE CronAssumption DEF CronAssumption
  <1>1. TypeOK /\ Known /\ LogFresh
    BY DEF IInv
  <1>2. disk' \in Tables \cup {Unreadable} /\ actions' \in Logs
    BY <1>1, LoadTypes
  <1>3. disk' = Unreadable => corruptions # 0
    BY LoadSaved
  <1>4. Known'
    <2>1. ASSUME NEW j \in Jobs, actions'[j] \in Entry PROVE j \in used'
      BY <1>1, <2>1, LoadFresh DEF Known
    <2>2. ASSUME NEW j \in Jobs, disk' # Unreadable, disk'[j] # NoJob
          PROVE  j \in used'
      BY <2>2, LoadFresh
    <2>3. \A j \in Jobs : store'[j] # NoJob => j \in used'
      OBVIOUS
    <2>4. System \subseteq used' /\ \A p \in completed' : p[1] \in used' /\ p[2] <= now'
      BY <1>1 DEF Known
    <2>. QED BY <2>1, <2>2, <2>3, <2>4 DEF Known
  <1>5. LogFresh'
    BY LoadFresh DEF LogFresh
  <1>6. TablesAhead'
    <2>1. Ahead(store)'
      BY DEF Ahead
    <2>2. ASSUME timer' = "asleep", disk' # Unreadable PROVE Ahead(disk)'
      <3>1. Ahead(disk')
        BY <2>2, LoadAhead
      <3>. QED BY <3>1 DEF Ahead
    <2>. QED BY <2>1, <2>2 DEF TablesAhead
  <1>7. Saved'
    BY LoadSaved DEF Saved
  <1>8. Survive'
    BY DEF Survive
  <1>. QED BY <1>2, <1>3, <1>4, <1>5, <1>6, <1>7, <1>8

\* A load on its own, whatever becomes of the timer task, provided that a
\* running batch goes on.
LEMMA LoadStep ==
    ASSUME IInv, up, up' = up, Load,
           timer' = "asleep" => timer = "asleep",
           UNCHANGED <<now, used, gone, completed, logLost, corruptions>>
    PROVE  /\ disk' \in Tables \cup {Unreadable} /\ actions' \in Logs
           /\ disk' = Unreadable => corruptions # 0
           /\ Known' /\ LogFresh' /\ TablesAhead' /\ Saved' /\ Survive'
  <1>1. Loaded \in Tables /\ Ahead(Loaded) /\ used \subseteq Jobs /\ gone \subseteq Jobs
    BY LoadTypes, LoadAhead DEF IInv, TypeOK
  <1>2. \A j \in Jobs : Loaded[j] # NoJob => LoadedLog[j] \notin Entry /\ j \in used
    BY LoadFresh
  <1>. QED BY <1>1, <1>2, LoadSaved, TablesStep DEF Load

\* The timer task and its batch are left alone by a load beside it.
LEMMA LoadKeepsTask ==
    ASSUME IInv, up, Load, UNCHANGED <<now, task, used, submitted, completed>>
    PROVE  BatchFresh' /\ BatchEnabled'
  <1>. USE CronAssumption DEF CronAssumption
  <1>1. CASE timer = "busy"
    <2>1. store' = store /\ actions' = actions
      BY <1>1, LoadBusy DEF IInv, Load
    <2>. QED BY <2>1 DEF IInv, BatchFresh, CompletedOnce, BatchEnabled, Batch, task
  <1>2. CASE timer # "busy"
    <2>1. due' = {} /\ current' = Idle
      BY <1>2 DEF IInv, TypeOK, task
    <2>. QED BY <2>1 DEF IInv, BatchFresh, CompletedOnce, BatchEnabled, Batch, task
  <1>. QED BY <1>1, <1>2

\* A call that puts the entry e for job j: it is saved, the batch cancelled.
LEMMA ChangeStep ==
    ASSUME IInv, NEW j \in Jobs, NEW e \in Entry \cup {NoJob},
           Change([Loaded EXCEPT ![j] = e]),
           e # NoJob => /\ e.next = 0 \/ e.next > now
                        /\ LoadedLog[j] \notin Entry
                        /\ j \in used',
           e = NoJob => j \in gone',
           used \subseteq used', used' \subseteq used \cup {j},
           gone \subseteq gone', gone' \subseteq gone \cup {j}
    PROVE  IInv'
  <1>. USE CronAssumption DEF CronAssumption
  <1>. DEFINE s == [Loaded EXCEPT ![j] = e]
  <1>1. /\ up /\ up' = up /\ store' = s /\ disk' = s /\ actions' = LoadedLog
        /\ timer' = "asleep" /\ due' = {} /\ current' = Idle
        /\ UNCHANGED <<now, manual, submitted, completed, logLost, corruptions,
                       exits>>
        /\ dying' = dying + (IF timer = "busy" THEN 1 ELSE 0)
        /\ calls' = calls + 1
    BY DEF Change, Save, ArmTimer
  <1>2. TypeOK /\ Sane /\ Known
    BY DEF IInv
  <1>3. /\ s \in Tables /\ s[j] = e
        /\ \A i \in Jobs : i # j => s[i] = Loaded[i]
    BY <1>2, LoadTypes, ExceptType
  <1>4. used' \subseteq Jobs /\ gone' \subseteq Jobs
    BY <1>2 DEF TypeOK
  <1>. HIDE DEF s
  <1>5. Ahead(s)
    <2>1. ASSUME NEW i \in Jobs, s[i] # NoJob, s[i].enabled, s[i].next # 0,
                 NEW k \in Nat, <<i, k>> \in completed
          PROVE  k < s[i].next
      <3>1. CASE i = j
        <4>1. k <= now
          BY <1>2, <2>1 DEF Known
        <4>2. e \in Entry /\ e.next > now
          BY <1>3, <2>1, <3>1
        <4>. QED BY <1>2, <1>3, <3>1, <4>1, <4>2 DEF Entry, TypeOK
      <3>2. CASE i # j
        BY <1>1, <1>3, <2>1, <3>2, LoadAhead DEF Ahead
      <3>. QED BY <3>1, <3>2
    <2>. QED BY <2>1 DEF Ahead
  <1>6. \A i \in Jobs : s[i] # NoJob => LoadedLog[i] \notin Entry /\ i \in used'
    BY <1>3, LoadFresh
  <1>7. ASSUME corruptions = 0, ~logLost, NEW i \in used' \ gone'
        PROVE  i \in System \/ LoadedLog[i] \in Entry
               \/ (s[i] # NoJob /\ disk'[i] # NoJob)
    <2>1. CASE i = j
      BY <1>1, <1>3, <1>7, <2>1
    <2>2. CASE i # j
      BY <1>1, <1>3, <1>4, <1>7, <2>2, LoadSaved
    <2>. QED BY <2>1, <2>2
  <1>8. /\ disk' \in Tables \cup {Unreadable} /\ actions' \in Logs
        /\ disk' = Unreadable => corruptions # 0
        /\ Known' /\ LogFresh' /\ TablesAhead' /\ Saved' /\ Survive'
    BY <1>1, <1>3, <1>4, <1>5, <1>6, <1>7, TablesStep
  <1>9. TypeOK'
    BY <1>1, <1>2, <1>3, <1>4, <1>8 DEF TypeOK, Logs
  <1>10. Sane'
    BY <1>1, <1>2, <1>8 DEF Sane
  <1>11. BatchFresh' /\ BatchEnabled'
    <2>1. Idle \notin completed'
      BY <1>9 DEF TypeOK, Times
    <2>2. Batch' = {}
      BY <1>1 DEF Batch
    <2>. QED BY <1>1, <2>1, <2>2
             DEF BatchFresh, CompletedOnce, BatchEnabled, Batch
  <1>. QED BY <1>8, <1>9, <1>10, <1>11 DEF IInv

\* A new job.
LEMMA AddJobStep ==
    ASSUME IInv, NEW j \in Jobs, AddJob(j)
    PROVE  IInv'
  <1>1. NewEntry(j) \in Entry /\ NewEntry(j).next = NextRun(j)
    BY NewEntryType DEF IInv, NewEntry
  <1>2. NextRun(j) = 0 \/ NextRun(j) > now
    BY NextRunLater DEF IInv
  <1>3. LoadedLog[j] \notin Entry
    BY LoadFresh DEF IInv, Known, AddJob
  <1>. QED BY <1>1, <1>2, <1>3, ChangeStep, CronAssumption
           DEF AddJob, CronAssumption

\* A deletion.
LEMMA RemoveJobStep ==
    ASSUME IInv, NEW j \in Jobs, RemoveJob(j)
    PROVE  IInv'
  BY ChangeStep DEF RemoveJob

\* A job is switched on or off.
LEMMA SetJobStep ==
    ASSUME IInv, NEW j \in Jobs, NEW enabled \in BOOLEAN, SetJob(j, enabled)
    PROVE  IInv'
  <1>. DEFINE e == [enabled |-> enabled,
                    next |-> IF enabled THEN NextRun(j) ELSE 0]
  <1>1. e \in Entry /\ (e.next = 0 \/ e.next > now)
    BY NextRunLater DEF IInv, Entry
  <1>2. LoadedLog[j] \notin Entry /\ j \in used
    BY LoadFresh DEF SetJob
  <1>3. Change([Loaded EXCEPT ![j] = e]) /\ UNCHANGED <<used, gone>>
    BY DEF SetJob
  <1>. HIDE DEF e
  <1>. QED BY <1>1, <1>2, <1>3, ChangeStep, CronAssumption DEF CronAssumption

\* The other process adds a job it has not used before.
LEMMA CliAddStep ==
    ASSUME IInv, NEW j \in Jobs, CliAdd(j)
    PROVE  IInv'
  <1>. USE CronAssumption DEF CronAssumption
  <1>1. /\ actions' = [actions EXCEPT ![j] = NewEntry(j)]
        /\ used' = used \cup {j} /\ j \notin used
        /\ UNCHANGED <<now, disk, up, store, task, manual, gone, submitted,
                       completed, logLost, bounds>>
    BY DEF CliAdd
  <1>2. NewEntry(j) \in Entry
    BY NewEntryType DEF IInv
  <1>3. store[j] = NoJob /\ \A k \in Nat : <<j, k>> \notin completed
    BY <1>1 DEF IInv, Known
  <1>4. \A i \in Jobs : actions'[i] = IF i = j THEN NewEntry(j) ELSE actions[i]
    BY <1>1 DEF IInv, TypeOK
  <1>5. TypeOK'
    BY <1>1, <1>2 DEF IInv, TypeOK, task, bounds
  <1>6. Sane' /\ Known'
    BY <1>1, <1>4 DEF IInv, Sane, Known, bounds, task
  <1>7. LogFresh'
    BY <1>1, <1>2, <1>3, <1>4 DEF IInv, LogFresh
  <1>8. TablesAhead' /\ Saved'
    BY <1>1 DEF IInv, TablesAhead, Ahead, Saved, task, bounds
  <1>9. BatchFresh' /\ BatchEnabled'
    <2>1. \A p \in Batch : p \in Times /\ p[1] # j
      BY <1>1 DEF IInv, TypeOK, BatchFresh, Batch
    <2>. QED BY <1>1, <1>4, <2>1
             DEF IInv, BatchFresh, CompletedOnce, BatchEnabled, Batch, Times, task
  <1>10. Survive'
    BY <1>1, <1>2, <1>4 DEF IInv, Survive, bounds
  <1>. QED BY <1>5, <1>6, <1>7, <1>8, <1>9, <1>10 DEF IInv

\* The other process deletes a job of the table it has read.
LEMMA CliRemoveStep ==
    ASSUME IInv, NEW j \in Jobs, CliRemove(j)
    PROVE  IInv'
  <1>. USE CronAssumption DEF CronAssumption
  <1>1. /\ actions' = [actions EXCEPT ![j] = NoJob]
        /\ gone' = gone \cup {j}
        /\ UNCHANGED <<now, disk, up, store, task, manual, used, submitted,
                       completed, logLost, bounds>>
    BY DEF CliRemove
  <1>2. \A i \in Jobs : actions'[i] = IF i = j THEN NoJob ELSE actions[i]
    BY <1>1 DEF IInv, TypeOK
  <1>3. TypeOK'
    BY <1>1 DEF IInv, TypeOK, task, bounds
  <1>4. Sane' /\ Known'
    BY <1>1, <1>2 DEF IInv, Sane, Known, bounds, task
  <1>5. LogFresh'
    BY <1>1, <1>2 DEF IInv, LogFresh
  <1>6. TablesAhead' /\ Saved'
    BY <1>1 DEF IInv, TablesAhead, Ahead, Saved, task, bounds
  <1>7. BatchFresh' /\ BatchEnabled'
    <2>1. \A p \in Batch : p \in Times
      BY DEF IInv, TypeOK, Batch
    <2>. QED BY <1>1, <1>2, <2>1
             DEF IInv, BatchFresh, CompletedOnce, BatchEnabled, Batch, Times, task
  <1>8. Survive'
    BY <1>1, <1>2 DEF IInv, Survive, bounds, TypeOK
  <1>. QED BY <1>3, <1>4, <1>5, <1>6, <1>7, <1>8 DEF IInv

\* Calls that load and change no entry: to list jobs, or to run one by hand.
LEMMA LoadOnlyStep ==
    ASSUME IInv, up, Load, manual' \subseteq Jobs, calls' \in Nat,
           UNCHANGED <<now, up, task, history, corruptions, exits>>
    PROVE  IInv'
  <1>1. /\ disk' \in Tables \cup {Unreadable} /\ actions' \in Logs
        /\ disk' = Unreadable => corruptions # 0
        /\ Known' /\ LogFresh' /\ TablesAhead' /\ Saved' /\ Survive'
    BY LoadStep DEF task, history
  <1>2. store' \in Tables
    BY LoadTypes DEF IInv, Load
  <1>3. TypeOK'
    BY <1>1, <1>2 DEF IInv, TypeOK, task, history, Logs
  <1>4. BatchFresh' /\ BatchEnabled'
    BY LoadKeepsTask DEF history
  <1>5. Sane'
    BY <1>1 DEF Sane
  <1>. QED BY <1>1, <1>3, <1>4, <1>5 DEF IInv

\* Jobs are listed.
LEMMA ListJobsStep ==
    ASSUME IInv, ListJobs
    PROVE  IInv'
  BY LoadOnlyStep DEF ListJobs, bounds, IInv, TypeOK

\* A run by hand begins; the batch goes on.
LEMMA RunJobStep ==
    ASSUME IInv, NEW j \in Jobs, RunJob(j)
    PROVE  IInv'
  BY LoadOnlyStep DEF RunJob, IInv, TypeOK

-----------------------------------------------------------------------------

\* The timer finds nothing due.
LEMMA WakeInVainStep ==
    ASSUME IInv, WakeInVain
    PROVE  IInv'
  <1>1. /\ up /\ up' = up /\ timer = "asleep" /\ task' = task
        /\ store' = Loaded /\ disk' = Loaded /\ actions' = LoadedLog
        /\ UNCHANGED <<now, manual, history, bounds>>
    BY DEF WakeInVain, Save
  <1>2. Loaded \in Tables /\ Ahead(Loaded) /\ used \subseteq Jobs /\ gone \subseteq Jobs
    BY <1>1, LoadTypes, LoadAhead DEF IInv, TypeOK
  <1>3. \A j \in Jobs : Loaded[j] # NoJob => LoadedLog[j] \notin Entry /\ j \in used
    BY LoadFresh
  <1>4. /\ disk' \in Tables \cup {Unreadable} /\ actions' \in Logs
        /\ disk' = Unreadable => corruptions # 0
        /\ Known' /\ LogFresh' /\ TablesAhead' /\ Saved' /\ Survive'
    BY <1>1, <1>2, <1>3, LoadSaved, TablesStep DEF history, bounds
  <1>5. TypeOK'
    BY <1>1, <1>2, <1>4 DEF IInv, TypeOK, task, history, bounds, Logs
  <1>6. BatchFresh' /\ BatchEnabled'
    <2>1. due' = {} /\ current' = Idle
      BY <1>1 DEF IInv, TypeOK, task
    <2>2. Idle \notin completed' /\ Batch' = {}
      BY <1>5, <2>1, CronAssumption DEF CronAssumption, TypeOK, Times, Batch
    <2>. QED BY <2>1, <2>2 DEF BatchFresh, CompletedOnce, BatchEnabled, Batch
  <1>7. Sane'
    BY <1>1, <1>4 DEF IInv, Sane, bounds
  <1>. QED BY <1>4, <1>5, <1>6, <1>7 DEF IInv

\* The timer finds due jobs: they are ahead of what completed in the table
\* it has just read, so none of their times is a completed one.
LEMMA WakeStep ==
    ASSUME IInv, Wake
    PROVE  IInv'
  <1>. USE CronAssumption DEF CronAssumption
  <1>1. /\ up /\ up' = up /\ timer = "asleep" /\ timer' = "busy" /\ Load
        /\ UNCHANGED <<now, dying, manual, used, gone, completed, logLost, bounds>>
    BY DEF Wake
  <1>2. PICK p \in DueIn(Loaded) : Begin(p) /\ due' = DueIn(Loaded) \ {p}
    BY DEF Wake
  <1>3. current' = p /\ submitted' = submitted \cup {p}
    BY <1>2 DEF Begin
  <1>4. /\ disk' \in Tables \cup {Unreadable} /\ actions' \in Logs
        /\ disk' = Unreadable => corruptions # 0
        /\ Known' /\ LogFresh' /\ TablesAhead' /\ Saved' /\ Survive'
    BY <1>1, LoadStep DEF bounds
  <1>5. Loaded \in Tables /\ store' = Loaded
    BY <1>1, LoadTypes DEF IInv, Load
  <1>6. ASSUME NEW q \in DueIn(Loaded)
        PROVE  /\ q \in Times /\ q[2] <= now
               /\ Loaded[q[1]] # NoJob /\ Loaded[q[1]].enabled
               /\ q \notin completed
    <2>1. PICK j \in Jobs : IsDue(Loaded, j) /\ q = <<j, Loaded[j].next>>
      BY DEF DueIn
    <2>2. /\ Loaded[j] # NoJob /\ Loaded[j] \in Entry
          /\ Loaded[j].enabled /\ Loaded[j].next # 0 /\ Loaded[j].next <= now
      BY <1>5, <2>1 DEF IsDue, Tables
    <2>3. Loaded[j].next \in Nat
      BY <2>2 DEF Entry
    <2>4. <<j, Loaded[j].next>> \notin completed
      BY <1>1, <2>2, <2>3, LoadAhead DEF Ahead
    <2>. QED BY <2>1, <2>2, <2>3, <2>4 DEF Times
  <1>7. DueIn(Loaded) \subseteq Times /\ Idle \notin DueIn(Loaded)
    BY <1>6 DEF Times
  <1>8. TypeOK'
    BY <1>1, <1>2, <1>3, <1>4, <1>5, <1>7 DEF IInv, TypeOK, bounds, Logs
  <1>9. Sane'
    BY <1>1, <1>4 DEF IInv, Sane, bounds
  <1>10. Batch' = DueIn(Loaded)
    BY <1>2, <1>3, <1>7 DEF Batch
  <1>11. BatchFresh'
    <2>1. ASSUME NEW q \in DueIn(Loaded)
          PROVE  q[2] <= now' /\ q[1] \in used' /\ actions'[q[1]] \notin Entry
      BY <1>1, <1>6, <2>1, LoadFresh DEF Times, Load
    <2>2. CompletedOnce' /\ current' \notin due'
      BY <1>1, <1>2, <1>3, <1>6 DEF CompletedOnce
    <2>. QED BY <1>3, <1>10, <2>1, <2>2 DEF BatchFresh
  <1>12. BatchEnabled'
    BY <1>5, <1>6, <1>10 DEF BatchEnabled, Batch
  <1>. QED BY <1>4, <1>8, <1>9, <1>11, <1>12 DEF IInv

\* What an execution does to the table.
LEMMA ExecutedFacts ==
    ASSUME TypeOK, NEW s \in Tables, NEW j \in Jobs
    PROVE  /\ Executed(s, j) \in Tables
           /\ \A i \in Jobs : i # j => Executed(s, j)[i] = s[i]
           /\ Executed(s, j)[j] # NoJob =>
                 /\ s[j] # NoJob /\ At[j] = 0
                 /\ Executed(s, j)[j].next = now + 1
           /\ At[j] = 0 /\ s[j] # NoJob =>
                 /\ Executed(s, j)[j] # NoJob
                 /\ Executed(s, j)[j].enabled = s[j].enabled
  <1>. USE CronAssumption DEF CronAssumption
  <1>1. CASE s[j] = NoJob
    BY <1>1 DEF Executed
  <1>2. CASE s[j] # NoJob /\ At[j] # 0
    BY <1>2, ExceptType DEF Executed
  <1>3. CASE s[j] # NoJob /\ At[j] = 0
    <2>1. s[j] \in Entry
      BY <1>3 DEF Tables
    <2>. DEFINE e == [s[j] EXCEPT !.next = NextRun(j)]
    <2>2. e \in Entry /\ e.next = now + 1 /\ e.enabled = s[j].enabled
      BY <1>3, <2>1, NextRunLater DEF Entry, NextRun
    <2>3. Executed(s, j) = [s EXCEPT ![j] = e]
      BY <1>3 DEF Executed
    <2>. HIDE DEF e
    <2>4. /\ Executed(s, j) \in Tables
          /\ Executed(s, j)[j] = e
          /\ \A i \in Jobs : i # j => Executed(s, j)[i] = s[i]
      <3>1. e \in Entry \cup {NoJob}
        BY <2>2
      <3>2. /\ [s EXCEPT ![j] = e] \in Tables
            /\ [s EXCEPT ![j] = e][j] = e
            /\ \A i \in Jobs : i # j => [s EXCEPT ![j] = e][i] = s[i]
        BY ONLY <3>1, ExceptType
      <3>. QED BY <2>3, <3>2
    <2>5. e # NoJob
      BY <2>2
    <2>. QED BY <1>3, <2>2, <2>4, <2>5
  <1>. QED BY <1>1, <1>2, <1>3

\* The invariant's conjuncts about the tables when an execution ends, of a
\* batch or by hand: a one-shot job goes, the time of another moves on.
LEMMA ExecutedStep ==
    ASSUME IInv, up, NEW j \in Jobs,
           store' = Executed(store, j),
           gone' = gone \cup OneShot(j),
           disk' = store' \/ (disk' = disk /\ timer' = "busy"),
           \/ completed' = completed
           \/ completed' = completed \cup {current} /\ timer = "busy" /\ j = current[1],
           UNCHANGED <<now, up, actions, used, logLost, corruptions>>
    PROVE  /\ store' \in Tables /\ gone' \subseteq Jobs
           /\ disk' \in Tables \cup {Unreadable}
           /\ disk' = Unreadable => corruptions # 0
           /\ Known' /\ LogFresh' /\ TablesAhead' /\ Saved' /\ Survive'
  <1>. USE CronAssumption DEF CronAssumption
  <1>1. TypeOK /\ Sane /\ Known /\ LogFresh /\ TablesAhead /\ BatchFresh /\ Survive
    BY DEF IInv
  <1>2. /\ store' \in Tables
        /\ \A i \in Jobs : i # j => store'[i] = store[i]
        /\ store'[j] # NoJob =>
              store[j] # NoJob /\ At[j] = 0 /\ store'[j].next = now + 1
        /\ At[j] = 0 /\ store[j] # NoJob => store'[j] # NoJob
    BY <1>1, ExecutedFacts DEF TypeOK
  <1>3. /\ completed \subseteq completed'
        /\ \A p \in completed' : \/ p \in completed
                                 \/ /\ p[1] = j /\ p[1] \in used /\ p[2] <= now
                                    /\ actions[p[1]] \notin Entry
    BY <1>1 DEF TypeOK, BatchFresh, Batch
  <1>4. \A i \in Jobs : store'[i] # NoJob => store[i] # NoJob
    BY <1>2
  <1>5. /\ gone \subseteq gone' /\ gone' \subseteq Jobs
        /\ \A i \in Jobs \ gone' : i \notin gone /\ (i # j \/ At[j] = 0)
    BY <1>1 DEF OneShot, TypeOK
  <1>6. disk' \in Tables \cup {Unreadable} /\ (disk' = Unreadable => corruptions # 0)
    BY <1>1, <1>2 DEF TypeOK, Sane
  <1>7. Known'
    <2>1. \A i \in Jobs : disk' # Unreadable /\ disk'[i] # NoJob => i \in used
      BY <1>1, <1>4 DEF Known
    <2>2. \A p \in completed' : p[1] \in used /\ p[2] <= now
      BY <1>1, <1>3 DEF Known
    <2>. QED BY <1>1, <1>4, <2>1, <2>2 DEF Known
  <1>8. LogFresh'
    BY <1>1, <1>3, <1>4, <1>5 DEF LogFresh
  <1>9. Ahead(store)'
    <2>1. ASSUME NEW i \in Jobs, store'[i] # NoJob, store'[i].enabled,
                 store'[i].next # 0, NEW k \in Nat, <<i, k>> \in completed'
          PROVE  k < store'[i].next
      <3>1. CASE i = j
        <4>1. k <= now
          BY <1>1, <1>3, <2>1 DEF Known
        <4>. QED BY <1>1, <1>2, <2>1, <3>1, <4>1 DEF TypeOK
      <3>2. CASE i # j
        BY <1>1, <1>2, <1>3, <2>1, <3>2 DEF TablesAhead, Ahead
      <3>. QED BY <3>1, <3>2
    <2>. QED BY <2>1 DEF Ahead
  <1>10. TablesAhead' /\ Saved'
    BY <1>9 DEF TablesAhead, Ahead, Saved
  <1>11. Survive'
    <2>1. ASSUME corruptions = 0, ~logLost, NEW i \in used \ gone',
                 i \notin System, actions[i] \notin Entry
          PROVE  disk'[i] # NoJob /\ store'[i] # NoJob
      <3>1. i \in Jobs \ gone'
        BY <1>1 DEF TypeOK
      <3>2. disk[i] # NoJob /\ store[i] # NoJob
        BY <1>1, <1>5, <2>1, <3>1 DEF Survive
      <3>3. store'[i] # NoJob
        BY <1>2, <1>5, <3>1, <3>2
      <3>. QED BY <3>2, <3>3
    <2>. QED BY <2>1 DEF Survive
  <1>. QED BY <1>2, <1>5, <1>6, <1>7, <1>8, <1>10, <1>11

\* The job a batch executes has ended; the batch goes on or ends.
LEMMA FinishJobStep ==
    ASSUME IInv, FinishJob
    PROVE  IInv'
  <1>. USE CronAssumption DEF CronAssumption
  <1>. DEFINE j == current[1]
  <1>1. /\ timer = "busy" /\ up /\ current \in Times /\ j \in Jobs
        /\ current # Idle
    BY DEF IInv, TypeOK, FinishJob, Times
  <1>2. /\ store' = Executed(store, j) /\ gone' = gone \cup OneShot(j)
        /\ completed' = completed \cup {current}
        /\ NextInBatch \/ EndBatch
        /\ UNCHANGED <<now, actions, up, manual, used, logLost, bounds>>
    BY DEF FinishJob
  <1>. HIDE DEF j
  <1>3. /\ disk' = store' \/ (disk' = disk /\ timer' = "busy")
        /\ dying' = dying
    BY <1>1, <1>2 DEF NextInBatch, EndBatch
  <1>4. /\ store' \in Tables /\ gone' \subseteq Jobs
        /\ disk' \in Tables \cup {Unreadable}
        /\ disk' = Unreadable => corruptions # 0
        /\ Known' /\ LogFresh' /\ TablesAhead' /\ Saved' /\ Survive'
    BY <1>1, <1>2, <1>3, ExecutedStep DEF bounds, j
  <1>5. CASE NextInBatch
    <2>1. PICK p \in due : Begin(p) /\ due' = due \ {p}
      BY <1>5 DEF NextInBatch
    <2>2. /\ current' = p /\ submitted' = submitted \cup {p} /\ timer' = "busy"
      BY <1>1, <1>5, <2>1 DEF Begin, NextInBatch
    <2>3. /\ TypeOK /\ p \in Times /\ p # Idle /\ p # current
          /\ current \in submitted
      BY <1>1, <2>1 DEF IInv, TypeOK, Times, BatchFresh
    <2>4. TypeOK'
      BY <1>1, <1>2, <1>3, <1>4, <2>1, <2>2, <2>3 DEF TypeOK, bounds
    <2>5. Batch' = due /\ due \subseteq Batch
      BY <2>1, <2>2, <2>3 DEF Batch
    <2>6. BatchFresh'
      BY <1>2, <2>1, <2>2, <2>3, <2>5
         DEF IInv, BatchFresh, CompletedOnce, Batch
    <2>7. BatchEnabled'
      <3>1. ASSUME NEW q \in due, At[q[1]] = 0
            PROVE  store'[q[1]] # NoJob /\ store'[q[1]].enabled
        <4>1. q[1] \in Jobs /\ q # Idle
          BY <2>3 DEF TypeOK, Times
        <4>2. store[q[1]] # NoJob /\ store[q[1]].enabled
          BY <3>1, <4>1 DEF IInv, BatchEnabled
        <4>3. CASE q[1] = j
          BY <1>1, <1>2, <2>3, <3>1, <4>2, <4>3, ExecutedFacts DEF TypeOK
        <4>4. CASE q[1] # j
          BY <1>1, <1>2, <2>3, <4>1, <4>2, <4>4, ExecutedFacts DEF TypeOK
        <4>. QED BY <4>3, <4>4
      <3>. QED BY <2>5, <3>1 DEF BatchEnabled, Batch
    <2>8. Sane'
      BY <1>2, <1>4 DEF IInv, Sane, bounds
    <2>. QED BY <1>4, <2>4, <2>6, <2>7, <2>8 DEF IInv
  <1>6. CASE EndBatch
    <2>1. /\ due' = {} /\ due = {} /\ current' = Idle /\ timer' = "asleep"
          /\ submitted' = submitted
      BY <1>6 DEF EndBatch
    <2>2. TypeOK /\ current \in submitted
      BY <1>1 DEF IInv, BatchFresh
    <2>3. TypeOK'
      BY <1>1, <1>2, <1>3, <1>4, <2>1, <2>2 DEF TypeOK, bounds
    <2>4. Idle \notin completed' /\ Batch' = {}
      BY <2>1, <2>3 DEF TypeOK, Times, Batch
    <2>5. BatchFresh' /\ BatchEnabled'
      BY <2>1, <2>4 DEF BatchFresh, CompletedOnce, BatchEnabled, Batch
    <2>6. Sane'
      BY <1>2, <1>4 DEF IInv, Sane, bounds
    <2>. QED BY <1>4, <2>3, <2>5, <2>6 DEF IInv
  <1>. QED BY <1>2, <1>5, <1>6

\* A run by hand has ended.
LEMMA FinishRunStep ==
    ASSUME IInv, NEW j \in Jobs, FinishRun(j)
    PROVE  IInv'
  <1>. USE CronAssumption DEF CronAssumption
  <1>1. /\ j \in manual
        /\ store' = Executed(store, j) /\ disk' = store'
        /\ manual' = manual \ {j} /\ gone' = gone \cup OneShot(j)
        /\ UNCHANGED <<now, actions, up, task, used, submitted, completed,
                       logLost, bounds>>
    BY DEF FinishRun
  <1>2. up
    BY <1>1 DEF IInv, Sane, TypeOK
  <1>3. /\ store' \in Tables /\ gone' \subseteq Jobs
        /\ disk' \in Tables \cup {Unreadable}
        /\ disk' = Unreadable => corruptions # 0
        /\ Known' /\ LogFresh' /\ TablesAhead' /\ Saved' /\ Survive'
    BY <1>1, <1>2, ExecutedStep DEF bounds
  <1>4. TypeOK'
    BY <1>1, <1>3 DEF IInv, TypeOK, task, bounds
  <1>5. BatchFresh'
    BY <1>1 DEF IInv, BatchFresh, CompletedOnce, Batch, task
  <1>6. BatchEnabled'
    <2>1. ASSUME NEW q \in (due \cup {current}) \ {Idle}, At[q[1]] = 0
          PROVE  store'[q[1]] # NoJob /\ store'[q[1]].enabled
      <3>1. q[1] \in Jobs
        BY <2>1 DEF IInv, TypeOK, Times
      <3>2. store[q[1]] # NoJob /\ store[q[1]].enabled
        BY <2>1 DEF IInv, BatchEnabled
      <3>. QED BY <1>1, <2>1, <3>1, <3>2, ExecutedFacts DEF IInv, TypeOK
    <2>. QED BY <1>1, <2>1 DEF BatchEnabled, task
  <1>7. Sane'
    BY <1>1, <1>2, <1>3 DEF Sane, bounds
  <1>. QED BY <1>3, <1>4, <1>5, <1>6, <1>7 DEF IInv

\* A cancelled batch has ended.
LEMMA BatchDiesStep ==
    ASSUME IInv, BatchDies
    PROVE  IInv'
  <1>1. /\ dying > 0 /\ dying' = dying - 1
        /\ UNCHANGED <<now, files, up, store, timer, due, current, manual,
                       history, bounds>>
    BY DEF BatchDies
  <1>2. TypeOK'
    BY <1>1 DEF IInv, TypeOK, files, history, bounds
  <1>3. Sane' /\ Known' /\ LogFresh' /\ TablesAhead'
    BY <1>1 DEF IInv, Sane, Known, LogFresh, TablesAhead, Ahead, files, history,
                bounds
  <1>4. BatchFresh' /\ BatchEnabled' /\ Saved' /\ Survive'
    BY <1>1 DEF IInv, BatchFresh, CompletedOnce, BatchEnabled, Batch, Saved,
                Survive, files, history, bounds
  <1>. QED BY <1>2, <1>3, <1>4 DEF IInv

-----------------------------------------------------------------------------

\* Time passes.
LEMMA ElapseStep ==
    ASSUME IInv, Elapse
    PROVE  IInv'
  <1>1. /\ now' = now + 1 /\ now \in Nat
        /\ UNCHANGED <<files, up, store, task, manual, history, bounds>>
    BY DEF IInv, TypeOK, Elapse
  <1>2. TypeOK'
    BY <1>1 DEF IInv, TypeOK, files, task, history, bounds
  <1>3. Known'
    <2>1. \A p \in completed : p[2] <= now' /\ p[1] \in used
      BY <1>1 DEF IInv, TypeOK, Known, Times
    <2>. QED BY <1>1, <2>1 DEF IInv, Known, files, history
  <1>4. BatchFresh'
    <2>1. \A p \in Batch : p[2] <= now'
      BY <1>1 DEF IInv, TypeOK, BatchFresh, Batch, Times
    <2>. QED BY <1>1, <2>1 DEF IInv, BatchFresh, CompletedOnce, Batch, files,
                               task, history
  <1>5. Sane' /\ LogFresh' /\ TablesAhead'
    BY <1>1 DEF IInv, Sane, LogFresh, TablesAhead, Ahead, files, task, history,
                bounds
  <1>6. BatchEnabled' /\ Saved' /\ Survive'
    BY <1>1 DEF IInv, BatchEnabled, Saved, Survive, files, task, history, bounds
  <1>. QED BY <1>2, <1>3, <1>4, <1>5, <1>6 DEF IInv

\* While the gateway is down there is no batch, nor does a completed time
\* disturb one.
LEMMA DownFacts ==
    ASSUME TypeOK, ~up
    PROVE  /\ timer = "none" /\ due = {} /\ current = Idle
           /\ Idle \notin completed
  BY CronAssumption DEF CronAssumption, TypeOK, Times

\* What the boot merges: the log is newer than the file, and the jobs of the
\* system are registered anew.
LEMMA RegisteredFacts ==
    ASSUME IInv, disk # Unreadable
    PROVE  /\ \A j \in Jobs : Registered(j) \in Entry \cup {NoJob}
           /\ \A j \in Jobs : Registered(j) # NoJob => j \in used
           /\ corruptions = 0 /\ ~logLost =>
                 \A j \in used \ gone : Registered(j) # NoJob
  <1>. USE CronAssumption DEF CronAssumption
  <1>1. TypeOK /\ Known /\ LogFresh /\ Survive
    BY DEF IInv
  <1>2. Replay(disk, actions) \in Tables
    BY <1>1, ReplayType DEF TypeOK, Logs
  <1>3. \A j \in Jobs : NewEntry(j) \in Entry
    BY <1>1, NewEntryType
  <1>4. \A j \in Jobs : Registered(j) =
            IF j \in System THEN NewEntry(j)
            ELSE IF actions[j] = Keep THEN disk[j] ELSE actions[j]
    BY DEF Registered, Replay
  <1>5. \A j \in Jobs : Registered(j) \in Entry \cup {NoJob}
    BY <1>2, <1>3 DEF Registered, Tables
  <1>6. \A j \in Jobs : Registered(j) # NoJob => j \in used
    BY <1>1, <1>4 DEF TypeOK, Known
  <1>7. ASSUME corruptions = 0, ~logLost, NEW j \in used \ gone
        PROVE  Registered(j) # NoJob
    <2>1. j \in Jobs
      BY <1>1 DEF TypeOK
    <2>2. j \in System \/ actions[j] \in Entry \/ disk[j] # NoJob
      BY <1>1, <1>7 DEF Survive
    <2>3. actions[j] # NoJob
      BY <1>1, <1>7, <2>1 DEF LogFresh
    <2>. QED BY <1>3, <1>4, <2>1, <2>2, <2>3
  <1>. QED BY <1>5, <1>6, <1>7

\* The boot: every enabled entry gets a time from now on, or none.
LEMMA StartStep ==
    ASSUME IInv, Start
    PROVE  IInv'
  <1>. USE CronAssumption DEF CronAssumption
  <1>1. /\ ~up /\ disk # Unreadable /\ up'
        /\ store' = Booted /\ disk' = Booted /\ actions' = Untouched
        /\ timer' = "asleep"
        /\ UNCHANGED <<now, due, current, dying, manual, history, bounds>>
    BY DEF Start
  <1>2. TypeOK /\ Sane /\ Known /\ up' = TRUE
    BY DEF IInv, Start
  <1>3. ASSUME NEW j \in Jobs
        PROVE  /\ Booted[j] \in Entry \cup {NoJob}
               /\ Booted[j] = NoJob <=> Registered(j) = NoJob
               /\ Booted[j] # NoJob /\ Booted[j].enabled /\ Booted[j].next # 0 =>
                     Booted[j].next > now
    <2>1. NextRun(j) \in Nat /\ (NextRun(j) = 0 \/ NextRun(j) > now)
      BY <1>2, NextRunLater
    <2>2. Registered(j) \in Entry \cup {NoJob}
      BY <1>1, RegisteredFacts
    <2>3. CASE Registered(j) # NoJob /\ Registered(j).enabled
      <3>. DEFINE e == [Registered(j) EXCEPT !.next = NextRun(j)]
      <3>1. Booted[j] = e
        BY <2>3 DEF Booted
      <3>2. e \in Entry /\ e.next = NextRun(j)
        BY <2>1, <2>2, <2>3 DEF Entry
      <3>. HIDE DEF e
      <3>3. Booted[j] \in Entry /\ Booted[j] # NoJob
        BY <3>1, <3>2
      <3>. QED BY <2>1, <2>3, <3>1, <3>2, <3>3
    <2>4. CASE ~(Registered(j) # NoJob /\ Registered(j).enabled)
      BY <2>2, <2>4 DEF Booted
    <2>. QED BY <2>3, <2>4
  <1>4. Booted \in Tables
    BY <1>3 DEF Tables, Booted
  <1>5. TypeOK'
    BY <1>1, <1>2, <1>4, DownFacts
       DEF TypeOK, history, bounds, Untouched
  <1>6. Known'
    <2>1. \A j \in Jobs : Booted[j] # NoJob => j \in used
      BY <1>1, <1>3, RegisteredFacts
    <2>. QED BY <1>1, <1>2, <2>1 DEF Known, history, Untouched
  <1>7. LogFresh' /\ Sane' /\ Saved'
    BY <1>1, <1>2, <1>4 DEF LogFresh, Sane, Saved, Untouched, bounds
  <1>8. TablesAhead'
    <2>1. ASSUME NEW j \in Jobs, Booted[j] # NoJob, Booted[j].enabled,
                 Booted[j].next # 0, NEW k \in Nat, <<j, k>> \in completed
          PROVE  k < Booted[j].next
      <3>1. k <= now
        BY <1>2, <2>1 DEF Known
      <3>2. Booted[j].next > now /\ Booted[j].next \in Nat
        BY <1>3, <2>1 DEF Entry
      <3>. QED BY <1>2, <3>1, <3>2 DEF TypeOK
    <2>. QED BY <1>1, <2>1 DEF TablesAhead, Ahead, history
  <1>9. BatchFresh' /\ BatchEnabled'
    BY <1>1, <1>2, DownFacts
       DEF BatchFresh, CompletedOnce, BatchEnabled, Batch, history
  <1>10. Survive'
    BY <1>1, <1>2, <1>3, RegisteredFacts DEF TypeOK, Survive, history, bounds
  <1>. QED BY <1>5, <1>6, <1>7, <1>8, <1>9, <1>10 DEF IInv

\* A boot on a damaged file moves it aside and fails.
LEMMA StartRefusedStep ==
    ASSUME IInv, StartRefused \/ CliLoadFails
    PROVE  IInv'
  <1>. USE CronAssumption DEF CronAssumption
  <1>1. /\ disk = Unreadable /\ disk' = Nothing
        /\ UNCHANGED <<now, actions, up, store, task, manual, history, bounds>>
    BY DEF StartRefused, CliLoadFails
  <1>2. corruptions # 0 /\ Nothing \in Tables /\ \A j \in Jobs : disk'[j] = NoJob
    BY <1>1 DEF IInv, Sane, Nothing, Tables
  <1>3. TypeOK'
    BY <1>1, <1>2 DEF IInv, TypeOK, task, history, bounds
  <1>4. Sane' /\ Known' /\ LogFresh' /\ TablesAhead'
    BY <1>1, <1>2 DEF IInv, Sane, Known, LogFresh, TablesAhead, Ahead, task,
                      history, bounds
  <1>5. BatchFresh' /\ BatchEnabled' /\ Saved' /\ Survive'
    BY <1>1, <1>2 DEF IInv, BatchFresh, CompletedOnce, BatchEnabled, Batch, Saved,
                      Survive, task, history, bounds
  <1>. QED BY <1>3, <1>4, <1>5 DEF IInv

\* A boot that dies after the merge.
LEMMA ExitInStartStep ==
    ASSUME IInv, ExitInStart
    PROVE  IInv'
  <1>. USE CronAssumption DEF CronAssumption
  <1>. DEFINE t == [j \in Jobs |-> Registered(j)]
  <1>1. PICK saved \in BOOLEAN :
          /\ disk' = IF saved THEN t ELSE disk
          /\ actions' \in IF saved /\ System = {} THEN {Untouched}
                         ELSE {actions, Untouched}
          /\ logLost' = (logLost \/ (~saved /\ actions' # actions))
    BY DEF ExitInStart
  <1>2. /\ ~up /\ disk # Unreadable /\ exits' = exits + 1
        /\ UNCHANGED <<now, up, store, task, manual, used, gone, submitted,
                       completed, calls, corruptions>>
    BY DEF ExitInStart
  <1>3. /\ t \in Tables
        /\ \A j \in Jobs : t[j] = Registered(j)
    BY <1>2, RegisteredFacts DEF Tables
  <1>. HIDE DEF t
  <1>4. /\ TypeOK /\ Sane /\ Known /\ LogFresh /\ TablesAhead /\ Survive
        /\ timer = "none"
    BY <1>2, DownFacts DEF IInv
  <1>5. /\ disk' \in Tables /\ disk' # Unreadable
        /\ \A j \in Jobs : disk'[j] # NoJob => j \in used
    BY <1>1, <1>2, <1>3, <1>4, RegisteredFacts DEF TypeOK, Known
  <1>6. /\ actions' \in Logs
        /\ \A j \in Jobs : actions'[j] \in {actions[j], Keep}
    BY <1>1, <1>4 DEF TypeOK, Logs, Untouched
  <1>7. logLost' \in BOOLEAN /\ (logLost => logLost')
    BY <1>1, <1>4 DEF TypeOK
  <1>8. TypeOK'
    BY <1>2, <1>4, <1>5, <1>6, <1>7 DEF TypeOK, Logs, task
  <1>9. Sane' /\ Known' /\ LogFresh'
    BY <1>2, <1>4, <1>5, <1>6 DEF Sane, Known, LogFresh, task
  <1>10. TablesAhead' /\ Saved'
    BY <1>2, <1>4 DEF TablesAhead, Ahead, Saved, task
  <1>11. BatchFresh' /\ BatchEnabled'
    BY <1>2, DownFacts
       DEF IInv, BatchFresh, CompletedOnce, BatchEnabled, Batch, task
  <1>12. Survive'
    <2>1. ASSUME corruptions = 0, ~logLost', NEW j \in used \ gone
          PROVE  j \in System \/ actions'[j] \in Entry \/ disk'[j] # NoJob
      <3>1. j \in Jobs /\ ~logLost
        BY <1>4, <1>7, <2>1 DEF TypeOK
      <3>2. CASE saved
        BY <1>1, <1>2, <1>3, <2>1, <3>1, <3>2, RegisteredFacts
      <3>3. CASE ~saved
        BY <1>1, <1>4, <2>1, <3>1, <3>3 DEF Survive
      <3>. QED BY <3>2, <3>3
    <2>. QED BY <1>2, <2>1 DEF Survive
  <1>. QED BY <1>8, <1>9, <1>10, <1>11, <1>12 DEF IInv

\* The gateway exits, perhaps in the middle of a merge.
LEMMA DownStep ==
    ASSUME IInv, Exit \/ ExitInMerge
    PROVE  IInv'
  <1>. USE CronAssumption DEF CronAssumption
  <1>1. /\ up /\ up' = FALSE /\ store' = Nothing
        /\ timer' = "none" /\ due' = {} /\ current' = Idle /\ dying' = 0
        /\ manual' = {} /\ exits' = exits + 1 /\ disk' = disk
        /\ UNCHANGED <<now, used, gone, submitted, completed, calls, corruptions>>
    BY DEF Exit, ExitInMerge, Down, files
  <1>2. \/ actions' = actions /\ logLost' = logLost
        \/ actions' = Untouched /\ logLost' = TRUE
    BY DEF Exit, ExitInMerge, files
  <1>3. TypeOK /\ Sane /\ Known /\ LogFresh /\ TablesAhead /\ BatchFresh /\ Survive
    BY DEF IInv
  <1>4. /\ actions' \in Logs
        /\ \A j \in Jobs : actions'[j] \in {actions[j], Keep}
    BY <1>2, <1>3 DEF TypeOK, Logs, Untouched
  <1>5. Nothing \in Tables /\ \A j \in Jobs : Nothing[j] = NoJob
    BY DEF Nothing, Tables
  <1>6. TypeOK'
    <2>1. timer' \in IF up' THEN {"asleep", "busy"} ELSE {"none"}
      BY <1>1
    <2>2. /\ due' \subseteq Times /\ current' \in Times \cup {Idle}
          /\ current' # Idle <=> timer' = "busy"
          /\ timer' # "busy" => due' = {}
      BY <1>1
    <2>3. dying' \in Nat /\ manual' \subseteq Jobs /\ exits' \in Nat
      BY <1>1, <1>3 DEF TypeOK
    <2>4. logLost' \in BOOLEAN
      BY <1>2, <1>3, Zenon DEF TypeOK
    <2>5. store' \in Tables /\ disk' \in Tables \cup {Unreadable} /\ up' \in BOOLEAN
      BY <1>1, <1>3, <1>5 DEF TypeOK
    <2>. QED BY <1>1, <1>3, <1>4, <2>1, <2>2, <2>3, <2>4, <2>5 DEF TypeOK, Logs
  <1>7. Sane' /\ Known' /\ LogFresh'
    BY <1>1, <1>3, <1>4, <1>5 DEF Sane, Known, LogFresh
  <1>8. TablesAhead' /\ Saved'
    <2>0. \A j \in Jobs : store'[j] = NoJob
      BY <1>1, <1>5
    <2>1. Ahead(store)'
      BY <2>0 DEF Ahead
    <2>. QED BY <1>1, <2>1 DEF TablesAhead, Saved
  <1>9. BatchFresh' /\ BatchEnabled'
    <2>1. Idle \notin completed' /\ Batch' = {}
      BY <1>1, <1>6 DEF TypeOK, Times, Batch
    <2>. QED BY <1>1, <2>1 DEF BatchFresh, CompletedOnce, BatchEnabled, Batch
  <1>10. Survive'
    BY <1>1, <1>2, <1>3 DEF Survive
  <1>. QED BY <1>6, <1>7, <1>8, <1>9, <1>10 DEF IInv

\* The file is damaged from outside.
LEMMA DamageStep ==
    ASSUME IInv, Damage
    PROVE  IInv'
  <1>. USE CronAssumption DEF CronAssumption
  <1>1. /\ disk' = Unreadable /\ corruptions' = corruptions + 1
        /\ UNCHANGED <<now, actions, up, store, task, manual, history, calls,
                       exits>>
    BY DEF Damage
  <1>2. corruptions' \in Nat /\ corruptions' # 0
    BY <1>1 DEF IInv, TypeOK
  <1>3. TypeOK'
    BY <1>1, <1>2 DEF IInv, TypeOK, task, history
  <1>4. Sane' /\ Known' /\ LogFresh' /\ TablesAhead'
    BY <1>1, <1>2 DEF IInv, Sane, Known, LogFresh, TablesAhead, Ahead, task,
                      history
  <1>5. BatchFresh' /\ BatchEnabled' /\ Saved' /\ Survive'
    BY <1>1, <1>2 DEF IInv, BatchFresh, CompletedOnce, BatchEnabled, Batch, Saved,
                      Survive, task, history
  <1>. QED BY <1>3, <1>4, <1>5 DEF IInv

-----------------------------------------------------------------------------

\* The invariant holds of the first state: nothing is stored or running.
LEMMA InitInv == Init => IInv
  <1>. SUFFICES ASSUME Init PROVE IInv
    OBVIOUS
  <1>. USE CronAssumption DEF CronAssumption, Init
  <1>0. /\ Nothing \in Tables /\ \A j \in Jobs : Nothing[j] = NoJob
        /\ \A j \in Jobs : Untouched[j] = Keep
        /\ Untouched \in Logs
    BY DEF Nothing, Tables, Untouched, Logs
  <1>1. TypeOK
    <2>1. timer \in IF up THEN {"asleep", "busy"} ELSE {"none"}
      OBVIOUS
    <2>2. /\ current \in Times \cup {Idle}
          /\ current # Idle <=> timer = "busy"
      OBVIOUS
    <2>3. disk \in Tables \cup {Unreadable} /\ store \in Tables
      BY <1>0
    <2>4. used \subseteq Jobs /\ actions \in [Jobs -> Entry \cup {NoJob, Keep}]
      BY <1>0 DEF Logs
    <2>5. up \in BOOLEAN /\ logLost \in BOOLEAN
      BY Zenon
    <2>. QED BY <2>1, <2>2, <2>3, <2>4, <2>5 DEF TypeOK
  <1>2. Sane /\ Known /\ LogFresh
    BY <1>0 DEF Sane, Known, LogFresh
  <1>4. TablesAhead
    <2>1. Ahead(store)
      BY <1>0 DEF Ahead
    <2>. QED BY <2>1 DEF TablesAhead
  <1>3. BatchFresh /\ BatchEnabled /\ Saved /\ Survive
    BY DEF BatchFresh, CompletedOnce, BatchEnabled, Batch, Saved, Survive
  <1>. QED BY <1>1, <1>2, <1>3, <1>4 DEF IInv

\* A step that changes nothing keeps the invariant.
LEMMA StutterStep ==
    ASSUME IInv, UNCHANGED vars
    PROVE  IInv'
  <1>. USE DEF vars, files, task, history, bounds
  <1>1. TypeOK' /\ Sane' /\ Known' /\ LogFresh' /\ TablesAhead'
    BY DEF IInv, TypeOK, Sane, Known, LogFresh, TablesAhead, Ahead
  <1>2. BatchFresh' /\ BatchEnabled' /\ Saved' /\ Survive'
    BY DEF IInv, BatchFresh, CompletedOnce, BatchEnabled, Batch, Saved, Survive
  <1>. QED BY <1>1, <1>2 DEF IInv

\* Every step keeps the invariant.
LEMMA NextInv == IInv /\ [Next]_vars => IInv'
  <1>. SUFFICES ASSUME IInv, [Next]_vars PROVE IInv'
    OBVIOUS
  <1>1. CASE Elapse
    BY <1>1, ElapseStep
  <1>2. CASE Start
    BY <1>2, StartStep
  <1>3. CASE StartRefused \/ CliLoadFails
    BY <1>3, StartRefusedStep
  <1>4. CASE ExitInStart
    BY <1>4, ExitInStartStep
  <1>5. CASE Exit \/ ExitInMerge
    BY <1>5, DownStep
  <1>6. CASE Damage
    BY <1>6, DamageStep
  <1>7. CASE WakeInVain
    BY <1>7, WakeInVainStep
  <1>8. CASE Wake
    BY <1>8, WakeStep
  <1>9. CASE FinishJob
    BY <1>9, FinishJobStep
  <1>10. CASE BatchDies
    BY <1>10, BatchDiesStep
  <1>11. CASE ListJobs
    BY <1>11, ListJobsStep
  <1>12. ASSUME NEW j \in Jobs, Call(j) PROVE IInv'
    BY <1>12, AddJobStep, RemoveJobStep, SetJobStep, RunJobStep, FinishRunStep,
       CliAddStep, CliRemoveStep DEF Call
  <1>13. CASE UNCHANGED vars
    BY <1>13, StutterStep
  <1>. QED BY <1>1, <1>2, <1>3, <1>4, <1>5, <1>6, <1>7, <1>8, <1>9, <1>10,
              <1>11, <1>12, <1>13 DEF Next

\* The inductive invariant of the scheduler.
THEOREM Invariant == Spec => []IInv
  BY InitInv, NextInv, PTL DEF Spec

\* The service's tables, its log and its timer task keep their types: there
\* is a batch exactly while the timer executes one, and what completed was
\* begun.
THEOREM TypeCorrect == Spec => []TypeOK
  <1>1. IInv => TypeOK
    BY DEF IInv
  <1>. QED BY <1>1, Invariant, PTL

\* No due time that was executed to its end is executed again: not after a
\* load beside the execution, a cancelled batch, a call or a restart.
THEOREM CompletedAtMostOnce == Spec => []CompletedOnce
  <1>1. IInv => CompletedOnce
    BY DEF IInv, BatchFresh
  <1>. QED BY <1>1, Invariant, PTL

\* A repeating job in the batch is in the table and switched on: a call that
\* removes it or switches it off takes the batch with it.
THEOREM BatchesEnabled == Spec => []BatchEnabled
  <1>1. IInv => BatchEnabled
    BY DEF IInv
  <1>. QED BY <1>1, Invariant, PTL

\* Between executions the table in memory is the one on disk, so that the
\* reload of the next call loses nothing.
THEOREM MemorySaved == Spec => []IdleSaved
  <1>1. IInv => IdleSaved
    <2>1. ASSUME IInv, up, Active = 0 PROVE timer = "asleep"
      BY <2>1, ActiveFacts DEF IInv, TypeOK
    <2>. QED BY <2>1 DEF IInv, Saved, IdleSaved
  <1>. QED BY <1>1, Invariant, PTL

\* A job that was created and neither removed nor done is on disk or in the
\* log after any exit, but for damage to the file and for the one gap between
\* the emptying of the log and the save.
THEOREM CreatedJobsSurvive == Spec => []JobsSurvive
  <1>1. IInv => JobsSurvive
    BY DEF IInv, Survive, JobsSurvive
  <1>. QED BY <1>1, Invariant, PTL

\* The job table keeps its types, is saved between executions, and the batch
\* follows it.
THEOREM TableIsSound == Spec => []TableSound
  BY TypeCorrect, MemorySaved, BatchesEnabled, PTL DEF TableSound
=============================================================================
