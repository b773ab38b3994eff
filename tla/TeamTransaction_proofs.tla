---------------------- MODULE TeamTransaction_proofs ----------------------
(***************************************************************************)
(* Proofs about TeamTransaction, for any number of processes, files,       *)
(* operations and commands and any journal window: under the lock one      *)
(* process has one entry in hand, and the journal remembers enough for an  *)
(* operation to take effect once, over what its envelope showed.           *)
(***************************************************************************)
EXTENDS TeamTransaction, FiniteSetTheorems, SequenceTheorems, TLAPS

----------------------------------------------------------------------------
(* What the variables range over.                                          *)
Plans == [cmd : Command, after : OnPaths(Contents)]
Envelopes == [cmd : Command, changes : Writes, pins : OnPaths(Contents)]
Results == {"locked", "recovered", "interrupted", "applied", "replay", "used", "conflict"}
Answers == [result : Results, env : Nat]
Hands == [op : Op, own : BOOLEAN]
Rolling == {"rolling", "writing", "completing"}
Planning == {p \in Proc : pc[p] = "planning"}

Disk ==
  /\ file \in [Path -> Contents]
  /\ lines \in [1..MaxPreviews -> Nat]
  /\ journal \in [Op -> Entries \cup {NoEntry}]
  /\ envs \in Seq(Envelopes)
  /\ commits \in Seq(Nat)
  /\ \A i \in DOMAIN commits : commits[i] \in DOMAIN envs

Processes ==
  /\ pc \in [Proc -> Locked \cup Free]
  /\ env \in [Proc -> 0..Len(envs)]
  /\ plan \in [Proc -> Plans \cup {Nothing}]
  /\ todo \in [Proc -> SUBSET Op]
  /\ cur \in [Proc -> Hands \cup {Nothing}]
  /\ left \in [Proc -> SUBSET Path]
  /\ target \in [Proc -> Path \cup {Nothing}]
  /\ answer \in [Proc -> Answers \cup {Nothing}]
  /\ crashes \in Nat /\ ioErrors \in Nat /\ edits \in Nat

(* An envelope is counted from the moment it is planned.                   *)
Issuing ==
  /\ Len(envs) + Cardinality(Planning) <= MaxPreviews
  /\ \A p \in Proc : pc[p] = "planning" => plan[p] \in Plans

(* The team lock.                                                          *)
OneHolder == \A p, q \in Proc : pc[p] \in Locked /\ pc[q] \in Locked => p = q

(* An entry of the journal says when its operation last took effect.       *)
Recorded(op) ==
  /\ journal[op].env \in DOMAIN envs
  /\ OpOf(journal[op].env) = op
  /\ journal[op].at \in DOMAIN commits
  /\ commits[journal[op].at] = journal[op].env
  /\ \A i \in DOMAIN commits : OpOf(commits[i]) = op => i <= journal[op].at

(* An operation the journal has forgotten took effect long ago.            *)
Forgotten(op) ==
  \A i \in DOMAIN commits : OpOf(commits[i]) = op => i + Window <= Len(commits)

Remembers ==
  \A op \in Op : IF journal[op] = NoEntry THEN Forgotten(op) ELSE Recorded(op)

(* What a process has in hand at each place of its command.                *)
Hand(p) ==
  /\ pc[p] \notin Locked => todo[p] = {}
  /\ todo[p] \subseteq Interrupted
  /\ pc[p] \in {"deciding", "accepted"} => env[p] # 0 /\ todo[p] = {}
  /\ pc[p] = "accepted" =>
       /\ plan[p] \in Plans
       /\ plan[p].cmd = envs[env[p]].cmd
       /\ journal[OpOf(env[p])] = NoEntry
  /\ pc[p] \in Rolling =>
       /\ cur[p] \in Hands
       /\ cur[p].op \in Interrupted
       /\ cur[p].op \notin todo[p]
       /\ left[p] \subseteq DOMAIN Entry(p).writes
       /\ cur[p].own => Entry(p).env = env[p] /\ todo[p] = {}
  /\ pc[p] = "writing" => target[p] \in left[p]
  /\ pc[p] = "completing" => left[p] = {}

Typed == Disk /\ Processes
Held == OneHolder /\ \A p \in Proc : Hand(p)
CoreInv == Typed /\ Issuing /\ Held /\ Remembers

----------------------------------------------------------------------------
(* A function on some of the files.                                        *)
LEMMA OnSomePaths ==
  ASSUME NEW S, NEW f \in OnPaths(S)
  PROVE  DOMAIN f \subseteq Path /\ \A path \in DOMAIN f : f[path] \in S
BY DEF OnPaths

LEMMA IsOnPaths ==
  ASSUME NEW S, NEW D \in SUBSET Path, NEW f \in [D -> S]
  PROVE  f \in OnPaths(S)
BY DEF OnPaths

(* What an edit makes of a content is a content.                           *)
LEMMA EditedIsContent ==
  ASSUME NEW c \in Command, NEW path \in DOMAIN c.edits, NEW content \in Contents,
         content = Absent <=> c.edits[path] = "create"
  PROVE  path \in Path /\ Edited(c, path, content) \in Contents
<1>1. c.edits[path] \in EditKinds /\ c.op \in Op /\ path \in Path
  BY PlanAssumption DEF PlanAssumption
<1>2. CASE c.edits[path] = "create"
  <2>1. Edited(c, path, content) = {c.op}
    BY <1>2 DEF Edited
  <2> QED BY <2>1, <1>1 DEF Contents
<1>3. CASE c.edits[path] = "update"
  <2>1. Edited(c, path, content) = content \cup {c.op} /\ content # Absent
    BY <1>3 DEF Edited
  <2> QED BY <2>1, <1>1 DEF Contents
<1>4. CASE c.edits[path] = "delete"
  <2>1. Edited(c, path, content) = Absent
    BY <1>4 DEF Edited
  <2> QED BY <2>1, <1>1 DEF Contents
<1> QED BY <1>1, <1>2, <1>3, <1>4 DEF EditKinds

LEMMA PlannedIsPlan ==
  ASSUME file \in [Path -> Contents], NEW c \in Command, Plannable(c, file)
  PROVE  [cmd |-> c, after |-> Planned(c, file)] \in Plans
<1>1. DOMAIN c.edits \subseteq Path
  BY PlanAssumption DEF PlanAssumption
<1>2. ASSUME NEW path \in DOMAIN c.edits
      PROVE  Edited(c, path, file[path]) \in Contents
  <2>1. file[path] \in Contents
    BY <1>1
  <2> QED BY <2>1, EditedIsContent DEF Plannable
<1>3. Planned(c, file) \in [DOMAIN c.edits -> Contents]
  BY <1>2 DEF Planned
<1>4. Planned(c, file) \in OnPaths(Contents)
  BY <1>1, <1>3, IsOnPaths
<1> QED BY <1>4 DEF Plans

(* The changes of a plan, and what an entry holds for each of its files.   *)
LEMMA ChangesOfPlan ==
  ASSUME file \in [Path -> Contents], NEW after \in OnPaths(Contents)
  PROVE  /\ Changes(after) \in Writes
         /\ DOMAIN Changes(after) = Changed(after, file)
         /\ Changed(after, file) \subseteq Path
         /\ \A path \in Changed(after, file) :
              Changes(after)[path] = [before |-> file[path], after |-> after[path]]
<1>1. DOMAIN after \subseteq Path /\ \A path \in DOMAIN after : after[path] \in Contents
  BY OnSomePaths
<1>2. Changed(after, file) \subseteq DOMAIN after
  BY DEF Changed
<1>3. Changes(after) \in [Changed(after, file) -> [before : Contents, after : Contents]]
  BY <1>1, <1>2 DEF Changes
<1>4. Changes(after) \in Writes
  BY <1>1, <1>2, <1>3, IsOnPaths DEF Writes
<1> QED BY <1>1, <1>2, <1>4 DEF Changes

LEMMA EntryParts ==
  ASSUME NEW j \in Entries
  PROVE  /\ j # NoEntry
         /\ j.state \in {"intent", "complete", "conflicted"}
         /\ j.env \in Nat /\ j.at \in Nat
         /\ j.writes \in Writes
         /\ DOMAIN j.writes \subseteq Path
         /\ \A path \in DOMAIN j.writes : /\ j.writes[path].before \in Contents
                                         /\ j.writes[path].after \in Contents
<1>1. j.writes \in Writes
  BY DEF Entries
<1>2. /\ DOMAIN j.writes \subseteq Path
      /\ \A path \in DOMAIN j.writes : j.writes[path] \in [before : Contents, after : Contents]
  BY <1>1, OnSomePaths DEF Writes
<1> QED BY <1>1, <1>2, TransactionAssumption DEF TransactionAssumption, Entries

(* Closing an entry keeps everything but its state.                        *)
Closing(j, op, s) == [j EXCEPT ![op].state = s]

LEMMA Closed ==
  ASSUME NEW j \in [Op -> Entries \cup {NoEntry}], NEW op \in Op, j[op] # NoEntry,
         NEW s \in {"complete", "conflicted"}, NEW done, done = Closing(j, op, s)
  PROVE  /\ done \in [Op -> Entries \cup {NoEntry}]
         /\ done[op] # NoEntry /\ done[op].state = s
         /\ done[op].env = j[op].env /\ done[op].at = j[op].at
         /\ done[op].writes = j[op].writes
         /\ \A other \in Op : other # op => done[other] = j[other]
<1> DEFINE e == j[op]
           f == [state |-> s, env |-> e.env, writes |-> e.writes, at |-> e.at]
<1>1. e \in Entries
  OBVIOUS
<1>2. f \in Entries
  BY <1>1 DEF Entries
<1>3. [e EXCEPT !.state = s] = f
  BY <1>1 DEF Entries
<1>4. done = [j EXCEPT ![op] = f]
  BY <1>3 DEF Closing
<1>5. f # NoEntry
  BY <1>2, EntryParts
<1>6. f.state = s /\ f.env = j[op].env /\ f.at = j[op].at /\ f.writes = j[op].writes
  OBVIOUS
<1> HIDE DEF f
<1> QED BY <1>2, <1>4, <1>5, <1>6

----------------------------------------------------------------------------
(* The entry in the hand of the process that rolls it forward.             *)
LEMMA InHand ==
  ASSUME CoreInv, NEW p \in Proc, pc[p] \in Rolling
  PROVE  /\ cur[p].op \in Op /\ cur[p].own \in BOOLEAN
         /\ cur[p].op \in Interrupted
         /\ Entry(p) \in Entries /\ journal[cur[p].op] # NoEntry
         /\ Entry(p).state = "intent"
         /\ Entry(p).env \in DOMAIN envs /\ Entry(p).env \in 1..MaxPreviews
         /\ left[p] \subseteq DOMAIN Entry(p).writes
         /\ DOMAIN Entry(p).writes \subseteq Path
<1>1. /\ cur[p] \in Hands /\ cur[p].op \in Interrupted
      /\ left[p] \subseteq DOMAIN Entry(p).writes
  BY DEF CoreInv, Held, Hand
<1>2. /\ cur[p].op \in Op /\ cur[p].own \in BOOLEAN
      /\ journal[cur[p].op] # NoEntry
      /\ journal[cur[p].op].state = "intent"
  BY <1>1 DEF Hands, Interrupted
<1>3. Entry(p) \in Entries
  BY <1>2 DEF Entry, CoreInv, Typed, Disk
<1>4. Entry(p).env \in DOMAIN envs
  BY <1>2 DEF Entry, CoreInv, Remembers, Recorded
<1>5. Len(envs) \in Nat /\ Cardinality(Planning) \in Nat /\ DOMAIN envs = 1..Len(envs)
  <2>1. IsFiniteSet(Planning)
    BY FS_Subset, TransactionAssumption DEF TransactionAssumption, Planning
  <2> QED BY <2>1, FS_CardinalityType DEF CoreInv, Typed, Disk
<1>6. Entry(p).env \in 1..MaxPreviews
  BY <1>4, <1>5, TransactionAssumption DEF TransactionAssumption, CoreInv, Issuing
<1>7. DOMAIN Entry(p).writes \subseteq Path
  BY <1>3, EntryParts
<1> QED BY <1>1, <1>2, <1>3, <1>4, <1>6, <1>7 DEF Entry

LEMMA PrunedIsJournal ==
  ASSUME NEW j \in [Op -> Entries \cup {NoEntry}]
  PROVE  /\ Pruned(j) \in [Op -> Entries \cup {NoEntry}]
         /\ \A op \in Op : Pruned(j)[op] # NoEntry => Pruned(j)[op] = j[op]
         /\ \A op \in Op : op \notin Completed(j) => Pruned(j)[op] = j[op]
BY DEF Pruned

(* The operation of an accepted apply, and its new entry.                  *)
LEMMA Accepted ==
  ASSUME CoreInv, NEW p \in Proc, pc[p] = "accepted"
  PROVE  /\ env[p] \in DOMAIN envs /\ envs[env[p]] \in Envelopes
         /\ plan[p] \in Plans /\ plan[p].cmd = envs[env[p]].cmd
         /\ plan[p].cmd \in Command /\ plan[p].cmd.op \in Op
         /\ plan[p].cmd.op = OpOf(env[p])
         /\ journal[plan[p].cmd.op] = NoEntry
         /\ Changes(plan[p].after) \in Writes
         /\ [state |-> "intent", env |-> env[p], writes |-> Changes(plan[p].after),
             at |-> Len(commits) + 1] \in Entries
<1>1. Hand(p)
  BY DEF CoreInv, Held
<1>2. /\ env[p] # 0 /\ plan[p] \in Plans /\ plan[p].cmd = envs[env[p]].cmd
      /\ journal[OpOf(env[p])] = NoEntry
  BY <1>1 DEF Hand
<1>3. env[p] \in 0..Len(envs) /\ Len(envs) \in Nat /\ DOMAIN envs = 1..Len(envs)
  BY DEF CoreInv, Typed, Processes, Disk
<1>4. env[p] \in DOMAIN envs
  BY <1>2, <1>3
<1>5. envs[env[p]] \in Envelopes
  BY <1>4, <1>3 DEF CoreInv, Typed, Disk
<1>6. plan[p].cmd \in Command /\ plan[p].after \in OnPaths(Contents)
  BY <1>2 DEF Plans
<1>7. plan[p].cmd.op \in Op
  BY <1>6, PlanAssumption DEF PlanAssumption
<1>8. plan[p].cmd.op = OpOf(env[p])
  BY <1>2 DEF OpOf
<1>9. Changes(plan[p].after) \in Writes
  BY <1>6, ChangesOfPlan DEF CoreInv, Typed, Disk
<1>10. Len(commits) \in Nat /\ env[p] \in Nat
  BY <1>3 DEF CoreInv, Typed, Disk
<1>11. [state |-> "intent", env |-> env[p], writes |-> Changes(plan[p].after),
        at |-> Len(commits) + 1] \in Entries
  BY <1>9, <1>10 DEF Entries
<1> QED BY <1>2, <1>4, <1>5, <1>6, <1>7, <1>8, <1>9, <1>11

(* The envelope of a plan.                                                 *)
LEMMA Sealed ==
  ASSUME CoreInv, NEW p \in Proc, pc[p] = "planning"
  PROVE  [cmd |-> plan[p].cmd, changes |-> Changes(plan[p].after),
          pins |-> [path \in DOMAIN Changes(plan[p].after) \cup plan[p].cmd.reads
                      |-> file[path]]] \in Envelopes
<1>1. plan[p] \in Plans /\ file \in [Path -> Contents]
  BY DEF CoreInv, Issuing, Typed, Disk
<1>2. plan[p].cmd \in Command /\ plan[p].after \in OnPaths(Contents)
  BY <1>1 DEF Plans
<1>3. Changes(plan[p].after) \in Writes /\ DOMAIN Changes(plan[p].after) \subseteq Path
  BY <1>1, <1>2, ChangesOfPlan
<1>4. plan[p].cmd.reads \subseteq Path
  BY <1>2, PlanAssumption DEF PlanAssumption
<1> DEFINE D == DOMAIN Changes(plan[p].after) \cup plan[p].cmd.reads
<1>5. D \in SUBSET Path
  BY <1>3, <1>4
<1>6. [path \in D |-> file[path]] \in [D -> Contents]
  BY <1>1, <1>5
<1>7. [path \in D |-> file[path]] \in OnPaths(Contents)
  BY <1>5, <1>6, IsOnPaths
<1> QED BY <1>2, <1>3, <1>7 DEF Envelopes

(* Which steps change what is on disk and what has been issued.            *)
LEMMA Quiet ==
  ASSUME [Next]_vars
  PROVE  \/ UNCHANGED <<disk, envs, commits>>
         \/ \E p \in Proc : \/ SealPreview(p) \/ WriteFile(p) \/ FindConflict(p)
                            \/ AppendLine(p) \/ Complete(p) \/ WriteIntent(p)
                            \/ RecoveryWriteFails(p)
         \/ ForeignEdit
<1>1. CASE UNCHANGED vars
  BY <1>1 DEF vars
<1>2. ASSUME NEW p \in Proc,
             \/ \E c \in Command : PlanPreview(p, c)
             \/ \E e \in 0..Len(envs) : BeginApply(p, e)
             \/ Acquire(p) \/ LockTimeout(p) \/ RecoverNext(p) \/ RecoverDone(p)
             \/ SkipWritten(p) \/ CheckFile(p) \/ AnswerFromJournal(p) \/ Decide(p)
             \/ Crash(p) \/ RecoveryCompleteFails(p) \/ RecoveryMarkFails(p)
      PROVE  UNCHANGED <<disk, envs, commits>>
  BY <1>2 DEF PlanPreview, BeginApply, Acquire, LockTimeout, RecoverNext, RecoverDone,
     SkipWritten, CheckFile, AnswerFromJournal, Decide, Crash, RecoveryCompleteFails,
     RecoveryMarkFails
<1> QED BY <1>1, <1>2 DEF Next, Step

LEMMA DiskStep == CoreInv /\ [Next]_vars => Disk'
<1> SUFFICES ASSUME CoreInv, [Next]_vars PROVE Disk'
  OBVIOUS
<1> USE DEF disk
<1>t. /\ Disk /\ file \in [Path -> Contents]
      /\ journal \in [Op -> Entries \cup {NoEntry}]
      /\ envs \in Seq(Envelopes) /\ commits \in Seq(Nat)
  BY DEF CoreInv, Typed, Disk
<1>1. CASE UNCHANGED <<disk, envs, commits>>
  BY <1>1, <1>t DEF Disk
<1>2. ASSUME NEW p \in Proc, SealPreview(p) PROVE Disk'
  <2>1. PICK e \in Envelopes : envs' = Append(envs, e)
    BY <1>2, Sealed DEF SealPreview
  <2>2. envs' \in Seq(Envelopes) /\ DOMAIN envs \subseteq DOMAIN envs'
    BY <2>1, <1>t
  <2> QED BY <1>2, <1>t, <2>2 DEF SealPreview, Disk
<1>3. ASSUME NEW p \in Proc, WriteFile(p) PROVE Disk'
  <2>1. pc[p] \in Rolling /\ target[p] \in left[p]
    BY <1>3 DEF WriteFile, CoreInv, Held, Hand, Rolling
  <2>2. Entry(p).writes[target[p]].after \in Contents
    BY <2>1, InHand, EntryParts
  <2>3. file' \in [Path -> Contents]
    BY <1>3, <1>t, <2>2 DEF WriteFile
  <2> QED BY <1>3, <1>t, <2>3 DEF WriteFile, Disk
<1>4. ASSUME NEW p \in Proc, AppendLine(p) PROVE Disk'
  <2>1. Entry(p).env \in 1..MaxPreviews
    BY <1>4, InHand DEF AppendLine, Rolling
  <2>2. lines' \in [1..MaxPreviews -> Nat]
    BY <1>4, <1>t, <2>1 DEF AppendLine, Disk
  <2> QED BY <1>4, <1>t, <2>2 DEF AppendLine, Disk
<1>5. ASSUME NEW p \in Proc, pc[p] \in Rolling, RollFails(p),
             UNCHANGED <<file, lines, envs, commits>>
      PROVE  Disk'
  <2>1. journal' = journal \/ journal' = Closing(journal, cur[p].op, "conflicted")
    BY <1>5 DEF RollFails, Closing
  <2>2. cur[p].op \in Op /\ journal[cur[p].op] # NoEntry
    BY <1>5, InHand
  <2>4. journal' \in [Op -> Entries \cup {NoEntry}]
    BY <2>1, <2>2, <1>t, Closed
  <2> QED BY <1>5, <1>t, <2>4 DEF Disk
<1>6. ASSUME NEW p \in Proc, Complete(p) PROVE Disk'
  <2>1. pc[p] \in Rolling
    BY <1>6 DEF Complete, Rolling
  <2> DEFINE done == Closing(journal, cur[p].op, "complete")
  <2>5. cur[p].op \in Op /\ journal[cur[p].op] # NoEntry
    BY <2>1, InHand
  <2>2. done \in [Op -> Entries \cup {NoEntry}]
    BY <2>5, <1>t, Closed
  <2>3. journal' = done \/ journal' = Pruned(done)
    BY <1>6 DEF Complete, Closing
  <2> HIDE DEF done
  <2>4. journal' \in [Op -> Entries \cup {NoEntry}]
    BY <2>2, <2>3, PrunedIsJournal
  <2> QED BY <1>6, <1>t, <2>4 DEF Complete, Disk
<1>7. ASSUME NEW p \in Proc, WriteIntent(p) PROVE Disk'
  <2>1. pc[p] = "accepted"
    BY <1>7 DEF WriteIntent
  <2>2. journal' \in [Op -> Entries \cup {NoEntry}]
    BY <1>7, <1>t, <2>1, Accepted DEF WriteIntent
  <2>3. commits' = Append(commits, env[p]) /\ env[p] \in DOMAIN envs
    BY <1>7, <2>1, Accepted DEF WriteIntent
  <2>4. env[p] \in Nat
    BY <2>3, <1>t
  <2>5. commits' \in Seq(Nat) /\ \A i \in DOMAIN commits' : commits'[i] \in DOMAIN envs
    BY <2>3, <2>4, <1>t DEF Disk
  <2> QED BY <1>7, <1>t, <2>2, <2>5 DEF WriteIntent, Disk
<1>8. ASSUME ForeignEdit PROVE Disk'
  <2>1. {Foreign} \in Contents /\ Absent \in Contents
    BY DEF Contents
  <2> QED BY <1>8, <1>t, <2>1 DEF ForeignEdit, Disk
<1>9. ASSUME NEW p \in Proc, FindConflict(p) \/ RecoveryWriteFails(p)
      PROVE  pc[p] \in Rolling /\ RollFails(p) /\ UNCHANGED <<file, lines, envs, commits>>
  BY <1>9 DEF FindConflict, RecoveryWriteFails, Visit, Rolling
<1> QED BY <1>1, <1>2, <1>3, <1>4, <1>5, <1>6, <1>7, <1>8, <1>9, Quiet

----------------------------------------------------------------------------
(* What the processes hold keeps its range.                                *)
LEMMA Returned ==
  ASSUME Typed, NEW p \in Proc, NEW r \in Results, Return(p, r), UNCHANGED envs,
         crashes' \in Nat, ioErrors' \in Nat, edits' \in Nat
  PROVE  Processes'
<1>1. Len(envs) \in Nat /\ Processes
  BY DEF Typed, Disk
<1>2. env[p] \in Nat
  BY <1>1 DEF Processes
<1>3. [result |-> r, env |-> env[p]] \in Answers
  BY <1>2 DEF Answers
<1>4. answer' = [answer EXCEPT ![p] = [result |-> r, env |-> env[p]]]
  BY DEF Return
<1>5. answer' \in [Proc -> Answers \cup {Nothing}]
  BY <1>1, <1>3, <1>4 DEF Processes
<1>6. pc' \in [Proc -> Locked \cup Free]
  BY <1>1 DEF Return, Goto, Processes, Free
<1>7. env' \in [Proc -> 0..Len(envs)] /\ todo' \in [Proc -> SUBSET Op]
  BY <1>1 DEF Return, Reset, Processes
<1>8. /\ plan' \in [Proc -> Plans \cup {Nothing}] /\ cur' \in [Proc -> Hands \cup {Nothing}]
      /\ left' \in [Proc -> SUBSET Path] /\ target' \in [Proc -> Path \cup {Nothing}]
  BY <1>1 DEF Return, Reset, Processes
<1> QED BY <1>5, <1>6, <1>7, <1>8 DEF Processes

LEMMA ProcessesStep == CoreInv /\ [Next]_vars => Processes'
<1> SUFFICES ASSUME CoreInv, [Next]_vars PROVE Processes'
  OBVIOUS
<1>t. /\ Typed /\ Processes /\ Len(envs) \in Nat
      /\ crashes \in Nat /\ ioErrors \in Nat /\ edits \in Nat
  BY DEF CoreInv, Typed, Disk, Processes
<1>0. CASE UNCHANGED vars
  BY <1>0, <1>t DEF vars, local, faults, Processes
<1>1. ASSUME NEW p \in Proc, NEW c \in Command, PlanPreview(p, c) PROVE Processes'
  <2>1. [cmd |-> c, after |-> Planned(c, file)] \in Plans
    BY <1>1, PlannedIsPlan DEF PlanPreview, CoreInv, Typed, Disk
  <2> QED BY <1>1, <1>t, <2>1 DEF PlanPreview, Goto, Processes, Free, faults
<1>2. ASSUME NEW p \in Proc, SealPreview(p) PROVE Processes'
  <2>1. PICK e \in Envelopes : envs' = Append(envs, e)
    BY <1>2, Sealed DEF SealPreview
  <2>2. Len(envs') = Len(envs) + 1
    BY <2>1 DEF CoreInv, Typed, Disk
  <2>3. env' \in [Proc -> 0..Len(envs')]
    BY <1>2, <1>t, <2>2 DEF SealPreview, Processes
  <2> QED BY <1>2, <1>t, <2>3 DEF SealPreview, Goto, Processes, Free, faults
<1>3. ASSUME NEW p \in Proc, NEW e \in 0..Len(envs), BeginApply(p, e) PROVE Processes'
  BY <1>3, <1>t DEF BeginApply, Goto, Processes, Free, faults
<1>4. ASSUME NEW p \in Proc, Acquire(p) PROVE Processes'
  BY <1>4, <1>t DEF Acquire, Goto, Processes, Locked, faults, Interrupted
<1>5. ASSUME NEW p \in Proc, LockTimeout(p) PROVE Processes'
  <2>1. Return(p, "locked") /\ "locked" \in Results /\ UNCHANGED <<envs, crashes, ioErrors, edits>>
    BY <1>5 DEF LockTimeout, Results, faults
  <2> QED BY <2>1, <1>t, Returned
<1>6. ASSUME NEW p \in Proc, RecoverNext(p) PROVE Processes'
  <2>1. PICK op \in todo[p] :
          /\ cur' = [cur EXCEPT ![p] = [op |-> op, own |-> FALSE]]
          /\ todo' = [todo EXCEPT ![p] = @ \ {op}]
          /\ left' = [left EXCEPT ![p] = DOMAIN journal[op].writes]
    BY <1>6 DEF RecoverNext
  <2>2. op \in Op /\ journal[op] # NoEntry
    BY <2>1 DEF CoreInv, Held, Hand, Interrupted
  <2>3. journal[op] \in Entries
    BY <2>2 DEF CoreInv, Typed, Disk
  <2>4. DOMAIN journal[op].writes \subseteq Path
    BY <2>3, EntryParts
  <2>5. [op |-> op, own |-> FALSE] \in Hands
    BY <2>2 DEF Hands
  <2> QED BY <1>6, <1>t, <2>1, <2>4, <2>5 DEF RecoverNext, Goto, Processes, Locked, faults
<1>7. ASSUME NEW p \in Proc, RecoverDone(p) PROVE Processes'
  <2>1. CASE env[p] = 0
    <3>1. Return(p, "recovered") /\ "recovered" \in Results /\ UNCHANGED <<envs, crashes, ioErrors, edits>>
      BY <1>7, <2>1 DEF RecoverDone, Results, faults
    <3> QED BY <3>1, <1>t, Returned
  <2>2. CASE env[p] # 0
    BY <1>7, <1>t, <2>2 DEF RecoverDone, Goto, Processes, Locked, faults
  <2> QED BY <2>1, <2>2
<1>8. ASSUME NEW p \in Proc, SkipWritten(p) \/ CheckFile(p) PROVE Processes'
  <2>1. CASE SkipWritten(p)
    BY <1>t, <2>1 DEF SkipWritten, Processes, faults
  <2>2. CASE CheckFile(p)
    <3>1. PICK path \in left[p] : target' = [target EXCEPT ![p] = path]
      BY <2>2 DEF CheckFile
    <3>2. path \in Path
      BY <1>t DEF Processes
    <3> QED BY <1>t, <2>2, <3>1, <3>2 DEF CheckFile, Goto, Processes, Locked, faults
  <2> QED BY <1>8, <2>1, <2>2
<1>9. ASSUME NEW p \in Proc, WriteFile(p) PROVE Processes'
  BY <1>9, <1>t DEF WriteFile, Goto, Processes, Locked, faults
<1>10. ASSUME NEW p \in Proc, RollFails(p), UNCHANGED <<envs>>,
              crashes' \in Nat, ioErrors' \in Nat, edits' \in Nat
       PROVE  Processes'
  <2>1. CASE cur[p].own
    <3>1. Return(p, "interrupted") /\ "interrupted" \in Results
      BY <1>10, <2>1 DEF RollFails, Results
    <3> QED BY <3>1, <1>10, <1>t, Returned
  <2>2. CASE ~cur[p].own
    BY <1>10, <1>t, <2>2 DEF RollFails, Goto, Processes, Locked
  <2> QED BY <2>1, <2>2
<1>11. ASSUME NEW p \in Proc, FindConflict(p) \/ RecoveryWriteFails(p) PROVE Processes'
  <2>1. /\ RollFails(p) /\ UNCHANGED envs
        /\ crashes' \in Nat /\ ioErrors' \in Nat /\ edits' \in Nat
    BY <1>11, <1>t DEF FindConflict, RecoveryWriteFails, faults, Processes
  <2> QED BY <2>1, <1>10
<1>12. ASSUME NEW p \in Proc, AppendLine(p) PROVE Processes'
  BY <1>12, <1>t DEF AppendLine, Goto, Processes, Locked, local, faults
<1>13. ASSUME NEW p \in Proc, Complete(p) PROVE Processes'
  <2>1. CASE cur[p].own
    <3>1. Return(p, "applied") /\ "applied" \in Results /\ UNCHANGED <<envs, crashes, ioErrors, edits>>
      BY <1>13, <2>1 DEF Complete, Results, faults
    <3> QED BY <3>1, <1>t, Returned
  <2>2. CASE ~cur[p].own
    BY <1>13, <1>t, <2>2 DEF Complete, Goto, Processes, Locked, local, faults
  <2> QED BY <2>1, <2>2
<1>14. ASSUME NEW p \in Proc, AnswerFromJournal(p) PROVE Processes'
  <2>1. PICK r \in {"interrupted", "replay", "used"} : Return(p, r)
    BY <1>14 DEF AnswerFromJournal
  <2>2. r \in Results /\ UNCHANGED <<envs, crashes, ioErrors, edits>>
    BY <1>14 DEF AnswerFromJournal, Results, faults
  <2> QED BY <2>1, <2>2, <1>t, Returned
<1>15. ASSUME NEW p \in Proc, Decide(p) PROVE Processes'
  <2>1. CASE Fresh(envs[env[p]])
    <3>1. env[p] # 0
      BY <1>15 DEF Decide, CoreInv, Held, Hand
    <3>2. envs[env[p]] \in Envelopes
      BY <3>1, <1>t DEF Processes, Disk, Typed
    <3>3. envs[env[p]].cmd \in Command
      BY <3>2 DEF Envelopes
    <3>4. [cmd |-> envs[env[p]].cmd, after |-> Planned(envs[env[p]].cmd, file)] \in Plans
      BY <2>1, <3>3, PlannedIsPlan DEF Fresh, CoreInv, Typed, Disk
    <3> QED BY <1>15, <1>t, <2>1, <3>4 DEF Decide, Goto, Processes, Locked, faults
  <2>2. CASE ~Fresh(envs[env[p]])
    <3>1. Return(p, "conflict") /\ "conflict" \in Results /\ UNCHANGED <<envs, crashes, ioErrors, edits>>
      BY <1>15, <2>2 DEF Decide, Results, faults
    <3> QED BY <3>1, <1>t, Returned
  <2> QED BY <2>1, <2>2
<1>16. ASSUME NEW p \in Proc, WriteIntent(p) PROVE Processes'
  <2>1. plan[p].cmd.op \in Op /\ Changes(plan[p].after) \in Writes
    BY <1>16, Accepted DEF WriteIntent
  <2>2. DOMAIN Changes(plan[p].after) \subseteq Path
    BY <2>1, OnSomePaths DEF Writes
  <2>3. [op |-> plan[p].cmd.op, own |-> TRUE] \in Hands
    BY <2>1 DEF Hands
  <2> QED BY <1>16, <1>t, <2>2, <2>3 DEF WriteIntent, Goto, Processes, Locked, faults
<1>17. ASSUME NEW p \in Proc, Crash(p) PROVE Processes'
  BY <1>17, <1>t DEF Crash, Goto, Reset, Processes, Free
<1>18. ASSUME NEW p \in Proc, RecoveryCompleteFails(p) \/ RecoveryMarkFails(p) PROVE Processes'
  <2>1. CASE RecoveryCompleteFails(p)
    BY <1>t, <2>1 DEF RecoveryCompleteFails, Goto, Processes, Locked, local
  <2>2. CASE RecoveryMarkFails(p)
    BY <1>t, <2>2 DEF RecoveryMarkFails, Goto, Processes, Locked
  <2> QED BY <1>18, <2>1, <2>2
<1>19. ASSUME ForeignEdit PROVE Processes'
  BY <1>19, <1>t DEF ForeignEdit, Processes, local
<1> QED BY <1>0, <1>1, <1>2, <1>3, <1>4, <1>5, <1>6, <1>7, <1>8, <1>9, <1>11, <1>12, <1>13,
           <1>14, <1>15, <1>16, <1>17, <1>18, <1>19 DEF Next, Step

----------------------------------------------------------------------------
(* Every step but ForeignEdit is a step of one process.                    *)
Kept(q) ==
  /\ pc'[q] = pc[q] /\ env'[q] = env[q] /\ plan'[q] = plan[q] /\ todo'[q] = todo[q]
  /\ cur'[q] = cur[q] /\ left'[q] = left[q] /\ target'[q] = target[q]

OthersKept(p) == \A q \in Proc : q # p => Kept(q)

LEMMA ReturnMoves ==
  ASSUME Processes, NEW p \in Proc, NEW r, Return(p, r)
  PROVE  /\ OthersKept(p)
         /\ pc'[p] = "idle" /\ todo'[p] = {}
BY DEF Return, Reset, Goto, Processes, OthersKept, Kept

LEMMA PreviewMoves ==
  ASSUME Processes, NEW p \in Proc,
         (\E c \in Command : PlanPreview(p, c)) \/ SealPreview(p)
           \/ (\E e \in 0..Len(envs) : BeginApply(p, e)) \/ Acquire(p) \/ LockTimeout(p)
  PROVE  OthersKept(p)
<1>1. ASSUME NEW c \in Command, PlanPreview(p, c) PROVE OthersKept(p)
  BY <1>1 DEF PlanPreview, Goto, Processes, OthersKept, Kept
<1>2. CASE SealPreview(p)
  BY <1>2 DEF SealPreview, Goto, Processes, OthersKept, Kept
<1>3. ASSUME NEW e \in 0..Len(envs), BeginApply(p, e) PROVE OthersKept(p)
  BY <1>3 DEF BeginApply, Goto, Processes, OthersKept, Kept
<1>4. CASE Acquire(p)
  BY <1>4 DEF Acquire, Goto, Processes, OthersKept, Kept
<1>5. CASE LockTimeout(p)
  BY <1>5, ReturnMoves DEF LockTimeout
<1> QED BY <1>1, <1>2, <1>3, <1>4, <1>5

LEMMA RollMoves ==
  ASSUME Processes, NEW p \in Proc, RollFails(p)
  PROVE  OthersKept(p)
<1>1. CASE cur[p].own
  BY <1>1, ReturnMoves DEF RollFails
<1>2. CASE ~cur[p].own
  BY <1>2 DEF RollFails, Goto, Processes, OthersKept, Kept
<1> QED BY <1>1, <1>2

LEMMA LockedMoves ==
  ASSUME Processes, NEW p \in Proc,
         \/ RecoverNext(p) \/ RecoverDone(p) \/ SkipWritten(p) \/ CheckFile(p) \/ WriteFile(p)
         \/ FindConflict(p) \/ AppendLine(p) \/ Complete(p) \/ AnswerFromJournal(p)
         \/ Decide(p) \/ WriteIntent(p) \/ Crash(p) \/ RecoveryWriteFails(p)
         \/ RecoveryCompleteFails(p) \/ RecoveryMarkFails(p)
  PROVE  OthersKept(p) /\ pc[p] \in Locked
<1>1. CASE RecoverNext(p)
  BY <1>1 DEF RecoverNext, Goto, Processes, OthersKept, Kept, Locked
<1>2. CASE RecoverDone(p)
  <2>1. CASE env[p] = 0
    BY <1>2, <2>1, ReturnMoves DEF RecoverDone, Locked
  <2>2. CASE env[p] # 0
    BY <1>2, <2>2 DEF RecoverDone, Goto, Processes, OthersKept, Kept, Locked
  <2> QED BY <2>1, <2>2
<1>3. CASE SkipWritten(p)
  BY <1>3 DEF SkipWritten, Visit, Processes, OthersKept, Kept, Locked
<1>4. CASE CheckFile(p)
  BY <1>4 DEF CheckFile, Visit, Goto, Processes, OthersKept, Kept, Locked
<1>5. CASE WriteFile(p)
  BY <1>5 DEF WriteFile, Goto, Processes, OthersKept, Kept, Locked
<1>6. CASE FindConflict(p) \/ RecoveryWriteFails(p)
  BY <1>6, RollMoves DEF FindConflict, RecoveryWriteFails, Visit, Locked
<1>7. CASE AppendLine(p)
  BY <1>7 DEF AppendLine, Goto, Processes, OthersKept, Kept, Locked, local
<1>8. CASE Complete(p)
  <2>1. CASE cur[p].own
    BY <1>8, <2>1, ReturnMoves DEF Complete, Locked
  <2>2. CASE ~cur[p].own
    BY <1>8, <2>2 DEF Complete, Goto, Processes, OthersKept, Kept, Locked, local
  <2> QED BY <2>1, <2>2
<1>9. CASE AnswerFromJournal(p)
  BY <1>9, ReturnMoves DEF AnswerFromJournal, Locked
<1>10. CASE Decide(p)
  <2>1. CASE Fresh(envs[env[p]])
    BY <1>10, <2>1 DEF Decide, Goto, Processes, OthersKept, Kept, Locked
  <2>2. CASE ~Fresh(envs[env[p]])
    BY <1>10, <2>2, ReturnMoves DEF Decide, Locked
  <2> QED BY <2>1, <2>2
<1>11. CASE WriteIntent(p)
  BY <1>11 DEF WriteIntent, Goto, Processes, OthersKept, Kept, Locked
<1>12. CASE Crash(p)
  BY <1>12 DEF Crash, Goto, Reset, Processes, OthersKept, Kept
<1>13. CASE RecoveryCompleteFails(p)
  BY <1>13 DEF RecoveryCompleteFails, Goto, Processes, OthersKept, Kept, Locked, local
<1>14. CASE RecoveryMarkFails(p)
  BY <1>14 DEF RecoveryMarkFails, Visit, Goto, Processes, OthersKept, Kept, Locked
<1> QED BY <1>1, <1>2, <1>3, <1>4, <1>5, <1>6, <1>7, <1>8, <1>9, <1>10, <1>11, <1>12, <1>13, <1>14

----------------------------------------------------------------------------
(* Previews never issue more envelopes than the bound.                     *)
LEMMA IssuingStep == CoreInv /\ [Next]_vars => Issuing'
<1> SUFFICES ASSUME CoreInv, [Next]_vars PROVE Issuing'
  OBVIOUS
<1>t. Processes /\ Issuing /\ envs \in Seq(Envelopes) /\ Len(envs) \in Nat
  BY DEF CoreInv, Typed, Disk
<1>f. IsFiniteSet(Planning) /\ Cardinality(Planning) \in Nat /\ MaxPreviews \in Nat
  BY FS_Subset, FS_CardinalityType, TransactionAssumption DEF TransactionAssumption, Planning
<1>k. ASSUME UNCHANGED envs,
             \A q \in Proc : pc'[q] = "planning" => pc[q] = "planning" /\ plan'[q] = plan[q]
      PROVE  Issuing'
  <2>1. Planning' \subseteq Planning
    BY <1>k DEF Planning
  <2>2. Cardinality(Planning') \in Nat /\ Cardinality(Planning') <= Cardinality(Planning)
    BY <1>f, <2>1, FS_Subset, FS_CardinalityType
  <2> QED BY <1>k, <1>t, <1>f, <2>2 DEF Issuing
<1>0. CASE UNCHANGED vars
  BY <1>0, <1>k DEF vars, local
<1>1. ASSUME NEW p \in Proc, NEW c \in Command, PlanPreview(p, c) PROVE Issuing'
  <2>1. /\ OthersKept(p) /\ pc[p] = "idle" /\ UNCHANGED envs
        /\ pc'[p] = "planning" /\ plan'[p] = [cmd |-> c, after |-> Planned(c, file)]
        /\ Len(envs) + Cardinality(Planning) < MaxPreviews
    BY <1>1, <1>t, PreviewMoves DEF PlanPreview, Goto, Processes, Planning
  <2>2. Planning' = Planning \cup {p}
    BY <2>1 DEF Planning, OthersKept, Kept
  <2>3. Cardinality(Planning') \in Nat /\ Cardinality(Planning') <= Cardinality(Planning) + 1
    <3>1. /\ IsFiniteSet(Planning')
          /\ Cardinality(Planning') = IF p \in Planning THEN Cardinality(Planning)
                                                        ELSE Cardinality(Planning) + 1
      BY <1>f, <2>2, FS_AddElement
    <3> QED BY <1>f, <3>1
  <2>4. plan'[p] \in Plans
    BY <1>1, <2>1, PlannedIsPlan DEF PlanPreview, CoreInv, Typed, Disk
  <2> QED BY <1>t, <1>f, <2>1, <2>3, <2>4 DEF Issuing, OthersKept, Kept
<1>2. ASSUME NEW p \in Proc, SealPreview(p) PROVE Issuing'
  <2>1. /\ OthersKept(p) /\ pc[p] = "planning" /\ pc'[p] = "idle"
    BY <1>2, <1>t, PreviewMoves DEF SealPreview, Goto, Processes
  <2>2. PICK e \in Envelopes : envs' = Append(envs, e)
    BY <1>2, Sealed DEF SealPreview
  <2>3. Len(envs') = Len(envs) + 1
    BY <2>2, <1>t
  <2>4. Planning' = Planning \ {p} /\ p \in Planning
    BY <2>1 DEF Planning, OthersKept, Kept
  <2>5. Cardinality(Planning') = Cardinality(Planning) - 1
    BY <1>f, <2>4, FS_RemoveElement
  <2> QED BY <1>t, <1>f, <2>1, <2>3, <2>5 DEF Issuing, OthersKept, Kept
<1>3. ASSUME NEW p \in Proc, NEW e \in 0..Len(envs), BeginApply(p, e) PROVE Issuing'
  BY <1>3, <1>t, <1>k DEF BeginApply, Goto, Processes
<1>4. ASSUME NEW p \in Proc, Acquire(p) PROVE Issuing'
  BY <1>4, <1>t, <1>k DEF Acquire, Goto, Processes
<1>5. ASSUME NEW p \in Proc, LockTimeout(p) PROVE Issuing'
  <2>1. OthersKept(p) /\ pc'[p] = "idle" /\ UNCHANGED envs
    BY <1>5, <1>t, ReturnMoves DEF LockTimeout
  <2> QED BY <2>1, <1>k DEF OthersKept, Kept
<1>6. ASSUME NEW p \in Proc, OthersKept(p), pc'[p] # "planning", UNCHANGED envs
      PROVE  Issuing'
  BY <1>6, <1>k DEF OthersKept, Kept
<1>7. ASSUME NEW p \in Proc,
             \/ RecoverNext(p) \/ RecoverDone(p) \/ CheckFile(p) \/ WriteFile(p)
             \/ AppendLine(p) \/ Complete(p) \/ AnswerFromJournal(p)
             \/ Decide(p) \/ WriteIntent(p) \/ Crash(p)
             \/ RecoveryCompleteFails(p) \/ RecoveryMarkFails(p)
      PROVE  pc'[p] # "planning" /\ UNCHANGED envs
  BY <1>7, <1>t DEF RecoverNext, RecoverDone, CheckFile, WriteFile, AppendLine, Complete,
     AnswerFromJournal, Decide, WriteIntent, Crash, RecoveryCompleteFails, RecoveryMarkFails,
     Return, Goto, Processes
<1>8. ASSUME NEW p \in Proc, SkipWritten(p) PROVE pc'[p] # "planning" /\ UNCHANGED envs
  BY <1>8 DEF SkipWritten, Visit
<1>9. ASSUME NEW p \in Proc, FindConflict(p) \/ RecoveryWriteFails(p)
      PROVE  pc'[p] # "planning" /\ UNCHANGED envs
  BY <1>9, <1>t DEF FindConflict, RecoveryWriteFails, RollFails, Return, Goto, Processes
<1>10. ASSUME ForeignEdit PROVE Issuing'
  BY <1>10, <1>k DEF ForeignEdit, local
<1> QED BY <1>t, <1>0, <1>1, <1>2, <1>3, <1>4, <1>5, <1>6, <1>7, <1>8, <1>9, <1>10, LockedMoves
        DEF Next, Step

----------------------------------------------------------------------------
(* The lock, and what its holder has in hand.                              *)
Extends == /\ DOMAIN envs \subseteq DOMAIN envs'
           /\ \A e \in DOMAIN envs : envs'[e] = envs[e]

LEMMA AppendKeeps ==
  ASSUME NEW S, NEW s \in Seq(S), NEW e \in S
  PROVE  /\ DOMAIN s \subseteq DOMAIN Append(s, e)
         /\ \A i \in DOMAIN s : Append(s, e)[i] = s[i]
OBVIOUS

LEMMA EnvsExtend ==
  ASSUME Disk, UNCHANGED envs \/ (\E e \in Envelopes : envs' = Append(envs, e))
  PROVE  Extends
<1>1. envs \in Seq(Envelopes)
  BY DEF Disk
<1>2. ASSUME NEW e \in Envelopes, envs' = Append(envs, e) PROVE Extends
  BY <1>1, <1>2, AppendKeeps DEF Extends
<1>3. CASE UNCHANGED envs
  BY <1>3 DEF Extends
<1> QED BY <1>2, <1>3

(* Who does not move keeps what it has, unless the journal changes while   *)
(* it holds the lock.                                                      *)
LEMMA HandKept ==
  ASSUME CoreInv, NEW q \in Proc, Kept(q), Extends, UNCHANGED journal \/ pc[q] \notin Locked
  PROVE  Hand(q)'
<1>1. Hand(q) /\ env[q] \in 0..Len(envs) /\ Len(envs) \in Nat /\ DOMAIN envs = 1..Len(envs)
  BY DEF CoreInv, Held, Typed, Processes, Disk
<1>2. CASE pc[q] \notin Locked
  BY <1>1, <1>2 DEF Hand, Kept, Locked, Rolling
<1>3. CASE pc[q] \in Locked /\ UNCHANGED journal
  <2>1. Interrupted' = Interrupted /\ Entry(q)' = Entry(q)
    BY <1>3 DEF Interrupted, Entry, Kept
  <2>2. pc[q] = "accepted" => envs'[env[q]] = envs[env[q]]
    BY <1>1 DEF Hand, Extends
  <2>3. pc[q] = "accepted" => OpOf(env[q])' = OpOf(env[q])
    BY <2>2 DEF OpOf, Kept
  <2> QED BY <1>1, <1>3, <2>1, <2>2, <2>3 DEF Hand, Kept
<1> QED BY <1>2, <1>3

LEMMA HeldByMover ==
  ASSUME CoreInv, NEW p \in Proc, OthersKept(p), Hand(p)', Extends,
         pc'[p] \in Locked => pc[p] \in Locked \/ InLock = {},
         UNCHANGED journal \/ pc[p] \in Locked
  PROVE  Held'
<1>1. \A q \in Proc : q # p /\ pc[p] \in Locked => pc[q] \notin Locked
  BY DEF CoreInv, Held, OneHolder
<1>2. ASSUME NEW q \in Proc PROVE Hand(q)'
  <2>1. CASE q # p
    BY <1>1, <2>1, HandKept DEF OthersKept
  <2> QED BY <2>1
<1>3. OneHolder'
  BY <1>1 DEF OneHolder, OthersKept, Kept, InLock, CoreInv, Held
<1> QED BY <1>2, <1>3 DEF Held

(* Outside the lock nothing is in hand.                                    *)
LEMMA HandEmpty ==
  ASSUME NEW p \in Proc, pc'[p] \in Free, todo'[p] = {}
  PROVE  Hand(p)'
BY DEF Hand, Free, Locked, Rolling

LEMMA HeldInit == Init => Held
<1> SUFFICES ASSUME Init PROVE Held
  OBVIOUS
<1>1. \A p \in Proc : pc[p] = "idle" /\ todo[p] = {}
  BY DEF Init
<1> QED BY <1>1 DEF Held, OneHolder, Hand, Locked, Rolling

LEMMA HeldOutside ==
  ASSUME CoreInv, NEW p \in Proc,
         (\E c \in Command : PlanPreview(p, c)) \/ SealPreview(p)
           \/ (\E e \in 0..Len(envs) : BeginApply(p, e)) \/ LockTimeout(p)
  PROVE  Held'
<1>t. Processes /\ Disk /\ Hand(p)
  BY DEF CoreInv, Typed, Held
<1>1. OthersKept(p)
  BY <1>t, PreviewMoves
<1>2. pc[p] \in Free /\ pc[p] \notin Locked
  BY DEF PlanPreview, SealPreview, BeginApply, LockTimeout, Free, Locked
<1>3. todo[p] = {}
  BY <1>t, <1>2 DEF Hand
<1>4. pc'[p] \in Free /\ todo'[p] = {} /\ UNCHANGED journal
  BY <1>t, <1>3 DEF PlanPreview, SealPreview, BeginApply, LockTimeout, Return, Reset, Goto,
     Processes, Free, disk
<1>5. pc'[p] \notin Locked
  BY <1>4 DEF Free, Locked
<1>6. UNCHANGED envs \/ (\E e \in Envelopes : envs' = Append(envs, e))
  BY Sealed DEF PlanPreview, SealPreview, BeginApply, LockTimeout
<1>7. Extends /\ Hand(p)'
  BY <1>t, <1>4, <1>6, EnvsExtend, HandEmpty
<1> QED BY <1>1, <1>4, <1>5, <1>7, HeldByMover

LEMMA HeldStepQuiet ==
  ASSUME CoreInv, NEW p \in Proc,
         \/ Acquire(p) \/ RecoverNext(p) \/ RecoverDone(p) \/ SkipWritten(p) \/ CheckFile(p)
         \/ WriteFile(p) \/ AppendLine(p) \/ AnswerFromJournal(p) \/ Decide(p) \/ Crash(p)
         \/ RecoveryCompleteFails(p) \/ RecoveryMarkFails(p)
  PROVE  Held'
<1>t. Processes /\ Disk /\ Hand(p)
  BY DEF CoreInv, Typed, Held
<1>1. UNCHANGED <<journal, envs>>
  BY DEF Acquire, RecoverNext, RecoverDone, SkipWritten, CheckFile, WriteFile, AppendLine,
     AnswerFromJournal, Decide, Crash, RecoveryCompleteFails, RecoveryMarkFails, disk
<1>2. Extends
  BY <1>t, <1>1, EnvsExtend
<1>3. OthersKept(p) /\ (pc'[p] \in Locked => pc[p] \in Locked \/ InLock = {})
  <2>1. CASE Acquire(p)
    BY <1>t, <2>1, PreviewMoves DEF Acquire
  <2> QED BY <1>t, <2>1, LockedMoves
<1>4. Interrupted' = Interrupted /\ OpOf(env[p])' = OpOf(env'[p])
  BY <1>1 DEF Interrupted, OpOf
<1>5. CASE Acquire(p)
  <2>1. pc'[p] = "recovering" /\ todo'[p] = Interrupted
    BY <1>t, <1>5 DEF Acquire, Goto, Processes
  <2> QED BY <1>1, <1>2, <1>3, <1>4, <2>1, HeldByMover DEF Hand, Locked, Rolling
<1>6. CASE RecoverNext(p)
  <2>1. PICK op \in todo[p] :
          /\ cur'[p] = [op |-> op, own |-> FALSE]
          /\ todo'[p] = todo[p] \ {op}
          /\ left'[p] = DOMAIN journal[op].writes
    BY <1>t, <1>6 DEF RecoverNext, Processes
  <2>2. pc'[p] = "rolling" /\ todo[p] \subseteq Interrupted
    BY <1>t, <1>6 DEF RecoverNext, Goto, Processes, Hand
  <2>3. op \in Op /\ op \in Interrupted /\ cur'[p] \in Hands
    BY <2>1, <2>2 DEF Interrupted, Hands
  <2>4. cur'[p].op = op /\ cur'[p].own = FALSE
    BY <2>1
  <2>5. Entry(p)' = journal[op]
    BY <1>1, <2>4 DEF Entry
  <2>6. Hand(p)'
    BY <1>1, <1>4, <2>1, <2>2, <2>3, <2>4, <2>5 DEF Hand, Locked, Rolling
  <2> QED BY <1>1, <1>2, <1>3, <2>6, HeldByMover
<1>7. CASE RecoverDone(p)
  <2>1. CASE env[p] = 0
    <3>1. pc'[p] = "idle" /\ todo'[p] = {}
      BY <1>t, <1>7, <2>1, ReturnMoves DEF RecoverDone
    <3> QED BY <1>1, <1>2, <1>3, <3>1, HandEmpty, HeldByMover DEF Free
  <2>2. CASE env[p] # 0
    <3>1. pc'[p] = "deciding" /\ todo'[p] = {} /\ env'[p] # 0
      BY <1>t, <1>7, <2>2 DEF RecoverDone, Goto, Processes
    <3> QED BY <1>1, <1>2, <1>3, <3>1, HeldByMover DEF Hand, Locked, Rolling
  <2> QED BY <2>1, <2>2
<1>8. CASE SkipWritten(p)
  <2>1. /\ pc'[p] = "rolling" /\ pc[p] = "rolling" /\ left'[p] \subseteq left[p]
        /\ todo'[p] = todo[p] /\ cur'[p] = cur[p] /\ env'[p] = env[p]
    BY <1>t, <1>8 DEF SkipWritten, Visit, Processes
  <2>2. Entry(p)' = Entry(p)
    BY <1>1, <2>1 DEF Entry
  <2>3. Hand(p)'
    BY <1>t, <1>4, <2>1, <2>2 DEF Hand, Locked, Rolling
  <2> QED BY <1>1, <1>2, <1>3, <2>3, HeldByMover
<1>9. CASE CheckFile(p)
  <2>1. /\ pc'[p] = "writing" /\ pc[p] = "rolling" /\ left'[p] = left[p]
        /\ target'[p] \in left[p]
        /\ todo'[p] = todo[p] /\ cur'[p] = cur[p] /\ env'[p] = env[p]
    BY <1>t, <1>9 DEF CheckFile, Visit, Goto, Processes
  <2>2. Entry(p)' = Entry(p)
    BY <1>1, <2>1 DEF Entry
  <2>3. Hand(p)'
    BY <1>t, <1>4, <2>1, <2>2 DEF Hand, Locked, Rolling
  <2> QED BY <1>1, <1>2, <1>3, <2>3, HeldByMover
<1>10. CASE WriteFile(p)
  <2>1. /\ pc'[p] = "rolling" /\ pc[p] = "writing" /\ left'[p] \subseteq left[p]
        /\ todo'[p] = todo[p] /\ cur'[p] = cur[p] /\ env'[p] = env[p]
    BY <1>t, <1>10 DEF WriteFile, Goto, Processes
  <2>2. Entry(p)' = Entry(p)
    BY <1>1, <2>1 DEF Entry
  <2>3. Hand(p)'
    BY <1>t, <1>4, <2>1, <2>2 DEF Hand, Locked, Rolling
  <2> QED BY <1>1, <1>2, <1>3, <2>3, HeldByMover
<1>11. CASE AppendLine(p)
  <2>1. /\ pc'[p] = "completing" /\ pc[p] = "rolling" /\ left[p] = {} /\ left'[p] = left[p]
        /\ todo'[p] = todo[p] /\ cur'[p] = cur[p] /\ env'[p] = env[p]
    BY <1>t, <1>11 DEF AppendLine, Goto, Processes, local
  <2>2. Entry(p)' = Entry(p)
    BY <1>1, <2>1 DEF Entry
  <2>3. Hand(p)'
    BY <1>t, <1>4, <2>1, <2>2 DEF Hand, Locked, Rolling
  <2> QED BY <1>1, <1>2, <1>3, <2>3, HeldByMover
<1>12. CASE AnswerFromJournal(p)
  <2>1. pc'[p] = "idle" /\ todo'[p] = {}
    BY <1>t, <1>12, ReturnMoves DEF AnswerFromJournal
  <2> QED BY <1>1, <1>2, <1>3, <2>1, HandEmpty, HeldByMover DEF Free
<1>13. CASE Decide(p)
  <2>1. CASE Fresh(envs[env[p]])
    <3>1. /\ pc[p] = "deciding" /\ pc'[p] = "accepted" /\ env'[p] = env[p] /\ todo'[p] = todo[p]
          /\ plan'[p] = [cmd |-> envs[env[p]].cmd, after |-> Planned(envs[env[p]].cmd, file)]
          /\ journal[OpOf(env[p])] = NoEntry
      BY <1>t, <1>13, <2>1 DEF Decide, Goto, Processes
    <3>2. env[p] # 0 /\ todo[p] = {}
      BY <1>t, <3>1 DEF Hand
    <3>6. env[p] \in DOMAIN envs /\ envs \in Seq(Envelopes)
      BY <1>t, <3>2 DEF Processes, Disk
    <3>7. envs[env[p]] \in Envelopes
      BY <3>6
    <3>3. envs[env[p]].cmd \in Command
      BY <3>7 DEF Envelopes
    <3>4. plan'[p] \in Plans /\ plan'[p].cmd = envs[env[p]].cmd
      BY <1>t, <2>1, <3>1, <3>3, PlannedIsPlan DEF Fresh, Disk
    <3>5. Hand(p)'
      BY <1>1, <1>4, <3>1, <3>2, <3>4 DEF Hand, Locked, Rolling
    <3> QED BY <1>1, <1>2, <1>3, <3>5, HeldByMover
  <2>2. CASE ~Fresh(envs[env[p]])
    <3>1. pc'[p] = "idle" /\ todo'[p] = {}
      BY <1>t, <1>13, <2>2, ReturnMoves DEF Decide
    <3> QED BY <1>1, <1>2, <1>3, <3>1, HandEmpty, HeldByMover DEF Free
  <2> QED BY <2>1, <2>2
<1>14. CASE Crash(p)
  <2>1. pc'[p] = "idle" /\ todo'[p] = {}
    BY <1>t, <1>14 DEF Crash, Goto, Reset, Processes
  <2> QED BY <1>1, <1>2, <1>3, <2>1, HandEmpty, HeldByMover DEF Free
<1>15. CASE RecoveryCompleteFails(p) \/ RecoveryMarkFails(p)
  <2>1. pc'[p] = "recovering" /\ todo'[p] = todo[p]
    BY <1>t, <1>15 DEF RecoveryCompleteFails, RecoveryMarkFails, Goto, Processes, local
  <2>2. Hand(p)'
    BY <1>t, <1>4, <2>1 DEF Hand, Locked, Rolling
  <2> QED BY <1>1, <1>2, <1>3, <2>2, HeldByMover
<1> QED BY <1>5, <1>6, <1>7, <1>8, <1>9, <1>10, <1>11, <1>12, <1>13, <1>14, <1>15

(* The steps that change the journal: an intent is closed, or one begins.  *)
LEMMA InterruptedAfter ==
  ASSUME NEW o \in Op, NEW op \in Op, o # op, journal'[o] = journal[o], o \in Interrupted
  PROVE  o \in Interrupted'
BY DEF Interrupted

LEMMA HeldStepJournal ==
  ASSUME CoreInv, NEW p \in Proc,
         FindConflict(p) \/ RecoveryWriteFails(p) \/ Complete(p) \/ WriteIntent(p)
  PROVE  Held'
<1>t. Processes /\ Disk /\ Hand(p) /\ journal \in [Op -> Entries \cup {NoEntry}]
  BY DEF CoreInv, Typed, Held, Disk
<1>1. UNCHANGED envs
  BY DEF FindConflict, RecoveryWriteFails, Complete, WriteIntent
<1>2. Extends /\ OthersKept(p) /\ pc[p] \in Locked
  BY <1>t, <1>1, EnvsExtend, LockedMoves
<1>3. ASSUME pc[p] \in Rolling, pc'[p] = "recovering", todo'[p] = todo[p],
             \A o \in Op : o # cur[p].op => journal'[o] = journal[o]
      PROVE  Held'
  <2>1. todo[p] \subseteq Interrupted /\ cur[p].op \notin todo[p] /\ cur[p].op \in Op
    BY <1>t, <1>3, InHand DEF Hand
  <2>2. todo[p] \subseteq Interrupted'
    BY <1>3, <2>1, InterruptedAfter DEF Interrupted
  <2>3. Hand(p)'
    BY <1>3, <2>2 DEF Hand, Locked, Rolling
  <2> QED BY <1>2, <2>3, HeldByMover
<1>4. ASSUME NEW r, Return(p, r) PROVE Held'
  <2>1. pc'[p] = "idle" /\ todo'[p] = {}
    BY <1>t, <1>4, ReturnMoves
  <2> QED BY <1>2, <2>1, HandEmpty, HeldByMover DEF Free
<1>5. ASSUME RollFails(p), pc[p] \in Rolling PROVE Held'
  <2>1. CASE cur[p].own
    BY <1>4, <1>5, <2>1 DEF RollFails
  <2>2. CASE ~cur[p].own
    <3>1. pc'[p] = "recovering" /\ todo'[p] = todo[p]
      BY <1>t, <1>5, <2>2 DEF RollFails, Goto, Processes
    <3>2. cur[p].op \in Op /\ journal[cur[p].op] # NoEntry
      BY <1>5, InHand
    <3>3. journal' = Closing(journal, cur[p].op, "conflicted")
      BY <1>5, <2>2 DEF RollFails, Closing
    <3>4. \A o \in Op : o # cur[p].op => journal'[o] = journal[o]
      BY <1>t, <3>2, <3>3, Closed
    <3> QED BY <1>3, <1>5, <3>1, <3>4
  <2> QED BY <2>1, <2>2
<1>6. CASE FindConflict(p) \/ RecoveryWriteFails(p)
  BY <1>5, <1>6 DEF FindConflict, RecoveryWriteFails, Visit, Rolling
<1>7. CASE Complete(p)
  <2>1. CASE cur[p].own
    BY <1>4, <1>7, <2>1 DEF Complete
  <2>2. CASE ~cur[p].own
    <3>1. pc[p] \in Rolling /\ pc'[p] = "recovering" /\ todo'[p] = todo[p]
      BY <1>t, <1>7, <2>2 DEF Complete, Goto, Processes, local, Rolling
    <3>2. cur[p].op \in Op /\ journal[cur[p].op] # NoEntry
      BY <3>1, InHand
    <3>3. journal' = Closing(journal, cur[p].op, "complete")
      BY <1>7, <2>2 DEF Complete, Closing
    <3>4. \A o \in Op : o # cur[p].op => journal'[o] = journal[o]
      BY <1>t, <3>2, <3>3, Closed
    <3> QED BY <1>3, <3>1, <3>4
  <2> QED BY <2>1, <2>2
<1>8. CASE WriteIntent(p)
  <2> DEFINE op == plan[p].cmd.op
             e == [state |-> "intent", env |-> env[p], writes |-> Changes(plan[p].after),
                   at |-> Len(commits) + 1]
  <2>1. pc[p] = "accepted" /\ pc'[p] = "rolling" /\ todo'[p] = todo[p] /\ env'[p] = env[p]
    BY <1>t, <1>8 DEF WriteIntent, Goto, Processes
  <2>2. /\ op \in Op /\ journal[op] = NoEntry /\ e \in Entries /\ todo[p] = {}
    BY <1>t, <2>1, Accepted DEF Hand
  <2>3. /\ journal' = [journal EXCEPT ![op] = e]
        /\ cur'[p] = [op |-> op, own |-> TRUE]
        /\ left'[p] = DOMAIN Changes(plan[p].after)
    BY <1>t, <1>8 DEF WriteIntent, Processes
  <2>4. journal'[op] = e /\ e # NoEntry /\ e.state = "intent"
    BY <1>t, <2>2, <2>3, EntryParts
  <2>5. op \in Interrupted'
    BY <2>2, <2>4 DEF Interrupted
  <2>6. cur'[p] \in Hands /\ cur'[p].op = op
    BY <2>2, <2>3 DEF Hands
  <2>7. Entry(p)' = e
    BY <2>4, <2>6 DEF Entry
  <2>8. e.env = env[p] /\ e.writes = Changes(plan[p].after)
    OBVIOUS
  <2> HIDE DEF e, op
  <2>9. Hand(p)'
    BY <2>1, <2>2, <2>3, <2>5, <2>6, <2>7, <2>8 DEF Hand, Locked, Rolling
  <2> QED BY <1>2, <2>9, HeldByMover
<1> QED BY <1>6, <1>7, <1>8

LEMMA HeldStep == CoreInv /\ [Next]_vars => Held'
<1> SUFFICES ASSUME CoreInv, [Next]_vars PROVE Held'
  OBVIOUS
<1>1. CASE UNCHANGED vars \/ ForeignEdit
  <2>1. UNCHANGED <<journal, envs, pc, local>>
    BY <1>1 DEF vars, disk, ForeignEdit
  <2>2. \A q \in Proc : Kept(q)
    BY <2>1 DEF Kept, local
  <2>3. Extends
    BY <2>1, EnvsExtend DEF CoreInv, Typed
  <2>4. \A q \in Proc : Hand(q)'
    BY <2>1, <2>2, <2>3, HandKept
  <2> QED BY <2>1, <2>4 DEF Held, OneHolder, CoreInv
<1> QED BY <1>1, HeldOutside, HeldStepQuiet, HeldStepJournal DEF Next, Step

----------------------------------------------------------------------------
(* The journal remembers.                                                  *)
LEMMA RememberedKept ==
  ASSUME CoreInv, Extends, UNCHANGED commits, NEW op \in Op,
         \/ journal'[op] = journal[op]
         \/ /\ journal[op] # NoEntry /\ journal'[op] # NoEntry
            /\ journal'[op].env = journal[op].env /\ journal'[op].at = journal[op].at
  PROVE  IF journal'[op] = NoEntry THEN Forgotten(op)' ELSE Recorded(op)'
<1>1. \A i \in DOMAIN commits : envs'[commits[i]].cmd.op = OpOf(commits[i])
  BY DEF CoreInv, Typed, Disk, Extends, OpOf
<1>2. CASE journal[op] = NoEntry /\ journal'[op] = NoEntry
  <2>1. Forgotten(op)
    BY <1>2 DEF CoreInv, Remembers
  <2> QED BY <1>1, <1>2, <2>1 DEF Forgotten, OpOf
<1>3. CASE journal[op] # NoEntry /\ journal'[op] # NoEntry
  <2>1. Recorded(op)
    BY <1>3 DEF CoreInv, Remembers
  <2>2. journal'[op].env = journal[op].env /\ journal'[op].at = journal[op].at
    BY <1>3
  <2>3. envs'[journal'[op].env].cmd.op = op
    BY <2>1, <2>2 DEF Recorded, Extends, OpOf
  <2>4. /\ journal'[op].env \in DOMAIN envs' /\ journal'[op].at \in DOMAIN commits
        /\ commits[journal'[op].at] = journal'[op].env
    BY <2>1, <2>2 DEF Recorded, Extends
  <2>5. \A i \in DOMAIN commits : envs'[commits[i]].cmd.op = op => i <= journal'[op].at
    BY <1>1, <2>1, <2>2 DEF Recorded, OpOf
  <2> QED BY <1>3, <2>3, <2>4, <2>5 DEF Recorded, OpOf
<1> QED BY <1>2, <1>3

(* Entries are numbered by the operation's last taking effect, so no two   *)
(* have the same number.                                                   *)
LEMMA EntriesOrdered ==
  ASSUME CoreInv, NEW o1 \in Op, NEW o2 \in Op, journal[o1] # NoEntry, journal[o2] # NoEntry,
         journal[o1].at = journal[o2].at
  PROVE  o1 = o2
BY DEF CoreInv, Remembers, Recorded

(* An entry is pruned only after Window later operations took effect.      *)
LEMMA PrunedIsOld ==
  ASSUME CoreInv, NEW j \in [Op -> Entries \cup {NoEntry}],
         \A o \in Op : (j[o] = NoEntry <=> journal[o] = NoEntry) /\ j[o].at = journal[o].at,
         NEW op \in Op, j[op] # NoEntry, Pruned(j)[op] = NoEntry
  PROVE  journal[op].at + Window <= Len(commits)
<1> DEFINE Later == {o \in Completed(j) : j[o].at > j[op].at}
           numbers == [o \in Later |-> j[o].at]
           Numbers == (j[op].at + 1)..Len(commits)
<1>1. Cardinality(Later) >= Window
  BY DEF Pruned
<1>2. Len(commits) \in Nat /\ DOMAIN commits = 1..Len(commits)
  BY DEF CoreInv, Typed, Disk
<1>3. ASSUME NEW o \in Op, j[o] # NoEntry PROVE j[o].at \in 1..Len(commits)
  BY <1>2, <1>3 DEF CoreInv, Remembers, Recorded
<1>4. \A o \in Later : o \in Op /\ j[o] # NoEntry /\ j[o].at > j[op].at
  BY DEF Completed
<1>5. j[op].at \in Nat
  BY <1>2, <1>3
<1>6. numbers \in Injection(Later, Numbers)
  <2>1. ASSUME NEW o \in Later PROVE j[o].at \in Numbers
    BY <1>2, <1>3, <1>4, <1>5
  <2>2. ASSUME NEW o1 \in Later, NEW o2 \in Later, j[o1].at = j[o2].at PROVE o1 = o2
    BY <1>4, <2>2, EntriesOrdered
  <2> QED BY <2>1, <2>2 DEF Injection, IsInjective
<1>7. /\ IsFiniteSet(Numbers)
      /\ Cardinality(Numbers) = IF j[op].at + 1 > Len(commits) THEN 0
                              ELSE Len(commits) - (j[op].at + 1) + 1
  <2>1. j[op].at + 1 \in Int /\ Len(commits) \in Int
    BY <1>2, <1>5
  <2> QED BY <2>1, FS_Interval
<1>8. Cardinality(Later) <= Cardinality(Numbers) /\ Cardinality(Later) \in Nat
  BY <1>6, <1>7, FS_Injection, FS_CardinalityType
<1>9. journal[op].at = j[op].at /\ j[op].at <= Len(commits) /\ Window \in Nat
  BY <1>2, <1>3, TransactionAssumption DEF TransactionAssumption
<1> QED BY <1>1, <1>2, <1>5, <1>7, <1>8, <1>9

LEMMA EnvsStep == CoreInv /\ [Next]_vars => Extends
<1> SUFFICES ASSUME CoreInv, [Next]_vars PROVE Extends
  OBVIOUS
<1>1. ASSUME NEW p \in Proc, SealPreview(p) PROVE \E e \in Envelopes : envs' = Append(envs, e)
  BY <1>1, Sealed DEF SealPreview
<1>2. ASSUME NEW p \in Proc,
             \/ WriteFile(p) \/ FindConflict(p) \/ AppendLine(p) \/ Complete(p)
             \/ WriteIntent(p) \/ RecoveryWriteFails(p)
      PROVE  UNCHANGED envs
  BY <1>2 DEF WriteFile, FindConflict, AppendLine, Complete, WriteIntent, RecoveryWriteFails
<1>3. ForeignEdit => UNCHANGED envs
  BY DEF ForeignEdit
<1>4. UNCHANGED envs \/ \E e \in Envelopes : envs' = Append(envs, e)
  BY <1>1, <1>2, <1>3, Quiet
<1> QED BY <1>4, EnvsExtend DEF CoreInv, Typed

(* Only WriteIntent records another operation.                             *)
LEMMA CommitsStep ==
  ASSUME CoreInv, [Next]_vars
  PROVE  UNCHANGED commits \/ \E p \in Proc : WriteIntent(p)
<1>1. ASSUME NEW p \in Proc,
             \/ SealPreview(p) \/ WriteFile(p) \/ FindConflict(p)
             \/ AppendLine(p) \/ Complete(p) \/ RecoveryWriteFails(p)
      PROVE  UNCHANGED commits
  BY <1>1 DEF SealPreview, WriteFile, FindConflict, AppendLine, Complete, RecoveryWriteFails
<1>2. ForeignEdit => UNCHANGED commits
  BY DEF ForeignEdit
<1> QED BY <1>1, <1>2, Quiet

(* What the steps that change the journal do to it.                        *)
LEMMA RollFailsJournal ==
  ASSUME CoreInv, NEW p \in Proc, FindConflict(p) \/ RecoveryWriteFails(p)
  PROVE  /\ pc[p] \in Rolling
         /\ \/ UNCHANGED journal
            \/ ~cur[p].own /\ journal' = Closing(journal, cur[p].op, "conflicted")
BY DEF FindConflict, RecoveryWriteFails, RollFails, Visit, Rolling, Closing

LEMMA CompleteJournal ==
  ASSUME CoreInv, NEW p \in Proc, Complete(p),
         NEW done, done = Closing(journal, cur[p].op, "complete")
  PROVE  /\ pc[p] \in Rolling /\ cur[p].op \in Op
         /\ done \in [Op -> Entries \cup {NoEntry}]
         /\ journal[cur[p].op] # NoEntry
         /\ done[cur[p].op] # NoEntry /\ done[cur[p].op].state = "complete"
         /\ done[cur[p].op].env = journal[cur[p].op].env
         /\ done[cur[p].op].at = journal[cur[p].op].at
         /\ \A o \in Op : o # cur[p].op => done[o] = journal[o]
         /\ journal' = IF cur[p].own THEN Pruned(done) ELSE done
<1>1. pc[p] \in Rolling
  BY DEF Complete, Rolling
<1>2. cur[p].op \in Op /\ journal[cur[p].op] # NoEntry
  BY <1>1, InHand
<1>3. journal \in [Op -> Entries \cup {NoEntry}]
  BY DEF CoreInv, Typed, Disk
<1>4. journal' = IF cur[p].own THEN Pruned(done) ELSE done
  BY DEF Complete, Closing
<1> QED BY <1>1, <1>2, <1>3, <1>4, Closed

LEMMA RemembersStep == CoreInv /\ [Next]_vars => Remembers'
<1> SUFFICES ASSUME CoreInv, [Next]_vars PROVE Remembers'
  OBVIOUS
<1>t. /\ journal \in [Op -> Entries \cup {NoEntry}]
      /\ commits \in Seq(Nat) /\ Len(commits) \in Nat /\ DOMAIN commits = 1..Len(commits)
      /\ Extends
  BY EnvsStep DEF CoreInv, Typed, Disk
<1>k. ASSUME UNCHANGED commits, NEW op \in Op,
             \A o \in Op : \/ journal'[o] = journal[o]
                           \/ /\ journal[o] # NoEntry /\ journal'[o] # NoEntry
                              /\ journal'[o].env = journal[o].env
                              /\ journal'[o].at = journal[o].at
      PROVE  IF journal'[op] = NoEntry THEN Forgotten(op)' ELSE Recorded(op)'
  BY <1>k, <1>t, RememberedKept
<1>1. ASSUME UNCHANGED <<journal, commits>> PROVE Remembers'
  BY <1>1, <1>k DEF Remembers
<1>2. ASSUME NEW p \in Proc, FindConflict(p) \/ RecoveryWriteFails(p) PROVE Remembers'
  <2>1. cur[p].op \in Op /\ journal[cur[p].op] # NoEntry
    BY <1>2, RollFailsJournal, InHand
  <2>2. CASE journal' = Closing(journal, cur[p].op, "conflicted")
    <3>1. /\ journal'[cur[p].op] # NoEntry
          /\ journal'[cur[p].op].env = journal[cur[p].op].env
          /\ journal'[cur[p].op].at = journal[cur[p].op].at
          /\ \A o \in Op : o # cur[p].op => journal'[o] = journal[o]
      BY <1>t, <2>1, <2>2, Closed
    <3>2. UNCHANGED commits
      BY <1>2 DEF FindConflict, RecoveryWriteFails
    <3> QED BY <1>k, <2>1, <3>1, <3>2 DEF Remembers
  <2>3. UNCHANGED commits
    BY <1>2 DEF FindConflict, RecoveryWriteFails
  <2> QED BY <1>1, <1>2, <2>2, <2>3, RollFailsJournal
<1>3. ASSUME NEW p \in Proc, Complete(p) PROVE Remembers'
  <2> DEFINE done == Closing(journal, cur[p].op, "complete")
  <2>1. /\ cur[p].op \in Op /\ done \in [Op -> Entries \cup {NoEntry}]
        /\ journal[cur[p].op] # NoEntry /\ done[cur[p].op] # NoEntry
        /\ done[cur[p].op].env = journal[cur[p].op].env
        /\ done[cur[p].op].at = journal[cur[p].op].at
        /\ \A o \in Op : o # cur[p].op => done[o] = journal[o]
        /\ journal' = IF cur[p].own THEN Pruned(done) ELSE done
    BY <1>3, CompleteJournal
  <2>2. UNCHANGED commits
    BY <1>3 DEF Complete
  <2> HIDE DEF done
  <2>3. \A o \in Op : (done[o] = NoEntry <=> journal[o] = NoEntry) /\ done[o].at = journal[o].at
    BY <2>1
  <2>4. ASSUME NEW op \in Op, journal'[op] = done[op]
        PROVE  IF journal'[op] = NoEntry THEN Forgotten(op)' ELSE Recorded(op)'
    BY <1>t, <2>1, <2>2, <2>4, RememberedKept
  <2>5. ASSUME NEW op \in Op, journal'[op] # done[op]
        PROVE  IF journal'[op] = NoEntry THEN Forgotten(op)' ELSE Recorded(op)'
    <3>1. journal' = Pruned(done) /\ journal'[op] = NoEntry /\ done[op] # NoEntry
      BY <2>1, <2>5, PrunedIsJournal
    <3>2. journal[op].at + Window <= Len(commits)
      BY <2>1, <2>3, <3>1, PrunedIsOld
    <3>3. journal[op] # NoEntry /\ Recorded(op)
      BY <2>3, <3>1 DEF CoreInv, Remembers
    <3>4. journal[op].at \in Nat /\ Window \in Nat
      BY <1>t, <3>3, TransactionAssumption DEF TransactionAssumption, Recorded
    <3>5. \A i \in DOMAIN commits : OpOf(commits[i]) = op => i + Window <= Len(commits)
      BY <1>t, <3>2, <3>3, <3>4 DEF Recorded
    <3>6. \A i \in DOMAIN commits : envs'[commits[i]] = envs[commits[i]]
      BY <1>t DEF Extends, CoreInv, Typed, Disk
    <3>7. Forgotten(op)'
      BY <2>2, <3>5, <3>6 DEF Forgotten, OpOf
    <3> QED BY <3>1, <3>7
  <2> QED BY <2>4, <2>5 DEF Remembers
<1>4. ASSUME NEW p \in Proc, WriteIntent(p) PROVE Remembers'
  <2>1. pc[p] = "accepted" /\ commits' = Append(commits, env[p]) /\ UNCHANGED envs
    BY <1>4 DEF WriteIntent
  <2>2. PICK op \in Op : op = plan[p].cmd.op
    BY <2>1, Accepted
  <2>3. PICK e \in Entries : e = [state |-> "intent", env |-> env[p],
                                 writes |-> Changes(plan[p].after), at |-> Len(commits) + 1]
    BY <2>1, Accepted
  <2>4. /\ op = OpOf(env[p]) /\ journal[op] = NoEntry /\ env[p] \in DOMAIN envs
        /\ e.env = env[p] /\ e.at = Len(commits) + 1 /\ e # NoEntry
        /\ journal' = [journal EXCEPT ![op] = e]
    BY <1>4, <2>1, <2>2, <2>3, Accepted, EntryParts DEF WriteIntent
  <2>5. env[p] \in Nat
    BY <2>4 DEF CoreInv, Typed, Disk
  <2>6. /\ DOMAIN commits' = 1..(Len(commits) + 1) /\ Len(commits') = Len(commits) + 1
        /\ commits'[Len(commits) + 1] = env[p]
        /\ \A i \in DOMAIN commits : commits'[i] = commits[i]
    BY <1>t, <2>1, <2>5
  <2>7. \A i \in DOMAIN commits' : i \in DOMAIN commits \/ i = Len(commits) + 1
    BY <1>t, <2>6
  <2>8. journal'[op] = e /\ \A o \in Op : o # op => journal'[o] = journal[o]
    BY <1>t, <2>4
  <2>9. envs[env[p]].cmd.op = op
    BY <2>4 DEF OpOf
  <2>10. Recorded(op)'
    <3>1. e.env \in DOMAIN envs /\ envs[e.env].cmd.op = op /\ e.at \in DOMAIN commits'
      BY <1>t, <2>4, <2>6, <2>9
    <3>2. commits'[e.at] = e.env /\ \A i \in DOMAIN commits' : i <= e.at
      BY <1>t, <2>4, <2>6
    <3> QED BY <2>1, <2>8, <3>1, <3>2 DEF Recorded, OpOf
  <2>11. ASSUME NEW o \in Op, o # op
         PROVE  IF journal'[o] = NoEntry THEN Forgotten(o)' ELSE Recorded(o)'
    <3>1. journal'[o] = journal[o]
      BY <2>8, <2>11
    <3>2. ASSUME NEW i \in DOMAIN commits', envs[commits'[i]].cmd.op = o
          PROVE  i \in DOMAIN commits /\ OpOf(commits[i]) = o
      BY <2>6, <2>7, <2>9, <2>11, <3>2 DEF OpOf
    <3>3. CASE journal[o] = NoEntry
      <4>1. Forgotten(o)
        BY <3>3 DEF CoreInv, Remembers
      <4>2. \A i \in DOMAIN commits : OpOf(commits[i]) = o => i + Window <= Len(commits')
        BY <1>t, <2>6, <4>1, TransactionAssumption DEF TransactionAssumption, Forgotten
      <4>3. Forgotten(o)'
        BY <2>1, <3>2, <4>2 DEF Forgotten, OpOf
      <4> QED BY <3>1, <3>3, <4>3
    <3>4. CASE journal[o] # NoEntry
      <4>1. Recorded(o)
        BY <3>4 DEF CoreInv, Remembers
      <4>2. \A i \in DOMAIN commits' : envs[commits'[i]].cmd.op = o => i <= journal[o].at
        BY <3>2, <4>1 DEF Recorded
      <4>3. /\ journal[o].env \in DOMAIN envs /\ envs[journal[o].env].cmd.op = o
            /\ journal[o].at \in DOMAIN commits' /\ commits'[journal[o].at] = journal[o].env
        BY <1>t, <2>6, <4>1 DEF Recorded, OpOf
      <4>4. Recorded(o)'
        BY <2>1, <3>1, <4>2, <4>3 DEF Recorded, OpOf
      <4> QED BY <3>1, <3>4, <4>4
    <3> QED BY <3>3, <3>4
  <2> QED BY <2>4, <2>8, <2>10, <2>11 DEF Remembers
<1>5. ASSUME NEW p \in Proc, SealPreview(p) \/ WriteFile(p) \/ AppendLine(p)
      PROVE  UNCHANGED <<journal, commits>>
  BY <1>5 DEF SealPreview, WriteFile, AppendLine, disk
<1>6. ForeignEdit => UNCHANGED <<journal, commits>>
  BY DEF ForeignEdit
<1>7. UNCHANGED <<disk, envs, commits>> => UNCHANGED <<journal, commits>>
  BY DEF disk
<1> QED BY <1>1, <1>2, <1>3, <1>4, <1>5, <1>6, <1>7, Quiet

----------------------------------------------------------------------------
LEMMA CoreInit == Init => CoreInv
<1> SUFFICES ASSUME Init PROVE CoreInv
  OBVIOUS
<1>1. Disk
  <2>1. file \in [Path -> Contents]
    BY DEF Init, Contents
  <2>2. lines \in [1..MaxPreviews -> Nat] /\ journal \in [Op -> Entries \cup {NoEntry}]
    BY DEF Init
  <2>3. envs \in Seq(Envelopes) /\ commits \in Seq(Nat) /\ DOMAIN commits = {}
    BY DEF Init
  <2> QED BY <2>1, <2>2, <2>3 DEF Disk
<1>2. Processes
  BY <1>1 DEF Init, Processes, Free, Disk
<1>3. Issuing
  <2>1. Planning = {} /\ Len(envs) = 0
    BY DEF Init, Planning
  <2>2. \A p \in Proc : pc[p] # "planning"
    BY DEF Init
  <2> QED BY <2>1, <2>2, FS_EmptySet, TransactionAssumption DEF TransactionAssumption, Issuing
<1>4. Remembers
  <2>1. DOMAIN commits = {} /\ \A op \in Op : journal[op] = NoEntry
    BY DEF Init
  <2> QED BY <2>1 DEF Remembers, Forgotten
<1> QED BY <1>1, <1>2, <1>3, <1>4, HeldInit DEF CoreInv, Typed

LEMMA CoreStep == CoreInv /\ [Next]_vars => CoreInv'
BY DiskStep, ProcessesStep, IssuingStep, HeldStep, RemembersStep DEF CoreInv, Typed

LEMMA CoreAlways == Spec => []CoreInv
BY CoreInit, CoreStep, PTL DEF Spec

(* Every variable keeps its range, and what a process has in hand fits the *)
(* place it is in: an existing entry and files of that entry while it      *)
(* rolls forward (store.rs, roll_forward), one of those files while it     *)
(* writes.                                                                 *)
THEOREM TypeCorrect == Spec => []TypeOK
<1>1. CoreInv => TypeOK
  <2> SUFFICES ASSUME CoreInv PROVE TypeOK
    OBVIOUS
  <2>1. file \in [Path -> Contents] /\ lines \in [1..MaxPreviews -> Nat]
    BY DEF CoreInv, Typed, Disk
  <2>2. ASSUME NEW op \in Op, journal[op] # NoEntry
        PROVE  /\ journal[op].state \in {"intent", "complete", "conflicted"}
               /\ journal[op].env \in DOMAIN envs
               /\ journal[op].at \in DOMAIN commits
               /\ DOMAIN journal[op].writes \subseteq Path
    <3>1. journal[op] \in Entries /\ Recorded(op)
      BY <2>2 DEF CoreInv, Typed, Disk, Remembers
    <3> QED BY <3>1, EntryParts DEF Recorded
  <2>3. /\ pc \in [Proc -> Locked \cup Free]
        /\ env \in [Proc -> 0..Len(envs)]
        /\ todo \in [Proc -> SUBSET Op]
    BY DEF CoreInv, Typed, Processes
  <2>4. ASSUME NEW p \in Proc
        PROVE  /\ pc[p] \in {"rolling", "writing", "completing"} =>
                    /\ journal[cur[p].op] # NoEntry
                    /\ left[p] \subseteq DOMAIN Entry(p).writes
               /\ pc[p] = "writing" => target[p] \in left[p]
    BY InHand DEF Rolling, CoreInv, Held, Hand
  <2> QED BY <2>1, <2>2, <2>3, <2>4 DEF TypeOK
<1> QED BY <1>1, CoreAlways, PTL

(* However often an operation is interrupted, recovered, replayed or       *)
(* applied again after its entry was pruned, its event line is written at  *)
(* most once: append_line runs only when the marker is not in the log, and *)
(* only under the lock (store.rs, roll_forward).                           *)
THEOREM LinesOnce == Spec => []LineOnce
<1>1. Init => LineOnce
  BY DEF Init, LineOnce
<1>2. CoreInv /\ LineOnce /\ [Next]_vars => LineOnce'
  <2> SUFFICES ASSUME CoreInv, LineOnce, [Next]_vars PROVE LineOnce'
    OBVIOUS
  <2>t. lines \in [1..MaxPreviews -> Nat] /\ \A e \in 1..MaxPreviews : lines[e] <= 1
    BY DEF CoreInv, Typed, Disk, LineOnce
  <2>1. ASSUME NEW p \in Proc, AppendLine(p) PROVE LineOnce'
    <3>1. Entry(p).env \in 1..MaxPreviews
      BY <2>1, InHand DEF AppendLine, Rolling
    <3>2. \/ UNCHANGED lines
          \/ /\ lines' = [lines EXCEPT ![Entry(p).env] = @ + 1]
             /\ lines[Entry(p).env] = 0
      BY <2>1 DEF AppendLine
    <3>3. lines' \in [1..MaxPreviews -> Nat]
      BY <2>t, <3>1, <3>2
    <3>4. ASSUME NEW e \in 1..MaxPreviews PROVE lines'[e] <= 1
      <4>1. lines'[e] = lines[e] \/ lines'[e] = 0 + 1
        BY <2>t, <3>1, <3>2
      <4> QED BY <2>t, <4>1
    <3> QED BY <3>3, <3>4 DEF LineOnce
  <2>2. ASSUME NEW p \in Proc,
               \/ SealPreview(p) \/ WriteFile(p) \/ FindConflict(p) \/ Complete(p)
               \/ WriteIntent(p) \/ RecoveryWriteFails(p)
        PROVE  UNCHANGED lines
    BY <2>2 DEF SealPreview, WriteFile, FindConflict, Complete, WriteIntent,
       RecoveryWriteFails, disk
  <2>3. ForeignEdit \/ UNCHANGED <<disk, envs, commits>> => UNCHANGED lines
    BY DEF ForeignEdit, disk
  <2> QED BY <2>1, <2>2, <2>3, Quiet DEF LineOnce
<1> QED BY <1>1, <1>2, CoreAlways, PTL DEF Spec

(* An envelope takes effect again only once Window later operations have   *)
(* pushed its record out of the journal (store.rs, prune_journal): until   *)
(* then the journal answers a second apply of its operation id.            *)
THEOREM Replays == Spec => []ReplayWindow
<1>1. Init => ReplayWindow
  BY DEF Init, ReplayWindow
<1>2. CoreInv /\ ReplayWindow /\ [Next]_vars => ReplayWindow'
  <2> SUFFICES ASSUME CoreInv, ReplayWindow, [Next]_vars PROVE ReplayWindow'
    OBVIOUS
  <2>t. commits \in Seq(Nat) /\ Len(commits) \in Nat /\ DOMAIN commits = 1..Len(commits)
    BY DEF CoreInv, Typed, Disk
  <2>1. CASE UNCHANGED commits
    <3>1. \A i \in DOMAIN commits : envs'[commits[i]] = envs[commits[i]]
      BY EnvsStep DEF CoreInv, Typed, Disk, Extends
    <3> QED BY <2>1, <3>1 DEF ReplayWindow, OpOf
  <2>2. ASSUME NEW p \in Proc, WriteIntent(p) PROVE ReplayWindow'
    <3>1. /\ pc[p] = "accepted" /\ commits' = Append(commits, env[p]) /\ UNCHANGED envs
      BY <2>2 DEF WriteIntent
    <3>2. /\ OpOf(env[p]) \in Op /\ journal[OpOf(env[p])] = NoEntry /\ env[p] \in DOMAIN envs
      BY <3>1, Accepted
    <3>3. env[p] \in Nat
      BY <3>2 DEF CoreInv, Typed, Disk
    <3>4. /\ DOMAIN commits' = 1..(Len(commits) + 1)
          /\ commits'[Len(commits) + 1] = env[p]
          /\ \A i \in DOMAIN commits : commits'[i] = commits[i]
      BY <2>t, <3>1, <3>3
    <3>5. Forgotten(OpOf(env[p]))
      BY <3>2 DEF CoreInv, Remembers
    <3>6. Window \in Nat
      BY TransactionAssumption DEF TransactionAssumption
    <3>7. ASSUME NEW i \in DOMAIN commits', NEW k \in DOMAIN commits',
                 i < k, OpOf(commits'[i]) = OpOf(commits'[k])
          PROVE  k - i > Window
      <4>1. i \in DOMAIN commits /\ commits'[i] = commits[i]
        BY <2>t, <3>4, <3>7
      <4>2. CASE k \in DOMAIN commits
        BY <3>4, <3>7, <4>1, <4>2 DEF ReplayWindow
      <4>3. CASE k = Len(commits) + 1
        <5>1. i + Window <= Len(commits)
          BY <3>4, <3>5, <3>7, <4>1, <4>3 DEF Forgotten
        <5> QED BY <2>t, <3>6, <4>1, <4>3, <5>1
      <4> QED BY <2>t, <3>4, <4>2, <4>3
    <3> QED BY <3>1, <3>7 DEF ReplayWindow, OpOf
  <2> QED BY <2>1, <2>2, CommitsStep
<1> QED BY <1>1, <1>2, CoreAlways, PTL DEF Spec

(* An apply that answers "applied" or "replay" tells the truth             *)
(* (workflow.rs, apply): the envelope took effect, and its operation was   *)
(* completed, not left half-written or given up.                           *)
THEOREM TrueAnswers == Spec => AnswersAreTrue
<1> DEFINE Truth(p) == /\ answer'[p] # answer[p] /\ answer'[p] # Nothing
                       /\ answer'[p].result \in {"applied", "replay"}
                       => LET j == journal'[OpOf(answer'[p].env)]
                          IN /\ \E i \in DOMAIN commits : commits[i] = answer'[p].env
                             /\ j = NoEntry \/ (j.state = "complete" /\ j.env = answer'[p].env)
<1>1. CoreInv /\ [Next]_vars => \A p \in Proc : Truth(p)
  <2> SUFFICES ASSUME CoreInv, [Next]_vars PROVE \A q \in Proc : Truth(q)
    OBVIOUS
  <2>t. answer \in [Proc -> Answers \cup {Nothing}] /\ journal \in [Op -> Entries \cup {NoEntry}]
    BY DEF CoreInv, Typed, Processes, Disk
  <2>1. ASSUME NEW p \in Proc, NEW r, Return(p, r), r \notin {"applied", "replay"}
        PROVE  \A q \in Proc : Truth(q)
    BY <2>t, <2>1 DEF Return
  <2>2. ASSUME UNCHANGED answer PROVE \A q \in Proc : Truth(q)
    BY <2>2
  <2>4. ASSUME NEW p \in Proc, Complete(p), cur[p].own PROVE \A q \in Proc : Truth(q)
    <3>1. pc[p] \in Rolling /\ Return(p, "applied")
      BY <2>4 DEF Complete, Rolling
    <3>2. answer' = [answer EXCEPT ![p] = [result |-> "applied", env |-> env[p]]]
      BY <3>1 DEF Return
    <3>3. /\ cur[p].op \in Op /\ journal[cur[p].op] # NoEntry
          /\ journal[cur[p].op].env = env[p]
      BY <2>4, <3>1, InHand DEF CoreInv, Held, Hand, Entry
    <3>4. Recorded(cur[p].op)
      BY <3>3 DEF CoreInv, Remembers
    <3>5. OpOf(env[p]) = cur[p].op /\ \E i \in DOMAIN commits : commits[i] = env[p]
      BY <3>3, <3>4 DEF Recorded
    <3> DEFINE done == Closing(journal, cur[p].op, "complete")
    <3>6. /\ done \in [Op -> Entries \cup {NoEntry}]
          /\ done[cur[p].op].state = "complete" /\ done[cur[p].op].env = env[p]
          /\ journal' = Pruned(done)
      BY <2>4, <3>3, CompleteJournal
    <3> HIDE DEF done
    <3>7. \/ journal'[cur[p].op] = NoEntry
          \/ journal'[cur[p].op].state = "complete" /\ journal'[cur[p].op].env = env[p]
      BY <3>3, <3>6, PrunedIsJournal
    <3>8. answer'[p].env = env[p]
      BY <2>t, <3>2
    <3>9. Truth(p)
      BY <3>5, <3>7, <3>8
    <3>10. \A q \in Proc : q # p => answer'[q] = answer[q]
      BY <2>t, <3>2
    <3> QED BY <3>9, <3>10
  <2>5. ASSUME NEW p \in Proc, AnswerFromJournal(p) PROVE \A q \in Proc : Truth(q)
    <3>1. /\ pc[p] = "deciding" /\ journal[OpOf(env[p])] # NoEntry
          /\ UNCHANGED journal
      BY <2>5 DEF AnswerFromJournal, disk
    <3>2. CASE /\ journal[OpOf(env[p])].state = "complete"
               /\ journal[OpOf(env[p])].env = env[p]
      <4>1. answer' = [answer EXCEPT ![p] = [result |-> "replay", env |-> env[p]]]
        BY <2>5, <3>2 DEF AnswerFromJournal, Return
      <4>2. envs[env[p]] \in Envelopes
        BY <3>1 DEF CoreInv, Held, Hand, Typed, Processes, Disk
      <4>3. OpOf(env[p]) \in Op
        BY <4>2, PlanAssumption DEF PlanAssumption, Envelopes, OpOf
      <4>4. Recorded(OpOf(env[p]))
        BY <3>1, <4>3 DEF CoreInv, Remembers
      <4>5. \E i \in DOMAIN commits : commits[i] = env[p]
        BY <3>2, <4>4 DEF Recorded
      <4>6. answer'[p].env = env[p] /\ \A q \in Proc : q # p => answer'[q] = answer[q]
        BY <2>t, <4>1
      <4> QED BY <3>1, <3>2, <4>5, <4>6
    <3>3. CASE ~(/\ journal[OpOf(env[p])].state = "complete"
                 /\ journal[OpOf(env[p])].env = env[p])
      <4>1. Return(p, "interrupted") \/ Return(p, "used")
        BY <2>5, <3>3 DEF AnswerFromJournal
      <4> QED BY <2>1, <4>1
    <3> QED BY <3>2, <3>3
  <2>6. ASSUME NEW p \in Proc, RollFails(p) PROVE \A q \in Proc : Truth(q)
    BY <2>1, <2>2, <2>6 DEF RollFails
  <2>7. ASSUME NEW p \in Proc,
               \/ \E c \in Command : PlanPreview(p, c)
               \/ SealPreview(p) \/ Acquire(p) \/ RecoverNext(p)
               \/ SkipWritten(p) \/ CheckFile(p) \/ WriteFile(p) \/ AppendLine(p)
               \/ WriteIntent(p) \/ Crash(p)
               \/ RecoveryCompleteFails(p) \/ RecoveryMarkFails(p)
        PROVE  UNCHANGED answer
    BY <2>7 DEF PlanPreview, SealPreview, Acquire, RecoverNext, SkipWritten, CheckFile,
       WriteFile, AppendLine, WriteIntent, Crash, RecoveryCompleteFails, RecoveryMarkFails
  <2>8. ASSUME NEW p \in Proc, LockTimeout(p) \/ RecoverDone(p) \/ Decide(p)
        PROVE  \A q \in Proc : Truth(q)
    <3>1. \/ Return(p, "locked") \/ Return(p, "recovered") \/ Return(p, "conflict")
          \/ UNCHANGED answer
      BY <2>8 DEF LockTimeout, RecoverDone, Decide
    <3> QED BY <2>1, <2>2, <3>1
  <2>9. ASSUME NEW p \in Proc, NEW e \in 0..Len(envs), BeginApply(p, e)
        PROVE  \A q \in Proc : Truth(q)
    BY <2>t, <2>9 DEF BeginApply
  <2>10. ASSUME NEW p \in Proc, Complete(p) PROVE \A q \in Proc : Truth(q)
    <3>1. cur[p].own \/ UNCHANGED answer
      BY <2>10 DEF Complete
    <3> QED BY <2>2, <2>4, <2>10, <3>1
  <2>11. ForeignEdit \/ UNCHANGED vars => UNCHANGED answer
    BY DEF ForeignEdit, vars
  <2>12. ASSUME NEW p \in Proc, FindConflict(p) \/ RecoveryWriteFails(p)
         PROVE  \A q \in Proc : Truth(q)
    BY <2>6, <2>12 DEF FindConflict, RecoveryWriteFails
  <2> HIDE DEF Truth
  <2> QED BY <2>2, <2>5, <2>7, <2>8, <2>9, <2>10, <2>11, <2>12 DEF Next, Step
<1>2. (\A p \in Proc : Truth(p)) =>
      [\A p \in Proc :
         /\ answer'[p] # answer[p] /\ answer'[p] # Nothing
         /\ answer'[p].result \in {"applied", "replay"}
         => LET j == journal'[OpOf(answer'[p].env)]
            IN /\ \E i \in DOMAIN commits : commits[i] = answer'[p].env
               /\ j = NoEntry \/ (j.state = "complete" /\ j.env = answer'[p].env)]_vars
  OBVIOUS
<1> HIDE DEF Truth
<1> QED BY <1>1, <1>2, CoreAlways, PTL DEF Spec, AnswersAreTrue

----------------------------------------------------------------------------
(* While nobody edits under the lock, an entry does what its envelope      *)
(* showed, and its holder finds every file as the entry says.              *)
Faithful(op) ==
  journal[op] # NoEntry =>
    /\ journal[op].writes = envs[journal[op].env].changes
    /\ \A path \in DOMAIN journal[op].writes :
         /\ path \in DOMAIN envs[journal[op].env].cmd.edits
         /\ journal[op].writes[path].after =
              Edited(envs[journal[op].env].cmd, path, journal[op].writes[path].before)

Settled(p) ==
  /\ pc[p] \in Rolling =>
       \A path \in DOMAIN Entry(p).writes \ left[p] : file[path] = Entry(p).writes[path].after
  /\ pc[p] = "writing" => file[target[p]] = Entry(p).writes[target[p]].before
  /\ pc[p] = "completing" /\ envs[Entry(p).env].cmd.logs => lines[Entry(p).env] = 1
  /\ pc[p] = "accepted" =>
       /\ Plannable(plan[p].cmd, file)
       /\ plan[p].after = Planned(plan[p].cmd, file)
       /\ Changes(plan[p].after) = envs[env[p]].changes

SettledInv ==
  /\ LineOnce
  /\ \A op \in Op : Faithful(op)
  /\ \A p \in Proc : Settled(p)

LEMMA FaithfulKept ==
  ASSUME CoreInv, Extends, NEW op \in Op, Faithful(op),
         \/ journal'[op] \in {journal[op], NoEntry}
         \/ /\ journal[op] # NoEntry
            /\ journal'[op].env = journal[op].env /\ journal'[op].writes = journal[op].writes
  PROVE  Faithful(op)'
<1>1. CASE journal[op] # NoEntry /\ journal'[op] # NoEntry
  <2>1. /\ journal'[op].env = journal[op].env /\ journal'[op].writes = journal[op].writes
    BY <1>1
  <2>2. journal[op].env \in DOMAIN envs
    BY <1>1 DEF CoreInv, Remembers, Recorded
  <2>3. envs'[journal[op].env] = envs[journal[op].env]
    BY <2>2 DEF Extends
  <2> QED BY <1>1, <2>1, <2>3 DEF Faithful, Edited
<1>2. CASE journal'[op] = NoEntry
  BY <1>2 DEF Faithful
<1> QED BY <1>1, <1>2

LEMMA FaithfulStep ==
  ASSUME CoreInv, SettledInv, [Next]_vars, NEW op \in Op
  PROVE  Faithful(op)'
<1>t. /\ journal \in [Op -> Entries \cup {NoEntry}] /\ file \in [Path -> Contents]
      /\ Extends /\ Faithful(op)
  BY EnvsStep DEF CoreInv, Typed, Disk, SettledInv
<1>1. CASE UNCHANGED journal
  BY <1>1, <1>t, FaithfulKept
<1>2. ASSUME NEW p \in Proc, FindConflict(p) \/ RecoveryWriteFails(p) PROVE Faithful(op)'
  <2>1. cur[p].op \in Op /\ journal[cur[p].op] # NoEntry
    BY <1>2, RollFailsJournal, InHand
  <2>2. ASSUME journal' = Closing(journal, cur[p].op, "conflicted") PROVE Faithful(op)'
    <3>1. /\ journal'[cur[p].op].env = journal[cur[p].op].env
          /\ journal'[cur[p].op].writes = journal[cur[p].op].writes
          /\ \A o \in Op : o # cur[p].op => journal'[o] = journal[o]
      BY <1>t, <2>1, <2>2, Closed
    <3> QED BY <1>t, <2>1, <3>1, FaithfulKept
  <2> QED BY <1>1, <1>2, <2>2, RollFailsJournal
<1>3. ASSUME NEW p \in Proc, Complete(p) PROVE Faithful(op)'
  <2>1. PICK done : done = Closing(journal, cur[p].op, "complete")
    OBVIOUS
  <2>2. /\ cur[p].op \in Op /\ journal[cur[p].op] # NoEntry
        /\ journal' = IF cur[p].own THEN Pruned(done) ELSE done
    BY <1>3, <2>1, CompleteJournal
  <2>3. /\ done \in [Op -> Entries \cup {NoEntry}]
        /\ done[cur[p].op].env = journal[cur[p].op].env
        /\ done[cur[p].op].writes = journal[cur[p].op].writes
        /\ \A o \in Op : o # cur[p].op => done[o] = journal[o]
    BY <1>t, <2>1, <2>2, Closed
  <2>4. journal'[op] \in {done[op], NoEntry}
    BY <2>2, <2>3, PrunedIsJournal
  <2> QED BY <1>t, <2>2, <2>3, <2>4, FaithfulKept
<1>4. ASSUME NEW p \in Proc, WriteIntent(p) PROVE Faithful(op)'
  <2>1. /\ pc[p] = "accepted" /\ UNCHANGED envs
        /\ journal' = [journal EXCEPT ![plan[p].cmd.op] =
                         [state |-> "intent", env |-> env[p],
                          writes |-> Changes(plan[p].after), at |-> Len(commits) + 1]]
    BY <1>4 DEF WriteIntent
  <2>2. CASE op = plan[p].cmd.op
    <3>1. journal'[op].env = env[p] /\ journal'[op].writes = Changes(plan[p].after)
      BY <1>t, <2>1, <2>2
    <3>2. /\ Plannable(plan[p].cmd, file) /\ plan[p].after = Planned(plan[p].cmd, file)
          /\ Changes(plan[p].after) = envs[env[p]].changes
      BY <2>1 DEF SettledInv, Settled
    <3>3. plan[p] \in Plans /\ plan[p].cmd = envs[env[p]].cmd
      BY <2>1, Accepted
    <3>4. plan[p].after \in OnPaths(Contents)
      BY <3>3 DEF Plans
    <3>5. /\ DOMAIN Changes(plan[p].after) = Changed(plan[p].after, file)
          /\ \A path \in DOMAIN Changes(plan[p].after) :
               Changes(plan[p].after)[path] = [before |-> file[path],
                                               after |-> plan[p].after[path]]
      BY <1>t, <3>4, ChangesOfPlan
    <3>6. \A path \in DOMAIN Changes(plan[p].after) :
            /\ path \in DOMAIN plan[p].cmd.edits
            /\ plan[p].after[path] = Edited(plan[p].cmd, path, file[path])
      BY <3>2, <3>5 DEF Changed, Planned
    <3> DEFINE changes == Changes(plan[p].after)
    <3>7. ASSUME NEW path \in DOMAIN changes
          PROVE  /\ path \in DOMAIN envs[env[p]].cmd.edits
                 /\ changes[path].after = Edited(envs[env[p]].cmd, path, changes[path].before)
      <4>1. changes[path] = [before |-> file[path], after |-> plan[p].after[path]]
        BY <3>5
      <4>2. changes[path].before = file[path] /\ changes[path].after = plan[p].after[path]
        BY <4>1
      <4>3. path \in DOMAIN plan[p].cmd.edits
            /\ plan[p].after[path] = Edited(plan[p].cmd, path, file[path])
        BY <3>6
      <4> QED BY <3>3, <4>2, <4>3
    <3>8. changes = envs[env[p]].changes
      BY <3>2
    <3> HIDE DEF changes
    <3>9. journal'[op].env = env[p] /\ journal'[op].writes = changes
      BY <3>1 DEF changes
    <3>10. ASSUME NEW path \in DOMAIN journal'[op].writes
           PROVE  journal'[op].writes[path].after =
                    Edited(envs[journal'[op].env].cmd, path, journal'[op].writes[path].before)
      BY <3>7, <3>9
    <3> QED BY <2>1, <3>7, <3>8, <3>9, <3>10 DEF Faithful, Edited
  <2>3. CASE op # plan[p].cmd.op
    BY <1>t, <2>1, <2>3, FaithfulKept
  <2> QED BY <2>2, <2>3
<1>5. ASSUME NEW p \in Proc, SealPreview(p) \/ WriteFile(p) \/ AppendLine(p)
      PROVE  UNCHANGED journal
  BY <1>5 DEF SealPreview, WriteFile, AppendLine, disk
<1>6. ForeignEdit \/ UNCHANGED <<disk, envs, commits>> => UNCHANGED journal
  BY DEF ForeignEdit, disk
<1> QED BY <1>1, <1>2, <1>3, <1>4, <1>5, <1>6, Quiet

LEMMA SettledKept ==
  ASSUME CoreInv, NEW q \in Proc, Kept(q), Extends, Settled(q),
         UNCHANGED disk \/ pc[q] \notin Locked
  PROVE  Settled(q)'
<1>1. CASE pc[q] \notin Locked
  BY <1>1 DEF Settled, Kept, Locked, Rolling
<1>2. CASE pc[q] \in Rolling /\ UNCHANGED disk
  <2>1. Entry(q)' = Entry(q) /\ UNCHANGED <<file, lines>>
    BY <1>2 DEF Entry, Kept, disk
  <2>2. Entry(q).env \in DOMAIN envs
    BY <1>2, InHand
  <2>3. envs'[Entry(q).env] = envs[Entry(q).env]
    BY <2>2 DEF Extends
  <2>4. pc[q] # "accepted"
    BY <1>2 DEF Rolling
  <2> QED BY <2>1, <2>3, <2>4 DEF Settled, Kept
<1>3. CASE pc[q] = "accepted" /\ UNCHANGED disk
  <2>1. env[q] \in DOMAIN envs
    BY <1>3, Accepted
  <2>2. envs'[env[q]] = envs[env[q]] /\ UNCHANGED file
    BY <1>3, <2>1 DEF Extends, disk
  <2>3. Changes(plan[q].after)' = Changes(plan[q].after)
    BY <2>2 DEF Changes, Changed, Kept
  <2>4. Planned(plan[q].cmd, file)' = Planned(plan[q].cmd, file)
    BY <2>2 DEF Planned, Edited, Kept
  <2>5. Plannable(plan[q].cmd, file)' <=> Plannable(plan[q].cmd, file)
    BY <2>2 DEF Plannable, Kept
  <2> QED BY <1>3, <2>2, <2>3, <2>4, <2>5 DEF Settled, Kept, Rolling
<1>4. CASE pc[q] \notin Rolling /\ pc[q] # "accepted"
  BY <1>4 DEF Settled, Kept, Rolling
<1> QED BY <1>1, <1>2, <1>3, <1>4

LEMMA SettledByMover ==
  ASSUME CoreInv, SettledInv, NEW p \in Proc, OthersKept(p), Extends, Settled(p)',
         UNCHANGED disk \/ pc[p] \in Locked
  PROVE  \A q \in Proc : Settled(q)'
<1>1. ASSUME NEW q \in Proc, q # p PROVE Settled(q)'
  <2>1. pc[p] \in Locked => pc[q] \notin Locked
    BY <1>1 DEF CoreInv, Held, OneHolder
  <2> QED BY <1>1, <2>1, SettledKept DEF OthersKept, SettledInv
<1> QED BY <1>1

LEMMA NothingToSettle ==
  ASSUME NEW p \in Proc, pc'[p] \notin Rolling, pc'[p] # "accepted"
  PROVE  Settled(p)'
BY DEF Settled, Rolling

LEMMA SettledRolling ==
  ASSUME CoreInv, SettledInv, NEW p \in Proc,
         SkipWritten(p) \/ CheckFile(p) \/ WriteFile(p) \/ AppendLine(p)
  PROVE  Settled(p)'
<1>t. Processes /\ Disk /\ Settled(p) /\ LineOnce
  BY DEF CoreInv, Typed, SettledInv
<1>1. UNCHANGED <<journal, envs, cur>>
  BY DEF SkipWritten, CheckFile, WriteFile, AppendLine, disk, local
<1>2. Entry(p)' = Entry(p)
  BY <1>1 DEF Entry
<1>3. CASE SkipWritten(p)
  <2>1. PICK path \in left[p] : /\ file[path] = Entry(p).writes[path].after
                                /\ left'[p] = left[p] \ {path}
    BY <1>3, <1>t DEF SkipWritten, Processes
  <2>2. pc[p] = "rolling" /\ pc'[p] = "rolling" /\ UNCHANGED file
    BY <1>3 DEF SkipWritten, Visit, disk
  <2> QED BY <1>t, <1>2, <2>1, <2>2 DEF Settled, Rolling
<1>4. CASE CheckFile(p)
  <2>1. PICK path \in left[p] : /\ file[path] = Entry(p).writes[path].before
                                /\ target'[p] = path
    BY <1>4, <1>t DEF CheckFile, Processes
  <2>2. pc[p] = "rolling" /\ pc'[p] = "writing" /\ left'[p] = left[p] /\ UNCHANGED file
    BY <1>4, <1>t DEF CheckFile, Visit, Goto, Processes, disk
  <2> QED BY <1>t, <1>2, <2>1, <2>2 DEF Settled, Rolling
<1>5. CASE WriteFile(p)
  <2>1. /\ pc[p] = "writing" /\ pc'[p] = "rolling" /\ left'[p] = left[p] \ {target[p]}
        /\ file' = [file EXCEPT ![target[p]] = Entry(p).writes[target[p]].after]
    BY <1>5, <1>t DEF WriteFile, Goto, Processes
  <2>2. DOMAIN Entry(p).writes \subseteq Path
    BY <2>1, InHand DEF Rolling
  <2>3. ASSUME NEW path \in DOMAIN Entry(p).writes, path \notin left'[p]
        PROVE  file'[path] = Entry(p).writes[path].after
    <3>1. path \in Path /\ file \in [Path -> Contents]
      BY <1>t, <2>2 DEF Disk
    <3>2. CASE path = target[p]
      BY <2>1, <3>1, <3>2
    <3>3. CASE path # target[p]
      <4>1. file[path] = Entry(p).writes[path].after
        BY <1>t, <2>1, <2>3, <3>3 DEF Settled, Rolling
      <4> QED BY <2>1, <3>1, <3>3, <4>1
    <3> QED BY <3>2, <3>3
  <2> QED BY <1>2, <2>1, <2>3 DEF Settled, Rolling
<1>6. CASE AppendLine(p)
  <2>1. /\ pc[p] = "rolling" /\ pc'[p] = "completing" /\ left'[p] = left[p]
        /\ UNCHANGED file
        /\ lines' = IF envs[Entry(p).env].cmd.logs /\ lines[Entry(p).env] = 0
                      THEN [lines EXCEPT ![Entry(p).env] = @ + 1] ELSE lines
    BY <1>6, <1>t DEF AppendLine, Goto, Processes, local
  <2>2. Entry(p).env \in 1..MaxPreviews
    BY <2>1, InHand DEF Rolling
  <2>3. lines[Entry(p).env] \in Nat /\ lines[Entry(p).env] <= 1
    BY <1>t, <2>2 DEF Disk, LineOnce
  <2>4. envs[Entry(p).env].cmd.logs => lines'[Entry(p).env] = 1
    <3>1. CASE lines[Entry(p).env] = 0
      <4>1. envs[Entry(p).env].cmd.logs => lines'[Entry(p).env] = 0 + 1
        BY <1>t, <2>1, <2>2, <3>1 DEF Disk
      <4> QED BY <4>1
    <3>2. CASE lines[Entry(p).env] = 1
      BY <2>1, <3>2
    <3> QED BY <2>3, <3>1, <3>2
  <2> QED BY <1>t, <1>1, <1>2, <2>1, <2>4 DEF Settled, Rolling
<1> QED BY <1>3, <1>4, <1>5, <1>6

LEMMA SettledStep ==
  ASSUME CoreInv, SettledInv, ~LiveEdits, [Next]_vars
  PROVE  \A q \in Proc : Settled(q)'
<1>t. Processes /\ Extends
  BY EnvsStep DEF CoreInv, Typed
<1>1. CASE UNCHANGED vars
  BY <1>1, <1>t, SettledKept DEF vars, local, Kept, SettledInv
<1>2. CASE ForeignEdit
  <2>1. InLock = {} /\ UNCHANGED <<pc, local>>
    BY <1>2 DEF ForeignEdit
  <2>2. \A q \in Proc : pc[q] \notin Locked /\ Kept(q)
    BY <2>1 DEF InLock, Kept, local
  <2> QED BY <1>t, <2>2, SettledKept DEF SettledInv
<1>3. ASSUME NEW p \in Proc, Settled(p)', OthersKept(p), UNCHANGED disk \/ pc[p] \in Locked
      PROVE  \A q \in Proc : Settled(q)'
  BY <1>3, <1>t, SettledByMover
<1>4. ASSUME NEW p \in Proc, NEW c \in Command, PlanPreview(p, c)
      PROVE  \A q \in Proc : Settled(q)'
  <2>1. pc'[p] = "planning" /\ UNCHANGED disk
    BY <1>4, <1>t DEF PlanPreview, Goto, Processes
  <2>2. Settled(p)'
    BY <2>1, NothingToSettle DEF Rolling
  <2> QED BY <1>3, <1>4, <1>t, <2>1, <2>2, PreviewMoves
<1>5. ASSUME NEW p \in Proc, NEW e \in 0..Len(envs), BeginApply(p, e)
      PROVE  \A q \in Proc : Settled(q)'
  <2>1. pc'[p] = "waiting" /\ UNCHANGED disk
    BY <1>5, <1>t DEF BeginApply, Goto, Processes
  <2>2. Settled(p)'
    BY <2>1, NothingToSettle DEF Rolling
  <2> QED BY <1>3, <1>5, <1>t, <2>1, <2>2, PreviewMoves
<1>6. ASSUME NEW p \in Proc, SealPreview(p) \/ Acquire(p) \/ LockTimeout(p)
      PROVE  \A q \in Proc : Settled(q)'
  <2>1. pc'[p] \in {"idle", "recovering"} /\ UNCHANGED disk
    BY <1>6, <1>t DEF SealPreview, Acquire, LockTimeout, Return, Goto, Processes
  <2>2. Settled(p)'
    BY <2>1, NothingToSettle DEF Rolling
  <2> QED BY <1>3, <1>6, <1>t, <2>1, <2>2, PreviewMoves
<1>7. ASSUME NEW p \in Proc, RecoverNext(p) PROVE Settled(p)'
  <2>1. PICK op \in todo[p] : /\ cur'[p].op = op
                              /\ left'[p] = DOMAIN journal[op].writes
    BY <1>7, <1>t DEF RecoverNext, Processes
  <2>2. pc'[p] = "rolling" /\ UNCHANGED journal
    BY <1>7, <1>t DEF RecoverNext, Goto, Processes, disk
  <2> QED BY <2>1, <2>2 DEF Settled, Entry, Rolling
<1>8. ASSUME NEW p \in Proc, Decide(p) PROVE Settled(p)'
  <2>1. CASE Fresh(envs[env[p]])
    <3>1. /\ pc[p] = "deciding" /\ pc'[p] = "accepted" /\ env'[p] = env[p]
          /\ UNCHANGED <<envs, file>>
          /\ plan'[p] = [cmd |-> envs[env[p]].cmd, after |-> Planned(envs[env[p]].cmd, file)]
      BY <1>8, <1>t, <2>1 DEF Decide, Goto, Processes, disk
    <3>2. /\ plan'[p].cmd = envs[env[p]].cmd
          /\ plan'[p].after = Planned(envs[env[p]].cmd, file)
      BY <3>1
    <3>3. Plannable(plan[p].cmd, file)'
      BY <2>1, <3>1, <3>2 DEF Fresh, Plannable
    <3>4. (plan[p].after = Planned(plan[p].cmd, file))'
      BY <3>1, <3>2 DEF Planned, Edited
    <3>5. Changes(plan[p].after)' = envs[env[p]].changes
      BY <2>1, <3>1, <3>2 DEF Fresh, Changes, Changed
    <3> QED BY <3>1, <3>3, <3>4, <3>5 DEF Settled, Rolling
  <2>2. CASE ~Fresh(envs[env[p]])
    <3>1. pc'[p] = "idle"
      BY <1>8, <1>t, <2>2 DEF Decide, Return, Goto, Processes
    <3> QED BY <3>1, NothingToSettle DEF Rolling
  <2> QED BY <2>1, <2>2
<1>9. ASSUME NEW p \in Proc, WriteIntent(p) PROVE Settled(p)'
  <2>1. PICK op \in Op : op = plan[p].cmd.op
    BY <1>9, Accepted DEF WriteIntent
  <2>2. /\ pc'[p] = "rolling" /\ cur'[p].op = op
        /\ left'[p] = DOMAIN Changes(plan[p].after)
        /\ journal' = [journal EXCEPT ![op] =
                         [state |-> "intent", env |-> env[p],
                          writes |-> Changes(plan[p].after), at |-> Len(commits) + 1]]
    BY <1>9, <1>t, <2>1 DEF WriteIntent, Goto, Processes
  <2>3. journal'[op].writes = Changes(plan[p].after)
    BY <2>1, <2>2 DEF CoreInv, Typed, Disk
  <2>4. Entry(p)'.writes = Changes(plan[p].after)
    BY <2>2, <2>3 DEF Entry
  <2> QED BY <2>2, <2>4 DEF Settled, Rolling
<1>10. ASSUME NEW p \in Proc, RollFails(p) PROVE pc'[p] \in {"idle", "recovering"}
  BY <1>10, <1>t DEF RollFails, Return, Goto, Processes
<1>11. ASSUME NEW p \in Proc,
              \/ RecoverDone(p) \/ Complete(p) \/ AnswerFromJournal(p) \/ Crash(p)
              \/ RecoveryCompleteFails(p) \/ RecoveryMarkFails(p)
              \/ FindConflict(p) \/ RecoveryWriteFails(p)
       PROVE  Settled(p)'
  <2>1. pc'[p] \in {"idle", "recovering", "deciding"}
    BY <1>10, <1>11, <1>t DEF RecoverDone, Complete, AnswerFromJournal, Crash,
       RecoveryCompleteFails, RecoveryMarkFails, FindConflict, RecoveryWriteFails,
       Return, Goto, Processes
  <2> QED BY <2>1, NothingToSettle DEF Rolling
<1>12. ASSUME NEW p \in Proc,
              \/ RecoverNext(p) \/ RecoverDone(p) \/ SkipWritten(p) \/ CheckFile(p)
              \/ WriteFile(p) \/ FindConflict(p) \/ AppendLine(p) \/ Complete(p)
              \/ AnswerFromJournal(p) \/ Decide(p) \/ WriteIntent(p) \/ Crash(p)
              \/ RecoveryWriteFails(p) \/ RecoveryCompleteFails(p) \/ RecoveryMarkFails(p)
       PROVE  \A q \in Proc : Settled(q)'
  <2>1. OthersKept(p) /\ pc[p] \in Locked
    BY <1>12, <1>t, LockedMoves
  <2>2. Settled(p)'
    BY <1>7, <1>8, <1>9, <1>11, <1>12, SettledRolling
  <2> QED BY <1>3, <2>1, <2>2
<1> QED BY <1>1, <1>2, <1>4, <1>5, <1>6, <1>12 DEF Next, Step

(* From here on, edits by other programs keep out of the lock.             *)
LEMMA SettledAlways == ASSUME ~LiveEdits PROVE Spec => []SettledInv
<1>1. Init => SettledInv
  <2> SUFFICES ASSUME Init PROVE SettledInv
    OBVIOUS
  <2>1. \A op \in Op : Faithful(op)
    BY DEF Init, Faithful
  <2>2. \A p \in Proc : pc[p] = "idle"
    BY DEF Init
  <2> QED BY <2>1, <2>2 DEF Init, LineOnce, SettledInv, Settled, Rolling
<1>2. CoreInv /\ SettledInv /\ LineOnce' /\ [Next]_vars => SettledInv'
  BY FaithfulStep, SettledStep DEF SettledInv
<1> QED BY <1>1, <1>2, CoreAlways, LinesOnce, PTL DEF Spec

(* Which steps change the files, and how.                                  *)
LEMMA FileStep ==
  ASSUME CoreInv, [Next]_vars, file' # file, ~ForeignEdit
  PROVE  \E p \in Proc : WriteFile(p)
<1>1. ASSUME NEW p \in Proc,
             \/ SealPreview(p) \/ FindConflict(p) \/ AppendLine(p) \/ Complete(p)
             \/ WriteIntent(p) \/ RecoveryWriteFails(p)
      PROVE  UNCHANGED file
  BY <1>1 DEF SealPreview, FindConflict, AppendLine, Complete, WriteIntent,
     RecoveryWriteFails, disk
<1>2. UNCHANGED <<disk, envs, commits>> => UNCHANGED file
  BY DEF disk
<1> QED BY <1>1, <1>2, Quiet

(* A team command only ever replaces the very content its envelope showed, *)
(* also when another process makes the write while recovering it           *)
(* (workflow.rs, check_expectations; store.rs, roll_forward).              *)
THEOREM Previewed == ASSUME ~LiveEdits PROVE Spec => WritesOnlyPreviewed
<1> DEFINE Shown(path) ==
      file'[path] # file[path] /\ edits' = edits =>
        \E op \in Interrupted :
          LET changes == envs[journal[op].env].changes
          IN /\ path \in DOMAIN changes
             /\ changes[path].before = file[path]
             /\ changes[path].after = file'[path]
<1>1. CoreInv /\ SettledInv /\ [Next]_vars => \A path \in Path : Shown(path)
  <2> SUFFICES ASSUME CoreInv, SettledInv, [Next]_vars,
                      NEW path \in Path, file'[path] # file[path], edits' = edits
               PROVE  \E op \in Interrupted :
                        LET changes == envs[journal[op].env].changes
                        IN /\ path \in DOMAIN changes
                           /\ changes[path].before = file[path]
                           /\ changes[path].after = file'[path]
    OBVIOUS
  <2>1. ~ForeignEdit
    BY DEF ForeignEdit, CoreInv, Typed, Processes
  <2>2. PICK p \in Proc : WriteFile(p)
    BY <2>1, FileStep
  <2>3. /\ pc[p] = "writing"
        /\ file' = [file EXCEPT ![target[p]] = Entry(p).writes[target[p]].after]
        /\ file \in [Path -> Contents]
    BY <2>2 DEF WriteFile, CoreInv, Typed, Disk
  <2>4. path = target[p] /\ file'[path] = Entry(p).writes[path].after
    BY <2>3
  <2>5. file[path] = Entry(p).writes[path].before /\ path \in left[p]
    BY <2>3, <2>4 DEF SettledInv, Settled, CoreInv, Held, Hand
  <2>6. /\ cur[p].op \in Interrupted /\ cur[p].op \in Op /\ journal[cur[p].op] # NoEntry
        /\ left[p] \subseteq DOMAIN Entry(p).writes
    BY <2>3, InHand DEF Rolling
  <2>7. Entry(p).writes = envs[journal[cur[p].op].env].changes
    BY <2>6 DEF SettledInv, Faithful, Entry
  <2> QED BY <2>4, <2>5, <2>6, <2>7
<1>2. (\A path \in Path : Shown(path)) =>
      [\A path \in Path :
         file'[path] # file[path] /\ edits' = edits =>
           \E op \in Interrupted :
             LET changes == envs[journal[op].env].changes
             IN /\ path \in DOMAIN changes
                /\ changes[path].before = file[path]
                /\ changes[path].after = file'[path]]_vars
  OBVIOUS
<1> HIDE DEF Shown
<1> QED BY <1>1, <1>2, CoreAlways, SettledAlways, PTL DEF Spec, WritesOnlyPreviewed

(* A record becomes "complete" (store.rs, complete_entry), and loses the   *)
(* contents that would be needed to do the operation again, only over      *)
(* files that all hold what it planned, with its event line in the log.    *)
THEOREM CompleteIsDone == ASSUME ~LiveEdits PROVE Spec => CompleteMeansDone
<1> DEFINE Done(op) ==
      journal'[op] # journal[op] /\ (journal'[op] = NoEntry \/ journal'[op].state = "complete")
      => /\ \A path \in DOMAIN journal[op].writes :
              file[path] = journal[op].writes[path].after
         /\ envs[journal[op].env].cmd.logs => lines[journal[op].env] = 1
<1>1. CoreInv /\ SettledInv /\ [Next]_vars => \A op \in Interrupted : Done(op)
  <2> SUFFICES ASSUME CoreInv, SettledInv, [Next]_vars, NEW op \in Interrupted,
                      journal'[op] # journal[op],
                      journal'[op] = NoEntry \/ journal'[op].state = "complete"
               PROVE  /\ \A path \in DOMAIN journal[op].writes :
                           file[path] = journal[op].writes[path].after
                      /\ envs[journal[op].env].cmd.logs => lines[journal[op].env] = 1
    OBVIOUS
  <2>t. /\ op \in Op /\ journal[op] # NoEntry /\ journal[op].state = "intent"
        /\ journal \in [Op -> Entries \cup {NoEntry}]
    BY DEF Interrupted, CoreInv, Typed, Disk
  <2>1. ASSUME NEW p \in Proc, Complete(p), op = cur[p].op
        PROVE  /\ \A path \in DOMAIN journal[op].writes :
                    file[path] = journal[op].writes[path].after
               /\ envs[journal[op].env].cmd.logs => lines[journal[op].env] = 1
    <3>1. pc[p] = "completing" /\ left[p] = {}
      BY <2>1 DEF Complete, CoreInv, Held, Hand
    <3>2. Settled(p)
      BY DEF SettledInv
    <3> QED BY <2>1, <3>1, <3>2 DEF Settled, Rolling, Entry
  <2>2. ASSUME NEW p \in Proc, Complete(p) PROVE op = cur[p].op
    <3>1. PICK done : done = Closing(journal, cur[p].op, "complete")
      OBVIOUS
    <3>2. /\ done \in [Op -> Entries \cup {NoEntry}]
          /\ \A o \in Op : o # cur[p].op => done[o] = journal[o]
          /\ journal' = IF cur[p].own THEN Pruned(done) ELSE done
      BY <2>2, <3>1, CompleteJournal
    <3>3. op # cur[p].op => done[op] = journal[op] /\ op \notin Completed(done)
      BY <2>t, <3>2 DEF Completed
    <3>4. op # cur[p].op => journal'[op] = journal[op]
      BY <2>t, <3>2, <3>3, PrunedIsJournal
    <3> QED BY <3>4
  <2>3. ASSUME NEW p \in Proc, FindConflict(p) \/ RecoveryWriteFails(p) PROVE FALSE
    <3>1. journal' = Closing(journal, cur[p].op, "conflicted") /\ pc[p] \in Rolling
      BY <2>3, RollFailsJournal
    <3>2. cur[p].op \in Op /\ journal[cur[p].op] # NoEntry
      BY <3>1, InHand
    <3>3. /\ journal'[cur[p].op] # NoEntry /\ journal'[cur[p].op].state = "conflicted"
          /\ \A o \in Op : o # cur[p].op => journal'[o] = journal[o]
      BY <2>t, <3>1, <3>2, Closed
    <3> QED BY <2>t, <3>3
  <2>4. ASSUME NEW p \in Proc, WriteIntent(p) PROVE FALSE
    <3>1. /\ plan[p].cmd.op \in Op /\ journal[plan[p].cmd.op] = NoEntry
      BY <2>4, Accepted DEF WriteIntent
    <3>2. \A o \in Op : o # plan[p].cmd.op => journal'[o] = journal[o]
      BY <2>4, <2>t DEF WriteIntent
    <3> QED BY <2>t, <3>1, <3>2
  <2>5. ASSUME NEW p \in Proc, SealPreview(p) \/ WriteFile(p) \/ AppendLine(p)
        PROVE  UNCHANGED journal
    BY <2>5 DEF SealPreview, WriteFile, AppendLine, disk
  <2>6. ForeignEdit \/ UNCHANGED <<disk, envs, commits>> => UNCHANGED journal
    BY DEF ForeignEdit, disk
  <2> QED BY <2>1, <2>2, <2>3, <2>4, <2>5, <2>6, Quiet
<1>2. (\A op \in Interrupted : Done(op)) =>
      [\A op \in Interrupted :
         journal'[op] # journal[op] /\ (journal'[op] = NoEntry \/ journal'[op].state = "complete")
         => /\ \A path \in DOMAIN journal[op].writes :
                 file[path] = journal[op].writes[path].after
            /\ envs[journal[op].env].cmd.logs => lines[journal[op].env] = 1]_vars
  OBVIOUS
<1> HIDE DEF Done
<1> QED BY <1>1, <1>2, CoreAlways, SettledAlways, PTL DEF Spec, CompleteMeansDone

----------------------------------------------------------------------------
(* While recovery can write, it closes every interrupted operation before  *)
(* another one begins.                                                     *)
Alone(p) ==
  pc[p] \in Locked =>
    \A op \in Interrupted : op \in todo[p] \/ (pc[p] \in Rolling /\ op = cur[p].op)

InFlightInv == OneInFlight /\ \A p \in Proc : Alone(p)

LEMMA JournalStep ==
  ASSUME CoreInv, [Next]_vars, NEW op \in Interrupted', op \notin Interrupted
  PROVE  \E p \in Proc : WriteIntent(p) /\ op = plan[p].cmd.op
<1>t. /\ op \in Op /\ journal'[op] # NoEntry /\ journal'[op].state = "intent"
      /\ journal \in [Op -> Entries \cup {NoEntry}]
  BY DEF Interrupted, CoreInv, Typed, Disk
<1>0. journal'[op] # journal[op]
  BY <1>t DEF Interrupted
<1>1. ASSUME NEW p \in Proc, Complete(p) PROVE FALSE
  <2>1. PICK done : done = Closing(journal, cur[p].op, "complete")
    OBVIOUS
  <2>2. /\ done \in [Op -> Entries \cup {NoEntry}] /\ done[cur[p].op].state = "complete"
        /\ \A o \in Op : o # cur[p].op => done[o] = journal[o]
        /\ journal' = IF cur[p].own THEN Pruned(done) ELSE done
    BY <1>1, <2>1, CompleteJournal
  <2>3. journal'[op] = done[op]
    BY <1>t, <2>2, PrunedIsJournal
  <2> QED BY <1>t, <1>0, <2>2, <2>3
<1>2. ASSUME NEW p \in Proc, FindConflict(p) \/ RecoveryWriteFails(p) PROVE FALSE
  <2>1. journal' = Closing(journal, cur[p].op, "conflicted") /\ pc[p] \in Rolling
    BY <1>0, <1>2, RollFailsJournal
  <2>2. cur[p].op \in Op /\ journal[cur[p].op] # NoEntry
    BY <2>1, InHand
  <2>3. /\ journal'[cur[p].op].state = "conflicted"
        /\ \A o \in Op : o # cur[p].op => journal'[o] = journal[o]
    BY <1>t, <2>1, <2>2, Closed
  <2> QED BY <1>t, <1>0, <2>3
<1>3. ASSUME NEW p \in Proc, WriteIntent(p) PROVE op = plan[p].cmd.op
  BY <1>t, <1>0, <1>3 DEF WriteIntent
<1>4. ASSUME NEW p \in Proc, SealPreview(p) \/ WriteFile(p) \/ AppendLine(p)
      PROVE  UNCHANGED journal
  BY <1>4 DEF SealPreview, WriteFile, AppendLine, disk
<1>5. ForeignEdit \/ UNCHANGED <<disk, envs, commits>> => UNCHANGED journal
  BY DEF ForeignEdit, disk
<1> QED BY <1>0, <1>1, <1>2, <1>3, <1>4, <1>5, Quiet

LEMMA InFlightStep ==
  ASSUME CoreInv, InFlightInv, MaxIoErrors = 0, [Next]_vars
  PROVE  InFlightInv'
<1>t. Processes /\ ioErrors \in Nat /\ journal \in [Op -> Entries \cup {NoEntry}]
  BY DEF CoreInv, Typed, Processes, Disk
<1>0. ASSUME NEW p \in Proc
      PROVE  ~RecoveryWriteFails(p) /\ ~RecoveryCompleteFails(p) /\ ~RecoveryMarkFails(p)
  BY <1>t DEF RecoveryWriteFails, RecoveryCompleteFails, RecoveryMarkFails
<1>1. ASSUME NEW p \in Proc, WriteIntent(p) PROVE InFlightInv'
  <2>1. pc[p] = "accepted" /\ todo[p] = {}
    BY <1>1 DEF WriteIntent, CoreInv, Held, Hand
  <2>2. Interrupted = {}
    BY <2>1 DEF InFlightInv, Alone, Locked, Rolling
  <2>3. PICK op \in Op : op = plan[p].cmd.op
    BY <2>1, Accepted
  <2>4. \A o \in Interrupted' : o = op
    <3>1. ASSUME NEW o \in Interrupted' PROVE o = op
      <4>1. o \in Op /\ journal'[o] # NoEntry
        BY DEF Interrupted
      <4>2. o # op => journal'[o] = journal[o]
        BY <1>1, <1>t, <2>3, <4>1 DEF WriteIntent
      <4> QED BY <2>2, <4>1, <4>2 DEF Interrupted
    <3> QED BY <3>1
  <2>5. pc'[p] = "rolling" /\ cur'[p].op = op
    BY <1>1, <1>t, <2>3 DEF WriteIntent, Goto, Processes
  <2>6. \A q \in Proc : q # p => pc'[q] \notin Locked
    BY <1>1, <1>t, <2>1, LockedMoves DEF OthersKept, Kept, CoreInv, Held, OneHolder, Locked
  <2> QED BY <2>4, <2>5, <2>6 DEF InFlightInv, OneInFlight, Alone, Rolling
<1>2. ASSUME \A p \in Proc : ~WriteIntent(p) PROVE Interrupted' \subseteq Interrupted
  BY <1>2, JournalStep
<1>3. ASSUME NEW p \in Proc, OthersKept(p), pc[p] \in Locked, \A q \in Proc : ~WriteIntent(q),
             Alone(p)'
      PROVE  InFlightInv'
  <2>1. \A q \in Proc : q # p => pc'[q] \notin Locked
    BY <1>3 DEF OthersKept, Kept, CoreInv, Held, OneHolder
  <2> QED BY <1>2, <1>3, <2>1 DEF InFlightInv, OneInFlight, Alone
<1>4. ASSUME NEW q \in Proc, Kept(q), Interrupted' \subseteq Interrupted PROVE Alone(q)'
  BY <1>4 DEF InFlightInv, Alone, Kept
<1>5. CASE UNCHANGED vars \/ ForeignEdit
  <2>1. UNCHANGED <<journal, pc, local>>
    BY <1>5 DEF vars, disk, ForeignEdit
  <2>2. Interrupted' = Interrupted /\ \A q \in Proc : Kept(q)
    BY <2>1 DEF Interrupted, Kept, local
  <2> QED BY <1>4, <2>2 DEF InFlightInv, OneInFlight
<1>6. ASSUME NEW p \in Proc,
             \/ \E c \in Command : PlanPreview(p, c)
             \/ SealPreview(p) \/ (\E e \in 0..Len(envs) : BeginApply(p, e))
             \/ Acquire(p) \/ LockTimeout(p)
      PROVE  InFlightInv'
  <2>1. OthersKept(p) /\ UNCHANGED journal
    BY <1>6, <1>t, PreviewMoves DEF PlanPreview, SealPreview, BeginApply, Acquire,
       LockTimeout, disk
  <2>2. Interrupted' = Interrupted
    BY <2>1 DEF Interrupted
  <2>3. pc'[p] \notin Locked \/ todo'[p] = Interrupted
    BY <1>6, <1>t DEF PlanPreview, SealPreview, BeginApply, Acquire, LockTimeout,
       Return, Goto, Processes, Locked
  <2>4. Alone(p)'
    BY <2>2, <2>3 DEF Alone
  <2> QED BY <1>4, <2>1, <2>2, <2>4 DEF InFlightInv, OneInFlight, OthersKept
<1>7. ASSUME NEW p \in Proc,
             \/ RecoverNext(p) \/ RecoverDone(p) \/ SkipWritten(p) \/ CheckFile(p)
             \/ WriteFile(p) \/ FindConflict(p) \/ AppendLine(p) \/ Complete(p)
             \/ AnswerFromJournal(p) \/ Decide(p) \/ Crash(p),
             \A q \in Proc : ~WriteIntent(q)
      PROVE  InFlightInv'
  <2>1. OthersKept(p) /\ pc[p] \in Locked /\ Interrupted' \subseteq Interrupted /\ Alone(p)
    BY <1>2, <1>7, <1>t, LockedMoves DEF InFlightInv
  <2>2. CASE pc'[p] \notin Locked
    BY <1>3, <1>7, <2>1, <2>2 DEF Alone
  <2>3. CASE RecoverNext(p)
    <3>1. /\ pc[p] = "recovering" /\ pc'[p] = "rolling"
          /\ \A op \in todo[p] : op \in todo'[p] \/ op = cur'[p].op
      BY <2>3, <1>t DEF RecoverNext, Goto, Processes
    <3> QED BY <1>3, <1>7, <2>1, <3>1 DEF Alone, Rolling
  <2>4. CASE RecoverDone(p) /\ env[p] # 0
    <3>1. pc[p] = "recovering" /\ todo[p] = {}
      BY <2>4 DEF RecoverDone
    <3> QED BY <1>3, <1>7, <2>1, <3>1 DEF Alone, Rolling
  <2>5. CASE SkipWritten(p) \/ CheckFile(p) \/ WriteFile(p) \/ AppendLine(p)
    <3>1. pc[p] \in Rolling /\ pc'[p] \in Rolling /\ todo'[p] = todo[p] /\ cur'[p] = cur[p]
      BY <2>5, <1>t DEF SkipWritten, CheckFile, WriteFile, AppendLine, Visit, Goto,
         Processes, Rolling, local
    <3> QED BY <1>3, <1>7, <2>1, <3>1 DEF Alone
  <2>6. CASE Decide(p)
    <3>1. pc[p] = "deciding" /\ todo[p] = {}
      BY <2>6 DEF Decide, CoreInv, Held, Hand
    <3> QED BY <1>3, <1>7, <2>1, <3>1 DEF Alone, Rolling
  <2>7. CASE FindConflict(p) /\ ~cur[p].own
    <3>1. /\ pc[p] \in Rolling /\ todo'[p] = todo[p]
          /\ journal' = Closing(journal, cur[p].op, "conflicted")
      BY <2>7, <1>t DEF FindConflict, RollFails, Visit, Rolling, Closing
    <3>2. cur[p].op \in Op /\ journal[cur[p].op] # NoEntry
      BY <3>1, InHand
    <3>3. cur[p].op \notin Interrupted'
      BY <1>t, <3>1, <3>2, Closed DEF Interrupted
    <3> QED BY <1>3, <1>7, <2>1, <3>1, <3>3 DEF Alone
  <2>8. CASE Complete(p) /\ ~cur[p].own
    <3>1. /\ pc[p] \in Rolling /\ todo'[p] = todo[p]
          /\ journal' = Closing(journal, cur[p].op, "complete")
      BY <2>8, <1>t DEF Complete, Rolling, Closing, local
    <3>2. cur[p].op \in Op /\ journal[cur[p].op] # NoEntry
      BY <3>1, InHand
    <3>3. cur[p].op \notin Interrupted'
      BY <1>t, <3>1, <3>2, Closed DEF Interrupted
    <3> QED BY <1>3, <1>7, <2>1, <3>1, <3>3 DEF Alone
  <2>9. ASSUME NEW r, Return(p, r) PROVE pc'[p] \notin Locked
    BY <2>9, <1>t, ReturnMoves DEF Locked
  <2>10. CASE \/ RecoverDone(p) /\ env[p] = 0
              \/ FindConflict(p) /\ cur[p].own
              \/ Complete(p) /\ cur[p].own
              \/ AnswerFromJournal(p)
    BY <2>2, <2>9, <2>10 DEF RecoverDone, FindConflict, RollFails, Complete, AnswerFromJournal
  <2>11. CASE Crash(p)
    BY <2>2, <2>11, <1>t DEF Crash, Goto, Processes, Locked
  <2> QED BY <1>7, <2>3, <2>4, <2>5, <2>6, <2>7, <2>8, <2>10, <2>11
<1> QED BY <1>0, <1>1, <1>5, <1>6, <1>7 DEF Next, Step

LEMMA InFlightAlways == ASSUME MaxIoErrors = 0 PROVE Spec => []InFlightInv
<1>1. Init => InFlightInv
  BY DEF Init, InFlightInv, OneInFlight, Alone, Interrupted, Locked
<1>2. CoreInv /\ InFlightInv /\ [Next]_vars => InFlightInv'
  BY InFlightStep
<1> QED BY <1>1, <1>2, CoreAlways, PTL DEF Spec

(* Where recovery's own writes do not fail, no operation starts before     *)
(* every interrupted one is closed (workflow.rs, apply: recovery comes     *)
(* before the decision), so at most one is ever in flight.                 *)
THEOREM AtMostOneInFlight == ASSUME MaxIoErrors = 0 PROVE Spec => []OneInFlight
BY InFlightAlways, PTL DEF InFlightInv

----------------------------------------------------------------------------
(* The store is atomic: what it has taken effect of is Effective, and the  *)
(* operation not yet closed is OpenOp.                                     *)
LEMMA SamePlan ==
  /\ \A c, path, x : Atomic!Edited(c, path, x) = Edited(c, path, x)
  /\ \A c, files : Atomic!Planned(c, files) = Planned(c, files)
  /\ \A after, files : Atomic!Changed(after, files) = Changed(after, files)
  /\ \A c, files : Atomic!Plannable(c, files) <=> Plannable(c, files)
BY DEF Atomic!Edited, Atomic!Planned, Atomic!Changed, Atomic!Plannable, Edited, Planned,
   Changed, Plannable

LEMMA NothingOpen ==
  CoreInv /\ Interrupted = {} => OpenOp = Nothing /\ Effective = file
<1> SUFFICES ASSUME CoreInv, Interrupted = {} PROVE OpenOp = Nothing /\ Effective = file
  OBVIOUS
<1>1. file \in [Path -> Contents]
  BY DEF CoreInv, Typed, Disk
<1>2. Effective = [path \in Path |-> file[path]]
  BY DEF Effective
<1> QED BY <1>1, <1>2 DEF OpenOp

LEMMA NothingOpenNext ==
  (CoreInv /\ Interrupted = {})' => (OpenOp = Nothing /\ Effective = file)'
BY NothingOpen, PTL

Pending(op) == [path \in DOMAIN journal[op].writes |-> journal[op].writes[path].before]

IsOpen(op) ==
  /\ OpenOp = [cmd |-> envs[journal[op].env].cmd, before |-> Pending(op)]
  /\ OpenOp # Nothing
  /\ Effective = [path \in Path |->
                    IF /\ path \in DOMAIN journal[op].writes
                       /\ file[path] = journal[op].writes[path].before
                      THEN journal[op].writes[path].after
                      ELSE file[path]]

OpenIsKnown == \A op \in Interrupted : IsOpen(op)

LEMMA OneOpen == CoreInv /\ OneInFlight => OpenIsKnown
<1> SUFFICES ASSUME CoreInv, OneInFlight, NEW op \in Interrupted PROVE IsOpen(op)
  BY DEF OpenIsKnown
<1>1. Interrupted = {op}
  BY DEF OneInFlight
<1>2. (CHOOSE o \in Interrupted : TRUE) = op
  BY <1>1
<1>3. OpenOp = [cmd |-> envs[journal[op].env].cmd, before |-> Pending(op)]
  BY <1>1, <1>2 DEF OpenOp, Pending
<1>4. op \in Op /\ journal[op] # NoEntry /\ journal[op] \in Entries
  BY DEF Interrupted, CoreInv, Typed, Disk
<1>5. envs[journal[op].env] \in Envelopes
  BY <1>4 DEF CoreInv, Remembers, Recorded, Typed, Disk
<1>6. Pending(op) \in OnPaths(Contents)
  <2>1. DOMAIN journal[op].writes \in SUBSET Path
    BY <1>4, EntryParts
  <2>2. Pending(op) \in [DOMAIN journal[op].writes -> Contents]
    BY <1>4, EntryParts DEF Pending
  <2> QED BY <2>1, <2>2, IsOnPaths
<1>7. OpenOp \in [cmd : Command, before : OnPaths(Contents)]
  BY <1>3, <1>5, <1>6 DEF Envelopes
<1>8. OpenOp # Nothing
  BY <1>7, TransactionAssumption DEF TransactionAssumption
<1>9. ASSUME NEW path \in Path, path \in DOMAIN journal[op].writes
      PROVE  (CHOOSE o \in Interrupted : path \in DOMAIN journal[o].writes) = op
  BY <1>1, <1>9
<1>10. ASSUME NEW path \in Path
       PROVE  Effective[path] = IF /\ path \in DOMAIN journal[op].writes
                                   /\ file[path] = journal[op].writes[path].before
                                  THEN journal[op].writes[path].after
                                  ELSE file[path]
  <2>1. CASE /\ path \in DOMAIN journal[op].writes
             /\ file[path] = journal[op].writes[path].before
    BY <1>1, <1>9, <2>1 DEF Effective
  <2>2. CASE ~(/\ path \in DOMAIN journal[op].writes
               /\ file[path] = journal[op].writes[path].before)
    BY <1>1, <2>2 DEF Effective
  <2> QED BY <2>1, <2>2
<1>11. Effective = [path \in Path |-> Effective[path]]
  BY DEF Effective
<1> QED BY <1>3, <1>8, <1>10, <1>11 DEF IsOpen

LEMMA OneOpenNext == (CoreInv /\ OneInFlight)' => OpenIsKnown'
BY OneOpen, PTL

AtomicInv == CoreInv /\ SettledInv /\ InFlightInv

Order == [i \in DOMAIN commits |-> OpOf(commits[i])]

(* What does not touch the files, the journal or the commits stutters.     *)
LEMMA Stutters ==
  ASSUME CoreInv, Extends, UNCHANGED <<file, journal, commits, edits>>
  PROVE  UNCHANGED Atomic!vars
<1>1. Interrupted' = Interrupted
  BY DEF Interrupted
<1>2. Effective' = Effective
  BY <1>1 DEF Effective
<1>3. ASSUME NEW op \in Interrupted PROVE envs'[journal[op].env] = envs[journal[op].env]
  BY DEF Interrupted, CoreInv, Remembers, Recorded, Extends
<1>4. OpenOp' = OpenOp
  <2>1. CASE Interrupted = {}
    BY <1>1, <2>1 DEF OpenOp
  <2>2. CASE Interrupted # {}
    <3>1. PICK op \in Interrupted : op = CHOOSE o \in Interrupted : TRUE
      BY <2>2
    <3>2. envs'[journal[op].env] = envs[journal[op].env]
      BY <1>3
    <3> QED BY <1>1, <2>2, <3>1, <3>2 DEF OpenOp
  <2> QED BY <2>1, <2>2
<1>5. \A i \in DOMAIN commits : envs'[commits[i]] = envs[commits[i]]
  BY DEF CoreInv, Typed, Disk, Extends
<1>6. Order' = Order
  BY <1>5 DEF Order, OpOf
<1> QED BY <1>2, <1>4, <1>6 DEF Atomic!vars, Order

LEMMA IntentCommits ==
  ASSUME AtomicInv, AtomicInv', NEW p \in Proc, WriteIntent(p)
  PROVE  Atomic!Commit(envs[env[p]].cmd)
<1>t. /\ CoreInv /\ file \in [Path -> Contents] /\ commits \in Seq(Nat)
      /\ Len(commits) \in Nat /\ DOMAIN commits = 1..Len(commits)
      /\ journal \in [Op -> Entries \cup {NoEntry}]
  BY DEF AtomicInv, CoreInv, Typed, Disk
<1> DEFINE c == envs[env[p]].cmd
           W == Changes(plan[p].after)
<1>1. /\ pc[p] = "accepted" /\ commits' = Append(commits, env[p])
      /\ UNCHANGED <<file, envs, edits>>
      /\ journal' = [journal EXCEPT ![plan[p].cmd.op] =
                       [state |-> "intent", env |-> env[p], writes |-> W,
                        at |-> Len(commits) + 1]]
  BY DEF WriteIntent, faults
<1>2. /\ env[p] \in DOMAIN envs /\ plan[p] \in Plans /\ plan[p].cmd = c
      /\ c.op \in Op /\ c.op = OpOf(env[p]) /\ journal[c.op] = NoEntry
  BY <1>t, <1>1, Accepted
<1>3. /\ Plannable(c, file) /\ plan[p].after = Planned(c, file)
  BY <1>1, <1>2 DEF AtomicInv, SettledInv, Settled
<1>4. /\ DOMAIN W = Changed(plan[p].after, file)
      /\ \A path \in DOMAIN W : W[path] = [before |-> file[path], after |-> plan[p].after[path]]
  BY <1>t, <1>2, ChangesOfPlan DEF Plans
<1>5. Interrupted = {}
  <2>1. todo[p] = {}
    BY <1>t, <1>1 DEF CoreInv, Held, Hand
  <2> QED BY <1>1, <2>1 DEF AtomicInv, InFlightInv, Alone, Locked, Rolling
<1>6. OpenOp = Nothing /\ Effective = file
  BY <1>t, <1>5, NothingOpen
<1>7. PICK op \in Op : op = c.op
  BY <1>2
<1>8. journal'[op].env = env[p] /\ journal'[op].writes = W /\ op \in Interrupted'
  <2>1. journal'[op] = [state |-> "intent", env |-> env[p], writes |-> W,
                        at |-> Len(commits) + 1]
    BY <1>t, <1>1, <1>2, <1>7
  <2>2. journal'[op] # NoEntry
    BY <1>t, <1>1, <1>2, <1>7, <2>1, Accepted, EntryParts
  <2> QED BY <2>1, <2>2 DEF Interrupted
<1>9. OpenIsKnown'
  BY OneOpenNext DEF AtomicInv, InFlightInv
<1>10. /\ OpenOp' = [cmd |-> c, before |-> [path \in DOMAIN W |-> W[path].before]]
       /\ Effective' = [path \in Path |->
                          IF path \in DOMAIN W /\ file[path] = W[path].before
                            THEN W[path].after ELSE file[path]]
  <2>1. IsOpen(op)'
    BY <1>8, <1>9 DEF OpenIsKnown
  <2> QED BY <1>1, <1>8, <2>1 DEF IsOpen, Pending
<1>11. ASSUME NEW path \in Path
       PROVE  (IF path \in DOMAIN W /\ file[path] = W[path].before
                 THEN W[path].after ELSE file[path]) =
              (IF path \in DOMAIN c.edits THEN Edited(c, path, file[path]) ELSE file[path])
  <2>1. DOMAIN plan[p].after = DOMAIN c.edits
    BY <1>3 DEF Planned
  <2>2. CASE path \in DOMAIN W
    <3>1. W[path].before = file[path] /\ W[path].after = plan[p].after[path]
      <4>1. W[path] = [before |-> file[path], after |-> plan[p].after[path]]
        BY <1>4, <2>2
      <4> QED BY <4>1
    <3>2. path \in DOMAIN c.edits
      BY <1>4, <2>1, <2>2 DEF Changed
    <3>3. plan[p].after[path] = Edited(c, path, file[path])
      BY <1>3, <3>2 DEF Planned
    <3> QED BY <2>2, <3>1, <3>2, <3>3
  <2>3. CASE path \notin DOMAIN W /\ path \in DOMAIN c.edits
    <3>1. file[path] = plan[p].after[path]
      BY <1>4, <2>1, <2>3 DEF Changed
    <3>2. plan[p].after[path] = Edited(c, path, file[path])
      BY <1>3, <2>3 DEF Planned
    <3> QED BY <2>3, <3>1, <3>2
  <2>4. CASE path \notin DOMAIN W /\ path \notin DOMAIN c.edits
    BY <2>4
  <2> QED BY <2>2, <2>3, <2>4
<1>12. Effective' = [path \in Path |-> IF path \in DOMAIN c.edits
                                         THEN Edited(c, path, Effective[path])
                                         ELSE Effective[path]]
  BY <1>6, <1>10, <1>11
<1>13. [path \in DOMAIN W |-> W[path].before] =
       [path \in Changed(Planned(c, Effective), Effective) |-> Effective[path]]
  <2>1. DOMAIN W = Changed(Planned(c, Effective), Effective)
    BY <1>3, <1>4, <1>6
  <2>2. ASSUME NEW path \in DOMAIN W PROVE W[path].before = Effective[path]
    <3>1. W[path] = [before |-> file[path], after |-> plan[p].after[path]]
      BY <1>4
    <3> QED BY <1>6, <3>1
  <2> QED BY <2>1, <2>2
<1>14. Order' = Append(Order, c.op)
  <2>1. env[p] \in Nat
    BY <1>2 DEF AtomicInv, CoreInv, Typed, Disk
  <2>2. /\ DOMAIN commits' = 1..(Len(commits) + 1)
        /\ commits'[Len(commits) + 1] = env[p]
        /\ \A i \in DOMAIN commits : commits'[i] = commits[i]
    BY <1>t, <1>1, <2>1
  <2>3. \A i \in DOMAIN commits : OpOf(commits[i]) \in Op
    <3>1. ASSUME NEW i \in DOMAIN commits PROVE envs[commits[i]] \in Envelopes
      BY DEF AtomicInv, CoreInv, Typed, Disk
    <3> QED BY <3>1, PlanAssumption DEF PlanAssumption, Envelopes, OpOf
  <2>4. Order \in Seq(Op) /\ Len(Order) = Len(commits)
    BY <1>t, <2>3 DEF Order
  <2>5. Append(Order, c.op) = [i \in 1..(Len(commits) + 1) |->
                                 IF i = Len(commits) + 1 THEN c.op ELSE Order[i]]
    BY <1>t, <2>4
  <2>6. Order' = [i \in 1..(Len(commits) + 1) |-> envs[commits'[i]].cmd.op]
    BY <1>1, <2>2 DEF Order, OpOf
  <2>7. ASSUME NEW i \in 1..(Len(commits) + 1)
        PROVE  envs[commits'[i]].cmd.op = IF i = Len(commits) + 1 THEN c.op ELSE Order[i]
    BY <1>t, <2>2 DEF Order, OpOf
  <2> QED BY <2>5, <2>6, <2>7
<1>15. ~Atomic!Remembered(c.op)
  <2>1. Forgotten(c.op)
    BY <1>t, <1>2 DEF CoreInv, Remembers
  <2>2. DOMAIN Order = DOMAIN commits /\ Len(Order) = Len(commits)
    BY <1>t DEF Order
  <2>3. \A i \in DOMAIN Order : Order[i] = c.op => i + Window <= Len(commits)
    BY <2>1, <2>2 DEF Order, Forgotten
  <2>4. Window \in Nat
    BY TransactionAssumption DEF TransactionAssumption
  <2>5. \A i \in DOMAIN Order : ~(i > Len(Order) - Window /\ Order[i] = c.op)
    BY <1>t, <2>2, <2>3, <2>4
  <2> QED BY <2>5 DEF Atomic!Remembered, Order
<1> HIDE DEF c, W
<1>16. Atomic!Plannable(c, Effective)
  BY <1>3, <1>6, SamePlan
<1>17. Effective' = [path \in Path |-> IF path \in DOMAIN c.edits
                                         THEN Atomic!Edited(c, path, Effective[path])
                                         ELSE Effective[path]]
  BY <1>12, SamePlan
<1>18. OpenOp' = [cmd |-> c,
                  before |-> [path \in Atomic!Changed(Atomic!Planned(c, Effective), Effective)
                                |-> Effective[path]]]
  BY <1>10, <1>13, SamePlan
<1>19. Atomic!Commit(c)
  BY <1>1, <1>6, <1>14, <1>15, <1>16, <1>17, <1>18 DEF Atomic!Commit, Order
<1> QED BY <1>19 DEF c

(* The entry a process rolls forward is the open operation.                *)
LEMMA OpenInHand ==
  ASSUME AtomicInv, NEW p \in Proc, pc[p] \in Rolling
  PROVE  /\ Interrupted = {cur[p].op}
         /\ IsOpen(cur[p].op)
         /\ \A path \in DOMAIN journal[cur[p].op].writes :
              /\ path \in Path
              /\ journal[cur[p].op].writes[path].after =
                   Edited(envs[journal[cur[p].op].env].cmd, path,
                          journal[cur[p].op].writes[path].before)
<1>1. /\ cur[p].op \in Interrupted /\ cur[p].op \in Op /\ journal[cur[p].op] # NoEntry
      /\ Entry(p) = journal[cur[p].op] /\ DOMAIN Entry(p).writes \subseteq Path
  BY InHand DEF AtomicInv, Entry
<1>2. OpenIsKnown /\ OneInFlight /\ Faithful(cur[p].op)
  BY <1>1, OneOpen DEF AtomicInv, InFlightInv, SettledInv
<1> QED BY <1>1, <1>2 DEF OpenIsKnown, OneInFlight, Faithful

(* What the processes have left to write of the open operation.            *)
LEMMA OpenParts ==
  ASSUME NEW op, IsOpen(op)
  PROVE  /\ DOMAIN OpenOp.before = DOMAIN journal[op].writes
         /\ \A path \in DOMAIN journal[op].writes :
              OpenOp.before[path] = journal[op].writes[path].before
         /\ OpenOp.cmd = envs[journal[op].env].cmd
         /\ OpenOp # Nothing
         /\ \A path \in Path :
              Effective[path] = IF /\ path \in DOMAIN journal[op].writes
                                   /\ file[path] = journal[op].writes[path].before
                                  THEN journal[op].writes[path].after
                                  ELSE file[path]
<1>1. /\ OpenOp.before = Pending(op) /\ OpenOp.cmd = envs[journal[op].env].cmd
      /\ OpenOp # Nothing
  BY DEF IsOpen
<1>2. Effective = [path \in Path |->
                    IF /\ path \in DOMAIN journal[op].writes
                       /\ file[path] = journal[op].writes[path].before
                      THEN journal[op].writes[path].after
                      ELSE file[path]]
  BY DEF IsOpen
<1> QED BY <1>1, <1>2 DEF Pending

LEMMA OrderKept ==
  ASSUME CoreInv, Extends, UNCHANGED commits
  PROVE  Order' = Order
<1>1. \A i \in DOMAIN commits : envs'[commits[i]] = envs[commits[i]]
  BY DEF CoreInv, Typed, Disk, Extends
<1> QED BY <1>1 DEF Order, OpOf

LEMMA CompleteCloses ==
  ASSUME AtomicInv, CoreInv', NEW p \in Proc, Complete(p)
  PROVE  Atomic!Close
<1> DEFINE op == cur[p].op
           W == journal[op].writes
<1>1. /\ pc[p] = "completing" /\ pc[p] \in Rolling /\ left[p] = {}
      /\ UNCHANGED <<file, envs, commits, edits>>
  BY DEF Complete, Rolling, faults, AtomicInv, CoreInv, Held, Hand
<1>2. /\ Interrupted = {op} /\ IsOpen(op)
      /\ \A path \in DOMAIN W :
           path \in Path /\ W[path].after = Edited(envs[journal[op].env].cmd, path, W[path].before)
  BY <1>1, OpenInHand
<1>3. \A path \in DOMAIN W : file[path] = W[path].after
  BY <1>1 DEF AtomicInv, SettledInv, Settled, Entry
<1>4. file \in [Path -> Contents] /\ Extends
  BY <1>1, EnvsExtend DEF AtomicInv, CoreInv, Typed, Disk
<1>5. Effective = file
  <2>1. \A path \in Path : Effective[path] = file[path]
    BY <1>2, <1>3, OpenParts
  <2>2. Effective = [path \in Path |-> Effective[path]]
    BY <1>2 DEF IsOpen
  <2> QED BY <1>4, <2>1, <2>2
<1>6. Interrupted' = {}
  <2>1. PICK done : done = Closing(journal, cur[p].op, "complete")
    OBVIOUS
  <2>2. /\ done \in [Op -> Entries \cup {NoEntry}] /\ done[cur[p].op].state = "complete"
        /\ \A o \in Op : o # cur[p].op => done[o] = journal[o]
        /\ journal' = IF cur[p].own THEN Pruned(done) ELSE done
    BY <2>1, CompleteJournal DEF AtomicInv
  <2>3. \A o \in Op : journal'[o] # NoEntry => journal'[o] = done[o]
    BY <2>2, PrunedIsJournal
  <2>4. \A o \in Op : o # cur[p].op => o \notin Interrupted
    BY <1>2
  <2>5. ASSUME NEW o \in Interrupted' PROVE FALSE
    <3>1. o \in Op /\ journal'[o] # NoEntry /\ journal'[o].state = "intent"
      BY DEF Interrupted
    <3>2. journal'[o] = done[o]
      BY <2>3, <3>1
    <3>3. o # cur[p].op
      BY <2>2, <3>1, <3>2
    <3>4. journal[o] # NoEntry /\ journal[o].state = "intent"
      BY <2>2, <3>1, <3>2, <3>3
    <3> QED BY <2>4, <3>1, <3>3, <3>4 DEF Interrupted
  <2> QED BY <2>5
<1>7. OpenOp' = Nothing /\ Effective' = file'
  <2>1. (CoreInv /\ Interrupted = {})' => (OpenOp = Nothing /\ Effective = file)'
    BY NothingOpenNext
  <2> QED BY <1>6, <2>1
<1>8. Atomic!Intact
  <2>1. \A path \in DOMAIN W : Effective[path] = Edited(OpenOp.cmd, path, OpenOp.before[path])
    BY <1>2, <1>3, <1>5, OpenParts
  <2> QED BY <1>2, <2>1, OpenParts, SamePlan DEF Atomic!Intact
<1>9. Order' = Order /\ OpenOp # Nothing
  BY <1>1, <1>2, <1>4, OrderKept, OpenParts DEF AtomicInv
<1> QED BY <1>1, <1>5, <1>7, <1>8, <1>9 DEF Atomic!Close, Order

LEMMA ConflictAbandons ==
  ASSUME AtomicInv, CoreInv', NEW p \in Proc, FindConflict(p)
  PROVE  Atomic!Abandon \/ UNCHANGED Atomic!vars
<1> DEFINE op == cur[p].op
           W == journal[op].writes
<1>1. /\ pc[p] \in Rolling /\ RollFails(p) /\ UNCHANGED <<file, envs, commits, edits>>
  BY DEF FindConflict, Visit, Rolling, faults
<1>2. /\ Interrupted = {op} /\ IsOpen(op) /\ op \in Op /\ journal[op] # NoEntry
      /\ \A path \in DOMAIN W :
           path \in Path /\ W[path].after = Edited(envs[journal[op].env].cmd, path, W[path].before)
  BY <1>1, OpenInHand, InHand DEF AtomicInv
<1>3. /\ file \in [Path -> Contents] /\ journal \in [Op -> Entries \cup {NoEntry}]
      /\ Extends
  BY <1>1, EnvsExtend DEF AtomicInv, CoreInv, Typed, Disk
<1>4. CASE UNCHANGED journal
  BY <1>1, <1>3, <1>4, Stutters DEF AtomicInv
<1>5. CASE journal' = Closing(journal, cur[p].op, "conflicted")
  <2>1. Interrupted' = {}
    <3>1. /\ journal'[op].state = "conflicted"
          /\ \A o \in Op : o # op => journal'[o] = journal[o]
      BY <1>2, <1>3, <1>5, Closed
    <3>2. \A o \in Op : o # op => o \notin Interrupted
      BY <1>2
    <3> QED BY <3>1, <3>2 DEF Interrupted
  <2>2. OpenOp' = Nothing /\ Effective' = file'
    <3>1. (CoreInv /\ Interrupted = {})' => (OpenOp = Nothing /\ Effective = file)'
      BY NothingOpenNext
    <3> QED BY <2>1, <3>1
  <2>3. ~Atomic!Intact
    <3>1. PICK path \in left[p] : file[path] \notin {Entry(p).writes[path].before,
                                                    Entry(p).writes[path].after}
      BY DEF FindConflict
    <3>2. path \in DOMAIN W /\ Entry(p) = journal[op]
      BY <1>1, InHand DEF AtomicInv, Entry
    <3>3. file[path] # W[path].before /\ file[path] # W[path].after
      BY <3>1, <3>2
    <3>4. Effective[path] = file[path]
      BY <1>2, <3>2, <3>3, OpenParts
    <3>5. Edited(OpenOp.cmd, path, OpenOp.before[path]) = W[path].after
      BY <1>2, <3>2, OpenParts
    <3>6. Effective[path] # Atomic!Edited(OpenOp.cmd, path, OpenOp.before[path])
      BY <3>3, <3>4, <3>5, SamePlan
    <3>7. path \in DOMAIN OpenOp.before
      BY <1>2, <3>2, OpenParts
    <3> QED BY <3>6, <3>7 DEF Atomic!Intact
  <2>4. \E back \in SUBSET DOMAIN OpenOp.before :
          Effective' = [path \in Path |-> IF path \in back THEN OpenOp.before[path]
                                                           ELSE Effective[path]]
    <3> DEFINE back == {path \in DOMAIN W : file[path] = W[path].before}
    <3>1. back \in SUBSET DOMAIN OpenOp.before
      BY <1>2, OpenParts
    <3>2. ASSUME NEW path \in Path
          PROVE  file[path] = IF path \in back THEN OpenOp.before[path] ELSE Effective[path]
      BY <1>2, OpenParts
    <3>3. file = [path \in Path |-> file[path]] /\ Effective' = file
      BY <1>1, <1>3, <2>2
    <3>4. Effective' = [path \in Path |-> IF path \in back THEN OpenOp.before[path]
                                                           ELSE Effective[path]]
      BY <3>2, <3>3
    <3> HIDE DEF back
    <3> QED BY <3>1, <3>4
  <2>5. Order' = Order /\ OpenOp # Nothing
    BY <1>1, <1>2, <1>3, OrderKept, OpenParts DEF AtomicInv
  <2> QED BY <1>1, <2>2, <2>3, <2>4, <2>5 DEF Atomic!Abandon, Order
<1> QED BY <1>1, <1>4, <1>5 DEF RollFails, Closing

(* Where the open operation stays open, what is pending stays pending.     *)
LEMMA StillOpen ==
  ASSUME AtomicInv, AtomicInv', NEW op, op \in Interrupted, UNCHANGED <<journal, envs>>
  PROVE  /\ OpenOp' = OpenOp
         /\ Effective' = [path \in Path |->
                            IF /\ path \in DOMAIN journal[op].writes
                               /\ file'[path] = journal[op].writes[path].before
                              THEN journal[op].writes[path].after
                              ELSE file'[path]]
<1>1. Interrupted' = Interrupted
  BY DEF Interrupted
<1>2. IsOpen(op) /\ IsOpen(op)'
  BY <1>1, OneOpen, OneOpenNext DEF AtomicInv, InFlightInv, OpenIsKnown
<1> QED BY <1>2 DEF IsOpen, Pending

LEMMA WriteStutters ==
  ASSUME AtomicInv, AtomicInv', NEW p \in Proc, WriteFile(p)
  PROVE  UNCHANGED Atomic!vars
<1> DEFINE op == cur[p].op
           W == journal[op].writes
<1>1. /\ pc[p] = "writing" /\ pc[p] \in Rolling
      /\ UNCHANGED <<journal, envs, commits, edits>>
      /\ file' = [file EXCEPT ![target[p]] = Entry(p).writes[target[p]].after]
  BY DEF WriteFile, Rolling, faults
<1>2. op \in Interrupted /\ IsOpen(op) /\ Entry(p) = journal[op]
  BY <1>1, OpenInHand DEF Entry
<1>3. /\ file \in [Path -> Contents] /\ Extends
  BY <1>1, EnvsExtend DEF AtomicInv, CoreInv, Typed, Disk
<1>4. /\ target[p] \in DOMAIN W /\ target[p] \in Path
      /\ file[target[p]] = W[target[p]].before
  BY <1>1, <1>2, InHand DEF AtomicInv, CoreInv, Held, Hand, SettledInv, Settled
<1>5. /\ OpenOp' = OpenOp
      /\ Effective' = [path \in Path |->
                         IF path \in DOMAIN W /\ file'[path] = W[path].before
                           THEN W[path].after ELSE file'[path]]
  <2>1. PICK o : o = op
    OBVIOUS
  <2> QED BY <1>1, <1>2, <2>1, StillOpen
<1>6. ASSUME NEW path \in Path
      PROVE  (IF path \in DOMAIN W /\ file'[path] = W[path].before
                THEN W[path].after ELSE file'[path]) = Effective[path]
  <2>1. Effective[path] = IF path \in DOMAIN W /\ file[path] = W[path].before
                            THEN W[path].after ELSE file[path]
    BY <1>2, OpenParts
  <2>2. CASE path = target[p]
    BY <1>1, <1>2, <1>3, <1>4, <2>1, <2>2
  <2>3. CASE path # target[p]
    BY <1>1, <1>3, <2>1, <2>3
  <2> QED BY <2>2, <2>3
<1>7. Effective' = Effective
  <2>1. Effective = [path \in Path |-> Effective[path]]
    BY <1>2 DEF IsOpen
  <2> QED BY <1>5, <1>6, <2>1
<1>8. Order' = Order
  BY <1>1, <1>3, OrderKept DEF AtomicInv
<1> QED BY <1>1, <1>5, <1>7, <1>8 DEF Atomic!vars, Order

LEMMA EditIsEdit ==
  ASSUME AtomicInv, AtomicInv', ForeignEdit
  PROVE  Atomic!Edit
<1>1. PICK path \in Path, new \in {{Foreign}, Absent} : file' = [file EXCEPT ![path] = new]
  BY DEF ForeignEdit
<1>2. edits' = edits + 1 /\ UNCHANGED <<journal, envs, commits>>
  BY DEF ForeignEdit
<1>3. file \in [Path -> Contents] /\ Extends
  BY <1>2, EnvsExtend DEF AtomicInv, CoreInv, Typed, Disk
<1>4. Order' = Order
  BY <1>2, <1>3, OrderKept DEF AtomicInv
<1>5. CASE Interrupted = {}
  <2>1. Interrupted' = {}
    BY <1>2, <1>5 DEF Interrupted
  <2>2. OpenOp = Nothing /\ Effective = file
    BY <1>5, NothingOpen DEF AtomicInv
  <2>3. OpenOp' = Nothing /\ Effective' = file'
    <3>1. (CoreInv /\ Interrupted = {})' => (OpenOp = Nothing /\ Effective = file)'
      BY NothingOpenNext
    <3> QED BY <2>1, <3>1 DEF AtomicInv
  <2>4. Effective' = [Effective EXCEPT ![path] = new] /\ new \in Atomic!EditedTo(path)
    BY <1>1, <2>2, <2>3 DEF Atomic!EditedTo
  <2> QED BY <1>2, <1>4, <2>2, <2>3, <2>4 DEF Atomic!Edit, Order
<1>6. CASE Interrupted # {}
  <2>1. PICK op : op \in Interrupted
    BY <1>6
  <2> DEFINE W == journal[op].writes
  <2>2. /\ IsOpen(op) /\ op \in Op /\ journal[op] # NoEntry
    BY <2>1, OneOpen DEF AtomicInv, InFlightInv, OpenIsKnown, Interrupted
  <2>3. /\ OpenOp' = OpenOp
        /\ Effective' = [q \in Path |->
                           IF q \in DOMAIN W /\ file'[q] = W[q].before
                             THEN W[q].after ELSE file'[q]]
    BY <1>2, <2>1, StillOpen
  <2>4. \A q \in Path : Effective[q] = IF q \in DOMAIN W /\ file[q] = W[q].before
                                         THEN W[q].after ELSE file[q]
    BY <2>2, OpenParts
  <2>5. \A q \in DOMAIN W :
          W[q].after = Edited(envs[journal[op].env].cmd, q, W[q].before)
    BY <2>2 DEF AtomicInv, SettledInv, Faithful
  <2>6. PICK now : now = IF path \in DOMAIN W /\ new = W[path].before
                           THEN W[path].after ELSE new
    OBVIOUS
  <2>7. Effective' = [Effective EXCEPT ![path] = now]
    <3>1. Effective = [q \in Path |-> Effective[q]]
      BY <2>2 DEF IsOpen
    <3>2. ASSUME NEW q \in Path
          PROVE  (IF q \in DOMAIN W /\ file'[q] = W[q].before THEN W[q].after ELSE file'[q])
                   = IF q = path THEN now ELSE Effective[q]
      <4>1. CASE q = path
        BY <1>1, <1>3, <2>6, <4>1
      <4>2. CASE q # path
        BY <1>1, <1>3, <2>4, <4>2
      <4> QED BY <4>1, <4>2
    <3> HIDE DEF W
    <3>3. [Effective EXCEPT ![path] = now] =
            [q \in Path |-> IF q = path THEN now ELSE Effective[q]]
      BY <3>1
    <3> QED BY <2>3, <3>2, <3>3
  <2>8. now \in Atomic!EditedTo(path)
    <3>1. CASE path \in DOMAIN W /\ new = W[path].before
      <4>1. /\ OpenOp # Nothing /\ path \in DOMAIN OpenOp.before
            /\ OpenOp.before[path] = W[path].before
            /\ OpenOp.cmd = envs[journal[op].env].cmd
        BY <2>2, <3>1, OpenParts
      <4>2. now = Edited(OpenOp.cmd, path, OpenOp.before[path])
        BY <2>5, <2>6, <3>1, <4>1
      <4>3. now = Atomic!Edited(OpenOp.cmd, path, OpenOp.before[path])
        BY <4>2, SamePlan
      <4> QED BY <4>1, <4>3 DEF Atomic!EditedTo
    <3>2. CASE ~(path \in DOMAIN W /\ new = W[path].before)
      BY <2>6, <3>2 DEF Atomic!EditedTo
    <3> QED BY <3>1, <3>2
  <2> QED BY <1>2, <1>4, <2>3, <2>7, <2>8 DEF Atomic!Edit, Order
<1> QED BY <1>5, <1>6

(* Preview and apply, with crashes and recovery by other processes,        *)
(* implement a store whose operations are atomic (store.rs,                *)
(* execute_journaled and recover_interrupted): where no other program      *)
(* edits under the lock and recovery's own writes do not fail, the intent  *)
(* record is the instant an operation takes effect.                        *)
THEOREM Implements ==
  ASSUME ~LiveEdits, MaxIoErrors = 0
  PROVE  Spec => ImplementsAtomicStore
<1>1. Spec => []AtomicInv
  BY CoreAlways, SettledAlways, InFlightAlways, PTL DEF AtomicInv
<1>2. Init => Atomic!Init
  <2> SUFFICES ASSUME Init PROVE Atomic!Init
    OBVIOUS
  <2>1. Interrupted = {}
    BY DEF Init, Interrupted
  <2>2. OpenOp = Nothing /\ Effective = file
    BY <2>1, CoreInit, NothingOpen
  <2>3. commits = <<>> /\ edits = 0 /\ file \in [Path -> {Absent, {}}]
    BY DEF Init
  <2>4. Order = <<>>
    BY <2>3 DEF Order
  <2> QED BY <2>2, <2>3, <2>4 DEF Atomic!Init, Order
<1>3. AtomicInv /\ AtomicInv' /\ [Next]_vars => [Atomic!Next]_(Atomic!vars)
  <2> SUFFICES ASSUME AtomicInv, AtomicInv', [Next]_vars
               PROVE  Atomic!Next \/ UNCHANGED Atomic!vars
    OBVIOUS
  <2>t. CoreInv /\ CoreInv' /\ Extends
    BY EnvsStep DEF AtomicInv
  <2>1. ASSUME UNCHANGED <<file, journal, commits, edits>> PROVE UNCHANGED Atomic!vars
    BY <2>t, <2>1, Stutters
  <2>2. ASSUME NEW p \in Proc, WriteIntent(p) PROVE Atomic!Next
    <3>1. Atomic!Commit(envs[env[p]].cmd)
      BY <2>2, IntentCommits
    <3>2. envs[env[p]].cmd \in Command
      BY <2>t, <2>2, Accepted DEF WriteIntent
    <3> QED BY <3>1, <3>2 DEF Atomic!Next
  <2>3. ASSUME NEW p \in Proc, Complete(p) PROVE Atomic!Next
    BY <2>t, <2>3, CompleteCloses DEF Atomic!Next
  <2>4. ASSUME NEW p \in Proc, FindConflict(p) PROVE Atomic!Next \/ UNCHANGED Atomic!vars
    BY <2>t, <2>4, ConflictAbandons DEF Atomic!Next
  <2>5. ASSUME NEW p \in Proc, WriteFile(p) PROVE UNCHANGED Atomic!vars
    BY <2>5, WriteStutters
  <2>6. CASE ForeignEdit
    BY <2>6, EditIsEdit DEF Atomic!Next
  <2>7. ASSUME NEW p \in Proc
        PROVE  ~RecoveryWriteFails(p) /\ ~RecoveryCompleteFails(p) /\ ~RecoveryMarkFails(p)
    BY <2>t DEF RecoveryWriteFails, RecoveryCompleteFails, RecoveryMarkFails, CoreInv, Typed,
       Processes
  <2>8. ASSUME NEW p \in Proc,
               \/ \E c \in Command : PlanPreview(p, c)
               \/ SealPreview(p) \/ (\E e \in 0..Len(envs) : BeginApply(p, e))
               \/ Acquire(p) \/ LockTimeout(p) \/ RecoverNext(p) \/ RecoverDone(p)
               \/ SkipWritten(p) \/ CheckFile(p) \/ AppendLine(p) \/ AnswerFromJournal(p)
               \/ Decide(p) \/ Crash(p)
        PROVE  UNCHANGED <<file, journal, commits, edits>>
    BY <2>8 DEF PlanPreview, SealPreview, BeginApply, Acquire, LockTimeout, RecoverNext,
       RecoverDone, SkipWritten, CheckFile, AppendLine, AnswerFromJournal, Decide, Crash,
       disk, faults
  <2>9. CASE UNCHANGED vars
    BY <2>1, <2>9 DEF vars, disk, faults
  <2> QED BY <2>1, <2>2, <2>3, <2>4, <2>5, <2>6, <2>7, <2>8, <2>9 DEF Next, Step
<1> QED BY <1>1, <1>2, <1>3, PTL DEF Spec, ImplementsAtomicStore, Atomic!Spec
=============================================================================
