--------------------------- MODULE AnsibleProofs ---------------------------
(***************************************************************************)
(* Post-install runs keep the promises of a job, and a run whose profile   *)
(* was deleted executes nothing, for any sets of runs, hosts, profiles and *)
(* playbooks and any number of threads.                                    *)
(***************************************************************************)
EXTENDS AnsibleRuns, TLAPS

(* The row follows the task: nobody reads the row back, so that a task     *)
(* writes what it knows.                                                   *)
RowsFollowTasks ==
  \A r \in Runs :
    /\ task[r] = "waiting" => runs[r].state = "QUEUED"
    /\ task[r] \notin {"none", "waiting"} => runs[r].state = "RUNNING"
    /\ runs[r].state \in {"NONE", "QUEUED"} => r \notin executed
    /\ task[r] = "started" => r \notin executed

(* A run has its config only while the profile of both exists.             *)
ConfigsHaveProfiles ==
  \A r \in Runs :
    runs[r].config # NoConfig
      => runs[r].config = runs[r].profile /\ runs[r].profile \in profiles

RunsInv == TypeOK /\ RowsFollowTasks /\ ConfigsHaveProfiles

(* What a reader of the table sees of a job.                               *)
Says == [r \in Runs |-> IF runs[r].state \in Final THEN "ENDED" ELSE runs[r].state]
Executing == {r \in Runs : task[r] = "executing"}

JobStep == [Job!Next]_<<Says, Executing, executed>>

(* How a step may show.                                                    *)
Stutters == UNCHANGED <<Says, Executing, executed>>

(* A run that is there is a record of its own kind.                        *)
ProperRow ==
  [state : {"QUEUED", "RUNNING"} \cup Final, host : Hosts,
   profile : Profiles, config : Profiles \cup {NoConfig}]

-----------------------------------------------------------------------------
LEMMA ProperRows ==
  ASSUME RunsInv, NEW r \in Runs, runs[r].state # "NONE"
  PROVE  runs[r] \in ProperRow
<1>1. runs[r] \in RunRow  BY DEF RunsInv, TypeOK
<1>2. runs[r] # NoRun  BY DEF NoRun
<1> QED  BY <1>1, <1>2 DEF RunRow, ProperRow

LEMMA StatesAreKnown ==
  ASSUME RunsInv, NEW r \in Runs
  PROVE  runs[r].state \in {"NONE", "QUEUED", "RUNNING"} \cup Final
<1>1. CASE runs[r].state = "NONE"  BY <1>1
<1>2. CASE runs[r].state # "NONE"  BY <1>2, ProperRows DEF ProperRow
<1> QED  BY <1>1, <1>2

(* A task that writes the state of its run.                                *)
LEMMA SetWrites ==
  ASSUME RunsInv, NEW r \in Runs, NEW state \in {"QUEUED", "RUNNING"} \cup Final,
         NEW next \in Task, runs[r].state # "NONE", Set(r, state, next)
  PROVE  /\ TypeOK' /\ ConfigsHaveProfiles'
         /\ runs'[r].state = state /\ task'[r] = next
         /\ \A s \in Runs \ {r} : runs'[s] = runs[s] /\ task'[s] = task[s]
         /\ executed' = executed
<1>1. /\ runs' = [runs EXCEPT ![r] = [runs[r] EXCEPT !.state = state]]
      /\ task' = [task EXCEPT ![r] = next]
      /\ UNCHANGED <<profileOf, profiles, config, executed, interrupted>>
  BY DEF Set
<1>2. runs[r] \in ProperRow  BY ProperRows
<1>3. PICK row : row = [runs[r] EXCEPT !.state = state]  OBVIOUS
<1>4. /\ row \in ProperRow /\ row.state = state
      /\ row.profile = runs[r].profile /\ row.config = runs[r].config
  BY <1>2, <1>3 DEF ProperRow
<1>5. runs \in [Runs -> RunRow] /\ task \in [Runs -> Task]
  BY DEF RunsInv, TypeOK
<1>6. /\ runs'[r] = row /\ task'[r] = next
      /\ \A s \in Runs \ {r} : runs'[s] = runs[s] /\ task'[s] = task[s]
  BY <1>1, <1>3, <1>5
<1>7. runs' \in [Runs -> RunRow] /\ task' \in [Runs -> Task]
  BY <1>1, <1>3, <1>4, <1>5 DEF RunRow, ProperRow
<1>8. TypeOK'  BY <1>1, <1>7 DEF RunsInv, TypeOK
<1>9. ConfigsHaveProfiles'
  <2>1. ASSUME NEW s \in Runs, runs'[s].config # NoConfig
        PROVE  runs'[s].config = runs'[s].profile /\ runs'[s].profile \in profiles
    <3>1. runs'[s].config = runs[s].config /\ runs'[s].profile = runs[s].profile
      BY <1>4, <1>6
    <3> QED  BY <2>1, <3>1 DEF RunsInv, ConfigsHaveProfiles
  <2> QED  BY <1>1, <2>1 DEF ConfigsHaveProfiles
<1> QED  BY <1>1, <1>4, <1>6, <1>8, <1>9

(* What such a step shows: the new state of the run, and that it has ended *)
(* work if it has done any.                                                *)
LEMMA SetShows ==
  ASSUME RunsInv, NEW r \in Runs, NEW state \in {"QUEUED", "RUNNING"} \cup Final,
         NEW next \in Task, runs[r].state # "NONE", Set(r, state, next),
         task[r] # "executing", next # "executing"
  PROVE  /\ Says' = [Says EXCEPT ![r] = IF state \in Final THEN "ENDED" ELSE state]
         /\ Executing' = Executing /\ executed' = executed
<1>1. /\ runs'[r].state = state /\ task'[r] = next
      /\ \A s \in Runs \ {r} : runs'[s] = runs[s] /\ task'[s] = task[s]
      /\ executed' = executed
  BY SetWrites
<1>2. Says' = [Says EXCEPT ![r] = IF state \in Final THEN "ENDED" ELSE state]
  BY <1>1 DEF Says
<1>3. Executing' = Executing  BY <1>1 DEF Executing
<1> QED  BY <1>1, <1>2, <1>3

-----------------------------------------------------------------------------
(* Operators change nothing that shows.                                    *)

LEMMA AssignProfileKeeps ==
  ASSUME RunsInv, NEW h \in Hosts, NEW p \in Profiles \cup {NoProfile},
         AssignProfile(h, p)
  PROVE  RunsInv' /\ Stutters
<1>1. /\ p \in profiles \cup {NoProfile} /\ profileOf' = [profileOf EXCEPT ![h] = p]
      /\ UNCHANGED <<profiles, config, runs, task, executed, interrupted>>
  BY DEF AssignProfile, Edit
<1>2. TypeOK'  BY <1>1 DEF RunsInv, TypeOK
<1>3. RowsFollowTasks' /\ ConfigsHaveProfiles'
  BY <1>1 DEF RunsInv, RowsFollowTasks, ConfigsHaveProfiles
<1>4. Stutters  BY <1>1 DEF Stutters, Says, Executing
<1> QED  BY <1>2, <1>3, <1>4 DEF RunsInv

LEMMA SaveConfigKeeps ==
  ASSUME RunsInv, NEW p \in Profiles, NEW c \in ConfigRow, SaveConfig(p, c)
  PROVE  RunsInv' /\ Stutters
<1>1. /\ config' = [config EXCEPT ![p] = c]
      /\ UNCHANGED <<profileOf, profiles, runs, task, executed, interrupted>>
  BY DEF SaveConfig, Edit
<1>2. TypeOK'  BY <1>1 DEF RunsInv, TypeOK
<1>3. RowsFollowTasks' /\ ConfigsHaveProfiles'
  BY <1>1 DEF RunsInv, RowsFollowTasks, ConfigsHaveProfiles
<1>4. Stutters  BY <1>1 DEF Stutters, Says, Executing
<1> QED  BY <1>2, <1>3, <1>4 DEF RunsInv

(* The runs of the profile lose the config with it.                        *)
LEMMA DeleteProfileKeeps ==
  ASSUME RunsInv, NEW p \in Profiles, DeleteProfile(p)
  PROVE  RunsInv' /\ Stutters
<1> DEFINE Detached(run) == IF run.config = p THEN [run EXCEPT !.config = NoConfig] ELSE run
<1>1. /\ \A h \in Hosts : profileOf[h] # p
      /\ profiles' = profiles \ {p} /\ config' = [config EXCEPT ![p] = NoConfig]
      /\ runs' = [r \in Runs |-> Detached(runs[r])]
      /\ UNCHANGED <<profileOf, task, executed, interrupted>>
  BY DEF DeleteProfile, Edit
<1>2. ASSUME NEW r \in Runs
      PROVE  /\ Detached(runs[r]) \in RunRow
             /\ Detached(runs[r]).state = runs[r].state
             /\ Detached(runs[r]).profile = runs[r].profile
             /\ Detached(runs[r]).config # p
             /\ \/ Detached(runs[r]).config = NoConfig
                \/ Detached(runs[r]).config = runs[r].config
  <2>1. runs[r] \in RunRow /\ p # NoConfig
    BY ConfigAssumption DEF RunsInv, TypeOK
  <2>2. CASE runs[r].config = p
    <3>1. runs[r] \in ProperRow
      <4>1. runs[r] # NoRun  BY <2>1, <2>2 DEF NoRun
      <4> QED  BY <2>1, <4>1 DEF RunRow, ProperRow
    <3>2. Detached(runs[r]) = [runs[r] EXCEPT !.config = NoConfig]  BY <2>2
    <3> HIDE DEF Detached
    <3>3. Detached(runs[r]) \in ProperRow  BY <3>1, <3>2 DEF ProperRow
    <3> QED  BY <2>1, <3>1, <3>2, <3>3 DEF RunRow, ProperRow
  <2>3. CASE runs[r].config # p  BY <2>1, <2>3
  <2> QED  BY <2>2, <2>3
<1> HIDE DEF Detached
<1>3. runs' \in [Runs -> RunRow]  BY <1>1, <1>2
<1>4. TypeOK'
  <2>1. profileOf' \in [Hosts -> profiles' \cup {NoProfile}]
    BY <1>1 DEF RunsInv, TypeOK
  <2> QED  BY <1>1, <1>3, <2>1 DEF RunsInv, TypeOK
<1>5. RowsFollowTasks'
  <2>1. \A r \in Runs : runs'[r].state = runs[r].state  BY <1>1, <1>2
  <2> QED  BY <1>1, <2>1 DEF RunsInv, RowsFollowTasks
<1>6. ConfigsHaveProfiles'
  <2>1. ASSUME NEW r \in Runs, runs'[r].config # NoConfig
        PROVE  runs'[r].config = runs'[r].profile /\ runs'[r].profile \in profiles'
    <3>1. runs'[r] = Detached(runs[r])  BY <1>1
    <3>2. runs'[r].config = runs[r].config /\ runs'[r].profile = runs[r].profile
      BY <1>2, <2>1, <3>1
    <3>3. runs[r].config = runs[r].profile /\ runs[r].profile \in profiles
      BY <2>1, <3>2 DEF RunsInv, ConfigsHaveProfiles
    <3>4. runs[r].config # p  BY <1>2, <3>1, <3>2
    <3> QED  BY <1>1, <3>2, <3>3, <3>4
  <2> QED  BY <2>1 DEF ConfigsHaveProfiles
<1>7. Stutters
  <2>1. \A r \in Runs : runs'[r].state = runs[r].state  BY <1>1, <1>2
  <2>2. Says' = Says  BY <2>1 DEF Says
  <2>3. Executing' = Executing  BY <1>1 DEF Executing
  <2> QED  BY <1>1, <2>2, <2>3 DEF Stutters
<1> QED  BY <1>4, <1>5, <1>6, <1>7 DEF RunsInv

-----------------------------------------------------------------------------
(* A queued run is a queued job, whether or not there is a task for it.    *)
LEMMA QueueKeeps ==
  ASSUME RunsInv, NEW r \in Runs, NEW h \in Hosts, NEW next \in {"waiting", "none"},
         QueueAs(r, h, next), interrupted' \subseteq Runs
  PROVE  RunsInv' /\ Job!Queue(r)
<1> DEFINE p == profileOf[h]
           row == [state |-> "QUEUED", host |-> h, profile |-> p, config |-> p]
<1>1. /\ p # NoProfile /\ runs[r] = NoRun
      /\ runs' = [runs EXCEPT ![r] = row] /\ task' = [task EXCEPT ![r] = next]
      /\ UNCHANGED <<profileOf, profiles, config, executed>>
  BY DEF QueueAs, Enabled
<1>2. p \in profiles /\ p \in Profiles  BY <1>1 DEF RunsInv, TypeOK
<1>3. /\ row \in RunRow /\ row.state = "QUEUED" /\ row.profile = p /\ row.config = p
  BY <1>2 DEF RunRow
<1>4. runs[r].state = "NONE"  BY <1>1 DEF NoRun
<1>5. task[r] # "executing" /\ r \notin executed
  BY <1>4 DEF RunsInv, RowsFollowTasks
<1> HIDE DEF row, p
<1>6. /\ runs'[r] = row /\ task'[r] = next
      /\ \A s \in Runs \ {r} : runs'[s] = runs[s] /\ task'[s] = task[s]
  BY <1>1 DEF RunsInv, TypeOK
<1>7. TypeOK'  BY <1>1, <1>3 DEF RunsInv, TypeOK, Task
<1>8. RowsFollowTasks'
  BY <1>1, <1>3, <1>5, <1>6 DEF RunsInv, RowsFollowTasks
<1>9. ConfigsHaveProfiles'
  BY <1>1, <1>2, <1>3, <1>6 DEF RunsInv, ConfigsHaveProfiles
<1>10. Says[r] = "NONE"  BY <1>4 DEF Says, Final
<1>11. Says' = [Says EXCEPT ![r] = "QUEUED"]
  BY <1>3, <1>6 DEF Says, Final
<1>12. Executing' = Executing  BY <1>5, <1>6 DEF Executing
<1>13. Job!Queue(r)
  BY <1>1, <1>10, <1>11, <1>12 DEF Job!Queue, Says, Executing
<1> QED  BY <1>7, <1>8, <1>9, <1>13 DEF RunsInv

(* Skipped or failed before it began: the job ends without work.           *)
LEMMA EndsUnworked ==
  ASSUME RunsInv, NEW r \in Runs, NEW state \in Final, Begins(r), Set(r, state, "none")
  PROVE  RunsInv' /\ Job!End(r)
<1>1. task[r] = "waiting" /\ runs[r].state = "QUEUED"  BY DEF Begins
<1>2. "none" \in Task  BY DEF Task
<1>3. /\ TypeOK' /\ ConfigsHaveProfiles'
      /\ runs'[r].state = state /\ task'[r] = "none"
      /\ \A s \in Runs \ {r} : runs'[s] = runs[s] /\ task'[s] = task[s]
      /\ executed' = executed
  BY <1>1, <1>2, SetWrites
<1>4. RowsFollowTasks'  BY <1>3 DEF RunsInv, RowsFollowTasks, Final
<1>5. Says' = [Says EXCEPT ![r] = "ENDED"] /\ Executing' = Executing
  BY <1>1, <1>2, SetShows
<1>6. Says[r] = "QUEUED" /\ r \notin Executing  BY <1>1 DEF Says, Executing, Final
<1>7. Job!End(r)  BY <1>3, <1>5, <1>6 DEF Job!End, Says, Executing
<1> QED  BY <1>3, <1>4, <1>7 DEF RunsInv

LEMMA StartKeeps ==
  ASSUME RunsInv, NEW r \in Runs, StartRun(r)
  PROVE  RunsInv' /\ Job!Start(r) /\ runs[r].profile \in profiles
<1>1. /\ task[r] = "waiting" /\ runs[r].state = "QUEUED"
      /\ runs[r].config # NoConfig /\ Set(r, "RUNNING", "started")
  BY DEF StartRun, Begins
<1>2. "started" \in Task  BY DEF Task
<1>3. /\ TypeOK' /\ ConfigsHaveProfiles'
      /\ runs'[r].state = "RUNNING" /\ task'[r] = "started"
      /\ \A s \in Runs \ {r} : runs'[s] = runs[s] /\ task'[s] = task[s]
      /\ executed' = executed
  BY <1>1, <1>2, SetWrites
<1>4. RowsFollowTasks'  BY <1>1, <1>3 DEF RunsInv, RowsFollowTasks
<1>5. "RUNNING" \notin Final  BY DEF Final
<1>6. Says' = [Says EXCEPT ![r] = "RUNNING"] /\ Executing' = Executing
  BY <1>1, <1>2, <1>5, SetShows
<1>7. Says[r] = "QUEUED"  BY <1>1 DEF Says, Final
<1>8. Job!Start(r)  BY <1>3, <1>6, <1>7 DEF Job!Start, Says, Executing
<1>9. runs[r].profile \in profiles  BY <1>1 DEF RunsInv, ConfigsHaveProfiles
<1> QED  BY <1>3, <1>4, <1>8, <1>9 DEF RunsInv

(* The playbook is started once, when the row says RUNNING.                *)
LEMMA ExecuteKeeps ==
  ASSUME RunsInv, NEW r \in Runs, Execute(r)
  PROVE  RunsInv' /\ (Job!Work(r) \/ Stutters)
<1>1. /\ task[r] = "started"
      /\ UNCHANGED <<profileOf, profiles, config, runs, interrupted>>
  BY DEF Execute
<1>2. runs[r].state = "RUNNING" /\ r \notin executed
  BY <1>1 DEF RunsInv, RowsFollowTasks
<1>3. CASE task' = [task EXCEPT ![r] = "executing"] /\ executed' = executed \cup {r}
  <2>1. task'[r] = "executing" /\ \A s \in Runs \ {r} : task'[s] = task[s]
    BY <1>3 DEF RunsInv, TypeOK
  <2>2. TypeOK'  BY <1>1, <1>3 DEF RunsInv, TypeOK, Task
  <2>3. RowsFollowTasks' /\ ConfigsHaveProfiles'
    BY <1>1, <1>2, <1>3, <2>1 DEF RunsInv, RowsFollowTasks, ConfigsHaveProfiles
  <2>4. Says' = Says /\ Says[r] = "RUNNING"  BY <1>1, <1>2 DEF Says, Final
  <2>5. Executing' = Executing \cup {r}  BY <2>1 DEF Executing
  <2>6. Job!Work(r)  BY <1>2, <1>3, <2>4, <2>5 DEF Job!Work, Says, Executing
  <2> QED  BY <2>2, <2>3, <2>6 DEF RunsInv
<1>4. CASE task' = [task EXCEPT ![r] = "FAILED"] /\ executed' = executed
  <2>1. task'[r] = "FAILED" /\ \A s \in Runs \ {r} : task'[s] = task[s]
    BY <1>4 DEF RunsInv, TypeOK
  <2>2. TypeOK'  BY <1>1, <1>4 DEF RunsInv, TypeOK, Task, Outcome
  <2>3. RowsFollowTasks' /\ ConfigsHaveProfiles'
    BY <1>1, <1>2, <1>4, <2>1 DEF RunsInv, RowsFollowTasks, ConfigsHaveProfiles
  <2>4. Says' = Says  BY <1>1 DEF Says
  <2>5. Executing' = Executing  BY <1>1, <2>1 DEF Executing
  <2>6. Stutters  BY <1>4, <2>4, <2>5 DEF Stutters
  <2> QED  BY <2>2, <2>3, <2>6 DEF RunsInv
<1> QED  BY <1>3, <1>4 DEF Execute

(* The playbook has ended, or subprocess.run has killed it.                *)
LEMMA EndsKeeps ==
  ASSUME RunsInv, NEW r \in Runs, NEW outcome \in Outcome, Ends(r, outcome)
  PROVE  RunsInv' /\ Job!Stop({r})
<1>1. /\ task[r] = "executing" /\ task' = [task EXCEPT ![r] = outcome]
      /\ UNCHANGED <<profileOf, profiles, config, runs, executed, interrupted>>
  BY DEF Ends
<1>2. /\ task'[r] = outcome /\ outcome \notin {"none", "waiting", "started", "executing"}
      /\ \A s \in Runs \ {r} : task'[s] = task[s]
  BY <1>1 DEF RunsInv, TypeOK, Outcome
<1>3. TypeOK'  BY <1>1 DEF RunsInv, TypeOK, Task
<1>4. RowsFollowTasks' /\ ConfigsHaveProfiles'
  BY <1>1, <1>2 DEF RunsInv, RowsFollowTasks, ConfigsHaveProfiles
<1>5. Says' = Says  BY <1>1 DEF Says
<1>6. Executing' = Executing \ {r}  BY <1>1, <1>2 DEF Executing
<1>7. Job!Stop({r})  BY <1>1, <1>5, <1>6 DEF Job!Stop, Says, Executing
<1> QED  BY <1>3, <1>4, <1>7 DEF RunsInv

(* The row says that it has ended when the playbook is over.               *)
LEMMA ReportKeeps ==
  ASSUME RunsInv, NEW r \in Runs, Report(r)
  PROVE  RunsInv' /\ Job!End(r)
<1>1. PICK outcome : outcome = task[r]  OBVIOUS
<1>2. outcome \in Outcome /\ Set(r, outcome, "none")  BY <1>1 DEF Report
<1>3. outcome \in Final /\ outcome \notin {"none", "waiting", "executing"} /\ "none" \in Task
  BY <1>2 DEF Outcome, Final, Task
<1>4. runs[r].state = "RUNNING"  BY <1>1, <1>3 DEF RunsInv, RowsFollowTasks
<1>5. /\ TypeOK' /\ ConfigsHaveProfiles'
      /\ runs'[r].state = outcome /\ task'[r] = "none"
      /\ \A s \in Runs \ {r} : runs'[s] = runs[s] /\ task'[s] = task[s]
      /\ executed' = executed
  BY <1>2, <1>3, <1>4, SetWrites
<1>6. RowsFollowTasks'  BY <1>3, <1>5 DEF RunsInv, RowsFollowTasks, Final
<1>7. Says' = [Says EXCEPT ![r] = "ENDED"] /\ Executing' = Executing
  BY <1>1, <1>2, <1>3, <1>4, SetShows
<1>8. Says[r] = "RUNNING" /\ r \notin Executing
  BY <1>1, <1>3, <1>4 DEF Says, Executing, Final
<1>9. Job!End(r)  BY <1>5, <1>7, <1>8 DEF Job!End, Says, Executing
<1> QED  BY <1>5, <1>6, <1>9 DEF RunsInv

(* An outcome that cannot be stored leaves RUNNING behind.                 *)
LEMMA ReportRefusedKeeps ==
  ASSUME RunsInv, NEW r \in Runs, ReportRefused(r)
  PROVE  RunsInv' /\ Stutters
<1>1. task[r] \notin {"none", "waiting", "executing"} /\ "none" \in Task
  BY DEF ReportRefused, Outcome, Task
<1>2. runs[r].state = "RUNNING"  BY <1>1 DEF RunsInv, RowsFollowTasks
<1>3. Set(r, "RUNNING", "none") /\ "RUNNING" \notin Final
  BY <1>2 DEF ReportRefused, Final
<1>4. /\ TypeOK' /\ ConfigsHaveProfiles'
      /\ runs'[r].state = "RUNNING" /\ task'[r] = "none"
      /\ \A s \in Runs \ {r} : runs'[s] = runs[s] /\ task'[s] = task[s]
      /\ executed' = executed
  BY <1>1, <1>2, <1>3, SetWrites
<1>5. RowsFollowTasks'  BY <1>4 DEF RunsInv, RowsFollowTasks
<1>6. Says' = Says  BY <1>2, <1>4 DEF Says
<1>7. Executing' = Executing  BY <1>1, <1>4 DEF Executing
<1> QED  BY <1>4, <1>5, <1>6, <1>7 DEF RunsInv, Stutters

(* What was being executed ends with the process; the rows stay.           *)
LEMMA RestartKeeps ==
  ASSUME RunsInv, NEW J, J = Executing, Restart
  PROVE  RunsInv' /\ Job!Stop(J)
<1>1. /\ task' = [r \in Runs |-> "none"]
      /\ interrupted' = interrupted \cup {r \in Runs : task[r] # "none"}
      /\ UNCHANGED <<profileOf, profiles, config, runs, executed>>
  BY DEF Restart
<1>2. TypeOK'  BY <1>1 DEF RunsInv, TypeOK, Task
<1>3. RowsFollowTasks' /\ ConfigsHaveProfiles'
  BY <1>1 DEF RunsInv, RowsFollowTasks, ConfigsHaveProfiles
<1>4. Says' = Says  BY <1>1 DEF Says
<1>5. Executing' = Executing \ J  BY <1>1 DEF Executing
<1>6. Job!Stop(J)  BY <1>1, <1>4, <1>5 DEF Job!Stop, Says, Executing
<1> QED  BY <1>2, <1>3, <1>6 DEF RunsInv

-----------------------------------------------------------------------------
(* Only StartRun of a run whose profile exists can be the step.            *)
NothingDeletedStarts ==
  \A r \in Runs : runs[r].profile \notin profiles => ~ StartRun(r)

LEMMA DeletedDoNotStart ==
  ASSUME RunsInv
  PROVE  NothingDeletedStarts
BY StartKeeps DEF NothingDeletedStarts

LEMMA InitialRuns ==
  ASSUME Init
  PROVE  RunsInv /\ Job!Init
<1>1. TypeOK  BY DEF Init, TypeOK, RunRow, Task
<1>2. RowsFollowTasks /\ ConfigsHaveProfiles
  BY DEF Init, RowsFollowTasks, ConfigsHaveProfiles, NoRun
<1>3. Says = [r \in Runs |-> "NONE"]  BY DEF Init, Says, NoRun, Final
<1>4. Executing = {} /\ executed = {}  BY DEF Init, Executing
<1>5. Job!Init  BY <1>3, <1>4 DEF Job!Init, Says, Executing
<1> QED  BY <1>1, <1>2, <1>5 DEF RunsInv

LEMMA RunStep ==
  ASSUME RunsInv, [Next]_vars
  PROVE  RunsInv' /\ JobStep
<1> DEFINE Goal == RunsInv' /\ JobStep
<1>1. ASSUME RunsInv', Stutters PROVE Goal
  BY <1>1 DEF Stutters, JobStep
<1>2. ASSUME RunsInv', NEW r \in Runs,
             Job!Queue(r) \/ Job!Start(r) \/ Job!Work(r) \/ Job!End(r)
      PROVE  Goal
  <2>1. Job!Next  BY <1>2 DEF Job!Next
  <2> QED  BY <1>2, <2>1 DEF JobStep
<1>3. ASSUME RunsInv', NEW J \in SUBSET Runs, Job!Stop(J) PROVE Goal
  <2>1. Job!Next  BY <1>3 DEF Job!Next
  <2> QED  BY <1>3, <2>1 DEF JobStep
<1> HIDE DEF Goal
<1>4. ASSUME NEW h \in Hosts, NEW p \in Profiles \cup {NoProfile}, AssignProfile(h, p)
      PROVE  Goal
  BY <1>1, <1>4, AssignProfileKeeps
<1>5. ASSUME NEW p \in Profiles, NEW c \in ConfigRow, SaveConfig(p, c) PROVE Goal
  BY <1>1, <1>5, SaveConfigKeeps
<1>6. ASSUME NEW p \in Profiles, DeleteProfile(p) PROVE Goal
  BY <1>1, <1>6, DeleteProfileKeeps
<1>7. ASSUME NEW r \in Runs, NEW h \in Hosts, QueueAnsibleRun(r, h) PROVE Goal
  <2>1. QueueAs(r, h, "waiting") /\ interrupted' = interrupted
    BY <1>7 DEF QueueAnsibleRun
  <2>2. interrupted' \subseteq Runs  BY <2>1 DEF RunsInv, TypeOK
  <2> QED  BY <1>2, <2>1, <2>2, QueueKeeps
<1>8. ASSUME NEW r \in Runs, RunHostAnsible(r) PROVE Goal
  BY <1>7, <1>8 DEF RunHostAnsible
<1>9. ASSUME NEW r \in Runs, RetryRun(r) PROVE Goal
  <2>1. PICK previous \in Runs :
          runs[previous] # NoRun /\ QueueAnsibleRun(r, runs[previous].host)
    BY <1>9 DEF RetryRun
  <2>2. runs[previous].host \in Hosts  BY <2>1 DEF RunsInv, TypeOK, RunRow
  <2> QED  BY <1>7, <2>1, <2>2
<1>10. ASSUME NEW r \in Runs, SkipRun(r) PROVE Goal
  <2>1. Begins(r) /\ Set(r, "SKIPPED", "none") /\ "SKIPPED" \in Final
    BY <1>10 DEF SkipRun, Final
  <2> QED  BY <1>2, <2>1, EndsUnworked
<1>11. ASSUME NEW r \in Runs, PreparationFails(r) PROVE Goal
  <2>1. Begins(r) /\ Set(r, "FAILED", "none") /\ "FAILED" \in Final
    BY <1>11 DEF PreparationFails, Final
  <2> QED  BY <1>2, <2>1, EndsUnworked
<1>12. ASSUME NEW r \in Runs, StartRun(r) PROVE Goal
  BY <1>2, <1>12, StartKeeps
<1>13. ASSUME NEW r \in Runs, Execute(r) PROVE Goal
  BY <1>1, <1>2, <1>13, ExecuteKeeps
<1>14. ASSUME NEW r \in Runs, NEW outcome \in Outcome, Ends(r, outcome) PROVE Goal
  BY <1>3, <1>14, EndsKeeps
<1>15. ASSUME NEW r \in Runs, Exit(r) \/ Expire(r) PROVE Goal
  BY <1>14, <1>15 DEF Exit, Expire, Outcome
<1>16. ASSUME NEW r \in Runs, Report(r) PROVE Goal
  BY <1>2, <1>16, ReportKeeps
<1>17. ASSUME NEW r \in Runs, ReportRefused(r) PROVE Goal
  BY <1>1, <1>17, ReportRefusedKeeps
<1>18. ASSUME Restart PROVE Goal
  <2>1. PICK J : J = Executing  OBVIOUS
  <2>2. J \in SUBSET Runs  BY <2>1 DEF Executing
  <2> QED  BY <1>3, <1>18, <2>1, <2>2, RestartKeeps
<1>19. ASSUME NEW r \in Runs, QueueUnanswered(r) PROVE Goal
  <2>1. PICK h \in Hosts : QueueAs(r, h, "none")  BY <1>19 DEF QueueUnanswered
  <2>2. interrupted' \subseteq Runs  BY <1>19 DEF QueueUnanswered, RunsInv, TypeOK
  <2> QED  BY <1>2, <2>1, <2>2, QueueKeeps
<1>20. ASSUME UNCHANGED vars PROVE Goal
  <2>1. UNCHANGED <<profileOf, profiles, config, runs, task, executed, interrupted>>
    BY <1>20 DEF vars
  <2>2. RunsInv'
    BY <2>1 DEF RunsInv, TypeOK, RowsFollowTasks, ConfigsHaveProfiles
  <2>3. Stutters  BY <2>1 DEF Stutters, Says, Executing
  <2> QED  BY <1>1, <2>2, <2>3
<1>21. ASSUME Next PROVE Goal
  BY <1>4, <1>5, <1>6, <1>8, <1>9, <1>10, <1>11, <1>12, <1>13, <1>15, <1>16,
     <1>17, <1>18, <1>19, <1>21 DEF Next, Step
<1>22. Goal  BY <1>20, <1>21
<1> QED  BY <1>22 DEF Goal

LEMMA RunsInvHolds == Spec => []RunsInv
<1>1. Init => RunsInv  BY InitialRuns
<1>2. RunsInv /\ [Next]_vars => RunsInv'  BY RunStep
<1> QED  BY <1>1, <1>2, PTL DEF Spec

(* Every table keeps its type; in particular hosts only have profiles that *)
(* exist, whenever a profile is deleted.                                   *)
THEOREM RunTypes == Spec => []TypeOK
<1>1. RunsInv => TypeOK  BY DEF RunsInv
<1> QED  BY <1>1, RunsInvHolds, PTL

(* Post-install runs keep the promises of a job: a row says RUNNING before *)
(* the playbook starts, the playbook starts at most once, and the row says *)
(* how it ended when nothing is executed any more                          *)
(* (ansible_runner.py:146-205).                                            *)
THEOREM RunsAreJobs == Spec => ImplementsJob
<1>1. Init => Job!Init  BY InitialRuns
<1>2. RunsInv /\ [Next]_vars => [Job!Next]_<<Says, Executing, executed>>
  BY RunStep DEF JobStep
<1>3. Spec => Job!Init /\ [][Job!Next]_<<Says, Executing, executed>>
  BY <1>1, <1>2, RunsInvHolds, PTL DEF Spec
<1> QED  BY <1>3, PTL DEF ImplementsJob, Job!Spec, Says, Executing

(* So a playbook is executed only while the row of its run says RUNNING,   *)
(* and never again when its execution has ended or was interrupted         *)
(* (ansible_runner.py:181-205).                                            *)
THEOREM RunsShowTheirWork == Spec => []Job!WorkIsAnnounced /\ Job!WorkIsNotRepeated
<1>1. Job!Init => Job!WorkIsAnnounced
  BY DEF Job!Init, Job!WorkIsAnnounced
<1>2. Job!WorkIsAnnounced /\ [Job!Next]_<<Says, Executing, executed>> => Job!WorkIsAnnounced'
  <2> SUFFICES ASSUME \A j \in Executing : Says[j] = "RUNNING", [Job!Next]_<<Says, Executing, executed>>,
                      NEW j \in Executing'
               PROVE  Says'[j] = "RUNNING"
    BY DEF Job!WorkIsAnnounced, Says, Executing
  <2>1. j \in Runs
    BY DEF Executing
  <2>2. CASE \E k \in Runs : Job!Queue(k) \/ Job!Start(k) \/ Job!End(k)
    BY <2>1, <2>2 DEF Job!Queue, Job!Start, Job!End, Says, Executing
  <2>3. CASE \E k \in Runs : Job!Work(k)
    BY <2>1, <2>3 DEF Job!Work, Says, Executing
  <2>4. CASE \E J \in SUBSET Runs : Job!Stop(J)
    BY <2>1, <2>4 DEF Job!Stop, Says, Executing
  <2>5. CASE UNCHANGED <<Says, Executing, executed>>
    BY <2>5
  <2> QED BY <2>2, <2>3, <2>4, <2>5 DEF Job!Next
<1>3. [Job!Next]_<<Says, Executing, executed>> => [\A j \in executed \ Executing : j \notin Executing']_<<Says, Executing, executed>>
  <2> SUFFICES ASSUME Job!Next, NEW j \in executed \ Executing
               PROVE  j \notin Executing'
    OBVIOUS
  <2>1. CASE \E k \in Runs : Job!Queue(k) \/ Job!Start(k) \/ Job!End(k)
    BY <2>1 DEF Job!Queue, Job!Start, Job!End, Says, Executing
  <2>2. CASE \E k \in Runs : Job!Work(k)
    BY <2>2 DEF Job!Work, Says, Executing
  <2>3. CASE \E J \in SUBSET Runs : Job!Stop(J)
    BY <2>3 DEF Job!Stop, Says, Executing
  <2> QED BY <2>1, <2>2, <2>3 DEF Job!Next
<1>4. Spec => Job!Init /\ [][Job!Next]_<<Says, Executing, executed>>
  BY RunsAreJobs, PTL DEF ImplementsJob, Job!Spec, Says, Executing
<1>5. Spec => [][\A j \in executed \ Executing : j \notin Executing']_<<Says, Executing, executed>>
  BY <1>3, <1>4, PTL
<1>6. Spec => []Job!WorkIsAnnounced
  BY <1>1, <1>2, <1>4, PTL
<1> QED BY <1>5, <1>6, PTL DEF Job!WorkIsNotRepeated, Says, Executing

(* A run whose profile has been deleted executes nothing                   *)
(* (ansible_runner.py:155-160).                                            *)
THEOREM DeletedProfilesDoNotRun == Spec => DeletedProfilesRunNothing
<1>1. RunsInv /\ [Next]_vars => [NothingDeletedStarts]_vars  BY DeletedDoNotStart
<1>2. Spec => [][NothingDeletedStarts]_vars  BY <1>1, RunsInvHolds, PTL DEF Spec
<1> QED  BY <1>2 DEF DeletedProfilesRunNothing, NothingDeletedStarts
=============================================================================
