---------------------------- MODULE AnsibleRuns ----------------------------
(***************************************************************************)
(* Post-install runs (services/ansible_runner.py, routers/post_install.py):*)
(* handlers insert a row and hand run_ansible_run to the thread pool of    *)
(* the process, which executes the playbook and writes the outcome.  The   *)
(* hand-over lives in memory only and is lost when the process restarts.   *)
(***************************************************************************)
EXTENDS FiniteSets, Naturals

CONSTANTS
  Runs,                (* the rows ansible_runs may get                     *)
  Hosts, Profiles,
  NoProfile,           (* host.profile is None                              *)
  NoConfig,            (* a profile without post-install config             *)
  Playbooks,           (* playbook paths an operator may configure          *)
  Present,             (* those that exist under ansible/playbooks          *)
  Addressable,         (* hosts with an address for the inventory           *)
  EnforceForeignKeys,  (* PostgreSQL does, SQLite as configured does not    *)
  Threads              (* size of the thread pool                           *)

ASSUME RunsAssumption ==
  /\ NoProfile \notin Profiles
  /\ Present \subseteq Playbooks /\ Addressable \subseteq Hosts
  /\ EnforceForeignKeys \in BOOLEAN
  /\ Threads \in Nat \ {0}
ASSUME ConfigAssumption ==
  NoConfig \notin Profiles /\ NoConfig \notin [enabled : BOOLEAN, playbook : Playbooks]

VARIABLES
  profileOf,  (* hosts.profile_id                                           *)
  profiles,   (* the profiles that exist                                    *)
  config,     (* post_install_configs by profile                            *)
  runs,       (* ansible_runs                                               *)
  task,       (* where the background task of a run is                      *)
  executed,   (* the runs whose playbook has been started (history)         *)
  interrupted (* the runs whose task was lost (history)                     *)

vars == <<profileOf, profiles, config, runs, task, executed, interrupted>>

ConfigRow == [enabled : BOOLEAN, playbook : Playbooks]

Final == {"SUCCESS", "FAILED", "TIMEOUT", "SKIPPED"}

NoRun == [state |-> "NONE", host |-> "none", profile |-> NoProfile, config |-> NoConfig]

(* A run refers to its config by the profile that owns the config.         *)
RunRow ==
  [state : {"QUEUED", "RUNNING"} \cup Final, host : Hosts,
   profile : Profiles, config : Profiles \cup {NoConfig}] \cup {NoRun}

(* waiting: in the pool's queue; started: the row says RUNNING; executing: *)
(* the playbook runs; the others are outcomes that are still to be saved.  *)
Outcome == {"SUCCESS", "FAILED", "TIMEOUT"}
Task == {"none", "waiting", "started", "executing"} \cup Outcome

TypeOK ==
  /\ profileOf \in [Hosts -> profiles \cup {NoProfile}]
  /\ profiles \subseteq Profiles
  /\ config \in [Profiles -> ConfigRow \cup {NoConfig}]
  /\ runs \in [Runs -> RunRow]
  /\ task \in [Runs -> Task]
  /\ executed \subseteq Runs /\ interrupted \subseteq Runs

Init ==
  /\ profileOf \in [Hosts -> Profiles]
  /\ profiles = Profiles
  /\ config = [p \in Profiles |-> NoConfig]
  /\ runs = [r \in Runs |-> NoRun]
  /\ task = [r \in Runs |-> "none"]
  /\ executed = {} /\ interrupted = {}

(* Tasks that hold a thread.                                               *)
Busy == {r \in Runs : task[r] \notin {"none", "waiting"}}

FreeThread == Cardinality(Busy) < Threads

-----------------------------------------------------------------------------
(* Operators; a request is served only if a thread is free.                *)

Edit ==
  /\ FreeThread
  /\ UNCHANGED <<task, executed, interrupted>>

(* The handlers that set a host's profile, here only for what runs read.   *)
AssignProfile(h, p) ==
  /\ Edit
  /\ p \in profiles \cup {NoProfile}
  /\ profileOf' = [profileOf EXCEPT ![h] = p]
  /\ UNCHANGED <<profiles, config, runs>>

(* PUT, PATCH and the form: all columns of the profile's one config.       *)
SaveConfig(p, c) ==
  /\ Edit
  /\ p \in profiles
  /\ config' = [config EXCEPT ![p] = c]
  /\ UNCHANGED <<profileOf, profiles, runs>>

(* Slip: the config of a deleted profile stays.                            *)
DeleteProfileOnly(p) ==
  /\ Edit
  /\ p \in profiles
  /\ \A h \in Hosts : profileOf[h] # p
  /\ profiles' = profiles \ {p}
  /\ UNCHANGED <<profileOf, config, runs>>

(* Deleting a profile deletes its config and detaches the runs of it; the  *)
(* runs still refer to the profile, which a database that enforces foreign *)
(* keys refuses.                                                           *)
DeleteProfile(p) ==
  /\ Edit
  /\ p \in profiles
  /\ \A h \in Hosts : profileOf[h] # p
  /\ EnforceForeignKeys => \A r \in Runs : runs[r].profile # p
  /\ profiles' = profiles \ {p}
  /\ config' = [config EXCEPT ![p] = NoConfig]
  /\ runs' = [r \in Runs |->
                IF runs[r].config = p THEN [runs[r] EXCEPT !.config = NoConfig]
                ELSE runs[r]]
  /\ UNCHANGED profileOf

-----------------------------------------------------------------------------
(* Queueing.                                                               *)

(* Whether queue_ansible_run makes a run for the host.                     *)
Enabled(h) ==
  LET p == profileOf[h] IN
  /\ p # NoProfile
  /\ config[p] # NoConfig
  /\ config[p].enabled

(* The row that is committed, and the task that is left behind for it.     *)
QueueAs(r, h, next) ==
  /\ Enabled(h)
  /\ runs[r] = NoRun
  /\ runs' = [runs EXCEPT ![r] = [state |-> "QUEUED", host |-> h,
                                  profile |-> profileOf[h], config |-> profileOf[h]]]
  /\ task' = [task EXCEPT ![r] = next]
  /\ UNCHANGED <<profileOf, profiles, config, executed>>

QueueAnsibleRun(r, h) == QueueAs(r, h, "waiting") /\ UNCHANGED interrupted

(* The manual triggers, and the callback of a finished installation, which *)
(* does not need a thread.                                                 *)
RunHostAnsible(r) == \E h \in Hosts : QueueAnsibleRun(r, h)

(* A retry is a new run of the host, with the profile it has by now.       *)
RetryRun(r) ==
  /\ FreeThread
  /\ \E previous \in Runs :
       runs[previous] # NoRun /\ QueueAnsibleRun(r, runs[previous].host)

(* Tasks are started behind a response: a refresh of the row that fails    *)
(* after the commit leaves the run without its task.                       *)
QueueUnanswered(r) ==
  /\ FreeThread
  /\ \E h \in Hosts : QueueAs(r, h, "none")
  /\ interrupted' = interrupted \cup {r}

-----------------------------------------------------------------------------
(* run_ansible_run.                                                        *)

Begins(r) ==
  /\ task[r] = "waiting" /\ FreeThread
  /\ runs[r].state = "QUEUED"

Set(r, state, next) ==
  /\ runs' = [runs EXCEPT ![r].state = state]
  /\ task' = [task EXCEPT ![r] = next]
  /\ UNCHANGED <<profileOf, profiles, config, executed, interrupted>>

SkipRun(r) ==
  /\ Begins(r)
  /\ runs[r].config = NoConfig
  /\ Set(r, "SKIPPED", "none")

Preparable(r) ==
  config[runs[r].config].playbook \in Present /\ runs[r].host \in Addressable

(* Slip: the inventory is written before the try block.                    *)
PreparationRaises(r) ==
  /\ Begins(r)
  /\ runs[r].config # NoConfig
  /\ ~ Preparable(r)
  /\ Set(r, "QUEUED", "none")

PreparationFails(r) ==
  /\ Begins(r)
  /\ runs[r].config # NoConfig
  /\ ~ Preparable(r)
  /\ Set(r, "FAILED", "none")

StartRun(r) ==
  /\ Begins(r)
  /\ runs[r].config # NoConfig
  /\ Preparable(r)
  /\ Set(r, "RUNNING", "started")

(* The subprocess starts, or its executable is not there.                  *)
Execute(r) ==
  /\ task[r] = "started"
  /\ \/ /\ task' = [task EXCEPT ![r] = "executing"]
        /\ executed' = executed \cup {r}
     \/ /\ task' = [task EXCEPT ![r] = "FAILED"]
        /\ UNCHANGED executed
  /\ UNCHANGED <<profileOf, profiles, config, runs, interrupted>>

Ends(r, outcome) ==
  /\ task[r] = "executing"
  /\ task' = [task EXCEPT ![r] = outcome]
  /\ UNCHANGED <<profileOf, profiles, config, runs, executed, interrupted>>

Exit(r) == \E outcome \in {"SUCCESS", "FAILED"} : Ends(r, outcome)

(* Slip: the timeout is saved while the playbook is still running.         *)
ExpireOnly(r) ==
  /\ task[r] = "executing"
  /\ runs' = [runs EXCEPT ![r].state = "TIMEOUT"]
  /\ UNCHANGED <<profileOf, profiles, config, task, executed, interrupted>>

(* subprocess.run kills the playbook at config.timeout_seconds.            *)
Expire(r) == Ends(r, "TIMEOUT")

Report(r) ==
  /\ task[r] \in Outcome
  /\ Set(r, task[r], "none")

(* The outcome contains what the database does not store (a NUL in the     *)
(* output): the commit fails, and so does the one in the except clause,    *)
(* in a session that has not been rolled back.                             *)
ReportRefused(r) ==
  /\ task[r] \in Outcome
  /\ Set(r, runs[r].state, "none")

(* A restart ends the process with everything in it; init_database does    *)
(* not look at runs.                                                       *)
Restart ==
  /\ task' = [r \in Runs |-> "none"]
  /\ interrupted' = interrupted \cup {r \in Runs : task[r] # "none"}
  /\ UNCHANGED <<profileOf, profiles, config, runs, executed>>

Step(r) == SkipRun(r) \/ PreparationFails(r) \/ StartRun(r)

Next ==
  \/ \E h \in Hosts, p \in Profiles \cup {NoProfile} : AssignProfile(h, p)
  \/ \E p \in Profiles, c \in ConfigRow : SaveConfig(p, c)
  \/ \E p \in Profiles : DeleteProfile(p)
  \/ \E r \in Runs : RunHostAnsible(r) \/ RetryRun(r) \/ QueueUnanswered(r)
  \/ \E r \in Runs : Step(r) \/ Execute(r) \/ Exit(r) \/ Expire(r)
  \/ \E r \in Runs : Report(r) \/ ReportRefused(r)
  \/ Restart

Spec == Init /\ [][Next]_vars

(* Threads take tasks, make progress, and time passes; nothing says that a *)
(* playbook ends by itself.                                                *)
Fairness ==
  \A r \in Runs : /\ SF_vars(Step(r))
                  /\ WF_vars(Execute(r))
                  /\ WF_vars(Expire(r))
                  /\ WF_vars(Report(r))

FairSpec == Spec /\ Fairness

-----------------------------------------------------------------------------
Job == INSTANCE JobLifecycle WITH
  Jobs <- Runs,
  state <- [r \in Runs |->
              IF runs[r].state \in Final THEN "ENDED" ELSE runs[r].state],
  working <- {r \in Runs : task[r] = "executing"},
  worked <- executed

(***************************************************************************)
(* A run keeps the promises of a job, through timeouts, deletions of the   *)
(* profile it is for, retries and restarts (ansible_runner.py:146-205).    *)
(***************************************************************************)
ImplementsJob == Job!Spec

(***************************************************************************)
(* Every queued run ends, also when the threads are taken by playbooks     *)
(* that never end by themselves, unless its task was lost to a restart or  *)
(* to an answer that failed, or the outcome cannot be stored               *)
(* (ansible_runner.py:188, 194; post_install.py:129-131, 153-155).         *)
(***************************************************************************)
RunsEnd ==
  \A r \in Runs :
    runs[r].state = "QUEUED"
      ~> \/ runs[r].state \in Final
         \/ r \in interrupted
         \/ runs[r].state = "RUNNING" /\ task[r] = "none"

(***************************************************************************)
(* A run whose profile is deleted while it waits for a thread executes     *)
(* nothing (ansible_runner.py:155-160).                                    *)
(***************************************************************************)
DeletedProfilesRunNothing ==
  [][\A r \in Runs :
       runs[r].profile \notin profiles => ~ StartRun(r)]_vars
=============================================================================
