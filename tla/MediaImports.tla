---------------------------- MODULE MediaImports ----------------------------
(***************************************************************************)
(* Media import jobs (services/media_jobs.py and the import forms of       *)
(* routers/ui.py).  A job runs app.media_import in a subprocess, which     *)
(* publishes images on its own, and then sees to it in its own session     *)
(* that every image has its managed profile, next to the other sessions    *)
(* that do the same or delete images and profiles.                         *)
(***************************************************************************)
EXTENDS FiniteSets, Naturals

CONSTANTS
  Imports,   (* the rows media_import_runs may get                          *)
  Images,    (* names of images                                             *)
  NoImage,   (* an image row that was read and has been deleted since       *)
  Threads    (* size of the thread pool                                     *)

ASSUME ImportsAssumption == NoImage \notin Images /\ Threads \in Nat \ {0}

VARIABLES
  imports,      (* state of each media_import_runs row                      *)
  publishes,    (* the images the command of an import has still to publish *)
  task,         (* where the background task of an import is                *)
  lacking,      (* the images it has found without a managed profile        *)
  images,       (* the images in the catalogue                              *)
  managed,      (* how many managed profiles an image has                   *)
  executed,     (* the imports whose subprocess has been started (history)  *)
  interrupted   (* the imports whose task a restart has ended (history)     *)

vars == <<imports, publishes, task, lacking, images, managed, executed, interrupted>>
catalogue == <<images, managed>>
history == <<executed, interrupted>>

Final == {"SUCCESS", "FAILED"}
ImportState == {"NONE", "QUEUED", "RUNNING"} \cup Final

(* waiting: in the pool's queue; started: the row says RUNNING; streaming: *)
(* the subprocess runs; succeeded: it has returned 0; ensuring: the images *)
(* without a profile have been read; failed: a failure is to be saved.     *)
Task == {"none", "waiting", "started", "streaming", "succeeded", "ensuring", "failed"}

TypeOK ==
  /\ imports \in [Imports -> ImportState]
  /\ publishes \in [Imports -> SUBSET Images]
  /\ task \in [Imports -> Task]
  /\ lacking \in [Imports -> SUBSET (Images \cup {NoImage})]
  /\ images \subseteq Images
  /\ managed \in [Images -> Nat]
  /\ executed \subseteq Imports /\ interrupted \subseteq Imports

Init ==
  /\ imports = [j \in Imports |-> "NONE"]
  /\ publishes = [j \in Imports |-> {}]
  /\ task = [j \in Imports |-> "none"]
  /\ lacking = [j \in Imports |-> {}]
  /\ images = {} /\ managed = [image \in Images |-> 0]
  /\ executed = {} /\ interrupted = {}

Busy == {j \in Imports : task[j] \notin {"none", "waiting"}}

FreeThread == Cardinality(Busy) < Threads

-----------------------------------------------------------------------------
(* Requests.                                                               *)

(* What ensure_default_profiles adds for the images in I.                   *)
Ensured(I) ==
  [image \in Images |->
     IF image \in I /\ managed[image] = 0 THEN 1 ELSE managed[image]]

(* The images a command publishes: the one for the boot loaders none, those*)
(* for one ISO one, those for presets several.  All of them replace images.*)
Published == SUBSET Images

(* The forms differ in the command they build.                             *)
QueueImport(j, I) ==
  /\ FreeThread
  /\ imports[j] = "NONE"
  /\ imports' = [imports EXCEPT ![j] = "QUEUED"]
  /\ publishes' = [publishes EXCEPT ![j] = I]
  /\ task' = [task EXCEPT ![j] = "waiting"]
  /\ UNCHANGED <<lacking, catalogue, history>>

(* ensure_default_profiles in the session of another request: the profile  *)
(* pages, and the start-up of the process.                                 *)
ListProfiles ==
  /\ FreeThread
  /\ managed' = Ensured(images)
  /\ UNCHANGED <<imports, publishes, task, lacking, images, history>>

(* Only profiles and images that no host uses may be deleted.              *)
DeleteProfile(image) ==
  /\ FreeThread
  /\ managed[image] > 0
  /\ managed' = [managed EXCEPT ![image] = @ - 1]
  /\ UNCHANGED <<imports, publishes, task, lacking, images, history>>

(* Slip: the database does not enforce the foreign key of a profile.       *)
DeleteImageUnseen(image) ==
  /\ FreeThread
  /\ image \in images
  /\ images' = images \ {image} /\ managed' = [managed EXCEPT ![image] = 0]
  /\ UNCHANGED <<imports, publishes, task, lacking, history>>

DeleteImage(image) ==
  /\ FreeThread
  /\ image \in images
  /\ images' = images \ {image} /\ managed' = [managed EXCEPT ![image] = 0]
  /\ lacking' = [j \in Imports |->
                   IF image \in lacking[j] THEN (lacking[j] \ {image}) \cup {NoImage}
                   ELSE lacking[j]]
  /\ UNCHANGED <<imports, publishes, task, history>>

-----------------------------------------------------------------------------
(* run_media_import.                                                       *)

Set(j, state, next) ==
  /\ imports' = [imports EXCEPT ![j] = state]
  /\ task' = [task EXCEPT ![j] = next]
  /\ UNCHANGED interrupted

StartImport(j) ==
  /\ task[j] = "waiting" /\ FreeThread
  /\ imports[j] = "QUEUED"
  /\ Set(j, "RUNNING", "started")
  /\ UNCHANGED <<publishes, lacking, catalogue, executed>>

Spawn(j) ==
  /\ task[j] = "started"
  /\ Set(j, "RUNNING", "streaming")
  /\ executed' = executed \cup {j}
  /\ UNCHANGED <<publishes, lacking, catalogue>>

(* upsert_image in the subprocess, in a session of its own, after the      *)
(* init_database of that process.                                          *)
Publish(j) ==
  /\ task[j] = "streaming"
  /\ \E image \in publishes[j] :
       /\ images' = images \cup {image}
       /\ managed' = Ensured(images')
       /\ publishes' = [publishes EXCEPT ![j] = @ \ {image}]
  /\ UNCHANGED <<imports, task, lacking, history>>

Exit(j) ==
  /\ task[j] = "streaming"
  /\ \/ publishes[j] = {} /\ Set(j, "RUNNING", "succeeded")
     \/ Set(j, "RUNNING", "failed")
  /\ UNCHANGED <<publishes, lacking, catalogue, executed>>

(* Slips: the stream is read without a deadline; the subprocess is not     *)
(* killed when its time is over.                                           *)
ExpireNever(j) == FALSE /\ UNCHANGED vars
ExpireOnly(j) ==
  /\ task[j] = "streaming"
  /\ Set(j, "FAILED", "streaming")
  /\ UNCHANGED <<publishes, lacking, catalogue, executed>>

(* The deadline kills the subprocess.                                      *)
Expire(j) ==
  /\ task[j] = "streaming"
  /\ Set(j, "RUNNING", "failed")
  /\ UNCHANGED <<publishes, lacking, catalogue, executed>>

Fail(j) ==
  /\ task[j] = "failed"
  /\ Set(j, "FAILED", "none")
  /\ UNCHANGED <<publishes, lacking, catalogue, executed>>

EnsureProfiles(j) ==
  /\ task[j] = "succeeded"
  /\ lacking' = [lacking EXCEPT ![j] = {image \in images : managed[image] = 0}]
  /\ Set(j, "RUNNING", "ensuring")
  /\ UNCHANGED <<publishes, catalogue, executed>>

(* Every image that was read without a profile gets one.  If it has got    *)
(* one in the meantime, its name is taken and the second gets another name.*)
Complete(j) ==
  /\ task[j] = "ensuring"
  /\ NoImage \notin lacking[j]
  /\ managed' = [image \in Images |->
                   IF image \in lacking[j] THEN managed[image] + 1 ELSE managed[image]]
  /\ lacking' = [lacking EXCEPT ![j] = {}]
  /\ Set(j, "SUCCESS", "none")
  /\ UNCHANGED <<publishes, images, executed>>

(* A profile cannot be inserted: its image has been deleted, or its name   *)
(* was free when it was chosen and has been taken since.  The session is   *)
(* not rolled back, so that the commit in the finally clause fails as well *)
(* and nothing of the outcome is saved.                                    *)
EnsureFails(j) ==
  /\ task[j] = "ensuring"
  /\ \/ NoImage \in lacking[j]
     \/ \E image \in lacking[j] \ {NoImage} : managed[image] > 0
  /\ lacking' = [lacking EXCEPT ![j] = {}]
  /\ Set(j, "RUNNING", "none")
  /\ UNCHANGED <<publishes, catalogue, executed>>

(* A restart ends the process and its subprocesses; init_database makes    *)
(* the missing profiles and does not look at imports.                      *)
Restart ==
  /\ task' = [j \in Imports |-> "none"]
  /\ lacking' = [j \in Imports |-> {}]
  /\ interrupted' = interrupted \cup {j \in Imports : task[j] # "none"}
  /\ managed' = Ensured(images)
  /\ UNCHANGED <<imports, publishes, images, executed>>

Next ==
  \/ \E j \in Imports, I \in Published : QueueImport(j, I)
  \/ ListProfiles
  \/ \E image \in Images : DeleteProfile(image) \/ DeleteImage(image)
  \/ \E j \in Imports : StartImport(j) \/ Spawn(j) \/ Publish(j)
  \/ \E j \in Imports : Exit(j) \/ Expire(j) \/ Fail(j)
  \/ \E j \in Imports : EnsureProfiles(j) \/ Complete(j) \/ EnsureFails(j)
  \/ Restart

Spec == Init /\ [][Next]_vars

(* The pool serves its queue in order, threads make progress, and time     *)
(* passes; nothing says that the subprocess ends by itself.                *)
Fairness ==
  \A j \in Imports : /\ SF_vars(StartImport(j))
                     /\ WF_vars(Spawn(j))
                     /\ WF_vars(Expire(j))
                     /\ WF_vars(Fail(j))
                     /\ WF_vars(EnsureProfiles(j))
                     /\ WF_vars(Complete(j) \/ EnsureFails(j))

FairSpec == Spec /\ Fairness

-----------------------------------------------------------------------------
Job == INSTANCE JobLifecycle WITH
  Jobs <- Imports,
  state <- [j \in Imports |-> IF imports[j] \in Final THEN "ENDED" ELSE imports[j]],
  working <- {j \in Imports : task[j] = "streaming"},
  worked <- executed

(***************************************************************************)
(* An import keeps the promises of a job: in particular nothing is         *)
(* published any more once its row says how it ended                       *)
(* (media_jobs.py:207-209, 240-273).                                       *)
(***************************************************************************)
ImplementsJob == Job!Spec

(***************************************************************************)
(* An import that has read an image before it is deleted gives it no       *)
(* profile afterwards (media_jobs.py:258, routers/images.py:97-99).        *)
(***************************************************************************)
ProfilesHaveImages == \A image \in Images \ images : managed[image] = 0

(***************************************************************************)
(* Every queued import ends, also when the other imports never end by      *)
(* themselves and hold the threads until their deadline, unless the        *)
(* process restarts or the import cannot save its outcome                  *)
(* (media_jobs.py:206-209).                                                *)
(***************************************************************************)
ImportsEnd ==
  \A j \in Imports :
    imports[j] = "QUEUED"
      ~> \/ imports[j] \in Final
         \/ j \in interrupted
         \/ imports[j] = "RUNNING" /\ task[j] = "none"

-----------------------------------------------------------------------------
(***************************************************************************)
(* media_jobs.py:267 says of the exceptions of an import that they are     *)
(* "persisted for operator diagnostics": an import that nobody is working  *)
(* on has ended or was interrupted by a restart.                           *)
(***************************************************************************)
ErrorsArePersisted ==
  \A j \in Imports :
    imports[j] \in {"QUEUED", "RUNNING"} /\ task[j] = "none" => j \in interrupted
=============================================================================
