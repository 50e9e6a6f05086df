---------------------------- MODULE ImportProofs ----------------------------
(***************************************************************************)
(* Media imports keep the promises of a job, and give no profile to an     *)
(* image that was deleted meanwhile, for any sets of imports and images    *)
(* and any number of threads.                                              *)
(***************************************************************************)
EXTENDS MediaImports, TLAPS

(* The row follows the task.                                               *)
RowsFollowTasks ==
  \A j \in Imports :
    /\ task[j] = "waiting" => imports[j] = "QUEUED"
    /\ task[j] \notin {"none", "waiting"} => imports[j] = "RUNNING"
    /\ imports[j] \in {"NONE", "QUEUED"} => j \notin executed
    /\ task[j] = "started" => j \notin executed

(* An image that an import has found without a profile exists, or the      *)
(* import is going to notice that it does not.                             *)
FoundImagesExist == \A j \in Imports : lacking[j] \subseteq images \cup {NoImage}

ImportsInv == TypeOK /\ RowsFollowTasks /\ FoundImagesExist /\ ProfilesHaveImages

(* What a reader of the table sees of a job.                               *)
Says == [j \in Imports |-> IF imports[j] \in Final THEN "ENDED" ELSE imports[j]]
Streaming == {j \in Imports : task[j] = "streaming"}

JobStep == [Job!Next]_<<Says, Streaming, executed>>

Stutters == UNCHANGED <<Says, Streaming, executed>>

(* What the rows and the tasks of the imports promise, and what the        *)
(* catalogue promises.                                                     *)
RowsInv ==
  /\ imports \in [Imports -> ImportState] /\ task \in [Imports -> Task]
  /\ executed \subseteq Imports /\ interrupted \subseteq Imports
  /\ RowsFollowTasks

CatalogueInv ==
  /\ publishes \in [Imports -> SUBSET Images]
  /\ lacking \in [Imports -> SUBSET (Images \cup {NoImage})]
  /\ images \subseteq Images /\ managed \in [Images -> Nat]
  /\ FoundImagesExist /\ ProfilesHaveImages

LEMMA InvariantInParts == ImportsInv <=> RowsInv /\ CatalogueInv
BY DEF ImportsInv, TypeOK, RowsInv, CatalogueInv

-----------------------------------------------------------------------------
(* Rows and tasks.                                                         *)

LEMMA UnchangedRows ==
  ASSUME RowsInv, UNCHANGED <<imports, task, executed, interrupted>>
  PROVE  RowsInv' /\ Stutters
BY DEF RowsInv, RowsFollowTasks, Stutters, Says, Streaming

LEMMA QueueRows ==
  ASSUME RowsInv, NEW j \in Imports, imports[j] = "NONE",
         imports' = [imports EXCEPT ![j] = "QUEUED"],
         task' = [task EXCEPT ![j] = "waiting"],
         UNCHANGED <<executed, interrupted>>
  PROVE  RowsInv' /\ Job!Queue(j)
<1>1. task[j] # "streaming" /\ j \notin executed  BY DEF RowsInv, RowsFollowTasks
<1>2. /\ imports'[j] = "QUEUED" /\ task'[j] = "waiting"
      /\ \A k \in Imports \ {j} : imports'[k] = imports[k] /\ task'[k] = task[k]
  BY DEF RowsInv
<1>3. RowsInv'
  <2>1. imports' \in [Imports -> ImportState] /\ task' \in [Imports -> Task]
    BY DEF RowsInv, ImportState, Task
  <2>2. RowsFollowTasks'  BY <1>1, <1>2 DEF RowsInv, RowsFollowTasks
  <2> QED  BY <2>1, <2>2 DEF RowsInv
<1>4. Says' = [Says EXCEPT ![j] = "QUEUED"] /\ Says[j] = "NONE"
  BY <1>2 DEF Says, Final
<1>5. Streaming' = Streaming  BY <1>1, <1>2 DEF Streaming
<1>6. Job!Queue(j)  BY <1>4, <1>5 DEF Job!Queue, Says, Streaming
<1> QED  BY <1>3, <1>6

(* Where a task goes, and what that shows.                                 *)
LEMMA SetRows ==
  ASSUME RowsInv, NEW j \in Imports, NEW state \in {"RUNNING"} \cup Final, NEW next \in Task,
         Set(j, state, next),
         next # "none" => state = "RUNNING", next # "waiting"
  PROVE  /\ imports' \in [Imports -> ImportState] /\ task' \in [Imports -> Task]
         /\ interrupted' = interrupted
         /\ imports'[j] = state /\ task'[j] = next
         /\ \A k \in Imports \ {j} : imports'[k] = imports[k] /\ task'[k] = task[k]
         /\ Says' = [Says EXCEPT ![j] = IF state \in Final THEN "ENDED" ELSE state]
<1>1. /\ imports' = [imports EXCEPT ![j] = state] /\ task' = [task EXCEPT ![j] = next]
      /\ interrupted' = interrupted
  BY DEF Set
<1>2. /\ imports'[j] = state /\ task'[j] = next
      /\ \A k \in Imports \ {j} : imports'[k] = imports[k] /\ task'[k] = task[k]
  BY <1>1 DEF RowsInv
<1>3. imports' \in [Imports -> ImportState] /\ task' \in [Imports -> Task]
  BY <1>1 DEF RowsInv, ImportState
<1>4. Says' = [Says EXCEPT ![j] = IF state \in Final THEN "ENDED" ELSE state]
  BY <1>2 DEF Says
<1> QED  BY <1>1, <1>2, <1>3, <1>4

LEMMA StartRows ==
  ASSUME RowsInv, NEW j \in Imports, task[j] = "waiting",
         Set(j, "RUNNING", "started"), executed' = executed
  PROVE  RowsInv' /\ Job!Start(j)
<1>1. imports[j] = "QUEUED" /\ j \notin executed  BY DEF RowsInv, RowsFollowTasks
<1>2. "started" \in Task /\ "RUNNING" \notin Final  BY DEF Task, Final
<1>3. /\ imports' \in [Imports -> ImportState] /\ task' \in [Imports -> Task]
      /\ interrupted' = interrupted
      /\ imports'[j] = "RUNNING" /\ task'[j] = "started"
      /\ \A k \in Imports \ {j} : imports'[k] = imports[k] /\ task'[k] = task[k]
      /\ Says' = [Says EXCEPT ![j] = "RUNNING"]
  BY <1>2, SetRows
<1>4. RowsFollowTasks'  BY <1>1, <1>3 DEF RowsInv, RowsFollowTasks
<1>5. Streaming' = Streaming /\ Says[j] = "QUEUED"
  BY <1>1, <1>3 DEF Streaming, Says, Final
<1>6. Job!Start(j)  BY <1>3, <1>5 DEF Job!Start, Says, Streaming
<1> QED  BY <1>3, <1>4, <1>6 DEF RowsInv

LEMMA SpawnRows ==
  ASSUME RowsInv, NEW j \in Imports, task[j] = "started",
         Set(j, "RUNNING", "streaming"), executed' = executed \cup {j}
  PROVE  RowsInv' /\ Job!Work(j)
<1>1. imports[j] = "RUNNING" /\ j \notin executed  BY DEF RowsInv, RowsFollowTasks
<1>2. "streaming" \in Task /\ "RUNNING" \notin Final  BY DEF Task, Final
<1>3. /\ imports' \in [Imports -> ImportState] /\ task' \in [Imports -> Task]
      /\ interrupted' = interrupted
      /\ imports'[j] = "RUNNING" /\ task'[j] = "streaming"
      /\ \A k \in Imports \ {j} : imports'[k] = imports[k] /\ task'[k] = task[k]
  BY <1>2, SetRows
<1>4. RowsFollowTasks'  BY <1>1, <1>3 DEF RowsInv, RowsFollowTasks
<1>5. Says' = Says /\ Says[j] = "RUNNING"  BY <1>1, <1>3 DEF Says, Final
<1>6. Streaming' = Streaming \cup {j}  BY <1>3 DEF Streaming
<1>7. Job!Work(j)  BY <1>1, <1>5, <1>6 DEF Job!Work, Says, Streaming
<1> QED  BY <1>3, <1>4, <1>7 DEF RowsInv

(* The subprocess is over, one way or another.                             *)
LEMMA StopRows ==
  ASSUME RowsInv, NEW j \in Imports, task[j] = "streaming",
         NEW next \in {"succeeded", "failed"}, Set(j, "RUNNING", next),
         executed' = executed
  PROVE  RowsInv' /\ Job!Stop({j})
<1>1. imports[j] = "RUNNING"  BY DEF RowsInv, RowsFollowTasks
<1>2. next \in Task /\ next \notin {"none", "waiting", "started", "streaming"}
  BY DEF Task
<1>3. /\ imports' \in [Imports -> ImportState] /\ task' \in [Imports -> Task]
      /\ interrupted' = interrupted
      /\ imports'[j] = "RUNNING" /\ task'[j] = next
      /\ \A k \in Imports \ {j} : imports'[k] = imports[k] /\ task'[k] = task[k]
  BY <1>2, SetRows
<1>4. RowsFollowTasks'  BY <1>1, <1>2, <1>3 DEF RowsInv, RowsFollowTasks
<1>5. Says' = Says  BY <1>1, <1>3 DEF Says
<1>6. Streaming' = Streaming \ {j}  BY <1>2, <1>3 DEF Streaming
<1>7. Job!Stop({j})  BY <1>5, <1>6 DEF Job!Stop, Says, Streaming
<1> QED  BY <1>3, <1>4, <1>7 DEF RowsInv

(* A task that has no subprocess goes on or gives up without a word.       *)
LEMMA GoOnRows ==
  ASSUME RowsInv, NEW j \in Imports, task[j] \in {"succeeded", "ensuring"},
         NEW next \in {"ensuring", "none"}, Set(j, "RUNNING", next), executed' = executed
  PROVE  RowsInv' /\ Stutters
<1>1. imports[j] = "RUNNING"  BY DEF RowsInv, RowsFollowTasks
<1>2. next \in Task /\ next \notin {"waiting", "started", "streaming"}  BY DEF Task
<1>3. /\ imports' \in [Imports -> ImportState] /\ task' \in [Imports -> Task]
      /\ interrupted' = interrupted
      /\ imports'[j] = "RUNNING" /\ task'[j] = next
      /\ \A k \in Imports \ {j} : imports'[k] = imports[k] /\ task'[k] = task[k]
  BY <1>2, SetRows
<1>4. RowsFollowTasks'  BY <1>1, <1>2, <1>3 DEF RowsInv, RowsFollowTasks
<1>5. Says' = Says  BY <1>1, <1>3 DEF Says
<1>6. Streaming' = Streaming  BY <1>2, <1>3 DEF Streaming
<1> QED  BY <1>3, <1>4, <1>5, <1>6 DEF RowsInv, Stutters

LEMMA EndRows ==
  ASSUME RowsInv, NEW j \in Imports, task[j] \in {"failed", "ensuring"},
         NEW state \in Final, Set(j, state, "none"), executed' = executed
  PROVE  RowsInv' /\ Job!End(j)
<1>1. imports[j] = "RUNNING"  BY DEF RowsInv, RowsFollowTasks
<1>2. "none" \in Task /\ state \notin {"NONE", "QUEUED"}  BY DEF Task, Final
<1>3. /\ imports' \in [Imports -> ImportState] /\ task' \in [Imports -> Task]
      /\ interrupted' = interrupted
      /\ imports'[j] = state /\ task'[j] = "none"
      /\ \A k \in Imports \ {j} : imports'[k] = imports[k] /\ task'[k] = task[k]
      /\ Says' = [Says EXCEPT ![j] = "ENDED"]
  BY <1>2, SetRows
<1>4. RowsFollowTasks'  BY <1>1, <1>2, <1>3 DEF RowsInv, RowsFollowTasks
<1>5. Streaming' = Streaming /\ j \notin Streaming  BY <1>3 DEF Streaming
<1>6. Says[j] = "RUNNING"  BY <1>1 DEF Says, Final
<1>7. Job!End(j)  BY <1>3, <1>5, <1>6 DEF Job!End, Says, Streaming
<1> QED  BY <1>3, <1>4, <1>7 DEF RowsInv

LEMMA RestartRows ==
  ASSUME RowsInv, NEW J, J = Streaming, Restart
  PROVE  RowsInv' /\ Job!Stop(J)
<1>1. /\ task' = [j \in Imports |-> "none"] /\ UNCHANGED <<imports, executed>>
      /\ interrupted' = interrupted \cup {j \in Imports : task[j] # "none"}
  BY DEF Restart
<1>2. RowsInv'  BY <1>1 DEF RowsInv, RowsFollowTasks, Task
<1>3. Says' = Says /\ Streaming' = Streaming \ J  BY <1>1 DEF Says, Streaming
<1>4. Job!Stop(J)  BY <1>1, <1>3 DEF Job!Stop, Says, Streaming
<1> QED  BY <1>2, <1>4

-----------------------------------------------------------------------------
(* The catalogue.                                                          *)

LEMMA UnchangedCatalogue ==
  ASSUME CatalogueInv, UNCHANGED <<publishes, lacking, images, managed>>
  PROVE  CatalogueInv'
BY DEF CatalogueInv, FoundImagesExist, ProfilesHaveImages

(* The images that were missing a profile get one, the others are left     *)
(* alone.                                                                  *)
LEMMA EnsuredImages ==
  ASSUME CatalogueInv, NEW I
  PROVE  /\ Ensured(I) \in [Images -> Nat]
         /\ \A image \in Images \ I : Ensured(I)[image] = managed[image]
BY DEF CatalogueInv, Ensured

(* More images, and a profile for every one that lacks it.                 *)
LEMMA EnsureAll ==
  ASSUME CatalogueInv, NEW I, I = images', images \subseteq I, I \subseteq Images,
         managed' = Ensured(I), publishes' \in [Imports -> SUBSET Images],
         lacking' = lacking \/ lacking' = [j \in Imports |-> {}]
  PROVE  CatalogueInv'
<1>1. managed' \in [Images -> Nat] /\ \A image \in Images \ I : managed'[image] = managed[image]
  BY EnsuredImages
<1>2. ProfilesHaveImages'  BY <1>1 DEF CatalogueInv, ProfilesHaveImages
<1>3. lacking' \in [Imports -> SUBSET (Images \cup {NoImage})] /\ FoundImagesExist'
  BY DEF CatalogueInv, FoundImagesExist
<1> QED  BY <1>1, <1>2, <1>3 DEF CatalogueInv

LEMMA DeleteProfileCatalogue ==
  ASSUME CatalogueInv, NEW image \in Images, DeleteProfile(image)
  PROVE  CatalogueInv'
<1>1. /\ managed[image] > 0 /\ managed' = [managed EXCEPT ![image] = managed[image] - 1]
      /\ UNCHANGED <<publishes, lacking, images>>
  BY DEF DeleteProfile
<1>2. managed[image] \in Nat  BY DEF CatalogueInv
<1>3. managed[image] - 1 \in Nat  BY <1>1, <1>2
<1>4. managed' \in [Images -> Nat]  BY <1>1, <1>3 DEF CatalogueInv
<1>5. image \in images  BY <1>1 DEF CatalogueInv, ProfilesHaveImages
<1>6. ProfilesHaveImages'  BY <1>1, <1>5 DEF CatalogueInv, ProfilesHaveImages
<1> QED  BY <1>1, <1>4, <1>6 DEF CatalogueInv, FoundImagesExist

(* Whoever has read the image loses sight of it.                           *)
LEMMA DeleteImageCatalogue ==
  ASSUME CatalogueInv, NEW image \in Images, DeleteImage(image)
  PROVE  CatalogueInv'
<1>1. /\ images' = images \ {image} /\ managed' = [managed EXCEPT ![image] = 0]
      /\ lacking' = [j \in Imports |->
                       IF image \in lacking[j] THEN (lacking[j] \ {image}) \cup {NoImage}
                       ELSE lacking[j]]
      /\ publishes' = publishes
  BY DEF DeleteImage
<1>2. lacking' \in [Imports -> SUBSET (Images \cup {NoImage})]
  BY <1>1 DEF CatalogueInv
<1>3. FoundImagesExist'  BY <1>1 DEF CatalogueInv, FoundImagesExist
<1>4. ProfilesHaveImages' /\ managed' \in [Images -> Nat]
  BY <1>1 DEF CatalogueInv, ProfilesHaveImages
<1> QED  BY <1>1, <1>2, <1>3, <1>4 DEF CatalogueInv

LEMMA EnsureProfilesCatalogue ==
  ASSUME CatalogueInv, NEW j \in Imports, EnsureProfiles(j)
  PROVE  CatalogueInv'
<1> DEFINE L == {image \in images : managed[image] = 0}
<1>1. /\ lacking' = [lacking EXCEPT ![j] = L]
      /\ UNCHANGED <<publishes, images, managed>>
  BY DEF EnsureProfiles, catalogue
<1>2. L \subseteq images  OBVIOUS
<1> HIDE DEF L
<1>3. lacking' \in [Imports -> SUBSET (Images \cup {NoImage})]
  BY <1>1, <1>2 DEF CatalogueInv
<1>4. FoundImagesExist'  BY <1>1, <1>2 DEF CatalogueInv, FoundImagesExist
<1> QED  BY <1>1, <1>3, <1>4 DEF CatalogueInv, ProfilesHaveImages

(* What the import has found and has not lost sight of still exists.       *)
LEMMA CompleteCatalogue ==
  ASSUME CatalogueInv, NEW j \in Imports, Complete(j)
  PROVE  CatalogueInv'
<1>1. /\ NoImage \notin lacking[j]
      /\ managed' = [image \in Images |->
                       IF image \in lacking[j] THEN managed[image] + 1 ELSE managed[image]]
      /\ lacking' = [lacking EXCEPT ![j] = {}]
      /\ UNCHANGED <<publishes, images>>
  BY DEF Complete
<1>2. lacking[j] \subseteq images  BY <1>1 DEF CatalogueInv, FoundImagesExist
<1>3. managed' \in [Images -> Nat]
  <2>1. ASSUME NEW image \in Images
        PROVE  (IF image \in lacking[j] THEN managed[image] + 1 ELSE managed[image]) \in Nat
    <3>1. managed[image] \in Nat  BY DEF CatalogueInv
    <3> QED  BY <3>1
  <2> QED  BY <1>1, <2>1
<1>4. ProfilesHaveImages'
  BY <1>1, <1>2 DEF CatalogueInv, ProfilesHaveImages
<1>5. lacking' \in [Imports -> SUBSET (Images \cup {NoImage})] /\ FoundImagesExist'
  BY <1>1 DEF CatalogueInv, FoundImagesExist
<1> QED  BY <1>1, <1>3, <1>4, <1>5 DEF CatalogueInv

LEMMA EnsureFailsCatalogue ==
  ASSUME CatalogueInv, NEW j \in Imports, EnsureFails(j)
  PROVE  CatalogueInv'
<1>1. lacking' = [lacking EXCEPT ![j] = {}] /\ UNCHANGED <<publishes, images, managed>>
  BY DEF EnsureFails, catalogue
<1>2. lacking' \in [Imports -> SUBSET (Images \cup {NoImage})] /\ FoundImagesExist'
  BY <1>1 DEF CatalogueInv, FoundImagesExist
<1> QED  BY <1>1, <1>2 DEF CatalogueInv, ProfilesHaveImages

-----------------------------------------------------------------------------
LEMMA InitialImports ==
  ASSUME Init
  PROVE  ImportsInv /\ Job!Init
<1>1. RowsInv  BY DEF Init, RowsInv, RowsFollowTasks, ImportState, Task
<1>2. CatalogueInv  BY DEF Init, CatalogueInv, FoundImagesExist, ProfilesHaveImages
<1>3. Says = [j \in Imports |-> "NONE"] /\ Streaming = {} /\ executed = {}
  BY DEF Init, Says, Streaming, Final
<1>4. Job!Init  BY <1>3 DEF Job!Init, Says, Streaming
<1> QED  BY <1>1, <1>2, <1>4, InvariantInParts

LEMMA ImportStep ==
  ASSUME ImportsInv, [Next]_vars
  PROVE  ImportsInv' /\ JobStep
<1>0. RowsInv /\ CatalogueInv  BY InvariantInParts
<1> DEFINE Goal == RowsInv' /\ CatalogueInv' /\ JobStep
<1>1. ASSUME RowsInv', CatalogueInv', Stutters PROVE Goal
  BY <1>1 DEF Stutters, JobStep
<1>2. ASSUME RowsInv', CatalogueInv', NEW j \in Imports,
             Job!Queue(j) \/ Job!Start(j) \/ Job!Work(j) \/ Job!End(j)
      PROVE  Goal
  <2>1. Job!Next  BY <1>2 DEF Job!Next
  <2> QED  BY <1>2, <2>1 DEF JobStep
<1>3. ASSUME RowsInv', CatalogueInv', NEW J \in SUBSET Imports, Job!Stop(J) PROVE Goal
  <2>1. Job!Next  BY <1>3 DEF Job!Next
  <2> QED  BY <1>3, <2>1 DEF JobStep
<1> HIDE DEF Goal
<1>4. ASSUME NEW j \in Imports, NEW I \in Published, QueueImport(j, I) PROVE Goal
  <2>1. RowsInv' /\ Job!Queue(j)  BY <1>0, <1>4, QueueRows DEF QueueImport, history
  <2>2. publishes' \in [Imports -> SUBSET Images]
    BY <1>0, <1>4 DEF QueueImport, CatalogueInv, Published
  <2>3. CatalogueInv'
    BY <1>0, <1>4, <2>2
    DEF QueueImport, catalogue, CatalogueInv, FoundImagesExist, ProfilesHaveImages
  <2> QED  BY <1>2, <2>1, <2>3
<1>5. ASSUME ListProfiles PROVE Goal
  <2>1. RowsInv' /\ Stutters  BY <1>0, <1>5, UnchangedRows DEF ListProfiles, history
  <2>2. PICK I : I = images  OBVIOUS
  <2>3. CatalogueInv'
    BY <1>0, <1>5, <2>2, EnsureAll DEF ListProfiles, CatalogueInv
  <2> QED  BY <1>1, <2>1, <2>3
<1>6. ASSUME NEW image \in Images, DeleteProfile(image) PROVE Goal
  <2>1. RowsInv' /\ Stutters  BY <1>0, <1>6, UnchangedRows DEF DeleteProfile, history
  <2> QED  BY <1>0, <1>1, <1>6, <2>1, DeleteProfileCatalogue
<1>7. ASSUME NEW image \in Images, DeleteImage(image) PROVE Goal
  <2>1. RowsInv' /\ Stutters  BY <1>0, <1>7, UnchangedRows DEF DeleteImage, history
  <2> QED  BY <1>0, <1>1, <1>7, <2>1, DeleteImageCatalogue
<1>8. ASSUME NEW j \in Imports, StartImport(j) PROVE Goal
  <2>1. RowsInv' /\ Job!Start(j)  BY <1>0, <1>8, StartRows DEF StartImport
  <2>2. CatalogueInv'  BY <1>0, <1>8, UnchangedCatalogue DEF StartImport, catalogue
  <2> QED  BY <1>2, <2>1, <2>2
<1>9. ASSUME NEW j \in Imports, Spawn(j) PROVE Goal
  <2>1. RowsInv' /\ Job!Work(j)  BY <1>0, <1>9, SpawnRows DEF Spawn
  <2>2. CatalogueInv'  BY <1>0, <1>9, UnchangedCatalogue DEF Spawn, catalogue
  <2> QED  BY <1>2, <2>1, <2>2
<1>10. ASSUME NEW j \in Imports, Publish(j) PROVE Goal
  <2>1. RowsInv' /\ Stutters  BY <1>0, <1>10, UnchangedRows DEF Publish, history
  <2>2. PICK image \in publishes[j] :
          /\ images' = images \cup {image} /\ managed' = Ensured(images')
          /\ publishes' = [publishes EXCEPT ![j] = @ \ {image}]
    BY <1>10 DEF Publish
  <2>3. PICK I : I = images'  OBVIOUS
  <2>4. images \subseteq I /\ I \subseteq Images
    BY <1>0, <2>2, <2>3 DEF CatalogueInv
  <2>5. publishes' \in [Imports -> SUBSET Images] /\ lacking' = lacking
    BY <1>0, <1>10, <2>2 DEF CatalogueInv, Publish
  <2>6. managed' = Ensured(I)  BY <2>2, <2>3
  <2>7. CatalogueInv'  BY <1>0, <2>3, <2>4, <2>5, <2>6, EnsureAll
  <2> QED  BY <1>1, <2>1, <2>7
<1>11. ASSUME NEW j \in Imports, Exit(j) \/ Expire(j) PROVE Goal
  <2>1. PICK next \in {"succeeded", "failed"} : Set(j, "RUNNING", next)
    BY <1>11 DEF Exit, Expire
  <2>2. RowsInv' /\ Job!Stop({j})  BY <1>0, <1>11, <2>1, StopRows DEF Exit, Expire
  <2>3. CatalogueInv'
    BY <1>0, <1>11, UnchangedCatalogue DEF Exit, Expire, catalogue
  <2> QED  BY <1>3, <2>2, <2>3
<1>12. ASSUME NEW j \in Imports, Fail(j) PROVE Goal
  <2>1. "FAILED" \in Final  BY DEF Final
  <2>2. RowsInv' /\ Job!End(j)  BY <1>0, <1>12, <2>1, EndRows DEF Fail
  <2>3. CatalogueInv'  BY <1>0, <1>12, UnchangedCatalogue DEF Fail, catalogue
  <2> QED  BY <1>2, <2>2, <2>3
<1>13. ASSUME NEW j \in Imports, EnsureProfiles(j) PROVE Goal
  <2>1. RowsInv' /\ Stutters  BY <1>0, <1>13, GoOnRows DEF EnsureProfiles
  <2> QED  BY <1>0, <1>1, <1>13, <2>1, EnsureProfilesCatalogue
<1>14. ASSUME NEW j \in Imports, Complete(j) PROVE Goal
  <2>1. "SUCCESS" \in Final  BY DEF Final
  <2>2. RowsInv' /\ Job!End(j)  BY <1>0, <1>14, <2>1, EndRows DEF Complete
  <2> QED  BY <1>0, <1>2, <1>14, <2>2, CompleteCatalogue
<1>15. ASSUME NEW j \in Imports, EnsureFails(j) PROVE Goal
  <2>1. RowsInv' /\ Stutters  BY <1>0, <1>15, GoOnRows DEF EnsureFails
  <2> QED  BY <1>0, <1>1, <1>15, <2>1, EnsureFailsCatalogue
<1>16. ASSUME Restart PROVE Goal
  <2>1. PICK J : J = Streaming  OBVIOUS
  <2>2. RowsInv' /\ Job!Stop(J) /\ J \in SUBSET Imports
    BY <1>0, <1>16, <2>1, RestartRows DEF Streaming
  <2>3. PICK I : I = images  OBVIOUS
  <2>4. CatalogueInv'
    BY <1>0, <1>16, <2>3, EnsureAll DEF Restart, CatalogueInv
  <2> QED  BY <1>3, <2>2, <2>4
<1>17. ASSUME UNCHANGED vars PROVE Goal
  <2>1. RowsInv' /\ Stutters  BY <1>0, <1>17, UnchangedRows DEF vars
  <2>2. CatalogueInv'  BY <1>0, <1>17, UnchangedCatalogue DEF vars
  <2> QED  BY <1>1, <2>1, <2>2
<1>18. ASSUME Next PROVE Goal
  BY <1>4, <1>5, <1>6, <1>7, <1>8, <1>9, <1>10, <1>11, <1>12, <1>13, <1>14, <1>15,
     <1>16, <1>18 DEF Next
<1>19. Goal  BY <1>17, <1>18
<1>20. ImportsInv' <=> RowsInv' /\ CatalogueInv'
  BY DEF ImportsInv, TypeOK, RowsInv, CatalogueInv
<1> QED  BY <1>19, <1>20 DEF Goal

LEMMA ImportsInvHolds == Spec => []ImportsInv
<1>1. Init => ImportsInv  BY InitialImports
<1>2. ImportsInv /\ [Next]_vars => ImportsInv'  BY ImportStep
<1> QED  BY <1>1, <1>2, PTL DEF Spec

(* Rows, tasks and catalogue keep their types; in particular no image has  *)
(* a negative number of profiles.                                          *)
THEOREM ImportTypes == Spec => []TypeOK
<1>1. ImportsInv => TypeOK  BY DEF ImportsInv
<1> QED  BY <1>1, ImportsInvHolds, PTL

(* Imports keep the promises of a job: in particular the subprocess is     *)
(* over when the row says how the import ended                             *)
(* (media_jobs.py:207-209, 240-273).                                       *)
THEOREM ImportsAreJobs == Spec => ImplementsJob
<1>1. Init => Job!Init  BY InitialImports
<1>2. ImportsInv /\ [Next]_vars => [Job!Next]_<<Says, Streaming, executed>>
  BY ImportStep DEF JobStep
<1>3. Spec => Job!Init /\ [][Job!Next]_<<Says, Streaming, executed>>
  BY <1>1, <1>2, ImportsInvHolds, PTL DEF Spec
<1> QED  BY <1>3, PTL DEF ImplementsJob, Job!Spec, Says, Streaming

(* So a subprocess is under way only while the row of its import says      *)
(* RUNNING, and no import gets a second one                                *)
(* (media_jobs.py:207-209, 240-273).                                       *)
THEOREM ImportsShowTheirWork == Spec => []Job!WorkIsAnnounced /\ Job!WorkIsNotRepeated
<1>1. Job!Init => Job!WorkIsAnnounced
  BY DEF Job!Init, Job!WorkIsAnnounced
<1>2. Job!WorkIsAnnounced /\ [Job!Next]_<<Says, Streaming, executed>> => Job!WorkIsAnnounced'
  <2> SUFFICES ASSUME \A j \in Streaming : Says[j] = "RUNNING", [Job!Next]_<<Says, Streaming, executed>>,
                      NEW j \in Streaming'
               PROVE  Says'[j] = "RUNNING"
    BY DEF Job!WorkIsAnnounced, Says, Streaming
  <2>1. j \in Imports
    BY DEF Streaming
  <2>2. CASE \E k \in Imports : Job!Queue(k) \/ Job!Start(k) \/ Job!End(k)
    BY <2>1, <2>2 DEF Job!Queue, Job!Start, Job!End, Says, Streaming
  <2>3. CASE \E k \in Imports : Job!Work(k)
    BY <2>1, <2>3 DEF Job!Work, Says, Streaming
  <2>4. CASE \E J \in SUBSET Imports : Job!Stop(J)
    BY <2>1, <2>4 DEF Job!Stop, Says, Streaming
  <2>5. CASE UNCHANGED <<Says, Streaming, executed>>
    BY <2>5
  <2> QED BY <2>2, <2>3, <2>4, <2>5 DEF Job!Next
<1>3. [Job!Next]_<<Says, Streaming, executed>> => [\A j \in executed \ Streaming : j \notin Streaming']_<<Says, Streaming, executed>>
  <2> SUFFICES ASSUME Job!Next, NEW j \in executed \ Streaming
               PROVE  j \notin Streaming'
    OBVIOUS
  <2>1. CASE \E k \in Imports : Job!Queue(k) \/ Job!Start(k) \/ Job!End(k)
    BY <2>1 DEF Job!Queue, Job!Start, Job!End, Says, Streaming
  <2>2. CASE \E k \in Imports : Job!Work(k)
    BY <2>2 DEF Job!Work, Says, Streaming
  <2>3. CASE \E J \in SUBSET Imports : Job!Stop(J)
    BY <2>3 DEF Job!Stop, Says, Streaming
  <2> QED BY <2>1, <2>2, <2>3 DEF Job!Next
<1>4. Spec => Job!Init /\ [][Job!Next]_<<Says, Streaming, executed>>
  BY ImportsAreJobs, PTL DEF ImplementsJob, Job!Spec, Says, Streaming
<1>5. Spec => [][\A j \in executed \ Streaming : j \notin Streaming']_<<Says, Streaming, executed>>
  BY <1>3, <1>4, PTL
<1>6. Spec => []Job!WorkIsAnnounced
  BY <1>1, <1>2, <1>4, PTL
<1> QED BY <1>5, <1>6, PTL DEF Job!WorkIsNotRepeated, Says, Streaming

(* An image that does not exist has no managed profile, whatever imports,  *)
(* pages and deletions overlap (media_jobs.py:258, routers/images.py:97).  *)
THEOREM ProfilesAlwaysHaveImages == Spec => []ProfilesHaveImages
<1>1. ImportsInv => ProfilesHaveImages  BY DEF ImportsInv
<1> QED  BY <1>1, ImportsInvHolds, PTL
=============================================================================
