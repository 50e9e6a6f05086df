---------------------------- MODULE FilesProofs ----------------------------
(***************************************************************************)
(* What imports leave in the files they share, for any number of imports,  *)
(* images and releases.  What an import can rely on follows from the steps *)
(* of its plan that are behind it.                                         *)
(***************************************************************************)
EXTENDS ServedFiles, TLAPS

-----------------------------------------------------------------------------
(* The plans.                                                              *)

Op(i, k) == Plan(i)[k][1]
PartAt(i, k) == Plan(i)[k][2]

Last(i) == IF i = Root THEN 7 ELSE IF i \in Rhel THEN 5 ELSE IF i \in Debian THEN 6 ELSE 7

Writing == {"download", "cache", "copy", "copyWimboot"}

(* Step k of a plan.                                                       *)
Step(i, k, n, op, part) == k = n /\ Op(i, k) = op /\ PartAt(i, k) = part

RootSteps(i, k) ==
  /\ Last(i) = 7
  /\ \/ Step(i, k, 1, "download", "undionly.kpxe")
     \/ Step(i, k, 2, "digest", "undionly.kpxe")
     \/ Step(i, k, 3, "download", "ipxe.efi")
     \/ Step(i, k, 4, "digest", "ipxe.efi")
     \/ Step(i, k, 5, "download", "wimboot")
     \/ Step(i, k, 6, "digest", "wimboot")
     \/ Step(i, k, 7, "record", "manifest")

RhelSteps(i, k) ==
  /\ Last(i) = 5
  /\ \/ Step(i, k, 1, "download", "kernel")
     \/ Step(i, k, 2, "download", "initrd")
     \/ Step(i, k, 3, "digest", "kernel")
     \/ Step(i, k, 4, "digest", "initrd")
     \/ Step(i, k, 5, "record", "row")

DebianSteps(i, k) ==
  /\ Last(i) = 6
  /\ \/ Step(i, k, 1, "cache", "archive")
     \/ Step(i, k, 2, "digest", "archive")
     \/ Step(i, k, 3, "extract", "archive")
     \/ Step(i, k, 4, "copy", "kernel")
     \/ Step(i, k, 5, "copy", "initrd")
     \/ Step(i, k, 6, "record", "row")

WindowsSteps(i, k) ==
  /\ Last(i) = 7
  /\ \/ Step(i, k, 1, "cache", "archive")
     \/ Step(i, k, 2, "digest", "archive")
     \/ Step(i, k, 3, "find", "wimboot")
     \/ Step(i, k, 4, "extract", "archive")
     \/ Step(i, k, 5, "copy", "initrd")
     \/ Step(i, k, 6, "copyWimboot", "kernel")
     \/ Step(i, k, 7, "record", "row")

LEMMA RootPlanSteps ==
  ASSUME NEW i \in {Root}, NEW k \in 1..Last(i)
  PROVE  RootSteps(i, k)
<1>2. Last(i) = 7 /\ Plan(i) = BootloaderPlan
  BY DEF Last, Plan
<1>3. k = 1 \/ k = 2 \/ k = 3 \/ k = 4 \/ k = 5 \/ k = 6 \/ k = 7
  BY <1>2
<1>4. CASE k = 1
  BY <1>2, <1>4 DEF RootSteps, Step, Op, PartAt, BootloaderPlan
<1>5. CASE k = 2
  BY <1>2, <1>5 DEF RootSteps, Step, Op, PartAt, BootloaderPlan
<1>6. CASE k = 3
  BY <1>2, <1>6 DEF RootSteps, Step, Op, PartAt, BootloaderPlan
<1>7. CASE k = 4
  BY <1>2, <1>7 DEF RootSteps, Step, Op, PartAt, BootloaderPlan
<1>8. CASE k = 5
  BY <1>2, <1>8 DEF RootSteps, Step, Op, PartAt, BootloaderPlan
<1>9. CASE k = 6
  BY <1>2, <1>9 DEF RootSteps, Step, Op, PartAt, BootloaderPlan
<1>10. CASE k = 7
  BY <1>2, <1>10 DEF RootSteps, Step, Op, PartAt, BootloaderPlan
<1> QED BY <1>3, <1>4, <1>5, <1>6, <1>7, <1>8, <1>9, <1>10

LEMMA RhelPlanSteps ==
  ASSUME NEW i \in Rhel, NEW k \in 1..Last(i)
  PROVE  RhelSteps(i, k)
<1>1. i # Root
  BY FilesAssumption DEF FilesAssumption, Images
<1>2. Last(i) = 5 /\ Plan(i) = RhelPlan
  BY <1>1 DEF Last, Plan
<1>3. k = 1 \/ k = 2 \/ k = 3 \/ k = 4 \/ k = 5
  BY <1>2
<1>4. CASE k = 1
  BY <1>2, <1>4 DEF RhelSteps, Step, Op, PartAt, RhelPlan
<1>5. CASE k = 2
  BY <1>2, <1>5 DEF RhelSteps, Step, Op, PartAt, RhelPlan
<1>6. CASE k = 3
  BY <1>2, <1>6 DEF RhelSteps, Step, Op, PartAt, RhelPlan
<1>7. CASE k = 4
  BY <1>2, <1>7 DEF RhelSteps, Step, Op, PartAt, RhelPlan
<1>8. CASE k = 5
  BY <1>2, <1>8 DEF RhelSteps, Step, Op, PartAt, RhelPlan
<1> QED BY <1>3, <1>4, <1>5, <1>6, <1>7, <1>8

LEMMA DebianPlanSteps ==
  ASSUME NEW i \in Debian, NEW k \in 1..Last(i)
  PROVE  DebianSteps(i, k)
<1>1. i # Root /\ i \notin Rhel
  BY FilesAssumption DEF FilesAssumption, Images
<1>2. Last(i) = 6 /\ Plan(i) = DebianPlan
  BY <1>1 DEF Last, Plan
<1>3. k = 1 \/ k = 2 \/ k = 3 \/ k = 4 \/ k = 5 \/ k = 6
  BY <1>2
<1>4. CASE k = 1
  BY <1>2, <1>4 DEF DebianSteps, Step, Op, PartAt, DebianPlan
<1>5. CASE k = 2
  BY <1>2, <1>5 DEF DebianSteps, Step, Op, PartAt, DebianPlan
<1>6. CASE k = 3
  BY <1>2, <1>6 DEF DebianSteps, Step, Op, PartAt, DebianPlan
<1>7. CASE k = 4
  BY <1>2, <1>7 DEF DebianSteps, Step, Op, PartAt, DebianPlan
<1>8. CASE k = 5
  BY <1>2, <1>8 DEF DebianSteps, Step, Op, PartAt, DebianPlan
<1>9. CASE k = 6
  BY <1>2, <1>9 DEF DebianSteps, Step, Op, PartAt, DebianPlan
<1> QED BY <1>3, <1>4, <1>5, <1>6, <1>7, <1>8, <1>9

LEMMA WindowsPlanSteps ==
  ASSUME NEW i \in Windows, NEW k \in 1..Last(i)
  PROVE  WindowsSteps(i, k)
<1>1. i # Root /\ i \notin Rhel /\ i \notin Debian
  BY FilesAssumption DEF FilesAssumption, Images
<1>2. Last(i) = 7 /\ Plan(i) = WindowsPlan
  BY <1>1 DEF Last, Plan
<1>3. k = 1 \/ k = 2 \/ k = 3 \/ k = 4 \/ k = 5 \/ k = 6 \/ k = 7
  BY <1>2
<1>4. CASE k = 1
  BY <1>2, <1>4 DEF WindowsSteps, Step, Op, PartAt, WindowsPlan
<1>5. CASE k = 2
  BY <1>2, <1>5 DEF WindowsSteps, Step, Op, PartAt, WindowsPlan
<1>6. CASE k = 3
  BY <1>2, <1>6 DEF WindowsSteps, Step, Op, PartAt, WindowsPlan
<1>7. CASE k = 4
  BY <1>2, <1>7 DEF WindowsSteps, Step, Op, PartAt, WindowsPlan
<1>8. CASE k = 5
  BY <1>2, <1>8 DEF WindowsSteps, Step, Op, PartAt, WindowsPlan
<1>9. CASE k = 6
  BY <1>2, <1>9 DEF WindowsSteps, Step, Op, PartAt, WindowsPlan
<1>10. CASE k = 7
  BY <1>2, <1>10 DEF WindowsSteps, Step, Op, PartAt, WindowsPlan
<1> QED BY <1>3, <1>4, <1>5, <1>6, <1>7, <1>8, <1>9, <1>10

-----------------------------------------------------------------------------
(* Every step is one of these, and the record is the last one.             *)
IsStep(i, k) ==
  /\ Last(i) \in 5..7
  /\ Op(i, k) = "record" <=> k = Last(i)
  /\ Op(i, k) \in Writing \cup {"digest", "extract"} => PartAt(i, k) \in Part
  /\ Op(i, k) \in Writing \cup {"digest", "extract", "find", "record"}
  /\ Op(i, k) \in {"find", "copyWimboot"} => i \in Windows
  /\ Op(i, k) = "extract" => i \in Debian \cup Windows /\ PartAt(i, k) = "archive"
  /\ Op(i, k) = "record" => PartAt(i, k) = IF i = Root THEN "manifest" ELSE "row"

LEMMA StepsOfPlans ==
  ASSUME NEW i \in Owners, NEW k \in 1..Last(i)
  PROVE  IsStep(i, k)
<1> USE DEF IsStep, Step, Writing, Part, Loader, Boot
<1>0. i = Root \/ i \in Rhel \/ i \in Debian \/ i \in Windows
  BY DEF Owners, Images
<1>1. CASE i = Root
  <2>1. RootSteps(i, k)
    BY <1>1, RootPlanSteps
  <2> QED BY <1>1, <2>1 DEF RootSteps
<1>2. CASE i \in Rhel
  <2>1. RhelSteps(i, k)
    BY <1>2, RhelPlanSteps
  <2>2. i # Root
    BY <1>2, FilesAssumption DEF FilesAssumption, Images
  <2> QED BY <1>2, <2>1, <2>2 DEF RhelSteps
<1>3. CASE i \in Debian
  <2>1. DebianSteps(i, k)
    BY <1>3, DebianPlanSteps
  <2>2. i # Root
    BY <1>3, FilesAssumption DEF FilesAssumption, Images
  <2> QED BY <1>3, <2>1, <2>2 DEF DebianSteps
<1>4. CASE i \in Windows
  <2>1. WindowsSteps(i, k)
    BY <1>4, WindowsPlanSteps
  <2>2. i # Root
    BY <1>4, FilesAssumption DEF FilesAssumption, Images
  <2> QED BY <1>4, <2>1, <2>2 DEF WindowsSteps
<1> QED BY <1>0, <1>1, <1>2, <1>3, <1>4

(* A file is written once, and before it is read.                          *)
LEMMA FilesAreWrittenOnce ==
  ASSUME NEW i \in Owners, NEW k \in 1..Last(i), NEW l \in 1..Last(i), k < l,
         Op(i, l) \in Writing, Op(i, k) \in Writing \cup {"digest", "extract"}
  PROVE  PartAt(i, k) # PartAt(i, l)
<1> USE DEF Step, Writing
<1>0. i = Root \/ i \in Rhel \/ i \in Debian \/ i \in Windows
  BY DEF Owners, Images
<1>1. CASE i = Root
  <2>1. RootSteps(i, k) /\ RootSteps(i, l)
    BY <1>1, RootPlanSteps
  <2> QED BY <2>1 DEF RootSteps
<1>2. CASE i \in Rhel
  <2>1. RhelSteps(i, k) /\ RhelSteps(i, l)
    BY <1>2, RhelPlanSteps
  <2> QED BY <2>1 DEF RhelSteps
<1>3. CASE i \in Debian
  <2>1. DebianSteps(i, k) /\ DebianSteps(i, l)
    BY <1>3, DebianPlanSteps
  <2> QED BY <2>1 DEF DebianSteps
<1>4. CASE i \in Windows
  <2>1. WindowsSteps(i, k) /\ WindowsSteps(i, l)
    BY <1>4, WindowsPlanSteps
  <2> QED BY <2>1 DEF WindowsSteps
<1> QED BY <1>0, <1>1, <1>2, <1>3, <1>4

(* What a step needs of the ones before.                                   *)
LEMMA StepsBefore ==
  ASSUME NEW i \in Owners, NEW k \in 1..Last(i)
  PROVE  /\ Op(i, k) = "extract"
              => \E l \in 1..(k - 1) : Op(i, l) \in Writing /\ PartAt(i, l) = "archive"
         /\ Op(i, k) = "copy" => \E l \in 1..(k - 1) : Op(i, l) = "extract"
         /\ Op(i, k) = "copyWimboot" => \E l \in 1..(k - 1) : Op(i, l) = "find"
<1> USE DEF Step, Writing
<1>0. i = Root \/ i \in Rhel \/ i \in Debian \/ i \in Windows
  BY DEF Owners, Images
<1>1. CASE i = Root
  <2>1. RootSteps(i, k)
    BY <1>1, RootPlanSteps
  <2> QED BY <2>1 DEF RootSteps
<1>2. CASE i \in Rhel
  <2>1. RhelSteps(i, k)
    BY <1>2, RhelPlanSteps
  <2> QED BY <2>1 DEF RhelSteps
<1>3. CASE i \in Debian
  <2>1. DebianSteps(i, k)
    BY <1>3, DebianPlanSteps
  <2>2. Last(i) = 6 /\ 1 \in 1..Last(i) /\ 3 \in 1..Last(i)
    BY <2>1 DEF DebianSteps
  <2>3. DebianSteps(i, 1) /\ DebianSteps(i, 3)
    BY <1>3, <2>2, DebianPlanSteps
  <2>4. Op(i, 1) \in Writing /\ PartAt(i, 1) = "archive" /\ Op(i, 3) = "extract"
    BY <2>3 DEF DebianSteps
  <2>5. /\ Op(i, k) = "extract" => 1 \in 1..(k - 1)
        /\ Op(i, k) = "copy" => 3 \in 1..(k - 1)
        /\ Op(i, k) # "copyWimboot"
    BY <2>1 DEF DebianSteps
  <2> QED BY <2>4, <2>5
<1>4. CASE i \in Windows
  <2>1. WindowsSteps(i, k)
    BY <1>4, WindowsPlanSteps
  <2>2. Last(i) = 7 /\ 1 \in 1..Last(i) /\ 3 \in 1..Last(i) /\ 4 \in 1..Last(i)
    BY <2>1 DEF WindowsSteps
  <2>3. WindowsSteps(i, 1) /\ WindowsSteps(i, 3) /\ WindowsSteps(i, 4)
    BY <1>4, <2>2, WindowsPlanSteps
  <2>4. /\ Op(i, 1) \in Writing /\ PartAt(i, 1) = "archive"
        /\ Op(i, 3) = "find" /\ Op(i, 4) = "extract"
    BY <2>3 DEF WindowsSteps
  <2>5. /\ Op(i, k) = "extract" => 1 \in 1..(k - 1)
        /\ Op(i, k) = "copy" => 4 \in 1..(k - 1)
        /\ Op(i, k) = "copyWimboot" => 3 \in 1..(k - 1)
    BY <2>1 DEF WindowsSteps
  <2> QED BY <2>4, <2>5
<1> QED BY <1>0, <1>1, <1>2, <1>3, <1>4

-----------------------------------------------------------------------------
(* The inductive invariant.                                                *)

(* What an import of i that unpacks the archive of a has for a part.       *)
PlaceOf(i, a, part) == IF part = "archive" THEN a ELSE i
Has(i, a, part) == FileOf(PlaceOf(i, a, part), part)

(* Whatever the others do: what step k of p has left, and where p is.      *)
Leaves(p, k) ==
  LET i == import[p].image
      a == import[p].archive
  IN  /\ Op(i, k) \in Writing => Has(i, a, PartAt(i, k)) # Absent
      /\ Op(i, k) = "extract" => import[p].extracted # Absent
      /\ Op(i, k) = "find" => Wimboot(import[p].wimboot) # Absent

Stands(p) ==
  LET i == import[p].image
      a == import[p].archive
      n == import[p].step
  IN  /\ n \in 1..Last(i) /\ a \in Archives(i)
      /\ import[p].writing => Op(i, n) \in Writing \cup {"record"}
      /\ import[p].writing /\ Op(i, n) \in Writing => Has(i, a, PartAt(i, n)) # Absent
      /\ \A k \in 1..(n - 1) : Leaves(p, k)

(* What an import that is alone can rely on.                               *)
Fits(p, k) ==
  LET i == import[p].image
      a == import[p].archive
      part == PartAt(i, k)
  IN  /\ Op(i, k) = "digest" => import[p].digest[part] = Has(i, a, part)
      /\ Op(i, k) = "extract" /\ i \in Debian => Has(i, a, "archive") \in Releases
      /\ Op(i, k) = "extract" /\ Has(i, a, "archive") \in Releases
           => import[p].extracted = Has(i, a, "archive")
      /\ Op(i, k) = "copy" => Has(i, a, part) = import[p].extracted
      /\ Op(i, k) = "copyWimboot" => Has(i, a, part) = Wimboot(import[p].wimboot)

LeftAlone(i) == \A q \in Active : ~ Disturbs(import[q].image, i)

IsAlone(p) == \A q \in Active \ {p} : ~ Overlaps(import[q], import[p])

Relies(p) ==
  LET i == import[p].image
      a == import[p].archive
      n == import[p].step
  IN  /\ import[p].writing /\ Op(i, n) \in Writing
           => ~ contested[<<PlaceOf(i, a, PartAt(i, n)), PartAt(i, n)>>]
      /\ \A k \in 1..(n - 1) : Fits(p, k)

(* What a finished import has left: the parts of RecordsAreTrue and of     *)
(* UnpackedImagesFit.                                                      *)
Left(i) ==
  /\ i = Root => /\ manifest.state = "written"
                 /\ \A name \in Loader : manifest.digest[name] = FileOf(Root, name)
  /\ i \in Rhel => i \in saved /\ \A part \in Boot : row[i][part] = FileOf(i, part)
  /\ i \in Debian => /\ row[i]["archive"] \in Releases
                     /\ \A part \in Boot : FileOf(i, part) = row[i]["archive"]
  /\ i \in Windows =>
       /\ FileOf(i, "kernel") = Wimboot(origin[i])
       /\ row[i]["archive"] \in Releases => FileOf(i, "initrd") = row[i]["archive"]

FilesInv ==
  /\ TypeOK
  /\ \A p \in Active : /\ Stands(p)
                       /\ import[p].alone => IsAlone(p) /\ Relies(p)
  /\ ImagesHaveFiles /\ ManifestMeansLoaders
  /\ \A i \in settled : LeftAlone(i) /\ Left(i)

-----------------------------------------------------------------------------
(* A step of p changes its own files and records, and the others' if they  *)
(* share an image or an archive, but takes no file away.                   *)
StepOf(p) ==
  LET i == import[p].image
      a == import[p].archive
  IN
  /\ \A q \in Imports \ {p} : import'[q] = import[q]
  /\ \/ import'[p].step = 8
     \/ import'[p].image = i /\ import'[p].archive = a /\ import'[p].alone = import[p].alone
  /\ \A j \in Places \ {i, a}, part \in Part :
       FileOf(j, part)' = FileOf(j, part) /\ contested'[<<j, part>>] = contested[<<j, part>>]
  /\ \A j \in Places, part \in Part : FileOf(j, part) # Absent => FileOf(j, part)' # Absent
  /\ \A j \in Images \ {i} : row'[j] = row[j] /\ (j \in saved' <=> j \in saved)
  /\ \A j \in Windows \ {i} : origin'[j] = origin[j]
  /\ i # Root => manifest' = manifest
  /\ settled' \subseteq settled \cup {i}

(* The parts that a step of a plan names are parts.                        *)
LEMMA PartsOfPlans ==
  ASSUME NEW i \in Owners, NEW n \in 1..Last(i), NEW k \in 1..(n - 1)
  PROVE  IsStep(i, k) /\ k \in 1..Last(i) /\ k < n
<1>1. PICK l \in {5, 6, 7} : l = Last(i)
  BY DEF Last
<1>2. n \in 1..l
  BY <1>1
<1>3. k \in 1..l /\ k < n
  BY <1>2
<1> QED BY <1>1, <1>3, StepsOfPlans

(* Nothing is extracted or copied before the archive is unpacked.          *)
LEMMA ExtractsOnce ==
  ASSUME NEW i \in Owners, NEW n \in 1..Last(i), NEW k \in 1..(n - 1), Op(i, n) = "extract"
  PROVE  Op(i, k) \notin {"extract", "copy"}
<1>0. i \in Debian \/ i \in Windows
  BY StepsOfPlans DEF IsStep
<1>1. k \in 1..Last(i) /\ k < n
  BY PartsOfPlans
<1>2. CASE i \in Debian
  <2>1. DebianSteps(i, k) /\ DebianSteps(i, n)
    BY <1>1, <1>2, DebianPlanSteps
  <2> QED BY <1>1, <2>1 DEF DebianSteps, Step
<1>3. CASE i \in Windows
  <2>1. WindowsSteps(i, k) /\ WindowsSteps(i, n)
    BY <1>1, <1>3, WindowsPlanSteps
  <2> QED BY <1>1, <2>1 DEF WindowsSteps, Step
<1> QED BY <1>0, <1>2, <1>3

LEMMA ImageIsOwner ==
  ASSUME FilesInv, NEW q \in Imports
  PROVE  import[q].image \in Owners
<1>1. import[q] \in Import
  BY DEF FilesInv, TypeOK
<1> QED BY <1>1 DEF Import

(* An archive belongs to the image, or is an ISO, which no image is.       *)
LEMMA ArchivePlaces ==
  ASSUME NEW i \in Owners, NEW a \in Archives(i)
  PROVE  /\ a \in Places /\ i \in Places /\ \A part : PlaceOf(i, a, part) \in {i, a}
         /\ a # i => a \in Isos /\ a \notin Owners
BY FilesAssumption DEF FilesAssumption, Archives, Places, PlaceOf

LEMMA OthersStand ==
  ASSUME FilesInv, NEW p \in Active, StepOf(p), NEW q \in Active, q # p
  PROVE  Stands(q)'
<1>1. import'[q] = import[q] /\ q \in Imports
  BY DEF StepOf, Active
<1>. PICK i \in Owners : i = import[q].image
  BY <1>1, ImageIsOwner
<1>. PICK n : n = import[q].step
  OBVIOUS
<1>2. Stands(q)
  BY DEF FilesInv
<1>. PICK a \in Archives(i) : a = import[q].archive
  BY <1>2 DEF Stands
<1>3. n \in 1..Last(i)
  BY <1>2 DEF Stands
<1>4. ASSUME NEW j \in Places, NEW part \in Part, FileOf(j, part) # Absent
      PROVE  FileOf(j, part)' # Absent
  BY <1>4 DEF StepOf
<1>5. ASSUME NEW part \in Part, Has(i, a, part) # Absent PROVE Has(i, a, part)' # Absent
  BY <1>4, <1>5, ArchivePlaces DEF Has, PlaceOf
<1>6. ASSUME import[q].writing, Op(i, n) \in Writing
      PROVE  Has(i, a, PartAt(i, n))' # Absent
  <2>1. PartAt(i, n) \in Part
    BY <1>2, <1>3, <1>6, StepsOfPlans DEF IsStep
  <2> QED BY <1>2, <1>5, <1>6, <2>1 DEF Stands
<1>7. ASSUME NEW k \in 1..(n - 1) PROVE Leaves(q, k)'
  <2>1. IsStep(i, k)
    BY <1>2, <1>3, PartsOfPlans
  <2>2. Leaves(q, k)
    BY <1>2 DEF Stands
  <2>3. FileOf(Root, "wimboot") # Absent => FileOf(Root, "wimboot")' # Absent
    BY <1>4 DEF Places, Owners, Part, Loader
  <2> QED BY <1>1, <1>2, <1>5, <2>1, <2>2, <2>3 DEF Leaves, IsStep, Wimboot
<1> QED BY <1>1, <1>2, <1>3, <1>6, <1>7 DEF Stands

LEMMA OthersRely ==
  ASSUME FilesInv, NEW p \in Active, StepOf(p), NEW q \in Active, q # p, import[q].alone
  PROVE  Relies(q)'
<1>1. import'[q] = import[q] /\ q \in Imports /\ p \in Imports
  BY DEF StepOf, Active
<1>. PICK i \in Owners : i = import[q].image
  BY <1>1, ImageIsOwner
<1>. PICK n : n = import[q].step
  OBVIOUS
<1>2. Stands(q) /\ IsAlone(q) /\ Relies(q) /\ Stands(p)
  BY DEF FilesInv
<1>. PICK a \in Archives(i) : a = import[q].archive
  BY <1>2 DEF Stands
<1>. PICK j \in Owners : j = import[p].image
  BY <1>1, ImageIsOwner
<1>. PICK b \in Archives(j) : b = import[p].archive
  BY <1>2 DEF Stands
<1>3. n \in 1..Last(i)
  BY <1>2 DEF Stands
<1>4. i # j /\ a # b /\ (i \in Windows => j # Root)
  BY <1>2 DEF IsAlone, Overlaps, Disturbs
<1>5. {i, a} \cap {j, b} = {} /\ i \in Places /\ a \in Places
  BY <1>4, ArchivePlaces
<1>6. ASSUME NEW part \in Part
      PROVE  LET f == <<PlaceOf(i, a, part), part>> IN
             Has(i, a, part)' = Has(i, a, part) /\ contested'[f] = contested[f]
  <2>1. PlaceOf(i, a, part) \in Places \ {j, b}
    BY <1>5 DEF PlaceOf
  <2> QED BY <2>1 DEF StepOf, Has
<1>7. i \in Windows => FileOf(Root, "wimboot")' = FileOf(Root, "wimboot")
  <2>1. i \in Windows => b # Root
    BY <1>4, ArchivePlaces DEF Owners
  <2>2. Root \in Places /\ "wimboot" \in Part
    BY DEF Owners, Places, Part, Loader
  <2> QED BY <1>4, <2>1, <2>2 DEF StepOf
<1>8. ASSUME import[q].writing, Op(i, n) \in Writing
      PROVE  ~ contested'[<<PlaceOf(i, a, PartAt(i, n)), PartAt(i, n)>>]
  <2>1. PartAt(i, n) \in Part
    BY <1>2, <1>3, <1>8, StepsOfPlans DEF IsStep
  <2> QED BY <1>2, <1>6, <1>8, <2>1 DEF Relies
<1>9. ASSUME NEW k \in 1..(n - 1) PROVE Fits(q, k)'
  <2>1. IsStep(i, k)
    BY <1>2, <1>3, PartsOfPlans
  <2>2. Fits(q, k)
    BY <1>2 DEF Relies
  <2>3. "archive" \in Part
    BY DEF Part
  <2> QED BY <1>1, <1>6, <1>7, <2>1, <2>2, <2>3 DEF Fits, IsStep, Writing, Wimboot
<1> QED BY <1>1, <1>8, <1>9 DEF Relies

(* Finished imports that nobody works on stay as they are.                 *)
LEMMA LeftStays ==
  ASSUME FilesInv, NEW p \in Active, StepOf(p), NEW j \in settled
  PROVE  Left(j)'
<1>. PICK i \in Owners : i = import[p].image
  BY ImageIsOwner DEF Active
<1>. PICK a \in Archives(i) : a = import[p].archive
  BY DEF FilesInv, Stands
<1>1. Left(j) /\ ~ Disturbs(i, j) /\ j \in Owners
  BY DEF FilesInv, LeftAlone, TypeOK
<1>2. j # i /\ (j \in Windows => i # Root)
  BY <1>1 DEF Disturbs
<1>3. j # a /\ (i # Root => a # Root) /\ j \in Places /\ Root \in Places
  BY <1>1, <1>2, ArchivePlaces DEF Owners, Places
<1>4. /\ \A part \in Part : FileOf(j, part)' = FileOf(j, part)
      /\ j \in Images => row'[j] = row[j] /\ (j \in saved' <=> j \in saved)
      /\ j = Root => manifest' = manifest
      /\ j \in Windows => /\ FileOf(Root, "wimboot")' = FileOf(Root, "wimboot")
                         /\ origin'[j] = origin[j]
  BY <1>1, <1>2, <1>3 DEF StepOf, Part, Loader
<1>5. /\ j = Root => j \notin Images
      /\ j \in Rhel \cup Debian \cup Windows => j \in Images
  BY FilesAssumption DEF FilesAssumption, Images
<1>6. /\ Boot \subseteq Part /\ Loader \subseteq Part
      /\ "kernel" \in Part /\ "initrd" \in Part /\ "wimboot" \in Part
  BY DEF Part, Boot, Loader
<1> QED BY <1>1, <1>4, <1>5, <1>6 DEF Left, Wimboot

(* It suffices to look at p, its image and the boot loaders.               *)
LEMMA StepKeeps ==
  ASSUME FilesInv, TypeOK', NEW p \in Active, StepOf(p), NEW i \in Owners,
         i = import[p].image,
         p \in Active' => Stands(p)' /\ (import[p].alone => Relies(p)'),
         i \in saved' => \A part \in Boot : FileOf(i, part)' # Absent,
         i = Root => ManifestMeansLoaders',
         i \in settled' => p \notin Active' /\ import[p].alone /\ Left(i)'
  PROVE  FilesInv'
<1>1. /\ Active' \subseteq Active
      /\ \A q \in Active' : /\ import'[q].image = import[q].image
                             /\ import'[q].archive = import[q].archive
                             /\ import'[q].alone = import[q].alone
  BY DEF StepOf, Active
<1>2. ASSUME NEW q \in Active' PROVE Stands(q)'
  BY <1>1, OthersStand
<1>3. ASSUME NEW q \in Active', import'[q].alone PROVE IsAlone(q)' /\ Relies(q)'
  <2>1. import[q].alone /\ q \in Active
    BY <1>1, <1>3
  <2>2. IsAlone(q)
    BY <2>1 DEF FilesInv
  <2>3. IsAlone(q)'
    BY <1>1, <2>2 DEF IsAlone, Overlaps
  <2>4. CASE q = p
    BY <1>3, <2>1, <2>3, <2>4
  <2>5. CASE q # p
    BY <2>1, <2>3, <2>5, OthersRely
  <2> QED BY <2>4, <2>5
<1>4. ImagesHaveFiles'
  <2> SUFFICES ASSUME NEW j \in saved', NEW part \in Boot PROVE FileOf(j, part)' # Absent
    BY DEF ImagesHaveFiles
  <2>1. CASE j = i
    BY <2>1
  <2>2. CASE j # i
    <3>1. j \in Images /\ j \in saved
      BY <2>2 DEF StepOf, TypeOK
    <3>2. FileOf(j, part) # Absent
      BY <3>1 DEF FilesInv, ImagesHaveFiles
    <3>3. j \in Places /\ part \in Part
      BY <3>1 DEF Places, Owners, Part
    <3> QED BY <3>2, <3>3 DEF StepOf
  <2> QED BY <2>1, <2>2
<1>5. ManifestMeansLoaders'
  <2>1. CASE i = Root
    BY <2>1
  <2>2. CASE i # Root
    <3>1. manifest' = manifest
      BY <2>2 DEF StepOf
    <3>2. \A name \in Loader : FileOf(Root, name) # Absent => FileOf(Root, name)' # Absent
      BY DEF StepOf, Places, Owners, Part
    <3>3. ManifestMeansLoaders
      BY DEF FilesInv
    <3> QED BY <3>1, <3>2, <3>3 DEF ManifestMeansLoaders, HaveManifest, HaveRequired, Loader
  <2> QED BY <2>1, <2>2
<1>6. ASSUME NEW j \in settled' PROVE LeftAlone(j)' /\ Left(j)'
  <2>1. CASE j = i
    <3>1. IsAlone(p)
      BY <1>6, <2>1 DEF FilesInv
    <3> QED BY <1>1, <1>6, <2>1, <3>1 DEF IsAlone, Overlaps, LeftAlone
  <2>2. CASE j # i
    <3>1. j \in settled
      BY <1>6, <2>2 DEF StepOf
    <3>2. LeftAlone(j)
      BY <3>1 DEF FilesInv
    <3> QED BY <1>1, <3>1, <3>2, LeftStays DEF LeftAlone
  <2> QED BY <2>1, <2>2
<1> QED BY <1>2, <1>3, <1>4, <1>5, <1>6 DEF FilesInv

-----------------------------------------------------------------------------
(* Where p is.                                                             *)

IsAt(p, i, a, n) ==
  /\ p \in Imports
  /\ i = import[p].image /\ a = import[p].archive /\ a \in Archives(i) /\ n = import[p].step
  /\ import[p] \in Import
  /\ n \in 1..Last(i) /\ n \in 1..7 /\ Last(i) \in 5..7
  /\ IsStep(i, n) /\ Stands(p)
  /\ ItsPart(p) = PartAt(i, n) /\ ItsFile(p) = <<PlaceOf(i, a, PartAt(i, n)), PartAt(i, n)>>
  /\ \A op : At(p, op) => Op(i, n) = op

LEMMA WhereItIs ==
  ASSUME FilesInv, NEW p \in Active
  PROVE  \E i \in Owners, a \in Places, n \in 1..7 : IsAt(p, i, a, n)
<1>1. p \in Imports /\ import[p] \in Import /\ Stands(p)
  BY DEF Active, FilesInv, TypeOK
<1>. PICK i \in Owners : i = import[p].image
  BY <1>1 DEF Import
<1>. PICK a \in Archives(i) : a = import[p].archive
  BY <1>1 DEF Stands
<1>2. import[p].step \in 1..7 /\ a \in Places
  BY ArchivePlaces DEF Active
<1>. PICK n \in 1..7 : n = import[p].step
  BY <1>2
<1>3. n \in 1..Last(i)
  BY <1>1 DEF Stands
<1>4. IsStep(i, n)
  BY <1>3, StepsOfPlans
<1>5. ItsPart(p) = PartAt(i, n) /\ ItsFile(p) = <<PlaceOf(i, a, PartAt(i, n)), PartAt(i, n)>>
  BY DEF ItsPart, ItsFile, PartAt, PlaceOf
<1>6. \A op : At(p, op) => Op(i, n) = op
  BY DEF At, Op
<1>7. Last(i) \in 5..7
  BY <1>4 DEF IsStep
<1> QED BY <1>1, <1>2, <1>3, <1>4, <1>5, <1>6, <1>7 DEF IsAt

LEMMA NobodyElseWrites ==
  ASSUME FilesInv, NEW p \in Active, import[p].alone, NEW q \in Imports \ {p}
  PROVE  ~ Writes(q, ItsFile(p))
<1> SUFFICES ASSUME Writes(q, ItsFile(p)) PROVE FALSE
  OBVIOUS
<1>1. q \in Active /\ q \in Imports /\ p \in Imports
  BY DEF Writes, Active
<1>2. IsAlone(p) /\ Stands(p) /\ Stands(q)
  BY <1>1 DEF FilesInv
<1>3. import[p].image \in Owners /\ import[q].image \in Owners
  BY <1>1, ImageIsOwner
<1>4. import[q].image # import[p].image /\ import[q].archive # import[p].archive
  BY <1>1, <1>2 DEF IsAlone, Overlaps, Disturbs
<1>5. {import[q].image, import[q].archive} \cap {import[p].image, import[p].archive} = {}
  BY <1>2, <1>3, <1>4, ArchivePlaces DEF Stands
<1> QED BY <1>5 DEF Writes, ItsFile

LEMMA StepEntry ==
  ASSUME NEW p \in Active, NEW i \in Owners, NEW a \in Places,
         NEW n \in 1..7, IsAt(p, i, a, n)
  PROVE  \E e \in Import : e = [import[p] EXCEPT !.step = n + 1, !.writing = FALSE]
<1>1. n + 1 \in 0..8 /\ import[p] \in Import
  BY DEF IsAt
<1>2. [import[p] EXCEPT !.step = n + 1, !.writing = FALSE] \in Import
  BY <1>1 DEF Import
<1> QED BY <1>2

(* A step that replaces what is known of p, and at most one of its files.  *)
Entry(p, e) == import' = [import EXCEPT ![p] = e]

LEMMA EntryOf ==
  ASSUME FilesInv, NEW p \in Active, NEW e \in Import, Entry(p, e)
  PROVE  /\ import' \in [Imports -> Import] /\ import'[p] = e
         /\ \A q \in Imports \ {p} : import'[q] = import[q]
         /\ p \in Active' <=> e.step \in 1..7
BY DEF Entry, FilesInv, TypeOK, Active

(* What an import has is not taken away.                                   *)
LEMMA HasStays ==
  ASSUME FilesInv, NEW p \in Active, NEW i \in Owners, NEW a \in Places,
         NEW n \in 1..7, IsAt(p, i, a, n),
         \A j \in Places, part \in Part : FileOf(j, part) # Absent => FileOf(j, part)' # Absent,
         NEW part \in Part, Has(i, a, part) # Absent
  PROVE  Has(i, a, part)' # Absent
<1>1. PlaceOf(i, a, part) \in Places
  BY DEF PlaceOf, Places
<1> QED BY <1>1 DEF Has

(* What the steps behind have found out is known to the entry e, too.      *)
Knows(p, e, i, a, n) ==
  \A k \in 1..(n - 1) :
    /\ Op(i, k) \in {"extract", "copy"} => e.extracted = import[p].extracted
    /\ Op(i, k) \in {"find", "copyWimboot"} => e.wimboot = import[p].wimboot
    /\ import[p].alone /\ Op(i, k) = "digest"
         => \/ e.digest[PartAt(i, k)] = import[p].digest[PartAt(i, k)]
            \/ e.digest[PartAt(i, k)] = Has(i, a, PartAt(i, k))'

(* Done leads to the next step of the plan, which is not the last one.     *)
LEMMA NextStep ==
  ASSUME FilesInv, NEW p \in Active, NEW i \in Owners, NEW a \in Places,
         NEW n \in 1..7, IsAt(p, i, a, n),
         NEW e \in Import, Entry(p, e), e.step = n + 1, ~ e.writing,
         e.image = i, e.archive = a,
         Op(i, n) # "record",
         \A j \in Places, part \in Part : FileOf(j, part) # Absent => FileOf(j, part)' # Absent,
         Knows(p, e, i, a, n),
         Leaves(p, n)'
  PROVE  p \in Active' /\ Stands(p)'
<1>1. import'[p] = e
  BY EntryOf
<1>2. n # Last(i) /\ n + 1 \in 1..Last(i) /\ n + 1 \in 1..7
  BY DEF IsAt, IsStep
<1>3. ASSUME NEW k \in 1..n PROVE Leaves(p, k)'
  <2>1. CASE k = n
    BY <2>1
  <2>2. CASE k # n
    <3>1. k \in 1..(n - 1)
      BY <2>2
    <3>2. Leaves(p, k) /\ IsStep(i, k)
      BY <3>1, PartsOfPlans DEF IsAt, Stands
    <3>3. Root \in Places /\ "wimboot" \in Part
      BY DEF Places, Owners, Part, Loader
    <3>4. Op(i, k) \in Writing => Has(i, a, PartAt(i, k))' # Absent
      <4>1. Op(i, k) \in Writing => Has(i, a, PartAt(i, k)) # Absent /\ PartAt(i, k) \in Part
        BY <3>2 DEF Leaves, IsStep, IsAt
      <4> QED BY <4>1, HasStays
    <3>5. Op(i, k) = "find" => Wimboot(e.wimboot)' # Absent
      <4>1. Op(i, k) = "find" => Wimboot(e.wimboot) # Absent
        BY <3>1, <3>2 DEF Leaves, IsAt, Knows
      <4> QED BY <3>3, <4>1 DEF Wimboot
    <3>6. Op(i, k) = "extract" => e.extracted # Absent
      BY <3>1, <3>2 DEF Leaves, IsAt, Knows
    <3> QED BY <1>1, <3>4, <3>5, <3>6 DEF Leaves, Wimboot
  <2> QED BY <2>1, <2>2
<1>4. (n + 1) - 1 = n
  OBVIOUS
<1>5. a \in Archives(i)
  BY DEF IsAt
<1> QED BY <1>1, <1>2, <1>3, <1>4, <1>5, EntryOf DEF Stands

(* The files of an image that p may change in a step of its plan.          *)
OnlyItsFile(i, a, n) ==
  /\ \A part \in Part :
       \/ Has(i, a, part)' = Has(i, a, part)
       \/ Op(i, n) \in Writing /\ part = PartAt(i, n)
  /\ i \in Windows => FileOf(Root, "wimboot")' = FileOf(Root, "wimboot")

(* What an import relies on is not what it writes.                         *)
LEMMA StillFits ==
  ASSUME FilesInv, NEW p \in Active, NEW i \in Owners, NEW a \in Places,
         NEW n \in 1..7, IsAt(p, i, a, n),
         import[p].alone,
         NEW e \in Import, Entry(p, e), e.image = i, e.archive = a,
         OnlyItsFile(i, a, n), Knows(p, e, i, a, n),
         NEW k \in 1..(n - 1)
  PROVE  Fits(p, k)'
<1>0. /\ Op(i, k) = "copyWimboot" => e.wimboot = import[p].wimboot
      /\ Op(i, k) \in {"extract", "copy"} => e.extracted = import[p].extracted
      /\ Op(i, k) = "digest" => \/ e.digest[PartAt(i, k)] = import[p].digest[PartAt(i, k)]
                                \/ e.digest[PartAt(i, k)] = Has(i, a, PartAt(i, k))'
  BY DEF Knows
<1>1. Relies(p) /\ i = import[p].image /\ a = import[p].archive /\ n = import[p].step
  BY DEF FilesInv, IsAt
<1>2. Fits(p, k)
  BY <1>1 DEF Relies
<1>3. IsStep(i, k) /\ k \in 1..Last(i) /\ k < n
  BY PartsOfPlans DEF IsAt
<1>4. ASSUME Op(i, k) \in Writing \cup {"digest", "extract"}
      PROVE  Has(i, a, PartAt(i, k))' = Has(i, a, PartAt(i, k))
  <2>1. CASE Op(i, n) \in Writing
    <3>1. PartAt(i, k) # PartAt(i, n)
      BY <1>3, <1>4, <2>1, FilesAreWrittenOnce DEF IsAt
    <3> QED BY <1>3, <1>4, <3>1 DEF OnlyItsFile, IsStep
  <2>2. CASE Op(i, n) \notin Writing
    BY <1>3, <1>4, <2>2 DEF OnlyItsFile, IsStep
  <2> QED BY <2>1, <2>2
<1>5. Op(i, k) \in {"digest", "copy", "copyWimboot", "extract"}
        => Has(i, a, PartAt(i, k))' = Has(i, a, PartAt(i, k))
  BY <1>4 DEF Writing
<1>6. import'[p] = e
  BY EntryOf
<1>7. Op(i, k) = "digest" => e.digest[PartAt(i, k)] = Has(i, a, PartAt(i, k))'
  BY <1>0, <1>1, <1>2, <1>5 DEF Fits
<1>8. Op(i, k) = "copy" => Has(i, a, PartAt(i, k))' = e.extracted
  BY <1>0, <1>1, <1>2, <1>5 DEF Fits
<1>9. Op(i, k) = "extract" =>
        /\ i \in Debian => Has(i, a, "archive")' \in Releases
        /\ Has(i, a, "archive")' \in Releases => e.extracted = Has(i, a, "archive")'
  BY <1>0, <1>1, <1>2, <1>3, <1>5 DEF Fits, IsStep
<1>10. Op(i, k) = "copyWimboot" => Has(i, a, PartAt(i, k))' = Wimboot(e.wimboot)'
  BY <1>0, <1>1, <1>2, <1>3, <1>5 DEF Fits, IsStep, OnlyItsFile, Wimboot
<1> QED BY <1>6, <1>7, <1>8, <1>9, <1>10 DEF Fits, Wimboot

LEMMA NextRelies ==
  ASSUME FilesInv, NEW p \in Active, NEW i \in Owners, NEW a \in Places,
         NEW n \in 1..7, IsAt(p, i, a, n),
         NEW e \in Import, Entry(p, e), e.step = n + 1, ~ e.writing,
         \A k \in 1..(n - 1) : Fits(p, k)',
         Fits(p, n)'
  PROVE  Relies(p)'
<1>1. import'[p] = e
  BY EntryOf
<1>2. ASSUME NEW k \in 1..n PROVE Fits(p, k)'
  <2>1. CASE k = n
    BY <2>1
  <2>2. CASE k # n
    <3>1. k \in 1..(n - 1)
      BY <2>2
    <3> QED BY <3>1
  <2> QED BY <2>1, <2>2
<1>3. (n + 1) - 1 = n
  OBVIOUS
<1> QED BY <1>1, <1>2, <1>3 DEF Relies

(* A step that records nothing.                                            *)
LEMMA QuietStepKeeps ==
  ASSUME FilesInv, TypeOK', NEW p \in Active, NEW i \in Owners, NEW a \in Places,
         NEW n \in 1..7, IsAt(p, i, a, n), StepOf(p), UNCHANGED <<records, history>>,
         p \in Active' => Stands(p)' /\ (import[p].alone => Relies(p)')
  PROVE  FilesInv'
<1>1. \A j \in Places, part \in Part : FileOf(j, part) # Absent => FileOf(j, part)' # Absent
  BY DEF StepOf
<1>2. i \in saved' => \A part \in Boot : FileOf(i, part)' # Absent
  BY <1>1 DEF FilesInv, ImagesHaveFiles, records, Part, Places
<1>3. ManifestMeansLoaders'
  BY <1>1 DEF FilesInv, ManifestMeansLoaders, HaveManifest, HaveRequired, records, Places,
              Owners, Part, Loader
<1>4. i \notin settled'
  BY DEF FilesInv, LeftAlone, Disturbs, IsAt, history
<1>5. i = import[p].image
  BY DEF IsAt
<1> QED BY <1>2, <1>3, <1>4, <1>5, StepKeeps

-----------------------------------------------------------------------------
(* Opening a file and closing it.                                          *)

LEMMA OpenKeeps ==
  ASSUME FilesInv, NEW p \in Active, NEW i \in Owners, NEW a \in Places,
         NEW n \in 1..7, IsAt(p, i, a, n),
         Op(i, n) \in Writing, Open(p), UNCHANGED <<records, history>>
  PROVE  FilesInv'
<1> DEFINE place == PlaceOf(i, a, PartAt(i, n))
           f == <<place, PartAt(i, n)>>
<1>. PICK e \in Import : e = [import[p] EXCEPT !.writing = TRUE]
  BY DEF IsAt, Import
<1>0. place \in {i, a} /\ place \in Places /\ PartAt(i, n) \in Part
  BY DEF IsAt, IsStep, PlaceOf, Places
<1>1. f \in Places \X Part /\ ItsFile(p) = f
  BY <1>0 DEF IsAt
<1>2. /\ file' = [file EXCEPT ![f] = Partial]
      /\ contested' = [contested EXCEPT ![f] = \E q \in Imports \ {p} : Writes(q, f)]
      /\ Entry(p, e)
  BY <1>1 DEF Open, Entry, IsAt, Import
<1>3. file \in [Places \X Part -> Content] /\ contested \in [Places \X Part -> BOOLEAN]
  BY DEF FilesInv, TypeOK
<1>4. /\ import' \in [Imports -> Import] /\ import'[p] = e
      /\ \A q \in Imports \ {p} : import'[q] = import[q]
      /\ p \in Active'
  BY <1>2, EntryOf DEF IsAt, Import
<1>5. file' \in [Places \X Part -> Content] /\ contested' \in [Places \X Part -> BOOLEAN]
  BY <1>1, <1>2, <1>3 DEF Content
<1>6. TypeOK'
  BY <1>4, <1>5 DEF FilesInv, TypeOK, records, history
<1>7. \A j \in Places, part \in Part :
        /\ FileOf(j, part)' = IF <<j, part>> = f THEN Partial ELSE FileOf(j, part)
        /\ <<j, part>> # f => contested'[<<j, part>>] = contested[<<j, part>>]
  BY <1>2, <1>3 DEF FileOf
<1>8. \A j \in Places, part \in Part : FileOf(j, part) # Absent => FileOf(j, part)' # Absent
  BY <1>7, FilesAssumption DEF FilesAssumption
<1>3a. /\ e.image = i /\ e.archive = a /\ e.step = n /\ e.writing
       /\ e.alone = import[p].alone /\ e.wimboot = import[p].wimboot
       /\ e.extracted = import[p].extracted /\ e.digest = import[p].digest
  BY DEF IsAt, Import
<1>1a. /\ \A j \in Places \ {i, a}, part \in Part : <<j, part>> # f
       /\ <<Root, "wimboot">> = f => i = Root
       /\ Root \in Places /\ "wimboot" \in Part
  BY <1>0 DEF Places, Owners, Part, Loader, PlaceOf
<1>9. StepOf(p)
  BY <1>4, <1>7, <1>8, <1>3a, <1>1a DEF StepOf, records, history, IsAt
<1>10. Stands(p)'
  <2>1. ASSUME NEW k \in 1..(n - 1) PROVE Leaves(p, k)'
    <3>1. Leaves(p, k) /\ IsStep(i, k)
      BY PartsOfPlans DEF IsAt, Stands
    <3>2. Op(i, k) \in Writing => Has(i, a, PartAt(i, k))' # Absent
      <4>1. Op(i, k) \in Writing => Has(i, a, PartAt(i, k)) # Absent /\ PartAt(i, k) \in Part
        BY <3>1 DEF Leaves, IsStep, IsAt
      <4> QED BY <1>8, <4>1, HasStays
    <3>3. Op(i, k) = "find" => Wimboot(e.wimboot) # Absent
      BY <1>3a, <3>1 DEF Leaves, IsAt
    <3>4. Op(i, k) = "find" => Wimboot(e.wimboot)' # Absent
      BY <1>8, <1>1a, <3>3 DEF Wimboot
    <3>5. Op(i, k) = "extract" => e.extracted # Absent
      BY <1>3a, <3>1 DEF Leaves, IsAt
    <3> QED BY <1>4, <1>3a, <3>2, <3>4, <3>5 DEF Leaves, Wimboot
  <2>2. Has(i, a, PartAt(i, n))' # Absent
    BY <1>0, <1>7, FilesAssumption DEF FilesAssumption, Has
  <2> QED BY <1>4, <1>3a, <2>1, <2>2 DEF Stands, IsAt
<1>11. ASSUME import[p].alone PROVE Relies(p)'
  <2>1. ~ contested'[f]
    BY <1>1, <1>2, <1>3, <1>11, NobodyElseWrites
  <2>2. OnlyItsFile(i, a, n)
    <3>1. i \in Windows => i # Root
      BY FilesAssumption DEF FilesAssumption, Images
    <3>2. i \in Windows => FileOf(Root, "wimboot")' = FileOf(Root, "wimboot")
      BY <1>7, <1>1a, <3>1
    <3>3. ASSUME NEW part \in Part, part # PartAt(i, n)
          PROVE  Has(i, a, part)' = Has(i, a, part)
      <4>1. PlaceOf(i, a, part) \in Places /\ <<PlaceOf(i, a, part), part>> # f
        BY <3>3 DEF PlaceOf, Places
      <4> QED BY <1>7, <4>1 DEF Has
    <3> QED BY <3>2, <3>3 DEF OnlyItsFile
  <2>3. Knows(p, e, i, a, n)
    BY <1>3a DEF Knows
  <2>4. ASSUME NEW k \in 1..(n - 1) PROVE Fits(p, k)'
    BY <1>2, <1>11, <1>3a, <2>2, <2>3, StillFits
  <2> QED BY <1>4, <1>3a, <2>1, <2>4 DEF Relies, IsAt
<1> QED BY <1>6, <1>9, <1>10, <1>11, QuietStepKeeps

(* What is written to the end by an import that is alone is what it wrote. *)
LEMMA CloseKeeps ==
  ASSUME FilesInv, NEW p \in Active, NEW i \in Owners, NEW a \in Places,
         NEW n \in 1..7, IsAt(p, i, a, n),
         Op(i, n) \in Writing,
         NEW content \in Content, content # Absent, Close(p, content),
         Op(i, n) = "copy" => content = import[p].extracted,
         Op(i, n) = "copyWimboot" /\ import[p].alone => content = Wimboot(import[p].wimboot),
         UNCHANGED <<records, history>>
  PROVE  FilesInv'
<1> DEFINE place == PlaceOf(i, a, PartAt(i, n))
           f == <<place, PartAt(i, n)>>
<1>0. place \in {i, a} /\ place \in Places /\ PartAt(i, n) \in Part
  BY DEF IsAt, IsStep, PlaceOf, Places
<1>1. f \in Places \X Part /\ ItsFile(p) = f
  BY <1>0 DEF IsAt
<1>. PICK e \in Import : e = [import[p] EXCEPT !.step = n + 1, !.writing = FALSE]
  BY StepEntry
<1>2. /\ e.step = n + 1 /\ ~ e.writing /\ e.image = i /\ e.alone = import[p].alone
      /\ e.archive = a /\ e.wimboot = import[p].wimboot
      /\ e.extracted = import[p].extracted /\ e.digest = import[p].digest
  BY DEF IsAt, Import
<1>3. Entry(p, e) /\ contested' = contested
  BY DEF Close, Done, Entry, IsAt, Import
<1>4. file \in [Places \X Part -> Content] /\ contested \in [Places \X Part -> BOOLEAN]
  BY DEF FilesInv, TypeOK
<1>5. file[f] # Absent /\ file[f] \in Content
  <2>1. Has(i, a, PartAt(i, n)) # Absent
    BY DEF Close, IsAt, Stands
  <2> QED BY <1>1, <1>4, <2>1 DEF FileOf, Has
<1>6. PICK result \in Content :
        /\ file' = [file EXCEPT ![f] = result]
        /\ result # Absent
        /\ ~ contested[f] => result = content
  <2>1. PICK result \in IF contested[f] THEN {file[f], content, Partial} ELSE {content} :
          file' = [file EXCEPT ![f] = result]
    BY <1>1 DEF Close
  <2>2. result \in Content /\ result # Absent /\ (~ contested[f] => result = content)
    BY <1>1, <1>4, <1>5, FilesAssumption DEF FilesAssumption, Content
  <2> QED BY <2>1, <2>2
<1>7. /\ import' \in [Imports -> Import] /\ import'[p] = e
      /\ \A q \in Imports \ {p} : import'[q] = import[q]
  BY <1>3, EntryOf
<1>8. TypeOK'
  <2>1. file' \in [Places \X Part -> Content]
    BY <1>4, <1>6
  <2> QED BY <1>3, <1>7, <2>1 DEF FilesInv, TypeOK, records, history
<1>7a. /\ \A j \in Places \ {i, a}, part \in Part : <<j, part>> # f
       /\ <<Root, "wimboot">> = f => i = Root
       /\ Root \in Places /\ "wimboot" \in Part
  BY <1>0 DEF Places, Owners, Part, Loader, PlaceOf
<1>9. \A j \in Places, part \in Part :
        FileOf(j, part)' = IF <<j, part>> = f THEN result ELSE FileOf(j, part)
  BY <1>4, <1>6 DEF FileOf
<1>10. \A j \in Places, part \in Part : FileOf(j, part) # Absent => FileOf(j, part)' # Absent
  BY <1>6, <1>9
<1>11. StepOf(p)
  BY <1>2, <1>3, <1>7, <1>7a, <1>9, <1>10 DEF StepOf, records, history, IsAt
<1>12. Has(i, a, PartAt(i, n))' = result
  BY <1>0, <1>9 DEF Has
<1>13. Op(i, n) \notin {"record", "extract", "find", "digest"}
  BY DEF Writing
<1>13a. Knows(p, e, i, a, n)
  BY <1>2 DEF Knows
<1>14. p \in Active' /\ Stands(p)'
  <2>1. Leaves(p, n)'
    BY <1>2, <1>6, <1>7, <1>12, <1>13 DEF Leaves
  <2> QED BY <1>2, <1>3, <1>10, <1>13, <1>13a, <2>1, NextStep
<1>15. ASSUME import[p].alone PROVE Relies(p)'
  <2>1. result = content
    BY <1>1, <1>6, <1>15 DEF FilesInv, Relies, IsAt, Close
  <2>2. OnlyItsFile(i, a, n)
    <3>1. i \in Windows => i # Root
      BY FilesAssumption DEF FilesAssumption, Images
    <3>2. i \in Windows => FileOf(Root, "wimboot")' = FileOf(Root, "wimboot")
      BY <1>9, <1>7a, <3>1
    <3>3. ASSUME NEW part \in Part, part # PartAt(i, n)
          PROVE  Has(i, a, part)' = Has(i, a, part)
      <4>1. PlaceOf(i, a, part) \in Places /\ <<PlaceOf(i, a, part), part>> # f
        BY <3>3 DEF PlaceOf, Places
      <4> QED BY <1>9, <4>1 DEF Has
    <3> QED BY <3>2, <3>3 DEF OnlyItsFile
  <2>3. ASSUME NEW k \in 1..(n - 1) PROVE Fits(p, k)'
    BY <1>2, <1>3, <1>13a, <1>15, <2>2, StillFits
  <2>4. Fits(p, n)'
    <3>1. Op(i, n) = "copyWimboot" => FileOf(Root, "wimboot")' = FileOf(Root, "wimboot")
      BY <2>2 DEF OnlyItsFile, IsAt, IsStep
    <3>2. Op(i, n) = "copyWimboot" => result = Wimboot(e.wimboot)'
      BY <1>2, <1>15, <2>1, <3>1 DEF Wimboot
    <3> QED BY <1>2, <1>7, <1>12, <1>13, <1>15, <2>1, <3>2 DEF Fits, Wimboot
  <2> QED BY <1>2, <1>3, <2>3, <2>4, NextRelies
<1> QED BY <1>8, <1>11, <1>14, <1>15, QuietStepKeeps

-----------------------------------------------------------------------------
(* Steps that change no file.                                              *)

LEMMA KnowingKeeps ==
  ASSUME FilesInv, NEW p \in Active, NEW i \in Owners, NEW a \in Places,
         NEW n \in 1..7, IsAt(p, i, a, n),
         Op(i, n) # "record",
         NEW e \in Import, Entry(p, e), e.step = n + 1, ~ e.writing,
         e.image = i, e.archive = a, e.alone = import[p].alone,
         UNCHANGED <<files, records, history>>,
         Leaves(p, n)',
         import[p].alone => Fits(p, n)',
         Knows(p, e, i, a, n)
  PROVE  FilesInv'
<1>1. /\ import' \in [Imports -> Import] /\ import'[p] = e
      /\ \A q \in Imports \ {p} : import'[q] = import[q]
  BY EntryOf
<1>2. \A j, part : FileOf(j, part)' = FileOf(j, part)
  BY DEF FileOf, files
<1>3. TypeOK'
  BY <1>1 DEF FilesInv, TypeOK, files, records, history
<1>4. StepOf(p)
  BY <1>1, <1>2 DEF StepOf, files, records, history, IsAt
<1>5. p \in Active' /\ Stands(p)'
  BY <1>2, NextStep
<1>6. ASSUME import[p].alone PROVE Relies(p)'
  <2>1. OnlyItsFile(i, a, n)
    BY <1>2 DEF OnlyItsFile, Has
  <2>2. ASSUME NEW k \in 1..(n - 1) PROVE Fits(p, k)'
    BY <1>6, <2>1, StillFits
  <2> QED BY <1>6, <2>2, NextRelies
<1> QED BY <1>3, <1>4, <1>5, <1>6, QuietStepKeeps

LEMMA UseCachedKeeps ==
  ASSUME FilesInv, NEW p \in Active, UseCached(p)
  PROVE  FilesInv'
<1>. PICK i \in Owners, a \in Places, n \in 1..7 : IsAt(p, i, a, n)
  BY WhereItIs
<1>1. Op(i, n) = "cache" /\ Has(i, a, PartAt(i, n)) # Absent /\ ~ import[p].writing
  BY DEF UseCached, IsAt, FileOf, Has
<1>. PICK e \in Import : e = [import[p] EXCEPT !.step = n + 1, !.writing = FALSE]
  BY StepEntry
<1>2. /\ e.step = n + 1 /\ ~ e.writing /\ e.image = i /\ e.alone = import[p].alone
      /\ e.archive = a /\ e.wimboot = import[p].wimboot
      /\ e.extracted = import[p].extracted /\ e.digest = import[p].digest
  BY DEF IsAt, Import
<1>3. Entry(p, e)
  BY DEF UseCached, Done, Entry, IsAt, Import
<1>4. import'[p] = e
  BY <1>3, EntryOf
<1>5. UNCHANGED <<files, records, history>>
  BY DEF UseCached
<1>6. \A j, part : FileOf(j, part)' = FileOf(j, part)
  BY <1>5 DEF FileOf, files
<1>7. Leaves(p, n)'
  BY <1>1, <1>2, <1>4, <1>6 DEF Leaves, Has
<1>8. Fits(p, n)'
  BY <1>1, <1>2, <1>4 DEF Fits
<1>9. Knows(p, e, i, a, n)
  BY <1>2 DEF Knows
<1> QED BY <1>1, <1>2, <1>3, <1>5, <1>7, <1>8, <1>9, KnowingKeeps

(* Wimboot is found once, and before it is copied.                         *)
LEMMA FindsOnce ==
  ASSUME NEW i \in Owners, NEW n \in 1..Last(i), NEW k \in 1..(n - 1), Op(i, n) = "find"
  PROVE  Op(i, k) \notin {"find", "copyWimboot"}
<1>0. i \in Windows
  BY StepsOfPlans DEF IsStep
<1>1. k \in 1..Last(i) /\ k < n
  BY PartsOfPlans
<1>2. WindowsSteps(i, k) /\ WindowsSteps(i, n)
  BY <1>0, <1>1, WindowsPlanSteps
<1> QED BY <1>1, <1>2 DEF WindowsSteps, Step

LEMMA FindWimbootKeeps ==
  ASSUME FilesInv, NEW p \in Active, NEW given \in Content, FindWimboot(p, given)
  PROVE  FilesInv'
<1>. PICK i \in Owners, a \in Places, n \in 1..7 : IsAt(p, i, a, n)
  BY WhereItIs
<1>1. Op(i, n) = "find" /\ Wimboot(given) # Absent /\ n \in 1..Last(i)
  BY DEF FindWimboot, IsAt
<1>2. ~ import[p].writing
  BY <1>1 DEF IsAt, Stands, Writing
<1>. PICK e \in Import : e = [import[p] EXCEPT !.step = n + 1, !.wimboot = given]
  <2>1. n + 1 \in 0..8 /\ import[p] \in Import
    BY DEF IsAt
  <2>2. [import[p] EXCEPT !.step = n + 1, !.wimboot = given] \in Import
    BY <2>1 DEF Import
  <2> QED BY <2>2
<1>3. /\ e.step = n + 1 /\ ~ e.writing /\ e.image = i /\ e.alone = import[p].alone
      /\ e.archive = a /\ e.wimboot = given
      /\ e.extracted = import[p].extracted /\ e.digest = import[p].digest
  BY <1>2 DEF IsAt, Import
<1>4. Entry(p, e)
  BY DEF FindWimboot, Entry, IsAt, Import, FilesInv, TypeOK
<1>5. import'[p] = e
  BY <1>4, EntryOf
<1>6. UNCHANGED <<files, records, history>>
  BY DEF FindWimboot
<1>7. \A j, part : FileOf(j, part)' = FileOf(j, part)
  BY <1>6 DEF FileOf, files
<1>8. Leaves(p, n)'
  BY <1>1, <1>3, <1>5, <1>7 DEF Leaves, Writing, Wimboot
<1>9. Fits(p, n)'
  BY <1>1, <1>3, <1>5 DEF Fits
<1>10. \A k \in 1..(n - 1) : Op(i, k) \notin {"find", "copyWimboot"}
  BY <1>1, FindsOnce
<1>11. Knows(p, e, i, a, n)
  BY <1>3, <1>10 DEF Knows
<1> QED BY <1>1, <1>3, <1>4, <1>6, <1>8, <1>9, <1>11, KnowingKeeps

(* A digest is of what the file is, if nobody is at work on it.            *)
LEMMA TakeDigestKeeps ==
  ASSUME FilesInv, NEW p \in Active, TakeDigest(p)
  PROVE  FilesInv'
<1>. PICK i \in Owners, a \in Places, n \in 1..7 : IsAt(p, i, a, n)
  BY WhereItIs
<1>1. Op(i, n) = "digest" /\ PartAt(i, n) \in Part
  BY DEF TakeDigest, IsAt, IsStep
<1>2. ~ import[p].writing
  BY <1>1 DEF IsAt, Stands, Writing
<1>3. Has(i, a, PartAt(i, n)) \in Content /\ file[ItsFile(p)] = Has(i, a, PartAt(i, n))
  <2>1. PlaceOf(i, a, PartAt(i, n)) \in Places
    BY DEF PlaceOf, Places
  <2> QED BY <1>1, <2>1 DEF FilesInv, TypeOK, FileOf, Has, IsAt
<1>. PICK digest \in Read(p, Has(i, a, PartAt(i, n))) :
       import' = [import EXCEPT ![p].step = @ + 1, ![p].digest[PartAt(i, n)] = digest]
  BY <1>3 DEF TakeDigest, IsAt
<1>4. digest \in Content /\ (import[p].alone => digest = Has(i, a, PartAt(i, n)))
  BY <1>3 DEF Read, Content
<1>. PICK d \in [Part -> Content] : d = [import[p].digest EXCEPT ![PartAt(i, n)] = digest]
  <2>1. import[p].digest \in [Part -> Content]
    BY DEF IsAt, Import
  <2> QED BY <1>1, <1>4, <2>1
<1>. PICK e \in Import : e = [import[p] EXCEPT !.step = n + 1, !.digest = d]
  <2>1. n + 1 \in 0..8 /\ import[p] \in Import
    BY DEF IsAt
  <2>2. [import[p] EXCEPT !.step = n + 1, !.digest = d] \in Import
    BY <2>1 DEF Import
  <2> QED BY <2>2
<1>5. /\ e.step = n + 1 /\ ~ e.writing /\ e.image = i /\ e.alone = import[p].alone
      /\ e.archive = a /\ e.wimboot = import[p].wimboot
      /\ e.extracted = import[p].extracted /\ e.digest = d
  BY <1>2 DEF IsAt, Import
<1>6. Entry(p, e)
  BY DEF Entry, IsAt, Import, FilesInv, TypeOK
<1>7. import'[p] = e
  BY <1>6, EntryOf
<1>8. UNCHANGED <<files, records, history>>
  BY DEF TakeDigest
<1>9. \A j, part : FileOf(j, part)' = FileOf(j, part)
  BY <1>8 DEF FileOf, files
<1>10. Leaves(p, n)'
  BY <1>1, <1>5, <1>7 DEF Leaves, Writing
<1>11. import[p].alone => d[PartAt(i, n)] = Has(i, a, PartAt(i, n))'
  BY <1>1, <1>4, <1>9 DEF IsAt, Import, Has
<1>12. import[p].alone => Fits(p, n)'
  BY <1>1, <1>5, <1>7, <1>11 DEF Fits
<1>13. ASSUME NEW k \in 1..(n - 1), Op(i, k) = "digest", import[p].alone
       PROVE  \/ d[PartAt(i, k)] = import[p].digest[PartAt(i, k)]
              \/ d[PartAt(i, k)] = Has(i, a, PartAt(i, k))'
  <2>1. PartAt(i, k) \in Part
    BY <1>13, PartsOfPlans DEF IsAt, IsStep
  <2>2. CASE PartAt(i, k) = PartAt(i, n)
    BY <1>11, <1>13, <2>2
  <2>3. CASE PartAt(i, k) # PartAt(i, n)
    BY <2>1, <2>3 DEF IsAt, Import
  <2> QED BY <2>2, <2>3
<1>14. Knows(p, e, i, a, n)
  BY <1>5, <1>13 DEF Knows
<1> QED BY <1>1, <1>5, <1>6, <1>8, <1>10, <1>12, <1>14, KnowingKeeps

(* What is extracted from a whole archive is of its release.               *)
LEMMA ExtractKeeps ==
  ASSUME FilesInv, NEW p \in Active, Extract(p)
  PROVE  FilesInv'
<1>. PICK i \in Owners, a \in Places, n \in 1..7 : IsAt(p, i, a, n)
  BY WhereItIs
<1>1. Op(i, n) = "extract" /\ PartAt(i, n) = "archive" /\ "archive" \in Part
  BY DEF Extract, IsAt, IsStep, Part
<1>2. ~ import[p].writing
  BY <1>1 DEF IsAt, Stands, Writing
<1>. PICK archive : archive = Has(i, a, "archive")
  OBVIOUS
<1>3. archive \in Content /\ file[ItsFile(p)] = archive
  BY <1>1 DEF FilesInv, TypeOK, FileOf, Has, PlaceOf, IsAt
<1>4. archive # Absent
  <2>1. n \in 1..Last(i)
    BY DEF IsAt
  <2>2. PICK l \in 1..(n - 1) : Op(i, l) \in Writing /\ PartAt(i, l) = "archive"
    BY <1>1, <2>1, StepsBefore
  <2> QED BY <2>2 DEF IsAt, Stands, Leaves
<1>. PICK content \in Read(p, archive) \cup (IF archive = Partial THEN Releases ELSE {}) :
       /\ i \in Debian => content = archive /\ content # Partial
       /\ import' = [import EXCEPT ![p].step = @ + 1, ![p].extracted = content]
  BY <1>3 DEF Extract, IsAt
<1>5. /\ content \in Content /\ content # Absent
      /\ i \in Debian => archive \in Releases /\ content = archive
      /\ import[p].alone /\ archive \in Releases => content = archive
  BY <1>3, <1>4, FilesAssumption DEF FilesAssumption, Read, Content
<1>. PICK e \in Import : e = [import[p] EXCEPT !.step = n + 1, !.extracted = content]
  <2>1. n + 1 \in 0..8 /\ import[p] \in Import
    BY DEF IsAt
  <2>2. [import[p] EXCEPT !.step = n + 1, !.extracted = content] \in Import
    BY <1>5, <2>1 DEF Import
  <2> QED BY <2>2
<1>6. /\ e.step = n + 1 /\ ~ e.writing /\ e.image = i /\ e.alone = import[p].alone
      /\ e.archive = a /\ e.wimboot = import[p].wimboot
      /\ e.extracted = content /\ e.digest = import[p].digest
  BY <1>2 DEF IsAt, Import
<1>7. Entry(p, e)
  BY DEF Entry, IsAt, Import, FilesInv, TypeOK
<1>8. import'[p] = e
  BY <1>7, EntryOf
<1>9. UNCHANGED <<files, records, history>>
  BY DEF Extract
<1>10. Has(i, a, "archive")' = archive
  BY <1>9 DEF FileOf, Has, files
<1>11. Leaves(p, n)'
  BY <1>1, <1>5, <1>6, <1>8 DEF Leaves, Writing
<1>12. import[p].alone => Fits(p, n)'
  BY <1>1, <1>5, <1>6, <1>8, <1>10 DEF Fits
<1>13. ASSUME NEW k \in 1..(n - 1) PROVE Op(i, k) \notin {"extract", "copy"}
  BY <1>1, ExtractsOnce DEF IsAt
<1>14. Knows(p, e, i, a, n)
  BY <1>6, <1>13 DEF Knows
<1> QED BY <1>1, <1>6, <1>7, <1>9, <1>11, <1>12, <1>14, KnowingKeeps

-----------------------------------------------------------------------------
(* Downloads and copies.                                                   *)

LEMMA WritingKeeps ==
  ASSUME FilesInv, NEW p \in Active,
         Download(p) \/ EndDownload(p) \/ Copy(p) \/ EndCopy(p)
  PROVE  FilesInv'
<1>. PICK i \in Owners, a \in Places, n \in 1..7 : IsAt(p, i, a, n)
  BY WhereItIs
<1>1. UNCHANGED <<records, history>>
  BY DEF Download, EndDownload, Copy, EndCopy
<1>2. CASE Download(p) \/ Copy(p)
  <2>1. Op(i, n) \in Writing /\ Open(p)
    BY <1>2 DEF Download, Copy, IsAt, Writing
  <2> QED BY <1>1, <2>1, OpenKeeps
<1>3. CASE EndDownload(p)
  <2>1. Op(i, n) \in {"download", "cache"}
    BY <1>3 DEF EndDownload, IsAt
  <2>2. PICK content \in Releases \cup {Partial} : Close(p, content)
    BY <1>3 DEF EndDownload
  <2>3. content \in Content /\ content # Absent
    BY FilesAssumption DEF FilesAssumption, Content
  <2> QED BY <1>1, <2>1, <2>2, <2>3, CloseKeeps DEF Writing
<1>4. CASE At(p, "copy") /\ Close(p, import[p].extracted)
  <2>1. Op(i, n) = "copy" /\ n \in 1..Last(i)
    BY <1>4 DEF IsAt
  <2>2. PICK l \in 1..(n - 1) : Op(i, l) = "extract"
    BY <2>1, StepsBefore
  <2>3. import[p].extracted # Absent /\ import[p].extracted \in Content
    BY <2>2 DEF IsAt, Stands, Leaves, Import
  <2>. PICK content : content = import[p].extracted
    OBVIOUS
  <2> QED BY <1>1, <1>4, <2>1, <2>3, CloseKeeps DEF Writing
<1>5. CASE At(p, "copyWimboot")
           /\ \E content \in IF import[p].wimboot # Absent THEN {import[p].wimboot}
                             ELSE Read(p, FileOf(Root, "wimboot")) : Close(p, content)
  <2>1. Op(i, n) = "copyWimboot" /\ n \in 1..Last(i)
    BY <1>5 DEF IsAt
  <2>2. PICK l \in 1..(n - 1) : Op(i, l) = "find"
    BY <2>1, StepsBefore
  <2>3. Wimboot(import[p].wimboot) # Absent
    BY <2>2 DEF IsAt, Stands, Leaves
  <2>4. FileOf(Root, "wimboot") \in Content /\ import[p].wimboot \in Content
    BY DEF FilesInv, TypeOK, FileOf, Places, Owners, Part, Loader, IsAt, Import
  <2>5. PICK content \in IF import[p].wimboot # Absent THEN {import[p].wimboot}
                         ELSE Read(p, FileOf(Root, "wimboot")) : Close(p, content)
    BY <1>5
  <2>6. /\ content \in Content /\ content # Absent
        /\ import[p].alone => content = Wimboot(import[p].wimboot)
    BY <2>3, <2>4, <2>5, FilesAssumption DEF FilesAssumption, Read, Content, Wimboot
  <2> QED BY <1>1, <2>1, <2>5, <2>6, CloseKeeps DEF Writing
<1> QED BY <1>2, <1>3, <1>4, <1>5 DEF EndCopy

-----------------------------------------------------------------------------
(* Recording.                                                              *)

(* Step k is behind an import that is at its record.                       *)
Behind(i, op, part) == \E k \in 1..(Last(i) - 1) : Op(i, k) = op /\ PartAt(i, k) = part

LEMMA RootBehind ==
  \A name \in Loader : Behind(Root, "download", name) /\ Behind(Root, "digest", name)
<1>1. Last(Root) = 7
  BY DEF Last
<1>2. /\ RootSteps(Root, 1) /\ RootSteps(Root, 2) /\ RootSteps(Root, 3)
      /\ RootSteps(Root, 4) /\ RootSteps(Root, 5) /\ RootSteps(Root, 6)
  BY <1>1, RootPlanSteps
<1>3. /\ Behind(Root, "download", "undionly.kpxe") /\ Behind(Root, "digest", "undionly.kpxe")
      /\ Behind(Root, "download", "ipxe.efi") /\ Behind(Root, "digest", "ipxe.efi")
  BY <1>1, <1>2 DEF RootSteps, Step, Behind
<1>4. Behind(Root, "download", "wimboot") /\ Behind(Root, "digest", "wimboot")
  BY <1>1, <1>2 DEF RootSteps, Step, Behind
<1> QED BY <1>3, <1>4 DEF Loader

LEMMA RhelBehind ==
  ASSUME NEW i \in Rhel
  PROVE  \A part \in Boot : Behind(i, "download", part) /\ Behind(i, "digest", part)
<1>1. Last(i) = 5
  BY FilesAssumption DEF FilesAssumption, Images, Last
<1>2. RhelSteps(i, 1) /\ RhelSteps(i, 2) /\ RhelSteps(i, 3) /\ RhelSteps(i, 4)
  BY <1>1, RhelPlanSteps
<1> QED BY <1>1, <1>2 DEF RhelSteps, Step, Behind, Boot

LEMMA DebianBehind ==
  ASSUME NEW i \in Debian
  PROVE  /\ Behind(i, "digest", "archive") /\ Behind(i, "extract", "archive")
         /\ \A part \in Boot : Behind(i, "copy", part)
<1>1. Last(i) = 6
  BY FilesAssumption DEF FilesAssumption, Images, Last
<1>2. DebianSteps(i, 2) /\ DebianSteps(i, 3) /\ DebianSteps(i, 4) /\ DebianSteps(i, 5)
  BY <1>1, DebianPlanSteps
<1> QED BY <1>1, <1>2 DEF DebianSteps, Step, Behind, Boot

LEMMA WindowsBehind ==
  ASSUME NEW i \in Windows
  PROVE  /\ Behind(i, "digest", "archive") /\ Behind(i, "extract", "archive")
         /\ Behind(i, "copy", "initrd") /\ Behind(i, "copyWimboot", "kernel")
<1>1. Last(i) = 7
  BY FilesAssumption DEF FilesAssumption, Images, Last
<1>2. WindowsSteps(i, 2) /\ WindowsSteps(i, 4) /\ WindowsSteps(i, 5) /\ WindowsSteps(i, 6)
  BY <1>1, WindowsPlanSteps
<1> QED BY <1>1, <1>2 DEF WindowsSteps, Step, Behind

LEMMA WrittenBehind ==
  ASSUME FilesInv, NEW p \in Active, NEW i \in Owners, NEW a \in Places,
         NEW n \in 1..7, IsAt(p, i, a, n),
         n = Last(i), NEW op \in Writing, NEW part, Behind(i, op, part)
  PROVE  Has(i, a, part) # Absent
BY DEF Behind, IsAt, Stands, Leaves

LEMMA ReliedBehind ==
  ASSUME FilesInv, NEW p \in Active, NEW i \in Owners, NEW a \in Places,
         NEW n \in 1..7, IsAt(p, i, a, n),
         n = Last(i), import[p].alone, NEW op, NEW part, Behind(i, op, part)
  PROVE  /\ op = "digest" => import[p].digest[part] = Has(i, a, part)
         /\ op = "extract" /\ i \in Debian => Has(i, a, "archive") \in Releases
         /\ op = "extract" /\ Has(i, a, "archive") \in Releases
              => import[p].extracted = Has(i, a, "archive")
         /\ op = "copy" => Has(i, a, part) = import[p].extracted
         /\ op = "copyWimboot" => Has(i, a, part) = Wimboot(import[p].wimboot)
<1>. PICK k \in 1..(n - 1) : Op(i, k) = op /\ PartAt(i, k) = part
  BY DEF Behind
<1>1. Relies(p)
  BY DEF FilesInv
<1>2. Fits(p, k)
  BY <1>1 DEF Relies, IsAt
<1> QED BY <1>2 DEF Fits, IsAt

LEMMA OwnParts ==
  \A i, a, part : part # "archive" => Has(i, a, part) = FileOf(i, part)
BY DEF Has, PlaceOf

LEMMA RecordsAtItsEnd ==
  ASSUME FilesInv, NEW p \in Active, NEW i \in Owners, NEW a \in Places,
         NEW n \in 1..7, IsAt(p, i, a, n),
         At(p, "record")
  PROVE  n = Last(i) /\ ItsPart(p) = IF i = Root THEN "manifest" ELSE "row"
BY DEF IsAt, IsStep

(* The process of an import that has ended.                                *)
LEMMA EndedEntry ==
  ASSUME FilesInv, NEW p \in Active, import' = [import EXCEPT ![p] = Ended]
  PROVE  /\ import' \in [Imports -> Import]
         /\ \A q \in Imports \ {p} : import'[q] = import[q]
         /\ import'[p].step = 8 /\ p \notin Active'
<1>1. Ended.step = 8
  BY DEF Ended, NotBegun
<1>2. Ended \in Import
  <2>1. /\ NoDigests \in [Part -> Content] /\ Absent \in Content
        /\ Root \in Owners /\ Root \in Places
    BY DEF NoDigests, Content, Owners, Places
  <2>2. NotBegun \in Import
    BY <2>1 DEF NotBegun, Import
  <2>3. 8 \in 0..8
    OBVIOUS
  <2> QED BY <2>2, <2>3 DEF Ended, Import
<1>3. Entry(p, Ended)
  BY DEF Entry
<1>4. /\ import' \in [Imports -> Import] /\ import'[p] = Ended
      /\ \A q \in Imports \ {p} : import'[q] = import[q]
      /\ p \in Active' <=> Ended.step \in 1..7
  BY <1>2, <1>3, EntryOf
<1> QED BY <1>1, <1>4

LEMMA BreakKeeps ==
  ASSUME FilesInv, NEW p \in Active, Break(p)
  PROVE  FilesInv'
<1>. PICK i \in Owners, a \in Places, n \in 1..7 : IsAt(p, i, a, n)
  BY WhereItIs
<1>1. UNCHANGED <<files, records, history>>
  BY DEF Break
<1>2. /\ import' \in [Imports -> Import] /\ import'[p].step = 8 /\ p \notin Active'
      /\ \A q \in Imports \ {p} : import'[q] = import[q]
  BY EndedEntry DEF Break
<1>3. \A j, part : FileOf(j, part)' = FileOf(j, part)
  BY <1>1 DEF FileOf, files
<1>4. TypeOK'
  BY <1>1, <1>2 DEF FilesInv, TypeOK, files, records, history
<1>5. StepOf(p)
  BY <1>1, <1>2, <1>3 DEF StepOf, files, records, history
<1> QED BY <1>1, <1>2, <1>4, <1>5, QuietStepKeeps

LEMMA SaveImageKeeps ==
  ASSUME FilesInv, NEW p \in Active, SaveImage(p)
  PROVE  FilesInv'
<1>. PICK i \in Owners, a \in Places, n \in 1..7 : IsAt(p, i, a, n)
  BY WhereItIs
<1>1. n = Last(i) /\ i # Root /\ i \in Images /\ i = import[p].image
  BY RecordsAtItsEnd DEF SaveImage, Owners, IsAt
<1>. PICK digest \in [Part -> Content] : digest = import[p].digest
  BY DEF IsAt, Import
<1>2. /\ row' = [row EXCEPT ![i] = digest] /\ saved' = saved \cup {i}
      /\ settled' = IF import[p].alone THEN settled \cup {i} ELSE settled
      /\ UNCHANGED <<files, manifest>>
      /\ origin' = [j \in Windows |-> IF j = i /\ import[p].alone THEN import[p].wimboot
                                      ELSE origin[j]]
  BY <1>1 DEF SaveImage, Settle
<1>2a. /\ origin' \in [Windows -> Content]
       /\ \A j \in Windows \ {i} : origin'[j] = origin[j]
       /\ i \in Windows /\ import[p].alone => origin'[i] = import[p].wimboot
  <2>1. origin \in [Windows -> Content] /\ import[p].wimboot \in Content
    BY DEF FilesInv, TypeOK, IsAt, Import
  <2> QED BY <1>2, <2>1
<1>3. /\ import' \in [Imports -> Import] /\ import'[p].step = 8 /\ p \notin Active'
      /\ \A q \in Imports \ {p} : import'[q] = import[q]
  BY EndedEntry DEF SaveImage
<1>4. \A j, part : FileOf(j, part)' = FileOf(j, part)
  BY <1>2 DEF FileOf, files
<1>5. row \in [Images -> [Part -> Content]] /\ row'[i] = digest
  BY <1>1, <1>2 DEF FilesInv, TypeOK
<1>6. TypeOK'
  BY <1>1, <1>2, <1>2a, <1>3, <1>5 DEF FilesInv, TypeOK, files, Owners
<1>7. StepOf(p)
  BY <1>1, <1>2, <1>2a, <1>3, <1>4, <1>5 DEF StepOf, files
<1>8. ASSUME NEW part \in Boot PROVE FileOf(i, part)' # Absent
  <2>0. Has(i, a, part) = FileOf(i, part)
    BY OwnParts DEF Boot
  <2>1. CASE i \in Rhel
    BY <1>1, <1>4, <2>0, <2>1, RhelBehind, WrittenBehind DEF Writing
  <2>2. CASE i \in Debian
    BY <1>1, <1>4, <2>0, <2>2, DebianBehind, WrittenBehind DEF Writing
  <2>3. CASE i \in Windows
    BY <1>1, <1>4, <2>0, <2>3, WindowsBehind, WrittenBehind DEF Writing, Boot
  <2> QED BY <1>1, <2>1, <2>2, <2>3 DEF Images
<1>9. ASSUME import[p].alone PROVE Left(i)'
  <2>0. /\ \A part \in Boot : Has(i, a, part) = FileOf(i, part)
        /\ Has(i, a, "kernel") = FileOf(i, "kernel")
        /\ Has(i, a, "initrd") = FileOf(i, "initrd")
    BY OwnParts DEF Boot
  <2>1. i \in Rhel => \A part \in Boot : digest[part] = FileOf(i, part)
    BY <1>1, <1>9, <2>0, RhelBehind, ReliedBehind
  <2>2. i \in Debian => /\ digest["archive"] \in Releases
                        /\ \A part \in Boot : FileOf(i, part) = digest["archive"]
    <3> SUFFICES ASSUME i \in Debian
                 PROVE  /\ digest["archive"] \in Releases
                        /\ \A part \in Boot : FileOf(i, part) = digest["archive"]
      OBVIOUS
    <3>1. digest["archive"] = Has(i, a, "archive")
      BY <1>1, <1>9, DebianBehind, ReliedBehind
    <3>2. Has(i, a, "archive") \in Releases /\ import[p].extracted = Has(i, a, "archive")
      BY <1>1, <1>9, DebianBehind, ReliedBehind
    <3>3. \A part \in Boot : FileOf(i, part) = import[p].extracted
      BY <1>1, <1>9, <2>0, DebianBehind, ReliedBehind
    <3> QED BY <3>1, <3>2, <3>3
  <2>3. i \in Windows => /\ FileOf(i, "kernel") = Wimboot(import[p].wimboot)
                         /\ digest["archive"] \in Releases
                              => FileOf(i, "initrd") = digest["archive"]
    <3> SUFFICES ASSUME i \in Windows
                 PROVE  /\ FileOf(i, "kernel") = Wimboot(import[p].wimboot)
                        /\ digest["archive"] \in Releases
                             => FileOf(i, "initrd") = digest["archive"]
      OBVIOUS
    <3>1. digest["archive"] = Has(i, a, "archive")
      BY <1>1, <1>9, WindowsBehind, ReliedBehind
    <3>2. Has(i, a, "archive") \in Releases => import[p].extracted = Has(i, a, "archive")
      BY <1>1, <1>9, WindowsBehind, ReliedBehind
    <3>3. FileOf(i, "initrd") = import[p].extracted
      BY <1>1, <1>9, <2>0, WindowsBehind, ReliedBehind
    <3>4. FileOf(i, "kernel") = Wimboot(import[p].wimboot)
      BY <1>1, <1>9, <2>0, WindowsBehind, ReliedBehind
    <3> QED BY <3>1, <3>2, <3>3, <3>4
  <2>4. i \in Windows => Wimboot(origin[i])' = Wimboot(import[p].wimboot)
    BY <1>2a, <1>4, <1>9 DEF Wimboot
  <2> QED BY <1>1, <1>2, <1>4, <1>5, <2>1, <2>2, <2>3, <2>4 DEF Left
<1>10. i \notin settled
  BY <1>1 DEF FilesInv, LeftAlone, Disturbs
<1> QED BY <1>1, <1>2, <1>3, <1>6, <1>7, <1>8, <1>9, <1>10, StepKeeps

LEMMA OpenManifestKeeps ==
  ASSUME FilesInv, NEW p \in Active, OpenManifest(p)
  PROVE  FilesInv'
<1>. PICK i \in Owners, a \in Places, n \in 1..7 : IsAt(p, i, a, n)
  BY WhereItIs
<1>1. n = Last(i) /\ i = Root /\ i = import[p].image /\ n = import[p].step
      /\ a = import[p].archive /\ a \in Archives(i)
  BY RecordsAtItsEnd DEF OpenManifest, IsAt
<1>2. Op(i, n) = "record"
  BY DEF OpenManifest, IsAt
<1>3. /\ UNCHANGED <<files, row, saved, history>>
      /\ manifest' = [state |-> "unreadable", digest |-> NoDigests]
  BY DEF OpenManifest
<1>. PICK e \in Import : e = [import[p] EXCEPT !.writing = TRUE]
  BY DEF IsAt, Import
<1>4. Entry(p, e)
  BY DEF OpenManifest, Entry, IsAt, Import
<1>5. /\ import' \in [Imports -> Import] /\ import'[p] = e
      /\ \A q \in Imports \ {p} : import'[q] = import[q]
  BY <1>4, EntryOf
<1>6. /\ e.step = n /\ e.image = i /\ e.archive = a /\ e.alone = import[p].alone
      /\ e.wimboot = import[p].wimboot
      /\ e.digest = import[p].digest /\ e.extracted = import[p].extracted
  BY DEF IsAt, Import
<1>7. \A j, part : FileOf(j, part)' = FileOf(j, part)
  BY <1>3 DEF FileOf, files
<1>8. TypeOK'
  <2>1. manifest' \in Manifest
    BY <1>3 DEF Manifest, NoDigests, Content
  <2> QED BY <1>3, <1>5, <2>1 DEF FilesInv, TypeOK, files, history
<1>9. StepOf(p)
  BY <1>1, <1>3, <1>5, <1>6, <1>7 DEF StepOf, files, history
<1>10. Stands(p)'
  <2>1. \A k \in 1..(n - 1) : Leaves(p, k)
    BY <1>1 DEF IsAt, Stands
  <2>2. \A k \in 1..(n - 1) : Leaves(p, k)'
    BY <1>1, <1>5, <1>6, <1>7, <2>1 DEF Leaves, Has, Wimboot
  <2> QED BY <1>2, <1>5, <1>6, <2>2 DEF Stands, IsAt, Writing
<1>11. ASSUME import[p].alone PROVE Relies(p)'
  <2>1. \A k \in 1..(n - 1) : Fits(p, k)
    BY <1>1, <1>11 DEF FilesInv, Relies
  <2>2. \A k \in 1..(n - 1) : Fits(p, k)'
    BY <1>1, <1>5, <1>6, <1>7, <2>1 DEF Fits, Has, Wimboot
  <2> QED BY <1>2, <1>5, <1>6, <2>2 DEF Relies, Writing
<1>12. ManifestMeansLoaders'
  <2>1. \A name \in Loader : FileOf(Root, name) # Absent
    BY <1>1, RootBehind, WrittenBehind, OwnParts DEF Writing, Loader
  <2> QED BY <1>7, <2>1 DEF ManifestMeansLoaders, HaveRequired, Loader
<1>13. i \notin saved /\ i \notin settled
  BY <1>1, FilesAssumption DEF FilesAssumption, FilesInv, TypeOK, LeftAlone, Disturbs
<1>14. i \notin saved' /\ i \notin settled'
  BY <1>3, <1>13 DEF history
<1> QED BY <1>1, <1>8, <1>9, <1>10, <1>11, <1>12, <1>14, StepKeeps

LEMMA SaveManifestKeeps ==
  ASSUME FilesInv, NEW p \in Active, SaveManifest(p)
  PROVE  FilesInv'
<1>. PICK i \in Owners, a \in Places, n \in 1..7 : IsAt(p, i, a, n)
  BY WhereItIs
<1>1. n = Last(i) /\ i = Root /\ i = import[p].image
  BY RecordsAtItsEnd DEF SaveManifest, IsAt
<1>. PICK digest \in [Part -> Content] : digest = import[p].digest
  BY DEF IsAt, Import
<1>2. /\ manifest' = [state |-> "written", digest |-> digest]
      /\ settled' = IF import[p].alone THEN settled \cup {i} ELSE settled
      /\ UNCHANGED <<files, row, saved>>
      /\ origin' = [j \in Windows |-> IF j = i /\ import[p].alone THEN import[p].wimboot
                                      ELSE origin[j]]
  BY <1>1 DEF SaveManifest, Settle
<1>2a. origin' \in [Windows -> Content] /\ \A j \in Windows : origin'[j] = origin[j]
  <2>1. origin \in [Windows -> Content] /\ i \notin Windows
    BY <1>1, FilesAssumption DEF FilesInv, TypeOK, FilesAssumption, Images
  <2> QED BY <1>2, <2>1
<1>3. /\ import' \in [Imports -> Import] /\ import'[p].step = 8 /\ p \notin Active'
      /\ \A q \in Imports \ {p} : import'[q] = import[q]
  BY EndedEntry DEF SaveManifest
<1>4. \A j, part : FileOf(j, part)' = FileOf(j, part)
  BY <1>2 DEF FileOf, files
<1>5. TypeOK'
  <2>1. manifest' \in Manifest
    BY <1>2 DEF Manifest
  <2> QED BY <1>2, <1>2a, <1>3, <2>1 DEF FilesInv, TypeOK, files
<1>6. StepOf(p)
  BY <1>1, <1>2, <1>2a, <1>3, <1>4 DEF StepOf, files
<1>7. ManifestMeansLoaders'
  <2>1. \A name \in Loader : FileOf(Root, name) # Absent
    BY <1>1, RootBehind, WrittenBehind, OwnParts DEF Writing, Loader
  <2> QED BY <1>4, <2>1 DEF ManifestMeansLoaders, HaveRequired, Loader
<1>8. ASSUME import[p].alone PROVE Left(i)'
  <2>1. \A name \in Loader : digest[name] = FileOf(Root, name)
    BY <1>1, <1>8, RootBehind, ReliedBehind, OwnParts DEF Loader
  <2>2. i \notin Images
    BY <1>1, FilesAssumption DEF FilesAssumption
  <2> QED BY <1>1, <1>2, <1>4, <2>1, <2>2 DEF Left, Images
<1>9. i \notin saved /\ i \notin settled
  BY <1>1, FilesAssumption DEF FilesAssumption, FilesInv, TypeOK, LeftAlone, Disturbs
<1> QED BY <1>1, <1>2, <1>3, <1>5, <1>6, <1>7, <1>8, <1>9, StepKeeps

-----------------------------------------------------------------------------
(* An import that begins disturbs others, and finds out nothing by itself. *)

LEMMA BeginKeeps ==
  ASSUME FilesInv, NEW p \in Imports, NEW i \in Owners, NEW a \in Archives(i),
         NEW found \in Content, Begin(p, i, a, found)
  PROVE  FilesInv'
<1> DEFINE f == <<a, "archive">>
<1>0. a \in Places
  BY DEF Archives, Places
<1>. PICK new : new = [NotBegun EXCEPT !.image = i, !.archive = a, !.step = 1]
  OBVIOUS
<1>. PICK first \in BOOLEAN : first = \A r \in Active : ~ Overlaps(import[r], new)
  OBVIOUS
<1>. PICK e : e = [new EXCEPT !.alone = first]
  OBVIOUS
<1>1. /\ e.image = i /\ e.archive = a /\ e.step = 1 /\ ~ e.writing /\ e.alone = first
      /\ new.image = i /\ new.archive = a
  BY DEF NotBegun
<1>2. e \in Import
  <2>1. /\ NoDigests \in [Part -> Content] /\ Absent \in Content /\ 1 \in 0..8
        /\ Root \in Owners /\ Root \in Places
    BY DEF NoDigests, Content, Owners, Places
  <2> QED BY <1>0, <2>1 DEF NotBegun, Import
<1>3. import'[p] = e
  BY DEF Begin
<1>4. ASSUME NEW q \in Imports, q # p
      PROVE  /\ import'[q] \in Import
             /\ import'[q].image = import[q].image /\ import'[q].archive = import[q].archive
             /\ import'[q].step = import[q].step /\ import'[q].writing = import[q].writing
             /\ import'[q].digest = import[q].digest
             /\ import'[q].extracted = import[q].extracted
             /\ import'[q].wimboot = import[q].wimboot
             /\ import'[q].alone <=>
                  import[q].alone /\ ~ (q \in Active /\ Overlaps(new, import[q]))
  <2>1. import[q] \in Import
    BY DEF FilesInv, TypeOK
  <2>. PICK b \in BOOLEAN :
         b = (import[q].alone /\ ~ (q \in Active /\ Overlaps(new, import[q])))
    OBVIOUS
  <2>2. import'[q] = [import[q] EXCEPT !.alone = b]
    BY <1>4 DEF Begin
  <2> QED BY <2>1, <2>2 DEF Import
<1>5. /\ UNCHANGED <<contested, records>>
      /\ file' = [file EXCEPT ![f] = found] /\ (found # file[f] => file[f] = Absent)
      /\ settled' = settled \ {j \in Owners : Disturbs(i, j)}
      /\ origin' = [j \in Windows |-> IF Disturbs(i, j) THEN Absent ELSE origin[j]]
      /\ a \in Archives(i)
  BY DEF Begin
<1>6. file \in [Places \X Part -> Content] /\ f \in Places \X Part
  BY <1>0 DEF FilesInv, TypeOK, Part
<1>7. ASSUME NEW j \in Places, NEW part \in Part
      PROVE  /\ part # "archive" \/ j # a => FileOf(j, part)' = FileOf(j, part)
             /\ FileOf(j, part) # Absent => FileOf(j, part)' # Absent
  <2>1. <<j, part>> # f => file'[<<j, part>>] = file[<<j, part>>]
    BY <1>5, <1>6
  <2>2. file[f] # Absent => file'[f] # Absent
    BY <1>5, <1>6
  <2> QED BY <2>1, <2>2 DEF FileOf
<1>8. /\ Root \in Places /\ "wimboot" \in Part /\ "wimboot" # "archive"
      /\ FileOf(Root, "wimboot")' = FileOf(Root, "wimboot")
  BY <1>7 DEF Places, Owners, Part, Loader
<1>9. \A given : Wimboot(given)' = Wimboot(given)
  BY <1>8 DEF Wimboot
<1>10. Active' = Active \cup {p} /\ p \notin Active
  <2>1. p \in Active' /\ p \notin Active
    <3>1. import[p].step = 0 /\ import'[p].step = 1
      BY <1>1, <1>3 DEF Begin
    <3>2. 0 \notin 1 .. 7 /\ 1 \in 1 .. 7
      OBVIOUS
    <3> QED BY <1>1, <3>1, <3>2 DEF Active
  <2>2. \A q \in Imports \ {p} : q \in Active' <=> q \in Active
    BY <1>4 DEF Active
  <2> QED BY <2>1, <2>2 DEF Active
<1>11. TypeOK'
  <2>1. import' \in [Imports -> Import]
    <3>1. \A q \in Imports : import'[q] \in Import
      BY <1>2, <1>3, <1>4
    <3>2. import' = [q \in Imports |-> import'[q]]
      BY DEF Begin
    <3> QED BY <3>1, <3>2
  <2>2. file' \in [Places \X Part -> Content]
    BY <1>5, <1>6
  <2>3. origin' \in [Windows -> Content]
    <3>1. origin \in [Windows -> Content] /\ Absent \in Content
      BY DEF FilesInv, TypeOK, Content
    <3> QED BY <1>5, <3>1
  <2> QED BY <1>5, <2>1, <2>2, <2>3 DEF FilesInv, TypeOK, records
<1>12. ASSUME NEW q \in Active', q # p PROVE Stands(q)'
  <2>1. q \in Active /\ q \in Imports
    BY <1>10, <1>12 DEF Active
  <2>2. Stands(q)
    BY <2>1 DEF FilesInv
  <2>. PICK j \in Owners : j = import[q].image
    BY <2>1, ImageIsOwner
  <2>. PICK b \in Archives(j) : b = import[q].archive
    BY <2>2 DEF Stands
  <2>. PICK n : n = import[q].step
    OBVIOUS
  <2>3. n \in 1..Last(j)
    BY <2>2 DEF Stands
  <2>4. ASSUME NEW part \in Part, Has(j, b, part) # Absent PROVE Has(j, b, part)' # Absent
    BY <1>7, <2>4, ArchivePlaces DEF Has, PlaceOf
  <2>5. ASSUME NEW k \in 1..(n - 1) PROVE Leaves(q, k)'
    <3>1. IsStep(j, k) /\ Leaves(q, k)
      BY <2>2, <2>3, PartsOfPlans DEF Stands
    <3> QED BY <1>4, <1>9, <1>12, <2>1, <2>4, <3>1 DEF Leaves, IsStep
  <2>6. import[q].writing /\ Op(j, n) \in Writing => Has(j, b, PartAt(j, n))' # Absent
    <3>1. IsStep(j, n)
      BY <2>3, StepsOfPlans
    <3> QED BY <2>2, <2>4, <3>1 DEF Stands, IsStep
  <2> QED BY <1>4, <1>12, <2>1, <2>2, <2>5, <2>6 DEF Stands
<1>13. ASSUME NEW q \in Active', q # p, import'[q].alone PROVE IsAlone(q)' /\ Relies(q)'
  <2>1. q \in Active /\ q \in Imports
    BY <1>10, <1>13 DEF Active
  <2>2. import[q].alone /\ ~ Overlaps(new, import[q])
    BY <1>4, <1>13, <2>1
  <2>3. IsAlone(q) /\ Relies(q) /\ Stands(q)
    BY <2>1, <2>2 DEF FilesInv
  <2>. PICK j \in Owners : j = import[q].image
    BY <2>1, ImageIsOwner
  <2>. PICK b \in Archives(j) : b = import[q].archive
    BY <2>3 DEF Stands
  <2>. PICK n : n = import[q].step
    OBVIOUS
  <2>4. a # b /\ n \in 1..Last(j)
    BY <1>1, <2>2, <2>3 DEF Overlaps, Stands
  <2>5. \A part \in Part : Has(j, b, part)' = Has(j, b, part)
    BY <1>7, <2>4, ArchivePlaces DEF Has, PlaceOf
  <2>6. ASSUME NEW k \in 1..(n - 1) PROVE Fits(q, k)'
    <3>1. IsStep(j, k) /\ Fits(q, k) /\ "archive" \in Part
      BY <2>3, <2>4, PartsOfPlans DEF Relies, Part
    <3> QED BY <1>4, <1>9, <1>13, <2>1, <2>5, <3>1 DEF Fits, IsStep, Writing
  <2>7. Relies(q)'
    BY <1>4, <1>5, <1>13, <2>1, <2>3, <2>6 DEF Relies
  <2>8. ASSUME NEW r \in Active' \ {q} PROVE ~ Overlaps(import'[r], import'[q])
    <3>1. CASE r = p
      <4>1. import'[r].image = new.image /\ import'[r].archive = new.archive
        BY <1>1, <1>3, <3>1
      <4>2. import'[q].image = import[q].image /\ import'[q].archive = import[q].archive
        BY <1>4, <1>13, <2>1
      <4> QED BY <2>2, <4>1, <4>2 DEF Overlaps, Disturbs
    <3>2. CASE r # p
      <4>1. r \in Active \ {q} /\ r \in Imports
        BY <1>10, <3>2 DEF Active
      <4> QED BY <1>4, <1>13, <2>1, <2>3, <3>2, <4>1 DEF IsAlone, Overlaps
    <3> QED BY <3>1, <3>2
  <2>9. IsAlone(q)'
    BY <2>8 DEF IsAlone, Overlaps, Disturbs
  <2> QED BY <2>7, <2>9
<1>14. Stands(p)' /\ (import'[p].alone => IsAlone(p)' /\ Relies(p)')
  <2>1. 1 \in 1..Last(i)
    BY DEF Last
  <2>2. Stands(p)' /\ Relies(p)'
    BY <1>1, <1>3, <1>5, <2>1 DEF Stands, Relies
  <2>3. ASSUME import'[p].alone, NEW r \in Active' \ {p}
        PROVE  ~ Overlaps(import'[r], import'[p])
    <3>1. r \in Active /\ r \in Imports /\ r # p
      BY <1>10 DEF Active
    <3>2. ~ Overlaps(import[r], new)
      BY <1>1, <1>3, <2>3, <3>1
    <3> QED BY <1>1, <1>3, <1>4, <3>1, <3>2 DEF Overlaps
  <2>4. import'[p].alone => IsAlone(p)'
    BY <2>3 DEF IsAlone, Overlaps, Disturbs
  <2> QED BY <2>2, <2>4
<1>15. ImagesHaveFiles' /\ ManifestMeansLoaders'
  <2>1. saved \subseteq Images /\ Images \subseteq Places /\ Boot \subseteq Part
    BY DEF FilesInv, TypeOK, Places, Owners, Part
  <2>2. ImagesHaveFiles'
    BY <1>5, <1>7, <2>1 DEF FilesInv, ImagesHaveFiles, records
  <2>3. \A name \in Loader : FileOf(Root, name) # Absent => FileOf(Root, name)' # Absent
    BY <1>7, <1>8 DEF Part
  <2>4. ManifestMeansLoaders'
    BY <1>5, <2>3 DEF FilesInv, ManifestMeansLoaders, HaveManifest, HaveRequired, records,
                      Loader
  <2> QED BY <2>2, <2>4
<1>16. ASSUME NEW j \in settled' PROVE LeftAlone(j)' /\ Left(j)'
  <2>1. j \in settled /\ j \in Owners /\ ~ Disturbs(i, j) /\ j \in Places
    BY <1>5, <1>16 DEF FilesInv, TypeOK, Places
  <2>2. LeftAlone(j) /\ Left(j)
    BY <2>1 DEF FilesInv
  <2>3. ASSUME NEW q \in Active' PROVE ~ Disturbs(import'[q].image, j)
    <3>1. CASE q = p
      BY <1>1, <1>3, <2>1, <3>1
    <3>2. CASE q # p
      <4>1. q \in Active /\ q \in Imports
        BY <1>10, <3>2 DEF Active
      <4> QED BY <1>4, <2>2, <3>2, <4>1 DEF LeftAlone
    <3> QED BY <3>1, <3>2
  <2>4. /\ \A part \in Boot : FileOf(j, part)' = FileOf(j, part)
        /\ \A name \in Loader : FileOf(Root, name)' = FileOf(Root, name)
        /\ "kernel" \in Boot /\ "initrd" \in Boot
    BY <1>7, <1>8, <2>1 DEF Part, Boot, Loader
  <2>5. j \in Windows => Wimboot(origin[j])' = Wimboot(origin[j])
    BY <1>5, <1>8, <2>1 DEF Wimboot
  <2>6. Left(j)'
    BY <1>5, <2>2, <2>4, <2>5 DEF Left, records
  <2> QED BY <2>3, <2>6 DEF LeftAlone, Disturbs
<1> QED BY <1>11, <1>12, <1>13, <1>14, <1>15, <1>16 DEF FilesInv

-----------------------------------------------------------------------------
LEMMA FilesInitEstablishes == Init => FilesInv
<1> SUFFICES ASSUME Init PROVE FilesInv
  OBVIOUS
<1>. PICK loaders \in Releases \cup {Absent} :
       /\ file = [f \in Places \X Part |->
                    IF f[1] = Root /\ f[2] \in Loader THEN loaders ELSE Absent]
       /\ manifest = [state |-> IF loaders = Absent THEN "absent" ELSE "written",
                      digest |-> [part \in Part |->
                                    IF part \in Loader THEN loaders ELSE Absent]]
       /\ settled = IF loaders = Absent THEN {} ELSE {Root}
       /\ contested = [f \in Places \X Part |-> FALSE]
       /\ origin = [i \in Windows |-> Absent]
       /\ row = [i \in Images |-> NoDigests] /\ saved = {}
       /\ import = [p \in Imports |-> NotBegun]
  BY DEF Init
<1>1. \A name \in Loader : FileOf(Root, name) = loaders
  BY DEF FileOf, Places, Owners, Part
<1>2. loaders \in Content /\ Absent \in Content /\ NoDigests \in [Part -> Content]
  BY DEF Content, NoDigests
<1>3. TypeOK
  <2>1. file \in [Places \X Part -> Content] /\ contested \in [Places \X Part -> BOOLEAN]
    BY <1>2
  <2>2. manifest \in Manifest
    BY <1>2 DEF Manifest
  <2>3. NotBegun \in Import
    BY <1>2 DEF NotBegun, Import, Owners, Places
  <2> QED BY <1>2, <2>1, <2>2, <2>3 DEF TypeOK, Owners
<1>4. Active = {}
  BY DEF Active, NotBegun
<1>5. ImagesHaveFiles
  BY DEF ImagesHaveFiles
<1>6. ManifestMeansLoaders
  BY <1>1 DEF ManifestMeansLoaders, HaveManifest, HaveRequired, Loader
<1>7. ASSUME NEW i \in settled PROVE LeftAlone(i) /\ Left(i)
  <2>1. i = Root /\ loaders # Absent
    BY <1>7
  <2>2. i \notin Images
    BY <2>1, FilesAssumption DEF FilesAssumption
  <2>3. manifest.state = "written" /\ \A name \in Loader : manifest.digest[name] = loaders
    BY <2>1 DEF Part
  <2> QED BY <1>1, <1>4, <2>1, <2>2, <2>3 DEF LeftAlone, Left, Images
<1> QED BY <1>3, <1>4, <1>5, <1>6, <1>7 DEF FilesInv

LEMMA FilesNextKeeps == FilesInv /\ [Next]_vars => FilesInv'
<1> SUFFICES ASSUME FilesInv, [Next]_vars PROVE FilesInv'
  OBVIOUS
<1>1. ASSUME NEW p \in Imports, NEW i \in Owners, NEW a \in Archives(i), NEW found \in Content,
             Begin(p, i, a, found)
      PROVE  FilesInv'
  BY <1>1, BeginKeeps
<1>2. ASSUME NEW p \in Imports,
             \/ Break(p) \/ Download(p) \/ EndDownload(p) \/ UseCached(p) \/ TakeDigest(p)
             \/ Extract(p) \/ (\E given \in Content : FindWimboot(p, given))
             \/ Copy(p) \/ EndCopy(p)
             \/ SaveImage(p) \/ OpenManifest(p) \/ SaveManifest(p)
      PROVE  FilesInv'
  <2>1. p \in Active
    BY <1>2 DEF Break, Download, EndDownload, UseCached, TakeDigest, Extract, FindWimboot,
                Copy, EndCopy, SaveImage, OpenManifest, SaveManifest, At
  <2> QED BY <1>2, <2>1, BreakKeeps, WritingKeeps, UseCachedKeeps, TakeDigestKeeps,
             ExtractKeeps, FindWimbootKeeps, SaveImageKeeps, OpenManifestKeeps,
             SaveManifestKeeps
<1>3. CASE UNCHANGED vars
  <2>1. UNCHANGED <<file, contested, row, saved, manifest, import, settled, origin>>
    BY <1>3 DEF vars
  <2>2. /\ Active' = Active
        /\ \A j, part : FileOf(j, part)' = FileOf(j, part)
    BY <2>1 DEF Active, FileOf
  <2>3. \A p \in Active : (Stands(p) => Stands(p)') /\ (Relies(p) => Relies(p)')
    BY <2>1, <2>2 DEF Stands, Leaves, Relies, Fits, Has, Wimboot
  <2>4. /\ \A p \in Active : IsAlone(p) => IsAlone(p)'
        /\ \A i \in settled : LeftAlone(i) => LeftAlone(i)'
    BY <2>1, <2>2 DEF IsAlone, LeftAlone, Overlaps, Disturbs
  <2>5. \A i \in settled : Left(i) => Left(i)'
    BY <2>1, <2>2 DEF Left, Wimboot
  <2>6. TypeOK' /\ ImagesHaveFiles' /\ ManifestMeansLoaders'
    BY <2>1, <2>2 DEF FilesInv, TypeOK, ImagesHaveFiles, ManifestMeansLoaders, HaveManifest,
                      HaveRequired
  <2> QED BY <2>1, <2>2, <2>3, <2>4, <2>5, <2>6 DEF FilesInv
<1> QED BY <1>1, <1>2, <1>3 DEF Next

THEOREM FilesInvariantHolds == Spec => []FilesInv
BY FilesInitEstablishes, FilesNextKeeps, PTL DEF Spec

(* Files, rows, manifest and what imports know, of the types they are      *)
(* declared with.                                                          *)
THEOREM FilesTypes == Spec => []TypeOK
<1>1. FilesInv => TypeOK
  BY DEF FilesInv
<1> QED BY <1>1, FilesInvariantHolds, PTL

(* A row is not without its files (media_import.py:538-553, 633-650).      *)
THEOREM SavedImagesHaveFiles == Spec => []ImagesHaveFiles
<1>1. FilesInv => ImagesHaveFiles
  BY DEF FilesInv
<1> QED BY <1>1, FilesInvariantHolds, PTL

(* A manifest is not without the boot loaders (media_import.py:376-385).   *)
THEOREM ManifestsComeLast == Spec => []ManifestMeansLoaders
<1>1. FilesInv => ManifestMeansLoaders
  BY DEF FilesInv
<1> QED BY <1>1, FilesInvariantHolds, PTL

(* Digests are of the files that are served (media_import.py:381-385,      *)
(* 627-649).                                                               *)
THEOREM RecordsStayTrue == Spec => []RecordsAreTrue
<1>1. FilesInv => RecordsAreTrue
  BY DEF FilesInv, Left, RecordsAreTrue
<1> QED BY <1>1, FilesInvariantHolds, PTL

(* What is unpacked is of the archive that is recorded, and a Windows      *)
(* image boots the wimboot that was given, or found in the TFTP root       *)
(* (media_import.py:412-427, 459-466, 520-535).                            *)
THEOREM UnpackedImagesStayFit == Spec => []UnpackedImagesFit
<1>1. FilesInv => UnpackedImagesFit
  BY DEF FilesInv, Left, UnpackedImagesFit
<1> QED BY <1>1, FilesInvariantHolds, PTL
=============================================================================
