---------------------------- MODULE ServedFiles ----------------------------
(***************************************************************************)
(* What the imports other than Ubuntu's (media_import.py) leave under the  *)
(* TFTP root, in the download cache, in the image rows and in the manifest *)
(* of the boot loaders, and what the setup page makes of it                *)
(* (services/setup_status.py).  Imports are processes that overlap, break  *)
(* off anywhere and start on what earlier ones have left; the mirrors they *)
(* download from may move on to another release at any time.               *)
(***************************************************************************)
EXTENDS Naturals, Sequences

CONSTANTS
  Imports,   (* the processes                                               *)
  Rhel,      (* images whose kernel and initrd are downloaded as they are   *)
  Debian,    (* images unpacked from a tarball in the cache                 *)
  Windows,   (* images unpacked from an ISO                                 *)
  Isos,      (* the paths of ISOs: in the cache, or wherever --iso says     *)
  Root,      (* the TFTP root itself: its files are the boot loaders        *)
  Releases,  (* what a mirror may have: the bytes of a release              *)
  Absent,    (* no file, and no digest                                      *)
  Partial    (* any other bytes                                             *)

Images == Rhel \cup Debian \cup Windows
Owners == Images \cup {Root}
Places == Owners \cup Isos
Content == Releases \cup {Absent, Partial}

ASSUME FilesAssumption ==
  /\ Root \notin Images /\ Isos \cap Owners = {}
  /\ Rhel \cap Debian = {} /\ Rhel \cap Windows = {} /\ Debian \cap Windows = {}
  /\ Absent \notin Releases /\ Partial \notin Releases /\ Absent # Partial

VARIABLES
  file,       (* content of each file                                       *)
  contested,  (* whether several processes were writing it at a time        *)
  row,        (* the digests that the row of an image records               *)
  saved,      (* the images that have a row                                 *)
  manifest,   (* bootloaders.json                                           *)
  import,     (* where each process is and what it knows                    *)
  settled,    (* what its last import has finished undisturbed, and nothing *)
              (* it is made of has been worked on since (history)           *)
  origin      (* the wimboot given for a settled Windows image (history)    *)

vars == <<file, contested, row, saved, manifest, import, settled, origin>>
files == <<file, contested>>
records == <<row, saved, manifest>>
history == <<settled, origin>>

(* kernel: what iPXE executes, wimboot for Windows; initrd: what it passes *)
(* to it, boot.wim, BCD and boot.sdi for Windows.                          *)
Loader == {"undionly.kpxe", "ipxe.efi", "wimboot"}
Boot == {"kernel", "initrd"}
Part == Loader \cup Boot \cup {"archive"}

-----------------------------------------------------------------------------
(* The steps of an import: what to do, to which of its files.              *)

(* Slip: the manifest is written before the files that it describes.       *)
ManifestFirst ==
  << <<"record", "manifest">>, <<"download", "undionly.kpxe">>, <<"digest", "undionly.kpxe">>,
     <<"download", "ipxe.efi">>, <<"digest", "ipxe.efi">>,
     <<"download", "wimboot">>, <<"digest", "wimboot">> >>

BootloaderPlan ==
  << <<"download", "undionly.kpxe">>, <<"digest", "undionly.kpxe">>,
     <<"download", "ipxe.efi">>, <<"digest", "ipxe.efi">>,
     <<"download", "wimboot">>, <<"digest", "wimboot">>, <<"record", "manifest">> >>

(* Slip: digests are taken of what is there before the download.           *)
DigestsFirst ==
  << <<"download", "kernel">>, <<"digest", "kernel">>, <<"digest", "initrd">>,
     <<"download", "initrd">>, <<"record", "row">> >>

RhelPlan ==
  << <<"download", "kernel">>, <<"download", "initrd">>,
     <<"digest", "kernel">>, <<"digest", "initrd">>, <<"record", "row">> >>

DebianPlan ==
  << <<"cache", "archive">>, <<"digest", "archive">>, <<"extract", "archive">>,
     <<"copy", "kernel">>, <<"copy", "initrd">>, <<"record", "row">> >>

WindowsPlan ==
  << <<"cache", "archive">>, <<"digest", "archive">>, <<"find", "wimboot">>,
     <<"extract", "archive">>, <<"copy", "initrd">>, <<"copyWimboot", "kernel">>,
     <<"record", "row">> >>

Plan(i) == IF i = Root THEN BootloaderPlan
           ELSE IF i \in Rhel THEN RhelPlan
           ELSE IF i \in Debian THEN DebianPlan ELSE WindowsPlan

NoDigests == [part \in Part |-> Absent]

Import ==
  [image : Owners,
   archive : Places,              (* whose archive it unpacks               *)
   wimboot : Content,             (* what --wimboot names, if anything      *)
   step : 0..8,                   (* 0: not begun, 8: ended                 *)
   writing : BOOLEAN,             (* has the file of its step open          *)
   digest : [Part -> Content],
   extracted : Content,           (* what is in the temporary directory     *)
   alone : BOOLEAN]               (* nobody works on what it uses (history) *)

NotBegun == [image |-> Root, archive |-> Root, wimboot |-> Absent, step |-> 0,
             writing |-> FALSE, digest |-> NoDigests, extracted |-> Absent, alone |-> TRUE]
Ended == [NotBegun EXCEPT !.step = 8]

Manifest == [state : {"absent", "unreadable", "written"}, digest : [Part -> Content]]

TypeOK ==
  /\ file \in [Places \X Part -> Content]
  /\ contested \in [Places \X Part -> BOOLEAN]
  /\ row \in [Images -> [Part -> Content]]
  /\ saved \subseteq Images
  /\ manifest \in Manifest
  /\ import \in [Imports -> Import]
  /\ settled \subseteq Owners
  /\ origin \in [Windows -> Content]

(* setup.sh may have imported the boot loaders already.                    *)
Init ==
  \E loaders \in Releases \cup {Absent} :
    /\ file = [f \in Places \X Part |->
                 IF f[1] = Root /\ f[2] \in Loader THEN loaders ELSE Absent]
    /\ manifest = [state |-> IF loaders = Absent THEN "absent" ELSE "written",
                   digest |-> [part \in Part |->
                                 IF part \in Loader THEN loaders ELSE Absent]]
    /\ settled = IF loaders = Absent THEN {} ELSE {Root}
    /\ contested = [f \in Places \X Part |-> FALSE]
    /\ origin = [i \in Windows |-> Absent]
    /\ row = [i \in Images |-> NoDigests] /\ saved = {}
    /\ import = [p \in Imports |-> NotBegun]

-----------------------------------------------------------------------------
(* Processes.                                                              *)

FileOf(place, part) == file[<<place, part>>]

(* The wimboot that is given, or the one of the TFTP root.                 *)
Wimboot(given) == IF given # Absent THEN given ELSE FileOf(Root, "wimboot")

Active == {p \in Imports : import[p].step \in 1..7}

At(p, op) == p \in Active /\ Plan(import[p].image)[import[p].step][1] = op

(* The part that p is at, and the file.                                    *)
ItsPart(p) == Plan(import[p].image)[import[p].step][2]
ItsFile(p) ==
  <<IF ItsPart(p) = "archive" THEN import[p].archive ELSE import[p].image, ItsPart(p)>>

(* A Windows image may be made of the wimboot in the TFTP root, too.       *)
Disturbs(i, j) == i = j \/ (i = Root /\ j \in Windows)

(* Two Windows images may share the name, or the path, of their ISO.       *)
Overlaps(e, f) == Disturbs(e.image, f.image) \/ e.archive = f.archive

Archives(i) == IF i \in Windows THEN Isos ELSE {i}

(* An operator may have put an ISO (found) at the path by then.            *)
Begin(p, i, archive, found) ==
  LET f == <<archive, "archive">>
      new == [NotBegun EXCEPT !.image = i, !.archive = archive, !.step = 1]
  IN
  /\ import[p].step = 0
  /\ found # file[f] => i \in Windows /\ file[f] = Absent
  /\ file' = [file EXCEPT ![f] = found]
  /\ import' = [q \in Imports |->
       IF q = p
       THEN [new EXCEPT !.alone = \A r \in Active : ~ Overlaps(import[r], new)]
       ELSE [import[q] EXCEPT !.alone = @ /\ ~ (q \in Active /\ Overlaps(new, import[q]))]]
  /\ settled' = settled \ {j \in Owners : Disturbs(i, j)}
  /\ origin' = [j \in Windows |-> IF Disturbs(i, j) THEN Absent ELSE origin[j]]
  /\ UNCHANGED <<contested, records>>

(* Every exception and every way to end a process.                         *)
Break(p) ==
  /\ p \in Active
  /\ import' = [import EXCEPT ![p] = Ended]
  /\ UNCHANGED <<files, records, history>>

Done(p) == import' = [import EXCEPT ![p].step = @ + 1, ![p].writing = FALSE]

-----------------------------------------------------------------------------
(* Writing and reading files.                                              *)

Writes(q, f) == q \in Active /\ import[q].writing /\ ItsFile(q) = f

(* open("wb") truncates, whoever else has the file open.                   *)
Open(p) ==
  LET f == ItsFile(p) IN
  /\ ~ import[p].writing
  /\ file' = [file EXCEPT ![f] = Partial]
  /\ contested' = [contested EXCEPT ![f] = \E q \in Imports \ {p} : Writes(q, f)]
  /\ import' = [import EXCEPT ![p].writing = TRUE]

(* Each writer writes from its own position, so that what several of them  *)
(* have been writing may be anything.                                      *)
Close(p, content) ==
  LET f == ItsFile(p) IN
  /\ import[p].writing
  /\ \E result \in IF contested[f] THEN {file[f], content, Partial} ELSE {content} :
       file' = [file EXCEPT ![f] = result]
  /\ Done(p)
  /\ UNCHANGED contested

(* What p has read when it has read a file from start to end.              *)
Read(p, content) == {content} \cup (IF import[p].alone THEN {} ELSE {Partial})

(* The request comes before the file is opened: one that is not answered   *)
(* leaves it alone.  What is at the path of an archive is not asked for    *)
(* again; if nothing is and no URL is given, the import breaks off.        *)
Download(p) ==
  /\ At(p, "download") \/ (At(p, "cache") /\ file[ItsFile(p)] = Absent)
  /\ Open(p)
  /\ UNCHANGED <<records, history>>

(* Slip: what has come in short is removed again.                          *)
EndDownloadCleaned(p) ==
  /\ At(p, "download") \/ At(p, "cache")
  /\ \E content \in Releases \cup {Absent} : Close(p, content)
  /\ UNCHANGED <<records, history>>

(* A connection that ends early looks like the end of the file.            *)
EndDownload(p) ==
  /\ At(p, "download") \/ At(p, "cache")
  /\ \E content \in Releases \cup {Partial} : Close(p, content)
  /\ UNCHANGED <<records, history>>

UseCached(p) ==
  /\ At(p, "cache") /\ ~ import[p].writing
  /\ file[ItsFile(p)] # Absent
  /\ Done(p)
  /\ UNCHANGED <<files, records, history>>

TakeDigest(p) ==
  /\ At(p, "digest")
  /\ \E digest \in Read(p, file[ItsFile(p)]) :
       import' = [import EXCEPT ![p].step = @ + 1, ![p].digest[ItsPart(p)] = digest]
  /\ UNCHANGED <<files, records, history>>

(* Slip: a tarball that ends early is unpacked as far as it goes.          *)
ExtractLeniently(p) ==
  /\ At(p, "extract")
  /\ \E content \in Read(p, file[ItsFile(p)]) :
       import' = [import EXCEPT ![p].step = @ + 1, ![p].extracted = content]
  /\ UNCHANGED <<files, records, history>>

(* tar fails unless the tarball is complete; the files wanted may lie      *)
(* before the end of an ISO that is not.                                   *)
Extract(p) ==
  /\ At(p, "extract")
  /\ \E content \in Read(p, file[ItsFile(p)]) \cup
                    (IF file[ItsFile(p)] = Partial THEN Releases ELSE {}) :
       /\ import[p].image \in Debian => content = file[ItsFile(p)] /\ content # Partial
       /\ import' = [import EXCEPT ![p].step = @ + 1, ![p].extracted = content]
  /\ UNCHANGED <<files, records, history>>

(* given: what is in the file of --wimboot, which nobody else writes to;   *)
(* Absent if there is none.  A path in the TFTP root is the one that is    *)
(* found without.                                                          *)
FindWimboot(p, given) ==
  /\ At(p, "find")
  /\ Wimboot(given) # Absent
  /\ import' = [import EXCEPT ![p].step = @ + 1, ![p].wimboot = given]
  /\ UNCHANGED <<files, records, history>>

Copy(p) ==
  /\ At(p, "copy") \/ At(p, "copyWimboot")
  /\ Open(p)
  /\ UNCHANGED <<records, history>>

EndCopy(p) ==
  /\ \/ At(p, "copy") /\ Close(p, import[p].extracted)
     \/ /\ At(p, "copyWimboot")
        /\ \E content \in IF import[p].wimboot # Absent THEN {import[p].wimboot}
                          ELSE Read(p, FileOf(Root, "wimboot")) :
             Close(p, content)
  /\ UNCHANGED <<records, history>>

-----------------------------------------------------------------------------
(* What an import records at its end.                                      *)

Settle(p) ==
  LET i == import[p].image IN
  /\ settled' = IF import[p].alone THEN settled \cup {i} ELSE settled
  /\ origin' = [j \in Windows |->
                  IF j = i /\ import[p].alone THEN import[p].wimboot ELSE origin[j]]

(* All commands of media_jobs.py replace a row that is there.              *)
SaveImage(p) ==
  /\ At(p, "record") /\ ItsPart(p) = "row"
  /\ row' = [row EXCEPT ![import[p].image] = import[p].digest]
  /\ saved' = saved \cup {import[p].image}
  /\ import' = [import EXCEPT ![p] = Ended]
  /\ Settle(p)
  /\ UNCHANGED <<files, manifest>>

OpenManifest(p) ==
  /\ At(p, "record") /\ ItsPart(p) = "manifest" /\ ~ import[p].writing
  /\ manifest' = [state |-> "unreadable", digest |-> NoDigests]
  /\ import' = [import EXCEPT ![p].writing = TRUE]
  /\ UNCHANGED <<files, row, saved, history>>

SaveManifest(p) ==
  /\ At(p, "record") /\ ItsPart(p) = "manifest" /\ import[p].writing
  /\ manifest' = [state |-> "written", digest |-> import[p].digest]
  /\ import' = [import EXCEPT ![p] = Ended]
  /\ Settle(p)
  /\ UNCHANGED <<files, row, saved>>

Next ==
  \E p \in Imports :
    \/ \E i \in Owners : \E archive \in Archives(i), found \in Content :
         Begin(p, i, archive, found)
    \/ Break(p)
    \/ Download(p) \/ EndDownload(p) \/ UseCached(p) \/ TakeDigest(p)
    \/ Extract(p) \/ (\E given \in Content : FindWimboot(p, given)) \/ Copy(p) \/ EndCopy(p)
    \/ SaveImage(p) \/ OpenManifest(p) \/ SaveManifest(p)

Spec == Init /\ [][Next]_vars

-----------------------------------------------------------------------------
(* Setup status.                                                           *)

HaveRequired == \A name \in {"undionly.kpxe", "ipxe.efi"} : FileOf(Root, name) # Absent
HaveManifest == manifest.state # "absent"

-----------------------------------------------------------------------------
(***************************************************************************)
(* Whatever imports overlap or break off, an image that has a row has the  *)
(* files that its boot script names, so that a machine is never sent to    *)
(* fetch a file that is not there (media_import.py:538-553, 633-650).      *)
(***************************************************************************)
ImagesHaveFiles == \A i \in saved, part \in Boot : FileOf(i, part) # Absent

(***************************************************************************)
(* Once there is a manifest, readable or not, the setup page finds all     *)
(* boot loaders (media_import.py:376-385, setup_status.py:123-140).        *)
(***************************************************************************)
ManifestMeansLoaders == HaveManifest => HaveRequired /\ FileOf(Root, "wimboot") # Absent

(***************************************************************************)
(* What imports have recorded stays true of what is served: the digests in *)
(* the manifest and in the rows of RHEL images are those of the files that *)
(* machines fetch, unless a later import has begun to replace them         *)
(* (media_import.py:381-385, 627-649).                                     *)
(***************************************************************************)
RecordsAreTrue ==
  /\ Root \in settled => /\ manifest.state = "written"
                         /\ \A name \in Loader : manifest.digest[name] = FileOf(Root, name)
  /\ \A i \in settled \cap Rhel :
       i \in saved /\ \A part \in Boot : row[i][part] = FileOf(i, part)

(***************************************************************************)
(* The two files that a Debian image boots are those of one release, that  *)
(* of the recorded tarball, even if an earlier import has left part of a   *)
(* tarball in the cache.  A Windows image boots the wimboot given with its *)
(* import, or else the one of the TFTP root, and what that starts is that  *)
(* of the recorded ISO if the ISO is whole, whoever else has used the ISO  *)
(* (media_import.py:520-535, 412-415, 417-427, 459-466).                   *)
(***************************************************************************)
UnpackedImagesFit ==
  /\ \A i \in settled \cap Debian :
       /\ row[i]["archive"] \in Releases
       /\ \A part \in Boot : FileOf(i, part) = row[i]["archive"]
  /\ \A i \in settled \cap Windows :
       /\ FileOf(i, "kernel") = Wimboot(origin[i])
       /\ row[i]["archive"] \in Releases => FileOf(i, "initrd") = row[i]["archive"]
=============================================================================
