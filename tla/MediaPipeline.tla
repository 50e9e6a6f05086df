--------------------------- MODULE MediaPipeline ---------------------------
(***************************************************************************)
(* What the imports of one Ubuntu release do to the files they share       *)
(* (import_ubuntu in media_import.py): the ISO in the download cache, the  *)
(* kernel and initrd and the ISO under the TFTP root, and the image row.   *)
(* Each import is a process of its own, may break off at any step, and     *)
(* finds what earlier ones and other ones have left.                       *)
(***************************************************************************)
CONSTANTS
  Imports,   (* the processes                                               *)
  Nobody     (* the writer of a file that no process has open               *)

ASSUME PipelineAssumption == Nobody \notin Imports

VARIABLES
  file,      (* content and last writer of each file                        *)
  linked,    (* the served name is a hard link: one file, the cache's       *)
  image,     (* iso_sha256 of the image row                                 *)
  import     (* where each process is and what it knows                     *)

vars == <<file, linked, image, import>>

File == {"cache", "boot", "iso"}

(* partial: anything but the bytes of the release.                         *)
Content == {"absent", "partial", "whole"}
Digest == {"none", "partial", "whole"}

Ended == {"none", "done", "broken"}
Step == Ended \cup {"sums", "connect", "downloading", "verify", "extract", "copy boot",
                    "copying boot", "unlink", "link", "copying iso", "save"}

Import ==
  [at : Step,
   found : BOOLEAN,      (* the cache had an ISO when it looked (history)   *)
   expected : BOOLEAN,   (* a digest to compare with is known               *)
   digest : Digest,      (* what sha256_file has returned                   *)
   extracted : Digest,   (* kernel and initrd in the temporary directory    *)
   clean : BOOLEAN,      (* the cache was not truncated while it was copied *)
   alone : BOOLEAN]      (* no other import was active meanwhile (history)  *)

TypeOK ==
  /\ file \in [File -> [content : Content, writer : Imports \cup {Nobody}]]
  /\ linked \in BOOLEAN
  /\ image \in Digest
  /\ import \in [Imports -> Import]

(* A process that has not begun, or is gone.                               *)
Gone(at) ==
  [at |-> at, found |-> FALSE, expected |-> FALSE, digest |-> "none",
   extracted |-> "none", clean |-> TRUE, alone |-> TRUE]

Init ==
  /\ file = [f \in File |-> [content |-> "absent", writer |-> Nobody]]
  /\ linked = FALSE
  /\ image = "none"
  /\ import = [p \in Imports |-> Gone("none")]

Active == {p \in Imports : import[p].at \notin Ended}

(* What a machine gets when it fetches the ISO.                            *)
Served == IF linked THEN file["cache"].content ELSE file["iso"].content

-----------------------------------------------------------------------------
(* Files.                                                                  *)

(* open("wb") truncates, whoever else is reading or writing.               *)
Truncate(f, p) ==
  file' = [file EXCEPT ![f] = [content |-> "partial", writer |-> p]]

(* Writers write the same bytes, each from its own position: the file has  *)
(* all of them when the last one that truncated it has written all.        *)
Written(f, p, content) ==
  file' = [file EXCEPT ![f].content = IF file[f].writer = p THEN content ELSE @]

Go(p, next) == import' = [import EXCEPT ![p].at = next]

-----------------------------------------------------------------------------
(* import_ubuntu.                                                          *)

Started(p, expected, next) ==
  import' = [q \in Imports |->
               IF q = p THEN [import[p] EXCEPT !.at = next, !.expected = expected,
                                               !.found = file["cache"].content # "absent",
                                               !.alone = Active = {}]
               ELSE [import[q] EXCEPT !.alone = @ /\ q \notin Active]]

(* Slip: the release is downloaded every time.                             *)
BeginAfresh(p, expected, official) ==
  /\ import[p].at = "none"
  /\ Started(p, expected, IF official /\ ~ expected THEN "sums" ELSE "connect")
  /\ UNCHANGED <<file, linked, image>>

(* expected: a SHA256 is given; official: no URL is given, so that the     *)
(* digest may be looked up, but only together with a download.             *)
Begin(p, expected, official) ==
  /\ import[p].at = "none"
  /\ Started(p, expected,
             IF file["cache"].content # "absent" THEN "verify"
             ELSE IF official /\ ~ expected THEN "sums" ELSE "connect")
  /\ UNCHANGED <<file, linked, image>>

(* SHA256SUMS may be unreachable or lack the ISO.                          *)
FetchSums(p) ==
  /\ import[p].at = "sums"
  /\ \E found \in BOOLEAN :
       import' = [import EXCEPT ![p].at = "connect", ![p].expected = found]
  /\ UNCHANGED <<file, linked, image>>

Download(p) ==
  /\ import[p].at = "connect"
  /\ Truncate("cache", p)
  /\ import' = [q \in Imports |->
                  IF q = p THEN [import[p] EXCEPT !.at = "downloading"]
                  ELSE [import[q] EXCEPT !.clean = FALSE]]
  /\ UNCHANGED <<linked, image>>

(* A connection that ends early looks like the end of the file.            *)
EndDownload(p) ==
  /\ import[p].at = "downloading"
  /\ \E content \in {"partial", "whole"} : Written("cache", p, content)
  /\ Go(p, "verify")
  /\ UNCHANGED <<linked, image>>

(* Slip: a digest that does not match is only reported.                    *)
VerifyLeniently(p) ==
  /\ import[p].at = "verify"
  /\ import' = [import EXCEPT ![p].at = "extract", ![p].digest = file["cache"].content]
  /\ UNCHANGED <<file, linked, image>>

(* Slip: what does not match the digest is downloaded again.               *)
VerifyOrDownload(p) ==
  /\ import[p].at = "verify"
  /\ import' = [import EXCEPT ![p].at =
                  IF import[p].expected /\ file["cache"].content # "whole"
                  THEN "connect" ELSE "extract", ![p].digest = file["cache"].content]
  /\ UNCHANGED <<file, linked, image>>

Verify(p) ==
  /\ import[p].at = "verify"
  /\ import[p].expected => file["cache"].content = "whole"
  /\ import' = [import EXCEPT ![p].at = "extract", ![p].digest = file["cache"].content]
  /\ UNCHANGED <<file, linked, image>>

(* The files wanted may lie before the end of an ISO that is not complete. *)
Extract(p) ==
  /\ import[p].at = "extract"
  /\ \E content \in {"partial", "whole"} :
       /\ file["cache"].content = "whole" => content = "whole"
       /\ import' = [import EXCEPT ![p].at = "copy boot", ![p].extracted = content]
  /\ UNCHANGED <<file, linked, image>>

CopyBoot(p) ==
  /\ import[p].at = "copy boot"
  /\ Truncate("boot", p)
  /\ Go(p, "copying boot")
  /\ UNCHANGED <<linked, image>>

BootCopied(p) ==
  /\ import[p].at = "copying boot"
  /\ Written("boot", p, import[p].extracted)
  /\ Go(p, "unlink")
  /\ UNCHANGED <<linked, image>>

(* Slip: an ISO that is served already is left alone.                      *)
UnlinkNothing(p) ==
  /\ import[p].at = "unlink"
  /\ Go(p, IF Served = "absent" THEN "link" ELSE "save")
  /\ UNCHANGED <<file, linked, image>>

(* The name is removed; who is still writing to the file goes on in vain.  *)
Unlink(p) ==
  /\ import[p].at = "unlink"
  /\ file' = [file EXCEPT !["iso"] = [content |-> "absent", writer |-> Nobody]]
  /\ linked' = FALSE
  /\ Go(p, "link")
  /\ UNCHANGED image

Link(p) ==
  /\ import[p].at = "link"
  /\ Served = "absent"
  /\ linked' = TRUE
  /\ Go(p, "save")
  /\ UNCHANGED <<file, image>>

(* Another file system, or another import was faster; if it has made a     *)
(* link, the copy refuses to copy a file onto itself.                      *)
CopyIso(p) ==
  /\ import[p].at = "link"
  /\ ~ linked
  /\ Truncate("iso", p)
  /\ import' = [import EXCEPT ![p].at = "copying iso", ![p].clean = TRUE]
  /\ UNCHANGED <<linked, image>>

IsoCopied(p) ==
  /\ import[p].at = "copying iso"
  /\ \E content \in {"partial", "whole"} :
       /\ import[p].clean => content = file["cache"].content
       /\ Written("iso", p, content)
  /\ Go(p, "save")
  /\ UNCHANGED <<linked, image>>

Save(p) ==
  /\ import[p].at = "save"
  /\ image' = import[p].digest
  /\ import' = [import EXCEPT ![p] = Gone("done")]
  /\ UNCHANGED <<file, linked>>

(* Every exception and every way to end the process: a digest that does    *)
(* not match, a server that answers an error, a full disk, the deadline of *)
(* the job, a restart.  Nothing is cleaned up but the temporary directory. *)
Break(p) ==
  /\ p \in Active
  /\ import' = [import EXCEPT ![p] = Gone("broken")]
  /\ UNCHANGED <<file, linked, image>>

Next ==
  \E p \in Imports :
    \/ \E expected, official \in BOOLEAN : Begin(p, expected, official)
    \/ FetchSums(p) \/ Download(p) \/ EndDownload(p) \/ Verify(p) \/ Extract(p)
    \/ CopyBoot(p) \/ BootCopied(p)
    \/ Unlink(p) \/ Link(p) \/ CopyIso(p) \/ IsoCopied(p)
    \/ Save(p) \/ Break(p)

Spec == Init /\ [][Next]_vars

-----------------------------------------------------------------------------
(***************************************************************************)
(* An import that knows the digest and has had the files for itself saves  *)
(* an image only if the ISO and the boot files it serves are those of the  *)
(* release, whatever broken imports have left in the cache and under the   *)
(* TFTP root (media_import.py:257-292).                                    *)
(***************************************************************************)
KnownReleasesAreWhole ==
  [][\A p \in Imports :
       Save(p) /\ import[p].alone /\ import[p].expected
         => Served = "whole" /\ file["boot"].content = "whole"]_vars

(***************************************************************************)
(* Known or not, the digest that an import writes into the image row is    *)
(* that of the ISO which is served by then (media_import.py:261, 290-292). *)
(***************************************************************************)
RecordedDigestIsServed ==
  [][\A p \in Imports : Save(p) /\ import[p].alone => Served = import[p].digest]_vars

(***************************************************************************)
(* Imports that do not overlap never damage a complete download, to which  *)
(* the served ISO may be a link (media_import.py:257, 290).                *)
(***************************************************************************)
CompleteDownloadsStay ==
  [][(\A p \in Active : import[p].alone) /\ file["cache"].content = "whole"
       => file'["cache"].content = "whole"]_vars

(***************************************************************************)
(* However imports overlap and break off, a complete download is damaged   *)
(* only by one that had looked for the ISO before there was any download   *)
(* of it: what is there at the look, complete, cut short or still coming   *)
(* in, the import leaves alone for ever (media_import.py:257-264).         *)
(***************************************************************************)
OnlyEarlyLooksDamage ==
  [][file["cache"].content = "whole" /\ file'["cache"].content # "whole"
       => \E p \in Imports : Download(p) /\ ~ import[p].found]_vars
=============================================================================
