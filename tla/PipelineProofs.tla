--------------------------- MODULE PipelineProofs ---------------------------
(***************************************************************************)
(* What imports of a release leave in the files they share, for any number *)
(* of imports.  An import that is alone while it is active can rely on     *)
(* what it has found and done itself; the invariant says what that is.     *)
(***************************************************************************)
EXTENDS MediaPipeline, TLAPS

Verified == {"extract", "copy boot", "copying boot", "unlink", "link", "copying iso", "save"}
Extracted == Verified \ {"extract"}
Booted == {"unlink", "link", "copying iso", "save"}

(* Whoever has got past the download finds an ISO in the cache, and later  *)
(* has extracted something.                                                *)
CacheIsThere ==
  \A p \in Imports :
    /\ import[p].at \in {"downloading", "verify"} \cup Verified
         => file["cache"].content # "absent"
    /\ import[p].at \in Extracted => import[p].extracted # "none"

AloneIsAlone == \A p \in Active : import[p].alone => Active = {p}

Undisturbed(p) ==
  /\ import[p].at \in {"sums", "connect"} => file["cache"].content = "absent"
  /\ import[p].at = "downloading"
       => file["cache"].content = "partial" /\ file["cache"].writer = p
  /\ import[p].at \in Verified
       => /\ import[p].digest = file["cache"].content
          /\ import[p].expected => file["cache"].content = "whole"
  /\ import[p].at \in Extracted /\ file["cache"].content = "whole"
       => import[p].extracted = "whole"
  /\ import[p].at = "copying boot" => file["boot"].writer = p
  /\ import[p].at \in Booted /\ file["cache"].content = "whole"
       => file["boot"].content = "whole"
  /\ import[p].at = "copying iso"
       => import[p].clean /\ file["iso"].writer = p /\ ~ linked
  /\ import[p].at = "save" => Served = file["cache"].content

PipelineInv ==
  /\ TypeOK /\ CacheIsThere /\ AloneIsAlone
  /\ \A p \in Active : import[p].alone => Undisturbed(p)

(* A complete download is not touched by an import that is alone.          *)
CompleteStays ==
  (\A p \in Active : import[p].alone) /\ file["cache"].content = "whole"
    => file'["cache"].content = "whole"

FileRow == [content : Content, writer : Imports \cup {Nobody}]

-----------------------------------------------------------------------------
(* A step of an active import: the others are disturbed already, so that   *)
(* only what the import itself relies on has to be established.            *)
LEMMA StepOfOne ==
  ASSUME PipelineInv, NEW p \in Active, TypeOK',
         import'[p].at \notin Ended => import'[p].alone = import[p].alone,
         \A q \in Imports \ {p} :
           /\ import'[q].at = import[q].at /\ import'[q].alone = import[q].alone
           /\ import'[q].extracted = import[q].extracted,
         file["cache"].content # "absent" => file'["cache"].content # "absent",
         import'[p].at \in {"downloading", "verify"} \cup Verified
           => file'["cache"].content # "absent",
         import'[p].at \in Extracted => import'[p].extracted # "none",
         import[p].alone /\ import'[p].at \notin Ended => Undisturbed(p)'
  PROVE  PipelineInv'
<1>1. p \in Imports /\ Active' \subseteq Active /\ Active \subseteq Imports
  BY DEF Active
<1>2. CacheIsThere'  BY DEF PipelineInv, CacheIsThere
<1>3. ASSUME NEW q \in Active', import'[q].alone
      PROVE  q = p /\ Active' = {q} /\ Undisturbed(q)'
  <2>1. q \in Active /\ import[q].alone
    <3>1. q \in Imports /\ import'[q].at \notin Ended  BY <1>3 DEF Active
    <3>2. CASE q = p  BY <1>3, <3>1, <3>2
    <3>3. CASE q # p  BY <1>1, <1>3, <3>1, <3>3
    <3> QED  BY <3>2, <3>3
  <2>2. Active = {q}  BY <2>1 DEF PipelineInv, AloneIsAlone
  <2>3. q = p /\ Active' = {q}  BY <1>1, <2>2
  <2>4. import[p].alone /\ import'[p].at \notin Ended
    BY <1>3, <2>1, <2>3 DEF Active
  <2>5. Undisturbed(p)'  BY <2>4
  <2> QED  BY <2>3, <2>5
<1>4. AloneIsAlone'  BY <1>3 DEF AloneIsAlone
<1>5. \A q \in Active' : import'[q].alone => Undisturbed(q)'  BY <1>3
<1> QED  BY <1>2, <1>4, <1>5 DEF PipelineInv

LEMMA ActiveSteps ==
  ASSUME NEW p \in Imports, import[p].at \notin Ended
  PROVE  p \in Active
BY DEF Active

(* Going on to the next step.                                              *)
LEMMA GoOn ==
  ASSUME TypeOK, NEW p \in Imports, NEW next \in Step, Go(p, next)
  PROVE  /\ import' \in [Imports -> Import]
         /\ import'[p].at = next
         /\ import'[p].expected = import[p].expected /\ import'[p].digest = import[p].digest
         /\ import'[p].extracted = import[p].extracted /\ import'[p].clean = import[p].clean
         /\ import'[p].alone = import[p].alone
         /\ \A q \in Imports \ {p} : import'[q] = import[q]
<1>1. PICK row : row = [import[p] EXCEPT !.at = next]  OBVIOUS
<1>2. import' = [import EXCEPT ![p] = row]  BY <1>1 DEF Go
<1>3. import[p] \in Import /\ import \in [Imports -> Import]  BY DEF TypeOK
<1>4. /\ row \in Import /\ row.at = next
      /\ row.expected = import[p].expected /\ row.digest = import[p].digest
      /\ row.extracted = import[p].extracted /\ row.clean = import[p].clean
      /\ row.alone = import[p].alone
  BY <1>1, <1>3 DEF Import
<1>5. import'[p] = row /\ \A q \in Imports \ {p} : import'[q] = import[q]
  BY <1>2, <1>3
<1>6. import' \in [Imports -> Import]  BY <1>2, <1>3, <1>4
<1> QED  BY <1>4, <1>5, <1>6

(* What the two ways of writing do to the files.                           *)
LEMMA Truncates ==
  ASSUME TypeOK, NEW f \in File, NEW p \in Imports, Truncate(f, p)
  PROVE  /\ file' \in [File -> FileRow]
         /\ file'[f].content = "partial" /\ file'[f].writer = p
         /\ \A g \in File \ {f} : file'[g] = file[g]
<1>1. PICK row : row = [content |-> "partial", writer |-> p]  OBVIOUS
<1>2. row \in FileRow /\ row.content = "partial" /\ row.writer = p
  BY <1>1 DEF FileRow, Content
<1>3. file' = [file EXCEPT ![f] = row] /\ file \in [File -> FileRow]
  BY <1>1 DEF Truncate, TypeOK, FileRow
<1> QED  BY <1>2, <1>3

LEMMA Writes ==
  ASSUME TypeOK, NEW f \in File, NEW p \in Imports, NEW content \in Content,
         Written(f, p, content)
  PROVE  /\ file' \in [File -> FileRow]
         /\ file'[f].content = content \/ file'[f].content = file[f].content
         /\ file[f].writer = p => file'[f].content = content
         /\ file'[f].writer = file[f].writer
         /\ \A g \in File \ {f} : file'[g] = file[g]
<1>1. PICK new : new = IF file[f].writer = p THEN content ELSE file[f].content
  OBVIOUS
<1>2. PICK row : row = [file[f] EXCEPT !.content = new]  OBVIOUS
<1>3. file \in [File -> FileRow] /\ file[f] \in FileRow  BY DEF TypeOK, FileRow
<1>4. new \in Content  BY <1>1, <1>3 DEF FileRow
<1>5. row \in FileRow /\ row.content = new /\ row.writer = file[f].writer
  BY <1>2, <1>3, <1>4 DEF FileRow
<1>6. file' = [file EXCEPT ![f] = row]  BY <1>1, <1>2 DEF Written
<1> QED  BY <1>1, <1>3, <1>5, <1>6

-----------------------------------------------------------------------------
(* An import that begins disturbs all others, and is alone if there are    *)
(* none.                                                                   *)
LEMMA BeginKeeps ==
  ASSUME PipelineInv, NEW p \in Imports, NEW expected \in BOOLEAN,
         NEW official \in BOOLEAN, Begin(p, expected, official)
  PROVE  PipelineInv' /\ CompleteStays
<1> DEFINE next == IF file["cache"].content # "absent" THEN "verify"
                   ELSE IF official /\ ~ expected THEN "sums" ELSE "connect"
<1>1. /\ import[p].at = "none" /\ UNCHANGED <<file, linked, image>>
      /\ Started(p, expected, next)
  BY DEF Begin
<1>2. /\ next \in {"verify", "sums", "connect"}
      /\ next = "verify" => file["cache"].content # "absent"
      /\ next # "verify" => file["cache"].content = "absent"
  OBVIOUS
<1> HIDE DEF next
<1>3. import \in [Imports -> Import]  BY DEF PipelineInv, TypeOK
<1>4. PICK first \in BOOLEAN : first = (Active = {})  OBVIOUS
<1> DEFINE there == file["cache"].content # "absent"
<1>5. PICK row : row = [import[p] EXCEPT !.at = next, !.expected = expected,
                                          !.found = there, !.alone = first]
  OBVIOUS
<1>6. row \in Import /\ row.at = next /\ row.alone = first /\ row.expected = expected
  BY <1>2, <1>3, <1>5 DEF Import, Step
<1>7. import'[p] = row  BY <1>1, <1>4, <1>5 DEF Started
<1> HIDE DEF there
<1>8. ASSUME NEW q \in Imports \ {p}
      PROVE  /\ import'[q] \in Import /\ import'[q].at = import[q].at
             /\ import'[q].extracted = import[q].extracted
             /\ import'[q].alone => import[q].alone /\ q \notin Active
  <2>1. PICK a \in BOOLEAN : a = (import[q].alone /\ q \notin Active)  OBVIOUS
  <2>2. import'[q] = [import[q] EXCEPT !.alone = a]  BY <1>1, <2>1 DEF Started
  <2>3. import[q] \in Import  BY <1>3
  <2> QED  BY <2>1, <2>2, <2>3 DEF Import
<1>9. import' \in [Imports -> Import]
  <2>1. \A q \in Imports : import'[q] \in Import  BY <1>6, <1>7, <1>8
  <2>2. import' = [q \in Imports |-> import'[q]]  BY <1>1 DEF Started
  <2> QED  BY <2>1, <2>2
<1>10. TypeOK'  BY <1>1, <1>9 DEF PipelineInv, TypeOK
<1>11. CacheIsThere'
  BY <1>1, <1>2, <1>6, <1>7, <1>8 DEF PipelineInv, CacheIsThere, Verified, Extracted
<1>12. ASSUME NEW q \in Active', import'[q].alone
       PROVE  q = p /\ Active' = {p}
  <2>1. q = p
    <3>1. SUFFICES ASSUME q # p PROVE FALSE  OBVIOUS
    <3>2. q \in Imports \ {p} /\ import'[q].at \notin Ended  BY <3>1 DEF Active
    <3> QED  BY <1>8, <1>12, <3>2, ActiveSteps
  <2>2. Active = {}  BY <1>4, <1>6, <1>7, <1>12, <2>1
  <2>3. \A s \in Imports \ {p} : import'[s].at \in Ended  BY <1>8, <2>2 DEF Active
  <2>4. p \in Active'  BY <2>1
  <2>5. \A s \in Active' : s = p  BY <2>3 DEF Active
  <2> QED  BY <2>1, <2>4, <2>5
<1>13. AloneIsAlone'  BY <1>12 DEF AloneIsAlone
<1>14. Undisturbed(p)'
  BY <1>1, <1>2, <1>6, <1>7 DEF Undisturbed, Verified, Extracted, Booted
<1>15. \A q \in Active' : import'[q].alone => Undisturbed(q)'  BY <1>12, <1>14
<1> QED  BY <1>1, <1>10, <1>11, <1>13, <1>15 DEF PipelineInv, CompleteStays

LEMMA FetchSumsKeeps ==
  ASSUME PipelineInv, NEW p \in Imports, FetchSums(p)
  PROVE  PipelineInv' /\ CompleteStays
<1>1. PICK found \in BOOLEAN :
        import' = [import EXCEPT ![p].at = "connect", ![p].expected = found]
  BY DEF FetchSums
<1>2. PICK row : row = [import[p] EXCEPT !.at = "connect", !.expected = found]
  OBVIOUS
<1>3. import[p].at = "sums" /\ UNCHANGED <<file, linked, image>>  BY DEF FetchSums
<1>4. import \in [Imports -> Import]  BY DEF PipelineInv, TypeOK
<1>5. row \in Import /\ row.at = "connect" /\ row.alone = import[p].alone
  BY <1>2, <1>4 DEF Import, Step, Ended
<1>6. import' = [import EXCEPT ![p] = row]  BY <1>1, <1>2, <1>4
<1>7. import' \in [Imports -> Import]  BY <1>4, <1>5, <1>6
<1>8. import'[p] = row /\ \A q \in Imports \ {p} : import'[q] = import[q]
  BY <1>4, <1>6
<1>9. TypeOK'  BY <1>3, <1>7 DEF PipelineInv, TypeOK
<1>10. p \in Active  BY <1>3, ActiveSteps DEF Ended
<1>11. import[p].alone => Undisturbed(p)'
  BY <1>3, <1>5, <1>8, <1>10
  DEF PipelineInv, Undisturbed, Verified, Extracted, Booted
<1>12. PipelineInv'
  BY <1>3, <1>5, <1>8, <1>9, <1>10, <1>11, StepOfOne DEF Verified, Extracted
<1> QED  BY <1>3, <1>12 DEF CompleteStays

(* Only an import that has found no ISO downloads one.                     *)
LEMMA DownloadKeeps ==
  ASSUME PipelineInv, NEW p \in Imports, Download(p)
  PROVE  PipelineInv' /\ CompleteStays
<1>1. /\ import[p].at = "connect" /\ Truncate("cache", p)
      /\ import' = [q \in Imports |->
                      IF q = p THEN [import[p] EXCEPT !.at = "downloading"]
                      ELSE [import[q] EXCEPT !.clean = FALSE]]
      /\ UNCHANGED <<linked, image>>
  BY DEF Download
<1>2. "cache" \in File  BY DEF File
<1>3. /\ file' \in [File -> FileRow]
      /\ file'["cache"].content = "partial" /\ file'["cache"].writer = p
  BY <1>1, <1>2, Truncates DEF PipelineInv
<1>4. import \in [Imports -> Import]  BY DEF PipelineInv, TypeOK
<1>5. ASSUME NEW q \in Imports \ {p}
      PROVE  /\ import'[q] \in Import
             /\ import'[q].at = import[q].at /\ import'[q].alone = import[q].alone
             /\ import'[q].extracted = import[q].extracted
  BY <1>1, <1>4 DEF Import
<1>6. /\ import'[p] \in Import /\ import'[p].at = "downloading"
      /\ import'[p].alone = import[p].alone
  BY <1>1, <1>4 DEF Import, Step
<1>7. import' \in [Imports -> Import]
  <2>1. import' = [q \in Imports |-> import'[q]]  BY <1>1
  <2> QED  BY <1>5, <1>6, <2>1
<1>8. TypeOK'  BY <1>1, <1>3, <1>7 DEF PipelineInv, TypeOK, FileRow
<1>9. p \in Active  BY <1>1, ActiveSteps DEF Ended
<1>10. Undisturbed(p)'
  BY <1>3, <1>6 DEF Undisturbed, Verified, Extracted, Booted
<1>11. PipelineInv'
  BY <1>3, <1>5, <1>6, <1>8, <1>9, <1>10, StepOfOne DEF Verified, Extracted
<1>12. import[p].alone => file["cache"].content = "absent"
  BY <1>1, <1>9 DEF PipelineInv, Undisturbed
<1> QED  BY <1>9, <1>11, <1>12 DEF CompleteStays

LEMMA EndDownloadKeeps ==
  ASSUME PipelineInv, NEW p \in Imports, EndDownload(p)
  PROVE  PipelineInv' /\ CompleteStays
<1>1. /\ import[p].at = "downloading" /\ Go(p, "verify") /\ UNCHANGED <<linked, image>>
  BY DEF EndDownload
<1>2. PICK content \in {"partial", "whole"} : Written("cache", p, content)
  BY DEF EndDownload
<1>3. "cache" \in File /\ content \in Content /\ "verify" \in Step
  BY DEF File, Content, Step
<1>4. /\ file' \in [File -> FileRow]
      /\ file'["cache"].content = content \/ file'["cache"].content = file["cache"].content
  BY <1>2, <1>3, Writes DEF PipelineInv
<1>5. /\ import' \in [Imports -> Import] /\ import'[p].at = "verify"
      /\ import'[p].alone = import[p].alone
      /\ \A q \in Imports \ {p} : import'[q] = import[q]
  BY <1>1, <1>3, GoOn DEF PipelineInv
<1>6. p \in Active  BY <1>1, ActiveSteps DEF Ended
<1>7. file["cache"].content # "absent" /\ file'["cache"].content # "absent"
  BY <1>1, <1>2, <1>4 DEF PipelineInv, CacheIsThere
<1>8. TypeOK'  BY <1>1, <1>4, <1>5, <1>7 DEF PipelineInv, TypeOK, FileRow
<1>9. Undisturbed(p)'  BY <1>5 DEF Undisturbed, Verified, Extracted, Booted
<1>10. PipelineInv'
  BY <1>5, <1>6, <1>7, <1>8, <1>9, StepOfOne DEF Verified, Extracted
<1>11. import[p].alone => file["cache"].content = "partial"
  BY <1>1, <1>6 DEF PipelineInv, Undisturbed
<1> QED  BY <1>6, <1>10, <1>11 DEF CompleteStays

(* A known digest is compared with what is in the cache by now.            *)
LEMMA VerifyKeeps ==
  ASSUME PipelineInv, NEW p \in Imports, Verify(p)
  PROVE  PipelineInv' /\ CompleteStays
<1> DEFINE cache == file["cache"].content
<1>1. /\ import[p].at = "verify" /\ (import[p].expected => cache = "whole")
      /\ import' = [import EXCEPT ![p].at = "extract", ![p].digest = cache]
      /\ UNCHANGED <<file, linked, image>>
  BY DEF Verify
<1>2. import \in [Imports -> Import] /\ file \in [File -> FileRow]
  BY DEF PipelineInv, TypeOK, FileRow
<1>3. cache # "absent"  BY <1>1 DEF PipelineInv, CacheIsThere
<1>4. cache \in Digest  BY <1>2, <1>3 DEF FileRow, File, Content, Digest
<1> HIDE DEF cache
<1>5. PICK row : row = [import[p] EXCEPT !.at = "extract", !.digest = cache]
  OBVIOUS
<1>6. /\ row \in Import /\ row.at = "extract" /\ row.digest = cache
      /\ row.alone = import[p].alone /\ row.expected = import[p].expected
  BY <1>2, <1>4, <1>5 DEF Import, Step
<1>7. import' = [import EXCEPT ![p] = row]  BY <1>1, <1>2, <1>5
<1>8. import' \in [Imports -> Import]  BY <1>2, <1>6, <1>7
<1>9. import'[p] = row /\ \A q \in Imports \ {p} : import'[q] = import[q]
  BY <1>2, <1>7
<1>10. TypeOK'  BY <1>1, <1>8 DEF PipelineInv, TypeOK
<1>11. p \in Active  BY <1>1, ActiveSteps DEF Ended
<1>12. Undisturbed(p)'
  BY <1>1, <1>6, <1>9 DEF Undisturbed, Verified, Extracted, Booted, cache
<1>13. PipelineInv'
  BY <1>1, <1>3, <1>6, <1>9, <1>10, <1>11, <1>12, StepOfOne
  DEF cache, Verified, Extracted
<1> QED  BY <1>1, <1>13 DEF CompleteStays

LEMMA ExtractKeeps ==
  ASSUME PipelineInv, NEW p \in Imports, Extract(p)
  PROVE  PipelineInv' /\ CompleteStays
<1>1. import[p].at = "extract" /\ UNCHANGED <<file, linked, image>>  BY DEF Extract
<1>2. PICK content \in {"partial", "whole"} :
        /\ file["cache"].content = "whole" => content = "whole"
        /\ import' = [import EXCEPT ![p].at = "copy boot", ![p].extracted = content]
  BY DEF Extract
<1>3. import \in [Imports -> Import]  BY DEF PipelineInv, TypeOK
<1>4. PICK row : row = [import[p] EXCEPT !.at = "copy boot", !.extracted = content]
  OBVIOUS
<1>5. /\ row \in Import /\ row.at = "copy boot" /\ row.extracted = content
      /\ row.digest = import[p].digest
      /\ row.alone = import[p].alone /\ row.expected = import[p].expected
  BY <1>3, <1>4 DEF Import, Step, Digest
<1>6. import' = [import EXCEPT ![p] = row]  BY <1>2, <1>3, <1>4
<1>7. import' \in [Imports -> Import]  BY <1>3, <1>5, <1>6
<1>8. import'[p] = row /\ \A q \in Imports \ {p} : import'[q] = import[q]
  BY <1>3, <1>6
<1>9. TypeOK'  BY <1>1, <1>7 DEF PipelineInv, TypeOK
<1>10. p \in Active  BY <1>1, ActiveSteps DEF Ended
<1>11. file["cache"].content # "absent"
  BY <1>1 DEF PipelineInv, CacheIsThere, Verified
<1>12. import[p].alone => Undisturbed(p)'
  BY <1>1, <1>2, <1>5, <1>8, <1>10
  DEF PipelineInv, Undisturbed, Verified, Extracted, Booted
<1>13. PipelineInv'
  BY <1>1, <1>5, <1>8, <1>9, <1>10, <1>11, <1>12, StepOfOne
<1> QED  BY <1>1, <1>13 DEF CompleteStays

(* After verification an import goes on step by step and leaves the cache  *)
(* alone; what it relies on is the business of each step.                  *)
LEMMA LaterStep ==
  ASSUME PipelineInv, NEW p \in Imports, import[p].at \in Verified,
         NEW next \in Verified, Go(p, next),
         file' \in [File -> FileRow], file'["cache"] = file["cache"],
         linked' \in BOOLEAN, image' \in Digest,
         import[p].at \in Extracted \/ next \notin Extracted,
         import[p].alone => Undisturbed(p)'
  PROVE  PipelineInv' /\ CompleteStays
<1>1. next \in Step  BY DEF Verified, Step, Ended
<1>2. /\ import' \in [Imports -> Import]
      /\ import'[p].at = next /\ import'[p].alone = import[p].alone
      /\ \A q \in Imports \ {p} : import'[q] = import[q]
  BY <1>1, GoOn DEF PipelineInv
<1>3. file["cache"].content # "absent"  BY DEF PipelineInv, CacheIsThere
<1>4. TypeOK'  BY <1>2, <1>3 DEF TypeOK, FileRow
<1>5. p \in Active  BY ActiveSteps DEF Ended, Verified
<1>6. import[p].alone /\ import'[p].at \notin Ended => Undisturbed(p)'
  BY <1>2 DEF Ended
<1>7. import'[p].at \in Extracted => import'[p].extracted # "none"
  BY <1>1, <1>2, GoOn DEF PipelineInv, CacheIsThere
<1>8. PipelineInv'  BY <1>2, <1>3, <1>4, <1>5, <1>6, <1>7, StepOfOne
<1> QED  BY <1>8 DEF CompleteStays

(* What a later step starts from, and what it takes along.                 *)
Carries(p, next) ==
  /\ import'[p].at = next /\ import'[p].clean = import[p].clean
  /\ import'[p].expected = import[p].expected
  /\ import'[p].digest = import[p].digest
  /\ import'[p].extracted = import[p].extracted
  /\ import[p].alone => Undisturbed(p)
  /\ import[p].at \in Extracted => import[p].extracted \in {"partial", "whole"}
  /\ file \in [File -> FileRow] /\ linked \in BOOLEAN /\ image \in Digest

LEMMA LaterStart ==
  ASSUME PipelineInv, NEW p \in Imports, import[p].at \in Verified,
         NEW next \in Verified, Go(p, next)
  PROVE  Carries(p, next)
<1>1. next \in Step  BY DEF Verified, Step, Ended
<1>2. p \in Active  BY ActiveSteps DEF Ended, Verified
<1>3. import[p].extracted \in Digest  BY DEF PipelineInv, TypeOK, Import
<1>4. import[p].at \in Extracted => import[p].extracted \in {"partial", "whole"}
  BY <1>3 DEF PipelineInv, CacheIsThere, Digest
<1> QED  BY <1>1, <1>2, <1>4, GoOn DEF PipelineInv, TypeOK, FileRow, Carries

LEMMA CopyBootKeeps ==
  ASSUME PipelineInv, NEW p \in Imports, CopyBoot(p)
  PROVE  PipelineInv' /\ CompleteStays
<1>1. /\ import[p].at = "copy boot" /\ Go(p, "copying boot")
      /\ Truncate("boot", p) /\ UNCHANGED <<linked, image>>
  BY DEF CopyBoot
<1>2. /\ import[p].at \in Extracted /\ import[p].at \in Verified
      /\ "copying boot" \in Verified
      /\ "boot" \in File /\ "cache" \in File
  BY <1>1 DEF Extracted, Verified, File
<1>3. /\ file' \in [File -> FileRow] /\ file'["cache"] = file["cache"]
      /\ file'["boot"].writer = p
  BY <1>1, <1>2, Truncates DEF PipelineInv
<1>4. Carries(p, "copying boot")  BY <1>1, <1>2, LaterStart
<1>5. import[p].alone => Undisturbed(p)'
  BY <1>1, <1>2, <1>3, <1>4
  DEF Carries, Undisturbed, Verified, Extracted, Booted
<1> QED  BY <1>1, <1>2, <1>3, <1>5, <1>4, LaterStep DEF Carries

LEMMA BootCopiedKeeps ==
  ASSUME PipelineInv, NEW p \in Imports, BootCopied(p)
  PROVE  PipelineInv' /\ CompleteStays
<1>1. PICK content : content = import[p].extracted  OBVIOUS
<1>2. /\ import[p].at = "copying boot" /\ Go(p, "unlink")
      /\ UNCHANGED <<linked, image>>
  BY DEF BootCopied
<1>3. Written("boot", p, content)  BY <1>1 DEF BootCopied
<1>4. /\ import[p].at \in Extracted /\ import[p].at \in Verified /\ "unlink" \in Verified
      /\ "boot" \in File /\ "cache" \in File
  BY <1>2 DEF Extracted, Verified, File
<1>5. content \in {"partial", "whole"}  BY <1>1, <1>2, <1>4, LaterStart DEF Carries
<1>6. content \in Content  BY <1>5 DEF Content
<1>7. /\ file' \in [File -> FileRow] /\ file'["cache"] = file["cache"]
      /\ file["boot"].writer = p => file'["boot"].content = content
  BY <1>3, <1>4, <1>6, Writes DEF PipelineInv
<1>8. Carries(p, "unlink")  BY <1>2, <1>4, LaterStart
<1>9. import[p].alone => Undisturbed(p)'
  BY <1>1, <1>2, <1>4, <1>7, <1>8
  DEF Carries, Undisturbed, Verified, Extracted, Booted
<1> QED  BY <1>2, <1>4, <1>7, <1>9, <1>8, LaterStep DEF Carries

LEMMA UnlinkKeeps ==
  ASSUME PipelineInv, NEW p \in Imports, Unlink(p)
  PROVE  PipelineInv' /\ CompleteStays
<1>1. PICK row : row = [content |-> "absent", writer |-> Nobody]  OBVIOUS
<1>2. /\ import[p].at = "unlink" /\ Go(p, "link")
      /\ file' = [file EXCEPT !["iso"] = row] /\ linked' = FALSE /\ image' = image
  BY <1>1 DEF Unlink
<1>3. /\ import[p].at \in Extracted /\ import[p].at \in Verified /\ "link" \in Verified
      /\ "iso" \in File /\ "cache" \in File /\ "boot" \in File
  BY <1>2 DEF Extracted, Verified, File
<1>4. row \in FileRow  BY <1>1 DEF FileRow, Content
<1>5. /\ file' \in [File -> FileRow] /\ file'["cache"] = file["cache"]
      /\ file'["boot"] = file["boot"]
  BY <1>2, <1>3, <1>4, LaterStart DEF Carries
<1>6. Carries(p, "link")  BY <1>2, <1>3, LaterStart
<1>7. import[p].alone => Undisturbed(p)'
  BY <1>2, <1>3, <1>5, <1>6
  DEF Carries, Undisturbed, Verified, Extracted, Booted
<1> QED  BY <1>2, <1>3, <1>5, <1>7, <1>6, LaterStep DEF Carries

LEMMA LinkKeeps ==
  ASSUME PipelineInv, NEW p \in Imports, Link(p)
  PROVE  PipelineInv' /\ CompleteStays
<1>1. /\ import[p].at = "link" /\ Go(p, "save")
      /\ linked' = TRUE /\ UNCHANGED <<file, image>>
  BY DEF Link
<1>2. /\ import[p].at \in Extracted /\ import[p].at \in Verified /\ "save" \in Verified
  BY <1>1 DEF Extracted, Verified
<1>3. Carries(p, "save")  BY <1>1, <1>2, LaterStart
<1>4. import[p].alone => Undisturbed(p)'
  BY <1>1, <1>2, <1>3
  DEF Carries, Undisturbed, Verified, Extracted, Booted, Served
<1> QED  BY <1>1, <1>2, <1>4, <1>3, LaterStep DEF Carries

(* A copy starts over what another import may have left of one.            *)
LEMMA CopyIsoKeeps ==
  ASSUME PipelineInv, NEW p \in Imports, CopyIso(p)
  PROVE  PipelineInv' /\ CompleteStays
<1>1. /\ import[p].at = "link" /\ ~ linked /\ Truncate("iso", p)
      /\ import' = [import EXCEPT ![p].at = "copying iso", ![p].clean = TRUE]
      /\ UNCHANGED <<linked, image>>
  BY DEF CopyIso
<1>2. /\ import[p].at \in Extracted /\ import[p].at \in Verified
      /\ "iso" \in File /\ "cache" \in File /\ "boot" \in File
  BY <1>1 DEF Extracted, Verified, File
<1>3. /\ file' \in [File -> FileRow] /\ file'["cache"] = file["cache"]
      /\ file'["boot"] = file["boot"] /\ file'["iso"].writer = p
  BY <1>1, <1>2, Truncates DEF PipelineInv
<1>4. import \in [Imports -> Import] /\ linked \in BOOLEAN /\ image \in Digest
  BY DEF PipelineInv, TypeOK
<1>5. PICK row : row = [import[p] EXCEPT !.at = "copying iso", !.clean = TRUE]
  OBVIOUS
<1>6. /\ row \in Import /\ row.at = "copying iso" /\ row.clean = TRUE
      /\ row.digest = import[p].digest /\ row.extracted = import[p].extracted
      /\ row.alone = import[p].alone /\ row.expected = import[p].expected
  BY <1>4, <1>5 DEF Import, Step
<1>7. import' = [import EXCEPT ![p] = row]  BY <1>1, <1>4, <1>5
<1>8. import' \in [Imports -> Import]  BY <1>4, <1>6, <1>7
<1>9. import'[p] = row /\ \A q \in Imports \ {p} : import'[q] = import[q]
  BY <1>4, <1>7
<1>10. file["cache"].content # "absent" /\ row.extracted # "none"
  BY <1>2, <1>6 DEF PipelineInv, CacheIsThere
<1>11. TypeOK'  BY <1>1, <1>3, <1>4, <1>8, <1>10 DEF TypeOK, FileRow
<1>12. p \in Active  BY <1>1, ActiveSteps DEF Ended
<1>13. ASSUME import[p].alone PROVE Undisturbed(p)'
  <2>1. Undisturbed(p) /\ import[p].at = "link" /\ ~ linked'
    BY <1>1, <1>12, <1>13 DEF PipelineInv
  <2> QED
    BY <1>3, <1>6, <1>9, <2>1 DEF Undisturbed, Verified, Extracted, Booted
<1>14. PipelineInv'
  BY <1>3, <1>6, <1>9, <1>10, <1>11, <1>12, <1>13, StepOfOne
<1> QED  BY <1>3, <1>14 DEF CompleteStays

LEMMA IsoCopiedKeeps ==
  ASSUME PipelineInv, NEW p \in Imports, IsoCopied(p)
  PROVE  PipelineInv' /\ CompleteStays
<1>1. import[p].at = "copying iso" /\ Go(p, "save") /\ UNCHANGED <<linked, image>>
  BY DEF IsoCopied
<1>2. PICK content \in {"partial", "whole"} :
        /\ import[p].clean => content = file["cache"].content
        /\ Written("iso", p, content)
  BY DEF IsoCopied
<1>3. /\ import[p].at \in Extracted /\ import[p].at \in Verified /\ "save" \in Verified
      /\ "iso" \in File /\ "cache" \in File /\ "boot" \in File /\ content \in Content
  BY <1>1 DEF Extracted, Verified, File, Content
<1>4. /\ file' \in [File -> FileRow] /\ file'["cache"] = file["cache"]
      /\ file'["boot"] = file["boot"]
      /\ file["iso"].writer = p => file'["iso"].content = content
  BY <1>2, <1>3, Writes DEF PipelineInv
<1>5. Carries(p, "save")  BY <1>1, <1>3, LaterStart
<1>6. ASSUME import[p].alone PROVE Undisturbed(p)'
  <2>1. /\ ~ linked' /\ file'["iso"].content = file["cache"].content
        /\ file["cache"].content = "whole" => file["boot"].content = "whole"
        /\ import[p].digest = file["cache"].content
        /\ import[p].expected => file["cache"].content = "whole"
        /\ file["cache"].content = "whole" => import[p].extracted = "whole"
    BY <1>1, <1>2, <1>3, <1>4, <1>5, <1>6
    DEF Carries, Undisturbed, Verified, Extracted, Booted
  <2>2. Served' = file'["cache"].content  BY <1>4, <2>1 DEF Served
  <2>3. import'[p].at = "save"  BY <1>5 DEF Carries
  <2> QED  BY <1>4, <1>5, <2>1, <2>2, <2>3 DEF Carries, Undisturbed
<1> QED  BY <1>1, <1>3, <1>4, <1>6, <1>5, LaterStep DEF Carries

(* A process that is gone takes what it knew with it.                      *)
LEMMA GoneKeeps ==
  ASSUME PipelineInv, NEW p \in Active, NEW at \in {"done", "broken"},
         import' = [import EXCEPT ![p] = Gone(at)], image' \in Digest,
         UNCHANGED <<file, linked>>
  PROVE  PipelineInv' /\ CompleteStays
<1>1. PICK row : row = Gone(at)  OBVIOUS
<1>2. row \in Import /\ row.at = at  BY <1>1 DEF Gone, Import, Step, Ended, Digest
<1>3. p \in Imports /\ import \in [Imports -> Import]
  BY DEF Active, PipelineInv, TypeOK
<1>4. /\ import' \in [Imports -> Import] /\ import'[p].at = at
      /\ \A q \in Imports \ {p} : import'[q] = import[q]
  BY <1>1, <1>2, <1>3
<1>5. TypeOK'  BY <1>4 DEF PipelineInv, TypeOK
<1>6. /\ at \in Ended /\ at \notin Extracted
      /\ at \notin {"downloading", "verify"} \cup Verified
  BY DEF Ended, Verified, Extracted
<1>7. PipelineInv'  BY <1>3, <1>4, <1>5, <1>6, StepOfOne
<1> QED  BY <1>7 DEF CompleteStays

(* What is saved is what has been verified and is served.                  *)
LEMMA SaveKeeps ==
  ASSUME PipelineInv, NEW p \in Imports, Save(p)
  PROVE  /\ PipelineInv' /\ CompleteStays
         /\ import[p].alone => Served = import[p].digest
         /\ import[p].alone /\ import[p].expected
              => Served = "whole" /\ file["boot"].content = "whole"
<1>1. /\ import[p].at = "save" /\ import' = [import EXCEPT ![p] = Gone("done")]
      /\ image' = import[p].digest /\ UNCHANGED <<file, linked>>
  BY DEF Save
<1>2. import[p].at \in Verified /\ import[p].at \in Booted
  BY <1>1 DEF Verified, Booted
<1>3. image' \in Digest  BY <1>1 DEF PipelineInv, TypeOK, Import
<1>4. p \in Active  BY <1>1, ActiveSteps DEF Ended
<1>5. PipelineInv' /\ CompleteStays  BY <1>1, <1>3, <1>4, GoneKeeps
<1>6. import[p].alone => Undisturbed(p)  BY <1>4 DEF PipelineInv
<1> QED  BY <1>1, <1>2, <1>5, <1>6 DEF Undisturbed

LEMMA BreakKeeps ==
  ASSUME PipelineInv, NEW p \in Imports, Break(p)
  PROVE  PipelineInv' /\ CompleteStays
<1>1. image' \in Digest  BY DEF Break, PipelineInv, TypeOK
<1> QED  BY <1>1, GoneKeeps DEF Break

-----------------------------------------------------------------------------
(* What a step of the pipeline promises about an import that saves.        *)
SavesKnown ==
  \A p \in Imports :
    Save(p) /\ import[p].alone /\ import[p].expected
      => Served = "whole" /\ file["boot"].content = "whole"

SavesServed ==
  \A p \in Imports : Save(p) /\ import[p].alone => Served = import[p].digest

LEMMA InitialPipeline ==
  ASSUME Init
  PROVE  PipelineInv
<1>1. TypeOK  BY DEF Init, TypeOK, Content, Import, Step, Ended, Digest, Gone
<1>2. \A p \in Imports : import[p].at = "none"
  <2>1. Gone("none").at = "none"  BY DEF Gone
  <2> QED  BY <2>1 DEF Init
<1>3. Active = {}  BY <1>2 DEF Active, Ended
<1>4. CacheIsThere  BY <1>2 DEF CacheIsThere, Verified, Extracted
<1> QED  BY <1>1, <1>3, <1>4 DEF PipelineInv, AloneIsAlone

LEMMA PipelineStep ==
  ASSUME PipelineInv, [Next]_vars
  PROVE  PipelineInv' /\ [CompleteStays]_vars
<1> DEFINE Goal == PipelineInv' /\ [CompleteStays]_vars
<1>1. ASSUME NEW p \in Imports, NEW expected \in BOOLEAN, NEW official \in BOOLEAN,
             Begin(p, expected, official)
      PROVE  Goal
  BY <1>1, BeginKeeps
<1>2. ASSUME NEW p \in Imports, FetchSums(p) PROVE Goal  BY <1>2, FetchSumsKeeps
<1>3. ASSUME NEW p \in Imports, Download(p) PROVE Goal  BY <1>3, DownloadKeeps
<1>4. ASSUME NEW p \in Imports, EndDownload(p) PROVE Goal  BY <1>4, EndDownloadKeeps
<1>5. ASSUME NEW p \in Imports, Verify(p) PROVE Goal  BY <1>5, VerifyKeeps
<1>6. ASSUME NEW p \in Imports, Extract(p) PROVE Goal  BY <1>6, ExtractKeeps
<1>7. ASSUME NEW p \in Imports, CopyBoot(p) PROVE Goal  BY <1>7, CopyBootKeeps
<1>8. ASSUME NEW p \in Imports, BootCopied(p) PROVE Goal  BY <1>8, BootCopiedKeeps
<1>9. ASSUME NEW p \in Imports, Unlink(p) PROVE Goal  BY <1>9, UnlinkKeeps
<1>10. ASSUME NEW p \in Imports, Link(p) PROVE Goal  BY <1>10, LinkKeeps
<1>11. ASSUME NEW p \in Imports, CopyIso(p) PROVE Goal  BY <1>11, CopyIsoKeeps
<1>12. ASSUME NEW p \in Imports, IsoCopied(p) PROVE Goal  BY <1>12, IsoCopiedKeeps
<1>13. ASSUME NEW p \in Imports, Save(p) PROVE Goal  BY <1>13, SaveKeeps
<1>14. ASSUME NEW p \in Imports, Break(p) PROVE Goal  BY <1>14, BreakKeeps
<1>15. ASSUME UNCHANGED vars PROVE Goal
  <2>1. UNCHANGED <<file, linked, image, import>>  BY <1>15 DEF vars
  <2>2. Active' = Active /\ \A p : Undisturbed(p)' <=> Undisturbed(p)
    BY <2>1 DEF Active, Undisturbed, Served
  <2>3. PipelineInv'
    BY <2>1, <2>2 DEF PipelineInv, TypeOK, CacheIsThere, AloneIsAlone
  <2> QED  BY <1>15, <2>3
<1> HIDE DEF Goal
<1>16. ASSUME Next PROVE Goal
  BY <1>1, <1>2, <1>3, <1>4, <1>5, <1>6, <1>7, <1>8, <1>9, <1>10, <1>11, <1>12,
     <1>13, <1>14, <1>16 DEF Next
<1>17. Goal  BY <1>15, <1>16
<1> QED  BY <1>17 DEF Goal

LEMMA PipelineInvHolds == Spec => []PipelineInv
<1>1. Init => PipelineInv  BY InitialPipeline
<1>2. PipelineInv /\ [Next]_vars => PipelineInv'  BY PipelineStep
<1> QED  BY <1>1, <1>2, PTL DEF Spec

-----------------------------------------------------------------------------
(* Who may still damage a complete download: an import that is on the way  *)
(* to a download of its own has looked before there was any, and while     *)
(* that download is the last one begun, the ISO is not complete.           *)
OnTheWay == {"sums", "connect", "downloading"}

EarlyLooks ==
  \A p \in Imports :
    /\ import[p].at \in {"sums", "connect"} => ~ import[p].found
    /\ import[p].at = "downloading" /\ file["cache"].writer = p
         => file["cache"].content = "partial"

DamageIsEarly ==
  file["cache"].content = "whole" /\ file'["cache"].content # "whole"
    => \E p \in Imports : Download(p) /\ ~ import[p].found

EarlyStep == EarlyLooks' /\ DamageIsEarly

(* What comes after the look and the download does not touch the cache.    *)
LEMMA OffTheWay ==
  ASSUME EarlyLooks, NEW p \in Imports, file'["cache"] = file["cache"],
         import'[p].at \notin OnTheWay,
         \A q \in Imports \ {p} : import'[q] = import[q]
  PROVE  EarlyStep
BY DEF EarlyLooks, EarlyStep, DamageIsEarly, OnTheWay

LEMMA GoesOffTheWay ==
  ASSUME TypeOK, EarlyLooks, NEW p \in Imports, NEW next \in Step \ OnTheWay,
         Go(p, next), file'["cache"] = file["cache"]
  PROVE  EarlyStep
BY GoOn, OffTheWay

LEMMA BeginIsEarly ==
  ASSUME TypeOK, EarlyLooks, NEW p \in Imports, NEW expected \in BOOLEAN,
         NEW official \in BOOLEAN, Begin(p, expected, official)
  PROVE  EarlyStep
<1> DEFINE there == file["cache"].content # "absent"
           next == IF there THEN "verify"
                   ELSE IF official /\ ~ expected THEN "sums" ELSE "connect"
<1>1. Started(p, expected, next) /\ UNCHANGED file  BY DEF Begin
<1>2. /\ next \in {"verify", "sums", "connect"}
      /\ next \in {"sums", "connect"} => ~ there
  OBVIOUS
<1> HIDE DEF next
<1>3. import \in [Imports -> Import]  BY DEF TypeOK
<1>4. PICK first \in BOOLEAN : first = (Active = {})  OBVIOUS
<1>5. import'[p] = [import[p] EXCEPT !.at = next, !.expected = expected,
                                     !.found = there, !.alone = first]
  BY <1>1, <1>4 DEF Started
<1> HIDE DEF there
<1>6. import'[p].at = next /\ import'[p].found = there  BY <1>3, <1>5 DEF Import
<1>7. ASSUME NEW q \in Imports \ {p}
      PROVE  import'[q].at = import[q].at /\ import'[q].found = import[q].found
  <2>1. PICK a \in BOOLEAN : a = (import[q].alone /\ q \notin Active)  OBVIOUS
  <2>2. import'[q] = [import[q] EXCEPT !.alone = a]  BY <1>1, <2>1 DEF Started
  <2> QED  BY <1>3, <2>2 DEF Import
<1> QED  BY <1>1, <1>2, <1>6, <1>7 DEF EarlyLooks, EarlyStep, DamageIsEarly

LEMMA FetchSumsIsEarly ==
  ASSUME TypeOK, EarlyLooks, NEW p \in Imports, FetchSums(p)
  PROVE  EarlyStep
<1>1. PICK found \in BOOLEAN :
        import' = [import EXCEPT ![p].at = "connect", ![p].expected = found]
  BY DEF FetchSums
<1>2. import[p].at = "sums" /\ UNCHANGED file /\ import \in [Imports -> Import]
  BY DEF FetchSums, TypeOK
<1>3. /\ import'[p].at = "connect" /\ import'[p].found = import[p].found
      /\ \A q \in Imports \ {p} : import'[q] = import[q]
  BY <1>1, <1>2 DEF Import
<1> QED  BY <1>2, <1>3 DEF EarlyLooks, EarlyStep, DamageIsEarly

LEMMA DownloadIsEarly ==
  ASSUME TypeOK, EarlyLooks, NEW p \in Imports, Download(p)
  PROVE  EarlyStep
<1>1. /\ import[p].at = "connect" /\ Truncate("cache", p)
      /\ import \in [Imports -> Import] /\ "cache" \in File
  BY DEF Download, TypeOK, File
<1>2. file'["cache"].content = "partial" /\ file'["cache"].writer = p
  BY <1>1, Truncates
<1>3. import'[p].at = "downloading"  BY <1>1 DEF Download, Import
<1>4. ASSUME NEW q \in Imports \ {p}
      PROVE  import'[q].at = import[q].at /\ import'[q].found = import[q].found
  <2>1. import'[q] = [import[q] EXCEPT !.clean = FALSE]  BY DEF Download
  <2> QED  BY <1>1, <2>1 DEF Import
<1>5. EarlyLooks'  BY <1>2, <1>3, <1>4 DEF EarlyLooks
<1>6. ~ import[p].found  BY <1>1 DEF EarlyLooks
<1> QED  BY <1>5, <1>6 DEF EarlyStep, DamageIsEarly

(* Whose download is not the last one begun has no say any more.           *)
LEMMA EndDownloadIsEarly ==
  ASSUME TypeOK, EarlyLooks, NEW p \in Imports, EndDownload(p)
  PROVE  EarlyStep
<1>1. /\ import[p].at = "downloading" /\ Go(p, "verify") /\ "cache" \in File
      /\ "verify" \in Step
  BY DEF EndDownload, File, Step
<1>2. PICK content \in {"partial", "whole"} : Written("cache", p, content)
  BY DEF EndDownload
<1>3. content \in Content /\ file \in [File -> FileRow]
  BY DEF Content, TypeOK, FileRow
<1>4. /\ file["cache"].writer = p => file'["cache"].content = content
      /\ file'["cache"].writer = file["cache"].writer
  BY <1>1, <1>2, <1>3, Writes
<1>5. file["cache"].writer # p => file'["cache"].content = file["cache"].content
  <2>1. PICK old : old = file["cache"].content  OBVIOUS
  <2>2. file["cache"].writer # p
          => file' = [file EXCEPT !["cache"].content = file["cache"].content]
    BY <1>2 DEF Written
  <2> QED  BY <1>1, <1>3, <2>1, <2>2 DEF FileRow
<1>6. import'[p].at = "verify" /\ \A q \in Imports \ {p} : import'[q] = import[q]
  BY <1>1, GoOn
<1>7. file["cache"].writer = p => file["cache"].content = "partial"
  BY <1>1 DEF EarlyLooks
<1> QED  BY <1>4, <1>5, <1>6, <1>7 DEF EarlyLooks, EarlyStep, DamageIsEarly

LEMMA VerifyIsEarly ==
  ASSUME TypeOK, EarlyLooks, NEW p \in Imports, Verify(p) \/ Extract(p) \/ CopyIso(p)
  PROVE  EarlyStep
<1>1. import \in [Imports -> Import] /\ "iso" \in File /\ "cache" \in File
  BY DEF TypeOK, File
<1>2. file'["cache"] = file["cache"]
  <2>1. CASE CopyIso(p)  BY <1>1, <2>1, Truncates DEF CopyIso
  <2> QED  BY <2>1 DEF Verify, Extract
<1>3. /\ import'[p].at \in {"extract", "copy boot", "copying iso"}
      /\ \A q \in Imports \ {p} : import'[q] = import[q]
  <2>1. CASE Verify(p)
    <3>1. PICK digest : import' = [import EXCEPT ![p].at = "extract", ![p].digest = digest]
      BY <2>1 DEF Verify
    <3> QED  BY <1>1, <3>1 DEF Import
  <2>2. CASE Extract(p)
    <3>1. PICK content : import' = [import EXCEPT ![p].at = "copy boot",
                                                  ![p].extracted = content]
      BY <2>2 DEF Extract
    <3> QED  BY <1>1, <3>1 DEF Import
  <2>3. CASE CopyIso(p)
    <3>1. import' = [import EXCEPT ![p].at = "copying iso", ![p].clean = TRUE]
      BY <2>3 DEF CopyIso
    <3> QED  BY <1>1, <3>1 DEF Import
  <2> QED  BY <2>1, <2>2, <2>3
<1> QED  BY <1>1, <1>2, <1>3, OffTheWay DEF OnTheWay

LEMMA CopyIsEarly ==
  ASSUME TypeOK, EarlyLooks, NEW p \in Imports,
         CopyBoot(p) \/ BootCopied(p) \/ Unlink(p) \/ Link(p) \/ IsoCopied(p)
  PROVE  EarlyStep
<1> DEFINE Nexts == {"copying boot", "unlink", "link", "save"}
<1>1. /\ Nexts \subseteq Step \ OnTheWay /\ file \in [File -> FileRow]
      /\ "cache" \in File /\ "boot" \in File /\ "iso" \in File
  BY DEF Step, OnTheWay, TypeOK, FileRow, File
<1>2. \E next \in Nexts : Go(p, next)
  BY DEF CopyBoot, BootCopied, Unlink, Link, IsoCopied
<1>3. file'["cache"] = file["cache"]
  <2>1. CASE CopyBoot(p)  BY <1>1, <2>1 DEF CopyBoot, Truncate
  <2>2. CASE BootCopied(p)  BY <1>1, <2>2 DEF BootCopied, Written
  <2>3. CASE Unlink(p)  BY <1>1, <2>3 DEF Unlink
  <2>4. CASE Link(p)  BY <2>4 DEF Link
  <2>5. CASE IsoCopied(p)  BY <1>1, <2>5 DEF IsoCopied, Written
  <2> QED  BY <2>1, <2>2, <2>3, <2>4, <2>5
<1> QED  BY <1>1, <1>2, <1>3, GoesOffTheWay

LEMMA EndIsEarly ==
  ASSUME TypeOK, EarlyLooks, NEW p \in Imports, Save(p) \/ Break(p)
  PROVE  EarlyStep
<1>1. import \in [Imports -> Import] /\ UNCHANGED file  BY DEF TypeOK, Save, Break
<1>2. PICK at \in {"done", "broken"} : import' = [import EXCEPT ![p] = Gone(at)]
  BY DEF Save, Break
<1>3. PICK row : row = Gone(at)  OBVIOUS
<1>4. row.at = at  BY <1>3 DEF Gone
<1>5. import'[p].at = at /\ \A q \in Imports \ {p} : import'[q] = import[q]
  BY <1>1, <1>2, <1>3, <1>4
<1> QED  BY <1>1, <1>5, OffTheWay DEF OnTheWay

LEMMA EarlySteps ==
  ASSUME TypeOK, EarlyLooks, [Next]_vars
  PROVE  EarlyLooks' /\ [DamageIsEarly]_vars
<1>1. CASE Next
  <2>1. PICK p \in Imports :
          \/ \E expected, official \in BOOLEAN : Begin(p, expected, official)
          \/ FetchSums(p) \/ Download(p) \/ EndDownload(p) \/ Verify(p) \/ Extract(p)
          \/ CopyBoot(p) \/ BootCopied(p)
          \/ Unlink(p) \/ Link(p) \/ CopyIso(p) \/ IsoCopied(p)
          \/ Save(p) \/ Break(p)
    BY <1>1 DEF Next
  <2>2. EarlyStep
    BY <2>1, BeginIsEarly, FetchSumsIsEarly, DownloadIsEarly, EndDownloadIsEarly,
       VerifyIsEarly, CopyIsEarly, EndIsEarly
  <2> QED  BY <2>2 DEF EarlyStep
<1>2. CASE UNCHANGED vars  BY <1>2 DEF vars, EarlyLooks
<1> QED  BY <1>1, <1>2

LEMMA EarlyLooksHold == Spec => []EarlyLooks
<1>1. Init => EarlyLooks
  <2>1. Gone("none").at = "none"  BY DEF Gone
  <2>2. Init => \A p \in Imports : import[p].at = "none"  BY <2>1 DEF Init
  <2> QED  BY <2>2 DEF EarlyLooks
<1>2. PipelineInv => TypeOK  BY DEF PipelineInv
<1>3. TypeOK /\ EarlyLooks /\ [Next]_vars => EarlyLooks'  BY EarlySteps
<1> QED  BY <1>1, <1>2, <1>3, PipelineInvHolds, PTL DEF Spec

(* Whatever overlaps or breaks off, only an import that had looked before  *)
(* there was any download damages a complete one (media_import.py:257-264).*)
THEOREM OnlyEarlyLooksCanDamage == Spec => OnlyEarlyLooksDamage
<1>1. PipelineInv => TypeOK  BY DEF PipelineInv
<1>2. TypeOK /\ EarlyLooks /\ [Next]_vars => [DamageIsEarly]_vars  BY EarlySteps
<1>3. Spec => [][DamageIsEarly]_vars
  BY <1>1, <1>2, EarlyLooksHold, PipelineInvHolds, PTL DEF Spec
<1> QED  BY <1>3 DEF OnlyEarlyLooksDamage, DamageIsEarly

(* Files and imports keep their types.                                     *)
THEOREM PipelineTypes == Spec => []TypeOK
<1>1. PipelineInv => TypeOK  BY DEF PipelineInv
<1> QED  BY <1>1, PipelineInvHolds, PTL

(* An import that knows the digest and has had the files for itself saves  *)
(* an image only of the bytes of the release (media_import.py:257-292).    *)
THEOREM KnownReleasesAreSavedWhole == Spec => KnownReleasesAreWhole
<1>1. PipelineInv => SavesKnown  BY SaveKeeps DEF SavesKnown
<1>2. PipelineInv /\ [Next]_vars => [SavesKnown]_vars  BY <1>1
<1>3. Spec => [][SavesKnown]_vars  BY <1>2, PipelineInvHolds, PTL DEF Spec
<1> QED  BY <1>3 DEF KnownReleasesAreWhole, SavesKnown

(* The digest in the image row is that of the ISO served when it is        *)
(* written (media_import.py:261, 290-292).                                 *)
THEOREM DigestsAreOfServedIsos == Spec => RecordedDigestIsServed
<1>1. PipelineInv => SavesServed  BY SaveKeeps DEF SavesServed
<1>2. PipelineInv /\ [Next]_vars => [SavesServed]_vars  BY <1>1
<1>3. Spec => [][SavesServed]_vars  BY <1>2, PipelineInvHolds, PTL DEF Spec
<1> QED  BY <1>3 DEF RecordedDigestIsServed, SavesServed

(* Imports that do not overlap leave a complete download complete          *)
(* (media_import.py:257, 290).                                             *)
THEOREM CompleteDownloadsAreKept == Spec => CompleteDownloadsStay
<1>1. Spec => [][CompleteStays]_vars  BY PipelineStep, PipelineInvHolds, PTL DEF Spec
<1> QED  BY <1>1 DEF CompleteDownloadsStay, CompleteStays
=============================================================================
