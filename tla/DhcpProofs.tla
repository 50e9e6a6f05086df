----------------------------- MODULE DhcpProofs -----------------------------
(***************************************************************************)
(* Proofs about DhcpProbe, for any number of probes and servers; about the *)
(* option parser, for packets that are cut off anywhere; and about the     *)
(* address range that is proposed for a network of any size.               *)
(***************************************************************************)
EXTENDS DhcpProbe, WellFoundedInduction, SequenceTheorems, TLAPS

-----------------------------------------------------------------------------
(* default_dhcp_range.                                                     *)

LEMMA OffsetsFit ==
  ASSUME NEW size \in Nat, size >= 4
  PROVE  /\ StartOffset(size) \in Nat /\ EndOffset(size) \in Nat
         /\ 1 <= StartOffset(size) /\ StartOffset(size) <= EndOffset(size)
         /\ EndOffset(size) <= size - 2
BY DEF StartOffset, EndOffset, Usable

(* In every network with at least two hosts the range lies between the     *)
(* network address and the broadcast address, and is not empty             *)
(* (dhcp_detect.py:139-152).                                               *)
THEOREM RangeIsInsideNetwork ==
  ASSUME NEW network \in Nat, NEW size \in Nat, size >= 4
  PROVE  /\ network < RangeStart(network, size)
         /\ RangeStart(network, size) <= RangeEnd(network, size)
         /\ RangeEnd(network, size) < network + size - 1
<1>1. PICK s \in Nat : s = StartOffset(size)
  BY OffsetsFit
<1>2. PICK e \in Nat : e = EndOffset(size)
  BY OffsetsFit
<1>3. 1 <= s /\ s <= e /\ e <= size - 2
  BY <1>1, <1>2, OffsetsFit
<1>4. network < network + s /\ network + s <= network + e /\ network + e < network + size - 1
  BY <1>3
<1> QED BY <1>1, <1>2, <1>4 DEF RangeStart, RangeEnd

-----------------------------------------------------------------------------
(* The inductive invariant.                                                *)

Shape ==
  /\ at = [r \in Probes |-> at[r]]
  /\ loaded = [r \in Probes |-> loaded[r]]
  /\ heard = [r \in Probes |-> heard[r]]
  /\ earlier = [r \in Probes |-> earlier[r]]

(* Whose answers there are in a row, read or stored, and with a probe.     *)
OffersFit(s) == \A offer \in s.offers : offer.xid = s.result

AnswersFit ==
  /\ OffersFit(setting)
  /\ \A r \in Probes : OffersFit(loaded[r])
  /\ \A r \in Probes : \A offer \in heard[r] : offer.xid = r

(* A probe that has marked the row did so after everything that had ended  *)
(* when it was requested; what is stored afterwards ends afterwards.       *)
Begun == {r \in Probes : at[r] \in Pending \cup {"stored", "lost"}}

ResultsFollow ==
  /\ \A r \in Probes : \A q \in earlier[r] : q \in Probes /\ at[q] = "stored"
  /\ setting.stored /\ ~ setting.running => \A r \in Begun : setting.result \notin earlier[r]

ProbeInv == Shape /\ AnswersFit /\ RunningMeansProbing /\ ResultsFollow

LEMMA ProbeInitEstablishes == Init => ProbeInv
BY DEF Init, ProbeInv, Shape, AnswersFit, OffersFit, RunningMeansProbing, ResultsFollow,
       NoSetting, Begun

-----------------------------------------------------------------------------
(* Requests.                                                               *)

LEMMA LoadSettingKeeps ==
  ASSUME ProbeInv, NEW r \in Probes, LoadSetting(r)
  PROVE  ProbeInv'
<1> USE DEF ProbeInv, LoadSetting, Go
<1>1. Shape'
  BY DEF Shape
<1>2. AnswersFit'
  BY DEF AnswersFit, Shape, OffersFit
<1>3. RunningMeansProbing'
  BY DEF RunningMeansProbing, Shape, Pending
<1>4. ResultsFollow'
  <2>1. \A q \in Probes : at'[q] = (IF q = r THEN "marking" ELSE at[q])
    BY DEF Shape
  <2>2. \A q \in Probes : earlier'[q] = IF q = r THEN {p \in Probes : at[p] = "stored"}
                                        ELSE earlier[q]
    BY DEF Shape
  <2>3. \A q \in Begun' : q \in Begun /\ q # r
    BY <2>1 DEF Begun, Pending
  <2>4. ASSUME NEW q \in Probes, NEW p \in earlier'[q]
        PROVE  p \in Probes /\ at'[p] = "stored"
    <3>1. p \in Probes /\ at[p] = "stored"
      BY <2>2, <2>4 DEF ResultsFollow
    <3>2. p # r
      BY <3>1
    <3> QED BY <3>1, <3>2 DEF Shape
  <2>5. ASSUME setting'.stored, ~ setting'.running, NEW q \in Begun'
        PROVE  setting'.result \notin earlier'[q]
    BY <2>2, <2>3, <2>5 DEF ResultsFollow, Begun
  <2> QED BY <2>4, <2>5 DEF ResultsFollow
<1> QED BY <1>1, <1>2, <1>3, <1>4

LEMMA MarkKeeps ==
  ASSUME ProbeInv, NEW r \in Probes, Mark(r)
  PROVE  ProbeInv'
<1> USE DEF ProbeInv, Mark, Go
<1>1. Shape'
  BY DEF Shape
<1>2. AnswersFit'
  <2>1. OffersFit(setting')
    BY DEF AnswersFit, OffersFit, Marked
  <2> QED BY <2>1 DEF AnswersFit, Shape, OffersFit, NoSetting
<1>3. RunningMeansProbing'
  <2>1. at'[r] = "waiting"
    BY DEF Shape
  <2> QED BY <2>1 DEF RunningMeansProbing, Pending
<1>4. ResultsFollow'
  <2>1. setting'.running
    BY DEF Marked
  <2> QED BY <2>1 DEF ResultsFollow, Shape
<1> QED BY <1>1, <1>2, <1>3, <1>4

LEMMA MarkRefusedKeeps ==
  ASSUME ProbeInv, NEW r \in Probes, MarkRefused(r)
  PROVE  ProbeInv'
<1> USE DEF ProbeInv, MarkRefused, Go
<1>1. Shape'
  BY DEF Shape
<1>2. AnswersFit'
  BY DEF AnswersFit, Shape, OffersFit, NoSetting
<1>3. RunningMeansProbing'
  BY DEF RunningMeansProbing, Shape, Pending
<1>4. ResultsFollow'
  BY DEF ResultsFollow, Shape, Begun, Pending
<1> QED BY <1>1, <1>2, <1>3, <1>4

-----------------------------------------------------------------------------
(* Probes.                                                                 *)

(* Steps of a probe that is under way and stays so.                        *)
LEMMA ProbingKeeps ==
  ASSUME ProbeInv, NEW r \in Probes,
         Listen(r) \/ EndProbe(r) \/ FailProbe(r) \/ CrashProbe(r)
  PROVE  ProbeInv'
<1> USE DEF ProbeInv
<1>1. /\ at[r] \in Pending
      /\ \E next \in Pending : at' = [at EXCEPT ![r] = next]
      /\ heard' = heard \/ heard' = [heard EXCEPT ![r] = {}]
      /\ UNCHANGED <<setting, loaded, earlier>>
  BY DEF Listen, EndProbe, FailProbe, CrashProbe, Outcome, Go, Pending
<1>2. Shape'
  BY <1>1 DEF Shape
<1>3. AnswersFit'
  BY <1>1 DEF AnswersFit, Shape, OffersFit
<1>4. RunningMeansProbing'
  BY <1>1 DEF RunningMeansProbing, Shape
<1>5. ResultsFollow'
  BY <1>1 DEF ResultsFollow, Shape, Begun, Pending
<1> QED BY <1>2, <1>3, <1>4, <1>5

LEMMA ReceiveKeeps ==
  ASSUME ProbeInv, NEW r \in Probes, NEW x \in Probes \cup {Nobody}, NEW s \in Servers,
         Receive(r, x, s)
  PROVE  ProbeInv'
<1> USE DEF ProbeInv
<1>1. /\ UNCHANGED <<setting, at, loaded, failed, earlier>>
      /\ x = r
      /\ \E id : heard' = [heard EXCEPT ![r] = @ \cup {[id |-> id, source |-> s, xid |-> x]}]
  BY DEF Receive, ParseOffer
<1>2. Shape'
  BY <1>1 DEF Shape
<1>3. AnswersFit'
  BY <1>1 DEF AnswersFit, Shape, OffersFit
<1>4. RunningMeansProbing' /\ ResultsFollow'
  BY <1>1 DEF RunningMeansProbing, ResultsFollow, Begun
<1> QED BY <1>2, <1>3, <1>4

LEMMA StoreKeeps ==
  ASSUME ProbeInv, NEW r \in Probes, Store(r)
  PROVE  ProbeInv'
<1> USE DEF ProbeInv, Store, Go
<1>1. Shape'
  BY DEF Shape
<1>2. AnswersFit'
  <2>1. OffersFit(setting')
    BY DEF AnswersFit, OffersFit
  <2> QED BY <2>1 DEF AnswersFit, Shape, OffersFit
<1>3. RunningMeansProbing'
  BY DEF RunningMeansProbing
<1>4. ResultsFollow'
  <2>1. \A q \in Probes : at'[q] = (IF q = r THEN "stored" ELSE at[q])
    BY DEF Shape
  <2>2. ASSUME NEW q \in Probes PROVE r \notin earlier[q]
    BY DEF ResultsFollow
  <2>3. ASSUME NEW q \in Probes, NEW p \in earlier'[q]
        PROVE  p \in Probes /\ at'[p] = "stored"
    <3>1. p \in Probes /\ at[p] = "stored" /\ p # r
      BY <2>3, <2>2 DEF ResultsFollow
    <3> QED BY <3>1 DEF Shape
  <2> QED BY <2>2, <2>3 DEF ResultsFollow, Begun
<1> QED BY <1>1, <1>2, <1>3, <1>4

LEMMA RestartKeeps ==
  ASSUME ProbeInv, Restart
  PROVE  ProbeInv'
<1> USE DEF ProbeInv, Restart
<1>1. Shape'
  BY DEF Shape
<1>2. AnswersFit'
  BY DEF AnswersFit, OffersFit, NoSetting
<1>3. RunningMeansProbing'
  BY DEF RunningMeansProbing, Pending
<1>4. ResultsFollow'
  <2>1. ASSUME NEW r \in Probes, NEW q \in earlier[r]
        PROVE  q \in Probes /\ at'[q] = "stored"
    BY DEF ResultsFollow, Pending
  <2> QED BY <2>1 DEF ResultsFollow, Begun, Pending
<1> QED BY <1>1, <1>2, <1>3, <1>4

-----------------------------------------------------------------------------
LEMMA ProbeNextKeeps == ProbeInv /\ [Next]_vars => ProbeInv'
<1> SUFFICES ASSUME ProbeInv, [Next]_vars PROVE ProbeInv'
  OBVIOUS
<1>1. CASE \E r \in Probes : LoadSetting(r)
  BY <1>1, LoadSettingKeeps
<1>2. CASE \E r \in Probes : Mark(r)
  BY <1>2, MarkKeeps
<1>3. CASE \E r \in Probes : MarkRefused(r)
  BY <1>3, MarkRefusedKeeps
<1>4. CASE \E r \in Probes : Listen(r) \/ EndProbe(r) \/ FailProbe(r) \/ CrashProbe(r)
  BY <1>4, ProbingKeeps
<1>5. CASE \E r \in Probes, x \in Probes \cup {Nobody}, s \in Servers : Receive(r, x, s)
  BY <1>5, ReceiveKeeps
<1>6. CASE \E r \in Probes : Store(r)
  BY <1>6, StoreKeeps
<1>7. CASE Restart
  BY <1>7, RestartKeeps
<1>8. CASE UNCHANGED vars
  BY <1>8 DEF vars, ProbeInv, Shape, AnswersFit, OffersFit, RunningMeansProbing,
              ResultsFollow, Begun
<1> QED BY <1>1, <1>2, <1>3, <1>4, <1>5, <1>6, <1>7, <1>8 DEF Next

THEOREM ProbeInvariantHolds == Spec => []ProbeInv
BY ProbeInitEstablishes, ProbeNextKeeps, PTL DEF Spec

(* The page announces a probe only while one is to be stored or is lost    *)
(* (dhcp_probe.py:49-61, 166-169).                                         *)
THEOREM AnnouncedProbesExist == Spec => []RunningMeansProbing
<1>1. ProbeInv => RunningMeansProbing
  BY DEF ProbeInv
<1> QED BY <1>1, ProbeInvariantHolds, PTL

(* The last result is not older than a probe that ended and was requested  *)
(* after it (dhcp_probe.py:53-61, 166-169).                                *)
THEOREM ResultsAreRecent == Spec => []ResultIsRecent
<1>1. ProbeInv => ResultIsRecent
  BY DEF ProbeInv, ResultsFollow, Begun, ResultIsRecent
<1> QED BY <1>1, ProbeInvariantHolds, PTL

-----------------------------------------------------------------------------
(* The option parser: a function that is defined by recursion towards the  *)
(* end of the data.                                                        *)

(* What the parser finds from index on, given what it finds later.         *)
OptionFrom(data, code, from, index) ==
  IF index > Len(data) \/ data[index] = EndOfOptions THEN None
  ELSE IF data[index] = Pad THEN from[index + 1]
  ELSE IF index = Len(data) THEN None
  ELSE LET last == index + 1 + data[index + 1]
           rest == IF last < Len(data) THEN from[last + 1] ELSE None
       IN  IF rest = None /\ data[index] = code
           THEN SubSeq(data, index + 2, IF last < Len(data) THEN last ELSE Len(data))
           ELSE rest

Parses(data, code, f) ==
  f = [index \in 1..Len(data) + 1 |-> OptionFrom(data, code, f, index)]

(* A function of the right domain that is right from index i on.           *)
ParsesFrom(data, code, f, i) ==
  /\ f = [index \in 1..Len(data) + 1 |-> f[index]]
  /\ \A index \in i..Len(data) + 1 : f[index] = OptionFrom(data, code, f, index)

(* Only what comes later counts.                                           *)
LEMMA OptionFromLater ==
  ASSUME NEW data \in Seq(Nat), NEW code, NEW i \in 1..Len(data) + 1, NEW f, NEW g,
         \A j \in 1..Len(data) + 1 : j > i => f[j] = g[j]
  PROVE  OptionFrom(data, code, f, i) = OptionFrom(data, code, g, i)
<1>1. Len(data) \in Nat
  OBVIOUS
<1>2. CASE i > Len(data) \/ data[i] = EndOfOptions
  BY <1>2 DEF OptionFrom
<1>3. CASE i <= Len(data) /\ data[i] # EndOfOptions
  <2>1. f[i + 1] = g[i + 1]
    BY <1>1, <1>3
  <2>2. CASE i = Len(data)
    BY <1>1, <1>3, <2>1, <2>2 DEF OptionFrom
  <2>3. CASE i # Len(data)
    <3>1. PICK last \in Nat : last = i + 1 + data[i + 1] /\ last > i
      BY <1>1, <1>3, <2>3
    <3>2. last < Len(data) => f[last + 1] = g[last + 1]
      <4>1. last < Len(data) => last + 1 \in 1..Len(data) + 1 /\ last + 1 > i
        BY <1>1, <3>1
      <4> QED BY <4>1
    <3> QED BY <1>1, <1>3, <2>1, <2>3, <3>1, <3>2 DEF OptionFrom
  <2> QED BY <2>2, <2>3
<1> QED BY <1>1, <1>2, <1>3

LEMMA ParsesOneMore ==
  ASSUME NEW data \in Seq(Nat), NEW code, NEW i \in 1..Len(data) + 1, NEW f,
         ParsesFrom(data, code, f, i + 1)
  PROVE  \E g : ParsesFrom(data, code, g, i)
<1> DEFINE g == [f EXCEPT ![i] = OptionFrom(data, code, f, i)]
<1>1. Len(data) \in Nat
  OBVIOUS
<1>2. /\ g = [index \in 1..Len(data) + 1 |-> g[index]]
      /\ g[i] = OptionFrom(data, code, f, i)
      /\ \A j \in 1..Len(data) + 1 : j # i => g[j] = f[j]
  BY DEF ParsesFrom
<1> HIDE DEF g
<1>3. ASSUME NEW j \in i..Len(data) + 1
      PROVE  g[j] = OptionFrom(data, code, g, j)
  <2>1. j \in 1..Len(data) + 1 /\ \A k \in 1..Len(data) + 1 : k > j => f[k] = g[k]
    BY <1>1, <1>2
  <2>2. OptionFrom(data, code, f, j) = OptionFrom(data, code, g, j)
    BY <2>1, OptionFromLater
  <2>3. j # i => f[j] = OptionFrom(data, code, f, j)
    BY <1>1 DEF ParsesFrom
  <2> QED BY <1>2, <2>1, <2>2, <2>3
<1>4. ParsesFrom(data, code, g, i)
  BY <1>2, <1>3 DEF ParsesFrom
<1> QED BY <1>4

(* The parser is defined for all data.                                     *)
LEMMA OptionIsParsed ==
  ASSUME NEW data \in Seq(Nat), NEW code
  PROVE  \E f : Parses(data, code, f) /\ Option(data, code) = f[1]
<1> DEFINE E == {i \in 1..Len(data) + 2 : \E f : ParsesFrom(data, code, f, i)}
<1>1. Len(data) \in Nat
  OBVIOUS
<1>2. Len(data) + 2 \in E
  <2> DEFINE f == [index \in 1..Len(data) + 1 |-> None]
  <2>1. ParsesFrom(data, code, f, Len(data) + 2)
    BY <1>1 DEF ParsesFrom
  <2> QED BY <1>1, <2>1
<1>3. PICK i \in E : \A j \in E : i <= j
  <2>1. E \in SUBSET Nat
    BY <1>1
  <2>2. PICK i \in E : \A j \in E : ~ (<<j, i>> \in OpToRel(<, Nat))
    BY <1>2, <2>1, NatLessThanWellFounded, WFMin
  <2>3. ASSUME NEW j \in E PROVE i <= j
    <3>1. ~ (j < i)  BY <2>1, <2>2 DEF OpToRel
    <3> QED BY <2>1, <3>1
  <2> QED BY <2>3
<1>4. i = 1
  <2> SUFFICES ASSUME i # 1 PROVE FALSE
    OBVIOUS
  <2>1. PICK j \in 1..Len(data) + 1 : i = j + 1
    <3>1. i - 1 \in 1..Len(data) + 1 /\ i = (i - 1) + 1
      BY <1>1, <1>3
    <3> QED BY <3>1
  <2>2. PICK f : ParsesFrom(data, code, f, j + 1)
    BY <1>3, <2>1
  <2>3. \E g : ParsesFrom(data, code, g, j)
    BY <2>2, ParsesOneMore
  <2>4. j \in E
    BY <1>1, <2>3
  <2> QED BY <1>1, <1>3, <2>1, <2>4
<1>5. PICK f : ParsesFrom(data, code, f, 1)
  BY <1>3, <1>4
<1>6. \E g : Parses(data, code, g)
  BY <1>5 DEF ParsesFrom, Parses
<1>7. Option(data, code) = (CHOOSE g : Parses(data, code, g))[1]
  BY DEF Option, Parses, OptionFrom
<1> QED BY <1>6, <1>7

-----------------------------------------------------------------------------
(* How the parser walks from field to field of data that may be cut off at *)
(* any place: behind the end of the data there is nothing to find.         *)
Found(data, f, i) == IF i <= Len(data) THEN f[i] ELSE None

(* The value in the field that begins at i, or what is left of it.         *)
Value(data, i, length) ==
  IF i < Len(data)
  THEN SubSeq(data, i + 2, IF i + 1 + length < Len(data) THEN i + 1 + length ELSE Len(data))
  ELSE None

LEMMA FoundAt ==
  ASSUME NEW data \in Seq(Nat), NEW code, NEW f, Parses(data, code, f),
         NEW i \in Nat \ {0}
  PROVE  /\ i > Len(data) => Found(data, f, i) = None
         /\ i <= Len(data) => Found(data, f, i) = OptionFrom(data, code, f, i)
         /\ i <= Len(data) => f[i + 1] = Found(data, f, i + 1)
<1>1. Len(data) \in Nat
  OBVIOUS
<1>2. \A j \in 1..Len(data) + 1 : f[j] = OptionFrom(data, code, f, j)
  BY DEF Parses
<1>3. f[Len(data) + 1] = None
  BY <1>1, <1>2 DEF OptionFrom
<1> QED BY <1>1, <1>2, <1>3 DEF Found

LEMMA Ends ==
  ASSUME NEW data \in Seq(Nat), NEW code, NEW f, Parses(data, code, f),
         NEW i \in Nat \ {0}, i <= Len(data) => data[i] = EndOfOptions
  PROVE  Found(data, f, i) = None
BY FoundAt DEF OptionFrom

LEMMA SkipsPad ==
  ASSUME NEW data \in Seq(Nat), NEW code, NEW f, Parses(data, code, f),
         NEW i \in Nat \ {0}, i <= Len(data) => data[i] = Pad
  PROVE  Found(data, f, i) = Found(data, f, i + 1)
BY FoundAt DEF OptionFrom, Pad, EndOfOptions, Found

LEMMA SkipsField ==
  ASSUME NEW data \in Seq(Nat), NEW code, NEW f, Parses(data, code, f),
         NEW i \in Nat \ {0}, NEW next \in Nat, next >= i + 2,
         i <= Len(data) => data[i] # Pad /\ data[i] # EndOfOptions /\ data[i] # code,
         i < Len(data) => data[i + 1] = next - i - 2
  PROVE  Found(data, f, i) = Found(data, f, next)
<1>1. Len(data) \in Nat
  OBVIOUS
<1>2. CASE i >= Len(data)
  BY <1>1, <1>2, FoundAt DEF Found, OptionFrom
<1>3. CASE i < Len(data)
  <2>1. Found(data, f, i) = OptionFrom(data, code, f, i)
    BY <1>1, <1>3, FoundAt
  <2>2. PICK last \in Nat : last = next - 1
    OBVIOUS
  <2>3. last < Len(data) => f[last + 1] = Found(data, f, last + 1)
    BY <1>1, <2>2 DEF Found
  <2>4. /\ data[i] # EndOfOptions /\ data[i] # Pad /\ data[i] # code
        /\ last = i + 1 + data[i + 1] /\ ~ i > Len(data) /\ i # Len(data)
    <3>1. data[i] # Pad /\ data[i] # EndOfOptions /\ data[i] # code /\ data[i + 1] = next - i - 2
      BY <1>1, <1>3
    <3> QED BY <1>1, <1>3, <2>2, <3>1
  <2>5. OptionFrom(data, code, f, i) = IF last < Len(data) THEN f[last + 1] ELSE None
    BY <2>4 DEF OptionFrom
  <2>6. last + 1 = next /\ (last < Len(data) <=> next <= Len(data))
    BY <1>1, <2>2
  <2> QED BY <2>1, <2>3, <2>5, <2>6 DEF Found
<1> QED BY <1>1, <1>2, <1>3

LEMMA FindsField ==
  ASSUME NEW data \in Seq(Nat), NEW code, NEW f, Parses(data, code, f),
         NEW i \in Nat \ {0}, NEW length \in Nat, code \notin {Pad, EndOfOptions},
         i <= Len(data) => data[i] = code,
         i < Len(data) => data[i + 1] = length,
         Found(data, f, i + 2 + length) = None
  PROVE  Found(data, f, i) = Value(data, i, length)
<1>1. Len(data) \in Nat
  OBVIOUS
<1>2. CASE i >= Len(data)
  BY <1>1, <1>2, FoundAt DEF Found, OptionFrom, Value
<1>3. CASE i < Len(data)
  <2>1. Found(data, f, i) = OptionFrom(data, code, f, i)
    BY <1>1, <1>3, FoundAt
  <2>2. PICK last \in Nat : last = i + 1 + length
    OBVIOUS
  <2>3. last < Len(data) => f[last + 1] = Found(data, f, last + 1)
    BY <1>1, <2>2 DEF Found
  <2>4. /\ data[i] # EndOfOptions /\ data[i] # Pad /\ data[i] = code
        /\ last = i + 1 + data[i + 1] /\ ~ i > Len(data) /\ i # Len(data)
    <3>1. data[i] = code /\ data[i + 1] = length
      BY <1>1, <1>3
    <3> QED BY <1>1, <1>3, <2>2, <3>1
  <2>5. last + 1 = i + 2 + length /\ (last < Len(data) <=> last + 1 <= Len(data))
    BY <1>1, <2>2
  <2>6. (IF last < Len(data) THEN f[last + 1] ELSE None) = None
    BY <2>3, <2>5 DEF Found
  <2>7. OptionFrom(data, code, f, i) =
          SubSeq(data, i + 2, IF last < Len(data) THEN last ELSE Len(data))
    BY <2>4, <2>6 DEF OptionFrom
  <2> QED BY <1>3, <2>1, <2>2, <2>7 DEF Value
<1> QED BY <1>1, <1>2, <1>3

LEMMA OptionIsFound ==
  ASSUME NEW data \in Seq(Nat), NEW code
  PROVE  \E f : Parses(data, code, f) /\ Option(data, code) = Found(data, f, 1)
<1>1. PICK f : Parses(data, code, f) /\ Option(data, code) = f[1]
  BY OptionIsParsed
<1>2. f[1] = Found(data, f, 1)
  BY <1>1, FoundAt DEF Found, Parses, OptionFrom
<1> QED BY <1>1, <1>2

-----------------------------------------------------------------------------
(* The layouts of an offer, byte by byte.                                  *)

OfferTypeFirst(server) ==
  TypeField \o IdField(server) \o RouterField \o <<EndOfOptions>>
OfferWithLease(server) ==
  TypeField \o LeaseField \o <<Pad>> \o IdField(server) \o <<EndOfOptions, Pad>>
OfferTypeLast(server) ==
  <<Pad, Pad>> \o IdField(server) \o LeaseField \o <<Pad>> \o TypeField

LEMMA TypeFirstBytes ==
  ASSUME NEW s \in Nat, NEW bytes, bytes = OfferTypeFirst(s)
  PROVE  /\ bytes \in Seq(Nat) /\ Len(bytes) = 16
         /\ bytes[1] = 53 /\ bytes[2] = 1 /\ bytes[3] = 2 /\ bytes[4] = 54 /\ bytes[5] = 4
         /\ bytes[6] = 10 /\ bytes[7] = 0 /\ bytes[8] = 0 /\ bytes[9] = s /\ bytes[10] = 3
         /\ bytes[11] = 4 /\ bytes[12] = 10 /\ bytes[13] = 0 /\ bytes[14] = 0 /\ bytes[15] = 1
         /\ bytes[16] = 255
BY DEF OfferTypeFirst, TypeField, IdField, RouterField, MessageType, ServerIdentifier,
       DhcpOffer, Address, Pad, EndOfOptions

LEMMA WithLeaseBytes ==
  ASSUME NEW s \in Nat, NEW bytes, bytes = OfferWithLease(s)
  PROVE  /\ bytes \in Seq(Nat) /\ Len(bytes) = 18
         /\ bytes[1] = 53 /\ bytes[2] = 1 /\ bytes[3] = 2 /\ bytes[4] = 51 /\ bytes[5] = 4
         /\ bytes[6] = 0 /\ bytes[7] = 54 /\ bytes[8] = 4 /\ bytes[9] = 53 /\ bytes[10] = 0
         /\ bytes[11] = 54 /\ bytes[12] = 4 /\ bytes[13] = 10 /\ bytes[14] = 0 /\ bytes[15] = 0
         /\ bytes[16] = s /\ bytes[17] = 255 /\ bytes[18] = 0
BY DEF OfferWithLease, TypeField, IdField, LeaseField, MessageType, ServerIdentifier,
       DhcpOffer, Address, Pad, EndOfOptions

LEMMA TypeLastBytes ==
  ASSUME NEW s \in Nat, NEW bytes, bytes = OfferTypeLast(s)
  PROVE  /\ bytes \in Seq(Nat) /\ Len(bytes) = 18
         /\ bytes[1] = 0 /\ bytes[2] = 0 /\ bytes[3] = 54 /\ bytes[4] = 4 /\ bytes[5] = 10
         /\ bytes[6] = 0 /\ bytes[7] = 0 /\ bytes[8] = s /\ bytes[9] = 51 /\ bytes[10] = 4
         /\ bytes[11] = 0 /\ bytes[12] = 54 /\ bytes[13] = 4 /\ bytes[14] = 53 /\ bytes[15] = 0
         /\ bytes[16] = 53 /\ bytes[17] = 1 /\ bytes[18] = 2
BY DEF OfferTypeLast, TypeField, IdField, LeaseField, MessageType, ServerIdentifier,
       DhcpOffer, Address, Pad, EndOfOptions

(* What arrives of a packet.                                               *)
LEMMA CutOff ==
  ASSUME NEW bytes \in Seq(Nat), NEW size \in 0..Len(bytes), NEW data,
         data = SubSeq(bytes, 1, size)
  PROVE  /\ data \in Seq(Nat) /\ Len(data) = size
         /\ \A i \in 1..size : data[i] = bytes[i]
<1>1. size \in Int /\ 1 \in Int /\ \A i \in 1..size : bytes[i] \in Nat
  OBVIOUS
<1> QED BY <1>1, SubSeqProperties

-----------------------------------------------------------------------------
(* What the parser makes of an offer, whole or cut off.                    *)

LEMMA AddressOf ==
  ASSUME NEW s \in Nat, NEW v \in Seq(Nat), Len(v) = 4,
         v[1] = 10, v[2] = 0, v[3] = 0, v[4] = s
  PROVE  v = Address(s)
<1>1. Address(s) \in Seq(Nat) /\ Len(Address(s)) = 4
  BY DEF Address
<1>2. /\ Address(s)[1] = 10 /\ Address(s)[2] = 0 /\ Address(s)[3] = 0
      /\ Address(s)[4] = s
  BY DEF Address
<1>3. \A i \in 1..4 : i = 1 \/ i = 2 \/ i = 3 \/ i = 4
  OBVIOUS
<1>4. \A i \in 1..4 : v[i] = Address(s)[i]
  BY <1>2, <1>3
<1> QED BY <1>1, <1>4, SeqEqual

(* A value is there as a whole, or it is shorter than its length says.     *)
LEMMA ValueIs ==
  ASSUME NEW data \in Seq(Nat), NEW i \in Nat \ {0}, NEW length \in Nat
  PROVE  /\ i + 1 + length <= Len(data)
              => /\ Value(data, i, length) \in Seq(Nat)
                 /\ Len(Value(data, i, length)) = length
                 /\ \A j \in 1..length : Value(data, i, length)[j] = data[i + 1 + j]
         /\ i + 1 + length > Len(data)
              => Value(data, i, length) = None \/ Len(Value(data, i, length)) # length
<1>1. Len(data) \in Nat
  OBVIOUS
<1>2. PICK v : v = Value(data, i, length)
  OBVIOUS
<1>3. CASE i >= Len(data)
  BY <1>1, <1>3 DEF Value
<1>4. CASE i < Len(data)
  <2>1. PICK n : n = IF i + 1 + length < Len(data) THEN i + 1 + length ELSE Len(data)
    OBVIOUS
  <2>2. n \in Nat /\ n <= Len(data) /\ i < n
    BY <1>1, <1>4, <2>1
  <2>3. v = SubSeq(data, i + 2, n)
    BY <1>2, <1>4, <2>1 DEF Value
  <2>4. i + 2 \in Int /\ n \in Int /\ \A j \in (i + 2)..n : data[j] \in Nat
    BY <1>1, <2>2
  <2>5. /\ v \in Seq(Nat)
        /\ Len(v) = IF i + 2 <= n THEN n - (i + 2) + 1 ELSE 0
        /\ \A j \in 1..(n - (i + 2) + 1) : v[j] = data[(i + 2) + j - 1]
    BY <2>3, <2>4, SubSeqProperties
  <2>6. /\ Len(v) = n - i - 1
        /\ \A j \in 1..(n - i - 1) : v[j] = data[i + 1 + j]
    BY <2>2, <2>5
  <2>7. CASE i + 1 + length <= Len(data)
    <3>1. n - i - 1 = length
      BY <1>1, <2>1, <2>7
    <3>2. /\ v \in Seq(Nat) /\ Len(v) = length
          /\ \A j \in 1..length : v[j] = data[i + 1 + j]
      BY <2>5, <2>6, <3>1
    <3> QED BY <1>1, <1>2, <2>7, <3>2
  <2>8. CASE ~ (i + 1 + length <= Len(data))
    <3>1. n - i - 1 # length
      BY <1>1, <2>1, <2>8
    <3> QED BY <1>1, <1>2, <2>6, <2>8, <3>1
  <2> QED BY <2>7, <2>8
<1> QED BY <1>1, <1>3, <1>4

(* What has arrived of a packet, and where the fields of the packet are:   *)
(* that of an option lies between i and next.                              *)
Arrived(data, bytes) ==
  /\ bytes \in Seq(Nat) /\ data \in Seq(Nat) /\ Len(data) <= Len(bytes)
  /\ \A i \in 1..Len(data) : data[i] = bytes[i]

FieldAt(bytes, i, next, option) ==
  /\ i \in 1..Len(bytes) /\ next \in Nat /\ next >= i + 2
  /\ bytes[i] = option /\ bytes[i + 1] = next - i - 2

PadAt(bytes, i, next) == i \in 1..Len(bytes) /\ next = i + 1 /\ bytes[i] = Pad

EndAt(bytes, i) == i \in Nat \ {0} /\ (i <= Len(bytes) => bytes[i] = EndOfOptions)

LEMMA OverPad ==
  ASSUME NEW data, NEW bytes, Arrived(data, bytes), NEW code, NEW f, Parses(data, code, f),
         NEW i, NEW next, PadAt(bytes, i, next)
  PROVE  Found(data, f, i) = Found(data, f, next)
<1>1. data \in Seq(Nat) /\ i \in Nat \ {0} /\ next = i + 1 /\ Len(data) \in Nat
  BY DEF PadAt, Arrived
<1>2. i <= Len(data) => data[i] = Pad
  BY <1>1 DEF PadAt, Arrived
<1> QED BY <1>1, <1>2, SkipsPad

LEMMA AtEnd ==
  ASSUME NEW data, NEW bytes, Arrived(data, bytes), NEW code, NEW f, Parses(data, code, f),
         NEW i, EndAt(bytes, i)
  PROVE  Found(data, f, i) = None
<1>1. data \in Seq(Nat) /\ i \in Nat \ {0} /\ Len(data) \in Nat
  BY DEF EndAt, Arrived
<1>2. i <= Len(data) => data[i] = EndOfOptions
  BY <1>1 DEF EndAt, Arrived
<1> QED BY <1>1, <1>2, Ends

LEMMA OverField ==
  ASSUME NEW data, NEW bytes, Arrived(data, bytes), NEW code, NEW f, Parses(data, code, f),
         NEW i, NEW next, NEW option, FieldAt(bytes, i, next, option),
         option # Pad, option # EndOfOptions, option # code
  PROVE  Found(data, f, i) = Found(data, f, next)
<1>1. data \in Seq(Nat) /\ i \in Nat \ {0} /\ Len(data) \in Nat /\ next \in Nat /\ next >= i + 2
  BY DEF FieldAt, Arrived
<1>2. i <= Len(data) => data[i] # Pad /\ data[i] # EndOfOptions /\ data[i] # code
  BY <1>1 DEF FieldAt, Arrived
<1>3. i < Len(data) => data[i + 1] = next - i - 2
  BY <1>1 DEF FieldAt, Arrived
<1> QED BY <1>1, <1>2, <1>3, SkipsField

LEMMA InField ==
  ASSUME NEW data, NEW bytes, Arrived(data, bytes), NEW f,
         NEW i, NEW next, NEW option \in Nat, FieldAt(bytes, i, next, option),
         Parses(data, option, f), option \notin {Pad, EndOfOptions},
         Found(data, f, next) = None
  PROVE  Found(data, f, i) = Value(data, i, next - i - 2)
<1>1. PICK length \in Nat : length = next - i - 2
  BY DEF FieldAt
<1>2. data \in Seq(Nat) /\ i \in Nat \ {0} /\ Len(data) \in Nat /\ next = i + 2 + length
  BY <1>1 DEF FieldAt, Arrived
<1>3. i <= Len(data) => data[i] = option
  BY <1>2 DEF FieldAt, Arrived
<1>4. i < Len(data) => data[i + 1] = length
  BY <1>1, <1>2 DEF FieldAt, Arrived
<1> QED BY <1>1, <1>2, <1>3, <1>4, FindsField

(* Where an offer has the server and where it has the message type.        *)
ServerAt(bytes, i, s) ==
  /\ FieldAt(bytes, i, i + 6, ServerIdentifier) /\ i + 5 <= Len(bytes)
  /\ bytes[i + 2] = 10 /\ bytes[i + 3] = 0 /\ bytes[i + 4] = 0 /\ bytes[i + 5] = s

TypeAt(bytes, i) ==
  /\ FieldAt(bytes, i, i + 3, MessageType) /\ i + 2 <= Len(bytes)
  /\ bytes[i + 2] = 2

LEMMA TypeFirstFields ==
  ASSUME NEW s \in Nat, NEW bytes, bytes = OfferTypeFirst(s)
  PROVE  /\ bytes \in Seq(Nat)
         /\ FieldAt(bytes, 1, 4, 53) /\ FieldAt(bytes, 4, 10, 54)
         /\ FieldAt(bytes, 10, 16, 3) /\ EndAt(bytes, 16)
         /\ TypeAt(bytes, 1) /\ ServerAt(bytes, 4, s)
<1>1. bytes \in Seq(Nat) /\ Len(bytes) = 16
  BY TypeFirstBytes
<1>2. FieldAt(bytes, 1, 4, 53)
  <2>1. Len(bytes) = 16 /\ bytes[1] = 53 /\ bytes[2] = 1
    BY TypeFirstBytes
  <2> QED BY <2>1 DEF FieldAt
<1>3. FieldAt(bytes, 4, 10, 54)
  <2>1. Len(bytes) = 16 /\ bytes[4] = 54 /\ bytes[5] = 4
    BY TypeFirstBytes
  <2> QED BY <2>1 DEF FieldAt
<1>4. FieldAt(bytes, 10, 16, 3)
  <2>1. Len(bytes) = 16 /\ bytes[10] = 3 /\ bytes[11] = 4
    BY TypeFirstBytes
  <2> QED BY <2>1 DEF FieldAt
<1>5. EndAt(bytes, 16)
  <2>1. Len(bytes) = 16 /\ bytes[16] = 255
    BY TypeFirstBytes
  <2> QED BY <2>1 DEF EndAt, EndOfOptions
<1>6. TypeAt(bytes, 1)
  <2>1. Len(bytes) = 16 /\ bytes[1] = 53 /\ bytes[2] = 1 /\ bytes[3] = 2
    BY TypeFirstBytes
  <2> QED BY <2>1 DEF TypeAt, FieldAt, MessageType
<1>7. ServerAt(bytes, 4, s)
  <2>1. /\ Len(bytes) = 16 /\ bytes[4] = 54 /\ bytes[5] = 4 /\ bytes[6] = 10
        /\ bytes[7] = 0 /\ bytes[8] = 0 /\ bytes[9] = s
    BY TypeFirstBytes
  <2> QED BY <2>1 DEF ServerAt, FieldAt, ServerIdentifier
<1> QED BY <1>1, <1>2, <1>3, <1>4, <1>5, <1>6, <1>7

LEMMA WithLeaseFields ==
  ASSUME NEW s \in Nat, NEW bytes, bytes = OfferWithLease(s)
  PROVE  /\ bytes \in Seq(Nat)
         /\ FieldAt(bytes, 1, 4, 53) /\ FieldAt(bytes, 4, 10, 51) /\ PadAt(bytes, 10, 11)
         /\ FieldAt(bytes, 11, 17, 54) /\ EndAt(bytes, 17)
         /\ TypeAt(bytes, 1) /\ ServerAt(bytes, 11, s)
<1>1. bytes \in Seq(Nat) /\ Len(bytes) = 18
  BY WithLeaseBytes
<1>2. FieldAt(bytes, 1, 4, 53)
  <2>1. Len(bytes) = 18 /\ bytes[1] = 53 /\ bytes[2] = 1
    BY WithLeaseBytes
  <2> QED BY <2>1 DEF FieldAt
<1>3. FieldAt(bytes, 4, 10, 51)
  <2>1. Len(bytes) = 18 /\ bytes[4] = 51 /\ bytes[5] = 4
    BY WithLeaseBytes
  <2> QED BY <2>1 DEF FieldAt
<1>4. PadAt(bytes, 10, 11)
  <2>1. Len(bytes) = 18 /\ bytes[10] = 0
    BY WithLeaseBytes
  <2> QED BY <2>1 DEF PadAt, Pad
<1>5. FieldAt(bytes, 11, 17, 54)
  <2>1. Len(bytes) = 18 /\ bytes[11] = 54 /\ bytes[12] = 4
    BY WithLeaseBytes
  <2> QED BY <2>1 DEF FieldAt
<1>6. EndAt(bytes, 17)
  <2>1. Len(bytes) = 18 /\ bytes[17] = 255
    BY WithLeaseBytes
  <2> QED BY <2>1 DEF EndAt, EndOfOptions
<1>7. TypeAt(bytes, 1)
  <2>1. Len(bytes) = 18 /\ bytes[1] = 53 /\ bytes[2] = 1 /\ bytes[3] = 2
    BY WithLeaseBytes
  <2> QED BY <2>1 DEF TypeAt, FieldAt, MessageType
<1>8. ServerAt(bytes, 11, s)
  <2>1. /\ Len(bytes) = 18 /\ bytes[11] = 54 /\ bytes[12] = 4 /\ bytes[13] = 10
        /\ bytes[14] = 0 /\ bytes[15] = 0 /\ bytes[16] = s
    BY WithLeaseBytes
  <2> QED BY <2>1 DEF ServerAt, FieldAt, ServerIdentifier
<1> QED BY <1>1, <1>2, <1>3, <1>4, <1>5, <1>6, <1>7, <1>8

LEMMA TypeLastFields ==
  ASSUME NEW s \in Nat, NEW bytes, bytes = OfferTypeLast(s)
  PROVE  /\ bytes \in Seq(Nat)
         /\ PadAt(bytes, 1, 2) /\ PadAt(bytes, 2, 3) /\ FieldAt(bytes, 3, 9, 54)
         /\ FieldAt(bytes, 9, 15, 51) /\ PadAt(bytes, 15, 16) /\ FieldAt(bytes, 16, 19, 53)
         /\ EndAt(bytes, 19)
         /\ TypeAt(bytes, 16) /\ ServerAt(bytes, 3, s)
<1>1. bytes \in Seq(Nat) /\ Len(bytes) = 18
  BY TypeLastBytes
<1>2. PadAt(bytes, 1, 2)
  <2>1. Len(bytes) = 18 /\ bytes[1] = 0
    BY TypeLastBytes
  <2> QED BY <2>1 DEF PadAt, Pad
<1>3. PadAt(bytes, 2, 3)
  <2>1. Len(bytes) = 18 /\ bytes[2] = 0
    BY TypeLastBytes
  <2> QED BY <2>1 DEF PadAt, Pad
<1>4. FieldAt(bytes, 3, 9, 54)
  <2>1. Len(bytes) = 18 /\ bytes[3] = 54 /\ bytes[4] = 4
    BY TypeLastBytes
  <2> QED BY <2>1 DEF FieldAt
<1>5. FieldAt(bytes, 9, 15, 51)
  <2>1. Len(bytes) = 18 /\ bytes[9] = 51 /\ bytes[10] = 4
    BY TypeLastBytes
  <2> QED BY <2>1 DEF FieldAt
<1>6. PadAt(bytes, 15, 16)
  <2>1. Len(bytes) = 18 /\ bytes[15] = 0
    BY TypeLastBytes
  <2> QED BY <2>1 DEF PadAt, Pad
<1>7. FieldAt(bytes, 16, 19, 53)
  <2>1. Len(bytes) = 18 /\ bytes[16] = 53 /\ bytes[17] = 1
    BY TypeLastBytes
  <2> QED BY <2>1 DEF FieldAt
<1>8. EndAt(bytes, 19)
  <2>1. Len(bytes) = 18
    BY TypeLastBytes
  <2> QED BY <2>1 DEF EndAt, EndOfOptions
<1>9. TypeAt(bytes, 16)
  <2>1. Len(bytes) = 18 /\ bytes[16] = 53 /\ bytes[17] = 1 /\ bytes[18] = 2
    BY TypeLastBytes
  <2> QED BY <2>1 DEF TypeAt, FieldAt, MessageType
<1>10. ServerAt(bytes, 3, s)
  <2>1. /\ Len(bytes) = 18 /\ bytes[3] = 54 /\ bytes[4] = 4 /\ bytes[5] = 10
        /\ bytes[6] = 0 /\ bytes[7] = 0 /\ bytes[8] = s
    BY TypeLastBytes
  <2> QED BY <2>1 DEF ServerAt, FieldAt, ServerIdentifier
<1> QED BY <1>1, <1>2, <1>3, <1>4, <1>5, <1>6, <1>7, <1>8, <1>9, <1>10

(* Whichever option is looked for, the parser gets from field to field.    *)
LEMMA IdIsLookedUp ==
  ASSUME NEW s \in Nat, NEW bytes \in OfferBytes(s), NEW data, Arrived(data, bytes)
  PROVE  \E i : ServerAt(bytes, i, s) /\ Option(data, 54) = Value(data, i, 4)
<1>1. \/ bytes = OfferTypeFirst(s) \/ bytes = OfferWithLease(s) \/ bytes = OfferTypeLast(s)
  BY DEF OfferBytes, OfferTypeFirst, OfferWithLease, OfferTypeLast
<1>2. PICK f : Parses(data, 54, f) /\ Option(data, 54) = Found(data, f, 1)
  BY OptionIsFound DEF Arrived
<1>3. /\ 54 \in Nat /\ 54 \notin {Pad, EndOfOptions}
      /\ 3 # Pad /\ 3 # EndOfOptions /\ 3 # 54
      /\ 51 # Pad /\ 51 # EndOfOptions /\ 51 # 54
      /\ 53 # Pad /\ 53 # EndOfOptions /\ 53 # 54
  BY DEF Pad, EndOfOptions
<1>4. CASE bytes = OfferTypeFirst(s)
  <2>1. /\ FieldAt(bytes, 1, 4, 53) /\ FieldAt(bytes, 4, 10, 54) /\ FieldAt(bytes, 10, 16, 3)
        /\ EndAt(bytes, 16) /\ ServerAt(bytes, 4, s)
    BY <1>4, TypeFirstFields
  <2>2. Found(data, f, 10) = Found(data, f, 16)
    BY <1>2, <1>3, <2>1, OverField
  <2>3. Found(data, f, 16) = None
    BY <1>2, <2>1, AtEnd
  <2>4. Found(data, f, 10) = None
    BY <2>2, <2>3
  <2>5. 10 - 4 - 2 = 4
    OBVIOUS
  <2>6. Found(data, f, 4) = Value(data, 4, 4)
    BY <1>2, <1>3, <2>1, <2>4, <2>5, InField
  <2>7. Found(data, f, 1) = Found(data, f, 4)
    BY <1>2, <1>3, <2>1, OverField
  <2> QED BY <1>2, <2>1, <2>6, <2>7
<1>5. CASE bytes = OfferWithLease(s)
  <2>1. /\ FieldAt(bytes, 1, 4, 53) /\ FieldAt(bytes, 4, 10, 51) /\ PadAt(bytes, 10, 11)
        /\ FieldAt(bytes, 11, 17, 54) /\ EndAt(bytes, 17) /\ ServerAt(bytes, 11, s)
    BY <1>5, WithLeaseFields
  <2>2. Found(data, f, 17) = None
    BY <1>2, <2>1, AtEnd
  <2>3. 17 - 11 - 2 = 4
    OBVIOUS
  <2>4. Found(data, f, 11) = Value(data, 11, 4)
    BY <1>2, <1>3, <2>1, <2>2, <2>3, InField
  <2>5. Found(data, f, 1) = Found(data, f, 4)
    BY <1>2, <1>3, <2>1, OverField
  <2>6. Found(data, f, 4) = Found(data, f, 10)
    BY <1>2, <1>3, <2>1, OverField
  <2>7. Found(data, f, 10) = Found(data, f, 11)
    BY <1>2, <2>1, OverPad
  <2> QED BY <1>2, <2>1, <2>4, <2>5, <2>6, <2>7
<1>6. CASE bytes = OfferTypeLast(s)
  <2>1. /\ PadAt(bytes, 1, 2) /\ PadAt(bytes, 2, 3) /\ FieldAt(bytes, 3, 9, 54)
        /\ FieldAt(bytes, 9, 15, 51) /\ PadAt(bytes, 15, 16) /\ FieldAt(bytes, 16, 19, 53)
        /\ EndAt(bytes, 19) /\ ServerAt(bytes, 3, s)
    BY <1>6, TypeLastFields
  <2>2. Found(data, f, 9) = Found(data, f, 15)
    BY <1>2, <1>3, <2>1, OverField
  <2>3. Found(data, f, 15) = Found(data, f, 16)
    BY <1>2, <2>1, OverPad
  <2>4. Found(data, f, 16) = Found(data, f, 19)
    BY <1>2, <1>3, <2>1, OverField
  <2>5. Found(data, f, 19) = None
    BY <1>2, <2>1, AtEnd
  <2>6. Found(data, f, 9) = None
    BY <2>2, <2>3, <2>4, <2>5
  <2>7. 9 - 3 - 2 = 4
    OBVIOUS
  <2>8. Found(data, f, 3) = Value(data, 3, 4)
    BY <1>2, <1>3, <2>1, <2>6, <2>7, InField
  <2>9. Found(data, f, 1) = Found(data, f, 2)
    BY <1>2, <2>1, OverPad
  <2>10. Found(data, f, 2) = Found(data, f, 3)
    BY <1>2, <2>1, OverPad
  <2> QED BY <1>2, <2>1, <2>8, <2>9, <2>10
<1> QED BY <1>1, <1>4, <1>5, <1>6

LEMMA TypeIsLookedUp ==
  ASSUME NEW s \in Nat, NEW bytes \in OfferBytes(s), NEW data, Arrived(data, bytes)
  PROVE  \E i : TypeAt(bytes, i) /\ Option(data, 53) = Value(data, i, 1)
<1>1. \/ bytes = OfferTypeFirst(s) \/ bytes = OfferWithLease(s) \/ bytes = OfferTypeLast(s)
  BY DEF OfferBytes, OfferTypeFirst, OfferWithLease, OfferTypeLast
<1>2. PICK f : Parses(data, 53, f) /\ Option(data, 53) = Found(data, f, 1)
  BY OptionIsFound DEF Arrived
<1>3. /\ 53 \in Nat /\ 53 \notin {Pad, EndOfOptions}
      /\ 3 # Pad /\ 3 # EndOfOptions /\ 3 # 53
      /\ 51 # Pad /\ 51 # EndOfOptions /\ 51 # 53
      /\ 54 # Pad /\ 54 # EndOfOptions /\ 54 # 53
  BY DEF Pad, EndOfOptions
<1>4. CASE bytes = OfferTypeFirst(s)
  <2>1. /\ FieldAt(bytes, 1, 4, 53) /\ FieldAt(bytes, 4, 10, 54) /\ FieldAt(bytes, 10, 16, 3)
        /\ EndAt(bytes, 16) /\ TypeAt(bytes, 1)
    BY <1>4, TypeFirstFields
  <2>2. Found(data, f, 4) = Found(data, f, 10)
    BY <1>2, <1>3, <2>1, OverField
  <2>3. Found(data, f, 10) = Found(data, f, 16)
    BY <1>2, <1>3, <2>1, OverField
  <2>4. Found(data, f, 16) = None
    BY <1>2, <2>1, AtEnd
  <2>5. Found(data, f, 4) = None
    BY <2>2, <2>3, <2>4
  <2>6. 4 - 1 - 2 = 1
    OBVIOUS
  <2>7. Found(data, f, 1) = Value(data, 1, 1)
    BY <1>2, <1>3, <2>1, <2>5, <2>6, InField
  <2> QED BY <1>2, <2>1, <2>7
<1>5. CASE bytes = OfferWithLease(s)
  <2>1. /\ FieldAt(bytes, 1, 4, 53) /\ FieldAt(bytes, 4, 10, 51) /\ PadAt(bytes, 10, 11)
        /\ FieldAt(bytes, 11, 17, 54) /\ EndAt(bytes, 17) /\ TypeAt(bytes, 1)
    BY <1>5, WithLeaseFields
  <2>2. Found(data, f, 4) = Found(data, f, 10)
    BY <1>2, <1>3, <2>1, OverField
  <2>3. Found(data, f, 10) = Found(data, f, 11)
    BY <1>2, <2>1, OverPad
  <2>4. Found(data, f, 11) = Found(data, f, 17)
    BY <1>2, <1>3, <2>1, OverField
  <2>5. Found(data, f, 17) = None
    BY <1>2, <2>1, AtEnd
  <2>6. Found(data, f, 4) = None
    BY <2>2, <2>3, <2>4, <2>5
  <2>7. 4 - 1 - 2 = 1
    OBVIOUS
  <2>8. Found(data, f, 1) = Value(data, 1, 1)
    BY <1>2, <1>3, <2>1, <2>6, <2>7, InField
  <2> QED BY <1>2, <2>1, <2>8
<1>6. CASE bytes = OfferTypeLast(s)
  <2>1. /\ PadAt(bytes, 1, 2) /\ PadAt(bytes, 2, 3) /\ FieldAt(bytes, 3, 9, 54)
        /\ FieldAt(bytes, 9, 15, 51) /\ PadAt(bytes, 15, 16) /\ FieldAt(bytes, 16, 19, 53)
        /\ EndAt(bytes, 19) /\ TypeAt(bytes, 16)
    BY <1>6, TypeLastFields
  <2>2. Found(data, f, 19) = None
    BY <1>2, <2>1, AtEnd
  <2>3. 19 - 16 - 2 = 1
    OBVIOUS
  <2>4. Found(data, f, 16) = Value(data, 16, 1)
    BY <1>2, <1>3, <2>1, <2>2, <2>3, InField
  <2>5. Found(data, f, 1) = Found(data, f, 2)
    BY <1>2, <2>1, OverPad
  <2>6. Found(data, f, 2) = Found(data, f, 3)
    BY <1>2, <2>1, OverPad
  <2>7. Found(data, f, 3) = Found(data, f, 9)
    BY <1>2, <1>3, <2>1, OverField
  <2>8. Found(data, f, 9) = Found(data, f, 15)
    BY <1>2, <1>3, <2>1, OverField
  <2>9. Found(data, f, 15) = Found(data, f, 16)
    BY <1>2, <2>1, OverPad
  <2> QED BY <1>2, <2>1, <2>4, <2>5, <2>6, <2>7, <2>8, <2>9
<1> QED BY <1>1, <1>4, <1>5, <1>6

LEMMA OffersArrive ==
  ASSUME NEW s \in Nat, NEW bytes \in OfferBytes(s)
  PROVE  /\ Arrived(bytes, bytes)
         /\ \A size \in 0..Len(bytes) : Arrived(SubSeq(bytes, 1, size), bytes)
<1>1. \/ bytes = OfferTypeFirst(s) \/ bytes = OfferWithLease(s) \/ bytes = OfferTypeLast(s)
  BY DEF OfferBytes, OfferTypeFirst, OfferWithLease, OfferTypeLast
<1>2. bytes \in Seq(Nat)
  BY <1>1, TypeFirstFields, WithLeaseFields, TypeLastFields
<1>3. Len(bytes) \in Nat
  BY <1>2
<1>4. Arrived(bytes, bytes)
  BY <1>2, <1>3 DEF Arrived
<1>5. ASSUME NEW size \in 0..Len(bytes), NEW data, data = SubSeq(bytes, 1, size)
      PROVE  Arrived(data, bytes)
  BY <1>2, <1>3, <1>5, CutOff DEF Arrived
<1> QED BY <1>4, <1>5

(* Wherever the packet is cut off, server_id names the server or nobody;   *)
(* and the server if it is whole (dhcp_detect.py:59-103).                  *)
THEOREM IdNamesTheServer ==
  ASSUME NEW s \in Nat, NEW bytes \in OfferBytes(s), NEW data, Arrived(data, bytes)
  PROVE  /\ ServerId(data) \in {None, Address(s)}
         /\ Len(data) = Len(bytes) => ServerId(data) = Address(s)
<1>1. PICK i : ServerAt(bytes, i, s) /\ Option(data, 54) = Value(data, i, 4)
  BY IdIsLookedUp
<1>2. PICK v : v = Value(data, i, 4)
  OBVIOUS
<1>3. ServerId(data) = IF v # None /\ Len(v) = 4 THEN v ELSE None
  BY <1>1, <1>2 DEF ServerId, ServerIdentifier
<1>4. /\ data \in Seq(Nat) /\ Len(data) \in Nat /\ i \in Nat \ {0} /\ i + 5 <= Len(bytes)
  BY <1>1 DEF ServerAt, FieldAt, Arrived
<1>5. CASE i + 5 <= Len(data)
  <2>1. i + 1 + 4 <= Len(data) /\ 4 \in Nat
    BY <1>4, <1>5
  <2>2. v \in Seq(Nat) /\ Len(v) = 4 /\ \A j \in 1..4 : v[j] = data[i + 1 + j]
    BY <1>2, <1>4, <2>1, ValueIs
  <2>3. \A j \in 2..5 : data[i + j] = bytes[i + j]
    BY <1>4, <1>5 DEF Arrived
  <2>4. v[1] = data[i + 2] /\ v[2] = data[i + 3] /\ v[3] = data[i + 4] /\ v[4] = data[i + 5]
    <3>1. /\ v[1] = data[i + 1 + 1] /\ v[2] = data[i + 1 + 2] /\ v[3] = data[i + 1 + 3]
          /\ v[4] = data[i + 1 + 4]
      BY <2>2
    <3>2. /\ i + 1 + 1 = i + 2 /\ i + 1 + 2 = i + 3 /\ i + 1 + 3 = i + 4
          /\ i + 1 + 4 = i + 5
      BY <1>4
    <3> QED BY <3>1, <3>2
  <2>5. v[1] = 10 /\ v[2] = 0 /\ v[3] = 0 /\ v[4] = s
    <3>1. /\ data[i + 2] = bytes[i + 2] /\ data[i + 3] = bytes[i + 3]
          /\ data[i + 4] = bytes[i + 4] /\ data[i + 5] = bytes[i + 5]
      BY <2>3
    <3> QED BY <1>1, <2>4, <3>1 DEF ServerAt
  <2>6. v = Address(s)
    BY <2>2, <2>5, AddressOf
  <2> QED BY <1>3, <2>2, <2>6
<1>6. CASE ~ (i + 5 <= Len(data))
  <2>1. i + 1 + 4 > Len(data) /\ 4 \in Nat
    BY <1>4, <1>6
  <2>2. v = None \/ Len(v) # 4
    BY <1>2, <1>4, <2>1, ValueIs
  <2>3. ServerId(data) = None
    BY <1>3, <2>2
  <2> QED BY <1>4, <1>6, <2>3
<1> QED BY <1>5, <1>6

(* An offer that is whole is taken for one.                                *)
LEMMA OfferIsParsed ==
  ASSUME NEW s \in Nat, NEW bytes \in OfferBytes(s)
  PROVE  Option(bytes, MessageType) = DhcpOffer
<1>1. Arrived(bytes, bytes)
  BY OffersArrive
<1>2. PICK i : TypeAt(bytes, i) /\ Option(bytes, 53) = Value(bytes, i, 1)
  BY <1>1, TypeIsLookedUp
<1>3. PICK v : v = Value(bytes, i, 1)
  OBVIOUS
<1>4. bytes \in Seq(Nat) /\ Len(bytes) \in Nat /\ i \in Nat \ {0} /\ i + 2 <= Len(bytes)
  BY <1>1, <1>2 DEF TypeAt, FieldAt, Arrived
<1>5. v \in Seq(Nat) /\ Len(v) = 1 /\ \A j \in 1..1 : v[j] = bytes[i + 1 + j]
  <2>1. i + 1 + 1 <= Len(bytes) /\ 1 \in Nat
    BY <1>4
  <2> QED BY <1>3, <1>4, <2>1, ValueIs
<1>6. v[1] = bytes[i + 2]
  <2>1. v[1] = bytes[i + 1 + 1] /\ i + 1 + 1 = i + 2
    BY <1>4, <1>5
  <2> QED BY <2>1
<1>7. v[1] = 2
  BY <1>2, <1>6 DEF TypeAt
<1>8. v = <<2>>
  <2>1. \A j \in 1..1 : j = 1
    OBVIOUS
  <2>2. <<2>> \in Seq(Nat) /\ Len(<<2>>) = 1 /\ <<2>>[1] = 2
    OBVIOUS
  <2>3. \A j \in 1..Len(v) : v[j] = <<2>>[j]
    BY <1>5, <1>7, <2>1, <2>2
  <2> QED BY <1>5, <2>2, <2>3, SeqEqual
<1> QED BY <1>2, <1>3, <1>8 DEF MessageType, DhcpOffer

-----------------------------------------------------------------------------
(* Types, and what the offers name.                                        *)

OffersName(offers) == \A offer \in offers : offer.id \in {None, Address(offer.source)}

NamesFit ==
  /\ OffersName(setting.offers)
  /\ \A r \in Probes : OffersName(loaded[r].offers) /\ OffersName(heard[r])

LEMMA ServersAreNumbers == \A s \in Servers : s \in Nat
BY ProbeAssumption

LEMMA NoSettingIsTyped == NoSetting \in Setting /\ OffersName(NoSetting.offers)
BY DEF NoSetting, Setting, OffersName

LEMMA InitIsTyped == Init => TypeOK /\ NamesFit
BY NoSettingIsTyped DEF Init, TypeOK, NamesFit, Pending, OffersName

LEMMA StepIsTyped ==
  ASSUME TypeOK, NamesFit, Next PROVE TypeOK' /\ NamesFit'
<1> USE DEF TypeOK, NamesFit, Pending, Go
<1>1. ASSUME NEW r \in Probes, LoadSetting(r) PROVE TypeOK' /\ NamesFit'
  BY <1>1 DEF LoadSetting
<1>2. ASSUME NEW r \in Probes, Mark(r) PROVE TypeOK' /\ NamesFit'
  <2>1. Marked(loaded[r]) \in Setting /\ OffersName(Marked(loaded[r]).offers)
    BY DEF Marked, Setting
  <2> QED BY <1>2, <2>1, NoSettingIsTyped DEF Mark
<1>3. ASSUME NEW r \in Probes, MarkRefused(r) PROVE TypeOK' /\ NamesFit'
  BY <1>3, NoSettingIsTyped DEF MarkRefused
<1>4. ASSUME NEW r \in Probes, Listen(r) \/ EndProbe(r) PROVE TypeOK' /\ NamesFit'
  BY <1>4 DEF Listen, EndProbe
<1>5. ASSUME NEW r \in Probes, FailProbe(r) \/ CrashProbe(r) PROVE TypeOK' /\ NamesFit'
  BY <1>5 DEF FailProbe, CrashProbe, Outcome, OffersName
<1>6. ASSUME NEW r \in Probes, NEW x \in Probes \cup {Nobody}, NEW s \in Servers,
             Receive(r, x, s)
      PROVE  TypeOK' /\ NamesFit'
  <2>1. PICK id : /\ id \in {None, Address(s)}
                  /\ heard' = [heard EXCEPT ![r] = @ \cup {[id |-> id, source |-> s, xid |-> x]}]
    <3>1. PICK bytes \in OfferBytes(s) : \E size \in 0..Len(bytes) :
            heard' = [heard EXCEPT ![r] = @ \cup
                       {[id |-> ServerId(SubSeq(bytes, 1, size)), source |-> s, xid |-> x]}]
      BY <1>6 DEF Receive
    <3>2. PICK size \in 0..Len(bytes) :
            heard' = [heard EXCEPT ![r] = @ \cup
                       {[id |-> ServerId(SubSeq(bytes, 1, size)), source |-> s, xid |-> x]}]
      BY <3>1
    <3>3. ServerId(SubSeq(bytes, 1, size)) \in {None, Address(s)}
      BY ServersAreNumbers, OffersArrive, IdNamesTheServer
    <3> QED BY <3>2, <3>3
  <2>2. PICK offer : offer = [id |-> id, source |-> s, xid |-> x]
    OBVIOUS
  <2>3. offer \in Offer /\ offer.id \in {None, Address(offer.source)}
    BY <2>1, <2>2 DEF Offer
  <2>4. UNCHANGED <<setting, at, loaded, failed, earlier>>
    BY <1>6 DEF Receive
  <2> QED BY <2>1, <2>2, <2>3, <2>4 DEF OffersName
<1>7. ASSUME NEW r \in Probes, Store(r) PROVE TypeOK' /\ NamesFit'
  BY <1>7 DEF Store, Setting, OffersName
<1>8. ASSUME Restart PROVE TypeOK' /\ NamesFit'
  BY <1>8, NoSettingIsTyped DEF Restart, OffersName
<1> QED BY <1>1, <1>2, <1>3, <1>4, <1>5, <1>6, <1>7, <1>8 DEF Next

LEMMA NamesAreTyped == Spec => [](TypeOK /\ NamesFit)
<1>1. TypeOK /\ NamesFit /\ [Next]_vars => (TypeOK /\ NamesFit)'
  <2> SUFFICES ASSUME TypeOK, NamesFit, UNCHANGED vars PROVE TypeOK' /\ NamesFit'
    BY StepIsTyped
  <2> QED BY DEF TypeOK, NamesFit, OffersName, vars
<1> QED BY InitIsTyped, <1>1, PTL DEF Spec

(* The row, what requests have read of it and what probes have heard are   *)
(* of their types: an offer names one of the servers or none               *)
(* (dhcp_detect.py:94-103, dhcp_probe.py:49-61).                           *)
THEOREM ProbeTypes == Spec => []TypeOK
BY NamesAreTyped, PTL
(* The offers on the page answer the probe they are shown with, whichever  *)
(* others are under way and whatever is put back; and they name the server *)
(* that has sent them, however it lays out its packets, or none            *)
(* (dhcp_detect.py:59-103, dhcp_probe.py:55-57).                           *)
THEOREM OffersAnswer == Spec => []OffersAnswerTheProbe
<1>1. ASSUME NEW s \in Servers, NEW bytes \in OfferBytes(s)
      PROVE  ParseOffer(bytes, s, s) /\ ServerId(bytes) = Address(s)
  <2>1. Arrived(bytes, bytes) /\ Len(bytes) = Len(bytes)
    BY ServersAreNumbers, OffersArrive
  <2>2. ServerId(bytes) = Address(s)
    BY <2>1, ServersAreNumbers, IdNamesTheServer
  <2>3. Option(bytes, MessageType) = DhcpOffer
    BY ServersAreNumbers, OfferIsParsed
  <2> QED BY <2>2, <2>3 DEF ParseOffer
<1>2. ProbeInv /\ TypeOK /\ NamesFit => OffersAnswerTheProbe
  BY <1>1 DEF ProbeInv, AnswersFit, OffersFit, NamesFit, OffersName, OffersAnswerTheProbe
<1> QED BY <1>2, ProbeInvariantHolds, NamesAreTyped, PTL
=============================================================================
