-------------------------- MODULE CatalogueProofs --------------------------
(***************************************************************************)
(* The references between hosts, profiles, images and build records        *)
(* resolve, and images in use stay, for any sets of images, hosts and      *)
(* workers.  The services are followed on the tables of a session, as the  *)
(* module does; the requests then only have to keep what they save.        *)
(***************************************************************************)
EXTENDS Catalogue, WellFoundedInduction, TLAPS

(* A profile that a request is about to make the default has an id that    *)
(* was given out.                                                          *)
FallBacksAreMade ==
  \A w \in Workers : request[w].op = "fall back" => request[w].profile \in 1..made

CatalogueInv == TypeOK /\ FallBacksAreMade /\ ReferencesResolve

(* What the services find and leave in the tables of a session.            *)
SomeTables ==
  [images : SUBSET Images, profiles : [Ids -> ProfileRow],
   made : 0..MaxProfiles, default : 0..MaxProfiles]

Sound(T) ==
  /\ T \in SomeTables
  /\ T.default <= T.made
  /\ \A p \in Ids : T.profiles[p] # NoProfile
                      => p <= T.made /\ T.profiles[p].image \in T.images

(* Nothing that was there has gone.                                        *)
Grows(T, U) ==
  /\ T.images \subseteq U.images
  /\ T.made <= U.made
  /\ \A p \in Ids : T.profiles[p] # NoProfile => U.profiles[p] # NoProfile

-----------------------------------------------------------------------------
(* A set of numbers that has a member has a least one.                     *)
LEMMA LeastOfIds ==
  ASSUME NEW E \in SUBSET Nat, E # {}
  PROVE  \E p \in E : \A q \in E : p <= q
<1>1. PICK p \in E : \A q \in E : ~ (<<q, p>> \in OpToRel(<, Nat))
  BY NatLessThanWellFounded, WFMin
<1>2. ASSUME NEW q \in E PROVE p <= q
  <2>1. ~ (q < p)  BY <1>1 DEF OpToRel
  <2> QED  BY <2>1
<1> QED  BY <1>2

(* The first profile is a profile, or there is none.                       *)
LEMMA FirstIsMade ==
  ASSUME NEW T, Sound(T)
  PROVE  First(T) \in 0..T.made
<1> DEFINE E == {p \in Ids : T.profiles[p] # NoProfile}
<1>1. T.made \in 0..MaxProfiles /\ MaxProfiles \in Nat
  BY CatalogueAssumption DEF Sound, SomeTables
<1>2. CASE E = {}
  <2>1. First(T) = 0  BY <1>2 DEF First
  <2> QED  BY <1>1, <2>1
<1>3. CASE E # {}
  <2>1. E \in SUBSET Nat  BY <1>1 DEF Ids
  <2>2. \E p \in E : \A q \in E : p <= q  BY <1>3, <2>1, LeastOfIds
  <2>3. First(T) = CHOOSE p \in E : \A q \in E : p <= q  BY <1>3 DEF First
  <2>4. First(T) \in E  BY <2>2, <2>3
  <2> QED  BY <1>1, <2>4 DEF Sound, Ids
<1> QED  BY <1>2, <1>3

LEMMA DefaultIsMade ==
  ASSUME NEW T, Sound(T)
  PROVE  UnattendedDefault(T) \in 0..T.made
<1>1. T.made \in 0..MaxProfiles /\ MaxProfiles \in Nat /\ T.default \in 0..MaxProfiles
  BY CatalogueAssumption DEF Sound, SomeTables
<1> QED  BY <1>1, FirstIsMade DEF UnattendedDefault, Sound

(* Inserting a profile of an image that exists keeps the tables sound.     *)
LEMMA InsertKeeps ==
  ASSUME NEW T, Sound(T), T.made < MaxProfiles,
         NEW i \in T.images, NEW managed \in BOOLEAN
  PROVE  LET U == InsertProfile(T, i, managed) IN Sound(U) /\ Grows(T, U)
<1> DEFINE U == InsertProfile(T, i, managed)
           n == T.made + 1
           row == [image |-> i, managed |-> managed]
<1>1. /\ T \in SomeTables /\ T.made \in 0..MaxProfiles /\ MaxProfiles \in Nat
      /\ T.images \subseteq Images /\ T.default \in 0..MaxProfiles
      /\ T.profiles \in [Ids -> ProfileRow]
  BY CatalogueAssumption DEF Sound, SomeTables
<1>2. n \in Ids /\ n \in 0..MaxProfiles /\ T.made <= n  BY <1>1 DEF Ids
<1>3. row \in ProfileRow  BY <1>1 DEF ProfileRow
<1>4. /\ U.images = T.images /\ U.default = T.default /\ U.made = n
      /\ U.profiles = [T.profiles EXCEPT ![n] = row]
  BY <1>1 DEF InsertProfile, SomeTables
<1>5. U \in SomeTables  BY <1>1, <1>2, <1>3 DEF InsertProfile, SomeTables
<1>6. U.default <= U.made  BY <1>1, <1>2, <1>4 DEF Sound
<1>7. ASSUME NEW p \in Ids, U.profiles[p] # NoProfile
      PROVE  p <= U.made /\ U.profiles[p].image \in U.images
  <2>1. CASE p = n  BY <1>1, <1>2, <1>4, <2>1
  <2>2. CASE p # n
    <3>1. U.profiles[p] = T.profiles[p]  BY <1>1, <1>4, <2>2
    <3>2. p <= T.made /\ T.profiles[p].image \in T.images  BY <1>7, <3>1 DEF Sound
    <3> QED  BY <1>1, <1>2, <1>4, <3>1, <3>2 DEF Ids
  <2> QED  BY <2>1, <2>2
<1>8. ASSUME NEW p \in Ids, T.profiles[p] # NoProfile
      PROVE  U.profiles[p] # NoProfile
  <2>1. row # NoProfile  BY <1>1, CatalogueAssumption DEF NoProfile
  <2> QED  BY <1>1, <1>4, <1>8, <2>1
<1> HIDE DEF U
<1>9. Sound(U)  BY <1>5, <1>6, <1>7 DEF Sound
<1>10. Grows(T, U)  BY <1>2, <1>4, <1>8 DEF Grows
<1> QED  BY <1>9, <1>10 DEF U

LEMMA EnsureDefaultProfileKeeps ==
  ASSUME NEW T, Sound(T), NEW i \in T.images,
         Managed(T, i) # {} \/ T.made < MaxProfiles
  PROVE  LET U == EnsureDefaultProfile(T, i) IN Sound(U) /\ Grows(T, U)
<1>1. Grows(T, T)
  BY CatalogueAssumption DEF Grows, Sound, SomeTables
<1>2. CASE Managed(T, i) # {}  BY <1>1, <1>2 DEF EnsureDefaultProfile
<1>3. CASE Managed(T, i) = {}  BY <1>3, InsertKeeps DEF EnsureDefaultProfile
<1> QED  BY <1>2, <1>3

LEMMA EnsureUnattendedDefaultKeeps ==
  ASSUME NEW T, Sound(T)
  PROVE  LET U == EnsureUnattendedDefault(T) IN Sound(U) /\ Grows(T, U)
<1> DEFINE d == UnattendedDefault(T)
           U == [T EXCEPT !.default = d]
<1>1. /\ T \in SomeTables /\ T.made \in 0..MaxProfiles /\ MaxProfiles \in Nat
  BY CatalogueAssumption DEF Sound, SomeTables
<1>2. d \in 0..T.made  BY DefaultIsMade
<1> HIDE DEF d
<1>3. /\ U \in SomeTables /\ U.default = d
      /\ U.made = T.made /\ U.images = T.images /\ U.profiles = T.profiles
  BY <1>1, <1>2 DEF SomeTables
<1>4. Grows(T, T) /\ Grows(T, U)  BY <1>1, <1>3 DEF Grows
<1>5. Sound(U)  BY <1>1, <1>2, <1>3 DEF Sound
<1> QED  BY <1>4, <1>5 DEF EnsureUnattendedDefault, d

LEMMA GrowsTransitive ==
  ASSUME NEW S, NEW T, NEW U, Sound(S), Sound(T), Sound(U), Grows(S, T), Grows(T, U)
  PROVE  Grows(S, U)
<1>1. S.made \in Int /\ T.made \in Int /\ U.made \in Int
  BY CatalogueAssumption DEF Sound, SomeTables
<1> QED  BY <1>1 DEF Grows

-----------------------------------------------------------------------------
(* What holds of the tables as committed.                                  *)
LEMMA CommittedAreSound ==
  ASSUME CatalogueInv
  PROVE  Sound(Tables)
<1>1. MaxProfiles \in Nat  BY CatalogueAssumption
<1>2. Tables \in SomeTables  BY <1>1 DEF CatalogueInv, TypeOK, Tables, SomeTables
<1>3. Tables.default <= Tables.made  BY <1>1 DEF CatalogueInv, TypeOK, Tables
<1>4. ASSUME NEW p \in Ids, Tables.profiles[p] # NoProfile
      PROVE  p <= Tables.made /\ Tables.profiles[p].image \in Tables.images
  <2>1. p \in Existing  BY <1>4 DEF Tables, Existing
  <2> QED
    BY <1>1, <2>1 DEF CatalogueInv, TypeOK, ReferencesResolve, Tables, Ids
<1> QED  BY <1>2, <1>3, <1>4 DEF Sound

(* A session that leaves sound tables, with all that was there, and does   *)
(* not touch hosts and history, keeps everything.                          *)
LEMMA SaveKeeps ==
  ASSUME CatalogueInv, NEW T, Sound(T), Grows(Tables, T), Save(T),
         UNCHANGED <<usage, request>>
  PROVE  CatalogueInv' /\ images \subseteq images'
<1>1. MaxProfiles \in Nat /\ made \in 0..MaxProfiles /\ T.made \in 0..MaxProfiles
  BY CatalogueAssumption DEF CatalogueInv, TypeOK, Sound, SomeTables
<1>2. made <= made' /\ images \subseteq images' /\ Existing \subseteq Existing'
  BY DEF Save, Grows, Tables, Existing
<1>3. /\ images' \subseteq Images /\ profiles' \in [Ids -> ProfileRow]
      /\ made' \in 0..MaxProfiles /\ default' \in 0..made'
  BY <1>1 DEF Save, Sound, SomeTables
<1>4. Existing' \subseteq 1..made' /\ \A p \in Existing' : profiles'[p].image \in images'
  BY <1>1 DEF Save, Sound, Existing, Ids
<1>5. /\ profileOf' = profileOf /\ history' = history /\ request' = request
  BY DEF usage
<1>6. TypeOK'  BY <1>1, <1>2, <1>3, <1>4, <1>5 DEF CatalogueInv, TypeOK
<1>7. FallBacksAreMade'
  <2>1. made \in Int /\ made' \in Int  BY <1>1, <1>3
  <2>2. ASSUME NEW w \in Workers, request[w].op = "fall back"
        PROVE  request[w].profile \in 1..made'
    <3>1. request[w].profile \in 1..made
      BY <2>2 DEF CatalogueInv, FallBacksAreMade
    <3> QED  BY <1>2, <2>1, <3>1
  <2> QED  BY <1>5, <2>2 DEF FallBacksAreMade
<1>8. ReferencesResolve'
  BY <1>2, <1>4, <1>5 DEF CatalogueInv, ReferencesResolve
<1> QED  BY <1>2, <1>6, <1>7, <1>8 DEF CatalogueInv

-----------------------------------------------------------------------------
(* The requests that are one step.                                         *)

LEMMA CreateImageKeeps ==
  ASSUME CatalogueInv, NEW i \in Images, CreateImage(i)
  PROVE  CatalogueInv' /\ images \subseteq images'
<1> DEFINE S == [Tables EXCEPT !.images = @ \cup {i}]
           T == EnsureDefaultProfile(S, i)
           U == EnsureUnattendedDefault(T)
<1>1. Sound(Tables)  BY CommittedAreSound
<1>2. /\ S \in SomeTables /\ S.images = images \cup {i} /\ S.made = made
      /\ S.default = default /\ S.profiles = profiles
  BY <1>1 DEF Tables, Sound, SomeTables
<1>3. Sound(S)  BY <1>1, <1>2 DEF Sound, Tables
<1>4. Grows(Tables, S)
  BY <1>2, CatalogueAssumption DEF Grows, Tables, CatalogueInv, TypeOK
<1>5. S.made < MaxProfiles /\ i \in S.images  BY <1>2 DEF CreateImage, CanInsert
<1>6. Save(U) /\ UNCHANGED <<usage, request>>  BY DEF CreateImage, Serve
<1> HIDE DEF S
<1>7. Sound(T) /\ Grows(S, T)  BY <1>3, <1>5, EnsureDefaultProfileKeeps
<1> HIDE DEF T
<1>8. Sound(U) /\ Grows(T, U)  BY <1>7, EnsureUnattendedDefaultKeeps
<1> HIDE DEF U
<1>9. Grows(Tables, T)  BY <1>1, <1>3, <1>4, <1>7, GrowsTransitive
<1>10. Grows(Tables, U)  BY <1>1, <1>7, <1>8, <1>9, GrowsTransitive
<1> QED  BY <1>6, <1>8, <1>10, SaveKeeps

LEMMA UpdateImageKeeps ==
  ASSUME CatalogueInv, NEW i \in Images, UpdateImage(i)
  PROVE  CatalogueInv' /\ images \subseteq images'
<1> DEFINE S == Tables
           T == EnsureDefaultProfile(S, i)
           U == EnsureUnattendedDefault(T)
<1>1. Sound(S)  BY CommittedAreSound
<1>2. /\ i \in S.images
      /\ Managed(S, i) # {} \/ S.made < MaxProfiles
      /\ Save(U) /\ UNCHANGED <<usage, request>>
  BY DEF UpdateImage, CanInsert, Serve, Tables
<1>3. S = Tables  OBVIOUS
<1> HIDE DEF S
<1>4. Sound(T) /\ Grows(S, T)  BY <1>1, <1>2, EnsureDefaultProfileKeeps
<1> HIDE DEF T
<1>5. Sound(U) /\ Grows(T, U)  BY <1>4, EnsureUnattendedDefaultKeeps
<1> HIDE DEF U
<1>6. Grows(S, U)  BY <1>1, <1>4, <1>5, GrowsTransitive
<1> QED  BY <1>2, <1>3, <1>5, <1>6, SaveKeeps

LEMMA CreateProfileKeeps ==
  ASSUME CatalogueInv, NEW i \in Images, NEW managed \in BOOLEAN,
         CreateProfile(i, managed)
  PROVE  CatalogueInv' /\ images \subseteq images'
<1> DEFINE S == Tables
           U == InsertProfile(S, i, managed)
<1>1. Sound(S)  BY CommittedAreSound
<1>2. /\ i \in S.images /\ S.made < MaxProfiles
      /\ Save(U) /\ UNCHANGED <<usage, request>>
  BY DEF CreateProfile, CanInsert, Serve, Tables
<1>3. S = Tables  OBVIOUS
<1> HIDE DEF S
<1>4. Sound(U) /\ Grows(S, U)  BY <1>1, <1>2, InsertKeeps
<1> HIDE DEF U
<1> QED  BY <1>2, <1>3, <1>4, SaveKeeps

LEMMA UpdateProfileKeeps ==
  ASSUME CatalogueInv, NEW p \in Ids, NEW i \in Images, NEW managed \in BOOLEAN,
         UpdateProfile(p, i, managed)
  PROVE  CatalogueInv' /\ images \subseteq images'
<1> DEFINE row == [image |-> i, managed |-> managed]
<1>1. /\ profiles' = [profiles EXCEPT ![p] = row] /\ p \in Existing /\ i \in images
      /\ UNCHANGED <<images, made, default, profileOf, history, request>>
  BY DEF UpdateProfile, Serve, usage
<1>2. row \in ProfileRow /\ row # NoProfile
  BY CatalogueAssumption DEF ProfileRow, NoProfile
<1>3. row.image = i  OBVIOUS
<1> HIDE DEF row
<1>4. profiles' \in [Ids -> ProfileRow]
  BY <1>1, <1>2 DEF CatalogueInv, TypeOK
<1>5. Existing' = Existing
  BY <1>1, <1>2 DEF CatalogueInv, TypeOK, Existing
<1>6. TypeOK'  BY <1>1, <1>4, <1>5 DEF CatalogueInv, TypeOK
<1>7. ReferencesResolve'
  <2>1. ASSUME NEW q \in Existing' PROVE profiles'[q].image \in images'
    BY <1>1, <1>3, <1>5, <2>1 DEF CatalogueInv, TypeOK, ReferencesResolve, Existing
  <2> QED  BY <1>1, <1>5, <2>1 DEF CatalogueInv, ReferencesResolve
<1>8. FallBacksAreMade'  BY <1>1 DEF CatalogueInv, FallBacksAreMade
<1> QED  BY <1>1, <1>6, <1>7, <1>8 DEF CatalogueInv

LEMMA SetUnattendedDefaultKeeps ==
  ASSUME CatalogueInv, NEW p \in Ids, SetUnattendedDefault(p)
  PROVE  CatalogueInv' /\ images \subseteq images'
<1>1. /\ default' = p /\ p \in Existing
      /\ UNCHANGED <<images, profiles, made, profileOf, history, request>>
  BY DEF SetUnattendedDefault, Serve, usage
<1>2. Existing' = Existing  BY <1>1 DEF Existing
<1>3. default' \in 0..made'
  BY <1>1, CatalogueAssumption DEF CatalogueInv, TypeOK
<1>4. TypeOK'  BY <1>1, <1>2, <1>3 DEF CatalogueInv, TypeOK
<1>5. FallBacksAreMade' /\ ReferencesResolve'
  BY <1>1, <1>2 DEF CatalogueInv, FallBacksAreMade, ReferencesResolve
<1> QED  BY <1>1, <1>4, <1>5 DEF CatalogueInv

LEMMA AssignProfileKeeps ==
  ASSUME CatalogueInv, NEW h \in Hosts, NEW p \in 0..MaxProfiles, AssignProfile(h, p)
  PROVE  CatalogueInv' /\ images \subseteq images'
<1>1. /\ profileOf' = [profileOf EXCEPT ![h] = p] /\ p \in Existing \cup {0}
      /\ UNCHANGED <<images, profiles, made, history, default, request>>
  BY DEF AssignProfile, Serve
<1>2. Existing' = Existing  BY <1>1 DEF Existing
<1>3. p \in 0..made  BY <1>1, CatalogueAssumption DEF CatalogueInv, TypeOK
<1>4. TypeOK'  BY <1>1, <1>2, <1>3 DEF CatalogueInv, TypeOK
<1>5. FallBacksAreMade'  BY <1>1 DEF CatalogueInv, FallBacksAreMade
<1>6. ReferencesResolve'
  BY <1>1, <1>2 DEF CatalogueInv, TypeOK, ReferencesResolve
<1> QED  BY <1>1, <1>4, <1>5, <1>6 DEF CatalogueInv

LEMMA InstallKeeps ==
  ASSUME CatalogueInv, NEW h \in Hosts, Install(h)
  PROVE  CatalogueInv' /\ images \subseteq images'
<1> DEFINE p == profileOf[h]
           i == profiles[p].image
<1>1. /\ history' = history \cup {p, i} /\ p # 0
      /\ UNCHANGED <<images, profiles, made, profileOf, default, request>>
  BY DEF Install, Serve
<1>2. Existing' = Existing  BY <1>1 DEF Existing
<1>3. p \in Existing /\ i \in images  BY <1>1 DEF CatalogueInv, ReferencesResolve
<1>4. p \in 1..made /\ i \in Images  BY <1>3 DEF CatalogueInv, TypeOK
<1> HIDE DEF p, i
<1>5. TypeOK'  BY <1>1, <1>2, <1>4 DEF CatalogueInv, TypeOK
<1>6. FallBacksAreMade'  BY <1>1 DEF CatalogueInv, FallBacksAreMade
<1>7. ReferencesResolve'
  BY <1>1, <1>2, <1>3 DEF CatalogueInv, ReferencesResolve
<1> QED  BY <1>1, <1>5, <1>6, <1>7 DEF CatalogueInv

-----------------------------------------------------------------------------
(* The requests that look first, and what they do later.                   *)

(* A look changes nothing but what its worker knows.                       *)
LEMMA LookKeeps ==
  ASSUME CatalogueInv, NEW w \in Workers, NEW seen \in Request, Look(w, seen),
         seen.op = "fall back" => seen.profile \in 1..made
  PROVE  CatalogueInv' /\ images \subseteq images'
<1>1. /\ request' = [request EXCEPT ![w] = seen]
      /\ UNCHANGED <<images, profiles, made, profileOf, history, default>>
  BY DEF Look, usage
<1>2. Existing' = Existing  BY <1>1 DEF Existing
<1>3. TypeOK'  BY <1>1, <1>2 DEF CatalogueInv, TypeOK
<1>4. FallBacksAreMade'
  <2>1. ASSUME NEW v \in Workers, request'[v].op = "fall back"
        PROVE  request'[v].profile \in 1..made
    <3>1. CASE v = w  BY <1>1, <2>1, <3>1 DEF CatalogueInv, TypeOK
    <3>2. CASE v # w
      <4>1. request'[v] = request[v]  BY <1>1, <3>2 DEF CatalogueInv, TypeOK
      <4> QED  BY <2>1, <4>1 DEF CatalogueInv, FallBacksAreMade
    <3> QED  BY <3>1, <3>2
  <2> QED  BY <1>1, <2>1 DEF FallBacksAreMade
<1>5. ReferencesResolve'  BY <1>1, <1>2 DEF CatalogueInv, ReferencesResolve
<1> QED  BY <1>1, <1>3, <1>4, <1>5 DEF CatalogueInv

LEMMA LookDeleteProfileKeeps ==
  ASSUME CatalogueInv, NEW w \in Workers, NEW p \in Ids, LookDeleteProfile(w, p)
  PROVE  CatalogueInv' /\ images \subseteq images'
<1> DEFINE seen == [op |-> "delete profile", profile |-> p]
<1>1. seen \in Request  BY DEF Request
<1>2. seen.op # "fall back"  OBVIOUS
<1>3. Look(w, seen)  BY DEF LookDeleteProfile
<1> HIDE DEF seen
<1> QED  BY <1>1, <1>2, <1>3, LookKeeps

LEMMA LookDeleteImageKeeps ==
  ASSUME CatalogueInv, NEW w \in Workers, NEW i \in Images, LookDeleteImage(w, i)
  PROVE  CatalogueInv' /\ images \subseteq images'
<1> DEFINE seen == [op |-> "delete image", image |-> i, profiles |-> ProfilesOf(i)]
<1>1. ProfilesOf(i) \in SUBSET Ids  BY DEF ProfilesOf
<1>2. seen \in Request  BY <1>1 DEF Request
<1>3. seen.op # "fall back"  OBVIOUS
<1>4. Look(w, seen)  BY DEF LookDeleteImage
<1> HIDE DEF seen
<1> QED  BY <1>2, <1>3, <1>4, LookKeeps

LEMMA LookFallBackKeeps ==
  ASSUME CatalogueInv, NEW w \in Workers, LookFallBack(w)
  PROVE  CatalogueInv' /\ images \subseteq images'
<1> DEFINE d == UnattendedDefault(Tables)
           seen == [op |-> "fall back", profile |-> d]
<1>1. d \in 0..Tables.made /\ d # 0
  BY CommittedAreSound, DefaultIsMade DEF LookFallBack
<1>2. Tables.made = made  BY DEF Tables
<1>3. Look(w, seen)  BY DEF LookFallBack
<1> HIDE DEF d
<1>4. d \in 1..made /\ d \in Ids
  BY <1>1, <1>2, CatalogueAssumption DEF CatalogueInv, TypeOK, Ids
<1>5. seen \in Request /\ seen.profile = d  BY <1>4 DEF Request
<1> HIDE DEF seen
<1> QED  BY <1>3, <1>4, <1>5, LookKeeps

(* A request that is over knows nothing that has to hold.                  *)
LEMMA FinishForgets ==
  ASSUME CatalogueInv, NEW w \in Workers, Finish(w), made' = made
  PROVE  FallBacksAreMade' /\ request' \in [Workers -> Request]
<1>1. request' = [request EXCEPT ![w] = Idle]  BY DEF Finish
<1>2. request' \in [Workers -> Request]
  BY <1>1 DEF CatalogueInv, TypeOK, Request
<1>3. ASSUME NEW v \in Workers, request'[v].op = "fall back"
      PROVE  request'[v].profile \in 1..made
  <2>1. CASE v = w  BY <1>1, <1>3, <2>1 DEF CatalogueInv, TypeOK, Idle
  <2>2. CASE v # w
    <3>1. request'[v] = request[v]  BY <1>1, <2>2 DEF CatalogueInv, TypeOK
    <3> QED  BY <1>3, <3>1 DEF CatalogueInv, FallBacksAreMade
  <2> QED  BY <2>1, <2>2
<1> QED  BY <1>2, <1>3 DEF FallBacksAreMade

LEMMA RollbackKeeps ==
  ASSUME CatalogueInv, NEW w \in Workers, Rollback(w)
  PROVE  CatalogueInv' /\ images \subseteq images'
<1>1. Finish(w) /\ UNCHANGED <<images, profiles, made, profileOf, history, default>>
  BY DEF Rollback, usage
<1>2. Existing' = Existing  BY <1>1 DEF Existing
<1>3. FallBacksAreMade' /\ request' \in [Workers -> Request]
  BY <1>1, FinishForgets
<1>4. TypeOK'  BY <1>1, <1>2, <1>3 DEF CatalogueInv, TypeOK
<1>5. ReferencesResolve'  BY <1>1, <1>2 DEF CatalogueInv, ReferencesResolve
<1> QED  BY <1>1, <1>3, <1>4, <1>5 DEF CatalogueInv

LEMMA CommitFallBackKeeps ==
  ASSUME CatalogueInv, NEW w \in Workers, CommitFallBack(w)
  PROVE  CatalogueInv' /\ images \subseteq images'
<1>1. /\ Finish(w) /\ default' = request[w].profile /\ request[w].op = "fall back"
      /\ UNCHANGED <<images, profiles, made, profileOf, history>>
  BY DEF CommitFallBack, usage
<1>2. Existing' = Existing  BY <1>1 DEF Existing
<1>3. FallBacksAreMade' /\ request' \in [Workers -> Request]
  BY <1>1, FinishForgets
<1>4. default' \in 1..made  BY <1>1 DEF CatalogueInv, FallBacksAreMade
<1>5. default' \in 0..made'
  <2>1. made \in 0..MaxProfiles /\ MaxProfiles \in Nat
    BY CatalogueAssumption DEF CatalogueInv, TypeOK
  <2>2. made' = made  BY <1>1
  <2> QED  BY <1>4, <2>1, <2>2
<1>6. TypeOK'  BY <1>1, <1>2, <1>3, <1>5 DEF CatalogueInv, TypeOK
<1>7. ReferencesResolve'  BY <1>1, <1>2 DEF CatalogueInv, ReferencesResolve
<1> QED  BY <1>1, <1>3, <1>6, <1>7 DEF CatalogueInv

(* The hosts let go of the profile in the same flush.                      *)
LEMMA CommitDeleteProfileKeeps ==
  ASSUME CatalogueInv, NEW w \in Workers, CommitDeleteProfile(w)
  PROVE  CatalogueInv' /\ images \subseteq images'
<1>1. PICK p : p = request[w].profile  OBVIOUS
<1>2. /\ Finish(w) /\ p \notin history
      /\ profiles' = [profiles EXCEPT ![p] = NoProfile]
      /\ profileOf' = [h \in Hosts |-> IF profileOf[h] = p THEN 0 ELSE profileOf[h]]
      /\ UNCHANGED <<images, made, history, default>>
  BY <1>1 DEF CommitDeleteProfile
<1>3. FallBacksAreMade' /\ request' \in [Workers -> Request]
  BY <1>2, FinishForgets
<1>4. profiles' \in [Ids -> ProfileRow]
  BY <1>2 DEF CatalogueInv, TypeOK, ProfileRow
<1>5. Existing' = Existing \ {p}
  BY <1>2 DEF CatalogueInv, TypeOK, Existing
<1>6. profileOf' \in [Hosts -> 0..made]
  BY <1>2, CatalogueAssumption DEF CatalogueInv, TypeOK
<1>7. TypeOK'  BY <1>2, <1>3, <1>4, <1>5, <1>6 DEF CatalogueInv, TypeOK
<1>8. ReferencesResolve'
  <2>1. history' \subseteq Existing' \cup images'
    BY <1>2, <1>5 DEF CatalogueInv, ReferencesResolve
  <2>2. ASSUME NEW h \in Hosts PROVE profileOf'[h] \in Existing' \cup {0}
    BY <1>2, <1>5 DEF CatalogueInv, ReferencesResolve
  <2>3. ASSUME NEW q \in Existing' PROVE profiles'[q].image \in images'
    BY <1>2, <1>5 DEF CatalogueInv, TypeOK, ReferencesResolve, Existing
  <2> QED  BY <2>1, <2>2, <2>3 DEF ReferencesResolve
<1> QED  BY <1>2, <1>3, <1>7, <1>8 DEF CatalogueInv

(* The foreign keys are checked on the tables as they are at the commit,   *)
(* so what the request looked at earlier does not matter.                  *)
LEMMA CommitDeleteImageKeeps ==
  ASSUME CatalogueInv, NEW w \in Workers, CommitDeleteImage(w)
  PROVE  /\ CatalogueInv'
         /\ \A i \in images \ images' : \A h \in Hosts :
              profileOf[h] # 0 => profiles[profileOf[h]].image # i
<1>1. PICK i : i = request[w].image  OBVIOUS
<1>2. PICK P : P = request[w].profiles  OBVIOUS
<1>3. /\ Finish(w) /\ images' = images \ {i}
      /\ profiles' = [p \in Ids |-> IF p \in P THEN NoProfile ELSE profiles[p]]
      /\ UNCHANGED <<made, profileOf, history, default>>
  BY <1>1, <1>2 DEF CommitDeleteImage, usage
<1>4. /\ \A p \in P : UsedBy(p) = {} /\ p \notin history
      /\ ProfilesOf(i) \subseteq P /\ i \notin history
  BY <1>1, <1>2 DEF CommitDeleteImage, Deletable
<1>5. FallBacksAreMade' /\ request' \in [Workers -> Request]
  BY <1>3, FinishForgets
<1>6. profiles' \in [Ids -> ProfileRow]
  BY <1>3 DEF CatalogueInv, TypeOK, ProfileRow
<1>7. Existing' = Existing \ P  BY <1>3 DEF Existing
<1>8. TypeOK'  BY <1>3, <1>5, <1>6, <1>7 DEF CatalogueInv, TypeOK
<1>9. ASSUME NEW h \in Hosts, profileOf[h] # 0
      PROVE  profileOf[h] \in Existing \ P
  <2>1. h \in UsedBy(profileOf[h])  BY DEF UsedBy
  <2> QED  BY <1>4, <1>9, <2>1 DEF CatalogueInv, ReferencesResolve
<1>10. ReferencesResolve'
  <2>1. history' \subseteq Existing' \cup images'
    BY <1>3, <1>4, <1>7 DEF CatalogueInv, ReferencesResolve
  <2>2. \A h \in Hosts : profileOf'[h] \in Existing' \cup {0}
    BY <1>3, <1>7, <1>9
  <2>3. ASSUME NEW q \in Existing' PROVE profiles'[q].image \in images'
    <3>1. q \in Existing /\ q \notin P /\ q \in Ids  BY <1>7 DEF Existing
    <3>2. profiles'[q] = profiles[q]  BY <1>3, <3>1
    <3>3. profiles[q].image # i  BY <1>4, <3>1 DEF ProfilesOf
    <3> QED  BY <1>3, <3>1, <3>2, <3>3 DEF CatalogueInv, ReferencesResolve
  <2> QED  BY <2>1, <2>2, <2>3 DEF ReferencesResolve
<1>11. ASSUME NEW h \in Hosts, profileOf[h] # 0
       PROVE  profiles[profileOf[h]].image # i
  BY <1>4, <1>9, <1>11 DEF ProfilesOf, Existing
<1>12. images \ images' \subseteq {i}  BY <1>3
<1> QED  BY <1>5, <1>8, <1>10, <1>11, <1>12 DEF CatalogueInv

-----------------------------------------------------------------------------
(* An image goes only with the deletion of it, under no host.              *)
ImagesGoUnused ==
  \A i \in images \ images' : \A h \in Hosts :
    profileOf[h] # 0 => profiles[profileOf[h]].image # i

LEMMA InitialTablesAreEmpty ==
  ASSUME Init
  PROVE  CatalogueInv
<1>1. MaxProfiles \in Nat  BY CatalogueAssumption
<1>2. Existing = {}  BY DEF Init, Existing
<1>3. TypeOK  BY <1>1, <1>2 DEF Init, TypeOK, ProfileRow, Request
<1>4. FallBacksAreMade  BY DEF Init, FallBacksAreMade, Idle
<1>5. ReferencesResolve  BY <1>2 DEF Init, ReferencesResolve
<1> QED  BY <1>3, <1>4, <1>5 DEF CatalogueInv

LEMMA StepKeeps ==
  ASSUME CatalogueInv, [Next]_vars
  PROVE  CatalogueInv' /\ ImagesGoUnused
<1> DEFINE Goal == CatalogueInv' /\ ImagesGoUnused
<1>0. ASSUME CatalogueInv', images \subseteq images' PROVE Goal
  BY <1>0 DEF ImagesGoUnused
<1>1. ASSUME NEW i \in Images, CreateImage(i) PROVE Goal
  BY <1>0, <1>1, CreateImageKeeps
<1>2. ASSUME NEW i \in Images, UpdateImage(i) PROVE Goal
  BY <1>0, <1>2, UpdateImageKeeps
<1>3. ASSUME NEW i \in Images, NEW managed \in BOOLEAN, CreateProfile(i, managed)
      PROVE  Goal
  BY <1>0, <1>3, CreateProfileKeeps
<1>4. ASSUME NEW p \in Ids, NEW i \in Images, NEW managed \in BOOLEAN,
             UpdateProfile(p, i, managed)
      PROVE  Goal
  BY <1>0, <1>4, UpdateProfileKeeps
<1>5. ASSUME NEW p \in Ids, SetUnattendedDefault(p) PROVE Goal
  BY <1>0, <1>5, SetUnattendedDefaultKeeps
<1>6. ASSUME NEW h \in Hosts, NEW p \in 0..MaxProfiles, AssignProfile(h, p)
      PROVE  Goal
  BY <1>0, <1>6, AssignProfileKeeps
<1>7. ASSUME NEW h \in Hosts, Install(h) PROVE Goal
  BY <1>0, <1>7, InstallKeeps
<1>8. ASSUME NEW w \in Workers, NEW p \in Ids, LookDeleteProfile(w, p) PROVE Goal
  BY <1>0, <1>8, LookDeleteProfileKeeps
<1>9. ASSUME NEW w \in Workers, NEW i \in Images, LookDeleteImage(w, i) PROVE Goal
  BY <1>0, <1>9, LookDeleteImageKeeps
<1>10. ASSUME NEW w \in Workers, LookFallBack(w) PROVE Goal
  BY <1>0, <1>10, LookFallBackKeeps
<1>11. ASSUME NEW w \in Workers, CommitDeleteProfile(w) PROVE Goal
  BY <1>0, <1>11, CommitDeleteProfileKeeps
<1>12. ASSUME NEW w \in Workers, CommitDeleteImage(w) PROVE Goal
  BY <1>12, CommitDeleteImageKeeps DEF ImagesGoUnused
<1>13. ASSUME NEW w \in Workers, CommitFallBack(w) PROVE Goal
  BY <1>0, <1>13, CommitFallBackKeeps
<1>14. ASSUME NEW w \in Workers, Rollback(w) PROVE Goal
  BY <1>0, <1>14, RollbackKeeps
<1>15. ASSUME UNCHANGED vars PROVE Goal
  <2>1. UNCHANGED <<images, profiles, made, profileOf, history, default, request>>
    BY <1>15 DEF vars
  <2>2. Existing' = Existing  BY <2>1 DEF Existing
  <2>3. TypeOK' /\ FallBacksAreMade' /\ ReferencesResolve'
    BY <2>1, <2>2 DEF CatalogueInv, TypeOK, FallBacksAreMade, ReferencesResolve
  <2> QED  BY <1>0, <2>1, <2>3 DEF CatalogueInv
<1> HIDE DEF Goal
<1>16. ASSUME Next PROVE Goal
  BY <1>1, <1>2, <1>3, <1>4, <1>5, <1>6, <1>7, <1>8, <1>9, <1>10, <1>11, <1>12,
     <1>13, <1>14, <1>16 DEF Next
<1>17. Goal  BY <1>15, <1>16
<1> QED  BY <1>17 DEF Goal

LEMMA CatalogueInvHolds == Spec => []CatalogueInv
<1>1. Init => CatalogueInv  BY InitialTablesAreEmpty
<1>2. CatalogueInv /\ [Next]_vars => CatalogueInv'  BY StepKeeps
<1> QED  BY <1>1, <1>2, PTL DEF Spec

(* Ids are given out in order and never past the bound; what a request     *)
(* has read stays a profile or an image that there could be.               *)
THEOREM CatalogueTypes == Spec => []TypeOK
<1>1. CatalogueInv => TypeOK  BY DEF CatalogueInv
<1> QED  BY <1>1, CatalogueInvHolds, PTL

(* Hosts have profiles that exist, profiles have images that exist, and    *)
(* build records keep what they refer to, whatever overlaps                *)
(* (routers/profiles.py:100-104, routers/images.py:94-99).                 *)
THEOREM ReferencesAlwaysResolve == Spec => []ReferencesResolve
<1>1. CatalogueInv => ReferencesResolve  BY DEF CatalogueInv
<1> QED  BY <1>1, CatalogueInvHolds, PTL

(* No image is deleted under a host (services/profiles.py:121).            *)
THEOREM ImagesOfHostsStay == Spec => ImagesInUseStay
<1>1. CatalogueInv /\ [Next]_vars => [ImagesGoUnused]_vars  BY StepKeeps
<1>2. Spec => [][ImagesGoUnused]_vars  BY <1>1, CatalogueInvHolds, PTL DEF Spec
<1> QED  BY <1>2 DEF ImagesInUseStay, ImagesGoUnused
=============================================================================
