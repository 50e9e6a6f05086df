----------------------------- MODULE Catalogue -----------------------------
(***************************************************************************)
(* Images, profiles, the profile of each host and the unattended default   *)
(* (routers/images.py, routers/profiles.py, their forms in routers/ui.py,  *)
(* services/profiles.py, services/unattended.py).  A request that deletes, *)
(* or that falls back on a default, looks at the tables first and writes   *)
(* later; other requests commit in between.                                *)
(***************************************************************************)
EXTENDS FiniteSets, Naturals

CONSTANTS
  Images,      (* ids of images                                             *)
  NoImage,     (* the image of a profile that does not exist                *)
  Hosts,
  MaxProfiles, (* bound: profiles ever made                                 *)
  Workers      (* requests that may be under way at once                    *)

ASSUME CatalogueAssumption == NoImage \notin Images /\ MaxProfiles \in Nat

VARIABLES
  images,      (* the images that exist                                     *)
  profiles,    (* the profiles, by id                                       *)
  made,        (* the last profile id that was given out                    *)
  profileOf,   (* hosts.profile_id                                          *)
  history,     (* the profiles and images that build records refer to       *)
  default,     (* the profile id in app_settings                            *)
  request      (* what each worker has read                                 *)

vars == <<images, profiles, made, profileOf, history, default, request>>
usage == <<profileOf, history>>

(* Ids are given out in order, and ordering by created_at is ordering by   *)
(* id.  0 is None.                                                         *)
Ids == 1..MaxProfiles

NoProfile == [image |-> NoImage, managed |-> FALSE]
ProfileRow == [image : Images, managed : BOOLEAN] \cup {NoProfile}
Existing == {p \in Ids : profiles[p] # NoProfile}
ProfilesOf(i) == {p \in Ids : profiles[p].image = i}
UsedBy(p) == {h \in Hosts : profileOf[h] = p}

Idle == [op |-> "idle"]
Request ==
  {Idle} \cup [op : {"delete profile"}, profile : Ids]
         \cup [op : {"delete image"}, image : Images, profiles : SUBSET Ids]
         \cup [op : {"fall back"}, profile : Ids]

TypeOK ==
  /\ images \subseteq Images
  /\ profiles \in [Ids -> ProfileRow]
  /\ made \in 0..MaxProfiles /\ Existing \subseteq 1..made
  /\ profileOf \in [Hosts -> 0..made]
  /\ history \subseteq (1..made) \cup Images
  /\ default \in 0..made
  /\ request \in [Workers -> Request]

Init ==
  /\ images = {} /\ profiles = [p \in Ids |-> NoProfile] /\ made = 0
  /\ profileOf = [h \in Hosts |-> 0] /\ history = {}
  /\ default = 0
  /\ request = [w \in Workers |-> Idle]

(* A request that is one step still needs a worker to run it.              *)
Serve == \E w \in Workers : request[w] = Idle /\ UNCHANGED request

-----------------------------------------------------------------------------
(* What the services do, on the tables T of a session: [images, profiles,  *)
(* made, default].                                                         *)

Tables == [images |-> images, profiles |-> profiles, made |-> made, default |-> default]

Save(T) ==
  /\ images' = T.images /\ profiles' = T.profiles
  /\ made' = T.made /\ default' = T.default

CanInsert == made < MaxProfiles

InsertProfile(T, i, managed) ==
  [T EXCEPT !.made = @ + 1,
            !.profiles[T.made + 1] = [image |-> i, managed |-> managed]]

Managed(T, i) == {p \in Ids : T.profiles[p] = [image |-> i, managed |-> TRUE]}

EnsureDefaultProfile(T, i) ==
  IF Managed(T, i) # {} THEN T ELSE InsertProfile(T, i, TRUE)

First(T) ==
  LET E == {p \in Ids : T.profiles[p] # NoProfile} IN
  IF E = {} THEN 0 ELSE CHOOSE p \in E : \A q \in E : p <= q

(* The profile the setting names, while it exists, else the first.         *)
UnattendedDefault(T) ==
  IF T.default # 0 /\ T.profiles[T.default] # NoProfile THEN T.default ELSE First(T)

EnsureUnattendedDefault(T) ==
  IF UnattendedDefault(T) = 0 THEN T ELSE [T EXCEPT !.default = UnattendedDefault(T)]

-----------------------------------------------------------------------------
(* Requests that are one step.                                             *)

CreateImage(i) ==
  /\ Serve /\ CanInsert
  /\ i \notin images
  /\ Save(EnsureUnattendedDefault(
            EnsureDefaultProfile([Tables EXCEPT !.images = @ \cup {i}], i)))
  /\ UNCHANGED usage

(* What the profile pages, the start of the process and an import do for   *)
(* all images in turn, this request does for one.                          *)
UpdateImage(i) ==
  /\ Serve
  /\ i \in images
  /\ Managed(Tables, i) # {} \/ CanInsert
  /\ Save(EnsureUnattendedDefault(EnsureDefaultProfile(Tables, i)))
  /\ UNCHANGED usage

(* The marker of a managed profile is one of its variables, which the      *)
(* request brings along.                                                   *)
CreateProfile(i, managed) ==
  /\ Serve /\ CanInsert
  /\ i \in images
  /\ Save(InsertProfile(Tables, i, managed))
  /\ UNCHANGED usage

UpdateProfile(p, i, managed) ==
  /\ Serve
  /\ p \in Existing /\ i \in images
  /\ profiles' = [profiles EXCEPT ![p] = [image |-> i, managed |-> managed]]
  /\ UNCHANGED <<images, made, default, usage>>

SetUnattendedDefault(p) ==
  /\ Serve
  /\ p \in Existing
  /\ default' = p
  /\ UNCHANGED <<images, profiles, made, usage>>

(* The requests of operators and machines that set hosts.profile_id; the   *)
(* foreign key makes them fail if the profile has gone.                    *)
AssignProfile(h, p) ==
  /\ Serve
  /\ p \in Existing \cup {0}
  /\ profileOf' = [profileOf EXCEPT ![h] = p]
  /\ UNCHANGED <<images, profiles, made, history, default>>

(* An installation records the profile and the image of its host.          *)
Install(h) ==
  /\ Serve
  /\ profileOf[h] # 0
  /\ history' = history \cup {profileOf[h], profiles[profileOf[h]].image}
  /\ UNCHANGED <<images, profiles, made, profileOf, default>>

-----------------------------------------------------------------------------
(* Requests that look first.                                               *)

Look(w, seen) ==
  /\ request[w] = Idle
  /\ request' = [request EXCEPT ![w] = seen]
  /\ UNCHANGED <<images, profiles, made, usage, default>>

Finish(w) == request[w] # Idle /\ request' = [request EXCEPT ![w] = Idle]

(* The session is closed without a commit: also what the database answers  *)
(* when a foreign key is violated.                                         *)
Rollback(w) ==
  /\ Finish(w)
  /\ UNCHANGED <<images, profiles, made, usage, default>>

LookDeleteProfile(w, p) ==
  /\ p \in Existing /\ UsedBy(p) = {}
  /\ Look(w, [op |-> "delete profile", profile |-> p])

(* Slip: the hosts of the profile are left to the database, without a      *)
(* foreign key.                                                            *)
CommitDeleteProfileOnly(w) ==
  /\ request[w].op = "delete profile"
  /\ LET p == request[w].profile IN
     /\ p \notin history
     /\ profiles' = [profiles EXCEPT ![p] = NoProfile]
  /\ Finish(w)
  /\ UNCHANGED <<images, made, profileOf, history, default>>

(* The flush loads the hosts of the profile and sets their profile_id to   *)
(* NULL before it deletes the profile.                                     *)
CommitDeleteProfile(w) ==
  /\ request[w].op = "delete profile"
  /\ LET p == request[w].profile IN
     /\ p \notin history
     /\ profiles' = [profiles EXCEPT ![p] = NoProfile]
     /\ profileOf' = [h \in Hosts |-> IF profileOf[h] = p THEN 0 ELSE profileOf[h]]
  /\ Finish(w)
  /\ UNCHANGED <<images, made, history, default>>

Blocking(i) == {p \in ProfilesOf(i) : UsedBy(p) # {} \/ ~ profiles[p].managed}

LookDeleteImage(w, i) ==
  /\ i \in images /\ Blocking(i) = {}
  /\ Look(w, [op |-> "delete image", image |-> i, profiles |-> ProfilesOf(i)])

(* What the foreign keys let pass: nothing refers to the profiles and to   *)
(* the image except the profiles that go with it.                          *)
Deletable(i, P) ==
  /\ \A p \in P : UsedBy(p) = {} /\ p \notin history
  /\ ProfilesOf(i) \subseteq P /\ i \notin history

(* Slip: the hosts of the profiles are loaded by the flush, as they are    *)
(* when a profile is deleted.                                              *)
CommitDeleteImageLate(w) ==
  /\ request[w].op = "delete image"
  /\ LET P == request[w].profiles IN
     /\ ProfilesOf(request[w].image) \subseteq P
     /\ ({request[w].image} \cup P) \cap history = {}
     /\ profiles' = [p \in Ids |-> IF p \in P THEN NoProfile ELSE profiles[p]]
     /\ profileOf' = [h \in Hosts |-> IF profileOf[h] \in P THEN 0 ELSE profileOf[h]]
  /\ images' = images \ {request[w].image}
  /\ Finish(w)
  /\ UNCHANGED <<made, history, default>>

(* The hosts of the profiles have been loaded already: the flush does not  *)
(* look at them again.                                                     *)
CommitDeleteImage(w) ==
  /\ request[w].op = "delete image"
  /\ Deletable(request[w].image, request[w].profiles)
  /\ images' = images \ {request[w].image}
  /\ profiles' = [p \in Ids |->
                    IF p \in request[w].profiles THEN NoProfile ELSE profiles[p]]
  /\ Finish(w)
  /\ UNCHANGED <<made, usage, default>>

(* A page or a boot that finds no default profile.                         *)
LookFallBack(w) ==
  /\ UnattendedDefault(Tables) \notin {0, default}
  /\ Look(w, [op |-> "fall back", profile |-> UnattendedDefault(Tables)])

(* The setting's JSON is no foreign key.                                   *)
CommitFallBack(w) ==
  /\ request[w].op = "fall back"
  /\ default' = request[w].profile
  /\ Finish(w)
  /\ UNCHANGED <<images, profiles, made, usage>>

Next ==
  \/ \E i \in Images : CreateImage(i) \/ UpdateImage(i)
  \/ \E i \in Images, managed \in BOOLEAN : CreateProfile(i, managed)
  \/ \E p \in Ids, i \in Images, managed \in BOOLEAN : UpdateProfile(p, i, managed)
  \/ \E p \in Ids : SetUnattendedDefault(p)
  \/ \E h \in Hosts, p \in 0..MaxProfiles : AssignProfile(h, p)
  \/ \E h \in Hosts : Install(h)
  \/ \E w \in Workers, p \in Ids : LookDeleteProfile(w, p)
  \/ \E w \in Workers, i \in Images : LookDeleteImage(w, i)
  \/ \E w \in Workers : LookFallBack(w)
  \/ \E w \in Workers :
       \/ CommitDeleteProfile(w) \/ CommitDeleteImage(w) \/ CommitFallBack(w)
       \/ Rollback(w)

Spec == Init /\ [][Next]_vars

-----------------------------------------------------------------------------
(***************************************************************************)
(* Whatever overlaps, hosts have profiles that exist, profiles have images *)
(* that exist, and the history of installations stays complete             *)
(* (routers/profiles.py:100-104, routers/images.py:94-99).                 *)
(***************************************************************************)
ReferencesResolve ==
  /\ history \subseteq Existing \cup images
  /\ \A h \in Hosts : profileOf[h] \in Existing \cup {0}
  /\ \A p \in Existing : profiles[p].image \in images

(***************************************************************************)
(* An image is not deleted under a host, also if the host was assigned one *)
(* of its profiles after the request had looked (services/profiles.py:121).*)
(***************************************************************************)
ImagesInUseStay ==
  [][\A i \in images \ images' : \A h \in Hosts :
       profileOf[h] # 0 => profiles[profileOf[h]].image # i]_vars
=============================================================================
