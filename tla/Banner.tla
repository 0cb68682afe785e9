--------------------------------- MODULE Banner ---------------------------------
(***************************************************************************)
(* The banner of the front end (features/logo): the main thread replaces   *)
(* the picture of one of the game's images by frames of an animation,      *)
(* while the game loads images into slots and takes them out again, and    *)
(* draws them, on threads of its own.                                      *)
(*                                                                         *)
(* Pixels and delays are left out: how the frames are composed and scaled, *)
(* and when the next one is due; a tick may come at any time. A view that  *)
(* is released is gone, but an image may still point at it.                *)
(*                                                                         *)
(* The game is external: an image it loads has a view of the game's own,   *)
(* whatever was in the slot before, and only one image has the name of the *)
(* front end's.                                                            *)
(***************************************************************************)
EXTENDS Integers, Sequences, FiniteSets, Functions

CONSTANTS
  Slots,     \* where the game has its images
  MostRaw,   \* bound: frames of the animation
  NoSlot     \* the null pointer

ASSUME BannerAssumption == MostRaw \in Nat /\ NoSlot \notin Slots

VARIABLES
  slots,    \* what is in each slot
  srv,      \* the view it shows
  raw,      \* g_raw: how many frames were decoded
  views,    \* g_views: the frames there is a view of
  g_image,  \* the slot that was given the banner
  current,  \* g_current, from one
  work,     \* where the main thread is, with the image it has found
  raced     \* slots the game filled again while the main thread held on to them

bannerVars == <<slots, srv, raw, views, g_image, current, work, raced>>

\* Views besides those of the frames: one of the game's own, and one that is released.
Own == 0
Gone == -1

Idle == [at |-> "idle", image |-> NoSlot, next |-> 0]

BannerTypeOK ==
  /\ slots \in [Slots -> {"free", "frontend", "other"}]
  /\ srv \in [Slots -> Gone .. MostRaw]
  /\ raw \in 0 .. MostRaw /\ views \in Seq(1 .. raw)
  /\ g_image \in Slots \cup {NoSlot}
  /\ work.at # "upload" /\ views # <<>> => current \in 1 .. Len(views)
  /\ work \in [at : {"idle", "upload", "switch"}, image : Slots \cup {NoSlot}, next : 0 .. raw + 1]
  /\ raced \subseteq Slots

\* load_gif: the frames up to the first that cannot be decoded.
Decoded == 0 .. MostRaw

BannerInit ==
  /\ slots = [s \in Slots |-> "free"] /\ srv = [s \in Slots |-> Own]
  /\ raw \in Decoded
  /\ views = <<>> /\ g_image = NoSlot /\ current = 1
  /\ work = Idle /\ raced = {}

-----------------------------------------------------------------------------
(* The game.                                                                *)

Load(s, what) ==
  /\ slots[s] = "free"
  /\ what = "frontend" => \A o \in Slots : slots[o] # "frontend"
  /\ slots' = [slots EXCEPT ![s] = what]
  /\ srv' = [srv EXCEPT ![s] = Own]
  /\ raced' = IF what = "other" /\ work.image = s THEN raced \cup {s} ELSE raced
  /\ UNCHANGED <<raw, views, g_image, current, work>>

Unload(s) ==
  /\ slots[s] # "free"
  /\ slots' = [slots EXCEPT ![s] = "free"]
  /\ raced' = raced \ {s}
  /\ UNCHANGED <<srv, raw, views, g_image, current, work>>

-----------------------------------------------------------------------------
(* The main thread.                                                         *)

\* find_frontend.
Found(s) == slots[s] = "frontend"

\* Mutant: what has the banner is given it again.
HasBannerNever(s) == FALSE

\* reconcile: nothing to do for an image that has been given the banner.
HasBanner(s) == s = g_image /\ views # <<>>

\* release_views.
Released == [s \in Slots |-> IF srv[s] \in Range(views) THEN Gone ELSE srv[s]]

\* reconcile and the beginning of upload, with a device.
Reconcile(s) ==
  /\ work.at = "idle" /\ raw # 0
  /\ Found(s) /\ ~HasBanner(s)
  /\ srv' = Released
  /\ views' = <<>> /\ g_image' = NoSlot
  /\ work' = [at |-> "upload", image |-> s, next |-> 1]
  /\ UNCHANGED <<slots, raw, current, raced>>

\* A view of the next frame, or none.
CreateSrv ==
  /\ work.at = "upload" /\ work.next <= raw
  /\ \/ views' = Append(views, work.next)
     \/ UNCHANGED views
  /\ work' = [work EXCEPT !.next = @ + 1]
  /\ UNCHANGED <<slots, srv, raw, g_image, current, raced>>

\* No view at all: reconcile tries again later.
UploadFails ==
  /\ work.at = "upload" /\ work.next > raw /\ views = <<>>
  /\ work' = Idle
  /\ UNCHANGED <<slots, srv, raw, views, g_image, current, raced>>

Uploaded ==
  /\ work.at = "upload" /\ work.next > raw /\ views # <<>>
  /\ g_image' = work.image /\ current' = 1
  /\ srv' = [srv EXCEPT ![work.image] = views[1]]
  /\ work' = Idle
  /\ UNCHANGED <<slots, raw, views, raced>>

\* tick: the image that was given the banner is still the front end's, and the next frame
\* is due.
SwitchFinds(s) ==
  /\ work.at = "idle" /\ Len(views) >= 2
  /\ g_image = s /\ Found(s)
  /\ work' = [at |-> "switch", image |-> s, next |-> 0]
  /\ UNCHANGED <<slots, srv, raw, views, g_image, current, raced>>

SwitchShows ==
  /\ work.at = "switch"
  /\ current' = (current % Len(views)) + 1
  /\ srv' = [srv EXCEPT ![work.image] = views[current']]
  /\ work' = Idle
  /\ UNCHANGED <<slots, raw, views, g_image, raced>>

BannerNext ==
  \/ \E s \in Slots :
       \/ \E what \in {"frontend", "other"} : Load(s, what)
       \/ Unload(s) \/ Reconcile(s) \/ SwitchFinds(s)
  \/ CreateSrv \/ UploadFails \/ Uploaded \/ SwitchShows

-----------------------------------------------------------------------------
(* Properties.                                                              *)

\* Whatever the game draws, at any point of an upload: no image points at a view that has
\* been released, and no image but the front end's shows the banner. The exception is an
\* image that got the slot of the front end's after the main thread had found that one
\* and before it wrote to it.
ShownAlive ==
  \A s \in Slots : slots[s] # "free" /\ s \notin raced =>
    /\ srv[s] # Gone
    /\ srv[s] # Own => slots[s] = "frontend"
=============================================================================
