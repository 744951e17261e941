------------------------------- MODULE Images -------------------------------
(***************************************************************************)
(* EnsureImages (pkg/runtime/image.go) and the handler that sends its      *)
(* result, for commands that run side by side on one image store.          *)
(*                                                                         *)
(* A command pulls the images it names and the pause image, one after the  *)
(* other in the arbitrary order of a Go map, and gives up at the first     *)
(* error; then it makes the list of statuses, which is marshalled.  The    *)
(* registry, the deadline of ImageActionContext and the store are the      *)
(* reasons a pull may fail.                                                *)
(***************************************************************************)
EXTENDS Naturals, FiniteSets

CONSTANTS
    ImageCmd,    \* the image-ensure commands
    Image,       \* image names
    PauseImage   \* r.pauseImage

ASSUME ImagesAssumption == PauseImage \in Image /\ IsFiniteSet(Image)

\* PullImageAlways, PullImageMissing, PullImageNever
PullPolicy == {"always", "if_not_present", "never"}

NoImages == [i \in {} |-> "never"]
NoStatus == [nil |-> 0, images |-> {}]

VARIABLES
    store,    \* the images in the local store
    initial,  \* those that were there when the process started
    pc,       \* command -> where EnsureImages is
    all,      \* command -> allImages: image -> pull policy
    left,     \* command -> images the loop of ensureImages has yet to visit
    status,   \* command -> the list built: its nil entries and its images
    process   \* "up", or "down" after a panic

imagesVars == <<store, initial, pc, all, left, status, process>>

ImagesInit ==
    /\ initial \in SUBSET Image
    /\ store = initial
    /\ pc = [c \in ImageCmd |-> "idle"]
    /\ all = [c \in ImageCmd |-> NoImages]
    /\ left = [c \in ImageCmd |-> {}]
    /\ status = [c \in ImageCmd |-> NoStatus]
    /\ process = "up"

Goto(c, place) == pc' = [pc EXCEPT ![c] = place]

\* allImages: the pause image comes first, and an entry for it in the command
\* overrides its policy.
Merged(images) ==
    [i \in DOMAIN images \cup {PauseImage} |->
        IF i \in DOMAIN images THEN images[i] ELSE "if_not_present"]

Ensures(c, images) ==
    /\ process = "up"
    /\ pc[c] = "idle"
    /\ all' = [all EXCEPT ![c] = Merged(images)]
    /\ left' = [left EXCEPT ![c] = DOMAIN Merged(images)]
    /\ Goto(c, "pull")
    /\ UNCHANGED <<store, initial, status, process>>

\* A policy the mapping does not know is "always".
PullsAnyPolicy(c, i) ==
    /\ process = "up"
    /\ pc[c] = "pull"
    /\ i \in left[c]
    /\ store' = store \cup {i}
    /\ left' = [left EXCEPT ![c] = @ \ {i}]
    /\ UNCHANGED <<initial, pc, all, status, process>>

\* imageClient.New finds the image or, if the policy lets it, fetches it.
Pulls(c, i) ==
    /\ process = "up"
    /\ pc[c] = "pull"
    /\ i \in left[c]
    /\ all[c][i] = "never" => i \in store
    /\ store' = store \cup {i}
    /\ left' = [left EXCEPT ![c] = @ \ {i}]
    /\ UNCHANGED <<initial, pc, all, status, process>>

\* The loop goes on after an error.
PullFailsGoesOn(c, i) ==
    /\ process = "up"
    /\ pc[c] = "pull"
    /\ i \in left[c]
    /\ left' = [left EXCEPT ![c] = @ \ {i}]
    /\ UNCHANGED <<store, initial, pc, all, status, process>>

PullFails(c, i) ==
    /\ process = "up"
    /\ pc[c] = "pull"
    /\ i \in left[c]
    /\ Goto(c, "err")
    /\ UNCHANGED <<store, initial, all, left, status, process>>

PullsDone(c) ==
    /\ process = "up"
    /\ pc[c] = "pull"
    /\ left[c] = {}
    /\ Goto(c, "list")
    /\ UNCHANGED <<store, initial, all, left, status, process>>

\* make([]*ImageStatusMsg, len(pulledImages)), then an append for every image
\* that has a sha256 digest.
Lists(c, digested) ==
    /\ process = "up"
    /\ pc[c] = "list"
    /\ digested \subseteq DOMAIN all[c]
    /\ status' = [status EXCEPT ![c] =
                     [nil |-> Cardinality(DOMAIN all[c]), images |-> digested]]
    /\ Goto(c, "marshal")
    /\ UNCHANGED <<store, initial, all, left, process>>

\* img.RepoDigests() fails
ListFails(c) ==
    /\ process = "up"
    /\ pc[c] = "list"
    /\ Goto(c, "err")
    /\ UNCHANGED <<store, initial, all, left, status, process>>

\* msg.Marshal() in handleImageEnsure: the entry's marshaller reads a field of
\* its receiver, which panics when the entry is nil.
Marshals(c) ==
    /\ process = "up"
    /\ pc[c] = "marshal"
    /\ IF status[c].nil > 0
         THEN process' = "down" /\ UNCHANGED pc
         ELSE Goto(c, "ok") /\ UNCHANGED process
    /\ UNCHANGED <<store, initial, all, left, status>>

Images == UNION {[S -> PullPolicy] : S \in SUBSET Image}

CmdStep(c) ==
    \/ \E i \in Image : Pulls(c, i) \/ PullFails(c, i)
    \/ PullsDone(c)
    \/ \E digested \in SUBSET Image : Lists(c, digested)
    \/ ListFails(c)
    \/ Marshals(c)

ImagesNext ==
    \E c \in ImageCmd : CmdStep(c) \/ \E images \in Images : Ensures(c, images)

ImagesSpec == ImagesInit /\ [][ImagesNext]_imagesVars
-----------------------------------------------------------------------------
(* EnsureImages that did not fail leaves every image it was asked for, and the
   pause image, in the store, with other commands pulling and failing beside
   it (ensureImages returns at the first error). *)
EnsuredPresent ==
    \A c \in ImageCmd :
        pc[c] \in {"list", "marshal", "ok"} => DOMAIN all[c] \subseteq store

(* An image is fetched only if some command asked for it with a policy that
   allows it, or it is the pause image of a command that did not override its
   policy (pullTypeMapping and the merge into allImages). *)
NeverFetched ==
    \A i \in store \ initial :
        \E c \in ImageCmd : i \in DOMAIN all[c] /\ all[c][i] # "never"

(* "EnsureImages ensure container images": the command is served, and the
   process serves the next one. *)
ProcessSurvives == process = "up"
=============================================================================
