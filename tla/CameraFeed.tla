----------------------------- MODULE CameraFeed -----------------------------
(***************************************************************************)
(* The camera of the robot behind RosbridgeLink: the last frame that the   *)
(* adapter holds, and CameraService's worker, which reads it 15 times a    *)
(* second for as long as the robot has viewers and puts it, scaled to what *)
(* a viewer asked for, into queues of one frame each.                      *)
(*                                                                         *)
(* A frame whose header is intact is kept although its image may be cut    *)
(* short; only scaling it finds out, and ends the worker.  A browser that  *)
(* goes away is noticed when the next frame is sent to it.                 *)
(***************************************************************************)
EXTENDS RosbridgeLink

CONSTANTS
  Viewer,      \* the viewers, one per camera websocket
  Scaled       \* those whose quality is below the size of the camera

ASSUME ViewersAssumption == Scaled \subseteq Viewer

VARIABLES
  frame,       \* the entry in _frames
  shot,        \* the socket it was received on
  age,         \* of _camera_received_at
  viewers,     \* _viewers
  gone,        \* those whose browser went away
  queue,       \* the viewers whose queue holds a frame
  worker       \* the entry in _workers

adapter == <<frame, shot, age>>
service == <<viewers, gone, queue, worker>>
camera == <<adapter, service>>

CameraTypeOK ==
  /\ frame \in {"none", "intact", "cut"} /\ shot \in 0..MaxSockets
  /\ age \in {"unknown", "fresh", "stale"}
  /\ viewers \subseteq Viewer /\ gone \subseteq viewers /\ queue \subseteq viewers
  /\ worker \in {"none", "running", "dead"}

CameraInit ==
  /\ Init
  /\ frame = "none" /\ shot = 0 /\ age = "unknown"
  /\ viewers = {} /\ gone = {} /\ queue = {} /\ worker = "none"
-----------------------------------------------------------------------------
(* The adapter *)

(* _mark_disconnected takes the frame away with the rest of the state.     *)
Disconnecting == phase' # phase /\ phase' \in {"backoff", "closed"}

LinkStep ==
  /\ Next
  /\ IF Disconnecting
     THEN frame' = "none" /\ age' = "unknown"
     ELSE UNCHANGED <<frame, age>>
  /\ UNCHANGED <<shot, service>>

(* handle_publish of a compressed image, by _decode_camera.                *)
Captured ==
  /\ Received
  /\ frame' \in {"intact", "cut"} /\ shot' = socket /\ age' = "fresh"
  /\ UNCHANGED <<shown, calls, service>>

GrowsStale ==
  /\ age = "fresh" /\ age' = "stale"
  /\ UNCHANGED <<vars, frame, shot, service>>
-----------------------------------------------------------------------------
(* CameraService *)
Join(v) ==
  /\ v \notin viewers
  /\ viewers' = viewers \cup {v}
  /\ worker' = IF worker = "none" THEN "running" ELSE worker
  /\ UNCHANGED <<vars, adapter, gone, queue>>

(* Mutant: leaving ends the worker without looking for other viewers.      *)
AloneOrNot(v) == v \in viewers

Alone(v) == viewers = {v}

Leave(v) ==
  /\ v \in viewers
  /\ viewers' = viewers \ {v}
  /\ worker' = IF Alone(v) THEN "none" ELSE worker
  /\ gone' = gone \ {v} /\ queue' = queue \ {v}
  /\ UNCHANGED <<vars, adapter>>

(* The handler sends what its queue holds; a send to a browser that went   *)
(* away fails and leaves the subscription.                                 *)
Send(v) ==
  /\ v \in queue
  /\ IF v \in gone THEN Leave(v)
     ELSE queue' = queue \ {v} /\ UNCHANGED <<vars, adapter, viewers, gone, worker>>

GoesAway(v) ==
  /\ v \in viewers \ gone
  /\ gone' = gone \cup {v}
  /\ UNCHANGED <<vars, adapter, viewers, queue, worker>>

(* Mutant: frame does not ask how old the frame is.                        *)
ShownAtAnyAge == frame

(* frame *)
Shown == IF age = "fresh" THEN frame ELSE "none"

(* publish serves the viewers whose time has come in any order; the first  *)
(* whose frame cannot be scaled ends the worker, which stays registered.   *)
Produce ==
  /\ worker = "running"
  /\ frame' = IF age = "fresh" THEN frame ELSE "none"
  /\ \E due \in SUBSET viewers :
       IF Shown = "cut" /\ due \cap Scaled # {}
       THEN /\ worker' = "dead"
            /\ \E served \in SUBSET (due \ Scaled) : queue' = queue \cup served
       ELSE /\ queue' = IF Shown = "none" THEN queue ELSE queue \cup due
            /\ UNCHANGED worker
  /\ UNCHANGED <<vars, shot, age, viewers, gone>>
-----------------------------------------------------------------------------
CameraNext ==
  \/ LinkStep \/ Captured \/ GrowsStale \/ Produce
  \/ \E v \in Viewer : Join(v) \/ Send(v) \/ GoesAway(v)

CameraSpec == CameraInit /\ [][CameraNext]_<<vars, camera>>

(* The fairness of the calls; none is asked of the camera and its viewers. *)
FairCameraSpec ==
  /\ CameraSpec
  /\ \A c \in Call :
       WF_vars(LinkStep /\ (Sent(c) \/ SendFails(c))) /\ WF_vars(LinkStep /\ TimesOut(c))
-----------------------------------------------------------------------------
(* What a viewer is given was received over the connection that is up now, *)
(* at most two seconds ago: neither a reconnect nor a camera that stopped  *)
(* lets the worker show an old picture as if it were live.                 *)
CameraShowsPresent ==
  [][queue' \subseteq queue \/ (online /\ shot = socket /\ age = "fresh")]_<<vars, camera>>

(* A worker is registered exactly while there are viewers: the last one to *)
(* leave takes it away, a dead one too, and none of the others does.       *)
WorkerFollowsViewers == viewers = {} <=> worker = "none"
=============================================================================
