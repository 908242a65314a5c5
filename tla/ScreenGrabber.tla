--------------------------- MODULE ScreenGrabber ---------------------------
(***************************************************************************)
(* observer/screen.py: the capture thread and its queue.  What a window    *)
(* looks like is the window itself, so that the hashes of the last         *)
(* captures are the windows they show; there are fewer than eight.         *)
(***************************************************************************)
EXTENDS TriggerGate

CONSTANTS QueueDepth,  \* queue_depth
          Windows      \* windows that come to the foreground

ASSUME GrabberAssumption == QueueDepth \in Nat \ {0}

VARIABLES
  requests,  \* _queue: requests, and None to stop
  grabber,   \* the thread: the request it is at, and what it has of the grab
  recent     \* _recent

grabberVars == <<requests, grabber, recent>>

None == [why |-> "stop", moves |-> 0]
Idle == [at |-> "waiting", why |-> "stop", moves |-> 0, image |-> "none",
         app |-> "none", taken |-> [moves |-> 0, session |-> 0], into |-> 0]

\* at: "none" no thread, "waiting" in get(), "grabbing" in grab(),
\*   "framed" the image is encoded, "named" grab() returns, "storing" the file is
\*   written.
GrabberStates == {"none", "waiting", "grabbing", "framed", "named", "storing"}

GrabberTypeOK ==
  /\ requests \in Seq([why : Reasons, moves : Nat] \union {None})
  /\ Len(requests) <= QueueDepth
  /\ grabber \in [at : GrabberStates, why : Reasons \union {"stop"}, moves : Nat,
                  image : Windows \union {"none"}, app : Windows \union {"none"},
                  taken : [moves : Nat, session : Nat], into : Nat]

GrabberInit ==
  requests = <<>> /\ grabber = [Idle EXCEPT !.at = "none"] /\ recent = {}

-----------------------------------------------------------------------------

\* start(): there may be a thread already.
StartGrabbing ==
  /\ grabber' = IF grabber.at = "none" THEN Idle ELSE grabber
  /\ UNCHANGED <<requests, recent>>

\* submit(), and the sentinel.
Full == Len(requests) = QueueDepth

Submit(r) == ~Full /\ requests' = Append(requests, r) /\ UNCHANGED <<grabber, recent>>

DropOne == requests # <<>> /\ requests' = Tail(requests) /\ UNCHANGED <<grabber, recent>>

TakeRequest ==
  /\ grabber.at = "waiting" /\ requests # <<>>
  /\ requests' = Tail(requests)
  /\ grabber' = IF Head(requests) = None THEN [Idle EXCEPT !.at = "none"]
                ELSE [Idle EXCEPT !.at = "grabbing", !.why = Head(requests).why,
                                  !.moves = Head(requests).moves]
  /\ UNCHANGED recent

\* grab(): there is no window to take, taking or encoding it fails, or the picture
\* is one of the last ones.
GrabsNothing ==
  /\ grabber.at = "grabbing"
  /\ grabber' = [grabber EXCEPT !.at = "named"]
  /\ UNCHANGED <<requests, recent>>

\* grab(): the picture is taken, hashed and registered.
Grabs(window, taken) ==
  /\ grabber.at = "grabbing" /\ window \notin recent
  /\ recent' = recent \union {window}
  /\ grabber' = [grabber EXCEPT !.at = "framed", !.image = window, !.taken = taken]
  /\ UNCHANGED requests

\* grab(): the foreground application, asked for after the picture was taken.
Names(window) ==
  /\ grabber.at = "framed"
  /\ grabber' = [grabber EXCEPT !.at = "named", !.app = window]
  /\ UNCHANGED <<requests, recent>>
=============================================================================
