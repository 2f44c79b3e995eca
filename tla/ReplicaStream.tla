---------------------------- MODULE ReplicaStream ----------------------------
(***************************************************************************)
(* What state synchronisation promises, without snapshots and patches: at  *)
(* every boundary each follower is sent the view it is to have, and a      *)
(* client is shown the views it was sent, each in its turn and none left   *)
(* out, until its connection is cut.                                       *)
(***************************************************************************)
EXTENDS Sequences

CONSTANTS
    Client,
    Views,       \* what a client may be shown
    Blank        \* what it shows before the first view

VARIABLES
    following,   \* clients that are sent every view
    latest,      \* the view each follower was last meant to have
    pipe,        \* views sent and not shown yet
    shown        \* the view each client shows

vars == <<following, latest, pipe, shown>>

Init ==
    /\ following = {}
    /\ latest = [c \in Client |-> Blank]
    /\ pipe = [c \in Client |-> <<>>]
    /\ shown = [c \in Client |-> Blank]

(* A boundary.  A view may be left out only for a client that already has   *)
(* it; a client that begins to follow is sent one whatever it shows.         *)
Publish ==
    /\ following' \in SUBSET Client
    /\ latest' \in [Client -> Views]
    /\ \A c \in Client \ following' : latest'[c] = Blank /\ pipe'[c] = pipe[c]
    /\ \A c \in following' :
          \/ pipe'[c] = Append(pipe[c], latest'[c])
          \/ c \in following /\ latest'[c] = latest[c] /\ pipe'[c] = pipe[c]
    /\ DOMAIN pipe' = Client
    /\ UNCHANGED shown

Show(c) ==
    /\ pipe[c] # <<>>
    /\ shown' = [shown EXCEPT ![c] = Head(pipe[c])]
    /\ pipe' = [pipe EXCEPT ![c] = Tail(@)]
    /\ UNCHANGED <<following, latest>>

(* The connection is lost, and with it what was not shown; the client goes  *)
(* on showing what it has, or, when it leaves, shows nothing.                *)
Cut(c) ==
    /\ following' = following \ {c}
    /\ latest' = [latest EXCEPT ![c] = Blank]
    /\ pipe' = [pipe EXCEPT ![c] = <<>>]
    /\ shown' \in {shown, [shown EXCEPT ![c] = Blank]}

Next == Publish \/ \E c \in Client : Show(c) \/ Cut(c)

Spec == Init /\ [][Next]_vars
=============================================================================
