----------------------------- MODULE SessionStatus ----------------------------
(***************************************************************************)
(* What the UI may rely on about status_ of Session (session.h): which     *)
(* status follows which, whatever the worker, the network and the server   *)
(* do.  While a worker of an earlier request still handles what it has     *)
(* received, anything it reports may show; once the worker belongs to the  *)
(* last request, a session is entered only by way of Connected.  A refusal *)
(* may come at any time: what an earlier connection left in the queue may  *)
(* be denied on the next.                                                  *)
(***************************************************************************)
VARIABLES
    status,  \* status_
    worker   \* there may be a worker: "none", of an "earlier" request that
             \* was since left or replaced, or of the "last"

statusVars == <<status, worker>>

StatusInit == status = "disconnected" /\ worker = "none"

\* HostSession and JoinSession, which start their worker later.
Asks   == status' = "connecting" /\ worker' = "earlier"
Starts == worker # "none" /\ worker' = "last" /\ UNCHANGED status

Leaves == status' = "disconnected" /\ worker' = "earlier"

\* HANDSHAKE_ACK, JOIN_ACK, and JOIN_DENIED or KICK.
Greeted ==
    /\ worker # "none"
    /\ status' = "connected"
    /\ UNCHANGED worker

MayEnter == worker = "earlier" \/ (worker = "last" /\ status = "connected")

Enters ==
    /\ MayEnter
    /\ status' = "insession"
    /\ UNCHANGED worker

Refused ==
    /\ worker # "none"
    /\ status' = "failed"
    /\ UNCHANGED worker

StatusNext == Asks \/ Starts \/ Leaves \/ Greeted \/ Enters \/ Refused

StatusSpec == StatusInit /\ [][StatusNext]_statusVars
===============================================================================
