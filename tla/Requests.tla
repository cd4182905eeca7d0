------------------------------ MODULE Requests ------------------------------
(***************************************************************************)
(* The requests of the back office.  Each is a handler: a sequence of SQL  *)
(* statements on the pool, every one of them committed by itself, and an   *)
(* answer.  Any statement may fail, which ends the request with an error,  *)
(* and the process may end before any of them; no handler undoes what its  *)
(* earlier statements did.                                                 *)
(*                                                                         *)
(* A request that ended early stays at the statement it never made: so     *)
(* what it did is told by its place.  A statement may take effect and its  *)
(* reply be lost: then the request has ended before the next one, and      *)
(* after the last one it is at its end and answers a failure all the same. *)
(***************************************************************************)
CONSTANTS Call, None

ASSUME RequestsAssumption == None \notin {"ok", "refused", "failed"}

VARIABLES
    ask,        \* what each request is for; None as long as it has not come
    at,         \* the statement it makes next
    answer

request == <<ask, at, answer>>

InitRequests ==
    /\ ask = [c \in Call |-> None]
    /\ at = [c \in Call |-> "start"]
    /\ answer = [c \in Call |-> None]

\* The request has yet to come; and when it does, it asks for something and makes its
\* first statement.
Fresh(c) == ask[c] = None

Begin(c, asked, first) ==
    /\ ask' = [ask EXCEPT ![c] = asked]
    /\ at' = [at EXCEPT ![c] = first]
    /\ UNCHANGED answer

\* The request is under way, and this statement is its next.
Makes(c, step) == ask[c] # None /\ answer[c] = None /\ at[c] = step

Goto(c, step, next) ==
    /\ Makes(c, step)
    /\ at' = [at EXCEPT ![c] = next]
    /\ UNCHANGED <<ask, answer>>

\* The last statement takes effect: response.OK or response.Created follows, unless its
\* reply, or the process, is lost.
Finish(c, step) ==
    /\ Makes(c, step)
    /\ at' = [at EXCEPT ![c] = "end"]
    /\ \E reply \in {"ok", "failed"} : answer' = [answer EXCEPT ![c] = reply]
    /\ UNCHANGED ask

\* An early return that the handler decides on.
Refuse(c, step) ==
    /\ Makes(c, step)
    /\ answer' = [answer EXCEPT ![c] = "refused"]
    /\ UNCHANGED <<ask, at>>

\* A statement fails, or the process ends.
Fails(c) ==
    /\ ask[c] # None /\ answer[c] = None
    /\ answer' = [answer EXCEPT ![c] = "failed"]
    /\ UNCHANGED <<ask, at>>

=============================================================================
