-------------------------- MODULE SeatReservation --------------------------
(***************************************************************************)
(* Reservations of one seat (07/module1/app.py): reserve and cancel are    *)
(* one conditional update_item each, which also counts up the version of   *)
(* the seat, so that version v is the v-th change in the stream the audit  *)
(* function of BatchConsumer reads.  The client library calls again when   *)
(* an answer does not arrive, although the update may have been made.      *)
(***************************************************************************)
EXTENDS Integers

CONSTANTS
    User, NoUser,
    MaxVersion,    \* bound on the changes of the seat
    CallLimit      \* attempts the library makes

ASSUME NoUserAssumption == NoUser \notin User
ASSUME MaxVersionAssumption == MaxVersion \in Nat

VARIABLES
    owner,      \* the seat's user_id; NoUser when its status is available
    version,    \* its version
    call,       \* the request each user has under way, "none" if none
    attempts,   \* how often the library has called for it
    answer,     \* what the last update_item returned: a version, Refused, or NoAnswer yet
    told        \* the version in the user's last 200 answer, 0 without a claim

seatVars == <<owner, version, call, attempts, answer, told>>

NoAnswer == -1
Refused == 0

SeatInit ==
    /\ owner = NoUser
    /\ version = 0
    /\ call = [u \in User |-> "none"]
    /\ attempts = [u \in User |-> 0]
    /\ answer = [u \in User |-> NoAnswer]
    /\ told = [u \in User |-> 0]

(* A user asks for the seat, or gives it up: from then on there is no      *)
(* claim to it.                                                            *)
Ask(u, request) ==
    /\ call[u] = "none"
    /\ call' = [call EXCEPT ![u] = request]
    /\ attempts' = [attempts EXCEPT ![u] = 1]
    /\ answer' = [answer EXCEPT ![u] = NoAnswer]
    /\ told' = IF request = "cancel" THEN [told EXCEPT ![u] = 0] ELSE told
    /\ UNCHANGED <<owner, version>>

(* The table decides the condition and makes the update at once. *)
Update(u, newOwner) ==
    /\ version < MaxVersion
    /\ owner' = newOwner
    /\ version' = version + 1
    /\ answer' = [answer EXCEPT ![u] = version + 1]
    /\ UNCHANGED <<call, attempts, told>>

Refuse(u) ==
    /\ answer' = [answer EXCEPT ![u] = Refused]
    /\ UNCHANGED <<owner, version, call, attempts, told>>

Reserve(u) ==
    /\ call[u] = "reserve" /\ answer[u] = NoAnswer
    /\ IF owner = NoUser THEN Update(u, u) ELSE Refuse(u)

(* A defect to tell apart: whose seat it is does not matter. *)
CancelAny(u) ==
    /\ call[u] = "cancel" /\ answer[u] = NoAnswer
    /\ IF owner # NoUser THEN Update(u, NoUser) ELSE Refuse(u)

Cancel(u) ==
    /\ call[u] = "cancel" /\ answer[u] = NoAnswer
    /\ IF owner = u THEN Update(u, NoUser) ELSE Refuse(u)

(* The answer is lost and the library calls again: what was done the first *)
(* time now counts against the request.                                    *)
CallAgain(u) ==
    /\ answer[u] # NoAnswer
    /\ attempts[u] < CallLimit
    /\ attempts' = [attempts EXCEPT ![u] = @ + 1]
    /\ answer' = [answer EXCEPT ![u] = NoAnswer]
    /\ UNCHANGED <<owner, version, call, told>>

(* 200 with the version, or 409; a 409 leaves an earlier claim alone. *)
Answer(u) ==
    /\ answer[u] # NoAnswer
    /\ told' = IF call[u] = "reserve" /\ answer[u] # Refused
               THEN [told EXCEPT ![u] = answer[u]] ELSE told
    /\ call' = [call EXCEPT ![u] = "none"]
    /\ UNCHANGED <<owner, version, attempts, answer>>

SeatNext ==
    \E u \in User :
        \/ \E request \in {"reserve", "cancel"} : Ask(u, request)
        \/ Reserve(u) \/ Cancel(u) \/ CallAgain(u) \/ Answer(u)

SeatSpec == SeatInit /\ [][SeatNext]_seatVars

(* Whoever was told "reserved" has the seat, at the version of the answer, *)
(* until asking to cancel: no second user is told so, nobody else cancels, *)
(* and a repeated call never takes it away.                                *)
ToldIsOwned ==
    \A u \in User : told[u] # 0 => owner = u /\ version = told[u]

=============================================================================
