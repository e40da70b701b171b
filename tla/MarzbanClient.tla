--------------------------- MODULE MarzbanClient ---------------------------
(***************************************************************************)
(* The accounting provider's HTTP client (MarzbanAccountingProvider): one   *)
(* admin token cached in the provider and shared by every thread, one       *)
(* re-authentication after a 401, no other retry, and the classification    *)
(* of every failure of create_user by what it proves about the service.     *)
(*                                                                         *)
(* The service itself is external.  It checks the token before anything     *)
(* else, an answer may be lost, and a request whose answer was lost may     *)
(* still be carried out later.                                              *)
(***************************************************************************)
EXTENDS Integers, FiniteSets

CONSTANTS
    Callers,   \* threads that use the provider
    Names,     \* user names
    NameOf,    \* the name each caller's requests are about
    STRANGER,  \* whoever else creates accounts in the service
    NULL

ASSUME NameAssumption   == NameOf \in [Callers -> Names]
ASSUME CallerAssumption == STRANGER \notin Callers
ASSUME NullAssumption   ==
    NULL \notin [by : Callers \cup {STRANGER}, enabled : BOOLEAN]

VARIABLES
    account,   \* the service's account of each name (external)
    token,     \* the provider's _token
    call,      \* how far each caller is in _call
    answer,    \* what the finished call returned or raised
    late       \* requests given up by the client that may still arrive

wire == <<account, token, call, answer, late>>

Operations == {"create", "disable"}
Accounts   == {NULL} \cup [by : Callers \cup {STRANGER}, enabled : BOOLEAN]
Tokens     == {"none", "stale", "live"}
Stages     == {"idle", "auth", "send", "reauth", "resend"}
\* What _call and the status checks after it can end in: local (rejected
\* before any request), preflight (provider closed, TLS), auth (no token, or
\* 401 twice), garbled (the token answer is not a JSON object), lost
\* (transport error after dispatch), rejected (400, 409, 422; for disable any
\* other status), status (another status), badBody (200 with an unusable
\* body), ok.
Answers == {"none", "local", "preflight", "auth", "garbled", "lost", "rejected",
            "status", "badBody", "ok"}

ClientTypeOK ==
    /\ account \in [Names -> Accounts]
    /\ token \in Tokens
    /\ call \in [Callers -> Stages]
    /\ answer \in [Callers -> Answers]
    /\ late \subseteq Callers \X Operations

ClientInit ==
    /\ account \in [Names -> {NULL, [by |-> STRANGER, enabled |-> TRUE]}]
    /\ token = "none"
    /\ call = [c \in Callers |-> "idle"]
    /\ answer = [c \in Callers |-> "none"]
    /\ late = {}

Ends(c, a) ==
    /\ call' = [call EXCEPT ![c] = "idle"]
    /\ answer' = [answer EXCEPT ![c] = a]

Ready(c) == call[c] = "idle" /\ answer[c] = "none"

-----------------------------------------------------------------------------
(* The service.                                                             *)

\* The account table after the service carried out c's request.
Served(c, op) ==
    LET n == NameOf[c] IN
    CASE op = "create" /\ account[n] = NULL ->
             [account EXCEPT ![n] = [by |-> c, enabled |-> TRUE]]
      [] op = "disable" /\ account[n] # NULL ->
             [account EXCEPT ![n].enabled = FALSE]
      [] OTHER -> account

\* The answer to a request that was carried out: a create of a taken name
\* and a disable of an unknown one are refused.
Replies(c, op) ==
    IF op = "create"
    THEN IF account[NameOf[c]] = NULL THEN {"ok", "badBody", "status"}
         ELSE {"rejected", "status"}
    ELSE IF account[NameOf[c]] = NULL THEN {"rejected"} ELSE {"ok", "rejected"}

LandsLate ==
    \E c \in Callers, op \in Operations :
        /\ <<c, op>> \in late
        /\ account' = Served(c, op)
        /\ late' = late \ {<<c, op>>}
        /\ UNCHANGED <<token, call, answer>>

\* The token's lifetime ends, or the service forgets its signing key.
TokenExpires ==
    /\ token = "live"
    /\ token' = "stale"
    /\ UNCHANGED <<account, call, answer, late>>

\* health_check, which an operator's request makes: it replaces the shared token,
\* or drops it when it cannot authenticate, under the calls of other threads.
HealthCheck ==
    /\ token' \in {"live", "none"}
    /\ UNCHANGED <<account, call, answer, late>>

-----------------------------------------------------------------------------
(* _call: authenticate if there is no token, dispatch, and after a 401       *)
(* authenticate and dispatch once more.                                      *)

StartCall(c) ==
    /\ Ready(c)
    /\ call' = [call EXCEPT ![c] = IF token = "none" THEN "auth" ELSE "send"]
    /\ UNCHANGED <<account, token, answer, late>>

Authenticate(c) ==
    /\ call[c] \in {"auth", "reauth"}
    /\ \/ /\ token' = "live"
          /\ call' = [call EXCEPT ![c] = IF @ = "auth" THEN "send" ELSE "resend"]
          /\ UNCHANGED answer
       \/ /\ \E a \in {"preflight", "auth", "garbled"} : Ends(c, a)
          /\ UNCHANGED token
    /\ UNCHANGED <<account, late>>

\* Mutant: a 401 is answered by authenticating again, as often as it comes.
UnauthorizedForEver(c) ==
    /\ call[c] \in {"send", "resend"}
    /\ token # "live"
    /\ token' = "none"
    /\ call' = [call EXCEPT ![c] = "reauth"]
    /\ UNCHANGED <<account, answer, late>>

\* 401: another thread may have dropped the shared token in the meantime.
Unauthorized(c) ==
    /\ call[c] \in {"send", "resend"}
    /\ token # "live"
    /\ IF call[c] = "send"
       THEN /\ token' = "none"
            /\ call' = [call EXCEPT ![c] = "reauth"]
            /\ UNCHANGED answer
       ELSE Ends(c, "auth") /\ UNCHANGED token
    /\ UNCHANGED <<account, late>>

\* The provider was closed between two steps of the call.
DispatchRefused(c) ==
    /\ call[c] \in {"send", "resend"}
    /\ Ends(c, "preflight")
    /\ UNCHANGED <<account, token, late>>

\* The request is carried out and answered, or refused unread (400, 422, 5xx).
Dispatched(c, op) ==
    /\ call[c] \in {"send", "resend"}
    /\ token = "live"
    /\ \/ account' = Served(c, op) /\ \E a \in Replies(c, op) : Ends(c, a)
       \/ account' = account /\ \E a \in {"rejected", "status"} : Ends(c, a)
    /\ UNCHANGED <<token, late>>

\* A transport error: the request never arrives, has been carried out, or is
\* still under way.
DispatchLost(c, op) ==
    /\ call[c] \in {"send", "resend"}
    /\ Ends(c, "lost")
    /\ \/ UNCHANGED <<account, late>>
       \/ token = "live" /\ account' = Served(c, op) /\ UNCHANGED late
       \/ token = "live" /\ late' = late \cup {<<c, op>>} /\ UNCHANGED account
    /\ UNCHANGED token

CallStep(c, op) ==
    \/ Authenticate(c)
    \/ Unauthorized(c)
    \/ DispatchRefused(c)
    \/ Dispatched(c, op)
    \/ DispatchLost(c, op)

\* Mutant: a timed-out POST is taken for one that did not arrive.
EffectOptimistic(a) ==
    CASE a \in {"local", "preflight", "auth", "rejected", "lost"} -> "NO_SIDE_EFFECT"
      [] a = "status"  -> "AMBIGUOUS"
      [] a = "badBody" -> "CREATED"
      [] OTHER         -> "UNCLASSIFIED"

\* Mutant: a refused create may have created the user (the contract before
\* ADR-018).
EffectPessimistic(a) ==
    CASE a \in {"local", "preflight", "auth"} -> "NO_SIDE_EFFECT"
      [] a \in {"lost", "status"} -> "AMBIGUOUS"
      [] OTHER                    -> "CREATED"

\* create_user's classification of what its call ended in.  The error a
\* garbled token answer raises is none of the classes create_user catches.
Effect(a) ==
    CASE a \in {"local", "preflight", "auth", "rejected"} -> "NO_SIDE_EFFECT"
      [] a \in {"lost", "status"} -> "AMBIGUOUS"
      [] a = "badBody"            -> "CREATED"
      [] OTHER                    -> "UNCLASSIFIED"
=============================================================================
