------------------------- MODULE IdempotentCommands -------------------------
(***************************************************************************)
(* What an idempotency key promises its client: the first request that     *)
(* takes effect under a scope is the only one that ever does, and no       *)
(* answer contradicts it.  Locks, retries, lost answers and crashes do not *)
(* appear here.                                                            *)
(***************************************************************************)
EXTENDS Naturals

CONSTANTS Scopes, Requests, Clients, NoScope, NoRequest

VARIABLES
    done,       \* the request that took effect under each scope
    count,      \* how many did
    asked,      \* the request each client waits for, with its scope
    reply       \* the answer each client was given

vars == <<done, count, asked, reply>>

Affirmative == {"accepted", "replayed", "issuing", "done"}
Rejection == {"not_found", "unprocessable", "arithmetic_mismatch", "in_progress",
              "invalid_state", "version_conflict", "provider_disabled"}
Replies == Affirmative \cup Rejection \cup {"conflict", "unknown", "nothing_committed"}
NoReply == "none"
Nothing == [scope |-> NoScope, request |-> NoRequest]

Init ==
    /\ done = [sc \in Scopes |-> NoRequest]
    /\ count = [sc \in Scopes |-> 0]
    /\ asked = [c \in Clients |-> Nothing]
    /\ reply = [c \in Clients |-> NoReply]

Ask(c, sc, r) ==
    /\ asked[c] = Nothing /\ reply[c] = NoReply
    /\ asked' = [asked EXCEPT ![c] = [scope |-> sc, request |-> r]]
    /\ UNCHANGED <<done, count, reply>>

(* An answer agrees with what was done: a confirmation with the client's   *)
(* own request, a conflict with another one, and a key that is bound is    *)
(* never answered with a rejection.                                        *)
Answered(c) ==
    LET sc == asked[c].scope
        r == asked[c].request IN
    \E kind \in Replies :
        /\ kind \in Affirmative => done'[sc] = r
        /\ kind = "conflict" => done'[sc] \notin {NoRequest, r}
        /\ kind \in Rejection => done'[sc] = NoRequest
        /\ reply' = [reply EXCEPT ![c] = kind]
        /\ asked' = [asked EXCEPT ![c] = Nothing]

(* The effect of a request, answered at once or later.                     *)
TakesEffect(c) ==
    LET sc == asked[c].scope IN
    /\ asked[c] # Nothing
    /\ done[sc] = NoRequest
    /\ done' = [done EXCEPT ![sc] = asked[c].request]
    /\ count' = [count EXCEPT ![sc] = count[sc] + 1]
    /\ Answered(c) \/ UNCHANGED <<asked, reply>>

IsAnswered(c) ==
    /\ asked[c] # Nothing
    /\ UNCHANGED <<done, count>>
    /\ Answered(c)

(* The client goes on, or gives up.                                        *)
Leave(c) ==
    /\ asked' = [asked EXCEPT ![c] = Nothing]
    /\ reply' = [reply EXCEPT ![c] = NoReply]
    /\ UNCHANGED <<done, count>>

Next == \E c \in Clients :
    \/ \E sc \in Scopes : \E r \in Requests[sc] : Ask(c, sc, r)
    \/ TakesEffect(c)
    \/ IsAnswered(c)
    \/ Leave(c)

Spec == Init /\ [][Next]_vars
=============================================================================
