--------------------------- MODULE WriteOnceStore ---------------------------
(***************************************************************************)
(* What the artifact store promises to those who commit and serve          *)
(* documents: an address is empty or holds exactly its bytes, the store    *)
(* never changes what is there, what it confirmed to have stored survives  *)
(* crashes and power failures, and a manifest names only what was          *)
(* confirmed.  Only damage from outside breaks this, and it is never       *)
(* papered over.                                                           *)
(***************************************************************************)
EXTENDS Naturals

CONSTANTS Keys, Clients

VARIABLES
    file,       \* what each address holds: absent, intact, damaged
    promised,   \* confirmed to be stored, and not damaged from outside since
    pledge,     \* the address confirmed to each client that is to name it
    reply,      \* what each client is told of an address: "none" or "intact"
    named       \* the addresses manifests name

vars == <<file, promised, pledge, reply, named>>
Nobody == [c \in Clients |-> {}]
Silence == [c \in Clients |-> "none"]

Init ==
    /\ file \in [Keys -> {"absent", "intact"}]
    /\ promised = {} /\ pledge = Nobody /\ reply = Silence
    /\ named \in SUBSET {k \in Keys : file[k] = "intact"}

Store(k) ==
    /\ file[k] = "absent"
    /\ file' = [file EXCEPT ![k] = "intact"]
    /\ UNCHANGED <<promised, pledge, reply, named>>

(* The store confirms an address to c; for good, unless the address was    *)
(* damaged while it was being stored.                                      *)
Confirm(c, k) ==
    /\ file[k] = "intact"
    /\ promised' \in {promised, promised \cup {k}}
    /\ pledge' = [pledge EXCEPT ![c] = {k}]
    /\ UNCHANGED <<file, reply, named>>

(* A check of what an address holds, without a promise for the future.     *)
Observe(c) ==
    /\ \E k \in Keys : file[k] = "intact"
    /\ reply' = [reply EXCEPT ![c] = "intact"]
    /\ pledge' = [pledge EXCEPT ![c] = {}]
    /\ UNCHANGED <<file, promised, named>>

Name(c) ==
    /\ pledge[c] # {}
    /\ named' = named \cup pledge[c]
    /\ pledge' = [pledge EXCEPT ![c] = {}]
    /\ UNCHANGED <<file, promised, reply>>

Leave(c) ==
    /\ pledge' = [pledge EXCEPT ![c] = {}]
    /\ reply' = [reply EXCEPT ![c] = "none"]
    /\ UNCHANGED <<file, promised, named>>

(* From outside.                                                           *)
Damage(k) ==
    /\ file' \in {[file EXCEPT ![k] = f] : f \in {"absent", "damaged"}}
    /\ promised' = promised \ {k}
    /\ UNCHANGED <<pledge, reply, named>>

(* A power failure ends every client and may lose what was not promised.   *)
PowerFails ==
    /\ \E lost \in SUBSET (Keys \ promised) :
          file' = [k \in Keys |-> IF k \in lost THEN "absent" ELSE file[k]]
    /\ pledge' = Nobody /\ reply' = Silence
    /\ UNCHANGED <<promised, named>>

Next ==
    \/ \E k \in Keys : Store(k) \/ Damage(k)
    \/ \E c \in Clients : (\E k \in Keys : Confirm(c, k)) \/ Observe(c) \/ Name(c) \/ Leave(c)
    \/ PowerFails

Spec == Init /\ [][Next]_vars
=============================================================================
