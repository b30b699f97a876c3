------------------------------ MODULE MC_Runtime ------------------------------
(* The service about its database; and, evaluated before the run, what the  *)
(* data migration makes of the samples.                                     *)
EXTENDS ServiceRuntime, MigrationSamples

(* Two builds: ours, and a newer one that adds a migration and was packaged *)
(* with other bytes under the name of ours.                                 *)
MCManifest == [ours |-> <<"integrity", "head">>, newer |-> <<"integrity", "head", "next">>]
MCChecksum == [ours |-> [integrity |-> "a", head |-> "b"],
               newer |-> [integrity |-> "a", head |-> "c", next |-> "d"]]

Settled == /\ migrator.at = "idle"
           /\ applied = <<>> \/ (AtHead /\ recorded = MCChecksum["ours"])

(* What the outside and the callers do is narrowed (steps without a fairness *)
(* assumption only): one dependency fails at a time and has at most one      *)
(* abandoned probe, and while an operator's migration command and what it    *)
(* left behind are in the way, dependencies stay as they are and nothing     *)
(* arrives from outside.                                                     *)
Narrow ==
  /\ up' # up => Settled /\ \E d \in Probed : \A e \in Probed \ {d} : up'[e] = "up"
  /\ \A d \in Probed : answer[d] # "stuck" /\ answer'[d] = "stuck"
       => \A e \in Probed \ {d} : e \notin late /\ answer[e] # "stuck"
  /\ migrator.at = "idle" /\ migrator'.at # "idle"
       => /\ \A d \in Probed : up[d] = "up" /\ record[d] = "up"
          /\ phase = "listening" /\ ~ShuttingDown /\ ~InFlight /\ late = {} /\ Busy = {}
  /\ (request = "none" /\ request' # "none") \/ (~ShuttingDown /\ ShuttingDown') => Settled

MCNext == Next /\ Narrow

MCSpec == Init /\ [][MCNext]_vars /\ Fairness
=============================================================================
