------------------------------ MODULE MCLogins ------------------------------
(***************************************************************************)
(* Sessions for TLC, in two scenarios: two sessions and slow requests, or  *)
(* three sessions and requests that take no time.                          *)
(***************************************************************************)
EXTENDS Sessions, TLC

CONSTANT PromptLifetime  \* how long the sessions of the second scenario live

VARIABLE scenario

Symmetry == Permutations(Ids) \cup Permutations(Requests)

Issued == {s \in Ids : status[s] # "absent"}

Within ==
  \/ scenario = "slow" /\ Cardinality(Issued) <= 2
  \/ /\ scenario = "prompt"
     /\ \A r \in Requests : request[r].phase # "free" => request[r].now = clock
     /\ \A s \in Issued : expiresAt[s] = issuedAt[s] + PromptLifetime

ScenarioInit == Init /\ scenario \in {"slow", "prompt"}
ScenarioNext == Next /\ UNCHANGED scenario /\ Within'
ScenarioSpec == ScenarioInit /\ [][ScenarioNext]_<<vars, scenario>>

\* As long as no request is slow, at most five sessions of an account are
\* active, however logins, touches and the clock interleave.
AtMostMaxActivePrompt == scenario = "prompt" => AtMostMaxActive
=============================================================================
