----------------------------- MODULE MCFrontDoor -----------------------------
(* FrontDoor on a small instance.  The file writes one key flat and the hash *)
(* of another for a tenant; the environment is silent, malformed, moves      *)
(* keys to other tenants, or writes them for two.                            *)
EXTENDS FrontDoor

CONSTANTS p1, p2

Acme == [id |-> "acme", keys |-> {<<"sha256", "k2">>}]

File ==
  [s \in Flags |-> s \in {"sync", "wal", "batching", "cache", "auth"}] @@
  [s \in Texts \ {"transport", "level", "webhookURL"} |-> "given"] @@
  [transport |-> "gateway", level |-> "info", webhookURL |-> ""] @@
  [port |-> 5001, redisPort |-> 6379, batchSize |-> 100, max |-> 1, window |-> 2] @@
  [apiKeys |-> {<<"k1">>}, tenants |-> <<Acme>>, tenantChannels |-> <<>>, origins |-> {<<"any">>}]

MCFiles == {File, [File EXCEPT !.identityCertFile = ""]}

Blank == << >>
Moved == <<[id |-> "globex", keys |-> {<<"k1">>, Blank}], [id |-> "initech", keys |-> {<<"k3">>}]>>
Twice == <<[id |-> "globex", keys |-> {<<"k1">>, <<"k2">>}], [id |-> "initech", keys |-> {<<"k1">>, <<"sha256", "k2">>}]>>

MCEnvs ==
  {[level |-> "", auth |-> ""], [auth |-> "TRUE"], [auth |-> "true", apiKeys |-> {Blank}],
   [auth |-> "true", tenants |-> <<[id |-> "", keys |-> {<<"k2">>}]>>],
   [auth |-> "true", tenants |-> Moved, tenantChannels |-> <<[id |-> "", keys |-> {<<"c">>}]>>],
   [auth |-> "true", apiKeys |-> {<<"k3">>}, tenants |-> Moved, origins |-> {Blank}],
   [auth |-> "true", tenants |-> Twice],
   [limit |-> "true", max |-> {0}], [limit |-> "true", max |-> {}], [limit |-> "true", max |-> {2}, auth |-> "false"]}

MCSecrets == {"k1", "k2", "k3"}
=============================================================================
