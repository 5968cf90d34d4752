------------------------------ MODULE MCServer ------------------------------
EXTENDS Server

(* Command lines: certificates that are there or not, a directory that can be
   used or not, and dev mode with and without certificates.                *)
MCConfigs ==
  [dev : {FALSE}, ca : {"none", "missing", "garbled", "org"},
   pair : {"missing", "empty", "garbled", "org"}, path : {"none", "good", "bad"}]
  \union
  [dev : {TRUE}, ca : {"none"}, pair : {"missing"}, path : {"none", "bad"}]
  \union
  [dev : {TRUE}, ca : {"org"}, pair : {"org"}, path : {"good"}]

(* Clients without TLS, of the same authority and of another one.          *)
MCClients == {[dev |-> TRUE, ca |-> "none", pair |-> "none"],
              [dev |-> FALSE, ca |-> "org", pair |-> "org"],
              [dev |-> FALSE, ca |-> "none", pair |-> "public"]}
=============================================================================
