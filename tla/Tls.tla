-------------------------------- MODULE Tls --------------------------------
(***************************************************************************)
(* internal/tls/tls.go and the checks of server and clients around it: the *)
(* files given with --ca, --cert and --key, and who can talk to whom.      *)
(*                                                                         *)
(* A file is "none" (the flag is not given), "missing" (it cannot be read),*)
(* "empty", "garbled", or stands for the authority it names or that has    *)
(* signed it; a certificate and its key are one file.                      *)
(***************************************************************************)
CONSTANTS
  Authorities,   (* Certification authorities.                             *)
  SystemRoots    (* The ones the operating system trusts.                  *)

ASSUME RootsAssumption == SystemRoots \subseteq Authorities

(* The configuration of a peer: dev is --dev of the server, --insecure of a
   client.                                                                 *)
Peers == [dev : BOOLEAN,
          ca : {"none", "missing", "empty", "garbled"} \union Authorities,
          pair : {"none", "missing", "empty", "garbled"} \union Authorities]

(* os.ReadFile of the given files; that of the certificate must be given.  *)
FilesRead(p) == p.ca # "missing" /\ p.pair \notin {"none", "missing"}

(* LoadRootCa, unless there are no bytes, and LoadKeyPair.                 *)
LoadCertificate(p) ==
  /\ p.ca # "garbled"
  /\ p.pair \notin {"empty", "garbled"}

(* RootCAs and ClientCAs: without a pool, crypto/tls takes the system's.   *)
Roots(p) == IF p.ca \in {"none", "empty"} THEN SystemRoots ELSE {p.ca}

(* External, crypto/tls: with RequireAndVerifyClientCert each side must
   present a certificate that the other side's roots have signed; a side
   without TLS only understands its like.                                  *)
Handshake(client, server) ==
  /\ client.dev = server.dev
  /\ ~server.dev => /\ server.pair \in Roots(client)
                    /\ client.pair \in Roots(server)
=============================================================================
