----------------------------- MODULE MCCommand -----------------------------
EXTENDS Command

(* Command lines of copy and paste that reach the server, and of clients with
   missing or foreign certificates.                                        *)
Peer(d, a, k) == [dev |-> d, ca |-> a, pair |-> k]
StreamOptions ==
  [cmd : {"copy"}, timeout : BOOLEAN, out : {"stdout"}, sum : {FALSE},
   secret : {"none", "env", "tty"}, peer : {Peer(FALSE, "org", "org")}] \union
  [cmd : {"paste"}, timeout : BOOLEAN, out : {"stdout", "file", "discard"},
   sum : BOOLEAN, secret : {"none", "env", "tty"}, peer : {Peer(FALSE, "org", "org")}] \union
  [cmd : {"copy", "paste"}, timeout : {FALSE}, out : {"stdout"},
   sum : {FALSE}, secret : {"none"}, peer : {Peer(TRUE, "none", "none"),
     Peer(FALSE, "missing", "org"), Peer(FALSE, "none", "garbled"),
     Peer(FALSE, "org", "public")}]

UnaryOptions ==
  [cmd : {"status", "clear"}, timeout : {FALSE}, out : {"stdout"},
   sum : {FALSE}, secret : {"none"}, peer : {Peer(FALSE, "org", "org"),
                              Peer(FALSE, "none", "none")}] \union
  [cmd : {"status"}, timeout : {TRUE}, out : {"stdout"},
   sum : {FALSE}, secret : {"none"}, peer : {Peer(FALSE, "org", "org")}]

MCOptions == StreamOptions \union UnaryOptions

OrgServer == Peer(FALSE, "org", "org")
LongFile == [i \in 1..3 |-> <<"old", i>>]
=============================================================================
