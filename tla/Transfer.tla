------------------------------ MODULE Transfer ------------------------------
(***************************************************************************)
(* client/client.go against server/clipboard.go: the Copy and Paste calls  *)
(* from the user's input to the user's output, over gRPC streams that may  *)
(* break at any moment.                                                    *)
(*                                                                         *)
(* The store is the clipboard of module Clipboard, one content that a copy *)
(* replaces when its stream has ended (module Storage implements it), and  *)
(* the regrouping of bytes into messages is that of module GrpcStream.     *)
(***************************************************************************)
EXTENDS Naturals, Sequences, SequencesExt

CONSTANTS
  Copies, Pastes,   (* The calls.                                          *)
  None,             (* No password, no checksum, no content.               *)
  CopyOpts,         (* Options and inputs of the copies, None for a copy    *)
                    (* that is never called.                               *)
  PasteOpts         (* Options and passwords of a paste.                   *)

(* blocks is the length of the input; over says that a message of the chosen
   transfer rate is above grpcMaxRecvSize; a client of another make may
   leave the header out.                                                   *)
ASSUME OptionsAssumption ==
  /\ \A f \in CopyOpts, c \in Copies :
       f[c] # None => /\ f[c].blocks \in Nat
                      /\ {f[c].sum, f[c].zip, f[c].over, f[c].header}
                           \subseteq BOOLEAN
  /\ \A o \in PasteOpts : o.over \in BOOLEAN

(* None is not a request, nor a key.                                       *)
ASSUME NoneAssumption ==
  /\ None \notin Copies
  /\ \A f \in CopyOpts, c \in Copies : f[c] # None => <<f[c].pwd, c>> # None

VARIABLES
  copt,         (* The options of a copy.                                  *)
  cpc,          (* Where Client.Copy stands.                               *)
  nread,        (* Blocks read from the input and hashed.                  *)
  zbuf, ebuf,   (* What the zstd encoder and the encrypter hold back.      *)
  held,         (* What the Writer's buffer w.t holds back.                *)
  up,           (* Messages on the way to the server.                      *)
  upEnd,        (* The client has closed its side of the stream.           *)
  crpc,         (* The RPC: none, open, ok, error or broken.               *)
  hpc,          (* Where the server's Copy handler stands.                 *)
  info,         (* The header it has received.                             *)
  got,          (* The data WriteBatch has read.                           *)
  clip,         (* The content of the clipboard, or None.                  *)
  published,    (* History: every content there has been.                  *)
  popt, ppc,    (* The options of a paste; where Client.Paste stands.      *)
  pinfo,        (* The header it has received.                             *)
  decoded,      (* What its decrypter and decoder have accepted.           *)
  down,         (* Messages on the way to the client.                      *)
  prpc,         (* The RPC.                                                *)
  spc,          (* Where the server's Paste handler stands.                *)
  sclip, pos,   (* Its snapshot, and how much of it has been sent.         *)
  server        (* The server process: up or panicked.                     *)

copyVars    == <<copt, cpc, nread, zbuf, ebuf, held, upEnd>>
receiveVars == <<hpc, info, got>>
pasteVars   == <<popt, ppc, pinfo, decoded>>
sendVars    == <<spc, sclip, pos>>
clipVars    == <<clip, published>>
vars == <<copyVars, up, crpc, receiveVars, clipVars, pasteVars, down, prpc,
          sendVars, server>>

At(pc, c, label) == pc' = [pc EXCEPT ![c] = label]

-----------------------------------------------------------------------------
(* What is sent                                                            *)

(* The first n blocks of the input of copy c.  SHA-256 tells inputs apart,
   so that they also stand for their digest.                               *)
Input(c, n) == [i \in 1..n |-> <<c, i>>]

(* The key derived from a password and the nonces of copy c.               *)
Key(pwd, c) == IF pwd = None THEN None ELSE <<pwd, c>>

(* How the encoder and the encrypter end a stream, and what a wrong key makes
   of a fragment.                                                          *)
ZipEnd  == <<None, 1>>
SealEnd == <<None, 2>>
Noise   == <<None, 3>>

(* A fragment of the stream: a block, or the mark by which the encoder or
   the encrypter ends it, compressed or not, under a key or none.          *)
Fragment(c, z, of) == [zip |-> z, of |-> of, key |-> Key(copt[c].pwd, c)]

(* The encoder and the encrypter pass on what they are given with a delay:
   the last piece waits for the next one or for Close.                     *)
Passed(buf, s) == Front(buf \o s)
Kept(buf, s)   == IF buf \o s = <<>> THEN <<>> ELSE <<Last(buf \o s)>>

(* gw.Write: the Writer sends when its buffer is full, or keeps the data.  *)
GwWrite(c, s) ==
  \/ /\ held' = [held EXCEPT ![c] = @ \o s]
     /\ UNCHANGED up
  \/ /\ s # <<>>
     /\ up' = [up EXCEPT ![c] = Append(@, [kind |-> "chunk", full |-> TRUE,
                                           data |-> held[c] \o s])]
     /\ held' = [held EXCEPT ![c] = <<>>]

(* encrypter.Write, when there is one.                                     *)
EncWrite(c, s) ==
  IF copt[c].pwd = None
    THEN GwWrite(c, s) /\ UNCHANGED ebuf
    ELSE /\ GwWrite(c, Passed(ebuf[c], s))
         /\ ebuf' = [ebuf EXCEPT ![c] = Kept(@, s)]

-----------------------------------------------------------------------------
(* Client.Copy                                                             *)

(* Open the stream and send the header (sendInfo).                         *)
CopyCall(c) ==
  /\ cpc[c] = "idle"
  /\ copt[c] # None
  /\ up' = [up EXCEPT ![c] = IF ~copt[c].header THEN <<>> ELSE
               <<[kind |-> "info", zip |-> copt[c].zip,
                  nonce |-> IF copt[c].pwd = None THEN None ELSE c]>>]
  /\ At(cpc, c, "read")
  /\ IF server = "up"
       THEN At(crpc, c, "open") /\ At(hpc, c, "recv")
       ELSE At(crpc, c, "broken") /\ UNCHANGED hpc
  /\ UNCHANGED <<copt, nread, zbuf, ebuf, held, upEnd, info, got>>

(* One turn of the loop: read a block, write it through the layers and add
   it to the digest.                                                       *)
CopyBlock(c) ==
  LET s == <<Fragment(c, copt[c].zip, <<c, nread[c] + 1>>)>>
  IN  /\ cpc[c] = "read"
      /\ nread[c] < copt[c].blocks
      /\ nread' = [nread EXCEPT ![c] = @ + 1]
      /\ IF copt[c].zip
           THEN /\ zbuf' = [zbuf EXCEPT ![c] = Kept(@, s)]
                /\ EncWrite(c, Passed(zbuf[c], s))
           ELSE UNCHANGED zbuf /\ EncWrite(c, s)
      /\ UNCHANGED <<copt, cpc, upEnd, crpc, receiveVars>>

(* The encoder's Close: it ends the frame, if it has started one.          *)
CloseEncoder(c) ==
  /\ cpc[c] = "read"
  /\ nread[c] = copt[c].blocks
  /\ EncWrite(c, IF zbuf[c] = <<>> THEN <<>>
                 ELSE Append(zbuf[c], Fragment(c, TRUE, ZipEnd)))
  /\ zbuf' = [zbuf EXCEPT ![c] = <<>>]
  /\ At(cpc, c, "seal")
  /\ UNCHANGED <<copt, nread, upEnd, crpc, receiveVars>>

(* The encrypter's Close: the last fragment is marked as such.             *)
CloseEncrypter(c) ==
  /\ cpc[c] = "seal"
  /\ GwWrite(c, IF copt[c].pwd = None THEN <<>>
                ELSE Append(ebuf[c], Fragment(c, copt[c].zip, SealEnd)))
  /\ ebuf' = [ebuf EXCEPT ![c] = <<>>]
  /\ At(cpc, c, "flush")
  /\ UNCHANGED <<copt, nread, zbuf, upEnd, crpc, receiveVars>>

(* gw.Flush and the first half of CloseAndRecv: the rest of the buffer, the
   checksum if there is one, the end of the stream.                        *)
CopyFlush(c) ==
  LET rest == [kind |-> "chunk", full |-> FALSE, data |-> held[c]]
      sum  == [kind |-> "sum", sum |-> Input(c, nread[c])]
  IN  /\ cpc[c] = "flush"
      /\ up' = [up EXCEPT ![c] = @ \o IF copt[c].sum THEN <<rest, sum>>
                                      ELSE <<rest>>]
      /\ held' = [held EXCEPT ![c] = <<>>]
      /\ upEnd' = [upEnd EXCEPT ![c] = TRUE]
      /\ At(cpc, c, "reply")
      /\ UNCHANGED <<copt, nread, zbuf, ebuf, crpc, receiveVars>>

(* CloseAndRecv returns the server's answer.                               *)
CopyReply(c) ==
  /\ cpc[c] = "reply"
  /\ crpc[c] = "ok"
  /\ At(cpc, c, "ok")
  /\ UNCHANGED <<copt, nread, zbuf, ebuf, held, upEnd, up, crpc, receiveVars>>

Active(pc, c) == pc[c] \notin {"idle", "ok", "failed"}

(* Mutant of CopyFail: only the client's own context is looked at.         *)
CopyFailBroken(c) ==
  /\ Active(cpc, c)
  /\ crpc[c] = "broken"
  /\ At(cpc, c, "failed")
  /\ UNCHANGED <<copt, nread, zbuf, ebuf, held, upEnd, up, crpc, receiveVars>>

(* A Send or the final Recv reports that the RPC has failed.               *)
CopyFail(c) ==
  /\ Active(cpc, c)
  /\ crpc[c] \in {"broken", "error"}
  /\ At(cpc, c, "failed")
  /\ UNCHANGED <<copt, nread, zbuf, ebuf, held, upEnd, up, crpc, receiveVars>>

(* The input or the password cannot be read, or the user interrupts: the
   command returns and its context is cancelled.                           *)
CopyAbort(c) ==
  /\ Active(cpc, c)
  /\ At(cpc, c, "failed")
  /\ At(crpc, c, "broken")
  /\ UNCHANGED <<copt, nread, zbuf, ebuf, held, upEnd, up, receiveVars>>

CopyRuns(c) ==
  \/ CopyBlock(c) \/ CloseEncoder(c) \/ CloseEncrypter(c) \/ CopyFlush(c)
  \/ CopyReply(c) \/ CopyFail(c)

ClientCopy(c) ==
  /\ CopyCall(c) \/ CopyRuns(c) \/ CopyAbort(c)
  /\ UNCHANGED <<clipVars, pasteVars, down, prpc, sendVars, server>>

-----------------------------------------------------------------------------
(* The server's Copy handler                                               *)

(* The handler returns: the RPC gets its status unless it is broken.       *)
Return(rpc, c, code) ==
  rpc' = [rpc EXCEPT ![c] = IF @ = "open" THEN code ELSE @]

(* The first Recv yields the header.                                       *)
HandleInfo(c) ==
  /\ hpc[c] = "recv"
  /\ up[c] # <<>> /\ Head(up[c]).kind = "info"
  /\ info' = [info EXCEPT ![c] = Head(up[c])]
  /\ up' = [up EXCEPT ![c] = Tail(@)]
  /\ At(hpc, c, "write")
  /\ UNCHANGED <<got, crpc, clipVars>>

(* grpc-go refuses a message above the limit given to NewServer.           *)
TooLarge(c, m) == m.kind = "chunk" /\ m.full /\ copt[c].over

(* WriteBatch reads a chunk (Next).                                        *)
HandleChunk(c) ==
  /\ hpc[c] = "write"
  /\ up[c] # <<>> /\ Head(up[c]).kind = "chunk"
  /\ ~TooLarge(c, Head(up[c]))
  /\ got' = [got EXCEPT ![c] = @ \o Head(up[c]).data]
  /\ up' = [up EXCEPT ![c] = Tail(@)]
  /\ UNCHANGED <<hpc, info, crpc, clipVars>>

(* Mutant of NextEof: any end of the stream counts.                        *)
NextEofAny(c) ==
  \/ up[c] # <<>> /\ Head(up[c]).kind = "sum"
  \/ up[c] = <<>> /\ (upEnd[c] \/ crpc[c] = "broken")

(* Next reports io.EOF: at the checksum, or when the client has closed its
   side.                                                                   *)
NextEof(c) ==
  \/ up[c] # <<>> /\ Head(up[c]).kind = "sum"
  \/ up[c] = <<>> /\ upEnd[c]

(* WriteBatch then replaces the clipboard, and the handler answers.        *)
HandlePublish(c) ==
  LET new == [by |-> c, zip |-> info[c].zip, nonce |-> info[c].nonce,
              data |-> got[c],
              sum |-> IF up[c] = <<>> THEN None ELSE Head(up[c]).sum]
  IN  /\ hpc[c] = "write"
      /\ NextEof(c)
      /\ clip' = new
      /\ published' = published \union {new}
      /\ At(hpc, c, "done")
      /\ Return(crpc, c, "ok")
      /\ UNCHANGED <<up, info, got>>

(* Mutant of HandleError: the error is logged and not returned.            *)
HandleErrorLogged(c) ==
  /\ hpc[c] \in {"recv", "write"}
  /\ \/ crpc[c] = "broken"
     \/ up[c] # <<>> /\ TooLarge(c, Head(up[c]))
  /\ At(hpc, c, "done")
  /\ Return(crpc, c, "ok")
  /\ UNCHANGED <<up, info, got, clipVars>>

(* Recv reports an error.                                                  *)
HandleError(c) ==
  /\ hpc[c] \in {"recv", "write"}
  /\ \/ crpc[c] = "broken"
     \/ up[c] # <<>> /\ TooLarge(c, Head(up[c]))
  /\ At(hpc, c, "done")
  /\ Return(crpc, c, "error")
  /\ UNCHANGED <<up, info, got, clipVars>>

(* A database operation of WriteBatch fails.                               *)
HandleDbError(c) ==
  /\ hpc[c] = "write"
  /\ At(hpc, c, "done")
  /\ Return(crpc, c, "error")
  /\ UNCHANGED <<up, info, got, clipVars>>

HandlerRuns(c) ==
  HandleInfo(c) \/ HandleChunk(c) \/ HandlePublish(c) \/ HandleError(c)

ServeCopy(c) ==
  /\ HandlerRuns(c) \/ HandleDbError(c)
  /\ UNCHANGED <<copyVars, pasteVars, down, prpc, sendVars, server>>

(* The stream begins with something other than a header: the handler calls
   Error on the nil err, and the panic ends the server process.            *)
HandlePanic(c) ==
  /\ hpc[c] = "recv"
  /\ up[c] # <<>> /\ Head(up[c]).kind # "info"
  /\ ~TooLarge(c, Head(up[c]))
  /\ server' = "panicked"
  /\ hpc' = [d \in Copies |-> IF hpc[d] = "idle" THEN "idle" ELSE "done"]
  /\ spc' = [p \in Pastes |-> IF spc[p] = "idle" THEN "idle" ELSE "done"]
  /\ crpc' = [d \in Copies |-> IF crpc[d] = "open" THEN "broken" ELSE crpc[d]]
  /\ prpc' = [p \in Pastes |-> IF prpc[p] = "open" THEN "broken" ELSE prpc[p]]
  /\ UNCHANGED <<copyVars, up, info, got, clipVars, pasteVars, down, sclip, pos>>

-----------------------------------------------------------------------------
(* The server's Paste handler                                              *)

Post(p, s) == down' = [down EXCEPT ![p] = @ \o s]

(* The transfer rate is above the limit, or there is nothing to paste: an
   error message, and the RPC succeeds.                                    *)
PasteRefuse(p) ==
  /\ spc[p] = "open"
  /\ popt[p].over \/ clip = None
  /\ Post(p, <<[kind |-> "error"]>>)
  /\ At(spc, p, "done")
  /\ Return(prpc, p, "ok")
  /\ UNCHANGED <<sclip, pos>>

(* ReadBatch opens its snapshot and sends the header.                      *)
PasteHeader(p) ==
  /\ spc[p] = "open"
  /\ ~popt[p].over /\ clip # None
  /\ sclip' = [sclip EXCEPT ![p] = clip]
  /\ Post(p, <<[kind |-> "info", zip |-> clip.zip, nonce |-> clip.nonce,
                hasSum |-> clip.sum # None]>>)
  /\ At(spc, p, "send")
  /\ UNCHANGED <<pos, prpc>>

PasteChunk(p) ==
  /\ spc[p] = "send"
  /\ pos[p] < Len(sclip[p].data)
  /\ pos' = [pos EXCEPT ![p] = @ + 1]
  /\ Post(p, <<[kind |-> "chunk", data |-> <<sclip[p].data[pos[p] + 1]>>]>>)
  /\ UNCHANGED <<spc, sclip, prpc>>

(* sw.Flush: what the buffer holds, the checksum if there is one.          *)
PasteFlush(p) ==
  /\ spc[p] = "send"
  /\ pos[p] = Len(sclip[p].data)
  /\ Post(p, <<[kind |-> "chunk", data |-> <<>>]>> \o
             IF sclip[p].sum = None THEN <<>>
             ELSE <<[kind |-> "sum", sum |-> sclip[p].sum]>>)
  /\ At(spc, p, "done")
  /\ Return(prpc, p, "ok")
  /\ UNCHANGED <<sclip, pos>>

(* A Send fails, or a database operation of ReadBatch does.                *)
PasteHandleError(p) ==
  /\ spc[p] \in {"open", "send"}
  /\ At(spc, p, "done")
  /\ Return(prpc, p, "error")
  /\ UNCHANGED <<down, sclip, pos>>

ServePaste(p) ==
  /\ \/ PasteRefuse(p) \/ PasteHeader(p) \/ PasteChunk(p) \/ PasteFlush(p)
     \/ PasteHandleError(p)
  /\ UNCHANGED <<copyVars, up, crpc, receiveVars, clipVars, pasteVars, server>>

-----------------------------------------------------------------------------
(* Client.Paste                                                            *)

PasteCall(p) ==
  /\ ppc[p] = "idle"
  /\ \E o \in PasteOpts : popt' = [popt EXCEPT ![p] = o]
  /\ At(ppc, p, "header")
  /\ IF server = "up"
       THEN At(prpc, p, "open") /\ At(spc, p, "open")
       ELSE At(prpc, p, "broken") /\ UNCHANGED spc
  /\ UNCHANGED <<pinfo, decoded, down>>

(* The first Recv: a header, or an error message.                          *)
PasteFirst(p) ==
  /\ ppc[p] = "header"
  /\ down[p] # <<>>
  /\ down' = [down EXCEPT ![p] = Tail(@)]
  /\ IF Head(down[p]).kind = "info"
       THEN /\ pinfo' = [pinfo EXCEPT ![p] = Head(down[p])]
            /\ At(ppc, p, "read")
       ELSE UNCHANGED pinfo /\ At(ppc, p, "failed")
  /\ UNCHANGED <<popt, decoded, prpc, spc>>

(* The key the client derives: none when the header has no nonces.         *)
PasteKey(p) ==
  IF pinfo[p].nonce = None THEN None ELSE Key(popt[p].pwd, pinfo[p].nonce)

(* Decrypting with another key would yield noise ...                       *)
Decode(p, f) == IF f.key = PasteKey(p) THEN f.of ELSE Noise

(* Mutant of Authentic: the fragments are not verified.                    *)
AuthenticAlways(p, s) == TRUE

(* ... which the authenticated cipher detects before it passes data on.    *)
Authentic(p, s) == \A i \in DOMAIN s : s[i].key = PasteKey(p)

(* r.Read returns data, which is hashed and written to the output.         *)
PasteRead(p) ==
  /\ ppc[p] = "read"
  /\ down[p] # <<>> /\ Head(down[p]).kind = "chunk"
  /\ LET s == Head(down[p]).data
     IN  /\ Authentic(p, s)
         /\ decoded' = [decoded EXCEPT ![p] =
                          @ \o [i \in DOMAIN s |-> Decode(p, s[i])]]
  /\ down' = [down EXCEPT ![p] = Tail(@)]
  /\ UNCHANGED <<popt, ppc, pinfo, prpc, spc>>

(* Mutant of PasteEof: a failed RPC ends the stream as well.               *)
PasteEofAny(p) ==
  \/ down[p] # <<>> /\ Head(down[p]).kind = "sum"
  \/ down[p] = <<>> /\ prpc[p] \in {"ok", "error"}

(* Next reports io.EOF: at the checksum, or when the RPC has succeeded.    *)
PasteEof(p) ==
  \/ down[p] # <<>> /\ Head(down[p]).kind = "sum"
  \/ down[p] = <<>> /\ prpc[p] = "ok"

IsMark(x) == x \in {ZipEnd, SealEnd}

(* The blocks of s, in their order, without the marks.                     *)
Unmarked(s) ==
  LET kept == {i \in DOMAIN s : ~IsMark(s[i])}
  IN  [j \in 1..Cardinality(kept) |->
         s[CHOOSE i \in kept : Cardinality({k \in kept : k <= i}) = j]]

(* What the client has written to its output so far.                       *)
Output(p) == Unmarked(decoded[p])

(* The decrypter and the decoder accept the end only after their marks.    *)
Complete(p) ==
  /\ pinfo[p].nonce # None =>
       decoded[p] # <<>> /\ Last(decoded[p]) = SealEnd
  /\ pinfo[p].zip =>
       Output(p) = <<>> \/ \E i \in DOMAIN decoded[p] : decoded[p][i] = ZipEnd

(* The end of the stream: the checksum, when the header announced one, must
   be there and match what has been written.                               *)
PasteVerify(p) ==
  LET sum == IF down[p] = <<>> THEN None ELSE Head(down[p]).sum
  IN  /\ ppc[p] = "read"
      /\ PasteEof(p)
      /\ At(ppc, p, IF Complete(p) /\ (pinfo[p].hasSum => sum = Output(p))
                      THEN "ok" ELSE "failed")
      /\ UNCHANGED <<popt, pinfo, decoded, down, prpc, spc>>

(* Recv reports that the RPC has failed, or the data are not authentic.    *)
PasteFail(p) ==
  /\ Active(ppc, p)
  /\ \/ prpc[p] = "broken"
     \/ prpc[p] = "error" /\ down[p] = <<>>
     \/ /\ ppc[p] = "read"
        /\ down[p] # <<>> /\ Head(down[p]).kind = "chunk"
        /\ ~Authentic(p, Head(down[p]).data)
  /\ At(ppc, p, "failed")
  /\ Return(prpc, p, "broken")
  /\ UNCHANGED <<popt, pinfo, decoded, down, spc>>

(* The password cannot be read, the output cannot be written or the user
   interrupts.                                                             *)
PasteAbort(p) ==
  /\ Active(ppc, p)
  /\ At(ppc, p, "failed")
  /\ Return(prpc, p, "broken")
  /\ UNCHANGED <<popt, pinfo, decoded, down, spc>>

PasteRuns(p) == PasteFirst(p) \/ PasteRead(p) \/ PasteVerify(p) \/ PasteFail(p)

ClientPaste(p) ==
  /\ PasteCall(p) \/ PasteRuns(p) \/ PasteAbort(p)
  /\ UNCHANGED <<copyVars, up, crpc, receiveVars, clipVars, sclip, pos, server>>

-----------------------------------------------------------------------------
(* The Clear handler (DropAll waits for WriteBatch and ReadBatch) and the
   expiry of the content.                                                  *)
Clear ==
  /\ server = "up"
  /\ \A c \in Copies : hpc[c] # "write"
  /\ \A p \in Pastes : spc[p] # "send"
  /\ clip # None
  /\ clip' = None
  /\ UNCHANGED <<copyVars, up, crpc, receiveVars, published, pasteVars, down,
                 prpc, sendVars, server>>

Expire ==
  /\ clip # None
  /\ clip' = None
  /\ UNCHANGED <<copyVars, up, crpc, receiveVars, published, pasteVars, down,
                 prpc, sendVars, server>>

(* A deadline passes or the connection is lost while the client waits; data
   and answers in flight may be lost with it.                              *)
Break ==
  /\ \/ \E c \in Copies : /\ Active(cpc, c)
                           /\ crpc[c] # "broken"
                           /\ At(crpc, c, "broken")
                           /\ UNCHANGED prpc
     \/ \E p \in Pastes : /\ Active(ppc, p)
                           /\ prpc[p] # "broken"
                           /\ At(prpc, p, "broken")
                           /\ UNCHANGED crpc
  /\ UNCHANGED <<copyVars, up, receiveVars, clipVars, pasteVars, down,
                 sendVars, server>>

Init ==
  /\ copt \in CopyOpts
  /\ cpc = [c \in Copies |-> "idle"]
  /\ nread = [c \in Copies |-> 0]
  /\ zbuf = [c \in Copies |-> <<>>]
  /\ ebuf = [c \in Copies |-> <<>>]
  /\ held = [c \in Copies |-> <<>>]
  /\ up = [c \in Copies |-> <<>>]
  /\ upEnd = [c \in Copies |-> FALSE]
  /\ crpc = [c \in Copies |-> "none"]
  /\ hpc = [c \in Copies |-> "idle"]
  /\ info = [c \in Copies |-> None]
  /\ got = [c \in Copies |-> <<>>]
  /\ clip = None
  /\ published = {}
  /\ popt = [p \in Pastes |-> None]
  /\ ppc = [p \in Pastes |-> "idle"]
  /\ pinfo = [p \in Pastes |-> None]
  /\ decoded = [p \in Pastes |-> <<>>]
  /\ down = [p \in Pastes |-> <<>>]
  /\ prpc = [p \in Pastes |-> "none"]
  /\ spc = [p \in Pastes |-> "idle"]
  /\ sclip = [p \in Pastes |-> None]
  /\ pos = [p \in Pastes |-> 0]
  /\ server = "up"

Next ==
  \/ \E c \in Copies : ClientCopy(c) \/ ServeCopy(c) \/ HandlePanic(c)
  \/ \E p \in Pastes : ClientPaste(p) \/ ServePaste(p)
  \/ Clear \/ Expire \/ Break

Spec == Init /\ [][Next]_vars

(* Clients keep reading their input and writing their output, and the
   goroutines of the handlers run.  Nothing is assumed of the user's patience,
   of deadlines or of database errors: nobody waits for one of them.       *)
FairSpec ==
  /\ Spec
  /\ \A c \in Copies : /\ WF_vars(ClientCopy(c) /\ CopyRuns(c))
                       /\ WF_vars(ServeCopy(c) /\ HandlerRuns(c))
                       /\ WF_vars(HandlePanic(c))
  /\ \A p \in Pastes : /\ WF_vars(ClientPaste(p) /\ PasteRuns(p))
                       /\ WF_vars(ServePaste(p))

-----------------------------------------------------------------------------
(* Properties                                                              *)

(* What a content decodes to with the right password, and its user's input. *)
Blocks(x) == Unmarked([i \in DOMAIN x.data |-> x.data[i].of])
Original(c) == Input(c, copt[c].blocks)

(* A copy is published whole or not at all: whatever the moment at which its
   client dies or its stream breaks, what WriteBatch stores is the complete
   input, with the end marks its decoders will ask for and no other digest
   than its own.                                                           *)
PublishedWhole ==
  \A x \in published :
    /\ Blocks(x) = Original(x.by)
    /\ x.sum \in {None, Original(x.by)}
    /\ x.nonce # None => x.data # <<>> /\ Last(x.data).of = SealEnd

(* "Successfully copied data to web clipboard!" is the truth: when
   Client.Copy returns without an error its whole input has been published,
   with the checksum and the encryption that were asked for.               *)
CopyAcked ==
  \A c \in Copies : cpc[c] = "ok" =>
    \E x \in published :
      /\ x.by = c
      /\ Blocks(x) = Original(c)
      /\ copt[c].sum => x.sum = Original(c)
      /\ \A i \in DOMAIN x.data : x.data[i].key = Key(copt[c].pwd, c)

(* "All data has been copied from remote clipboard": a paste that returns
   without an error has written all of one user's input and nothing else,
   and only with that user's password.                                     *)
PasteAcked ==
  \A p \in Pastes : ppc[p] = "ok" =>
    \E c \in Copies : /\ cpc[c] # "idle"
                      /\ Output(p) = Original(c)
                      /\ copt[c].pwd \in {None, popt[p].pwd}

(* Paste writes to its output before it has seen the end and the checksum,
   and what it writes stays when it fails: even then it is a beginning of
   one user's input.                                                       *)
OutputSane ==
  \A p \in Pastes : Output(p) # <<>> =>
    \E c \in Copies : cpc[c] # "idle" /\ IsPrefix(Output(p), Original(c))

(* Every call ends at both ends, however the other one ends: no handler goes
   on holding the store's read lock for a client that is gone.             *)
CallsEnd ==
  /\ \A c \in Copies :
       Active(cpc, c) ~> (~Active(cpc, c) /\ hpc[c] \in {"idle", "done"})
  /\ \A p \in Pastes :
       Active(ppc, p) ~> (~Active(ppc, p) /\ spc[p] \in {"idle", "done"})

(* A stream without a header is answered with the "protocol error: expected
   an info header but get a chunk stream" of the Copy handler; the server
   goes on serving.                                                        *)
ServerStaysUp == server = "up"
=============================================================================
