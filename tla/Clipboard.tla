----------------------------- MODULE Clipboard ------------------------------
(***************************************************************************)
(* What the store promises its users: a clipboard that holds at most one   *)
(* content.  A copy replaces the content at one instant, as a whole, at    *)
(* most once, or fails without a trace; a paste that succeeds delivers the *)
(* content the clipboard had at one instant; the content is lost only when *)
(* it expires or is cleared.                                               *)
(***************************************************************************)
EXTENDS Naturals

CONSTANTS
  Copies, Pastes,   (* The requests.                                       *)
  NoKey,            (* No content.                                         *)
  MaxBlocks         (* Bound: blocks in a copied stream.                   *)

VARIABLES
  board,        (* The content, or NoKey.                                  *)
  open,         (* Copies that may still take effect.                      *)
  taken,        (* The content a running paste is to deliver, or NoKey.    *)
  delivered     (* The content a successful paste delivered, or NoKey.     *)

abstractVars == <<board, open, taken, delivered>>

(* The stream of n blocks that copy c sent: its blocks, each with the numbers
   of those before it.                                                     *)
Payload(c, n) == {<<c, i, 1..(i - 1)>> : i \in 1..n}

Init ==
  /\ board = NoKey
  /\ open = Copies
  /\ taken = [p \in Pastes |-> NoKey]
  /\ delivered = [p \in Pastes |-> NoKey]

Publish(c) ==
  /\ c \in open
  /\ open' = open \ {c}
  /\ \E n \in 0..MaxBlocks : board' = Payload(c, n)
  /\ UNCHANGED <<taken, delivered>>

Abort ==
  /\ open' \in SUBSET open
  /\ UNCHANGED <<board, taken, delivered>>

Lose ==
  /\ board' = NoKey
  /\ UNCHANGED <<open, taken, delivered>>

Take(p) ==
  /\ board # NoKey
  /\ taken[p] = NoKey
  /\ taken' = [taken EXCEPT ![p] = board]
  /\ UNCHANGED <<board, open, delivered>>

Deliver(p) ==
  /\ taken[p] # NoKey
  /\ delivered[p] = NoKey
  /\ delivered' = [delivered EXCEPT ![p] = taken[p]]
  /\ UNCHANGED <<board, open, taken>>

Next ==
  \/ Abort
  \/ \E c \in Copies : Publish(c)
  \/ Lose
  \/ \E p \in Pastes : Take(p) \/ Deliver(p)

Spec == Init /\ [][Next]_abstractVars
=============================================================================
