----------------------------- MODULE MCTransfer -----------------------------
EXTENDS Transfer

CONSTANTS c1, c2

CopyOptions(sums, overs, heads) ==
  [blocks : 0..2, sum : sums, zip : BOOLEAN, over : overs, header : heads,
   pwd : {None, "a"}]

(* One copy, with every combination of options; a message that is too large,
   and a header that is left out, end a copy with and without a checksum in
   the same way.                                                           *)
OneCopy ==
  { [c \in Copies |-> IF c = c1 THEN o ELSE None] : o \in
      CopyOptions(BOOLEAN, {FALSE}, {TRUE}) \union
      CopyOptions({FALSE}, {TRUE}, {TRUE}) \union
      CopyOptions({FALSE}, {FALSE}, {FALSE}) }

(* A long plain copy beside a short one that is encrypted and has a checksum,
   and beside one that leaves the header out.                              *)
Plain  == [blocks |-> 2, sum |-> FALSE, zip |-> FALSE, over |-> FALSE,
           header |-> TRUE, pwd |-> None]
Sealed == [Plain EXCEPT !.blocks = 1, !.sum = TRUE, !.pwd = "a"]
Bare   == [Plain EXCEPT !.blocks = 0, !.header = FALSE]
TwoCopies == { (c1 :> Plain) @@ (c2 :> o) : o \in {Sealed, Bare} }

AllCopyOpts == OneCopy \union TwoCopies

AllPasteOpts == [pwd : {"a", "b"}, over : {FALSE}] \union
                [pwd : {"a"}, over : {TRUE}]

(* A client that leaves the header out beside one that does not.           *)
HeadlessOpts == { (c1 :> Plain) @@ (c2 :> Bare) }
=============================================================================
