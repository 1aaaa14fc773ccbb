------------------------------- MODULE Decode -------------------------------
(***************************************************************************)
(* decodeObjects of pkg/resource/load/load.go: the documents of a YAML     *)
(* stream, one after the other, into the objects that load creates.  Every *)
(* document is decoded into the same map, which keeps the keys that the    *)
(* document does not have.                                                 *)
(*                                                                         *)
(* A document is a function from its top-level keys to their values, which *)
(* are replaced as a whole; the value of "items" is a sequence of objects. *)
(***************************************************************************)
EXTENDS Naturals, Sequences, TLC

CONSTANTS
  Documents,    \* what a document may be, the null document among them
  MaxDocuments  \* bound of the model: documents in the stream

Null == [k \in {} |-> "null"]

VARIABLES
  input,        \* the documents of the stream
  read,         \* how many of them have been decoded
  tmp,          \* the map
  out,          \* the objects so far
  err           \* decodeObjects returned an error

vars == <<input, read, tmp, out, err>>

Init ==
  /\ input \in UNION {[1..n -> Documents] : n \in 1..MaxDocuments}
  /\ read = 0 /\ tmp = Null /\ out = <<>> /\ err = FALSE

\* A document with items is a List, whatever its kind says.
Parts(doc) == IF "items" \in DOMAIN doc THEN doc["items"] ELSE <<doc>>

\* yaml.v2 puts the keys of a document over those that are in the map, and sets
\* the map to nil for a null document.
Merged == LET doc == input[read + 1] IN IF doc = Null THEN Null ELSE doc @@ tmp

\* UnmarshalJSON wants a kind.
DecodeNext ==
  /\ ~err /\ read < Len(input)
  /\ read' = read + 1
  /\ tmp' = Merged
  /\ IF "kind" \in DOMAIN tmp'
       THEN out' = out \o Parts(tmp') /\ UNCHANGED err
       ELSE err' = TRUE /\ UNCHANGED out
  /\ UNCHANGED input

Spec == Init /\ [][DecodeNext]_vars

-----------------------------------------------------------------------------
(* Properties *)

\* What the first n documents mean, each by itself.
Meaning ==
  LET m[n \in Nat] == IF n = 0 THEN <<>> ELSE m[n - 1] \o Parts(input[n])
  IN  m

\* Test_decodeObjects (load_test.go:111-185) wants of each document in a stream
\* the object that the document holds, and no more: here of streams all of whose
\* documents have a kind, as those of the test do.
OwnDocument ==
  (\A n \in 1..Len(input) : "kind" \in DOMAIN input[n]) => ~err /\ out = Meaning[read]
=============================================================================
