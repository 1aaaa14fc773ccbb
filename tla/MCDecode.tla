------------------------------ MODULE MCDecode ------------------------------
(* Instances of Decode for TLC: objects with and without data, Lists, the    *)
(* null document and one without a kind.                                     *)
EXTENDS Decode

Plain(k) == "kind" :> k
Data(v) == "data" :> v
Objects ==
  {Plain(k) : k \in {"Pod", "ConfigMap"}}
    \cup {Plain("ConfigMap") @@ Data(v) : v \in {"x", "y"}}
Lists == {Plain("List") @@ ("items" :> i) : i \in {<<>>} \cup {<<o>> : o \in Objects}}
SomeDocuments == Objects \cup Lists \cup {Null, Data("x")}
=============================================================================
