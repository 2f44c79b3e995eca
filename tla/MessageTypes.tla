------------------------------ MODULE MessageTypes ------------------------------
(***************************************************************************)
(* The declarations and the values of contract messages                     *)
(* (packages/types/src/contract.ts): field descriptors, and payloads whose   *)
(* fields are in the order of their declaration.                              *)
(***************************************************************************)

Absent   == [t |-> "absent"]
Bad      == [t |-> "bad"]
Arr(s)   == [t |-> "arr", e |-> s]
Map(s)   == [t |-> "map", e |-> s]
Msg(s)   == [t |-> "msg", e |-> s]
Case(n)  == [t |-> "case", n |-> n]

\* Field descriptors.
Scalar(kind)   == [kind |-> kind]
Fixed(n)       == [kind |-> "fixed", decimals |-> n]
Enum(size)     == [kind |-> "enum", size |-> size]
ArrayOf(f)     == [kind |-> "array", of |-> f]
MapOf(f)       == [kind |-> "map", of |-> f]
Optional(f)    == [kind |-> "optional", of |-> f]
Nested(def)    == [kind |-> "nested", def |-> def]
=============================================================================
