------------------------------ MODULE MCTypegen ------------------------------
(***************************************************************************)
(* Fields of schemas for TLC.                                              *)
(***************************************************************************)
EXTENDS Typegen

(* Fields with what may go wrong in a line: a brace in a comment or in a   *)
(* default, an escaped quote, a renamed column, lists, enums, relations.   *)
Field(name, type) == [name |-> name, type |-> type, list |-> FALSE, optional |-> FALSE, column |-> name,
                      default |-> <<>>, comment |-> FALSE]
Fields6 ==
    {[Field("id", "Int") EXCEPT !.comment = TRUE],
     [Field("config", "Json") EXCEPT !.optional = TRUE, !.default = <<"{", EscapedQuote, "}">>],
     [Field("role", "Role") EXCEPT !.column = "user_role"],
     [Field("labels", "String") EXCEPT !.list = TRUE, !.default = <<"}">>],
     [Field("friends", "User") EXCEPT !.list = TRUE],
     [Field("total", "BigInt") EXCEPT !.default = <<"{">>]}
=============================================================================
