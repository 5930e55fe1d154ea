------------------------------ MODULE Typegen -------------------------------
(***************************************************************************)
(* The generator of event types from a Prisma schema: comments stripped,   *)
(* blocks found by counting braces outside strings, fields read line by    *)
(* line and typed as the pgoutput decoder delivers their columns.          *)
(*   packages/typegen-prisma/src/index.ts                                  *)
(*                                                                         *)
(* A schema is a sequence of blocks, its text a sequence of lines and a    *)
(* line a sequence of words. Two things the parser gets wrong are not      *)
(* declared here: a string with `//` in it, which is cut off as a comment, *)
(* and an optional Unsupported(..) column, whose `?` is not seen.          *)
(***************************************************************************)
EXTENDS Integers, Sequences, FiniteSets, FiniteSetsExt, SequencesExt

CONSTANTS
    Declared,      \* the fields a model may have: [name, type, list, optional, column, default, comment]
    EnumNames, ModelNames,
    MaxBlocks,     \* bound: models and enums of the schema
    MaxLines       \* bound: fields of models and values of enums

VARIABLE schema    \* sequence of [kind, name, table, fields]

Quote == "quote"
EscapedQuote == "escaped quote"
Syntax == {Quote, "{", "}", "//", "[]", "?", "@map(", "@@map(", "@default(", ")"}

SCALARS ==
    [String |-> "string", Boolean |-> "boolean", Int |-> "number", Float |-> "number", BigInt |-> "string",
     Decimal |-> "string", DateTime |-> "string", Json |-> "JsonValue", Bytes |-> "string"]

(* The words of a name or of a string are not those of the grammar, braces *)
(* and slashes in a string apart; no enum has the name of a scalar, which  *)
(* Prisma reserves, or that of a model.                                    *)
ASSUME TypegenAssumption ==
    /\ EnumNames \cup ModelNames \subseteq STRING /\ (EnumNames \cup ModelNames) \cap Syntax = {}
    /\ EnumNames \cap (ModelNames \cup DOMAIN SCALARS) = {}
    /\ Declared \subseteq [name : STRING, type : STRING, list : BOOLEAN, optional : BOOLEAN, column : STRING,
                           default : Seq(STRING), comment : BOOLEAN]
    /\ \A f \in Declared : {f.name, f.type, f.column} \cap Syntax = {}
                          /\ \A i \in DOMAIN f.default : f.default[i] \notin Syntax \ {"{", "}", "//"}
    /\ {MaxBlocks, MaxLines} \subseteq Nat

-----------------------------------------------------------------------------
(* The text of a schema, as Prisma reads it (external). *)
InQuotes(words) == <<Quote>> \o words \o <<Quote, ")">>
Renamed(tag, name, column) == IF name = column THEN <<>> ELSE <<tag>> \o InQuotes(<<column>>)
FieldText(f) ==
    <<f.name, f.type>> \o (IF f.list THEN <<"[]">> ELSE <<>>) \o (IF f.optional THEN <<"?">> ELSE <<>>)
    \o Renamed("@map(", f.name, f.column)
    \o (IF f.default = <<>> THEN <<>> ELSE <<"@default(">> \o InQuotes(f.default))
    \o (IF f.comment THEN <<"//", "}", Quote>> ELSE <<>>)
ValueText(v) == <<v.name>> \o Renamed("@map(", v.name, v.column)
BlockText(b) ==
    << <<b.kind, b.name, "{">> >>
    \o [i \in DOMAIN b.fields |-> IF b.kind = "enum" THEN ValueText(b.fields[i]) ELSE FieldText(b.fields[i])]
    \o << Renamed("@@map(", b.name, b.table), <<"}">> >>
Text == FlattenSeq([i \in DOMAIN schema |-> BlockText(schema[i])])

-----------------------------------------------------------------------------
(* parsePrismaSchema() *)

(* source.replace(/\/\/.*$/gm, ''): also within a string. *)
Stripped(line) == SubSeq(line, 1, Min({i \in DOMAIN line : line[i] = "//"} \cup {Len(line) + 1}) - 1)

MDeeper(scan, word) ==
    CASE word = "{" -> [scan EXCEPT !.depth = @ + 1]
      [] word = "}" -> [scan EXCEPT !.depth = @ - 1]
      [] OTHER -> scan

(* extractBlocks(): a block ends at the brace that closes it, braces in    *)
(* strings apart; an escaped quote ends no string. depth is 0 between two  *)
(* blocks.                                                                 *)
Deeper(scan, word) ==
    CASE word = Quote -> [scan EXCEPT !.inString = ~@]
      [] word = "{" /\ ~scan.inString -> [scan EXCEPT !.depth = @ + 1]
      [] word = "}" /\ ~scan.inString -> [scan EXCEPT !.depth = @ - 1]
      [] OTHER -> scan
Scan(line, from) ==
    LET scan[n \in 0..Len(line)] == IF n = 0 THEN from ELSE Deeper(scan[n - 1], line[n]) IN scan

Scanning(depth) == [depth |-> depth, inString |-> FALSE]
Opens(line, keyword) == Len(line) >= 3 /\ line[1] = keyword /\ line[3] = "{"

(* A line of an open block: the rest of the one that closes it is skipped. *)
Within(scan, name, body, found, line) ==
    LET scanned == Scan(line, scan)
        closing == {n \in DOMAIN line : scanned[n].depth = 0}
        Taken(words) == [name |-> name, body |-> Append(body, words)]
    IN IF closing = {} THEN [scan |-> scanned[Len(line)], block |-> Taken(line), found |-> found]
       ELSE LET block == Taken(SubSeq(line, 1, Min(closing) - 1))
            IN [scan |-> Scanning(0), block |-> block, found |-> Append(found, block)]
LineRead(at, line, keyword) ==
    IF at.scan.depth # 0 THEN Within(at.scan, at.block.name, at.block.body, at.found, line)
    ELSE IF Opens(line, keyword) THEN Within(Scanning(1), line[2], <<>>, at.found, SubSeq(line, 4, Len(line)))
    ELSE at
ExtractBlocks(text, keyword) ==
    LET read[n \in 0..Len(text)] ==
            IF n = 0 THEN [scan |-> Scanning(0), block |-> <<>>, found |-> <<>>]
            ELSE LineRead(read[n - 1], text[n], keyword)
        end == read[Len(text)]
    IN IF end.scan.depth = 0 THEN end.found ELSE Append(end.found, end.block)

(* The name in @map("..."), or the one before it. *)
MappedName(words, tag, name) ==
    LET tags == {i \in DOMAIN words : words[i] = tag} IN IF tags = {} THEN name ELSE words[Min(tags) + 2]

(* Of a line that is passed over nothing is pushed. *)
EnumValue(line) == IF line = <<>> \/ line[1] = "@@map(" THEN <<>> ELSE <<MappedName(line, "@map(", line[1])>>
ParseEnum(block) ==
    [name |-> block.name, values |-> FlattenSeq([i \in DOMAIN block.body |-> EnumValue(block.body[i])])]

TsType(line, enums) ==
    IF Len(line) >= 3 /\ line[3] = "[]" THEN "string"     \* an array literal
    ELSE IF line[2] \in enums THEN line[2]
    ELSE IF line[2] \in DOMAIN SCALARS THEN SCALARS[line[2]] ELSE "string"

(* A field whose type is a model is a relation, not a column. *)
ParseField(line, enums, models) ==
    IF Len(line) < 2 \/ line[1] = "@@map(" \/ line[2] \in models THEN <<>>
    ELSE <<[column |-> MappedName(line, "@map(", line[1]),
            tsType |-> TsType(line, enums),
            optional |-> Len(line) >= 3 /\ (line[3] = "?" \/ (line[3] = "[]" /\ Len(line) >= 4 /\ line[4] = "?"))]>>

ParseModel(block, enums, models) ==
    LET tagged == {i \in DOMAIN block.body : \E k \in DOMAIN block.body[i] : block.body[i][k] = "@@map("}
    IN [table |-> IF tagged = {} THEN block.name ELSE MappedName(block.body[Min(tagged)], "@@map(", block.name),
        model |-> block.name,
        fields |-> FlattenSeq([i \in DOMAIN block.body |-> ParseField(block.body[i], enums, models)])]

Parsed ==
    LET text == [i \in DOMAIN Text |-> Stripped(Text[i])]
        enumBlocks == ExtractBlocks(text, "enum")
        modelBlocks == ExtractBlocks(text, "model")
        Names(blocks) == {blocks[i].name : i \in DOMAIN blocks}
    IN [enums |-> [i \in DOMAIN enumBlocks |-> ParseEnum(enumBlocks[i])],
        models |-> [i \in DOMAIN modelBlocks |-> ParseModel(modelBlocks[i], Names(enumBlocks), Names(modelBlocks))]]

-----------------------------------------------------------------------------
(* What is declared, and what the decoder hands out for it (decodeText). *)

PostgresType == [Boolean |-> "bool", Int |-> "int4", Float |-> "float8", Json |-> "jsonb"]
DeliveredAs(f) ==
    LET type == IF ~f.list /\ f.type \in DOMAIN PostgresType THEN PostgresType[f.type] ELSE "other"
    IN CASE type = "bool" -> "boolean" [] type \in {"int4", "float8"} -> "number" [] type = "jsonb" -> "JsonValue"
         [] OTHER -> IF f.type \in EnumNames /\ ~f.list THEN f.type ELSE "string"

NamesOf(kind) == {schema[i].name : i \in {k \in DOMAIN schema : schema[k].kind = kind}}
Columns(b) ==
    FlattenSeq([i \in DOMAIN b.fields |->
        LET f == b.fields[i]
        IN IF f.type \in NamesOf("model") THEN <<>>
           ELSE <<[column |-> f.column, tsType |-> DeliveredAs(f), optional |-> f.optional]>>])
Interfaces ==
    FlattenSeq([i \in DOMAIN schema |->
        LET b == schema[i]
        IN IF b.kind = "model" THEN <<[table |-> b.table, model |-> b.name, fields |-> Columns(b)]>> ELSE <<>>])
Enums ==
    FlattenSeq([i \in DOMAIN schema |->
        LET b == schema[i]
        IN IF b.kind = "enum"
           THEN <<[name |-> b.name, values |-> [k \in DOMAIN b.fields |-> b.fields[k].column]]>> ELSE <<>>])

DeclareBlock ==
    /\ Len(schema) < MaxBlocks
    /\ \E kind \in {"enum", "model"}, mapped \in BOOLEAN :
        \E name \in (IF kind = "enum" THEN EnumNames ELSE ModelNames) \ NamesOf(kind) :
            schema' = Append(schema, [kind |-> kind, name |-> name, table |-> IF mapped THEN "mapped" ELSE name,
                                      fields |-> <<>>])

DeclareField ==
    /\ schema # <<>>
    /\ LET last == Len(schema) IN
       /\ Len(FlattenSeq([i \in DOMAIN schema |-> schema[i].fields])) < MaxLines
       /\ \E f \in Declared :
            /\ \A i \in DOMAIN schema[last].fields : schema[last].fields[i].name # f.name
            /\ schema' = [schema EXCEPT ![last].fields = Append(@, f)]

TypegenInit == schema = <<>>

TypegenNext == DeclareBlock \/ DeclareField

TypegenSpec == TypegenInit /\ [][TypegenNext]_schema

-----------------------------------------------------------------------------
(* Every model has its interface, in order, with exactly the columns of    *)
(* its table under their database names, each typed as the decoder         *)
(* delivers it and nullable when it is; every enum has its database        *)
(* values. Neither a brace in a default, nor a comment, nor a relation     *)
(* drops a field that follows (parsePrismaSchema). Two slashes in a        *)
(* default do.                                                             *)
TypesAreHonest ==
    LET types == DOMAIN SCALARS \cup NamesOf("enum") \cup NamesOf("model")
        wellTyped == \A i \in DOMAIN schema : schema[i].kind = "model" =>
                         \A k \in DOMAIN schema[i].fields : schema[i].fields[k].type \in types
    IN wellTyped => Parsed.models = Interfaces /\ Parsed.enums = Enums
=============================================================================
