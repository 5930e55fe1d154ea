------------------------------ MODULE Pgoutput ------------------------------
(***************************************************************************)
(* The decoder of pgoutput frames: messages read field by field off a      *)
(* buffer, rows named and converted through the cache of Relation messages *)
(* of this connection, while tables are altered and sessions replaced.     *)
(*   packages/walcast/src/pgoutput/decoder.ts, pgoutput/messages.ts        *)
(*                                                                         *)
(* A frame is the sequence of its fields; a text is its length and then    *)
(* its bytes, each a field of its own. The server (external) sends the     *)
(* shape of a table before its first change in a session, and again once   *)
(* the table has been altered.                                             *)
(***************************************************************************)
EXTENDS Naturals, Sequences, TLC

CONSTANTS
    Tables,     \* relation OIDs
    Full,       \* those with REPLICA IDENTITY FULL
    Shapes,     \* sequences of columns [name, type]
    Texts       \* sequences of bytes

ASSUME PgoutputAssumption ==
    /\ Tables \subseteq Nat
    /\ \A shape \in Shapes :
        /\ shape \in Seq([name : STRING, type : STRING]) /\ Len(shape) > 0
        /\ \A i, j \in DOMAIN shape : shape[i].name = shape[j].name => i = j
    /\ \A text \in Texts : text \in Seq({text[i] : i \in DOMAIN text})

VARIABLES
    shapes,      \* the columns of each table, the first its key
    rows,        \* the row of each table, <<>> when it has none
    announced,   \* tables whose current shape was sent in this session
    relations,   \* the decoder's cache
    wire         \* frames sent and not decoded, each with the message it stands for

pgoutputVars == <<shapes, rows, announced, relations, wire>>

-----------------------------------------------------------------------------
(* Map.set, and a property of a row. *)
SetKey(map, key, value) == [k \in DOMAIN map \cup {key} |-> IF k = key THEN value ELSE map[k]]

(* Values of columns as the decoder hands them out. *)
Null == [as |-> "null"]
Toast == [as |-> "unchanged_toast"]

(* bool, integer, float and json texts become values of their own type. *)
Convert(text, type) == [as |-> IF type \in {"bool", "int", "float", "json"} THEN type ELSE "string",
                        text |-> text]

-----------------------------------------------------------------------------
(* Reader and decode. A read past the end of the buffer throws.            *)

Thrown == [tag |-> "error"]
Has(buf, off) == off \in 1..Len(buf)
MHasBytes(buf, off, n) == TRUE

(* subarray() returns what is left of a short buffer: bytes() checks. *)
HasBytes(buf, off, n) == off + n - 1 <= Len(buf)
Bytes(buf, off, n) == SubSeq(buf, off, IF off + n - 1 <= Len(buf) THEN off + n - 1 ELSE Len(buf))

(* One column of a tuple: the offset behind it, or 0 for an error, and its value. *)
Column(buf, off, type) ==
    IF ~Has(buf, off) THEN [off |-> 0]
    ELSE CASE buf[off] = "n" -> [off |-> off + 1, value |-> Null]
           [] buf[off] = "u" -> [off |-> off + 1, value |-> Toast]
           [] buf[off] = "t" /\ Has(buf, off + 1) /\ HasBytes(buf, off + 2, buf[off + 1]) ->
                [off |-> off + 2 + buf[off + 1],
                 value |-> Convert(Bytes(buf, off + 2, buf[off + 1]), type)]
           [] OTHER -> [off |-> 0]

(* TupleData at off, named and converted by the columns of the relation;   *)
(* a column the relation does not have keeps its number and its text.      *)
Tuple(buf, off, columns) ==
    LET count == IF Has(buf, off) THEN buf[off] ELSE 0
        Known(i) == i \in DOMAIN columns
        read[i \in 0..count] ==
            IF i = 0 THEN [off |-> IF Has(buf, off) THEN off + 1 ELSE 0, row |-> <<>>]
            ELSE LET before == read[i - 1]
                     col == Column(buf, before.off, IF Known(i) THEN columns[i].type ELSE "string")
                 IN IF before.off = 0 \/ col.off = 0 THEN [off |-> 0]
                    ELSE [off |-> col.off,
                          row |-> SetKey(before.row, IF Known(i) THEN columns[i].name ELSE ToString(i), col.value)]
    IN read[count]

(* relation(): a change names a table by its OID alone. *)
Relation(cache, id) == cache[id]
Seen(cache, buf) == Has(buf, 2) /\ buf[2] \in DOMAIN cache

(* A tuple behind its kind byte, which must be one of kinds. *)
KindTuple(buf, off, kinds, columns) ==
    IF Has(buf, off) /\ buf[off] \in kinds THEN Tuple(buf, off + 1, columns) ELSE [off |-> 0]

DecodeInsert(buf, rel) ==
    LET new == KindTuple(buf, 3, {"N"}, rel.columns)
    IN IF new.off = 0 THEN Thrown ELSE [tag |-> "insert", relation |-> rel, new |-> new.row]

DecodeUpdate(buf, rel) ==
    LET hasOld == Has(buf, 3) /\ buf[3] \in {"K", "O"}
        old == KindTuple(buf, 3, {"K", "O"}, rel.columns)
        new == KindTuple(buf, IF hasOld THEN old.off ELSE 3, {"N"}, rel.columns)
    IN IF (hasOld /\ old.off = 0) \/ new.off = 0 THEN Thrown
       ELSE [tag |-> "update", relation |-> rel, old |-> IF hasOld THEN old.row ELSE <<>>, new |-> new.row]

DecodeDelete(buf, rel) ==
    LET old == KindTuple(buf, 3, {"K", "O"}, rel.columns)
    IN IF old.off = 0 THEN Thrown ELSE [tag |-> "delete", relation |-> rel, old |-> old.row]

DecodeTruncate(buf, cache) ==
    IF ~Has(buf, 3) \/ ~Has(buf, 3 + buf[2]) THEN Thrown
    ELSE LET ids == SubSeq(buf, 4, 3 + buf[2])
         IN IF \E i \in DOMAIN ids : ids[i] \notin DOMAIN cache THEN Thrown
            ELSE [tag |-> "truncate", options |-> buf[3],
                  relations |-> [i \in DOMAIN ids |-> Relation(cache, ids[i])]]

(* id, schema and name, replica identity, and per column flags, name, type *)
(* and modifier.                                                           *)
DecodeRelation(buf) ==
    LET count == IF Has(buf, 5) THEN buf[5] ELSE 0
    IN IF ~Has(buf, 5) \/ Len(buf) < 5 + 4 * count THEN Thrown
       ELSE [tag |-> "relation", id |-> buf[2],
             columns |-> [i \in 1..count |-> [name |-> buf[4 * i + 3], type |-> buf[4 * i + 4]]]]

(* Begin, Commit, Origin and Type are fixed sequences of fields. *)
Fields == [B |-> 4, C |-> 5, O |-> 3, Y |-> 4]
DecodeFixed(buf) ==
    IF Len(buf) < Fields[buf[1]] THEN Thrown
    ELSE [tag |-> buf[1], fields |-> SubSeq(buf, 2, Fields[buf[1]])]

Decode(buf, cache) ==
    IF ~Has(buf, 1) THEN Thrown
    ELSE CASE buf[1] \in DOMAIN Fields -> DecodeFixed(buf)
           [] buf[1] = "R" -> DecodeRelation(buf)
           [] buf[1] = "T" -> IF Has(buf, 2) THEN DecodeTruncate(buf, cache) ELSE Thrown
           [] buf[1] = "I" /\ Seen(cache, buf) -> DecodeInsert(buf, Relation(cache, buf[2]))
           [] buf[1] = "U" /\ Seen(cache, buf) -> DecodeUpdate(buf, Relation(cache, buf[2]))
           [] buf[1] = "D" /\ Seen(cache, buf) -> DecodeDelete(buf, Relation(cache, buf[2]))
           [] OTHER -> Thrown

MCached(cache, msg) ==
    IF msg.tag = "relation" /\ msg.id \notin DOMAIN cache THEN SetKey(cache, msg.id, msg) ELSE cache

(* The cache keeps the newest shape announced for an OID. *)
Cached(cache, msg) == IF msg.tag = "relation" THEN SetKey(cache, msg.id, msg) ELSE cache

-----------------------------------------------------------------------------
(* The server (external): what it sends for a change, and what that means. *)

(* A column is sent as <<"n">>, <<"u">> (only in updates) or <<"t", text>>. *)
FieldsOf(column) == IF column[1] = "t" THEN <<"t", Len(column[2])>> \o column[2] ELSE column
TupleData(row) ==
    LET data[i \in 0..Len(row)] == IF i = 0 THEN <<Len(row)>> ELSE data[i - 1] \o FieldsOf(row[i])
    IN data[Len(row)]
RelationFrame(t) ==
    <<"R", t, "schema.name", IF t \in Full THEN "f" ELSE "d", Len(shapes[t])>> \o
    [k \in 1..4 * Len(shapes[t]) |->
        LET col == shapes[t][(k + 3) \div 4]
        IN <<"flags", col.name, col.type, "modifier">>[((k - 1) % 4) + 1]]

(* What the decoder should make of it. *)
Meant(column, type) == CASE column[1] = "n" -> Null [] column[1] = "u" -> Toast
                         [] column[1] = "t" -> Convert(column[2], type)
Row(t, row) == [name \in {shapes[t][i].name : i \in DOMAIN row} |->
                   LET i == CHOOSE i \in DOMAIN row : shapes[t][i].name = name IN Meant(row[i], shapes[t][i].type)]
Shape(t) == [tag |-> "relation", id |-> t, columns |-> shapes[t]]

Announcement(t) == IF t \in announced THEN <<>> ELSE <<[frame |-> RelationFrame(t), means |-> Shape(t)]>>
SendChange(t, frame, means) ==
    /\ wire = <<>>
    /\ wire' = Announcement(t) \o <<[frame |-> frame, means |-> means]>>
    /\ announced' = announced \cup {t}
    /\ UNCHANGED <<shapes, relations>>

Values == {<<"n">>} \cup {<<"t", text>> : text \in Texts}
Rows(t) == [DOMAIN shapes[t] -> Values]
(* Without FULL only the key is kept of an old row, and NULLs for the rest. *)
OldRow(t) == IF t \in Full THEN rows[t] ELSE [i \in DOMAIN rows[t] |-> IF i = 1 THEN rows[t][1] ELSE <<"n">>]
OldKind(t) == IF t \in Full THEN "O" ELSE "K"

Insert(t) ==
    /\ rows[t] = <<>>
    /\ \E new \in Rows(t) :
        /\ rows' = [rows EXCEPT ![t] = new]
        /\ SendChange(t, <<"I", t, "N">> \o TupleData(new),
                      [tag |-> "insert", relation |-> Shape(t), new |-> Row(t, new)])

(* The old row comes with a change of the key, or always under FULL; a     *)
(* long value that did not change may be left out of the new one.          *)
Update(t) ==
    /\ rows[t] # <<>>
    /\ \E new \in Rows(t), toasted \in SUBSET DOMAIN shapes[t] :
        /\ \A i \in toasted : new[i] = rows[t][i] /\ new[i] # <<"n">>
        /\ rows' = [rows EXCEPT ![t] = new]
        /\ LET sent == [i \in DOMAIN new |-> IF i \in toasted THEN <<"u">> ELSE new[i]]
               hasOld == t \in Full \/ new[1] # rows[t][1]
           IN SendChange(t, <<"U", t>> \o (IF hasOld THEN <<OldKind(t)>> \o TupleData(OldRow(t)) ELSE <<>>)
                                       \o <<"N">> \o TupleData(sent),
                         [tag |-> "update", relation |-> Shape(t),
                          old |-> IF hasOld THEN Row(t, OldRow(t)) ELSE <<>>, new |-> Row(t, sent)])

Delete(t) ==
    /\ rows[t] # <<>>
    /\ rows' = [rows EXCEPT ![t] = <<>>]
    /\ SendChange(t, <<"D", t, OldKind(t)>> \o TupleData(OldRow(t)),
                  [tag |-> "delete", relation |-> Shape(t), old |-> Row(t, OldRow(t))])

(* TRUNCATE of the tables of the session that have been announced. *)
Truncate ==
    /\ wire = <<>> /\ announced # {}
    /\ LET ids == CHOOSE s \in [1..2 -> announced] : TRUE IN
       wire' = <<[frame |-> <<"T", 2, "cascade">> \o ids,
                  means |-> [tag |-> "truncate", options |-> "cascade",
                             relations |-> [i \in 1..2 |-> Shape(ids[i])]]]>>
    /\ rows' = [t \in Tables |-> IF t \in announced THEN <<>> ELSE rows[t]]
    /\ UNCHANGED <<shapes, announced, relations>>

Boundary ==
    /\ wire = <<>>
    /\ \E tag \in DOMAIN Fields :
        LET fields == [i \in 1..Fields[tag] - 1 |-> i]
        IN wire' = <<[frame |-> <<tag>> \o fields, means |-> [tag |-> tag, fields |-> fields]]>>
    /\ UNCHANGED <<shapes, rows, announced, relations>>

(* ALTER TABLE, the row rewritten to the new shape. *)
Alter(t) ==
    /\ \E shape \in Shapes \ {shapes[t]} :
        /\ shapes' = [shapes EXCEPT ![t] = shape]
        /\ rows' = [rows EXCEPT ![t] = IF @ = <<>> THEN <<>> ELSE [i \in DOMAIN shape |-> <<"n">>]]
    /\ announced' = announced \ {t}
    /\ UNCHANGED <<relations, wire>>

-----------------------------------------------------------------------------
DecodeFrame ==
    /\ wire # <<>>
    /\ relations' = Cached(relations, Decode(Head(wire).frame, relations))
    /\ wire' = Tail(wire)
    /\ UNCHANGED <<shapes, rows, announced>>

(* changes() makes a new decoder for a new session. *)
NewSession ==
    /\ relations' = <<>> /\ wire' = <<>> /\ announced' = {}
    /\ UNCHANGED <<shapes, rows>>

PgoutputInit ==
    /\ shapes \in [Tables -> Shapes]
    /\ rows = [t \in Tables |-> <<>>]
    /\ announced = {} /\ relations = <<>> /\ wire = <<>>

PgoutputNext ==
    \/ \E t \in Tables : Insert(t) \/ Update(t) \/ Delete(t) \/ Alter(t)
    \/ Truncate \/ Boundary \/ DecodeFrame \/ NewSession

PgoutputSpec == PgoutputInit /\ [][PgoutputNext]_pgoutputVars

-----------------------------------------------------------------------------
(* Whatever tables were altered and sessions replaced in between, a frame  *)
(* decodes to the row that was written, named and typed by the columns the *)
(* table had then, and is never a change of an unknown relation (decode).  *)
RowsAsWritten == wire # <<>> => Decode(Head(wire).frame, relations) = Head(wire).means

(* A frame that is cut short at any field is refused, never half read      *)
(* (Reader).                                                               *)
PrefixRejected ==
    wire # <<>> => \A n \in 0..Len(Head(wire).frame) - 1 :
                       Decode(SubSeq(Head(wire).frame, 1, n), relations) = Thrown
=============================================================================
