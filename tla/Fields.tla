------------------------------- MODULE Fields -------------------------------
(***************************************************************************)
(* Fields on the wire: the numbers, strings and tables that QAmqpFrame's   *)
(* readAmqpField and writeAmqpField and the two operators of QAmqpTable    *)
(* read and write.                                                         *)
(*                                                                         *)
(* Every width is scaled: a byte is a number below Byte, qint16, qint32    *)
(* and qint64 take 2, 3 and 4 bytes, a long string's length 3.  Of the     *)
(* types in a table, decimals and timestamps are left out.                 *)
(***************************************************************************)
EXTENDS Integers, Sequences, SequencesExt

CONSTANTS
    Byte,       \* how many values a byte has
    FloatMax,   \* the largest number a float holds
    CharSigned, \* whether the build's char is signed
    Values      \* the values in tables, and the values those are made of

ASSUME FieldsAssumption ==
    /\ Byte \in Nat /\ Byte >= 16 /\ Byte % 8 = 0
    /\ FloatMax \in Nat
    /\ CharSigned \in BOOLEAN
    /\ \A value \in Values :
          /\ value.type = "List" => \A i \in DOMAIN value.data : value.data[i] \in Values
          /\ value.type = "Hash" =>
                \A i \in DOMAIN value.data : value.data[i].value \in Values

ShortSize == 2
LongSize == 3
LongLongSize == 4

-----------------------------------------------------------------------------
(* Numbers, as QDataStream writes them: big endian, two's complement.      *)

Bytes(n, size) == [i \in 1..size |-> (n \div (Byte ^ (size - i))) % Byte]

Unsigned[bytes \in Seq(0..Byte - 1)] ==
    IF bytes = <<>> THEN 0 ELSE Unsigned[Front(bytes)] * Byte + Last(bytes)

\* n as a signed number of this size.
Wrap(n, size) ==
    LET m == n % (Byte ^ size)
    IN  IF 2 * m >= Byte ^ size THEN m - Byte ^ size ELSE m

Signed(bytes) == Wrap(Unsigned[bytes], Len(bytes))

SignedMax(size) == (Byte ^ size) \div 2 - 1

-----------------------------------------------------------------------------
(* Strings: sequences of Latin-1 characters, ASCII below Byte / 2.         *)

Ascii(c) == 2 * c < Byte

\* A character that is not Latin-1.
Other == Byte

ToUtf8(s) ==
    FlattenSeq([i \in DOMAIN s |->
        IF Ascii(s[i]) THEN <<s[i]>>
        ELSE <<(3 * Byte) \div 4 + s[i] \div 4, Byte \div 2 + (s[i] % 4)>>])

\* Bytes above ASCII that happen to be UTF-8 are not joined here.
FromUtf8(bytes) == [i \in DOMAIN bytes |-> IF Ascii(bytes[i]) THEN bytes[i] ELSE Other]

\* As many bytes are written as the string has characters.
WriteShortString(s) == <<Len(s) % Byte>> \o SubSeq(ToUtf8(s), 1, Len(s))

WriteLongString(s) == Bytes(Len(s), LongSize) \o s

-----------------------------------------------------------------------------
(* Writing.  A value is [type |-> a QMetaType, data |-> what it holds].    *)

\* valueTypeForOctet, valueTypeToOctet: the octet of a type is its place here.
Octets == <<"Boolean", "ShortShortInt", "ShortInt", "LongInt", "LongLongInt", "Float",
            "Double", "LongString", "Array", "Hash", "Void", "Bytes">>

Octet(type) == CHOOSE i \in DOMAIN Octets : Octets[i] = type

\* The narrowest type for a number of at most this absolute value.
Narrowest(i) ==
    IF i <= SignedMax(1) THEN "ShortShortInt"
    ELSE IF i <= SignedMax(ShortSize) THEN "ShortInt" ELSE "LongInt"

\* Mutant: a type is taken to reach as far above zero as below.
IntTypeOneTooMany(i) == Narrowest(Wrap(IF i < 0 THEN -i ELSE i - 1, LongSize))

\* qAbs of the least int is that int.
IntType(i) == Narrowest(Wrap(IF i < 0 THEN -i ELSE i, LongSize))

UIntType(u) == Narrowest(Wrap(u, LongSize))

FieldType(value) ==
    CASE value.type = "Bool"      -> "Boolean"
      [] value.type = "ByteArray" -> "Bytes"
      [] value.type = "Int"       -> IntType(value.data)
      [] value.type = "UShort"    -> "ShortInt"
      [] value.type = "UInt"      -> UIntType(value.data)
      [] value.type \in {"LongLong", "ULongLong"} -> "LongLongInt"
      [] value.type = "String"    -> "LongString"
      [] value.type = "Double"    -> IF value.data > FloatMax THEN "Double" ELSE "Float"
      [] value.type = "Hash"      -> "Hash"
      [] value.type = "List"      -> "Array"
      [] value.type = "Invalid"   -> "Void"

\* A type writeFieldValue does not know: no value is written.
Unhandled(value) == value.type = "Float"

Entry(key, value) == [key |-> key, value |-> value]

Sized(bytes) == Bytes(Len(bytes), LongSize) \o bytes

\* The items, each as it is written.
WriteArray(items) == Sized(FlattenSeq(items))

WriteEntry(key, field) == WriteShortString(key) \o field

\* A float keeps half the digits of a double.
WriteField[value \in Any] ==
    LET type == FieldType(value)
        data == value.data
        payload ==
            CASE type = "Boolean"       -> <<data>>
              [] type = "ShortShortInt" -> Bytes(data, 1)
              [] type = "ShortInt"      -> Bytes(data, ShortSize)
              [] type = "LongInt"       -> Bytes(data, LongSize)
              [] type = "LongLongInt"   -> Bytes(data, LongLongSize)
              [] type = "Float"         -> Bytes(data \div 2, LongSize)
              [] type = "Double"        -> Bytes(data, LongLongSize)
              [] type = "LongString"    -> WriteLongString(data)
              [] type = "Bytes"         -> Sized(data)
              [] type = "Void"          -> Bytes(0, LongSize)
              [] type = "Array"         ->
                    WriteArray([i \in DOMAIN data |-> WriteField[data[i]]])
              [] type = "Hash"          ->
                    Sized(FlattenSeq([i \in DOMAIN data |->
                        WriteEntry(data[i].key, WriteField[data[i].value])]))
    IN  IF Unhandled(value) THEN <<>> ELSE <<Octet(type)>> \o payload

-----------------------------------------------------------------------------
(* Reading.  Each operator returns what it reads and the bytes after it.   *)

Result(x, rest) == [value |-> x, rest |-> rest]

\* Bytes that are not there, which only a reader that is out of step asks for,
\* are read as zero.
Take(bytes, n) == [i \in 1..n |-> IF i <= Len(bytes) THEN bytes[i] ELSE 0]

Drop(bytes, n) == SubSeq(bytes, n + 1, Len(bytes))

ReadSigned(bytes, size) == Result(Signed(Take(bytes, size)), Drop(bytes, size))

\* A qint8 is read into a char.
ReadChar(bytes) ==
    Result(IF CharSigned THEN Signed(Take(bytes, 1)) ELSE Unsigned[Take(bytes, 1)],
           Drop(bytes, 1))

\* The length is a qint8; a negative one reads an empty string.
ReadShortString(bytes) ==
    LET size == Signed(Take(bytes, 1))
        n == IF size < 0 THEN 0 ELSE size
    IN  Result(Take(Drop(bytes, 1), n), Drop(bytes, n + 1))

\* A length, and as many bytes as it says, or as there are.
ReadSized(bytes) ==
    LET n == Unsigned[Take(bytes, LongSize)]
    IN  Result(SubSeq(Drop(bytes, LongSize), 1, Min({n, Len(Drop(bytes, LongSize))})),
               Drop(bytes, LongSize + n))

Of(type, result) == Result([type |-> type, data |-> result.value], result.rest)

Invalid == [type |-> "Invalid", data |-> 0]

\* If an array or a table follows, items[FALSE] is what it holds as an array,
\* items[TRUE] as a table.  A void field is read without the four bytes that
\* were written for it.
ReadField(bytes, items) ==
    LET octet == Take(bytes, 1)[1]
        type == IF octet \in DOMAIN Octets THEN Octets[octet] ELSE "Void"
        data == Drop(bytes, 1)
        sized == ReadSized(data)
    IN  CASE type = "Boolean"       -> Of("Bool", Result(IF Take(data, 1)[1] > 0 THEN 1 ELSE 0,
                                                         Drop(data, 1)))
          [] type = "ShortShortInt" -> Of("Int", ReadChar(data))
          [] type = "ShortInt"      -> Of("Int", ReadSigned(data, ShortSize))
          [] type = "LongInt"       -> Of("Int", ReadSigned(data, LongSize))
          [] type = "LongLongInt"   -> Of("LongLong", ReadSigned(data, LongLongSize))
          [] type = "Float"         -> Of("Float", Result(2 * Signed(Take(data, LongSize)),
                                                          Drop(data, LongSize)))
          [] type = "Double"        -> Of("Double", ReadSigned(data, LongLongSize))
          [] type = "LongString"    -> Of("String", Result(FromUtf8(sized.value), sized.rest))
          [] type = "Bytes"         -> Of("ByteArray", sized)
          [] type = "Array"         -> Of("List", Result(items[FALSE], sized.rest))
          [] type = "Hash"          -> Of("Hash", Result(items[TRUE], sized.rest))
          [] type = "Void"          -> Result(Invalid, data)

\* What there is of an array or a table that follows.
Contents(bytes) == ReadSized(Drop(bytes, 1)).value

\* The items read: one of a table takes the place of one with its key before it.
WithItem(item, keyed, more) ==
    IF keyed /\ \E i \in DOMAIN more : more[i].key = item.key THEN more ELSE <<item>> \o more

ReadItems[bytes \in Seq(0..Byte - 1), keyed \in BOOLEAN] ==
    LET key == IF keyed THEN ReadShortString(bytes) ELSE Result(<<>>, bytes)
        items == [k \in BOOLEAN |-> ReadItems[Contents(key.rest), k]]
        field == ReadField(key.rest, items)
        item == IF keyed THEN Entry(key.value, field.value) ELSE field.value
    IN  IF bytes = <<>> THEN <<>>
        ELSE WithItem(item, keyed, ReadItems[field.rest, keyed])

-----------------------------------------------------------------------------
(* Single fields, as readAmqpField and writeAmqpField know them.           *)

WriteTable(entries) ==
    Sized(FlattenSeq([i \in DOMAIN entries |->
        WriteEntry(entries[i].key, WriteField[entries[i].value])]))

ReadTable(bytes) ==
    LET sized == ReadSized(bytes)
    IN  Result(ReadItems[sized.value, TRUE], sized.rest)

WriteAmqpField(type, x) ==
    CASE type = "ShortString"    -> WriteShortString(x)
      [] type = "ShortShortUint" -> Bytes(x, 1)
      [] type = "Timestamp"      -> Bytes(x, LongLongSize)
      [] type = "Hash"           -> WriteTable(x)

ReadUnsigned(bytes, size) == Result(Unsigned[Take(bytes, size)], Drop(bytes, size))

ReadAmqpField(type, bytes) ==
    CASE type = "ShortString"    -> ReadShortString(bytes)
      [] type = "ShortShortUint" -> ReadUnsigned(bytes, 1)
      [] type = "Timestamp"      -> ReadUnsigned(bytes, LongLongSize)
      [] type = "Hash"           -> ReadTable(bytes)

-----------------------------------------------------------------------------
(* What the wire has room for.                                             *)

AllAscii(s) == \A i \in DOMAIN s : Ascii(s[i])

\* A qint8 can tell its length.
IsShort(s) == Len(s) <= SignedMax(1)

\* What is read as far as it is written: a void value is not, and of a float
\* only the key is written.
ValueReadable[value \in Values] ==
    CASE value.type \in {"Invalid", "Float"} -> FALSE
      [] value.type = "List" -> \A i \in DOMAIN value.data : ValueReadable[value.data[i]]
      [] value.type = "Hash" ->
            \A i \in DOMAIN value.data : /\ IsShort(value.data[i].key)
                                         /\ ValueReadable[value.data[i].value]
      [] OTHER -> TRUE

EntryReadable(entry) == IsShort(entry.key) /\ ValueReadable[entry.value]

\* The values the wire has room for: integers that a signed number of their
\* size holds, and not the least int; text in ASCII; even numbers for a float.
Fits[value \in Values] ==
    LET data == value.data
    IN  CASE value.type \in {"Invalid", "Float"} -> FALSE
          [] value.type = "Int"       -> data # -SignedMax(LongSize) - 1
          [] value.type = "UShort"    -> data <= SignedMax(ShortSize)
          [] value.type = "UInt"      -> data <= SignedMax(LongSize)
          [] value.type = "ULongLong" -> data <= SignedMax(LongLongSize)
          [] value.type = "Double"    -> data > FloatMax \/ data % 2 = 0
          [] value.type = "String"    -> AllAscii(data)
          [] value.type = "List"      -> \A i \in DOMAIN data : Fits[data[i]]
          [] value.type = "Hash"      ->
                \A i \in DOMAIN data : AllAscii(data[i].key) /\ Fits[data[i].value]
          [] OTHER                    -> TRUE

\* The value as a reader should have it: the same, in the type that is read.
Same[value \in Values] ==
    LET As(type, data) == [type |-> type, data |-> data]
        data == value.data
    IN  CASE value.type \in {"Int", "UInt", "UShort"}    -> As("Int", data)
          [] value.type \in {"LongLong", "ULongLong"}    -> As("LongLong", data)
          [] value.type = "Double" /\ data <= FloatMax   -> As("Float", data)
          [] value.type = "List" -> As("List", [i \in DOMAIN data |-> Same[data[i]]])
          [] value.type = "Hash" ->
                As("Hash", [i \in DOMAIN data |-> Entry(data[i].key, Same[data[i].value])])
          [] OTHER -> value

=============================================================================
