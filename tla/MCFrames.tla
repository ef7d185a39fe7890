------------------------------ MODULE MCFrames ------------------------------
(***************************************************************************)
(* Frames with bytes of four bits: qint8 is -8..7, qint16 -128..127,       *)
(* qint32 -2048..2047 and qint64 -32768..32767.                            *)
(***************************************************************************)
EXTENDS Frames

Each(type, set) == {[type |-> type, data |-> x] : x \in set}

\* Both sides of the limits of a width.
Numbers ==
    Each("Bool", {1})
        \cup Each("Int", {7, 8, 127, 128, -129, -2048})
        \cup Each("UShort", {127, 128})
        \cup Each("UInt", {8, 128, 2048})
        \cup Each("LongLong", {2048, -32768})
        \cup Each("ULongLong", {32767, 32768})
        \cup Each("Double", {100, 101, 102})

Texts ==
    Each("String", {<<1, 9, 1>>, <<1, 2, 3, 4, 5, 6, 7, 1, 2>>})
        \cup Each("ByteArray", {<<>>, <<1, 15, 8>>})

AnInt(n) == [type |-> "Int", data |-> n]

List(items) == [type |-> "List", data |-> items]

\* With everything they are made of.
Nested ==
    Each("Int", {-129, -8, 7, 8, 128})
        \cup {List(<<>>), List(<<AnInt(7)>>), List(<<List(<<>>), AnInt(128)>>)}
        \cup Each("Hash", {
                <<Entry(<<1>>, AnInt(-129)), Entry(<<9>>, AnInt(8))>>,
                <<Entry(<<>>, List(<<>>)),
                  Entry(<<2>>, List(<<AnInt(7)>>))>>})

\* What is not read as far as it is written.
Lost == {[type |-> "Invalid", data |-> 0], [type |-> "Float", data |-> 2]}

MCValues == Numbers \cup Texts \cup Nested \cup Lost

\* The longest key a qint8 counts, and two that are not in ASCII and become one.
MCKeys == {<<1, 2, 3, 4, 5, 6, 7>>, <<9, 9>>, <<9, 10>>}

Property(name, values) == {[name |-> name, value |-> x] : x \in values}

\* One or more of each type, before and after the headers.
MCGiven ==
    Property("ContentType", {<<>>, <<9, 1>>})
        \cup Property("DeliveryMode", {0, 15})
        \cup Property("Priority", {8})
        \cup Property("CorrelationId", {<<4>>, <<1, 2, 3, 4, 5, 6, 7, 1>>})
        \cup Property("MessageId", {<<1, 2, 3, 4, 5, 6, 7>>})
        \cup Property("Timestamp", {0, 32768, 65535})
        \cup Property("ClusterID", {<<5, 6>>})

\* FRAME_END, which is 12 here, and what a header of a frame may look like.
MCArguments == {<<12, 1, 12>>}
MCBodies == {<<12, 3, 0, 2, 0, 0, 1, 12>>}

=============================================================================
