---------------------------- MODULE BundleFormat ----------------------------
(***************************************************************************)
(* The S3 object: for every record of a bundle a header of fixed size,     *)
(* followed by the payload.  Image is what Consume::stash_by_topic writes, *)
(* Items what k3replay's batch_discovery_bykey reads from a local copy.    *)
(*                                                                         *)
(* An image is a sequence of cells.  A header is one cell, a byte of a     *)
(* payload is one cell.                                                    *)
(***************************************************************************)
EXTENDS Integers, SequencesExt

CONSTANTS
    KeyMaxLen,  \* MessageHeader::KeyMaxLen, the size of key_field
    DateOf(_)   \* localtime and strftime: the date of a second

ASSUME KeyAssumption == KeyMaxLen \in Nat \ {0}

Byte(b)      == <<"byte", b>>
HeaderOf(h)  == <<"header", h>>
Bytes(s)     == [i \in DOMAIN s |-> Byte(s[i])]
Zeros(n)     == [i \in 1 .. n |-> Byte(0)]
IsHeader(c)  == c[1] = "header"

Least(a, b) == IF a < b THEN a ELSE b

\* Sum of the bytes.  (The code's int does not overflow below 8 MiB.)
messageChecksum(payload) == FoldLeft(LAMBDA a, b : a + b, 0, payload)

\* index_counter starts at size - 1 and is decremented for each record.
IndexCounter(bundle, i) == Len(bundle) - i

\* A mistake: the key is copied whole.
KeyWhole(key) == key

\* MessageHeader::set copies at most KeyMaxLen - 1 bytes and leaves a NUL.
KeyField(key) == SubSeq(key, 1, Least(Len(key), KeyMaxLen - 1))

\* MessageHeader::set
Header(bundle, i) ==
    LET r == bundle[i]
    IN  [timestamp |-> r.timestamp, partition |-> r.partition, offset |-> r.offset,
         index |-> IndexCounter(bundle, i), csum |-> messageChecksum(r.payload),
         payload_len |-> Len(r.payload), key_field |-> KeyField(r.key)]

\* A zeroed part of the buffer read as a header.
NullHeader == [timestamp |-> 0, partition |-> 0, offset |-> 0, index |-> 0,
               csum |-> 0, payload_len |-> 0, key_field |-> <<>>]

\* stash_by_topic: the image of a bundle
Image(bundle) ==
    FlattenSeq([i \in DOMAIN bundle |->
                  <<HeaderOf(Header(bundle, i))>> \o Bytes(bundle[i].payload)])

Second(record) == record.timestamp \div 1000

\* A mistake: the key is named after the first record.
FirstRecordDate(bundle, seed) == [DateOf(Second(bundle[1])) EXCEPT ![7] = seed]

\* The date in the object's key: the last record's second, and behind the point
\* not its fraction but the clock of the process.
KeyDate(bundle, seed) == [DateOf(Second(bundle[Len(bundle)])) EXCEPT ![7] = seed]

-----------------------------------------------------------------------------
\* The file is read into a zeroed buffer of twice its size (tellg() * 2).
Buffer(file) == file \o Zeros(Len(file))

HeaderAt(buffer, pos) == IF IsHeader(buffer[pos]) THEN buffer[pos][2] ELSE NullHeader

\* A mistake: the cursor moves by the header only.
HeaderOnly(header) == 1

\* p += sizeof(MessageHeader) + payload_len
StepOver(header) == 1 + header.payload_len

\* nummsgs: the first index says how many turns the loop takes.
Turns(buffer) == HeaderAt(buffer, 1).index + 1

\* The cursor before each turn of the loop.
Cursors(buffer) ==
    LET pos[i \in 1 .. Turns(buffer)] ==
            IF i = 1 THEN 1 ELSE pos[i - 1] + StepOver(HeaderAt(buffer, pos[i - 1]))
    IN  pos

\* A mistake: the payload starts at the header.
FromHeader(buffer, header) == SubSeq(buffer, 1, header.payload_len)

\* The payload is taken from the start of the buffer, not from the cursor.
PayloadRead(buffer, header) == SubSeq(buffer, 2, 1 + header.payload_len)

\* strlen(key_field)
KeyRead(key_field) ==
    IF \E i \in DOMAIN key_field : key_field[i] = 0
    THEN SubSeq(key_field, 1, (CHOOSE i \in DOMAIN key_field :
                                 /\ key_field[i] = 0
                                 /\ \A j \in 1 .. i - 1 : key_field[j] # 0) - 1)
    ELSE key_field

DiscoveryItem(buffer, header) ==
    [timestamp |-> header.timestamp, partition |-> header.partition,
     offset |-> header.offset, csum |-> header.csum,
     payload_len |-> header.payload_len, key |-> KeyRead(header.key_field),
     payload |-> PayloadRead(buffer, header)]

\* The items of a local file, in the order they are read.
Items(file) ==
    LET buffer == Buffer(file)
    IN  [i \in 1 .. Turns(buffer) |-> DiscoveryItem(buffer, HeaderAt(buffer, Cursors(buffer)[i]))]
=============================================================================
