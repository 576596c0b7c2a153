------------------------------ MODULE CborBlob ------------------------------
(***************************************************************************)
(* cborContext_t: a memo or a registered datum announced by its length and *)
(* received in chunks, accumulated in a buffer and decoded for the review  *)
(* once it is whole.  A chunk is <<value, bytes>>.                         *)
(***************************************************************************)
EXTENDS Naturals, Sequences

CONSTANTS
    CborMax,      \* MAX_CBOR_BLOB_SIZE (257)
    CborChunkMax  \* most bytes in one packet (255)

ASSUME CborAssumption == CborMax \in Nat /\ CborChunkMax \in Nat \ {0}

\* length counts down what is still to be received.
CborZero == [length |-> 0, buf |-> << >>]

BufLen(buf) ==
    LET sum[i \in 0 .. Len(buf)] == IF i = 0 THEN 0 ELSE sum[i - 1] + buf[i][2]
    IN  sum[Len(buf)]

CborLengthFits_Unchecked(n) == TRUE
CborLengthFits(n) == n <= CborMax

\* Both readers throw on a chunk that claims more than was announced; the
\* second also on one that would not fit the buffer.
ChunkFits(m, n) == n <= m.length
ContentFits(m, n) == ChunkFits(m, n) /\ BufLen(m.buf) + n <= CborMax

readCborInitial_KeepsLength(m, v, n) == [length |-> m.length, buf |-> <<<<v, n>>>>]
readCborInitial(m, v, n) == [length |-> m.length - n, buf |-> <<<<v, n>>>>]
readCborContent(m, v, n) == [length |-> m.length - n, buf |-> Append(m.buf, <<v, n>>)]

\* The chunk as it is hashed, and the rows that show the decoded blob.
CborItem(v, n)  == <<"cbor", v, n>>
CborRows(m)     == {<<"blob", m.buf>>}

\* The blob a transcript holds.
IsCbor(item) == item[1] = "cbor"
BlobOf(s) ==
    LET blob[i \in 0 .. Len(s)] ==
            IF i = 0 THEN << >>
            ELSE IF IsCbor(s[i]) THEN Append(blob[i - 1], <<s[i][2], s[i][3]>>)
            ELSE blob[i - 1]
    IN  blob[Len(s)]
=============================================================================
