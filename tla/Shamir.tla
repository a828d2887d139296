------------------------------- MODULE Shamir -------------------------------
(***************************************************************************)
(* shamir.py itself, over a field small enough to enumerate: a string is    *)
(* packed into integers, each integer is hidden in a polynomial of its own, *)
(* each participant gets one point of every polynomial, and a decoder       *)
(* interpolates what it has accepted.  ShareDecoder abstracts from all of   *)
(* this and relies on DamageShows.                                          *)
(* A character is a byte, the checksum is the string it was taken of.       *)
(***************************************************************************)
EXTENDS Naturals, Sequences, FiniteSets, Functions

CONSTANTS
    PRIME,           \* 2^127 - 1
    Base,            \* the values of a byte, 256
    BytesPerInteger, \* bytes_per_integer, 8
    Split            \* what create_secret() may be called for

VARIABLES
    split,   \* what is being split
    matrix,  \* secret_matrix: per integer, the point of each participant
    keys     \* decoding_participants_keys

vars == <<split, matrix, keys>>

Field == 0 .. PRIME - 1

SumOf(f) == FoldFunction(LAMBDA a, b : (a + b) % PRIME, 0, f)
ProductOf(f) == FoldFunction(LAMBDA a, b : (a * b) % PRIME, 1, f)

\* pow(x, n, PRIME)
Power(x, n) == ProductOf([i \in 1 .. n |-> x])

-----------------------------------------------------------------------------
(* Packing.                                                                 *)

\* int.from_bytes(), byteorder='big'
FromBytes(bytes) ==
    LET value[i \in 0 .. Len(bytes)] ==
          IF i = 0 THEN 0 ELSE value[i - 1] * Base + bytes[i]
    IN value[Len(bytes)]

\* What is left of an integer when int.to_bytes() has taken n bytes of it.
Shifted(integer, n) ==
    LET rest[i \in 0 .. n] == IF i = 0 THEN integer ELSE rest[i - 1] \div Base
    IN rest[n]

ASSUME FieldAssumption ==
    /\ PRIME \in Nat /\ \A d \in 2 .. PRIME - 1 : PRIME % d # 0
    /\ Base \in Nat /\ BytesPerInteger \in Nat /\ Base > 1 /\ BytesPerInteger > 0
    \* "larger than any 8-byte (64-bit) secret integer"
    /\ PRIME > 1
    /\ \A bytes \in [1 .. BytesPerInteger -> 0 .. Base - 1] : FromBytes(bytes) < PRIME
    \* the checks of __init__(), and MAX_SECRET_BYTES < PRIME
    /\ \A s \in Split :
        /\ s.secret \in Seq(0 .. Base - 1) /\ Len(s.secret) < PRIME
        /\ s.shares \in Nat /\ s.treshold \in 2 .. s.shares /\ s.shares < PRIME

\* Bug: the last chunk is padded on the left.
BugByte(raw, chunk, i) ==
    LET last == BytesPerInteger * chunk > Len(raw)
        gap == IF last THEN BytesPerInteger * chunk - Len(raw) ELSE 0
    IN IF i <= gap THEN 0 ELSE raw[BytesPerInteger * (chunk - 1) + i - gap]

\* Byte i of a chunk; the last chunk is padded with zero bytes.
ByteOf(raw, chunk, i) ==
    LET pos == BytesPerInteger * (chunk - 1) + i
    IN IF pos <= Len(raw) THEN raw[pos] ELSE 0

Chunks(raw) == (Len(raw) + BytesPerInteger - 1) \div BytesPerInteger

\* The length, then the chunks as big-endian integers.
StringToIntegers(raw) ==
    <<Len(raw)>> \o
    [chunk \in 1 .. Chunks(raw) |->
        FromBytes([i \in 1 .. BytesPerInteger |-> ByteOf(raw, chunk, i)])]

\* ShareReconstructionError, which no string of bytes is
NoSecret == <<Base>>

\* An integer that does not fit is an OverflowError of int.to_bytes().
IntegerListToString(list) ==
    LET size == BytesPerInteger * (Len(list) - 1)
        byte(k) == Shifted(list[2 + (k - 1) \div BytesPerInteger],
                           BytesPerInteger - 1 - ((k - 1) % BytesPerInteger)) % Base
    IN IF \E i \in 2 .. Len(list) : Shifted(list[i], BytesPerInteger) # 0
       THEN NoSecret
       ELSE [k \in 1 .. IF list[1] < size THEN list[1] ELSE size |-> byte(k)]

-----------------------------------------------------------------------------
(* Splitting.                                                               *)

\* Bug: a coefficient is never zero.
BugCoefficient == 1 .. PRIME - 1

\* secrets.randbelow(PRIME)
Coefficient == Field

\* _coeff(): coefficients[i] belongs to x^i, the constant is the secret.
Coefficients(treshold, secret) ==
    {[i \in 0 .. treshold - 1 |-> IF i = 0 THEN secret ELSE c[i]] :
        c \in [1 .. treshold - 1 -> Coefficient]}

Polynom(x, coefficients) ==
    SumOf([i \in DOMAIN coefficients |-> Power(x, i) * coefficients[i]])

\* `if x in x_values: continue`
XValues(n) == Injection(1 .. n, 1 .. PRIME - 1)

Plaintext == StringToIntegers(split.secret)
Created == Len(matrix) = Len(Plaintext)

\* One integer of create_secret()'s loop, _generate_shares().
GenerateShares ==
    /\ ~Created
    /\ \E c \in Coefficients(split.treshold, Plaintext[Len(matrix) + 1]),
          x \in XValues(split.shares) :
        matrix' = Append(matrix, [p \in 1 .. split.shares |-> <<x[p], Polynom(x[p], c)>>])
    /\ UNCHANGED <<split, keys>>

\* iterate_participants(): the keys of participant p.
Column(p) == [chunk \in DOMAIN matrix |-> matrix[chunk][p]]

-----------------------------------------------------------------------------
(* Decoding.                                                                *)

InverseModPrime(a) == CHOOSE b \in Field : (a * b) % PRIME = 1

Lagrange(points, j) ==
    LET others == DOMAIN points \ {j}
    IN (ProductOf([i \in others |-> PRIME - points[i][1]])
         * InverseModPrime(ProductOf([i \in others |->
                     (points[j][1] + PRIME - points[i][1]) % PRIME]))) % PRIME

\* Bug: the point with the largest index does not count.
BugReconstruct(points) ==
    SumOf([j \in DOMAIN points |->
             IF j = Len(points) THEN 0 ELSE points[j][2] * Lagrange(points, j)])

\* _reconstruct_secret(): the interpolated value at 0.
ReconstructSecret(points) ==
    SumOf([j \in DOMAIN points |-> points[j][2] * Lagrange(points, j)])

\* _validate_keys(), of a list of points
ValidateKeys(column) ==
    /\ column # <<>>
    /\ \A k \in DOMAIN keys : Len(keys[k]) = Len(column)
    /\ \A chunk \in DOMAIN column :
        /\ column[chunk][1] \in 1 .. PRIME - 1
        /\ \A k \in DOMAIN keys : keys[k][chunk][1] # column[chunk][1]

ReadyToDecode == Len(keys) >= split.treshold

\* A share arrives; the callers stop when the decoder is ready.
PopulateDecoder(p) ==
    /\ Created /\ ~ReadyToDecode
    /\ ValidateKeys(Column(p))
    /\ keys' = Append(keys, Column(p))
    /\ UNCHANGED <<split, matrix>>

\* What decode() does with a list of accepted columns: the result has to have
\* the checksum of the secret.
Decode(columns) ==
    LET string == IntegerListToString([chunk \in DOMAIN columns[1] |->
            ReconstructSecret([k \in DOMAIN columns |-> columns[k][chunk]])])
    IN IF string = NoSecret \/ string = split.secret THEN string ELSE NoSecret

-----------------------------------------------------------------------------
Init ==
    /\ split \in Split
    /\ matrix = <<>>
    /\ keys = <<>>

\* decode() changes nothing.
Done == ReadyToDecode /\ UNCHANGED vars

Next ==
    \/ GenerateShares
    \/ \E p \in 1 .. split.shares : PopulateDecoder(p)
    \/ Done

Spec == Init /\ [][Next]_vars

-----------------------------------------------------------------------------
(* Properties.                                                              *)

\* Any treshold of the shares, in any order, gives the secret back as it was,
\* whatever was drawn: an empty one, one that ends in zero bytes, one that
\* does or does not fill its last chunk (create_secret, decode).
AnyTresholdDecodes == Created /\ ReadyToDecode => Decode(keys) = split.secret

\* The ways the points known of a chunk can have come from `value`.
Explanations(chunk, value) ==
    {c \in Coefficients(split.treshold, value) :
        \A k \in DOMAIN keys : Polynom(keys[k][chunk][1], c) = keys[k][chunk][2]}

\* Fewer shares than the treshold say nothing about any chunk: every value of
\* the field is left, and each is as likely as the others (_coeff).
FewSharesTellNothing ==
    Created /\ ~ReadyToDecode => \A chunk \in DOMAIN matrix : \A v, w \in Field :
        Cardinality(Explanations(chunk, v)) = Cardinality(Explanations(chunk, w))

\* keys with one y-value replaced
Damaged(k, chunk, y) == [keys EXCEPT ![k][chunk][2] = y]

\* The integers whose every change alters the string: a full chunk, and the
\* length where the last chunk is padded.
Essential ==
    LET len == Len(split.secret)
    IN {chunk \in DOMAIN matrix :
          IF chunk = 1 THEN len % BytesPerInteger # 0
                       ELSE BytesPerInteger * (chunk - 1) <= len}

\* A y-value that is not as it was drawn is noticed, in whichever share and
\* whatever it is (decode, _reconstruct_secret, integer_list_to_string).
DamageShows ==
    Created /\ ReadyToDecode =>
        \A k \in DOMAIN keys, chunk \in Essential :
            \A y \in Field \ {keys[k][chunk][2]} :
                Decode(Damaged(k, chunk, y)) = NoSecret

=============================================================================
