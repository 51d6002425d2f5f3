------------------------------ MODULE HikImage -------------------------------
(***************************************************************************)
(* crypto/media.py decrypt_image() and camera.py _decrypt_if_encrypted():  *)
(* what a snapshot() or an alarm_image() makes of an encrypted picture,    *)
(* whole or cut short after any byte.                                      *)
(*                                                                         *)
(* A picture is a number of segments: the header "hikencodepicture", the   *)
(* hash of the verification code, and whole cipher blocks.  A byte is a    *)
(* record that says what it is a part of; of its value only what the code  *)
(* looks at is kept, whether a decrypted byte looks like a padding length. *)
(* The two loops of decrypt_image() take a step for each segment.          *)
(***************************************************************************)
EXTENDS Naturals, Sequences, SequencesExt, FiniteSetsExt

CONSTANTS
    Block,        \* AES.block_size
    HeaderLen,    \* len(HIK_ENCRYPTION_HEADER)
    HashLen,      \* _HASH_LEN
    Before,       \* how many bytes may stand before the first header
    MaxSegments,  \* bound: segments of a picture
    MaxBlocks     \* bound: cipher blocks of a segment

ASSUME ImageAssumption ==
    /\ {Block, HeaderLen, HashLen, MaxSegments, MaxBlocks} \subseteq Nat \ {0}
    /\ HeaderLen <= Block
    /\ Before \subseteq Nat

VARIABLES
    encrypted,  \* the picture as the camera encrypted it
    original,   \* history: the picture itself
    segments,   \* history: where a segment starts in the two, its size and its padding
    looks,      \* the value of every decrypted byte but the padding, 0 for no padding length
    code,       \* the camera's media_key: the right code, a wrong one, or none
    data,       \* the bytes that the answer holds
    phase,      \* the camera's, or what the library does: "camera", "split", "decrypt", "done"
    cursor,     \* where _split_segments() is in data
    blocks,     \* the first and the last byte of each block it has found
    joined,     \* how many of them are decrypted
    picture     \* what the caller is given

imageVars ==
    <<encrypted, original, segments, looks, code, data, phase, cursor, blocks, joined, picture>>

Byte(of, segment, at) == [of |-> of, segment |-> segment, at |-> at]

Bytes(of, segment, n) == [i \in 1..n |-> Byte(of, segment, i)]

Error == [ok |-> FALSE, data |-> <<>>]

Given(bytes) == [ok |-> TRUE, data |-> bytes]

ImageInit ==
    /\ encrypted \in {Bytes("before", 0, n) : n \in Before}
    /\ original = <<>>
    /\ segments = <<>>
    /\ looks \in 0..Block
    /\ code = "none"
    /\ data = <<>>
    /\ phase = "camera"
    /\ cursor = 1
    /\ blocks = <<>>
    /\ joined = 0
    /\ picture = Given(<<>>)

-----------------------------------------------------------------------------
(* What the camera sends (external).                                       *)

Header == Bytes("header", 0, HeaderLen)

Hash == Bytes("hash", 0, HashLen)

CameraEncrypts ==
    /\ phase = "camera"
    /\ Len(segments) < MaxSegments
    /\ \E size \in {n * Block : n \in 1..MaxBlocks}, padding \in 1..Block :
          LET s == Len(segments) + 1 IN
          /\ segments' = Append(segments, [start |-> Len(encrypted), from |-> Len(original),
                                           size |-> size, padding |-> padding])
          /\ encrypted' = encrypted \o (Header \o Hash \o Bytes("cipher", s, size))
          /\ original' = original \o Bytes("plain", s, size - padding)
    /\ UNCHANGED <<looks, code, data, phase, cursor, blocks, joined, picture>>

-----------------------------------------------------------------------------
(* _decrypt_if_encrypted() and the first checks of decrypt_image().        *)

MinLength == HeaderLen + HashLen

HeaderAt(bytes, i) ==
    /\ i + HeaderLen <= Len(bytes) + 1
    /\ \A k \in 1..HeaderLen : bytes[i + k - 1] = Header[k]

\* data.find(HIK_ENCRYPTION_HEADER, from) gives the first of them.
Headers(bytes, from) == {i \in from..Len(bytes) : HeaderAt(bytes, i)}

\* The answer ends after n bytes.  What holds no header is passed on as it is.
ImageArrives ==
    /\ phase = "camera"
    /\ segments # <<>>
    /\ data' \in {SubSeq(encrypted, 1, n) : n \in 1..Len(encrypted)}
    /\ code' \in {"right", "wrong", "none"}
    /\ \/ /\ Headers(data', 1) = {}
          /\ phase' = "done"
          /\ picture' = Given(data')
       \/ /\ Headers(data', 1) # {}
          /\ code' = "none" \/ Len(data') < MinLength
          /\ phase' = "done"
          /\ picture' = Error
       \/ /\ Headers(data', 1) # {}
          /\ code' # "none" /\ Len(data') >= MinLength
          /\ phase' = "split"
          /\ UNCHANGED picture
    /\ UNCHANGED <<encrypted, original, segments, looks, cursor, blocks, joined>>

-----------------------------------------------------------------------------
(* _split_segments().                                                      *)

RoomAtCursor == cursor + MinLength <= Len(data) + 1

\* What comes before a header is passed over.
SkipToHeader ==
    /\ phase = "split"
    /\ RoomAtCursor
    /\ ~ HeaderAt(data, cursor)
    /\ Headers(data, cursor + 1) # {}
    /\ cursor' = Min(Headers(data, cursor + 1))
    /\ UNCHANGED <<encrypted, original, segments, looks, code, data, phase, blocks, joined, picture>>

NextHeaders == Headers(data, cursor + HeaderLen)

BlockEnd == IF NextHeaders = {} THEN Len(data) ELSE Min(NextHeaders) - 1

TakesBlock == RoomAtCursor /\ HeaderAt(data, cursor) /\ BlockEnd + 1 >= cursor + MinLength

TakeBlock ==
    /\ phase = "split"
    /\ TakesBlock
    /\ blocks' = Append(blocks, [first |-> cursor, last |-> BlockEnd])
    /\ IF NextHeaders = {}
       THEN phase' = "decrypt" /\ UNCHANGED cursor
       ELSE cursor' = Min(NextHeaders) /\ UNCHANGED phase
    /\ UNCHANGED <<encrypted, original, segments, looks, code, data, joined, picture>>

\* The loop is left before the end of data.  That there is no block at all is an error.
SplitEnds ==
    /\ phase = "split"
    /\ ~ TakesBlock
    /\ RoomAtCursor /\ ~ HeaderAt(data, cursor) => Headers(data, cursor + 1) = {}
    /\ IF blocks = <<>>
       THEN phase' = "done" /\ picture' = Error
       ELSE phase' = "decrypt" /\ UNCHANGED picture
    /\ UNCHANGED <<encrypted, original, segments, looks, code, data, cursor, blocks, joined>>

-----------------------------------------------------------------------------
(* _decrypt_segment(), for one block after the other.                      *)

SameBlock(i, k) == (i - 1) \div Block = (k - 1) \div Block

\* The first n bytes decrypted.  A block gives plain bytes if it is a whole cipher block in
\* its place.
Decrypted(cipher, n) ==
    [i \in 1..n |->
        IF \A k \in 1..n : SameBlock(i, k) => cipher[k] = Byte("cipher", cipher[i].segment, k)
        THEN Byte("plain", cipher[i].segment, i)
        ELSE Byte("garbage", 0, i)]

\* Faulty DecryptBlock: an incomplete last block is filled up instead of left out.
DecryptBlockFilled(cipher) ==
    LET missing == (Block - (Len(cipher) % Block)) % Block
    IN Decrypted(cipher \o Bytes("zero", 0, missing), Len(cipher) + missing)

\* decrypt_block(): the whole blocks.
DecryptBlock(cipher) == Decrypted(cipher, Len(cipher) - (Len(cipher) % Block))

\* The value of a decrypted byte, as far as it may be a padding length.
Value(byte) ==
    IF byte.of = "plain"
           /\ byte.at + segments[byte.segment].padding > segments[byte.segment].size
    THEN segments[byte.segment].padding
    ELSE looks

\* plain[: len(plain) - length], which a length beyond the beginning makes empty.
Without(plain, length) == SubSeq(plain, 1, Len(plain) - length)

\* Faulty Unpadded: a full block of padding is not taken for one.
UnpaddedBelow(plain) ==
    LET last == Value(Last(plain)) IN
    IF 0 < last /\ last < Block THEN Without(plain, last) ELSE plain

Unpadded(plain) ==
    LET last == Value(Last(plain)) IN
    IF 0 < last /\ last <= Block THEN Without(plain, last) ELSE plain

\* One segment that cannot be decrypted fails them all.
DecryptSegment ==
    /\ phase = "decrypt"
    /\ joined < Len(blocks)
    /\ LET block == blocks[joined + 1]
           plain == DecryptBlock(SubSeq(data, block.first + MinLength, block.last))
       IN IF code # "right" \/ plain = <<>>
          THEN phase' = "done" /\ picture' = Error /\ UNCHANGED joined
          ELSE /\ picture' = Given(picture.data \o Unpadded(plain))
               /\ joined' = joined + 1
               /\ UNCHANGED phase
    /\ UNCHANGED <<encrypted, original, segments, looks, code, data, cursor, blocks>>

GivesPicture ==
    /\ phase = "decrypt"
    /\ joined = Len(blocks)
    /\ phase' = "done"
    /\ UNCHANGED <<encrypted, original, segments, looks, code, data, cursor, blocks, joined, picture>>

ImageNext ==
    \/ CameraEncrypts \/ ImageArrives
    \/ SkipToHeader \/ TakeBlock \/ SplitEnds
    \/ DecryptSegment \/ GivesPicture

ImageSpec == ImageInit /\ [][ImageNext]_imageVars

-----------------------------------------------------------------------------
(* Properties.                                                             *)

\* media.py, decrypt_image: wherever an encrypted picture breaks off, once its first header
\* has arrived the caller is given the beginning of the original picture or an error, and
\* never ciphertext, padding of a segment that is whole, or bytes in a wrong place.
CutPictureIsPrefix ==
    phase = "done" /\ picture.ok /\ Len(data) >= segments[1].start + HeaderLen =>
        IsPrefix(picture.data, original)

\* A picture that arrived whole is given out to its last byte, however many segments it
\* has and whatever its last bytes look like, if the code is the right one.
WholePictureIsExact ==
    phase = "done" /\ data = encrypted =>
        picture = IF code = "right" THEN Given(original) ELSE Error
=============================================================================
