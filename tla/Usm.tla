--------------------------------- MODULE Usm ---------------------------------
(***************************************************************************)
(* The two ciphers of a video payload (src/stages/usm.py).  A payload is    *)
(* seen through one bit of each of its 32-byte blocks, always at the same   *)
(* place: all of the old cipher is XOR, so that the bits do not meet.  The  *)
(* head is what comes before CIPHER_START, the tail the partial last block. *)
(***************************************************************************)
EXTENDS Mask, FiniteSets

CONSTANTS
    HeadBlocks,     \* HEAD_SIZE, in blocks
    MinMasked,      \* MIN_MASKED, in blocks
    Column, Weight  \* the place: entry of the mask, and weight of the bit in it

ASSUME UsmAssumption ==
    /\ HeadBlocks \in Nat \ {0}
    /\ MinMasked \in Nat /\ MinMasked >= 2 * HeadBlocks
    /\ Column \in Entries /\ Weight \in {1, 2, 4, 8, 16, 32, 64, 128}

Bits == 0 .. 1

\* A payload begins with a head, unless it is shorter than that.
Payloads ==
    {p \in [format : {"DKIF", "other"}, head : Seq(Bits), body : Seq(Bits), tail : Seq(Bits)] :
        Len(p.head) <= HeadBlocks}

Flip(a, b) == (a + b) % 2

\* The XOR of the first n bits.
Parity(bits, n) == Cardinality({i \in 1 .. n : bits[i] = 1}) % 2

MaskBit(mask) == (mask[Column] \div Weight) % 2

\* One block less is enough for the mask.
MutantIsMasked(p) == Len(p.head) + Len(p.body) >= MinMasked - 1

IsMasked(p) == Len(p.head) + Len(p.body) >= MinMasked

\* The running XOR of the body's ciphertext.
Running(body) == [i \in 1 .. Len(body) |-> Parity(body, i)]

\* The tail is masked as the blocks of its parity are.
MutantDecryptVideo(p, mask) ==
    LET mask1 == MaskBit(mask)
        mask2 == 1 - mask1
        running == Running(p.body)
        body == [i \in 1 .. Len(p.body) |-> IF i % 2 = 1 THEN Flip(running[i], mask2) ELSE running[i]]
        later(i) == Parity(body, i)
    IN IF ~IsMasked(p) THEN p
       ELSE [p EXCEPT !.body = body,
                      !.tail = [i \in 1 .. Len(@) |-> Flip(@[i], running[Len(p.body)])],
                      !.head = [i \in 1 .. Len(@) |-> Flip(@[i], Flip(mask1, later(i)))]]

\* USM.decrypt_video: the body, then the tail, then the head from the body.
DecryptVideo(p, mask) ==
    LET mask1 == MaskBit(mask)
        mask2 == 1 - mask1
        running == Running(p.body)
        body == [i \in 1 .. Len(p.body) |-> IF i % 2 = 1 THEN Flip(running[i], mask2) ELSE running[i]]
        later(i) == Parity(body, i)
    IN IF ~IsMasked(p) THEN p
       ELSE [p EXCEPT !.body = body,
                      !.tail = [i \in 1 .. Len(@) |-> Flip(@[i], Flip(body[Len(body)], mask2))],
                      !.head = [i \in 1 .. Len(@) |-> Flip(@[i], Flip(mask1, later(i)))]]

\* decrypt_stream: AES-CTR from MASK_START on, seen as a bit of its key stream
\* that is the same throughout a payload, and by the payload's own time.
DecryptStream(p, pad) ==
    [p EXCEPT !.head = [i \in 1 .. Len(@) |-> Flip(@[i], pad)],
              !.body = [i \in 1 .. Len(@) |-> Flip(@[i], pad)],
              !.tail = [i \in 1 .. Len(@) |-> Flip(@[i], pad)]]

-----------------------------------------------------------------------------
\* The game's side of the old cipher: which payloads it masks ...
Masks(p) == Len(p.head) + Len(p.body) >= MinMasked

\* ... and how.  The mask of a block is mask2 for the first one, and then the
\* plaintext before XOR mask2; that of the head's blocks is mask1 XOR all of the
\* body's plaintext up to the same place.
Mask2Chain(p, mask2) ==
    [i \in 1 .. Len(p.body) + 1 |-> IF i = 1 THEN mask2 ELSE Flip(p.body[i - 1], mask2)]

Encrypt(p, mask) ==
    LET mask1 == MaskBit(mask)
        chain == Mask2Chain(p, 1 - mask1)
    IN IF ~Masks(p) THEN p
       ELSE [p EXCEPT !.body = [i \in 1 .. Len(@) |-> Flip(@[i], chain[i])],
                      !.tail = [i \in 1 .. Len(@) |-> Flip(@[i], chain[Len(p.body) + 1])],
                      !.head = [i \in 1 .. Len(@) |->
                                   Flip(@[i], Flip(mask1, Parity(p.body, i)))]]
=============================================================================
