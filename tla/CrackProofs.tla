---------------------------- MODULE CrackProofs ----------------------------
(***************************************************************************)
(* That a key which is recovered is the one of the video, and that what     *)
(* demux then writes is the video, for every key, every content of the      *)
(* payloads, every length of them and every number of chunks.  The laws of  *)
(* the mask and of the old cipher come first, then the walk over the file.  *)
(***************************************************************************)
EXTENDS Crack, FiniteSetTheorems, WellFoundedInduction, TLAPS

LEMMA Bytes ==
    /\ \A x, y \in Byte : Xor(x, y) \in Byte /\ Add(x, y) \in Byte /\ Sub(x, y) \in Byte
    /\ {\h10, \h13, \h21, \h32, \h34, \h44, \h61, \hED, \hF3, \hF9, \hFF} \subseteq Byte
<1>1. \A x, y \in Byte : Xor(x, y) \in Byte
  BY DEF Xor, XorAt, Byte
<1>2. \A x, y \in Byte : Add(x, y) \in Byte /\ Sub(x, y) \in Byte
  BY DEF Add, Sub, Byte
<1>3. {\h10, \h13, \h21, \h32, \h34, \h44, \h61, \hED, \hF3, \hF9, \hFF} \subseteq Byte
  BY DEF Byte
<1> QED BY <1>1, <1>2, <1>3

\* The lines of build_mask from m[0x07] on, as laws of a mask.
Lines(m) ==
    /\ m[\h07] = Xor(m[\h00], \hFF)   /\ m[\h08] = Add(m[\h02], m[\h01])
    /\ m[\h09] = Sub(m[\h01], m[\h07]) /\ m[\h0A] = Xor(m[\h02], \hFF)
    /\ m[\h0B] = Xor(m[\h01], \hFF)   /\ m[\h0C] = Add(m[\h0B], m[\h09])
    /\ m[\h0D] = Sub(m[\h08], m[\h03]) /\ m[\h0E] = Xor(m[\h0D], \hFF)
    /\ m[\h0F] = Sub(m[\h0A], m[\h0B]) /\ m[\h10] = Sub(m[\h08], m[\h0F])
    /\ m[\h11] = Xor(m[\h10], m[\h07]) /\ m[\h12] = Xor(m[\h0F], \hFF)
    /\ m[\h13] = Xor(m[\h03], \h10)   /\ m[\h14] = Sub(m[\h04], \h32)
    /\ m[\h15] = Add(m[\h05], \hED)   /\ m[\h16] = Xor(m[\h06], \hF3)
    /\ m[\h17] = Sub(m[\h13], m[\h0F]) /\ m[\h18] = Add(m[\h15], m[\h07])
    /\ m[\h19] = Sub(\h21, m[\h13])   /\ m[\h1A] = Xor(m[\h14], m[\h17])
    /\ m[\h1B] = Add(m[\h16], m[\h16]) /\ m[\h1C] = Add(m[\h17], \h44)
    /\ m[\h1D] = Add(m[\h03], m[\h04]) /\ m[\h1E] = Sub(m[\h05], m[\h16])
    /\ m[\h1F] = Xor(m[\h1D], m[\h13])

LEMMA MaskLaws ==
    ASSUME NEW k
    PROVE  LET m == BuildMask(k)
           IN /\ m = [e \in Entries |-> m[e]]
              /\ m[0] = k[1] /\ m[1] = k[2] /\ m[2] = k[3] /\ m[3] = Sub(k[4], \h34)
              /\ m[4] = Add(k[5], \hF9) /\ m[5] = Xor(k[6], \h13) /\ m[6] = Add(k[7], \h61)
              /\ Lines(m)
<1>0. PICK t : t = MaskLines(k)
  OBVIOUS
<1>1. BuildMask(k) = [e \in Entries |-> t[e + 1]]
  BY <1>0 DEF BuildMask
<1>2. /\ t[1] = k[1] /\ t[2] = k[2] /\ t[3] = k[3] /\ t[4] = Sub(k[4], \h34)
      /\ t[5] = Add(k[5], \hF9) /\ t[6] = Xor(k[6], \h13) /\ t[7] = Add(k[7], \h61)
  BY <1>0 DEF MaskLines
<1>3. Lines([e \in Entries |-> t[e + 1]])
  BY <1>0 DEF MaskLines, Lines, Entries
<1> QED BY <1>1, <1>2, <1>3 DEF Entries

LEMMA MaskType == \A k \in KeyBytes : BuildMask(k) \in [Entries -> Byte]
<1> TAKE k \in KeyBytes
<1> DEFINE m == BuildMask(k)
<1>0. k[1] \in Byte /\ k[2] \in Byte /\ k[3] \in Byte /\ k[4] \in Byte /\ k[5] \in Byte
      /\ k[6] \in Byte /\ k[7] \in Byte
  BY DEF KeyBytes
<1>1. /\ m = [e \in Entries |-> m[e]]
      /\ m[0] \in Byte /\ m[1] \in Byte /\ m[2] \in Byte /\ m[3] \in Byte
      /\ m[4] \in Byte /\ m[5] \in Byte /\ m[6] \in Byte
  BY <1>0, MaskLaws, Bytes
<1>2. Lines(m)
  BY MaskLaws
<1> HIDE DEF m
<1>3. m[\h07] \in Byte /\ m[\h08] \in Byte /\ m[\h0A] \in Byte /\ m[\h0B] \in Byte
      /\ m[\h13] \in Byte /\ m[\h14] \in Byte /\ m[\h15] \in Byte /\ m[\h16] \in Byte
      /\ m[\h1D] \in Byte
  BY <1>1, <1>2, Bytes DEF Lines
<1>4. m[\h09] \in Byte /\ m[\h0D] \in Byte /\ m[\h0F] \in Byte /\ m[\h18] \in Byte
      /\ m[\h19] \in Byte /\ m[\h1B] \in Byte /\ m[\h1E] \in Byte /\ m[\h1F] \in Byte
  BY <1>1, <1>2, <1>3, Bytes DEF Lines
<1>5. m[\h0C] \in Byte /\ m[\h0E] \in Byte /\ m[\h10] \in Byte /\ m[\h12] \in Byte
      /\ m[\h17] \in Byte
  BY <1>1, <1>2, <1>3, <1>4, Bytes DEF Lines
<1>6. m[\h11] \in Byte /\ m[\h1A] \in Byte /\ m[\h1C] \in Byte
  BY <1>1, <1>2, <1>3, <1>4, <1>5, Bytes DEF Lines
<1>7. \A e \in Entries : m[e] \in Byte
  BY <1>1, <1>3, <1>4, <1>5, <1>6 DEF Entries
<1>8. m \in [Entries -> Byte]
  BY <1>1, <1>7
<1> QED BY <1>8 DEF m

LEMMA Unxor == \A x \in Byte : Xor(Xor(x, \h13), \h13) = x
<1> TAKE x \in Byte
<1> DEFINE b(w) == (x \div w) % 2
<1>1. x = b(1) + 2 * b(2) + 4 * b(4) + 8 * b(8) + 16 * b(16) + 32 * b(32) + 64 * b(64)
              + 128 * b(128)
  BY DEF Byte
<1> QED BY <1>1 DEF Xor, XorAt, Byte

LEMMA Unadd == \A x, c \in Byte : Sub(Add(x, c), c) = x /\ Add(Sub(x, c), c) = x
BY DEF Add, Sub, Byte

\* key_from_mask undoes build_mask.
LEMMA KeyOfMask == \A k \in KeyBytes : KeyFromMask(BuildMask(k)) = k
<1> TAKE k \in KeyBytes
<1> DEFINE m == BuildMask(k)
<1>1. \A i \in 1 .. 7 : k[i] \in Byte
  BY DEF KeyBytes
<1>2. \h34 \in Byte /\ \hF9 \in Byte /\ \h61 \in Byte
  BY DEF Byte
<1>3. /\ m[0] = k[1] /\ m[1] = k[2] /\ m[2] = k[3] /\ Add(m[3], \h34) = k[4]
      /\ Sub(m[4], \hF9) = k[5] /\ Xor(m[5], \h13) = k[6] /\ Sub(m[6], \h61) = k[7]
  BY <1>1, <1>2, MaskLaws, Unadd, Unxor
<1> HIDE DEF m
<1>4. KeyFromMask(m) = <<k[1], k[2], k[3], k[4], k[5], k[6], k[7]>>
  BY <1>3 DEF KeyFromMask
<1>5. k = <<k[1], k[2], k[3], k[4], k[5], k[6], k[7]>>
  BY DEF KeyBytes
<1> QED BY <1>4, <1>5 DEF m

-----------------------------------------------------------------------------
\* A candidate whose entries are those of the mask that its values goal at, as
\* far as the first n stages go.
Agrees(m, goal, n) == m \in [Entries -> Byte] /\ \A e \in Known(n) : m[e] = goal[e]

LEMMA Known0 == Known(0) = {}
BY DEF Known

LEMMA KnownGrows ==
    \A n \in 0 .. 5 : Known(n + 1) = Known(n) \cup Stages[n + 1].entries
<1> TAKE n \in 0 .. 5
<1>1. 1 .. n + 1 = (1 .. n) \cup {n + 1}
  OBVIOUS
<1> QED BY <1>1 DEF Known

LEMMA KnownAll ==
    /\ Known(1) = {\h01, \h02, \h08, \h0A, \h0B, \h0F, \h10, \h12}
    /\ Known(2) = Known(1) \cup {\h00, \h07, \h09, \h0C, \h11}
    /\ Known(3) = Known(2) \cup {\h03, \h0D, \h0E, \h13, \h17, \h19, \h1C}
    /\ Known(4) = Known(3) \cup {\h04, \h14, \h1A, \h1D, \h1F}
    /\ Known(5) = Known(4) \cup {\h06, \h16, \h1B}
    /\ Known(6) = Known(5) \cup {\h05, \h15, \h18, \h1E}
    /\ Known(6) = Entries
<1>1. /\ Known(1) = Known(0) \cup Stages[1].entries
      /\ Known(2) = Known(1) \cup Stages[2].entries
      /\ Known(3) = Known(2) \cup Stages[3].entries
      /\ Known(4) = Known(3) \cup Stages[4].entries
      /\ Known(5) = Known(4) \cup Stages[5].entries
      /\ Known(6) = Known(5) \cup Stages[6].entries
  BY KnownGrows
<1>2. /\ Known(1) = {\h01, \h02, \h08, \h0A, \h0B, \h0F, \h10, \h12}
      /\ Known(2) = Known(1) \cup {\h00, \h07, \h09, \h0C, \h11}
      /\ Known(3) = Known(2) \cup {\h03, \h0D, \h0E, \h13, \h17, \h19, \h1C}
      /\ Known(4) = Known(3) \cup {\h04, \h14, \h1A, \h1D, \h1F}
      /\ Known(5) = Known(4) \cup {\h06, \h16, \h1B}
      /\ Known(6) = Known(5) \cup {\h05, \h15, \h18, \h1E}
  BY <1>1, Known0 DEF Stages
<1>3. Known(6) = Entries
  BY <1>2 DEF Entries
<1> QED BY <1>2, <1>3

\* A stage reads entries of earlier stages only, and sets its own as build_mask.
LEMMA StageAgrees ==
    ASSUME NEW k \in KeyBytes, NEW goal, goal = BuildMask(k), NEW n \in 0 .. 5, NEW m,
           Agrees(m, goal, n)
    PROVE  Agrees(Expand(m, Stages[n + 1].expand, goal), goal, n + 1)
<1>1. Lines(goal) /\ goal \in [Entries -> Byte]
  BY MaskLaws, MaskType
<1>2. m \in [Entries -> Byte] /\ \A e \in Known(n) : m[e] = goal[e]
  BY DEF Agrees
<1> DEFINE x == Expand(m, Stages[n + 1].expand, goal)
<1> SUFFICES x \in [Entries -> Byte] /\ \A e \in Known(n + 1) : x[e] = goal[e]
  BY DEF Agrees
<1>a. CASE n = 0
  <2>1. x = Expand12(m, goal)
    BY <1>a DEF Expand, Stages
  <2> HIDE DEF x
  <2>2. x = [m EXCEPT ![1] = goal[1], ![2] = goal[2], ![\h08] = goal[8], ![\h0A] = goal[10],
                      ![\h0B] = goal[11], ![\h0F] = goal[15], ![\h10] = goal[16],
                      ![\h12] = goal[18]]
    BY <2>1, <1>1 DEF Expand12, Lines
  <2> QED BY <2>2, <1>1, <1>2, <1>a, KnownAll DEF Entries
<1>b. CASE n = 1
  <2>1. x = Expand0(m, goal)
    BY <1>b DEF Expand, Stages
  <2> HIDE DEF x
  <2>0. m[1] = goal[1] /\ m[\h0B] = goal[\h0B] /\ m[\h10] = goal[\h10]
    BY <1>2, <1>b, KnownAll
  <2>2. x = [m EXCEPT ![0] = goal[0], ![\h07] = goal[7], ![\h09] = goal[9], ![\h0C] = goal[12],
                      ![\h11] = goal[17]]
    BY <2>0, <2>1, <1>1 DEF Expand0, Lines
  <2> QED BY <2>2, <1>1, <1>2, <1>b, KnownAll DEF Entries
<1>c. CASE n = 2
  <2>1. x = Expand3(m, goal)
    BY <1>c DEF Expand, Stages
  <2> HIDE DEF x
  <2>0. m[\h08] = goal[\h08] /\ m[\h0F] = goal[\h0F]
    BY <1>2, <1>c, KnownAll
  <2>2. x = [m EXCEPT ![3] = goal[3], ![\h0D] = goal[13], ![\h0E] = goal[14], ![\h13] = goal[19],
                      ![\h17] = goal[23], ![\h19] = goal[25], ![\h1C] = goal[28]]
    BY <2>0, <2>1, <1>1 DEF Expand3, Lines
  <2> QED BY <2>2, <1>1, <1>2, <1>c, KnownAll DEF Entries
<1>d. CASE n = 3
  <2>1. x = Expand4(m, goal)
    BY <1>d DEF Expand, Stages
  <2> HIDE DEF x
  <2>0. m[3] = goal[3] /\ m[\h17] = goal[\h17] /\ m[\h13] = goal[\h13]
    BY <1>2, <1>d, KnownAll
  <2>2. x = [m EXCEPT ![4] = goal[4], ![\h14] = goal[20], ![\h1A] = goal[26], ![\h1D] = goal[29],
                      ![\h1F] = goal[31]]
    BY <2>0, <2>1, <1>1 DEF Expand4, Lines
  <2> QED BY <2>2, <1>1, <1>2, <1>d, KnownAll DEF Entries
<1>e. CASE n = 4
  <2>1. x = Expand6(m, goal)
    BY <1>e DEF Expand, Stages
  <2> HIDE DEF x
  <2>2. x = [m EXCEPT ![6] = goal[6], ![\h16] = goal[22], ![\h1B] = goal[27]]
    BY <2>1, <1>1 DEF Expand6, Lines
  <2> QED BY <2>2, <1>1, <1>2, <1>e, KnownAll DEF Entries
<1>f. CASE n = 5
  <2>1. x = Expand5(m, goal)
    BY <1>f DEF Expand, Stages
  <2> HIDE DEF x
  <2>0. m[7] = goal[7] /\ m[\h16] = goal[\h16]
    BY <1>2, <1>f, KnownAll
  <2>2. x = [m EXCEPT ![5] = goal[5], ![\h15] = goal[21], ![\h18] = goal[24], ![\h1E] = goal[30]]
    BY <2>0, <2>1, <1>1 DEF Expand5, Lines
  <2> QED BY <2>2, <1>1, <1>2, <1>f, KnownAll DEF Entries
<1> QED BY <1>a, <1>b, <1>c, <1>d, <1>e, <1>f

-----------------------------------------------------------------------------
LEMMA Least ==
    ASSUME NEW T, T \subseteq Nat, T # {}
    PROVE  \E x \in T : \A y \in T : x <= y
<1> DEFINE R == OpToRel(<, Nat)
<1>1. PICK x \in T : \A y \in T : <<y, x>> \notin R
  BY NatLessThanWellFounded, WFMin
<1>2. \A m, n \in Nat : m < n => <<m, n>> \in R
  BY DEF OpToRel
<1>3. \A y \in T : x <= y
  <2> HIDE DEF R
  <2> TAKE y \in T
  <2>1. <<y, x>> \notin R /\ (y < x => <<y, x>> \in R)
    BY <1>1, <1>2
  <2> QED BY <2>1
<1> QED BY <1>3

\* Induction, over a set of numbers.
LEMMA Induct ==
    ASSUME NEW S, 0 \in S, \A n \in Nat : n \in S => n + 1 \in S
    PROVE  Nat \subseteq S
<1> SUFFICES ASSUME ~(Nat \subseteq S) PROVE FALSE OBVIOUS
<1>1. PICK n \in Nat \ S : \A m \in Nat \ S : n <= m
  BY Least
<1>2. n - 1 \in Nat /\ n - 1 \notin S
  BY <1>1
<1> QED BY <1>1, <1>2

LEMMA FlipLaws ==
    \A a, b \in Bits : /\ Flip(a, b) \in Bits /\ Flip(a, b) = Flip(b, a)
                       /\ Flip(a, 0) = a /\ Flip(Flip(a, b), b) = a
BY DEF Flip, Bits

\* How many of the first n numbers are in a set.
Count(S, n) == Cardinality({i \in 1 .. n : i \in S})

LEMMA CountStep ==
    ASSUME NEW S, NEW n \in Nat
    PROVE  /\ Count(S, 0) = 0 /\ Count(S, n) \in 0 .. n
           /\ Count(S, n + 1) = IF n + 1 \in S THEN Count(S, n) + 1 ELSE Count(S, n)
<1> DEFINE P(m) == {i \in 1 .. m : i \in S}
<1>1. IsFiniteSet(1 .. n) /\ Cardinality(1 .. n) = n
  BY FS_Interval
<1>2. IsFiniteSet(P(n)) /\ Cardinality(P(n)) <= n /\ Cardinality(P(n)) \in Nat
  BY <1>1, FS_Subset, FS_CardinalityType
<1>3. P(n + 1) = IF n + 1 \in S THEN P(n) \cup {n + 1} ELSE P(n)
  OBVIOUS
<1>4. n + 1 \notin P(n)
  OBVIOUS
<1> HIDE DEF P
<1>5. Cardinality(P(n + 1)) = IF n + 1 \in S THEN Cardinality(P(n)) + 1 ELSE Cardinality(P(n))
  BY <1>2, <1>3, <1>4, FS_AddElement
<1>6. Count(S, 0) = 0
  <2>1. {i \in 1 .. 0 : i \in S} = {}
    OBVIOUS
  <2> QED BY <2>1, FS_EmptySet DEF Count
<1>7. Count(S, n) = Cardinality(P(n)) /\ Count(S, n + 1) = Cardinality(P(n + 1))
  BY DEF Count, P
<1> QED BY <1>2, <1>5, <1>6, <1>7

LEMMA ParityStep ==
    ASSUME NEW b, NEW n \in Nat
    PROVE  /\ Parity(b, 0) = 0 /\ Parity(b, n) \in Bits
           /\ b[n + 1] \in Bits => Parity(b, n + 1) = Flip(Parity(b, n), b[n + 1])
<1> DEFINE S == {i \in Nat : b[i] = 1}
<1>1. \A m \in Nat : Parity(b, m) = Count(S, m) % 2
  <2> TAKE m \in Nat
  <2>1. {i \in 1 .. m : b[i] = 1} = {i \in 1 .. m : i \in S}
    OBVIOUS
  <2> QED BY <2>1 DEF Parity, Count
<1>2. n + 1 \in S <=> b[n + 1] = 1
  OBVIOUS
<1> HIDE DEF S
<1>3. Parity(b, 0) = 0 /\ Parity(b, n) = Count(S, n) % 2
      /\ Parity(b, n + 1) = Count(S, n + 1) % 2
  BY <1>1, CountStep
<1> QED BY <1>2, <1>3, CountStep DEF Flip, Bits

-----------------------------------------------------------------------------
\* What the running XOR of the ciphertext comes to: the identity that both
\* decrypt_video and the solver rely on.
LEMMA RunningLaw ==
    ASSUME NEW b \in Seq(Bits), NEW m2 \in Bits, NEW c,
           \A i \in 1 .. Len(b) : c[i] = Flip(b[i], IF i = 1 THEN m2 ELSE Flip(b[i - 1], m2))
    PROVE  \A i \in 1 .. Len(b) : Parity(c, i) = IF i % 2 = 1 THEN Flip(b[i], m2) ELSE b[i]
<1> DEFINE Law(i) == Parity(c, i) = IF i = 0 THEN 0
                                    ELSE IF i % 2 = 1 THEN Flip(b[i], m2) ELSE b[i]
           S == {i \in Nat : i <= Len(b) => Law(i)}
<1>1. Len(b) \in Nat /\ \A i \in 1 .. Len(b) : b[i] \in Bits
  OBVIOUS
<1>2. 0 \in S
  BY ParityStep
<1>3. ASSUME NEW n \in Nat, n \in S PROVE n + 1 \in S
  <2> SUFFICES ASSUME n + 1 <= Len(b) PROVE Law(n + 1)
    OBVIOUS
  <2>1. Law(n)
    BY <1>1, <1>3
  <2>2. b[n + 1] \in Bits /\ (n # 0 => b[n] \in Bits)
    BY <1>1
  <2>3. c[n + 1] = Flip(b[n + 1], IF n = 0 THEN m2 ELSE Flip(b[n], m2))
    BY <1>1
  <2>4. c[n + 1] \in Bits
    BY <2>2, <2>3, FlipLaws
  <2>5. Parity(c, n + 1) = Flip(Parity(c, n), c[n + 1])
    BY <2>4, ParityStep
  <2>6. CASE n = 0
    BY <2>1, <2>2, <2>3, <2>5, <2>6 DEF Flip, Bits
  <2>7. CASE n # 0 /\ n % 2 = 1
    <3>1. (n + 1) % 2 = 0
      BY <2>7
    <3>2. Parity(c, n + 1) = b[n + 1]
      BY <2>1, <2>2, <2>3, <2>5, <2>7 DEF Flip, Bits
    <3> QED BY <3>1, <3>2
  <2>8. CASE n # 0 /\ n % 2 # 1
    <3>1. n % 2 = 0 /\ (n + 1) % 2 = 1
      BY <2>8, SMTT(30)
    <3>2. Parity(c, n + 1) = Flip(b[n + 1], m2)
      BY <2>1, <2>2, <2>3, <2>5, <2>8 DEF Flip, Bits
    <3> QED BY <3>1, <3>2
  <2> QED BY <2>6, <2>7, <2>8
<1>4. Nat \subseteq S
  <2> HIDE DEF S
  <2> QED BY <1>2, <1>3, Induct
<1> QED BY <1>1, <1>4

LEMMA MaskBits ==
    ASSUME NEW m \in [Entries -> Byte]
    PROVE  MaskBit(m) \in Bits /\ 1 - MaskBit(m) \in Bits
<1>1. m[Column] \in Int /\ m[Column] \div Weight \in Int
  BY UsmAssumption DEF Byte
<1> QED BY <1>1 DEF MaskBit, Bits

\* A payload that the game has masked.
LEMMA CipherLaw ==
    ASSUME NEW p \in Payloads, NEW m \in [Entries -> Byte], Masks(p)
    PROVE  LET m1 == MaskBit(m)
               m2 == 1 - m1
               c == Encrypt(p, m)
               b == p.body
           IN /\ c.format = p.format
              /\ Len(b) \in Nat \ {0} /\ Len(c.body) = Len(b)
              /\ c.body = [i \in 1 .. Len(b) |->
                               Flip(b[i], IF i = 1 THEN m2 ELSE Flip(b[i - 1], m2))]
              /\ c.tail = [i \in 1 .. Len(p.tail) |-> Flip(p.tail[i], Flip(b[Len(b)], m2))]
              /\ Len(c.tail) = Len(p.tail)
              /\ c.head = [i \in 1 .. Len(p.head) |-> Flip(p.head[i], Flip(m1, Parity(b, i)))]
              /\ Len(c.head) = Len(p.head)
              /\ c = [format |-> c.format, head |-> c.head, body |-> c.body, tail |-> c.tail]
<1> DEFINE m1 == MaskBit(m)
           m2 == 1 - m1
           b == p.body
           chain == Mask2Chain(p, m2)
           body == [i \in 1 .. Len(b) |-> Flip(b[i], chain[i])]
           tail == [i \in 1 .. Len(p.tail) |-> Flip(p.tail[i], chain[Len(b) + 1])]
           head == [i \in 1 .. Len(p.head) |-> Flip(p.head[i], Flip(m1, Parity(b, i)))]
<1>1. /\ p = [format |-> p.format, head |-> p.head, body |-> p.body, tail |-> p.tail]
      /\ b \in Seq(Bits) /\ p.tail \in Seq(Bits) /\ p.head \in Seq(Bits)
      /\ Len(p.head) <= HeadBlocks
  BY DEF Payloads
<1>2. Len(b) \in Nat \ {0} /\ Len(p.tail) \in Nat /\ Len(p.head) \in Nat
  BY <1>1, UsmAssumption DEF Masks
<1>3. Encrypt(p, m) = [p EXCEPT !.body = body, !.tail = tail, !.head = head]
  BY DEF Encrypt
<1>4. Encrypt(p, m) = [format |-> p.format, head |-> head, body |-> body, tail |-> tail]
  <2> HIDE DEF body, tail, head
  <2> QED BY <1>1, <1>3
<1>5. \A i \in 1 .. Len(b) : chain[i] = IF i = 1 THEN m2 ELSE Flip(b[i - 1], m2)
  BY <1>2 DEF Mask2Chain
<1>6. chain[Len(b) + 1] = Flip(b[Len(b)], m2)
  BY <1>2 DEF Mask2Chain
<1>7. body = [i \in 1 .. Len(b) |-> Flip(b[i], IF i = 1 THEN m2 ELSE Flip(b[i - 1], m2))]
  <2> HIDE DEF chain, m2
  <2> QED BY <1>5
<1>8. Len(body) = Len(b) /\ Len(tail) = Len(p.tail) /\ Len(head) = Len(p.head)
  <2> HIDE DEF chain, m2, m1
  <2> QED BY <1>2
<1>9. tail = [i \in 1 .. Len(p.tail) |-> Flip(p.tail[i], Flip(b[Len(b)], m2))]
  <2> HIDE DEF chain, m2
  <2> QED BY <1>6
<1> HIDE DEF body, tail
<1> QED BY <1>2, <1>4, <1>7, <1>8, <1>9

LEMMA RunningOfCipher ==
    ASSUME NEW p \in Payloads, NEW m \in [Entries -> Byte], Masks(p)
    PROVE  LET running == Running(Encrypt(p, m).body)
           IN /\ Len(p.body) \in Nat \ {0}
              /\ running = [i \in 1 .. Len(p.body) |->
                               IF i % 2 = 1 THEN Flip(p.body[i], 1 - MaskBit(m)) ELSE p.body[i]]
              /\ Len(running) = Len(p.body)
<1> DEFINE m2 == 1 - MaskBit(m)
           b == p.body
           c == Encrypt(p, m).body
<1>1. /\ Len(b) \in Nat \ {0} /\ Len(c) = Len(b)
      /\ c = [i \in 1 .. Len(b) |-> Flip(b[i], IF i = 1 THEN m2 ELSE Flip(b[i - 1], m2))]
  BY CipherLaw
<1>2. b \in Seq(Bits) /\ m2 \in Bits
  BY MaskBits DEF Payloads
<1> HIDE DEF m2, b, c
<1>3. \A i \in 1 .. Len(b) : Parity(c, i) = IF i % 2 = 1 THEN Flip(b[i], m2) ELSE b[i]
  <2>1. \A i \in 1 .. Len(b) : c[i] = Flip(b[i], IF i = 1 THEN m2 ELSE Flip(b[i - 1], m2))
    BY <1>1
  <2> QED BY <2>1, <1>2, RunningLaw
<1>4. Running(c) = [i \in 1 .. Len(b) |-> IF i % 2 = 1 THEN Flip(b[i], m2) ELSE b[i]]
  BY <1>1, <1>3 DEF Running
<1>5. Len(Running(c)) = Len(b)
  BY <1>1, <1>4
<1> QED BY <1>1, <1>4, <1>5 DEF m2, b, c

\* decrypt_video undoes what the game has done to a payload, whatever its length,
\* the parity of its blocks and the size of its tail (src/stages/usm.py:192-224).
THEOREM RoundTrip ==
    \A p \in Payloads, m \in [Entries -> Byte] : DecryptVideo(Encrypt(p, m), m) = p
<1> TAKE p \in Payloads, m \in [Entries -> Byte]
<1>1. CASE ~Masks(p)
  BY <1>1 DEF Encrypt, DecryptVideo, Masks, IsMasked
<1>2. CASE Masks(p)
  <2> DEFINE m1 == MaskBit(m)
             m2 == 1 - m1
             b == p.body
             c == Encrypt(p, m)
             running == Running(c.body)
             body == [i \in 1 .. Len(c.body) |->
                         IF i % 2 = 1 THEN Flip(running[i], m2) ELSE running[i]]
             tail == [i \in 1 .. Len(c.tail) |-> Flip(c.tail[i], Flip(body[Len(body)], m2))]
             head == [i \in 1 .. Len(c.head) |-> Flip(c.head[i], Flip(m1, Parity(body, i)))]
  <2>1. /\ p = [format |-> p.format, head |-> p.head, body |-> b, tail |-> p.tail]
        /\ b \in Seq(Bits) /\ p.tail \in Seq(Bits) /\ p.head \in Seq(Bits)
        /\ Len(p.head) \in Nat /\ Len(p.head) <= HeadBlocks
    BY DEF Payloads
  <2>2. m1 \in Bits /\ m2 \in Bits
    BY MaskBits
  <2>3. /\ c.format = p.format
        /\ Len(b) \in Nat \ {0} /\ Len(c.body) = Len(b)
        /\ c.tail = [i \in 1 .. Len(p.tail) |-> Flip(p.tail[i], Flip(b[Len(b)], m2))]
        /\ Len(c.tail) = Len(p.tail)
        /\ c.head = [i \in 1 .. Len(p.head) |-> Flip(p.head[i], Flip(m1, Parity(b, i)))]
        /\ Len(c.head) = Len(p.head)
        /\ c = [format |-> c.format, head |-> c.head, body |-> c.body, tail |-> c.tail]
    BY <1>2, CipherLaw
  <2>4. running = [i \in 1 .. Len(b) |-> IF i % 2 = 1 THEN Flip(b[i], m2) ELSE b[i]]
    BY <1>2, RunningOfCipher
  <2>5. IsMasked(c)
    BY <1>2, <2>3 DEF IsMasked, Masks
  <2>6. DecryptVideo(c, m) = [c EXCEPT !.body = body, !.tail = tail, !.head = head]
    BY <2>5 DEF DecryptVideo
  <2>7. body = b
    <3> HIDE DEF running, c, m2, b
    <3>1. \A i \in 1 .. Len(b) : b[i] \in Bits
      BY <2>1
    <3>2. \A i \in 1 .. Len(b) : body[i] = b[i]
      BY <2>2, <2>3, <2>4, <3>1, FlipLaws
    <3>3. b = [i \in 1 .. Len(b) |-> b[i]]
      BY <2>1
    <3> QED BY <2>3, <3>2, <3>3
  <2>8. tail = p.tail
    <3> HIDE DEF running, c, m2, b, body
    <3>1. Flip(b[Len(b)], m2) \in Bits /\ \A i \in 1 .. Len(p.tail) : p.tail[i] \in Bits
      BY <2>1, <2>2, <2>3, FlipLaws
    <3>2. \A i \in 1 .. Len(p.tail) : tail[i] = p.tail[i]
      BY <2>3, <2>7, <3>1, FlipLaws
    <3>3. p.tail = [i \in 1 .. Len(p.tail) |-> p.tail[i]]
      BY <2>1
    <3> QED BY <2>3, <3>2, <3>3
  <2>9. head = p.head
    <3> HIDE DEF running, c, m1, m2, b, body
    <3>1. \A i \in 1 .. Len(p.head) : Parity(b, i) \in Bits
      BY ParityStep
    <3>2. \A i \in 1 .. Len(p.head) : Flip(m1, Parity(b, i)) \in Bits /\ p.head[i] \in Bits
      BY <2>1, <2>2, <3>1, FlipLaws
    <3>3. \A i \in 1 .. Len(p.head) : head[i] = p.head[i]
      BY <2>3, <2>7, <3>2, FlipLaws
    <3>4. p.head = [i \in 1 .. Len(p.head) |-> p.head[i]]
      BY <2>1
    <3> QED BY <2>3, <3>3, <3>4
  <2> HIDE DEF body, tail, head, c, b
  <2>10. DecryptVideo(c, m) = [format |-> p.format, head |-> p.head, body |-> b, tail |-> p.tail]
    BY <2>3, <2>6, <2>7, <2>8, <2>9
  <2> QED BY <2>1, <2>10 DEF c
<1> QED BY <1>1, <1>2

-----------------------------------------------------------------------------
Labels == {"nonce", "collect", "judge", "solve", "solved", "demux"} \cup Over

Control ==
    /\ file \in Files /\ cracking \in BOOLEAN /\ pc \in Labels
    /\ at \in 0 .. Len(file.chunks)
    /\ turn \in Sides /\ side \in Sides /\ stage \in 0 .. Len(Stages)
    /\ pools = [s \in Sides |-> pools[s]] /\ solved = [s \in Sides |-> solved[s]]
    /\ pc \in {"collect", "judge", "solve", "solved"} => ~file.nonce
    /\ pc = "nonce" => at = 0

\* What is in a pool is a payload of the file that the game has masked, as the
\* statistics have it, and its ciphertext is known: it is not dealt again.
Dealt(r) ==
    /\ \E i \in 1 .. Len(file.chunks) : r.plain = file.chunks[i].plain
    /\ Masks(r.plain)
    /\ r.running = Running(Encrypt(r.plain, VideoMask).body)
    /\ Encrypt(r.plain, VideoMask) \in seen

PoolsAreApart ==
    /\ \A s \in Sides : \A r \in pools[s] : Dealt(r)
    /\ \A r \in pools[1], q \in pools[2] : r.plain # q.plain

\* The keys that a pool may be solved to.
Candidates(pool) == {Key} \cup {Misleads[r.plain] : r \in pool}
Aims(pool) == {BuildMask(k) : k \in Candidates(pool)}

\* What has been scored of a candidate after n stages.
Scores(m, n) ==
    {<<e, m[e]>> : e \in Known(n)}
        \cup {<<e, m[e], m[e + 1]>> : e \in {d \in 0 .. 30 : {d, d + 1} \subseteq Known(n)}}

Solving ==
    pc \in {"solve", "solved"} =>
        /\ aim \in Aims(pools[side]) /\ Agrees(mask, aim, stage) /\ scored = Scores(mask, stage)
        /\ pc = "solved" => stage = Len(Stages) /\ solved[side] = mask
        /\ side = 2 => solved[1] \in Aims(pools[1])

KeyIsRight ==
    /\ AcceptedIsRight
    /\ pc = "demux" /\ ~file.nonce => key = VideoMask

Demuxed ==
    /\ pc \in {"nonce", "collect", "judge", "solve", "solved"} => video = <<>>
    /\ pc = "demux" \/ (pc = "done" /\ ~cracking) =>
           /\ video \in Seq(Payloads) /\ Len(video) = Videos(at)
           /\ \A i \in 1 .. at : IsVideo(file.chunks[i]) => video[Videos(i)] = file.chunks[i].plain
    /\ pc = "done" /\ ~cracking =>
           \A i \in 1 .. Len(file.chunks) : i \in 1 .. at \/ ~IsVideo(file.chunks[i])

CrackInv == Control /\ PoolsAreApart /\ Solving /\ KeyIsRight /\ Demuxed

-----------------------------------------------------------------------------
\* The payloads of a file, and what chance may make of them.
LEMMA FileLaws ==
    ASSUME NEW f \in Files, NEW i \in 1 .. Len(f.chunks)
    PROVE  /\ f.chunks \in Seq(Chunks) /\ Len(f.chunks) \in Nat
           /\ DOMAIN f.chunks = 1 .. Len(f.chunks)
           /\ f.chunks[i] \in Chunks /\ f.chunks[i].plain \in Payloads
           /\ f.chunks[i].kind = "video" /\ f.nonce => Pad[f.chunks[i].time] \in Bits
           /\ Masks(f.chunks[i].plain) => Misleads[f.chunks[i].plain] \in KeyBytes
<1>1. f \in [chunks : Seq(Chunks), nonce : BOOLEAN]
  BY CrackAssumption
<1>2. f.chunks \in Seq(Chunks) /\ Len(f.chunks) \in Nat /\ DOMAIN f.chunks = 1 .. Len(f.chunks)
  BY <1>1
<1>3. f.chunks[i] \in Chunks
  BY <1>2
<1>4. f.chunks[i].plain \in Payloads
  BY <1>3 DEF Chunks
<1> QED BY <1>2, <1>3, <1>4, CrackAssumption

LEMMA NoConfusion ==
    ASSUME NEW f \in Files, NEW i \in 1 .. Len(f.chunks), NEW j \in 1 .. Len(f.chunks),
           Masks(f.chunks[i].plain), Masks(f.chunks[j].plain),
           Misleads[f.chunks[i].plain] = Misleads[f.chunks[j].plain],
           Misleads[f.chunks[i].plain] # Key
    PROVE  f.chunks[i].plain = f.chunks[j].plain
BY FileLaws, CrackAssumption

LEMMA VideoMaskLaws == VideoMask \in [Entries -> Byte] /\ KeyFromMask(VideoMask) = Key
BY MaskType, KeyOfMask, CrackAssumption DEF VideoMask

LEMMA InitInv == Init => CrackInv
<1> SUFFICES ASSUME Init PROVE CrackInv OBVIOUS
<1> USE DEF Init
<1>1. Len(file.chunks) \in Nat
  <2>1. file \in [chunks : Seq(Chunks), nonce : BOOLEAN]
    BY CrackAssumption
  <2> QED BY <2>1
<1>2. Control
  BY <1>1 DEF Control, Labels, Sides, Stages
<1>3. PoolsAreApart
  BY DEF PoolsAreApart, Sides
<1>4. Solving /\ KeyIsRight /\ Demuxed
  BY DEF Solving, KeyIsRight, AcceptedIsRight, Demuxed
<1> QED BY <1>2, <1>3, <1>4 DEF CrackInv

LEMMA Frame ==
    ASSUME Next
    PROVE  /\ file' = file /\ cracking' = cracking
           /\ Deal \/ UNCHANGED <<seen, pools, turn>>
BY DEF Next, Cancel, Nonce, NonceFails, ReadFails, CollectCancelled, PassOver, Deal, Collected, Decline,
       StartSolve, SolveStage, EndSolve, Evaluate, DemuxChunk, DemuxDone, Reads, Stay,
       walkVars, solveVars

LEMMA ControlStep == ASSUME CrackInv, Next PROVE Control'
<1> USE DEF CrackInv, Control, Labels, Over, Sides, Stay, walkVars, solveVars
<1>0. file' = file /\ cracking' = cracking /\ Len(file.chunks) \in Nat /\ Len(Stages) = 6
  <2>1. file \in [chunks : Seq(Chunks), nonce : BOOLEAN]
    BY CrackAssumption
  <2> QED BY <2>1, Frame DEF Stages
<1>1. CASE Cancel
  BY <1>0, <1>1 DEF Cancel
<1>2. CASE Nonce
  BY <1>0, <1>2 DEF Nonce
<1>3. CASE NonceFails \/ ReadFails \/ CollectCancelled \/ Collected \/ Decline
  BY <1>0, <1>3 DEF NonceFails, ReadFails, CollectCancelled, Collected, Decline
<1>4. CASE PassOver
  BY <1>0, <1>4 DEF PassOver, Reads, More
<1>5. CASE Deal
  <2> DEFINE new == [running |-> Running(Cipher(Chunk).body), plain |-> Chunk.plain]
  <2>1. pools' = [pools EXCEPT ![turn] = @ \cup {new}]
    BY <1>5 DEF Deal
  <2> HIDE DEF new
  <2>2. pools' = [s \in Sides |-> pools'[s]]
    BY <2>1
  <2>3. turn' \in Sides /\ at' \in 0 .. Len(file.chunks) /\ pc' \in {"judge", "collect"}
        /\ pc = "collect" /\ UNCHANGED <<side, stage, solved>>
    BY <1>0, <1>5 DEF Deal, Reads, More
  <2> QED BY <1>0, <2>2, <2>3
<1>6. CASE StartSolve
  BY <1>0, <1>6 DEF StartSolve
<1>7. CASE SolveStage
  BY <1>0, <1>7 DEF SolveStage
<1>8. CASE EndSolve
  BY <1>0, <1>8 DEF EndSolve
<1>9. CASE Evaluate
  BY <1>0, <1>9 DEF Evaluate
<1>10. CASE DemuxChunk
  BY <1>0, <1>10 DEF DemuxChunk, More
<1>11. CASE DemuxDone
  BY <1>0, <1>11 DEF DemuxDone
<1> QED BY <1>1, <1>2, <1>3, <1>4, <1>5, <1>6, <1>7, <1>8, <1>9, <1>10, <1>11 DEF Next

-----------------------------------------------------------------------------
\* The two pools have no payload in common.
LEMMA PoolsStep == ASSUME CrackInv, Next PROVE PoolsAreApart'
<1>0. file' = file /\ VideoMask' = VideoMask
  BY Frame DEF VideoMask
<1>1. CASE UNCHANGED <<seen, pools, turn>>
  BY <1>0, <1>1 DEF CrackInv, PoolsAreApart, Dealt, VideoMask
<1>2. CASE Deal
  <2>0. PICK new : new = [running |-> Running(Cipher(Chunk).body), plain |-> Chunk.plain]
    OBVIOUS
  <2>1. /\ ~file.nonce /\ turn \in Sides /\ at + 1 \in 1 .. Len(file.chunks)
        /\ pools = [s \in Sides |-> pools[s]]
    <3>1. at \in 0 .. Len(file.chunks) /\ pc = "collect" /\ at < Len(file.chunks)
      BY <1>2 DEF CrackInv, Control, Deal, Reads, More
    <3>2. Len(file.chunks) \in Nat
      <4>1. file \in [chunks : Seq(Chunks), nonce : BOOLEAN]
        BY CrackAssumption DEF CrackInv, Control
      <4> QED BY <4>1
    <3> QED BY <3>1, <3>2 DEF CrackInv, Control
  <2>2. Cipher(Chunk) = Encrypt(Chunk.plain, VideoMask)
    BY <2>1 DEF Cipher
  <2>3. Masks(Chunk.plain)
    <3>1. IsMasked(Encrypt(Chunk.plain, VideoMask))
      BY <1>2, <2>2 DEF Deal, Sampled
    <3> QED BY <3>1 DEF IsMasked, Masks, Encrypt
  <2>4. /\ Cipher(Chunk) \notin seen /\ seen' = seen \cup {Cipher(Chunk)}
        /\ pools' = [pools EXCEPT ![turn] = @ \cup {new}]
    BY <1>2, <2>0 DEF Deal, Sampled
  <2>5. Dealt(new)'
    <3>1. new.plain = file.chunks[at + 1].plain
      BY <2>0 DEF Chunk
    <3>2. new.running = Running(Encrypt(new.plain, VideoMask).body)
          /\ Masks(new.plain) /\ Encrypt(new.plain, VideoMask) \in seen'
      BY <2>0, <2>2, <2>3, <2>4
    <3> QED BY <1>0, <2>1, <3>1, <3>2 DEF Dealt, VideoMask
  <2>6. \A s \in Sides : \A r \in pools[s] : Dealt(r)' /\ r.plain # new.plain
    <3> TAKE s \in Sides
    <3> TAKE r \in pools[s]
    <3>1. Dealt(r)
      BY DEF CrackInv, PoolsAreApart
    <3>2. Dealt(r)'
      BY <1>0, <2>4, <3>1 DEF Dealt, VideoMask
    <3>3. r.plain # Chunk.plain
      BY <2>2, <2>4, <3>1 DEF Dealt
    <3> QED BY <2>0, <3>2, <3>3
  <2>7. \A s \in Sides : \A r \in pools'[s] : Dealt(r)'
    BY <2>1, <2>4, <2>5, <2>6
  <2>8. \A r \in pools'[1], q \in pools'[2] : r.plain # q.plain
    BY <2>1, <2>4, <2>6 DEF Sides, CrackInv, PoolsAreApart
  <2> QED BY <2>7, <2>8 DEF PoolsAreApart, Sides
<1> QED BY <1>1, <1>2, Frame

-----------------------------------------------------------------------------
LEMMA CandidateKeys ==
    ASSUME CrackInv, NEW s \in Sides PROVE Candidates(pools[s]) \subseteq KeyBytes
<1>1. ASSUME NEW r \in pools[s] PROVE Misleads[r.plain] \in KeyBytes
  <2>1. Dealt(r) /\ file \in Files
    BY DEF CrackInv, PoolsAreApart, Control
  <2>2. PICK i \in 1 .. Len(file.chunks) : r.plain = file.chunks[i].plain
    BY <2>1 DEF Dealt
  <2> QED BY <2>1, <2>2, FileLaws DEF Dealt
<1> QED BY <1>1, CrackAssumption DEF Candidates

\* Two pools are solved to one mask only if it is the video's.
LEMMA HalvesAgree ==
    ASSUME CrackInv, NEW k \in Candidates(pools[1]), NEW l \in Candidates(pools[2]),
           BuildMask(k) = BuildMask(l)
    PROVE  k = Key
<1>1. k = l
  BY CandidateKeys, KeyOfMask DEF Sides
<1> SUFFICES ASSUME k # Key PROVE FALSE
  OBVIOUS
<1>2. PICK r \in pools[1] : k = Misleads[r.plain]
  BY DEF Candidates
<1>3. PICK q \in pools[2] : k = Misleads[q.plain]
  BY <1>1 DEF Candidates
<1>4. Dealt(r) /\ Dealt(q) /\ r.plain # q.plain /\ file \in Files
  BY DEF CrackInv, PoolsAreApart, Control, Sides
<1>5. PICK i \in 1 .. Len(file.chunks) : r.plain = file.chunks[i].plain
  BY <1>4 DEF Dealt
<1>6. PICK j \in 1 .. Len(file.chunks) : q.plain = file.chunks[j].plain
  BY <1>4 DEF Dealt
<1>7. Masks(file.chunks[i].plain) /\ Masks(file.chunks[j].plain)
      /\ Misleads[file.chunks[i].plain] = Misleads[file.chunks[j].plain]
      /\ Misleads[file.chunks[i].plain] # Key
  BY <1>2, <1>3, <1>4, <1>5, <1>6 DEF Dealt
<1>8. file.chunks[i].plain = file.chunks[j].plain
  BY <1>4, <1>7, NoConfusion
<1> QED BY <1>4, <1>5, <1>6, <1>8

LEMMA ScoresGrow ==
    ASSUME NEW n \in 0 .. 5, NEW m, NEW x, \A e \in Known(n) : m[e] = x[e]
    PROVE  Scores(x, n + 1) =
               Scores(m, n) \cup {<<e, x[e]>> : e \in Stages[n + 1].entries}
                            \cup {<<e, x[e], x[e + 1]>> : e \in Pairs(n + 1)}
<1> DEFINE Double(j) == {d \in 0 .. 30 : {d, d + 1} \subseteq Known(j)}
<1>1. Known(n + 1) = Known(n) \cup Stages[n + 1].entries
  BY KnownGrows
<1>2. Pairs(n + 1) = {e \in 0 .. 30 : {e, e + 1} \subseteq Known(n + 1)
                                       /\ ~({e, e + 1} \subseteq Known(n))}
  BY DEF Pairs
<1>3. Double(n + 1) = Double(n) \cup Pairs(n + 1)
  BY <1>1, <1>2
<1>4. {<<e, x[e]>> : e \in Known(n + 1)} =
          {<<e, m[e]>> : e \in Known(n)} \cup {<<e, x[e]>> : e \in Stages[n + 1].entries}
  BY <1>1
<1>5. \A e \in Double(n) : m[e] = x[e] /\ m[e + 1] = x[e + 1]
  OBVIOUS
<1>6. {<<e, x[e], x[e + 1]>> : e \in Double(n + 1)} =
          {<<e, m[e], m[e + 1]>> : e \in Double(n)}
              \cup {<<e, x[e], x[e + 1]>> : e \in Pairs(n + 1)}
  <2> HIDE DEF Double
  <2> QED BY <1>3, <1>5
<1>7. /\ Scores(x, n + 1) = {<<e, x[e]>> : e \in Known(n + 1)}
                               \cup {<<e, x[e], x[e + 1]>> : e \in Double(n + 1)}
      /\ Scores(m, n) = {<<e, m[e]>> : e \in Known(n)}
                           \cup {<<e, m[e], m[e + 1]>> : e \in Double(n)}
  BY DEF Scores
<1> HIDE DEF Double
<1> QED BY <1>4, <1>6, <1>7

\* A candidate that has come to its end is the mask it aimed at.
LEMMA AgreesInTheEnd ==
    ASSUME NEW m, NEW goal \in [Entries -> Byte], Agrees(m, goal, 6) PROVE m = goal
BY KnownAll DEF Agrees

LEMMA AimsAreMasks ==
    ASSUME CrackInv, NEW s \in Sides, NEW goal \in Aims(pools[s])
    PROVE  /\ goal \in [Entries -> Byte]
           /\ \E k \in Candidates(pools[s]) : k \in KeyBytes /\ goal = BuildMask(k)
BY CandidateKeys, MaskType DEF Aims

LEMMA SolvingStep == ASSUME CrackInv, Next PROVE Solving'
<1> SUFFICES ASSUME pc' \in {"solve", "solved"}
             PROVE  /\ aim' \in Aims(pools'[side']) /\ Agrees(mask', aim', stage')
                    /\ scored' = Scores(mask', stage')
                    /\ pc' = "solved" => stage' = Len(Stages) /\ solved'[side'] = mask'
                    /\ side' = 2 => solved'[1] \in Aims(pools'[1])
  BY DEF Solving
<1>0. /\ Len(Stages) = 6 /\ side \in Sides /\ stage \in 0 .. 6
      /\ solved = [s \in Sides |-> solved[s]]
  BY DEF CrackInv, Control, Stages
<1>2. CASE Cancel
  <2>1. UNCHANGED <<pc, pools, side, stage, aim, mask, scored, solved>>
    BY <1>2 DEF Cancel, walkVars, solveVars
  <2> QED BY <2>1 DEF CrackInv, Solving
<1>3. CASE StartSolve
  <2>1. /\ aim' \in Aims(pools[side']) /\ stage' = 0 /\ mask' = Blank /\ scored' = {}
        /\ pc' = "solve" /\ UNCHANGED <<pools, solved>> /\ side' \in Sides
        /\ side' = 2 => pc = "solved" /\ side = 1
    BY <1>3 DEF StartSolve, Aims, Candidates, walkVars, Sides
  <2>2. Agrees(Blank, aim', 0) /\ Scores(Blank, 0) = {}
    BY Known0 DEF Agrees, Scores, Blank, Byte
  <2>3. ASSUME side' = 2 PROVE solved[1] \in Aims(pools[1])
    <3>1. aim \in Aims(pools[1]) /\ Agrees(mask, aim, 6) /\ solved[1] = mask
      BY <1>0, <2>1, <2>3 DEF CrackInv, Solving
    <3> QED BY <3>1, AgreesInTheEnd, AimsAreMasks DEF Sides
  <2> QED BY <2>1, <2>2, <2>3
<1>4. CASE SolveStage
  <2>1. /\ pc = "solve" /\ stage \in 0 .. 5 /\ stage' = stage + 1 /\ pc' = pc
        /\ mask' = Expand(mask, Stages[stage + 1].expand, aim)
        /\ scored' = scored \cup {<<e, mask'[e]>> : e \in Stages[stage + 1].entries}
                            \cup {<<e, mask'[e], mask'[e + 1]>> : e \in Pairs(stage + 1)}
        /\ UNCHANGED <<pools, side, aim, solved>>
    BY <1>0, <1>4 DEF SolveStage, walkVars
  <2>2. /\ aim \in Aims(pools[side]) /\ Agrees(mask, aim, stage) /\ scored = Scores(mask, stage)
        /\ side = 2 => solved[1] \in Aims(pools[1])
    BY <2>1 DEF CrackInv, Solving
  <2>3. Agrees(mask', aim, stage + 1)
    <3>1. PICK k \in KeyBytes : aim = BuildMask(k)
      BY <1>0, <2>2, AimsAreMasks
    <3> QED BY <2>1, <2>2, <3>1, StageAgrees
  <2>4. \A e \in Known(stage) : mask[e] = mask'[e]
    <3>1. Known(stage) \subseteq Known(stage + 1)
      BY <2>1, KnownGrows
    <3> QED BY <2>2, <2>3, <3>1 DEF Agrees
  <2>5. scored' = Scores(mask', stage + 1)
    <3> DEFINE new(x) == {<<e, x[e]>> : e \in Stages[stage + 1].entries}
                             \cup {<<e, x[e], x[e + 1]>> : e \in Pairs(stage + 1)}
    <3>1. stage \in 0 .. 5
      BY <2>1
    <3>2. PICK x : x = mask'
      OBVIOUS
    <3>3. Scores(x, stage + 1) = Scores(mask, stage) \cup new(x)
      BY <2>4, <3>1, <3>2, ScoresGrow
    <3>4. scored' = scored \cup new(x)
      BY <2>1, <3>2
    <3> HIDE DEF new
    <3> QED BY <2>2, <3>2, <3>3, <3>4
  <2> QED BY <2>1, <2>2, <2>3, <2>5
<1>5. CASE EndSolve
  <2>1. /\ pc = "solve" /\ stage = 6 /\ solved' = [solved EXCEPT ![side] = mask] /\ pc' = "solved"
        /\ UNCHANGED <<pools, side, stage, aim, mask, scored>>
    BY <1>0, <1>5 DEF EndSolve, walkVars
  <2>2. /\ aim \in Aims(pools[side]) /\ Agrees(mask, aim, stage) /\ scored = Scores(mask, stage)
        /\ side = 2 => solved[1] \in Aims(pools[1])
    BY <2>1 DEF CrackInv, Solving
  <2>3. solved'[side] = mask /\ (side = 2 => solved'[1] = solved[1])
    BY <1>0, <2>1 DEF Sides
  <2> QED BY <1>0, <2>1, <2>2, <2>3
<1> QED BY <1>2, <1>3, <1>4, <1>5
        DEF Next, Nonce, NonceFails, ReadFails, CollectCancelled, PassOver, Deal, Collected, Decline,
            Evaluate, DemuxChunk, DemuxDone, Reads

-----------------------------------------------------------------------------
LEMMA KeyStep == ASSUME CrackInv, Next PROVE KeyIsRight'
<1>0. file' = file /\ VideoMask' = VideoMask
  BY Frame DEF VideoMask
<1>1. CASE Evaluate /\ solved[1] = solved[2]
  <2>1. /\ pc = "solved" /\ side = 2 /\ key' = BuildMask(KeyFromMask(solved[1])) /\ 2 \in Sides
        /\ 1 \in Sides
    BY <1>1 DEF Evaluate, Sides
  <2>2. /\ solved[1] \in Aims(pools[1]) /\ aim \in Aims(pools[2]) /\ Agrees(mask, aim, 6)
        /\ solved[2] = mask
    BY <2>1 DEF CrackInv, Solving, Stages
  <2>3. solved[2] \in Aims(pools[2])
    BY <2>1, <2>2, AgreesInTheEnd, AimsAreMasks
  <2>4. PICK k \in Candidates(pools[1]) : solved[1] = BuildMask(k)
    BY <2>2 DEF Aims
  <2>5. PICK l \in Candidates(pools[2]) : solved[2] = BuildMask(l)
    BY <2>3 DEF Aims
  <2>6. k = Key
    BY <1>1, <2>4, <2>5, HalvesAgree
  <2>7. key' = VideoMask
    BY <2>1, <2>4, <2>6, VideoMaskLaws DEF VideoMask
  <2> QED BY <1>0, <2>7 DEF KeyIsRight, AcceptedIsRight
<1>2. CASE Nonce
  <2>1. key' # key \/ pc' = "demux" => file.nonce
    BY <1>2 DEF Nonce
  <2> QED BY <1>0, <2>1 DEF CrackInv, KeyIsRight, AcceptedIsRight, VideoMask
<1>3. CASE ~Nonce /\ ~(Evaluate /\ solved[1] = solved[2])
  <2>1. key' = key /\ (pc' = "demux" => pc = "demux")
    BY <1>3 DEF Next, Cancel, NonceFails, ReadFails, CollectCancelled, PassOver, Deal, Collected, Decline,
           StartSolve, SolveStage, EndSolve, Evaluate, DemuxChunk, DemuxDone, Reads
  <2> QED BY <1>0, <2>1 DEF CrackInv, KeyIsRight, AcceptedIsRight, VideoMask
<1> QED BY <1>1, <1>2, <1>3

-----------------------------------------------------------------------------
\* Number n + 1 of the chunks is counted if it is of the video.
LEMMA VideosStep ==
    ASSUME NEW n \in Nat
    PROVE  /\ Videos(0) = 0 /\ Videos(n) \in Nat
           /\ Videos(n + 1) = IF IsVideo(file.chunks[n + 1]) THEN Videos(n) + 1 ELSE Videos(n)
<1> DEFINE S == {i \in Nat : IsVideo(file.chunks[i])}
<1>1. \A m \in Nat : Videos(m) = Count(S, m)
  <2> TAKE m \in Nat
  <2>1. {i \in 1 .. m : IsVideo(file.chunks[i])} = {i \in 1 .. m : i \in S}
    OBVIOUS
  <2> QED BY <2>1 DEF Videos, Count
<1>2. n + 1 \in S <=> IsVideo(file.chunks[n + 1])
  OBVIOUS
<1> HIDE DEF S
<1>3. Videos(0) = 0 /\ Videos(n) = Count(S, n) /\ Videos(n + 1) = Count(S, n + 1)
  BY <1>1, CountStep
<1> QED BY <1>2, <1>3, CountStep

LEMMA VideosGrow ==
    ASSUME NEW n \in Nat, NEW i \in 1 .. n, IsVideo(file.chunks[i])
    PROVE  Videos(i) \in 1 .. Videos(n)
<1> DEFINE S == {m \in Nat : m >= i => Videos(i) <= Videos(m)}
<1>1. \A m \in Nat : Videos(m) \in Nat
  BY VideosStep
<1>2. 0 \in S
  OBVIOUS
<1>3. ASSUME NEW m \in Nat, m \in S PROVE m + 1 \in S
  <2>1. Videos(m) <= Videos(m + 1)
    BY VideosStep
  <2>2. Videos(m) \in Nat /\ Videos(m + 1) \in Nat /\ Videos(i) \in Nat
    BY <1>1
  <2> SUFFICES ASSUME m + 1 >= i PROVE Videos(i) <= Videos(m + 1)
    OBVIOUS
  <2>3. CASE m >= i
    BY <1>3, <2>1, <2>2, <2>3
  <2>4. CASE ~(m >= i)
    <3>1. i = m + 1
      BY <2>4
    <3> QED BY <2>2, <3>1
  <2> QED BY <2>3, <2>4
<1>4. Nat \subseteq S
  <2> HIDE DEF S
  <2> QED BY <1>2, <1>3, Induct
<1>5. Videos(i) <= Videos(n)
  BY <1>4
<1>6. Videos(i) >= 1
  <2>1. i - 1 \in Nat /\ (i - 1) + 1 = i
    OBVIOUS
  <2> QED BY <2>1, VideosStep
<1> QED BY <1>1, <1>5, <1>6

\* Either cipher gives back what it was given.
LEMMA StreamTwice ==
    ASSUME NEW p \in Payloads, NEW pad \in Bits
    PROVE  DecryptStream(DecryptStream(p, pad), pad) = p
<1> DEFINE Twice(s) == [i \in 1 .. Len(s) |-> Flip(Flip(s[i], pad), pad)]
           Once(s) == [i \in 1 .. Len(s) |-> Flip(s[i], pad)]
<1>1. /\ p = [format |-> p.format, head |-> p.head, body |-> p.body, tail |-> p.tail]
      /\ p.head \in Seq(Bits) /\ p.body \in Seq(Bits) /\ p.tail \in Seq(Bits)
  BY DEF Payloads
<1>2. ASSUME NEW s \in Seq(Bits) PROVE Once(Once(s)) = s
  <2>1. Len(s) \in Nat /\ s = [i \in 1 .. Len(s) |-> s[i]] /\ \A i \in 1 .. Len(s) : s[i] \in Bits
    OBVIOUS
  <2>2. Len(Once(s)) = Len(s)
    BY <2>1
  <2>3. \A i \in 1 .. Len(s) : Flip(Once(s)[i], pad) = s[i]
    BY <2>1, FlipLaws
  <2>4. Once(Once(s)) = [i \in 1 .. Len(s) |-> s[i]]
    BY <2>2, <2>3
  <2> QED BY <2>1, <2>4
<1>3. PICK q : q = DecryptStream(p, pad)
  OBVIOUS
<1>4. q = [p EXCEPT !.head = Once(p.head), !.body = Once(p.body), !.tail = Once(p.tail)]
  BY <1>3 DEF DecryptStream
<1>5. DecryptStream(q, pad) =
          [q EXCEPT !.head = Once(q.head), !.body = Once(q.body), !.tail = Once(q.tail)]
  BY DEF DecryptStream
<1> HIDE DEF Once
<1>6. q = [format |-> p.format, head |-> Once(p.head), body |-> Once(p.body),
           tail |-> Once(p.tail)]
  BY <1>1, <1>4
<1>7. DecryptStream(q, pad) =
          [format |-> p.format, head |-> Once(Once(p.head)), body |-> Once(Once(p.body)),
           tail |-> Once(Once(p.tail))]
  BY <1>5, <1>6
<1> QED BY <1>1, <1>2, <1>3, <1>7

LEMMA DemuxedStep == ASSUME CrackInv, Next PROVE Demuxed'
<1>0. /\ file' = file /\ cracking' = cracking /\ file \in Files
      /\ at \in 0 .. Len(file.chunks) /\ Len(file.chunks) \in Nat
  <2>1. file \in Files /\ at \in 0 .. Len(file.chunks)
    BY DEF CrackInv, Control
  <2>2. file \in [chunks : Seq(Chunks), nonce : BOOLEAN]
    BY <2>1, CrackAssumption
  <2> QED BY <2>1, <2>2, Frame
<1>1. \A n : Videos(n)' = Videos(n)
  BY <1>0 DEF Videos
<1>2. CASE DemuxChunk /\ IsVideo(Chunk)
  <2>1. /\ pc = "demux" /\ at + 1 \in 1 .. Len(file.chunks) /\ at' = at + 1 /\ at \in Nat
        /\ pc' \in {"cancelled", "demux"}
    BY <1>0, <1>2 DEF DemuxChunk, More
  <2>2. Chunk.plain \in Payloads /\ (file.nonce => Pad[Chunk.time] \in Bits)
    BY <1>0, <1>2, <2>1, FileLaws DEF Chunk, IsVideo
  <2>3. video' = Append(video, Chunk.plain)
    <3>1. CASE file.nonce
      BY <1>2, <2>2, <3>1, StreamTwice DEF DemuxChunk, Cipher
    <3>2. CASE ~file.nonce
      <4>1. key = VideoMask
        BY <2>1, <3>2 DEF CrackInv, KeyIsRight
      <4>2. DecryptVideo(Cipher(Chunk), key) = Chunk.plain
        BY <2>2, <3>2, <4>1, RoundTrip, VideoMaskLaws DEF Cipher
      <4> QED BY <1>2, <3>2, <4>2 DEF DemuxChunk
    <3> QED BY <3>1, <3>2
  <2>4. /\ video \in Seq(Payloads) /\ Len(video) = Videos(at)
        /\ \A i \in 1 .. at : IsVideo(file.chunks[i]) => video[Videos(i)] = file.chunks[i].plain
    BY <2>1 DEF CrackInv, Demuxed
  <2>5. Videos(at) \in Nat /\ Videos(at + 1) = Videos(at) + 1
    BY <1>2, <2>1, VideosStep DEF Chunk
  <2>6. /\ video' \in Seq(Payloads) /\ Len(video') = Videos(at + 1)
        /\ video'[Videos(at + 1)] = Chunk.plain
        /\ \A i \in 1 .. Videos(at) : video'[i] = video[i]
    BY <2>2, <2>3, <2>4, <2>5
  <2>7. ASSUME NEW i \in 1 .. at + 1, IsVideo(file.chunks[i])
        PROVE  video'[Videos(i)] = file.chunks[i].plain
    <3>1. CASE i = at + 1
      BY <2>6, <3>1 DEF Chunk
    <3>2. CASE i # at + 1
      <4>1. i \in 1 .. at
        BY <2>1, <3>2
      <4>2. Videos(i) \in 1 .. Videos(at)
        BY <2>1, <2>7, <4>1, VideosGrow
      <4> QED BY <2>4, <2>6, <2>7, <4>1, <4>2
    <3> QED BY <3>1, <3>2
  <2> QED BY <1>0, <1>1, <2>1, <2>6, <2>7 DEF Demuxed
<1>3. CASE DemuxChunk /\ ~IsVideo(Chunk)
  <2>1. /\ pc = "demux" /\ at' = at + 1 /\ at \in Nat /\ video' = video
        /\ pc' \in {"cancelled", "demux"}
    BY <1>0, <1>3 DEF DemuxChunk
  <2>2. Videos(at + 1) = Videos(at)
    BY <1>3, <2>1, VideosStep DEF Chunk
  <2>3. \A i \in 1 .. at + 1 : IsVideo(file.chunks[i]) => i \in 1 .. at
    BY <1>3, <2>1 DEF Chunk
  <2> QED BY <1>0, <1>1, <2>1, <2>2, <2>3 DEF CrackInv, Demuxed
<1>4. CASE DemuxDone
  <2>1. /\ pc = "demux" /\ pc' = "done" /\ UNCHANGED <<at, video>>
        /\ at = Len(file.chunks) \/ (at + 1 \in 1 .. Len(file.chunks) /\ Chunk.kind = "stub")
    BY <1>0, <1>4 DEF DemuxDone, More
  <2>2. \A i \in 1 .. Len(file.chunks) : i \in 1 .. at \/ ~IsVideo(file.chunks[i])
    <3>1. CASE at = Len(file.chunks)
      BY <3>1
    <3>2. CASE at + 1 \in 1 .. Len(file.chunks) /\ Chunk.kind = "stub"
      <4>1. at + 1 = Len(file.chunks)
        BY <1>0, <3>2, FileLaws, CrackAssumption DEF Chunk
      <4>2. ~IsVideo(file.chunks[at + 1])
        BY <3>2 DEF Chunk, IsVideo
      <4> QED BY <1>0, <4>1, <4>2
    <3> QED BY <2>1, <3>1, <3>2
  <2> QED BY <1>0, <1>1, <2>1, <2>2 DEF CrackInv, Demuxed
<1>5. CASE Nonce \/ Evaluate
  <2>1. /\ pc \in {"nonce", "solved"} /\ at' = 0 /\ video' = <<>>
        /\ pc' = "done" => cracking
    BY <1>0, <1>5 DEF Nonce, Evaluate, CrackInv, Control, Demuxed
  <2>2. Videos(0) = 0
    BY VideosStep
  <2> QED BY <1>0, <1>1, <2>1, <2>2 DEF Demuxed
<1>6. CASE Cancel
  <2>1. UNCHANGED <<pc, at, video>>
    BY <1>6 DEF Cancel
  <2> QED BY <1>0, <1>1, <2>1 DEF CrackInv, Demuxed
<1>7. CASE ~DemuxChunk /\ ~DemuxDone /\ ~Nonce /\ ~Evaluate /\ ~Cancel
  <2>1. video' = video /\ pc' \notin {"demux", "done"}
        /\ (pc' # "error" => pc \in {"nonce", "collect", "judge", "solve", "solved"})
    BY <1>7 DEF Next, NonceFails, ReadFails, CollectCancelled, PassOver, Deal, Collected, Decline,
           StartSolve, SolveStage, EndSolve, Reads
  <2> QED BY <1>0, <2>1 DEF CrackInv, Demuxed
<1> QED BY <1>2, <1>3, <1>4, <1>5, <1>6, <1>7

-----------------------------------------------------------------------------
LEMMA StutterInv == ASSUME CrackInv, UNCHANGED vars PROVE CrackInv'
<1>1. UNCHANGED <<file, cracking, pc, at, seen, pools, turn, side, stage, aim, mask, scored, solved,
                  key, video>>
  BY DEF vars, walkVars, solveVars
<1>2. \A r : Dealt(r)' = Dealt(r)
  BY <1>1 DEF Dealt, VideoMask
<1>3. \A n : Videos(n)' = Videos(n)
  BY <1>1 DEF Videos
<1>4. Control' /\ Solving'
  BY <1>1 DEF CrackInv, Control, Solving
<1>5. PoolsAreApart'
  BY <1>1, <1>2 DEF CrackInv, PoolsAreApart
<1>6. KeyIsRight'
  BY <1>1 DEF CrackInv, KeyIsRight, AcceptedIsRight, VideoMask
<1>7. Demuxed'
  BY <1>1, <1>3 DEF CrackInv, Demuxed
<1> QED BY <1>4, <1>5, <1>6, <1>7 DEF CrackInv

\* The invariant holds throughout: types and where the walk is, the pools, the
\* candidate, the key, and what has been written of the video.
THEOREM Invariance == Spec => []CrackInv
<1>1. Init => CrackInv
  BY InitInv
<1>2. CrackInv /\ [Next]_vars => CrackInv'
  <2> SUFFICES ASSUME CrackInv, [Next]_vars PROVE CrackInv'
    OBVIOUS
  <2>1. CASE Next
    BY <2>1, ControlStep, PoolsStep, SolvingStep, KeyStep, DemuxedStep DEF CrackInv
  <2>2. CASE UNCHANGED vars
    BY <2>2, StutterInv
  <2> QED BY <2>1, <2>2
<1> QED BY <1>1, <1>2, PTL DEF Spec

\* What a pool counts is the running XOR as the solver takes it, for every
\* payload that is dealt: only the ones that the game has masked are
\* (src/stages/crack.py:253-258, src/stages/usm.py:193-199).
THEOREM StatsTheorem == Spec => []StatsAreSound
<1>1. CrackInv => StatsAreSound
  <2> SUFFICES ASSUME CrackInv, NEW s \in Sides, NEW r \in pools[s],
                      NEW i \in 1 .. Len(r.running)
               PROVE  r.running[i] = IF i % 2 = 1
                                     THEN Flip(r.plain.body[i], 1 - MaskBit(VideoMask))
                                     ELSE r.plain.body[i]
    BY DEF StatsAreSound
  <2>1. Dealt(r) /\ file \in Files
    BY DEF CrackInv, PoolsAreApart, Control
  <2>2. r.plain \in Payloads
    BY <2>1, FileLaws DEF Dealt
  <2>3. r.running = Running(Encrypt(r.plain, VideoMask).body) /\ Masks(r.plain)
    BY <2>1 DEF Dealt
  <2>4. /\ Len(r.plain.body) \in Nat /\ Len(r.running) = Len(r.plain.body)
        /\ r.running = [j \in 1 .. Len(r.plain.body) |->
                           IF j % 2 = 1 THEN Flip(r.plain.body[j], 1 - MaskBit(VideoMask))
                           ELSE r.plain.body[j]]
    BY <2>2, <2>3, RunningOfCipher, VideoMaskLaws
  <2> QED BY <2>4
<1> QED BY <1>1, Invariance, PTL

\* Whatever mask the solver ends at is a key's, of which every entry and every
\* pair has been scored, as what it is in the end (src/stages/crack.py:40-42).
THEOREM SolveTheorem == Spec => []SolvesAKeysMask
<1>1. CrackInv => SolvesAKeysMask
  <2> SUFFICES ASSUME CrackInv, pc = "solved" PROVE SolvesAKeysMask
    BY DEF SolvesAKeysMask
  <2>1. /\ side \in Sides /\ aim \in Aims(pools[side]) /\ Agrees(mask, aim, 6)
        /\ scored = Scores(mask, 6)
    BY DEF CrackInv, Control, Solving, Stages
  <2>2. PICK k \in KeyBytes : aim = BuildMask(k)
    BY <2>1, AimsAreMasks
  <2>3. mask = aim
    BY <2>1, AgreesInTheEnd, AimsAreMasks
  <2>4. mask = BuildMask(KeyFromMask(mask))
    BY <2>2, <2>3, KeyOfMask
  <2>5. {d \in 0 .. 30 : {d, d + 1} \subseteq Known(6)} = 0 .. 30
    BY KnownAll DEF Entries
  <2>6. scored = {<<e, mask[e]>> : e \in Entries} \cup {<<e, mask[e], mask[e + 1]>> : e \in 0 .. 30}
    BY <2>1, <2>5, KnownAll DEF Scores
  <2> QED BY <2>4, <2>6 DEF SolvesAKeysMask
<1> QED BY <1>1, Invariance, PTL

\* The key that two halves of distinct payloads agree on is the video's, as long
\* as no two payloads speak for one wrong key (src/stages/crack.py:8-10, 253-257).
THEOREM AcceptTheorem == Spec => []AcceptedIsRight
<1>1. CrackInv => AcceptedIsRight
  BY DEF CrackInv, KeyIsRight
<1> QED BY <1>1, Invariance, PTL

\* The video of a conversion that ends well is the plaintext, payload by payload,
\* for either cipher (src/stages/usm.py:192-224, 249-253).
THEOREM VideoTheorem == Spec => []VideoIsPlain
<1>1. CrackInv => VideoIsPlain
  <2> SUFFICES ASSUME CrackInv, pc = "done", ~cracking PROVE VideoIsPlain
    BY DEF VideoIsPlain
  <2>1. /\ at \in 0 .. Len(file.chunks) /\ Len(file.chunks) \in Nat
        /\ Len(video) = Videos(at)
        /\ \A i \in 1 .. at : IsVideo(file.chunks[i]) => video[Videos(i)] = file.chunks[i].plain
        /\ \A i \in 1 .. Len(file.chunks) : i \in 1 .. at \/ ~IsVideo(file.chunks[i])
    <3>1. file \in [chunks : Seq(Chunks), nonce : BOOLEAN]
      BY CrackAssumption DEF CrackInv, Control
    <3> QED BY <3>1 DEF CrackInv, Control, Demuxed
  <2>2. {i \in 1 .. Len(file.chunks) : IsVideo(file.chunks[i])} =
            {i \in 1 .. at : IsVideo(file.chunks[i])}
    BY <2>1
  <2>3. Videos(Len(file.chunks)) = Videos(at)
    BY <2>2 DEF Videos
  <2> QED BY <2>1, <2>3 DEF VideoIsPlain
<1> QED BY <1>1, Invariance, PTL
=============================================================================
