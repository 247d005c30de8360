-------------------------------- MODULE Mask ---------------------------------
(***************************************************************************)
(* The video mask of a key (src/stages/usm.py, USM.build_mask) and the same *)
(* mask as the solver builds it, stage by stage (src/stages/crack.py).      *)
(* Both are written out, entry by entry, as both are in the source.         *)
(***************************************************************************)
EXTENDS Integers, Sequences

Byte == 0 .. 255
Entries == 0 .. 31
Blank == [e \in Entries |-> 0]

\* x ^ y of two bytes, place by place.
XorAt(weight, x, y) == IF (x \div weight) % 2 = (y \div weight) % 2 THEN 0 ELSE weight

Xor(x, y) ==
    XorAt(1, x, y) + XorAt(2, x, y) + XorAt(4, x, y) + XorAt(8, x, y)
        + XorAt(16, x, y) + XorAt(32, x, y) + XorAt(64, x, y) + XorAt(128, x, y)

Add(x, y) == (x + y) % 256
Sub(x, y) == (x - y) % 256

-----------------------------------------------------------------------------
\* A key as its bytes, of which the last one, always zero, is left out.
KeyBytes == [1 .. 7 -> Byte]

\* USM.build_mask, line by line.
MaskLines(k) ==
    LET m00 == k[1]            m01 == k[2]            m02 == k[3]
        m03 == Sub(k[4], \h34) m04 == Add(k[5], \hF9)
        m05 == Xor(k[6], \h13) m06 == Add(k[7], \h61)
        m07 == Xor(m00, \hFF)  m08 == Add(m02, m01)   m09 == Sub(m01, m07)
        m0A == Xor(m02, \hFF)  m0B == Xor(m01, \hFF)  m0C == Add(m0B, m09)
        m0D == Sub(m08, m03)   m0E == Xor(m0D, \hFF)  m0F == Sub(m0A, m0B)
        m10 == Sub(m08, m0F)   m11 == Xor(m10, m07)   m12 == Xor(m0F, \hFF)
        m13 == Xor(m03, \h10)  m14 == Sub(m04, \h32)  m15 == Add(m05, \hED)
        m16 == Xor(m06, \hF3)  m17 == Sub(m13, m0F)   m18 == Add(m15, m07)
        m19 == Sub(\h21, m13)  m1A == Xor(m14, m17)   m1B == Add(m16, m16)
        m1C == Add(m17, \h44)  m1D == Add(m03, m04)   m1E == Sub(m05, m16)
        m1F == Xor(m1D, m13)
    IN <<m00, m01, m02, m03, m04, m05, m06, m07, m08, m09, m0A, m0B, m0C, m0D, m0E, m0F,
         m10, m11, m12, m13, m14, m15, m16, m17, m18, m19, m1A, m1B, m1C, m1D, m1E, m1F>>

BuildMask(k) == [e \in Entries |-> MaskLines(k)[e + 1]]

\* key_from_mask, but for byte 7.
KeyFromMask(m) ==
    <<m[0], m[1], m[2], Add(m[3], \h34), Sub(m[4], \hF9), Xor(m[5], \h13), Sub(m[6], \h61)>>

-----------------------------------------------------------------------------
\* The expansions: v has the values that are tried, at the entries they go to.
Expand12(m, v) ==
    LET m08 == Add(v[2], v[1])
        m0A == Xor(v[2], \hFF)
        m0B == Xor(v[1], \hFF)
        m0F == Sub(m0A, m0B)
    IN [m EXCEPT ![1] = v[1], ![2] = v[2], ![\h08] = m08, ![\h0A] = m0A, ![\h0B] = m0B,
                 ![\h0F] = m0F, ![\h10] = Sub(m08, m0F), ![\h12] = Xor(m0F, \hFF)]

Expand0(m, v) ==
    LET m07 == Xor(v[0], \hFF)
        m09 == Sub(m[1], m07)
    IN [m EXCEPT ![0] = v[0], ![\h07] = m07, ![\h09] = m09, ![\h0C] = Add(m[\h0B], m09),
                 ![\h11] = Xor(m[\h10], m07)]

Expand3(m, v) ==
    LET m0D == Sub(m[\h08], v[3])
        m13 == Xor(v[3], \h10)
        m17 == Sub(m13, m[\h0F])
    IN [m EXCEPT ![3] = v[3], ![\h0D] = m0D, ![\h0E] = Xor(m0D, \hFF), ![\h13] = m13,
                 ![\h17] = m17, ![\h19] = Sub(\h21, m13), ![\h1C] = Add(m17, \h44)]

Expand4(m, v) ==
    LET m14 == Sub(v[4], \h32)
        m1D == Add(m[3], v[4])
    IN [m EXCEPT ![4] = v[4], ![\h14] = m14, ![\h1A] = Xor(m14, m[\h17]), ![\h1D] = m1D,
                 ![\h1F] = Xor(m1D, m[\h13])]

Expand5(m, v) ==
    LET m15 == Add(v[5], \hED)
    IN [m EXCEPT ![5] = v[5], ![\h15] = m15, ![\h18] = Add(m15, m[\h07]),
                 ![\h1E] = Sub(v[5], m[\h16])]

Expand6(m, v) ==
    LET m16 == Xor(v[6], \hF3)
    IN [m EXCEPT ![6] = v[6], ![\h16] = m16, ![\h1B] = Add(m16, m16)]

Expand(m, expansion, v) ==
    CASE expansion = "1_2" -> Expand12(m, v)
      [] expansion = "0" -> Expand0(m, v)
      [] expansion = "3" -> Expand3(m, v)
      [] expansion = "4" -> Expand4(m, v)
      [] expansion = "5" -> Expand5(m, v)
      [] expansion = "6" -> Expand6(m, v)

\* The stages in the order of the list, and not of the entries.
MutantStages ==
    << [expand |-> "1_2", entries |-> {\h01, \h02, \h08, \h0A, \h0B, \h0F, \h10, \h12}],
       [expand |-> "0", entries |-> {\h00, \h07, \h09, \h0C, \h11}],
       [expand |-> "3", entries |-> {\h03, \h0D, \h0E, \h13, \h17, \h19, \h1C}],
       [expand |-> "4", entries |-> {\h04, \h14, \h1A, \h1D, \h1F}],
       [expand |-> "5", entries |-> {\h05, \h15, \h18, \h1E}],
       [expand |-> "6", entries |-> {\h06, \h16, \h1B}] >>

\* plan_stages: each expansion with the entries that are scored after it ...
Stages ==
    << [expand |-> "1_2", entries |-> {\h01, \h02, \h08, \h0A, \h0B, \h0F, \h10, \h12}],
       [expand |-> "0", entries |-> {\h00, \h07, \h09, \h0C, \h11}],
       [expand |-> "3", entries |-> {\h03, \h0D, \h0E, \h13, \h17, \h19, \h1C}],
       [expand |-> "4", entries |-> {\h04, \h14, \h1A, \h1D, \h1F}],
       [expand |-> "6", entries |-> {\h06, \h16, \h1B}],
       [expand |-> "5", entries |-> {\h05, \h15, \h18, \h1E}] >>

Known(n) == UNION {Stages[s].entries : s \in 1 .. n}

\* ... and the adjacent pairs, by their left entry, that have just become known.
Pairs(n) == {e \in 0 .. 30 : {e, e + 1} \subseteq Known(n) /\ ~({e, e + 1} \subseteq Known(n - 1))}
=============================================================================
