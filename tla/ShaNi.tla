-------------------------------- MODULE ShaNi --------------------------------
(***************************************************************************)
(* compress_blocks_sha_ni of crates/fastcrypto-x86/src/sha256.rs: four     *)
(* rounds at a time on vectors of four words.  A vector is a function of   *)
(* its lanes 0 .. 3, lane 0 in the lowest bits.  The instructions are      *)
(* modelled by what Intel's manual says they compute.                      *)
(***************************************************************************)
EXTENDS Sha2

Lanes(f(_)) == [j \in 0 .. 3 |-> f(j)]

AddEpi32(x, y)      == Lanes(LAMBDA j : Add(32, x[j], y[j]))
ShuffleEpi32(x, im) == Lanes(LAMBDA j : x[(im \div << 1, 4, 16, 64 >>[j + 1]) % 4])
\* alignr_epi8 by whole words, and blend_epi16 with 0xf0.
Alignr(hi, lo, n)   == Lanes(LAMBDA j : IF j + n < 4 THEN lo[j + n] ELSE hi[j + n - 4])
BlendHigh(x, y)     == Lanes(LAMBDA j : IF j < 2 THEN x[j] ELSE y[j])

\* One round of sha256rnds2 on the variables a to h, its sums in the order
\* of the manual.
NiRound(v, wk) ==
  LET t == Sum(SHA256, Ch(SHA256, v[5], v[6], v[7]),
               BigSigma(SHA256, SHA256.Sigma1, v[5]), wk, v[8])
  IN  << Add(32, Add(32, t, Maj(v[1], v[2], v[3])), BigSigma(SHA256, SHA256.Sigma0, v[1])),
         v[1], v[2], v[3], Add(32, t, v[4]), v[5], v[6], v[7] >>

\* sha256rnds2: two rounds; of wk only the two low lanes are read.
Rnds2(cdgh, abef, wk) ==
  LET v == << abef[3], abef[2], cdgh[3], cdgh[2], abef[1], abef[0], cdgh[1], cdgh[0] >>
      u == NiRound(NiRound(v, wk[0]), wk[1])
  IN  Lanes(LAMBDA j : << u[6], u[5], u[2], u[1] >>[j + 1])

Msg1(x, y) ==
  Lanes(LAMBDA j : Add(32, x[j], SmallSigma(SHA256, SHA256.sigma0,
                                             IF j < 3 THEN x[j + 1] ELSE y[0])))
\* Lanes 2 and 3 build on the two words just made.
Msg2(x, y) ==
  LET next(a, w) == Add(32, a, SmallSigma(SHA256, SHA256.sigma1, w))
      w0 == next(x[0], y[2])
      w1 == next(x[1], y[3])
  IN  Lanes(LAMBDA j : << w0, w1, next(x[2], w0), next(x[3], w1) >>[j + 1])

K32X4(i) == Lanes(LAMBDA j : SHA256.K[4 * i + j + 1])

\* The state as two vectors, and back.
Packed(chain) ==
  LET dcba == Lanes(LAMBDA j : chain[j + 1])
      hgfe == Lanes(LAMBDA j : chain[j + 5])
      cdab == ShuffleEpi32(dcba, \hb1)
      efgh == ShuffleEpi32(hgfe, \h1b)
  IN  [abef |-> Alignr(cdab, efgh, 2), cdgh |-> BlendHigh(efgh, cdab)]

Unpacked(s) ==
  LET feba == ShuffleEpi32(s.abef, \h1b)
      dchg == ShuffleEpi32(s.cdgh, \hb1)
      dcba == BlendHigh(feba, dchg)
      hgfe == Alignr(dchg, feba, 2)
  IN  [i \in 1 .. 8 |-> IF i <= 4 THEN dcba[i - 1] ELSE hgfe[i - 5]]

\* The operand of the byte shuffle, lowest byte first.
MASK == << 3, 2, 1, 0, 7, 6, 5, 4, 11, 10, 9, 8, 15, 14, 13, 12 >>

\* loadu_si128 and shuffle_epi8: the shuffled bytes, lowest first, as lanes.
Load(block, k) ==
  LET byte(i) == block[16 * k + MASK[i] + 1]
  IN  Lanes(LAMBDA j : FromLimbs([b \in 1 .. 4 |-> byte(4 * j + 5 - b)], 8))

\* w0 .. w3 are loaded, w4 is unset.
NiLoaded(s, block) ==
  [abef |-> s.abef, cdgh |-> s.cdgh, save |-> s,
   w |-> [k \in 0 .. 4 |-> IF k = 4 THEN Lanes(LAMBDA j : {}) ELSE Load(block, k)]]

\* rounds4!
NiRounds4(s, k, i) ==
  LET t1   == AddEpi32(s.w[k], K32X4(i))
      cdgh == Rnds2(s.cdgh, s.abef, t1)
  IN  [s EXCEPT !.cdgh = cdgh,
                !.abef = Rnds2(s.abef, cdgh, ShuffleEpi32(t1, \h0e))]

\* Slip checked by a mutant run: w[i + 9] is taken one word too low.
NiScheduled_Unaligned(s, i) ==
  LET w(k) == s.w[(i + k) % 5]
      t1   == Msg1(w(1), w(2))
      t3   == AddEpi32(t1, w(3))
  IN  [s EXCEPT !.w[i % 5] = Msg2(t3, w(4))]

\* The schedule half of schedule_rounds4!: the vectors change roles, and
\* the oldest of five becomes the one written next.
NiScheduled(s, i) ==
  LET w(k) == s.w[(i + k) % 5]
      t1   == Msg1(w(1), w(2))
      t3   == AddEpi32(t1, Alignr(w(4), w(3), 1))
  IN  [s EXCEPT !.w[i % 5] = Msg2(t3, w(4))]

\* Invocation i of rounds4! (the first four) or schedule_rounds4!.
NiGroup(s, i) == NiRounds4(IF i < 4 THEN s ELSE NiScheduled(s, i), i % 5, i)

NiFeedForward(s) == [abef |-> AddEpi32(s.abef, s.save.abef),
                     cdgh |-> AddEpi32(s.cdgh, s.save.cdgh)]
=============================================================================
