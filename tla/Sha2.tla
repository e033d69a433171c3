-------------------------------- MODULE Sha2 --------------------------------
(***************************************************************************)
(* The compression functions of SHA-256 and the SHA-512 family: their      *)
(* words, constants and round functions, the function of FIPS 180-4        *)
(* section 6 over one block, and the portable code of                      *)
(* crates/fastcrypto-core/src/sha256.rs and sha512.rs, which are           *)
(* structurally identical.                                                 *)
(*                                                                         *)
(* A word is the set of the positions of its one bits.                     *)
(***************************************************************************)
EXTENDS Integers, Sequences

Xor(x, y) == (x \ y) \cup (y \ x)

\* The carry into each bit: from the nearest bit below where x and y agree.
Carries(w, x, y) ==
  LET carry[i \in 0 .. w] ==
        IF i = 0 THEN FALSE
        ELSE IF (i - 1 \in x) = (i - 1 \in y) THEN i - 1 \in x
        ELSE carry[i - 1]
  IN  carry

Add(w, x, y) ==
  LET carry == Carries(w, x, y)
  IN  {i \in 0 .. w - 1 : ((i \in x) # (i \in y)) # carry[i]}

Rotr(w, x, n) == {(i - n) % w : i \in x}
Shr(x, n)     == {i - n : i \in {j \in x : j >= n}}

\* The word written as limbs of k bits each, most significant first.
FromLimbs(limbs, k) ==
  {i \in 0 .. k * Len(limbs) - 1 :
     (limbs[Len(limbs) - (i \div k)] \div 2 ^ (i % k)) % 2 = 1}

(***************************************************************************)
(* Constants, in limbs of sixteen bits.                                    *)
(***************************************************************************)
K == <<
  << \h428a, \h2f98, \hd728, \hae22 >>, << \h7137, \h4491, \h23ef, \h65cd >>,
  << \hb5c0, \hfbcf, \hec4d, \h3b2f >>, << \he9b5, \hdba5, \h8189, \hdbbc >>,
  << \h3956, \hc25b, \hf348, \hb538 >>, << \h59f1, \h11f1, \hb605, \hd019 >>,
  << \h923f, \h82a4, \haf19, \h4f9b >>, << \hab1c, \h5ed5, \hda6d, \h8118 >>,
  << \hd807, \haa98, \ha303, \h0242 >>, << \h1283, \h5b01, \h4570, \h6fbe >>,
  << \h2431, \h85be, \h4ee4, \hb28c >>, << \h550c, \h7dc3, \hd5ff, \hb4e2 >>,
  << \h72be, \h5d74, \hf27b, \h896f >>, << \h80de, \hb1fe, \h3b16, \h96b1 >>,
  << \h9bdc, \h06a7, \h25c7, \h1235 >>, << \hc19b, \hf174, \hcf69, \h2694 >>,
  << \he49b, \h69c1, \h9ef1, \h4ad2 >>, << \hefbe, \h4786, \h384f, \h25e3 >>,
  << \h0fc1, \h9dc6, \h8b8c, \hd5b5 >>, << \h240c, \ha1cc, \h77ac, \h9c65 >>,
  << \h2de9, \h2c6f, \h592b, \h0275 >>, << \h4a74, \h84aa, \h6ea6, \he483 >>,
  << \h5cb0, \ha9dc, \hbd41, \hfbd4 >>, << \h76f9, \h88da, \h8311, \h53b5 >>,
  << \h983e, \h5152, \hee66, \hdfab >>, << \ha831, \hc66d, \h2db4, \h3210 >>,
  << \hb003, \h27c8, \h98fb, \h213f >>, << \hbf59, \h7fc7, \hbeef, \h0ee4 >>,
  << \hc6e0, \h0bf3, \h3da8, \h8fc2 >>, << \hd5a7, \h9147, \h930a, \ha725 >>,
  << \h06ca, \h6351, \he003, \h826f >>, << \h1429, \h2967, \h0a0e, \h6e70 >>,
  << \h27b7, \h0a85, \h46d2, \h2ffc >>, << \h2e1b, \h2138, \h5c26, \hc926 >>,
  << \h4d2c, \h6dfc, \h5ac4, \h2aed >>, << \h5338, \h0d13, \h9d95, \hb3df >>,
  << \h650a, \h7354, \h8baf, \h63de >>, << \h766a, \h0abb, \h3c77, \hb2a8 >>,
  << \h81c2, \hc92e, \h47ed, \haee6 >>, << \h9272, \h2c85, \h1482, \h353b >>,
  << \ha2bf, \he8a1, \h4cf1, \h0364 >>, << \ha81a, \h664b, \hbc42, \h3001 >>,
  << \hc24b, \h8b70, \hd0f8, \h9791 >>, << \hc76c, \h51a3, \h0654, \hbe30 >>,
  << \hd192, \he819, \hd6ef, \h5218 >>, << \hd699, \h0624, \h5565, \ha910 >>,
  << \hf40e, \h3585, \h5771, \h202a >>, << \h106a, \ha070, \h32bb, \hd1b8 >>,
  << \h19a4, \hc116, \hb8d2, \hd0c8 >>, << \h1e37, \h6c08, \h5141, \hab53 >>,
  << \h2748, \h774c, \hdf8e, \heb99 >>, << \h34b0, \hbcb5, \he19b, \h48a8 >>,
  << \h391c, \h0cb3, \hc5c9, \h5a63 >>, << \h4ed8, \haa4a, \he341, \h8acb >>,
  << \h5b9c, \hca4f, \h7763, \he373 >>, << \h682e, \h6ff3, \hd6b2, \hb8a3 >>,
  << \h748f, \h82ee, \h5def, \hb2fc >>, << \h78a5, \h636f, \h4317, \h2f60 >>,
  << \h84c8, \h7814, \ha1f0, \hab72 >>, << \h8cc7, \h0208, \h1a64, \h39ec >>,
  << \h90be, \hfffa, \h2363, \h1e28 >>, << \ha450, \h6ceb, \hde82, \hbde9 >>,
  << \hbef9, \ha3f7, \hb2c6, \h7915 >>, << \hc671, \h78f2, \he372, \h532b >>,
  << \hca27, \h3ece, \hea26, \h619c >>, << \hd186, \hb8c7, \h21c0, \hc207 >>,
  << \heada, \h7dd6, \hcde0, \heb1e >>, << \hf57d, \h4f7f, \hee6e, \hd178 >>,
  << \h06f0, \h67aa, \h7217, \h6fba >>, << \h0a63, \h7dc5, \ha2c8, \h98a6 >>,
  << \h113f, \h9804, \hbef9, \h0dae >>, << \h1b71, \h0b35, \h131c, \h471b >>,
  << \h28db, \h77f5, \h2304, \h7d84 >>, << \h32ca, \hab7b, \h40c7, \h2493 >>,
  << \h3c9e, \hbe0a, \h15c9, \hbebc >>, << \h431d, \h67c4, \h9c10, \h0d4c >>,
  << \h4cc5, \hd4be, \hcb3e, \h42b6 >>, << \h597f, \h299c, \hfc65, \h7e2a >>,
  << \h5fcb, \h6fab, \h3ad6, \hfaec >>, << \h6c44, \h198c, \h4a47, \h5817 >> >>

IV_512 == <<
  << \h6a09, \he667, \hf3bc, \hc908 >>, << \hbb67, \hae85, \h84ca, \ha73b >>,
  << \h3c6e, \hf372, \hfe94, \hf82b >>, << \ha54f, \hf53a, \h5f1d, \h36f1 >>,
  << \h510e, \h527f, \hade6, \h82d1 >>, << \h9b05, \h688c, \h2b3e, \h6c1f >>,
  << \h1f83, \hd9ab, \hfb41, \hbd6b >>, << \h5be0, \hcd19, \h137e, \h2179 >> >>

IV_384 == <<
  << \hcbbb, \h9d5d, \hc105, \h9ed8 >>, << \h629a, \h292a, \h367c, \hd507 >>,
  << \h9159, \h015a, \h3070, \hdd17 >>, << \h152f, \hecd8, \hf70e, \h5939 >>,
  << \h6733, \h2667, \hffc0, \h0b31 >>, << \h8eb4, \h4a87, \h6858, \h1511 >>,
  << \hdb0c, \h2e0d, \h64f9, \h8fa7 >>, << \h47b5, \h481d, \hbefa, \h4fa4 >> >>

\* The 32-bit tables are the upper halves of the 64-bit ones: fewer bits of
\* the same roots.
Words(table, w) ==
  [i \in DOMAIN table |-> FromLimbs(SubSeq(table[i], 1, w \div 16), 16)]

\* The shift that ends a schedule function comes third.
SHA256 == [w |-> 32, rounds |-> 64, K |-> SubSeq(Words(K, 32), 1, 64),
           Sigma0 |-> << 2, 13, 22 >>, Sigma1 |-> << 6, 11, 25 >>,
           sigma0 |-> << 7, 18, 3 >>,  sigma1 |-> << 17, 19, 10 >>]
SHA512 == [w |-> 64, rounds |-> 80, K |-> Words(K, 64),
           Sigma0 |-> << 28, 34, 39 >>, Sigma1 |-> << 14, 18, 41 >>,
           sigma0 |-> << 1, 8, 7 >>,    sigma1 |-> << 19, 61, 6 >>]

Hash == [Sha256 |-> [fn |-> SHA256, iv |-> Words(IV_512, 32)],
         Sha384 |-> [fn |-> SHA512, iv |-> Words(IV_384, 64)],
         Sha512 |-> [fn |-> SHA512, iv |-> Words(IV_512, 64)]]

BigSigma(fn, r, x) ==
  Xor(Xor(Rotr(fn.w, x, r[1]), Rotr(fn.w, x, r[2])), Rotr(fn.w, x, r[3]))

\* Slip checked by a mutant run: the last shift is a rotation.
SmallSigma_AllRotate(fn, r, x) ==
  Xor(Xor(Rotr(fn.w, x, r[1]), Rotr(fn.w, x, r[2])), Rotr(fn.w, x, r[3]))

SmallSigma(fn, r, x) ==
  Xor(Xor(Rotr(fn.w, x, r[1]), Rotr(fn.w, x, r[2])), Shr(x, r[3]))

Ch(fn, x, y, z) == Xor(x \cap y, ((0 .. fn.w - 1) \ x) \cap z)
Maj(x, y, z)    == Xor(Xor(x \cap y, x \cap z), y \cap z)

Sum(fn, x, y, z, u) == Add(fn.w, Add(fn.w, Add(fn.w, x, y), z), u)

T1(fn, e, f, g, h, k, w) ==
  Add(fn.w, Sum(fn, h, BigSigma(fn, fn.Sigma1, e), Ch(fn, e, f, g), k), w)
T2(fn, a, b, c) == Add(fn.w, BigSigma(fn, fn.Sigma0, a), Maj(a, b, c))

(***************************************************************************)
(* FIPS 180-4, sections 6.2.2 and 6.4.2: a schedule of one word per round  *)
(* and eight variables that move one place in each.                        *)
(***************************************************************************)
Extend(fn, W, t) ==
  IF t <= 16 THEN W
  ELSE Append(W, Sum(fn, SmallSigma(fn, fn.sigma1, W[t - 2]), W[t - 7],
                         SmallSigma(fn, fn.sigma0, W[t - 15]), W[t - 16]))

\* Round t of a block: v holds the variables a to h, W the schedule as far
\* as it is known.
FipsRound(fn, s, t) ==
  LET W  == Extend(fn, s.W, t)
      v  == s.v
      t1 == T1(fn, v[5], v[6], v[7], v[8], fn.K[t], W[t])
  IN  [s EXCEPT !.v = << Add(fn.w, t1, T2(fn, v[1], v[2], v[3])), v[1], v[2], v[3],
                         Add(fn.w, v[4], t1), v[5], v[6], v[7] >>,
                !.W = W]

\* The four rounds from round t on.
FipsRounds4(fn, s, t) ==
  LET two(r, u) == FipsRound(fn, FipsRound(fn, r, u), u + 1)
  IN  two(two(s, t), t + 2)

\* The words of a block of bytes, each from_be_bytes.
BeWords(fn, block) ==
  LET n == fn.w \div 8
  IN  [i \in 1 .. 16 |-> FromLimbs(SubSeq(block, n * (i - 1) + 1, n * i), 8)]

AddWords(fn, xs, ys) == [i \in 1 .. Len(xs) |-> Add(fn.w, xs[i], ys[i])]

(***************************************************************************)
(* The portable code.  The variables stay where they are and only their    *)
(* names move; the schedule is a ring of sixteen words.                    *)
(***************************************************************************)
\* compress(): the block read into the ring, the variables from the state.
Loaded(fn, chain, block) == [v |-> [r \in 0 .. 7 |-> chain[r + 1]],
                             w |-> [i \in 0 .. 15 |-> BeWords(fn, block)[i + 1]]]

\* The variable that round! calls by its r-th name after j rounds.
Named(j, r) == (r - j) % 8

\* Slip checked by a mutant run: round! of one name shift too many.
Round_Shifted(fn, v, j, k, w) ==
  LET n(r) == v[Named(j + 1, r)]
      t1   == T1(fn, n(4), n(5), n(6), n(7), k, w)
  IN  [v EXCEPT ![Named(j, 3)] = Add(fn.w, @, t1),
                ![Named(j, 7)] = Add(fn.w, Add(fn.w, t1, BigSigma(fn, fn.Sigma0, n(0))),
                                     Maj(n(0), n(1), n(2)))]

\* round!: only d and h are written.
Round(fn, v, j, k, w) ==
  LET n(r) == v[Named(j, r)]
      t1   == T1(fn, n(4), n(5), n(6), n(7), k, w)
  IN  [v EXCEPT ![Named(j, 3)] = Add(fn.w, @, t1),
                ![Named(j, 7)] = Add(fn.w, Add(fn.w, t1, BigSigma(fn, fn.Sigma0, n(0))),
                                     Maj(n(0), n(1), n(2)))]

\* schedule!: word i replaces word i - 16.
Extended(fn, w, i) ==
  [w EXCEPT ![i % 16] =
     Sum(fn, @, SmallSigma(fn, fn.sigma0, w[(i + 1) % 16]), w[(i + 9) % 16],
             SmallSigma(fn, fn.sigma1, w[(i + 14) % 16]))]

\* Round i of rounds8!, on the ring as it stands.
Rounded(fn, s, i) ==
  [s EXCEPT !.v = Round(fn, @, i % 8, fn.K[i + 1], s.w[i % 16])]

\* Round i of rounds8_extending!, which first extends the ring by the word
\* the round uses.
RoundedExtending(fn, s, i) == Rounded(fn, [s EXCEPT !.w = Extended(fn, @, i)], i)

\* Slip checked by a mutant run: the state is replaced, not added to.
FeedForward_Replaces(fn, chain, s) == [i \in 1 .. 8 |-> s.v[i - 1]]

FeedForward(fn, chain, s) == AddWords(fn, chain, [i \in 1 .. 8 |-> s.v[i - 1]])
=============================================================================
