---------------------------- MODULE MCCompression ----------------------------
(***************************************************************************)
(* The published vectors of the tests in fastcrypto-core and               *)
(* fastcrypto-x86 for the three hash functions: one block, and a message   *)
(* whose padding spills into a second one.                                 *)
(***************************************************************************)
EXTENDS Compression, TLC

\* FIPS 180-4 section 5.1 for messages of less than 2^13 bytes.
Blocks(bytes, n) ==
  LET bits   == 8 * Len(bytes)
      field  == n \div 8
      zeros  == (-(Len(bytes) + 1 + field)) % n
      padded == bytes \o << 128 >> \o [i \in 1 .. zeros + field - 2 |-> 0]
                      \o << bits \div 256, bits % 256 >>
  IN  [b \in 1 .. Len(padded) \div n |-> SubSeq(padded, n * (b - 1) + 1, n * b)]

Test(hash, bytes, digest) ==
  LET w == Hash[hash].fn.w
  IN  [hash   |-> hash,
       blocks |-> Blocks(bytes, 2 * w),
       digest |-> [i \in DOMAIN digest |-> FromLimbs(digest[i], 16)]]

ABC == << 97, 98, 99 >>

\* "abcdbcde..." and "abcdefghbcdefghi...": fourteen groups of g letters.
TwoBlocks(g) == [i \in 1 .. 14 * g |-> 97 + ((i - 1) \div g) + ((i - 1) % g)]

MCMessages == {
   Test("Sha256", ABC,
     << << \hba78, \h16bf >>, << \h8f01, \hcfea >>, << \h4141, \h40de >>, << \h5dae, \h2223 >>,
     << \hb003, \h61a3 >>, << \h9617, \h7a9c >>, << \hb410, \hff61 >>, << \hf200, \h15ad >> >>),
   Test("Sha256", TwoBlocks(4),
     << << \h248d, \h6a61 >>, << \hd206, \h38b8 >>, << \he5c0, \h2693 >>, << \h0c3e, \h6039 >>,
     << \ha33c, \he459 >>, << \h64ff, \h2167 >>, << \hf6ec, \hedd4 >>, << \h19db, \h06c1 >> >>),
   Test("Sha384", ABC,
     << << \hcb00, \h753f, \h45a3, \h5e8b >>, << \hb5a0, \h3d69, \h9ac6, \h5007 >>,
     << \h272c, \h32ab, \h0ede, \hd163 >>, << \h1a8b, \h605a, \h43ff, \h5bed >>,
     << \h8086, \h072b, \ha1e7, \hcc23 >>, << \h58ba, \heca1, \h34c8, \h25a7 >> >>),
   Test("Sha384", TwoBlocks(8),
     << << \h0933, \h0c33, \hf711, \h47e8 >>, << \h3d19, \h2fc7, \h82cd, \h1b47 >>,
     << \h5311, \h1b17, \h3b3b, \h05d2 >>, << \h2fa0, \h8086, \he3b0, \hf712 >>,
     << \hfcc7, \hc71a, \h557e, \h2db9 >>, << \h66c3, \he9fa, \h9174, \h6039 >> >>),
   Test("Sha512", ABC,
     << << \hddaf, \h35a1, \h9361, \h7aba >>, << \hcc41, \h7349, \hae20, \h4131 >>,
     << \h12e6, \hfa4e, \h89a9, \h7ea2 >>, << \h0a9e, \heee6, \h4b55, \hd39a >>,
     << \h2192, \h992a, \h274f, \hc1a8 >>, << \h36ba, \h3c23, \ha3fe, \hebbd >>,
     << \h454d, \h4423, \h643c, \he80e >>, << \h2a9a, \hc94f, \ha54c, \ha49f >> >>),
   Test("Sha512", TwoBlocks(8),
     << << \h8e95, \h9b75, \hdae3, \h13da >>, << \h8cf4, \hf728, \h14fc, \h143f >>,
     << \h8f77, \h79c6, \heb9f, \h7fa1 >>, << \h7299, \haead, \hb688, \h9018 >>,
     << \h501d, \h289e, \h4900, \hf7e4 >>, << \h331b, \h99de, \hc4b5, \h433a >>,
     << \hc7d3, \h29ee, \hb6dd, \h2654 >>, << \h5e96, \he55b, \h874b, \he909 >> >>) }
=============================================================================
