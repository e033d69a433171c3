-------------------------------- MODULE Hkdf --------------------------------
(***************************************************************************)
(* HkdfSha256 and HkdfExpander of crates/fastcrypto-core/src/hkdf.rs: a    *)
(* pseudorandom key extracted or supplied, expanders prepared from it that *)
(* keep one keyed HMAC for many labels, and the two expand_into loops.     *)
(*                                                                         *)
(* The caller's output buffer comes in zeroed; the answer of a call is the *)
(* buffer as the call leaves it and whether it returned Ok.                *)
(***************************************************************************)
EXTENDS Hmac

CONSTANTS Expander,     \* the prepared expanders of the program
          Salts, Ikms,  \* the inputs of extract
          Prks,         \* pseudorandom keys supplied ready-made
          Infos,        \* labels
          Lengths       \* requested output lengths

ASSUME HkdfAssumption ==
  /\ Salts \cup Ikms \cup Infos \subseteq Seq(Byte)
  /\ Prks \subseteq [1 .. DIGEST_LEN -> Byte]
  /\ Lengths \subseteq Nat

VARIABLES prk,          \* the memory of the HkdfSha256 object
          prkStatus,    \* unused, live or dropped
          expander,     \* expander[e]: the memory of expander e
          status,       \* status[e]: unused, live or dropped
          answer        \* what the last expansion answered

vars == << prk, prkStatus, expander, status, answer >>

NoAnswer == [ok |-> TRUE, okm |-> << >>]

\* Slip checked by a mutant run: 256 blocks.
MAX_OUTPUT_LEN_OffByOne == BASE * DIGEST_LEN

\* 255 blocks: what the one-byte counter can number.
MAX_OUTPUT_LEN == (BASE - 1) * DIGEST_LEN

\* extract_with
Extracted(salt, ikm) == DigestBytes(MacFinalize(MacUpdate(WithKey(salt), ikm)))

\* One pass of the loop: output block i, counted from one.
Round(s, i, info) ==
  LET mac   == IF i > 1 THEN MacUpdate(MacReset(s.mac), s.block) ELSE s.mac
      fed   == MacUpdate(MacUpdate(mac, info), << Lit(i) >>)
      block == DigestBytes(MacFinalize(fed))
      at    == (i - 1) * DIGEST_LEN
      out   == SubSeq(block, 1, AtMost(DIGEST_LEN, Len(s.okm) - at))
  IN  [s EXCEPT !.mac = fed, !.block = block, !.okm = CopyFromSlice(@, at, out)]

\* The loop over chunks_mut(DIGEST_LEN); a counter that does not fit its byte
\* ends it with an error and leaves what was written so far.
Loop(mac, info, n) ==
  LET after[i \in 0 .. (n + DIGEST_LEN - 1) \div DIGEST_LEN] ==
        IF i = 0 THEN [mac |-> mac, block |-> Zeros(DIGEST_LEN),
                       okm |-> Zeros(n), ok |-> TRUE]
        ELSE IF after[i - 1].ok /\ i < BASE THEN Round(after[i - 1], i, info)
        ELSE [after[i - 1] EXCEPT !.ok = FALSE]
  IN  after[(n + DIGEST_LEN - 1) \div DIGEST_LEN]

Rejected(mac, n) == [mac |-> mac, okm |-> Zeros(n), ok |-> FALSE]

\* HkdfSha256::expand_into keys an HMAC for the call and drops it.
OneShot(info, n) ==
  IF n > MAX_OUTPUT_LEN THEN Rejected(<< >>, n) ELSE Loop(WithKey(prk), info, n)

\* Slip checked by a mutant run: the regression of the source's tests, a
\* label that starts on the state the previous label left.
Prepared_NoReset(mac, info, n) ==
  IF n > MAX_OUTPUT_LEN THEN Rejected(mac, n) ELSE Loop(mac, info, n)

\* Slip checked by a mutant run: reset before the length check.
Prepared_ResetsFirst(mac, info, n) ==
  IF n > MAX_OUTPUT_LEN THEN Rejected(MacReset(mac), n)
  ELSE Loop(MacReset(mac), info, n)

\* HkdfExpander::expand_into: length check, reset, loop, in that order.
Prepared(mac, info, n) ==
  IF n > MAX_OUTPUT_LEN THEN Rejected(mac, n) ELSE Loop(MacReset(mac), info, n)

Init == /\ prk = Zeros(DIGEST_LEN)
        /\ prkStatus = "unused"
        /\ expander = [e \in Expander |-> MacDrop(WithKey(<< >>))]
        /\ status = [e \in Expander |-> "unused"]
        /\ answer = NoAnswer

\* HkdfSha256::new or from_prk
SetPrk(bytes) == /\ prkStatus # "live"
                 /\ prk' = bytes
                 /\ prkStatus' = "live"
                 /\ answer' = NoAnswer
                 /\ UNCHANGED << expander, status >>

DoExtract(salt, ikm) == SetPrk(Extracted(salt, ikm))

DoFromPrk(bytes) == SetPrk(bytes)

\* Slip checked by a mutant run: HkdfSha256 has no Drop.
WipePrk_OnZeroizeOnly(s) == /\ prkStatus = "live"
                            /\ prk' = IF s = "live" THEN Zeros(DIGEST_LEN) ELSE prk
                            /\ prkStatus' = s
                            /\ answer' = NoAnswer
                            /\ UNCHANGED << expander, status >>

\* HkdfSha256's zeroize (it stays live) and Drop.
WipePrk(s) == /\ prkStatus = "live"
              /\ prk' = Zeros(DIGEST_LEN)
              /\ prkStatus' = s
              /\ answer' = NoAnswer
              /\ UNCHANGED << expander, status >>

DoExpander(e) == /\ prkStatus = "live"
                 /\ status[e] # "live"
                 /\ expander' = [expander EXCEPT ![e] = WithKey(prk)]
                 /\ status' = [status EXCEPT ![e] = "live"]
                 /\ answer' = NoAnswer
                 /\ UNCHANGED << prk, prkStatus >>

DoOneShot(info, n) ==
  /\ prkStatus = "live"
  /\ LET end == OneShot(info, n) IN answer' = [ok |-> end.ok, okm |-> end.okm]
  /\ UNCHANGED << prk, prkStatus, expander, status >>

DoPrepared(e, info, n) ==
  /\ status[e] = "live"
  /\ LET end == Prepared(expander[e], info, n)
     IN  /\ answer' = [ok |-> end.ok, okm |-> end.okm]
         /\ expander' = [expander EXCEPT ![e] = end.mac]
  /\ UNCHANGED << prk, prkStatus, status >>

\* The drop of the expander's field hmac.
DoDropExpander(e) == /\ status[e] = "live"
                     /\ expander' = [expander EXCEPT ![e] = MacDrop(@)]
                     /\ status' = [status EXCEPT ![e] = "dropped"]
                     /\ answer' = NoAnswer
                     /\ UNCHANGED << prk, prkStatus >>

Next ==
  \/ \E salt \in Salts, ikm \in Ikms : DoExtract(salt, ikm)
  \/ \E bytes \in Prks : DoFromPrk(bytes)
  \/ \E s \in {"live", "dropped"} : WipePrk(s)
  \/ \E info \in Infos, n \in Lengths : DoOneShot(info, n)
  \/ \E e \in Expander :
       \/ DoExpander(e)
       \/ \E info \in Infos, n \in Lengths : DoPrepared(e, info, n)
       \/ DoDropExpander(e)

Spec == Init /\ [][Next]_vars

(***************************************************************************)
(* Properties.                                                             *)
(***************************************************************************)
\* Sizes of the buffers, and the status values.
TypeOK ==
  /\ DOMAIN prk = 1 .. DIGEST_LEN
  /\ prkStatus \in {"unused", "live", "dropped"}
  /\ status \in [Expander -> {"unused", "live", "dropped"}]
  /\ \A e \in Expander :
       /\ DOMAIN expander[e].inner.block = 1 .. BLOCK_LEN
       /\ expander[e].inner.block_len \in 0 .. BLOCK_LEN - 1
       /\ expander[e].inner.block_filled \in 0 .. BLOCK_LEN
       /\ expander[e].inner.len \in 0 .. LEN_MOD - 1
  /\ answer.ok \in BOOLEAN
  /\ Len(answer.okm) \in Lengths \cup {0}

\* A refused request leaves no byte of key material in the caller's buffer:
\* the length check comes before the first block, never after some.
RefusalWritesNothing ==
  ~answer.ok => \A j \in 1 .. Len(answer.okm) : answer.okm[j] = ZERO

\* Nor does it disturb the expander it was made on: the next label finds
\* the same prepared state.
RefusalKeepsExpander == [][~answer'.ok => UNCHANGED << prk, expander >>]_vars

\* Dropped objects hold neither the PRK nor a state keyed with it, nor the
\* chained block T(i) the expander's hasher buffered last.
SecretsErased ==
  /\ prkStatus # "live" => prk = Zeros(DIGEST_LEN)
  /\ \A e \in Expander : status[e] # "live" =>
       /\ expander[e].inner.block = Zeros(BLOCK_LEN)
       /\ \A c \in {expander[e].inner.state, expander[e].inner_state,
                    expander[e].outer_state} : c = ZERO_STATE

\* Against Rfc5869: one-shot and prepared expansion both give the OKM of PRK,
\* label and length, whatever labels, lengths and refusals came before.
KeyBlockOf(m) ==
  [i \in 1 .. Len(m.inner_state.absorbed) |-> m.inner_state.absorbed[i][2]]

Promise == INSTANCE Rfc5869 WITH
  H0    <- "H0",
  key   <- IF prkStatus = "live" THEN prk ELSE << >>,
  keyed <- [e \in Expander |->
              IF status[e] = "live" THEN KeyBlockOf(expander[e]) ELSE << >>]
ImplementsRfc5869 == Promise!ASpec
=============================================================================
