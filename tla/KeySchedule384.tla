--------------------------- MODULE KeySchedule384 ---------------------------
(***************************************************************************)
(* The objects of a SHA-384 key schedule: HMAC-SHA512 and HMAC-SHA384      *)
(* instances (crates/fastcrypto-core/src/hmac512.rs), the PRK object and   *)
(* the expanders of HKDF-SHA384 (hkdf384.rs), all of them over the one     *)
(* HMAC core, in any order of calls.  A slot of the program's memory holds *)
(* an object of any of the three keyed types in turn.                      *)
(***************************************************************************)
EXTENDS Hmac512

CONSTANTS Handle,       \* the slots for keyed objects
          Keys,         \* the keys an HMAC may be created with
          Chunks,       \* the inputs one update call may pass
          MaxLen,       \* bound on the message bytes of one instance
          Salts, Ikms,  \* the inputs of extract
          Prks,         \* pseudorandom keys supplied ready-made
          Infos,        \* labels
          Lengths       \* requested output lengths

ASSUME InputAssumption ==
  /\ Keys \cup Chunks \cup Salts \cup Ikms \cup Infos \subseteq Seq(Byte)
  /\ Prks \subseteq [1 .. SHA384_DIGEST_LEN -> Byte]
  /\ MaxLen \in 0 .. LEN_MOD - 1 - PREFIX_LEN
  /\ Lengths \subseteq Nat

\* No key, input or label is near the size the byte counter can tell, with a
\* key block, a fed back output block and the block number before or after
\* it: a slice has at most isize::MAX bytes, the counter is a u64.
ASSUME CountAssumption ==
  /\ PREFIX_LEN + DIGEST_LEN < LEN_MOD
  /\ \A s \in Keys \cup Salts \cup Ikms \cup Infos :
       PREFIX_LEN + SHA384_DIGEST_LEN + Len(s) + 1 < LEN_MOD

VARIABLES mac,          \* mac[h]: the memory of the object in slot h
          type,         \* type[h]: the object's type
          live,         \* the slots whose object is live
          returned,     \* returned[t]: what the last call on an HMAC of type t
                        \* returned
          prk,          \* the memory of the HkdfSha384 object
          prkStatus,    \* unused, live or dropped
          answer        \* what the last expansion answered

macVars  == << mac, type, live, returned >>
hkdfVars == << prk, prkStatus, answer >>
vars     == << macVars, hkdfVars >>

PRK_LEN  == SHA384_DIGEST_LEN
MAX_OUTPUT_LEN == (BASE - 1) * PRK_LEN
Expander == "HkdfExpander384"

Nothing  == [by |-> {}, tag |-> ZERO_STATE, accepted |-> {}]
NoAnswer == [ok |-> TRUE, okm |-> << >>]

Unused == [inner |-> CoreDrop(CoreNew("Sha384")),
           inner_state |-> ZERO_STATE, outer_state |-> ZERO_STATE]

Init == /\ mac = [h \in Handle |-> Unused]
        /\ type = [h \in Handle |-> "HmacSha384"]
        /\ live = {}
        /\ returned = [t \in MacType |-> Nothing]
        /\ prk = Zeros(PRK_LEN)
        /\ prkStatus = "unused"
        /\ answer = NoAnswer

(***************************************************************************)
(* HMAC.                                                                   *)
(***************************************************************************)
IsMac(h) == h \in live /\ type[h] # Expander

Returns(t, value) == /\ returned' = [returned EXCEPT ![t] = value]
                     /\ UNCHANGED hkdfVars

\* Slot h comes to hold value v, an HMAC of type t.
Starts(h, t, v) == /\ h \notin live
                   /\ mac' = [mac EXCEPT ![h] = v]
                   /\ type' = [type EXCEPT ![h] = t]
                   /\ live' = live \cup {h}
                   /\ Returns(t, Nothing)

DoNew(h, t, key) == Starts(h, t, CoreKeyed(t, key))

DoClone(h, g) == IsMac(g) /\ Starts(h, type[g], mac[g])

MessageOf(m) == SubSeq(Contents(m.inner), PREFIX_LEN + 1, Len(Contents(m.inner)))

Becomes(h, v) == /\ mac' = [mac EXCEPT ![h] = v]
                 /\ Returns(type[h], Nothing)
                 /\ UNCHANGED << type, live >>

DoUpdate(h, data) ==
  /\ IsMac(h)
  /\ Len(MessageOf(mac[h])) + Len(data) <= MaxLen
  /\ Becomes(h, CoreMacUpdate(mac[h], data))

DoReset(h) == IsMac(h) /\ Becomes(h, CoreMacReset(mac[h]))

DoFinalize(h) ==
  /\ IsMac(h)
  /\ Returns(type[h], [by |-> {h}, tag |-> CoreMacFinalize(type[h], mac[h]),
                       accepted |-> {}])
  /\ UNCHANGED << mac, type, live >>

\* h is offered the tag of any instance there is, whatever its type.
DoVerify(h, g) ==
  /\ IsMac(h) /\ IsMac(g)
  /\ Returns(type[h],
       [by |-> {h}, tag |-> CoreMacFinalize(type[g], mac[g]),
        accepted |-> {CoreVerify(type[h], mac[h], TagBytes(type[g], mac[g]))}])
  /\ UNCHANGED << mac, type, live >>

\* Any keyed object ends the same way: an expander through its field.
DoDrop(h) == /\ h \in live
             /\ mac' = [mac EXCEPT ![h] = CoreMacDrop(@)]
             /\ live' = live \ {h}
             /\ UNCHANGED << type, prk, prkStatus >>
             /\ IF type[h] = Expander
                THEN answer' = NoAnswer /\ UNCHANGED returned
                ELSE /\ returned' = [returned EXCEPT ![type[h]] = Nothing]
                     /\ UNCHANGED answer

(***************************************************************************)
(* HKDF-SHA384.                                                            *)
(***************************************************************************)
\* extract: an absent salt is one digest of zeros.
Extracted(salt, ikm) ==
  OneShotMac("HmacSha384", IF salt = << >> THEN Zeros(PRK_LEN) ELSE salt, ikm)

\* One pass of the loop: output block i, counted from one.
Round(s, i, info) ==
  LET start == IF i > 1 THEN CoreMacUpdate(CoreMacReset(s.mac), s.block) ELSE s.mac
      fed   == CoreMacUpdate(CoreMacUpdate(start, info), << Lit(i) >>)
      block == TagBytes("HmacSha384", fed)
      at    == (i - 1) * PRK_LEN
      out   == SubSeq(block, 1, AtMost(PRK_LEN, Len(s.okm) - at))
  IN  [s EXCEPT !.mac = fed, !.block = block, !.okm = CopyFromSlice(@, at, out)]

\* The loop over chunks_mut(PRK_LEN), its counter checked in each pass.
Loop(m, info, n) ==
  LET after[i \in 0 .. (n + PRK_LEN - 1) \div PRK_LEN] ==
        IF i = 0 THEN [mac |-> m, block |-> Zeros(PRK_LEN),
                       okm |-> Zeros(n), ok |-> TRUE]
        ELSE IF after[i - 1].ok /\ i < BASE THEN Round(after[i - 1], i, info)
        ELSE [after[i - 1] EXCEPT !.ok = FALSE]
  IN  after[(n + PRK_LEN - 1) \div PRK_LEN]

Rejected(m, n) == [mac |-> m, okm |-> Zeros(n), ok |-> FALSE]

\* Slip checked by a mutant run: the label starts where the last one ended.
ExpandInto_NoReset(m, info, n) ==
  IF n > MAX_OUTPUT_LEN THEN Rejected(m, n) ELSE Loop(m, info, n)

\* HkdfExpander384::expand_into: length check, reset, then the loop.
ExpandInto(m, info, n) ==
  IF n > MAX_OUTPUT_LEN THEN Rejected(m, n) ELSE Loop(CoreMacReset(m), info, n)

Answers(value) == answer' = value /\ UNCHANGED << type, live, returned >>

\* HkdfSha384::new or from_prk
SetPrk(bytes) == /\ prkStatus # "live"
                 /\ prk' = bytes
                 /\ prkStatus' = "live"
                 /\ Answers(NoAnswer) /\ UNCHANGED mac

DoExtract(salt, ikm) == SetPrk(Extracted(salt, ikm))
DoFromPrk(bytes)     == SetPrk(bytes)

\* zeroize leaves the object live on a zero key, Drop does not.
WipePrk(s) == /\ prkStatus = "live"
              /\ prk' = Zeros(PRK_LEN)
              /\ prkStatus' = s
              /\ Answers(NoAnswer) /\ UNCHANGED mac

DoExpander(h) == /\ prkStatus = "live"
                 /\ h \notin live
                 /\ mac' = [mac EXCEPT ![h] = CoreKeyed("HmacSha384", prk)]
                 /\ type' = [type EXCEPT ![h] = Expander]
                 /\ live' = live \cup {h}
                 /\ answer' = NoAnswer
                 /\ UNCHANGED << returned, prk, prkStatus >>

\* HkdfSha384::expand_into goes through an expander made for the call.
DoOneShot(info, n) ==
  /\ prkStatus = "live"
  /\ LET end == ExpandInto(CoreKeyed("HmacSha384", prk), info, n)
     IN  Answers([ok |-> end.ok, okm |-> end.okm])
  /\ UNCHANGED << mac, prk, prkStatus >>

DoExpand(h, info, n) ==
  /\ h \in live /\ type[h] = Expander
  /\ LET end == ExpandInto(mac[h], info, n)
     IN  /\ Answers([ok |-> end.ok, okm |-> end.okm])
         /\ mac' = [mac EXCEPT ![h] = end.mac]
  /\ UNCHANGED << prk, prkStatus >>

MacNext(h) ==
  \/ \E t \in MacType, key \in Keys : DoNew(h, t, key)
  \/ \E g \in Handle : DoClone(h, g) \/ DoVerify(h, g)
  \/ \E data \in Chunks : DoUpdate(h, data)
  \/ DoFinalize(h)
  \/ DoReset(h)
  \/ DoDrop(h)

HkdfNext ==
  \/ \E salt \in Salts, ikm \in Ikms : DoExtract(salt, ikm)
  \/ \E bytes \in Prks : DoFromPrk(bytes)
  \/ \E s \in {"live", "dropped"} : WipePrk(s)
  \/ \E info \in Infos, n \in Lengths :
       \/ DoOneShot(info, n)
       \/ \E h \in Handle : DoExpand(h, info, n)
  \/ \E h \in Handle : DoExpander(h)

Next == HkdfNext \/ \E h \in Handle : MacNext(h)

Spec == Init /\ [][Next]_vars

(***************************************************************************)
(* Properties.                                                             *)
(***************************************************************************)
\* Sizes and ranges of the live hasher, and of the key that may seed it.
TypeOK ==
  /\ type \in [Handle -> MacType \cup {Expander}]
  /\ live \subseteq Handle
  /\ \A h \in Handle :
       /\ DOMAIN mac[h].inner.block = 1 .. BLOCK_LEN
       /\ mac[h].inner.block_len \in 0 .. BLOCK_LEN - 1
       /\ mac[h].inner.block_filled \in mac[h].inner.block_len .. BLOCK_LEN
       /\ mac[h].inner.len \in 0 .. LEN_MOD - 1
  /\ Len(prk) = PRK_LEN
  /\ prkStatus \in {"unused", "live", "dropped"}
  /\ answer.ok \in BOOLEAN

\* A slot whose object was dropped holds no state made from a key and no
\* byte of a message, label or output block, whatever it was reset from; nor
\* does the PRK outlive its object.
SecretsErased ==
  /\ prkStatus # "live" => prk = Zeros(PRK_LEN)
  /\ \A h \in Handle \ live :
       /\ mac[h].inner.block = Zeros(BLOCK_LEN)
       /\ \A c \in {mac[h].inner.state, mac[h].inner_state, mac[h].outer_state} :
            c = ZERO_STATE

\* The doc of count(): the message bytes absorbed since the last reset, key
\* blocks not counted, on new, cloned and reset instances alike.
CountIsMessageLength ==
  \A h \in live : CoreMacCount(mac[h]) = Len(MessageOf(mac[h]))

KeyBlockOf(m) ==
  [i \in 1 .. Len(m.inner_state.absorbed) |-> m.inner_state.absorbed[i][2]]

Live(t) == {h \in live : type[h] = t}
Macs(t) == [h \in Handle |->
              IF h \in Live(t)
              THEN [k0 |-> KeyBlockOf(mac[h]), bytes |-> MessageOf(mac[h])]
              ELSE [k0 |-> << >>, bytes |-> << >>]]

\* Against StreamingMac: HMAC-SHA512 tags are those of RFC 2104 over SHA-512,
\* and verify accepts exactly the instance's own tag.
Promise512 == INSTANCE StreamingMac WITH
  LEN_FIELD <- LENGTH_LEN, H0 <- "IV_512",
  alive <- Live("HmacSha512"), mac <- Macs("HmacSha512"),
  returned <- returned["HmacSha512"]
ImplementsHmacSha512 == Promise512!ASpec

\* The same over SHA-384, whose digest is truncated: the key that was hashed,
\* the inner digest and the tag each have 48 bytes.
Promise384 == INSTANCE StreamingMac WITH
  LEN_FIELD <- LENGTH_LEN, H0 <- "IV_384", DIGEST_LEN <- SHA384_DIGEST_LEN,
  alive <- Live("HmacSha384"), mac <- Macs("HmacSha384"),
  returned <- returned["HmacSha384"]
ImplementsHmacSha384 == Promise384!ASpec

\* Against Rfc5869: extraction and both ways of expansion give the OKM of
\* PRK, label and length, whatever label, length or refusal came before.
PromiseHkdf == INSTANCE Rfc5869 WITH
  LEN_FIELD <- LENGTH_LEN, H0 <- "IV_384", DIGEST_LEN <- SHA384_DIGEST_LEN,
  Expander <- Handle,
  key   <- IF prkStatus = "live" THEN prk ELSE << >>,
  keyed <- [h \in Handle |-> IF h \in Live(Expander) THEN KeyBlockOf(mac[h])
                             ELSE << >>]
ImplementsRfc5869 == PromiseHkdf!ASpec
=============================================================================
