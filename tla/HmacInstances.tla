--------------------------- MODULE HmacInstances ---------------------------
(***************************************************************************)
(* A program's HmacSha256 instances (crates/fastcrypto-core/src/hmac.rs)   *)
(* through any sequence of the public calls: keying, clone, update,        *)
(* finalize, verify, reset, zeroize, drop.  The tag presented to verify is *)
(* one that some finalize returned before, whichever instance made it.     *)
(***************************************************************************)
EXTENDS Hmac

CONSTANTS Handle,       \* the instances of the program
          Keys,         \* the keys one may be created with
          Chunks,       \* the inputs one update call may pass
          MaxLen        \* bound on the message bytes of one instance

ASSUME InputAssumption ==
  Keys \subseteq Seq(Byte) /\ Chunks \subseteq Seq(Byte) /\ MaxLen \in Nat

VARIABLES hmac,         \* hmac[h]: the memory of instance h
          status,       \* unused, live, wiped (live after zeroize), dropped
          returned,     \* what the last call returned
          offered       \* the tag last returned, later offered to verify

vars == << hmac, status, returned, offered >>

Alive == {h \in Handle : status[h] \in {"live", "wiped"}}

Nothing == [by |-> {}, tag |-> ZERO_STATE, accepted |-> {}]

Init == /\ hmac = [h \in Handle |-> MacDrop(WithKey(<< >>))]
        /\ status = [h \in Handle |-> "unused"]
        /\ returned = Nothing
        /\ offered = ZERO_STATE

Becomes(h, v, s) == /\ hmac' = [hmac EXCEPT ![h] = v]
                    /\ status' = [status EXCEPT ![h] = s]
                    /\ returned' = Nothing
                    /\ UNCHANGED offered

DoNew(h, key) == h \notin Alive /\ Becomes(h, WithKey(key), "live")

DoClone(h, g) == /\ h \notin Alive
                 /\ g \in Alive
                 /\ Becomes(h, hmac[g], status[g])

\* The message an instance has absorbed: its inner hasher's, key block apart.
MessageOf(m) ==
  LET bytes == Contents(m.inner)
  IN  IF m.inner.state.iv = "zero" THEN bytes
      ELSE SubSeq(bytes, PREFIX_LEN + 1, Len(bytes))

DoUpdate(h, data) == /\ h \in Alive
                     /\ Len(MessageOf(hmac[h])) + Len(data) <= MaxLen
                     /\ Becomes(h, MacUpdate(hmac[h], data), status[h])

DoFinalize(h) ==
  /\ h \in Alive
  /\ offered' = MacFinalize(hmac[h])
  /\ returned' = [by |-> {h}, tag |-> offered', accepted |-> {}]
  /\ UNCHANGED << hmac, status >>

DoVerify(h) ==
  /\ h \in Alive
  /\ returned' = [by |-> {h}, tag |-> offered,
                  accepted |-> {Verify(hmac[h], offered)}]
  /\ UNCHANGED << hmac, status, offered >>

DoReset(h)   == h \in Alive /\ Becomes(h, MacReset(hmac[h]), status[h])

DoZeroize(h) == h \in Alive /\ Becomes(h, MacZeroize(hmac[h]), "wiped")

DoDrop(h)    == h \in Alive /\ Becomes(h, MacDrop(hmac[h]), "dropped")

Next == \E h \in Handle :
          \/ \E key \in Keys : DoNew(h, key)
          \/ \E g \in Handle : DoClone(h, g)
          \/ \E data \in Chunks : DoUpdate(h, data)
          \/ DoFinalize(h)
          \/ DoVerify(h)
          \/ DoReset(h)
          \/ DoZeroize(h)
          \/ DoDrop(h)

Spec == Init /\ [][Next]_vars

(***************************************************************************)
(* Properties.                                                             *)
(***************************************************************************)
DigestByte == {"digest"} \X Chain \X (1 .. DIGEST_LEN)
PadByte    == {"ipad", "opad"} \X (Byte \cup DigestByte)
MacByte    == Byte \cup PadByte
KeyedChain == ChainOf(MacByte)

\* Key states hold pads, hashers pads and message bytes, tags digest bytes.
TypeOK ==
  /\ hmac \in [Handle -> [inner       : HasherOf(MacByte),
                          inner_state : ChainOf(PadByte),
                          outer_state : ChainOf(PadByte)]]
  /\ status \in [Handle -> {"unused", "live", "wiped", "dropped"}]
  /\ \A c \in {returned.tag, offered} :
       c \in ChainOf(MacByte \cup ({"digest"} \X KeyedChain \X (1 .. DIGEST_LEN)))
  /\ returned.by \subseteq Handle
  /\ returned.accepted \subseteq BOOLEAN

\* An instance that was dropped or zeroized holds no byte made from a key,
\* and a dropped one no byte of a message either: not in the two key states,
\* the live hasher's state, or the bytes left in its block.
KeyErased ==
  \A h \in Handle :
    /\ status[h] \in {"wiped", "dropped"} =>
         /\ hmac[h].inner_state = ZERO_STATE
         /\ hmac[h].outer_state = ZERO_STATE
         /\ hmac[h].inner.state.iv = "zero"
         /\ \A i \in 1 .. BLOCK_LEN : hmac[h].inner.block[i] \notin PadByte
    /\ status[h] = "dropped" => hmac[h].inner.block = Zeros(BLOCK_LEN)

\* What hkdf.rs builds on: whatever an instance has absorbed and whichever
\* instance it was cloned from, reset brings back, in every field, the
\* instance some key was freshly installed in.
ResetRestoresKeyed ==
  \A h \in Handle : status[h] = "live" =>
    \E key \in Keys : MacReset(hmac[h]) = WithKey(key)

\* The doc of count(): the number of message bytes since the last reset, the
\* key blocks not counted.
CountIsMessageLength ==
  \A h \in Alive : Count(hmac[h]) = Len(MessageOf(hmac[h])) % LEN_MOD

\* Against StreamingMac: tags are those of RFC 2104 for the key and the
\* message since the last reset, however update calls cut the message and
\* whatever clones were made on the way; verify accepts exactly that tag.
KeyBlockOf(m) ==
  IF m.inner_state.iv = "zero" THEN << >>
  ELSE [i \in 1 .. Len(m.inner_state.absorbed) |-> m.inner_state.absorbed[i][2]]

Macs == [h \in Handle |->
           IF h \in Alive THEN [k0 |-> KeyBlockOf(hmac[h]), bytes |-> MessageOf(hmac[h])]
           ELSE [k0 |-> << >>, bytes |-> << >>]]

Promise == INSTANCE StreamingMac WITH alive <- Alive, mac <- Macs, H0 <- "H0"
ImplementsStreamingMac == Promise!ASpec
=============================================================================
