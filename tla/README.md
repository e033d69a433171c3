# fastcrypto-rs: a verification development in TLA+

fastcrypto-rs is a small cryptography library for TLS stacks: SHA-256, SHA-384
and SHA-512 with their HMACs and HKDFs, X25519, and a dispatch layer that picks
an accelerated backend for the CPU at hand. This directory holds TLA+ models of
it, the TLC configurations that check them on small instances, and TLAPS proofs
of what holds for every instance. Line numbers refer to the sources under
`src/crates/`.

## 1. The system

| Component | State it keeps | Operations | Talks to |
| --- | --- | --- | --- |
| SHA-256 hasher, `fastcrypto-core/src/sha256.rs` | chaining state, block buffer, `block_len`, 64-bit `len`, high-water mark `block_filled`, compressor | new, clone, update, finalize, reset, zeroize, drop, `from_state`/`state` (internal) | compressor (function pointer) |
| SHA-256 compression, same file 398-671 | none | `compress` over one block | - |
| HMAC-SHA256, `hmac.rs` | live inner hasher, ipad and opad mid-stream states | key, clone, update, finalize, verify, reset, count, zeroize, drop | SHA-256 hasher |
| HKDF-SHA256, `hkdf.rs` | `HkdfSha256`: the PRK; `HkdfExpander`: one keyed HMAC | extract, from_prk, expander, the two `expand_into`, zeroize, drop | HMAC |
| SHA-512/384, HMAC-SHA384/512, HKDF-SHA384, `sha512.rs`, `hmac512.rs`, `hkdf384.rs` | as above, 128-byte block and 16-byte length field | as above | each other |
| CPU feature caches, `fastcrypto-x86/src/detect.rs`, `fastcrypto-aarch64/src/lib.rs`, `fastcrypto-aarch64/src/x25519.rs` | one process-wide `AtomicU32` each | cached, reset_cache, detect | every accelerated path, from any thread |
| Dispatch, `fastcrypto/src/dispatch.rs`, `backend.rs` | the chosen compressor inside each object | constructors of the public newtypes | core types, feature caches |
| SHA-NI backend, `fastcrypto-x86/src/sha256.rs` | none | `compress_blocks` | feature cache |
| X25519, `fastcrypto/src/x25519.rs` and the architecture crates | secrets held by value | key creation, agree, drop | vendored assembly |
| Bench laboratory, fuzz targets, scripts | none of the library's | - | public API |

All core objects are plain values used by one thread at a time; the only shared
mutable state of the library is the feature caches. What is hard in the core is
therefore sequences of calls, not interleavings: any cut of a message into
`update` calls, finalize in the middle, clones of used objects, reset and
zeroize of objects that stay usable, counters at their limits, and the claim
that secret bytes are gone although only parts of the buffers are wiped.
What is hard in the caches is interleaving under relaxed memory ordering, and
what is hard in dispatch is that the caches stand in front of every block and
every key operation: `compress_blocks` and `x25519` consult them on each call,
so a cache may be cleared or filled between two blocks of one message.

What makes each component correct:

- hasher: the digest is FIPS 180-4 of the concatenated input; the two counters
  agree with the bytes held; the partial wipes clear everything;
- HMAC: the tag is RFC 2104 of key and message since the last reset, whatever
  template it was cloned from; reset restores the keyed state; wiped objects
  hold no key;
- HKDF: output depends on PRK, label and length only; oversized requests are
  refused without effect; dropped objects hold no secret;
- caches: every caller gets what the CPU has; probes are bounded;
- compression: both backends compute the FIPS 180-4 function, and each can
  continue a chaining state the other has left;
- dispatch: every path to an accelerated instruction has seen its feature bit;
- X25519: secrets are cleared on every path, a failing fill callback included,
  both sides of an agreement hold one secret, the all-zero result is refused.

## 2. Modules

```
Sha256            operators: the hasher struct and its methods
  Fips180         reference: padding and digest of a whole message
    StreamingHash abstract specification of the hasher
  Sha256Hasher    state machine; implements StreamingHash
    MCSha256Hasher
  Hmac            operators: the HmacSha256 struct
    Fips198       reference: HMAC of a whole message
      StreamingMac    abstract specification of HMAC instances
      Rfc5869         reference and abstract specification of HKDF
    HmacInstances state machine; implements StreamingMac
      MCHmacInstances
    Hkdf          state machine; implements Rfc5869
      MCHkdf
  Sha512          operators: Sha512Core and its newtypes, over those of Sha256
    Sha512Hasher  state machine; implements StreamingHash
      MCSha512Hasher
    Hmac512       operators: the Core of hmac512.rs
      KeySchedule384  state machine of HMAC-SHA384/512 and HKDF-SHA384;
                      implements StreamingMac (twice) and Rfc5869
        MCKeySchedule384
Sha2              operators: the compression functions on machine words
ShaNi             operators: the SHA extensions and compress_blocks_sha_ni
  Compression     state machine: calls of both backends against FIPS 180-4
    MCCompression
CpuFeatures       operators: the probes and what a CPU executes
FeatureCache      state machine of a relaxed process-wide cache
  MCFeatureCache
  Dispatch        the steps of a dispatched call, over FeatureCache and CpuFeatures
    X25519        state machine: keys, agreements and other callers
      MCX25519
HashLemmas        what the operators of Sha256 and Hmac do, over any set of bytes
  Sha256Proofs    theorems of Sha256Hasher
  Sha512Proofs    theorems of Sha512Hasher
  HmacProofs      theorems of HmacInstances
  HkdfProofs      theorems of Hkdf
  KeySchedule384Proofs
                  theorems of KeySchedule384
CompressionProofs theorems of Compression
X25519Proofs      theorems of X25519 and FeatureCache
```

### Sha256, Sha256Hasher (sha256.rs)

`HasherOf(B)` is the struct, field by field; each method is an operator from the
old value to the new one: `Update` with its three exits (block not completed,
block completed, empty buffer) built from `Buffer`, `Flush` and `Absorb`;
`Scratch`, `UsedLen`, `Finalize` and `ScratchLeft` for `finalize_into`;
`Reset`, `Zeroize` and `Drop`, which differ in what they set and all wipe only
`block[..block_filled]`. The machine `Sha256Hasher` has one action per call.
It keeps the memory of dropped hashers and the scratch buffer the last finalize
left, so that wiping can be stated as a fact about memory. `DoResume` is the
internal `from_state`, at a block boundary of another hasher.

Abstractions. A byte written by the program is `Lit(n)`. A chaining state is the
record of what it depends on: initial vector and all bytes compressed; two are
equal only if both agree. So the compression function is taken to be injective
(collision free) and its rounds are not modelled. `Compressor::run` on a
non-multiple of the block leaves the tail untouched, as the portable backend
does when the debug assertion is off. The `compressor` field is left out: it is set
once and both values of it compute the same function (module `Compression`).
Constants stand for 64 (`BLOCK_LEN`), 8 bytes of length
field (`LEN_FIELD`) and 8 bits (`BITS`); the byte counter wraps at
`2^(BITS*LEN_FIELD)`.

### Hmac, HmacInstances (hmac.rs, util.rs)

`WithKey` is `with_compressor`: a key longer than a block is hashed, the block is
zero padded, the two pads are absorbed by fresh hashers and their states kept.
The pad byte made of key byte b is the pair `<<"ipad", b>>`, a digest byte
`<<"digest", chain, j>>`: bytes of different origin are different. `MacReset`
rebuilds the inner hasher from `inner_state` with a count of one block.
`MacDrop` is the struct's own Drop followed by that of its field. The tag given
to `verify` is the one the last finalize of any instance returned.

### Hkdf (hkdf.rs)

One `HkdfSha256` object and a set of expanders. `Loop` is the loop over
`chunks_mut`, shared by both `expand_into` functions, with the counter
conversion and its error exit; `OneShot` keys an HMAC for the call, `Prepared`
does length check, reset and loop in that order. An expansion is one action: it
runs under `&mut self`. The answer is the output buffer as left and Ok or error.

### Sha512, Sha512Hasher (sha512.rs)

`Sha512Core` has the fields of `Sha256` and mostly its methods, so the module
INSTANCEs `Sha256` and defines what differs: the length field is
twice as wide as the byte counter and takes its high half from the product with
eight (`CoreFinalize`), zeroize clears the whole block while drop and
reset stop at the mark, reset takes the initial state as an argument. The
machine gives every hasher its type, SHA-512, SHA-384 or the bare core with a
third initial state, and cuts the digest to the type's length.

### Hmac512, KeySchedule384 (hmac512.rs, hkdf384.rs)

`CoreKeyed` hashes a long key with the hash of its type; `CoreMacFinalize` cuts the
inner digest to the tag length before the outer pass; `CoreMacDrop` is the Drop of
the struct and of its field. In `KeySchedule384` a slot holds an HMAC-SHA512
instance, an HMAC-SHA384 instance or an expander, and may be dropped and used
again for another type; a tag offered to `verify` may come from the other type.
Each promise (two MACs, HKDF) is an INSTANCE of its abstract specification in
which the slots of the other types do not exist.

### Sha2, ShaNi, Compression (sha256.rs, sha512.rs, x86 sha256.rs)

Here nothing is abstract: a word of 32 or 64 bits is the set of its one bits, so
that TLC's integers suffice; `Carries` is `wrapping_add`'s chain of carries.
`Named` is the rotation of the variable names in `rounds8!`, `Extended` the
in-place ring of the schedule, `Round` the macro with its two written variables;
`Rounded` and `RoundedExtending` are one of the eight rounds of `rounds8!` and of
`rounds8_extending!`. `ShaNi` gives each intrinsic its meaning on four lanes
(`NiRound` is one of the two rounds of `sha256rnds2`, summed in the order of
Intel's manual) and translates packing, the rotating schedule vectors and
unpacking. `Compression` runs a call of one backend, one invocation of a round
macro at a time (one round, or four on vectors), next to the FIPS 180-4
recurrence that keeps the whole schedule; calls follow each other on one
chaining state with either backend. `MessageAssumption` says what the signature
of `compress` does: a message is one or more whole blocks of bytes. The digest
beside it is used by `KnownAnswers` only.

### CpuFeatures, Dispatch, X25519

`DetectX86` is `Features::detect` bit by bit from CPUID leaves and XCR0, which is
read only behind OSXSAVE; `DetectArm` is `detect` of the AArch64 variant cache.
`Executable` is the architecture manual: what the CPU and its system support.
It assumes that leaf 7 exists and is true of the CPU, since `detect` reads it
(`x86/src/detect.rs:67`) without asking for the maximum leaf, and that a CPU with
the SHA extensions has SSSE3 and SSE4.1, of which only the SHA bit is read;
`NoIllegalInstruction` and its theorem hold for such CPUs.
`Dispatch` splits a call into entering, the steps of `cached()` (those of
`FeatureCache`, which it extends), and the routine the answer selects; `executed`
collects the optional instructions of the process, those of the probe included.
`X25519` puts keys around it: one `StaticSecret` shared by all threads, one
ephemeral pair and one shared secret for each thread. A call that borrows the
static key keeps it from being zeroized or dropped (`Unborrowed` is Rust's
exclusive borrow). The record of a dropped object is the memory it left. Field
arithmetic is external: an agreement is the unordered pair of clamped scalars, a
point of small order gives zero. Scalars that differ in a clamped bit are the
same key.

### FeatureCache (detect.rs, aarch64 lib.rs, aarch64 x25519.rs)

The atomic word is its modification order, a sequence of stores; each thread has
a view, the newest store it has seen, and a relaxed load returns any store not
older. Since there is one location, coherence is all that C++/Rust promise and
all the model assumes. `cached()` takes three steps (load: `Hit` or `Miss`;
`Probe`; `Store`), `reset_cache()` one, possibly while other threads are inside
`cached()`. What the CPU has is a constant of the behaviour.

## 3. Runs

| Run | Bounds | Shows |
| --- | --- | --- |
| `sha256_pair` | 2 hashers, block 4, 1-byte length field of 3 bits (counter wraps at 8), chunks of 0, 1, 3, 6 bytes, at most 9 bytes each | all invariants and the refinement, with clone and resume between hashers and a counter that wraps inside one message |
| `sha256_long` | 1 hasher, block 8, 2-byte field of 2 bits (wraps at 16), chunks of 1, 5, 8, 11, at most 24 bytes | length field in one block or in two, whole-block updates, three blocks |
| `feature_cache` | 3 threads, 2 features, 2 resets | agreement and the probe bound under stale loads; with fairness, every probing call returns |
| `feature_cache_once` | 2 threads, no reset | violated: both threads probe |
| `hmac` | 2 instances, block 4, digest 2, keys of 1, 4, 5 bytes, chunks of 2 and 3, at most 5 bytes | RFC 2104 tags, exact verify, reset, erasure |
| `hmac_count` | 1 instance | violated: count() after zeroize |
| `sha512` | 2 hashers of three types, block 4, a 4-bit byte counter under a length field of two digits, chunks of 1, 3, 6 bytes, at most 8 bytes each | the digests of all three types and the wipes, over create, clone, resume, reset, zeroize, drop |
| `sha512_high_half` | same module, 1 hasher | violated: the high half of the length field is not always zero |
| `key_schedule384` | 2 slots, block 8, digest 3 cut to 2, keys of 8 and 9 bytes, lengths 0, 3 and one over the limit, 2-bit output counter | tags of both types and outputs are those of RFC 2104 and RFC 5869; dropped slots hold no key |
| `compression` | real word sizes; one- and two-block published messages; both backends in any order | every round, the schedule, the chaining state and the published digests |
| `x25519` | 2 threads, 3 CPUs, 2 scalars, 1 reset, 3 dispatched calls | instruction safety, erasure, agreement |
| `hkdf` | 1 object, 1 expander, digest 2, 2-bit counter (3 blocks at most), lengths 0, 1, 3, 6, 7, three labels | RFC 5869 output, refusals, erasure |

Why the bounds are enough: chunk lengths cover empty, below, at and above the
distance to a block boundary from every fill; two objects are all a call ever
relates; the counter bounds are chosen below the lengths reached, so that every
limit is crossed. `MaxLen`, `MaxResets` and `MaxCalls` are the only bounds in guards.
Expanders share no state, so one suffices. The proofs remove the bounds for
every state machine.

`MaxCalls` bounds the dispatched calls of the `x25519` run. Three are what an
agreement of two sides takes: one thread makes a pair and agrees with the share
of the static key (imported without a call), another lets the static key agree
with the pair's share. The run's view leaves out three histories that decide
nothing any more (the probe counters, a local of `cached()` after its store, an
answer after its use): no guard and no later value depends on them, and the type
invariant has read each value while it was in view. Threads are symmetric; CPUs
and scalars are not permuted. `feature_cache` uses no symmetry, since it checks
a temporal property.

Fairness. `feature_cache` runs under `FairSpec`: weak fairness of
`Probe(t) \/ Store(t)` for each thread, that is, a thread which has found the
word empty is scheduled until its `cached()` returns. The operating system gives
a runnable thread that much, the two steps are never disabled by another
thread, and no fairness is put on entering a call or on resetting. Under it
`EveryProbeReturns`: with no lock and no initialisation flag nobody waits for
anybody. The core has no other liveness to state: its calls run to completion
under `&self` or `&mut self` and each loop is over a finite input.
Only the `compression` run turns the deadlock check off: its system stops when
the last block of the message is compressed. In every other run some call is
always possible, or, where a bound in a guard is exhausted, dropping and
importing keys still is.

Every property of a passing run has a mutant of a modelled definition that
breaks it; they stand beside the definitions they change as `X_<slip>` and model
slips such as a mark that follows the fill down, a length placed as if for one
block, a reset that forgets the prefix, an expander that does not reset.

### Where documentation and code differ

- `aarch64/src/lib.rs:90` says `cached()` probes "at most once per process".
  Racing first calls each probe (`ProbesOncePerProcess`). Results agree.
- `sha512.rs:416-417` says of the 128-bit length that "the high half is always
  zero". From 2^61 bytes on it is not (`HighHalfZero`); the digest is right.
- `dispatch.rs:4-6` says that the backend is chosen once per construction and "no
  dispatch happens per block". The stored function is `compress_blocks`, which
  loads the cache on each call (`x86/src/sha256.rs:222`). The model follows the
  code; no run is about the wording.
- `hmac.rs:158-160` says `count()` is "the message length only". After
  `zeroize()` the subtraction of the prefix underflows (`CountIsMessageLength`);
  the model takes the wrapping of a release build, a debug build panics.
- `sha512.rs:476` says that the core's `count()` excludes the key prefix. It
  returns `len`, prefix included, and `hmac512.rs:102` subtracts the prefix; the
  model has that subtraction, and `CountIsMessageLength` is about its result.
- `sha256.rs:10-12` describes a message schedule of 64 words; the code keeps a
  ring of sixteen, as the model does. `docs/ARCHITECTURE.md:64` says that every
  primitive dispatches to the portable backend; `dispatch.rs:14-21` picks the
  accelerated one on x86_64. No run is about either wording.

## 4. Proofs

Each theorem is of the form `Spec => []Property` or `Spec => Promise!ASpec` (of
the cache inside `X25519`, `Spec => CacheSpec`), for every value of the
constants. A proof module has an inductive invariant `IInv`,
shown to hold initially and to be kept by each action, and derives each property
from it. Refinements are shown step by step: under `IInv` every action maps to
the abstract action of the same name or to a stutter. What the operators do is
proved once, in `HashLemmas`, over a parameter B, the set of bytes hashed, and
I, the set of initial vectors: a MAC hashes pads and digests besides message
bytes, SHA-512 starts from other vectors.

Assumed of the constants are, for SHA-256, `BlockAssumption` (sizes positive,
delimiter and length fit in a block) and `WidthAssumption` (powers are positive
naturals, the delimiter is a byte, the block length divides the range of the
counter: 64 divides 2^64); for SHA-512 also `WideAssumption` and
`WideWidthAssumption`, the same of the length field twice as wide; for HMAC
`DigestAssumption` and `PrefixAssumption` (a digest fits in a block, the counter
exceeds a block) and, where digests are cut, `TruncationAssumption`; for each
machine its inputs' types (`InputAssumption`, `HkdfAssumption`).
`KeySchedule384` adds `CountAssumption`: a key, input or label together with a
key block, an output block and a block number stays below the range of the byte
counter. A Rust slice has at most `isize::MAX` bytes and the counter is a u64, so
every input of the code satisfies it; without it the 64-bit count and the
128-bit length of `finalize_state` could disagree. TLC evaluates the assumptions
on every run.

**Sha256Proofs**: the five invariants of `sha256_pair` and the refinement of
`StreamingHash`. `IInv` is: types; `BufferSound` of every hasher (fill at
most the mark, zeros above it); `Tracks` of every living one (the counters are
those of the contents and the compressed bytes are whole blocks); `Clean` of the
wiped ones; a cleared scratch. Neither part stands alone: that a wipe up to the
mark cleans the block needs zeros above the mark; that `finalize` pads at the
right place needs the counter to be that of the contents; that the counter
survives an update needs aligned chaining states. The refinement rests on lemma
`ScratchIsTailAndPadding`: in-place padding is the padding of FIPS 180-4.

**Sha512Proofs**: the three invariants of `sha512` and the refinement of
`StreamingHash`, in which `LEN_FIELD` is the wide one. `IInv` adds to that of
SHA-256 that a core's initial vector is its type's or zero, without which no
digest could be attributed to a type, and that contents stay within `MaxLen`,
below the range of the byte counter (u64 in the source): a counter that never
wrapped is also the count modulo the wider range. With it the lemmas apply to
`finalize_state` through an instance of `HashLemmas` with the wide field.

**HmacProofs**: the three invariants of `hmac` and the refinement of
`StreamingMac`. `IInv` says by stage what an instance's memory is. Live: for
some key and message the two kept states are those of the key's pads and the
contents of the live hasher are the inner pad followed by the message (`Holds`).
Zeroized: zero states and message bytes only (`Keyless`); its counter is not
that of its contents, since a reset after `zeroize` counts a key block that is
not there. Dropped: all zero. `KeyErased` is not inductive without `Keyless`,
since a zeroized instance may be updated and reset, and `ResetRestoresKeyed` is
about states that only `Holds` ties to a key. `MacFinalizeIsTag` equates
`finalize` with FIPS 198, `CtEqIsEquality` the branch-free comparison with
equality, and `DigestBytesInjective` makes verify exact.

**HkdfProofs**: the three invariants of `hkdf`, its action property
`RefusalKeepsExpander` and the refinement of `Rfc5869`, for every key, label and requested length. An
expansion feeds each digest back as input, so no fixed set holds all bytes; the
invariant says "over some set of bytes" (`SomeMac`, `Keyed`) and the lemmas
enlarge that set with each pass. TLC cannot evaluate such an invariant: what it
checks is what follows from it, the properties. `IInv` is: a PRK of the right
length, zero unless live; each expander keyed with some key block whatever it
has absorbed since, or erased; the last answer of a requested length, zero when
refused. The loop is proved by induction on the pass (`LoopComputes`): while the
length is within the limit, the counter conversion succeeds in every pass, the
expander stays keyed with the same block (`PassKeepsSound`), and output bytes
are those of T(1), T(2), ... (`PassWrites`, `OkmIs`). Induction theorems with an
operator parameter cannot be instantiated by the provers; `InductionUpTo`
instead is derived from the well-foundedness of < on the naturals, for a set of
numbers, which suffices, because the recursive definitions here are recursive
functions.

**KeySchedule384Proofs**: the three invariants of `key_schedule384` and all
three refinements. `IInv` says of each slot, whatever type it holds: its memory
is that of some MAC; live, it is keyed in the hash of its type (SHA-384 for an
expander) with some key block and has absorbed some message (`Holds`); dropped,
it is erased. `Holds` includes that prefix and message are within the counter:
`CountIsMessageLength` needs it, and so does every digest, since the core pads
with a length field twice as wide as the counter it keeps (`CoreFinalizeIsHash`,
by the instance of `HashLemmas`). Digests, key blocks and tags are defined for
the vector and the truncation of a type (`HashOn`, `K0On`, `TagOn`); `HoldsTag`
shows that `finalize` computes them, `VerifyJudges` that a tag is accepted only
by its own type and message: tags of different types start from different
vectors. A refinement must also show that calls on objects of the other types
stutter (`OtherType`, `MacCallsAreSilent`, `HkdfIsSilent`), although a slot
changes type between its lives. The two MAC refinements share one proof about a
type u (`Step(u)`, `NextSteps`); only the last step, from `Step` to the
INSTANCEd promise, is done for each.

**X25519Proofs** proves the four invariants of the `x25519` run for any set of
CPUs, threads and scalars and any bounds, assuming only that a CPU has one of
the two architectures, that the bounds are naturals and that scalars are
non-zero naturals. Its invariant has two halves. `DispatchInv`: populated words,
locals of `cached()` and answers are `Detect(cpu)`, which `DetectIsExecutable`
shows to be within `Executable(cpu)`; so what is executed on their account is
too. It is needed because the routine runs on an answer that may be older than
the newest reset. `KeyInv`: a live pair's share is its scalar's (`Matched`) and
a live agreement is made of the two shares recorded with it (`Sound`), from
which symmetry and non-zero follow. Each step concerns one thread
(`OneThread`), so the proof has one case per action and thread.
`CacheImplemented` is a refinement: the cache inside the composed system takes
the steps of `CacheSpec` and no others, whatever keys and callers do around it
(`StepsOfTheCache`). Of that protocol the module proves type correctness,
`NeverDisagree` and `ProbesBounded`, for any set of features and any number of
threads and resets. Their invariant `CacheInv` counts the empty words in the modification order: each reset adds
one, each probe of a thread follows an empty word strictly after all it consumed
before, so probes are at most resets plus one.

**CompressionProofs** proves `RoundsAgree`, `ScheduleAgrees` and `ChainAgrees`
for every message, assuming `MessageAssumption`. The run shows them on six
published messages; the theorems say that for no block, no chaining state and no
sequence of calls of the two backends can code and standard part. The argument
has three parts.

- Sums. The code sums a schedule word from the oldest term up, the standard from
  the newest down, `round!` and `sha256rnds2` in two more orders. That these are
  one word needs `wrapping_add` to be commutative and associative
  (`AddCommutes`, `AddAssociates`). A carry into bit i is described without the
  recursion, as one made at a bit j and passed on since (`Made`,
  `CarriesAreMade`); associativity is then proved bit by bit with a stronger
  claim, that both orders make as many carries into each bit (as many of two, so
  equal in sum and in product). The induction goes over a set of bit positions
  (`InductionUpTo`, from the well-foundedness of <), as in `HkdfProofs`.
- Places. `NamedTurns` and `RoundIsFips`: writing two of eight variables and
  turning the names is moving all eight. `RingExtends`: the slot `schedule!`
  writes held the one word no later round reads. `View` reads the variables off
  the lanes; `PackedIs`, `UnpackedIsView` and `Rnds2IsFips` show that the
  shuffles, the blend, the alignment and the exchanged roles of the two vectors
  keep it right, `MsgLanes` and `ScheduledLanes` the same of the five schedule
  vectors, `LoadIs` that the byte shuffle makes the words `from_be_bytes` makes.
- The invariant. None of the three properties is inductive: the next round needs
  the word it reads, that word needs all sixteen before it and their number, and
  the end of a block needs the chaining state it began with. `IInv` says that the
  locals are of the running backend and stand for the reference (`VarsAgree` and
  `RingHolds`, or `View` and `LanesHold`), that the SHA-NI code runs for SHA-256
  only and between groups of four, and which of `chain` and `save` is the
  reference's chaining state: during a SHA-NI call the caller's chain is stale
  from the second block on.

What it takes on trust is what `ShaNi` says the instructions compute; that the
constants and rotation amounts, which both sides share, are the standard's is
what `KnownAnswers` checks.

Model-checked only:

- `KnownAnswers`: the published digests, which test the tables both sides share;
  there is nothing to prove of other messages, whose digests nobody published;
- `EveryProbeReturns`, which is liveness under fairness;
- the three violated claims.

## 5. Not modelled

Hazards without a property are listed in `PROJECT.json` with the reason. In
short:

- stack copies outside the structs (the block copied before compression, the
  hashed key, `verify`'s computed tag, the value `prk()` returns) and constant
  time: not part of a program's modelled state;
- the vendored assembly: third-party field arithmetic; X25519 takes it as an
  external function;
- heterogeneous cores: the modelled machine has one core type;
- the public newtypes of `dispatch.rs`, which forward each call to a core type,
  `Backend`, which is for reports, and the fixed-variant entry points for tests
  and benchmarks; the free function `hkdf_sha384`, a composition of modelled
  calls on temporaries;
- `Sha512Core::finalize_into` for more than 64 bytes, which panics: the library
  calls it for the three digest lengths only;
- the platform probe of `aarch64/src/lib.rs` behind a std macro, on whose answer
  no code of the library depends;
- benchmarks, fuzz targets, scripts, wording of errors.

## 6. Plan

1. `FairSpec` composed with `Dispatch`: every dispatched call returns.
2. A probe per core for the AArch64 variant cache.
