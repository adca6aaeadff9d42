------------------------------ MODULE Containers ------------------------------
(* The .pqf container: every layout the library writes, what its header says   *)
(* and commits to, and every entry point that reads a file back.  One file is  *)
(* written, storage may change it, and a reader with some credential is asked  *)
(* for its text.  How the chunk loops run is in StreamEncrypt, StreamDecrypt   *)
(* and PipelinedEncrypt; how slots are rewritten in Recipients.                *)
(*                                                                             *)
(* A key, a nonce or a salt is a value nobody guesses.  A block opens only     *)
(* under the key, nonce, counter, end mark and commitment it was sealed with.  *)
EXTENDS Integers, Sequences, FiniteSets, SequencesExt, TLC

CONSTANTS
    Keys,           \* key pairs
    Variant,        \* Variant[k]: the KEM variant of k, "768" or "1024"
    None,
    Chunk,          \* CHUNK_SIZE
    MaxChunk,       \* MAX_CHUNK_SIZE
    MaxSize,        \* MAX_ORIGINAL_SIZE
    Tag,            \* the 16 bytes of an AEAD tag, in the same unit
    MaxText,        \* bound: the longest text
    LastRound,      \* bound: the last round of the beacon
    MaxFaults       \* bound: changes storage makes to the file

ASSUME SizesAssumption ==
    /\ MaxChunk \in Nat /\ Chunk \in 1 .. MaxChunk
    /\ MaxSize \in Nat /\ MaxText \in 0 .. MaxSize
    /\ Tag \in Nat \ {0} /\ LastRound \in Nat /\ MaxFaults \in Nat
ASSUME KeysAssumption ==
    IsFiniteSet(Keys) /\ None \notin Keys /\ Variant \in [Keys -> {"768", "1024"}]

VARIABLES
    file,           \* the file, or None before it is written
    wrote,          \* how it was written: text, size, key, layout
    now,            \* the last round the beacon has published
    faults          \* changes made to the file

vars == <<file, wrote, now, faults>>

Chunked  == {"v3", "v5"}
Slotted  == {"v4", "v7", "v8", "v9"}
Layouts  == {"v2", "v6", "v10", "tlock"} \cup Chunked \cup Slotted
Factors  == {"none", "keyfile", "fido2", "webauthn"}
CeilDiv(a, b) == (a + b - 1) \div b
Least(a, b)   == IF a < b THEN a ELSE b

(***************************************************************************)
(* The header.  Two layouts that put the same fields at the same places are *)
(* one shape on the wire: a version byte flipped between them still parses. *)
(* Under any other layout the fields shift and nothing opens.               *)
(***************************************************************************)
Shape(layout, slots) ==
    CASE layout \in {"v2", "v3"} -> "single"
      [] layout \in {"v8", "v9"} -> "blind"
      [] layout \in {"v4", "v7"} /\ \A i \in DOMAIN slots : slots[i].variant = "1024" -> "slots"
      [] OTHER -> layout

\* A header with nothing in it, and no payload behind it yet.
Blank == [layout |-> "v3", auth |-> TRUE, kem |-> None, slots |-> <<>>, nonce |-> "n",
          size |-> 0, chunk |-> Chunk, comp |-> "none", kdf |-> None, lock |-> None,
          wire |-> None, blocks |-> <<>>, rest |-> 0]

\* Everything but stealth starts with the magic and the version byte.
Authenticated(h) == h.auth
Version(h)       == <<h.layout, h.auth>>

ValidateChunkSize(h) == h.layout \in {"v5", "v6"} => h.chunk \in 1 .. MaxChunk
ReadNonceAndSize(h)  == h.size <= MaxSize
ReadSingle(f) == f.layout \in {"v2", "v3", "v5", "v6"} /\ ValidateChunkSize(f)
ReadSlots(f)  == f.layout \in {"v4", "v7"}
ReadBlind(f)  == f.layout \in {"v8", "v9"}
ReadKdf(f)    == f.layout = "v10" /\ f.kdf.factor \in Factors
ReadLock(f)   == f.layout = "tlock"

ReadBody(f) ==
    /\ f.wire = Shape(f.layout, f.slots)
    /\ ReadSingle(f) \/ ReadSlots(f) \/ ReadBlind(f) \/ ReadKdf(f) \/ ReadLock(f)
    /\ ReadNonceAndSize(f)
\* v2 authenticates its whole header and has no version with the bit set.
NoSuchVersion(f) == f.layout = "v2" /\ Authenticated(f)

NoCompCommitment(h, key) ==
    IF h.layout = "tlock" THEN <<"tlock", key, h.lock.chain, h.lock.round, h.nonce, h.size>>
    ELSE IF Authenticated(h) THEN <<"v3", key, h.chunk, h.kdf, h.nonce, h.size>>
    ELSE <<"v2", key, h.nonce, h.size>>
\* What the first chunk binds.  The version byte and the KEM variant are left
\* out: rekeying changes both.
Commitment(h, key) ==
    IF h.layout = "tlock" THEN <<"tlock", key, h.lock.chain, h.lock.round, h.nonce, h.size>>
    ELSE IF Authenticated(h) THEN <<"v3", key, h.chunk, h.comp, h.kdf, h.nonce, h.size>>
    ELSE <<"v2", key, h.nonce, h.size>>
HeaderBytes(h) == <<"aad", Version(h), h.kem, h.nonce, h.size>>

(***************************************************************************)
(* The payload: blocks, and after the last a piece of one that was cut.     *)
(***************************************************************************)
Block(h, key, ctr, last, bound, data) ==
    [key |-> key, nonce |-> h.nonce, ctr |-> ctr, last |-> last, data |-> data,
     bound |-> IF ctr = 0 THEN bound ELSE None]

SealChunks(h, key, text) ==
    LET n == IF text = <<>> THEN 1 ELSE CeilDiv(Len(text), h.chunk) IN
    [i \in 1 .. n |-> Block(h, key, i - 1, i = n, Commitment(h, key),
        SubSeq(text, (i - 1) * h.chunk + 1, Least(i * h.chunk, Len(text))))]

BlockLen(b)   == Len(b.data) + Tag
RegionLen(f)  == FoldFunction(LAMBDA b, n : BlockLen(b) + n, f.rest, f.blocks)
Refused       == [ok |-> FALSE, text |-> <<>>]

\* The i-th of n blocks of size c starts where a block was written when every
\* block before it has that size, and opens when it ends where that one does.
OpensAs(f, i, n, key, c, bound) ==
    /\ i <= Len(f.blocks)
    /\ \A j \in 1 .. i - 1 : Len(f.blocks[j].data) = c
    /\ Len(f.blocks[i].data) = c \/ (i = n /\ f.rest = 0 /\ Len(f.blocks[i].data) < c)
    /\ f.blocks[i] = [Block(f, key, i - 1, i = n, bound, <<>>) EXCEPT !.data = f.blocks[i].data]

\* Pieces go out as they open; the first that does not ends the run.
OpenChunks(f, key, c) ==
    LET n    == CeilDiv(RegionLen(f), c + Tag)
        open == {i \in 0 .. n : \A j \in 1 .. i : OpensAs(f, j, n, key, c, Commitment(f, key))}
        k    == CHOOSE i \in open : \A j \in open : j <= i
    IN  [ok |-> n > 0 /\ k = n, text |-> FlattenSeq([i \in 1 .. k |-> f.blocks[i].data])]

OpenWhole(f, key) ==
    IF /\ f.rest = 0 /\ Len(f.blocks) = 1
       /\ f.blocks[1] = Block(f, key, 0, TRUE, HeaderBytes(f), f.blocks[1].data)
    THEN [ok |-> TRUE, text |-> f.blocks[1].data] ELSE Refused

\* zstd, as far as telling its output from the text goes.
Zstd(text) == [i \in DOMAIN text |-> -text[i]]
\* The decoder's output is capped at the declared size, or at the limit when
\* none was declared; going over it is an error.
LimitedWriter(size, r) ==
    LET raw   == [i \in DOMAIN r.text |-> -r.text[i]]
        limit == IF size > 0 THEN size ELSE MaxSize
    IN  IF Len(raw) > limit THEN [ok |-> FALSE, text |-> SubSeq(raw, 1, limit)]
        ELSE [ok |-> r.ok, text |-> raw]
TruncatingWriter(size, r) ==
    [r EXCEPT !.text = IF size = 0 THEN @ ELSE SubSeq(@, 1, Least(size, Len(@)))]

(***************************************************************************)
(* Keys.                                                                   *)
(***************************************************************************)
Encapsulate(k, secret) == [to |-> k, variant |-> Variant[k], secret |-> secret]
\* Another key gets some secret too, one nothing was sealed under: ML-KEM rejects
\* implicitly.
Decapsulate(ct, k) == IF ct.to = k THEN ct.secret ELSE "other"

SingleKey(f, k) == IF f.kem.variant = Variant[k] THEN Decapsulate(f.kem, k) ELSE None
SlotKey(f, k) ==
    LET mine == {i \in DOMAIN f.slots :
                   /\ f.slots[i].to = k
                   /\ f.layout \in {"v8", "v9"} \/ f.slots[i].variant = Variant[k]}
    IN  IF mine = {} THEN None ELSE f.slots[CHOOSE i \in mine : TRUE].secret

\* Argon2id, with the factor's secret hashed under a name of its own.
MutDeriveKey(factor, kdf) == <<"argon2", kdf.salt, kdf.cost>>
DeriveKey(factor, kdf) == <<"argon2", factor, kdf.salt, kdf.cost>>
DefaultCost == 1

(***************************************************************************)
(* Writing.  A size of 0 is a size not known, and a size below the length   *)
(* that of a padded text or of a source that grew.                          *)
(***************************************************************************)
Write(h, key, text, how) ==
    /\ file = None
    /\ file' = [h EXCEPT !.wire = IF how.layout = "stealth" THEN "stealth" ELSE Shape(h.layout, h.slots),
                         !.blocks = SealChunks(h, key, text)]
    /\ wrote' = how
    /\ UNCHANGED <<now, faults>>

How(layout, text, size, to, factor) ==
    [layout |-> layout, text |-> text, size |-> size, to |-> to, factor |-> factor]
Texts == {[i \in 1 .. n |-> i] : n \in 0 .. MaxText}
Sizes == 0 .. MaxSize + 1

EncryptBytes ==
    \E text \in Texts, k \in Keys :
        LET h == [Blank EXCEPT !.layout = "v2", !.auth = FALSE, !.kem = Encapsulate(k, "s"),
                               !.size = Len(text)] IN
        /\ file = None
        /\ file' = [h EXCEPT !.wire = "single",
                             !.blocks = <<Block(h, "s", 0, TRUE, HeaderBytes(h), text)>>]
        /\ wrote' = How("v2", text, Len(text), {k}, "none")
        /\ UNCHANGED <<now, faults>>

ValidateStreamBounds(size, c) == size <= MaxSize /\ c \in 1 .. MaxChunk

\* The layout follows the chunk size.
EncryptStream ==
    \E text \in Texts, k \in Keys, size \in Sizes, c \in 0 .. MaxChunk + 1 :
        LET layout == IF c = Chunk THEN "v3" ELSE "v5"
            h == [Blank EXCEPT !.layout = layout, !.kem = Encapsulate(k, "s"), !.size = size,
                               !.chunk = c] IN
        /\ ValidateStreamBounds(size, c)
        /\ Write(h, "s", text, How(layout, text, size, {k}, "none"))

EncryptCompressed ==
    \E text \in Texts, k \in Keys, size \in Sizes, c \in 0 .. MaxChunk + 1 :
        LET h == [Blank EXCEPT !.layout = "v6", !.kem = Encapsulate(k, "s"), !.size = size,
                               !.chunk = c, !.comp = "zstd"] IN
        /\ ValidateStreamBounds(size, c)
        /\ Write(h, "s", Zstd(text), How("v6", text, size, {k}, "none"))

Slots(ks) == [i \in DOMAIN ks |-> Encapsulate(ks[i], "s")]
Dummy     == [to |-> None, variant |-> "1024", secret |-> "x"]
NextPower(n) ==
    LET power[i \in 0 .. n] == IF i = 0 THEN 1 ELSE 2 * power[i - 1]
    IN  CHOOSE p \in {power[i] : i \in 0 .. n} : p >= n /\ (p = 1 \/ p \div 2 < n)

\* The order of a blind header's slots is shuffled.
EncryptMulti(layout, padding) ==
    \E text \in Texts, size \in Sizes, to \in (SUBSET Keys) \ {{}} :
        \E ks \in SetToSeqs(to) :
            LET pad == [i \in 1 .. padding[Cardinality(to)] |-> Dummy]
                h == [Blank EXCEPT !.layout = layout, !.size = size, !.slots = pad \o Slots(ks)] IN
            Write(h, "s", text, How(layout, text, size, to, "none"))

EncryptStandard == EncryptMulti("v4", [n \in 1 .. Cardinality(Keys) |-> 0])
EncryptAnon     == EncryptMulti("v8", [n \in 1 .. Cardinality(Keys) |-> 0])
EncryptPadded   == EncryptMulti("v9", [n \in 1 .. Cardinality(Keys) |-> NextPower(n) - n])

WritePassphrase(factor, auth) ==
    \E text \in Texts, size \in Sizes, cost \in {DefaultCost, DefaultCost + 1} :
        LET kdf == [factor |-> factor, salt |-> "salt", cost |-> cost]
            h == [Blank EXCEPT !.layout = "v10", !.auth = auth, !.kdf = kdf, !.size = size] IN
        Write(h, DeriveKey(factor, kdf), text, How("v10", text, size, {}, factor))
EncryptPassphrase == WritePassphrase("none", TRUE)
EncryptKeyfile    == WritePassphrase("keyfile", TRUE)
EncryptFido2      == WritePassphrase("fido2", TRUE)
EncryptWebauthn   == WritePassphrase("webauthn", TRUE)

EncryptStealth ==
    \E text \in Texts, size \in Sizes, k \in Keys :
        LET h == [Blank EXCEPT !.kem = Encapsulate(k, "s"), !.size = size] IN
        Write(h, "s", text, How("stealth", text, size, {k}, "none"))

EncryptTlock ==
    \E text \in Texts, size \in Sizes, round \in 1 .. LastRound :
        LET lock == [chain |-> "quicknet", round |-> round, ct |-> <<round, "seed">>]
            h == [Blank EXCEPT !.layout = "tlock", !.lock = lock, !.size = size] IN
        Write(h, "seed", text, How("tlock", text, size, {}, "none"))

\* Files of older versions: no bit in the version byte, v7 slots, and
\* everything else as above.
LegacyFile ==
    \E text \in Texts, k \in Keys, layout \in {"v3", "v5", "v6", "v7"}, c \in 1 .. MaxChunk :
        LET h == [Blank EXCEPT !.auth = FALSE, !.layout = layout, !.size = Len(text),
                    !.chunk = IF layout \in {"v5", "v6"} THEN c ELSE Chunk,
                    !.comp = IF layout = "v6" THEN "zstd" ELSE "none",
                    !.kem = IF layout = "v7" THEN None ELSE Encapsulate(k, "s"),
                    !.slots = IF layout = "v7" THEN Slots(<<k>>) ELSE <<>>] IN
        Write(h, "s", IF layout = "v6" THEN Zstd(text) ELSE text,
              How(layout, text, Len(text), {k}, "none"))
LegacyPassphrase == \E factor \in Factors : WritePassphrase(factor, FALSE)

(***************************************************************************)
(* Reading.                                                                *)
(***************************************************************************)
DecryptBytes(f, k) ==
    IF ~ReadBody(f) \/ ~ReadSingle(f) \/ NoSuchVersion(f) \/ f.layout \in Chunked \/ SingleKey(f, k) = None
    THEN Refused ELSE OpenWhole(f, SingleKey(f, k))

DecryptV6(f, key) ==
    CASE f.comp = "none" -> OpenChunks(f, key, f.chunk)
      [] f.comp = "zstd" -> LimitedWriter(f.size, OpenChunks(f, key, f.chunk))
      [] OTHER -> Refused

DecryptStream(f, k) ==
    IF ~ReadBody(f) \/ NoSuchVersion(f) THEN Refused
    ELSE IF ReadSingle(f) THEN
        LET key == SingleKey(f, k) IN
        CASE key = None       -> Refused
          [] f.layout = "v2"  -> OpenWhole(f, key)
          [] f.layout = "v6"  -> DecryptV6(f, key)
          [] OTHER            -> OpenChunks(f, key, f.chunk)
    ELSE IF f.layout \in Slotted /\ SlotKey(f, k) # None
         THEN OpenChunks(f, SlotKey(f, k), Chunk) ELSE Refused

\* Batches of rayon tasks for the two layouts it was written for.
DecryptParallel(f, k, batch) ==
    IF batch <= 1 \/ f.layout \notin Chunked \/ ~ReadBody(f) THEN DecryptStream(f, k)
    ELSE IF SingleKey(f, k) = None THEN Refused
    ELSE OpenChunks(f, SingleKey(f, k), f.chunk)

MutReaderInit(f, k) ==
    IF ~ReadBody(f) \/ NoSuchVersion(f) \/ f.layout \in {"v6", "v10", "tlock"} THEN None
    ELSE IF f.layout \in Slotted
         THEN IF SlotKey(f, k) = None THEN None ELSE [key |-> SlotKey(f, k), chunk |-> Chunk, size |-> f.size]
    ELSE IF SingleKey(f, k) = None THEN None
    ELSE [key |-> SingleKey(f, k), chunk |-> Chunk, size |-> f.size]
\* What PqfReader, the seekable and the asynchronous decryptors start from.
ReaderInit(f, k) ==
    IF ~ReadBody(f) \/ NoSuchVersion(f) \/ f.layout \in {"v6", "v10", "tlock"} THEN None
    ELSE IF f.layout \in Slotted
         THEN IF SlotKey(f, k) = None THEN None ELSE [key |-> SlotKey(f, k), chunk |-> Chunk, size |-> f.size]
    ELSE IF SingleKey(f, k) = None THEN None
    ELSE [key |-> SingleKey(f, k), chunk |-> f.chunk, size |-> f.size]

DecryptReader(f, k) ==
    LET st == ReaderInit(f, k) IN
    IF st = None THEN Refused
    ELSE IF f.layout = "v2" THEN OpenWhole(f, st.key) ELSE OpenChunks(f, st.key, st.chunk)

MutSeekOpen(f, k) ==
    LET st == IF f.layout \in Chunked THEN ReaderInit(f, k) ELSE None
        region == RegionLen(f)
        full == region \div (st.chunk + Tag)
    IN  IF st = None \/ region < Tag THEN None
        ELSE [key |-> st.key, chunk |-> st.chunk, size |-> st.size, chunks |-> full + 1,
              lastLen |-> region - full * (st.chunk + Tag) - Tag]
\* The number of chunks comes from the length of the file.
SeekOpen(f, k) ==
    LET st == IF f.layout \in Chunked THEN ReaderInit(f, k) ELSE None
        region == RegionLen(f)
        full == (region - 1) \div (st.chunk + Tag)
    IN  IF st = None \/ region < Tag THEN None
        ELSE [key |-> st.key, chunk |-> st.chunk, size |-> st.size, chunks |-> full + 1,
              lastLen |-> region - full * (st.chunk + Tag) - Tag]
ReadChunk(f, s, i) == OpensAs(f, i, s.chunks, s.key, s.chunk, Commitment(f, s.key))
\* A position finds its chunk and the byte in it; past the length there is
\* nothing to read.
SeekLen(s) == (s.chunks - 1) * s.chunk + s.lastLen
SeekRead(f, s, at) ==
    LET i == at \div s.chunk + 1 IN
    IF at < SeekLen(s) /\ ReadChunk(f, s, i) THEN f.blocks[i].data[(at % s.chunk) + 1] ELSE None

DecryptStealth(f, k) ==
    IF f.wire # "stealth" \/ ~ReadNonceAndSize(f) \/ f.kem.variant # Variant[k] THEN Refused
    ELSE TruncatingWriter(f.size, OpenChunks(f, Decapsulate(f.kem, k), Chunk))

RequiredFactor(f) == f.kdf.factor
\* The factor is compared and the cost bounded before the key is derived.
DecryptPassphrase(f, factor, maxCost) ==
    IF ~ReadBody(f) \/ ~ReadKdf(f) \/ RequiredFactor(f) # factor \/ f.kdf.cost > maxCost
    THEN Refused ELSE OpenChunks(f, DeriveKey(factor, f.kdf), Chunk)
DecryptPlain(f, maxCost)    == DecryptPassphrase(f, "none", maxCost)
DecryptKeyfile(f, maxCost)  == DecryptPassphrase(f, "keyfile", maxCost)
DecryptFido2(f, maxCost)    == DecryptPassphrase(f, "fido2", maxCost)
DecryptWebauthn(f, maxCost) == DecryptPassphrase(f, "webauthn", maxCost)

Beacon(round) == IF round <= now THEN "signature" ELSE None
\* The relay given must serve the file's chain, and the beacon of the round in
\* the header opens the seed only if it was sealed for that round.
DecryptTlock(f, relay) ==
    IF \/ ~ReadBody(f) \/ ~ReadLock(f) \/ f.lock.chain # relay
       \/ Beacon(f.lock.round) = None \/ f.lock.ct[1] # f.lock.round
    THEN Refused ELSE OpenChunks(f, f.lock.ct[2], Chunk)

InspectStream(f) ==
    IF ~ReadBody(f) \/ NoSuchVersion(f) THEN None
    ELSE [layout |-> f.layout, size |-> f.size, chunk |-> f.chunk]

(***************************************************************************)
(* Storage.                                                                *)
(***************************************************************************)
Changed(f) ==
    /\ file # None /\ faults < MaxFaults
    /\ file' = f /\ file' # file /\ faults' = faults + 1
    /\ UNCHANGED <<wrote, now>>

AlterVersion == /\ file # None /\ file.wire # "stealth"
                /\ \E l \in Layouts, a \in BOOLEAN :
                      Changed([file EXCEPT !.layout = l, !.auth = a])
AlterSize  == \E n \in Sizes : Changed([file EXCEPT !.size = n])
AlterNonce == Changed([file EXCEPT !.nonce = "m"])
AlterChunk == /\ file # None /\ file.wire \in {"v5", "v6"}
              /\ \E c \in 0 .. MaxChunk + 1 : Changed([file EXCEPT !.chunk = c])
AlterComp  == /\ file # None /\ file.wire = "v6"
              /\ \E c \in {"none", "zstd", "other"} : Changed([file EXCEPT !.comp = c])
AlterKdf   == /\ file # None /\ file.kdf # None
              /\ \E x \in Factors \cup {"other"}, c \in 1 .. 2 :
                    Changed([file EXCEPT !.kdf.factor = x, !.kdf.cost = c])
AlterLock  == /\ file # None /\ file.lock # None
              /\ \E c \in {"quicknet", "mainnet"}, r \in 1 .. LastRound :
                    Changed([file EXCEPT !.lock.chain = c, !.lock.round = r])
SwapKem    == /\ file # None /\ file.kem # None
              /\ Changed([file EXCEPT !.kem.secret = "x"])
Cut        == /\ file # None /\ file.blocks # <<>>
              /\ \E n \in 0 .. BlockLen(Last(file.blocks)) - 1 :
                    Changed([file EXCEPT !.blocks = Front(@), !.rest = n])
Publish    == now < LastRound /\ now' = now + 1 /\ UNCHANGED <<file, wrote, faults>>

-----------------------------------------------------------------------------

Init == file = None /\ wrote = None /\ now = 0 /\ faults = 0

Encrypt == \/ EncryptBytes \/ EncryptStream \/ EncryptCompressed \/ EncryptStealth \/ EncryptTlock
           \/ EncryptStandard \/ EncryptAnon \/ EncryptPadded
           \/ EncryptPassphrase \/ EncryptKeyfile \/ EncryptFido2 \/ EncryptWebauthn
           \/ LegacyFile \/ LegacyPassphrase
Storage == \/ AlterVersion \/ AlterSize \/ AlterNonce \/ AlterChunk \/ AlterComp \/ AlterKdf
           \/ AlterLock \/ SwapKem \/ Cut
Next == Encrypt \/ Storage \/ Publish
Spec == Init /\ [][Next]_vars

-----------------------------------------------------------------------------

\* Every way to read the file from end to end, with the credential it takes.
KeyReading(by, k) ==
    CASE by = "bytes"  -> DecryptBytes(file, k)  [] by = "stream"   -> DecryptStream(file, k)
      [] by = "reader" -> DecryptReader(file, k) [] by = "parallel" -> DecryptParallel(file, k, 2)
      [] by = "stealth" -> DecryptStealth(file, k)
FactorReading(x) ==
    CASE x = "none"  -> DecryptPlain(file, DefaultCost) [] x = "keyfile"  -> DecryptKeyfile(file, DefaultCost)
      [] x = "fido2" -> DecryptFido2(file, DefaultCost) [] x = "webauthn" -> DecryptWebauthn(file, DefaultCost)
Readings ==
    {[by |-> d, with |-> k, gives |-> KeyReading(d, k)] :
        d \in {"bytes", "stream", "reader", "parallel", "stealth"}, k \in Keys}
    \cup {[by |-> "passphrase", with |-> x, gives |-> FactorReading(x)] : x \in Factors}
    \cup {[by |-> "tlock", with |-> relay, gives |-> DecryptTlock(file, relay)] :
        relay \in {"quicknet", "mainnet"}}

\* The text a reading should give.
Expected ==
    IF wrote.layout = "stealth" /\ wrote.size > 0
    THEN SubSeq(wrote.text, 1, Least(wrote.size, Len(wrote.text))) ELSE wrote.text
Mine(r) ==
    CASE wrote.layout = "v10"   -> r.by = "passphrase" /\ r.with = wrote.factor /\ file.kdf.cost = 1
      [] wrote.layout = "tlock" -> r.by = "tlock" /\ r.with = "quicknet" /\ file.lock.round <= now
      [] wrote.layout = "stealth" -> r.by = "stealth" /\ r.with \in wrote.to
      [] wrote.layout = "v2"    -> r.by \in {"bytes", "stream", "reader", "parallel"} /\ r.with \in wrote.to
      [] wrote.layout = "v6"    -> r.by \in {"stream", "parallel"} /\ r.with \in wrote.to
      [] OTHER                  -> r.by \in {"stream", "reader", "parallel"} /\ r.with \in wrote.to

TypeOK ==
    /\ now \in 0 .. LastRound /\ faults \in 0 .. MaxFaults
    /\ file # None =>
        /\ file.layout \in Layouts /\ file.rest \in Nat
        /\ \A i \in DOMAIN file.blocks : Len(file.blocks[i].data) <= MaxChunk \/ wrote.layout = "v2"
    /\ (file = None) = (wrote = None)

\* What is written reads back, by every reader of its layout and for every
\* recipient, if its size was not declared short.
OpensAsWritten ==
    \A r \in IF file = None \/ faults > 0 THEN {} ELSE Readings :
        Mine(r) /\ wrote.size <= MaxSize /\ (wrote.layout = "v6" => wrote.size \in {0, Len(wrote.text)})
        => r.gives = [ok |-> TRUE, text |-> Expected]

\* Whatever storage does to a file of this version, a reader gives its text or an
\* error after a beginning of it, and the size the header declares can be trusted
\* once the file has been read.  (Older versions' files promise less of their text:
\* the compression byte of v6 was not bound.)
NeverOther ==
    \A r \in IF file = None THEN {} ELSE Readings :
        /\ wrote.layout = "v2" \/ Authenticated(file) =>
              IF r.gives.ok THEN r.gives.text = Expected ELSE IsPrefix(r.gives.text, wrote.text)
        /\ r.gives.ok =>
              file.size = wrote.size /\ (wrote.layout # "stealth" => InspectStream(file).size = file.size)

\* Nobody reads a file but those it was written for, in the round it was
\* written for or later, and with the second factor it was written with,
\* however the header was changed.
OnlyItsReaders ==
    \A r \in IF file = None THEN {} ELSE Readings : r.gives.ok => Mine(r)

\* Random access gives what a reading from end to end gives: every chunk opens
\* exactly when the whole does, and every position then holds its byte.
SeekAgrees ==
    \A k \in IF file = None THEN {} ELSE Keys :
        LET s == SeekOpen(file, k) r == DecryptStream(file, k) IN
        IF s = None THEN file.layout \in Chunked => ~r.ok
        ELSE /\ r.ok <=> \A i \in 1 .. s.chunks : ReadChunk(file, s, i)
             /\ r.ok => \A at \in 0 .. MaxText :
                    SeekRead(file, s, at) = IF at < Len(r.text) THEN r.text[at + 1] ELSE None

=============================================================================
