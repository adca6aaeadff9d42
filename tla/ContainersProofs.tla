--------------------------- MODULE ContainersProofs ---------------------------
(***************************************************************************)
(* Proofs about Containers, for any keys, chunk sizes, text lengths,       *)
(* recipients and number of changes.  One invariant carries them: the file *)
(* is what storage has made of one that some encryptor wrote.  Of its      *)
(* blocks the first are left as they were; of its header, only the fields  *)
(* its layout has may be others, and never the key encapsulated in it or   *)
(* the slots.  On it rests what a reading may come to: the pieces that     *)
(* open are a beginning of the text, under the key, nonce and commitment   *)
(* they were sealed with.                                                  *)
(*                                                                         *)
(* The order: what lengths add up to, and the invariant with every         *)
(* encryptor and every change keeping it; pieces of a text put together    *)
(* again; the chunk loop; each entry point; who reads a file; what it      *)
(* gives; random access; a file nothing has changed.                       *)
(***************************************************************************)
EXTENDS Containers, SequenceTheorems, FiniteSetTheorems, WellFoundedInduction, TLAPS

\* None is neither a secret, nor a beacon's signature, nor the state of a reader.
NoneIsApart == None \notin {"s", "x", "other", "signature"} /\ "chunk" \notin DOMAIN None

-----------------------------------------------------------------------------
(* What RegionLen adds up. *)

LEMMA SmallestSet ==
  ASSUME NEW S, IsFiniteSet(S), NEW X, X \subseteq SUBSET S, X # {}
  PROVE  \E s \in X : \A t \in X : t \subseteq s => t = s
<1> DEFINE order == StrictSubsetOrdering(S)
<1>1. IsWellFoundedOn(order, FiniteSubsetsOf(S)) /\ X \subseteq FiniteSubsetsOf(S)
  BY FS_StrictSubsetOrderingWellFounded, FS_FiniteSubsetsOfFinite
<1>2. PICK s \in X : \A t \in X : ~(<<t, s>> \in order)
  <2> HIDE DEF order
  <2> QED BY <1>1, WFMin
<1>3. ASSUME NEW t \in X, t \subseteq s PROVE t = s
  BY <1>2, <1>3 DEF StrictSubsetOrdering
<1> QED BY <1>3

Picked(s) == CHOOSE x \in s : TRUE
Sums(bs, base, T, g) ==
  [s \in SUBSET T |-> IF s = {} THEN base ELSE BlockLen(bs[Picked(s)]) + g[s \ {Picked(s)}]]

LEMMA PickedIs == ASSUME NEW s, s # {} PROVE Picked(s) \in s
BY DEF Picked

LEMMA SumsAgree ==
  ASSUME NEW S, IsFiniteSet(S), NEW T, T \subseteq S, NEW U, U \subseteq S, NEW bs, NEW base,
         NEW g, NEW h, g = Sums(bs, base, T, g), h = Sums(bs, base, U, h)
  PROVE  \A s \in SUBSET (T \cap U) : g[s] = h[s]
<1> DEFINE X == {s \in SUBSET (T \cap U) : g[s] # h[s]}
<1> SUFFICES ASSUME X # {} PROVE FALSE
  OBVIOUS
<1>1. PICK s \in X : \A t \in X : t \subseteq s => t = s
  <2>1. X \subseteq SUBSET S
    OBVIOUS
  <2> HIDE DEF X
  <2> QED BY <2>1, SmallestSet
<1>2. s \in SUBSET T /\ s \in SUBSET U /\ g[s] # h[s]
  OBVIOUS
<1>3. /\ g[s] = IF s = {} THEN base ELSE BlockLen(bs[Picked(s)]) + g[s \ {Picked(s)}]
      /\ h[s] = IF s = {} THEN base ELSE BlockLen(bs[Picked(s)]) + h[s \ {Picked(s)}]
  BY <1>2 DEF Sums
<1>4. CASE s = {}
  BY <1>2, <1>3, <1>4
<1>5. CASE s # {}
  <2>1. Picked(s) \in s
    BY <1>5, PickedIs
  <2>2. s \ {Picked(s)} \notin X /\ s \ {Picked(s)} \in SUBSET (T \cap U)
    <3>1. s \ {Picked(s)} # s /\ s \ {Picked(s)} \subseteq s /\ s \ {Picked(s)} \in SUBSET (T \cap U)
      BY <1>2, <2>1
    <3> HIDE DEF X
    <3> QED BY <1>1, <3>1
  <2>3. g[s \ {Picked(s)}] = h[s \ {Picked(s)}]
    BY <2>2
  <2> QED BY <1>2, <1>3, <1>5, <2>3
<1> QED BY <1>4, <1>5

LEMMA SumsExist ==
  ASSUME NEW S, IsFiniteSet(S), NEW bs, NEW base
  PROVE  \A T \in SUBSET S : \E g : g = Sums(bs, base, T, g)
<1> DEFINE Has(T) == \E g : g = Sums(bs, base, T, g)
           X == {T \in SUBSET S : ~Has(T)}
           G(T) == CHOOSE g : g = Sums(bs, base, T, g)
<1> SUFFICES ASSUME X # {} PROVE FALSE
  OBVIOUS
<1>1. PICK T \in X : \A t \in X : t \subseteq T => t = T
  <2>1. X \subseteq SUBSET S
    OBVIOUS
  <2> HIDE DEF X
  <2> QED BY <2>1, SmallestSet
<1>2. T \in SUBSET S /\ ~Has(T)
  <2> HIDE DEF Has
  <2> QED OBVIOUS
<1>3. ASSUME NEW t \in SUBSET T, t # T PROVE G(t) = Sums(bs, base, t, G(t))
  <2>1. Has(t)
    <3> HIDE DEF Has
    <3>1. t \in SUBSET S /\ t \notin X
      <4>1. t \in SUBSET S
        BY <1>2
      <4> HIDE DEF X
      <4> QED BY <4>1, <1>1, <1>3
    <3> QED BY <3>1
  <2> QED BY <2>1
<1> HIDE DEF G, X
<1> DEFINE g == [s \in SUBSET T |-> IF s = {} THEN base
                   ELSE BlockLen(bs[Picked(s)]) + G(s \ {Picked(s)})[s \ {Picked(s)}]]
<1>4. ASSUME NEW t \in SUBSET T, t # T PROVE g[t] = G(t)[t]
  <2>1. g[t] = IF t = {} THEN base ELSE BlockLen(bs[Picked(t)]) + G(t \ {Picked(t)})[t \ {Picked(t)}]
    OBVIOUS
  <2>2. G(t)[t] = IF t = {} THEN base ELSE BlockLen(bs[Picked(t)]) + G(t)[t \ {Picked(t)}]
    BY <1>3, <1>4 DEF Sums
  <2>3. ASSUME t # {} PROVE G(t \ {Picked(t)})[t \ {Picked(t)}] = G(t)[t \ {Picked(t)}]
    <3> DEFINE u == t \ {Picked(t)}
    <3>1. Picked(t) \in t
      BY <2>3, PickedIs
    <3>2. u \in SUBSET T /\ u # T /\ u \in SUBSET (u \cap t) /\ u \subseteq S /\ t \subseteq S
      BY <3>1, <1>2
    <3> HIDE DEF u
    <3>3. G(u) = Sums(bs, base, u, G(u)) /\ G(t) = Sums(bs, base, t, G(t))
      BY <3>2, <1>3, <1>4
    <3>4. \A s \in SUBSET (u \cap t) : G(u)[s] = G(t)[s]
      BY <3>2, <3>3, SumsAgree
    <3>5. G(u)[u] = G(t)[u]
      BY <3>2, <3>4
    <3> QED BY <3>5 DEF u
  <2> HIDE DEF g
  <2> QED BY <2>1, <2>2, <2>3
<1>5. ASSUME NEW s \in SUBSET T
      PROVE  g[s] = IF s = {} THEN base ELSE BlockLen(bs[Picked(s)]) + g[s \ {Picked(s)}]
  <2>1. CASE s = {}
    BY <2>1
  <2>2. CASE s # {}
    <3>1. Picked(s) \in s
      BY <2>2, PickedIs
    <3>2. s \ {Picked(s)} \in SUBSET T /\ s \ {Picked(s)} # T
      BY <3>1
    <3>3. g[s \ {Picked(s)}] = G(s \ {Picked(s)})[s \ {Picked(s)}]
      BY <3>2, <1>4
    <3>4. g[s] = BlockLen(bs[Picked(s)]) + G(s \ {Picked(s)})[s \ {Picked(s)}]
      BY <2>2
    <3> HIDE DEF g
    <3> QED BY <2>2, <3>3, <3>4
  <2> QED BY <2>1, <2>2
<1>6. g = [s \in SUBSET T |-> g[s]]
  OBVIOUS
<1> HIDE DEF g
<1>7. g = Sums(bs, base, T, g)
  BY <1>5, <1>6 DEF Sums
<1> QED BY <1>2, <1>7

Summed(f) == CHOOSE g : g = Sums(f.blocks, f.rest, DOMAIN f.blocks, g)
LEMMA RegionIs ==
  ASSUME NEW f, IsFiniteSet(DOMAIN f.blocks)
  PROVE  /\ RegionLen(f) = Summed(f)[DOMAIN f.blocks]
         /\ Summed(f) = Sums(f.blocks, f.rest, DOMAIN f.blocks, Summed(f))
<1>1. RegionLen(f) = Summed(f)[DOMAIN f.blocks]
  BY DEF RegionLen, FoldFunction, FoldFunctionOnSet, MapThenFoldSet, Summed, Sums, Picked
<1>2. DOMAIN f.blocks \in SUBSET DOMAIN f.blocks
  OBVIOUS
<1>3. \E g : g = Sums(f.blocks, f.rest, DOMAIN f.blocks, g)
  BY <1>2, SumsExist
<1> QED BY <1>1, <1>3 DEF Summed

\* The blocks of a file, and what the region they fill adds up to.
Pieces(f) == {f.blocks[i] : i \in DOMAIN f.blocks}
BlocksOk(f) ==
  /\ f.blocks \in Seq(Pieces(f)) /\ f.rest \in Nat
  /\ \A i \in 1 .. Len(f.blocks) :
        f.blocks[i].data \in Seq(Int) /\ (f.blocks[i].last => i = Len(f.blocks))

LEMMA BlocksAre ==
  ASSUME NEW f, BlocksOk(f)
  PROVE  /\ Len(f.blocks) \in Nat /\ DOMAIN f.blocks = 1 .. Len(f.blocks)
         /\ IsFiniteSet(DOMAIN f.blocks) /\ f.rest \in Nat
         /\ \A i \in 1 .. Len(f.blocks) : Len(f.blocks[i].data) \in Nat
<1>1. Len(f.blocks) \in Nat /\ DOMAIN f.blocks = 1 .. Len(f.blocks)
  BY LenProperties DEF BlocksOk
<1>2. IsFiniteSet(1 .. Len(f.blocks))
  BY <1>1, FS_Interval
<1>3. \A i \in 1 .. Len(f.blocks) : Len(f.blocks[i].data) \in Nat
  BY LenProperties DEF BlocksOk
<1> QED BY <1>1, <1>2, <1>3 DEF BlocksOk

\* One step of the sum.
LEMMA OneSummed ==
  ASSUME NEW f, BlocksOk(f), NEW s \in SUBSET DOMAIN f.blocks
  PROVE  /\ s = {} => Summed(f)[s] = f.rest
         /\ s # {} => /\ Picked(s) \in s
                      /\ Summed(f)[s] = BlockLen(f.blocks[Picked(s)]) + Summed(f)[s \ {Picked(s)}]
<1> DEFINE g == Summed(f)
<1>1. g = Sums(f.blocks, f.rest, DOMAIN f.blocks, g)
  BY BlocksAre, RegionIs
<1> HIDE DEF g
<1>2. g[s] = IF s = {} THEN f.rest ELSE BlockLen(f.blocks[Picked(s)]) + g[s \ {Picked(s)}]
  BY <1>1 DEF Sums
<1> QED BY <1>2, PickedIs DEF g

LEMMA RegionBounds ==
  ASSUME NEW f, BlocksOk(f)
  PROVE  /\ RegionLen(f) \in Nat
         /\ Len(f.blocks) # 0 => RegionLen(f) >= Tag
<1> DEFINE D == DOMAIN f.blocks
           g == Summed(f)
           Good(s) == g[s] \in Nat /\ (s # {} => g[s] >= Tag)
           X == {s \in SUBSET D : ~Good(s)}
<1>0. Tag \in Nat
  BY SizesAssumption
<1>1. X = {}
  <2> SUFFICES ASSUME X # {} PROVE FALSE
    OBVIOUS
  <2>1. PICK s \in X : \A t \in X : t \subseteq s => t = s
    <3>1. X \subseteq SUBSET D /\ IsFiniteSet(D)
      BY BlocksAre
    <3> HIDE DEF X
    <3> QED BY <3>1, SmallestSet
  <2>2. s \in SUBSET D /\ ~Good(s)
    <3> HIDE DEF Good
    <3> QED OBVIOUS
  <2>3. CASE s = {}
    BY <2>2, <2>3, OneSummed, BlocksAre
  <2>4. CASE s # {}
    <3> DEFINE x == Picked(s)
               t == s \ {x}
    <3>1. x \in s /\ g[s] = BlockLen(f.blocks[x]) + g[t]
      BY <2>2, <2>4, OneSummed
    <3>2. t \in SUBSET D /\ t # s /\ t \subseteq s
      BY <2>2, <3>1
    <3> HIDE DEF x, t
    <3>3. t \notin X
      <4> HIDE DEF X
      <4> QED BY <2>1, <3>2
    <3>4. Good(t)
      <4> HIDE DEF Good
      <4> QED BY <3>2, <3>3
    <3>5. BlockLen(f.blocks[x]) \in Nat /\ BlockLen(f.blocks[x]) >= Tag
      <4>1. Len(f.blocks[x].data) \in Nat
        BY <2>2, <3>1, BlocksAre
      <4> QED BY <4>1, <1>0 DEF BlockLen
    <3> HIDE DEF g
    <3> QED BY <1>0, <2>2, <3>1, <3>4, <3>5
  <2> QED BY <2>3, <2>4
<1>2. Good(D)
  <2> HIDE DEF Good
  <2> QED BY <1>1
<1>3. RegionLen(f) = g[D]
  BY BlocksAre, RegionIs
<1>4. Len(f.blocks) # 0 => D # {}
  <2>1. ASSUME Len(f.blocks) # 0 PROVE 1 \in D
    BY <2>1, BlocksAre
  <2> QED BY <2>1
<1>5. g[D] \in Nat /\ (D # {} => g[D] >= Tag)
  BY <1>2
<1> HIDE DEF g, D
<1> QED BY <1>3, <1>4, <1>5

\* When all blocks but the last are full.
FullBefore(f, n, c) == \A i \in 1 .. Len(f.blocks) : i # n => Len(f.blocks[i].data) = c
LEMMA RegionFull ==
  ASSUME NEW f, BlocksOk(f), NEW c \in Nat, NEW n, n = Len(f.blocks), n # 0,
         FullBefore(f, n, c)
  PROVE  RegionLen(f) = f.rest + (n - 1) * (c + Tag) + Len(f.blocks[n].data) + Tag
<1> DEFINE D == DOMAIN f.blocks
           g == Summed(f)
           end == Len(f.blocks[n].data) + Tag
           Good(s) == g[s] = f.rest + Cardinality(s \ {n}) * (c + Tag) + (IF n \in s THEN end ELSE 0)
           X == {s \in SUBSET D : ~Good(s)}
<1>0. /\ Tag \in Nat /\ f.rest \in Nat /\ n \in Nat /\ n \in D /\ IsFiniteSet(D) /\ D = 1 .. n
      /\ Len(f.blocks[n].data) \in Nat
  BY BlocksAre, SizesAssumption
<1>1. X = {}
  <2> SUFFICES ASSUME X # {} PROVE FALSE
    OBVIOUS
  <2>1. PICK s \in X : \A t \in X : t \subseteq s => t = s
    <3>1. X \subseteq SUBSET D
      OBVIOUS
    <3> HIDE DEF X
    <3> QED BY <1>0, <3>1, SmallestSet
  <2>2. s \in SUBSET D /\ ~Good(s)
    <3> HIDE DEF Good
    <3> QED OBVIOUS
  <2>3. CASE s = {}
    <3>1. g[s] = f.rest /\ Cardinality(s \ {n}) = 0 /\ n \notin s
      <4>1. s \ {n} = {} /\ n \notin s
        BY <2>3
      <4> QED BY <2>2, <2>3, <4>1, OneSummed, FS_EmptySet
    <3> HIDE DEF g
    <3> QED BY <1>0, <2>2, <3>1
  <2>4. CASE s # {}
    <3> DEFINE x == Picked(s)
               t == s \ {x}
    <3>1. x \in s /\ g[s] = BlockLen(f.blocks[x]) + g[t]
      BY <2>2, <2>4, OneSummed
    <3>2. t \in SUBSET D /\ t # s /\ t \subseteq s /\ t = s \ {x}
      BY <2>2, <3>1
    <3> HIDE DEF x, t
    <3>3. t \notin X
      <4> HIDE DEF X
      <4> QED BY <2>1, <3>2
    <3>4. g[t] = f.rest + Cardinality(t \ {n}) * (c + Tag) + (IF n \in t THEN end ELSE 0)
      <4>1. Good(t)
        <5> HIDE DEF Good
        <5> QED BY <3>2, <3>3
      <4> QED BY <4>1
    <3>5. IsFiniteSet(t \ {n}) /\ IsFiniteSet(s \ {n}) /\ Cardinality(t \ {n}) \in Nat
          /\ Cardinality(s \ {n}) \in Nat
      <4>1. IsFiniteSet(t \ {n}) /\ IsFiniteSet(s \ {n})
        BY <1>0, <2>2, <3>2, FS_Subset
      <4> QED BY <4>1, FS_CardinalityType
    <3> DEFINE k == Cardinality(t \ {n})
               l == Cardinality(s \ {n})
               u == c + Tag
    <3>6. CASE x = n
      <4>1. t \ {n} = s \ {n} /\ n \notin t /\ n \in s
        BY <3>1, <3>2, <3>6
      <4>2. BlockLen(f.blocks[x]) = end
        BY <3>6 DEF BlockLen
      <4>3. k = l
        BY <4>1
      <4>4. g[t] = f.rest + k * u + 0
        BY <3>4, <4>1
      <4>5. g[s] = end + g[t] /\ ~(g[s] = f.rest + l * u + end)
        BY <2>2, <3>1, <4>1, <4>2
      <4>6. k \in Nat /\ u \in Nat /\ end \in Nat /\ k * u \in Nat
        <5>1. k \in Nat /\ u \in Nat /\ end \in Nat
          BY <1>0, <3>5
        <5> HIDE DEF k, u, end
        <5> QED BY <5>1
      <4> HIDE DEF k, l, u, end, g
      <4> DEFINE product == k * u
      <4>7. g[t] = f.rest + product /\ ~(g[s] = f.rest + product + end) /\ product \in Nat
        BY <1>0, <4>3, <4>4, <4>5, <4>6
      <4> HIDE DEF product
      <4> QED BY <1>0, <4>5, <4>6, <4>7
    <3>7. CASE x # n
      <4>1. t \ {n} = (s \ {n}) \ {x} /\ x \in s \ {n} /\ (n \in t <=> n \in s)
        BY <3>1, <3>2, <3>7
      <4>2. k = l - 1
        BY <3>5, <4>1, FS_RemoveElement
      <4>3. BlockLen(f.blocks[x]) = u
        <5>1. x \in 1 .. Len(f.blocks)
          BY <1>0, <2>2, <3>1
        <5> QED BY <5>1, <3>7 DEF BlockLen, FullBefore
      <4> DEFINE rem == IF n \in s THEN end ELSE 0
      <4>4. g[t] = f.rest + k * u + rem
        BY <3>4, <4>1
      <4>5. g[s] = u + g[t] /\ ~(g[s] = f.rest + l * u + rem)
        BY <2>2, <3>1, <4>3
      <4>6. k \in Nat /\ u \in Nat /\ end \in Nat /\ rem \in Nat /\ l = k + 1
        <5>1. k \in Nat /\ l \in Nat
          BY <3>5
        <5>2. u \in Nat /\ end \in Nat
          BY <1>0
        <5>3. rem \in Nat
          <6> HIDE DEF end
          <6> QED BY <5>2
        <5> HIDE DEF k, l, u, end, rem
        <5> QED BY <4>2, <5>1, <5>2, <5>3
      <4> HIDE DEF k, l, u, end, rem, g
      <4>7. l * u = k * u + u /\ k * u \in Nat
        BY <4>6
      <4> DEFINE product == k * u
      <4>8. g[t] = f.rest + product + rem /\ ~(g[s] = f.rest + (product + u) + rem) /\ product \in Nat
        BY <4>4, <4>5, <4>7
      <4> HIDE DEF product
      <4> QED BY <1>0, <4>5, <4>6, <4>8
    <3> QED BY <3>6, <3>7
  <2> QED BY <2>3, <2>4
<1>2. Good(D)
  <2> HIDE DEF Good
  <2> QED BY <1>1
<1>3. RegionLen(f) = g[D]
  BY BlocksAre, RegionIs
<1>4. Cardinality(D \ {n}) = n - 1
  <2>1. Cardinality(D) = n
    BY <1>0, FS_Interval
  <2> QED BY <1>0, <2>1, FS_RemoveElement
<1>5. g[D] = f.rest + (n - 1) * (c + Tag) + end
  BY <1>0, <1>2, <1>4
<1> DEFINE others == (n - 1) * (c + Tag)
<1>6. others \in Nat
  <2>1. n - 1 \in Nat /\ c + Tag \in Nat
    BY <1>0
  <2> QED BY <2>1
<1> HIDE DEF g, others, D
<1>7. RegionLen(f) = f.rest + others + Len(f.blocks[n].data) + Tag
  <2>1. RegionLen(f) = f.rest + others + (Len(f.blocks[n].data) + Tag)
    BY <1>3, <1>5 DEF others
  <2> QED BY <1>0, <1>6, <2>1
<1> QED BY <1>7 DEF others

-----------------------------------------------------------------------------
(* What every file is: one that was written, as storage has left it. *)

Fields == {"layout", "auth", "kem", "slots", "nonce", "size", "chunk", "comp", "kdf", "lock",
           "wire", "blocks", "rest"}

\* The key a text was sealed under, and what of the text was sealed.
SealedUnder(o, w) == IF w.layout = "v10" THEN DeriveKey(w.factor, o.kdf)
                     ELSE IF w.layout = "tlock" THEN "seed" ELSE "s"
SealedText(w)     == IF w.layout = "v6" THEN Zstd(w.text) ELSE w.text
BlocksOf(o, w)    == IF w.layout = "v2" THEN <<Block(o, "s", 0, TRUE, HeaderBytes(o), w.text)>>
                     ELSE SealChunks(o, SealedUnder(o, w), SealedText(w))

\* Every slot that is not a dummy is a recipient's, and every recipient has one.
SlotsFor(slots, to) ==
  /\ to \subseteq Keys
  /\ \A i \in DOMAIN slots : slots[i].to # None =>
        slots[i].to \in to /\ slots[i] = Encapsulate(slots[i].to, "s")
  /\ \A k \in to : \E i \in DOMAIN slots : slots[i].to = k

\* What a header holds for those the file is written for.
ForReaders(o, w) ==
  /\ w.layout = "v10" =>
       /\ w.factor \in Factors /\ o.kdf.cost \in 1 .. 2
       /\ o.kdf = [factor |-> w.factor, salt |-> "salt", cost |-> o.kdf.cost]
  /\ w.layout = "tlock" =>
       /\ o.lock.round \in Int
       /\ o.lock = [chain |-> "quicknet", round |-> o.lock.round, ct |-> <<o.lock.round, "seed">>]
  /\ w.layout \in Slotted => SlotsFor(o.slots, w.to)
  /\ w.layout \in {"v2", "v3", "v5", "v6", "stealth"} =>
       \E k \in Keys : o.kem = Encapsulate(k, "s") /\ w.to = {k}

\* A file as it was written.
HeaderFor(o, w) ==
  /\ DOMAIN o = Fields /\ o.rest = 0
  /\ o.layout \in Layouts /\ o.auth \in BOOLEAN /\ o.size \in Nat
  /\ o.chunk \in 1 .. MaxChunk /\ (o.layout \notin {"v5", "v6"} => o.chunk = Chunk)
  /\ o.comp = (IF w.layout = "v6" THEN "zstd" ELSE "none") /\ (w.layout = "v2" => ~o.auth)
  /\ w.text \in Texts /\ w.size = o.size
  /\ o.layout = IF w.layout = "stealth" THEN "v3" ELSE w.layout
  /\ ForReaders(o, w)
WrittenAs(o, w) ==
  /\ HeaderFor(o, w) /\ o.blocks = BlocksOf(o, w)
  /\ o.wire = IF w.layout = "stealth" THEN "stealth" ELSE Shape(o.layout, o.slots)

\* What storage has made of it: the last blocks may be gone, and of the header only the
\* fields of its shape may be others.
ChangedFrom(f, o) ==
  /\ DOMAIN f = Fields /\ f.wire = o.wire /\ f.slots = o.slots
  /\ f.layout \in Layouts /\ f.auth \in BOOLEAN /\ f.size \in Nat /\ f.chunk \in Nat
  /\ f.wire \notin {"v5", "v6"} => f.chunk = o.chunk
  /\ f.wire # "v6" => f.comp = o.comp
  /\ o.layout = "v10" => "cost" \in DOMAIN f.kdf /\ f.kdf.cost \in 1 .. 2
  /\ o.layout \in {"v2", "v3", "v5", "v6"} => "to" \in DOMAIN f.kem /\ f.kem.to = o.kem.to
  /\ BlocksOk(f) /\ Len(f.blocks) <= Len(o.blocks)
  /\ \A i \in 1 .. Len(f.blocks) : f.blocks[i] = o.blocks[i]

Written == \E o : WrittenAs(o, wrote) /\ ChangedFrom(file, o) /\ (faults = 0 => file = o)
ContainersInv == faults \in Nat /\ (file # None => Written)

LEMMA BlockIs ==
  ASSUME NEW h, NEW key, NEW ctr, NEW last, NEW bound, NEW data
  PROVE  LET b == Block(h, key, ctr, last, bound, data) IN
         /\ b.key = key /\ b.nonce = h.nonce /\ b.ctr = ctr /\ b.last = last /\ b.data = data
         /\ b.bound = IF ctr = 0 THEN bound ELSE None
BY DEF Block

LEMMA SameInterval == ASSUME NEW a \in Nat, NEW b \in Nat, 1 .. a = 1 .. b PROVE a = b
<1>1. ASSUME a < b PROVE FALSE
  <2>1. b \in 1 .. b /\ b \notin 1 .. a
    BY <1>1
  <2> QED BY <2>1
<1>2. ASSUME b < a PROVE FALSE
  <2>1. a \in 1 .. a /\ a \notin 1 .. b
    BY <1>2
  <2> QED BY <2>1
<1> QED BY <1>1, <1>2

\* Blocks one of which at most is the end.
LEMMA BlocksOkWhen ==
  ASSUME NEW f, NEW n \in Nat, NEW e, f.blocks = [i \in 1 .. n |-> e[i]], f.rest \in Nat,
         \A i \in 1 .. n : e[i].data \in Seq(Int) /\ (e[i].last => i = n)
  PROVE  BlocksOk(f) /\ Len(f.blocks) = n
<1> DEFINE bs == f.blocks
<1>1. DOMAIN bs = 1 .. n /\ \A i \in 1 .. n : bs[i] = e[i]
  OBVIOUS
<1>2. bs \in Seq(Pieces(f))
  <2>1. \A i \in 1 .. n : e[i] \in Pieces(f)
    BY <1>1 DEF Pieces
  <2>2. [i \in 1 .. n |-> e[i]] \in Seq(Pieces(f))
    BY <2>1, IsASeq
  <2> QED BY <2>2
<1>3. Len(bs) = n
  <2>1. Len(bs) \in Nat /\ DOMAIN bs = 1 .. Len(bs)
    BY <1>2, LenProperties
  <2> HIDE DEF bs
  <2> QED BY <2>1, <1>1, SameInterval
<1> QED BY <1>1, <1>2, <1>3 DEF BlocksOk

LEMMA ChunkCount ==
  ASSUME NEW a \in Nat, NEW c \in Nat \ {0}
  PROVE  CeilDiv(a, c) \in Nat
<1>1. a + c - 1 \in Nat
  OBVIOUS
<1> QED BY <1>1 DEF CeilDiv

\* The i-th piece of a text that is cut up, and how many there are.
PieceOf(text, c, i) == SubSeq(text, (i - 1) * c + 1, Least(i * c, Len(text)))
CountOf(text, c)    == IF text = <<>> THEN 1 ELSE CeilDiv(Len(text), c)

LEMMA SealedChunksAre ==
  ASSUME NEW h, h.chunk \in Nat \ {0}, NEW key, NEW text \in Seq(Int), NEW f, f.rest = 0,
         f.blocks = SealChunks(h, key, text)
  PROVE  /\ BlocksOk(f) /\ Len(f.blocks) = CountOf(text, h.chunk)
         /\ \A i \in 1 .. Len(f.blocks) :
               f.blocks[i] = Block(h, key, i - 1, i = Len(f.blocks), Commitment(h, key),
                                   PieceOf(text, h.chunk, i))
<1> DEFINE c    == h.chunk
           n    == CountOf(text, c)
           B(i) == Block(h, key, i - 1, i = n, Commitment(h, key), PieceOf(text, c, i))
           e    == [i \in 1 .. n |-> B(i)]
<1>1. Len(text) \in Nat /\ c \in Nat \ {0}
  BY LenProperties
<1>2. n \in Nat
  BY <1>1, ChunkCount DEF CountOf
<1>3. f.blocks = [i \in 1 .. n |-> B(i)]
  BY DEF SealChunks, CountOf, PieceOf
<1> HIDE DEF c, n
<1>4. ASSUME NEW i \in 1 .. n PROVE PieceOf(text, c, i) \in Seq(Int)
  <2> DEFINE from == (i - 1) * c + 1
             to   == Least(i * c, Len(text))
  <2>1. from \in Int /\ from >= 1 /\ to \in Int /\ to <= Len(text)
    <3>1. i - 1 \in Nat /\ i \in Nat
      BY <1>2
    <3>2. (i - 1) * c \in Nat /\ i * c \in Nat
      BY <3>1, <1>1
    <3> QED BY <3>2, <1>1 DEF Least
  <2> HIDE DEF from, to
  <2>2. \A j \in from .. to : text[j] \in Int
    <3>1. \A j \in from .. to : j \in 1 .. Len(text)
      BY <2>1, <1>1
    <3> QED BY <3>1, ElementOfSeq
  <2>3. SubSeq(text, from, to) \in Seq(Int)
    BY <2>1, <2>2, SubSeqProperties
  <2> QED BY <2>3 DEF from, to, PieceOf
<1>5. \A i \in 1 .. n : e[i].data \in Seq(Int) /\ (e[i].last => i = n)
  <2> SUFFICES ASSUME NEW i \in 1 .. n PROVE e[i].data \in Seq(Int) /\ (e[i].last => i = n)
    OBVIOUS
  <2>1. e[i] = B(i)
    OBVIOUS
  <2>2. B(i).data = PieceOf(text, c, i) /\ (B(i).last = (i = n))
    BY BlockIs
  <2> HIDE DEF e, B
  <2> QED BY <2>1, <2>2, <1>4
<1>6. f.blocks = [i \in 1 .. n |-> e[i]]
  BY <1>3
<1>7. f.rest \in Nat
  OBVIOUS
<1>8. \A i \in 1 .. n : f.blocks[i] = B(i)
  BY <1>3
<1> HIDE DEF e, B
<1>9. BlocksOk(f) /\ Len(f.blocks) = n
  BY <1>2, <1>5, <1>6, <1>7, BlocksOkWhen
<1> QED BY <1>8, <1>9 DEF B, c, n

LEMMA TextsAre ==
  ASSUME NEW text \in Texts
  PROVE  text \in Seq(Int) /\ Zstd(text) \in Seq(Int)
<1>1. PICK n \in 0 .. MaxText : text = [i \in 1 .. n |-> i]
  BY DEF Texts
<1>2. n \in Nat
  OBVIOUS
<1>3. text \in Seq(Int) /\ Zstd(text) = [i \in 1 .. n |-> -i]
  BY <1>1, <1>2 DEF Zstd
<1> QED BY <1>2, <1>3

LEMMA TextSealed ==
  ASSUME NEW w, w.text \in Texts
  PROVE  SealedText(w) \in Seq(Int)
BY TextsAre DEF SealedText

\* Only a block that is a whole file can be the first and the last.
LEMMA WholeBlock ==
  ASSUME NEW o, o.rest = 0, NEW b, b.data \in Seq(Int), o.blocks = <<b>>
  PROVE  BlocksOk(o) /\ Len(o.blocks) = 1
<1> DEFINE e == [i \in 1 .. 1 |-> b]
<1>1. o.blocks = [i \in 1 .. 1 |-> e[i]] /\ 1 \in Nat /\ o.rest \in Nat
  OBVIOUS
<1>2. \A i \in 1 .. 1 : e[i].data \in Seq(Int) /\ (e[i].last => i = 1)
  OBVIOUS
<1> HIDE DEF e
<1> QED BY <1>1, <1>2, BlocksOkWhen

LEMMA JustWritten ==
  ASSUME NEW o, NEW w, WrittenAs(o, w)
  PROVE  ChangedFrom(o, o)
<1>1. w.text \in Seq(Int) /\ SealedText(w) \in Seq(Int)
  BY TextsAre, TextSealed DEF WrittenAs, HeaderFor
<1>2. BlocksOk(o)
  <2>1. CASE w.layout = "v2"
    <3> DEFINE b == Block(o, "s", 0, TRUE, HeaderBytes(o), w.text)
    <3>1. b.data = w.text
      BY DEF Block
    <3>2. o.blocks = <<b>> /\ o.rest = 0
      BY <2>1 DEF WrittenAs, HeaderFor, BlocksOf
    <3> HIDE DEF b
    <3> QED BY <1>1, <3>1, <3>2, WholeBlock
  <2>2. CASE w.layout # "v2"
    <3>1. o.blocks = SealChunks(o, SealedUnder(o, w), SealedText(w)) /\ o.rest = 0
      BY <2>2 DEF WrittenAs, HeaderFor, BlocksOf
    <3>2. o.chunk \in Nat \ {0}
      BY SizesAssumption DEF WrittenAs, HeaderFor
    <3> QED BY <1>1, <3>1, <3>2, SealedChunksAre
  <2> QED BY <2>1, <2>2
<1>3. Len(o.blocks) \in Nat
  BY <1>2, BlocksAre
<1>4. o.layout = "v10" => "cost" \in DOMAIN o.kdf /\ o.kdf.cost \in 1 .. 2
  <2> SUFFICES ASSUME o.layout = "v10" PROVE "cost" \in DOMAIN o.kdf /\ o.kdf.cost \in 1 .. 2
    OBVIOUS
  <2>1. w.layout = "v10" /\ ForReaders(o, w)
    BY DEF WrittenAs, HeaderFor
  <2>2. /\ o.kdf.cost \in 1 .. 2
        /\ o.kdf = [factor |-> w.factor, salt |-> "salt", cost |-> o.kdf.cost]
    BY <2>1 DEF ForReaders
  <2> QED BY <2>2
<1>5. o.layout \in {"v2", "v3", "v5", "v6"} => "to" \in DOMAIN o.kem
  <2> SUFFICES ASSUME o.layout \in {"v2", "v3", "v5", "v6"} PROVE "to" \in DOMAIN o.kem
    OBVIOUS
  <2>1. w.layout \in {"v2", "v3", "v5", "v6", "stealth"} /\ ForReaders(o, w)
    BY DEF WrittenAs, HeaderFor
  <2>2. \E k \in Keys : o.kem = Encapsulate(k, "s")
    BY <2>1 DEF ForReaders
  <2> QED BY <2>2 DEF Encapsulate
<1> QED BY <1>2, <1>3, <1>4, <1>5, SizesAssumption DEF WrittenAs, HeaderFor, ChangedFrom

-----------------------------------------------------------------------------
(* Writing. *)

\* What a header's blocks are bound to does not depend on the blocks.
LEMMA SameSeals ==
  ASSUME NEW h, NEW o, NEW key, NEW text,
         o.nonce = h.nonce, o.chunk = h.chunk, o.layout = h.layout, o.auth = h.auth, o.lock = h.lock,
         o.size = h.size, o.comp = h.comp, o.kdf = h.kdf
  PROVE  SealChunks(o, key, text) = SealChunks(h, key, text)
<1>1. Commitment(o, key) = Commitment(h, key)
  BY DEF Commitment, Authenticated
<1> QED BY <1>1 DEF SealChunks, Block

LEMMA WriteIs ==
  ASSUME NEW h, DOMAIN h = Fields, NEW key, NEW text, NEW how, Write(h, key, text, how)
  PROVE  /\ DOMAIN file' = Fields /\ wrote' = how /\ faults' = faults
         /\ \A x \in Fields \ {"wire", "blocks"} : file'[x] = h[x]
         /\ file'.wire = IF how.layout = "stealth" THEN "stealth" ELSE Shape(h.layout, h.slots)
         /\ file'.blocks = SealChunks(file', key, text)
<1> DEFINE wire   == IF how.layout = "stealth" THEN "stealth" ELSE Shape(h.layout, h.slots)
           blocks == SealChunks(h, key, text)
           o      == [h EXCEPT !.wire = wire, !.blocks = blocks]
<1>1. file' = o /\ wrote' = how /\ faults' = faults
  BY DEF Write
<1> HIDE DEF wire, blocks
<1>2. DOMAIN o = Fields /\ o.wire = wire /\ o.blocks = blocks
      /\ \A x \in Fields \ {"wire", "blocks"} : o[x] = h[x]
  BY DEF Fields
<1> HIDE DEF o
<1>3. blocks = SealChunks(o, key, text)
  <2>1. /\ o.nonce = h.nonce /\ o.chunk = h.chunk /\ o.layout = h.layout /\ o.auth = h.auth
        /\ o.lock = h.lock /\ o.size = h.size /\ o.comp = h.comp /\ o.kdf = h.kdf
    BY <1>2 DEF Fields
  <2> QED BY <2>1, SameSeals DEF blocks
<1> QED BY <1>1, <1>2, <1>3 DEF wire

LEMMA WritesIt ==
  ASSUME NEW h, NEW w, HeaderFor(h, w), w.layout # "v2", NEW key, NEW text,
         key = SealedUnder(h, w), text = SealedText(w), Write(h, key, text, w)
  PROVE  WrittenAs(file', wrote') /\ faults' = faults
<1> DEFINE o == file'
<1>1. /\ DOMAIN o = Fields /\ wrote' = w /\ faults' = faults
      /\ o.wire = IF w.layout = "stealth" THEN "stealth" ELSE Shape(h.layout, h.slots)
      /\ o.blocks = SealChunks(o, key, text)
      /\ \A x \in Fields \ {"wire", "blocks"} : o[x] = h[x]
  BY WriteIs DEF HeaderFor
<1> HIDE DEF o
<1>2. /\ o.nonce = h.nonce /\ o.chunk = h.chunk /\ o.layout = h.layout /\ o.auth = h.auth
      /\ o.lock = h.lock /\ o.size = h.size /\ o.comp = h.comp /\ o.kdf = h.kdf /\ o.rest = h.rest
      /\ o.slots = h.slots /\ o.kem = h.kem
  BY <1>1 DEF Fields
<1>3. HeaderFor(o, w)
  <2>1. ForReaders(o, w)
    BY <1>2 DEF HeaderFor, ForReaders
  <2> QED BY <1>1, <1>2, <2>1 DEF HeaderFor
<1>4. SealedUnder(o, w) = key
  BY <1>2 DEF SealedUnder
<1>5. o.blocks = BlocksOf(o, w)
  BY <1>1, <1>4 DEF BlocksOf
<1>6. WrittenAs(o, w)
  BY <1>1, <1>2, <1>3, <1>5 DEF WrittenAs
<1> QED BY <1>1, <1>6 DEF o

LEMMA ChunkIs == Chunk \in 1 .. MaxChunk /\ MaxChunk \in Nat /\ MaxSize \in Nat
BY SizesAssumption

LEMMA SizesAre == ASSUME NEW size \in Sizes PROVE size \in Nat
BY ChunkIs DEF Sizes

LEMMA LengthIs == ASSUME NEW text \in Texts PROVE Len(text) \in Nat
<1>1. PICK n \in 0 .. MaxText : text = [i \in 1 .. n |-> i]
  BY DEF Texts
<1> QED BY <1>1, SizesAssumption

LEMMA HowIs ==
  ASSUME NEW layout, NEW text, NEW size, NEW to, NEW factor
  PROVE  LET w == How(layout, text, size, to, factor) IN
         /\ w.layout = layout /\ w.text = text /\ w.size = size /\ w.to = to /\ w.factor = factor
BY DEF How

\* The fields of a header no field of which but these is its own.
BlankBut(h, layout, auth, kem, slots, size, chunk, comp, kdf, lock) ==
  /\ DOMAIN h = Fields /\ h.rest = 0
  /\ h.layout = layout /\ h.auth = auth /\ h.kem = kem /\ h.slots = slots /\ h.size = size
  /\ h.chunk = chunk /\ h.comp = comp /\ h.kdf = kdf /\ h.lock = lock

LEMMA EncryptBytesOk == ASSUME EncryptBytes PROVE WrittenAs(file', wrote') /\ faults' = faults
<1>1. PICK text \in Texts, k \in Keys :
        LET h == [Blank EXCEPT !.layout = "v2", !.auth = FALSE, !.kem = Encapsulate(k, "s"),
                               !.size = Len(text)] IN
        /\ file' = [h EXCEPT !.wire = "single",
                             !.blocks = <<Block(h, "s", 0, TRUE, HeaderBytes(h), text)>>]
        /\ wrote' = How("v2", text, Len(text), {k}, "none")
        /\ UNCHANGED <<now, faults>>
  BY DEF EncryptBytes
<1> DEFINE kem == Encapsulate(k, "s")
           n   == Len(text)
           h   == [Blank EXCEPT !.layout = "v2", !.auth = FALSE, !.kem = kem, !.size = n]
           b   == Block(h, "s", 0, TRUE, HeaderBytes(h), text)
           o   == [h EXCEPT !.wire = "single", !.blocks = <<b>>]
           w   == How("v2", text, n, {k}, "none")
<1>2. file' = o /\ wrote' = w /\ faults' = faults
  BY <1>1
<1> HIDE DEF kem, n
<1>3. BlankBut(h, "v2", FALSE, kem, <<>>, n, Chunk, "none", None, None) /\ h.nonce = "n"
  BY DEF Blank, BlankBut, Fields
<1>4. w.layout = "v2" /\ w.text = text /\ w.size = n /\ w.to = {k}
  BY HowIs
<1> HIDE DEF h, b, w
<1>5. /\ BlankBut(o, "v2", FALSE, kem, <<>>, n, Chunk, "none", None, None) /\ o.nonce = "n"
      /\ o.wire = "single" /\ o.blocks = <<b>>
  BY <1>3 DEF BlankBut, Fields
<1> HIDE DEF o
<1>6. b = Block(o, "s", 0, TRUE, HeaderBytes(o), text)
  BY <1>3, <1>5 DEF b, Block, HeaderBytes, Version, BlankBut
<1>7. HeaderFor(o, w)
  <2>1. ForReaders(o, w)
    BY <1>4, <1>5 DEF ForReaders, BlankBut, kem, Slotted
  <2> QED BY <1>4, <1>5, <2>1, ChunkIs, LengthIs DEF HeaderFor, BlankBut, Layouts, n
<1>8. Shape("v2", o.slots) = "single"
  BY DEF Shape
<1>9. WrittenAs(o, w)
  BY <1>4, <1>5, <1>6, <1>7, <1>8 DEF WrittenAs, BlocksOf, BlankBut
<1> QED BY <1>2, <1>9

LEMMA EncryptStreamOk == ASSUME EncryptStream PROVE WrittenAs(file', wrote') /\ faults' = faults
<1>1. PICK text \in Texts, k \in Keys, size \in Sizes, c \in 0 .. MaxChunk + 1 :
        LET layout == IF c = Chunk THEN "v3" ELSE "v5"
            h == [Blank EXCEPT !.layout = layout, !.kem = Encapsulate(k, "s"), !.size = size,
                               !.chunk = c] IN
        /\ ValidateStreamBounds(size, c)
        /\ Write(h, "s", text, How(layout, text, size, {k}, "none"))
  BY DEF EncryptStream
<1> DEFINE layout == IF c = Chunk THEN "v3" ELSE "v5"
           kem == Encapsulate(k, "s")
           h == [Blank EXCEPT !.layout = layout, !.kem = kem, !.size = size, !.chunk = c]
           w == How(layout, text, size, {k}, "none")
<1>2. ValidateStreamBounds(size, c) /\ Write(h, "s", text, w)
  BY <1>1
<1>3. c \in 1 .. MaxChunk /\ layout \in {"v3", "v5"} /\ (layout = "v3" => c = Chunk)
  BY <1>2 DEF ValidateStreamBounds
<1> HIDE DEF layout, kem
<1>4. BlankBut(h, layout, TRUE, kem, <<>>, size, c, "none", None, None)
  BY DEF Blank, BlankBut, Fields
<1>5. w.layout = layout /\ w.text = text /\ w.size = size /\ w.to = {k}
  BY HowIs
<1> HIDE DEF h, w
<1>6. HeaderFor(h, w)
  <2>1. ForReaders(h, w)
    BY <1>3, <1>4, <1>5 DEF ForReaders, BlankBut, kem, Slotted
  <2> QED BY <1>3, <1>4, <1>5, <2>1, SizesAre DEF HeaderFor, BlankBut, Layouts, Chunked
<1>7. SealedUnder(h, w) = "s" /\ SealedText(w) = text
  BY <1>3, <1>5 DEF SealedUnder, SealedText
<1> QED BY <1>2, <1>3, <1>5, <1>6, <1>7, WritesIt

LEMMA EncryptCompressedOk ==
  ASSUME EncryptCompressed PROVE WrittenAs(file', wrote') /\ faults' = faults
<1>1. PICK text \in Texts, k \in Keys, size \in Sizes, c \in 0 .. MaxChunk + 1 :
        LET h == [Blank EXCEPT !.layout = "v6", !.kem = Encapsulate(k, "s"), !.size = size,
                               !.chunk = c, !.comp = "zstd"] IN
        /\ ValidateStreamBounds(size, c)
        /\ Write(h, "s", Zstd(text), How("v6", text, size, {k}, "none"))
  BY DEF EncryptCompressed
<1> DEFINE kem == Encapsulate(k, "s")
           h == [Blank EXCEPT !.layout = "v6", !.kem = kem, !.size = size, !.chunk = c,
                              !.comp = "zstd"]
           w == How("v6", text, size, {k}, "none")
<1>2. ValidateStreamBounds(size, c) /\ Write(h, "s", Zstd(text), w)
  BY <1>1
<1>3. c \in 1 .. MaxChunk
  BY <1>2 DEF ValidateStreamBounds
<1> HIDE DEF kem
<1>4. BlankBut(h, "v6", TRUE, kem, <<>>, size, c, "zstd", None, None)
  BY DEF Blank, BlankBut, Fields
<1>5. w.layout = "v6" /\ w.text = text /\ w.size = size /\ w.to = {k}
  BY HowIs
<1> HIDE DEF h, w
<1>6. HeaderFor(h, w)
  <2>1. ForReaders(h, w)
    BY <1>4, <1>5 DEF ForReaders, BlankBut, kem, Slotted
  <2> QED BY <1>3, <1>4, <1>5, <2>1, SizesAre DEF HeaderFor, BlankBut, Layouts, Chunked
<1>7. SealedUnder(h, w) = "s" /\ SealedText(w) = Zstd(text)
  BY <1>5 DEF SealedUnder, SealedText
<1> QED BY <1>2, <1>5, <1>6, <1>7, WritesIt

LEMMA PassphraseOk ==
  ASSUME NEW factor \in Factors, NEW auth \in BOOLEAN, WritePassphrase(factor, auth)
  PROVE  WrittenAs(file', wrote') /\ faults' = faults
<1>1. PICK text \in Texts, size \in Sizes, cost \in {DefaultCost, DefaultCost + 1} :
        LET kdf == [factor |-> factor, salt |-> "salt", cost |-> cost]
            h == [Blank EXCEPT !.layout = "v10", !.auth = auth, !.kdf = kdf, !.size = size] IN
        Write(h, DeriveKey(factor, kdf), text, How("v10", text, size, {}, factor))
  BY DEF WritePassphrase
<1> DEFINE kdf == [factor |-> factor, salt |-> "salt", cost |-> cost]
           h == [Blank EXCEPT !.layout = "v10", !.auth = auth, !.kdf = kdf, !.size = size]
           w == How("v10", text, size, {}, factor)
<1>2. Write(h, DeriveKey(factor, kdf), text, w)
  BY <1>1
<1> HIDE DEF kdf
<1>3. BlankBut(h, "v10", auth, None, <<>>, size, Chunk, "none", kdf, None)
  BY DEF Blank, BlankBut, Fields
<1>4. w.layout = "v10" /\ w.text = text /\ w.size = size /\ w.factor = factor
  BY HowIs
<1> HIDE DEF h, w
<1>5. HeaderFor(h, w)
  <2>1. kdf.cost \in 1 .. 2 /\ kdf = [factor |-> factor, salt |-> "salt", cost |-> kdf.cost]
    BY DEF kdf, DefaultCost
  <2>2. ForReaders(h, w)
    BY <1>3, <1>4, <2>1 DEF ForReaders, BlankBut, Slotted
  <2> QED BY <1>3, <1>4, <2>2, SizesAre, ChunkIs DEF HeaderFor, BlankBut, Layouts
<1>6. SealedUnder(h, w) = DeriveKey(factor, kdf) /\ SealedText(w) = text
  BY <1>3, <1>4 DEF SealedUnder, SealedText, BlankBut
<1> QED BY <1>2, <1>4, <1>5, <1>6, WritesIt

LEMMA StealthOk == ASSUME EncryptStealth PROVE WrittenAs(file', wrote') /\ faults' = faults
<1>1. PICK text \in Texts, size \in Sizes, k \in Keys :
        LET h == [Blank EXCEPT !.kem = Encapsulate(k, "s"), !.size = size] IN
        Write(h, "s", text, How("stealth", text, size, {k}, "none"))
  BY DEF EncryptStealth
<1> DEFINE kem == Encapsulate(k, "s")
           h == [Blank EXCEPT !.kem = kem, !.size = size]
           w == How("stealth", text, size, {k}, "none")
<1>2. Write(h, "s", text, w)
  BY <1>1
<1> HIDE DEF kem
<1>3. BlankBut(h, "v3", TRUE, kem, <<>>, size, Chunk, "none", None, None)
  BY DEF Blank, BlankBut, Fields
<1>4. w.layout = "stealth" /\ w.text = text /\ w.size = size /\ w.to = {k}
  BY HowIs
<1> HIDE DEF h, w
<1>5. HeaderFor(h, w)
  <2>1. ForReaders(h, w)
    BY <1>3, <1>4 DEF ForReaders, BlankBut, kem, Slotted
  <2> QED BY <1>3, <1>4, <2>1, SizesAre, ChunkIs DEF HeaderFor, BlankBut, Layouts, Chunked
<1>6. SealedUnder(h, w) = "s" /\ SealedText(w) = text
  BY <1>4 DEF SealedUnder, SealedText
<1> QED BY <1>2, <1>4, <1>5, <1>6, WritesIt

LEMMA TlockOk == ASSUME EncryptTlock PROVE WrittenAs(file', wrote') /\ faults' = faults
<1>1. PICK text \in Texts, size \in Sizes, round \in 1 .. LastRound :
        LET lock == [chain |-> "quicknet", round |-> round, ct |-> <<round, "seed">>]
            h == [Blank EXCEPT !.layout = "tlock", !.lock = lock, !.size = size] IN
        Write(h, "seed", text, How("tlock", text, size, {}, "none"))
  BY DEF EncryptTlock
<1> DEFINE lock == [chain |-> "quicknet", round |-> round, ct |-> <<round, "seed">>]
           h == [Blank EXCEPT !.layout = "tlock", !.lock = lock, !.size = size]
           w == How("tlock", text, size, {}, "none")
<1>2. Write(h, "seed", text, w)
  BY <1>1
<1> HIDE DEF lock
<1>3. BlankBut(h, "tlock", TRUE, None, <<>>, size, Chunk, "none", None, lock)
  BY DEF Blank, BlankBut, Fields
<1>4. w.layout = "tlock" /\ w.text = text /\ w.size = size
  BY HowIs
<1> HIDE DEF h, w
<1>5. HeaderFor(h, w)
  <2>1. /\ lock.round \in Int
        /\ lock = [chain |-> "quicknet", round |-> lock.round, ct |-> <<lock.round, "seed">>]
    BY DEF lock
  <2>2. ForReaders(h, w)
    BY <1>3, <1>4, <2>1 DEF ForReaders, BlankBut, Slotted
  <2> QED BY <1>3, <1>4, <2>2, SizesAre, ChunkIs DEF HeaderFor, BlankBut, Layouts
<1>6. SealedUnder(h, w) = "seed" /\ SealedText(w) = text
  BY <1>4 DEF SealedUnder, SealedText
<1> QED BY <1>2, <1>4, <1>5, <1>6, WritesIt

LEMMA LegacyOk == ASSUME LegacyFile PROVE WrittenAs(file', wrote') /\ faults' = faults
<1>1. PICK text \in Texts, k \in Keys, layout \in {"v3", "v5", "v6", "v7"}, c \in 1 .. MaxChunk :
        LET h == [Blank EXCEPT !.auth = FALSE, !.layout = layout, !.size = Len(text),
                    !.chunk = IF layout \in {"v5", "v6"} THEN c ELSE Chunk,
                    !.comp = IF layout = "v6" THEN "zstd" ELSE "none",
                    !.kem = IF layout = "v7" THEN None ELSE Encapsulate(k, "s"),
                    !.slots = IF layout = "v7" THEN Slots(<<k>>) ELSE <<>>] IN
        Write(h, "s", IF layout = "v6" THEN Zstd(text) ELSE text,
              How(layout, text, Len(text), {k}, "none"))
  BY DEF LegacyFile
<1> DEFINE n     == Len(text)
           chunk == IF layout \in {"v5", "v6"} THEN c ELSE Chunk
           comp  == IF layout = "v6" THEN "zstd" ELSE "none"
           kem   == IF layout = "v7" THEN None ELSE Encapsulate(k, "s")
           slots == IF layout = "v7" THEN Slots(<<k>>) ELSE <<>>
           h == [Blank EXCEPT !.auth = FALSE, !.layout = layout, !.size = n, !.chunk = chunk,
                              !.comp = comp, !.kem = kem, !.slots = slots]
           w == How(layout, text, n, {k}, "none")
<1>2. Write(h, "s", IF layout = "v6" THEN Zstd(text) ELSE text, w)
  BY <1>1
<1> HIDE DEF n, chunk, comp, kem, slots
<1>3. BlankBut(h, layout, FALSE, kem, slots, n, chunk, comp, None, None)
  BY DEF Blank, BlankBut, Fields
<1>4. w.layout = layout /\ w.text = text /\ w.size = n /\ w.to = {k}
  BY HowIs
<1> HIDE DEF h, w
<1>5. chunk \in 1 .. MaxChunk /\ (layout \notin {"v5", "v6"} => chunk = Chunk)
  BY ChunkIs DEF chunk
<1>6. layout = "v7" => SlotsFor(slots, {k})
  <2> SUFFICES ASSUME layout = "v7" PROVE SlotsFor(slots, {k})
    OBVIOUS
  <2>1. slots = [i \in DOMAIN <<k>> |-> Encapsulate(<<k>>[i], "s")]
    BY DEF slots, Slots
  <2>2. DOMAIN <<k>> = 1 .. 1 /\ <<k>>[1] = k
    OBVIOUS
  <2>3. DOMAIN slots = 1 .. 1 /\ slots[1] = Encapsulate(k, "s")
    BY <2>1, <2>2
  <2>4. Encapsulate(k, "s").to = k
    BY DEF Encapsulate
  <2> QED BY <2>3, <2>4 DEF SlotsFor
<1>7. HeaderFor(h, w)
  <2>1. ForReaders(h, w)
    <3>1. layout # "v7" => h.kem = Encapsulate(k, "s")
      BY <1>3 DEF BlankBut, kem
    <3> QED BY <1>3, <1>4, <1>6, <3>1 DEF ForReaders, BlankBut, Slotted
  <2> QED BY <1>3, <1>4, <1>5, <2>1, LengthIs DEF HeaderFor, BlankBut, Layouts, Chunked, Slotted, n, comp
<1>8. SealedUnder(h, w) = "s" /\ SealedText(w) = IF layout = "v6" THEN Zstd(text) ELSE text
  BY <1>4 DEF SealedUnder, SealedText
<1> QED BY <1>2, <1>4, <1>7, <1>8, WritesIt

-----------------------------------------------------------------------------
(* Several recipients. *)

LEMMA LeastOf == ASSUME NEW s, s \subseteq Nat, s # {} PROVE \E i \in s : \A j \in s : i <= j
<1> DEFINE less == OpToRel(<, Nat)
<1>1. IsWellFoundedOn(less, Nat)
  BY NatLessThanWellFounded
<1>2. PICK u \in s : \A v \in s : ~(<<v, u>> \in less)
  <2> HIDE DEF less
  <2> QED BY <1>1, WFMin
<1>3. ASSUME NEW v \in s PROVE u <= v
  <2>1. ~(<<v, u>> \in less)
    BY <1>2
  <2>2. ~(v < u)
    BY <2>1 DEF OpToRel
  <2> QED BY <2>2
<1> QED BY <1>3

\* The powers of two as far as they are asked for.
Powers(g, n) == g = [i \in 0 .. n |-> IF i = 0 THEN 1 ELSE 2 * g[i - 1]]

LEMMA PowersAre ==
  ASSUME NEW n \in Nat, NEW g, Powers(g, n)
  PROVE  \A i \in 0 .. n : g[i] \in Nat /\ g[i] >= i + 1
<1> DEFINE bad == {i \in 0 .. n : ~(g[i] \in Nat /\ g[i] >= i + 1)}
<1> SUFFICES ASSUME bad # {} PROVE FALSE
  OBVIOUS
<1>1. PICK i \in bad : \A j \in bad : i <= j
  <2>1. bad \subseteq Nat
    OBVIOUS
  <2> HIDE DEF bad
  <2> QED BY <2>1, LeastOf
<1>2. i \in 0 .. n /\ ~(g[i] \in Nat /\ g[i] >= i + 1)
  OBVIOUS
<1>3. g[i] = IF i = 0 THEN 1 ELSE 2 * g[i - 1]
  BY <1>2 DEF Powers
<1>4. CASE i # 0
  <2>1. i - 1 \in 0 .. n /\ i - 1 < i
    BY <1>2, <1>4
  <2>2. g[i - 1] \in Nat /\ g[i - 1] >= i - 1 + 1
    <3>1. i - 1 \notin bad
      <4> HIDE DEF bad
      <4> QED BY <1>1, <1>2, <2>1
    <3> QED BY <2>1, <3>1
  <2> HIDE DEF bad
  <2> QED BY <1>2, <1>3, <1>4, <2>2
<1> QED BY <1>2, <1>3, <1>4

LEMMA PowersExist == ASSUME NEW n \in Nat PROVE \E g : Powers(g, n)
<1> DEFINE bad == {m \in Nat : ~\E g : Powers(g, m)}
<1> SUFFICES ASSUME bad # {} PROVE FALSE
  OBVIOUS
<1>1. PICK m \in bad : \A j \in bad : m <= j
  <2>1. bad \subseteq Nat
    OBVIOUS
  <2> HIDE DEF bad
  <2> QED BY <2>1, LeastOf
<1>2. m \in Nat /\ ~\E g : Powers(g, m)
  OBVIOUS
<1>3. CASE m = 0
  <2> DEFINE g == [i \in 0 .. 0 |-> 1]
  <2>1. g = [i \in 0 .. 0 |-> IF i = 0 THEN 1 ELSE 2 * g[i - 1]]
    OBVIOUS
  <2> HIDE DEF g
  <2>2. Powers(g, m)
    BY <2>1, <1>3 DEF Powers
  <2> QED BY <1>2, <2>2
<1>4. CASE m # 0
  <2>1. m - 1 \in Nat /\ m \in Nat /\ ~(m <= m - 1)
    BY <1>2, <1>4
  <2>2. m - 1 \notin bad
    <3> HIDE DEF bad
    <3> QED BY <1>1, <2>1
  <2>3. PICK f : Powers(f, m - 1)
    BY <2>1, <2>2
  <2> DEFINE g == [i \in 0 .. m |-> IF i = m THEN 2 * f[m - 1] ELSE f[i]]
  <2>4. ASSUME NEW i \in 0 .. m PROVE g[i] = IF i = 0 THEN 1 ELSE 2 * g[i - 1]
    <3>1. g[i] = IF i = m THEN 2 * f[m - 1] ELSE f[i]
      OBVIOUS
    <3>2. i # 0 => i - 1 \in 0 .. m - 1 /\ g[i - 1] = f[i - 1]
      <4>1. i # 0 => i - 1 \in 0 .. m /\ i - 1 # m /\ i - 1 \in 0 .. m - 1
        BY <1>2
      <4> QED BY <4>1
    <3>3. i # m => i \in 0 .. m - 1
      BY <1>2
    <3>4. i # m => f[i] = IF i = 0 THEN 1 ELSE 2 * f[i - 1]
      BY <2>3, <3>3 DEF Powers
    <3> HIDE DEF g
    <3> QED BY <1>2, <1>4, <3>1, <3>2, <3>4
  <2>5. g = [i \in 0 .. m |-> g[i]]
    OBVIOUS
  <2> HIDE DEF g
  <2>6. Powers(g, m)
    BY <2>4, <2>5 DEF Powers
  <2> QED BY <1>2, <2>6
<1> QED BY <1>3, <1>4

\* The padding of a blind header is never negative.
LEMMA NextPowerIs == ASSUME NEW n \in Nat PROVE NextPower(n) - n \in Nat
<1> DEFINE g     == CHOOSE g : Powers(g, n)
           ps    == {g[i] : i \in 0 .. n}
           Is(p) == p >= n /\ (p = 1 \/ p \div 2 < n)
<1>1. Powers(g, n)
  BY PowersExist
<1>2. NextPower(n) = CHOOSE p \in ps : Is(p)
  BY DEF NextPower, Powers
<1> HIDE DEF g
<1>3. \A i \in 0 .. n : g[i] \in Nat /\ g[i] >= i + 1
  BY <1>1, PowersAre
<1>4. \E p \in ps : Is(p)
  <2> DEFINE enough == {i \in 0 .. n : g[i] >= n}
  <2>1. PICK i \in enough : \A j \in enough : i <= j
    <3>1. n \in 0 .. n
      OBVIOUS
    <3>2. g[n] >= n
      BY <1>3, <3>1
    <3>3. n \in enough /\ enough \subseteq Nat
      BY <3>1, <3>2
    <3> HIDE DEF enough
    <3> QED BY <3>3, LeastOf
  <2>2. i \in 0 .. n /\ g[i] >= n /\ g[i] \in Nat
    BY <1>3
  <2>3. CASE i = 0
    <3>1. g[0] = 1
      BY <1>1 DEF Powers
    <3> QED BY <2>2, <2>3, <3>1
  <2>4. CASE i # 0
    <3>1. i - 1 \in 0 .. n /\ i - 1 < i
      BY <2>2, <2>4
    <3>2. g[i] = 2 * g[i - 1]
      BY <1>1, <2>2, <2>4 DEF Powers
    <3>3. g[i - 1] \in Nat
      BY <1>3, <3>1
    <3>4. g[i - 1] < n
      <4>1. i - 1 \notin enough
        <5> HIDE DEF enough
        <5> QED BY <2>1, <2>2, <3>1
      <4> QED BY <3>1, <3>3, <4>1
    <3>5. g[i] \div 2 = g[i - 1]
      BY <3>2, <3>3
    <3>6. Is(g[i])
      BY <2>2, <3>4, <3>5
    <3> HIDE DEF Is
    <3> QED BY <2>2, <3>6
  <2> QED BY <2>3, <2>4
<1> DEFINE p == CHOOSE p \in ps : Is(p)
<1>5. p \in ps /\ Is(p)
  <2> HIDE DEF ps, Is
  <2> QED BY <1>4
<1>6. p \in Nat /\ p >= n
  <2>1. p \in ps /\ p >= n
    BY <1>5
  <2> HIDE DEF p
  <2> QED BY <2>1, <1>3
<1> HIDE DEF p
<1>7. p - n \in Nat
  BY <1>6
<1> QED BY <1>2, <1>7 DEF p

\* A list of recipients after the dummies that fill the header up.
LEMMA SlotsAre ==
  ASSUME NEW m \in Nat, NEW to \in SUBSET Keys, NEW ks \in SetToSeqs(to)
  PROVE  SlotsFor([i \in 1 .. m |-> Dummy] \o Slots(ks), to)
<1> DEFINE T    == {Dummy} \cup {Encapsulate(k, "s") : k \in Keys}
           pad  == [i \in 1 .. m |-> Dummy]
           mine == Slots(ks)
           n    == Cardinality(to)
<1>1. IsFiniteSet(to) /\ n \in Nat
  <2>1. IsFiniteSet(to)
    BY KeysAssumption, FS_Subset
  <2> QED BY <2>1, FS_CardinalityType
<1>2. ks \in [1 .. n -> to] /\ \A i, j \in 1 .. n : i # j => ks[i] # ks[j]
  BY DEF SetToSeqs
<1>3. \A k \in to : \E i \in 1 .. n : ks[i] = k
  <2>1. ks \in Injection(1 .. n, to)
    BY <1>2 DEF Injection, IsInjective
  <2>2. IsFiniteSet(1 .. n) /\ Cardinality(1 .. n) = n
    BY <1>1, FS_Interval
  <2>3. ks \in Surjection(1 .. n, to)
    <3>1. ASSUME NEW S, NEW f \in Injection(S, to), Cardinality(S) = Cardinality(to) PROVE f \in Surjection(S, to)
      BY <3>1, <1>1, FS_Injection
    <3> QED BY <2>1, <2>2, <3>1
  <2> QED BY <2>3 DEF Surjection
<1>4. mine = [i \in 1 .. n |-> Encapsulate(ks[i], "s")]
  BY <1>2 DEF Slots
<1>5. pad \in Seq(T) /\ Len(pad) = m /\ mine \in Seq(T) /\ Len(mine) = n
  <2>1. Dummy \in T /\ \A i \in 1 .. n : Encapsulate(ks[i], "s") \in T
    BY <1>2
  <2> HIDE DEF T
  <2>2. pad \in Seq(T) /\ mine \in Seq(T)
    BY <1>1, <1>4, <2>1, IsASeq
  <2>3. DOMAIN pad = 1 .. m /\ DOMAIN mine = 1 .. n
    BY <1>4
  <2>4. Len(pad) \in Nat /\ DOMAIN pad = 1 .. Len(pad) /\ Len(mine) \in Nat /\ DOMAIN mine = 1 .. Len(mine)
    BY <2>2, LenProperties
  <2> HIDE DEF pad, mine
  <2> QED BY <1>1, <2>2, <2>3, <2>4, SameInterval
<1>6. /\ DOMAIN (pad \o mine) = 1 .. m + n
      /\ \A i \in 1 .. m + n : (pad \o mine)[i] = IF i <= m THEN pad[i] ELSE mine[i - m]
  <2> HIDE DEF pad, mine, T
  <2>1. pad \o mine \in Seq(T) /\ Len(pad \o mine) = m + n
    BY <1>5, ConcatProperties
  <2>2. DOMAIN (pad \o mine) = 1 .. m + n
    BY <2>1, LenProperties
  <2> QED BY <1>5, <2>2, ConcatProperties
<1>7. ASSUME NEW i \in DOMAIN (pad \o mine), (pad \o mine)[i].to # None
      PROVE  (pad \o mine)[i].to \in to /\ (pad \o mine)[i] = Encapsulate((pad \o mine)[i].to, "s")
  <2>1. i \in 1 .. m + n
    BY <1>6
  <2>2. (pad \o mine)[i] = IF i <= m THEN pad[i] ELSE mine[i - m]
    BY <1>6, <2>1
  <2>3. i \in 1 .. m => pad[i].to = None
    BY DEF Dummy
  <2>4. i - m \in 1 .. n
    <3>1. ~(i <= m)
      <4> HIDE DEF pad, mine
      <4> QED BY <2>1, <1>7, <2>2, <2>3
    <3> QED BY <2>1, <3>1, <1>1
  <2>5. mine[i - m] = Encapsulate(ks[i - m], "s")
    BY <1>4, <2>4
  <2>6. (pad \o mine)[i] = Encapsulate(ks[i - m], "s")
    <3> HIDE DEF pad, mine
    <3> QED BY <1>1, <2>1, <2>2, <2>4, <2>5
  <2>7. Encapsulate(ks[i - m], "s").to = ks[i - m] /\ ks[i - m] \in to
    BY <1>2, <2>4 DEF Encapsulate
  <2> QED BY <2>6, <2>7
<1>8. ASSUME NEW k \in to PROVE \E i \in DOMAIN (pad \o mine) : (pad \o mine)[i].to = k
  <2>1. PICK j \in 1 .. n : ks[j] = k
    BY <1>3
  <2>2. m + j \in 1 .. m + n /\ ~(m + j <= m) /\ m + j - m = j
    BY <1>1
  <2>3. mine[j] = Encapsulate(k, "s")
    BY <1>4, <2>1
  <2>4. (pad \o mine)[m + j] = mine[j]
    <3> DEFINE i == m + j
    <3>1. i \in 1 .. m + n /\ ~(i <= m) /\ i - m = j
      BY <2>2
    <3> HIDE DEF pad, mine, n, i
    <3>2. (pad \o mine)[i] = IF i <= m THEN pad[i] ELSE mine[i - m]
      BY <1>6, <3>1
    <3>3. (pad \o mine)[i] = mine[j]
      BY <3>1, <3>2
    <3> QED BY <3>3 DEF i
  <2>5. Encapsulate(k, "s").to = k
    BY DEF Encapsulate
  <2> QED BY <1>6, <2>2, <2>3, <2>4, <2>5
<1> HIDE DEF pad, mine
<1> QED BY <1>7, <1>8 DEF SlotsFor, pad, mine

LEMMA MultiOk ==
  ASSUME NEW layout \in {"v4", "v8", "v9"}, NEW padding,
         \A n \in 1 .. Cardinality(Keys) : padding[n] \in Nat, EncryptMulti(layout, padding)
  PROVE  WrittenAs(file', wrote') /\ faults' = faults
<1>1. PICK text \in Texts, size \in Sizes, to \in (SUBSET Keys) \ {{}} :
        \E ks \in SetToSeqs(to) :
            LET pad == [i \in 1 .. padding[Cardinality(to)] |-> Dummy]
                h == [Blank EXCEPT !.layout = layout, !.size = size, !.slots = pad \o Slots(ks)] IN
            Write(h, "s", text, How(layout, text, size, to, "none"))
  BY DEF EncryptMulti
<1>2. PICK ks \in SetToSeqs(to) :
            LET pad == [i \in 1 .. padding[Cardinality(to)] |-> Dummy]
                h == [Blank EXCEPT !.layout = layout, !.size = size, !.slots = pad \o Slots(ks)] IN
            Write(h, "s", text, How(layout, text, size, to, "none"))
  BY <1>1
<1> DEFINE m     == padding[Cardinality(to)]
           slots == [i \in 1 .. m |-> Dummy] \o Slots(ks)
           h == [Blank EXCEPT !.layout = layout, !.size = size, !.slots = slots]
           w == How(layout, text, size, to, "none")
<1>3. Write(h, "s", text, w)
  BY <1>2
<1>4. m \in Nat
  <2>1. IsFiniteSet(Keys) /\ to \in SUBSET Keys /\ to # {}
    BY KeysAssumption
  <2>2. Cardinality(to) <= Cardinality(Keys) /\ Cardinality(to) \in Nat /\ Cardinality(Keys) \in Nat
        /\ Cardinality(to) # 0
    <3>1. IsFiniteSet(to)
      BY <2>1, FS_Subset
    <3> QED BY <2>1, <3>1, FS_Subset, FS_CardinalityType, FS_EmptySet
  <2>3. Cardinality(to) \in 1 .. Cardinality(Keys)
    BY <2>2
  <2> QED BY <2>3
<1>5. SlotsFor(slots, to)
  <2> HIDE DEF m
  <2> QED BY <1>4, SlotsAre
<1> HIDE DEF m, slots
<1>6. BlankBut(h, layout, TRUE, None, slots, size, Chunk, "none", None, None)
  BY DEF Blank, BlankBut, Fields
<1>7. w.layout = layout /\ w.text = text /\ w.size = size /\ w.to = to
  BY HowIs
<1> HIDE DEF h, w
<1>8. HeaderFor(h, w)
  <2>1. ForReaders(h, w)
    BY <1>5, <1>6, <1>7 DEF ForReaders, BlankBut, Slotted
  <2> QED BY <1>6, <1>7, <2>1, SizesAre, ChunkIs DEF HeaderFor, BlankBut, Layouts, Slotted
<1>9. SealedUnder(h, w) = "s" /\ SealedText(w) = text
  BY <1>7 DEF SealedUnder, SealedText
<1> QED BY <1>3, <1>7, <1>8, <1>9, WritesIt

LEMMA Encrypted == ASSUME Encrypt PROVE WrittenAs(file', wrote') /\ faults' = faults
<1>1. CASE EncryptStandard
  <2> DEFINE padding == [n \in 1 .. Cardinality(Keys) |-> 0]
  <2>1. \A n \in 1 .. Cardinality(Keys) : padding[n] \in Nat
    OBVIOUS
  <2>2. EncryptMulti("v4", padding)
    BY <1>1 DEF EncryptStandard
  <2> HIDE DEF padding
  <2> QED BY <2>1, <2>2, MultiOk
<1>2. CASE EncryptAnon
  <2> DEFINE padding == [n \in 1 .. Cardinality(Keys) |-> 0]
  <2>1. \A n \in 1 .. Cardinality(Keys) : padding[n] \in Nat
    OBVIOUS
  <2>2. EncryptMulti("v8", padding)
    BY <1>2 DEF EncryptAnon
  <2> HIDE DEF padding
  <2> QED BY <2>1, <2>2, MultiOk
<1>3. CASE EncryptPadded
  <2> DEFINE padding == [n \in 1 .. Cardinality(Keys) |-> NextPower(n) - n]
  <2>1. \A n \in 1 .. Cardinality(Keys) : padding[n] \in Nat
    BY NextPowerIs
  <2>2. EncryptMulti("v9", padding)
    BY <1>3 DEF EncryptPadded
  <2> HIDE DEF padding
  <2> QED BY <2>1, <2>2, MultiOk
<1>4. CASE EncryptPassphrase \/ EncryptKeyfile \/ EncryptFido2 \/ EncryptWebauthn \/ LegacyPassphrase
  <2>1. \E factor \in Factors, auth \in BOOLEAN : WritePassphrase(factor, auth)
    BY <1>4 DEF EncryptPassphrase, EncryptKeyfile, EncryptFido2, EncryptWebauthn, LegacyPassphrase, Factors
  <2> QED BY <2>1, PassphraseOk
<1> QED BY <1>1, <1>2, <1>3, <1>4, EncryptBytesOk, EncryptStreamOk, EncryptCompressedOk, StealthOk,
           TlockOk, LegacyOk DEF Encrypt

-----------------------------------------------------------------------------
(* Storage. *)

\* What a header field is to be for the file to be what storage made of another.
Unread(f, g, o) ==
  /\ DOMAIN f = Fields /\ f.wire = g.wire /\ f.slots = g.slots
  /\ f.layout \in Layouts /\ f.auth \in BOOLEAN /\ f.size \in Nat /\ f.chunk \in Nat
  /\ f.wire \notin {"v5", "v6"} => f.chunk = g.chunk
  /\ f.wire # "v6" => f.comp = g.comp
  /\ o.layout = "v10" => "cost" \in DOMAIN f.kdf /\ f.kdf.cost \in 1 .. 2
  /\ o.layout \in {"v2", "v3", "v5", "v6"} => "to" \in DOMAIN f.kem /\ f.kem.to = g.kem.to

LEMMA HeaderChanged ==
  ASSUME NEW f, NEW g, NEW o, ChangedFrom(g, o), Unread(f, g, o),
         f.blocks = g.blocks, f.rest = g.rest
  PROVE  ChangedFrom(f, o)
<1>1. BlocksOk(f)
  BY DEF ChangedFrom, BlocksOk, Pieces
<1> QED BY <1>1 DEF ChangedFrom, Unread

LEMMA LastCut ==
  ASSUME NEW f, NEW g, BlocksOk(g), g.blocks # <<>>, f.blocks = Front(g.blocks), f.rest \in Nat
  PROVE  /\ BlocksOk(f) /\ Len(f.blocks) <= Len(g.blocks)
         /\ \A i \in 1 .. Len(f.blocks) : f.blocks[i] = g.blocks[i]
<1> DEFINE n == Len(g.blocks)
           e == [i \in 1 .. n - 1 |-> g.blocks[i]]
<1>1. n \in Nat /\ DOMAIN g.blocks = 1 .. n /\ n # 0
  BY BlocksAre, EmptySeq DEF BlocksOk
<1>2. f.blocks = [i \in 1 .. n - 1 |-> g.blocks[i]] /\ n - 1 \in Nat
  <2>1. Front(g.blocks) = SubSeq(g.blocks, 1, n - 1)
    BY DEF Front
  <2>2. g.blocks \in Seq(Pieces(g)) /\ 1 \in Int /\ n - 1 \in Int
    BY <1>1 DEF BlocksOk
  <2>3. \A i \in 1 .. n - 1 : g.blocks[i] \in Pieces(g)
    BY <1>1 DEF Pieces
  <2> HIDE DEF n
  <2>4. SubSeq(g.blocks, 1, n - 1) = [i \in 1 .. n - 1 |-> g.blocks[i]]
    <3> DEFINE s == SubSeq(g.blocks, 1, n - 1)
    <3>1. /\ s \in Seq(Pieces(g)) /\ Len(s) = IF 1 <= n - 1 THEN n - 1 ELSE 0
          /\ \A i \in 1 .. n - 1 : s[i] = g.blocks[i]
      <4>1. s \in Seq(Pieces(g)) /\ Len(s) = IF 1 <= n - 1 THEN n - 1 - 1 + 1 ELSE 0
        BY <1>1, <2>2, <2>3, SubSeqProperties
      <4>2. \A i \in 1 .. n - 1 - 1 + 1 : s[i] = g.blocks[1 + i - 1]
        BY <1>1, <2>2, <2>3, SubSeqProperties
      <4> HIDE DEF s
      <4>3. \A i \in 1 .. n - 1 : i \in 1 .. n - 1 - 1 + 1 /\ 1 + i - 1 = i
        BY <1>1
      <4> QED BY <1>1, <4>1, <4>2, <4>3
    <3> HIDE DEF s
    <3>2. Len(s) = n - 1
      BY <1>1, <3>1
    <3>3. s = [i \in 1 .. Len(s) |-> s[i]]
      BY <3>1, LenProperties
    <3> QED BY <3>1, <3>2, <3>3 DEF s
  <2> QED BY <1>1, <2>1, <2>4 DEF n
<1>3. \A i \in 1 .. n - 1 : e[i].data \in Seq(Int) /\ (e[i].last => i = n - 1)
  <2> SUFFICES ASSUME NEW i \in 1 .. n - 1 PROVE e[i].data \in Seq(Int) /\ (e[i].last => i = n - 1)
    OBVIOUS
  <2>1. e[i] = g.blocks[i] /\ i \in 1 .. n /\ i # n
    BY <1>1
  <2>2. g.blocks[i].data \in Seq(Int) /\ ~g.blocks[i].last
    BY <2>1 DEF BlocksOk
  <2> HIDE DEF e
  <2> QED BY <2>1, <2>2
<1>4. f.blocks = [i \in 1 .. n - 1 |-> e[i]]
  BY <1>2
<1>5. \A i \in 1 .. n - 1 : e[i] = g.blocks[i]
  OBVIOUS
<1> HIDE DEF e, n
<1>6. BlocksOk(f) /\ Len(f.blocks) = n - 1
  BY <1>2, <1>3, <1>4, BlocksOkWhen
<1>7. \A i \in 1 .. n - 1 : f.blocks[i] = g.blocks[i]
  BY <1>2
<1> QED BY <1>1, <1>6, <1>7 DEF n

LEMMA Stored ==
  ASSUME NEW o, WrittenAs(o, wrote), ChangedFrom(file, o), Storage
  PROVE  ChangedFrom(file', o)
<1>0. /\ DOMAIN file = Fields /\ file.layout \in Layouts /\ file.auth \in BOOLEAN /\ file.size \in Nat
      /\ file.chunk \in Nat
      /\ o.layout = "v10" => "cost" \in DOMAIN file.kdf /\ file.kdf.cost \in 1 .. 2
      /\ o.layout \in {"v2", "v3", "v5", "v6"} => "to" \in DOMAIN file.kem
      /\ BlocksOk(file)
  BY DEF ChangedFrom
<1>1. CASE AlterVersion
  <2>1. PICK l \in Layouts, a \in BOOLEAN : file' = [file EXCEPT !.layout = l, !.auth = a]
    BY <1>1 DEF AlterVersion, Changed
  <2> DEFINE f == [file EXCEPT !.layout = l, !.auth = a]
  <2>2. /\ DOMAIN f = Fields /\ f.wire = file.wire /\ f.slots = file.slots /\ f.layout = l /\ f.auth = a
        /\ f.size = file.size /\ f.chunk = file.chunk /\ f.comp = file.comp /\ f.kdf = file.kdf
        /\ f.kem = file.kem /\ f.blocks = file.blocks /\ f.rest = file.rest
    BY <1>0 DEF Fields
  <2> HIDE DEF f
  <2>3. Unread(f, file, o)
    BY <1>0, <2>2 DEF Unread
  <2> QED BY <2>1, <2>2, <2>3, HeaderChanged DEF f
<1>2. CASE AlterSize
  <2>1. PICK n \in Sizes : file' = [file EXCEPT !.size = n]
    BY <1>2 DEF AlterSize, Changed
  <2> DEFINE f == [file EXCEPT !.size = n]
  <2>2. /\ DOMAIN f = Fields /\ f.wire = file.wire /\ f.slots = file.slots /\ f.layout = file.layout
        /\ f.auth = file.auth /\ f.size = n /\ f.chunk = file.chunk /\ f.comp = file.comp
        /\ f.kdf = file.kdf /\ f.kem = file.kem /\ f.blocks = file.blocks /\ f.rest = file.rest
    BY <1>0 DEF Fields
  <2> HIDE DEF f
  <2>3. Unread(f, file, o)
    BY <1>0, <2>2, SizesAre DEF Unread
  <2> QED BY <2>1, <2>2, <2>3, HeaderChanged DEF f
<1>3. CASE AlterNonce
  <2>1. file' = [file EXCEPT !.nonce = "m"]
    BY <1>3 DEF AlterNonce, Changed
  <2> DEFINE f == [file EXCEPT !.nonce = "m"]
  <2>2. /\ DOMAIN f = Fields /\ f.wire = file.wire /\ f.slots = file.slots /\ f.layout = file.layout
        /\ f.auth = file.auth /\ f.size = file.size /\ f.chunk = file.chunk /\ f.comp = file.comp
        /\ f.kdf = file.kdf /\ f.kem = file.kem /\ f.blocks = file.blocks /\ f.rest = file.rest
    BY <1>0 DEF Fields
  <2> HIDE DEF f
  <2>3. Unread(f, file, o)
    BY <1>0, <2>2 DEF Unread
  <2> QED BY <2>1, <2>2, <2>3, HeaderChanged DEF f
<1>4. CASE AlterChunk
  <2>1. file.wire \in {"v5", "v6"} /\ \E c \in 0 .. MaxChunk + 1 : file' = [file EXCEPT !.chunk = c]
    BY <1>4 DEF AlterChunk, Changed
  <2>2. PICK c \in 0 .. MaxChunk + 1 : file' = [file EXCEPT !.chunk = c]
    BY <2>1
  <2> DEFINE f == [file EXCEPT !.chunk = c]
  <2>3. /\ DOMAIN f = Fields /\ f.wire = file.wire /\ f.slots = file.slots /\ f.layout = file.layout
        /\ f.auth = file.auth /\ f.size = file.size /\ f.chunk = c /\ f.comp = file.comp
        /\ f.kdf = file.kdf /\ f.kem = file.kem /\ f.blocks = file.blocks /\ f.rest = file.rest
    BY <1>0 DEF Fields
  <2> HIDE DEF f
  <2>4. Unread(f, file, o)
    BY <1>0, <2>1, <2>3, ChunkIs DEF Unread
  <2> QED BY <2>2, <2>3, <2>4, HeaderChanged DEF f
<1>5. CASE AlterComp
  <2>1. file.wire = "v6" /\ \E c \in {"none", "zstd", "other"} : file' = [file EXCEPT !.comp = c]
    BY <1>5 DEF AlterComp, Changed
  <2>2. PICK c \in {"none", "zstd", "other"} : file' = [file EXCEPT !.comp = c]
    BY <2>1
  <2> DEFINE f == [file EXCEPT !.comp = c]
  <2>3. /\ DOMAIN f = Fields /\ f.wire = file.wire /\ f.slots = file.slots /\ f.layout = file.layout
        /\ f.auth = file.auth /\ f.size = file.size /\ f.chunk = file.chunk
        /\ f.kdf = file.kdf /\ f.kem = file.kem /\ f.blocks = file.blocks /\ f.rest = file.rest
    BY <1>0 DEF Fields
  <2> HIDE DEF f
  <2>4. Unread(f, file, o)
    BY <1>0, <2>1, <2>3 DEF Unread
  <2> QED BY <2>2, <2>3, <2>4, HeaderChanged DEF f
<1>6. CASE AlterKdf
  <2>1. PICK x \in Factors \cup {"other"}, c \in 1 .. 2 :
           file' = [file EXCEPT !.kdf.factor = x, !.kdf.cost = c]
    BY <1>6 DEF AlterKdf, Changed
  <2> DEFINE kdf == [[file.kdf EXCEPT !.factor = x] EXCEPT !.cost = c]
             f == [file EXCEPT !.kdf = kdf]
  <2>2. file' = f
    BY <1>0, <2>1 DEF Fields
  <2>3. "cost" \in DOMAIN file.kdf => "cost" \in DOMAIN kdf /\ kdf.cost = c
    OBVIOUS
  <2> HIDE DEF kdf
  <2>4. /\ DOMAIN f = Fields /\ f.wire = file.wire /\ f.slots = file.slots /\ f.layout = file.layout
        /\ f.auth = file.auth /\ f.size = file.size /\ f.chunk = file.chunk /\ f.comp = file.comp
        /\ f.kdf = kdf /\ f.kem = file.kem /\ f.blocks = file.blocks /\ f.rest = file.rest
    BY <1>0 DEF Fields
  <2> HIDE DEF f
  <2>5. Unread(f, file, o)
    BY <1>0, <2>3, <2>4 DEF Unread
  <2> QED BY <2>2, <2>4, <2>5, HeaderChanged
<1>7. CASE AlterLock
  <2>1. PICK c \in {"quicknet", "mainnet"}, r \in 1 .. LastRound :
           file' = [file EXCEPT !.lock.chain = c, !.lock.round = r]
    BY <1>7 DEF AlterLock, Changed
  <2> DEFINE f == file'
  <2>2. /\ DOMAIN f = Fields /\ f.wire = file.wire /\ f.slots = file.slots /\ f.layout = file.layout
        /\ f.auth = file.auth /\ f.size = file.size /\ f.chunk = file.chunk /\ f.comp = file.comp
        /\ f.kdf = file.kdf /\ f.kem = file.kem /\ f.blocks = file.blocks /\ f.rest = file.rest
    BY <1>0, <2>1 DEF Fields
  <2> HIDE DEF f
  <2>3. Unread(f, file, o)
    BY <1>0, <2>2 DEF Unread
  <2> QED BY <2>2, <2>3, HeaderChanged DEF f
<1>8. CASE SwapKem
  <2>1. file' = [file EXCEPT !.kem.secret = "x"]
    BY <1>8 DEF SwapKem, Changed
  <2> DEFINE kem == [file.kem EXCEPT !.secret = "x"]
             f == [file EXCEPT !.kem = kem]
  <2>2. file' = f
    BY <1>0, <2>1 DEF Fields
  <2>3. "to" \in DOMAIN file.kem => "to" \in DOMAIN kem /\ kem.to = file.kem.to
    OBVIOUS
  <2> HIDE DEF kem
  <2>4. /\ DOMAIN f = Fields /\ f.wire = file.wire /\ f.slots = file.slots /\ f.layout = file.layout
        /\ f.auth = file.auth /\ f.size = file.size /\ f.chunk = file.chunk /\ f.comp = file.comp
        /\ f.kdf = file.kdf /\ f.kem = kem /\ f.blocks = file.blocks /\ f.rest = file.rest
    BY <1>0 DEF Fields
  <2> HIDE DEF f
  <2>5. Unread(f, file, o)
    BY <1>0, <2>3, <2>4 DEF Unread
  <2> QED BY <2>2, <2>4, <2>5, HeaderChanged
<1>9. CASE Cut
  <2>1. file.blocks # <<>> /\ \E n \in 0 .. BlockLen(Last(file.blocks)) - 1 :
                    file' = [file EXCEPT !.blocks = Front(@), !.rest = n]
    BY <1>9 DEF Cut, Changed
  <2>2. PICK n \in 0 .. BlockLen(Last(file.blocks)) - 1 :
                    file' = [file EXCEPT !.blocks = Front(@), !.rest = n]
    BY <2>1
  <2> DEFINE front == Front(file.blocks)
             f == [file EXCEPT !.blocks = front, !.rest = n]
  <2>3. file' = f
    BY <2>2
  <2>4. n \in Nat
    <3>1. Tag \in Nat
      BY SizesAssumption
    <3> QED OBVIOUS
  <2> HIDE DEF front
  <2>5. /\ DOMAIN f = Fields /\ f.wire = file.wire /\ f.slots = file.slots /\ f.layout = file.layout
        /\ f.auth = file.auth /\ f.size = file.size /\ f.chunk = file.chunk /\ f.comp = file.comp
        /\ f.kdf = file.kdf /\ f.kem = file.kem /\ f.blocks = front /\ f.rest = n
    BY <1>0 DEF Fields
  <2> HIDE DEF f
  <2>6. /\ BlocksOk(f) /\ Len(f.blocks) <= Len(file.blocks)
        /\ \A i \in 1 .. Len(f.blocks) : f.blocks[i] = file.blocks[i]
    <3>1. BlocksOk(file) /\ file.blocks # <<>> /\ f.blocks = Front(file.blocks) /\ f.rest \in Nat
      BY <1>0, <2>1, <2>4, <2>5 DEF front
    <3> QED BY <3>1, LastCut
  <2>7. /\ Len(f.blocks) <= Len(o.blocks)
        /\ \A i \in 1 .. Len(f.blocks) : f.blocks[i] = o.blocks[i]
    <3>1. Len(f.blocks) \in Nat /\ Len(file.blocks) \in Nat /\ Len(o.blocks) \in Nat
      <4>1. BlocksOk(o)
        BY JustWritten DEF ChangedFrom
      <4> QED BY <1>0, <2>6, <4>1, BlocksAre
    <3>2. Len(file.blocks) <= Len(o.blocks) /\ \A i \in 1 .. Len(file.blocks) : file.blocks[i] = o.blocks[i]
      BY DEF ChangedFrom
    <3> QED BY <2>6, <3>1, <3>2
  <2>8. ChangedFrom(f, o)
    BY <1>0, <2>5, <2>6, <2>7 DEF ChangedFrom
  <2> QED BY <2>3, <2>8
<1> QED BY <1>1, <1>2, <1>3, <1>4, <1>5, <1>6, <1>7, <1>8, <1>9 DEF Storage

LEMMA InitInv == ASSUME Init PROVE ContainersInv
BY DEF Init, ContainersInv

LEMMA StepInv == ASSUME ContainersInv, [Next]_vars PROVE ContainersInv'
<1>1. CASE Encrypt
  <2>1. WrittenAs(file', wrote') /\ faults' = faults
    BY <1>1, Encrypted
  <2>2. ChangedFrom(file', file')
    BY <2>1, JustWritten
  <2> QED BY <2>1, <2>2 DEF ContainersInv, Written
<1>2. CASE Storage
  <2>1. file # None /\ wrote' = wrote /\ faults' = faults + 1
    BY <1>2 DEF Storage, AlterVersion, AlterSize, AlterNonce, AlterChunk, AlterComp, AlterKdf, AlterLock,
                SwapKem, Cut, Changed
  <2>2. PICK o : WrittenAs(o, wrote) /\ ChangedFrom(file, o)
    BY <2>1 DEF ContainersInv, Written
  <2>3. ChangedFrom(file', o)
    BY <1>2, <2>2, Stored
  <2>4. faults' \in Nat /\ faults' # 0
    BY <2>1 DEF ContainersInv
  <2> QED BY <2>1, <2>2, <2>3, <2>4 DEF ContainersInv, Written
<1>3. CASE Publish
  BY <1>3 DEF Publish, ContainersInv, Written
<1>4. CASE UNCHANGED vars
  BY <1>4 DEF vars, ContainersInv, Written
<1> QED BY <1>1, <1>2, <1>3, <1>4 DEF Next

\* Every file is one an entry point wrote, changed by storage in no more than
\* its header's fields and its last blocks: the inductive invariant behind the
\* properties of readers.
THEOREM ContainersInvariant == Spec => []ContainersInv
BY InitInv, StepInv, PTL DEF Spec

-----------------------------------------------------------------------------
(* A text that is cut up and put together again. *)

\* What FlattenSeq puts together, up to the i-th.
Joining(s, f) == [i \in 1 .. Len(s) |-> IF i = 1 THEN s[i] ELSE f[i - 1] \o s[i]]
Joined(s)     == CHOOSE f : f = Joining(s, f)

LEMMA FlatIsJoined ==
  ASSUME NEW s, Len(s) # 0
  PROVE  FlattenSeq(s) = Joined(s)[Len(s)]
BY DEF FlattenSeq, Joined, Joining

\* There is such a function: one for the first m sequences goes on to the next.
LEMMA JoinedIs ==
  ASSUME NEW s, Len(s) \in Nat \ {0}
  PROVE  Joined(s) = Joining(s, Joined(s))
<1>1. Len(s) \in Nat \ {0}
  OBVIOUS
<1> DEFINE Upto(m) == \E f : f = [i \in 1 .. m |-> IF i = 1 THEN s[i] ELSE f[i - 1] \o s[i]]
           Not     == {m \in 1 .. Len(s) : ~Upto(m)}
<1>2. Not = {}
  <2> SUFFICES ASSUME Not # {} PROVE FALSE
    OBVIOUS
  <2>1. PICK m \in Not : \A i \in Not : m <= i
    <3> HIDE DEF Upto
    <3>1. Not \subseteq Nat
      BY <1>1
    <3> HIDE DEF Not
    <3> QED BY <3>1, LeastOf
  <2>2. m \in 1 .. Len(s) /\ ~Upto(m) /\ m \in Nat
    <3> HIDE DEF Upto
    <3> QED BY <1>1
  <2>3. CASE m = 1
    <3> DEFINE f == [i \in 1 .. 1 |-> s[i]]
    <3>1. f = [i \in 1 .. m |-> IF i = 1 THEN s[i] ELSE f[i - 1] \o s[i]]
      BY <2>3
    <3> QED BY <3>1, <2>2
  <2>4. CASE m # 1
    <3>1. m - 1 \in 1 .. Len(s) /\ m - 1 \notin Not
      <4>1. m - 1 \in 1 .. Len(s) /\ ~(m <= m - 1)
        BY <2>2, <2>4, <1>1
      <4> HIDE DEF Not
      <4> QED BY <2>1, <4>1
    <3>2. Upto(m - 1)
      <4> HIDE DEF Upto
      <4> QED BY <3>1
    <3>3. PICK f : f = [i \in 1 .. m - 1 |-> IF i = 1 THEN s[i] ELSE f[i - 1] \o s[i]]
      BY <3>2
    <3> DEFINE g == [i \in 1 .. m |-> IF i = m THEN f[m - 1] \o s[m] ELSE f[i]]
    <3>4. ASSUME NEW i \in 1 .. m PROVE g[i] = IF i = 1 THEN s[i] ELSE g[i - 1] \o s[i]
      <4>1. CASE i = m
        <5>0. m \in 1 .. m /\ m - 1 \in 1 .. m /\ m - 1 # m
          BY <2>2, <2>4
        <5>1. g[m] = f[m - 1] \o s[m] /\ g[m - 1] = f[m - 1]
          BY <5>0
        <5> HIDE DEF g
        <5> QED BY <4>1, <5>1, <2>4
      <4>2. CASE i # m
        <5>1. i \in 1 .. m - 1 /\ (i # 1 => i - 1 \in 1 .. m)
          BY <4>2, <2>2
        <5>2. g[i] = f[i] /\ (i # 1 => g[i - 1] = f[i - 1])
          BY <4>2, <5>1, <2>2
        <5>3. f[i] = IF i = 1 THEN s[i] ELSE f[i - 1] \o s[i]
          BY <3>3, <5>1
        <5> HIDE DEF g
        <5> QED BY <5>2, <5>3
      <4> QED BY <4>1, <4>2
    <3>5. g = [i \in 1 .. m |-> g[i]]
      OBVIOUS
    <3> HIDE DEF g
    <3>6. g = [i \in 1 .. m |-> IF i = 1 THEN s[i] ELSE g[i - 1] \o s[i]]
      BY <3>4, <3>5
    <3> QED BY <3>6, <2>2
  <2> QED BY <2>3, <2>4
<1>3. Upto(Len(s))
  <2> HIDE DEF Upto
  <2> QED BY <1>1, <1>2
<1>4. \E f : f = Joining(s, f)
  BY <1>3 DEF Joining
<1> QED BY <1>4 DEF Joined
LEMMA Products ==
  ASSUME NEW a \in Nat, NEW b \in Nat, NEW c \in Nat
  PROVE  /\ a * c \in Nat /\ (a < b => (a + 1) * c <= b * c) /\ (a <= b => a * c <= b * c)
         /\ (a + 1) * c = a * c + c /\ c * a = a * c
<1>1. a < b => (a + 1) * c <= b * c
  <2> SUFFICES ASSUME a < b PROVE (a + 1) * c <= b * c
    OBVIOUS
  <2>1. b - (a + 1) \in Nat
    OBVIOUS
  <2>2. (b - (a + 1)) * c \in Nat
    BY <2>1
  <2> QED BY <2>2
<1>2. a <= b => a * c <= b * c
  <2> SUFFICES ASSUME a <= b PROVE a * c <= b * c
    OBVIOUS
  <2>1. b - a \in Nat
    OBVIOUS
  <2>2. (b - a) * c \in Nat
    BY <2>1
  <2> QED BY <2>2
<1> QED BY <1>1, <1>2

\* How many pieces there are.
LEMMA CountIs ==
  ASSUME NEW text \in Seq(Int), NEW c \in Nat \ {0}
  PROVE  LET n == CountOf(text, c) IN
         /\ n \in Nat \ {0} /\ (n - 1) * c \in Nat /\ n * c \in Nat /\ n * c = (n - 1) * c + c
         /\ (n - 1) * c <= Len(text) /\ Len(text) <= n * c /\ Len(text) \in Nat
         /\ n # 1 => (n - 1) * c < Len(text)
<1> DEFINE n == CountOf(text, c)
           l == Len(text)
<1>1. l \in Nat
  BY LenProperties
<1>2. CASE text = <<>>
  <2>1. n = 1 /\ l = 0
    BY <1>2 DEF CountOf
  <2> HIDE DEF n, l
  <2> QED BY <2>1 DEF n, l
<1>3. CASE text # <<>>
  <2>1. l # 0
    BY <1>3, EmptySeq
  <2>2. n = (l + c - 1) \div c
    BY <1>3 DEF CountOf, CeilDiv
  <2> DEFINE r == (l + c - 1) % c
  <2> HIDE DEF n, l
  <2>3. n \in Nat /\ r \in 0 .. c - 1 /\ l + c - 1 = c * n + r
    <3> DEFINE a == l + c - 1
    <3>1. a \in Nat /\ n = a \div c /\ r = a % c
      BY <1>1, <2>2
    <3> HIDE DEF a, r
    <3>2. n \in Nat /\ r \in 0 .. c - 1 /\ a = c * n + r
      BY <3>1
    <3> QED BY <3>2 DEF a
  <2> HIDE DEF r
  <2>4. n # 0
    <3> SUFFICES ASSUME n = 0 PROVE FALSE
      OBVIOUS
    <3>1. c * n = 0
      OBVIOUS
    <3> QED BY <1>1, <2>1, <2>3, <3>1
  <2>5. c * n = n * c /\ n - 1 \in Nat /\ n = (n - 1) + 1
    BY <2>3, <2>4
  <2>6. n * c = (n - 1) * c + c /\ (n - 1) * c \in Nat /\ n * c \in Nat
    BY <2>5, <2>3, Products
  <2> DEFINE p == (n - 1) * c
             q == n * c
  <2>7. l + c - 1 = q + r /\ q = p + c /\ p \in Nat /\ q \in Nat
    BY <2>3, <2>5, <2>6
  <2> HIDE DEF p, q
  <2>8. p < l /\ l <= q
    BY <1>1, <2>3, <2>7
  <2> QED BY <1>1, <2>3, <2>4, <2>6, <2>7, <2>8 DEF n, l, p, q
<1> QED BY <1>2, <1>3

\* Where the i-th piece begins and ends.
LEMMA PieceIs ==
  ASSUME NEW text \in Seq(Int), NEW c \in Nat \ {0}, NEW i \in 1 .. CountOf(text, c)
  PROVE  LET from == (i - 1) * c
             to   == Least(i * c, Len(text)) IN
         /\ from \in 0 .. Len(text) /\ to \in from .. Len(text) /\ i * c = from + c
         /\ i # CountOf(text, c) => to = i * c
         /\ i = CountOf(text, c) => to = Len(text)
         /\ PieceOf(text, c, i) \in Seq(Int) /\ Len(PieceOf(text, c, i)) = to - from
         /\ \A j \in 1 .. to - from : PieceOf(text, c, i)[j] = text[from + j]
<1> DEFINE n    == CountOf(text, c)
           from == (i - 1) * c
           to   == Least(i * c, Len(text))
           l    == Len(text)
           all  == n * c
           most == (n - 1) * c
<1>1. n \in Nat \ {0} /\ all \in Nat /\ most <= l /\ l <= all /\ l \in Nat /\ most \in Nat
  BY CountIs
<1>2. i \in Nat /\ i - 1 \in Nat /\ i <= n
  BY <1>1
<1>3. from \in Nat /\ i * c = from + c /\ i * c \in Nat
  <2>1. i = (i - 1) + 1
    BY <1>2
  <2> QED BY <1>2, <2>1, Products
<1>4. i # n => i * c <= most
  <2>1. i # n => i <= n - 1 /\ n - 1 \in Nat
    BY <1>1, <1>2
  <2> QED BY <1>2, <2>1, Products
<1>5. i = n => from = most /\ i * c = all
  OBVIOUS
<1> DEFINE end == i * c
<1>6. end = from + c /\ (i # n => end <= most) /\ (i = n => from = most /\ end = all) /\ from \in Nat
      /\ to = Least(end, l)
  BY <1>3, <1>4, <1>5
<1> HIDE DEF n, l, all, most, from, to, end
<1>7. from \in 0 .. l /\ to \in from .. l /\ (i # n => to = end) /\ (i = n => to = l)
  BY <1>1, <1>6 DEF Least
<1>8. /\ PieceOf(text, c, i) \in Seq(Int) /\ Len(PieceOf(text, c, i)) = to - from
      /\ \A j \in 1 .. to - from : PieceOf(text, c, i)[j] = text[from + j]
  <2>1. PieceOf(text, c, i) = SubSeq(text, from + 1, to)
    BY DEF PieceOf, from, to
  <2>2. \A j \in from + 1 .. to : text[j] \in Int
    <3>1. \A j \in from + 1 .. to : j \in 1 .. Len(text)
      BY <1>1, <1>7 DEF l
    <3> QED BY <3>1, ElementOfSeq
  <2>3. from + 1 \in Int /\ to \in Int
    BY <1>1, <1>7
  <2> DEFINE s == SubSeq(text, from + 1, to)
  <2>4. /\ s \in Seq(Int) /\ Len(s) = IF from + 1 <= to THEN to - (from + 1) + 1 ELSE 0
        /\ \A j \in 1 .. to - (from + 1) + 1 : s[j] = text[from + 1 + j - 1]
    BY <2>2, <2>3, SubSeqProperties
  <2> HIDE DEF s
  <2>5. Len(s) = to - from
    BY <1>1, <1>7, <2>4
  <2>6. \A j \in 1 .. to - from : j \in 1 .. to - (from + 1) + 1 /\ from + 1 + j - 1 = from + j
    BY <1>1, <1>7
  <2> QED BY <2>1, <2>4, <2>5, <2>6 DEF s
<1> QED BY <1>3, <1>7, <1>8 DEF n, l, from, to, end

\* The first k pieces, one after another, are a beginning of the text, and all of them
\* are the text.
LEMMA PutTogether ==
  ASSUME NEW text \in Seq(Int), NEW c \in Nat \ {0}, NEW k \in 0 .. CountOf(text, c),
         NEW s, s = [i \in 1 .. k |-> PieceOf(text, c, i)]
  PROVE  /\ FlattenSeq(s) = SubSeq(text, 1, Least(k * c, Len(text)))
         /\ k = CountOf(text, c) => FlattenSeq(s) = text
<1> DEFINE n == CountOf(text, c)
           Upto(i) == SubSeq(text, 1, Least(i * c, Len(text)))
<1>0. Len(text) \in Nat /\ n \in Nat \ {0} /\ n * c \in Nat /\ Len(text) <= n * c
  BY CountIs
<1>1. Len(s) = k /\ k \in Nat /\ k <= n
  <2>1. k \in Nat /\ k <= n
    BY <1>0
  <2>2. s \in Seq({s[i] : i \in 1 .. k}) /\ DOMAIN s = 1 .. k
    <3>1. DOMAIN s = 1 .. k
      OBVIOUS
    <3> DEFINE S == {s[i] : i \in 1 .. k}
    <3>2. \A i \in 1 .. k : s[i] \in S
      OBVIOUS
    <3>3. s = [i \in 1 .. k |-> s[i]]
      OBVIOUS
    <3> HIDE DEF S
    <3>4. [i \in 1 .. k |-> s[i]] \in Seq(S)
      BY <2>1, <3>2, IsASeq
    <3> QED BY <3>1, <3>3, <3>4 DEF S
  <2>3. Len(s) \in Nat /\ DOMAIN s = 1 .. Len(s)
    BY <2>2, LenProperties
  <2> QED BY <2>1, <2>2, <2>3, SameInterval
<1>2. FlattenSeq(s) = Upto(k)
  <2>1. CASE k = 0
    <3>1. s = <<>>
      BY <2>1
    <3>2. FlattenSeq(s) = <<>>
      BY <3>1 DEF FlattenSeq
    <3>3. Least(k * c, Len(text)) = 0
      <4>1. k * c = 0
        BY <2>1
      <4> QED BY <1>0, <4>1 DEF Least
    <3>4. SubSeq(text, 1, 0) = <<>>
      BY SubSeqEmpty
    <3> QED BY <3>2, <3>3, <3>4
  <2>2. CASE k # 0
    <3> DEFINE g   == Joined(s)
               bad == {i \in 1 .. k : g[i] # Upto(i)}
    <3>1. FlattenSeq(s) = g[k]
      BY <1>1, <2>2, FlatIsJoined
    <3>2. g = Joining(s, g)
      BY <1>1, <2>2, JoinedIs
    <3> HIDE DEF g
    <3>3. bad = {}
      <4> SUFFICES ASSUME bad # {} PROVE FALSE
        OBVIOUS
      <4>1. PICK i \in bad : \A j \in bad : i <= j
        <5>1. bad \subseteq Nat
          BY <1>1
        <5> HIDE DEF bad
        <5> QED BY <5>1, LeastOf
      <4>2. i \in 1 .. k /\ g[i] # Upto(i) /\ i \in Nat /\ i \in 1 .. n
        <5>1. i \in 1 .. k /\ g[i] # Upto(i)
          OBVIOUS
        <5> HIDE DEF n, Upto, bad
        <5> QED BY <5>1, <1>0, <1>1
      <4>3. g[i] = IF i = 1 THEN s[i] ELSE g[i - 1] \o s[i]
        <5> HIDE DEF Upto
        <5> QED BY <1>1, <3>2, <4>2 DEF Joining
      <4>4. s[i] = PieceOf(text, c, i)
        BY <4>2
      <4>5. CASE i = 1
        <5>1. (i - 1) * c + 1 = 1
          BY <4>5
        <5>2. PieceOf(text, c, i) = Upto(i)
          BY <5>1 DEF PieceOf
        <5> HIDE DEF Upto, n, bad
        <5> QED BY <4>2, <4>3, <4>4, <4>5, <5>2
      <4>6. CASE i # 1
        <5> DEFINE from == (i - 1) * c
                   to   == Least(i * c, Len(text))
        <5>1. i - 1 \in 1 .. k /\ i - 1 \in 1 .. n /\ i - 1 # n /\ ~(i <= i - 1)
          <6> HIDE DEF n, Upto, bad
          <6> QED BY <1>0, <1>1, <4>2, <4>6
        <5>2. g[i - 1] = Upto(i - 1)
          <6>1. i - 1 \notin bad
            <7> HIDE DEF bad
            <7> QED BY <4>1, <5>1
          <6> HIDE DEF Upto
          <6> QED BY <5>1, <6>1
        <5>3. Upto(i - 1) = SubSeq(text, 1, from)
          <6>1. Least((i - 1) * c, Len(text)) = (i - 1) * c
            BY <5>1, PieceIs
          <6> QED BY <6>1
        <5>4. from \in 0 .. Len(text) /\ to \in from .. Len(text)
          BY <4>2, PieceIs
        <5>5. PieceOf(text, c, i) = SubSeq(text, from + 1, to)
          BY DEF PieceOf
        <5> HIDE DEF from, to
        <5>6. SubSeq(text, 1, from) \o SubSeq(text, from + 1, to) = SubSeq(text, 1, to)
          <6>1. 1 \in 1 .. Len(text) + 1 /\ from \in 1 - 1 .. Len(text) /\ to \in from .. Len(text)
            BY <1>0, <5>4
          <6> QED BY <6>1, ConcatAdjacentSubSeq
        <5>7. g[i] = SubSeq(text, 1, to)
          <6> HIDE DEF Upto, bad, n
          <6> QED BY <4>3, <4>4, <4>6, <5>2, <5>3, <5>5, <5>6
        <5> QED BY <4>2, <5>7 DEF to
      <4> QED BY <4>5, <4>6
    <3>4. g[k] = Upto(k)
      <4>1. k \in 1 .. k
        BY <1>1, <2>2
      <4> HIDE DEF Upto
      <4> QED BY <3>3, <4>1
    <3> QED BY <3>1, <3>4
  <2> QED BY <2>1, <2>2
<1>3. k = n => Least(k * c, Len(text)) = Len(text)
  <2> SUFFICES ASSUME k = n PROVE Least(k * c, Len(text)) = Len(text)
    OBVIOUS
  <2> DEFINE all == n * c
  <2>1. all \in Nat /\ Len(text) <= all /\ k * c = all
    BY <1>0
  <2> HIDE DEF all
  <2> QED BY <1>0, <2>1 DEF Least
<1> QED BY <1>2, <1>3, SubSeqFull

-----------------------------------------------------------------------------
(* Opening one block after another. *)

LEMMA GreatestOf ==
  ASSUME NEW n \in Nat, NEW s, s \subseteq 0 .. n, s # {}
  PROVE  \E i \in s : \A j \in s : j <= i
<1> DEFINE below == {n - i : i \in s}
<1>1. below \subseteq Nat /\ below # {}
  <2>1. PICK i \in s : TRUE
    OBVIOUS
  <2>2. n - i \in below
    OBVIOUS
  <2>3. \A m \in s : n - m \in Nat
    OBVIOUS
  <2> QED BY <2>2, <2>3
<1>2. PICK d \in below : \A e \in below : d <= e
  <2> HIDE DEF below
  <2> QED BY <1>1, LeastOf
<1>3. PICK i \in s : d = n - i
  OBVIOUS
<1>4. ASSUME NEW j \in s PROVE j <= i
  <2>1. n - j \in below
    OBVIOUS
  <2>2. d <= n - j
    <3> HIDE DEF below
    <3> QED BY <1>2, <2>1
  <2> QED BY <1>3, <2>2
<1> QED BY <1>4

\* The number of blocks a length is taken for.
LEMMA BlocksCounted ==
  ASSUME NEW f, BlocksOk(f), NEW c \in Nat
  PROVE  CeilDiv(RegionLen(f), c + Tag) \in Nat
<1>1. RegionLen(f) \in Nat
  BY RegionBounds
<1>2. c + Tag \in Nat \ {0}
  BY SizesAssumption
<1> QED BY <1>1, <1>2, ChunkCount

\* The run ends at the first block that does not open.
LEMMA OpenRun ==
  ASSUME NEW f, BlocksOk(f), NEW key, NEW c \in Nat
  PROVE  LET n == CeilDiv(RegionLen(f), c + Tag)
             Opens(i) == OpensAs(f, i, n, key, c, Commitment(f, key)) IN
         /\ n \in Nat
         /\ \E k \in 0 .. n :
              /\ \A i \in 1 .. k : Opens(i)
              /\ (\A i \in 1 .. n : Opens(i)) => k = n
              /\ OpenChunks(f, key, c) =
                   [ok |-> n > 0 /\ k = n, text |-> FlattenSeq([i \in 1 .. k |-> f.blocks[i].data])]
<1> DEFINE n == CeilDiv(RegionLen(f), c + Tag)
           Opens(i) == OpensAs(f, i, n, key, c, Commitment(f, key))
           open == {i \in 0 .. n : \A j \in 1 .. i : Opens(j)}
           k == CHOOSE i \in open : \A j \in open : j <= i
<1>1. n \in Nat
  BY BlocksCounted
<1>2. OpenChunks(f, key, c) =
        [ok |-> n > 0 /\ k = n, text |-> FlattenSeq([i \in 1 .. k |-> f.blocks[i].data])]
  BY DEF OpenChunks
<1> HIDE DEF n, Opens
<1>3. 0 \in open /\ open \subseteq 0 .. n
  BY <1>1
<1>4. k \in open /\ \A j \in open : j <= k
  <2> HIDE DEF open
  <2>1. \E i \in open : \A j \in open : j <= i
    BY <1>1, <1>3, GreatestOf
  <2> QED BY <2>1
<1>5. (\A i \in 1 .. n : Opens(i)) => k = n
  <2> SUFFICES ASSUME \A i \in 1 .. n : Opens(i) PROVE k = n
    OBVIOUS
  <2>1. n \in open
    BY <1>1
  <2> HIDE DEF k, open
  <2> QED BY <1>1, <1>3, <1>4, <2>1
<1>6. k \in 0 .. n /\ \A i \in 1 .. k : Opens(i)
  <2>1. k \in open
    BY <1>4
  <2> HIDE DEF k
  <2> QED BY <2>1
<1> HIDE DEF k, open
<1> QED BY <1>1, <1>2, <1>5, <1>6 DEF n, Opens

\* The blocks of a file that is not one block as a whole.
LEMMA Chunks ==
  ASSUME NEW f, NEW o, NEW w, WrittenAs(o, w), ChangedFrom(f, o), w.layout # "v2"
  PROVE  LET K == SealedUnder(o, w) S == SealedText(w) N == CountOf(S, o.chunk) IN
         /\ o.chunk \in Nat \ {0} /\ S \in Seq(Int) /\ N \in Nat \ {0}
         /\ Len(o.blocks) = N /\ Len(f.blocks) \in Nat /\ Len(f.blocks) <= N
         /\ \A i \in 1 .. N :
              o.blocks[i] = Block(o, K, i - 1, i = N, Commitment(o, K), PieceOf(S, o.chunk, i))
         /\ \A i \in 1 .. Len(f.blocks) : /\ i \in 1 .. N /\ f.blocks[i] = o.blocks[i]
                                          /\ f.blocks[i].data = PieceOf(S, o.chunk, i)
<1> DEFINE K == SealedUnder(o, w)
           S == SealedText(w)
           N == CountOf(S, o.chunk)
<1>1. o.chunk \in Nat \ {0} /\ S \in Seq(Int)
  BY TextSealed, SizesAssumption DEF WrittenAs, HeaderFor
<1>2. o.blocks = SealChunks(o, K, S) /\ o.rest = 0
  BY DEF WrittenAs, HeaderFor, BlocksOf
<1>3. /\ Len(o.blocks) = N
      /\ \A i \in 1 .. N :
            o.blocks[i] = Block(o, K, i - 1, i = N, Commitment(o, K), PieceOf(S, o.chunk, i))
  <2> HIDE DEF K, S
  <2> QED BY <1>1, <1>2, SealedChunksAre
<1>4. N \in Nat \ {0}
  <2> HIDE DEF S
  <2> QED BY <1>1, CountIs
<1>5. Len(f.blocks) \in Nat /\ Len(f.blocks) <= N /\ \A i \in 1 .. Len(f.blocks) : f.blocks[i] = o.blocks[i]
  BY <1>3, BlocksAre DEF ChangedFrom
<1> HIDE DEF K, S, N
<1>6. ASSUME NEW i \in 1 .. Len(f.blocks)
      PROVE  i \in 1 .. N /\ f.blocks[i].data = PieceOf(S, o.chunk, i)
  <2>1. i \in 1 .. N
    BY <1>4, <1>5
  <2>2. f.blocks[i] = Block(o, K, i - 1, i = N, Commitment(o, K), PieceOf(S, o.chunk, i))
    BY <1>3, <1>5, <2>1
  <2>3. f.blocks[i].data = PieceOf(S, o.chunk, i)
    BY <2>2, BlockIs
  <2> QED BY <2>1, <2>3
<1> QED BY <1>1, <1>3, <1>4, <1>5, <1>6 DEF K, S, N

\* A block opens under what it was sealed under.
LEMMA OpensUnder ==
  ASSUME NEW f, NEW i \in Nat, NEW n, NEW key, NEW c, NEW bound, OpensAs(f, i, n, key, c, bound)
  PROVE  LET b == f.blocks[i] IN
         /\ i <= Len(f.blocks) /\ b.key = key /\ b.nonce = f.nonce /\ b.last = (i = n)
         /\ i = 1 => b.bound = bound
<1> DEFINE d == f.blocks[i].data
<1>1. i <= Len(f.blocks) /\ f.blocks[i] = [Block(f, key, i - 1, i = n, bound, <<>>) EXCEPT !.data = d]
  BY DEF OpensAs
<1> HIDE DEF d
<1> QED BY <1>1 DEF Block

\* What was read is what was written.
Committed(f, o, w, key) ==
  /\ key = SealedUnder(o, w) /\ f.nonce = o.nonce
  /\ Commitment(f, key) = Commitment(o, SealedUnder(o, w))

\* A reading of a file's chunks: a beginning of what was sealed, and all of it
\* when it ends well.
Reads(f, o, w, key, r) ==
  /\ r.ok \in BOOLEAN
  /\ \E m \in 0 .. Len(SealedText(w)) : r.text = SubSeq(SealedText(w), 1, m)
  /\ r.text = <<>> \/ (w.layout # "v2" /\ Committed(f, o, w, key))
  /\ r.ok => w.layout # "v2" /\ Committed(f, o, w, key) /\ r.text = SealedText(w)

LEMMA NothingRead ==
  ASSUME NEW f, NEW o, NEW w, WrittenAs(o, w), NEW key, NEW r, r.ok = FALSE, r.text = <<>>
  PROVE  Reads(f, o, w, key, r)
<1>1. SealedText(w) \in Seq(Int)
  BY TextSealed DEF WrittenAs, HeaderFor
<1>2. Len(SealedText(w)) \in Nat
  BY <1>1, LenProperties
<1>3. SubSeq(SealedText(w), 1, 0) = <<>>
  BY SubSeqEmpty
<1>4. 0 \in 0 .. Len(SealedText(w))
  BY <1>2
<1> QED BY <1>3, <1>4 DEF Reads

\* The header bytes of the oldest layout are no commitment.
LEMMA OtherBound ==
  ASSUME NEW f, NEW key, NEW o
  PROVE  Commitment(f, key) # HeaderBytes(o)
BY DEF Commitment, HeaderBytes

LEMMA WholeIs ==
  ASSUME NEW f, NEW o, NEW w, WrittenAs(o, w), ChangedFrom(f, o), w.layout = "v2"
  PROVE  /\ Len(f.blocks) \in Nat /\ Len(f.blocks) <= 1
         /\ \A i \in 1 .. Len(f.blocks) :
              i = 1 /\ f.blocks[1] = Block(o, "s", 0, TRUE, HeaderBytes(o), w.text)
<1> DEFINE b == Block(o, "s", 0, TRUE, HeaderBytes(o), w.text)
<1>1. o.blocks = <<b>>
  BY DEF WrittenAs, BlocksOf
<1> HIDE DEF b
<1>2. Len(o.blocks) = 1 /\ o.blocks[1] = b
  BY <1>1
<1>3. Len(f.blocks) \in Nat /\ Len(f.blocks) <= 1 /\ \A i \in 1 .. Len(f.blocks) : f.blocks[i] = o.blocks[i]
  BY <1>2, BlocksAre DEF ChangedFrom
<1>4. \A i \in 1 .. Len(f.blocks) : i = 1
  BY <1>3
<1> QED BY <1>2, <1>3, <1>4 DEF b

LEMMA OpenChunksReads ==
  ASSUME NEW f, NEW o, NEW w, WrittenAs(o, w), ChangedFrom(f, o), NEW key, NEW c \in Nat
  PROVE  Reads(f, o, w, key, OpenChunks(f, key, c))
<1> DEFINE n == CeilDiv(RegionLen(f), c + Tag)
           bound == Commitment(f, key)
           r == OpenChunks(f, key, c)
<1>1. BlocksOk(f)
  BY DEF ChangedFrom
<1>2. n \in Nat
  BY <1>1, BlocksCounted
<1>3. PICK k \in 0 .. n :
        /\ \A i \in 1 .. k : OpensAs(f, i, n, key, c, bound)
        /\ r = [ok |-> n > 0 /\ k = n, text |-> FlattenSeq([i \in 1 .. k |-> f.blocks[i].data])]
  <2> HIDE DEF r
  <2> QED BY <1>1, OpenRun DEF r
<1> DEFINE pieces == [i \in 1 .. k |-> f.blocks[i].data]
<1>4. r.ok = (n > 0 /\ k = n) /\ r.text = FlattenSeq(pieces)
  <2> HIDE DEF r
  <2> QED BY <1>3
<1> HIDE DEF r, n, bound
<1>5. CASE k = 0
  <2>1. pieces = <<>>
    BY <1>5
  <2>2. FlattenSeq(pieces) = <<>>
    BY <2>1 DEF FlattenSeq
  <2>3. r.ok = FALSE /\ r.text = <<>>
    <3> HIDE DEF pieces
    <3>1. (n > 0 /\ k = n) = FALSE
      BY <1>2, <1>5
    <3> QED BY <1>4, <2>2, <3>1
  <2> QED BY <2>3, NothingRead DEF r
<1>6. CASE k # 0
  <2>0. k \in Nat /\ 1 \in 1 .. k /\ k \in 1 .. k
    BY <1>2, <1>6
  <2>1. \A i \in 1 .. k : LET b == f.blocks[i] IN
          /\ i <= Len(f.blocks) /\ b.key = key /\ b.nonce = f.nonce /\ b.last = (i = n)
          /\ i = 1 => b.bound = bound
    <3> SUFFICES ASSUME NEW i \in 1 .. k
                 PROVE  LET b == f.blocks[i] IN
                        /\ i <= Len(f.blocks) /\ b.key = key /\ b.nonce = f.nonce /\ b.last = (i = n)
                        /\ i = 1 => b.bound = bound
      OBVIOUS
    <3>1. OpensAs(f, i, n, key, c, bound) /\ i \in Nat
      BY <1>3, <2>0
    <3> QED BY <3>1, OpensUnder
  <2>2. w.layout # "v2"
    <3> SUFFICES ASSUME w.layout = "v2" PROVE FALSE
      OBVIOUS
    <3>1. f.blocks[1] = Block(o, "s", 0, TRUE, HeaderBytes(o), w.text)
      <4>1. 1 \in 1 .. Len(f.blocks)
        BY <2>0, <2>1, WholeIs
      <4> QED BY <4>1, WholeIs
    <3>2. f.blocks[1].bound = HeaderBytes(o)
      BY <3>1 DEF Block
    <3>3. f.blocks[1].bound = bound
      BY <2>0, <2>1
    <3> QED BY <3>2, <3>3, OtherBound DEF bound
  <2> DEFINE K == SealedUnder(o, w)
             S == SealedText(w)
             N == CountOf(S, o.chunk)
  <2>3. /\ o.chunk \in Nat \ {0} /\ S \in Seq(Int) /\ N \in Nat \ {0} /\ Len(f.blocks) \in Nat
        /\ Len(f.blocks) <= N
        /\ \A i \in 1 .. N :
             o.blocks[i] = Block(o, K, i - 1, i = N, Commitment(o, K), PieceOf(S, o.chunk, i))
        /\ \A i \in 1 .. Len(f.blocks) : /\ i \in 1 .. N /\ f.blocks[i] = o.blocks[i]
                                         /\ f.blocks[i].data = PieceOf(S, o.chunk, i)
    BY <2>2, Chunks
  <2> HIDE DEF K, S, N
  <2>4. k <= Len(f.blocks) /\ k \in 0 .. N /\ \A i \in 1 .. k : i \in 1 .. Len(f.blocks)
    BY <2>0, <2>1, <2>3
  <2>5. key = K /\ f.nonce = o.nonce /\ bound = Commitment(o, K)
    <3>1. f.blocks[1] = Block(o, K, 0, 1 = N, Commitment(o, K), PieceOf(S, o.chunk, 1))
      <4>1. 1 \in 1 .. Len(f.blocks) /\ 1 \in 1 .. N
        BY <2>0, <2>3, <2>4
      <4>2. o.blocks[1] = Block(o, K, 1 - 1, 1 = N, Commitment(o, K), PieceOf(S, o.chunk, 1))
        BY <2>3, <4>1
      <4> QED BY <2>3, <4>1, <4>2
    <3>2. f.blocks[1].key = K /\ f.blocks[1].nonce = o.nonce /\ f.blocks[1].bound = Commitment(o, K)
      BY <3>1 DEF Block
    <3>3. f.blocks[1].key = key /\ f.blocks[1].nonce = f.nonce /\ f.blocks[1].bound = bound
      BY <2>0, <2>1
    <3> QED BY <3>2, <3>3
  <2>6. Committed(f, o, w, key)
    BY <2>5 DEF Committed, K, bound
  <2>7. pieces = [i \in 1 .. k |-> PieceOf(S, o.chunk, i)]
    BY <2>3, <2>4
  <2> DEFINE m == Least(k * o.chunk, Len(S))
  <2>8. r.text = SubSeq(S, 1, m) /\ (k = N => r.text = S)
    <3> HIDE DEF pieces
    <3>1. k \in 0 .. CountOf(S, o.chunk)
      BY <2>4 DEF N
    <3> DEFINE cc == o.chunk
    <3>2. /\ cc \in Nat \ {0} /\ k \in 0 .. CountOf(S, cc) /\ pieces = [i \in 1 .. k |-> PieceOf(S, cc, i)]
          /\ S \in Seq(Int)
      BY <2>3, <2>7, <3>1
    <3> HIDE DEF cc
    <3>3. /\ FlattenSeq(pieces) = SubSeq(S, 1, Least(k * cc, Len(S)))
          /\ k = CountOf(S, cc) => FlattenSeq(pieces) = S
      BY <3>2, PutTogether
    <3> QED BY <1>4, <3>3 DEF N, cc
  <2>9. m \in 0 .. Len(S)
    <3>1. Len(S) \in Nat /\ k * o.chunk \in Nat
      BY <2>0, <2>3, Products, LenProperties
    <3> HIDE DEF S
    <3> QED BY <3>1 DEF Least
  <2>10. r.ok => k = N
    <3> SUFFICES ASSUME r.ok PROVE k = N
      OBVIOUS
    <3>1. k = n /\ k \in 1 .. Len(f.blocks) /\ k \in 1 .. N
      BY <1>4, <2>0, <2>3, <2>4
    <3>2. f.blocks[k] = Block(o, K, k - 1, k = N, Commitment(o, K), PieceOf(S, o.chunk, k))
      BY <2>3, <3>1
    <3>3. f.blocks[k].last = (k = N)
      BY <3>2 DEF Block
    <3>4. f.blocks[k].last = (k = n)
      BY <2>0, <2>1
    <3> QED BY <3>1, <3>3, <3>4
  <2>11. r.ok \in BOOLEAN
    BY <1>4
  <2> HIDE DEF m
  <2>12. Reads(f, o, w, key, r)
    BY <2>2, <2>6, <2>8, <2>9, <2>10, <2>11 DEF Reads, S
  <2> QED BY <2>12 DEF r
<1> QED BY <1>5, <1>6

\* A reading of a file that is one block.
ReadsWhole(f, o, w, key, r) ==
  \/ r = Refused
  \/ /\ w.layout = "v2" /\ key = "s" /\ r = [ok |-> TRUE, text |-> w.text]
     /\ HeaderBytes(f) = HeaderBytes(o)

LEMMA OpenWholeReads ==
  ASSUME NEW f, NEW o, NEW w, WrittenAs(o, w), ChangedFrom(f, o), NEW key
  PROVE  ReadsWhole(f, o, w, key, OpenWhole(f, key))
<1> DEFINE Opens == /\ f.rest = 0 /\ Len(f.blocks) = 1
                    /\ f.blocks[1] = Block(f, key, 0, TRUE, HeaderBytes(f), f.blocks[1].data)
<1>1. OpenWhole(f, key) = IF Opens THEN [ok |-> TRUE, text |-> f.blocks[1].data] ELSE Refused
  BY DEF OpenWhole
<1>2. CASE ~Opens
  BY <1>1, <1>2 DEF ReadsWhole
<1>3. CASE Opens
  <2>1. 1 \in 1 .. Len(f.blocks)
    BY <1>3
  <2>2. f.blocks[1].key = key /\ f.blocks[1].bound = HeaderBytes(f)
    <3> DEFINE d == f.blocks[1].data
    <3>1. f.blocks[1] = Block(f, key, 0, TRUE, HeaderBytes(f), d)
      BY <1>3
    <3> HIDE DEF d
    <3> QED BY <3>1 DEF Block
  <2>3. w.layout = "v2"
    <3> SUFFICES ASSUME w.layout # "v2" PROVE FALSE
      OBVIOUS
    <3> DEFINE K == SealedUnder(o, w)
               S == SealedText(w)
               N == CountOf(S, o.chunk)
    <3>1. 1 \in 1 .. N /\ f.blocks[1] = o.blocks[1]
          /\ o.blocks[1] = Block(o, K, 1 - 1, 1 = N, Commitment(o, K), PieceOf(S, o.chunk, 1))
      BY <2>1, Chunks
    <3> HIDE DEF K, S, N
    <3>2. f.blocks[1].bound = Commitment(o, K)
      BY <3>1 DEF Block
    <3> QED BY <2>2, <3>2, OtherBound
  <2>4. f.blocks[1] = Block(o, "s", 0, TRUE, HeaderBytes(o), w.text)
    BY <2>1, <2>3, WholeIs
  <2>5. f.blocks[1].key = "s" /\ f.blocks[1].bound = HeaderBytes(o) /\ f.blocks[1].data = w.text
    BY <2>4 DEF Block
  <2> QED BY <1>1, <1>3, <2>2, <2>3, <2>5 DEF ReadsWhole
<1> QED BY <1>2, <1>3

-----------------------------------------------------------------------------
(* What each entry point may come to. *)

\* Layouts of one shape.
LEMMA SameShape ==
  ASSUME NEW l \in Layouts, NEW m \in Layouts, NEW s, Shape(l, s) = Shape(m, s)
  PROVE  /\ l \in {"v2", "v3"} <=> m \in {"v2", "v3"}
         /\ (l = "v5" <=> m = "v5") /\ (l = "v6" <=> m = "v6") /\ (l = "v10" <=> m = "v10")
         /\ (l = "tlock" <=> m = "tlock")
         /\ l \in Slotted <=> m \in Slotted
         /\ l \in {"v8", "v9"} <=> m \in {"v8", "v9"}
<1> DEFINE all == \A i \in DOMAIN s : s[i].variant = "1024"
<1>1. /\ Shape(l, s) = CASE l \in {"v2", "v3"} -> "single" [] l \in {"v8", "v9"} -> "blind"
                         [] l \in {"v4", "v7"} /\ all -> "slots" [] OTHER -> l
      /\ Shape(m, s) = CASE m \in {"v2", "v3"} -> "single" [] m \in {"v8", "v9"} -> "blind"
                         [] m \in {"v4", "v7"} /\ all -> "slots" [] OTHER -> m
  BY DEF Shape
<1> HIDE DEF all
<1> QED BY <1>1 DEF Layouts, Chunked, Slotted

LEMMA NoStealthShape == ASSUME NEW l \in Layouts, NEW s PROVE Shape(l, s) # "stealth"
BY DEF Shape, Layouts, Chunked, Slotted

\* What a header and one it was written as have in common if their commitments are the same.
LEMMA CommitmentSays ==
  ASSUME NEW f, NEW o, NEW k, NEW l, f.auth \in BOOLEAN, o.auth \in BOOLEAN,
         Commitment(f, k) = Commitment(o, l)
  PROVE  /\ f.size = o.size /\ (f.layout = "tlock" <=> o.layout = "tlock")
         /\ f.layout = "tlock" => f.lock.chain = o.lock.chain /\ f.lock.round = o.lock.round
         /\ f.layout # "tlock" => (f.auth <=> o.auth)
         /\ f.layout # "tlock" /\ f.auth => f.chunk = o.chunk /\ f.comp = o.comp /\ f.kdf = o.kdf
<1> USE DEF Commitment, Authenticated
<1>1. CASE f.layout = "tlock"
  <2>1. CASE o.layout = "tlock"
    BY <1>1, <2>1
  <2>2. CASE o.layout # "tlock"
    BY <1>1, <2>2
  <2> QED BY <2>1, <2>2
<1>2. CASE f.layout # "tlock" /\ f.auth
  <2>1. CASE o.layout = "tlock"
    BY <1>2, <2>1
  <2>2. CASE o.layout # "tlock" /\ o.auth
    BY <1>2, <2>2
  <2>3. CASE o.layout # "tlock" /\ ~o.auth
    BY <1>2, <2>3
  <2> QED BY <2>1, <2>2, <2>3
<1>3. CASE f.layout # "tlock" /\ ~f.auth
  <2>1. CASE o.layout = "tlock"
    BY <1>3, <2>1
  <2>2. CASE o.layout # "tlock" /\ o.auth
    BY <1>3, <2>2
  <2>3. CASE o.layout # "tlock" /\ ~o.auth
    BY <1>3, <2>3
  <2> QED BY <2>1, <2>2, <2>3
<1> QED BY <1>1, <1>2, <1>3

\* What an entry point that takes a private key may come to.
KeyReads(f, k, by, g) ==
  \/ g = Refused
  \/ /\ ReadBody(f) /\ ~NoSuchVersion(f)
     /\ \/ f.layout \in {"v2", "v6"} /\ g = OpenWhole(f, SingleKey(f, k))
        \/ by # "bytes" /\ f.layout \in Chunked /\ g = OpenChunks(f, SingleKey(f, k), f.chunk)
        \/ by \in {"stream", "parallel"} /\ f.layout = "v6" /\ g = DecryptV6(f, SingleKey(f, k))
        \/ /\ by # "bytes" /\ f.layout \in Slotted /\ SlotKey(f, k) # None
           /\ g = OpenChunks(f, SlotKey(f, k), Chunk)

LEMMA SingleLayouts == ASSUME NEW f, ReadSingle(f) PROVE f.layout \in {"v2", "v3", "v5", "v6"} /\ f.layout \notin Slotted
BY DEF ReadSingle, Slotted

LEMMA BodyLayouts ==
  ASSUME NEW f, ReadBody(f), f.layout \notin {"v10", "tlock"}, f.layout \notin Slotted
  PROVE  ReadSingle(f)
BY DEF ReadBody, ReadSlots, ReadBlind, ReadKdf, ReadLock, Slotted

LEMMA BytesIs == ASSUME NEW f, NEW k PROVE KeyReads(f, k, "bytes", DecryptBytes(f, k))
<1>1. CASE ~ReadBody(f) \/ ~ReadSingle(f) \/ NoSuchVersion(f) \/ f.layout \in Chunked \/ SingleKey(f, k) = None
  BY <1>1 DEF DecryptBytes, KeyReads
<1>2. CASE ~(~ReadBody(f) \/ ~ReadSingle(f) \/ NoSuchVersion(f) \/ f.layout \in Chunked \/ SingleKey(f, k) = None)
  <2>1. DecryptBytes(f, k) = OpenWhole(f, SingleKey(f, k))
    BY <1>2 DEF DecryptBytes
  <2>2. f.layout \in {"v2", "v6"}
    BY <1>2, SingleLayouts DEF Chunked
  <2> QED BY <1>2, <2>1, <2>2 DEF KeyReads
<1> QED BY <1>1, <1>2

LEMMA StreamIs ==
  ASSUME NEW f, NEW k, NEW by \in {"stream", "parallel"} PROVE KeyReads(f, k, by, DecryptStream(f, k))
<1> DEFINE key == SingleKey(f, k)
<1>1. CASE ~ReadBody(f) \/ NoSuchVersion(f)
  BY <1>1 DEF DecryptStream, KeyReads
<1>2. CASE ReadBody(f) /\ ~NoSuchVersion(f) /\ ReadSingle(f)
  <2>1. DecryptStream(f, k) = CASE key = None -> Refused [] f.layout = "v2" -> OpenWhole(f, key)
          [] f.layout = "v6" -> DecryptV6(f, key) [] OTHER -> OpenChunks(f, key, f.chunk)
    BY <1>2 DEF DecryptStream
  <2>2. f.layout \in {"v2", "v6"} \/ f.layout \in Chunked
    BY <1>2, SingleLayouts DEF Chunked
  <2> HIDE DEF key
  <2>3. \/ DecryptStream(f, k) = Refused
        \/ f.layout = "v2" /\ DecryptStream(f, k) = OpenWhole(f, key)
        \/ f.layout = "v6" /\ DecryptStream(f, k) = DecryptV6(f, key)
        \/ f.layout \in Chunked /\ DecryptStream(f, k) = OpenChunks(f, key, f.chunk)
    BY <2>1, <2>2
  <2> QED BY <1>2, <2>3 DEF KeyReads, key
<1>3. CASE ReadBody(f) /\ ~NoSuchVersion(f) /\ ~ReadSingle(f)
  <2>1. DecryptStream(f, k) = IF f.layout \in Slotted /\ SlotKey(f, k) # None
         THEN OpenChunks(f, SlotKey(f, k), Chunk) ELSE Refused
    BY <1>3 DEF DecryptStream
  <2> QED BY <1>3, <2>1 DEF KeyReads
<1> QED BY <1>1, <1>2, <1>3

LEMMA ParallelIs == ASSUME NEW f, NEW k PROVE KeyReads(f, k, "parallel", DecryptParallel(f, k, 2))
<1>1. CASE f.layout \notin Chunked \/ ~ReadBody(f)
  <2>1. DecryptParallel(f, k, 2) = DecryptStream(f, k)
    BY <1>1 DEF DecryptParallel
  <2> QED BY <2>1, StreamIs
<1>2. CASE f.layout \in Chunked /\ ReadBody(f)
  <2>1. DecryptParallel(f, k, 2) = IF SingleKey(f, k) = None THEN Refused
                                  ELSE OpenChunks(f, SingleKey(f, k), f.chunk)
    BY <1>2 DEF DecryptParallel
  <2>2. ~NoSuchVersion(f)
    BY <1>2 DEF NoSuchVersion, Chunked
  <2> QED BY <1>2, <2>1, <2>2 DEF KeyReads
<1> QED BY <1>1, <1>2

LEMMA InitIs ==
  ASSUME NEW f, NEW k
  PROVE  LET st == ReaderInit(f, k) IN
         \/ st = None
         \/ /\ ReadBody(f) /\ ~NoSuchVersion(f) /\ f.layout \in Slotted /\ SlotKey(f, k) # None
            /\ st = [key |-> SlotKey(f, k), chunk |-> Chunk, size |-> f.size]
         \/ /\ ReadBody(f) /\ ~NoSuchVersion(f) /\ f.layout \in {"v2", "v3", "v5"} /\ SingleKey(f, k) # None
            /\ st = [key |-> SingleKey(f, k), chunk |-> f.chunk, size |-> f.size]
<1> DEFINE st == ReaderInit(f, k)
<1>1. CASE ~ReadBody(f) \/ NoSuchVersion(f) \/ f.layout \in {"v6", "v10", "tlock"}
  BY <1>1 DEF ReaderInit
<1>2. CASE ReadBody(f) /\ ~NoSuchVersion(f) /\ f.layout \notin {"v6", "v10", "tlock"} /\ f.layout \in Slotted
  <2>1. st = IF SlotKey(f, k) = None THEN None ELSE [key |-> SlotKey(f, k), chunk |-> Chunk, size |-> f.size]
    BY <1>2 DEF ReaderInit
  <2> QED BY <1>2, <2>1
<1>3. CASE ReadBody(f) /\ ~NoSuchVersion(f) /\ f.layout \notin {"v6", "v10", "tlock"} /\ f.layout \notin Slotted
  <2>1. st = IF SingleKey(f, k) = None THEN None ELSE [key |-> SingleKey(f, k), chunk |-> f.chunk, size |-> f.size]
    BY <1>3 DEF ReaderInit
  <2>2. f.layout \in {"v2", "v3", "v5"}
    BY <1>3, BodyLayouts, SingleLayouts
  <2> QED BY <1>3, <2>1, <2>2
<1> QED BY <1>1, <1>2, <1>3

LEMMA ReaderIs == ASSUME NEW f, NEW k PROVE KeyReads(f, k, "reader", DecryptReader(f, k))
<1> DEFINE st == ReaderInit(f, k)
<1>1. DecryptReader(f, k) = IF st = None THEN Refused
        ELSE IF f.layout = "v2" THEN OpenWhole(f, st.key) ELSE OpenChunks(f, st.key, st.chunk)
  BY DEF DecryptReader
<1>2. \/ st = None
      \/ /\ ReadBody(f) /\ ~NoSuchVersion(f) /\ f.layout \in Slotted /\ SlotKey(f, k) # None
         /\ st = [key |-> SlotKey(f, k), chunk |-> Chunk, size |-> f.size]
      \/ /\ ReadBody(f) /\ ~NoSuchVersion(f) /\ f.layout \in {"v2", "v3", "v5"} /\ SingleKey(f, k) # None
         /\ st = [key |-> SingleKey(f, k), chunk |-> f.chunk, size |-> f.size]
  BY InitIs
<1> HIDE DEF st
<1>3. CASE st = None
  BY <1>1, <1>3 DEF KeyReads
<1>4. CASE /\ ReadBody(f) /\ ~NoSuchVersion(f) /\ f.layout \in Slotted /\ SlotKey(f, k) # None
           /\ st = [key |-> SlotKey(f, k), chunk |-> Chunk, size |-> f.size] /\ st # None
  <2>1. st.key = SlotKey(f, k) /\ st.chunk = Chunk /\ f.layout # "v2"
    BY <1>4 DEF Slotted
  <2> QED BY <1>1, <1>4, <2>1 DEF KeyReads
<1>5. CASE /\ ReadBody(f) /\ ~NoSuchVersion(f) /\ f.layout \in {"v2", "v3", "v5"} /\ SingleKey(f, k) # None
           /\ st = [key |-> SingleKey(f, k), chunk |-> f.chunk, size |-> f.size] /\ st # None
  <2>1. st.key = SingleKey(f, k) /\ st.chunk = f.chunk
    BY <1>5
  <2> QED BY <1>1, <1>5, <2>1 DEF KeyReads, Chunked
<1> QED BY <1>2, <1>3, <1>4, <1>5

\* Every reading of the file is one of these.
KeyReaders == {"bytes", "stream", "reader", "parallel"}
Reading(f, by, cred, g) ==
  \/ by \in KeyReaders /\ cred \in Keys /\ KeyReads(f, cred, by, g)
  \/ by = "stealth" /\ cred \in Keys /\ g = DecryptStealth(f, cred)
  \/ by = "passphrase" /\ cred \in Factors /\ g = DecryptPassphrase(f, cred, DefaultCost)
  \/ by = "tlock" /\ g = DecryptTlock(f, cred)

LEMMA ReadingsAre == ASSUME NEW r \in Readings PROVE Reading(file, r.by, r.with, r.gives)
<1> DEFINE A == {[by |-> d, with |-> k, gives |-> KeyReading(d, k)] :
                   d \in {"bytes", "stream", "reader", "parallel", "stealth"}, k \in Keys}
           B == {[by |-> "passphrase", with |-> x, gives |-> FactorReading(x)] : x \in Factors}
           C == {[by |-> "tlock", with |-> relay, gives |-> DecryptTlock(file, relay)] :
                   relay \in {"quicknet", "mainnet"}}
<1>0. Readings = A \cup B \cup C
  BY DEF Readings
<1>1. r \in A \/ r \in B \/ r \in C
  <2> HIDE DEF A, B, C
  <2> QED BY <1>0
<1>2. ASSUME NEW k, NEW d \in {"bytes", "stream", "reader", "parallel", "stealth"}
      PROVE  /\ d # "stealth" => KeyReads(file, k, d, KeyReading(d, k))
             /\ d = "stealth" => KeyReading(d, k) = DecryptStealth(file, k)
  <2>1. /\ KeyReading("bytes", k) = DecryptBytes(file, k) /\ KeyReading("stream", k) = DecryptStream(file, k)
        /\ KeyReading("reader", k) = DecryptReader(file, k)
        /\ KeyReading("parallel", k) = DecryptParallel(file, k, 2)
        /\ KeyReading("stealth", k) = DecryptStealth(file, k)
    BY DEF KeyReading
  <2> QED BY <2>1, BytesIs, StreamIs, ReaderIs, ParallelIs
<1>3. ASSUME NEW x \in Factors PROVE FactorReading(x) = DecryptPassphrase(file, x, DefaultCost)
  <2>1. /\ FactorReading("none") = DecryptPassphrase(file, "none", DefaultCost)
        /\ FactorReading("keyfile") = DecryptPassphrase(file, "keyfile", DefaultCost)
        /\ FactorReading("fido2") = DecryptPassphrase(file, "fido2", DefaultCost)
        /\ FactorReading("webauthn") = DecryptPassphrase(file, "webauthn", DefaultCost)
    BY DEF FactorReading, DecryptPlain, DecryptKeyfile, DecryptFido2, DecryptWebauthn
  <2> QED BY <2>1 DEF Factors
<1>4. CASE r \in {[by |-> d, with |-> k, gives |-> KeyReading(d, k)] :
                  d \in {"bytes", "stream", "reader", "parallel", "stealth"}, k \in Keys}
  <2>1. PICK d \in {"bytes", "stream", "reader", "parallel", "stealth"}, k \in Keys :
           r = [by |-> d, with |-> k, gives |-> KeyReading(d, k)]
    BY <1>4
  <2>2. r.by = d /\ r.with = k /\ r.gives = KeyReading(d, k)
    BY <2>1
  <2> QED BY <1>2, <2>2 DEF Reading, KeyReaders
<1>5. CASE r \in {[by |-> "passphrase", with |-> x, gives |-> FactorReading(x)] : x \in Factors}
  <2>1. PICK x \in Factors : r = [by |-> "passphrase", with |-> x, gives |-> FactorReading(x)]
    BY <1>5
  <2>2. r.by = "passphrase" /\ r.with = x /\ r.gives = FactorReading(x)
    BY <2>1
  <2> QED BY <1>3, <2>2 DEF Reading
<1>6. CASE r \in {[by |-> "tlock", with |-> relay, gives |-> DecryptTlock(file, relay)] :
                  relay \in {"quicknet", "mainnet"}}
  <2>1. PICK relay \in {"quicknet", "mainnet"} :
           r = [by |-> "tlock", with |-> relay, gives |-> DecryptTlock(file, relay)]
    BY <1>6
  <2>2. r.by = "tlock" /\ r.with = relay /\ r.gives = DecryptTlock(file, relay)
    BY <2>1
  <2> QED BY <2>2 DEF Reading
<1> QED BY <1>1, <1>4, <1>5, <1>6

-----------------------------------------------------------------------------
(* Who reads a file. *)

\* A header that parses is one of its shape.
LEMMA Parsed ==
  ASSUME NEW f, NEW o, NEW w, WrittenAs(o, w), ChangedFrom(f, o), ReadBody(f)
  PROVE  /\ w.layout # "stealth" /\ o.layout = w.layout /\ w.layout \in Layouts /\ f.layout \in Layouts
         /\ f.layout \in {"v2", "v3"} <=> w.layout \in {"v2", "v3"}
         /\ (f.layout = "v5" <=> w.layout = "v5") /\ (f.layout = "v6" <=> w.layout = "v6")
         /\ (f.layout = "v10" <=> w.layout = "v10") /\ (f.layout = "tlock" <=> w.layout = "tlock")
         /\ f.layout \in Slotted <=> w.layout \in Slotted
         /\ f.layout \in {"v8", "v9"} <=> w.layout \in {"v8", "v9"}
<1>1. /\ f.wire = o.wire /\ f.slots = o.slots /\ f.layout \in Layouts /\ o.layout \in Layouts
      /\ f.wire = Shape(f.layout, f.slots)
      /\ o.wire = IF w.layout = "stealth" THEN "stealth" ELSE Shape(o.layout, o.slots)
      /\ o.layout = IF w.layout = "stealth" THEN "v3" ELSE w.layout
  BY DEF WrittenAs, HeaderFor, ChangedFrom, ReadBody
<1>2. w.layout # "stealth"
  BY <1>1, NoStealthShape
<1>3. Shape(f.layout, o.slots) = Shape(o.layout, o.slots) /\ o.layout = w.layout
  BY <1>1, <1>2
<1> DEFINE l == f.layout
           m == o.layout
<1>4. l \in Layouts /\ m \in Layouts /\ Shape(l, o.slots) = Shape(m, o.slots)
  BY <1>1, <1>3
<1> HIDE DEF l, m
<1>5. /\ l \in {"v2", "v3"} <=> m \in {"v2", "v3"}
      /\ (l = "v5" <=> m = "v5") /\ (l = "v6" <=> m = "v6") /\ (l = "v10" <=> m = "v10")
      /\ (l = "tlock" <=> m = "tlock")
      /\ l \in Slotted <=> m \in Slotted
      /\ l \in {"v8", "v9"} <=> m \in {"v8", "v9"}
  BY <1>4, SameShape
<1> QED BY <1>1, <1>2, <1>3, <1>5 DEF l, m

\* The secret of a key encapsulation comes out for its own key only.
LEMMA SecretFor ==
  ASSUME NEW f, NEW o, NEW w, WrittenAs(o, w), ChangedFrom(f, o), NEW k,
         w.layout \in {"v2", "v3", "v5", "v6", "stealth"}, Decapsulate(f.kem, k) = "s"
  PROVE  k \in w.to
<1>1. \E a \in Keys : o.kem = Encapsulate(a, "s") /\ w.to = {a}
  BY DEF WrittenAs, HeaderFor, ForReaders
<1>2. f.kem.to = o.kem.to
  <2>1. o.layout \in {"v2", "v3", "v5", "v6"}
    BY DEF WrittenAs, HeaderFor
  <2> QED BY <2>1 DEF ChangedFrom
<1>3. f.kem.to = k
  BY DEF Decapsulate
<1> QED BY <1>1, <1>2, <1>3 DEF Encapsulate

LEMMA SingleOpens ==
  ASSUME NoneIsApart, NEW f, NEW o, NEW w, WrittenAs(o, w), ChangedFrom(f, o), NEW k,
         w.layout \in {"v2", "v3", "v5", "v6"}, SingleKey(f, k) = "s"
  PROVE  k \in w.to
<1>1. None # "s"
  BY DEF NoneIsApart
<1>2. Decapsulate(f.kem, k) = "s"
  BY <1>1 DEF SingleKey
<1> QED BY <1>2, SecretFor

LEMMA SlotOpens ==
  ASSUME NEW f, NEW o, NEW w, WrittenAs(o, w), ChangedFrom(f, o), NEW k \in Keys,
         w.layout \in Slotted, SlotKey(f, k) # None
  PROVE  k \in w.to
<1> DEFINE mine == {i \in DOMAIN f.slots :
                      /\ f.slots[i].to = k
                      /\ f.layout \in {"v8", "v9"} \/ f.slots[i].variant = Variant[k]}
<1>1. mine # {}
  BY DEF SlotKey
<1>2. PICK i \in DOMAIN f.slots : f.slots[i].to = k
  BY <1>1
<1>3. SlotsFor(o.slots, w.to) /\ f.slots = o.slots
  BY DEF WrittenAs, HeaderFor, ForReaders, ChangedFrom
<1>4. k # None
  BY KeysAssumption
<1> QED BY <1>2, <1>3, <1>4 DEF SlotsFor

\* What a reading of a header's chunks under a cap is made from.
LEMMA LimitedOk ==
  ASSUME NEW size, NEW r, LimitedWriter(size, r).ok PROVE r.ok
BY DEF LimitedWriter

LEMMA V6Ok ==
  ASSUME NEW f, NEW key, DecryptV6(f, key).ok
  PROVE  OpenChunks(f, key, f.chunk).ok
<1> DEFINE r == OpenChunks(f, key, f.chunk)
<1>1. DecryptV6(f, key) = CASE f.comp = "none" -> r [] f.comp = "zstd" -> LimitedWriter(f.size, r)
                            [] OTHER -> Refused
  BY DEF DecryptV6
<1> HIDE DEF r
<1>2. \/ DecryptV6(f, key) = r \/ DecryptV6(f, key) = LimitedWriter(f.size, r)
      \/ DecryptV6(f, key) = Refused
  BY <1>1
<1>3. DecryptV6(f, key) # Refused
  BY DEF Refused
<1>4. r.ok
  BY <1>2, <1>3, LimitedOk
<1> QED BY <1>4 DEF r

LEMMA NatFields ==
  ASSUME NEW f, NEW o, ChangedFrom(f, o)
  PROVE  f.chunk \in Nat /\ f.size \in Nat /\ Chunk \in Nat /\ f.auth \in BOOLEAN
BY ChunkIs DEF ChangedFrom

\* A private key that reads a file is one it was written for.
LEMMA KeyMine ==
  ASSUME NoneIsApart, NEW o, WrittenAs(o, wrote), ChangedFrom(file, o),
         NEW r, r.by \in KeyReaders, r.with \in Keys, KeyReads(file, r.with, r.by, r.gives), r.gives.ok
  PROVE  Mine(r)
<1> DEFINE k == r.with
           l == wrote.layout
<1>1. r.gives # Refused
  BY DEF Refused
<1>2. ReadBody(file)
  BY <1>1 DEF KeyReads
<1>3. /\ l # "stealth" /\ o.layout = l /\ l \in Layouts /\ file.layout \in Layouts
      /\ file.layout \in {"v2", "v3"} <=> l \in {"v2", "v3"}
      /\ (file.layout = "v5" <=> l = "v5") /\ (file.layout = "v6" <=> l = "v6")
      /\ (file.layout = "v10" <=> l = "v10") /\ (file.layout = "tlock" <=> l = "tlock")
      /\ file.layout \in Slotted <=> l \in Slotted
  BY <1>2, Parsed
<1>4. file.chunk \in Nat /\ Chunk \in Nat
  BY NatFields
<1>5. l \notin {"v10", "tlock"} => SealedUnder(o, wrote) = "s"
  BY DEF SealedUnder
<1> HIDE DEF l, k
<1>6. CASE file.layout \in {"v2", "v6"} /\ r.gives = OpenWhole(file, SingleKey(file, k))
  <2>1. l = "v2" /\ SingleKey(file, k) = "s"
    BY <1>1, <1>6, OpenWholeReads DEF ReadsWhole, l
  <2>2. k \in wrote.to
    BY <2>1, SingleOpens DEF l
  <2> QED BY <2>1, <2>2 DEF Mine, k, l, KeyReaders
<1>7. CASE r.by # "bytes" /\ file.layout \in Chunked /\ r.gives = OpenChunks(file, SingleKey(file, k), file.chunk)
  <2>1. l # "v2" /\ SingleKey(file, k) = SealedUnder(o, wrote)
    BY <1>4, <1>7, OpenChunksReads DEF Reads, Committed, l
  <2>2. l \in {"v3", "v5"}
    BY <1>3, <1>7, <2>1 DEF Chunked
  <2>3. k \in wrote.to
    BY <1>5, <2>1, <2>2, SingleOpens DEF l
  <2> QED BY <1>7, <2>2, <2>3 DEF Mine, k, l, KeyReaders
<1>8. CASE r.by \in {"stream", "parallel"} /\ file.layout = "v6" /\ r.gives = DecryptV6(file, SingleKey(file, k))
  <2>1. OpenChunks(file, SingleKey(file, k), file.chunk).ok
    BY <1>8, V6Ok
  <2>2. SingleKey(file, k) = SealedUnder(o, wrote) /\ l = "v6"
    BY <1>3, <1>4, <1>8, <2>1, OpenChunksReads DEF Reads, Committed
  <2>3. k \in wrote.to
    BY <1>5, <2>2, SingleOpens DEF l
  <2> QED BY <1>8, <2>2, <2>3 DEF Mine, k, l
<1>9. CASE r.by # "bytes" /\ file.layout \in Slotted /\ SlotKey(file, k) # None
  <2>1. l \in Slotted
    BY <1>3, <1>9
  <2>2. k \in wrote.to
    BY <1>9, <2>1, SlotOpens DEF l, k
  <2>3. l \notin {"v10", "tlock", "stealth", "v2", "v6"}
    BY <2>1 DEF Slotted
  <2> QED BY <1>9, <2>2, <2>3 DEF Mine, k, l, KeyReaders
<1> QED BY <1>1, <1>6, <1>7, <1>8, <1>9 DEF KeyReads, k

LEMMA StealthMine ==
  ASSUME NEW o, WrittenAs(o, wrote), ChangedFrom(file, o),
         NEW r, r.by = "stealth", r.gives = DecryptStealth(file, r.with), r.gives.ok
  PROVE  Mine(r)
<1> DEFINE k == r.with
           run == OpenChunks(file, Decapsulate(file.kem, k), Chunk)
<1>1. file.wire = "stealth" /\ r.gives = TruncatingWriter(file.size, run)
  BY DEF DecryptStealth, Refused
<1>2. wrote.layout = "stealth"
  BY <1>1, NoStealthShape DEF WrittenAs, HeaderFor, ChangedFrom
<1> DEFINE text == IF file.size = 0 THEN run.text ELSE SubSeq(run.text, 1, Least(file.size, Len(run.text)))
<1>3. TruncatingWriter(file.size, run) = [run EXCEPT !.text = text]
  BY DEF TruncatingWriter
<1>4. Reads(file, o, wrote, Decapsulate(file.kem, k), run)
  BY OpenChunksReads, NatFields
<1> HIDE DEF run, text
<1>5. run.ok
  BY <1>1, <1>3
<1>6. Decapsulate(file.kem, k) = "s"
  BY <1>2, <1>4, <1>5 DEF Reads, Committed, SealedUnder
<1>7. k \in wrote.to
  BY <1>2, <1>6, SecretFor
<1> QED BY <1>2, <1>7 DEF Mine

LEMMA PassphraseMine ==
  ASSUME NEW o, WrittenAs(o, wrote), ChangedFrom(file, o), NEW r, r.by = "passphrase",
         r.gives = DecryptPassphrase(file, r.with, DefaultCost), r.gives.ok
  PROVE  Mine(r)
<1> DEFINE x == r.with
<1>1. /\ ReadBody(file) /\ ReadKdf(file) /\ ~(file.kdf.cost > DefaultCost)
      /\ r.gives = OpenChunks(file, DeriveKey(x, file.kdf), Chunk)
  BY DEF DecryptPassphrase, Refused
<1>2. wrote.layout = "v10" /\ o.layout = "v10"
  <2>1. file.layout = "v10"
    BY <1>1 DEF ReadKdf
  <2> QED BY <1>1, <2>1, Parsed
<1>3. DeriveKey(x, file.kdf) = DeriveKey(wrote.factor, o.kdf)
  <2>1. Reads(file, o, wrote, DeriveKey(x, file.kdf), r.gives)
    BY <1>1, OpenChunksReads, NatFields
  <2> QED BY <1>2, <2>1 DEF Reads, Committed, SealedUnder
<1>4. x = wrote.factor
  BY <1>3 DEF DeriveKey
<1>5. file.kdf.cost = 1
  <2>1. file.kdf.cost \in 1 .. 2
    BY <1>2 DEF ChangedFrom
  <2>2. DefaultCost = 1 /\ ~(file.kdf.cost > DefaultCost)
    BY <1>1 DEF DefaultCost
  <2> QED BY <2>1, <2>2
<1> QED BY <1>2, <1>4, <1>5 DEF Mine

LEMMA TlockMine ==
  ASSUME NoneIsApart, NEW o, WrittenAs(o, wrote), ChangedFrom(file, o), NEW r, r.by = "tlock",
         r.gives = DecryptTlock(file, r.with), r.gives.ok
  PROVE  Mine(r)
<1>1. /\ ReadBody(file) /\ ReadLock(file) /\ file.lock.chain = r.with /\ Beacon(file.lock.round) # None
      /\ r.gives = OpenChunks(file, file.lock.ct[2], Chunk)
  BY DEF DecryptTlock, Refused
<1>2. wrote.layout = "tlock" /\ o.layout = "tlock" /\ file.layout = "tlock"
  <2>1. file.layout = "tlock"
    BY <1>1 DEF ReadLock
  <2> QED BY <1>1, <2>1, Parsed
<1>3. Committed(file, o, wrote, file.lock.ct[2])
  <2>1. Reads(file, o, wrote, file.lock.ct[2], r.gives)
    BY <1>1, OpenChunksReads, NatFields
  <2> QED BY <2>1 DEF Reads
<1>4. file.lock.chain = o.lock.chain
  <2>1. Commitment(file, file.lock.ct[2]) = Commitment(o, SealedUnder(o, wrote))
    BY <1>3 DEF Committed
  <2>2. file.auth \in BOOLEAN /\ o.auth \in BOOLEAN
    BY DEF ChangedFrom, WrittenAs, HeaderFor
  <2> QED BY <1>2, <2>1, <2>2, CommitmentSays
<1>5. o.lock.chain = "quicknet"
  <2>1. o.lock = [chain |-> "quicknet", round |-> o.lock.round, ct |-> <<o.lock.round, "seed">>]
    BY <1>2 DEF WrittenAs, HeaderFor, ForReaders
  <2> QED BY <2>1
<1>6. file.lock.round <= now
  BY <1>1 DEF Beacon
<1> QED BY <1>1, <1>2, <1>4, <1>5, <1>6 DEF Mine

LEMMA ReadersOnly == ASSUME NoneIsApart, ContainersInv PROVE OnlyItsReaders
<1> SUFFICES ASSUME file # None, NEW r \in Readings, r.gives.ok PROVE Mine(r)
  BY DEF OnlyItsReaders
<1>1. PICK o : WrittenAs(o, wrote) /\ ChangedFrom(file, o)
  BY DEF ContainersInv, Written
<1>2. Reading(file, r.by, r.with, r.gives)
  BY ReadingsAre
<1> QED BY <1>1, <1>2, KeyMine, StealthMine, PassphraseMine, TlockMine DEF Reading

\* Whoever gets a whole text out of a file holds a credential it was written
\* for, whatever storage has changed in its header: for any keys, texts, sizes
\* and number of changes.
THEOREM OnlyItsReadersHolds == NoneIsApart => (Spec => []OnlyItsReaders)
<1> SUFFICES ASSUME NoneIsApart PROVE Spec => []OnlyItsReaders
  OBVIOUS
<1>1. ContainersInv => OnlyItsReaders
  BY ReadersOnly
<1> QED BY <1>1, ContainersInvariant, PTL

-----------------------------------------------------------------------------
(* What a reader gives. *)

\* A beginning of a text.
Begins(t, s) == \E m \in 0 .. Len(s) : t = SubSeq(s, 1, m)

LEMMA BeginningIs ==
  ASSUME NEW s \in Seq(Int), NEW m \in 0 .. Len(s)
  PROVE  /\ SubSeq(s, 1, m) \in Seq(Int) /\ Len(SubSeq(s, 1, m)) = m /\ DOMAIN SubSeq(s, 1, m) = 1 .. m
         /\ \A i \in 1 .. m : SubSeq(s, 1, m)[i] = s[i]
<1> DEFINE t == SubSeq(s, 1, m)
<1>1. Len(s) \in Nat /\ m \in Nat
  BY LenProperties
<1>2. \A i \in 1 .. m : s[i] \in Int
  <2>1. \A i \in 1 .. m : i \in 1 .. Len(s)
    BY <1>1
  <2> QED BY <2>1, ElementOfSeq
<1>3. /\ t \in Seq(Int) /\ Len(t) = IF 1 <= m THEN m - 1 + 1 ELSE 0
      /\ \A i \in 1 .. m - 1 + 1 : t[i] = s[1 + i - 1]
  <2>1. 1 \in Int /\ m \in Int
    BY <1>1
  <2> QED BY <1>2, <2>1, SubSeqProperties
<1> HIDE DEF t
<1>4. Len(t) = m
  BY <1>1, <1>3
<1>5. \A i \in 1 .. m : i \in 1 .. m - 1 + 1 /\ 1 + i - 1 = i
  BY <1>1
<1>6. DOMAIN t = 1 .. m
  BY <1>3, <1>4, LenProperties
<1> QED BY <1>3, <1>4, <1>5, <1>6 DEF t

LEMMA SameSequence ==
  ASSUME NEW s \in Seq(Int), NEW t \in Seq(Int), Len(s) = Len(t), \A i \in 1 .. Len(s) : s[i] = t[i]
  PROVE  s = t
BY SeqEqual

\* A beginning of a beginning is one.
LEMMA BeginsAgain ==
  ASSUME NEW s \in Seq(Int), NEW t, Begins(t, s), NEW u, Begins(u, t)
  PROVE  Begins(u, s)
<1>1. PICK m \in 0 .. Len(s) : t = SubSeq(s, 1, m)
  BY DEF Begins
<1>2. t \in Seq(Int) /\ Len(t) = m /\ \A i \in 1 .. m : t[i] = s[i]
  BY <1>1, BeginningIs
<1>3. PICK l \in 0 .. m : u = SubSeq(t, 1, l)
  BY <1>2 DEF Begins
<1>4. u \in Seq(Int) /\ Len(u) = l /\ \A i \in 1 .. l : u[i] = t[i]
  <2>1. l \in 0 .. Len(t)
    BY <1>2
  <2> QED BY <1>2, <1>3, <2>1, BeginningIs
<1>5. l \in 0 .. Len(s) /\ \A i \in 1 .. l : i \in 1 .. m
  <2>1. Len(s) \in Nat
    BY LenProperties
  <2> QED BY <2>1
<1> DEFINE v == SubSeq(s, 1, l)
<1>6. v \in Seq(Int) /\ Len(v) = l /\ \A i \in 1 .. l : v[i] = s[i]
  BY <1>5, BeginningIs
<1> HIDE DEF v
<1>7. u = v
  BY <1>2, <1>4, <1>5, <1>6, SameSequence
<1> QED BY <1>5, <1>7 DEF Begins, v

LEMMA BeginsIs ==
  ASSUME NEW s \in Seq(Int), NEW t, Begins(t, s)
  PROVE  IsPrefix(t, s) /\ t \in Seq(Int)
<1>1. PICK m \in 0 .. Len(s) : t = SubSeq(s, 1, m)
  BY DEF Begins
<1>2. t \in Seq(Int) /\ Len(t) = m /\ Len(s) \in Nat
  BY <1>1, BeginningIs, LenProperties
<1>3. SubSeq(t, 1, Len(t)) = t
  BY <1>2, SubSeqFull
<1> QED BY <1>1, <1>2, <1>3 DEF IsPrefix

LEMMA AllBegins == ASSUME NEW s \in Seq(Int) PROVE Begins(s, s) /\ Begins(<<>>, s)
<1>1. Len(s) \in Nat /\ SubSeq(s, 1, Len(s)) = s
  BY LenProperties, SubSeqFull
<1>2. SubSeq(s, 1, 0) = <<>>
  BY SubSeqEmpty
<1>3. 0 \in 0 .. Len(s) /\ Len(s) \in 0 .. Len(s)
  BY <1>1
<1> QED BY <1>1, <1>2, <1>3 DEF Begins

\* What decompression makes of a beginning.
LEMMA Decompressed ==
  ASSUME NEW text \in Texts, NEW t, Begins(t, Zstd(text))
  PROVE  LET raw == [i \in DOMAIN t |-> -t[i]] IN
         Begins(raw, text) /\ (t = Zstd(text) => raw = text)
<1> DEFINE raw == [i \in DOMAIN t |-> -t[i]]
           z == Zstd(text)
<1>1. PICK n \in 0 .. MaxText : text = [i \in 1 .. n |-> i]
  BY DEF Texts
<1>2. n \in Nat /\ text \in Seq(Int) /\ Len(text) = n /\ \A i \in 1 .. n : text[i] = i
  BY <1>1, SizesAssumption
<1>3. z \in Seq(Int) /\ Len(z) = n /\ \A i \in 1 .. n : z[i] = -i
  <2>1. z = [i \in 1 .. n |-> -i]
    BY <1>1, <1>2 DEF Zstd
  <2> HIDE DEF z
  <2> QED BY <1>2, <2>1
<1> HIDE DEF z
<1>4. PICK m \in 0 .. n : t = SubSeq(z, 1, m)
  BY <1>3 DEF Begins, z
<1>5. t \in Seq(Int) /\ Len(t) = m /\ DOMAIN t = 1 .. m /\ \A i \in 1 .. m : t[i] = z[i]
  <2>1. m \in 0 .. Len(z)
    BY <1>3
  <2> QED BY <1>3, <1>4, <2>1, BeginningIs
<1>6. raw = [i \in 1 .. m |-> i]
  <2>1. \A i \in 1 .. m : -t[i] = i
    <3>1. \A i \in 1 .. m : i \in 1 .. n /\ -(-i) = i
      BY <1>2
    <3> QED BY <1>3, <1>5, <3>1
  <2> QED BY <1>5, <2>1
<1>7. raw \in Seq(Int) /\ Len(raw) = m
  <2> HIDE DEF raw
  <2> QED BY <1>2, <1>6
<1> HIDE DEF raw
<1> DEFINE v == SubSeq(text, 1, m)
<1>8. v \in Seq(Int) /\ Len(v) = m /\ \A i \in 1 .. m : v[i] = text[i]
  <2>1. m \in 0 .. Len(text)
    BY <1>2
  <2> QED BY <1>2, <2>1, BeginningIs
<1> HIDE DEF v
<1>9. raw = v
  <2>1. \A i \in 1 .. Len(raw) : raw[i] = v[i]
    <3>1. \A i \in 1 .. m : i \in 1 .. n
      BY <1>2
    <3> QED BY <1>2, <1>6, <1>7, <1>8, <3>1
  <2> QED BY <1>7, <1>8, <2>1, SameSequence
<1>10. Begins(raw, text)
  BY <1>2, <1>9 DEF Begins, v
<1>11. t = z => raw = text
  <2> SUFFICES ASSUME t = z PROVE raw = text
    OBVIOUS
  <2>1. m = n
    BY <1>3, <1>5
  <2> QED BY <1>1, <1>6, <2>1
<1> QED BY <1>10, <1>11 DEF raw, z

LEMMA LimitedReads ==
  ASSUME NEW text \in Texts, NEW size \in Nat, NEW r, r.ok \in BOOLEAN, Begins(r.text, Zstd(text)),
         r.ok => r.text = Zstd(text)
  PROVE  LET g == LimitedWriter(size, r) IN
         Begins(g.text, text) /\ (g.ok => g.text = text)
<1> DEFINE raw   == [i \in DOMAIN r.text |-> -r.text[i]]
           limit == IF size > 0 THEN size ELSE MaxSize
           g     == LimitedWriter(size, r)
<1>1. g = IF Len(raw) > limit THEN [ok |-> FALSE, text |-> SubSeq(raw, 1, limit)]
          ELSE [ok |-> r.ok, text |-> raw]
  BY DEF LimitedWriter
<1>2. Begins(raw, text) /\ (r.text = Zstd(text) => raw = text)
  BY Decompressed
<1>3. limit \in Nat
  BY ChunkIs
<1>4. text \in Seq(Int)
  BY TextsAre
<1> HIDE DEF raw, limit, g
<1>5. raw \in Seq(Int)
  BY <1>2, <1>4, BeginsIs
<1>6. CASE Len(raw) > limit
  <2>1. g.ok = FALSE /\ g.text = SubSeq(raw, 1, limit)
    BY <1>1, <1>6
  <2>2. limit \in 0 .. Len(raw)
    BY <1>3, <1>5, <1>6, LenProperties
  <2>3. Begins(g.text, raw)
    BY <2>1, <2>2 DEF Begins
  <2>4. Begins(g.text, text)
    BY <1>2, <1>4, <2>3, BeginsAgain
  <2> QED BY <2>1, <2>4 DEF g
<1>7. CASE ~(Len(raw) > limit)
  <2>1. g.ok = r.ok /\ g.text = raw
    BY <1>1, <1>7
  <2> QED BY <1>2, <2>1 DEF g
<1> QED BY <1>6, <1>7

\* What a reading promises.
Promised(f, o, w, g) ==
  /\ w.layout = "v2" \/ f.auth => Begins(g.text, w.text) /\ (g.ok => g.text = Expected)
  /\ g.ok => f.size = w.size

LEMMA SizeSaid ==
  ASSUME NEW f, NEW o, NEW w, WrittenAs(o, w), ChangedFrom(f, o), NEW key, Committed(f, o, w, key)
  PROVE  /\ f.size = w.size
         /\ w.layout = "v6" /\ f.layout = "v6" /\ f.auth => f.comp = "zstd"
<1>1. f.auth \in BOOLEAN /\ o.auth \in BOOLEAN /\ w.size = o.size
      /\ (w.layout = "v6" => o.comp = "zstd")
  BY DEF ChangedFrom, WrittenAs, HeaderFor
<1>2. Commitment(f, key) = Commitment(o, SealedUnder(o, w))
  BY DEF Committed
<1> QED BY <1>1, <1>2, CommitmentSays

\* Refusing promises nothing.
LEMMA RefusedIs ==
  ASSUME NEW f, NEW o, NEW w, WrittenAs(o, w)
  PROVE  Promised(f, o, w, Refused)
<1>1. w.text \in Seq(Int)
  BY TextsAre DEF WrittenAs, HeaderFor
<1> QED BY <1>1, AllBegins DEF Promised, Refused

LEMMA ChunksPromise ==
  ASSUME NEW o, WrittenAs(o, wrote), ChangedFrom(file, o), NEW key, NEW c \in Nat,
         wrote.layout \notin {"v6", "stealth"}
  PROVE  Promised(file, o, wrote, OpenChunks(file, key, c))
<1> DEFINE g == OpenChunks(file, key, c)
<1>1. Reads(file, o, wrote, key, g)
  BY OpenChunksReads
<1>2. SealedText(wrote) = wrote.text /\ Expected = wrote.text
  BY DEF SealedText, Expected
<1> HIDE DEF g
<1>3. g.ok => file.size = wrote.size
  BY <1>1, SizeSaid DEF Reads
<1> QED BY <1>1, <1>2, <1>3 DEF Reads, Promised, Begins, g

LEMMA WholePromises ==
  ASSUME NEW o, WrittenAs(o, wrote), ChangedFrom(file, o), NEW key
  PROVE  Promised(file, o, wrote, OpenWhole(file, key))
<1> DEFINE g == OpenWhole(file, key)
<1>1. ReadsWhole(file, o, wrote, key, g)
  BY OpenWholeReads
<1> HIDE DEF g
<1>2. CASE g = Refused
  BY <1>2, RefusedIs DEF g
<1>3. CASE /\ wrote.layout = "v2" /\ key = "s" /\ g = [ok |-> TRUE, text |-> wrote.text]
           /\ HeaderBytes(file) = HeaderBytes(o)
  <2>1. file.size = o.size
    BY <1>3 DEF HeaderBytes
  <2>2. wrote.size = o.size /\ wrote.text \in Seq(Int)
    BY TextsAre DEF WrittenAs, HeaderFor
  <2>3. Begins(wrote.text, wrote.text)
    BY <2>2, AllBegins
  <2>4. Expected = wrote.text
    BY <1>3 DEF Expected
  <2>5. g.ok /\ g.text = wrote.text
    BY <1>3
  <2> QED BY <2>1, <2>2, <2>3, <2>4, <2>5 DEF Promised, g
<1> QED BY <1>1, <1>2, <1>3 DEF ReadsWhole

LEMMA CompressedPromises ==
  ASSUME NEW o, WrittenAs(o, wrote), ChangedFrom(file, o), NEW key, wrote.layout = "v6",
         file.layout = "v6"
  PROVE  Promised(file, o, wrote, DecryptV6(file, key))
<1> DEFINE r == OpenChunks(file, key, file.chunk)
           g == DecryptV6(file, key)
<1>1. Reads(file, o, wrote, key, r)
  BY OpenChunksReads, NatFields
<1>2. SealedText(wrote) = Zstd(wrote.text) /\ Expected = wrote.text
  BY DEF SealedText, Expected
<1>3. g = CASE file.comp = "none" -> r [] file.comp = "zstd" -> LimitedWriter(file.size, r)
            [] OTHER -> Refused
  BY DEF DecryptV6
<1>4. wrote.text \in Texts /\ wrote.text \in Seq(Int) /\ file.size \in Nat
  BY TextsAre, NatFields DEF WrittenAs, HeaderFor
<1> HIDE DEF r, g
<1>5. r.ok => file.size = wrote.size
  BY <1>1, SizeSaid DEF Reads
<1>6. CASE file.comp = "none"
  <2>1. g = r
    BY <1>3, <1>6
  <2>2. ASSUME file.auth PROVE r.text = <<>> /\ ~r.ok
    <3>1. ~Committed(file, o, wrote, key)
      BY <1>6, <2>2, SizeSaid
    <3> QED BY <1>1, <3>1 DEF Reads
  <2>3. Begins(<<>>, wrote.text)
    BY <1>4, AllBegins
  <2> QED BY <1>5, <2>1, <2>2, <2>3 DEF Promised, g
<1>7. CASE file.comp = "zstd"
  <2>1. g = LimitedWriter(file.size, r)
    BY <1>3, <1>7
  <2>2. r.ok \in BOOLEAN /\ Begins(r.text, Zstd(wrote.text)) /\ (r.ok => r.text = Zstd(wrote.text))
    BY <1>1, <1>2 DEF Reads, Begins
  <2>3. Begins(g.text, wrote.text) /\ (g.ok => g.text = wrote.text)
    BY <1>4, <2>1, <2>2, LimitedReads
  <2>4. g.ok => r.ok
    BY <2>1, LimitedOk
  <2> QED BY <1>2, <1>5, <2>3, <2>4 DEF Promised, g
<1>8. CASE file.comp \notin {"none", "zstd"}
  <2>1. g = Refused
    BY <1>3, <1>8
  <2> QED BY <2>1, RefusedIs DEF g
<1> QED BY <1>6, <1>7, <1>8

LEMMA StealthPromises ==
  ASSUME NEW o, WrittenAs(o, wrote), ChangedFrom(file, o), NEW k
  PROVE  /\ Promised(file, o, wrote, DecryptStealth(file, k))
         /\ DecryptStealth(file, k).ok => wrote.layout = "stealth"
<1> DEFINE key == Decapsulate(file.kem, k)
           run == OpenChunks(file, key, Chunk)
           g   == DecryptStealth(file, k)
<1>1. g = Refused \/ (file.wire = "stealth" /\ g = TruncatingWriter(file.size, run))
  BY DEF DecryptStealth
<1>2. CASE g = Refused
  <2>1. g.ok = FALSE
    BY <1>2 DEF Refused
  <2> HIDE DEF g
  <2> QED BY <1>2, <2>1, RefusedIs DEF g
<1>3. CASE file.wire = "stealth" /\ g = TruncatingWriter(file.size, run)
  <2>1. wrote.layout = "stealth"
    BY <1>3, NoStealthShape DEF WrittenAs, HeaderFor, ChangedFrom
  <2>2. Reads(file, o, wrote, key, run)
    BY OpenChunksReads, NatFields
  <2> DEFINE t == run.text
             n == Least(file.size, Len(t))
             text == IF file.size = 0 THEN t ELSE SubSeq(t, 1, n)
  <2>3. TruncatingWriter(file.size, run) = [run EXCEPT !.text = text]
    BY DEF TruncatingWriter
  <2>4. DOMAIN run = {"ok", "text"}
    BY DEF OpenChunks
  <2> HIDE DEF run, text, g, key
  <2>5. g.ok = run.ok /\ g.text = text
    BY <1>3, <2>3, <2>4
  <2>6. SealedText(wrote) = wrote.text /\ wrote.text \in Seq(Int) /\ file.size \in Nat
    BY <2>1, TextsAre, NatFields DEF SealedText, WrittenAs, HeaderFor
  <2>7. run.ok => file.size = wrote.size /\ t = wrote.text
    BY <2>2, <2>6, SizeSaid DEF Reads
  <2>8. Begins(t, wrote.text) /\ t \in Seq(Int)
    <3>1. Begins(t, wrote.text)
      BY <2>2, <2>6 DEF Reads, Begins
    <3> QED BY <2>6, <3>1, BeginsIs
  <2>9. Begins(text, wrote.text)
    <3>1. n \in 0 .. Len(t)
      <4>1. Len(t) \in Nat
        BY <2>8, LenProperties
      <4> QED BY <2>6, <4>1 DEF Least
    <3> HIDE DEF n
    <3>2. Begins(SubSeq(t, 1, n), t)
      BY <3>1 DEF Begins
    <3>3. Begins(SubSeq(t, 1, n), wrote.text)
      BY <2>6, <2>8, <3>2, BeginsAgain
    <3> QED BY <2>8, <3>3 DEF text
  <2>10. run.ok => text = Expected
    <3> SUFFICES ASSUME run.ok PROVE text = Expected
      OBVIOUS
    <3>1. file.size = wrote.size /\ t = wrote.text
      BY <2>7
    <3>2. Expected = IF wrote.size > 0 THEN SubSeq(wrote.text, 1, Least(wrote.size, Len(wrote.text)))
                     ELSE wrote.text
      BY <2>1 DEF Expected
    <3>3. wrote.size > 0 <=> file.size # 0
      BY <2>6, <3>1
    <3> QED BY <3>1, <3>2, <3>3 DEF text
  <2> QED BY <2>1, <2>5, <2>7, <2>9, <2>10 DEF Promised, g
<1> QED BY <1>1, <1>2, <1>3

\* Whatever is read of a file that parses.
Inspected(f, w, g) == g.ok /\ w.layout # "stealth" => ReadBody(f) /\ ~NoSuchVersion(f)

LEMMA KeyPromises ==
  ASSUME NEW o, WrittenAs(o, wrote), ChangedFrom(file, o), NEW by, NEW k, NEW g, KeyReads(file, k, by, g)
  PROVE  Promised(file, o, wrote, g) /\ Inspected(file, wrote, g)
<1>1. CASE g = Refused
  <2>1. ~g.ok
    BY <1>1 DEF Refused
  <2> QED BY <1>1, <2>1, RefusedIs DEF Inspected
<1>2. CASE g # Refused
  <2>1. ReadBody(file) /\ ~NoSuchVersion(file)
    BY <1>2 DEF KeyReads
  <2>2. /\ wrote.layout # "stealth" /\ (file.layout = "v6" <=> wrote.layout = "v6")
    BY <2>1, Parsed
  <2>3. file.chunk \in Nat /\ Chunk \in Nat
    BY NatFields
  <2>4. Inspected(file, wrote, g)
    BY <2>1 DEF Inspected
  <2>5. CASE g = OpenWhole(file, SingleKey(file, k))
    BY <2>4, <2>5, WholePromises
  <2>6. CASE file.layout \in Chunked /\ g = OpenChunks(file, SingleKey(file, k), file.chunk)
    <3>1. wrote.layout \notin {"v6", "stealth"}
      BY <2>2, <2>6 DEF Chunked
    <3> QED BY <2>3, <2>4, <2>6, <3>1, ChunksPromise
  <2>7. CASE file.layout = "v6" /\ g = DecryptV6(file, SingleKey(file, k))
    BY <2>2, <2>4, <2>7, CompressedPromises
  <2>8. CASE file.layout \in Slotted /\ g = OpenChunks(file, SlotKey(file, k), Chunk)
    <3>1. wrote.layout \notin {"v6", "stealth"}
      BY <2>2, <2>8 DEF Slotted
    <3> QED BY <2>3, <2>4, <2>8, <3>1, ChunksPromise
  <2> QED BY <1>2, <2>5, <2>6, <2>7, <2>8 DEF KeyReads
<1> QED BY <1>1, <1>2

LEMMA PassphrasePromises ==
  ASSUME NEW o, WrittenAs(o, wrote), ChangedFrom(file, o), NEW x
  PROVE  LET g == DecryptPassphrase(file, x, DefaultCost) IN
         Promised(file, o, wrote, g) /\ Inspected(file, wrote, g)
<1> DEFINE g == DecryptPassphrase(file, x, DefaultCost)
<1>1. \/ g = Refused
      \/ ReadBody(file) /\ ReadKdf(file) /\ g = OpenChunks(file, DeriveKey(x, file.kdf), Chunk)
  BY DEF DecryptPassphrase
<1> HIDE DEF g
<1>2. CASE g = Refused
  <2>1. ~g.ok
    BY <1>2 DEF Refused
  <2> QED BY <1>2, <2>1, RefusedIs DEF Inspected, g
<1>3. CASE ReadBody(file) /\ ReadKdf(file) /\ g = OpenChunks(file, DeriveKey(x, file.kdf), Chunk)
  <2>1. file.layout = "v10"
    BY <1>3 DEF ReadKdf
  <2>2. ~NoSuchVersion(file) /\ wrote.layout \notin {"v6", "stealth"}
    BY <1>3, <2>1, Parsed DEF NoSuchVersion
  <2>3. Promised(file, o, wrote, g)
    BY <1>3, <2>2, ChunksPromise, NatFields
  <2> QED BY <1>3, <2>2, <2>3 DEF Inspected, g
<1> QED BY <1>1, <1>2, <1>3

LEMMA TlockPromises ==
  ASSUME NEW o, WrittenAs(o, wrote), ChangedFrom(file, o), NEW relay
  PROVE  LET g == DecryptTlock(file, relay) IN
         Promised(file, o, wrote, g) /\ Inspected(file, wrote, g)
<1> DEFINE g == DecryptTlock(file, relay)
<1>1. \/ g = Refused
      \/ ReadBody(file) /\ ReadLock(file) /\ g = OpenChunks(file, file.lock.ct[2], Chunk)
  BY DEF DecryptTlock
<1> HIDE DEF g
<1>2. CASE g = Refused
  <2>1. ~g.ok
    BY <1>2 DEF Refused
  <2> QED BY <1>2, <2>1, RefusedIs DEF Inspected, g
<1>3. CASE ReadBody(file) /\ ReadLock(file) /\ g = OpenChunks(file, file.lock.ct[2], Chunk)
  <2>1. file.layout = "tlock"
    BY <1>3 DEF ReadLock
  <2>2. ~NoSuchVersion(file) /\ wrote.layout \notin {"v6", "stealth"}
    BY <1>3, <2>1, Parsed DEF NoSuchVersion
  <2>3. Promised(file, o, wrote, g)
    BY <1>3, <2>2, ChunksPromise, NatFields
  <2> QED BY <1>3, <2>2, <2>3 DEF Inspected, g
<1> QED BY <1>1, <1>2, <1>3

LEMMA NothingElse == ASSUME ContainersInv PROVE NeverOther
<1> SUFFICES ASSUME file # None, NEW r \in Readings
             PROVE  /\ wrote.layout = "v2" \/ Authenticated(file) =>
                         IF r.gives.ok THEN r.gives.text = Expected ELSE IsPrefix(r.gives.text, wrote.text)
                    /\ r.gives.ok => /\ file.size = wrote.size
                                     /\ wrote.layout # "stealth" => InspectStream(file).size = file.size
  BY DEF NeverOther
<1> DEFINE g == r.gives
<1>1. PICK o : WrittenAs(o, wrote) /\ ChangedFrom(file, o)
  BY DEF ContainersInv, Written
<1>2. Reading(file, r.by, r.with, g)
  BY ReadingsAre
<1>3. Promised(file, o, wrote, g) /\ Inspected(file, wrote, g)
  <2>1. CASE r.by \in KeyReaders /\ r.with \in Keys /\ KeyReads(file, r.with, r.by, g)
    BY <1>1, <2>1, KeyPromises
  <2>2. CASE g = DecryptStealth(file, r.with)
    BY <1>1, <2>2, StealthPromises DEF Inspected
  <2>3. CASE g = DecryptPassphrase(file, r.with, DefaultCost)
    BY <1>1, <2>3, PassphrasePromises
  <2>4. CASE g = DecryptTlock(file, r.with)
    BY <1>1, <2>4, TlockPromises
  <2> QED BY <1>2, <2>1, <2>2, <2>3, <2>4 DEF Reading
<1>4. wrote.text \in Seq(Int)
  BY <1>1, TextsAre DEF WrittenAs, HeaderFor
<1> HIDE DEF g
<1>5. Begins(g.text, wrote.text) => IsPrefix(g.text, wrote.text)
  BY <1>4, BeginsIs
<1>6. ReadBody(file) /\ ~NoSuchVersion(file) => InspectStream(file).size = file.size
  BY DEF InspectStream
<1> QED BY <1>3, <1>5, <1>6 DEF Promised, Inspected, Authenticated, g

\* No change storage makes gives a reader another text than the one written: a
\* whole reading is the text, and one that ends in an error has given a
\* beginning of it; and the size a whole reading was declared with is the size
\* the file was written with.
THEOREM NeverOtherHolds == Spec => []NeverOther
BY ContainersInvariant, NothingElse, PTL

-----------------------------------------------------------------------------
(* Random access. *)

LEMMA Divided ==
  ASSUME NEW a \in Nat, NEW d \in Nat \ {0}
  PROVE  /\ a \div d \in Nat /\ a % d \in 0 .. d - 1 /\ a = d * (a \div d) + (a % d)
         /\ (a + d) \div d = (a \div d) + 1
OBVIOUS

LEMMA Quotient ==
  ASSUME NEW a \in Nat, NEW d \in Nat \ {0}, NEW q \in Nat, NEW r \in 0 .. d - 1, a = q * d + r
  PROVE  a \div d = q
<1>1. a = d * q + r
  OBVIOUS
<1> QED BY <1>1

\* How many blocks of u bytes a length is taken for: one more than go into it without its last byte.
LEMMA CeilIs ==
  ASSUME NEW a \in Nat \ {0}, NEW u \in Nat \ {0}
  PROVE  CeilDiv(a, u) = (a - 1) \div u + 1
<1>1. a - 1 \in Nat /\ a + u - 1 = (a - 1) + u
  OBVIOUS
<1> QED BY <1>1, Divided DEF CeilDiv

\* A length of q whole blocks and a piece.
LEMMA CeilOf ==
  ASSUME NEW q \in Nat, NEW u \in Nat \ {0}, NEW r \in 1 .. u, NEW a, a = q * u + r
  PROVE  a \in Nat \ {0} /\ (a - 1) \div u = q /\ CeilDiv(a, u) = q + 1
<1> DEFINE p == q * u
<1>1. p \in Nat
  OBVIOUS
<1>2. a \in Nat \ {0} /\ a - 1 \in Nat /\ a - 1 = p + (r - 1) /\ r - 1 \in 0 .. u - 1
  <2>1. a = p + r
    OBVIOUS
  <2> HIDE DEF p
  <2> QED BY <1>1, <2>1
<1>3. (a - 1) \div u = q
  <2>1. a - 1 = q * u + (r - 1)
    BY <1>2
  <2> HIDE DEF p
  <2> QED BY <1>2, <2>1, Quotient
<1>4. CeilDiv(a, u) = (a - 1) \div u + 1
  BY <1>2, CeilIs
<1> QED BY <1>2, <1>3, <1>4

\* The chunk size a file of two layouts states is one chunks can have.
LEMMA ChunkStated ==
  ASSUME NEW f, NEW o, NEW w, WrittenAs(o, w), ChangedFrom(f, o), ReadBody(f), f.layout \in Chunked
  PROVE  f.chunk \in Nat \ {0} /\ w.layout \in {"v2", "v3", "v5"}
<1>1. w.layout \in {"v2", "v3", "v5"} /\ w.layout # "stealth" /\ o.layout = w.layout
  BY Parsed DEF Chunked
<1>2. CASE f.layout = "v5"
  <2>1. ReadSingle(f)
    BY <1>2, BodyLayouts DEF Slotted
  <2>2. f.chunk \in 1 .. MaxChunk
    BY <1>2, <2>1 DEF ReadSingle, ValidateChunkSize
  <2> QED BY <1>1, <2>2, ChunkIs
<1>3. CASE f.layout = "v3"
  <2>1. f.wire = "single"
    BY <1>3 DEF ReadBody, Shape
  <2>2. f.chunk = o.chunk /\ o.chunk \in 1 .. MaxChunk
    BY <2>1 DEF ChangedFrom, WrittenAs, HeaderFor
  <2> QED BY <1>1, <2>2, ChunkIs
<1> QED BY <1>2, <1>3 DEF Chunked

\* What a whole reading of a file's chunks says of them.
LEMMA WholeReading ==
  ASSUME NEW f, NEW o, NEW w, WrittenAs(o, w), ChangedFrom(f, o), w.layout # "v2", NEW key,
         NEW c \in Nat \ {0}, NEW n, n = CeilDiv(RegionLen(f), c + Tag), n > 0,
         \A i \in 1 .. n : OpensAs(f, i, n, key, c, Commitment(f, key))
  PROVE  LET S == SealedText(w) IN
         /\ n \in Nat \ {0} /\ n = Len(f.blocks) /\ n = CountOf(S, o.chunk)
         /\ \A i \in 1 .. n : i # n => Len(f.blocks[i].data) = c
         /\ Len(f.blocks[n].data) \in 0 .. c
         /\ RegionLen(f) = (n - 1) * (c + Tag) + Len(f.blocks[n].data) + Tag
         /\ RegionLen(f) \in Nat \ {0} /\ (RegionLen(f) - 1) \div (c + Tag) = n - 1
<1> DEFINE S == SealedText(w)
           N == CountOf(S, o.chunk)
           u == c + Tag
           last == Len(f.blocks[n].data)
<1>0. BlocksOk(f) /\ Tag \in Nat \ {0} /\ u \in Nat \ {0}
  BY SizesAssumption DEF ChangedFrom
<1>1. n \in Nat \ {0}
  <2>1. n \in Nat
    BY <1>0, BlocksCounted
  <2> QED BY <2>1
<1>2. /\ N \in Nat \ {0} /\ Len(f.blocks) \in Nat /\ Len(f.blocks) <= N
      /\ \A i \in 1 .. N : o.blocks[i] = Block(o, SealedUnder(o, w), i - 1, i = N,
                                 Commitment(o, SealedUnder(o, w)), PieceOf(S, o.chunk, i))
      /\ \A i \in 1 .. Len(f.blocks) : i \in 1 .. N /\ f.blocks[i] = o.blocks[i]
  BY Chunks
<1> HIDE DEF S, N, u
<1>3. n \in 1 .. n /\ n <= Len(f.blocks) /\ n \in 1 .. Len(f.blocks) /\ n \in 1 .. N
      /\ f.blocks[n].last = (n = n)
  <2>1. n \in 1 .. n /\ n \in Nat
    BY <1>1
  <2>2. OpensAs(f, n, n, key, c, Commitment(f, key))
    BY <2>1
  <2>3. n <= Len(f.blocks) /\ f.blocks[n].last = (n = n)
    BY <2>1, <2>2, OpensUnder
  <2> QED BY <1>1, <1>2, <2>1, <2>3
<1>4. n = N
  <2>1. f.blocks[n] = Block(o, SealedUnder(o, w), n - 1, n = N,
                            Commitment(o, SealedUnder(o, w)), PieceOf(S, o.chunk, n))
    BY <1>2, <1>3
  <2>2. f.blocks[n].last = (n = N)
    BY <2>1 DEF Block
  <2> QED BY <1>3, <2>2
<1>5. n = Len(f.blocks)
  BY <1>2, <1>3, <1>4
<1>6. \A i \in 1 .. n : i # n => Len(f.blocks[i].data) = c
  <2> SUFFICES ASSUME NEW i \in 1 .. n, i # n PROVE Len(f.blocks[i].data) = c
    OBVIOUS
  <2>1. OpensAs(f, i, n, key, c, Commitment(f, key))
    OBVIOUS
  <2> QED BY <2>1 DEF OpensAs
<1>7. last \in Nat /\ f.rest \in Nat
  BY <1>0, <1>3, BlocksAre
<1>8. last = c \/ (f.rest = 0 /\ last < c)
  <2>1. OpensAs(f, n, n, key, c, Commitment(f, key))
    BY <1>3
  <2> QED BY <2>1 DEF OpensAs
<1> DEFINE others == (n - 1) * u
<1>9. RegionLen(f) = f.rest + others + last + Tag
  <2>1. FullBefore(f, n, c)
    BY <1>5, <1>6 DEF FullBefore
  <2>2. c \in Nat
    OBVIOUS
  <2>3. RegionLen(f) = f.rest + (n - 1) * (c + Tag) + Len(f.blocks[n].data) + Tag
    BY <1>0, <1>1, <1>5, <2>1, <2>2, RegionFull
  <2> QED BY <2>3 DEF u
<1>10. others \in Nat /\ n - 1 \in Nat
  <2>1. n - 1 \in Nat
    BY <1>1
  <2> QED BY <1>0, <2>1
<1>11. f.rest = 0
  <2> SUFFICES ASSUME f.rest # 0 PROVE FALSE
    OBVIOUS
  <2>1. last = c /\ u = c + Tag
    BY <1>8 DEF u
  <2> DEFINE all == n * u
  <2>2. all = others + u /\ all \in Nat
    <3>1. n = (n - 1) + 1
      BY <1>1
    <3> DEFINE m == n - 1
    <3>2. n = m + 1 /\ m \in Nat /\ others = m * u
      BY <1>10, <3>1
    <3> HIDE DEF m, others
    <3>3. (m + 1) * u = m * u + u /\ m * u \in Nat
      BY <1>0, <3>2, Products
    <3>4. all = m * u + u
      BY <3>2, <3>3
    <3> DEFINE mu == m * u
    <3>5. mu \in Nat /\ all = mu + u /\ others = mu
      BY <3>2, <3>3, <3>4
    <3> HIDE DEF mu, all
    <3> QED BY <1>0, <3>5
  <2> HIDE DEF others, last
  <2> DEFINE a == RegionLen(f)
  <2>3. a = all + f.rest /\ a - 1 = all + (f.rest - 1) /\ f.rest - 1 \in Nat /\ a \in Nat \ {0}
    <3> HIDE DEF all, a
    <3>1. a = f.rest + others + last + Tag
      BY <1>9 DEF a
    <3> QED BY <1>0, <1>7, <1>10, <2>1, <2>2, <3>1
  <2>4. n = (a - 1) \div u + 1
    <3>1. CeilDiv(a, u) = (a - 1) \div u + 1
      <4> HIDE DEF a
      <4> QED BY <1>0, <2>3, CeilIs
    <3> QED BY <3>1 DEF u
  <2> DEFINE q == (a - 1) \div u
             r == (a - 1) % u
             b == a - 1
  <2>5. q \in Nat /\ r \in 0 .. u - 1 /\ b = q * u + r
    <3>1. b \in Nat /\ q = b \div u /\ r = b % u
      <4> HIDE DEF a
      <4> QED BY <2>3
    <3> HIDE DEF a, b, q, r
    <3>2. q \in Nat /\ r \in 0 .. u - 1 /\ b = u * q + r
      BY <1>0, <3>1, Divided
    <3>3. u * q = q * u
      BY <1>0, <3>2
    <3> QED BY <3>2, <3>3
  <2>6. q = n - 1
    <3> HIDE DEF q
    <3>1. n = q + 1
      BY <2>4 DEF q
    <3> QED BY <3>1, <2>5
  <2>7. q * u = others
    BY <2>6 DEF others
  <2>8. b = all + (f.rest - 1)
    BY <2>3
  <2> HIDE DEF a, b, q, r, all
  <2>9. others + r = others + u + (f.rest - 1)
    <3>1. b = others + r
      BY <2>5, <2>7
    <3> QED BY <2>2, <2>8, <3>1
  <2> QED BY <1>0, <1>10, <2>3, <2>5, <2>9
<1>12. RegionLen(f) = others + (last + Tag) /\ RegionLen(f) = others + last + Tag /\ last + Tag \in 1 .. u
       /\ last \in 0 .. c
  <2> HIDE DEF others, last
  <2> QED BY <1>0, <1>7, <1>8, <1>9, <1>10, <1>11 DEF u
<1>13. RegionLen(f) \in Nat \ {0} /\ (RegionLen(f) - 1) \div u = n - 1
  <2> DEFINE m == n - 1
             x == last + Tag
             a == RegionLen(f)
  <2>1. m \in Nat /\ x \in 1 .. u /\ a = m * u + x
    BY <1>10, <1>12
  <2> HIDE DEF m, x, a
  <2>2. a \in Nat \ {0} /\ (a - 1) \div u = m
    BY <1>0, <2>1, CeilOf
  <2> QED BY <2>2 DEF m, a
<1> QED BY <1>1, <1>4, <1>5, <1>6, <1>12, <1>13 DEF N, S, u

\* Where in a text of pieces of size d the i-th block's text lies.
Lies(f, S, d, i) ==
  LET b == f.blocks[i].data from == (i - 1) * d IN
  /\ i * d = from + d /\ from \in Nat
  /\ i # CountOf(S, d) => Len(b) = d
  /\ i = CountOf(S, d) => Len(b) = Len(S) - from
  /\ \A j \in 1 .. Len(b) : b[j] = S[from + j]

LEMMA BlocksAt ==
  ASSUME NEW f, NEW o, NEW w, WrittenAs(o, w), ChangedFrom(f, o), w.layout # "v2"
  PROVE  \A i \in 1 .. Len(f.blocks) : Lies(f, SealedText(w), o.chunk, i)
<1> SUFFICES ASSUME NEW i \in 1 .. Len(f.blocks) PROVE Lies(f, SealedText(w), o.chunk, i)
  OBVIOUS
<1> DEFINE S    == SealedText(w)
           d    == o.chunk
           N    == CountOf(S, d)
           b    == f.blocks[i].data
           from == (i - 1) * d
           to   == Least(i * d, Len(S))
<1>1. /\ d \in Nat \ {0} /\ S \in Seq(Int) /\ N \in Nat \ {0} /\ Len(f.blocks) <= N
      /\ i \in 1 .. N /\ b = PieceOf(S, d, i)
  BY Chunks
<1> HIDE DEF S, d, b
<1>2. /\ from \in 0 .. Len(S) /\ to \in from .. Len(S) /\ i * d = from + d
      /\ i # N => to = i * d
      /\ i = N => to = Len(S)
      /\ PieceOf(S, d, i) \in Seq(Int) /\ Len(PieceOf(S, d, i)) = to - from
      /\ \A j \in 1 .. to - from : PieceOf(S, d, i)[j] = S[from + j]
  BY <1>1, PieceIs
<1>3. from \in Nat
  BY <1>2
<1> HIDE DEF from, to, N
<1>4. Len(b) = to - from /\ \A j \in 1 .. Len(b) : b[j] = S[from + j]
  BY <1>1, <1>2
<1>5. i # N => Len(b) = d
  BY <1>1, <1>2, <1>3, <1>4
<1> QED BY <1>1, <1>2, <1>3, <1>4, <1>5 DEF Lies, S, d, N, b, from

\* Every block but the last is full, and the text is theirs, position by position.
FullBlocks(f, c, n) == /\ \A i \in 1 .. n : i # n => Len(f.blocks[i].data) = c
                       /\ Len(f.blocks[n].data) \in 0 .. c
InPlace(f, S, c, n) ==
  /\ Len(S) \in Nat /\ Len(S) = (n - 1) * c + Len(f.blocks[n].data)
  /\ \A at \in Nat : at < Len(S) => /\ at \div c + 1 \in 1 .. n
                                    /\ f.blocks[at \div c + 1].data[(at % c) + 1] = S[at + 1]

\* Every byte of the text is in the block a position finds.
LEMMA ByteIs ==
  ASSUME NEW f, NEW o, NEW w, WrittenAs(o, w), ChangedFrom(f, o), w.layout # "v2", NEW c \in Nat \ {0},
         NEW n \in Nat \ {0}, n = Len(f.blocks), n = CountOf(SealedText(w), o.chunk),
         FullBlocks(f, c, n)
  PROVE  InPlace(f, SealedText(w), c, n)
<1> DEFINE S == SealedText(w)
           d == o.chunk
           Data(i) == f.blocks[i].data
           most == (n - 1) * c
           l == Len(Data(n))
<1>0. (\A i \in 1 .. n : i # n => Len(Data(i)) = c) /\ Len(Data(n)) \in 0 .. c
  BY DEF FullBlocks
<1>1. d \in Nat \ {0} /\ S \in Seq(Int)
  BY Chunks
<1>2. \A i \in 1 .. Len(f.blocks) : Lies(f, S, d, i)
  BY BlocksAt
<1>3. \A i \in 1 .. n : /\ i * d = (i - 1) * d + d /\ (i - 1) * d \in Nat
                        /\ i # n => Len(Data(i)) = d
                        /\ i = n => Len(Data(i)) = Len(S) - (i - 1) * d
                        /\ \A j \in 1 .. Len(Data(i)) : Data(i)[j] = S[(i - 1) * d + j]
  <2>1. n = CountOf(S, d) /\ n = Len(f.blocks)
    OBVIOUS
  <2> HIDE DEF S, d
  <2> SUFFICES ASSUME NEW i \in 1 .. n
               PROVE  /\ i * d = (i - 1) * d + d /\ (i - 1) * d \in Nat
                      /\ i # n => Len(Data(i)) = d
                      /\ i = n => Len(Data(i)) = Len(S) - (i - 1) * d
                      /\ \A j \in 1 .. Len(Data(i)) : Data(i)[j] = S[(i - 1) * d + j]
    OBVIOUS
  <2>2. Lies(f, S, d, i)
    BY <1>2, <2>1
  <2> QED BY <2>1, <2>2 DEF Lies
<1> HIDE DEF S, d, Data
<1>4. \A i \in 1 .. n : (i - 1) * c = (i - 1) * d
  <2> SUFFICES ASSUME NEW i \in 1 .. n PROVE (i - 1) * c = (i - 1) * d
    OBVIOUS
  <2>1. CASE n = 1
    <3>1. i - 1 = 0
      BY <2>1
    <3> QED BY <1>1, <3>1
  <2>2. CASE n # 1
    <3>1. 1 \in 1 .. n /\ 1 # n
      BY <2>2
    <3>2. Len(Data(1)) = c
      BY <1>0, <3>1
    <3>3. Len(Data(1)) = d
      BY <1>3, <3>1
    <3> QED BY <3>2, <3>3
  <2> QED BY <2>1, <2>2
<1>5. n \in 1 .. n /\ l \in 0 .. c /\ \A i \in 1 .. n : i # n => Len(Data(i)) = c
  BY <1>0
<1>6. Len(S) = most + l /\ most \in Nat /\ Len(S) \in Nat
  <2>1. l = Len(S) - (n - 1) * d /\ (n - 1) * d \in Nat /\ (n - 1) * d = most
    BY <1>3, <1>4, <1>5
  <2>2. Len(S) \in Nat
    BY <1>1, LenProperties
  <2> HIDE DEF l, most
  <2>3. l = Len(S) - most /\ most \in Nat
    BY <2>1
  <2> QED BY <1>5, <2>2, <2>3
<1>7. ASSUME NEW at \in Nat, at < Len(S)
      PROVE  at \div c + 1 \in 1 .. n /\ Data(at \div c + 1)[(at % c) + 1] = S[at + 1]
  <2> DEFINE q == at \div c
             r == at % c
             qc == q * c
  <2>1. q \in Nat /\ r \in 0 .. c - 1 /\ at = qc + r
    <3>1. q \in Nat /\ r \in 0 .. c - 1 /\ at = c * q + r
      BY Divided
    <3> HIDE DEF q, r
    <3>2. c * q = q * c
      BY <3>1
    <3> QED BY <3>1, <3>2
  <2> HIDE DEF q, r
  <2>2. qc \in Nat
    BY <2>1
  <2>3. q <= n - 1
    <3> SUFFICES ASSUME n <= q PROVE FALSE
      BY <2>1
    <3>1. most + c <= qc
      <4>1. n * c <= q * c /\ (n - 1 + 1) * c = (n - 1) * c + c
        <5>1. n - 1 \in Nat /\ n \in Nat
          OBVIOUS
        <5>2. n * c <= q * c
          BY <2>1, <5>1, Products
        <5> DEFINE m == n - 1
        <5>3. m \in Nat
          BY <5>1
        <5> HIDE DEF m
        <5>4. (m + 1) * c = m * c + c
          BY <5>3, Products
        <5> QED BY <5>2, <5>4 DEF m
      <4>2. n - 1 + 1 = n
        OBVIOUS
      <4> QED BY <4>1, <4>2
    <3> HIDE DEF qc, most, l
    <3> QED BY <1>5, <1>6, <1>7, <2>1, <2>2, <3>1
  <2> DEFINE i == q + 1
  <2>4. i \in 1 .. n /\ i - 1 = q
    BY <2>1, <2>3
  <2>5. (i - 1) * d = qc
    <3>1. (i - 1) * c = (i - 1) * d
      BY <1>4, <2>4
    <3> QED BY <2>4, <3>1
  <2>6. r + 1 \in 1 .. Len(Data(i))
    <3>1. CASE i # n
      <4>1. Len(Data(i)) = c
        BY <1>5, <2>4, <3>1
      <4> HIDE DEF i
      <4> QED BY <2>1, <4>1
    <3>2. CASE i = n
      <4>1. qc = most /\ Len(Data(i)) = l
        BY <2>4, <3>2
      <4> HIDE DEF qc, most, l, i
      <4> QED BY <1>5, <1>6, <1>7, <2>1, <4>1
    <3> QED BY <3>1, <3>2
  <2> HIDE DEF i
  <2>7. Data(i)[r + 1] = S[(i - 1) * d + (r + 1)]
    BY <1>3, <2>4, <2>6
  <2>8. (i - 1) * d + (r + 1) = at + 1
    <3> HIDE DEF qc
    <3> QED BY <2>1, <2>2, <2>5
  <2>9. Data(i)[r + 1] = S[at + 1]
    BY <2>7, <2>8
  <2> QED BY <2>4, <2>9 DEF i, q, r
<1> HIDE DEF l, most
<1> QED BY <1>6, <1>7 DEF InPlace, S, Data, l, most

\* Reading a file of two layouts from end to end.
LEMMA StreamOf ==
  ASSUME NEW f, NEW k, f.layout \in Chunked
  PROVE  DecryptStream(f, k) = IF ReadBody(f) /\ SingleKey(f, k) # None
                               THEN OpenChunks(f, SingleKey(f, k), f.chunk) ELSE Refused
<1> DEFINE key == SingleKey(f, k)
<1>1. f.layout \notin {"v2", "v6", "v10", "tlock"} /\ f.layout \notin Slotted /\ ~NoSuchVersion(f)
  BY DEF Chunked, Slotted, NoSuchVersion
<1>2. CASE ~ReadBody(f)
  BY <1>2 DEF DecryptStream
<1>3. CASE ReadBody(f)
  <2>1. ReadSingle(f)
    BY <1>1, <1>3, BodyLayouts
  <2>2. DecryptStream(f, k) = CASE key = None -> Refused [] f.layout = "v2" -> OpenWhole(f, key)
          [] f.layout = "v6" -> DecryptV6(f, key) [] OTHER -> OpenChunks(f, key, f.chunk)
    BY <1>1, <1>3, <2>1 DEF DecryptStream
  <2> HIDE DEF key
  <2>3. DecryptStream(f, k) = IF key # None THEN OpenChunks(f, key, f.chunk) ELSE Refused
    BY <1>1, <2>2
  <2> QED BY <1>3, <2>3 DEF key
<1> QED BY <1>2, <1>3

\* Where a seekable reader starts, or why it does not.
LEMMA SeekIs ==
  ASSUME NoneIsApart, NEW f, NEW k, f.layout \in Chunked
  PROVE  LET s == SeekOpen(f, k) region == RegionLen(f)
             full == (region - 1) \div (f.chunk + Tag) IN
         \/ s = None /\ (~ReadBody(f) \/ SingleKey(f, k) = None \/ region < Tag)
         \/ /\ s # None /\ ReadBody(f) /\ SingleKey(f, k) # None /\ ~(region < Tag)
            /\ s = [key |-> SingleKey(f, k), chunk |-> f.chunk, size |-> f.size, chunks |-> full + 1,
                    lastLen |-> region - full * (f.chunk + Tag) - Tag]
<1> DEFINE st == ReaderInit(f, k)
           region == RegionLen(f)
           Full(c) == (region - 1) \div (c + Tag)
           Rec(t) == [key |-> t.key, chunk |-> t.chunk, size |-> t.size, chunks |-> Full(t.chunk) + 1,
                      lastLen |-> region - Full(t.chunk) * (t.chunk + Tag) - Tag]
           init == [key |-> SingleKey(f, k), chunk |-> f.chunk, size |-> f.size]
<1>1. SeekOpen(f, k) = IF st = None \/ region < Tag THEN None ELSE Rec(st)
  BY DEF SeekOpen
<1>2. f.layout \notin {"v2", "v6", "v10", "tlock"} /\ f.layout \notin Slotted /\ ~NoSuchVersion(f)
  BY DEF Chunked, Slotted, NoSuchVersion
<1>3. st = IF ~ReadBody(f) THEN None ELSE IF SingleKey(f, k) = None THEN None ELSE init
  BY <1>2 DEF ReaderInit
<1>4. init # None /\ init.key = SingleKey(f, k) /\ init.chunk = f.chunk /\ init.size = f.size
  BY DEF NoneIsApart
<1>5. Rec(init) = [key |-> SingleKey(f, k), chunk |-> f.chunk, size |-> f.size, chunks |-> Full(f.chunk) + 1,
                   lastLen |-> region - Full(f.chunk) * (f.chunk + Tag) - Tag]
  <2> HIDE DEF init, Full
  <2> QED BY <1>4
<1>6. Rec(init) # None
  BY <1>5 DEF NoneIsApart
<1> HIDE DEF st, region, init, Rec
<1>7. \/ SeekOpen(f, k) = None /\ (~ReadBody(f) \/ SingleKey(f, k) = None \/ region < Tag)
      \/ /\ SeekOpen(f, k) # None /\ ReadBody(f) /\ SingleKey(f, k) # None /\ ~(region < Tag)
         /\ SeekOpen(f, k) = Rec(init)
  BY <1>1, <1>3, <1>4, <1>6
<1> QED BY <1>5, <1>7 DEF region

\* A payload too short for one tag does not open.
LEMMA TooShort ==
  ASSUME NEW f, BlocksOk(f), NEW key, NEW c \in Nat, RegionLen(f) < Tag
  PROVE  ~OpenChunks(f, key, c).ok
<1> DEFINE n == CeilDiv(RegionLen(f), c + Tag)
           r == OpenChunks(f, key, c)
<1>1. n \in Nat
  BY BlocksCounted
<1>2. PICK j \in 0 .. n :
        /\ \A i \in 1 .. j : OpensAs(f, i, n, key, c, Commitment(f, key))
        /\ r = [ok |-> n > 0 /\ j = n, text |-> FlattenSeq([i \in 1 .. j |-> f.blocks[i].data])]
  <2> HIDE DEF r
  <2> QED BY OpenRun DEF r
<1> HIDE DEF r, n
<1> SUFFICES ASSUME r.ok PROVE FALSE
  BY DEF r
<1>3. n > 0 /\ j = n
  BY <1>2
<1>4. 1 \in 1 .. j
  BY <1>1, <1>3
<1>5. OpensAs(f, 1, n, key, c, Commitment(f, key))
  BY <1>2, <1>4
<1>6. 1 <= Len(f.blocks)
  BY <1>5 DEF OpensAs
<1> QED BY <1>6, RegionBounds, SizesAssumption

\* What a seekable reader finds in a payload it has opened.
LEMMA SeekOf ==
  ASSUME NEW f, BlocksOk(f), NEW key, NEW c \in Nat \ {0}, NEW s, NEW size, ~(RegionLen(f) < Tag),
         s = [key |-> key, chunk |-> c, size |-> size, chunks |-> (RegionLen(f) - 1) \div (c + Tag) + 1,
              lastLen |-> RegionLen(f) - ((RegionLen(f) - 1) \div (c + Tag)) * (c + Tag) - Tag]
  PROVE  LET n == CeilDiv(RegionLen(f), c + Tag) r == OpenChunks(f, key, c) IN
         /\ n \in Nat /\ n > 0 /\ s.chunks = n /\ s.chunk = c
         /\ s.lastLen = RegionLen(f) - (n - 1) * (c + Tag) - Tag
         /\ \A i : ReadChunk(f, s, i) <=> OpensAs(f, i, n, key, c, Commitment(f, key))
         /\ r.ok <=> \A i \in 1 .. n : OpensAs(f, i, n, key, c, Commitment(f, key))
<1> DEFINE n == CeilDiv(RegionLen(f), c + Tag)
           r == OpenChunks(f, key, c)
           u == c + Tag
           a == RegionLen(f)
           full == (a - 1) \div u
<1>1. a \in Nat \ {0} /\ a - 1 \in Nat /\ u \in Nat \ {0}
  <2>1. a \in Nat /\ Tag \in Nat \ {0}
    BY RegionBounds, SizesAssumption
  <2> HIDE DEF a
  <2>2. ~(a < Tag)
    BY DEF a
  <2> QED BY <2>1, <2>2
<1> HIDE DEF a, u
<1>2. CeilDiv(a, u) = full + 1 /\ full \in Nat
  BY <1>1, CeilIs, Divided
<1>3. n = full + 1
  BY <1>2 DEF a, u
<1>4. s.key = key /\ s.chunk = c /\ s.chunks = full + 1 /\ s.lastLen = a - full * u - Tag
  BY DEF a, u
<1> HIDE DEF full
<1>5. n \in Nat /\ n > 0 /\ full = n - 1
  <2> HIDE DEF n
  <2> QED BY <1>2, <1>3
<1>6. s.chunks = n /\ s.lastLen = a - (n - 1) * u - Tag
  <2> HIDE DEF n
  <2> QED BY <1>3, <1>4, <1>5
<1>7. PICK j \in 0 .. n :
        /\ \A i \in 1 .. j : OpensAs(f, i, n, key, c, Commitment(f, key))
        /\ (\A i \in 1 .. n : OpensAs(f, i, n, key, c, Commitment(f, key))) => j = n
        /\ r = [ok |-> n > 0 /\ j = n, text |-> FlattenSeq([i \in 1 .. j |-> f.blocks[i].data])]
  <2> HIDE DEF r
  <2> QED BY OpenRun DEF r
<1>8. \A i : ReadChunk(f, s, i) <=> OpensAs(f, i, n, key, c, Commitment(f, key))
  <2> HIDE DEF n
  <2> QED BY <1>4, <1>6 DEF ReadChunk
<1>9. r.ok <=> \A i \in 1 .. n : OpensAs(f, i, n, key, c, Commitment(f, key))
  <2> HIDE DEF n
  <2>1. r.ok = (n > 0 /\ j = n)
    <3> HIDE DEF r
    <3> QED BY <1>7
  <2> QED BY <1>5, <1>7, <2>1
<1> QED BY <1>4, <1>5, <1>6, <1>8, <1>9 DEF a, u

\* Every position of an opened file holds its byte.
LEMMA SeekFinds ==
  ASSUME NEW f, NEW o, NEW w, WrittenAs(o, w), ChangedFrom(f, o), NEW key, NEW c \in Nat \ {0}, NEW s,
         NEW n \in Nat, n = CeilDiv(RegionLen(f), c + Tag), n > 0, s.chunks = n, s.chunk = c,
         s.lastLen = RegionLen(f) - (n - 1) * (c + Tag) - Tag,
         \A i : ReadChunk(f, s, i) <=> OpensAs(f, i, n, key, c, Commitment(f, key)),
         \A i \in 1 .. n : OpensAs(f, i, n, key, c, Commitment(f, key)),
         OpenChunks(f, key, c).ok, NEW at \in Nat
  PROVE  LET text == OpenChunks(f, key, c).text IN
         SeekRead(f, s, at) = IF at < Len(text) THEN text[at + 1] ELSE None
<1> DEFINE S == SealedText(w)
           r == OpenChunks(f, key, c)
           last == Len(f.blocks[n].data)
           most == (n - 1) * c
           i == at \div c + 1
<1>1. Reads(f, o, w, key, r)
  BY OpenChunksReads
<1>2. w.layout # "v2" /\ r.text = S
  BY <1>1 DEF Reads
<1>3. /\ n \in Nat \ {0} /\ n = Len(f.blocks) /\ n = CountOf(S, o.chunk)
      /\ \A j \in 1 .. n : j # n => Len(f.blocks[j].data) = c
      /\ last \in 0 .. c
      /\ RegionLen(f) = (n - 1) * (c + Tag) + last + Tag
      /\ RegionLen(f) \in Nat \ {0} /\ (RegionLen(f) - 1) \div (c + Tag) = n - 1
  BY <1>2, WholeReading
<1>4. /\ Len(S) \in Nat /\ Len(S) = most + last
      /\ \A p \in Nat : p < Len(S) => /\ p \div c + 1 \in 1 .. n
                                       /\ f.blocks[p \div c + 1].data[(p % c) + 1] = S[p + 1]
  <2>1. FullBlocks(f, c, n)
    BY <1>3 DEF FullBlocks
  <2>2. InPlace(f, S, c, n)
    BY <1>2, <1>3, <2>1, ByteIs
  <2> QED BY <2>2 DEF InPlace
<1>5. s.lastLen = last
  <2> DEFINE others == (n - 1) * (c + Tag)
             a == RegionLen(f)
  <2>1. others \in Nat /\ a = others + last + Tag /\ s.lastLen = a - others - Tag /\ last \in Nat
    <3>0. Tag \in Nat
      BY SizesAssumption
    <3>1. n - 1 \in Nat /\ c + Tag \in Nat
      BY <3>0
    <3>2. others \in Nat
      BY <3>1, Products
    <3>3. a = others + last + Tag
      BY <1>3
    <3>4. last \in Nat
      <4>1. last \in 0 .. c /\ c \in Nat
        BY <1>3
      <4> HIDE DEF last
      <4> QED BY <4>1
    <3>5. s.lastLen = a - others - Tag
      OBVIOUS
    <3> QED BY <3>2, <3>3, <3>4, <3>5
  <2> HIDE DEF others, a, last
  <2> QED BY <2>1, SizesAssumption
<1>6. SeekLen(s) = Len(S)
  <2>1. SeekLen(s) = most + s.lastLen
    BY DEF SeekLen
  <2> QED BY <1>4, <1>5, <2>1
<1>7. SeekRead(f, s, at) = IF at < SeekLen(s) /\ ReadChunk(f, s, i) THEN f.blocks[i].data[(at % c) + 1] ELSE None
  BY DEF SeekRead
<1> HIDE DEF S, r, most, last
<1>8. CASE at < Len(S)
  <2>1. i \in 1 .. n /\ f.blocks[i].data[(at % c) + 1] = S[at + 1]
    BY <1>4, <1>8
  <2> HIDE DEF i
  <2>2. ReadChunk(f, s, i)
    BY <2>1
  <2> QED BY <1>2, <1>6, <1>7, <1>8, <2>1, <2>2 DEF r
<1>9. CASE ~(at < Len(S))
  BY <1>2, <1>6, <1>7, <1>9 DEF r
<1> QED BY <1>8, <1>9

LEMMA SeekHolds == ASSUME NoneIsApart, ContainersInv PROVE SeekAgrees
<1> SUFFICES ASSUME file # None, NEW k \in Keys
             PROVE  LET s == SeekOpen(file, k) r == DecryptStream(file, k) IN
                    IF s = None THEN file.layout \in Chunked => ~r.ok
                    ELSE /\ r.ok <=> \A i \in 1 .. s.chunks : ReadChunk(file, s, i)
                         /\ r.ok => \A at \in 0 .. MaxText :
                                SeekRead(file, s, at) = IF at < Len(r.text) THEN r.text[at + 1] ELSE None
  BY DEF SeekAgrees
<1> DEFINE s == SeekOpen(file, k)
           r == DecryptStream(file, k)
           key == SingleKey(file, k)
           c == file.chunk
           n == CeilDiv(RegionLen(file), c + Tag)
<1>1. PICK o : WrittenAs(o, wrote) /\ ChangedFrom(file, o)
  BY DEF ContainersInv, Written
<1>2. BlocksOk(file) /\ c \in Nat
  BY <1>1, NatFields DEF ChangedFrom
<1>3. CASE file.layout \notin Chunked
  <2>1. s = None
    BY <1>3 DEF SeekOpen
  <2> HIDE DEF s, r
  <2>2. IF s = None THEN file.layout \in Chunked => ~r.ok
        ELSE /\ r.ok <=> \A i \in 1 .. s.chunks : ReadChunk(file, s, i)
             /\ r.ok => \A at \in 0 .. MaxText :
                    SeekRead(file, s, at) = IF at < Len(r.text) THEN r.text[at + 1] ELSE None
    BY <1>3, <2>1
  <2> QED BY <2>2 DEF s, r
<1>4. CASE file.layout \in Chunked
  <2>1. \/ s = None /\ (~ReadBody(file) \/ key = None \/ RegionLen(file) < Tag)
        \/ /\ s # None /\ ReadBody(file) /\ key # None /\ ~(RegionLen(file) < Tag)
           /\ s = [key |-> key, chunk |-> c, size |-> file.size,
                   chunks |-> (RegionLen(file) - 1) \div (c + Tag) + 1,
                   lastLen |-> RegionLen(file) - ((RegionLen(file) - 1) \div (c + Tag)) * (c + Tag) - Tag]
    BY <1>4, SeekIs
  <2>2. r = IF ReadBody(file) /\ key # None THEN OpenChunks(file, key, c) ELSE Refused
    BY <1>4, StreamOf
  <2> DEFINE Agrees == IF s = None THEN file.layout \in Chunked => ~r.ok
                       ELSE /\ r.ok <=> \A i \in 1 .. s.chunks : ReadChunk(file, s, i)
                            /\ r.ok => \A at \in 0 .. MaxText :
                                  SeekRead(file, s, at) = IF at < Len(r.text) THEN r.text[at + 1] ELSE None
  <2> HIDE DEF s, r, key, c
  <2>3. CASE s = None /\ (~ReadBody(file) \/ key = None \/ RegionLen(file) < Tag)
    <3>1. ~Refused.ok /\ (RegionLen(file) < Tag => ~OpenChunks(file, key, c).ok)
      BY <1>2, TooShort DEF Refused
    <3>2. ~r.ok
      BY <2>2, <2>3, <3>1
    <3>3. Agrees
      BY <2>3, <3>2
    <3> QED BY <3>3 DEF s, r
  <2>4. CASE /\ s # None /\ ReadBody(file) /\ key # None /\ ~(RegionLen(file) < Tag)
             /\ s = [key |-> key, chunk |-> c, size |-> file.size,
                     chunks |-> (RegionLen(file) - 1) \div (c + Tag) + 1,
                     lastLen |-> RegionLen(file) - ((RegionLen(file) - 1) \div (c + Tag)) * (c + Tag) - Tag]
    <3>1. c \in Nat \ {0}
      BY <1>1, <1>4, <2>4, ChunkStated DEF c
    <3>2. r = OpenChunks(file, key, c)
      BY <2>2, <2>4
    <3>3. /\ n \in Nat /\ n > 0 /\ s.chunks = n /\ s.chunk = c
          /\ s.lastLen = RegionLen(file) - (n - 1) * (c + Tag) - Tag
          /\ \A i : ReadChunk(file, s, i) <=> OpensAs(file, i, n, key, c, Commitment(file, key))
          /\ OpenChunks(file, key, c).ok <=> \A i \in 1 .. n : OpensAs(file, i, n, key, c, Commitment(file, key))
      <4> DEFINE size == file.size
      <4>1. s = [key |-> key, chunk |-> c, size |-> size, chunks |-> (RegionLen(file) - 1) \div (c + Tag) + 1,
                 lastLen |-> RegionLen(file) - ((RegionLen(file) - 1) \div (c + Tag)) * (c + Tag) - Tag]
        BY <2>4
      <4> HIDE DEF size
      <4> QED BY <1>2, <2>4, <3>1, <4>1, SeekOf
    <3>4. r.ok <=> \A i \in 1 .. s.chunks : ReadChunk(file, s, i)
      <4> HIDE DEF n
      <4> QED BY <3>2, <3>3
    <3>5. ASSUME r.ok, NEW at \in 0 .. MaxText
          PROVE  SeekRead(file, s, at) = IF at < Len(r.text) THEN r.text[at + 1] ELSE None
      <4>1. at \in Nat
        BY SizesAssumption
      <4>2. \A i \in 1 .. n : OpensAs(file, i, n, key, c, Commitment(file, key))
        BY <3>2, <3>3, <3>5
      <4>3. OpenChunks(file, key, c).ok
        BY <3>2, <3>5
      <4> DEFINE text == OpenChunks(file, key, c).text
      <4>4. SeekRead(file, s, at) = IF at < Len(text) THEN text[at + 1] ELSE None
        BY <1>1, <3>1, <3>3, <4>1, <4>2, <4>3, SeekFinds
      <4> QED BY <3>2, <4>4
    <3>6. Agrees
      BY <2>4, <3>4, <3>5
    <3> QED BY <3>6 DEF s, r
  <2> QED BY <2>1, <2>3, <2>4
<1> QED BY <1>3, <1>4

\* Random access gives what a reading from end to end gives, whatever storage
\* has changed: it starts only where a whole reading could, every chunk opens
\* exactly when the whole file does, and each position then holds its byte.
THEOREM SeekAgreesHolds == NoneIsApart => (Spec => []SeekAgrees)
<1> SUFFICES ASSUME NoneIsApart PROVE Spec => []SeekAgrees
  OBVIOUS
<1>1. ContainersInv => SeekAgrees
  BY SeekHolds
<1> QED BY <1>1, ContainersInvariant, PTL

-----------------------------------------------------------------------------
(* A file nothing has changed. *)

\* The lengths of the blocks that were written.
LEMMA WrittenLengths ==
  ASSUME NEW o, NEW w, WrittenAs(o, w), w.layout # "v2"
  PROVE  LET c == o.chunk N == CountOf(SealedText(w), c) IN
         /\ BlocksOk(o) /\ c \in Nat \ {0} /\ N \in Nat \ {0} /\ N = Len(o.blocks)
         /\ FullBlocks(o, c, N)
<1> DEFINE c == o.chunk
           S == SealedText(w)
           N == CountOf(S, c)
           most == (N - 1) * c
<1>1. ChangedFrom(o, o)
  BY JustWritten
<1>2. c \in Nat \ {0} /\ S \in Seq(Int) /\ N \in Nat \ {0} /\ Len(o.blocks) = N
  BY <1>1, Chunks
<1>3. \A i \in 1 .. Len(o.blocks) : Lies(o, S, c, i)
  BY <1>1, BlocksAt
<1> HIDE DEF c, S
<1>4. /\ most \in Nat /\ N * c = most + c /\ most <= Len(S) /\ Len(S) <= N * c /\ Len(S) \in Nat
  BY <1>2, CountIs
<1>5. ASSUME NEW i \in 1 .. N, i # N PROVE Len(o.blocks[i].data) = c
  <2>1. Lies(o, S, c, i)
    BY <1>2, <1>3
  <2> QED BY <1>5, <2>1 DEF Lies
<1>6. Len(o.blocks[N].data) \in 0 .. c
  <2>1. Lies(o, S, c, N)
    BY <1>2, <1>3
  <2>2. Len(o.blocks[N].data) = Len(S) - most
    BY <2>1 DEF Lies
  <2> DEFINE all == N * c
  <2>3. all = most + c /\ Len(S) <= all
    BY <1>4
  <2> HIDE DEF most, all, N
  <2> QED BY <1>2, <1>4, <2>2, <2>3
<1>7. FullBlocks(o, c, N)
  BY <1>5, <1>6 DEF FullBlocks
<1>8. BlocksOk(o)
  BY <1>1 DEF ChangedFrom
<1> QED BY <1>2, <1>7, <1>8 DEF c, S

\* Every block of it opens, and together they are the text.
LEMMA OpensAll ==
  ASSUME NEW o, NEW w, WrittenAs(o, w), w.layout # "v2"
  PROVE  OpenChunks(o, SealedUnder(o, w), o.chunk) = [ok |-> TRUE, text |-> SealedText(w)]
<1> DEFINE c == o.chunk
           S == SealedText(w)
           K == SealedUnder(o, w)
           N == CountOf(S, c)
           u == c + Tag
           last == Len(o.blocks[N].data)
           bound == Commitment(o, K)
<1>1. ChangedFrom(o, o) /\ o.rest = 0
  BY JustWritten DEF WrittenAs, HeaderFor
<1>2. /\ BlocksOk(o) /\ c \in Nat \ {0} /\ N \in Nat \ {0} /\ N = Len(o.blocks)
      /\ FullBlocks(o, c, N)
  BY WrittenLengths
<1>3. /\ S \in Seq(Int)
      /\ \A i \in 1 .. N : o.blocks[i] = Block(o, K, i - 1, i = N, bound, PieceOf(S, c, i))
      /\ \A i \in 1 .. Len(o.blocks) : o.blocks[i].data = PieceOf(S, c, i)
  BY <1>1, Chunks
<1> HIDE DEF S, K, bound, N
<1>4. (\A i \in 1 .. N : i # N => Len(o.blocks[i].data) = c) /\ last \in 0 .. c
  BY <1>2 DEF FullBlocks
<1>5. RegionLen(o) = (N - 1) * u + (last + Tag)
  <2>1. FullBefore(o, N, c)
    BY <1>2, <1>4 DEF FullBefore
  <2>2. RegionLen(o) = o.rest + (N - 1) * (c + Tag) + Len(o.blocks[N].data) + Tag
    BY <1>2, <2>1, RegionFull
  <2> DEFINE others == (N - 1) * u
  <2>3. RegionLen(o) = o.rest + others + last + Tag
    BY <2>2
  <2>4. others \in Nat /\ last \in Nat /\ Tag \in Nat
    <3>1. N - 1 \in Nat /\ u \in Nat /\ last \in Nat /\ Tag \in Nat
      <4> HIDE DEF last
      <4> QED BY <1>2, <1>4, SizesAssumption
    <3> HIDE DEF u
    <3> QED BY <3>1, Products
  <2>5. RegionLen(o) = others + (last + Tag)
    <3> HIDE DEF others, last
    <3> QED BY <1>1, <2>3, <2>4
  <2> QED BY <2>5
<1>6. CeilDiv(RegionLen(o), u) = N
  <2> DEFINE q == N - 1
             x == last + Tag
             a == RegionLen(o)
  <2>1. q \in Nat /\ u \in Nat \ {0} /\ x \in 1 .. u /\ q + 1 = N
    <3> HIDE DEF last
    <3> QED BY <1>2, <1>4, SizesAssumption
  <2>2. a = q * u + x
    BY <1>5
  <2> HIDE DEF q, x, u, a
  <2>3. CeilDiv(a, u) = q + 1
    BY <2>1, <2>2, CeilOf
  <2> QED BY <2>1, <2>3 DEF a
<1>7. \A i \in 1 .. N : OpensAs(o, i, N, K, c, bound)
  <2> SUFFICES ASSUME NEW i \in 1 .. N PROVE OpensAs(o, i, N, K, c, bound)
    OBVIOUS
  <2>1. i \in Nat /\ i <= Len(o.blocks)
    BY <1>2
  <2>2. \A j \in 1 .. i - 1 : Len(o.blocks[j].data) = c
    <3> SUFFICES ASSUME NEW j \in 1 .. i - 1 PROVE Len(o.blocks[j].data) = c
      OBVIOUS
    <3>1. j \in 1 .. N /\ j # N
      BY <1>2
    <3> QED BY <1>4, <3>1
  <2>3. Len(o.blocks[i].data) = c \/ (i = N /\ o.rest = 0 /\ Len(o.blocks[i].data) < c)
    <3>1. CASE i # N
      BY <1>4, <3>1
    <3>2. CASE i = N
      <4>1. last \in Nat /\ last <= c /\ Len(o.blocks[i].data) = last
        BY <1>2, <1>4, <3>2
      <4> HIDE DEF last
      <4>2. last = c \/ last < c
        BY <1>2, <4>1
      <4> QED BY <1>1, <3>2, <4>1, <4>2
    <3> QED BY <3>1, <3>2
  <2> DEFINE d == PieceOf(S, c, i)
             last2 == (i = N)
             ctr == i - 1
  <2>4. o.blocks[i] = Block(o, K, ctr, last2, bound, d) /\ o.blocks[i].data = d
    BY <1>2, <1>3
  <2>5. o.blocks[i] = [Block(o, K, ctr, last2, bound, <<>>) EXCEPT !.data = o.blocks[i].data]
    <3> HIDE DEF d, last2, ctr
    <3>1. [Block(o, K, ctr, last2, bound, <<>>) EXCEPT !.data = d] = Block(o, K, ctr, last2, bound, d)
      BY DEF Block
    <3> QED BY <2>4, <3>1
  <2> QED BY <2>1, <2>2, <2>3, <2>5 DEF OpensAs
<1> DEFINE n == CeilDiv(RegionLen(o), c + Tag)
           r == OpenChunks(o, K, c)
<1>8. PICK k \in 0 .. n :
        /\ \A i \in 1 .. k : OpensAs(o, i, n, K, c, Commitment(o, K))
        /\ (\A i \in 1 .. n : OpensAs(o, i, n, K, c, Commitment(o, K))) => k = n
        /\ r = [ok |-> n > 0 /\ k = n, text |-> FlattenSeq([i \in 1 .. k |-> o.blocks[i].data])]
  <2>1. c \in Nat
    BY <1>2
  <2> HIDE DEF r
  <2> QED BY <1>2, <2>1, OpenRun DEF r
<1>9. n = N
  BY <1>6
<1> HIDE DEF n, r, u, last
<1>10. k = N
  <2>1. \A i \in 1 .. n : OpensAs(o, i, n, K, c, Commitment(o, K))
    BY <1>7, <1>9 DEF bound
  <2> QED BY <1>8, <1>9, <2>1
<1>11. r = [ok |-> TRUE, text |-> FlattenSeq([i \in 1 .. N |-> o.blocks[i].data])]
  <2>1. (n > 0 /\ k = n) = TRUE
    BY <1>2, <1>9, <1>10
  <2> QED BY <1>8, <1>10, <2>1
<1>12. FlattenSeq([i \in 1 .. N |-> o.blocks[i].data]) = S
  <2> DEFINE pieces == [i \in 1 .. N |-> o.blocks[i].data]
  <2>1. pieces = [i \in 1 .. N |-> PieceOf(S, c, i)]
    BY <1>2, <1>3
  <2>2. N = CountOf(S, c) /\ N \in 0 .. CountOf(S, c)
    BY <1>2 DEF N
  <2> HIDE DEF pieces, c
  <2>3. FlattenSeq(pieces) = S
    BY <1>2, <1>3, <2>1, <2>2, PutTogether
  <2> QED BY <2>3 DEF pieces
<1> QED BY <1>11, <1>12 DEF r, S, K

LEMMA OpensWhole ==
  ASSUME NEW o, NEW w, WrittenAs(o, w), w.layout = "v2"
  PROVE  OpenWhole(o, "s") = [ok |-> TRUE, text |-> w.text]
<1> DEFINE b == Block(o, "s", 0, TRUE, HeaderBytes(o), w.text)
<1>1. o.rest = 0 /\ o.blocks = <<b>>
  BY DEF WrittenAs, HeaderFor, BlocksOf
<1>2. b.data = w.text
  BY DEF Block
<1>3. Len(o.blocks) = 1 /\ o.blocks[1] = b
  <2> HIDE DEF b
  <2> QED BY <1>1
<1>4. o.blocks[1] = Block(o, "s", 0, TRUE, HeaderBytes(o), o.blocks[1].data)
  BY <1>2, <1>3
<1> QED BY <1>1, <1>2, <1>3, <1>4 DEF OpenWhole

\* Its header parses.
LEMMA BodyOf ==
  ASSUME NEW o, NEW w, WrittenAs(o, w), w.layout # "stealth", w.size <= MaxSize
  PROVE  ReadBody(o) /\ ~NoSuchVersion(o) /\ o.layout = w.layout
<1>1. /\ o.layout = w.layout /\ o.layout \in Layouts /\ o.chunk \in 1 .. MaxChunk /\ o.size = w.size
      /\ (w.layout = "v2" => ~o.auth) /\ o.wire = Shape(o.layout, o.slots)
  BY DEF WrittenAs, HeaderFor
<1>2. w.layout = "v10" => o.kdf.factor \in Factors
  <2> SUFFICES ASSUME w.layout = "v10" PROVE o.kdf.factor \in Factors
    OBVIOUS
  <2>1. w.factor \in Factors /\ o.kdf = [factor |-> w.factor, salt |-> "salt", cost |-> o.kdf.cost]
    BY DEF WrittenAs, HeaderFor, ForReaders
  <2> DEFINE cost == o.kdf.cost
  <2>2. o.kdf = [factor |-> w.factor, salt |-> "salt", cost |-> cost]
    BY <2>1
  <2> HIDE DEF cost
  <2> QED BY <2>1, <2>2
<1>3. ReadSingle(o) \/ ReadSlots(o) \/ ReadBlind(o) \/ ReadKdf(o) \/ ReadLock(o)
  <2>1. CASE o.layout \in {"v2", "v3", "v5", "v6"}
    BY <1>1, <2>1 DEF ReadSingle, ValidateChunkSize
  <2>2. CASE o.layout \in Slotted
    BY <2>2 DEF ReadSlots, ReadBlind, Slotted
  <2>3. CASE o.layout = "v10"
    BY <1>1, <1>2, <2>3 DEF ReadKdf
  <2>4. CASE o.layout = "tlock"
    BY <2>4 DEF ReadLock
  <2> QED BY <1>1, <2>1, <2>2, <2>3, <2>4 DEF Layouts, Chunked
<1> QED BY <1>1, <1>3 DEF ReadBody, ReadNonceAndSize, NoSuchVersion, Authenticated

\* Its recipients' keys come out of it.
LEMMA SingleKeyIs ==
  ASSUME NEW o, NEW w, WrittenAs(o, w), w.layout \in {"v2", "v3", "v5", "v6", "stealth"}, NEW k \in w.to
  PROVE  SingleKey(o, k) = "s" /\ Decapsulate(o.kem, k) = "s" /\ o.kem.variant = Variant[k]
<1>1. PICK a \in Keys : o.kem = Encapsulate(a, "s") /\ w.to = {a}
  BY DEF WrittenAs, HeaderFor, ForReaders
<1>2. k = a
  BY <1>1
<1>3. o.kem.to = k /\ o.kem.variant = Variant[k] /\ o.kem.secret = "s"
  BY <1>1, <1>2 DEF Encapsulate
<1> QED BY <1>3 DEF SingleKey, Decapsulate

LEMMA SlotKeyIs ==
  ASSUME NEW o, NEW w, WrittenAs(o, w), w.layout \in Slotted, NEW k \in w.to
  PROVE  SlotKey(o, k) = "s"
<1> DEFINE mine == {i \in DOMAIN o.slots :
                      /\ o.slots[i].to = k
                      /\ o.layout \in {"v8", "v9"} \/ o.slots[i].variant = Variant[k]}
           i == CHOOSE j \in mine : TRUE
<1>1. SlotsFor(o.slots, w.to)
  BY DEF WrittenAs, HeaderFor, ForReaders
<1>2. k # None
  BY <1>1, KeysAssumption DEF SlotsFor
<1>3. ASSUME NEW j \in DOMAIN o.slots, o.slots[j].to = k
      PROVE  o.slots[j].variant = Variant[k] /\ o.slots[j].secret = "s"
  <2>1. o.slots[j] = Encapsulate(k, "s")
    BY <1>1, <1>2, <1>3 DEF SlotsFor
  <2> QED BY <2>1 DEF Encapsulate
<1>4. \E j \in DOMAIN o.slots : o.slots[j].to = k
  BY <1>1 DEF SlotsFor
<1>5. mine # {}
  BY <1>3, <1>4
<1>6. i \in mine
  <2> HIDE DEF mine
  <2> QED BY <1>5
<1>7. SlotKey(o, k) = o.slots[i].secret
  BY <1>5 DEF SlotKey
<1> HIDE DEF i
<1> QED BY <1>3, <1>6, <1>7

\* Every entry point gives its text to those it is for.
Whole(w) == [ok |-> TRUE, text |-> w.text]

LEMMA NotNone == ASSUME NoneIsApart PROVE "s" # None /\ "signature" # None
BY DEF NoneIsApart

\* One key pair, in chunks.
LEMMA ChunkedGives ==
  ASSUME NoneIsApart, NEW o, NEW w, WrittenAs(o, w), w.layout \in Chunked, w.size <= MaxSize, NEW k \in w.to
  PROVE  /\ DecryptStream(o, k) = Whole(w) /\ DecryptReader(o, k) = Whole(w)
         /\ DecryptParallel(o, k, 2) = Whole(w)
<1> DEFINE c == o.chunk
<1>1. /\ w.layout \in {"v2", "v3", "v5", "v6", "stealth"} /\ w.layout # "v2" /\ w.layout # "stealth"
      /\ w.layout \notin {"v6", "v10", "tlock"} /\ w.layout \notin Slotted
  BY DEF Chunked, Slotted
<1>2. ReadBody(o) /\ ~NoSuchVersion(o) /\ o.layout = w.layout
  BY <1>1, BodyOf
<1>3. SingleKey(o, k) = "s" /\ "s" # None
  BY <1>1, SingleKeyIs, NotNone
<1>4. OpenChunks(o, "s", c) = Whole(w)
  <2>1. SealedUnder(o, w) = "s" /\ SealedText(w) = w.text
    BY <1>1 DEF SealedUnder, SealedText
  <2> QED BY <1>1, <2>1, OpensAll DEF Whole
<1>5. DecryptStream(o, k) = Whole(w)
  <2>1. DecryptStream(o, k) = IF ReadBody(o) /\ SingleKey(o, k) # None
                              THEN OpenChunks(o, SingleKey(o, k), o.chunk) ELSE Refused
    BY <1>2, StreamOf
  <2> QED BY <1>2, <1>3, <1>4, <2>1
<1>6. DecryptParallel(o, k, 2) = Whole(w)
  <2>1. ~(2 <= 1)
    OBVIOUS
  <2> QED BY <1>2, <1>3, <1>4, <2>1 DEF DecryptParallel
<1>7. DecryptReader(o, k) = Whole(w)
  <2> DEFINE st == [key |-> "s", chunk |-> c, size |-> o.size]
  <2>1. ReaderInit(o, k) = st
    BY <1>1, <1>2, <1>3 DEF ReaderInit
  <2>2. st # None /\ st.key = "s" /\ st.chunk = c
    BY DEF NoneIsApart
  <2> HIDE DEF st, c
  <2> QED BY <1>1, <1>2, <1>4, <2>1, <2>2 DEF DecryptReader
<1> QED BY <1>5, <1>6, <1>7

\* Several recipients.
LEMMA SlottedGives ==
  ASSUME NoneIsApart, NEW o, NEW w, WrittenAs(o, w), w.layout \in Slotted, w.size <= MaxSize, NEW k \in w.to
  PROVE  /\ DecryptStream(o, k) = Whole(w) /\ DecryptReader(o, k) = Whole(w)
         /\ DecryptParallel(o, k, 2) = Whole(w)
<1>1. /\ w.layout # "v2" /\ w.layout # "stealth" /\ w.layout \notin {"v2", "v3", "v5", "v6"}
      /\ w.layout \notin {"v6", "v10", "tlock"} /\ w.layout \notin Chunked
  BY DEF Chunked, Slotted
<1>2. ReadBody(o) /\ ~NoSuchVersion(o) /\ o.layout = w.layout
  BY <1>1, BodyOf
<1>3. SlotKey(o, k) = "s" /\ "s" # None
  BY SlotKeyIs, NotNone
<1>4. OpenChunks(o, "s", Chunk) = Whole(w)
  <2>1. SealedUnder(o, w) = "s" /\ SealedText(w) = w.text
    BY <1>1 DEF SealedUnder, SealedText
  <2>2. o.chunk = Chunk
    BY <1>1, <1>2 DEF WrittenAs, HeaderFor
  <2>3. OpenChunks(o, SealedUnder(o, w), o.chunk) = [ok |-> TRUE, text |-> SealedText(w)]
    BY <1>1, OpensAll
  <2> QED BY <2>1, <2>2, <2>3 DEF Whole
<1>5. ~ReadSingle(o)
  BY <1>1, <1>2, SingleLayouts
<1>6. DecryptStream(o, k) = Whole(w)
  BY <1>2, <1>3, <1>4, <1>5 DEF DecryptStream
<1>7. DecryptParallel(o, k, 2) = Whole(w)
  BY <1>1, <1>2, <1>6 DEF DecryptParallel
<1>8. DecryptReader(o, k) = Whole(w)
  <2> DEFINE st == [key |-> "s", chunk |-> Chunk, size |-> o.size]
  <2>1. ReaderInit(o, k) = st
    BY <1>1, <1>2, <1>3 DEF ReaderInit
  <2>2. st # None /\ st.key = "s" /\ st.chunk = Chunk
    BY DEF NoneIsApart
  <2> HIDE DEF st
  <2> QED BY <1>1, <1>2, <1>4, <2>1, <2>2 DEF DecryptReader
<1> QED BY <1>6, <1>7, <1>8

\* One block.
LEMMA OneBlockGives ==
  ASSUME NoneIsApart, NEW o, NEW w, WrittenAs(o, w), w.layout = "v2", w.size <= MaxSize, NEW k \in w.to
  PROVE  /\ DecryptBytes(o, k) = Whole(w) /\ DecryptStream(o, k) = Whole(w)
         /\ DecryptReader(o, k) = Whole(w) /\ DecryptParallel(o, k, 2) = Whole(w)
<1>1. w.layout # "stealth" /\ w.layout \notin {"v6", "v10", "tlock"} /\ w.layout \notin Chunked
      /\ w.layout \notin Slotted
  BY DEF Chunked, Slotted
<1>2. ReadBody(o) /\ ~NoSuchVersion(o) /\ o.layout = w.layout
  BY <1>1, BodyOf
<1>3. SingleKey(o, k) = "s" /\ "s" # None
  BY SingleKeyIs, NotNone
<1>4. OpenWhole(o, "s") = Whole(w)
  BY OpensWhole DEF Whole
<1>5. ReadSingle(o)
  BY <1>1, <1>2, BodyLayouts
<1>6. DecryptBytes(o, k) = Whole(w)
  BY <1>1, <1>2, <1>3, <1>4, <1>5 DEF DecryptBytes
<1>7. DecryptStream(o, k) = Whole(w)
  <2> DEFINE key == SingleKey(o, k)
  <2>1. DecryptStream(o, k) = CASE key = None -> Refused [] o.layout = "v2" -> OpenWhole(o, key)
          [] o.layout = "v6" -> DecryptV6(o, key) [] OTHER -> OpenChunks(o, key, o.chunk)
    BY <1>2, <1>5 DEF DecryptStream
  <2> HIDE DEF key
  <2>2. DecryptStream(o, k) = OpenWhole(o, key)
    BY <1>2, <1>3, <2>1 DEF key
  <2> QED BY <1>3, <1>4, <2>2 DEF key
<1>8. DecryptParallel(o, k, 2) = Whole(w)
  BY <1>1, <1>2, <1>7 DEF DecryptParallel
<1>9. DecryptReader(o, k) = Whole(w)
  <2> DEFINE st == [key |-> "s", chunk |-> o.chunk, size |-> o.size]
  <2>1. ReaderInit(o, k) = st
    BY <1>1, <1>2, <1>3 DEF ReaderInit
  <2>2. st # None /\ st.key = "s"
    BY DEF NoneIsApart
  <2> HIDE DEF st
  <2> QED BY <1>2, <1>4, <2>1, <2>2 DEF DecryptReader
<1> QED BY <1>6, <1>7, <1>8, <1>9

\* Compressed.
LEMMA CompressedGives ==
  ASSUME NoneIsApart, NEW o, NEW w, WrittenAs(o, w), w.layout = "v6", w.size <= MaxSize,
         w.size \in {0, Len(w.text)}, NEW k \in w.to
  PROVE  DecryptStream(o, k) = Whole(w) /\ DecryptParallel(o, k, 2) = Whole(w)
<1> DEFINE r == OpenChunks(o, "s", o.chunk)
           raw == [i \in DOMAIN r.text |-> -r.text[i]]
           limit == IF o.size > 0 THEN o.size ELSE MaxSize
<1>1. w.layout # "v2" /\ w.layout # "stealth" /\ w.layout \notin Chunked /\ w.layout \notin {"v10", "tlock"}
      /\ w.layout \notin Slotted
  BY DEF Chunked, Slotted
<1>2. ReadBody(o) /\ ~NoSuchVersion(o) /\ o.layout = w.layout
  BY <1>1, BodyOf
<1>3. SingleKey(o, k) = "s" /\ "s" # None
  BY SingleKeyIs, NotNone
<1>4. r = [ok |-> TRUE, text |-> Zstd(w.text)]
  <2>1. SealedUnder(o, w) = "s" /\ SealedText(w) = Zstd(w.text)
    BY <1>1 DEF SealedUnder, SealedText
  <2> QED BY <1>1, <2>1, OpensAll
<1>5. o.comp = "zstd" /\ o.size = w.size /\ o.size \in Nat /\ w.text \in Texts
  BY DEF WrittenAs, HeaderFor
<1>6. raw = w.text
  <2>1. r.text = Zstd(w.text)
    BY <1>4
  <2>2. PICK n \in 0 .. MaxText : w.text = [i \in 1 .. n |-> i]
    BY <1>5 DEF Texts
  <2>3. r.text = [i \in 1 .. n |-> -i]
    BY <2>1, <2>2 DEF Zstd
  <2> HIDE DEF r
  <2>4. raw = [i \in 1 .. n |-> -(-i)]
    BY <2>3
  <2>5. \A i \in 1 .. n : -(-i) = i
    OBVIOUS
  <2> QED BY <2>2, <2>4, <2>5
<1>7. ~(Len(raw) > limit)
  <2>1. PICK n \in 0 .. MaxText : w.text = [i \in 1 .. n |-> i]
    BY <1>5 DEF Texts
  <2>2. n \in Nat /\ n <= MaxSize /\ MaxSize \in Nat
    BY SizesAssumption
  <2>3. Len(w.text) = n
    BY <2>1, <2>2
  <2>4. Len(raw) = n
    BY <1>6, <2>3
  <2> HIDE DEF raw
  <2> QED BY <1>5, <2>2, <2>3, <2>4
<1>8. LimitedWriter(o.size, r) = Whole(w)
  <2>1. LimitedWriter(o.size, r) = IF Len(raw) > limit THEN [ok |-> FALSE, text |-> SubSeq(raw, 1, limit)]
                                   ELSE [ok |-> r.ok, text |-> raw]
    BY DEF LimitedWriter
  <2>2. r.ok = TRUE
    BY <1>4
  <2> HIDE DEF raw, limit, r
  <2> QED BY <1>6, <1>7, <2>1, <2>2 DEF Whole
<1>9. DecryptV6(o, "s") = Whole(w)
  <2> HIDE DEF raw, limit, r
  <2>1. DecryptV6(o, "s") = CASE o.comp = "none" -> r [] o.comp = "zstd" -> LimitedWriter(o.size, r)
                              [] OTHER -> Refused
    BY DEF DecryptV6, r
  <2> QED BY <1>5, <1>8, <2>1
<1>10. ReadSingle(o)
  BY <1>1, <1>2, BodyLayouts
<1>11. DecryptStream(o, k) = Whole(w)
  <2> DEFINE key == SingleKey(o, k)
  <2>1. DecryptStream(o, k) = CASE key = None -> Refused [] o.layout = "v2" -> OpenWhole(o, key)
          [] o.layout = "v6" -> DecryptV6(o, key) [] OTHER -> OpenChunks(o, key, o.chunk)
    BY <1>2, <1>10 DEF DecryptStream
  <2> HIDE DEF key
  <2>2. DecryptStream(o, k) = DecryptV6(o, key)
    BY <1>2, <1>3, <2>1 DEF key
  <2> QED BY <1>3, <1>9, <2>2 DEF key
<1>12. DecryptParallel(o, k, 2) = Whole(w)
  BY <1>1, <1>2, <1>11 DEF DecryptParallel
<1> QED BY <1>11, <1>12

\* No header that can be told from the payload.
LEMMA StealthGives ==
  ASSUME NEW o, NEW w, WrittenAs(o, w), w.layout = "stealth", w.size <= MaxSize, NEW k \in w.to
  PROVE  DecryptStealth(o, k) =
           [ok |-> TRUE, text |-> IF w.size > 0 THEN SubSeq(w.text, 1, Least(w.size, Len(w.text))) ELSE w.text]
<1> DEFINE r == OpenChunks(o, "s", Chunk)
<1>1. o.wire = "stealth" /\ o.size = w.size /\ o.size \in Nat /\ o.chunk = Chunk
  BY DEF WrittenAs, HeaderFor
<1>2. Decapsulate(o.kem, k) = "s" /\ o.kem.variant = Variant[k]
  BY SingleKeyIs
<1>3. r = [ok |-> TRUE, text |-> w.text]
  <2>1. SealedUnder(o, w) = "s" /\ SealedText(w) = w.text
    BY DEF SealedUnder, SealedText
  <2>2. OpenChunks(o, SealedUnder(o, w), o.chunk) = [ok |-> TRUE, text |-> SealedText(w)]
    BY OpensAll
  <2> QED BY <1>1, <2>1, <2>2
<1>4. DecryptStealth(o, k) = TruncatingWriter(o.size, r)
  BY <1>1, <1>2 DEF DecryptStealth, ReadNonceAndSize
<1> HIDE DEF r
<1>5. TruncatingWriter(o.size, r) =
        [ok |-> TRUE, text |-> IF o.size = 0 THEN w.text ELSE SubSeq(w.text, 1, Least(o.size, Len(w.text)))]
  <2> DEFINE text == w.text
             new  == IF o.size = 0 THEN text ELSE SubSeq(text, 1, Least(o.size, Len(text)))
  <2>1. r.text = text
    BY <1>3
  <2>2. TruncatingWriter(o.size, r) = [r EXCEPT !.text = new]
    BY <2>1 DEF TruncatingWriter
  <2>3. r = [ok |-> TRUE, text |-> text]
    BY <1>3
  <2> HIDE DEF text, new
  <2>4. TruncatingWriter(o.size, r) = [ok |-> TRUE, text |-> new]
    BY <2>2, <2>3
  <2> QED BY <2>4 DEF new, text
<1>6. CASE w.size = 0
  <2>1. ~(w.size > 0) /\ o.size = 0
    BY <1>1, <1>6
  <2> QED BY <1>4, <1>5, <2>1
<1>7. CASE w.size # 0
  <2>1. w.size > 0 /\ o.size # 0
    BY <1>1, <1>7
  <2> QED BY <1>1, <1>4, <1>5, <2>1
<1> QED BY <1>6, <1>7

\* A passphrase, with the factor it was written with.
LEMMA PassphraseGives ==
  ASSUME NEW o, NEW w, WrittenAs(o, w), w.layout = "v10", w.size <= MaxSize, o.kdf.cost = 1
  PROVE  DecryptPassphrase(o, w.factor, DefaultCost) = Whole(w)
<1>1. ReadBody(o) /\ o.layout = w.layout
  BY BodyOf
<1>2. o.kdf.factor = w.factor /\ w.factor \in Factors
  <2> DEFINE cost == o.kdf.cost
  <2>1. w.factor \in Factors /\ o.kdf = [factor |-> w.factor, salt |-> "salt", cost |-> cost]
    BY DEF WrittenAs, HeaderFor, ForReaders
  <2> HIDE DEF cost
  <2> QED BY <2>1
<1>3. ReadKdf(o)
  BY <1>1, <1>2 DEF ReadKdf
<1>4. OpenChunks(o, DeriveKey(w.factor, o.kdf), Chunk) = Whole(w)
  <2>1. SealedUnder(o, w) = DeriveKey(w.factor, o.kdf) /\ SealedText(w) = w.text
    BY DEF SealedUnder, SealedText
  <2>2. o.chunk = Chunk
    BY <1>1 DEF WrittenAs, HeaderFor
  <2>3. OpenChunks(o, SealedUnder(o, w), o.chunk) = [ok |-> TRUE, text |-> SealedText(w)]
    BY OpensAll
  <2> QED BY <2>1, <2>2, <2>3 DEF Whole
<1>5. ~(o.kdf.cost > DefaultCost)
  BY DEF DefaultCost
<1> QED BY <1>1, <1>2, <1>3, <1>4, <1>5 DEF DecryptPassphrase, RequiredFactor

\* The beacon of its round.
LEMMA TlockGives ==
  ASSUME NoneIsApart, NEW o, NEW w, WrittenAs(o, w), w.layout = "tlock", w.size <= MaxSize, o.lock.round <= now
  PROVE  DecryptTlock(o, "quicknet") = Whole(w)
<1>1. ReadBody(o) /\ o.layout = w.layout
  BY BodyOf
<1>2. o.lock.chain = "quicknet" /\ o.lock.ct[1] = o.lock.round /\ o.lock.ct[2] = "seed"
  <2> DEFINE round == o.lock.round
  <2>1. o.lock = [chain |-> "quicknet", round |-> round, ct |-> <<round, "seed">>]
    BY DEF WrittenAs, HeaderFor, ForReaders
  <2> HIDE DEF round
  <2>2. o.lock.chain = "quicknet" /\ o.lock.ct[1] = round /\ o.lock.ct[2] = "seed" 
    BY <2>1
  <2> QED BY <2>2 DEF round
<1>3. Beacon(o.lock.round) # None
  BY NotNone DEF Beacon
<1>4. OpenChunks(o, "seed", Chunk) = Whole(w)
  <2>1. SealedUnder(o, w) = "seed" /\ SealedText(w) = w.text
    BY DEF SealedUnder, SealedText
  <2>2. o.chunk = Chunk
    BY <1>1 DEF WrittenAs, HeaderFor
  <2>3. OpenChunks(o, SealedUnder(o, w), o.chunk) = [ok |-> TRUE, text |-> SealedText(w)]
    BY OpensAll
  <2> QED BY <2>1, <2>2, <2>3 DEF Whole
<1> QED BY <1>1, <1>2, <1>3, <1>4 DEF DecryptTlock, ReadLock

\* A reading is what its entry point gives.
LEMMA GivenBy ==
  ASSUME NEW r \in Readings
  PROVE  \/ r.by = "bytes" /\ r.gives = DecryptBytes(file, r.with)
         \/ r.by = "stream" /\ r.gives = DecryptStream(file, r.with)
         \/ r.by = "reader" /\ r.gives = DecryptReader(file, r.with)
         \/ r.by = "parallel" /\ r.gives = DecryptParallel(file, r.with, 2)
         \/ r.by = "stealth" /\ r.gives = DecryptStealth(file, r.with)
         \/ r.by = "passphrase" /\ r.gives = DecryptPassphrase(file, r.with, DefaultCost)
         \/ r.by = "tlock" /\ r.gives = DecryptTlock(file, r.with)
<1> DEFINE A == {[by |-> d, with |-> k, gives |-> KeyReading(d, k)] :
                   d \in {"bytes", "stream", "reader", "parallel", "stealth"}, k \in Keys}
           B == {[by |-> "passphrase", with |-> x, gives |-> FactorReading(x)] : x \in Factors}
           C == {[by |-> "tlock", with |-> relay, gives |-> DecryptTlock(file, relay)] :
                   relay \in {"quicknet", "mainnet"}}
<1>0. Readings = A \cup B \cup C
  BY DEF Readings
<1>1. r \in A \/ r \in B \/ r \in C
  <2> HIDE DEF A, B, C
  <2> QED BY <1>0
<1>2. CASE r \in {[by |-> d, with |-> k, gives |-> KeyReading(d, k)] :
                  d \in {"bytes", "stream", "reader", "parallel", "stealth"}, k \in Keys}
  <2>1. PICK d \in {"bytes", "stream", "reader", "parallel", "stealth"}, k \in Keys :
           r = [by |-> d, with |-> k, gives |-> KeyReading(d, k)]
    BY <1>2
  <2>2. r.by = d /\ r.with = k /\ r.gives = KeyReading(d, k)
    BY <2>1
  <2>3. /\ KeyReading("bytes", k) = DecryptBytes(file, k) /\ KeyReading("stream", k) = DecryptStream(file, k)
        /\ KeyReading("reader", k) = DecryptReader(file, k)
        /\ KeyReading("parallel", k) = DecryptParallel(file, k, 2)
        /\ KeyReading("stealth", k) = DecryptStealth(file, k)
    BY DEF KeyReading
  <2> QED BY <2>2, <2>3
<1>3. CASE r \in {[by |-> "passphrase", with |-> x, gives |-> FactorReading(x)] : x \in Factors}
  <2>1. PICK x \in Factors : r = [by |-> "passphrase", with |-> x, gives |-> FactorReading(x)]
    BY <1>3
  <2>2. r.by = "passphrase" /\ r.with = x /\ r.gives = FactorReading(x)
    BY <2>1
  <2>3. /\ FactorReading("none") = DecryptPassphrase(file, "none", DefaultCost)
        /\ FactorReading("keyfile") = DecryptPassphrase(file, "keyfile", DefaultCost)
        /\ FactorReading("fido2") = DecryptPassphrase(file, "fido2", DefaultCost)
        /\ FactorReading("webauthn") = DecryptPassphrase(file, "webauthn", DefaultCost)
    BY DEF FactorReading, DecryptPlain, DecryptKeyfile, DecryptFido2, DecryptWebauthn
  <2>4. FactorReading(x) = DecryptPassphrase(file, x, DefaultCost)
    BY <2>3 DEF Factors
  <2> QED BY <2>2, <2>4
<1>4. CASE r \in {[by |-> "tlock", with |-> relay, gives |-> DecryptTlock(file, relay)] :
                  relay \in {"quicknet", "mainnet"}}
  <2>1. PICK relay \in {"quicknet", "mainnet"} :
           r = [by |-> "tlock", with |-> relay, gives |-> DecryptTlock(file, relay)]
    BY <1>4
  <2>2. r.by = "tlock" /\ r.with = relay /\ r.gives = DecryptTlock(file, relay)
    BY <2>1
  <2> QED BY <2>2
<1> QED BY <1>1, <1>2, <1>3, <1>4

LEMMA AllOpens == ASSUME NoneIsApart, ContainersInv PROVE OpensAsWritten
<1> SUFFICES ASSUME file # None, ~(faults > 0), NEW r \in Readings, Mine(r), wrote.size <= MaxSize,
                    wrote.layout = "v6" => wrote.size \in {0, Len(wrote.text)}
             PROVE  r.gives = [ok |-> TRUE, text |-> Expected]
  BY DEF OpensAsWritten
<1> DEFINE l == wrote.layout
<1>1. WrittenAs(file, wrote)
  <2>1. faults = 0
    BY DEF ContainersInv
  <2> QED BY <2>1 DEF ContainersInv, Written
<1>2. \/ r.by = "bytes" /\ r.gives = DecryptBytes(file, r.with)
      \/ r.by = "stream" /\ r.gives = DecryptStream(file, r.with)
      \/ r.by = "reader" /\ r.gives = DecryptReader(file, r.with)
      \/ r.by = "parallel" /\ r.gives = DecryptParallel(file, r.with, 2)
      \/ r.by = "stealth" /\ r.gives = DecryptStealth(file, r.with)
      \/ r.by = "passphrase" /\ r.gives = DecryptPassphrase(file, r.with, DefaultCost)
      \/ r.by = "tlock" /\ r.gives = DecryptTlock(file, r.with)
  BY GivenBy
<1>3. l \in {"stealth", "v2", "v6", "v10", "tlock"} \/ l \in Chunked \/ l \in Slotted
  <2>1. file.layout \in Layouts /\ file.layout = IF l = "stealth" THEN "v3" ELSE l
    BY <1>1 DEF WrittenAs, HeaderFor
  <2> QED BY <2>1 DEF Layouts
<1>4. l # "stealth" => [ok |-> TRUE, text |-> Expected] = Whole(wrote)
  BY DEF Expected, Whole
<1>5. Mine(r) = CASE wrote.layout = "v10"   -> r.by = "passphrase" /\ r.with = wrote.factor /\ file.kdf.cost = 1
      [] wrote.layout = "tlock" -> r.by = "tlock" /\ r.with = "quicknet" /\ file.lock.round <= now
      [] wrote.layout = "stealth" -> r.by = "stealth" /\ r.with \in wrote.to
      [] wrote.layout = "v2"    -> r.by \in {"bytes", "stream", "reader", "parallel"} /\ r.with \in wrote.to
      [] wrote.layout = "v6"    -> r.by \in {"stream", "parallel"} /\ r.with \in wrote.to
      [] OTHER                  -> r.by \in {"stream", "reader", "parallel"} /\ r.with \in wrote.to
  BY DEF Mine
<1>6. CASE l = "v10"
  <2>1. r.by = "passphrase" /\ r.with = wrote.factor /\ file.kdf.cost = 1
    BY <1>5, <1>6
  <2> QED BY <1>1, <1>2, <1>4, <1>6, <2>1, PassphraseGives
<1>7. CASE l = "tlock"
  <2>1. r.by = "tlock" /\ r.with = "quicknet" /\ file.lock.round <= now
    BY <1>5, <1>7
  <2> QED BY <1>1, <1>2, <1>4, <1>7, <2>1, TlockGives
<1>8. CASE l = "stealth"
  <2>1. r.by = "stealth" /\ r.with \in wrote.to
    BY <1>5, <1>8
  <2>2. Expected = IF wrote.size > 0 THEN SubSeq(wrote.text, 1, Least(wrote.size, Len(wrote.text))) ELSE wrote.text
    BY <1>8 DEF Expected
  <2>3. r.gives = DecryptStealth(file, r.with)
    BY <1>2, <2>1
  <2> QED BY <1>1, <1>8, <2>1, <2>2, <2>3, StealthGives
<1>9. CASE l = "v2"
  <2>1. r.by \in {"bytes", "stream", "reader", "parallel"} /\ r.with \in wrote.to
    BY <1>5, <1>9
  <2> QED BY <1>1, <1>2, <1>4, <1>9, <2>1, OneBlockGives
<1>10. CASE l = "v6"
  <2>1. r.by \in {"stream", "parallel"} /\ r.with \in wrote.to
    BY <1>5, <1>10
  <2> QED BY <1>1, <1>2, <1>4, <1>10, <2>1, CompressedGives
<1>11. CASE l \in Chunked \/ l \in Slotted
  <2>1. l \notin {"stealth", "v2", "v6", "v10", "tlock"}
    BY <1>11 DEF Chunked, Slotted
  <2>2. r.by \in {"stream", "reader", "parallel"} /\ r.with \in wrote.to
    BY <1>5, <2>1
  <2>3. CASE l \in Chunked
    BY <1>1, <1>2, <1>4, <2>1, <2>2, <2>3, ChunkedGives
  <2>4. CASE l \in Slotted
    BY <1>1, <1>2, <1>4, <2>1, <2>2, <2>4, SlottedGives
  <2> QED BY <1>11, <2>3, <2>4
<1> QED BY <1>3, <1>6, <1>7, <1>8, <1>9, <1>10, <1>11

\* A file nothing has changed gives its text back to every recipient, factor or
\* round it is for and by every entry point that reads its layout: whatever the
\* chunk size, the length of the text and the number of recipients.
THEOREM OpensAsWrittenHolds == NoneIsApart => (Spec => []OpensAsWritten)
<1> SUFFICES ASSUME NoneIsApart PROVE Spec => []OpensAsWritten
  OBVIOUS
<1>1. ContainersInv => OpensAsWritten
  BY AllOpens
<1> QED BY <1>1, ContainersInvariant, PTL
=============================================================================
