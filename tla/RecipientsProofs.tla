-------------------------- MODULE RecipientsProofs --------------------------
(***************************************************************************)
(* Proofs about Recipients, for any keys, files, lists and number of       *)
(* processes.  Two invariants carry them.  The first says that every       *)
(* version of a file, on disk or in a temporary file, is one an encryptor  *)
(* might have written for the keys its commands named: each command that   *)
(* rewrites a header leads from such versions to such versions.  The       *)
(* second relates, while no two commands have overlapped, what users were  *)
(* told to every version a power loss may bring back.                      *)
(***************************************************************************)
EXTENDS Recipients, FiniteSetTheorems, SequenceTheorems, WellFoundedInduction, TLAPS

\* A private key given to rekey or rotate is the only one of its KEM variant: a slot
\* for another would be taken for its own (MCRotateMixed).  MAX_RECIPIENTS is 256, and
\* no version of a file is the absence of one.
ApartAssumption ==
  /\ \A k \in RekeyKeys, j \in Keys : KemOf[j] = KemOf[k] => j = k
  /\ MaxRecipients <= 256
  /\ \A pqf, named : [pqf |-> pqf, named |-> named] # Absent

JobFields == {"pc", "op", "old", "new", "src", "dst", "out", "todo", "listed", "failed"}

\* What a command in progress has in its hands, when the paths hold e.
JobHolds(j, e) ==
  /\ DOMAIN j = JobFields
  /\ j.pc \in {"idle", "next", "rename", "fsync"}
  /\ j.op \in {"none", "encrypt", "rekey", "add", "rotate"}
  /\ j.new \subseteq Keys /\ j.todo \subseteq j.listed /\ j.listed \subseteq Files
  /\ \A f \in j.listed : e[f] # Absent
  /\ j.pc = "next" => j.op = "rotate"
  /\ j.op \in {"rekey", "rotate"} => j.old \in RekeyKeys
  /\ j.op = "rotate" => \E k \in NewKeys : j.new = {k}
  /\ j.pc \in {"rename", "fsync"} =>
       /\ j.dst \in Files /\ j.out # Absent /\ Written(j.out) /\ j.new \subseteq j.out.named
       /\ j.op \in {"rekey", "rotate"} => j.out.named = j.new

Typed ==
  /\ DOMAIN entry = Files /\ DOMAIN durable = Files /\ DOMAIN proc = Processes
  /\ ran \in 0 .. MaxCommands /\ faults \in 0 .. MaxFaults
  /\ alone \in BOOLEAN
  /\ due \in [Files -> SUBSET Keys] /\ barred \in [Files -> SUBSET Keys]

AllWritten ==
  \A f \in Files : 
    /\ entry[f] \in durable[f]
    /\ \A v \in durable[f] : v = Absent \/ Written(v)

JobsHold == \A p \in Processes : JobHolds(proc[p], entry)

WrittenInv == Typed /\ AllWritten /\ JobsHold

NamedIn(v) == IF v = Absent THEN {} ELSE v.named

\* What it has, if it has the files to itself.
JobAlone(j, e) ==
  /\ j.pc = "fsync" => e[j.dst] = j.out
  /\ j.pc = "rename" /\ j.op = "add" /\ j.src = j.dst =>
       j.out.named = NamedIn(e[j.dst]) \cup j.new
  /\ j.op = "rotate" /\ ~j.failed =>
       \A f \in j.listed \ j.todo : (j.pc = "rename" /\ f = j.dst) \/ j.new \subseteq NamedIn(e[f])

AtMostOne == \A p, q \in Processes : proc[p] # Idle /\ proc[q] # Idle => p = q

Told ==
  \A f \in Files : \A v \in durable[f] :
    due[f] \subseteq NamedIn(v) /\ barred[f] \cap NamedIn(v) = {}

AloneInv == alone => AtMostOne /\ Told /\ \A p \in Processes : JobAlone(proc[p], entry)
-----------------------------------------------------------------------------
(* Containers. *)

\* A set of numbers has a least one.
LEMMA Least == ASSUME NEW s, s \subseteq Nat, s # {} PROVE \E i \in s : \A j \in s : i <= j
<1> DEFINE R == OpToRel(<, Nat)
<1>1. IsWellFoundedOn(R, Nat) BY NatLessThanWellFounded
<1>2. PICK x \in s : \A y \in s : ~ (<<y, x>> \in R)
  <2> HIDE DEF R
  <2> QED BY <1>1, WFMin
<1>3. ASSUME NEW y \in s PROVE x <= y
  <2>1. ~ (<<y, x>> \in R) BY <1>2
  <2>2. ~ (y < x) BY <2>1 DEF OpToRel
  <2> QED BY <2>2
<1> QED BY <1>3

\* The next power of two, for every count of recipients a header can have.
LEMMA PowerAbove ==
  ASSUME NEW n \in 1 .. 256 PROVE NextPowerOfTwo(n) \in Nat /\ n <= NextPowerOfTwo(n)
<1> DEFINE Above == {m \in {2 ^ i : i \in 0 .. n} : m >= n}
<1>1. \A i \in 0 .. n : 2 ^ i \in Int OBVIOUS
<1>2. Above \subseteq Nat BY <1>1
<1>3. \E j \in 0 .. n : 2 ^ j >= n
  <2>1. 2 ^ 0 = 1 /\ 2 ^ 1 = 2 /\ 2 ^ 3 = 8 OBVIOUS
  <2>2. 2 ^ 8 = 256 OBVIOUS
  <2>3. n = 1 \/ n = 2 \/ n \in 3 .. 7 \/ n >= 8 OBVIOUS
  <2>4. CASE n = 1
    <3>1. 0 \in 0 .. n /\ 2 ^ 0 >= n BY <2>1, <2>4
    <3> QED BY <3>1
  <2>5. CASE n = 2
    <3>1. 1 \in 0 .. n /\ 2 ^ 1 >= n BY <2>1, <2>5
    <3> QED BY <3>1
  <2>6. CASE n \in 3 .. 7
    <3>1. 3 \in 0 .. n /\ 2 ^ 3 >= n BY <2>1, <2>6
    <3> QED BY <3>1
  <2>7. CASE n >= 8
    <3>1. 8 \in 0 .. n /\ 2 ^ 8 >= n BY <2>2, <2>7
    <3> QED BY <3>1
  <2> QED BY <2>3, <2>4, <2>5, <2>6, <2>7
<1>4. Above # {} BY <1>3
<1>5. PICK m \in Above : \A k \in Above : m <= k
  <2> HIDE DEF Above
  <2> QED BY <1>2, <1>4, Least
<1>6. m \in {2 ^ i : i \in 0 .. n} /\ m >= n /\ \A j \in 0 .. n : 2 ^ j >= n => m <= 2 ^ j
  BY <1>5
<1>7. /\ NextPowerOfTwo(n) \in {2 ^ i : i \in 0 .. n} /\ NextPowerOfTwo(n) >= n
  BY <1>6 DEF NextPowerOfTwo
<1> QED BY <1>7, <1>2

SlotType == [to : Keys \cup {Nobody}, wraps : {Session, Garbage}]

\* The payload is sealed whole in the oldest layout and chunked in every other.
LEMMA SealedFields ==
  ASSUME NEW l, NEW a, NEW s, NEW ch, NEW co, NEW c, c = Sealed(l, a, s, ch, co)
  PROVE  /\ c.layout = l /\ c.auth = a /\ c.slots = s /\ c.chunk = ch /\ c.comp = co
         /\ c.payload.whole = (l = "v2") /\ c.payload.chunk = ch /\ c.payload.comp = co
         /\ c.payload.bound = Commitment(Session, a, ch, co)
<1>1. PICK w : w = (l = "v2") OBVIOUS
<1>2. PICK b : b = Commitment(Session, a, ch, co) OBVIOUS
<1>3. PICK p : p = [whole |-> w, chunk |-> ch, comp |-> co, bound |-> b] OBVIOUS
<1>4. c = [layout |-> l, auth |-> a, slots |-> s, chunk |-> ch, comp |-> co, payload |-> p]
  BY <1>1, <1>2, <1>3 DEF Sealed
<1>5. p.whole = w /\ p.chunk = ch /\ p.comp = co /\ p.bound = b BY <1>3
<1>6. c.layout = l /\ c.auth = a /\ c.slots = s /\ c.chunk = ch /\ c.comp = co /\ c.payload = p
  BY <1>4
<1> QED BY <1>1, <1>2, <1>5, <1>6

\* A header is rewritten over a payload that is not sealed whole: the result is what
\* an encryptor writes in the new layout.
LEMMA WithHeaderSealed ==
  ASSUME NEW l, NEW a, NEW s, NEW ch, NEW co, NEW l2, NEW s2, (l = "v2") = (l2 = "v2")
  PROVE  WithHeader(Sealed(l, a, s, ch, co), l2, s2) = Sealed(l2, a, s2, ch, co)
<1>1. PICK p : p = [whole |-> l = "v2", chunk |-> ch, comp |-> co,
                    bound |-> Commitment(Session, a, ch, co)] OBVIOUS
<1>2. Sealed(l, a, s, ch, co) =
        [layout |-> l, auth |-> a, slots |-> s, chunk |-> ch, comp |-> co, payload |-> p]
  BY <1>1 DEF Sealed
<1>3. PICK w : w = (l = "v2") OBVIOUS
<1>4. w = (l2 = "v2") BY <1>3
<1>5. Sealed(l2, a, s2, ch, co) =
        [layout |-> l2, auth |-> a, slots |-> s2, chunk |-> ch, comp |-> co, payload |-> p]
  BY <1>1, <1>3, <1>4 DEF Sealed
<1>6. PICK c : c = [layout |-> l, auth |-> a, slots |-> s, chunk |-> ch, comp |-> co,
                    payload |-> p] OBVIOUS
<1>7. WithHeader(c, l2, s2) =
        [layout |-> l2, auth |-> a, slots |-> s2, chunk |-> ch, comp |-> co, payload |-> p]
  <2>1. PICK d : d = [c EXCEPT !.layout = l2] OBVIOUS
  <2>2. d = [layout |-> l2, auth |-> a, slots |-> s, chunk |-> ch, comp |-> co, payload |-> p]
    BY <1>6, <2>1
  <2>3. [d EXCEPT !.slots = s2] =
        [layout |-> l2, auth |-> a, slots |-> s2, chunk |-> ch, comp |-> co, payload |-> p]
    BY <2>2
  <2>4. WithHeader(c, l2, s2) = [d EXCEPT !.slots = s2] BY <2>1 DEF WithHeader
  <2> QED BY <2>3, <2>4
<1> QED BY <1>2, <1>5, <1>6, <1>7

\* When slots and layout go together, what is sealed is a version.
Fitting(l, a, s, ch, co) ==
  /\ l \in Single \cup Multi /\ a \in BOOLEAN /\ s \in Seq(SlotType)
  /\ Len(s) <= MaxRecipients /\ Named(s) # {} /\ (l \in Single => Len(s) = 1)
  /\ \A i \in DOMAIN s : s[i].to # Nobody => s[i].wraps = Session
  /\ (l \notin {"v5", "v6"} => ch = "default") /\ (l # "v6" => co = "none")

LEMMA FittingWritten ==
  ASSUME NEW l, NEW a, NEW s, NEW ch, NEW co, Fitting(l, a, s, ch, co)
  PROVE  Written([pqf |-> Sealed(l, a, s, ch, co), named |-> Named(s)])
<1>1. PICK c : c = Sealed(l, a, s, ch, co) OBVIOUS
<1>2. PICK v : v = [pqf |-> c, named |-> Named(s)] OBVIOUS
<1>3. c.layout = l /\ c.auth = a /\ c.slots = s /\ c.chunk = ch /\ c.comp = co
  BY <1>1, SealedFields
<1>4. v.pqf = c BY <1>2
<1>5. v = [pqf |-> Sealed(c.layout, c.auth, c.slots, c.chunk, c.comp), named |-> Named(c.slots)]
  BY <1>1, <1>2, <1>3
<1>6. Written(v) BY <1>3, <1>4, <1>5 DEF Fitting, Written, SlotType
<1> QED BY <1>1, <1>2, <1>6

LEMMA WrittenFitting ==
  ASSUME NEW v, Written(v)
  PROVE  /\ Fitting(v.pqf.layout, v.pqf.auth, v.pqf.slots, v.pqf.chunk, v.pqf.comp)
         /\ v.pqf = Sealed(v.pqf.layout, v.pqf.auth, v.pqf.slots, v.pqf.chunk, v.pqf.comp)
         /\ v.named = Named(v.pqf.slots) /\ DOMAIN v = {"pqf", "named"}
<1>1. PICK c : c = Sealed(v.pqf.layout, v.pqf.auth, v.pqf.slots, v.pqf.chunk, v.pqf.comp)
  OBVIOUS
<1>2. v = [pqf |-> c, named |-> Named(v.pqf.slots)] BY <1>1 DEF Written
<1>3. v.pqf = c /\ v.named = Named(v.pqf.slots) /\ DOMAIN v = {"pqf", "named"} BY <1>2
<1>4. Fitting(v.pqf.layout, v.pqf.auth, v.pqf.slots, v.pqf.chunk, v.pqf.comp)
  BY DEF Written, Fitting, SlotType
<1> QED BY <1>1, <1>3, <1>4

\* Named slots are slots of keys.
LEMMA NamedKeys ==
  ASSUME NEW s \in Seq(SlotType) PROVE Named(s) \subseteq Keys
<1>1. ASSUME NEW i \in DOMAIN s PROVE s[i].to \in Keys \cup {Nobody}
  <2>1. s[i] \in SlotType OBVIOUS
  <2> QED BY <2>1 DEF SlotType
<1> QED BY <1>1 DEF Named
-----------------------------------------------------------------------------
(* Who opens a version. *)

\* Blind or by its declared variant, every slot of one's own is tried.
LEMMA OwnSlots ==
  ASSUME RecipientsAssumption, NEW v, Written(v), NEW k \in Keys
  PROVE  {i \in Tried(k, v.pqf) : v.pqf.slots[i].to = k}
           = {i \in DOMAIN v.pqf.slots : v.pqf.slots[i].to = k}
<1>1. \A i \in DOMAIN v.pqf.slots :
        v.pqf.slots[i].to = k => v.pqf.slots[i].to # Nobody /\ KemOf[v.pqf.slots[i].to] = KemOf[k]
  BY DEF RecipientsAssumption
<1> QED BY <1>1 DEF Tried

LEMMA FindsSessionKey ==
  ASSUME RecipientsAssumption, NEW v, Written(v), NEW k \in Keys
  PROVE  FindSessionKey(k, v.pqf) = IF k \in v.named THEN Session ELSE NoKey
<1> DEFINE c == v.pqf
           s == c.slots
           hits == {i \in DOMAIN s : s[i].to = k}
           i0 == CHOOSE i \in hits : \A j \in hits : i <= j
<1>1. /\ Fitting(c.layout, c.auth, s, c.chunk, c.comp) /\ v.named = Named(s) BY WrittenFitting
<1>2. s \in Seq(SlotType) /\ Len(s) <= MaxRecipients /\ Len(s) \in Nat /\ DOMAIN s = 1 .. Len(s)
  BY <1>1 DEF Fitting
<1>3. ~ (Len(s) > MaxRecipients) BY <1>2 DEF RecipientsAssumption
<1>4. FindSessionKey(k, c) = IF hits = {} THEN NoKey ELSE s[i0].wraps
  <2>1. PICK h : h = {i \in Tried(k, c) : s[i].to = k} OBVIOUS
  <2>2. FindSessionKey(k, c) =
          IF h = {} \/ Len(s) > MaxRecipients THEN NoKey
          ELSE s[CHOOSE i \in h : \A j \in h : i <= j].wraps
    BY <2>1 DEF FindSessionKey
  <2>3. h = hits BY <2>1, OwnSlots
  <2> HIDE DEF hits
  <2> QED BY <1>3, <2>2, <2>3
<1>5. (hits = {}) = (k \notin v.named) BY <1>1 DEF Named, RecipientsAssumption
<1>6. ASSUME hits # {} PROVE s[i0].wraps = Session
  <2>1. hits \subseteq Nat BY <1>2
  <2>2. \E i \in hits : \A j \in hits : i <= j
    <3> HIDE DEF hits
    <3> QED BY <2>1, <1>6, Least
  <2>3. i0 \in hits
    <3> HIDE DEF hits
    <3> QED BY <2>2
  <2>4. i0 \in DOMAIN s /\ s[i0].to = k BY <2>3
  <2>5. s[i0].to # Nobody BY <2>4 DEF RecipientsAssumption
  <2> HIDE DEF i0
  <2> QED BY <2>4, <2>5, <1>1 DEF Fitting
<1> HIDE DEF i0, hits
<1> QED BY <1>4, <1>5, <1>6

\* The one slot of a single-recipient layout.
LEMMA SingleSlot ==
  ASSUME RecipientsAssumption, NEW v, Written(v), v.pqf.layout \in Single
  PROVE  /\ v.pqf.slots[1].to \in Keys /\ v.pqf.slots[1].wraps = Session
         /\ v.named = {v.pqf.slots[1].to}
<1> DEFINE c == v.pqf
           s == c.slots
<1>1. Fitting(c.layout, c.auth, s, c.chunk, c.comp) /\ v.named = Named(s) BY WrittenFitting
<1>2. s \in Seq(SlotType) /\ Len(s) = 1 /\ Named(s) # {} BY <1>1 DEF Fitting
<1>3. DOMAIN s = {1} BY <1>2
<1>4. Named(s) = {s[1].to} \ {Nobody} BY <1>3 DEF Named
<1>5. s[1].to # Nobody /\ Named(s) = {s[1].to} BY <1>2, <1>4
<1>6. Named(s) \subseteq Keys BY <1>2, NamedKeys
<1>7. s[1].wraps = Session BY <1>1, <1>3, <1>5 DEF Fitting
<1> QED BY <1>1, <1>5, <1>6, <1>7

LEMMA StreamKeys ==
  ASSUME RecipientsAssumption, NEW v, Written(v), NEW k \in Keys
  PROVE  StreamKey(k, v.pqf) = Session <=> k \in v.named
<1> DEFINE c == v.pqf
<1>1. c.layout \in Single \cup Multi BY DEF Written
<1>2. CASE c.layout \in Multi
  <2>1. StreamKey(k, c) = FindSessionKey(k, c) BY <1>2 DEF StreamKey
  <2>2. FindSessionKey(k, c) = IF k \in v.named THEN Session ELSE NoKey BY FindsSessionKey
  <2> QED BY <2>1, <2>2 DEF Session, NoKey
<1>3. CASE c.layout \in Single /\ c.layout \notin Multi
  <2>1. v.named = {c.slots[1].to} /\ c.slots[1].wraps = Session BY <1>3, SingleSlot
  <2>2. CASE k = c.slots[1].to
    BY <1>3, <2>1, <2>2 DEF StreamKey, Decapsulate
  <2>3. CASE k # c.slots[1].to
    BY <1>3, <2>1, <2>3 DEF StreamKey, Decapsulate, Session, Garbage, NoKey
  <2> QED BY <2>2, <2>3
<1> HIDE DEF c
<1> QED BY <1>1, <1>2, <1>3

\* Whoever a version names opens it, and nobody else.
LEMMA WrittenOpens ==
  ASSUME RecipientsAssumption, NEW v, Written(v), v # Absent
  PROVE  Openers(v) = v.named /\ v.named \subseteq Keys
<1> DEFINE c == v.pqf
<1>1. /\ Fitting(c.layout, c.auth, c.slots, c.chunk, c.comp) /\ v.named = Named(c.slots)
      /\ c = Sealed(c.layout, c.auth, c.slots, c.chunk, c.comp)
  BY WrittenFitting
<1>2. v.named \subseteq Keys BY <1>1, NamedKeys DEF Fitting
<1>3. /\ c.payload.whole = (c.layout = "v2") /\ c.payload.chunk = c.chunk
      /\ c.payload.comp = c.comp
      /\ c.payload.bound = Commitment(Session, c.auth, c.chunk, c.comp)
  BY <1>1, SealedFields
<1>4. HeaderChunk(c) = c.chunk /\ HeaderComp(c) = c.comp
  BY <1>1 DEF Fitting, HeaderChunk, HeaderComp
<1>5. ASSUME NEW k \in Keys PROVE Opens(k, c) <=> k \in v.named
  BY <1>3, <1>4, StreamKeys DEF Opens
<1> QED BY <1>2, <1>5 DEF Openers
-----------------------------------------------------------------------------
(* What the commands make. *)

\* The key that a rekey is given is the file's, for no other is of its variant: its
\* secret is the file's, wrapped for the new key.
LEMMA RekeyedWritten ==
  ASSUME RecipientsAssumption, ApartAssumption, NEW v, Written(v), NEW k \in RekeyKeys,
         NEW new \in Keys, Rekeyable(k, v.pqf)
  PROVE  /\ Written(Rekeyed(k, new, v)) /\ Rekeyed(k, new, v).named = {new}
         /\ Rekeyed(k, new, v) # Absent
<1> DEFINE c == v.pqf
           s == <<Slot(new, Session)>>
<1>1. c.layout \in {"v3", "v5"} /\ HeaderChunk(c) = "default" /\ KemOf[c.slots[1].to] = KemOf[k]
  BY DEF Rekeyable
<1>2. c.layout \in Single BY <1>1 DEF Single
<1>3. c.slots[1].to \in Keys /\ c.slots[1].wraps = Session BY <1>2, SingleSlot
<1>4. c.slots[1].to = k BY <1>1, <1>3 DEF ApartAssumption
<1>5. Decapsulate(k, c.slots[1]) = Session BY <1>3, <1>4 DEF Decapsulate
<1>6. /\ Fitting(c.layout, c.auth, c.slots, c.chunk, c.comp)
      /\ c = Sealed(c.layout, c.auth, c.slots, c.chunk, c.comp)
  BY WrittenFitting
<1>7. c.chunk = "default" /\ c.comp = "none" /\ c.auth \in BOOLEAN
  BY <1>1, <1>6 DEF Fitting, HeaderChunk
<1>8. WithHeader(c, "v4", s) = Sealed("v4", c.auth, s, c.chunk, c.comp)
  <2>1. (c.layout = "v2") = ("v4" = "v2") BY <1>1
  <2> HIDE DEF s
  <2> QED BY <1>6, <2>1, WithHeaderSealed
<1>9. /\ s \in Seq(SlotType) /\ Len(s) = 1 /\ DOMAIN s = {1} /\ s[1] = Slot(new, Session)
  BY DEF SlotType, Slot
<1>10. s[1].to = new /\ s[1].wraps = Session /\ new # Nobody BY <1>9 DEF Slot, RecipientsAssumption
<1>11. Named(s) = {new}
  <2> HIDE DEF s
  <2> QED BY <1>9, <1>10 DEF Named
<1>12. Fitting("v4", c.auth, s, c.chunk, c.comp)
  <2> HIDE DEF s
  <2> QED BY <1>7, <1>9, <1>10, <1>11 DEF Fitting, Single, Multi, RecipientsAssumption
<1>13. Rekeyed(k, new, v) = [pqf |-> Sealed("v4", c.auth, s, c.chunk, c.comp), named |-> Named(s)]
  BY <1>5, <1>8, <1>11 DEF Rekeyed
<1>14. Written(Rekeyed(k, new, v))
  <2> HIDE DEF s
  <2> QED BY <1>12, <1>13, FittingWritten
<1>15. Rekeyed(k, new, v).named = {new} BY DEF Rekeyed
<1> QED BY <1>13, <1>14, <1>15 DEF ApartAssumption

LEMMA ExtendedWritten ==
  ASSUME RecipientsAssumption, ApartAssumption, NEW v, Written(v), NEW k \in Keys,
         NEW new \in Keys, Extensible(k, v.pqf)
  PROVE  /\ Written(Extended(k, new, v)) /\ Extended(k, new, v).named = v.named \cup {new}
         /\ Extended(k, new, v) # Absent
<1> DEFINE c == v.pqf
           s == Append(c.slots, Slot(new, Session))
<1>1. /\ c.layout \in {"v4", "v7", "v8"} /\ FindSessionKey(k, c) # NoKey
      /\ Len(c.slots) + 1 <= MaxRecipients
  BY DEF Extensible
<1>2. FindSessionKey(k, c) = Session BY <1>1, FindsSessionKey
<1>3. /\ Fitting(c.layout, c.auth, c.slots, c.chunk, c.comp)
      /\ c = Sealed(c.layout, c.auth, c.slots, c.chunk, c.comp)
      /\ v.named = Named(c.slots)
  BY WrittenFitting
<1>4. c.slots \in Seq(SlotType) BY <1>3 DEF Fitting
<1>5. Slot(new, Session) \in SlotType BY DEF SlotType, Slot
<1>6. PICK e : e = Slot(new, Session) OBVIOUS
<1>7. e.to = new /\ e.wraps = Session /\ new # Nobody BY <1>6 DEF Slot, RecipientsAssumption
<1>8. /\ s \in Seq(SlotType) /\ Len(s) = Len(c.slots) + 1 /\ s[Len(c.slots) + 1] = e
      /\ \A i \in 1 .. Len(c.slots) : s[i] = c.slots[i]
  BY <1>4, <1>5, <1>6, AppendProperties
<1>9. Len(c.slots) \in Nat /\ DOMAIN c.slots = 1 .. Len(c.slots) BY <1>4
<1>10. DOMAIN s = DOMAIN c.slots \cup {Len(c.slots) + 1}
  <2>1. DOMAIN s = 1 .. Len(s) BY <1>8
  <2> HIDE DEF s
  <2> QED BY <2>1, <1>8, <1>9
<1>11. Named(s) = Named(c.slots) \cup {new}
  <2> HIDE DEF s
  <2>1. {s[i].to : i \in DOMAIN s} = {c.slots[i].to : i \in DOMAIN c.slots} \cup {new}
    BY <1>7, <1>8, <1>9, <1>10
  <2> QED BY <1>7, <2>1 DEF Named
<1>12. \A i \in DOMAIN s : s[i].to # Nobody => s[i].wraps = Session
  <2> HIDE DEF s
  <2>1. \A i \in DOMAIN c.slots : c.slots[i].to # Nobody => c.slots[i].wraps = Session
    BY <1>3 DEF Fitting
  <2> QED BY <1>7, <1>8, <1>9, <1>10, <2>1
<1>13. Fitting(c.layout, c.auth, s, c.chunk, c.comp)
  <2> HIDE DEF s
  <2>1. c.layout \notin Single BY <1>1 DEF Single
  <2> QED BY <1>1, <1>3, <1>8, <1>11, <1>12, <2>1 DEF Fitting
<1>14. WithHeader(c, c.layout, s) = Sealed(c.layout, c.auth, s, c.chunk, c.comp)
  <2> HIDE DEF s
  <2> QED BY <1>3, WithHeaderSealed
<1>15. Extended(k, new, v) =
         [pqf |-> Sealed(c.layout, c.auth, s, c.chunk, c.comp), named |-> Named(s)]
  BY <1>2, <1>3, <1>11, <1>14 DEF Extended
<1>16. Written(Extended(k, new, v))
  <2> HIDE DEF s
  <2> QED BY <1>13, <1>15, FittingWritten
<1>17. Extended(k, new, v).named = v.named \cup {new} BY DEF Extended
<1> QED BY <1>15, <1>16, <1>17 DEF ApartAssumption

LEMMA SlotsOf ==
  ASSUME RecipientsAssumption, NEW ks \in Seq(Keys), ks # <<>>
  PROVE  /\ Slots(ks) \in Seq(SlotType) /\ Len(Slots(ks)) = Len(ks) /\ Len(ks) \in Nat \ {0}
         /\ \A i \in 1 .. Len(ks) : Slots(ks)[i].to = ks[i] /\ Slots(ks)[i].wraps = Session
         /\ Named(Slots(ks)) = {ks[i] : i \in DOMAIN ks} /\ Named(Slots(ks)) # {}
<1>1. PICK n : n = Len(ks) /\ n \in Nat \ {0} /\ DOMAIN ks = 1 .. n OBVIOUS
<1>2. PICK s : s = Slots(ks) OBVIOUS
<1>3. s = [i \in 1 .. n |-> Slot(ks[i], Session)] BY <1>1, <1>2 DEF Slots
<1>4. ASSUME NEW i \in 1 .. n
      PROVE  s[i] \in SlotType /\ s[i].to = ks[i] /\ s[i].wraps = Session /\ ks[i] \in Keys
  <2>1. s[i] = [to |-> ks[i], wraps |-> Session] /\ ks[i] \in Keys BY <1>1, <1>3 DEF Slot
  <2> QED BY <2>1 DEF SlotType
<1>5. s \in [1 .. n -> SlotType] BY <1>3, <1>4
<1>6. s \in Seq(SlotType) /\ Len(s) = n /\ DOMAIN s = 1 .. n BY <1>1, <1>5
<1>7. {s[i].to : i \in DOMAIN s} = {ks[i] : i \in DOMAIN ks} BY <1>1, <1>4, <1>6
<1>8. Nobody \notin {ks[i] : i \in DOMAIN ks} BY <1>1, <1>4 DEF RecipientsAssumption
<1>9. Named(s) = {ks[i] : i \in DOMAIN ks} BY <1>7, <1>8 DEF Named
<1>10. ks[1] \in {ks[i] : i \in DOMAIN ks} BY <1>1
<1> QED BY <1>1, <1>2, <1>4, <1>6, <1>9, <1>10

\* Dummies are appended for nobody.
LEMMA PaddedOf ==
  ASSUME RecipientsAssumption, NEW s \in Seq(SlotType), Len(s) \in 1 .. 256,
         \A i \in DOMAIN s : s[i].to # Nobody => s[i].wraps = Session
  PROVE  /\ Padded(s) \in Seq(SlotType) /\ Named(Padded(s)) = Named(s)
         /\ \A i \in DOMAIN Padded(s) :
              Padded(s)[i].to # Nobody => Padded(s)[i].wraps = Session
<1>1. PICK n \in 1 .. 256 : n = Len(s) OBVIOUS
<1>2. NextPowerOfTwo(n) \in Nat /\ n <= NextPowerOfTwo(n) BY PowerAbove
<1>3. PICK m \in Nat : m = NextPowerOfTwo(n) - n BY <1>2
<1>4. n \in Nat /\ m \in Nat OBVIOUS
<1>5. PICK d : d = [i \in 1 .. m |-> Dummy] OBVIOUS
<1>6. Dummy \in SlotType /\ Dummy.to = Nobody BY DEF Dummy, Slot, SlotType
<1>7. d \in [1 .. m -> SlotType] BY <1>5, <1>6
<1>8. d \in Seq(SlotType) /\ Len(d) = m BY <1>7
<1>9. PICK p : p = s \o d OBVIOUS
<1>10. Padded(s) = p BY <1>1, <1>3, <1>5, <1>9 DEF Padded
<1>11. /\ p \in Seq(SlotType) /\ Len(p) = n + m
       /\ \A i \in 1 .. n : p[i] = s[i]
       /\ \A i \in 1 .. m : p[n + i] = d[i]
  <2>1. /\ s \o d \in Seq(SlotType) /\ Len(s \o d) = Len(s) + Len(d)
        /\ \A i \in 1 .. Len(s) + Len(d) :
             (s \o d)[i] = IF i <= Len(s) THEN s[i] ELSE d[i - Len(s)]
    <3>1. d \in Seq(SlotType) BY <1>8
    <3> QED BY <3>1, ConcatProperties, ZenonT(60)
  <2>2. /\ p \in Seq(SlotType) /\ Len(p) = n + m
        /\ \A i \in 1 .. n + m : p[i] = IF i <= n THEN s[i] ELSE d[i - n]
    BY <1>1, <1>8, <1>9, <2>1
  <2>3. ASSUME NEW i \in 1 .. n PROVE p[i] = s[i]
    <3>1. i \in 1 .. n + m /\ i <= n BY <1>4
    <3> QED BY <2>2, <3>1
  <2>4. ASSUME NEW i \in 1 .. m PROVE p[n + i] = d[i]
    <3>1. n + i \in 1 .. n + m /\ ~ (n + i <= n) /\ (n + i) - n = i
      BY <1>4
    <3> QED BY <2>2, <3>1
  <2> QED BY <2>2, <2>3, <2>4
<1>12. \A i \in 1 .. n : p[i] = s[i] BY <1>11
<1>13. ASSUME NEW i \in (n + 1) .. (n + m) PROVE p[i].to = Nobody
  <2>1. PICK j \in 1 .. m : i = n + j
    <3>1. i - n \in 1 .. m /\ i = n + (i - n) BY <1>4
    <3> QED BY <3>1
  <2>2. p[i] = d[j] BY <1>11, <2>1
  <2> QED BY <1>5, <1>6, <2>2
<1>14. DOMAIN s = 1 .. n
  <2>1. DOMAIN s = 1 .. Len(s) OBVIOUS
  <2> QED BY <1>1, <2>1
<1>15. DOMAIN p = 1 .. n + m
  <2>1. p \in Seq(SlotType) /\ Len(p) = n + m BY <1>11
  <2>2. DOMAIN p = 1 .. Len(p) BY <2>1
  <2> QED BY <2>1, <2>2
<1>16. \A i \in DOMAIN p : i \in DOMAIN s \/ i \in (n + 1) .. (n + m)
  BY <1>14, <1>15, <1>4
<1>17. DOMAIN s \subseteq DOMAIN p BY <1>14, <1>15, <1>4
<1>18. Named(p) = Named(s)
  <2>1. ASSUME NEW k, k # Nobody
        PROVE  k \in {p[i].to : i \in DOMAIN p} <=> k \in {s[i].to : i \in DOMAIN s}
    <3>1. ASSUME NEW i \in DOMAIN p, p[i].to = k PROVE k \in {s[x].to : x \in DOMAIN s}
      <4>1. i \in DOMAIN s BY <1>13, <1>16, <2>1, <3>1
      <4> QED BY <1>12, <1>14, <3>1, <4>1
    <3>2. ASSUME NEW i \in DOMAIN s, s[i].to = k PROVE k \in {p[x].to : x \in DOMAIN p}
      <4>1. i \in DOMAIN p /\ p[i] = s[i] BY <1>12, <1>14, <1>17
      <4> QED BY <3>2, <4>1
    <3> QED BY <3>1, <3>2
  <2> QED BY <2>1 DEF Named
<1>19. \A i \in DOMAIN p : p[i].to # Nobody => p[i].wraps = Session
  BY <1>12, <1>13, <1>14, <1>16
<1> QED BY <1>10, <1>11, <1>18, <1>19

\* A file just encrypted is a version for the keys listed, in every mode.
LEMMA EncryptedWritten ==
  ASSUME RecipientsAssumption, ApartAssumption, NEW ks \in Lists, NEW mode \in Modes(ks),
         Len(ks) <= MaxRecipients, Len(Encrypted(mode, ks).slots) <= MaxRecipients,
         NEW v, v = [pqf |-> Encrypted(mode, ks), named |-> {ks[i] : i \in DOMAIN ks}]
  PROVE  /\ Written(v) /\ v.named = {ks[i] : i \in DOMAIN ks} /\ v # Absent
         /\ v.named \subseteq Keys
<1>1. PICK names : names = {ks[i] : i \in DOMAIN ks} OBVIOUS
<1>2. ks \in Seq(Keys) /\ ks # <<>> BY DEF RecipientsAssumption
<1>3. PICK s : s = Slots(ks) OBVIOUS
<1>4. PICK n : n = Len(ks) OBVIOUS
<1>5. /\ s \in Seq(SlotType) /\ Len(s) = n /\ n \in Nat \ {0}
      /\ \A i \in DOMAIN s : s[i].to # Nobody => s[i].wraps = Session
      /\ Named(s) = names /\ names # {}
  <2>1. /\ Slots(ks) \in Seq(SlotType) /\ Len(Slots(ks)) = Len(ks) /\ Len(ks) \in Nat \ {0}
        /\ \A i \in 1 .. Len(ks) : Slots(ks)[i].to = ks[i] /\ Slots(ks)[i].wraps = Session
        /\ Named(Slots(ks)) = {ks[i] : i \in DOMAIN ks} /\ Named(Slots(ks)) # {}
    BY <1>2, SlotsOf, ZenonT(60)
  <2>2. s \in Seq(SlotType) /\ Len(s) = n /\ n \in Nat \ {0} BY <1>3, <1>4, <2>1
  <2>3. DOMAIN s = 1 .. n BY <2>2
  <2>4. \A i \in DOMAIN s : s[i].to # Nobody => s[i].wraps = Session
    BY <1>3, <1>4, <2>1, <2>3
  <2>5. Named(s) = names /\ names # {} BY <1>1, <1>3, <2>1
  <2> QED BY <2>2, <2>4, <2>5
<1>6. n <= MaxRecipients /\ n \in 1 .. 256
  <2>1. MaxRecipients \in Nat BY DEF RecipientsAssumption
  <2>2. MaxRecipients <= 256 BY DEF ApartAssumption
  <2>3. n <= MaxRecipients BY <1>4
  <2> QED BY <1>5, <2>1, <2>2, <2>3
<1>7. names \subseteq Keys BY <1>5, NamedKeys
<1>8. PICK yes : yes = TRUE OBVIOUS
<1>9. ASSUME NEW l, NEW ch, NEW co, Fitting(l, yes, s, ch, co),
             Encrypted(mode, ks) = Sealed(l, yes, s, ch, co)
      PROVE  Written(v)
  <2>1. PICK c : c = Encrypted(mode, ks) OBVIOUS
  <2>2. v = [pqf |-> c, named |-> names] BY <1>1, <2>1
  <2>3. PICK w : w = [pqf |-> Sealed(l, yes, s, ch, co), named |-> Named(s)] OBVIOUS
  <2>4. Written(w) BY <1>9, <2>3, FittingWritten
  <2>5. v = w BY <1>5, <1>9, <2>1, <2>2, <2>3
  <2> QED BY <2>4, <2>5
<1>10. Written(v)
  <2>1. CASE mode \in {"single", "chunk size", "compressed"}
    <3>1. n = 1 BY <1>4, <2>1 DEF Modes
    <3>2. Fitting("v3", yes, s, "default", "none")
      BY <1>5, <1>6, <1>8, <3>1 DEF Fitting, Single, Multi
    <3>3. Fitting("v5", yes, s, "custom", "none")
      BY <1>5, <1>6, <1>8, <3>1 DEF Fitting, Single, Multi
    <3>4. Fitting("v6", yes, s, "default", "zstd")
      BY <1>5, <1>6, <1>8, <3>1 DEF Fitting, Single, Multi
    <3>5. CASE mode = "single"
      <4>1. Encrypted(mode, ks) = Sealed("v3", yes, s, "default", "none")
        BY <1>3, <1>8, <3>5 DEF Encrypted
      <4> QED BY <1>9, <3>2, <4>1
    <3>6. CASE mode = "chunk size"
      <4>1. Encrypted(mode, ks) = Sealed("v5", yes, s, "custom", "none")
        BY <1>3, <1>8, <3>6 DEF Encrypted
      <4> QED BY <1>9, <3>3, <4>1
    <3>7. CASE mode = "compressed"
      <4>1. Encrypted(mode, ks) = Sealed("v6", yes, s, "default", "zstd")
        BY <1>3, <1>8, <3>7 DEF Encrypted
      <4> QED BY <1>9, <3>4, <4>1
    <3> QED BY <2>1, <3>5, <3>6, <3>7
  <2>2. CASE mode \in {"multi", "anonymous"}
    <3>1. Fitting("v4", yes, s, "default", "none") BY <1>5, <1>6, <1>8 DEF Fitting, Single, Multi
    <3>2. Fitting("v8", yes, s, "default", "none") BY <1>5, <1>6, <1>8 DEF Fitting, Single, Multi
    <3>3. CASE mode = "multi"
      <4>1. Encrypted(mode, ks) = Sealed("v4", yes, s, "default", "none")
        BY <1>3, <1>8, <3>3 DEF Encrypted
      <4> QED BY <1>9, <3>1, <4>1
    <3>4. CASE mode = "anonymous"
      <4>1. Encrypted(mode, ks) = Sealed("v8", yes, s, "default", "none")
        BY <1>3, <1>8, <3>4 DEF Encrypted
      <4> QED BY <1>9, <3>2, <4>1
    <3> QED BY <2>2, <3>3, <3>4
  <2>3. CASE mode = "padded"
    <3>1. PICK p : p = Padded(s) OBVIOUS
    <3>2. Encrypted(mode, ks) = Sealed("v9", yes, p, "default", "none")
      BY <1>3, <1>8, <2>3, <3>1 DEF Encrypted
    <3>3. Encrypted(mode, ks).slots = p
      <4>1. PICK c : c = Sealed("v9", yes, p, "default", "none") OBVIOUS
      <4>2. c.slots = p BY <4>1, SealedFields
      <4> QED BY <3>2, <4>1, <4>2
    <3>4. /\ p \in Seq(SlotType) /\ Named(p) = names
          /\ \A i \in DOMAIN p : p[i].to # Nobody => p[i].wraps = Session
      BY <1>5, <1>6, <3>1, PaddedOf
    <3>5. Len(p) <= MaxRecipients BY <3>3
    <3>6. Fitting("v9", yes, p, "default", "none")
      BY <1>5, <1>8, <3>4, <3>5 DEF Fitting, Single, Multi
    <3>7. PICK c : c = Sealed("v9", yes, p, "default", "none") OBVIOUS
    <3>8. PICK w : w = [pqf |-> Sealed("v9", yes, p, "default", "none"), named |-> Named(p)]
      OBVIOUS
    <3>9. Written(w) BY <3>6, <3>8, FittingWritten
    <3>10. v = w BY <1>1, <3>2, <3>4, <3>7, <3>8
    <3> QED BY <3>9, <3>10
  <2>4. mode \in {"single", "chunk size", "compressed", "multi", "anonymous", "padded"}
    BY DEF Modes
  <2> QED BY <2>1, <2>2, <2>3, <2>4
<1>11. v.named = names
  <2>1. PICK c : c = Encrypted(mode, ks) OBVIOUS
  <2>2. v = [pqf |-> c, named |-> names] BY <1>1, <2>1
  <2> QED BY <2>2
<1> QED BY <1>1, <1>7, <1>10, <1>11 DEF ApartAssumption
-----------------------------------------------------------------------------
(* Every version is written. *)

LEMMA IdleFields ==
  /\ DOMAIN Idle = JobFields
  /\ Idle.pc = "idle" /\ Idle.op = "none" /\ Idle.old = Nobody /\ Idle.new = {}
  /\ Idle.src = 0 /\ Idle.dst = 0 /\ Idle.out = Absent /\ Idle.todo = {} /\ Idle.listed = {}
  /\ Idle.failed = FALSE
<1>1. PICK no : no = FALSE OBVIOUS
<1>2. Idle = [pc |-> "idle", op |-> "none", old |-> Nobody, new |-> {}, src |-> 0, dst |-> 0,
              out |-> Absent, todo |-> {}, listed |-> {}, failed |-> no]
  BY <1>1 DEF Idle
<1> HIDE DEF Idle
<1> QED BY <1>1, <1>2 DEF JobFields

LEMMA IdleHolds == ASSUME NEW e PROVE JobHolds(Idle, e) BY IdleFields DEF JobHolds

\* The job of a command that has filled its temporary file.
Started(op, old, new, src, dst, out) ==
  [Idle EXCEPT !.pc = "rename", !.op = op, !.old = old, !.new = new,
               !.src = src, !.dst = dst, !.out = out]

LEMMA StartedFields ==
  ASSUME NEW op, NEW old, NEW new, NEW src, NEW dst, NEW out, NEW j,
         j = Started(op, old, new, src, dst, out)
  PROVE  /\ DOMAIN j = JobFields /\ j.pc = "rename" /\ j.op = op /\ j.old = old
         /\ j.new = new /\ j.src = src /\ j.dst = dst /\ j.out = out
         /\ j.todo = {} /\ j.listed = {} /\ ~j.failed
<1>1. PICK i : i = Idle OBVIOUS
<1>2. PICK no : no = FALSE OBVIOUS
<1>3. DOMAIN i = JobFields /\ i.todo = {} /\ i.listed = {} /\ i.failed = no
  BY <1>1, <1>2, IdleFields
<1>4. j = [i EXCEPT !.pc = "rename", !.op = op, !.old = old, !.new = new,
                    !.src = src, !.dst = dst, !.out = out] BY <1>1 DEF Started
<1>5. /\ DOMAIN j = JobFields /\ j.pc = "rename" /\ j.op = op /\ j.old = old
      /\ j.new = new /\ j.src = src /\ j.dst = dst /\ j.out = out
      /\ j.todo = {} /\ j.listed = {} /\ j.failed = no
  BY <1>3, <1>4 DEF JobFields
<1> QED BY <1>2, <1>5

LEMMA InitWritten == ASSUME RecipientsAssumption, EarlierAssumption, Init PROVE WrittenInv
<1>1. DOMAIN entry = Files /\ \A f \in Files : entry[f] = Absent \/ Written(entry[f])
  BY DEF EarlierAssumption, Init
<1>2. \A f \in Files : durable[f] = {entry[f]} BY DEF Init
<1>3. AllWritten BY <1>1, <1>2 DEF AllWritten
<1>4. JobsHold BY IdleHolds DEF JobsHold, Init
<1>5. Typed
  <2>1. DOMAIN durable = Files /\ DOMAIN proc = Processes BY DEF Init
  <2>2. ran \in 0 .. MaxCommands /\ faults \in 0 .. MaxFaults
    BY DEF Init, RecipientsAssumption
  <2>3. alone \in BOOLEAN BY DEF Init
  <2>4. due \in [Files -> SUBSET Keys] /\ barred \in [Files -> SUBSET Keys] BY DEF Init, None
  <2> QED BY <1>1, <2>1, <2>2, <2>3, <2>4 DEF Typed
<1> QED BY <1>3, <1>4, <1>5 DEF WrittenInv

\* A step that leaves the disk alone and one process with a job that holds.
LEMMA JobStep ==
  ASSUME WrittenInv, Typed', UNCHANGED disk, NEW p \in Processes, NEW j,
         proc' = [proc EXCEPT ![p] = j], JobHolds(j, entry)
  PROVE  WrittenInv'
<1>1. DOMAIN proc = Processes BY DEF WrittenInv, Typed
<1>2. entry' = entry /\ durable' = durable BY DEF disk
<1>3. ASSUME NEW q \in Processes PROVE JobHolds(proc'[q], entry)
  <2>1. proc'[q] = j \/ proc'[q] = proc[q] BY <1>1
  <2> QED BY <2>1 DEF WrittenInv, JobsHold
<1>4. JobsHold' BY <1>2, <1>3 DEF JobsHold
<1>5. AllWritten' BY <1>2 DEF WrittenInv, AllWritten
<1> QED BY <1>4, <1>5 DEF WrittenInv

\* Typing of what Start and Rotate leave of the history.
LEMMA NoteOverlapTyped ==
  ASSUME WrittenInv, NoteOverlap
  PROVE  /\ alone' \in BOOLEAN
         /\ due' \in [Files -> SUBSET Keys] /\ barred' \in [Files -> SUBSET Keys]
<1>1. None \in [Files -> SUBSET Keys] BY DEF None
<1>2. CASE UNCHANGED history BY <1>2 DEF history, WrittenInv, Typed
<1>3. CASE alone' = FALSE /\ due' = None /\ barred' = None BY <1>1, <1>3
<1> QED BY <1>2, <1>3 DEF NoteOverlap

LEMMA StartStep ==
  ASSUME RecipientsAssumption, WrittenInv, NEW p \in Processes,
         NEW op \in {"encrypt", "rekey", "add"}, NEW old, NEW new, NEW src, NEW dst \in Files, NEW out, Start(p, op, old, new, src, dst, out),
         new \subseteq Keys, out # Absent, Written(out), new \subseteq out.named,
         op = "rekey" => old \in RekeyKeys /\ out.named = new
  PROVE  WrittenInv'
<1>1. PICK j : j = Started(op, old, new, src, dst, out) OBVIOUS
<1>2. proc' = [proc EXCEPT ![p] = j] BY <1>1 DEF Start, Started
<1>3. /\ DOMAIN j = JobFields /\ j.pc = "rename" /\ j.op = op /\ j.old = old /\ j.new = new
      /\ j.dst = dst /\ j.out = out /\ j.todo = {} /\ j.listed = {}
  BY <1>1, StartedFields
<1>4. JobHolds(j, entry) BY <1>3 DEF JobHolds
<1>5. Typed'
  <2>1. UNCHANGED <<disk, faults>> /\ ran < MaxCommands /\ ran' = ran + 1 /\ NoteOverlap
    BY DEF Start
  <2>2. ran' \in 0 .. MaxCommands
    BY <2>1 DEF WrittenInv, Typed, RecipientsAssumption
  <2>3. DOMAIN proc' = Processes BY <1>2 DEF WrittenInv, Typed
  <2>4. /\ alone' \in BOOLEAN
        /\ due' \in [Files -> SUBSET Keys] /\ barred' \in [Files -> SUBSET Keys]
    BY <2>1, NoteOverlapTyped
  <2> QED BY <2>1, <2>2, <2>3, <2>4 DEF WrittenInv, Typed, disk
<1>6. UNCHANGED disk BY DEF Start
<1> QED BY <1>2, <1>4, <1>5, <1>6, JobStep

LEMMA EncryptStep ==
  ASSUME RecipientsAssumption, ApartAssumption, WrittenInv, NEW p \in Processes, Encrypt(p)
  PROVE  WrittenInv'
<1>1. PICK f \in Files, ks \in Lists : \E mode \in Modes(ks) :
        /\ Len(ks) <= MaxRecipients /\ Len(Encrypted(mode, ks).slots) <= MaxRecipients
        /\ Start(p, "encrypt", Nobody, {ks[i] : i \in DOMAIN ks}, 0, f,
                 [pqf |-> Encrypted(mode, ks), named |-> {ks[i] : i \in DOMAIN ks}])
  BY DEF Encrypt
<1>2. PICK mode \in Modes(ks) :
        /\ Len(ks) <= MaxRecipients /\ Len(Encrypted(mode, ks).slots) <= MaxRecipients
        /\ Start(p, "encrypt", Nobody, {ks[i] : i \in DOMAIN ks}, 0, f,
                 [pqf |-> Encrypted(mode, ks), named |-> {ks[i] : i \in DOMAIN ks}])
  BY <1>1
<1>3. PICK out : out = [pqf |-> Encrypted(mode, ks), named |-> {ks[i] : i \in DOMAIN ks}] OBVIOUS
<1>4. PICK new : new = {ks[i] : i \in DOMAIN ks} OBVIOUS
<1>5. /\ Written(out) /\ out.named = {ks[i] : i \in DOMAIN ks} /\ out # Absent
      /\ out.named \subseteq Keys
  BY <1>2, <1>3, EncryptedWritten
<1>6. Start(p, "encrypt", Nobody, new, 0, f, out) BY <1>2, <1>3, <1>4
<1> QED BY <1>4, <1>5, <1>6, StartStep

\* What is on disk, or may be after a power loss, is written.
LEMMA EntryWritten ==
  ASSUME WrittenInv, NEW f \in Files, entry[f] # Absent PROVE Written(entry[f])
BY DEF WrittenInv, AllWritten

LEMMA RekeyStep ==
  ASSUME RecipientsAssumption, ApartAssumption, WrittenInv, NEW p \in Processes, Rekey(p)
  PROVE  WrittenInv'
<1>1. PICK src \in Files, dst \in Files, k \in RekeyKeys, new \in NewKeys :
        /\ entry[src] # Absent /\ Rekeyable(k, entry[src].pqf)
        /\ Start(p, "rekey", k, {new}, src, dst, Rekeyed(k, new, entry[src]))
  BY DEF Rekey
<1>2. PICK v : v = entry[src] OBVIOUS
<1>3. Written(v) BY <1>1, <1>2, EntryWritten
<1>4. new \in Keys BY DEF RecipientsAssumption
<1>5. PICK out : out = Rekeyed(k, new, v) OBVIOUS
<1>6. Written(out) /\ out.named = {new} /\ out # Absent
  BY <1>1, <1>2, <1>3, <1>4, <1>5, RekeyedWritten
<1>7. Start(p, "rekey", k, {new}, src, dst, out) BY <1>1, <1>2, <1>5
<1> QED BY <1>4, <1>6, <1>7, StartStep

LEMMA AddRecipientStep ==
  ASSUME RecipientsAssumption, ApartAssumption, WrittenInv, NEW p \in Processes, AddRecipient(p)
  PROVE  WrittenInv'
<1>1. PICK src \in Files, dst \in Files, k \in Keys, new \in AddKeys :
        /\ entry[src] # Absent /\ Extensible(k, entry[src].pqf)
        /\ Start(p, "add", k, {new}, src, dst, Extended(k, new, entry[src]))
  BY DEF AddRecipient
<1>2. PICK v : v = entry[src] OBVIOUS
<1>3. Written(v) BY <1>1, <1>2, EntryWritten
<1>4. new \in Keys BY DEF RecipientsAssumption
<1>5. PICK out : out = Extended(k, new, v) OBVIOUS
<1>6. Written(out) /\ out.named = v.named \cup {new} /\ out # Absent
  BY <1>1, <1>2, <1>3, <1>4, <1>5, ExtendedWritten
<1>7. Start(p, "add", k, {new}, src, dst, out) BY <1>1, <1>2, <1>5
<1> QED BY <1>4, <1>6, <1>7, StartStep

Rotating(k, new, listed) ==
  [Idle EXCEPT !.pc = "next", !.op = "rotate", !.old = k, !.new = {new},
               !.todo = listed, !.listed = listed]

LEMMA RotatingFields ==
  ASSUME NEW k, NEW new, NEW listed, NEW j, j = Rotating(k, new, listed)
  PROVE  /\ DOMAIN j = JobFields /\ j.pc = "next" /\ j.op = "rotate" /\ j.old = k
         /\ j.new = {new} /\ j.todo = listed /\ j.listed = listed
<1>1. PICK i : i = Idle OBVIOUS
<1>2. DOMAIN i = JobFields BY <1>1, IdleFields
<1>3. j = [i EXCEPT !.pc = "next", !.op = "rotate", !.old = k, !.new = {new},
                    !.todo = listed, !.listed = listed] BY <1>1 DEF Rotating
<1> QED BY <1>2, <1>3 DEF JobFields

LEMMA RotateStep ==
  ASSUME RecipientsAssumption, WrittenInv, NEW p \in Processes, Rotate(p)
  PROVE  WrittenInv'
<1>1. PICK k \in RekeyKeys, new \in NewKeys :
        /\ proc' = [proc EXCEPT ![p] = Rotating(k, new, {f \in Files : entry[f] # Absent})]
        /\ NoteOverlap /\ UNCHANGED <<disk, ran, faults>>
  BY DEF Rotate, Rotating
<1>2. PICK listed : listed = {f \in Files : entry[f] # Absent} OBVIOUS
<1>3. PICK j : j = Rotating(k, new, listed) OBVIOUS
<1>4. proc' = [proc EXCEPT ![p] = j] BY <1>1, <1>2, <1>3
<1>5. /\ DOMAIN j = JobFields /\ j.pc = "next" /\ j.op = "rotate" /\ j.old = k
      /\ j.new = {new} /\ j.todo = listed /\ j.listed = listed
  BY <1>3, RotatingFields
<1>6. JobHolds(j, entry) BY <1>2, <1>5 DEF JobHolds, RecipientsAssumption
<1>7. Typed'
  <2>1. DOMAIN proc' = Processes BY <1>4 DEF WrittenInv, Typed
  <2>2. /\ alone' \in BOOLEAN
        /\ due' \in [Files -> SUBSET Keys] /\ barred' \in [Files -> SUBSET Keys]
    BY <1>1, NoteOverlapTyped
  <2> QED BY <1>1, <2>1, <2>2 DEF WrittenInv, Typed, disk
<1> QED BY <1>1, <1>4, <1>6, <1>7, JobStep

\* The next file is one of those listed.
LEMMA FirstOf ==
  ASSUME RecipientsAssumption, NEW s, s \subseteq Files, s # {} PROVE First(s) \in s
<1>1. s \subseteq Nat BY DEF RecipientsAssumption
<1>2. \E f \in s : \A g \in s : f <= g BY <1>1, Least
<1> QED BY <1>2 DEF First

\* What becomes of the job over file f.
Skipping(j, f) == [j EXCEPT !.todo = @ \ {f}, !.failed = TRUE]
Taking(j, f, out) ==
  [j EXCEPT !.pc = "rename", !.src = f, !.dst = f, !.todo = @ \ {f}, !.out = out]

LEMMA SkippingFields ==
  ASSUME NEW i, NEW f, NEW j, DOMAIN i = JobFields, j = Skipping(i, f)
  PROVE  /\ DOMAIN j = JobFields /\ j.pc = i.pc /\ j.op = i.op /\ j.old = i.old
         /\ j.new = i.new /\ j.src = i.src /\ j.dst = i.dst /\ j.out = i.out
         /\ j.todo = i.todo \ {f} /\ j.listed = i.listed /\ j.failed
<1>1. PICK yes : yes = TRUE OBVIOUS
<1>2. j = [i EXCEPT !.todo = @ \ {f}, !.failed = yes] BY <1>1 DEF Skipping
<1>3. /\ DOMAIN j = JobFields /\ j.pc = i.pc /\ j.op = i.op /\ j.old = i.old
      /\ j.new = i.new /\ j.src = i.src /\ j.dst = i.dst /\ j.out = i.out
      /\ j.todo = i.todo \ {f} /\ j.listed = i.listed /\ j.failed = yes
  BY <1>2 DEF JobFields
<1> QED BY <1>1, <1>3

LEMMA TakingFields ==
  ASSUME NEW i, NEW f, NEW out, NEW j, DOMAIN i = JobFields, j = Taking(i, f, out)
  PROVE  /\ DOMAIN j = JobFields /\ j.pc = "rename" /\ j.op = i.op /\ j.old = i.old
         /\ j.new = i.new /\ j.src = f /\ j.dst = f /\ j.out = out
         /\ j.todo = i.todo \ {f} /\ j.listed = i.listed /\ j.failed = i.failed
BY DEF Taking, JobFields

\* The next file is passed over, or a version of it for the new key is made.
LEMMA RotateFileJob ==
  ASSUME RecipientsAssumption, ApartAssumption, WrittenInv, NEW p \in Processes, RotateNext(p)
  PROVE  \E f \in proc[p].todo : \E j :
           /\ proc' = [proc EXCEPT ![p] = j] /\ JobHolds(j, entry) /\ entry[f] # Absent
           /\ j = Skipping(proc[p], f) \/ \E out : j = Taking(proc[p], f, out)
<1>1. PICK i : i = proc[p] OBVIOUS
<1>2. /\ i.pc = "next" /\ i.todo # {}
      /\ proc' = [proc EXCEPT ![p] = RotateFile(p, First(i.todo))]
  BY <1>1 DEF RotateNext
<1>3. JobHolds(i, entry) BY <1>1 DEF WrittenInv, JobsHold
<1>4. i.todo \subseteq i.listed /\ i.listed \subseteq Files /\ i.op = "rotate"
  BY <1>2, <1>3 DEF JobHolds
<1>5. PICK f \in i.todo : f = First(i.todo) BY <1>2, <1>4, FirstOf
<1>6. f \in Files /\ entry[f] # Absent BY <1>3, <1>4 DEF JobHolds
<1>7. PICK k \in NewKeys : i.new = {k} BY <1>3, <1>4 DEF JobHolds
<1>8. (CHOOSE x \in i.new : TRUE) = k BY <1>7
<1>9. PICK v : v = entry[f] OBVIOUS
<1>10. PICK j : j = RotateFile(p, f) OBVIOUS
<1>11. CASE Rekeyable(i.old, v.pqf)
  <2>1. PICK out : out = Rekeyed(i.old, k, v) OBVIOUS
  <2>2. j = Taking(i, f, out) BY <1>1, <1>8, <1>9, <1>10, <1>11, <2>1 DEF RotateFile, Taking
  <2>3. i.old \in RekeyKeys /\ k \in Keys BY <1>3, <1>4 DEF JobHolds, RecipientsAssumption
  <2>4. Written(v) BY <1>6, <1>9, EntryWritten
  <2>5. Written(out) /\ out.named = {k} /\ out # Absent
    BY <1>11, <2>1, <2>3, <2>4, RekeyedWritten
  <2>6. DOMAIN i = JobFields BY <1>3 DEF JobHolds
  <2>7. /\ DOMAIN j = JobFields /\ j.pc = "rename" /\ j.op = i.op /\ j.old = i.old
        /\ j.new = i.new /\ j.dst = f /\ j.out = out
        /\ j.todo = i.todo \ {f} /\ j.listed = i.listed
    BY <2>2, <2>6, TakingFields
  <2>8. JobHolds(j, entry) BY <1>3, <1>4, <1>6, <1>7, <2>3, <2>5, <2>7 DEF JobHolds
  <2> QED BY <1>1, <1>2, <1>5, <1>6, <1>10, <2>2, <2>8
<1>12. CASE ~Rekeyable(i.old, v.pqf)
  <2>1. j = Skipping(i, f) BY <1>1, <1>9, <1>10, <1>12 DEF RotateFile, Skipping
  <2>2. DOMAIN i = JobFields BY <1>3 DEF JobHolds
  <2>3. /\ DOMAIN j = JobFields /\ j.pc = i.pc /\ j.op = i.op /\ j.old = i.old
        /\ j.new = i.new /\ j.todo = i.todo \ {f} /\ j.listed = i.listed
    BY <2>1, <2>2, SkippingFields
  <2>4. JobHolds(j, entry) BY <1>2, <1>3, <1>4, <1>7, <2>3 DEF JobHolds
  <2> QED BY <1>1, <1>2, <1>5, <1>6, <1>10, <2>1, <2>4
<1> QED BY <1>11, <1>12

LEMMA RotateNextStep ==
  ASSUME RecipientsAssumption, ApartAssumption, WrittenInv, NEW p \in Processes, RotateNext(p)
  PROVE  WrittenInv'
<1>1. PICK j : proc' = [proc EXCEPT ![p] = j] /\ JobHolds(j, entry) BY RotateFileJob
<1>2. UNCHANGED <<disk, ran, faults, history>> BY DEF RotateNext
<1>3. Typed' BY <1>1, <1>2 DEF WrittenInv, Typed, disk, history
<1> QED BY <1>1, <1>2, <1>3, JobStep

\* The end of a command, or of a file's turn in a rotate.
LEMMA DoneFields ==
  ASSUME NEW i, DOMAIN i = JobFields, i.op = "rotate", NEW j, j = Done(i) \/ j = Failed(i)
  PROVE  /\ DOMAIN j = JobFields /\ j.pc = "next" /\ j.op = i.op /\ j.old = i.old
         /\ j.new = i.new /\ j.todo = i.todo /\ j.listed = i.listed
         /\ j = Done(i) => j.failed = i.failed
         /\ j = Failed(i) => j.failed
<1>1. PICK d : d = Done(i) OBVIOUS
<1>2. d = [i EXCEPT !.pc = "next", !.src = 0, !.dst = 0, !.out = Absent] BY <1>1 DEF Done
<1>3. /\ DOMAIN d = JobFields /\ d.pc = "next" /\ d.op = i.op /\ d.old = i.old
      /\ d.new = i.new /\ d.todo = i.todo /\ d.listed = i.listed /\ d.failed = i.failed
  BY <1>2 DEF JobFields
<1>4. PICK yes : yes = TRUE OBVIOUS
<1>5. PICK g : g = [d EXCEPT !.failed = yes] OBVIOUS
<1>6. Failed(i) = g BY <1>1, <1>4, <1>5 DEF Failed
<1>7. /\ DOMAIN g = JobFields /\ g.pc = "next" /\ g.op = i.op /\ g.old = i.old
      /\ g.new = i.new /\ g.todo = i.todo /\ g.listed = i.listed /\ g.failed = yes
  BY <1>3, <1>5 DEF JobFields
<1> QED BY <1>1, <1>3, <1>4, <1>6, <1>7

LEMMA DoneHolds ==
  ASSUME NEW i, NEW e, JobHolds(i, e), NEW j, j = Done(i) \/ j = Failed(i)
  PROVE  JobHolds(j, e)
<1>1. CASE i.op = "rotate"
  <2>1. DOMAIN i = JobFields BY DEF JobHolds
  <2>2. /\ DOMAIN j = JobFields /\ j.pc = "next" /\ j.op = i.op /\ j.old = i.old
        /\ j.new = i.new /\ j.todo = i.todo /\ j.listed = i.listed
    BY <1>1, <2>1, DoneFields
  <2> QED BY <1>1, <2>2 DEF JobHolds
<1>2. CASE i.op # "rotate"
  <2>1. j = Idle BY <1>2 DEF Done, Failed
  <2> QED BY <2>1, IdleHolds
<1> QED BY <1>1, <1>2

LEMMA RotateEndStep ==
  ASSUME WrittenInv, NEW p \in Processes, RotateEnd(p) PROVE WrittenInv'
<1>1. PICK j : j = Idle OBVIOUS
<1>2. proc' = [proc EXCEPT ![p] = j] /\ UNCHANGED <<disk, ran, faults, history>>
  BY <1>1 DEF RotateEnd
<1>3. JobHolds(j, entry) BY <1>1, IdleHolds
<1>4. Typed' BY <1>2 DEF WrittenInv, Typed, disk, history
<1> QED BY <1>2, <1>3, <1>4, JobStep

LEMMA IoErrorStep ==
  ASSUME RecipientsAssumption, WrittenInv, NEW p \in Processes, IoError(p) \/ Kill(p)
  PROVE  WrittenInv'
<1>1. PICK j : /\ proc' = [proc EXCEPT ![p] = j]
               /\ j = Failed(proc[p]) \/ j = Idle
  BY DEF IoError, Kill
<1>2. faults < MaxFaults /\ faults' = faults + 1 /\ UNCHANGED <<disk, ran, history>>
  BY DEF IoError, Kill, Fault
<1>3. JobHolds(proc[p], entry) BY DEF WrittenInv, JobsHold
<1>4. JobHolds(j, entry) BY <1>1, <1>3, DoneHolds, IdleHolds
<1>5. Typed'
  <2>1. faults' \in 0 .. MaxFaults BY <1>2 DEF WrittenInv, Typed, RecipientsAssumption
  <2>2. DOMAIN proc' = Processes BY <1>1 DEF WrittenInv, Typed
  <2> QED BY <1>2, <2>1, <2>2 DEF WrittenInv, Typed, disk, history
<1> QED BY <1>1, <1>2, <1>4, <1>5, JobStep

LEMMA PowerLossStep ==
  ASSUME RecipientsAssumption, WrittenInv, PowerLoss PROVE WrittenInv'
<1>1. /\ faults < MaxFaults /\ faults' = faults + 1 /\ proc' = [p \in Processes |-> Idle]
      /\ DOMAIN entry' = Files /\ \A f \in Files : entry'[f] \in durable[f]
      /\ durable' = [f \in Files |-> {entry'[f]}] /\ UNCHANGED <<ran, history>>
  BY DEF PowerLoss, Fault
<1>2. Typed'
  <2>1. faults' \in 0 .. MaxFaults BY <1>1 DEF WrittenInv, Typed, RecipientsAssumption
  <2> QED BY <1>1, <2>1 DEF WrittenInv, Typed, history
<1>3. AllWritten' BY <1>1 DEF WrittenInv, AllWritten
<1>4. JobsHold' BY <1>1, IdleHolds DEF JobsHold
<1> QED BY <1>2, <1>3, <1>4 DEF WrittenInv

\* A job that holds of some paths holds of others, if no file is gone.
LEMMA JobStays ==
  ASSUME NEW j, NEW e, NEW e2, JobHolds(j, e), \A f \in Files : e[f] # Absent => e2[f] # Absent
  PROVE  JobHolds(j, e2)
BY DEF JobHolds

Synced(j) == [j EXCEPT !.pc = "fsync"]

LEMMA SyncedFields ==
  ASSUME NEW i, NEW j, DOMAIN i = JobFields, j = Synced(i)
  PROVE  /\ DOMAIN j = JobFields /\ j.pc = "fsync" /\ j.op = i.op /\ j.old = i.old
         /\ j.new = i.new /\ j.src = i.src /\ j.dst = i.dst /\ j.out = i.out
         /\ j.todo = i.todo /\ j.listed = i.listed /\ j.failed = i.failed
BY DEF Synced, JobFields

LEMMA NoteRenameTyped ==
  ASSUME WrittenInv, NEW j, j.dst \in Files, NoteRename(j)
  PROVE  due' \in [Files -> SUBSET Keys] /\ barred' \in [Files -> SUBSET Keys]
<1>1. due \in [Files -> SUBSET Keys] /\ barred \in [Files -> SUBSET Keys]
  BY DEF WrittenInv, Typed
<1>2. CASE UNCHANGED <<due, barred>> BY <1>1, <1>2
<1>3. CASE barred' = [barred EXCEPT ![j.dst] = @ \ j.new] /\ UNCHANGED due BY <1>1, <1>3
<1>4. CASE due' = [due EXCEPT ![j.dst] = {}] /\ barred' = [barred EXCEPT ![j.dst] = {}]
  BY <1>1, <1>4
<1> QED BY <1>2, <1>3, <1>4 DEF NoteRename

LEMMA RenameStep ==
  ASSUME WrittenInv, NEW p \in Processes, Rename(p) PROVE WrittenInv'
<1>1. PICK i : i = proc[p] OBVIOUS
<1>2. /\ i.pc = "rename" /\ entry' = [entry EXCEPT ![i.dst] = i.out]
      /\ durable' = [durable EXCEPT ![i.dst] = @ \cup {i.out}]
      /\ proc' = [proc EXCEPT ![p].pc = "fsync"] /\ NoteRename(i)
      /\ UNCHANGED <<ran, faults, alone>>
  BY <1>1 DEF Rename
<1>3. JobHolds(i, entry) BY <1>1 DEF WrittenInv, JobsHold
<1>4. i.dst \in Files /\ i.out # Absent /\ Written(i.out) BY <1>2, <1>3 DEF JobHolds
<1>5. PICK j : j = Synced(i) OBVIOUS
<1>6. DOMAIN entry = Files /\ DOMAIN durable = Files /\ DOMAIN proc = Processes
  BY DEF WrittenInv, Typed
<1>7. /\ entry'[i.dst] = i.out /\ durable'[i.dst] = durable[i.dst] \cup {i.out}
      /\ \A f \in Files : f # i.dst => entry'[f] = entry[f] /\ durable'[f] = durable[f]
  BY <1>2, <1>4, <1>6
<1>8. proc'[p] = j /\ \A q \in Processes : q # p => proc'[q] = proc[q]
  BY <1>1, <1>2, <1>5, <1>6 DEF Synced
<1>9. AllWritten' BY <1>4, <1>7 DEF WrittenInv, AllWritten
<1>10. JobHolds(j, entry)
  <2>1. DOMAIN i = JobFields BY <1>3 DEF JobHolds
  <2>2. /\ DOMAIN j = JobFields /\ j.pc = "fsync" /\ j.op = i.op /\ j.old = i.old
        /\ j.new = i.new /\ j.dst = i.dst /\ j.out = i.out
        /\ j.todo = i.todo /\ j.listed = i.listed
    BY <1>5, <2>1, SyncedFields
  <2> QED BY <1>2, <1>3, <2>2 DEF JobHolds
<1>11. \A f \in Files : entry[f] # Absent => entry'[f] # Absent BY <1>4, <1>7
<1>12. ASSUME NEW q \in Processes PROVE JobHolds(proc'[q], entry')
  <2>1. JobHolds(proc'[q], entry) BY <1>8, <1>10 DEF WrittenInv, JobsHold
  <2> QED BY <1>11, <2>1, JobStays
<1>13. JobsHold' BY <1>12 DEF JobsHold
<1>14. Typed'
  <2>1. due' \in [Files -> SUBSET Keys] /\ barred' \in [Files -> SUBSET Keys]
    BY <1>2, <1>4, NoteRenameTyped
  <2>2. DOMAIN entry' = Files /\ DOMAIN durable' = Files /\ DOMAIN proc' = Processes
    BY <1>2, <1>6
  <2> QED BY <1>2, <2>1, <2>2 DEF WrittenInv, Typed
<1> QED BY <1>9, <1>13, <1>14 DEF WrittenInv

LEMMA NoteDoneTyped ==
  ASSUME RecipientsAssumption, WrittenInv, NEW j, JobHolds(j, entry), j.dst \in Files, NoteDone(j)
  PROVE  due' \in [Files -> SUBSET Keys] /\ barred' \in [Files -> SUBSET Keys]
<1>1. due \in [Files -> SUBSET Keys] /\ barred \in [Files -> SUBSET Keys]
  BY DEF WrittenInv, Typed
<1>2. CASE ~alone BY <1>1, <1>2 DEF NoteDone
<1>3. CASE alone
  <2>1. /\ due' = [due EXCEPT ![j.dst] = @ \cup j.new]
        /\ barred' = IF j.op \in {"rekey", "rotate"}
                      THEN [barred EXCEPT ![j.dst] = {j.old} \ j.new] ELSE barred
    BY <1>3 DEF NoteDone
  <2>2. j.new \subseteq Keys BY DEF JobHolds
  <2>3. due' \in [Files -> SUBSET Keys] BY <1>1, <2>1, <2>2
  <2>4. j.op \in {"rekey", "rotate"} => {j.old} \ j.new \subseteq Keys
    BY DEF JobHolds, RecipientsAssumption
  <2>5. barred' \in [Files -> SUBSET Keys] BY <1>1, <2>1, <2>4
  <2> QED BY <2>3, <2>5
<1> QED BY <1>2, <1>3

LEMMA SyncDirectoryStep ==
  ASSUME RecipientsAssumption, WrittenInv, NEW p \in Processes, SyncDirectory(p)
  PROVE  WrittenInv'
<1>1. PICK i : i = proc[p] OBVIOUS
<1>2. /\ i.pc = "fsync" /\ durable' = [f \in Files |-> {entry[f]}]
      /\ proc' = [proc EXCEPT ![p] = Done(i)] /\ NoteDone(i)
      /\ UNCHANGED <<entry, ran, faults, alone>>
  BY <1>1 DEF SyncDirectory
<1>3. JobHolds(i, entry) BY <1>1 DEF WrittenInv, JobsHold
<1>4. PICK j : j = Done(i) OBVIOUS
<1>5. JobHolds(j, entry) BY <1>3, <1>4, DoneHolds
<1>6. DOMAIN proc = Processes BY DEF WrittenInv, Typed
<1>7. ASSUME NEW q \in Processes PROVE JobHolds(proc'[q], entry')
  <2>1. proc'[q] = j \/ proc'[q] = proc[q] BY <1>2, <1>4, <1>6
  <2> QED BY <1>2, <1>5, <2>1 DEF WrittenInv, JobsHold
<1>8. JobsHold' BY <1>7 DEF JobsHold
<1>9. AllWritten' BY <1>2 DEF WrittenInv, AllWritten
<1>10. Typed'
  <2>1. i.dst \in Files BY <1>2, <1>3 DEF JobHolds
  <2>2. due' \in [Files -> SUBSET Keys] /\ barred' \in [Files -> SUBSET Keys]
    BY <1>2, <1>3, <2>1, NoteDoneTyped
  <2> QED BY <1>2, <2>2 DEF WrittenInv, Typed
<1> QED BY <1>8, <1>9, <1>10 DEF WrittenInv

\* Every version of every file, whatever overlaps or is lost, is one that an encryptor
\* might have written for the keys its commands named.
THEOREM VersionsWritten ==
  ASSUME RecipientsAssumption, EarlierAssumption, ApartAssumption PROVE Spec => []WrittenInv
<1>1. Init => WrittenInv BY InitWritten
<1>2. WrittenInv /\ [Next]_vars => WrittenInv'
  <2> SUFFICES ASSUME WrittenInv, [Next]_vars PROVE WrittenInv'
    OBVIOUS
  <2>1. ASSUME NEW p \in Processes, Encrypt(p) PROVE WrittenInv' BY <2>1, EncryptStep
  <2>2. ASSUME NEW p \in Processes, Rekey(p) PROVE WrittenInv' BY <2>2, RekeyStep
  <2>3. ASSUME NEW p \in Processes, AddRecipient(p) PROVE WrittenInv'
    BY <2>3, AddRecipientStep
  <2>4. ASSUME NEW p \in Processes, RotateNext(p) PROVE WrittenInv' BY <2>4, RotateNextStep
  <2>5. ASSUME NEW p \in Processes, RotateEnd(p) PROVE WrittenInv' BY <2>5, RotateEndStep
  <2>6. ASSUME NEW p \in Processes, Rename(p) PROVE WrittenInv' BY <2>6, RenameStep
  <2>7. ASSUME NEW p \in Processes, SyncDirectory(p) PROVE WrittenInv'
    BY <2>7, SyncDirectoryStep
  <2>8. ASSUME NEW p \in Processes, IoError(p) \/ Kill(p) PROVE WrittenInv'
    BY <2>8, IoErrorStep
  <2>9. ASSUME NEW p \in Rotators, Rotate(p) PROVE WrittenInv'
    <3>1. p \in Processes BY DEF RecipientsAssumption
    <3> QED BY <2>9, <3>1, RotateStep
  <2>10. CASE PowerLoss BY <2>10, PowerLossStep
  <2>11. CASE UNCHANGED vars
    BY <2>11 DEF vars, disk, history, WrittenInv, Typed, AllWritten, JobsHold
  <2> QED BY <2>1, <2>2, <2>3, <2>4, <2>5, <2>6, <2>7, <2>8, <2>9, <2>10, <2>11
           DEF Next, Work
<1> QED BY <1>1, <1>2, PTL DEF Spec

LEMMA VersionWritten ==
  ASSUME WrittenInv, NEW v \in Versions PROVE Written(v) /\ v # Absent
<1>1. v \in UNION {durable[f] : f \in Files} /\ v # Absent BY DEF Versions
<1>2. PICK f \in Files : v \in durable[f] BY <1>1
<1> QED BY <1>1, <1>2 DEF WrittenInv, AllWritten

\* TypeOK holds.
THEOREM RecipientsTypeCorrect ==
  ASSUME RecipientsAssumption, EarlierAssumption, ApartAssumption PROVE Spec => []TypeOK
<1>1. WrittenInv => TypeOK
  <2> SUFFICES ASSUME WrittenInv PROVE TypeOK
    OBVIOUS
  <2>1. \A v \in Versions : DOMAIN v = {"pqf", "named"} /\ v.named \subseteq Keys
    <3> SUFFICES ASSUME NEW v \in Versions PROVE DOMAIN v = {"pqf", "named"} /\ v.named \subseteq Keys
      OBVIOUS
    <3>1. Written(v) /\ v # Absent BY VersionWritten
    <3>2. DOMAIN v = {"pqf", "named"} BY <3>1, WrittenFitting
    <3>3. v.named \subseteq Keys BY <3>1, WrittenOpens
    <3> QED BY <3>2, <3>3
  <2>2. \A p \in Processes :
          /\ proc[p].pc \in {"idle", "next", "rename", "fsync"}
          /\ proc[p].op \in {"none", "encrypt", "rekey", "add", "rotate"}
          /\ proc[p].new \subseteq Keys /\ proc[p].todo \subseteq proc[p].listed
          /\ proc[p].pc \in {"rename", "fsync"} => proc[p].dst \in Files
    <3> SUFFICES ASSUME NEW p \in Processes
                 PROVE  /\ proc[p].pc \in {"idle", "next", "rename", "fsync"}
                        /\ proc[p].op \in {"none", "encrypt", "rekey", "add", "rotate"}
                        /\ proc[p].new \subseteq Keys /\ proc[p].todo \subseteq proc[p].listed
                        /\ proc[p].pc \in {"rename", "fsync"} => proc[p].dst \in Files
      OBVIOUS
    <3>1. JobHolds(proc[p], entry) BY DEF WrittenInv, JobsHold
    <3> QED BY <3>1 DEF JobHolds
  <2> QED BY <2>1, <2>2 DEF WrittenInv, Typed, AllWritten, TypeOK
<1>2. Spec => []WrittenInv BY VersionsWritten
<1> QED BY <1>1, <1>2, PTL

\* OpensForItsRecipients holds: a version opens for those its commands named and for
\* nobody else, whatever commands made it, in whatever order and overlap.
THEOREM NamedOpen ==
  ASSUME RecipientsAssumption, EarlierAssumption, ApartAssumption
  PROVE  Spec => []OpensForItsRecipients
<1>1. WrittenInv => OpensForItsRecipients
  <2> SUFFICES ASSUME WrittenInv, NEW v \in Versions PROVE Openers(v) = v.named
    BY DEF OpensForItsRecipients
  <2>1. Written(v) /\ v # Absent BY VersionWritten
  <2> QED BY <2>1, WrittenOpens
<1>2. Spec => []WrittenInv BY VersionsWritten
<1> QED BY <1>1, <1>2, PTL
-----------------------------------------------------------------------------
(* What users were told. *)

LEMMA IdleAlone == ASSUME NEW e PROVE JobAlone(Idle, e) BY IdleFields DEF JobAlone

LEMMA InitAlone == ASSUME Init PROVE AloneInv
<1>1. AtMostOne BY DEF Init, AtMostOne
<1>2. Told BY DEF Init, Told, None
<1>3. \A p \in Processes : JobAlone(proc[p], entry) BY IdleAlone DEF Init
<1> QED BY <1>1, <1>2, <1>3 DEF AloneInv

\* A command starts: nobody else is at work, or the files are no longer its own.
LEMMA StartAlone ==
  ASSUME WrittenInv, AloneInv, NoteOverlap, UNCHANGED disk, NEW p \in Processes, NEW j,
         proc' = [proc EXCEPT ![p] = j], JobAlone(j, entry)
  PROVE  AloneInv'
<1>1. entry' = entry /\ durable' = durable /\ DOMAIN proc = Processes
  BY DEF disk, WrittenInv, Typed
<1>2. CASE \A q \in Processes : proc[q] = Idle
  <2>1. UNCHANGED history BY <1>2 DEF NoteOverlap
  <2>2. proc'[p] = j /\ \A q \in Processes : q # p => proc'[q] = Idle BY <1>1, <1>2
  <2>3. AtMostOne' BY <2>2 DEF AtMostOne
  <2>4. ASSUME alone PROVE Told' BY <1>1, <2>1, <2>4 DEF AloneInv, Told, history
  <2>5. ASSUME NEW q \in Processes PROVE JobAlone(proc'[q], entry')
    BY <1>1, <2>2, IdleAlone
  <2> QED BY <2>1, <2>3, <2>4, <2>5 DEF AloneInv, history
<1>3. CASE ~ \A q \in Processes : proc[q] = Idle
  <2>1. ~alone'
    <3>1. alone' = FALSE BY <1>3 DEF NoteOverlap
    <3> QED BY <3>1
  <2> QED BY <2>1 DEF AloneInv
<1> QED BY <1>2, <1>3

\* A process goes on or ends without touching the disk.
LEMMA WorkAlone ==
  ASSUME WrittenInv, AloneInv, UNCHANGED <<disk, history>>, NEW p \in Processes, NEW j,
         proc' = [proc EXCEPT ![p] = j], proc[p] # Idle, alone => JobAlone(j, entry)
  PROVE  AloneInv'
<1>1. /\ entry' = entry /\ durable' = durable /\ alone' = alone /\ due' = due /\ barred' = barred
      /\ DOMAIN proc = Processes
  BY DEF disk, history, WrittenInv, Typed
<1> SUFFICES ASSUME alone
             PROVE  AtMostOne' /\ Told' /\ \A q \in Processes : JobAlone(proc'[q], entry')
  BY <1>1 DEF AloneInv
<1>2. proc'[p] = j /\ \A q \in Processes : q # p => proc'[q] = proc[q] BY <1>1
<1>3. AtMostOne' BY <1>2 DEF AloneInv, AtMostOne
<1>4. Told' BY <1>1 DEF AloneInv, Told
<1>5. ASSUME NEW q \in Processes PROVE JobAlone(proc'[q], entry')
  BY <1>1, <1>2 DEF AloneInv
<1> QED BY <1>3, <1>4, <1>5

\* Every command of its own but rotate.
LEMMA StartedAlone ==
  ASSUME WrittenInv, AloneInv, NEW p \in Processes, NEW op, op # "rotate", NEW old, NEW new,
         NEW src, NEW dst, NEW out, Start(p, op, old, new, src, dst, out),
         op = "add" /\ src = dst => out.named = NamedIn(entry[dst]) \cup new
  PROVE  AloneInv'
<1>1. PICK j : j = Started(op, old, new, src, dst, out) OBVIOUS
<1>2. proc' = [proc EXCEPT ![p] = j] /\ NoteOverlap /\ UNCHANGED disk
  BY <1>1 DEF Start, Started
<1>3. /\ j.pc = "rename" /\ j.op = op /\ j.new = new /\ j.src = src /\ j.dst = dst
      /\ j.out = out
  BY <1>1, StartedFields
<1>4. JobAlone(j, entry) BY <1>3 DEF JobAlone
<1> QED BY <1>2, <1>4, StartAlone

LEMMA EncryptAlone ==
  ASSUME WrittenInv, AloneInv, NEW p \in Processes, Encrypt(p) PROVE AloneInv'
<1>1. PICK f \in Files, ks \in Lists : \E mode \in Modes(ks) :
        Start(p, "encrypt", Nobody, {ks[i] : i \in DOMAIN ks}, 0, f,
              [pqf |-> Encrypted(mode, ks), named |-> {ks[i] : i \in DOMAIN ks}])
  BY DEF Encrypt
<1>2. PICK mode \in Modes(ks) :
        Start(p, "encrypt", Nobody, {ks[i] : i \in DOMAIN ks}, 0, f,
              [pqf |-> Encrypted(mode, ks), named |-> {ks[i] : i \in DOMAIN ks}])
  BY <1>1
<1>3. PICK out : out = [pqf |-> Encrypted(mode, ks), named |-> {ks[i] : i \in DOMAIN ks}] OBVIOUS
<1>4. PICK new : new = {ks[i] : i \in DOMAIN ks} OBVIOUS
<1>5. Start(p, "encrypt", Nobody, new, 0, f, out) BY <1>2, <1>3, <1>4
<1> QED BY <1>5, StartedAlone

LEMMA RekeyAlone ==
  ASSUME WrittenInv, AloneInv, NEW p \in Processes, Rekey(p) PROVE AloneInv'
<1>1. PICK src \in Files, dst \in Files, k \in RekeyKeys, new \in NewKeys :
        Start(p, "rekey", k, {new}, src, dst, Rekeyed(k, new, entry[src]))
  BY DEF Rekey
<1>2. PICK out : out = Rekeyed(k, new, entry[src]) OBVIOUS
<1>3. Start(p, "rekey", k, {new}, src, dst, out) BY <1>1, <1>2
<1> QED BY <1>3, StartedAlone

LEMMA AddRecipientAlone ==
  ASSUME WrittenInv, AloneInv, NEW p \in Processes, AddRecipient(p) PROVE AloneInv'
<1>1. PICK src \in Files, dst \in Files, k \in Keys, new \in AddKeys :
        /\ entry[src] # Absent
        /\ Start(p, "add", k, {new}, src, dst, Extended(k, new, entry[src]))
  BY DEF AddRecipient
<1>2. PICK v : v = entry[src] OBVIOUS
<1>3. PICK out : out = Extended(k, new, v) OBVIOUS
<1>4. out.named = v.named \cup {new} BY <1>3 DEF Extended
<1>5. src = dst => out.named = NamedIn(entry[dst]) \cup {new} BY <1>1, <1>2, <1>4 DEF NamedIn
<1>6. Start(p, "add", k, {new}, src, dst, out) BY <1>1, <1>2, <1>3
<1> QED BY <1>5, <1>6, StartedAlone

LEMMA RotateAlone ==
  ASSUME WrittenInv, AloneInv, NEW p \in Processes, Rotate(p) PROVE AloneInv'
<1>1. PICK k \in RekeyKeys, new \in NewKeys :
        /\ proc' = [proc EXCEPT ![p] = Rotating(k, new, {f \in Files : entry[f] # Absent})]
        /\ NoteOverlap /\ UNCHANGED <<disk, ran, faults>>
  BY DEF Rotate, Rotating
<1>2. PICK listed : listed = {f \in Files : entry[f] # Absent} OBVIOUS
<1>3. PICK j : j = Rotating(k, new, listed) OBVIOUS
<1>4. proc' = [proc EXCEPT ![p] = j] BY <1>1, <1>2, <1>3
<1>5. j.pc = "next" /\ j.todo = listed /\ j.listed = listed BY <1>3, RotatingFields
<1>6. JobAlone(j, entry) BY <1>5 DEF JobAlone
<1> QED BY <1>1, <1>4, <1>6, StartAlone

LEMMA RotateNextAlone ==
  ASSUME RecipientsAssumption, ApartAssumption, WrittenInv, AloneInv, NEW p \in Processes,
         RotateNext(p)
  PROVE  AloneInv'
<1>1. PICK i : i = proc[p] OBVIOUS
<1>2. PICK f \in i.todo : \E j :
        /\ proc' = [proc EXCEPT ![p] = j]
        /\ j = Skipping(i, f) \/ \E out : j = Taking(i, f, out)
  BY <1>1, RotateFileJob
<1>3. PICK j : /\ proc' = [proc EXCEPT ![p] = j]
               /\ j = Skipping(i, f) \/ \E out : j = Taking(i, f, out)
  BY <1>2
<1>4. i.pc = "next" /\ UNCHANGED <<disk, history>> BY <1>1 DEF RotateNext
<1>5. DOMAIN i = JobFields BY <1>1 DEF WrittenInv, JobsHold, JobHolds
<1>6. i # Idle BY <1>4, IdleFields
<1>7. ASSUME alone PROVE JobAlone(j, entry)
  <2>1. JobAlone(i, entry) BY <1>1, <1>7 DEF AloneInv
  <2>2. CASE j = Skipping(i, f)
    <3>1. j.pc = i.pc /\ j.op = i.op /\ j.failed BY <1>5, <2>2, SkippingFields
    <3> QED BY <1>4, <3>1 DEF JobAlone
  <2>3. ASSUME NEW out, j = Taking(i, f, out) PROVE JobAlone(j, entry)
    <3>1. /\ j.pc = "rename" /\ j.op = i.op /\ j.new = i.new /\ j.src = f /\ j.dst = f
          /\ j.todo = i.todo \ {f} /\ j.listed = i.listed /\ j.failed = i.failed
      BY <1>5, <2>3, TakingFields
    <3>2. i.op = "rotate" BY <1>1, <1>4 DEF WrittenInv, JobsHold, JobHolds
    <3> QED BY <1>4, <2>1, <3>1, <3>2 DEF JobAlone
  <2> QED BY <1>3, <2>2, <2>3
<1> QED BY <1>1, <1>3, <1>4, <1>6, <1>7, WorkAlone

LEMMA StopAlone ==
  ASSUME WrittenInv, AloneInv, NEW p \in Processes, RotateEnd(p) \/ IoError(p) \/ Kill(p)
  PROVE  AloneInv'
<1>1. PICK i : i = proc[p] OBVIOUS
<1>2. PICK j : /\ proc' = [proc EXCEPT ![p] = j] /\ UNCHANGED <<disk, history>>
               /\ j = Idle \/ j = Failed(i)
               /\ i.pc # "idle" \/ i # Idle
  BY <1>1 DEF RotateEnd, IoError, Kill
<1>3. i # Idle BY <1>2, IdleFields
<1>4. DOMAIN i = JobFields BY <1>1 DEF WrittenInv, JobsHold, JobHolds
<1>5. JobAlone(j, entry)
  <2>1. CASE j = Idle BY <2>1, IdleAlone
  <2>2. CASE j = Failed(i) /\ i.op = "rotate"
    <3>1. j.pc = "next" /\ j.failed BY <1>4, <2>2, DoneFields
    <3> QED BY <3>1 DEF JobAlone
  <2>3. CASE j = Failed(i) /\ i.op # "rotate"
    <3>1. j = Idle BY <2>3 DEF Failed
    <3> QED BY <3>1, IdleAlone
  <2> QED BY <1>2, <2>1, <2>2, <2>3
<1> QED BY <1>1, <1>2, <1>3, <1>5, WorkAlone

LEMMA PowerLossAlone == ASSUME WrittenInv, AloneInv, PowerLoss PROVE AloneInv'
<1>1. /\ proc' = [p \in Processes |-> Idle] /\ \A f \in Files : entry'[f] \in durable[f]
      /\ durable' = [f \in Files |-> {entry'[f]}]
      /\ alone' = alone /\ due' = due /\ barred' = barred
  BY DEF PowerLoss, history
<1>2. AtMostOne' BY <1>1 DEF AtMostOne
<1>3. ASSUME alone PROVE Told' BY <1>1, <1>3 DEF AloneInv, Told
<1>4. \A p \in Processes : JobAlone(proc'[p], entry') BY <1>1, IdleAlone
<1> QED BY <1>1, <1>2, <1>3, <1>4 DEF AloneInv

\* The new version goes to its path, and for what is replaced there nothing is promised
\* any more, unless it was extended in place.
LEMMA RenameAlone == ASSUME WrittenInv, AloneInv, NEW p \in Processes, Rename(p) PROVE AloneInv'
<1>1. PICK i : i = proc[p] OBVIOUS
<1>2. /\ i.pc = "rename" /\ entry' = [entry EXCEPT ![i.dst] = i.out]
      /\ durable' = [durable EXCEPT ![i.dst] = @ \cup {i.out}]
      /\ proc' = [proc EXCEPT ![p].pc = "fsync"] /\ NoteRename(i) /\ alone' = alone
  BY <1>1 DEF Rename
<1> SUFFICES ASSUME alone
             PROVE  AtMostOne' /\ Told' /\ \A q \in Processes : JobAlone(proc'[q], entry')
  BY <1>2 DEF AloneInv
<1>3. JobHolds(i, entry) /\ JobAlone(i, entry) BY <1>1 DEF WrittenInv, JobsHold, AloneInv
<1>4. /\ i.dst \in Files /\ i.out # Absent /\ i.new \subseteq i.out.named /\ DOMAIN i = JobFields
  BY <1>2, <1>3 DEF JobHolds
<1>5. PICK j : j = Synced(i) OBVIOUS
<1>6. /\ DOMAIN entry = Files /\ DOMAIN durable = Files /\ DOMAIN proc = Processes
      /\ due \in [Files -> SUBSET Keys] /\ barred \in [Files -> SUBSET Keys]
  BY DEF WrittenInv, Typed
<1>7. /\ entry'[i.dst] = i.out /\ durable'[i.dst] = durable[i.dst] \cup {i.out}
      /\ \A f \in Files : f # i.dst => entry'[f] = entry[f] /\ durable'[f] = durable[f]
  BY <1>2, <1>4, <1>6
<1>8. i # Idle BY <1>2, IdleFields
<1>9. \A q \in Processes : q # p => proc[q] = Idle BY <1>1, <1>8 DEF AloneInv, AtMostOne
<1>10. proc'[p] = j /\ \A q \in Processes : q # p => proc'[q] = Idle
  BY <1>1, <1>2, <1>5, <1>6, <1>9 DEF Synced
<1>11. AtMostOne' BY <1>10 DEF AtMostOne
<1>12. JobAlone(j, entry')
  <2>1. /\ j.pc = "fsync" /\ j.op = i.op /\ j.new = i.new /\ j.dst = i.dst /\ j.out = i.out
        /\ j.todo = i.todo /\ j.listed = i.listed /\ j.failed = i.failed
    BY <1>4, <1>5, SyncedFields
  <2>2. ASSUME j.op = "rotate", ~j.failed, NEW f \in j.listed \ j.todo
        PROVE  j.new \subseteq NamedIn(entry'[f])
    <3>1. f = i.dst \/ i.new \subseteq NamedIn(entry[f]) BY <1>3, <2>1, <2>2 DEF JobAlone
    <3>2. f \in Files BY <1>3, <2>1 DEF JobHolds
    <3>3. CASE f = i.dst BY <1>4, <1>7, <2>1, <3>3 DEF NamedIn
    <3>4. CASE f # i.dst BY <1>7, <2>1, <3>1, <3>2, <3>4
    <3> QED BY <3>3, <3>4
  <2> QED BY <1>7, <2>1, <2>2 DEF JobAlone
<1>13. \A q \in Processes : JobAlone(proc'[q], entry') BY <1>10, <1>12, IdleAlone
<1>14. Told'
  <2>1. Told BY DEF AloneInv
  <2>2. NamedIn(i.out) = i.out.named BY <1>4 DEF NamedIn
  <2>3. CASE i.op = "add" /\ i.src = i.dst
    <3>1. due' = due /\ barred' = [barred EXCEPT ![i.dst] = @ \ i.new]
      BY <1>2, <2>3 DEF NoteRename
    <3>2. i.out.named = NamedIn(entry[i.dst]) \cup i.new BY <1>2, <1>3, <2>3 DEF JobAlone
    <3>3. entry[i.dst] \in durable[i.dst] BY <1>4 DEF WrittenInv, AllWritten
    <3>4. due[i.dst] \subseteq i.out.named BY <1>4, <2>1, <3>2, <3>3 DEF Told
    <3>5. (barred[i.dst] \ i.new) \cap i.out.named = {} BY <1>4, <2>1, <3>2, <3>3 DEF Told
    <3>6. barred'[i.dst] = barred[i.dst] \ i.new BY <1>4, <1>6, <3>1
    <3>7. \A f \in Files : f # i.dst => barred'[f] = barred[f] BY <1>6, <3>1
    <3>8. ASSUME NEW f \in Files, NEW v \in durable'[f]
          PROVE  due'[f] \subseteq NamedIn(v) /\ barred'[f] \cap NamedIn(v) = {}
      <4>1. CASE f # i.dst BY <1>7, <2>1, <3>1, <3>7, <4>1 DEF Told
      <4>2. CASE f = i.dst /\ v \in durable[f] BY <2>1, <3>1, <3>6, <4>2 DEF Told
      <4>3. CASE f = i.dst /\ v = i.out BY <2>2, <3>1, <3>4, <3>5, <3>6, <4>3
      <4> QED BY <1>7, <4>1, <4>2, <4>3
    <3> QED BY <3>8 DEF Told
  <2>4. CASE ~ (i.op = "add" /\ i.src = i.dst)
    <3>1. due' = [due EXCEPT ![i.dst] = {}] /\ barred' = [barred EXCEPT ![i.dst] = {}]
      BY <1>2, <2>4 DEF NoteRename
    <3>2. due'[i.dst] = {} /\ barred'[i.dst] = {} BY <1>4, <1>6, <3>1
    <3>3. \A f \in Files : f # i.dst => due'[f] = due[f] /\ barred'[f] = barred[f]
      BY <1>6, <3>1
    <3>4. ASSUME NEW f \in Files, NEW v \in durable'[f]
          PROVE  due'[f] \subseteq NamedIn(v) /\ barred'[f] \cap NamedIn(v) = {}
      <4>1. CASE f # i.dst BY <1>7, <2>1, <3>3, <4>1 DEF Told
      <4>2. CASE f = i.dst BY <3>2, <4>2
      <4> QED BY <4>1, <4>2
    <3> QED BY <3>4 DEF Told
  <2> QED BY <2>3, <2>4
<1> QED BY <1>11, <1>13, <1>14

\* The directory is synced: what the command named is told, and is on disk for good.
LEMMA SyncDirectoryAlone ==
  ASSUME WrittenInv, AloneInv, NEW p \in Processes, SyncDirectory(p) PROVE AloneInv'
<1>1. PICK i : i = proc[p] OBVIOUS
<1>2. /\ i.pc = "fsync" /\ durable' = [f \in Files |-> {entry[f]}]
      /\ proc' = [proc EXCEPT ![p] = Done(i)] /\ NoteDone(i) /\ entry' = entry /\ alone' = alone
  BY <1>1 DEF SyncDirectory
<1> SUFFICES ASSUME alone
             PROVE  AtMostOne' /\ Told' /\ \A q \in Processes : JobAlone(proc'[q], entry')
  BY <1>2 DEF AloneInv
<1>3. JobHolds(i, entry) /\ JobAlone(i, entry) BY <1>1 DEF WrittenInv, JobsHold, AloneInv
<1>4. /\ i.dst \in Files /\ i.out # Absent /\ i.new \subseteq i.out.named /\ DOMAIN i = JobFields
      /\ i.op \in {"rekey", "rotate"} => i.out.named = i.new
  BY <1>2, <1>3 DEF JobHolds
<1>5. entry[i.dst] = i.out BY <1>2, <1>3 DEF JobAlone
<1>6. /\ DOMAIN proc = Processes
      /\ due \in [Files -> SUBSET Keys] /\ barred \in [Files -> SUBSET Keys]
  BY DEF WrittenInv, Typed
<1>7. PICK j : j = Done(i) OBVIOUS
<1>8. i # Idle BY <1>2, IdleFields
<1>9. \A q \in Processes : q # p => proc[q] = Idle BY <1>1, <1>8 DEF AloneInv, AtMostOne
<1>10. proc'[p] = j /\ \A q \in Processes : q # p => proc'[q] = Idle BY <1>2, <1>6, <1>7, <1>9
<1>11. AtMostOne' BY <1>10 DEF AtMostOne
<1>12. JobAlone(j, entry)
  <2>1. CASE i.op = "rotate"
    <3>1. /\ j.pc = "next" /\ j.op = i.op /\ j.new = i.new /\ j.todo = i.todo
          /\ j.listed = i.listed /\ j.failed = i.failed
      BY <1>4, <1>7, <2>1, DoneFields
    <3> QED BY <1>2, <1>3, <2>1, <3>1 DEF JobAlone
  <2>2. CASE i.op # "rotate"
    <3>1. j = Idle BY <1>7, <2>2 DEF Done
    <3> QED BY <3>1, IdleAlone
  <2> QED BY <2>1, <2>2
<1>13. \A q \in Processes : JobAlone(proc'[q], entry') BY <1>2, <1>10, <1>12, IdleAlone
<1>14. Told'
  <2>1. Told BY DEF AloneInv
  <2>2. NamedIn(entry[i.dst]) = i.out.named BY <1>4, <1>5 DEF NamedIn
  <2>3. \A f \in Files : entry[f] \in durable[f] BY DEF WrittenInv, AllWritten
  <2>4. /\ due' = [due EXCEPT ![i.dst] = @ \cup i.new]
        /\ barred' = IF i.op \in {"rekey", "rotate"}
                      THEN [barred EXCEPT ![i.dst] = {i.old} \ i.new] ELSE barred
    BY <1>2 DEF NoteDone
  <2>5. /\ due'[i.dst] = due[i.dst] \cup i.new
        /\ \/ barred'[i.dst] = barred[i.dst]
           \/ i.op \in {"rekey", "rotate"} /\ barred'[i.dst] = {i.old} \ i.new
    BY <1>4, <1>6, <2>4
  <2>6. \A f \in Files : f # i.dst => due'[f] = due[f] /\ barred'[f] = barred[f] BY <1>6, <2>4
  <2>7. ASSUME NEW f \in Files
        PROVE  due'[f] \subseteq NamedIn(entry[f]) /\ barred'[f] \cap NamedIn(entry[f]) = {}
    <3>1. due[f] \subseteq NamedIn(entry[f]) /\ barred[f] \cap NamedIn(entry[f]) = {}
      BY <2>1, <2>3 DEF Told
    <3>2. CASE f # i.dst BY <2>6, <3>1, <3>2
    <3>3. CASE f = i.dst BY <1>4, <2>2, <2>5, <3>1, <3>3
    <3> QED BY <3>2, <3>3
  <2>8. \A f \in Files : \A v \in durable'[f] : v = entry[f] BY <1>2
  <2> QED BY <2>7, <2>8 DEF Told
<1> QED BY <1>11, <1>13, <1>14

LEMMA AloneInvariant ==
  ASSUME RecipientsAssumption, EarlierAssumption, ApartAssumption PROVE Spec => []AloneInv
<1>1. Init => AloneInv BY InitAlone
<1>2. WrittenInv /\ AloneInv /\ [Next]_vars => AloneInv'
  <2> SUFFICES ASSUME WrittenInv, AloneInv, [Next]_vars PROVE AloneInv'
    OBVIOUS
  <2>1. ASSUME NEW p \in Processes, Encrypt(p) PROVE AloneInv' BY <2>1, EncryptAlone
  <2>2. ASSUME NEW p \in Processes, Rekey(p) PROVE AloneInv' BY <2>2, RekeyAlone
  <2>3. ASSUME NEW p \in Processes, AddRecipient(p) PROVE AloneInv' BY <2>3, AddRecipientAlone
  <2>4. ASSUME NEW p \in Processes, RotateNext(p) PROVE AloneInv' BY <2>4, RotateNextAlone
  <2>5. ASSUME NEW p \in Processes, RotateEnd(p) \/ IoError(p) \/ Kill(p) PROVE AloneInv'
    BY <2>5, StopAlone
  <2>6. ASSUME NEW p \in Processes, Rename(p) PROVE AloneInv' BY <2>6, RenameAlone
  <2>7. ASSUME NEW p \in Processes, SyncDirectory(p) PROVE AloneInv' BY <2>7, SyncDirectoryAlone
  <2>8. ASSUME NEW p \in Rotators, Rotate(p) PROVE AloneInv'
    <3>1. p \in Processes BY DEF RecipientsAssumption
    <3> QED BY <2>8, <3>1, RotateAlone
  <2>9. CASE PowerLoss BY <2>9, PowerLossAlone
  <2>10. CASE UNCHANGED vars BY <2>10 DEF vars, disk, history, AloneInv, AtMostOne, Told
  <2> QED BY <2>1, <2>2, <2>3, <2>4, <2>5, <2>6, <2>7, <2>8, <2>9, <2>10 DEF Next, Work
<1>3. Spec => []WrittenInv BY VersionsWritten
<1> QED BY <1>1, <1>2, <1>3, PTL DEF Spec

LEMMA NamedOpenEntry ==
  ASSUME RecipientsAssumption, WrittenInv, NEW f \in Files
  PROVE  Openers(entry[f]) = NamedIn(entry[f])
<1>1. PICK v : v = entry[f] OBVIOUS
<1>2. CASE v = Absent BY <1>1, <1>2 DEF Openers, NamedIn
<1>3. CASE v # Absent
  <2>1. Written(v) BY <1>1, <1>3, EntryWritten
  <2>2. Openers(v) = v.named BY <1>3, <2>1, WrittenOpens
  <2> QED BY <1>1, <1>3, <2>2 DEF NamedIn
<1> QED BY <1>2, <1>3

\* AcknowledgedHolds holds: what a finished command told its user is true after kills,
\* power losses and later commands, as long as none overlapped another.
THEOREM AcknowledgedStays ==
  ASSUME RecipientsAssumption, EarlierAssumption, ApartAssumption
  PROVE  Spec => []AcknowledgedHolds
<1>1. WrittenInv /\ AloneInv => AcknowledgedHolds
  <2> SUFFICES ASSUME WrittenInv, AloneInv, alone, NEW f \in Files
               PROVE  due[f] \subseteq Openers(entry[f]) /\ barred[f] \cap Openers(entry[f]) = {}
    BY DEF AcknowledgedHolds
  <2>1. entry[f] \in durable[f] BY DEF WrittenInv, AllWritten
  <2>2. due[f] \subseteq NamedIn(entry[f]) /\ barred[f] \cap NamedIn(entry[f]) = {}
    BY <2>1 DEF AloneInv, Told
  <2> QED BY <2>2, NamedOpenEntry
<1> QED BY <1>1, VersionsWritten, AloneInvariant, PTL

\* RotateReports holds when the key rotated away is the only one of its variant, which
\* it need not be (MCRotateMixed).
THEOREM RotateReportsTrue ==
  ASSUME RecipientsAssumption, EarlierAssumption, ApartAssumption PROVE Spec => []RotateReports
<1>1. WrittenInv /\ AloneInv => RotateReports
  <2> SUFFICES ASSUME WrittenInv, AloneInv, NEW p \in Processes,
                      alone, proc[p].op = "rotate", proc[p].pc = "next", proc[p].todo = {},
                      ~proc[p].failed, NEW f \in proc[p].listed
               PROVE  proc[p].new \subseteq Openers(entry[f])
    BY DEF RotateReports
  <2>1. JobAlone(proc[p], entry) BY DEF AloneInv
  <2>2. f \in Files BY DEF WrittenInv, JobsHold, JobHolds
  <2>3. f \in proc[p].listed \ proc[p].todo OBVIOUS
  <2>4. proc[p].new \subseteq NamedIn(entry[f]) BY <2>1, <2>3 DEF JobAlone
  <2> QED BY <2>2, <2>4, NamedOpenEntry
<1> QED BY <1>1, VersionsWritten, AloneInvariant, PTL

-----------------------------------------------------------------------------
(***************************************************************************)
(* Machine-checked facts about the encryptors: StreamEncrypt, for every    *)
(* source, batch size and end of the counter, whatever fails and in        *)
(* whatever order the pool's tasks complete; and PipelinedEncrypt, for     *)
(* every channel capacity and interleaving of its two threads.  Either     *)
(* implements SealedStream and reads ahead no further than it should; the  *)
(* pipelined one closes its stream exactly when it returns ok and swallows *)
(* no read error.  Then the async adapters around them, AsyncIO: whatever  *)
(* their sink does and however often they are shut down again, they        *)
(* implement SealedStream and OpenedText.  Last, the decryptors of         *)
(* chunked streams, StreamDecrypt.                                         *)
(***************************************************************************)

CONSTANTS Lengths, BatchSizes, MaxCounter, ReadFails, WriteFails
VARIABLES n, size, read, pc, cur, batch, done, out, ahead, counter, sealed, faulted, result

S == INSTANCE StreamEncrypt

StreamAssumption ==
  /\ Lengths \subseteq Nat
  /\ BatchSizes \subseteq Nat \ {0}
  /\ MaxCounter \in Nat

Stream == INSTANCE SealedStream

\* The pipelined encryptor: what the two have in common has one name here.
CONSTANTS MaxPieces, Capacity, ReaderPanics
VARIABLES panics, rpc, failed, chan, mpc, nxt

P == INSTANCE PipelinedEncrypt

PipelineAssumption ==
  /\ MaxPieces \in Nat
  /\ Capacity \in Nat \ {0}
  /\ MaxCounter \in Nat

Chunks == [piece : 0 .. n, index : 0 .. MaxCounter, last : BOOLEAN]

\* The chunk that the stream has at i.
ChunkAt(i) == IF n = 0 THEN [piece |-> 0, index |-> 0, last |-> TRUE]
              ELSE [piece |-> i, index |-> i - 1, last |-> i = n]
Size == IF n = 0 THEN 1 ELSE n

-----------------------------------------------------------------------------
(* The inductive invariant. *)

\* What has been written is a beginning of the stream, the whole of it if ok.
Beginning ==
  /\ Len(sealed) <= Size
  /\ \A i \in 1 .. Len(sealed) : sealed[i] = ChunkAt(i)
  /\ result = "ok" => Len(sealed) = Size

\* The serial encryptor holds the piece to seal next and then the one past it.
SerialInStep ==
  pc \in {"lookahead", "seal"} =>
    /\ S!Serial /\ Len(sealed) = counter /\ (n = 0 => counter = 0)
    /\ cur = (IF n = 0 THEN 0 ELSE counter + 1)
    /\ pc = "lookahead" => read = cur
    /\ pc = "seal" => /\ ahead = (IF cur < n THEN cur + 1 ELSE 0)
                      /\ read = (IF cur < n THEN cur + 1 ELSE cur)

\* The parallel one holds the pieces from the one to seal next on, without a gap.
BatchInStep ==
  pc \in {"gather", "peek", "tasks", "write"} =>
    /\ ~S!Serial /\ n > 0
    /\ Len(batch) > 0 /\ \A i \in 1 .. Len(batch) : batch[i] = counter + i
    /\ counter + Len(batch) <= n
    /\ Len(sealed) = counter + out /\ out <= Len(batch)
    /\ pc # "write" => out = 0
    /\ pc \in {"gather", "peek"} => read = counter + Len(batch)
    /\ pc \in {"tasks", "write"} =>
         /\ ahead = (IF counter + Len(batch) < n THEN counter + Len(batch) + 1 ELSE 0)
         /\ read = (IF counter + Len(batch) < n THEN counter + Len(batch) + 1
                    ELSE counter + Len(batch))

Starting  == pc = "first" => read = 0 /\ counter = 0 /\ Len(sealed) = 0 /\ out = 0
Returning == pc = "returned" <=> result # "none"

StreamInv ==
  /\ S!TypeOK /\ Beginning /\ SerialInStep /\ BatchInStep /\ Starting /\ Returning
  /\ S!NoSpuriousError /\ S!BuffersBounded

-----------------------------------------------------------------------------
\* The numbers among the variables, and the pieces that are read.
LEMMA Numbers ==
  ASSUME StreamAssumption, S!TypeOK
  PROVE  /\ n \in Nat /\ size \in Nat \ {0} /\ read \in 0 .. n /\ counter \in 0 .. MaxCounter
         /\ Len(sealed) \in Nat /\ Len(batch) \in 0 .. size /\ Len(done) \in Nat
         /\ S!NextPiece \in 0 .. n /\ (S!NextPiece = 0 <=> read = n) /\ (S!NextPiece # 0 => S!NextPiece = read + 1)
         /\ S!ReadOne => read' = (IF read < n THEN read + 1 ELSE read) /\ read' \in 0 .. n
         /\ MaxCounter \in Nat /\ cur \in 0 .. n /\ ahead \in 0 .. n /\ out \in 0 .. size
  BY LenProperties DEF StreamAssumption, S!TypeOK, S!NextPiece, S!ReadOne

\* Sealing the next chunk goes on with the stream.
LEMMA Sealing ==
  ASSUME StreamAssumption, S!TypeOK, Beginning, UNCHANGED n,
         NEW piece, NEW index \in 0 .. MaxCounter, NEW last \in BOOLEAN,
         S!SealedAs(piece, index, last), Len(sealed) < Size,
         piece = (IF n = 0 THEN 0 ELSE Len(sealed) + 1), index = Len(sealed),
         last <=> Len(sealed) + 1 = Size
  PROVE  /\ sealed' \in Seq(Chunks) /\ Len(sealed') = Len(sealed) + 1
         /\ Len(sealed') <= Size /\ \A i \in 1 .. Len(sealed') : sealed'[i] = ChunkAt(i)
<1> DEFINE c == [piece |-> piece, index |-> index, last |-> last]
<1>n. n \in Nat /\ Len(sealed) \in Nat /\ sealed \in Seq(Chunks) /\ MaxCounter \in Nat
  BY Numbers DEF S!TypeOK, Chunks
<1>1. c \in Chunks
  BY <1>n DEF Size, Chunks
<1>2. c = ChunkAt(Len(sealed) + 1)
  <2>1. CASE n = 0
    <3>1. piece = 0 /\ index = 0 /\ last = TRUE
      BY <2>1, <1>n DEF Size
    <3> QED BY <2>1, <3>1 DEF ChunkAt
  <2>2. CASE n # 0
    <3>1. piece = Len(sealed) + 1 /\ index = piece - 1 /\ last = (piece = n)
      BY <2>2, <1>n DEF Size
    <3> QED BY <2>2, <3>1 DEF ChunkAt
  <2> QED BY <2>1, <2>2
<1>5. sealed' = Append(sealed, c)
  BY DEF S!SealedAs
<1> HIDE DEF c
<1>3. /\ sealed' \in Seq(Chunks) /\ Len(sealed') = Len(sealed) + 1
      /\ \A i \in 1 .. Len(sealed) : sealed'[i] = sealed[i]
      /\ sealed'[Len(sealed) + 1] = c
  BY <1>n, <1>1, <1>5, AppendProperties
<1>4. ASSUME NEW i \in 1 .. Len(sealed') PROVE sealed'[i] = ChunkAt(i)
  <2>1. i \in 1 .. Len(sealed) \/ i = Len(sealed) + 1
    BY <1>n, <1>3
  <2> QED BY <1>2, <1>3, <2>1 DEF Beginning
<1>6. Size \in Nat
  BY <1>n DEF Size
<1> QED BY <1>n, <1>3, <1>4, <1>6

LEMMA InitStream == ASSUME StreamAssumption, S!Init PROVE StreamInv
<1>1. /\ sealed = <<>> /\ Len(sealed) = 0 /\ batch = <<>> /\ Len(batch) = 0 /\ done = <<>>
      /\ n \in Nat /\ n \in Lengths /\ size \in Nat \ {0} /\ size \in BatchSizes /\ MaxCounter \in Nat
  BY EmptySeq DEF S!Init, StreamAssumption
<1>2. sealed \in Seq([piece : 0 .. n, index : 0 .. MaxCounter, last : BOOLEAN])
      /\ batch \in Seq(1 .. n) /\ done \in Seq(1 .. size)
  BY <1>1, EmptySeq
<1>3. S!TypeOK
  <2>1. /\ n \in Lengths /\ size \in BatchSizes /\ read \in 0 .. n /\ cur \in 0 .. n /\ ahead \in 0 .. n
        /\ Len(batch) <= size /\ out \in 0 .. size /\ counter \in 0 .. MaxCounter
    BY <1>1 DEF S!Init
  <2> QED BY <1>2, <2>1 DEF S!Init, S!TypeOK
<1> QED BY <1>1, <1>3 DEF S!Init, StreamInv, Beginning, Size, SerialInStep, BatchInStep, Starting,
                           Returning, S!NoSpuriousError, S!BuffersBounded

\* The serial encryptor.
LEMMA SerialStep ==
  ASSUME StreamAssumption, StreamInv, S!ReadFirst \/ S!ReadAhead \/ S!SealCurrent PROVE StreamInv'
<1>t. S!TypeOK /\ Beginning
  BY DEF StreamInv
<1>n. /\ n \in Nat /\ size \in Nat \ {0} /\ read \in 0 .. n /\ counter \in 0 .. MaxCounter
      /\ Len(sealed) \in Nat /\ S!NextPiece \in 0 .. n /\ MaxCounter \in Nat
      /\ (S!NextPiece = 0 <=> read = n) /\ (S!NextPiece # 0 => S!NextPiece = read + 1)
      /\ (S!ReadOne => read' = (IF read < n THEN read + 1 ELSE read) /\ read' \in 0 .. n)
      /\ cur \in 0 .. n /\ ahead \in 0 .. n
  BY <1>t, Numbers
<1>1. CASE S!ReadFirst
  <2>a. /\ UNCHANGED <<n, size, batch, done, out, ahead, counter, sealed, faulted, result>>
        /\ S!Serial /\ S!Serial' /\ pc = "first" /\ cur' = S!NextPiece /\ S!ReadOne /\ pc' = "lookahead"
    BY <1>1 DEF S!ReadFirst, S!params, S!Serial
  <2>b. read = 0 /\ counter = 0 /\ Len(sealed) = 0 /\ result = "none"
    BY <2>a DEF StreamInv, Starting, Returning
  <2>1. S!TypeOK'
    BY <2>a, <1>t, <1>n DEF S!TypeOK
  <2>2. Beginning'
    BY <2>a, <1>t DEF Beginning, Size, ChunkAt
  <2>3. SerialInStep' /\ BatchInStep'
    BY <2>a, <2>b, <1>n DEF SerialInStep, BatchInStep
  <2>4. Starting' /\ Returning' /\ S!NoSpuriousError' /\ S!BuffersBounded'
    BY <2>a, <2>b, <1>n DEF Starting, Returning, S!NoSpuriousError, S!BuffersBounded
  <2> QED BY <2>1, <2>2, <2>3, <2>4 DEF StreamInv
<1>2. CASE S!ReadAhead
  <2>a. /\ UNCHANGED <<n, size, cur, batch, done, out, counter, sealed, faulted, result>>
        /\ S!Serial /\ S!Serial' /\ pc = "lookahead" /\ ahead' = S!NextPiece /\ S!ReadOne /\ pc' = "seal"
    BY <1>2 DEF S!ReadAhead, S!params, S!Serial
  <2>b. /\ Len(sealed) = counter /\ cur = (IF n = 0 THEN 0 ELSE counter + 1) /\ read = cur
        /\ result = "none" /\ (n = 0 => counter = 0)
    BY <2>a DEF StreamInv, SerialInStep, Returning
  <2>1. S!TypeOK'
    BY <2>a, <1>t, <1>n DEF S!TypeOK
  <2>2. Beginning'
    BY <2>a, <1>t DEF Beginning, Size, ChunkAt
  <2>3. SerialInStep' /\ BatchInStep'
    BY <2>a, <2>b, <1>n DEF SerialInStep, BatchInStep
  <2>4. Starting' /\ Returning' /\ S!NoSpuriousError' /\ S!BuffersBounded'
    BY <2>a, <2>b, <1>n DEF Starting, Returning, S!NoSpuriousError, S!BuffersBounded
  <2> QED BY <2>1, <2>2, <2>3, <2>4 DEF StreamInv
<1>3. CASE S!SealCurrent
  <2>a. /\ UNCHANGED <<n, size, read, batch, done, out, ahead, faulted>>
        /\ S!Serial /\ S!Serial' /\ pc = "seal" /\ S!SealedAs(cur, counter, ahead = 0)
    BY <1>3 DEF S!SealCurrent, S!params, S!Serial
  <2>b. /\ Len(sealed) = counter /\ cur = (IF n = 0 THEN 0 ELSE counter + 1) /\ (n = 0 => counter = 0)
        /\ ahead = (IF cur < n THEN cur + 1 ELSE 0)
        /\ read = (IF cur < n THEN cur + 1 ELSE cur) /\ result = "none"
    BY <2>a DEF StreamInv, SerialInStep, Returning
  <2>c. Len(sealed) < Size /\ (ahead = 0 <=> Len(sealed) + 1 = Size)
    BY <2>b, <1>n DEF Size
  <2>d. /\ sealed' \in Seq(Chunks) /\ Len(sealed') = Len(sealed) + 1
        /\ Len(sealed') <= Size /\ \A i \in 1 .. Len(sealed') : sealed'[i] = ChunkAt(i)
    BY <2>a, <2>b, <2>c, <1>t, <1>n, Sealing
  <2>e. \/ ahead = 0 /\ pc' = "returned" /\ result' = "ok" /\ UNCHANGED <<cur, counter>>
        \/ /\ ahead # 0 /\ counter = MaxCounter /\ pc' = "returned" /\ result' = "error"
           /\ UNCHANGED <<cur, counter>>
        \/ /\ ahead # 0 /\ counter < MaxCounter
           /\ cur' = ahead /\ counter' = counter + 1 /\ pc' = "lookahead" /\ UNCHANGED result
    BY <1>3 DEF S!SealCurrent, S!Return
  <2>1. S!TypeOK'
    <3>1. /\ cur' \in 0 .. n /\ counter' \in 0 .. MaxCounter
          /\ pc' \in {"returned", "lookahead"} /\ result' \in {"none", "ok", "error"}
      BY <2>b, <2>e, <1>n
    <3>2. sealed' \in Seq([piece : 0 .. n, index : 0 .. MaxCounter, last : BOOLEAN])
      BY <2>d DEF Chunks
    <3> QED BY <2>a, <3>1, <3>2, <1>t DEF S!TypeOK
  <2>2. Beginning'
    <3>1. result' = "ok" => Len(sealed') = Size
      BY <2>b, <2>d, <2>e, <1>n DEF Size
    <3> QED BY <2>a, <2>d, <3>1 DEF Beginning, Size, ChunkAt
  <2>3. SerialInStep' /\ BatchInStep'
    BY <2>a, <2>b, <2>d, <2>e, <1>n DEF SerialInStep, BatchInStep
  <2>4. Starting' /\ Returning' /\ S!NoSpuriousError' /\ S!BuffersBounded'
    BY <2>a, <2>b, <2>d, <2>e, <1>n DEF Starting, Returning, S!NoSpuriousError, S!BuffersBounded
  <2> QED BY <2>1, <2>2, <2>3, <2>4 DEF StreamInv
<1> QED BY <1>1, <1>2, <1>3

\* The parallel encryptor gathers a batch and looks past it.
LEMMA GatherStep ==
  ASSUME StreamAssumption, StreamInv, S!Prime \/ S!Gather \/ S!Peek PROVE StreamInv'
<1>t. S!TypeOK /\ Beginning
  BY DEF StreamInv
<1>n. /\ n \in Nat /\ size \in Nat \ {0} /\ read \in 0 .. n /\ counter \in 0 .. MaxCounter
      /\ Len(sealed) \in Nat /\ Len(batch) \in 0 .. size /\ S!NextPiece \in 0 .. n /\ MaxCounter \in Nat
      /\ (S!NextPiece = 0 <=> read = n) /\ (S!NextPiece # 0 => S!NextPiece = read + 1)
      /\ (S!ReadOne => read' = (IF read < n THEN read + 1 ELSE read) /\ read' \in 0 .. n)
      /\ ahead \in 0 .. n
  BY <1>t, Numbers
<1>1. CASE S!Prime /\ S!NextPiece = 0
  <2>a. /\ UNCHANGED <<n, size, read, batch, cur, done, out, ahead, counter, faulted>>
        /\ pc = "first" /\ S!SealedAs(0, 0, TRUE) /\ pc' = "returned" /\ result' = "ok"
    BY <1>1 DEF S!Prime, S!params, S!Return
  <2>b. read = 0 /\ counter = 0 /\ Len(sealed) = 0 /\ n = 0
    BY <1>1, <1>n, <2>a DEF StreamInv, Starting
  <2>c. /\ sealed' \in Seq(Chunks) /\ Len(sealed') = Len(sealed) + 1
        /\ Len(sealed') <= Size /\ \A i \in 1 .. Len(sealed') : sealed'[i] = ChunkAt(i)
    <3>1. PICK piece \in {0}, last \in {TRUE} : TRUE
      OBVIOUS
    <3>2. S!SealedAs(piece, piece, last)
      BY <2>a, <3>1
    <3>3. /\ piece \in 0 .. MaxCounter /\ piece = (IF n = 0 THEN 0 ELSE Len(sealed) + 1)
          /\ piece = Len(sealed) /\ Len(sealed) < Size /\ (last <=> Len(sealed) + 1 = Size)
      BY <2>b, <1>n, <3>1 DEF Size
    <3> QED BY <2>a, <1>t, <3>2, <3>3, Sealing
  <2>1. S!TypeOK'
    BY <2>a, <2>c, <1>t, <1>n DEF S!TypeOK, Chunks
  <2>2. Beginning'
    BY <2>a, <2>b, <2>c DEF Beginning, Size, ChunkAt
  <2>3. SerialInStep' /\ BatchInStep' /\ Starting' /\ Returning' /\ S!NoSpuriousError' /\ S!BuffersBounded'
    BY <2>a, <2>b, <2>c, <1>n
    DEF SerialInStep, BatchInStep, Starting, Returning, S!NoSpuriousError, S!BuffersBounded
  <2> QED BY <2>1, <2>2, <2>3 DEF StreamInv
<1>2. CASE S!Prime /\ S!NextPiece # 0
  <2>a. /\ UNCHANGED <<n, size, cur, done, out, ahead, counter, sealed, faulted, result>>
        /\ pc = "first" /\ ~S!Serial /\ ~S!Serial' /\ batch' = <<S!NextPiece>> /\ S!ReadOne /\ pc' = "gather"
    BY <1>2 DEF S!Prime, S!params, S!Serial
  <2>b. read = 0 /\ counter = 0 /\ Len(sealed) = 0 /\ n > 0 /\ S!NextPiece = 1 /\ result = "none"
    BY <1>2, <1>n, <2>a DEF StreamInv, Starting, Returning
  <2>c. batch' \in Seq(1 .. n) /\ Len(batch') = 1 /\ batch'[1] = 1
    BY <2>a, <2>b, <1>n
  <2>d. out = 0
    BY <2>a DEF StreamInv, Starting
  <2>1. S!TypeOK'
    BY <2>a, <2>c, <1>t, <1>n DEF S!TypeOK
  <2>2. Beginning' /\ Starting' /\ Returning' /\ S!NoSpuriousError' /\ S!BuffersBounded'
    BY <2>a, <2>b, <1>t, <1>n
    DEF Beginning, Size, ChunkAt, Starting, Returning, S!NoSpuriousError, S!BuffersBounded
  <2>3. SerialInStep' /\ BatchInStep'
    BY <2>a, <2>b, <2>c, <2>d, <1>n DEF SerialInStep, BatchInStep
  <2> QED BY <2>1, <2>2, <2>3 DEF StreamInv
<1>3. ASSUME S!Gather \/ S!Peek PROVE StreamInv'
  <2>a. /\ UNCHANGED <<n, size, cur, done, out, counter, sealed, faulted, result>>
        /\ (S!Serial' <=> S!Serial) /\ pc \in {"gather", "peek"} /\ pc' \in {"gather", "peek", "tasks"}
    BY <1>3 DEF S!Gather, S!Peek, S!params, S!Serial
  <2>b. /\ ~S!Serial /\ n > 0 /\ Len(batch) > 0 /\ \A i \in 1 .. Len(batch) : batch[i] = counter + i
        /\ counter + Len(batch) <= n /\ Len(sealed) = counter /\ out = 0
        /\ read = counter + Len(batch) /\ result = "none"
    BY <2>a, <1>n DEF StreamInv, BatchInStep, Returning
  <2>2. Beginning' /\ Starting' /\ Returning' /\ S!NoSpuriousError'
    BY <2>a, <2>b, <1>t DEF Beginning, Size, ChunkAt, Starting, Returning, S!NoSpuriousError
  <2>3. CASE S!Gather /\ Len(batch) < size /\ S!NextPiece # 0
    <3>a. batch' = Append(batch, S!NextPiece) /\ S!ReadOne /\ UNCHANGED <<pc, ahead>> /\ pc = "gather"
      BY <2>3 DEF S!Gather
    <3>b. batch \in Seq(1 .. n) /\ S!NextPiece \in 1 .. n /\ S!NextPiece = counter + Len(batch) + 1
      BY <2>3, <2>b, <1>t, <1>n DEF S!TypeOK
    <3>c. /\ batch' \in Seq(1 .. n) /\ Len(batch') = Len(batch) + 1
          /\ \A i \in 1 .. Len(batch) : batch'[i] = batch[i]
          /\ batch'[Len(batch) + 1] = S!NextPiece
      BY <3>a, <3>b, AppendProperties
    <3>1. S!TypeOK'
      BY <2>3, <2>a, <3>a, <3>c, <1>t, <1>n DEF S!TypeOK
    <3>2. ASSUME NEW i \in 1 .. Len(batch') PROVE batch'[i] = counter + i
      <4>1. i \in 1 .. Len(batch) \/ i = Len(batch) + 1
        BY <3>c, <1>n
      <4>2. CASE i \in 1 .. Len(batch)
        BY <2>b, <3>c, <4>2
      <4>3. CASE i = Len(batch) + 1
        BY <3>b, <3>c, <4>3, <1>n
      <4> QED BY <4>1, <4>2, <4>3
    <3>3. read' = counter + Len(batch') /\ counter + Len(batch') <= n
      BY <2>3, <2>b, <3>a, <3>c, <1>n
    <3>4. SerialInStep' /\ BatchInStep'
      BY <2>a, <2>b, <3>a, <3>c, <3>2, <3>3, <1>n DEF SerialInStep, BatchInStep
    <3>5. S!BuffersBounded'
      BY <2>3, <2>a, <2>b, <3>3, <3>c, <1>n DEF S!BuffersBounded
    <3> QED BY <2>2, <3>1, <3>4, <3>5 DEF StreamInv
  <2>4. CASE S!Gather /\ ~(Len(batch) < size /\ S!NextPiece # 0)
    <3>a. pc' = "peek" /\ UNCHANGED <<read, batch, ahead>>
      BY <2>4 DEF S!Gather
    <3>1. S!TypeOK'
      BY <2>a, <3>a, <1>t DEF S!TypeOK
    <3>2. SerialInStep' /\ BatchInStep' /\ S!BuffersBounded'
      BY <2>a, <2>b, <3>a, <1>n DEF SerialInStep, BatchInStep, S!BuffersBounded, StreamInv
    <3> QED BY <2>2, <3>1, <3>2 DEF StreamInv
  <2>5. CASE S!Peek
    <3>a. ahead' = S!NextPiece /\ S!ReadOne /\ pc' = "tasks" /\ UNCHANGED batch
      BY <2>5 DEF S!Peek
    <3>1. S!TypeOK'
      BY <2>a, <3>a, <1>t, <1>n DEF S!TypeOK
    <3>2. /\ ahead' = (IF counter + Len(batch) < n THEN counter + Len(batch) + 1 ELSE 0)
          /\ read' = (IF counter + Len(batch) < n THEN counter + Len(batch) + 1
                      ELSE counter + Len(batch))
      BY <2>b, <3>a, <1>n
    <3>3. SerialInStep' /\ BatchInStep'
      BY <2>a, <2>b, <3>a, <3>2 DEF SerialInStep, BatchInStep
    <3>4. S!BuffersBounded'
      BY <2>a, <2>b, <3>2, <1>n DEF S!BuffersBounded
    <3> QED BY <2>2, <3>1, <3>3, <3>4 DEF StreamInv
  <2> QED BY <1>3, <2>3, <2>4, <2>5
<1> QED BY <1>1, <1>2, <1>3

\* It has the batch sealed by the pool and writes it in order.
LEMMA BatchStep ==
  ASSUME StreamAssumption, StreamInv,
         (\E i \in 1 .. Len(batch) : S!Task(i)) \/ S!WriteNext \/ S!NextBatch
  PROVE  StreamInv'
<1>t. S!TypeOK /\ Beginning
  BY DEF StreamInv
<1>n. /\ n \in Nat /\ size \in Nat \ {0} /\ read \in 0 .. n /\ counter \in 0 .. MaxCounter
      /\ Len(sealed) \in Nat /\ Len(batch) \in 0 .. size /\ MaxCounter \in Nat
      /\ ahead \in 0 .. n /\ out \in 0 .. size
  BY <1>t, Numbers
<1>a. /\ UNCHANGED <<n, size, read, cur, ahead, faulted>> /\ (S!Serial' <=> S!Serial)
      /\ pc \in {"tasks", "write"}
  BY DEF S!Task, S!WriteNext, S!NextBatch, S!params, S!Serial
<1>b. /\ ~S!Serial /\ n > 0 /\ Len(batch) > 0 /\ \A i \in 1 .. Len(batch) : batch[i] = counter + i
      /\ counter + Len(batch) <= n /\ Len(sealed) = counter + out /\ out <= Len(batch)
      /\ (pc # "write" => out = 0) /\ result = "none"
      /\ ahead = (IF counter + Len(batch) < n THEN counter + Len(batch) + 1 ELSE 0)
      /\ read = (IF counter + Len(batch) < n THEN counter + Len(batch) + 1 ELSE counter + Len(batch))
  BY <1>a DEF StreamInv, BatchInStep, Returning
<1>1. ASSUME NEW i \in 1 .. Len(batch), S!Task(i) PROVE StreamInv'
  <2>a. /\ UNCHANGED <<batch, out, counter, sealed, result>> /\ pc' \in {"tasks", "write"}
        /\ done' = Append(done, i) /\ pc = "tasks"
    BY <1>1 DEF S!Task
  <2>b. done' \in Seq(1 .. size)
    <3>1. done \in Seq(1 .. size) /\ i \in 1 .. size
      BY <1>t, <1>n DEF S!TypeOK
    <3> QED BY <2>a, <3>1, AppendProperties
  <2>1. S!TypeOK'
    BY <1>a, <2>a, <2>b, <1>t DEF S!TypeOK
  <2>2. Beginning'
    BY <1>a, <2>a, <1>t DEF Beginning, Size, ChunkAt
  <2>3. SerialInStep' /\ BatchInStep'
    BY <1>a, <1>b, <2>a DEF SerialInStep, BatchInStep
  <2>4. Starting' /\ Returning' /\ S!NoSpuriousError' /\ S!BuffersBounded'
    BY <1>a, <1>b, <2>a DEF StreamInv, Starting, Returning, S!NoSpuriousError, S!BuffersBounded
  <2> QED BY <2>1, <2>2, <2>3, <2>4 DEF StreamInv
<1>2. CASE S!WriteNext
  <2>a. pc = "write" /\ out < Len(batch) /\ UNCHANGED <<batch, done, counter>>
    BY <1>2 DEF S!WriteNext
  <2>1. CASE counter + (out + 1) - 1 > MaxCounter
    <3>a. pc' = "returned" /\ result' = "error" /\ UNCHANGED <<sealed, out>>
      BY <1>2, <2>1 DEF S!WriteNext, S!Return
    <3>1. S!TypeOK'
      BY <1>a, <2>a, <3>a, <1>t DEF S!TypeOK
    <3>2. Beginning' /\ SerialInStep' /\ BatchInStep' /\ Starting' /\ Returning'
      BY <1>a, <2>a, <3>a, <1>t DEF Beginning, Size, ChunkAt, SerialInStep, BatchInStep, Starting, Returning
    <3>3. S!NoSpuriousError'
      BY <1>a, <1>b, <2>1, <2>a, <3>a, <1>n DEF S!NoSpuriousError
    <3>4. S!BuffersBounded'
      BY <1>a, <3>a DEF StreamInv, S!BuffersBounded
    <3> QED BY <3>1, <3>2, <3>3, <3>4 DEF StreamInv
  <2>2. CASE ~(counter + (out + 1) - 1 > MaxCounter)
    <3> DEFINE last == ahead = 0 /\ out + 1 = Len(batch)
               index == counter + (out + 1) - 1
    <3>a. S!SealedAs(batch[out + 1], index, last) /\ out' = out + 1 /\ UNCHANGED <<pc, result>>
      BY <1>2, <2>2 DEF S!WriteNext
    <3>b. /\ batch[out + 1] = Len(sealed) + 1 /\ index = Len(sealed) /\ index \in 0 .. MaxCounter
          /\ Len(sealed) < Size /\ (last <=> Len(sealed) + 1 = Size) /\ last \in BOOLEAN
      BY <1>b, <2>2, <2>a, <1>n DEF Size
    <3> HIDE DEF last, index
    <3>c. /\ sealed' \in Seq(Chunks) /\ Len(sealed') = Len(sealed) + 1
          /\ Len(sealed') <= Size /\ \A i \in 1 .. Len(sealed') : sealed'[i] = ChunkAt(i)
      BY <1>a, <1>b, <3>a, <3>b, <1>t, <1>n, Sealing
    <3>1. S!TypeOK'
      <4>1. out' \in 0 .. size
        BY <2>a, <3>a, <1>n
      <4>2. sealed' \in Seq([piece : 0 .. n, index : 0 .. MaxCounter, last : BOOLEAN])
        BY <3>c DEF Chunks
      <4> QED BY <1>a, <2>a, <3>a, <4>1, <4>2, <1>t DEF S!TypeOK
    <3>2. Beginning'
      BY <1>a, <1>b, <3>a, <3>c DEF Beginning, Size, ChunkAt
    <3>3. SerialInStep' /\ BatchInStep'
      BY <1>a, <1>b, <2>a, <3>a, <3>c, <1>n DEF SerialInStep, BatchInStep
    <3>4. Starting' /\ Returning' /\ S!NoSpuriousError' /\ S!BuffersBounded'
      BY <1>a, <1>b, <2>a, <3>a, <3>c, <1>n DEF StreamInv, Starting, Returning, S!NoSpuriousError, S!BuffersBounded
    <3> QED BY <3>1, <3>2, <3>3, <3>4 DEF StreamInv
  <2> QED BY <2>1, <2>2
<1>3. CASE S!NextBatch
  <2>a. pc = "write" /\ out = Len(batch) /\ done' = <<>> /\ out' = 0 /\ UNCHANGED sealed
    BY <1>3 DEF S!NextBatch
  <2>b. \/ /\ counter + Len(batch) > MaxCounter /\ pc' = "returned" /\ result' = "error"
           /\ UNCHANGED <<batch, counter>>
        \/ /\ counter + Len(batch) <= MaxCounter /\ ahead = 0 /\ pc' = "returned" /\ result' = "ok"
           /\ counter' = counter + Len(batch) /\ UNCHANGED batch
        \/ /\ counter + Len(batch) <= MaxCounter /\ ahead # 0
           /\ counter' = counter + Len(batch) /\ batch' = <<ahead>> /\ pc' = "gather" /\ UNCHANGED result
    BY <1>3 DEF S!NextBatch, S!Return
  <2>c. batch' \in Seq(1 .. n) /\ Len(batch') <= size /\ (ahead # 0 /\ batch' = <<ahead>> => Len(batch') = 1 /\ batch'[1] = ahead)
    <3>1. CASE batch' = batch
      BY <3>1, <1>t, <1>n DEF S!TypeOK
    <3>2. CASE ahead # 0 /\ batch' = <<ahead>>
      BY <3>2, <1>n
    <3> QED BY <2>b, <3>1, <3>2
  <2>1. S!TypeOK'
    <3>1. done' \in Seq(1 .. size)
      BY <2>a, EmptySeq
    <3> QED BY <1>a, <2>a, <2>b, <2>c, <3>1, <1>t, <1>n DEF S!TypeOK
  <2>2. Beginning'
    <3>1. result' = "ok" => Len(sealed) = Size
      BY <1>b, <2>a, <2>b, <1>n DEF Size
    <3> QED BY <1>a, <2>a, <3>1, <1>t DEF Beginning, Size, ChunkAt
  <2>3. SerialInStep' /\ BatchInStep'
    <3>1. CASE pc' = "returned"
      BY <3>1 DEF SerialInStep, BatchInStep
    <3>2. CASE pc' = "gather"
      <4>1. /\ Len(batch') = 1 /\ batch'[1] = ahead /\ counter' = counter + Len(batch)
            /\ ahead = counter' + 1 /\ read = counter' + 1 /\ counter' + 1 <= n
            /\ Len(sealed') = counter'
        BY <1>b, <2>a, <2>b, <2>c, <3>2, <1>n
      <4> QED BY <1>a, <1>b, <2>a, <3>2, <4>1, <1>n DEF SerialInStep, BatchInStep
    <3> QED BY <2>b, <3>1, <3>2
  <2>4. Starting' /\ Returning' /\ S!BuffersBounded'
    BY <1>a, <1>b, <2>a, <2>b DEF StreamInv, Starting, Returning, S!BuffersBounded
  <2>5. S!NoSpuriousError'
    BY <1>a, <1>b, <2>b, <1>n DEF S!NoSpuriousError
  <2> QED BY <2>1, <2>2, <2>3, <2>4, <2>5 DEF StreamInv
<1> QED BY <1>1, <1>2, <1>3

LEMMA FailureStep ==
  ASSUME StreamInv, S!ReadFailure \/ S!WriteFailure PROVE StreamInv'
<1>a. /\ UNCHANGED <<n, size, read, cur, batch, done, out, ahead, counter, sealed>>
      /\ faulted' = TRUE /\ pc' = "returned" /\ result' = "error"
  BY DEF S!ReadFailure, S!WriteFailure, S!params, S!Return
<1>1. S!TypeOK' /\ Beginning'
  BY <1>a DEF StreamInv, S!TypeOK, Beginning, Size, ChunkAt
<1> QED BY <1>a, <1>1 DEF StreamInv, SerialInStep, BatchInStep, Starting, Returning, S!NoSpuriousError,
                          S!BuffersBounded

LEMMA StreamInvariant == ASSUME StreamAssumption PROVE S!Spec => []StreamInv
<1>1. S!Init => StreamInv
  BY InitStream
<1>2. StreamInv /\ [S!Next]_(S!vars) => StreamInv'
  <2> SUFFICES ASSUME StreamInv, [S!Next]_(S!vars) PROVE StreamInv'
    OBVIOUS
  <2>1. CASE UNCHANGED S!vars
    BY <2>1 DEF S!vars, S!params, StreamInv, S!TypeOK, Beginning, Size, ChunkAt, SerialInStep, BatchInStep,
                S!Serial, Starting, Returning, S!NoSpuriousError, S!BuffersBounded
  <2> QED BY <2>1, SerialStep, GatherStep, BatchStep, FailureStep DEF S!Next
<1> QED BY <1>1, <1>2, PTL DEF S!Spec
-----------------------------------------------------------------------------
(* The theorems. *)

\* Every variable of an encryption call stays in its type; the call fails only
\* for an I/O error or for want of a counter; and no more than a batch and the
\* piece past it are held, however long the source.
THEOREM StreamHolds ==
  ASSUME StreamAssumption
  PROVE  S!Spec => [](S!TypeOK /\ S!NoSpuriousError /\ S!BuffersBounded)
<1>1. StreamInv => S!TypeOK /\ S!NoSpuriousError /\ S!BuffersBounded
  BY DEF StreamInv
<1> QED BY <1>1, StreamInvariant, PTL

\* The chunks of a whole stream, and that nothing else has them.
LEMMA WholeStream ==
  ASSUME NEW k \in Nat
  PROVE  /\ Len(Stream!Whole(k)) = (IF k = 0 THEN 1 ELSE k)
         /\ \A i \in 1 .. Len(Stream!Whole(k)) :
              Stream!Whole(k)[i] = IF k = 0 THEN [piece |-> 0, index |-> 0, last |-> TRUE]
                                   ELSE [piece |-> i, index |-> i - 1, last |-> i = k]
         /\ Stream!Whole(k) = [i \in 1 .. Len(Stream!Whole(k)) |-> Stream!Whole(k)[i]]
<1>1. CASE k = 0
  <2>1. PICK c : c = [piece |-> 0, index |-> 0, last |-> TRUE]
    OBVIOUS
  <2>2. Stream!Whole(k) = <<c>>
    BY <1>1, <2>1 DEF Stream!Whole
  <2>3. Len(<<c>>) = 1 /\ <<c>>[1] = c /\ <<c>> = [i \in 1 .. 1 |-> <<c>>[i]]
    OBVIOUS
  <2>4. /\ Len(Stream!Whole(k)) = 1 /\ Stream!Whole(k)[1] = c
        /\ Stream!Whole(k) = [i \in 1 .. 1 |-> Stream!Whole(k)[i]]
    BY <2>2, <2>3, Zenon
  <2> QED BY <1>1, <2>1, <2>4
<1>2. CASE k # 0
  <2>1. Stream!Whole(k) = [i \in 1 .. k |-> [piece |-> i, index |-> i - 1, last |-> i = k]]
    BY <1>2 DEF Stream!Whole
  <2>2. Len(Stream!Whole(k)) = k
    BY <2>1
  <2>3. \A i \in 1 .. k : Stream!Whole(k)[i] = [piece |-> i, index |-> i - 1, last |-> i = k]
    BY <2>1
  <2>4. Stream!Whole(k) = [i \in 1 .. k |-> Stream!Whole(k)[i]]
    BY <2>1
  <2> QED BY <1>2, <2>2, <2>3, <2>4
<1> QED BY <1>1, <1>2

LEMMA OnlyWhole ==
  ASSUME NEW k \in Nat, NEW C, NEW s \in Seq(C), Len(s) = Len(Stream!Whole(k)),
         \A i \in 1 .. Len(s) : s[i] = Stream!Whole(k)[i]
  PROVE  s = Stream!Whole(k)
<1>1. s = [i \in 1 .. Len(s) |-> s[i]]
  BY LenProperties
<1>2. Stream!Whole(k) = [i \in 1 .. Len(Stream!Whole(k)) |-> Stream!Whole(k)[i]]
  BY WholeStream
<1> QED BY <1>1, <1>2

\* A step that adds the next chunk, or one that adds nothing and ends the call,
\* is a step of SealedStream.
LEMMA Matches ==
  ASSUME StreamAssumption, StreamInv, StreamInv', n' = n, result = "none",
         (\E c : sealed' = Append(sealed, c)) \/ (sealed' = sealed /\ result' # "none")
  PROVE  Stream!SealOne \/ Stream!Fail \/ Stream!Succeed
<1>n. /\ n \in Nat /\ Len(sealed) \in Nat /\ sealed \in Seq(Chunks) /\ sealed' \in Seq(Chunks')
      /\ result' \in {"none", "ok", "error"}
  BY Numbers DEF StreamInv, S!TypeOK, Chunks
<1>1. /\ Size = Len(Stream!Whole(n)) /\ Size \in Nat
      /\ \A i \in 1 .. Size : Stream!Whole(n)[i] = ChunkAt(i)
  BY <1>n, WholeStream DEF Size, ChunkAt
<1>2. Size' = Size /\ \A i : ChunkAt(i)' = ChunkAt(i)
  BY DEF Size, ChunkAt
<1>3. /\ Len(sealed') <= Size /\ \A i \in 1 .. Len(sealed') : sealed'[i] = ChunkAt(i)
      /\ result' = "ok" => Len(sealed') = Size
  BY <1>2 DEF StreamInv, Beginning
<1>4. Len(sealed') = Size => sealed' = Stream!Whole(n)
  BY <1>n, <1>1, <1>3, OnlyWhole
<1>5. CASE sealed' = sealed /\ result' # "none"
  BY <1>n, <1>3, <1>4, <1>5 DEF Stream!Fail, Stream!Succeed
<1>6. ASSUME NEW c, sealed' = Append(sealed, c) PROVE Stream!SealOne
  <2>1. Len(sealed') = Len(sealed) + 1 /\ sealed'[Len(sealed) + 1] = c
    BY <1>n, <1>6
  <2>2. Len(sealed) + 1 <= Size /\ c = Stream!Whole(n)[Len(sealed) + 1]
    BY <1>n, <1>1, <1>3, <2>1
  <2>3. PICK last \in BOOLEAN : last <=> Len(sealed) + 1 = Size
    OBVIOUS
  <2>4. [c EXCEPT !.last = last] = c
    <3>1. CASE n = 0
      <4>1. last = TRUE /\ c = [piece |-> 0, index |-> 0, last |-> TRUE]
        BY <1>n, <1>1, <2>2, <2>3, <3>1 DEF Size, ChunkAt
      <4>2. c = [piece |-> 0, index |-> 0, last |-> last]
        BY <4>1
      <4> QED BY <4>2
    <3>2. CASE n # 0
      <4>1. PICK i : i = Len(sealed) + 1
        OBVIOUS
      <4>2. last = (i = n) /\ c = [piece |-> i, index |-> i - 1, last |-> i = n]
        BY <1>n, <1>1, <2>2, <2>3, <3>2, <4>1 DEF Size, ChunkAt
      <4> QED BY <4>2
    <3> QED BY <3>1, <3>2
  <2> QED BY <1>n, <1>1, <1>3, <1>4, <1>6, <2>1, <2>2, <2>3, <2>4 DEF Stream!SealOne
<1> QED BY <1>5, <1>6

\* The look-ahead of the one and the batches of the other, whose tasks may end
\* in any order, are no more than one loop over the source.
THEOREM Implements == ASSUME StreamAssumption PROVE S!Spec => Stream!Spec
<1>1. S!Init => Stream!Init
  BY DEF S!Init, Stream!Init, StreamAssumption
<1>2. StreamInv /\ StreamInv' /\ [S!Next]_(S!vars)
        => [Stream!SealOne \/ Stream!Fail \/ Stream!Succeed]_<<n, sealed, result>>
  <2> SUFFICES ASSUME StreamInv, StreamInv', [S!Next]_(S!vars)
               PROVE  [Stream!SealOne \/ Stream!Fail \/ Stream!Succeed]_<<n, sealed, result>>
    OBVIOUS
  <2>1. CASE UNCHANGED <<n, sealed, result>>
    BY <2>1
  <2>2. CASE n' = n /\ pc # "returned"
              /\ ((\E c : sealed' = Append(sealed, c)) \/ (sealed' = sealed /\ result' # "none"))
    <3>1. result = "none"
      BY <2>2 DEF StreamInv, Returning
    <3> QED BY <2>2, <3>1, Matches
  <2>3. CASE S!ReadFirst \/ S!ReadAhead \/ S!Gather \/ S!Peek \/ (\E i \in 1 .. Len(batch) : S!Task(i))
    BY <2>1, <2>3 DEF S!ReadFirst, S!ReadAhead, S!Gather, S!Peek, S!Task, S!params
  <2>4. CASE S!SealCurrent \/ S!WriteNext
    BY <2>2, <2>4 DEF S!SealCurrent, S!WriteNext, S!SealedAs, S!Return, S!params
  <2>5. CASE S!Prime \/ S!NextBatch
    BY <2>1, <2>2, <2>5 DEF S!Prime, S!NextBatch, S!SealedAs, S!Return, S!params
  <2>6. CASE S!ReadFailure \/ S!WriteFailure
    BY <2>2, <2>6 DEF S!ReadFailure, S!WriteFailure, S!Return, S!params
  <2> QED BY <2>1, <2>3, <2>4, <2>5, <2>6 DEF S!Next, S!vars, S!params
<1> QED BY <1>1, <1>2, StreamInvariant, PTL DEF S!Spec, Stream!Spec
-----------------------------------------------------------------------------
(* The pipelined encryptor: its inductive invariant. *)

Working == mpc \in {"first", "next", "seal"}

\* The last piece the caller has received, and whether the reader has reported
\* an error.
Received == IF mpc = "first" THEN 0
            ELSE IF mpc = "seal" /\ nxt > P!ReadError THEN nxt ELSE cur
Reported == failed /\ rpc = "gone"
Hand     == IF rpc = "send" THEN 1 ELSE 0

\* What waits in the channel follows what has been received, without a gap; an
\* error is behind all of it, and is the last message there ever is.
Flowing ==
  Working =>
    /\ ~Reported =>
         /\ \A i \in 1 .. Len(chan) : chan[i] = Received + i
         /\ read = Received + Len(chan) + Hand
         /\ mpc = "seal" => nxt # P!ReadError
    /\ Reported =>
         \/ mpc = "seal" /\ nxt = P!ReadError
         \/ /\ mpc = "seal" => nxt > P!ReadError
            /\ Len(chan) > 0 /\ chan[Len(chan)] = P!ReadError
            /\ \A i \in 1 .. Len(chan) - 1 : chan[i] = Received + i
            /\ read = Received + Len(chan) - 1

\* A reader that has not reported its error is about to; one that is gone
\* without an error has read everything.
ReaderInStep ==
  /\ rpc # "gone" => (failed <=> rpc = "sendError")
  /\ rpc = "gone" /\ ~failed => read = n

\* The caller holds the piece after those it has sealed, and knows what follows.
CallerInStep ==
  /\ Working <=> result = "none"
  /\ mpc = "first" => sealed = <<>> /\ counter = 0
  /\ mpc \in {"next", "seal"} =>
       cur \in 1 .. n /\ counter = cur - 1 /\ Len(sealed) = cur - 1
  /\ mpc = "seal" =>
       /\ nxt = P!Closed => rpc = "gone" /\ ~failed /\ cur = n
       /\ nxt > P!ReadError => nxt = cur + 1 /\ nxt \in 1 .. n

\* Until it is closed the stream is a beginning of the source's, unmarked.
PipeSealing ==
  result # "ok" =>
    /\ Len(sealed) <= n
    /\ \A i \in 1 .. Len(sealed) : sealed[i] = [piece |-> i, index |-> i - 1, last |-> FALSE]
PipeFinished ==
  result = "ok" => rpc = "gone" /\ ~failed /\ sealed = Stream!Whole(n)

\* How far the reader is ahead of what is sealed.
Ahead ==
  read <= Len(sealed) + Len(chan) + Hand
            + (IF mpc = "first" THEN 0 ELSE IF mpc = "next" THEN 1 ELSE 2)

PipeInv == /\ P!TypeOK /\ Flowing /\ ReaderInStep /\ CallerInStep
           /\ PipeSealing /\ PipeFinished /\ Ahead
-----------------------------------------------------------------------------
LEMMA InitPipe == ASSUME PipelineAssumption, P!Init PROVE PipeInv
<1> USE PipelineAssumption
<1>1. P!TypeOK
  <2>1. panics \in BOOLEAN
    BY DEF P!Init
  <2>2. chan \in Seq(0 .. MaxPieces) /\ Len(chan) = 0 /\ Len(sealed) = 0
        /\ sealed \in Seq([piece : 0 .. MaxPieces, index : 0 .. MaxCounter, last : BOOLEAN])
    BY EmptySeq DEF P!Init
  <2>3. n \in 0 .. MaxPieces /\ 0 \in 0 .. MaxCounter /\ nxt \in P!Closed .. MaxPieces /\ read \in 0 .. n
        /\ cur \in 0 .. MaxPieces
    BY DEF P!Init, P!Closed, PipelineAssumption
  <2>4. failed \in BOOLEAN
    BY DEF P!Init
  <2> QED BY <2>1, <2>2, <2>3, <2>4 DEF P!Init, P!TypeOK, PipelineAssumption
<1>2. Flowing /\ ReaderInStep /\ CallerInStep /\ PipeSealing /\ PipeFinished /\ Ahead
  BY <1>1 DEF P!Init, P!TypeOK, Flowing, ReaderInStep, CallerInStep, PipeSealing, PipeFinished, Ahead,
     Working, Received, Reported, Hand, P!ReadError, P!Closed
<1> QED BY <1>1, <1>2 DEF PipeInv

(* The reader: what it hands over is the next piece. *)
LEMMA PipeReaderStep == ASSUME PipelineAssumption, PipeInv, P!Reader PROVE PipeInv'
<1> USE PipelineAssumption DEF PipelineAssumption, P!ReadError, P!Closed
<1>t. P!TypeOK
  BY DEF PipeInv
<1>l. Len(chan) \in Nat /\ Len(sealed) \in Nat
  BY <1>t, LenProperties DEF P!TypeOK
<1>a. rpc # "gone" /\ ~Reported /\ UNCHANGED <<P!source, P!callerVars>>
  BY DEF P!Reader, P!Fill, P!EndOfInput, P!ReadFailure, P!Panic, P!Send, P!SendError, Reported
<1>c. CallerInStep' /\ PipeSealing' /\ PipeFinished'
  BY <1>a, <1>t, <1>l
     DEF PipeInv, CallerInStep, PipeSealing, PipeFinished, Working, P!TypeOK, P!source, P!callerVars
<1>r. Received' = Received /\ Working' = Working /\ Received \in Int
  BY <1>a, <1>t DEF Received, Working, P!TypeOK, P!source, P!callerVars
<1>o. Working => /\ \A i \in 1 .. Len(chan) : chan[i] = Received + i
                 /\ read = Received + Len(chan) + Hand
                 /\ mpc = "seal" => nxt # P!ReadError
  BY <1>a DEF PipeInv, Flowing
<1>1. CASE P!Fill
  <2>1. P!TypeOK' /\ ReaderInStep'
    BY <1>1, <1>t DEF PipeInv, P!Fill, P!TypeOK, ReaderInStep, P!source, P!callerVars
  <2>2. Hand = 0 /\ Hand' = 1
    BY <1>1 DEF P!Fill, Hand
  <2>3. ~Reported'
    BY <1>1, <1>a DEF P!Fill, Reported
  <2>4. Flowing' /\ Ahead'
    BY <1>1, <1>t, <1>l, <1>a, <1>r, <1>o, <2>2, <2>3
    DEF PipeInv, P!Fill, P!TypeOK, Flowing, Ahead, P!source, P!callerVars
  <2> QED BY <1>c, <2>1, <2>4 DEF PipeInv
<1>2. CASE P!EndOfInput \/ P!Panic
  <2>1. P!TypeOK' /\ ReaderInStep'
    BY <1>2, <1>t DEF PipeInv, P!EndOfInput, P!Panic, P!TypeOK, ReaderInStep, P!source, P!callerVars
  <2>2. Hand = 0 /\ Hand' = 0 /\ ~failed
    BY <1>2 DEF PipeInv, ReaderInStep, P!EndOfInput, P!Panic, Hand
  <2>3. ~Reported'
    BY <1>2, <2>2 DEF P!EndOfInput, P!Panic, Reported
  <2>4. Flowing' /\ Ahead'
    BY <1>2, <1>t, <1>l, <1>a, <1>r, <1>o, <2>2, <2>3
    DEF PipeInv, P!EndOfInput, P!Panic, P!TypeOK, Flowing, Ahead, P!source, P!callerVars
  <2> QED BY <1>c, <2>1, <2>4 DEF PipeInv
<1>3. CASE P!ReadFailure
  <2>1. P!TypeOK' /\ ReaderInStep'
    BY <1>3, <1>t DEF PipeInv, P!ReadFailure, P!TypeOK, ReaderInStep, P!source, P!callerVars
  <2>2. Hand = 0 /\ Hand' = 0 /\ ~Reported'
    BY <1>3 DEF P!ReadFailure, Hand, Reported
  <2>4. Flowing' /\ Ahead'
    BY <1>3, <1>t, <1>l, <1>a, <1>r, <1>o, <2>2
    DEF PipeInv, P!ReadFailure, P!TypeOK, Flowing, Ahead, P!source, P!callerVars
  <2> QED BY <1>c, <2>1, <2>4 DEF PipeInv
<1>4. CASE P!Send
  <2>1. /\ chan' \in Seq(0 .. MaxPieces) /\ Len(chan') = Len(chan) + 1
        /\ \A i \in 1 .. Len(chan) : chan'[i] = chan[i]
        /\ chan'[Len(chan) + 1] = read
    BY <1>4, <1>t, AppendProperties DEF P!Send, P!TypeOK
  <2>2. P!TypeOK' /\ ReaderInStep'
    BY <1>4, <1>t, <1>l, <2>1 DEF PipeInv, P!Send, P!TypeOK, ReaderInStep, P!source, P!callerVars
  <2>3. Hand = 1 /\ Hand' = 0 /\ ~Reported'
    BY <1>4 DEF P!Send, Hand, Reported
  <2>4. Flowing' /\ Ahead'
    BY <1>4, <1>t, <1>l, <1>a, <1>r, <1>o, <2>1, <2>3
    DEF PipeInv, P!Send, P!TypeOK, Flowing, Ahead, P!source, P!callerVars
  <2> QED BY <1>c, <2>2, <2>4 DEF PipeInv
<1>5. CASE P!SendError
  <2>1. /\ chan' \in Seq(0 .. MaxPieces) /\ Len(chan') = Len(chan) + 1
        /\ \A i \in 1 .. Len(chan) : chan'[i] = chan[i]
        /\ chan'[Len(chan) + 1] = P!ReadError
    BY <1>5, <1>t, AppendProperties DEF P!SendError, P!TypeOK
  <2>2. P!TypeOK' /\ ReaderInStep'
    BY <1>5, <1>t, <1>l, <2>1 DEF PipeInv, P!SendError, P!TypeOK, ReaderInStep, P!source, P!callerVars
  <2>3. Hand = 0 /\ Hand' = 0 /\ Reported'
    BY <1>5 DEF PipeInv, ReaderInStep, P!SendError, Hand, Reported
  <2>4. Flowing'
    <3>1. ASSUME Working PROVE mpc' = "seal" => nxt' > P!ReadError
      BY <1>a, <1>o, <1>t, <1>5, <3>1 DEF PipeInv, CallerInStep, P!TypeOK, P!SendError, P!callerVars, Working
    <3> QED
      BY <1>5, <1>t, <1>l, <1>a, <1>r, <1>o, <2>1, <2>3, <3>1
      DEF P!SendError, P!TypeOK, Flowing, P!source, P!callerVars
  <2>5. Ahead'
    BY <1>5, <1>t, <1>l, <1>a, <2>1, <2>3 DEF PipeInv, P!SendError, P!TypeOK, Ahead, P!source, P!callerVars
  <2> QED BY <1>c, <2>2, <2>4, <2>5 DEF PipeInv
<1> QED BY <1>1, <1>2, <1>3, <1>4, <1>5 DEF P!Reader

(* The caller: what it seals is the next piece, marked if nothing follows. *)
LEMMA PipeCallerStep == ASSUME PipelineAssumption, PipeInv, P!Caller PROVE PipeInv'
<1> USE PipelineAssumption DEF PipelineAssumption, P!ReadError, P!Closed
<1>t. P!TypeOK
  BY DEF PipeInv
<1>l. Len(chan) \in Nat /\ Len(sealed) \in Nat
  BY <1>t, LenProperties DEF P!TypeOK
<1>s. Len(<<>>) = 0 /\ (chan = <<>> <=> Len(chan) = 0)
  BY <1>t, EmptySeq DEF P!TypeOK
<1>h. ASSUME chan # <<>>
      PROVE  /\ Len(chan) \in Nat \ {0} /\ Tail(chan) \in Seq(0 .. MaxPieces)
             /\ Len(Tail(chan)) = Len(chan) - 1
             /\ \A i \in 1 .. Len(chan) - 1 : Tail(chan)[i] = chan[i + 1]
             /\ Head(chan) = chan[1] /\ Head(chan) \in 0 .. MaxPieces
  BY <1>h, <1>t, HeadTailProperties, EmptySeq DEF P!TypeOK
<1>i. Hand \in 0 .. 1
  BY DEF Hand
<1>o. ASSUME Working, ~Reported
      PROVE  /\ \A i \in 1 .. Len(chan) : chan[i] = Received + i
             /\ read = Received + Len(chan) + Hand
             /\ mpc = "seal" => nxt # P!ReadError
  BY <1>o DEF PipeInv, Flowing
<1>d. ASSUME P!Disconnected, Working, mpc # "seal"
      PROVE  ~failed /\ read = n /\ Received = n
  <2>1. Len(chan) = 0 /\ rpc = "gone"
    BY <1>d, <1>s DEF P!Disconnected
  <2>2. ~Reported
    BY <1>d, <2>1 DEF PipeInv, Flowing
  <2> QED
    BY <1>d, <1>t, <2>1, <2>2 DEF PipeInv, Flowing, ReaderInStep, Reported, Hand, Received, P!TypeOK
<1>1. CASE P!RecvFirst
  <2>a. /\ UNCHANGED <<P!source, P!readerVars, nxt, counter, sealed>> /\ mpc = "first"
        /\ chan # <<>> /\ chan' = Tail(chan)
    BY <1>1 DEF P!RecvFirst
  <2>b. CASE Head(chan) = P!ReadError
    <3>1. mpc' = "join" /\ result' = "error" /\ cur' = cur
      BY <1>1, <2>b DEF P!RecvFirst, P!Return
    <3>2. P!TypeOK' /\ ReaderInStep' /\ Flowing'
      BY <2>a, <3>1, <1>h, <1>t
      DEF PipeInv, P!TypeOK, ReaderInStep, Flowing, Working, P!source, P!readerVars
    <3>3. CallerInStep' /\ PipeFinished'
      BY <2>a, <3>1 DEF CallerInStep, PipeFinished, Working
    <3>4. PipeSealing' /\ Ahead'
      BY <2>a, <3>1, <1>h, <1>t, <1>l
      DEF PipeInv, P!TypeOK, CallerInStep, Working, PipeSealing, Ahead, Hand, P!source, P!readerVars
    <3> QED BY <3>2, <3>3, <3>4 DEF PipeInv
  <2>c. CASE Head(chan) # P!ReadError
    <3>1. mpc' = "next" /\ result' = result /\ cur' = chan[1]
      BY <1>1, <2>a, <2>c, <1>h DEF P!RecvFirst
    <3>2. /\ chan[1] = 1 /\ 1 <= n
          /\ Reported => Len(chan) > 1
      <4>1. Working /\ Received = 0
        BY <2>a DEF Working, Received
      <4>2. CASE Reported
        BY <4>1, <4>2, <2>a, <2>c, <1>h, <1>t DEF PipeInv, P!TypeOK, Flowing
      <4>3. CASE ~Reported
        <5>1. 1 \in 1 .. Len(chan) /\ read \in 0 .. n /\ n \in Nat
          BY <2>a, <1>h, <1>t DEF P!TypeOK
        <5>2. chan[1] = 0 + 1 /\ read = 0 + Len(chan) + Hand
          BY <4>1, <4>3, <5>1, <1>o
        <5> QED BY <4>3, <5>1, <5>2, <1>i
      <4> QED BY <4>2, <4>3
    <3>3. P!TypeOK' /\ ReaderInStep'
      BY <2>a, <3>1, <3>2, <1>h, <1>t DEF PipeInv, P!TypeOK, ReaderInStep, P!source, P!readerVars
    <3>4. CallerInStep' /\ PipeFinished' /\ PipeSealing'
      BY <2>a, <3>1, <3>2, <1>s, <1>t
      DEF PipeInv, P!TypeOK, CallerInStep, PipeFinished, PipeSealing, Working, P!source, P!readerVars
    <3>5. Received = 0 /\ Received' = 1 /\ Reported' = Reported /\ Hand' = Hand
      BY <2>a, <3>1, <3>2 DEF Received, Reported, Hand, P!readerVars
    <3>6. Flowing'
      <4>1. Len(chan') = Len(chan) - 1 /\ read' = read
            /\ \A i \in 1 .. Len(chan) - 1 : chan'[i] = chan[i + 1]
        BY <2>a, <1>h DEF P!readerVars
      <4>2. CASE Reported
        BY <4>1, <4>2, <2>a, <3>1, <3>2, <3>5, <1>h, <1>t
        DEF PipeInv, P!TypeOK, Flowing, Working
      <4>3. CASE ~Reported
        <5>1. /\ \A i \in 1 .. Len(chan) : chan[i] = 0 + i
              /\ read = 0 + Len(chan) + Hand
          BY <4>3, <2>a, <3>5, <1>o DEF Working
        <5>2. \A i \in 1 .. Len(chan) - 1 : chan'[i] = 1 + i
          BY <5>1, <4>1, <1>l
        <5>3. read' = 1 + (Len(chan) - 1) + Hand
          BY <5>1, <4>1, <1>l, <1>i
        <5> QED BY <4>1, <4>3, <5>2, <5>3, <3>1, <3>5 DEF Flowing
      <4> QED BY <4>2, <4>3
    <3>7. Ahead'
      BY <2>a, <3>1, <3>5, <1>h, <1>i, <1>t, <1>l DEF PipeInv, P!TypeOK, Ahead, P!source, P!readerVars
    <3> QED BY <3>3, <3>4, <3>6, <3>7 DEF PipeInv
  <2> QED BY <2>b, <2>c
<1>2. CASE P!SealEmpty
  <2>a. /\ UNCHANGED <<P!source, P!readerVars, chan, cur, nxt, counter>> /\ mpc = "first"
        /\ P!Disconnected /\ mpc' = "join" /\ result' = "ok"
        /\ sealed' = <<[piece |-> 0, index |-> 0, last |-> TRUE]>>
    BY <1>2 DEF P!SealEmpty, P!Return
  <2>b. ~failed /\ rpc = "gone" /\ n = 0 /\ read = 0
    BY <2>a, <1>d, <1>t DEF P!Disconnected, Working, Received, P!TypeOK
  <2>c. sealed' \in Seq([piece : 0 .. MaxPieces, index : 0 .. MaxCounter, last : BOOLEAN])
        /\ Len(sealed') = 1
    BY <2>a
  <2>1. P!TypeOK' /\ ReaderInStep' /\ Flowing'
    BY <2>a, <2>c, <1>t DEF PipeInv, P!TypeOK, ReaderInStep, Flowing, Working, P!source, P!readerVars
  <2>2. CallerInStep' /\ PipeSealing'
    BY <2>a DEF CallerInStep, PipeSealing, Working
  <2>3. PipeFinished'
    BY <2>a, <2>b DEF PipeFinished, Stream!Whole, P!source, P!readerVars
  <2>4. Ahead'
    BY <2>a, <2>b, <2>c, <1>l DEF Ahead, Hand, P!source, P!readerVars
  <2> QED BY <2>1, <2>2, <2>3, <2>4 DEF PipeInv
<1>3. CASE P!RecvNext
  <2>a. /\ UNCHANGED <<P!source, P!readerVars, cur, counter, sealed, result>>
        /\ mpc = "next" /\ mpc' = "seal"
    BY <1>3 DEF P!RecvNext
  <2>b. CASE chan # <<>> /\ nxt' = Head(chan) /\ chan' = Tail(chan)
    <3>1. nxt' = chan[1] /\ chan[1] \in 0 .. MaxPieces
      BY <2>b, <1>h
    <3>2. \/ chan[1] = cur + 1 /\ cur + 1 <= n /\ (Reported => Len(chan) > 1)
          \/ chan[1] = P!ReadError /\ Reported /\ Len(chan) = 1
      BY <2>a, <2>b, <1>h, <1>t, <1>l
      DEF PipeInv, P!TypeOK, Flowing, CallerInStep, Working, Received, Hand
    <3>3. P!TypeOK' /\ ReaderInStep'
      BY <2>a, <2>b, <3>1, <1>h, <1>t DEF PipeInv, P!TypeOK, ReaderInStep, P!source, P!readerVars
    <3>4. CallerInStep' /\ PipeFinished' /\ PipeSealing'
      BY <2>a, <3>1, <3>2, <1>t
      DEF PipeInv, P!TypeOK, CallerInStep, PipeFinished, PipeSealing, Working, P!source, P!readerVars
    <3>5. Reported' = Reported /\ Hand' = Hand
      BY <2>a DEF Reported, Hand, P!readerVars
    <3>6. Received = cur /\ Received' = IF chan[1] > P!ReadError THEN chan[1] ELSE cur
      BY <2>a, <3>1 DEF Received
    <3>7. Flowing'
      <4>1. Len(chan') = Len(chan) - 1 /\ read' = read /\ Working
            /\ \A i \in 1 .. Len(chan) - 1 : chan'[i] = chan[i + 1]
        BY <2>a, <2>b, <1>h DEF P!readerVars, Working
      <4>2. cur \in Nat
        BY <1>t DEF P!TypeOK
      <4>3. CASE Reported /\ Len(chan) = 1
        BY <4>1, <4>2, <4>3, <2>a, <3>1, <3>2, <3>5, <3>6 DEF PipeInv, Flowing, Working
      <4>4. CASE Reported /\ Len(chan) # 1
        <5>1. /\ chan[Len(chan)] = P!ReadError /\ read = cur + Len(chan) - 1
              /\ \A i \in 1 .. Len(chan) - 1 : chan[i] = cur + i
          BY <4>1, <4>4, <2>a, <3>6 DEF PipeInv, Flowing
        <5>2. nxt' = cur + 1 /\ Received' = cur + 1
          <6>1. chan[1] = cur + 1
            BY <4>4, <3>2
          <6> QED BY <6>1, <4>2, <3>1, <3>6
        <5>3. chan'[Len(chan) - 1] = P!ReadError
          BY <4>1, <4>4, <5>1, <1>l
        <5>4. \A i \in 1 .. Len(chan) - 2 : chan'[i] = (cur + 1) + i
          <6> SUFFICES ASSUME NEW i \in 1 .. Len(chan) - 2
                       PROVE  chan'[i] = (cur + 1) + i
            OBVIOUS
          <6>1. i \in 1 .. Len(chan) - 1 /\ i + 1 \in 1 .. Len(chan) - 1
            BY <1>l
          <6>2. chan'[i] = chan[i + 1] /\ chan[i + 1] = cur + (i + 1)
            BY <4>1, <5>1, <6>1
          <6> QED BY <6>2, <4>2
        <5>5. read' = (cur + 1) + (Len(chan) - 1) - 1 /\ Len(chan) - 1 > 0
          <6>1. Len(chan) # 1
            BY <4>4
          <6>2. Len(chan) \in Nat \ {0}
            BY <1>h, <2>b
          <6> QED BY <4>1, <4>2, <5>1, <6>1, <6>2
        <5>6. \A i \in 1 .. (Len(chan) - 1) - 1 : chan'[i] = (cur + 1) + i
          BY <5>4, <1>l
        <5> QED BY <4>1, <4>2, <4>4, <5>2, <5>3, <5>5, <5>6, <3>5 DEF Flowing
      <4>5. CASE ~Reported
        <5>1. /\ \A i \in 1 .. Len(chan) : chan[i] = cur + i
              /\ read = cur + Len(chan) + Hand
          BY <4>1, <4>5, <3>6, <1>o
        <5>2. nxt' = cur + 1 /\ Received' = cur + 1
          BY <4>2, <4>5, <3>1, <3>2, <3>6
        <5>3. \A i \in 1 .. Len(chan) - 1 : chan'[i] = (cur + 1) + i
          BY <5>1, <4>1, <4>2, <1>l
        <5>4. read' = (cur + 1) + (Len(chan) - 1) + Hand
          BY <5>1, <4>1, <4>2, <1>l, <1>i
        <5> QED BY <4>1, <4>2, <4>5, <5>2, <5>3, <5>4, <3>5 DEF Flowing
      <4> QED BY <4>3, <4>4, <4>5, <2>b, <1>h
    <3>8. Ahead'
      BY <2>a, <2>b, <3>5, <1>h, <1>i, <1>t, <1>l DEF PipeInv, P!TypeOK, Ahead, P!source, P!readerVars
    <3> QED BY <3>3, <3>4, <3>7, <3>8 DEF PipeInv
  <2>c. CASE P!Disconnected /\ nxt' = P!Closed /\ UNCHANGED chan
    <3>1. ~failed /\ read = n /\ cur = n /\ rpc = "gone" /\ Len(chan) = 0
      BY <2>a, <2>c, <1>d, <1>s DEF P!Disconnected, Working, Received
    <3>2. P!TypeOK' /\ ReaderInStep'
      BY <2>a, <2>c, <1>t DEF PipeInv, P!TypeOK, ReaderInStep, P!source, P!readerVars
    <3>3. CallerInStep' /\ PipeFinished' /\ PipeSealing'
      BY <2>a, <2>c, <3>1, <1>t
      DEF PipeInv, P!TypeOK, CallerInStep, PipeFinished, PipeSealing, Working, P!source, P!readerVars
    <3>4. Flowing'
      BY <2>a, <2>c, <3>1, <1>t
      DEF PipeInv, P!TypeOK, Flowing, Working, Reported, Received, Hand, P!source, P!readerVars
    <3>5. Ahead'
      BY <2>a, <2>c, <1>t, <1>l DEF PipeInv, P!TypeOK, Ahead, Hand, P!source, P!readerVars
    <3> QED BY <3>2, <3>3, <3>4, <3>5 DEF PipeInv
  <2> QED BY <1>3, <2>b, <2>c DEF P!RecvNext
<1>4. CASE P!SealCurrent
  <2> DEFINE Chunk == [piece |-> cur, index |-> counter, last |-> nxt = P!Closed]
             PipeChunks == [piece : 0 .. MaxPieces, index : 0 .. MaxCounter, last : BOOLEAN]
  <2>a. /\ UNCHANGED <<P!source, P!readerVars, chan, nxt>> /\ mpc = "seal"
        /\ sealed' = Append(sealed, Chunk)
    BY <1>4 DEF P!SealCurrent
  <2>b. Chunk \in PipeChunks /\ sealed \in Seq(PipeChunks)
    BY <1>t DEF P!TypeOK
  <2> HIDE DEF Chunk, PipeChunks
  <2>c. /\ sealed' \in Seq(PipeChunks) /\ sealed' # <<>> /\ Len(sealed') = Len(sealed) + 1
        /\ \A i \in 1 .. Len(sealed) : sealed'[i] = sealed[i]
        /\ sealed'[Len(sealed) + 1] = Chunk
    BY <2>a, <2>b, AppendProperties
  <2>d. /\ cur \in 1 .. n /\ counter = cur - 1 /\ Len(sealed) = cur - 1 /\ result = "none"
        /\ nxt = P!Closed => rpc = "gone" /\ ~failed /\ cur = n
        /\ nxt > P!ReadError => nxt = cur + 1 /\ nxt \in 1 .. n
    BY <2>a, <1>t DEF PipeInv, CallerInStep, Working, P!TypeOK
  <2>e. \A i \in 1 .. Len(sealed) : sealed[i] = [piece |-> i, index |-> i - 1, last |-> FALSE]
    BY <2>d DEF PipeInv, PipeSealing
  <2>f. \/ nxt = P!Closed /\ mpc' = "join" /\ result' = "ok" /\ UNCHANGED <<cur, counter>>
        \/ nxt = P!ReadError /\ mpc' = "join" /\ result' = "error" /\ UNCHANGED <<cur, counter>>
        \/ /\ nxt > P!ReadError /\ mpc' = "join" /\ result' = "error"
           /\ cur' = nxt /\ UNCHANGED counter
        \/ /\ nxt > P!ReadError /\ counter < MaxCounter /\ mpc' = "next"
           /\ cur' = nxt /\ counter' = counter + 1 /\ UNCHANGED result
    BY <1>4 DEF P!SealCurrent, P!Return
  <2>1. P!TypeOK'
    <3>1. cur' \in 0 .. MaxPieces /\ counter' \in 0 .. MaxCounter
          /\ mpc' \in {"join", "next"} /\ result' \in {"none", "ok", "error"}
      BY <2>d, <2>f, <1>t DEF P!TypeOK
    <3>2. sealed' \in Seq([piece : 0 .. MaxPieces, index : 0 .. MaxCounter, last : BOOLEAN])
      BY <2>c DEF PipeChunks
    <3> QED BY <2>a, <3>1, <3>2, <1>t DEF P!TypeOK, P!source, P!readerVars
  <2>2. ReaderInStep' /\ CallerInStep'
    <3>1. ReaderInStep'
      BY <2>a DEF PipeInv, ReaderInStep, P!source, P!readerVars
    <3>2. CASE mpc' = "join"
      BY <2>f, <3>1, <3>2 DEF CallerInStep, Working
    <3>3. CASE mpc' = "next"
      BY <2>a, <2>c, <2>d, <2>f, <3>1, <3>3, <1>t DEF CallerInStep, Working, P!source, P!TypeOK
    <3> QED BY <2>f, <3>2, <3>3
  <2>3. Flowing'
    <3>1. CASE mpc' = "join"
      BY <3>1 DEF Flowing, Working
    <3>2. CASE mpc' = "next"
      <4>1. Received' = Received /\ Reported' = Reported /\ Hand' = Hand /\ Working
        BY <2>a, <2>f, <3>2 DEF Received, Reported, Hand, Working, P!readerVars
      <4> QED
        BY <2>a, <2>f, <3>2, <4>1, <1>t DEF PipeInv, P!TypeOK, Flowing, P!source, P!readerVars
    <3> QED BY <2>f, <3>1, <3>2
  <2>4. PipeSealing'
    <3> SUFFICES ASSUME result' # "ok" PROVE PipeSealing'
      BY DEF PipeSealing
    <3>1. nxt # P!Closed
      BY <2>f
    <3>2. Len(sealed') <= n /\ n' = n
      BY <2>a, <2>c, <2>d, <1>t DEF P!source, P!TypeOK
    <3>3. ASSUME NEW i \in 1 .. Len(sealed')
          PROVE  sealed'[i] = [piece |-> i, index |-> i - 1, last |-> FALSE]
      <4>1. CASE i = Len(sealed) + 1
        <5>1. i = cur /\ counter = i - 1 /\ (nxt = P!Closed) = FALSE
          BY <4>1, <3>1, <2>d, <1>l, <1>t DEF P!TypeOK
        <5> QED BY <4>1, <5>1, <2>c DEF Chunk
      <4>2. CASE i \in 1 .. Len(sealed)
        BY <4>2, <2>c, <2>e
      <4> QED BY <4>1, <4>2, <2>c, <1>l
    <3> QED BY <3>2, <3>3 DEF PipeSealing
  <2>5. PipeFinished'
    <3> SUFFICES ASSUME result' = "ok" PROVE PipeFinished'
      BY DEF PipeFinished
    <3>1. nxt = P!Closed /\ n' = n /\ rpc' = "gone" /\ ~failed' /\ cur = n
      BY <2>a, <2>d, <2>f DEF P!source, P!readerVars
    <3>2. Len(sealed') = n /\ n \in Nat \ {0}
      BY <2>c, <2>d, <3>1, <1>t, <1>l DEF P!TypeOK
    <3>3. sealed' = [i \in 1 .. n |-> sealed'[i]]
      BY <2>c, <3>2, LenProperties
    <3>4. ASSUME NEW i \in 1 .. n
          PROVE  sealed'[i] = [piece |-> i, index |-> i - 1, last |-> i = n]
      <4>1. CASE i = n
        BY <4>1, <3>1, <3>2, <2>c, <2>d, <1>l DEF Chunk
      <4>2. CASE i < n
        <5>1. i \in 1 .. Len(sealed) /\ (i = n) = FALSE
          BY <4>2, <3>1, <3>2, <2>d
        <5> QED BY <5>1, <2>c, <2>e
      <4> QED BY <4>1, <4>2, <3>2
    <3>5. sealed' = [i \in 1 .. n |-> [piece |-> i, index |-> i - 1, last |-> i = n]]
      BY <3>3, <3>4
    <3> QED BY <3>1, <3>2, <3>5 DEF PipeFinished, Stream!Whole
  <2>6. Ahead'
    BY <2>a, <2>c, <2>f, <1>t, <1>l DEF PipeInv, P!TypeOK, Ahead, Hand, P!source, P!readerVars
  <2> QED BY <2>1, <2>2, <2>3, <2>4, <2>5, <2>6 DEF PipeInv
<1>5. CASE P!WriteFailure
  <2>a. /\ UNCHANGED <<P!source, P!readerVars, chan, cur, nxt, counter, sealed>>
        /\ mpc \in {"first", "seal"} /\ mpc' = "join" /\ result' = "error"
    BY <1>5 DEF P!WriteFailure, P!Return
  <2>1. P!TypeOK' /\ ReaderInStep' /\ Flowing'
    BY <2>a, <1>t DEF PipeInv, P!TypeOK, ReaderInStep, Flowing, Working, P!source, P!readerVars
  <2>2. CallerInStep' /\ PipeFinished'
    BY <2>a DEF CallerInStep, PipeFinished, Working
  <2>3. PipeSealing' /\ Ahead'
    BY <2>a, <1>t, <1>l
    DEF PipeInv, P!TypeOK, CallerInStep, Working, PipeSealing, Ahead, Hand, P!source, P!readerVars
  <2> QED BY <2>1, <2>2, <2>3 DEF PipeInv
<1>6. CASE P!Join
  <2>1. P!TypeOK' /\ Flowing' /\ ReaderInStep'
    BY <1>6, <1>t DEF PipeInv, P!Join, P!TypeOK, Flowing, ReaderInStep, Working, P!source, P!readerVars
  <2>2. CallerInStep'
    BY <1>6, <1>t DEF PipeInv, P!Join, CallerInStep, Working, P!source, P!readerVars
  <2>3. PipeSealing' /\ PipeFinished' /\ Ahead'
    BY <1>6, <1>t, <1>l
       DEF PipeInv, P!Join, PipeSealing, PipeFinished, Ahead, Hand, P!TypeOK, P!source, P!readerVars
  <2> QED BY <2>1, <2>2, <2>3 DEF PipeInv
<1> QED BY <1>1, <1>2, <1>3, <1>4, <1>5, <1>6 DEF P!Caller

\* Every step keeps the invariant, so it holds of every state.
LEMMA PipeInvariant == ASSUME PipelineAssumption PROVE P!Spec => []PipeInv
<1>1. P!Init => PipeInv
  BY InitPipe
<1>2. PipeInv /\ [P!Next]_(P!vars) => PipeInv'
  <2> SUFFICES ASSUME PipeInv, [P!Next]_(P!vars) PROVE PipeInv'
    OBVIOUS
  <2>1. CASE P!Next
    BY <2>1, PipeReaderStep, PipeCallerStep DEF P!Next
  <2>2. CASE UNCHANGED P!vars
    BY <2>2
    DEF PipeInv, P!TypeOK, Flowing, ReaderInStep, CallerInStep, PipeSealing, PipeFinished, Ahead, Working,
        Received, Reported, Hand, P!vars, P!source, P!readerVars, P!callerVars
  <2> QED BY <2>1, <2>2
<1> QED BY <1>1, <1>2, PTL DEF P!Spec

-----------------------------------------------------------------------------
(* The theorems. *)

\* Every variable of the two threads stays in its type.
THEOREM PipelineTypeCorrect == ASSUME PipelineAssumption PROVE P!Spec => []P!TypeOK
<1>1. PipeInv => P!TypeOK
  BY DEF PipeInv
<1> QED BY <1>1, PipeInvariant, PTL

\* Whatever the two threads do, and whatever fails: the stream is closed by a
\* last chunk exactly when the call returns ok, a read error ends in an error
\* of the call, and no more than Capacity + 3 pieces are in memory.
THEOREM PipelineHolds ==
  ASSUME PipelineAssumption
  PROVE  P!Spec => [](P!ClosedIffOk /\ P!ReadErrorSurfaces /\ P!BuffersBounded)
<1> USE PipelineAssumption DEF PipelineAssumption
<1>1. PipeInv => P!ClosedIffOk /\ P!ReadErrorSurfaces /\ P!BuffersBounded
  <2> SUFFICES ASSUME PipeInv PROVE P!ClosedIffOk /\ P!ReadErrorSurfaces /\ P!BuffersBounded
    OBVIOUS
  <2>t. P!TypeOK
    BY DEF PipeInv
  <2>l. Len(chan) \in 0 .. Capacity /\ Len(sealed) \in Nat /\ (sealed = <<>> <=> Len(sealed) = 0)
    BY <2>t, LenProperties, EmptySeq DEF P!TypeOK
  <2>1. P!ClosedIffOk
    <3>1. CASE result = "ok"
      <4>1. sealed = Stream!Whole(n) /\ n \in Nat
        BY <2>t, <3>1 DEF PipeInv, PipeFinished, P!TypeOK
      <4>2. CASE n = 0
        <5>1. sealed = <<[piece |-> 0, index |-> 0, last |-> TRUE]>>
          BY <4>1, <4>2 DEF Stream!Whole
        <5> QED BY <3>1, <5>1 DEF P!ClosedIffOk
      <4>3. CASE n # 0
        <5>1. sealed = [i \in 1 .. n |-> [piece |-> i, index |-> i - 1, last |-> i = n]]
          BY <4>1, <4>3 DEF Stream!Whole
        <5>2. Len(sealed) = n /\ n > 0
          BY <4>1, <4>3, <5>1
        <5>3. sealed[n].last
          <6>1. n \in 1 .. n
            BY <4>1, <5>2
          <6>2. sealed[n].last = (n = n)
            BY <5>1, <6>1
          <6> QED BY <6>2
        <5> QED BY <3>1, <5>2, <5>3, <2>l DEF P!ClosedIffOk
      <4> QED BY <4>2, <4>3
    <3>2. CASE result # "ok"
      <4>1. ASSUME sealed # <<>> PROVE ~sealed[Len(sealed)].last
        <5>1. Len(sealed) \in 1 .. Len(sealed)
          BY <2>l, <4>1
        <5>2. sealed[Len(sealed)] = [piece |-> Len(sealed), index |-> Len(sealed) - 1, last |-> FALSE]
          BY <5>1, <3>2 DEF PipeInv, PipeSealing
        <5> QED BY <5>2
      <4> QED BY <3>2, <4>1 DEF P!ClosedIffOk
    <3> QED BY <3>1, <3>2
  <2>2. P!ReadErrorSurfaces
    BY <2>t DEF PipeInv, PipeFinished, CallerInStep, Working, P!ReadErrorSurfaces, P!TypeOK
  <2>3. P!BuffersBounded
    <3>1. Hand \in 0 .. 1
      BY DEF Hand
    <3> QED BY <3>1, <2>t, <2>l DEF PipeInv, Ahead, P!BuffersBounded, P!TypeOK
  <2> QED BY <2>1, <2>2, <2>3
<1> QED BY <1>1, PipeInvariant, PTL

\* Two threads and a channel are no more than one loop over the source: every
\* step of theirs is a step of SealedStream, or leaves its state alone.
THEOREM PipelineImplements == ASSUME PipelineAssumption PROVE P!Spec => Stream!Spec
<1> USE PipelineAssumption DEF PipelineAssumption, P!ReadError, P!Closed
<1>1. P!Init => Stream!Init
  BY DEF P!Init, Stream!Init
<1>2. PipeInv /\ PipeInv' /\ [P!Next]_(P!vars)
        => [Stream!SealOne \/ Stream!Fail \/ Stream!Succeed]_<<n, sealed, result>>
  <2> SUFFICES ASSUME PipeInv, PipeInv', [P!Next]_(P!vars)
               PROVE  [Stream!SealOne \/ Stream!Fail \/ Stream!Succeed]_<<n, sealed, result>>
    OBVIOUS
  <2>t. P!TypeOK /\ P!TypeOK' /\ Len(sealed) \in Nat
    BY LenProperties DEF PipeInv, P!TypeOK
  <2>1. CASE P!Reader \/ P!RecvNext \/ P!Join \/ UNCHANGED P!vars
    BY <2>1 DEF P!Reader, P!Fill, P!EndOfInput, P!ReadFailure, P!Panic, P!Send, P!SendError, P!RecvNext, P!Join,
                P!vars, P!source, P!callerVars
  <2>2. CASE P!RecvFirst
    <3>1. UNCHANGED <<n, sealed>> /\ mpc = "first" /\ result' \in {result, "error"}
      BY <2>2 DEF P!RecvFirst, P!Return, P!source
    <3>2. result = "none"
      BY <3>1 DEF PipeInv, CallerInStep, Working
    <3> QED BY <3>1, <3>2 DEF Stream!Fail
  <2>3. CASE P!WriteFailure
    <3>1. UNCHANGED <<n, sealed>> /\ Working /\ result' = "error"
      BY <2>3 DEF P!WriteFailure, P!Return, P!source, Working
    <3> QED BY <3>1 DEF PipeInv, CallerInStep, Stream!Fail
  <2>4. CASE P!SealEmpty
    <3>1. /\ n' = n /\ result' = "ok" /\ Working /\ sealed = <<>>
          /\ sealed' = <<[piece |-> 0, index |-> 0, last |-> TRUE]>>
      BY <2>4 DEF PipeInv, CallerInStep, P!SealEmpty, P!Return, P!source, Working
    <3>2. result = "none" /\ sealed' = Stream!Whole(n)
      BY <3>1 DEF PipeInv, CallerInStep, PipeFinished
    <3>3. Stream!Whole(n) = <<[piece |-> 0, index |-> 0, last |-> TRUE]>>
      BY <3>1, <3>2
    <3>4. Len(sealed) = 0 /\ Len(Stream!Whole(n)) = 1
          /\ Stream!Whole(n)[1] = [piece |-> 0, index |-> 0, last |-> TRUE]
      BY <3>1, <3>3
    <3>5. PICK last \in BOOLEAN : last = TRUE
      OBVIOUS
    <3>6. [Stream!Whole(n)[Len(sealed) + 1] EXCEPT !.last = last]
            = [piece |-> 0, index |-> 0, last |-> last]
      BY <3>4
    <3>7. sealed' = Append(sealed, [piece |-> 0, index |-> 0, last |-> last])
      BY <3>1, <3>5
    <3>8. Len(sealed) < Len(Stream!Whole(n))
      BY <3>4
    <3> QED BY <3>1, <3>2, <3>5, <3>6, <3>7, <3>8 DEF Stream!SealOne
  <2>5. CASE P!SealCurrent
    <3> DEFINE last == nxt = P!Closed
    <3>1. /\ n' = n /\ mpc = "seal" /\ result' \in {"none", "ok", "error"}
          /\ sealed' = Append(sealed, [piece |-> cur, index |-> counter, last |-> last])
          /\ result' = "ok" <=> last
          /\ result' # "none" <=> mpc' = "join"
      <4>1. result = "none"
        BY <2>5 DEF PipeInv, CallerInStep, P!SealCurrent, Working
      <4>2. nxt \in Int
        BY <2>t DEF P!TypeOK
      <4> QED BY <2>5, <4>1, <4>2 DEF P!SealCurrent, P!Return, P!source
    <3>2. /\ result = "none" /\ cur \in 1 .. n /\ counter = cur - 1 /\ Len(sealed) = cur - 1
          /\ nxt > P!ReadError => nxt = cur + 1 /\ nxt \in 1 .. n
      BY <3>1 DEF PipeInv, CallerInStep, Working
    <3>3. /\ Stream!Whole(n) = [i \in 1 .. n |-> [piece |-> i, index |-> i - 1, last |-> i = n]]
          /\ Len(Stream!Whole(n)) = n
      BY <3>2, <2>t DEF Stream!Whole, P!TypeOK
    <3>4. [Stream!Whole(n)[Len(sealed) + 1] EXCEPT !.last = last]
            = [piece |-> cur, index |-> counter, last |-> last]
      <4>1. Stream!Whole(n)[cur] = [piece |-> cur, index |-> cur - 1, last |-> cur = n]
        BY <3>2, <3>3
      <4>2. Len(sealed) + 1 = cur
        BY <3>2, <2>t
      <4> QED BY <4>1, <4>2, <3>2
    <3>5. last => sealed' = Stream!Whole(n)
      BY <3>1 DEF PipeInv, PipeFinished
    <3>6. Len(sealed') = Len(sealed) + 1
      BY <3>1, <3>2, <2>t, AppendProperties DEF P!TypeOK
    <3>7. ASSUME ~last, Len(sealed') = Len(Stream!Whole(n)) PROVE result' = "error"
      <4>1. n \in Nat /\ cur \in Nat /\ nxt \in Int /\ nxt >= P!Closed
        BY <2>t DEF P!TypeOK, P!Closed
      <4>2. n = Len(sealed) + 1 /\ Len(sealed) = cur - 1
        BY <3>2, <3>3, <3>6, <3>7
      <4>3. cur = n
        BY <4>1, <4>2
      <4>4. ~(nxt > P!ReadError)
        BY <3>2, <4>1, <4>3
      <4>5. nxt = P!ReadError
        BY <3>7, <4>1, <4>4 DEF P!Closed, P!ReadError
      <4> QED BY <2>5, <4>5 DEF P!SealCurrent, P!Return
    <3>8. Len(sealed) < Len(Stream!Whole(n)) /\ last \in BOOLEAN
      BY <3>2, <3>3, <2>t DEF P!TypeOK
    <3> HIDE DEF last
    <3> QED BY <3>1, <3>2, <3>4, <3>5, <3>7, <3>8 DEF Stream!SealOne
  <2> QED BY <2>1, <2>2, <2>3, <2>4, <2>5 DEF P!Next, P!Caller
<1> QED BY <1>1, <1>2, PipeInvariant, PTL DEF P!Spec, Stream!Spec

-----------------------------------------------------------------------------
(* The async adapters. *)

CONSTANTS MaxRetries, AfterRefusal
VARIABLES api, whole, held, ct, pos, retries

A == INSTANCE AsyncIO

\* Nobody shuts a writer down again whose text could not be sealed.
AsyncAssumption == Lengths \subseteq Nat /\ MaxRetries \in Nat /\ ~AfterRefusal

Decrypts == api = "decrypt"

\* What an adapter that encrypts promises of its chunks, and one that decrypts of its
\* pieces.
Source  == IF Decrypts THEN 0 ELSE n
Chunked == IF Decrypts THEN <<>> ELSE sealed
Word    == IF Decrypts THEN "none" ELSE A!LastWord
AsyncStream == INSTANCE SealedStream WITH n <- Source, sealed <- Chunked, result <- Word

TextLength == IF Decrypts THEN n ELSE 0
Text       == IF Decrypts THEN out ELSE <<>>
Said       == IF Decrypts THEN result ELSE "none"
Opened     == INSTANCE OpenedText WITH n <- TextLength, out <- Text, result <- Said

\* What a call that goes well hands to its sink.
Pieces == IF Decrypts \/ n # 0 THEN n ELSE 1
Full   == IF Decrypts THEN [i \in 1 .. n |-> i] ELSE [i \in 1 .. Pieces |-> A!Chunk(i)]

AnyChunk == [piece : Nat, index : Nat, last : BOOLEAN]

\* Nothing is in hand before sealing or opening, and all of it is afterwards; what the
\* sink has is a beginning of it, and ok is said when it has all.
Handed ==
  /\ ct = <<>> \/ ct = Full
  /\ pc = "Buffering" => ct = <<>> /\ result = "none"
  /\ pc = "Flushing" => ct = Full
  /\ result = "ok" => ct = Full /\ pos = Pieces
  /\ pc = "Done" => api = "shutdown" /\ (ct # <<>> => pos = Pieces) /\ result # "none"
  /\ pc = "Flushing" => result # "ok"

InSink ==
  /\ out \in Seq(1 .. n) /\ sealed \in Seq(AnyChunk)
  /\ IF Decrypts THEN sealed = <<>> /\ Len(out) = pos /\ \A i \in 1 .. pos : out[i] = i
     ELSE out = <<>> /\ Len(sealed) = pos /\ \A i \in 1 .. pos : sealed[i] = A!Chunk(i)

AsyncInv == A!TypeOK /\ Handed /\ InSink

LEMMA AsyncNumbers ==
  ASSUME AsyncAssumption, AsyncInv
  PROVE  /\ n \in Nat /\ held \in 0 .. n /\ retries \in 0 .. MaxRetries /\ MaxRetries \in Nat
         /\ Pieces \in Nat /\ Len(Full) = Pieces /\ Len(ct) \in {0, Pieces} /\ pos \in 0 .. Len(ct)
         /\ (~Decrypts => Pieces > 0) /\ (Decrypts => Pieces = n)
         /\ \A i \in 1 .. Pieces : Full[i] = (IF Decrypts THEN i ELSE A!Chunk(i))
         /\ \A i \in Nat \ {0} : A!Chunk(i) \in AnyChunk
<1>1. /\ n \in Nat /\ held \in 0 .. n /\ pos \in 0 .. Len(ct)
      /\ retries \in 0 .. MaxRetries /\ MaxRetries \in Nat
  BY DEF AsyncAssumption, AsyncInv, A!TypeOK
<1>2. Pieces \in Nat /\ (~Decrypts => Pieces > 0) /\ (Decrypts => Pieces = n)
  BY <1>1 DEF Pieces
<1>3. Len(Full) = Pieces /\ \A i \in 1 .. Pieces : Full[i] = (IF Decrypts THEN i ELSE A!Chunk(i))
  <2>1. CASE Decrypts
    BY <1>1, <1>2, <2>1 DEF Full
  <2>2. CASE ~Decrypts
    <3>1. Full = [i \in 1 .. Pieces |-> A!Chunk(i)]
      BY <2>2 DEF Full
    <3> HIDE DEF Full
    <3> QED BY <1>2, <2>2, <3>1
  <2> QED BY <2>1, <2>2
<1>4. Len(ct) \in {0, Pieces}
  <2>1. CASE ct = <<>>
    BY <2>1
  <2>2. CASE ct = Full
    BY <1>3, <2>2
  <2> QED BY <2>1, <2>2 DEF AsyncInv, Handed
<1>5. \A i \in Nat \ {0} : A!Chunk(i) \in AnyChunk
  BY <1>1 DEF A!Chunk, AnyChunk
<1> QED BY <1>1, <1>2, <1>3, <1>4, <1>5

LEMMA AsyncInit == ASSUME AsyncAssumption, A!Init PROVE AsyncInv
<1>1. /\ n \in Lengths /\ n \in Nat /\ api \in A!Writer \cup {"encrypt", "decrypt"} /\ whole \in BOOLEAN
      /\ pc = "Buffering" /\ held = 0 /\ ct = <<>> /\ pos = 0 /\ sealed = <<>> /\ out = <<>>
      /\ result = "none" /\ retries = 0 /\ MaxRetries \in Nat
  BY DEF AsyncAssumption, A!Init
<1>2. Len(ct) = 0 /\ Len(sealed) = 0 /\ Len(out) = 0 /\ out \in Seq(1 .. n) /\ sealed \in Seq(AnyChunk)
  BY <1>1
<1>3. A!TypeOK
  BY <1>1, <1>2 DEF A!TypeOK
<1>4. Handed /\ InSink
  BY <1>1, <1>2 DEF Handed, InSink
<1> QED BY <1>3, <1>4 DEF AsyncInv

\* A step that hands over nothing.
LEMMA AsyncQuiet ==
  ASSUME AsyncAssumption, AsyncInv, UNCHANGED <<n, whole, ct, pos, sealed, out>>,
         api' = api \/ (api = "shutdown" /\ api' = "finish"),
         held' \in 0 .. n, retries' \in 0 .. MaxRetries, result' \in {"none", "ok", "error"},
         pc' \in {"Buffering", "Flushing", "Done", "returned"},
         Handed'
  PROVE  AsyncInv'
<1>1. A!TypeOK'
  BY DEF AsyncInv, A!TypeOK, A!Writer
<1>2. Decrypts' = Decrypts
  BY DEF Decrypts
<1>3. InSink'
  BY <1>2 DEF AsyncInv, InSink, A!Chunk
<1> QED BY <1>1, <1>3 DEF AsyncInv

LEMMA SameCall ==
  ASSUME n' = n, api' = api \/ (api = "shutdown" /\ api' = "finish")
  PROVE  Decrypts' = Decrypts /\ Pieces' = Pieces /\ Full' = Full
<1>1. Decrypts' = Decrypts
  BY DEF Decrypts
<1>2. Pieces' = Pieces
  BY <1>1 DEF Pieces
<1> QED BY <1>1, <1>2 DEF Full, A!Chunk

LEMMA AsyncStep == ASSUME AsyncAssumption, AsyncInv, [A!Next]_(A!vars) PROVE AsyncInv'
<1>g. A!TypeOK /\ Handed /\ InSink
  BY DEF AsyncInv
<1>n. /\ n \in Nat /\ held \in 0 .. n /\ retries \in 0 .. MaxRetries /\ MaxRetries \in Nat
      /\ result \in {"none", "ok", "error"} /\ pc \in {"Buffering", "Flushing", "Done", "returned"}
      /\ pos \in 0 .. Len(ct)
  BY <1>g, AsyncNumbers DEF A!TypeOK
<1>1. CASE A!PollWrite
  <2>1. UNCHANGED <<n, api, whole, pc, ct, pos, sealed, out, result, retries>> /\ held' \in 0 .. n
    BY <1>n, <1>1 DEF A!PollWrite
  <2>2. Handed'
    BY <1>g, <2>1, SameCall DEF Handed
  <2> QED BY <1>n, <2>1, <2>2, AsyncQuiet
<1>2. CASE A!Refuse
  <2>1. /\ UNCHANGED <<n, api, whole, held, ct, pos, sealed, out, retries>>
        /\ pc' = "returned" /\ result' = "error"
    BY <1>2 DEF A!Refuse
  <2>2. Handed'
    BY <1>g, <2>1, SameCall DEF Handed
  <2> QED BY <1>n, <2>1, <2>2, AsyncQuiet
<1>3. CASE A!SealAll \/ A!OpenAll
  <2>1. /\ pc = "Buffering" /\ result = "none" /\ ct = <<>> /\ pos = 0
        /\ UNCHANGED <<n, api, whole, held, pos, sealed, out, retries>>
    BY <1>g, <1>n, <1>3 DEF A!SealAll, A!OpenAll, Handed
  <2>2. \/ pc' = "Flushing" /\ ct' = Full /\ result' = result
        \/ /\ pc' = (IF api = "shutdown" THEN "Done" ELSE "returned")
           /\ result' = "error" /\ ct' = ct
    <3>1. CASE A!SealAll
      <4>1. ~Decrypts
        BY <3>1 DEF A!SealAll, Decrypts
      <4>2. Full = [i \in 1 .. (IF n = 0 THEN 1 ELSE n) |-> A!Chunk(i)]
        BY <4>1 DEF Full, Pieces
      <4> QED BY <3>1, <4>2 DEF A!SealAll
    <3>2. CASE A!OpenAll
      <4>1. Full = [i \in 1 .. n |-> i]
        BY <3>2 DEF A!OpenAll, Decrypts, Full
      <4> QED BY <3>2, <4>1 DEF A!OpenAll
    <3> QED BY <1>3, <3>1, <3>2
  <2>3. Handed'
    BY <1>g, <2>1, <2>2, SameCall DEF Handed
  <2>4. pos' \in 0 .. Len(ct')
    <3>1. Len(ct') \in Nat
      BY <2>1, <2>2, AsyncNumbers
    <3> QED BY <2>1, <3>1
  <2>5. A!TypeOK'
    BY <1>g, <1>n, <2>1, <2>2, <2>4 DEF A!TypeOK, A!Writer
  <2>6. InSink'
    BY <1>g, <2>1, SameCall DEF InSink, A!Chunk
  <2> QED BY <2>3, <2>5, <2>6 DEF AsyncInv
<1>4. CASE A!WriteOne
  <2>1. /\ pc = "Flushing" /\ pos < Len(ct) /\ pos' = pos + 1 /\ result = "none"
        /\ UNCHANGED <<n, api, whole, pc, held, ct, result, retries>>
    BY <1>4 DEF A!WriteOne
  <2>2. /\ ct = Full /\ Len(ct) = Pieces /\ pos + 1 \in 1 .. Pieces /\ pos \in Nat
        /\ ct[pos + 1] = (IF Decrypts THEN pos + 1 ELSE A!Chunk(pos + 1))
    BY <1>g, <1>n, <2>1, AsyncNumbers DEF Handed
  <2>3. Handed'
    BY <1>g, <2>1, SameCall DEF Handed
  <2>4. CASE Decrypts
    <3>1. out' = Append(out, pos + 1) /\ sealed' = sealed /\ pos + 1 \in 1 .. n
      BY <1>4, <2>2, <2>4, AsyncNumbers DEF A!WriteOne, Decrypts
    <3>2. /\ out' \in Seq(1 .. n) /\ Len(out') = pos + 1 /\ out'[pos + 1] = pos + 1
          /\ \A i \in 1 .. pos : out'[i] = out[i]
      BY <1>g, <2>4, <3>1, AppendProperties DEF InSink
    <3>3. InSink'
      BY <1>g, <2>1, <2>2, <2>4, <3>1, <3>2, SameCall DEF InSink
    <3>4. A!TypeOK'
      BY <1>g, <1>n, <2>1, <2>2, <2>4, <3>1, <3>2 DEF A!TypeOK, InSink
    <3> QED BY <2>3, <3>3, <3>4 DEF AsyncInv
  <2>5. CASE ~Decrypts
    <3>1. out' = out /\ sealed' = Append(sealed, A!Chunk(pos + 1)) /\ A!Chunk(pos + 1) \in AnyChunk
      BY <1>4, <2>2, <2>5, AsyncNumbers DEF A!WriteOne, Decrypts
    <3>2. /\ sealed' \in Seq(AnyChunk) /\ Len(sealed') = pos + 1 /\ sealed'[pos + 1] = A!Chunk(pos + 1)
          /\ \A i \in 1 .. pos : sealed'[i] = sealed[i]
      BY <1>g, <2>5, <3>1, AppendProperties DEF InSink
    <3>3. InSink'
      <4>1. \A i \in 1 .. pos + 1 : sealed'[i] = A!Chunk(i)
        BY <1>g, <2>2, <2>5, <3>2 DEF InSink
      <4> QED BY <1>g, <2>1, <2>2, <2>5, <3>1, <3>2, <4>1, SameCall DEF InSink, A!Chunk
    <3>4. A!TypeOK'
      BY <1>g, <1>n, <2>1, <2>2, <2>5, <3>1, <3>2 DEF A!TypeOK, InSink
    <3> QED BY <2>3, <3>3, <3>4 DEF AsyncInv
  <2> QED BY <2>4, <2>5
<1>5. CASE A!CloseSink
  <2>1. /\ UNCHANGED <<n, api, whole, held, ct, pos, sealed, out, retries>>
        /\ pc' = (IF api = "shutdown" THEN "Done" ELSE "returned") /\ result' \in {"ok", "error"}
        /\ pos = Len(ct) /\ pc = "Flushing"
    BY <1>5 DEF A!CloseSink
  <2>2. pos = Pieces /\ ct = Full
    BY <1>g, <2>1, AsyncNumbers DEF Handed
  <2>3. Handed'
    BY <1>g, <2>1, <2>2, SameCall DEF Handed
  <2> QED BY <1>n, <2>1, <2>3, AsyncQuiet
<1>6. CASE A!WriteFails
  <2>1. /\ UNCHANGED <<n, api, whole, held, ct, pos, sealed, out, retries>> /\ pc = "Flushing"
        /\ pc' \in {pc, "returned"} /\ result' = "error"
    BY <1>6 DEF A!WriteFails
  <2>2. Handed'
    BY <1>g, <2>1, SameCall DEF Handed
  <2> QED BY <1>n, <2>1, <2>2, AsyncQuiet
<1>7. CASE A!PollShutdown
  <2>1. /\ UNCHANGED <<n, api, whole, pc, held, ct, pos, sealed, out>> /\ api = "shutdown"
        /\ result = "error" /\ retries' = retries + 1 /\ retries < MaxRetries
        /\ result' = (IF pc = "Done" THEN "ok" ELSE "none") /\ (pc = "Done" => ct # <<>>)
    BY <1>7 DEF A!PollShutdown, AsyncAssumption
  <2>2. Handed'
    BY <1>g, <2>1, SameCall DEF Handed
  <2> QED BY <1>n, <2>1, <2>2, AsyncQuiet
<1>8. CASE A!FinishShutdown
  <2>1. /\ UNCHANGED <<n, whole, held, ct, pos, sealed, out>> /\ api = "shutdown" /\ api' = "finish"
        /\ retries' = retries + 1 /\ retries < MaxRetries
        /\ \/ pc = "Flushing" /\ pc' = pc /\ result' = "none"
           \/ pc' = "returned" /\ result' = result /\ result = "error"
    BY <1>8 DEF A!FinishShutdown
  <2>2. Handed'
    BY <1>g, <2>1, SameCall DEF Handed
  <2> QED BY <1>n, <2>1, <2>2, AsyncQuiet
<1>9. CASE A!Drop \/ UNCHANGED A!vars
  <2>1. /\ UNCHANGED <<n, api, whole, held, ct, pos, sealed, out, result, retries>>
        /\ pc' \in {pc, "returned"}
    BY <1>9 DEF A!Drop, A!vars
  <2>2. Handed'
    BY <1>g, <2>1, SameCall DEF Handed
  <2> QED BY <1>n, <2>1, <2>2, AsyncQuiet
<1> QED BY <1>1, <1>2, <1>3, <1>4, <1>5, <1>6, <1>7, <1>8, <1>9 DEF A!Next

\* All of the stream has been written when all that was sealed is.
LEMMA AsyncWhole ==
  ASSUME AsyncAssumption, AsyncInv, ~Decrypts
  PROVE  /\ Source = n /\ Chunked = sealed /\ Len(sealed) = pos
         /\ AsyncStream!Whole(n) = Stream!Whole(n) /\ Len(Stream!Whole(n)) = Pieces
         /\ \A i \in 1 .. Pieces : Stream!Whole(n)[i] = A!Chunk(i)
         /\ pos = Pieces => sealed = AsyncStream!Whole(n)
<1>1. Source = n /\ Chunked = sealed /\ AsyncStream!Whole(n) = Stream!Whole(n)
  BY DEF Source, Chunked, AsyncStream!Whole, Stream!Whole
<1>2. Len(Stream!Whole(n)) = Pieces /\ \A i \in 1 .. Pieces : Stream!Whole(n)[i] = A!Chunk(i)
  BY AsyncNumbers, WholeStream DEF Pieces, A!Chunk
<1>3. sealed \in Seq(AnyChunk) /\ Len(sealed) = pos /\ \A i \in 1 .. pos : sealed[i] = A!Chunk(i)
  BY DEF AsyncInv, InSink
<1>4. pos = Pieces => sealed = Stream!Whole(n)
  BY <1>2, <1>3, AsyncNumbers, OnlyWhole
<1> QED BY <1>1, <1>2, <1>3, <1>4

LEMMA AsyncSeals ==
  ASSUME AsyncAssumption, AsyncInv, AsyncInv', A!WriteOne, ~Decrypts
  PROVE  AsyncStream!SealOne
<1>1. /\ pos < Len(ct) /\ pos' = pos + 1 /\ result = "none" /\ ct = Full /\ Len(ct) = Pieces
      /\ pos \in Nat /\ Pieces \in Nat /\ pos + 1 \in 1 .. Pieces
      /\ UNCHANGED <<n, api, result, retries>>
  BY AsyncNumbers DEF A!WriteOne, AsyncInv, Handed
<1>2. Decrypts' = Decrypts /\ Pieces' = Pieces /\ Full' = Full /\ Source' = Source
  BY <1>1, SameCall DEF Source
<1>3. sealed' = Append(sealed, A!Chunk(pos + 1)) /\ Chunked' = sealed'
  <2>1. ct[pos + 1] = A!Chunk(pos + 1)
    BY <1>1, AsyncNumbers
  <2> QED BY <1>2, <2>1 DEF A!WriteOne, Decrypts, Chunked
<1>4. Word = "none" /\ Word' = "none"
  BY <1>1, <1>2 DEF Word, A!LastWord
<1>5. /\ Source = n /\ Chunked = sealed /\ Len(sealed) = pos
      /\ AsyncStream!Whole(n) = Stream!Whole(n) /\ Len(AsyncStream!Whole(n)) = Pieces
      /\ AsyncStream!Whole(n)[pos + 1] = A!Chunk(pos + 1)
  BY <1>1, AsyncWhole
<1>6. pos + 1 = Pieces => sealed' = AsyncStream!Whole(n)
  <2>1. sealed' \in Seq(AnyChunk) /\ Len(sealed') = pos + 1
        /\ \A i \in 1 .. pos + 1 : sealed'[i] = A!Chunk(i)
    BY <1>1, <1>2 DEF AsyncInv, InSink, A!Chunk
  <2> QED BY <1>1, <1>5, <2>1, AsyncWhole, AsyncNumbers, OnlyWhole
<1>7. PICK last \in BOOLEAN : last <=> pos + 1 = Pieces
  OBVIOUS
<1>8. [A!Chunk(pos + 1) EXCEPT !.last = last] = A!Chunk(pos + 1)
  <2>1. CASE n = 0
    <3>1. last = TRUE /\ A!Chunk(pos + 1) = [piece |-> 0, index |-> 0, last |-> TRUE]
      BY <1>1, <1>7, <2>1 DEF Pieces, A!Chunk
    <3>2. A!Chunk(pos + 1) = [piece |-> 0, index |-> 0, last |-> last]
      BY <3>1
    <3> QED BY <3>2
  <2>2. CASE n # 0
    <3>1. PICK i : i = pos + 1
      OBVIOUS
    <3>2. last = (i = n) /\ A!Chunk(pos + 1) = [piece |-> i, index |-> i - 1, last |-> i = n]
      BY <1>1, <1>7, <2>2, <3>1 DEF Pieces, A!Chunk
    <3> QED BY <3>2
  <2> QED BY <2>1, <2>2
<1>9. Len(sealed') = pos + 1
  BY <1>1, <1>2 DEF AsyncInv, InSink
<1> QED BY <1>1, <1>2, <1>3, <1>4, <1>5, <1>6, <1>7, <1>8, <1>9 DEF AsyncStream!SealOne

\* A step that adds nothing: the call's last word may fall.
LEMMA AsyncSays ==
  ASSUME AsyncAssumption, AsyncInv, AsyncInv', ~Decrypts, ~Decrypts', UNCHANGED <<n, sealed>>,
         \/ Word' = Word
         \/ Word = "none" /\ Word' = "error"
         \/ Word = "none" /\ Word' = "ok" /\ pos = Pieces
  PROVE  [AsyncStream!SealOne \/ AsyncStream!Fail \/ AsyncStream!Succeed]_<<Source, Chunked, Word>>
<1>1. UNCHANGED <<Source, Chunked>>
  BY DEF Source, Chunked
<1>2. CASE Word = "none" /\ Word' = "error"
  BY <1>1, <1>2 DEF AsyncStream!Fail
<1>3. CASE Word = "none" /\ Word' = "ok" /\ pos = Pieces
  BY <1>1, <1>3, AsyncWhole DEF AsyncStream!Succeed
<1> QED BY <1>1, <1>2, <1>3

\* The adapters' states are well typed.
THEOREM AsyncTypeCorrect == ASSUME AsyncAssumption PROVE A!Spec => []A!TypeOK
<1>1. AsyncInv => A!TypeOK
  BY DEF AsyncInv
<1> QED BY <1>1, AsyncInit, AsyncStep, PTL DEF A!Spec

\* Whatever is retried, abandoned or refused, what an adapter's sink gets is the stream
\* of its text, chunk by chunk, and ok, the first or a later one, is said of all of it.
THEOREM AsyncWrites == ASSUME AsyncAssumption PROVE A!Spec => AsyncStream!Spec
<1>1. A!Init => AsyncStream!Init
  <2> SUFFICES ASSUME A!Init PROVE AsyncStream!Init
    OBVIOUS
  <2>1. n \in Nat /\ sealed = <<>> /\ result = "none"
    BY DEF A!Init, AsyncAssumption
  <2> QED BY <2>1 DEF AsyncStream!Init, Source, Chunked, Word, A!LastWord
<1>2. AsyncInv /\ AsyncInv' /\ [A!Next]_(A!vars)
        => [AsyncStream!SealOne \/ AsyncStream!Fail \/ AsyncStream!Succeed]_<<Source, Chunked, Word>>
  <2> SUFFICES ASSUME AsyncInv, AsyncInv', [A!Next]_(A!vars)
               PROVE  [AsyncStream!SealOne \/ AsyncStream!Fail \/ AsyncStream!Succeed]_<<Source, Chunked, Word>>
    OBVIOUS
  <2>1. n' = n /\ (api' = api \/ (api = "shutdown" /\ api' = "finish"))
    BY DEF A!Next, A!vars, A!PollWrite, A!Refuse, A!SealAll, A!OpenAll, A!WriteOne, A!CloseSink,
           A!WriteFails, A!PollShutdown, A!FinishShutdown, A!Drop
  <2>2. Decrypts' = Decrypts /\ Pieces' = Pieces
    BY <2>1, SameCall
  <2>3. CASE Decrypts
    BY <2>2, <2>3 DEF Source, Chunked, Word
  <2>4. CASE ~Decrypts /\ A!WriteOne
    BY <2>4, AsyncSeals
  <2>5. ASSUME ~Decrypts, UNCHANGED <<n, sealed>>,
               \/ Word' = Word
               \/ Word = "none" /\ Word' = "error"
               \/ Word = "none" /\ Word' = "ok" /\ pos = Pieces
        PROVE  [AsyncStream!SealOne \/ AsyncStream!Fail \/ AsyncStream!Succeed]_<<Source, Chunked, Word>>
    BY <2>2, <2>5, AsyncSays
  <2>6. CASE ~Decrypts /\ (A!PollWrite \/ A!Drop \/ UNCHANGED A!vars)
    <3>1. Word' = Word /\ UNCHANGED <<n, sealed>>
      BY <2>2, <2>6 DEF A!PollWrite, A!Drop, A!vars, Word, A!LastWord
    <3> QED BY <2>5, <2>6, <3>1
  <2>7. CASE ~Decrypts /\ A!Refuse
    <3>1. /\ UNCHANGED <<n, sealed, api, retries>> /\ api # "shutdown" /\ result' = "error"
          /\ result = "none"
      BY <2>7 DEF A!Refuse, A!Writer, AsyncInv, Handed
    <3>2. Word = "none" /\ Word' = "error"
      BY <2>2, <2>7, <3>1 DEF Word, A!LastWord
    <3> QED BY <2>5, <2>7, <3>1, <3>2
  <2>8. CASE ~Decrypts /\ (A!SealAll \/ A!OpenAll)
    <3>1. /\ UNCHANGED <<n, sealed, api, retries>> /\ result' \in {"none", "error"}
          /\ result = "none"
      BY <2>8 DEF A!SealAll, A!OpenAll, AsyncInv, Handed
    <3>2. Word = "none" /\ Word' \in {"none", "error"}
      BY <2>2, <2>8, <3>1 DEF Word, A!LastWord
    <3> QED BY <2>5, <2>8, <3>1, <3>2
  <2>9. CASE ~Decrypts /\ (A!CloseSink \/ A!WriteFails)
    <3>1. /\ UNCHANGED <<n, sealed, api, retries>> /\ result' \in {"ok", "error"}
          /\ result = "none" /\ (result' = "ok" => pos = Len(ct)) /\ pc = "Flushing"
      BY <2>9 DEF A!CloseSink, A!WriteFails
    <3>2. result' = "ok" => pos = Pieces
      BY <3>1, AsyncNumbers DEF AsyncInv, Handed
    <3>3. Word = "none" /\ (Word' = "ok" => result' = "ok") /\ Word' \in {"none", "ok", "error"}
      BY <2>2, <2>9, <3>1 DEF Word, A!LastWord
    <3> QED BY <2>5, <2>9, <3>1, <3>2, <3>3
  <2>10. CASE ~Decrypts /\ A!PollShutdown
    <3>1. /\ UNCHANGED <<n, sealed, api, pc>> /\ api = "shutdown" /\ result = "error"
          /\ retries < MaxRetries
          /\ result' = (IF pc = "Done" THEN "ok" ELSE "none") /\ (pc = "Done" => ct # <<>>)
      BY <2>10 DEF A!PollShutdown, AsyncAssumption
    <3>2. Word = "none" /\ Word' = result'
      BY <2>2, <2>10, <3>1 DEF Word, A!LastWord
    <3>3. result' = "ok" => pos = Pieces
      BY <3>1 DEF AsyncInv, Handed
    <3> QED BY <2>5, <2>10, <3>1, <3>2, <3>3
  <2>11. CASE ~Decrypts /\ A!FinishShutdown
    <3>1. /\ UNCHANGED <<n, sealed>> /\ api = "shutdown" /\ api' = "finish" /\ retries < MaxRetries
          /\ \/ result' = "none" /\ pc = "Flushing"
             \/ result' = "error" /\ result = "error"
      BY <2>11 DEF A!FinishShutdown
    <3>2. Word = "none"
      BY <2>11, <3>1 DEF Word, A!LastWord, AsyncInv, Handed, A!TypeOK
    <3>3. Word' \in {"none", "error"}
      BY <2>2, <2>11, <3>1 DEF Word, A!LastWord
    <3> QED BY <2>5, <2>11, <3>1, <3>2, <3>3
  <2> QED BY <2>3, <2>4, <2>6, <2>7, <2>8, <2>9, <2>10, <2>11 DEF A!Next
<1>3. A!Spec => []AsyncInv
  BY AsyncInit, AsyncStep, PTL DEF A!Spec
<1> QED BY <1>1, <1>2, <1>3, PTL DEF A!Spec, AsyncStream!Spec

\* What decrypt_stream_async puts out is a beginning of the text, in order; ok is said
\* of the whole.
THEOREM AsyncReads == ASSUME AsyncAssumption PROVE A!Spec => Opened!Spec
<1>1. A!Init => Opened!Init
  <2> SUFFICES ASSUME A!Init PROVE Opened!Init
    OBVIOUS
  <2>1. n \in Nat /\ out = <<>> /\ result = "none"
    BY DEF A!Init, AsyncAssumption
  <2> QED BY <2>1 DEF Opened!Init, TextLength, Text, Said
<1>2. AsyncInv /\ AsyncInv' /\ [A!Next]_(A!vars)
        => [Opened!Deliver \/ Opened!Say]_<<TextLength, Text, Said>>
  <2> SUFFICES ASSUME AsyncInv, AsyncInv', [A!Next]_(A!vars)
               PROVE  [Opened!Deliver \/ Opened!Say]_<<TextLength, Text, Said>>
    OBVIOUS
  <2>1. n' = n /\ (api' = api \/ (api = "shutdown" /\ api' = "finish"))
    BY DEF A!Next, A!vars, A!PollWrite, A!Refuse, A!SealAll, A!OpenAll, A!WriteOne, A!CloseSink,
           A!WriteFails, A!PollShutdown, A!FinishShutdown, A!Drop
  <2>2. Decrypts' = Decrypts /\ Pieces' = Pieces
    BY <2>1, SameCall
  <2>3. CASE ~Decrypts
    BY <2>2, <2>3 DEF TextLength, Text, Said
  <2>4. CASE Decrypts /\ A!WriteOne
    <3>1. /\ result = "none" /\ UNCHANGED <<n, api, result>> /\ ct = Full /\ pos < Len(ct)
          /\ pos \in Nat /\ Len(ct) = n /\ out' = Append(out, ct[pos + 1]) /\ pos + 1 \in 1 .. Pieces
          /\ n \in Nat /\ Pieces = n
      BY <2>4, AsyncNumbers DEF A!WriteOne, AsyncInv, Handed, Decrypts
    <3>2. ct[pos + 1] = pos + 1 /\ Len(out) = pos
      BY <2>4, <3>1, AsyncNumbers DEF AsyncInv, InSink
    <3>3. /\ Said = "none" /\ Said' = "none" /\ Len(Text) < TextLength
          /\ Text' = Append(Text, Len(Text) + 1) /\ TextLength' = TextLength
      BY <2>2, <2>4, <3>1, <3>2 DEF Said, Text, TextLength
    <3> QED BY <3>3 DEF Opened!Deliver
  <2>5. CASE Decrypts /\ ~A!WriteOne
    <3>1. out' = out
      BY <2>5 DEF A!Next, A!vars, A!PollWrite, A!Refuse, A!SealAll, A!OpenAll, A!CloseSink,
                  A!WriteFails, A!PollShutdown, A!FinishShutdown, A!Drop
    <3>2. /\ Text = out /\ Text' = out /\ TextLength = n /\ TextLength' = n
          /\ Said = result /\ Said' = result'
      BY <2>1, <2>2, <2>5, <3>1 DEF Text, TextLength, Said
    <3>3. Said' = "ok" => Len(Text) = TextLength
      BY <2>2, <2>5, <3>1, <3>2, AsyncNumbers DEF AsyncInv, Handed, InSink, Pieces
    <3>4. Said = "ok" => Said' = Said
      <4>1. api # "shutdown"
        BY <2>5 DEF Decrypts
      <4>2. result = "ok" => pc = "returned"
        BY <4>1 DEF AsyncInv, Handed, A!TypeOK
      <4> QED BY <2>5, <3>2, <4>1, <4>2
              DEF A!Next, A!vars, A!PollWrite, A!Refuse, A!SealAll, A!OpenAll, A!CloseSink,
                  A!WriteFails, A!PollShutdown, A!FinishShutdown, A!Drop
    <3> QED BY <3>2, <3>3, <3>4 DEF Opened!Say
  <2> QED BY <2>3, <2>4, <2>5
<1>3. A!Spec => []AsyncInv
  BY AsyncInit, AsyncStep, PTL DEF A!Spec
<1> QED BY <1>1, <1>2, <1>3, PTL DEF A!Spec, Opened!Spec

-----------------------------------------------------------------------------
(* The three decryptors of chunked streams. *)

CONSTANTS Ciphertexts, Faults
VARIABLES file, shifted, plain, taken

D == INSTANCE StreamDecrypt WITH Files <- Ciphertexts


\* A text has a piece even if it is empty; no encryptor seals a chunk past the end
\* of its counter.
DecryptAssumption ==
  /\ Lengths \subseteq Nat \ {0} /\ BatchSizes \subseteq Nat \ {0}
  /\ MaxCounter \in Nat /\ MaxRetries \in Nat
  /\ Ciphertexts \subseteq Seq({D!Bad, D!Stub} \cup 1 .. MaxCounter + 1)

Plaintext == INSTANCE OpenedText

-----------------------------------------------------------------------------
(* The inductive invariant. *)

\* Pieces opened, with the one whose reader has not asked for it yet.
OpenedSoFar == Len(out) + (IF plain = D!NoBlock THEN 0 ELSE 1)

GivenTyped ==
  /\ n \in Lengths /\ file \in Ciphertexts /\ \A i \in 1 .. Len(file) : file[i] <= n
  /\ api \in {"serial", "parallel", "reader"}
  /\ size \in BatchSizes \cup {1} /\ (api # "parallel" => size = 1)
  /\ read \in 0 .. Len(file) /\ shifted \in BOOLEAN /\ (shifted => api = "reader")
  /\ pc \in {"first", "ahead", "open", "gather", "peek", "write", "newAhead",
             "reader", "done", "returned"}
  /\ cur \in D!Block /\ nxt \in D!Block /\ plain \in 0 .. n
  /\ batch \in Seq(D!Block) /\ Len(batch) <= size /\ taken \in 0 .. size
  /\ counter \in 0 .. MaxCounter
  /\ out \in Seq(1 .. n) /\ Len(out) \in Nat
  /\ result \in {"none", "ok", "Truncated", "DecryptionFailure", "overflow", "Io"}
  /\ faulted \in BOOLEAN /\ retries \in 0 .. MaxRetries

\* What comes out is in order.
InOrder == \A i \in 1 .. Len(out) : out[i] = i

AtStart == pc = "first" => /\ read = 0 /\ counter = 0 /\ plain = D!NoBlock /\ taken = 0
                           /\ Len(out) = 0

SerialKeepsStep ==
  pc \in {"ahead", "open"} =>
    /\ api = "serial" /\ plain = D!NoBlock /\ Len(out) = counter
    /\ read <= counter + (IF pc = "ahead" THEN 1 ELSE 2)

BatchKeepsStep ==
  pc \in {"gather", "peek", "write"} =>
    /\ api = "parallel" /\ plain = D!NoBlock
    /\ Len(batch) \in Nat \ {0} /\ taken <= Len(batch) /\ Len(out) = counter + taken
    /\ pc # "write" => taken = 0
    /\ read <= counter + Len(batch) + (IF pc = "write" THEN 1 ELSE 0)
    /\ pc = "write" /\ taken = Len(batch) /\ nxt = D!NoBlock => Len(out) = n

\* A reader has opened the pieces that its counter counts; or one more, if the counter
\* has ended and the block that was opened is wiped.
ReaderKeepsStep ==
  /\ pc \in {"newAhead", "reader", "done"} =>
       api = "reader" /\ (plain # D!NoBlock => plain = Len(out) + 1)
  /\ pc = "newAhead" => plain = D!NoBlock /\ counter = 0 /\ Len(out) = 0 /\ read <= 1
  /\ pc = "reader" => /\ OpenedSoFar = counter \/ (cur = D!Bad /\ OpenedSoFar = counter + 1)
                      /\ read <= counter + 2
  /\ pc = "done" => OpenedSoFar = n

OkIsAll == result = "ok" => pc = "returned" /\ Len(out) = n

OpenInv ==
  /\ GivenTyped /\ InOrder /\ AtStart /\ SerialKeepsStep /\ BatchKeepsStep /\ ReaderKeepsStep
  /\ OkIsAll /\ D!BuffersBounded

-----------------------------------------------------------------------------
(* What a file holds, if every read and write succeeds. *)

Good(k) == \A i \in 1 .. k : D!Authenticates(file[i], i - 1, i = Len(file))

BlockAt(i) == IF i <= Len(file) THEN file[i] ELSE D!NoBlock
ReadTo(i)  == IF i <= Len(file) THEN i ELSE Len(file)

\* A serial decryptor or a reader holds the next block and the one after it,
CurrentIsNext ==
  pc \in {"ahead", "open", "newAhead", "reader"} =>
    /\ counter + 1 <= Len(file) /\ cur = file[counter + 1] /\ Good(counter)
    /\ IF pc \in {"ahead", "newAhead"} THEN read = counter + 1
       ELSE read = ReadTo(counter + 2) /\ nxt = BlockAt(counter + 2)
    /\ pc = "reader" => OpenedSoFar = counter

\* a parallel one the next few and the one after them,
BatchIsNext ==
  pc \in {"gather", "peek", "write"} =>
    /\ counter + Len(batch) <= Len(file) /\ Good(counter + taken)
    /\ \A i \in 1 .. Len(batch) : batch[i] = file[counter + i]
    /\ IF pc # "write" THEN read = counter + Len(batch)
       ELSE nxt = BlockAt(counter + Len(batch) + 1) /\ read = ReadTo(counter + Len(batch) + 1)

\* and all before those were good.
DoneIsWhole == pc = "done" => Len(file) = n /\ Good(n)

VerdictInv ==
  ~faulted /\ retries = 0 =>
    ~shifted /\ CurrentIsNext /\ BatchIsNext /\ DoneIsWhole /\ D!SameVerdict
-----------------------------------------------------------------------------
(* What reading, opening and handing out do. *)

LEMMA BlockNumbers ==
  ASSUME DecryptAssumption, GivenTyped
  PROVE  /\ n \in Nat \ {0} /\ size \in Nat \ {0} /\ MaxCounter \in Nat /\ MaxRetries \in Nat
         /\ Len(file) \in Nat /\ Len(batch) \in Nat /\ read \in Nat /\ counter \in Nat
         /\ taken \in Nat /\ retries \in Nat /\ D!Block \subseteq Int
         /\ \A i \in 1 .. Len(file) :
              file[i] \in D!Block \ {D!NoBlock} /\ file[i] \in Int /\ file[i] <= MaxCounter + 1
         /\ \A i \in 1 .. Len(batch) : batch[i] \in D!Block
<1>1. /\ n \in Nat \ {0} /\ size \in Nat \ {0} /\ MaxCounter \in Nat /\ MaxRetries \in Nat
      /\ file \in Seq({D!Bad, D!Stub} \cup 1 .. MaxCounter + 1)
  BY DEF DecryptAssumption, GivenTyped
<1>2. Len(file) \in Nat /\ \A i \in 1 .. Len(file) : file[i] \in {D!Bad, D!Stub} \cup 1 .. MaxCounter + 1
  BY <1>1, LenProperties, ElementOfSeq
<1>3. Len(batch) \in Nat /\ \A i \in 1 .. Len(batch) : batch[i] \in D!Block
  BY LenProperties, ElementOfSeq DEF GivenTyped
<1>4. D!Block \subseteq Int
  BY <1>1 DEF D!Block, D!Bad, D!Stub, D!NoBlock
<1>5. \A i \in 1 .. Len(file) :
        file[i] \in D!Block \ {D!NoBlock} /\ file[i] \in Int /\ file[i] <= MaxCounter + 1
  BY <1>1, <1>2 DEF D!Block, D!Bad, D!Stub, D!NoBlock, GivenTyped
<1> QED BY <1>1, <1>2, <1>3, <1>4, <1>5 DEF GivenTyped

LEMMA NextIsBlock == ASSUME DecryptAssumption, GivenTyped PROVE D!NextBlock \subseteq D!Block
<1>1. read # Len(file) => read + 1 \in 1 .. Len(file)
  BY BlockNumbers DEF GivenTyped
<1> QED BY <1>1, BlockNumbers DEF D!NextBlock, D!Block

LEMMA ReadsOn ==
  ASSUME DecryptAssumption, GivenTyped, D!ReadOne
  PROVE  read' \in 0 .. Len(file) /\ read <= read' /\ read' <= read + 1 /\ shifted' = shifted
BY BlockNumbers DEF D!ReadOne, GivenTyped

LEMMA Opening ==
  ASSUME DecryptAssumption, GivenTyped, NEW b \in D!Block, NEW i \in Nat, NEW last,
         D!Authenticates(b, i, last)
  PROVE  b = i + 1 /\ b \in 1 .. n /\ b # D!NoBlock /\ (last <=> b = n)
BY BlockNumbers DEF D!Authenticates, D!Block, D!Bad, D!Stub, D!NoBlock

\* The next piece of the text is handed out.
LEMMA HandsOut ==
  ASSUME DecryptAssumption, GivenTyped, InOrder, UNCHANGED n,
         NEW b \in 1 .. n, b = Len(out) + 1, out' = Append(out, b)
  PROVE  out' \in Seq(1 .. n) /\ Len(out') = Len(out) + 1 /\ Len(out') \in Nat /\ InOrder'
<1>1. /\ out' \in Seq(1 .. n) /\ Len(out') = Len(out) + 1
      /\ \A i \in 1 .. Len(out) : out'[i] = out[i]
      /\ out'[Len(out) + 1] = b
  BY AppendProperties DEF GivenTyped
<1> QED BY <1>1 DEF InOrder, GivenTyped
-----------------------------------------------------------------------------
(* Every step keeps the invariant. *)

\* The call is over: it has said ok if all of the text is out.
LEMMA Ends ==
  ASSUME DecryptAssumption, OpenInv, UNCHANGED <<D!params, D!input, cur, nxt, plain, out,
         retries>>,
         batch' \in Seq(D!Block), Len(batch') <= size, taken' \in {0, taken},
         counter' \in 0 .. MaxCounter, faulted' \in BOOLEAN, pc' = "returned",
         result' \in {"ok", "Truncated", "DecryptionFailure", "overflow", "Io"},
         result' = "ok" => Len(out) = n
  PROVE  OpenInv'
<1>1. GivenTyped'
  <2>1. taken' \in 0 .. size
    <3>1. taken \in 0 .. size /\ size \in Nat
      BY BlockNumbers DEF OpenInv, GivenTyped
    <3> QED BY <3>1
  <2>2. UNCHANGED <<n, file, api, size, read, shifted, cur, nxt, plain, out, retries>>
    BY DEF D!params, D!input
  <2> QED BY <2>1, <2>2 DEF OpenInv, GivenTyped, D!Block
<1>2. InOrder' /\ D!BuffersBounded'
  BY DEF OpenInv, InOrder, D!BuffersBounded, D!params, D!input
<1>3. AtStart' /\ SerialKeepsStep' /\ BatchKeepsStep' /\ ReaderKeepsStep' /\ OkIsAll'
  BY DEF AtStart, SerialKeepsStep, BatchKeepsStep, ReaderKeepsStep, OkIsAll, D!params
<1> QED BY <1>1, <1>2, <1>3 DEF OpenInv

LEMMA FailureIs ==
  ASSUME NEW b, NEW i, NEW last
  PROVE  D!Failure(b, i, last) \in {"Truncated", "DecryptionFailure"}
BY DEF D!Failure

LEMMA SerialOpenStep ==
  ASSUME DecryptAssumption, OpenInv, D!ReadFirst \/ D!ReadAhead \/ D!OpenCurrent PROVE OpenInv'
<1>g. GivenTyped /\ InOrder /\ AtStart /\ SerialKeepsStep /\ BatchKeepsStep /\ ReaderKeepsStep
      /\ OkIsAll /\ D!BuffersBounded
  BY DEF OpenInv
<1>1. CASE D!ReadFirst
  <2>1. /\ pc = "first" /\ api = "serial" /\ read = 0 /\ counter = 0 /\ plain = D!NoBlock
           /\ taken = 0
        /\ Len(out) = 0 /\ result # "ok" /\ size \in Nat \ {0}
    BY <1>g, <1>1, BlockNumbers DEF D!ReadFirst, AtStart, OkIsAll
  <2>2. /\ UNCHANGED <<n, file, api, size>> /\ UNCHANGED <<nxt, counter, plain>>
        /\ UNCHANGED <<batch, taken, out, faulted, retries>>
    BY <1>1 DEF D!ReadFirst, D!params, D!group
  <2>3. /\ read' \in 0 .. Len(file) /\ read' <= 1 /\ shifted' = shifted
    BY <1>g, <1>1, <2>1, ReadsOn DEF D!ReadFirst
  <2>4. \/ pc' = "returned" /\ result' = "DecryptionFailure" /\ cur' = cur
        \/ pc' = "ahead" /\ result' = result /\ cur' \in D!Block
    BY <1>g, <1>1, NextIsBlock DEF D!ReadFirst, D!Return
  <2>5. GivenTyped'
    BY <1>g, <2>1, <2>2, <2>3, <2>4, BlockNumbers DEF GivenTyped, D!Block
  <2>6. InOrder' /\ D!BuffersBounded'
    <3>1. /\ Len(out') = 0 /\ out' = out /\ read' \in Int /\ read' <= 1 /\ api' = api
          /\ size' = size /\ size \in Int /\ size >= 1
      BY <1>g, <2>1, <2>2, <2>3, BlockNumbers
    <3>2. InOrder'
      BY <1>g, <3>1 DEF InOrder
    <3>3. read' - Len(out') <= 1 /\ 1 <= size' + 1
      <4>1. ASSUME NEW r \in Int, r <= 1, NEW k, k = 0, NEW z \in Int, z >= 1
            PROVE  r - k <= 1 /\ 1 <= z + 1
        BY <4>1
      <4>2. size' \in Int /\ size' >= 1 /\ read' \in Int /\ read' <= 1 /\ Len(out') = 0
        BY <3>1
      <4> QED BY <4>1, <4>2
    <3>4. read' - Len(out') \in Int /\ size' + 1 \in Int
      BY <3>1
    <3>5. D!BuffersBounded'
      BY <3>3, <3>4 DEF D!BuffersBounded
    <3> QED BY <3>2, <3>5
  <2>7. AtStart' /\ SerialKeepsStep' /\ BatchKeepsStep' /\ ReaderKeepsStep' /\ OkIsAll'
    BY <2>1, <2>2, <2>3, <2>4, BlockNumbers
       DEF AtStart, SerialKeepsStep, BatchKeepsStep, ReaderKeepsStep, OkIsAll
  <2> QED BY <2>5, <2>6, <2>7 DEF OpenInv
<1>2. CASE D!ReadAhead
  <2>1. GivenTyped'
    BY <1>g, <1>2, BlockNumbers, NextIsBlock, ReadsOn
       DEF D!ReadAhead, D!params, D!group, D!answer, GivenTyped, D!Block
  <2>2. InOrder'
    BY <1>g, <1>2 DEF D!ReadAhead, D!params, D!group, D!answer, InOrder
  <2>3. AtStart' /\ SerialKeepsStep' /\ BatchKeepsStep' /\ ReaderKeepsStep' /\ OkIsAll'
    BY <1>g, <1>2, BlockNumbers, NextIsBlock, ReadsOn
       DEF D!ReadAhead, D!params, D!group, D!answer, GivenTyped,
           AtStart, SerialKeepsStep, BatchKeepsStep, ReaderKeepsStep, OkIsAll, OpenedSoFar
  <2>4. D!BuffersBounded'
    BY <1>g, <1>2, BlockNumbers, ReadsOn
       DEF D!ReadAhead, D!params, D!group, D!answer, GivenTyped,
           AtStart, SerialKeepsStep, BatchKeepsStep, ReaderKeepsStep, D!BuffersBounded,
           OpenedSoFar
  <2> QED BY <2>1, <2>2, <2>3, <2>4 DEF OpenInv
<1>3. CASE D!OpenCurrent
  <2>1. /\ pc = "open" /\ api = "serial" /\ size = 1 /\ plain = D!NoBlock /\ Len(out) = counter
        /\ read <= counter + 2
           /\ UNCHANGED <<D!params, D!input, nxt, plain, D!group, faulted, retries>>
        /\ result # "ok"
    BY <1>g, <1>3 DEF D!OpenCurrent, SerialKeepsStep, OkIsAll, GivenTyped
  <2>2. /\ counter \in Nat /\ counter <= MaxCounter /\ cur \in D!Block /\ nxt \in D!Block
        /\ batch \in Seq(D!Block) /\ Len(batch) <= size /\ faulted \in BOOLEAN
    BY <1>g, BlockNumbers DEF GivenTyped
  <2>3. CASE ~D!Authenticates(cur, counter, nxt = D!NoBlock)
    <3>1. UNCHANGED <<cur, counter, out>> /\ pc' = "returned"
          /\ result' \in {"Truncated", "DecryptionFailure"}
      BY <1>3, <2>3, FailureIs DEF D!OpenCurrent, D!Return
    <3> QED BY <2>1, <2>2, <3>1, Ends DEF D!group, GivenTyped
  <2>4. CASE D!Authenticates(cur, counter, nxt = D!NoBlock)
    <3>1. cur = counter + 1 /\ cur \in 1 .. n /\ (nxt = D!NoBlock <=> cur = n)
      BY <1>g, <2>2, <2>4, Opening
    <3>2. /\ out' = Append(out, cur)
          /\ \/ /\ nxt = D!NoBlock /\ pc' = "returned" /\ result' = "ok"
                /\ cur' = cur /\ counter' = counter
             \/ /\ nxt # D!NoBlock /\ pc' = "returned" /\ result' = "DecryptionFailure"
                /\ cur' = cur /\ counter' = counter
             \/ /\ nxt # D!NoBlock /\ pc' = "ahead" /\ result' = result
                /\ cur' = nxt /\ counter' = counter + 1 /\ counter < MaxCounter
      BY <1>3, <2>4 DEF D!OpenCurrent, D!Return
    <3>3. out' \in Seq(1 .. n) /\ Len(out') = counter + 1 /\ Len(out') \in Nat /\ InOrder'
      BY <1>g, <2>1, <3>1, <3>2, HandsOut DEF D!params
    <3>4. GivenTyped'
      <4>1. counter' \in 0 .. MaxCounter /\ cur' \in D!Block
        BY <2>2, <3>2, <1>g, BlockNumbers
      <4>2. pc' \in {"ahead", "returned"} /\ result' \in {"ok", "DecryptionFailure", result}
        BY <3>2
      <4> QED BY <1>g, <2>1, <3>3, <4>1, <4>2 DEF GivenTyped, D!Block, D!params, D!input, D!group
    <3>5. AtStart' /\ SerialKeepsStep' /\ BatchKeepsStep' /\ ReaderKeepsStep' /\ OkIsAll'
      BY <2>1, <2>2, <3>1, <3>2, <3>3
         DEF AtStart, SerialKeepsStep, BatchKeepsStep, ReaderKeepsStep, OkIsAll, D!params, D!input
    <3>6. D!BuffersBounded'
      BY <1>g, <2>1, <2>2, <3>3 DEF D!BuffersBounded, GivenTyped, D!params, D!input
    <3> QED BY <3>3, <3>4, <3>5, <3>6 DEF OpenInv
  <2> QED BY <2>3, <2>4
<1> QED BY <1>1, <1>2, <1>3

LEMMA ParallelStep ==
  ASSUME DecryptAssumption, OpenInv, D!Prime \/ D!Gather \/ D!Peek \/ D!WriteNext \/ D!NextBatch
  PROVE  OpenInv'
<1>g. GivenTyped /\ InOrder /\ AtStart /\ SerialKeepsStep /\ BatchKeepsStep /\ ReaderKeepsStep
      /\ OkIsAll /\ D!BuffersBounded
  BY DEF OpenInv
<1>1. CASE D!Prime
  <2>1. /\ api = "parallel" /\ read = 0 /\ counter = 0 /\ plain = D!NoBlock /\ taken = 0
        /\ Len(out) = 0 /\ result # "ok" /\ size \in Nat \ {0}
    BY <1>g, <1>1, BlockNumbers DEF D!Prime, AtStart, OkIsAll
  <2>0. /\ UNCHANGED <<n, file, api, size>> /\ UNCHANGED <<cur, nxt, counter, plain>>
        /\ UNCHANGED <<taken, out, faulted, retries>>
    BY <1>1 DEF D!Prime, D!params, D!current
  <2>2. /\ read' \in 0 .. Len(file) /\ read' <= 1 /\ shifted' = shifted
    BY <1>g, <1>1, <2>1, ReadsOn DEF D!Prime
  <2>3. \/ pc' = "returned" /\ result' = "DecryptionFailure" /\ batch' = batch
        \/ \E b \in D!Block : pc' = "gather" /\ result' = result /\ batch' = <<b>>
    BY <1>g, <1>1, NextIsBlock DEF D!Prime, D!Return
  <2>4. \/ pc' = "returned" /\ result' = "DecryptionFailure" /\ batch' = batch
        \/ /\ pc' = "gather" /\ result' = result /\ batch' \in Seq(D!Block) /\ Len(batch') = 1
    <3>1. ASSUME NEW b \in D!Block, batch' = <<b>>
          PROVE  batch' \in Seq(D!Block) /\ Len(batch') = 1
      BY <3>1
    <3> QED BY <2>3, <3>1
  <2>5. GivenTyped'
    <3>1. batch' \in Seq(D!Block) /\ Len(batch') <= size
      <4>1. batch \in Seq(D!Block) /\ Len(batch) <= size /\ 1 <= size
        BY <1>g, <2>1 DEF GivenTyped
      <4>2. CASE batch' = batch
        BY <4>1, <4>2
      <4>3. CASE batch' \in Seq(D!Block) /\ Len(batch') = 1
        BY <4>1, <4>3
      <4> QED BY <2>4, <4>2, <4>3
    <3>2. pc' \in {"gather", "returned"} /\ result' \in {"DecryptionFailure", result}
      BY <2>4
    <3> QED BY <1>g, <2>0, <2>1, <2>2, <3>1, <3>2, BlockNumbers DEF GivenTyped, D!Block
  <2>6. InOrder' /\ D!BuffersBounded'
    <3>1. /\ Len(out') = 0 /\ out' = out /\ read' \in Int /\ read' <= 1 /\ api' = api
          /\ size' = size /\ size \in Int /\ size >= 1
      BY <1>g, <2>0, <2>1, <2>2, BlockNumbers
    <3>2. InOrder'
      BY <1>g, <3>1 DEF InOrder
    <3>3. read' - Len(out') <= 1 /\ 1 <= size' + 1
      <4>1. ASSUME NEW r \in Int, r <= 1, NEW k, k = 0, NEW z \in Int, z >= 1
            PROVE  r - k <= 1 /\ 1 <= z + 1
        BY <4>1
      <4>2. size' \in Int /\ size' >= 1 /\ read' \in Int /\ read' <= 1 /\ Len(out') = 0
        BY <3>1
      <4> QED BY <4>1, <4>2
    <3>4. read' - Len(out') \in Int /\ size' + 1 \in Int
      BY <3>1
    <3>5. D!BuffersBounded'
      BY <3>3, <3>4 DEF D!BuffersBounded
    <3> QED BY <3>2, <3>5
  <2>7. AtStart' /\ SerialKeepsStep' /\ BatchKeepsStep' /\ ReaderKeepsStep' /\ OkIsAll'
    <3>1. /\ api' = "parallel" /\ plain' = D!NoBlock /\ counter' = 0 /\ taken' = 0
          /\ Len(out') = 0 /\ read' <= 1 /\ read' \in Int
      BY <2>0, <2>1, <2>2
    <3>2. \/ pc' = "returned" /\ result' = "DecryptionFailure"
          \/ pc' = "gather" /\ result' # "ok" /\ Len(batch') = 1
      BY <2>1, <2>4
    <3> QED BY <3>1, <3>2 DEF AtStart, SerialKeepsStep, BatchKeepsStep, ReaderKeepsStep, OkIsAll
  <2> QED BY <2>5, <2>6, <2>7 DEF OpenInv
<1>2. CASE D!Gather
  <2>1. /\ pc = "gather" /\ api = "parallel" /\ plain = D!NoBlock /\ taken = 0
        /\ Len(batch) \in Nat \ {0} /\ Len(out) = counter /\ read <= counter + Len(batch)
        /\ counter \in Nat /\ read \in Nat /\ result # "ok" /\ size \in Nat /\ Len(batch) <= size
        /\ UNCHANGED <<D!params, D!current, taken, D!answer>>
    BY <1>g, <1>2, BlockNumbers DEF D!Gather, BatchKeepsStep, OkIsAll, GivenTyped
  <2>2. /\ read' \in 0 .. Len(file) /\ read' <= read + 1 /\ shifted' = shifted
    BY <1>g, <1>2, ReadsOn DEF D!Gather, D!input, GivenTyped
  <2>3. \/ pc' = "peek" /\ batch' = batch /\ read' = read
        \/ pc' = "gather" /\ Len(batch) # size /\ \E b \in D!Block : batch' = Append(batch, b)
    <3>1. CASE Len(batch) = size
      BY <1>2, <3>1 DEF D!Gather, D!input
    <3>2. CASE Len(batch) # size
      <4>1. D!ReadOne /\ \E b \in D!NextBlock : IF b = D!NoBlock THEN pc' = "peek" /\ batch' = batch
                                              ELSE batch' = Append(batch, b) /\ pc' = pc
        BY <1>2, <3>2 DEF D!Gather
      <4>2. CASE read = Len(file)
        BY <1>g, <2>1, <3>2, <4>1, <4>2, NextIsBlock DEF D!ReadOne
      <4>3. CASE read # Len(file)
        <5>1. read + 1 \in 1 .. Len(file) /\ ~shifted
          BY <1>g, <2>1, <4>3, BlockNumbers DEF GivenTyped
        <5>2. D!NextBlock = {file[read + 1]} /\ file[read + 1] \in D!Block \ {D!NoBlock}
          BY <1>g, <4>3, <5>1, BlockNumbers DEF D!NextBlock
        <5> QED BY <2>1, <3>2, <4>1, <5>2
      <4> QED BY <4>2, <4>3
    <3> QED BY <3>1, <3>2
  <2>4. \/ pc' = "peek" /\ batch' = batch /\ read' = read
        \/ /\ pc' = "gather" /\ Len(batch') <= size
           /\ batch' \in Seq(D!Block) /\ Len(batch') = Len(batch) + 1
    <3>1. CASE pc' = "gather" /\ Len(batch) # size /\ \E b \in D!Block : batch' = Append(batch, b)
      <4>1. batch' \in Seq(D!Block) /\ Len(batch') = Len(batch) + 1
        BY <1>g, <3>1, AppendProperties DEF GivenTyped
      <4>2. Len(batch) + 1 <= size
        BY <2>1, <3>1
      <4> QED BY <3>1, <4>1, <4>2
    <3> QED BY <2>3, <3>1
  <2>5. GivenTyped'
    BY <1>g, <2>1, <2>2, <2>4 DEF GivenTyped, D!Block, D!params, D!current, D!answer
  <2>6. InOrder'
    BY <1>g, <2>1 DEF InOrder, D!answer
  <2>7. AtStart' /\ SerialKeepsStep' /\ BatchKeepsStep' /\ ReaderKeepsStep' /\ OkIsAll'
    BY <2>1, <2>2, <2>4
       DEF AtStart, SerialKeepsStep, BatchKeepsStep, ReaderKeepsStep, OkIsAll, D!params,
           D!current, D!answer
  <2>8. D!BuffersBounded'
    <3>1. /\ read' \in Int /\ size \in Int /\ read' <= counter + size + 1 /\ counter \in Int
          /\ Len(out') = counter /\ size' = size /\ api' = "parallel"
      <4>1. read' \in Int
        BY <2>2, <2>1
      <4>2. read' <= counter + size + 1
        BY <2>1, <2>2, <4>1
      <4> QED BY <2>1, <4>1, <4>2 DEF D!params, D!answer
    <3>2. ASSUME NEW r \in Int, NEW c \in Int, NEW z \in Int, r <= c + z + 1 PROVE r - c <= z + 1
      BY <3>2
    <3>3. read' - counter <= size + 1
      BY <3>1, <3>2
    <3> QED BY <3>1, <3>3 DEF D!BuffersBounded
  <2> QED BY <2>5, <2>6, <2>7, <2>8 DEF OpenInv
<1>3. CASE D!Peek
  <2>1. GivenTyped'
    BY <1>g, <1>3, BlockNumbers, NextIsBlock, ReadsOn
       DEF D!Peek, D!params, D!group, D!answer, GivenTyped, D!Block
  <2>2. InOrder'
    BY <1>g, <1>3 DEF D!Peek, D!params, D!group, D!answer, InOrder
  <2>3. AtStart' /\ SerialKeepsStep' /\ BatchKeepsStep' /\ ReaderKeepsStep' /\ OkIsAll'
    BY <1>g, <1>3, BlockNumbers, NextIsBlock, ReadsOn
       DEF D!Peek, D!params, D!group, D!answer, GivenTyped,
           AtStart, SerialKeepsStep, BatchKeepsStep, ReaderKeepsStep, OkIsAll, OpenedSoFar
  <2>4. D!BuffersBounded'
    <3>1. /\ read' \in Int /\ read' <= read + 1 /\ Len(batch) \in Int /\ Len(batch) <= size
          /\ size' = size /\ size \in Int /\ api' = "parallel" /\ counter \in Int /\ read \in Int
          /\ read <= counter + Len(batch) /\ Len(out') = counter
      BY <1>g, <1>3, BlockNumbers, ReadsOn DEF D!Peek, D!params, D!answer, GivenTyped,
                                               BatchKeepsStep
    <3>2. ASSUME NEW r1 \in Int, NEW r \in Int, NEW c \in Int, NEW b \in Int, NEW z \in Int,
                 r1 <= r + 1, r <= c + b, b <= z
          PROVE  r1 - c <= z + 1
      BY <3>2
    <3>3. read' - counter <= size + 1
      BY <3>1, <3>2
    <3> QED BY <3>1, <3>3 DEF D!BuffersBounded
  <2> QED BY <2>1, <2>2, <2>3, <2>4 DEF OpenInv
<1>4. CASE D!WriteNext
  <2> DEFINE index == counter + taken
             block == batch[taken + 1]
             last  == nxt = D!NoBlock /\ taken + 1 = Len(batch)
  <2>1. /\ pc = "write" /\ taken < Len(batch) /\ api = "parallel" /\ plain = D!NoBlock
        /\ Len(batch) \in Nat /\ Len(out) = index /\ read <= counter + Len(batch) + 1
        /\ counter \in Nat /\ counter <= MaxCounter /\ read \in Nat /\ taken \in Nat
           /\ result # "ok"
        /\ size \in Nat /\ Len(batch) <= size /\ nxt \in D!Block /\ batch \in Seq(D!Block)
        /\ faulted \in BOOLEAN /\ block \in D!Block
        /\ UNCHANGED <<D!params, D!input, D!current, batch, faulted, retries>>
    BY <1>g, <1>4, BlockNumbers DEF D!WriteNext, BatchKeepsStep, OkIsAll, GivenTyped
  <2>2. CASE UNCHANGED <<out, taken>> /\ pc' = "returned"
             /\ result' \in {"Truncated", "DecryptionFailure"}
    BY <2>1, <2>2, Ends DEF D!current
  <2>3. CASE /\ D!Authenticates(block, index, last)
             /\ out' = Append(out, block) /\ taken' = taken + 1 /\ UNCHANGED <<pc, result>>
    <3>1. block = index + 1 /\ block \in 1 .. n /\ (last <=> block = n)
      <4>1. index \in Nat
        BY <2>1
      <4> HIDE DEF block, index, last
      <4> QED BY <1>g, <2>1, <2>3, <4>1, Opening
    <3>2. out' \in Seq(1 .. n) /\ Len(out') = index + 1 /\ Len(out') \in Nat /\ InOrder'
      <4> HIDE DEF block, index, last
      <4> QED BY <1>g, <2>1, <2>3, <3>1, HandsOut DEF D!params
    <3>3. last => index + 1 = n
      <4> HIDE DEF block, index, last
      <4> QED BY <3>1
    <3>4. GivenTyped'
      BY <1>g, <2>1, <2>3, <3>2 DEF GivenTyped, D!Block, D!params, D!input, D!current
    <3>5. BatchKeepsStep'
      BY <2>1, <2>3, <3>2, <3>3 DEF BatchKeepsStep, D!params, D!input, D!current
    <3>6. AtStart' /\ SerialKeepsStep' /\ ReaderKeepsStep' /\ OkIsAll'
      BY <2>1, <2>3 DEF AtStart, SerialKeepsStep, ReaderKeepsStep, OkIsAll, D!params, D!input,
                        D!current
    <3>7. D!BuffersBounded'
      BY <2>1, <3>2 DEF D!BuffersBounded, D!params, D!input
    <3> QED BY <3>2, <3>4, <3>5, <3>6, <3>7 DEF OpenInv
  <2> HIDE DEF block, index, last
  <2> QED BY <1>4, <2>2, <2>3, FailureIs DEF D!WriteNext, D!Return, block, index, last
<1>5. CASE D!NextBatch
  <2> DEFINE next == counter + Len(batch)
  <2>1. /\ pc = "write" /\ taken = Len(batch) /\ api = "parallel" /\ plain = D!NoBlock
        /\ Len(batch) \in Nat \ {0} /\ Len(out) = next /\ read <= next + 1
        /\ counter \in Nat /\ counter <= MaxCounter /\ read \in Nat /\ result # "ok"
           /\ MaxCounter \in Nat
        /\ size \in Nat \ {0} /\ Len(batch) <= size /\ nxt \in D!Block /\ batch \in Seq(D!Block)
        /\ (nxt = D!NoBlock => Len(out) = n) /\ taken' = 0 /\ faulted \in BOOLEAN
        /\ UNCHANGED <<D!params, D!input, cur, nxt, plain, out, faulted, retries>>
    BY <1>g, <1>5, BlockNumbers DEF D!NextBatch, BatchKeepsStep, OkIsAll, GivenTyped
  <2>2. CASE /\ pc' = "returned" /\ UNCHANGED batch /\ counter' \in {counter, next}
             /\ counter' <= MaxCounter /\ result' \in {"ok", "DecryptionFailure"}
             /\ result' = "ok" => nxt = D!NoBlock
    <3>1. counter' \in 0 .. MaxCounter
      BY <2>1, <2>2
    <3> HIDE DEF next
    <3> QED BY <2>1, <2>2, <3>1, Ends DEF D!group
  <2>3. CASE /\ next <= MaxCounter /\ nxt # D!NoBlock /\ counter' = next /\ batch' = <<nxt>>
             /\ pc' = "gather" /\ UNCHANGED result
    <3>1. batch' \in Seq(D!Block) /\ Len(batch') = 1
      BY <2>1, <2>3
    <3>2. GivenTyped'
      BY <1>g, <2>1, <2>3, <3>1 DEF GivenTyped, D!Block, D!params, D!input
    <3>3. InOrder' /\ D!BuffersBounded'
      BY <1>g, <2>1 DEF InOrder, D!BuffersBounded, D!params, D!input
    <3>4. AtStart' /\ SerialKeepsStep' /\ BatchKeepsStep' /\ ReaderKeepsStep' /\ OkIsAll'
      BY <2>1, <2>3, <3>1
         DEF AtStart, SerialKeepsStep, BatchKeepsStep, ReaderKeepsStep, OkIsAll, D!params, D!input
    <3> QED BY <3>2, <3>3, <3>4 DEF OpenInv
  <2>4. counter' \in {counter, next} => counter' <= MaxCounter \/ counter' = next
    BY <2>1
  <2> HIDE DEF next
  <2> QED BY <1>5, <2>1, <2>2, <2>3 DEF D!NextBatch, D!Return, next
<1> QED BY <1>1, <1>2, <1>3, <1>4, <1>5

LEMMA ReaderStep ==
  ASSUME DecryptAssumption, OpenInv,
         D!NewFirst \/ D!NewAhead \/ D!Drain \/ D!EndOfText
           \/ D!ReadRefused \/ D!ReadPiece \/ D!CounterEnds \/ D!FillFails
  PROVE  OpenInv'
<1>g. GivenTyped /\ InOrder /\ AtStart /\ SerialKeepsStep /\ BatchKeepsStep /\ ReaderKeepsStep
      /\ OkIsAll /\ D!BuffersBounded
  BY DEF OpenInv
<1>1. CASE D!NewFirst
  <2>1. GivenTyped'
    BY <1>g, <1>1, BlockNumbers, NextIsBlock, ReadsOn
       DEF D!NewFirst, D!Return, D!params, D!group, GivenTyped, D!Block
  <2>2. InOrder'
    BY <1>g, <1>1 DEF D!NewFirst, D!Return, D!params, D!group, InOrder
  <2>3. AtStart' /\ SerialKeepsStep' /\ BatchKeepsStep' /\ ReaderKeepsStep' /\ OkIsAll'
    BY <1>g, <1>1, BlockNumbers, NextIsBlock, ReadsOn
       DEF D!NewFirst, D!Return, D!params, D!group, GivenTyped,
           AtStart, SerialKeepsStep, BatchKeepsStep, ReaderKeepsStep, OkIsAll, OpenedSoFar
  <2>4. D!BuffersBounded'
    BY <1>g, <1>1, BlockNumbers, ReadsOn
       DEF D!NewFirst, D!Return, D!params, D!group, GivenTyped,
           AtStart, SerialKeepsStep, BatchKeepsStep, ReaderKeepsStep, D!BuffersBounded,
           OpenedSoFar
  <2> QED BY <2>1, <2>2, <2>3, <2>4 DEF OpenInv
<1>2. CASE D!NewAhead
  <2>1. GivenTyped'
    BY <1>g, <1>2, BlockNumbers, NextIsBlock, ReadsOn
       DEF D!NewAhead, D!params, D!group, D!answer, GivenTyped, D!Block
  <2>2. InOrder'
    BY <1>g, <1>2 DEF D!NewAhead, D!params, D!group, D!answer, InOrder
  <2>3. AtStart' /\ SerialKeepsStep' /\ BatchKeepsStep' /\ ReaderKeepsStep' /\ OkIsAll'
    BY <1>g, <1>2, BlockNumbers, NextIsBlock, ReadsOn
       DEF D!NewAhead, D!params, D!group, D!answer, GivenTyped,
           AtStart, SerialKeepsStep, BatchKeepsStep, ReaderKeepsStep, OkIsAll, OpenedSoFar
  <2>4. D!BuffersBounded'
    BY <1>g, <1>2, BlockNumbers, ReadsOn
       DEF D!NewAhead, D!params, D!group, D!answer, GivenTyped,
           AtStart, SerialKeepsStep, BatchKeepsStep, ReaderKeepsStep, D!BuffersBounded,
           OpenedSoFar
  <2> QED BY <2>1, <2>2, <2>3, <2>4 DEF OpenInv
<1>3. CASE D!Drain
  <2>1. /\ pc \in {"reader", "done"} /\ plain # D!NoBlock /\ api = "reader" /\ plain = Len(out) + 1
        /\ plain \in 1 .. n /\ out' = Append(out, plain) /\ plain' = D!NoBlock /\ result' = "none"
        /\ UNCHANGED <<D!params, D!input, pc, cur, nxt, counter, D!group, faulted, retries>>
    BY <1>g, <1>3, BlockNumbers DEF D!Drain, ReaderKeepsStep, GivenTyped, D!NoBlock
  <2>2. out' \in Seq(1 .. n) /\ Len(out') = Len(out) + 1 /\ Len(out') \in Nat /\ InOrder'
    BY <1>g, <2>1, HandsOut DEF D!params
  <2>3. GivenTyped'
    BY <1>g, <2>1, <2>2, BlockNumbers DEF GivenTyped, D!Block, D!NoBlock, D!params, D!input,
                                          D!group
  <2>4. AtStart' /\ SerialKeepsStep' /\ BatchKeepsStep' /\ ReaderKeepsStep' /\ OkIsAll'
    <3>1. OpenedSoFar' = OpenedSoFar
      BY <1>g, <2>1, <2>2 DEF OpenedSoFar, GivenTyped
    <3> QED BY <1>g, <2>1, <2>2, <3>1
            DEF AtStart, SerialKeepsStep, BatchKeepsStep, ReaderKeepsStep, OkIsAll, D!params,
                D!input
  <2>5. D!BuffersBounded'
    BY <1>g, <2>1, <2>2, BlockNumbers DEF D!BuffersBounded, D!params, D!input, GivenTyped
  <2> QED BY <2>2, <2>3, <2>4, <2>5 DEF OpenInv
<1>4. CASE D!EndOfText
  <2>1. GivenTyped'
    BY <1>g, <1>4, BlockNumbers
       DEF D!EndOfText, D!Return, D!params, D!input, D!current, D!group, GivenTyped, D!Block
  <2>2. InOrder'
    BY <1>g, <1>4 DEF D!EndOfText, D!Return, D!params, D!input, D!current, D!group, InOrder
  <2>3. AtStart' /\ SerialKeepsStep' /\ BatchKeepsStep' /\ ReaderKeepsStep' /\ OkIsAll'
    BY <1>g, <1>4, BlockNumbers
       DEF D!EndOfText, D!Return, D!params, D!input, D!current, D!group, GivenTyped,
           AtStart, SerialKeepsStep, BatchKeepsStep, ReaderKeepsStep, OkIsAll, OpenedSoFar
  <2>4. D!BuffersBounded'
    BY <1>g, <1>4, BlockNumbers
       DEF D!EndOfText, D!Return, D!params, D!input, D!current, D!group, GivenTyped,
           AtStart, SerialKeepsStep, BatchKeepsStep, ReaderKeepsStep, D!BuffersBounded,
           OpenedSoFar
  <2> QED BY <2>1, <2>2, <2>3, <2>4 DEF OpenInv
<1>5. CASE D!ReadRefused
  <2>1. /\ pc = "reader" /\ UNCHANGED <<D!params, D!input, D!current, D!group, out, faulted>>
        /\ result' \in {"Truncated", "DecryptionFailure"}
        /\ \/ retries < MaxRetries /\ retries' = retries + 1 /\ pc' = pc
           \/ pc' = "returned" /\ retries' = retries
    BY <1>5, FailureIs DEF D!ReadRefused, D!Fails, D!GivesUp, D!Return
  <2>2. GivenTyped'
    <3>1. pc' \in {"reader", "returned"} /\ retries' \in 0 .. MaxRetries
      <4>1. retries \in 0 .. MaxRetries /\ MaxRetries \in Nat
        BY <1>g, BlockNumbers DEF GivenTyped
      <4> QED BY <2>1, <4>1
    <3>2. /\ UNCHANGED <<n, file, api, size, read, shifted, cur, nxt, counter, plain>>
          /\ UNCHANGED <<batch, taken, out, faulted>>
      BY <2>1 DEF D!params, D!input, D!current, D!group
    <3> QED BY <1>g, <2>1, <3>1, <3>2 DEF GivenTyped, D!Block
  <2>3. InOrder' /\ D!BuffersBounded'
    BY <1>g, <2>1 DEF InOrder, D!BuffersBounded, D!params, D!input
  <2>4. OpenedSoFar' = OpenedSoFar
    BY <2>1 DEF OpenedSoFar, D!current
  <2>5. AtStart' /\ SerialKeepsStep' /\ BatchKeepsStep' /\ ReaderKeepsStep' /\ OkIsAll'
    BY <1>g, <2>1, <2>4
       DEF AtStart, SerialKeepsStep, BatchKeepsStep, ReaderKeepsStep, OkIsAll, D!params,
           D!input, D!current
  <2> QED BY <2>2, <2>3, <2>5 DEF OpenInv
<1>6. CASE D!ReadPiece
  <2>1. /\ pc = "reader" /\ plain = D!NoBlock /\ api = "reader" /\ cur \in D!Block
           /\ nxt \in D!Block
        /\ D!Authenticates(cur, counter, nxt = D!NoBlock) /\ read <= counter + 2
        /\ counter \in Nat /\ counter <= MaxCounter /\ Len(out) \in Nat /\ MaxCounter \in Nat
        /\ read \in 0 .. Len(file)
        /\ result' = "none" /\ UNCHANGED <<D!params, D!group, faulted, retries>>
    BY <1>g, <1>6, BlockNumbers DEF D!ReadPiece, ReaderKeepsStep, GivenTyped
  <2>2. cur = counter + 1 /\ cur \in 1 .. n /\ (nxt = D!NoBlock <=> cur = n) /\ cur # D!NoBlock
    BY <1>g, <2>1, Opening
  <2>3. Len(out) = counter
    BY <1>g, <2>1, <2>2 DEF ReaderKeepsStep, OpenedSoFar, D!Bad
  <2>4. \/ plain' = cur /\ out' = out
        \/ out' = Append(out, cur) /\ plain' = D!NoBlock
    BY <1>6, <2>1 DEF D!ReadPiece
  <2>5. /\ out' \in Seq(1 .. n) /\ Len(out') \in Nat /\ InOrder' /\ OpenedSoFar' = counter + 1
        /\ plain' \in 0 .. n /\ (plain' # D!NoBlock => plain' = Len(out') + 1)
        /\ counter <= Len(out')
    <3>1. CASE plain' = cur /\ out' = out
      BY <1>g, <2>1, <2>2, <2>3, <3>1 DEF OpenedSoFar, InOrder, GivenTyped, D!params, D!NoBlock
    <3>2. CASE out' = Append(out, cur) /\ plain' = D!NoBlock
      <4>1. out' \in Seq(1 .. n) /\ Len(out') = Len(out) + 1 /\ Len(out') \in Nat /\ InOrder'
        BY <1>g, <2>1, <2>2, <2>3, <3>2, HandsOut DEF D!params
      <4> QED BY <1>g, <2>1, <2>2, <2>3, <3>2, <4>1, BlockNumbers DEF OpenedSoFar, D!NoBlock
    <3> QED BY <2>4, <3>1, <3>2
  <2>6. \/ nxt = D!NoBlock /\ pc' = "done" /\ UNCHANGED <<D!input, cur, nxt, counter>>
        \/ /\ nxt # D!NoBlock /\ counter < MaxCounter /\ counter' = counter + 1 /\ cur' = nxt
           /\ nxt' \in D!Block /\ pc' = "reader" /\ read' \in 0 .. Len(file) /\ read' <= read + 1
           /\ shifted' = shifted
    BY <1>g, <1>6, <2>1, NextIsBlock, ReadsOn DEF D!ReadPiece
  <2>7. GivenTyped'
    <3>1. /\ UNCHANGED <<n, file, api, size, batch, taken, faulted, retries>> /\ shifted' = shifted
          /\ pc' \in {"reader", "done"} /\ cur' \in D!Block /\ nxt' \in D!Block
             /\ read' \in 0 .. Len(file)
      BY <2>1, <2>6 DEF D!params, D!input, D!group
    <3>2. counter' \in 0 .. MaxCounter
      BY <2>1, <2>6
    <3> QED BY <1>g, <2>1, <2>5, <3>1, <3>2 DEF GivenTyped, D!Block
  <2>8. AtStart' /\ SerialKeepsStep' /\ BatchKeepsStep' /\ ReaderKeepsStep' /\ OkIsAll'
    BY <2>1, <2>2, <2>5, <2>6
       DEF AtStart, SerialKeepsStep, BatchKeepsStep, ReaderKeepsStep, OkIsAll, D!params, D!input
  <2>9. D!BuffersBounded'
    BY <2>1, <2>5, <2>6 DEF D!BuffersBounded, D!params, D!input
  <2> QED BY <2>5, <2>7, <2>8, <2>9 DEF OpenInv
<1>7. CASE D!CounterEnds
  <2>1. /\ pc = "reader" /\ plain = D!NoBlock /\ api = "reader" /\ cur \in D!Block
        /\ D!Authenticates(cur, counter, FALSE) /\ counter \in Nat /\ read <= counter + 2
        /\ Len(out) \in Nat /\ plain' = cur /\ cur' = D!Bad /\ result' = "overflow"
        /\ UNCHANGED <<D!params, D!input, nxt, counter, D!group, out, faulted>>
        /\ \/ retries < MaxRetries /\ retries' = retries + 1 /\ pc' = pc
           \/ pc' = "returned" /\ retries' = retries
    BY <1>g, <1>7, BlockNumbers DEF D!CounterEnds, D!Fails, D!GivesUp, D!Return,
                                    ReaderKeepsStep, GivenTyped
  <2>2. cur = counter + 1 /\ cur \in 1 .. n /\ cur # D!NoBlock
    BY <1>g, <2>1, Opening
  <2>3. Len(out) = counter
    BY <1>g, <2>1, <2>2 DEF ReaderKeepsStep, OpenedSoFar, D!Bad
  <2>4. GivenTyped'
    <3>1. pc' \in {"reader", "returned"} /\ retries' \in 0 .. MaxRetries
      <4>1. retries \in 0 .. MaxRetries /\ MaxRetries \in Nat
        BY <1>g, BlockNumbers DEF GivenTyped
      <4> QED BY <2>1, <4>1
    <3>2. UNCHANGED <<n, file, api, size, read, shifted, nxt, counter, batch, taken, out, faulted>>
      BY <2>1 DEF D!params, D!input, D!group
    <3>3. plain' \in 0 .. n /\ cur' \in D!Block
      BY <1>g, <2>1, <2>2, BlockNumbers DEF D!Block
    <3> QED BY <1>g, <2>1, <3>1, <3>2, <3>3 DEF GivenTyped, D!Block
  <2>5. InOrder' /\ D!BuffersBounded'
    BY <1>g, <2>1 DEF InOrder, D!BuffersBounded, D!params, D!input
  <2>6. OpenedSoFar' = counter + 1
    BY <2>1, <2>2, <2>3 DEF OpenedSoFar
  <2>7. AtStart' /\ SerialKeepsStep' /\ BatchKeepsStep' /\ ReaderKeepsStep' /\ OkIsAll'
    BY <2>1, <2>2, <2>3, <2>6
       DEF AtStart, SerialKeepsStep, BatchKeepsStep, ReaderKeepsStep, OkIsAll, D!params, D!input
  <2> QED BY <2>4, <2>5, <2>7 DEF OpenInv
<1>8. CASE D!FillFails
  <2>1. /\ pc = "reader" /\ plain = D!NoBlock /\ api = "reader" /\ cur \in D!Block
           /\ nxt \in D!Block
        /\ D!Authenticates(cur, counter, nxt = D!NoBlock) /\ nxt # D!NoBlock
        /\ counter \in Nat /\ counter < MaxCounter /\ read <= counter + 2 /\ read \in Nat
        /\ Len(out) \in Nat
    BY <1>g, <1>8, BlockNumbers DEF D!FillFails, ReaderKeepsStep, GivenTyped
  <2>2. /\ UNCHANGED <<n, file, api, size>> /\ UNCHANGED <<read, batch, taken, out>>
        /\ plain' = cur /\ counter' = counter + 1 /\ cur' = nxt /\ nxt' \in {D!Stub, D!Bad}
        /\ shifted' \in BOOLEAN /\ result' = "Io" /\ faulted' = TRUE
        /\ \/ retries < MaxRetries /\ retries' = retries + 1 /\ pc' = pc
           \/ pc' = "returned" /\ retries' = retries
    BY <1>8 DEF D!FillFails, D!Fails, D!GivesUp, D!Return, D!params, D!group
  <2>3. cur = counter + 1 /\ cur \in 1 .. n /\ cur # D!NoBlock
    BY <1>g, <2>1, Opening
  <2>4. Len(out) = counter
    BY <1>g, <2>1, <2>3 DEF ReaderKeepsStep, OpenedSoFar, D!Bad
  <2>5. GivenTyped'
    <3>1. pc' \in {"reader", "returned"} /\ retries' \in 0 .. MaxRetries
      <4>1. retries \in 0 .. MaxRetries /\ MaxRetries \in Nat
        BY <1>g, BlockNumbers DEF GivenTyped
      <4> QED BY <2>1, <2>2, <4>1
    <3>2. plain' \in 0 .. n /\ cur' \in D!Block /\ nxt' \in D!Block
      BY <1>g, <2>1, <2>2, <2>3, BlockNumbers DEF D!Block
    <3>3. counter' \in 0 .. MaxCounter /\ (shifted' => api = "reader")
      BY <2>1, <2>2, <1>g, BlockNumbers
    <3> QED BY <1>g, <2>2, <3>1, <3>2, <3>3 DEF GivenTyped, D!Block
  <2>6. InOrder' /\ D!BuffersBounded'
    BY <1>g, <2>2 DEF InOrder, D!BuffersBounded
  <2>7. OpenedSoFar' = counter + 1
    BY <2>2, <2>3, <2>4 DEF OpenedSoFar
  <2>8. AtStart' /\ SerialKeepsStep' /\ BatchKeepsStep' /\ ReaderKeepsStep' /\ OkIsAll'
    BY <2>1, <2>2, <2>3, <2>4, <2>7
       DEF AtStart, SerialKeepsStep, BatchKeepsStep, ReaderKeepsStep, OkIsAll
  <2> QED BY <2>5, <2>6, <2>8 DEF OpenInv
<1> QED BY <1>1, <1>2, <1>3, <1>4, <1>5, <1>6, <1>7, <1>8

LEMMA FailStep ==
  ASSUME DecryptAssumption, OpenInv, D!ReadFailure \/ D!WriteFailure PROVE OpenInv'
<1>g. GivenTyped /\ InOrder /\ AtStart /\ SerialKeepsStep /\ BatchKeepsStep /\ ReaderKeepsStep
      /\ OkIsAll /\ D!BuffersBounded
  BY DEF OpenInv
<1>1. CASE D!ReadFailure
  <2>1. GivenTyped'
    BY <1>g, <1>1, BlockNumbers
       DEF D!ReadFailure, D!Return, D!params, D!input, D!current, D!group, GivenTyped, D!Block
  <2>2. InOrder'
    BY <1>g, <1>1 DEF D!ReadFailure, D!Return, D!params, D!input, D!current, D!group, InOrder
  <2>3. AtStart' /\ SerialKeepsStep' /\ BatchKeepsStep' /\ ReaderKeepsStep' /\ OkIsAll'
    BY <1>g, <1>1, BlockNumbers
       DEF D!ReadFailure, D!Return, D!params, D!input, D!current, D!group, GivenTyped,
           AtStart, SerialKeepsStep, BatchKeepsStep, ReaderKeepsStep, OkIsAll, OpenedSoFar
  <2>4. D!BuffersBounded'
    BY <1>g, <1>1, BlockNumbers
       DEF D!ReadFailure, D!Return, D!params, D!input, D!current, D!group, GivenTyped,
           AtStart, SerialKeepsStep, BatchKeepsStep, ReaderKeepsStep, D!BuffersBounded,
           OpenedSoFar
  <2> QED BY <2>1, <2>2, <2>3, <2>4 DEF OpenInv
<1>2. CASE D!WriteFailure
  <2>1. GivenTyped'
    BY <1>g, <1>2, BlockNumbers
       DEF D!WriteFailure, D!Return, D!params, D!input, D!current, D!group, GivenTyped, D!Block
  <2>2. InOrder'
    BY <1>g, <1>2 DEF D!WriteFailure, D!Return, D!params, D!input, D!current, D!group, InOrder
  <2>3. AtStart' /\ SerialKeepsStep' /\ BatchKeepsStep' /\ ReaderKeepsStep' /\ OkIsAll'
    BY <1>g, <1>2, BlockNumbers
       DEF D!WriteFailure, D!Return, D!params, D!input, D!current, D!group, GivenTyped,
           AtStart, SerialKeepsStep, BatchKeepsStep, ReaderKeepsStep, OkIsAll, OpenedSoFar
  <2>4. D!BuffersBounded'
    BY <1>g, <1>2, BlockNumbers
       DEF D!WriteFailure, D!Return, D!params, D!input, D!current, D!group, GivenTyped,
           AtStart, SerialKeepsStep, BatchKeepsStep, ReaderKeepsStep, D!BuffersBounded,
           OpenedSoFar
  <2> QED BY <2>1, <2>2, <2>3, <2>4 DEF OpenInv
<1> QED BY <1>1, <1>2

LEMMA InitOpen == ASSUME DecryptAssumption, D!Init PROVE OpenInv /\ VerdictInv
<1>1. /\ n \in Lengths /\ n \in Nat \ {0} /\ file \in Ciphertexts /\ \A i \in 1 .. Len(file) : file[i] <= n
      /\ Len(file) \in Nat /\ MaxCounter \in Nat /\ MaxRetries \in Nat
  <2>1. file \in Ciphertexts /\ file \in Seq({D!Bad, D!Stub} \cup 1 .. MaxCounter + 1)
    BY DEF DecryptAssumption, D!Init
  <2>2. Len(file) \in Nat
    BY <2>1, LenProperties
  <2> QED BY <2>1, <2>2 DEF DecryptAssumption, D!Init
<1>2. /\ api \in {"serial", "parallel", "reader"} /\ size \in BatchSizes \cup {1}
      /\ size \in Nat \ {0} /\ (api # "parallel" => size = 1)
  <2>1. (api \in {"serial", "reader"} /\ size = 1) \/ (api = "parallel" /\ size \in BatchSizes)
    BY DEF D!Init
  <2>2. BatchSizes \subseteq Nat \ {0}
    BY DEF DecryptAssumption
  <2>3. CASE api \in {"serial", "reader"} /\ size = 1
    BY <2>3
  <2>4. CASE api = "parallel" /\ size \in BatchSizes
    BY <2>2, <2>4
  <2> QED BY <2>1, <2>3, <2>4
<1>3. /\ read = 0 /\ shifted = FALSE /\ pc = "first" /\ cur = D!NoBlock /\ nxt = D!NoBlock
         /\ counter = 0
      /\ plain = D!NoBlock /\ batch = <<>> /\ taken = 0 /\ out = <<>> /\ result = "none"
      /\ faulted = FALSE /\ retries = 0
  BY DEF D!Init
<1>4. batch \in Seq(D!Block) /\ Len(batch) = 0 /\ out \in Seq(1 .. n) /\ Len(out) = 0
  BY <1>3
<1>5. GivenTyped
  <2>1. /\ read \in 0 .. Len(file) /\ plain \in 0 .. n /\ counter \in 0 .. MaxCounter
        /\ taken \in 0 .. size /\ Len(batch) <= size /\ retries \in 0 .. MaxRetries
        /\ Len(out) \in Nat
    BY <1>1, <1>2, <1>3, <1>4 DEF D!NoBlock
  <2>2. cur \in D!Block /\ nxt \in D!Block /\ shifted = FALSE /\ faulted = FALSE
    BY <1>3 DEF D!Block
  <2> QED BY <1>1, <1>2, <1>3, <1>4, <2>1, <2>2 DEF GivenTyped
<1>6. InOrder /\ AtStart /\ SerialKeepsStep /\ BatchKeepsStep /\ ReaderKeepsStep /\ OkIsAll
  BY <1>3, <1>4 DEF InOrder, AtStart, SerialKeepsStep, BatchKeepsStep, ReaderKeepsStep, OkIsAll
<1>7. D!BuffersBounded
  BY <1>2, <1>3, <1>4 DEF D!BuffersBounded
<1>8. VerdictInv
  BY <1>3 DEF VerdictInv, CurrentIsNext, BatchIsNext, DoneIsWhole, D!SameVerdict
<1> QED BY <1>5, <1>6, <1>7, <1>8 DEF OpenInv

LEMMA OpenStep == ASSUME DecryptAssumption, OpenInv, [D!Next]_(D!vars) PROVE OpenInv'
<1>1. CASE UNCHANGED D!vars
  <2>1. UNCHANGED <<n, file, api, size, read, shifted, pc, cur, nxt, counter, plain>>
        /\ UNCHANGED <<batch, taken, out, result, faulted, retries>>
    BY <1>1 DEF D!vars, D!params, D!input, D!current, D!group, D!answer
  <2>2. GivenTyped'
    BY <2>1 DEF OpenInv, GivenTyped, D!Block
  <2>3. InOrder' /\ D!BuffersBounded' /\ AtStart' /\ OkIsAll'
    BY <2>1 DEF OpenInv, InOrder, D!BuffersBounded, AtStart, OkIsAll
  <2>4. SerialKeepsStep' /\ BatchKeepsStep' /\ ReaderKeepsStep'
    BY <2>1 DEF OpenInv, SerialKeepsStep, BatchKeepsStep, ReaderKeepsStep, OpenedSoFar
  <2> QED BY <2>2, <2>3, <2>4 DEF OpenInv
<1> QED BY <1>1, SerialOpenStep, ParallelStep, ReaderStep, FailStep DEF D!Next

LEMMA OpenInvariant == ASSUME DecryptAssumption PROVE D!Spec => []OpenInv
BY InitOpen, OpenStep, PTL DEF D!Spec

-----------------------------------------------------------------------------
(* The types, the bound and the refinement. *)

\* Every variable of a decryption call stays in its type, and no more than a batch
\* or a reader's three blocks are held, however long the file.
THEOREM DecryptHolds ==
  ASSUME DecryptAssumption
  PROVE  D!Spec => [](D!TypeOK /\ D!BuffersBounded)
<1>1. OpenInv => D!TypeOK /\ D!BuffersBounded
  BY DEF OpenInv, GivenTyped, D!TypeOK
<1> QED BY <1>1, OpenInvariant, PTL

\* Handing out one more piece, or none and speaking, is a step of OpenedText.
LEMMA TextStep ==
  ASSUME DecryptAssumption, OpenInv, OpenInv', n' = n, pc # "returned",
         out' = out \/ \E x : out' = Append(out, x)
  PROVE  Plaintext!Deliver \/ Plaintext!Say
<1>1. /\ result # "ok" /\ (result' = "ok" => Len(out') = n)
      /\ Len(out) \in Nat /\ out \in Seq(1 .. n) /\ out' \in Seq(1 .. n) /\ n \in Nat
      /\ \A i \in 1 .. Len(out') : out'[i] = i
  BY BlockNumbers DEF OpenInv, OkIsAll, GivenTyped, InOrder
<1>2. CASE out' = out
  BY <1>1, <1>2 DEF Plaintext!Say
<1>3. ASSUME NEW x, out' = Append(out, x) PROVE Plaintext!Deliver
  <2>1. Len(out') = Len(out) + 1 /\ out'[Len(out) + 1] = x
    BY <1>1, <1>3, AppendProperties
  <2>2. x = Len(out) + 1 /\ x \in 1 .. n
    BY <1>1, <2>1, ElementOfSeq
  <2> QED BY <1>1, <1>3, <2>2 DEF Plaintext!Deliver
<1> QED BY <1>2, <1>3

\* The look-ahead of the serial decryptor, the batches of the parallel one and the
\* reads of a PqfReader's caller, who may go on after any error, are one text handed
\* out in order, whose end nobody says before it is reached.
THEOREM DecryptImplements == ASSUME DecryptAssumption PROVE D!Spec => Plaintext!Spec
<1>1. D!Init => Plaintext!Init
  BY DEF D!Init, Plaintext!Init, DecryptAssumption
<1>2. OpenInv /\ OpenInv' /\ [D!Next]_(D!vars)
          => [Plaintext!Deliver \/ Plaintext!Say]_<<n, out, result>>
  <2> SUFFICES ASSUME OpenInv, OpenInv', [D!Next]_(D!vars)
               PROVE  [Plaintext!Deliver \/ Plaintext!Say]_<<n, out, result>>
    OBVIOUS
  <2>1. CASE UNCHANGED D!vars
    BY <2>1 DEF D!vars, D!params, D!answer
  <2>2. CASE n' = n /\ pc # "returned" /\ (out' = out \/ \E x : out' = Append(out, x))
    BY <2>2, TextStep
  <2>3. CASE D!ReadFirst \/ D!ReadAhead \/ D!OpenCurrent
    BY <2>2, <2>3 DEF D!ReadFirst, D!ReadAhead, D!OpenCurrent, D!params, D!answer
  <2>4. CASE D!Prime \/ D!Gather \/ D!Peek \/ D!WriteNext \/ D!NextBatch
    BY <2>2, <2>4 DEF D!Prime, D!Gather, D!Peek, D!WriteNext, D!NextBatch, D!params, D!answer
  <2>5. CASE D!NewFirst \/ D!NewAhead \/ D!Drain \/ D!EndOfText
    BY <2>2, <2>5 DEF D!NewFirst, D!NewAhead, D!Drain, D!EndOfText, D!params, D!answer
  <2>6. CASE D!ReadRefused \/ D!ReadPiece \/ D!CounterEnds \/ D!FillFails
    BY <2>2, <2>6 DEF D!ReadRefused, D!ReadPiece, D!CounterEnds, D!FillFails, D!params
  <2>7. CASE D!ReadFailure \/ D!WriteFailure
    BY <2>2, <2>7 DEF D!ReadFailure, D!WriteFailure, D!params
  <2> QED BY <2>1, <2>3, <2>4, <2>5, <2>6, <2>7 DEF D!Next
<1> QED BY <1>1, <1>2, OpenInvariant, PTL DEF D!Spec, Plaintext!Spec

-----------------------------------------------------------------------------
(* What the file alone decides. *)

LEMMA GoodIs ==
  ASSUME NEW k \in 0 .. Len(file), Len(file) \in Nat, Good(k),
         k = Len(file) \/ ~D!Authenticates(file[k + 1], k, k + 1 = Len(file))
  PROVE  D!GoodBlocks = k
<1> DEFINE Is(j) == Good(j) /\ \A m \in j + 1 .. Len(file) : ~Good(m)
<1>1. Is(k)
  <2> SUFFICES ASSUME NEW m \in k + 1 .. Len(file), Good(m) PROVE FALSE
    OBVIOUS
  <2>1. k # Len(file) /\ k + 1 \in 1 .. m /\ k + 1 - 1 = k
    OBVIOUS
  <2>2. D!Authenticates(file[k + 1], k + 1 - 1, k + 1 = Len(file))
    BY <2>1 DEF Good
  <2> QED BY <2>1, <2>2
<1>2. ASSUME NEW j \in 0 .. Len(file), Is(j) PROVE j = k
  <2>1. ~(j < k)
    BY <1>2
  <2>2. ~(k < j)
    BY <1>1, <1>2
  <2> QED BY <2>1, <2>2
<1>3. D!GoodBlocks = CHOOSE j \in 0 .. Len(file) : Is(j)
  BY DEF D!GoodBlocks, Good
<1> HIDE DEF Is
<1> QED BY <1>1, <1>2, <1>3

\* The next block authenticates too.
LEMMA GoodOn ==
  ASSUME NEW k \in Nat, Len(file) \in Nat, k + 1 <= Len(file), Good(k),
         D!Authenticates(file[k + 1], k, k + 1 = Len(file))
  PROVE  Good(k + 1)
<1> SUFFICES ASSUME NEW i \in 1 .. k + 1
             PROVE  D!Authenticates(file[i], i - 1, i = Len(file))
  BY DEF Good
<1>1. CASE i = k + 1
  <2>1. i - 1 = k
    BY <1>1
  <2> QED BY <1>1, <2>1
<1>2. CASE i # k + 1
  <2>1. i \in 1 .. k
    BY <1>2
  <2> QED BY <2>1 DEF Good
<1> QED BY <1>1, <1>2

\* The next does not: the file's verdict is what the decryptor says.
LEMMA RefusedAt ==
  ASSUME DecryptAssumption, GivenTyped, NEW k \in Nat, k + 1 <= Len(file), Good(k),
         ~D!Authenticates(file[k + 1], k, k + 1 = Len(file))
  PROVE  D!GoodBlocks = k /\ D!Failure(file[k + 1], k, k + 1 = Len(file)) = D!Verdict
<1>1. D!GoodBlocks = k
  BY BlockNumbers, GoodIs
<1>2. D!Failure(file[k + 1], k, k + 1 = Len(file)) = D!Verdict
  <2>1. ~(D!GoodBlocks = n /\ Len(file) = n)
    BY <1>1, BlockNumbers
  <2>2. CASE k + 1 = Len(file)
    BY <1>1, <2>1, <2>2, BlockNumbers DEF D!Failure, D!Verdict
  <2>3. CASE k + 1 # Len(file)
    BY <1>1, <2>1, <2>3, BlockNumbers DEF D!Failure, D!Verdict
  <2> QED BY <2>2, <2>3
<1> QED BY <1>1, <1>2

LEMMA WholeFile ==
  ASSUME DecryptAssumption, GivenTyped, Good(n), Len(file) = n
  PROVE  D!GoodBlocks = n /\ D!Verdict = "ok"
<1>1. D!GoodBlocks = n
  BY BlockNumbers, GoodIs
<1> QED BY <1>1 DEF D!Verdict

\* The last block of a file authenticates only as the last piece of the text.
LEMMA LastIsLast ==
  ASSUME DecryptAssumption, GivenTyped, NEW k \in Nat, k = Len(file), k > 0, Good(k)
  PROVE  k = n
<1>1. D!Authenticates(file[k], k - 1, TRUE)
  <2>1. k \in 1 .. k
    OBVIOUS
  <2> QED BY <2>1 DEF Good
<1> QED BY <1>1 DEF D!Authenticates

\* No file holds more good blocks than there are counters.
LEMMA CounterSpent ==
  ASSUME DecryptAssumption, GivenTyped, NEW k \in Nat, k <= Len(file), Good(k), k > MaxCounter
  PROVE  k = MaxCounter + 1 /\ D!GoodBlocks = k
<1>1. k \in 1 .. Len(file) /\ file[k] <= MaxCounter + 1 /\ file[k] \in Int
  BY BlockNumbers
<1>2. file[k] = k
  <2>1. k \in 1 .. k
    BY <1>1
  <2>2. D!Authenticates(file[k], k - 1, k = Len(file))
    BY <2>1 DEF Good
  <2> QED BY <2>2 DEF D!Authenticates
<1>3. k = MaxCounter + 1
  BY <1>1, <1>2, BlockNumbers
<1>4. k # Len(file) => ~D!Authenticates(file[k + 1], k, k + 1 = Len(file))
  <2> SUFFICES ASSUME k # Len(file), D!Authenticates(file[k + 1], k, k + 1 = Len(file))
               PROVE  FALSE
    OBVIOUS
  <2>1. k + 1 \in 1 .. Len(file)
    BY BlockNumbers
  <2>2. file[k + 1] <= MaxCounter + 1 /\ file[k + 1] = k + 1
    BY <2>1, BlockNumbers DEF D!Authenticates
  <2> QED BY <1>3, <2>2, BlockNumbers
<1>5. k \in 0 .. Len(file)
  BY <1>1
<1> QED BY <1>3, <1>4, <1>5, BlockNumbers, GoodIs

LEMMA SameFile ==
  ASSUME UNCHANGED <<n, file>>
  PROVE  /\ D!GoodBlocks' = D!GoodBlocks /\ D!Verdict' = D!Verdict
         /\ \A k : Good(k)' <=> Good(k)
         /\ \A k : BlockAt(k)' = BlockAt(k) /\ ReadTo(k)' = ReadTo(k)
<1>1. D!GoodBlocks' = D!GoodBlocks
  BY DEF D!GoodBlocks, D!Authenticates
<1>2. D!Verdict' = D!Verdict
  BY <1>1 DEF D!Verdict
<1>3. \A k : Good(k)' <=> Good(k)
  BY DEF Good, D!Authenticates
<1>4. \A k : BlockAt(k)' = BlockAt(k) /\ ReadTo(k)' = ReadTo(k)
  BY DEF BlockAt, ReadTo
<1> QED BY <1>1, <1>2, <1>3, <1>4

\* Pieces in order, with the one whose reader has not asked for it yet.
LEMMA PiecesInOrder ==
  ASSUME NEW m \in Nat, NEW o \in Seq(1 .. m), \A i \in 1 .. Len(o) : o[i] = i,
         NEW p \in 0 .. m, p # D!NoBlock => p = Len(o) + 1,
         NEW k \in Nat, k = Len(o) + (IF p = D!NoBlock THEN 0 ELSE 1)
  PROVE  /\ (IF p = D!NoBlock THEN o ELSE Append(o, p)) = [i \in 1 .. k |-> i]
         /\ Len(IF p = D!NoBlock THEN o ELSE Append(o, p)) = k
<1>1. o = [i \in 1 .. Len(o) |-> o[i]] /\ Len(o) \in Nat
  BY LenProperties
<1>2. CASE p = D!NoBlock
  BY <1>1, <1>2
<1>3. CASE p # D!NoBlock
  <2>1. p \in 1 .. m
    BY <1>1, <1>3
  <2> DEFINE s == Append(o, p)
  <2>2. /\ s \in Seq(1 .. m) /\ Len(s) = Len(o) + 1 /\ s[Len(o) + 1] = p
        /\ \A i \in 1 .. Len(o) : s[i] = o[i]
    BY <2>1, AppendProperties
  <2> HIDE DEF s
  <2>3. s = [i \in 1 .. Len(s) |-> s[i]]
    BY <2>2, LenProperties
  <2>4. \A i \in 1 .. Len(o) + 1 : s[i] = i
    <3> TAKE i \in 1 .. Len(o) + 1
    <3>1. CASE i = Len(o) + 1
      BY <1>3, <2>2, <3>1
    <3>2. CASE i # Len(o) + 1
      <4>1. i \in 1 .. Len(o)
        BY <1>1, <3>2
      <4>2. o[i] = i /\ s[i] = o[i]
        BY <2>2, <4>1
      <4> QED BY <4>2
    <3> QED BY <3>1, <3>2
  <2>5. s = [i \in 1 .. Len(o) + 1 |-> i]
    BY <2>2, <2>3, <2>4
  <2>6. k = Len(o) + 1
    BY <1>3
  <2>7. s = [i \in 1 .. k |-> i] /\ Len(s) = k
    BY <2>2, <2>5, <2>6
  <2> QED BY <1>3, <2>7 DEF s
<1> QED BY <1>2, <1>3

-----------------------------------------------------------------------------
(* What the calls hold is what the file holds. *)

\* What is read next is the file's next block.
LEMMA NextIs ==
  ASSUME DecryptAssumption, GivenTyped, ~shifted, NEW k \in Nat, read = ReadTo(k), D!ReadOne,
         NEW b \in D!NextBlock
  PROVE  b = BlockAt(k + 1) /\ read' = ReadTo(k + 1) /\ ~shifted'
<1>1. Len(file) \in Nat /\ ~shifted'
  BY BlockNumbers DEF D!ReadOne
<1>2. CASE k >= Len(file)
  BY <1>1, <1>2 DEF D!NextBlock, D!ReadOne, ReadTo, BlockAt
<1>3. CASE ~(k >= Len(file))
  BY <1>1, <1>3 DEF D!NextBlock, D!ReadOne, ReadTo, BlockAt
<1> QED BY <1>1, <1>2, <1>3

LEMMA NoneLeft ==
  ASSUME DecryptAssumption, GivenTyped, NEW k \in Nat \ {0}
  PROVE  BlockAt(k) = D!NoBlock <=> k > Len(file)
BY BlockNumbers DEF BlockAt

\* The current block is the file's next, and the last if none follows.
LEMMA AtCurrent ==
  ASSUME DecryptAssumption, GivenTyped, NEW k \in Nat, k + 1 <= Len(file), NEW b, b = file[k + 1],
         NEW last \in BOOLEAN, last <=> k + 1 = Len(file)
  PROVE  /\ D!Authenticates(b, k, last) <=> D!Authenticates(file[k + 1], k, k + 1 = Len(file))
         /\ D!Failure(b, k, last) = D!Failure(file[k + 1], k, k + 1 = Len(file))
BY DEF D!Authenticates, D!Failure

\* A call that ends with the file's verdict, or for want of a counter.
LEMMA EndsWell ==
  ASSUME DecryptAssumption, OpenInv, OpenInv', UNCHANGED <<n, file, api, shifted>>, ~shifted,
         pc' = "returned", plain' # D!NoBlock => plain' = Len(out') + 1,
         D!GoodBlocks \in Nat, OpenedSoFar' = D!GoodBlocks,
         \/ result' = D!Verdict
         \/ /\ D!GoodBlocks = MaxCounter + 1 /\ result' # "ok"
            /\ api = "parallel" \/ Len(file) > MaxCounter + 1
  PROVE  VerdictInv'
<1>1. /\ n' \in Nat /\ out' \in Seq(1 .. n') /\ \A i \in 1 .. Len(out') : out'[i] = i
      /\ plain' \in 0 .. n'
  BY BlockNumbers DEF OpenInv, GivenTyped, InOrder
<1>2. OpenedSoFar' = Len(out') + (IF plain' = D!NoBlock THEN 0 ELSE 1)
  BY DEF OpenedSoFar, D!NoBlock
<1>3. D!OpenedPieces' = IF plain' = D!NoBlock THEN out' ELSE Append(out', plain')
  BY DEF D!OpenedPieces, D!NoBlock
<1>4. D!OpenedPieces' = [i \in 1 .. D!GoodBlocks |-> i] /\ Len(D!OpenedPieces') = D!GoodBlocks
  BY <1>1, <1>2, <1>3, PiecesInOrder
<1>5. D!GoodBlocks' = D!GoodBlocks /\ D!Verdict' = D!Verdict
  BY SameFile
<1>6. result' = D!Verdict' \/ D!CounterEnded'
  BY <1>4, <1>5 DEF D!CounterEnded
<1>7. D!SameVerdict'
  BY <1>4, <1>5, <1>6 DEF D!SameVerdict
<1> QED BY <1>7 DEF VerdictInv, CurrentIsNext, BatchIsNext, DoneIsWhole

\* Nothing follows the current block exactly if it is the file's last.
LEMMA CurrentLast ==
  ASSUME DecryptAssumption, GivenTyped, CurrentIsNext, pc \in {"open", "reader"}
  PROVE  /\ counter \in Nat /\ counter + 1 <= Len(file) /\ cur = file[counter + 1] /\ Good(counter)
         /\ nxt = BlockAt(counter + 2) /\ read = ReadTo(counter + 2)
         /\ nxt = D!NoBlock <=> counter + 1 = Len(file)
         /\ D!Authenticates(cur, counter, nxt = D!NoBlock)
              <=> D!Authenticates(file[counter + 1], counter, counter + 1 = Len(file))
         /\ D!Failure(cur, counter, nxt = D!NoBlock)
              = D!Failure(file[counter + 1], counter, counter + 1 = Len(file))
<1>1. /\ counter + 1 <= Len(file) /\ cur = file[counter + 1] /\ Good(counter)
      /\ nxt = BlockAt(counter + 2) /\ read = ReadTo(counter + 2) /\ counter \in Nat
  BY BlockNumbers DEF CurrentIsNext
<1>2. nxt = D!NoBlock <=> counter + 1 = Len(file)
  BY <1>1, NoneLeft, BlockNumbers
<1>3. PICK last \in BOOLEAN : last <=> nxt = D!NoBlock
  OBVIOUS
<1>4. /\ D!Authenticates(cur, counter, nxt = D!NoBlock) <=> D!Authenticates(cur, counter, last)
      /\ D!Failure(cur, counter, nxt = D!NoBlock) = D!Failure(cur, counter, last)
  BY <1>3 DEF D!Authenticates, D!Failure
<1> QED BY <1>1, <1>2, <1>3, <1>4, AtCurrent

\* The current block is good: so is one more of the file.
LEMMA CurrentGood ==
  ASSUME DecryptAssumption, GivenTyped, CurrentIsNext, pc \in {"open", "reader"},
         D!Authenticates(cur, counter, nxt = D!NoBlock)
  PROVE  /\ Good(counter + 1) /\ counter + 1 \in Nat
         /\ nxt = D!NoBlock => counter + 1 = n /\ Len(file) = n /\ Good(n)
                             /\ D!GoodBlocks = n /\ D!Verdict = "ok"
         /\ counter = MaxCounter => D!GoodBlocks = counter + 1
<1>1. Good(counter + 1) /\ counter + 1 \in Nat /\ counter + 1 <= Len(file)
  BY CurrentLast, GoodOn, BlockNumbers
<1>2. ASSUME nxt = D!NoBlock
      PROVE  counter + 1 = n /\ Len(file) = n /\ Good(n) /\ D!GoodBlocks = n /\ D!Verdict = "ok"
  <2>1. counter + 1 = Len(file)
    BY <1>2, CurrentLast
  <2>2. counter + 1 = n
    <3>1. counter + 1 > 0
      BY CurrentLast
    <3> QED BY <1>1, <2>1, <3>1, LastIsLast
  <2> QED BY <1>1, <2>1, <2>2, WholeFile
<1>3. ASSUME counter = MaxCounter PROVE D!GoodBlocks = counter + 1
  BY <1>1, <1>3, CounterSpent, BlockNumbers
<1> QED BY <1>1, <1>2, <1>3

\* The next read of a serial decryptor or a reader.
LEMMA ReadsCurrent ==
  ASSUME DecryptAssumption, OpenInv, ~shifted, AtStart, pc = "first", D!ReadOne,
         NEW b \in D!NextBlock
  PROVE  /\ ~shifted' /\ Good(0)
         /\ b = D!NoBlock => Len(file) = 0 /\ D!GoodBlocks = 0 /\ D!Verdict = "DecryptionFailure"
         /\ b # D!NoBlock => 1 <= Len(file) /\ b = file[1] /\ read' = 1
<1>1. GivenTyped /\ read = ReadTo(0) /\ Good(0)
  BY BlockNumbers DEF OpenInv, AtStart, ReadTo, Good
<1>2. b = BlockAt(0 + 1) /\ read' = ReadTo(0 + 1) /\ ~shifted'
  BY <1>1, NextIs
<1>3. b = D!NoBlock <=> 1 > Len(file)
  BY <1>1, <1>2, NoneLeft
<1>4. CASE b = D!NoBlock
  <2>1. Len(file) = 0 /\ 0 \in 0 .. Len(file) /\ Len(file) \in Nat
    BY <1>1, <1>3, <1>4, BlockNumbers
  <2>2. D!GoodBlocks = 0
    BY <1>1, <2>1, GoodIs
  <2>3. D!Verdict = "DecryptionFailure"
    BY <1>1, <2>1, <2>2, BlockNumbers DEF D!Verdict
  <2> QED BY <1>1, <1>2, <1>4, <2>1, <2>2, <2>3
<1>5. CASE b # D!NoBlock
  BY <1>1, <1>2, <1>3, <1>5, BlockNumbers DEF BlockAt, ReadTo
<1> QED BY <1>4, <1>5

LEMMA SerialVerdict ==
  ASSUME DecryptAssumption, OpenInv, OpenInv', VerdictInv,
         D!ReadFirst \/ D!ReadAhead \/ D!OpenCurrent
  PROVE  VerdictInv'
<1> SUFFICES ASSUME ~faulted, retries = 0 PROVE VerdictInv'
  BY DEF VerdictInv, D!ReadFirst, D!ReadAhead, D!OpenCurrent, D!answer
<1>g. GivenTyped /\ InOrder /\ AtStart /\ SerialKeepsStep /\ ~shifted /\ CurrentIsNext
      /\ BatchIsNext
  BY DEF OpenInv, VerdictInv
<1>1. CASE D!ReadFirst
  <2>1. PICK b \in D!NextBlock :
          IF b = D!NoBlock THEN pc' = "returned" /\ result' = "DecryptionFailure" /\ cur' = cur
          ELSE cur' = b /\ pc' = "ahead" /\ result' = result
    BY <1>1 DEF D!ReadFirst, D!Return
  <2>2. /\ pc = "first" /\ D!ReadOne /\ counter' = counter /\ plain' = plain /\ out' = out
        /\ UNCHANGED <<n, file, api, shifted>> /\ counter = 0 /\ plain = D!NoBlock /\ Len(out) = 0
    BY <1>g, <1>1 DEF D!ReadFirst, D!params, AtStart, D!ReadOne
  <2>3. /\ ~shifted' /\ Good(0)
        /\ b = D!NoBlock => Len(file) = 0 /\ D!GoodBlocks = 0 /\ D!Verdict = "DecryptionFailure"
        /\ b # D!NoBlock => 1 <= Len(file) /\ b = file[1] /\ read' = 1
    BY <1>g, <2>2, ReadsCurrent
  <2>4. CASE b = D!NoBlock
    <3>1. OpenedSoFar' = D!GoodBlocks /\ D!GoodBlocks \in Nat
      BY <2>2, <2>3, <2>4 DEF OpenedSoFar
    <3> QED BY <1>g, <2>1, <2>2, <2>3, <2>4, <3>1, EndsWell
  <2>5. CASE b # D!NoBlock
    <3>1. Good(counter)'
      BY <2>2, <2>3, SameFile
    <3>2. CurrentIsNext'
      BY <2>1, <2>2, <2>3, <2>5, <3>1 DEF CurrentIsNext
    <3> QED BY <2>1, <2>3, <2>5, <3>2 DEF VerdictInv, BatchIsNext, DoneIsWhole, D!SameVerdict
  <2> QED BY <2>4, <2>5
<1>2. CASE D!ReadAhead
  <2>1. /\ pc = "ahead" /\ pc' = "open" /\ nxt' \in D!NextBlock /\ D!ReadOne
        /\ cur' = cur /\ counter' = counter /\ UNCHANGED <<n, file>> /\ counter \in Nat
    BY <1>g, <1>2, BlockNumbers DEF D!ReadAhead, D!params
  <2>2. counter + 1 <= Len(file) /\ cur = file[counter + 1] /\ Good(counter)
        /\ read = ReadTo(counter + 1)
    BY <1>g, <2>1, BlockNumbers DEF CurrentIsNext, ReadTo
  <2>3. nxt' = BlockAt(counter + 2) /\ read' = ReadTo(counter + 2) /\ ~shifted'
    <3>1. counter + 1 \in Nat /\ counter + 1 + 1 = counter + 2
      BY <2>1
    <3> QED BY <1>g, <2>1, <2>2, <3>1, NextIs
  <2>4. nxt' = BlockAt(counter + 2)' /\ read' = ReadTo(counter + 2)' /\ Good(counter)'
    BY <2>1, <2>2, <2>3, SameFile
  <2>5. CurrentIsNext'
    BY <2>1, <2>2, <2>4 DEF CurrentIsNext
  <2> QED BY <2>1, <2>3, <2>5 DEF VerdictInv, BatchIsNext, DoneIsWhole, D!SameVerdict
<1>3. CASE D!OpenCurrent
  <2>1. /\ pc = "open" /\ api = "serial" /\ UNCHANGED <<n, file, api, read, shifted, nxt, plain>>
        /\ plain = D!NoBlock /\ Len(out) = counter /\ counter \in Nat /\ Len(file) \in Nat
    BY <1>g, <1>3, BlockNumbers DEF D!OpenCurrent, SerialKeepsStep, D!params, D!input
  <2>2. CASE ~D!Authenticates(cur, counter, nxt = D!NoBlock)
    <3>1. out' = out /\ pc' = "returned" /\ result' = D!Failure(cur, counter, nxt = D!NoBlock)
      BY <1>3, <2>2 DEF D!OpenCurrent, D!Return
    <3>2. D!GoodBlocks = counter /\ result' = D!Verdict
      BY <1>g, <2>1, <2>2, <3>1, CurrentLast, RefusedAt
    <3>3. OpenedSoFar' = D!GoodBlocks
      BY <2>1, <3>1, <3>2 DEF OpenedSoFar
    <3> QED BY <1>g, <2>1, <3>1, <3>2, <3>3, EndsWell
  <2>3. CASE D!Authenticates(cur, counter, nxt = D!NoBlock)
    <3>1. /\ out' = Append(out, cur)
          /\ \/ nxt = D!NoBlock /\ pc' = "returned" /\ result' = "ok"
             \/ nxt # D!NoBlock /\ counter = MaxCounter /\ pc' = "returned" /\ result' = "DecryptionFailure"
             \/ nxt # D!NoBlock /\ pc' = "ahead" /\ cur' = nxt /\ counter' = counter + 1
      BY <1>3, <2>3 DEF D!OpenCurrent, D!Return
    <3>2. Len(out') = counter + 1 /\ OpenedSoFar' = counter + 1
      BY <1>g, <2>1, <3>1, AppendProperties DEF GivenTyped, OpenedSoFar
    <3>3. /\ Good(counter + 1) /\ counter + 1 \in Nat
          /\ nxt = D!NoBlock => counter + 1 = n /\ D!GoodBlocks = n /\ D!Verdict = "ok"
          /\ counter = MaxCounter => D!GoodBlocks = counter + 1
      BY <1>g, <2>1, <2>3, CurrentGood
    <3>4. /\ nxt = BlockAt(counter + 2) /\ read = ReadTo(counter + 2)
          /\ nxt = D!NoBlock <=> counter + 1 = Len(file)
          /\ counter + 1 <= Len(file)
      BY <1>g, <2>1, CurrentLast
    <3>5. CASE nxt = D!NoBlock /\ pc' = "returned" /\ result' = "ok"
      BY <1>g, <2>1, <3>2, <3>3, <3>5, EndsWell
    <3>6. CASE nxt # D!NoBlock /\ counter = MaxCounter /\ pc' = "returned" /\ result' = "DecryptionFailure"
      <4>1. D!GoodBlocks = MaxCounter + 1 /\ D!GoodBlocks \in Nat /\ Len(file) > MaxCounter + 1
            /\ OpenedSoFar' = D!GoodBlocks /\ plain' = D!NoBlock /\ result' # "ok"
        BY <2>1, <3>2, <3>3, <3>4, <3>6
      <4> QED BY <1>g, <2>1, <3>6, <4>1, EndsWell
    <3>7. CASE nxt # D!NoBlock /\ pc' = "ahead" /\ cur' = nxt /\ counter' = counter + 1
      <4>1. counter + 2 <= Len(file) /\ cur' = file[counter' + 1] /\ read' = counter' + 1
        BY <2>1, <3>4, <3>7 DEF BlockAt, ReadTo
      <4>2. PICK k : k = counter + 1
        OBVIOUS
      <4>3. Good(counter)'
        <5>1. Good(k)' /\ counter' = k
          BY <2>1, <3>3, <3>7, <4>2, SameFile
        <5> QED BY <5>1 DEF Good
      <4>4. CurrentIsNext'
        BY <2>1, <3>7, <4>1, <4>3 DEF CurrentIsNext
      <4> QED BY <1>g, <2>1, <3>7, <4>4 DEF VerdictInv, BatchIsNext, DoneIsWhole, D!SameVerdict
    <3> QED BY <3>1, <3>5, <3>6, <3>7
  <2> QED BY <2>2, <2>3
<1> QED BY <1>1, <1>2, <1>3

LEMMA ParallelVerdict ==
  ASSUME DecryptAssumption, OpenInv, OpenInv', VerdictInv,
         D!Prime \/ D!Gather \/ D!Peek \/ D!WriteNext \/ D!NextBatch
  PROVE  VerdictInv'
<1> SUFFICES ASSUME ~faulted, retries = 0 PROVE VerdictInv'
  BY DEF VerdictInv, D!Prime, D!Gather, D!Peek, D!WriteNext, D!NextBatch, D!answer
<1>g. GivenTyped /\ InOrder /\ AtStart /\ BatchKeepsStep /\ ~shifted /\ CurrentIsNext /\ BatchIsNext
  BY DEF OpenInv, VerdictInv
<1>1. CASE D!Prime
  <2>1. PICK b \in D!NextBlock :
          IF b = D!NoBlock THEN pc' = "returned" /\ result' = "DecryptionFailure" /\ batch' = batch
          ELSE batch' = <<b>> /\ pc' = "gather" /\ result' = result
    BY <1>1 DEF D!Prime, D!Return
  <2>2. /\ pc = "first" /\ D!ReadOne /\ counter' = counter /\ plain' = plain /\ out' = out
        /\ UNCHANGED <<n, file, api, shifted>> /\ counter = 0 /\ plain = D!NoBlock /\ Len(out) = 0
        /\ taken' = 0
    BY <1>g, <1>1 DEF D!Prime, D!params, D!current, AtStart, D!ReadOne
  <2>3. /\ ~shifted' /\ Good(0)
        /\ b = D!NoBlock => Len(file) = 0 /\ D!GoodBlocks = 0 /\ D!Verdict = "DecryptionFailure"
        /\ b # D!NoBlock => 1 <= Len(file) /\ b = file[1] /\ read' = 1
    BY <1>g, <2>2, ReadsCurrent
  <2>4. CASE b = D!NoBlock
    <3>1. OpenedSoFar' = D!GoodBlocks /\ D!GoodBlocks \in Nat
      BY <2>2, <2>3, <2>4 DEF OpenedSoFar
    <3> QED BY <1>g, <2>1, <2>2, <2>3, <2>4, <3>1, EndsWell
  <2>5. CASE b # D!NoBlock
    <3>1. Good(counter + taken)'
      BY <2>2, <2>3, SameFile DEF Good
    <3>2. Len(batch') = 1 /\ batch'[1] = b
      BY <2>1, <2>5
    <3>3. BatchIsNext'
      BY <2>1, <2>2, <2>3, <2>5, <3>1, <3>2 DEF BatchIsNext
    <3> QED BY <2>1, <2>3, <2>5, <3>3 DEF VerdictInv, CurrentIsNext, DoneIsWhole, D!SameVerdict
  <2> QED BY <2>4, <2>5
<1>2. CASE D!Gather
  <2>1. /\ pc = "gather" /\ UNCHANGED <<n, file, counter, taken>> /\ counter \in Nat
        /\ taken = 0 /\ Len(batch) \in Nat /\ Len(file) \in Nat /\ batch \in Seq(D!Block)
        /\ counter + Len(batch) <= Len(file) /\ Good(counter)
        /\ \A i \in 1 .. Len(batch) : batch[i] = file[counter + i]
        /\ read = counter + Len(batch)
    <3>1. counter + taken = counter
      BY <1>g, <1>2, BlockNumbers DEF D!Gather, BatchKeepsStep
    <3> QED BY <1>g, <1>2, <3>1, BlockNumbers
            DEF D!Gather, BatchKeepsStep, BatchIsNext, D!params, D!current, GivenTyped
  <2>2. \/ pc' = "peek" /\ batch' = batch /\ read' = read /\ ~shifted'
        \/ /\ pc' = "gather" /\ batch' = Append(batch, file[read + 1]) /\ ~shifted'
           /\ read + 1 <= Len(file) /\ read' = read + 1
    <3>1. CASE Len(batch) = size
      BY <1>g, <1>2, <2>1, <3>1 DEF D!Gather, D!input
    <3>2. CASE Len(batch) # size
      <4>1. PICK b \in D!NextBlock : /\ D!ReadOne
                                     /\ IF b = D!NoBlock THEN pc' = "peek" /\ batch' = batch
                                        ELSE batch' = Append(batch, b) /\ pc' = pc
        BY <1>2, <3>2 DEF D!Gather
      <4>2. read = ReadTo(read) /\ read \in Nat
        BY <2>1 DEF ReadTo
      <4>3. b = BlockAt(read + 1) /\ read' = ReadTo(read + 1) /\ ~shifted'
        BY <1>g, <4>1, <4>2, NextIs
      <4>4. b = D!NoBlock <=> read + 1 > Len(file)
        BY <1>g, <4>2, <4>3, NoneLeft
      <4> QED BY <2>1, <4>1, <4>2, <4>3, <4>4 DEF BlockAt, ReadTo
    <3> QED BY <3>1, <3>2
  <2>3. Good(counter + taken)'
    <3>1. counter' + taken' = counter
      BY <2>1
    <3>2. Good(counter)'
      BY <2>1, SameFile
    <3> QED BY <2>1, <3>1, <3>2 DEF Good
  <2>4. CASE pc' = "peek" /\ batch' = batch /\ read' = read /\ ~shifted'
    <3>1. BatchIsNext'
      BY <2>1, <2>3, <2>4 DEF BatchIsNext
    <3> QED BY <2>4, <3>1 DEF VerdictInv, CurrentIsNext, DoneIsWhole, D!SameVerdict
  <2>5. CASE /\ pc' = "gather" /\ batch' = Append(batch, file[read + 1]) /\ ~shifted'
             /\ read + 1 <= Len(file) /\ read' = read + 1
    <3>1. file[read + 1] \in D!Block
      <4>1. read + 1 \in 1 .. Len(file)
        BY <2>1, <2>5
      <4> QED BY <1>g, <4>1, BlockNumbers
    <3>2. /\ Len(batch') = Len(batch) + 1 /\ batch'[Len(batch) + 1] = file[read + 1]
          /\ \A i \in 1 .. Len(batch) : batch'[i] = batch[i]
      BY <2>1, <2>5, <3>1, AppendProperties
    <3>3. \A i \in 1 .. Len(batch') : batch'[i] = file[counter + i]
      <4> TAKE i \in 1 .. Len(batch')
      <4>1. CASE i = Len(batch) + 1
        <5>1. counter + i = read + 1
          BY <2>1, <4>1
        <5> QED BY <3>2, <4>1, <5>1
      <4>2. CASE i # Len(batch) + 1
        <5>1. i \in 1 .. Len(batch)
          BY <2>1, <3>2, <4>2
        <5> QED BY <2>1, <3>2, <5>1
      <4> QED BY <4>1, <4>2
    <3>4. read' = counter' + Len(batch') /\ counter' + Len(batch') <= Len(file')
      BY <2>1, <2>5, <3>2
    <3>5. BatchIsNext'
      BY <2>1, <2>3, <2>5, <3>3, <3>4 DEF BatchIsNext
    <3> QED BY <2>5, <3>5 DEF VerdictInv, CurrentIsNext, DoneIsWhole, D!SameVerdict
  <2> QED BY <2>2, <2>4, <2>5
<1>3. CASE D!Peek
  <2>1. /\ pc = "peek" /\ pc' = "write" /\ nxt' \in D!NextBlock /\ D!ReadOne
        /\ UNCHANGED <<n, file, counter, batch, taken>> /\ counter \in Nat /\ Len(batch) \in Nat
    BY <1>g, <1>3, BlockNumbers DEF D!Peek, D!params, D!group
  <2>2. /\ counter + Len(batch) <= Len(file) /\ Good(counter + taken)
        /\ \A i \in 1 .. Len(batch) : batch[i] = file[counter + i]
        /\ read = counter + Len(batch)
    BY <1>g, <2>1 DEF BatchIsNext
  <2>3. nxt' = BlockAt(counter + Len(batch) + 1) /\ read' = ReadTo(counter + Len(batch) + 1)
        /\ ~shifted'
    <3>1. counter + Len(batch) \in Nat /\ read = ReadTo(counter + Len(batch))
      BY <2>1, <2>2 DEF ReadTo
    <3> QED BY <1>g, <2>1, <3>1, NextIs
  <2>4. BatchIsNext'
    <3>1. nxt' = BlockAt(counter + Len(batch) + 1)' /\ read' = ReadTo(counter + Len(batch) + 1)'
      BY <2>1, <2>3 DEF BlockAt, ReadTo
    <3>2. Good(counter + taken)'
      BY <2>1, <2>2 DEF Good, D!Authenticates
    <3> QED BY <2>1, <2>2, <3>1, <3>2 DEF BatchIsNext
  <2> QED BY <2>1, <2>3, <2>4 DEF VerdictInv, CurrentIsNext, DoneIsWhole, D!SameVerdict
<1>4. CASE D!WriteNext
  <2> DEFINE index == counter + taken
             block == batch[taken + 1]
             last  == nxt = D!NoBlock /\ taken + 1 = Len(batch)
  <2>1. /\ pc = "write" /\ taken < Len(batch) /\ api = "parallel" /\ plain = D!NoBlock
        /\ Len(batch) \in Nat /\ Len(out) = index /\ counter \in Nat /\ counter <= MaxCounter
        /\ taken \in Nat /\ MaxCounter \in Nat /\ Len(file) \in Nat
        /\ UNCHANGED <<n, file, api, size, read, shifted, cur, nxt, counter, plain, batch>>
    BY <1>g, <1>4, BlockNumbers DEF D!WriteNext, BatchKeepsStep, GivenTyped, D!params, D!input,
                                    D!current
  <2>2. /\ counter + Len(batch) <= Len(file) /\ Good(index)
        /\ \A i \in 1 .. Len(batch) : batch[i] = file[counter + i]
        /\ nxt = BlockAt(counter + Len(batch) + 1) /\ read = ReadTo(counter + Len(batch) + 1)
    BY <1>g, <2>1 DEF BatchIsNext
  <2>3. block = file[index + 1] /\ index \in Nat /\ index + 1 <= Len(file)
    <3>1. taken + 1 \in 1 .. Len(batch) /\ counter + (taken + 1) = index + 1
      BY <2>1
    <3>2. batch[taken + 1] = file[counter + (taken + 1)]
      BY <2>2, <3>1
    <3>3. block = file[index + 1]
      BY <3>1, <3>2
    <3>4. index \in Nat /\ index + 1 <= counter + Len(batch)
      BY <2>1
    <3>5. index + 1 <= Len(file)
      <4> HIDE DEF index
      <4> QED BY <2>1, <2>2, <3>4
    <3> QED BY <3>3, <3>4, <3>5
  <2>4. last <=> index + 1 = Len(file)
    <3>1. counter + Len(batch) + 1 \in Nat \ {0}
      BY <2>1
    <3>2. nxt = D!NoBlock <=> counter + Len(batch) + 1 > Len(file)
      BY <1>g, <2>2, <3>1, NoneLeft
    <3> QED BY <2>1, <2>2, <3>2
  <2>5. /\ D!Authenticates(block, index, last)
             <=> D!Authenticates(file[index + 1], index, index + 1 = Len(file))
        /\ D!Failure(block, index, last) = D!Failure(file[index + 1], index, index + 1 = Len(file))
    <3> HIDE DEF block, index, last
    <3> QED BY <2>3, <2>4 DEF D!Authenticates, D!Failure
  <2>6. CASE /\ UNCHANGED <<out, taken>> /\ pc' = "returned" /\ index > MaxCounter
             /\ result' = "DecryptionFailure"
    <3>1. index = MaxCounter + 1 /\ D!GoodBlocks = index
      <4> HIDE DEF index
      <4>1. index <= Len(file)
        BY <2>1, <2>3
      <4> QED BY <1>g, <2>2, <2>3, <2>6, <4>1, CounterSpent
    <3>2. OpenedSoFar' = D!GoodBlocks /\ D!GoodBlocks \in Nat /\ plain' = D!NoBlock
      BY <2>1, <2>3, <2>6, <3>1 DEF OpenedSoFar
    <3> HIDE DEF index
    <3> QED BY <1>g, <2>1, <2>6, <3>1, <3>2, EndsWell
  <2>7. CASE /\ UNCHANGED <<out, taken>> /\ pc' = "returned" /\ ~D!Authenticates(block, index, last)
             /\ result' = D!Failure(block, index, last)
    <3>1. D!GoodBlocks = index /\ result' = D!Verdict
      <4> HIDE DEF index, block, last
      <4> QED BY <1>g, <2>2, <2>3, <2>5, <2>7, RefusedAt
    <3>2. OpenedSoFar' = D!GoodBlocks /\ D!GoodBlocks \in Nat /\ plain' = D!NoBlock
      BY <2>1, <2>3, <2>7, <3>1 DEF OpenedSoFar
    <3> HIDE DEF index, block, last
    <3> QED BY <1>g, <2>1, <2>7, <3>1, <3>2, EndsWell
  <2>8. CASE /\ D!Authenticates(block, index, last) /\ taken' = taken + 1 /\ pc' = pc
    <3>1. Good(index + 1)
      <4> HIDE DEF index, block, last
      <4> QED BY <2>1, <2>2, <2>3, <2>5, <2>8, GoodOn
    <3>2. Good(counter + taken)'
      <4>1. counter' + taken' = index + 1
        BY <2>1, <2>8
      <4> HIDE DEF index
      <4> QED BY <2>1, <3>1, <4>1 DEF Good, D!Authenticates
    <3>3. nxt' = BlockAt(counter + Len(batch) + 1)' /\ read' = ReadTo(counter + Len(batch) + 1)'
      BY <2>1, <2>2 DEF BlockAt, ReadTo
    <3>4. BatchIsNext'
      BY <2>1, <2>2, <2>8, <3>2, <3>3 DEF BatchIsNext
    <3> QED BY <1>g, <2>1, <2>8, <3>4 DEF VerdictInv, CurrentIsNext, DoneIsWhole, D!SameVerdict
  <2> HIDE DEF index, block, last
  <2> QED BY <1>4, <2>6, <2>7, <2>8 DEF D!WriteNext, D!Return, index, block, last
<1>5. CASE D!NextBatch
  <2> DEFINE next == counter + Len(batch)
  <2>1. /\ pc = "write" /\ taken = Len(batch) /\ api = "parallel" /\ plain = D!NoBlock /\ taken' = 0
        /\ Len(batch) \in Nat \ {0} /\ Len(out) = next /\ counter \in Nat /\ MaxCounter \in Nat
        /\ Len(file) \in Nat /\ next \in Nat /\ next > 0
        /\ UNCHANGED <<n, file, api, read, shifted, nxt, plain, out>>
    BY <1>g, <1>5, BlockNumbers DEF D!NextBatch, BatchKeepsStep, GivenTyped, D!params, D!input
  <2>2. /\ next <= Len(file) /\ Good(next) /\ nxt = BlockAt(next + 1) /\ read = ReadTo(next + 1)
    BY <1>g, <2>1 DEF BatchIsNext
  <2>3. nxt = D!NoBlock <=> next = Len(file)
    <3>1. next + 1 \in Nat \ {0} /\ (next = Len(file) <=> next + 1 > Len(file))
      BY <2>1, <2>2
    <3> HIDE DEF next
    <3> QED BY <1>g, <2>2, <3>1, NoneLeft
  <2>4. OpenedSoFar' = next /\ plain' = D!NoBlock
    BY <2>1 DEF OpenedSoFar
  <2>5. CASE next > MaxCounter /\ pc' = "returned" /\ result' = "DecryptionFailure"
    <3> HIDE DEF next
    <3>1. next = MaxCounter + 1 /\ D!GoodBlocks = next
      BY <1>g, <2>1, <2>2, <2>5, CounterSpent
    <3> QED BY <1>g, <2>1, <2>4, <2>5, <3>1, EndsWell
  <2>6. CASE nxt = D!NoBlock /\ pc' = "returned" /\ result' = "ok"
    <3> HIDE DEF next
    <3>1. next = n
      BY <1>g, <2>1, <2>2, <2>3, <2>6, LastIsLast
    <3>2. D!GoodBlocks = next /\ D!Verdict = "ok"
      BY <1>g, <2>2, <2>3, <2>6, <3>1, WholeFile
    <3> QED BY <1>g, <2>1, <2>4, <2>6, <3>2, EndsWell
  <2>7. CASE nxt # D!NoBlock /\ counter' = next /\ batch' = <<nxt>> /\ pc' = "gather"
    <3>1. Len(batch') = 1 /\ batch'[1] = nxt
      BY <2>7
    <3>2. next + 1 <= Len(file) /\ nxt = file[next + 1] /\ read = next + 1
      <4> HIDE DEF next
      <4> QED BY <2>1, <2>2, <2>3, <2>7 DEF BlockAt, ReadTo
    <3> HIDE DEF next
    <3>3. Good(counter + taken)'
      <4>1. counter' + taken' = next
        BY <2>1, <2>7
      <4> QED BY <2>1, <2>2, <4>1 DEF Good, D!Authenticates
    <3>4. BatchIsNext'
      BY <2>1, <2>7, <3>1, <3>2, <3>3 DEF BatchIsNext
    <3> QED BY <1>g, <2>1, <2>7, <3>4 DEF VerdictInv, CurrentIsNext, DoneIsWhole, D!SameVerdict
  <2> HIDE DEF next
  <2> QED BY <1>5, <2>5, <2>6, <2>7 DEF D!NextBatch, D!Return, next
<1> QED BY <1>1, <1>2, <1>3, <1>4, <1>5

LEMMA ReaderVerdict ==
  ASSUME DecryptAssumption, OpenInv, OpenInv', VerdictInv,
         D!NewFirst \/ D!NewAhead \/ D!Drain \/ D!EndOfText \/ D!ReadRefused \/ D!ReadPiece \/ D!CounterEnds,
         retries' = 0
  PROVE  VerdictInv'
<1> SUFFICES ASSUME ~faulted, retries = 0 PROVE VerdictInv'
  <2>1. retries = 0
    <3>1. retries' = retries \/ retries' = retries + 1
      BY DEF D!NewFirst, D!NewAhead, D!Drain, D!EndOfText, D!ReadRefused, D!ReadPiece,
             D!CounterEnds, D!answer,
             D!Fails, D!GivesUp
    <3>2. retries \in Nat
      BY BlockNumbers DEF OpenInv
    <3> QED BY <3>1, <3>2
  <2>2. faulted' = faulted
    BY DEF D!NewFirst, D!NewAhead, D!Drain, D!EndOfText, D!ReadRefused, D!ReadPiece,
           D!CounterEnds, D!answer
  <2> QED BY <2>1, <2>2 DEF VerdictInv
<1>g. GivenTyped /\ InOrder /\ AtStart /\ ReaderKeepsStep /\ ~shifted /\ CurrentIsNext
      /\ DoneIsWhole
  BY DEF OpenInv, VerdictInv
<1>1. CASE D!NewFirst
  <2>1. PICK b \in D!NextBlock :
          IF b = D!NoBlock THEN pc' = "returned" /\ result' = "DecryptionFailure" /\ cur' = cur
          ELSE cur' = b /\ pc' = "newAhead" /\ result' = result
    BY <1>1 DEF D!NewFirst, D!Return
  <2>2. /\ pc = "first" /\ D!ReadOne /\ counter' = counter /\ plain' = plain /\ out' = out
        /\ UNCHANGED <<n, file, api, shifted>> /\ counter = 0 /\ plain = D!NoBlock /\ Len(out) = 0
    BY <1>g, <1>1 DEF D!NewFirst, D!params, AtStart, D!ReadOne
  <2>3. /\ ~shifted' /\ Good(0)
        /\ b = D!NoBlock => Len(file) = 0 /\ D!GoodBlocks = 0 /\ D!Verdict = "DecryptionFailure"
        /\ b # D!NoBlock => 1 <= Len(file) /\ b = file[1] /\ read' = 1
    BY <1>g, <2>2, ReadsCurrent
  <2>4. CASE b = D!NoBlock
    <3>1. OpenedSoFar' = D!GoodBlocks /\ D!GoodBlocks \in Nat
      BY <2>2, <2>3, <2>4 DEF OpenedSoFar
    <3> QED BY <1>g, <2>1, <2>2, <2>3, <2>4, <3>1, EndsWell
  <2>5. CASE b # D!NoBlock
    <3>1. Good(counter)'
      BY <2>2, <2>3, SameFile
    <3>2. CurrentIsNext'
      BY <2>1, <2>2, <2>3, <2>5, <3>1 DEF CurrentIsNext
    <3> QED BY <2>1, <2>3, <2>5, <3>2 DEF VerdictInv, BatchIsNext, DoneIsWhole, D!SameVerdict
  <2> QED BY <2>4, <2>5
<1>2. CASE D!NewAhead
  <2>1. /\ pc = "newAhead" /\ pc' = "reader" /\ nxt' \in D!NextBlock /\ D!ReadOne
        /\ cur' = cur /\ counter' = counter /\ UNCHANGED <<n, file, out, plain>> /\ counter \in Nat
        /\ plain = D!NoBlock /\ counter = 0 /\ Len(out) = 0
    BY <1>g, <1>2, BlockNumbers DEF D!NewAhead, ReaderKeepsStep, D!params, D!answer
  <2>2. counter + 1 <= Len(file) /\ cur = file[counter + 1] /\ Good(counter)
        /\ read = ReadTo(counter + 1)
    BY <1>g, <2>1, BlockNumbers DEF CurrentIsNext, ReadTo
  <2>3. nxt' = BlockAt(counter + 2) /\ read' = ReadTo(counter + 2) /\ ~shifted'
    <3>1. counter + 1 \in Nat /\ counter + 1 + 1 = counter + 2
      BY <2>1
    <3> QED BY <1>g, <2>1, <2>2, <3>1, NextIs
  <2>4. nxt' = BlockAt(counter + 2)' /\ read' = ReadTo(counter + 2)' /\ Good(counter)'
    BY <2>1, <2>2, <2>3, SameFile
  <2>5. OpenedSoFar' = counter'
    BY <2>1 DEF OpenedSoFar
  <2>6. CurrentIsNext'
    BY <2>1, <2>2, <2>4, <2>5 DEF CurrentIsNext
  <2> QED BY <2>1, <2>3, <2>6 DEF VerdictInv, BatchIsNext, DoneIsWhole, D!SameVerdict
<1>3. CASE D!Drain
  <2>1. /\ pc \in {"reader", "done"} /\ pc' = pc /\ plain # D!NoBlock /\ plain' = D!NoBlock
        /\ out' = Append(out, plain) /\ UNCHANGED <<n, file, read, shifted, cur, nxt, counter>>
    BY <1>3 DEF D!Drain, D!params, D!input
  <2>2. OpenedSoFar' = OpenedSoFar
    <3>1. Len(out') = Len(out) + 1
      BY <1>g, <2>1, AppendProperties DEF GivenTyped
    <3> QED BY <1>g, <2>1, <3>1 DEF OpenedSoFar, GivenTyped
  <2>3. CurrentIsNext'
    BY <1>g, <2>1, <2>2 DEF CurrentIsNext, Good, D!Authenticates, BlockAt, ReadTo
  <2>4. DoneIsWhole'
    BY <1>g, <2>1 DEF DoneIsWhole, Good, D!Authenticates
  <2> QED BY <1>g, <2>1, <2>3, <2>4 DEF VerdictInv, BatchIsNext, D!SameVerdict
<1>4. CASE D!EndOfText
  <2>1. /\ pc = "done" /\ pc' = "returned" /\ result' = "ok" /\ plain = D!NoBlock
        /\ UNCHANGED <<n, file, api, shifted, plain, out>>
    BY <1>4 DEF D!EndOfText, D!Return, D!params, D!input, D!current
  <2>2. OpenedSoFar = n /\ Len(file) = n /\ Good(n) /\ n \in Nat
    BY <1>g, <2>1, BlockNumbers DEF ReaderKeepsStep, DoneIsWhole
  <2>3. D!GoodBlocks = n /\ D!Verdict = "ok"
    BY <1>g, <2>2, WholeFile
  <2>4. OpenedSoFar' = OpenedSoFar
    BY <2>1 DEF OpenedSoFar
  <2> QED BY <1>g, <2>1, <2>2, <2>3, <2>4, EndsWell
<1>5. CASE D!ReadRefused
  <2>1. /\ pc = "reader" /\ plain = D!NoBlock /\ ~D!Authenticates(cur, counter, nxt = D!NoBlock)
        /\ UNCHANGED <<n, file, api, shifted, plain, out, counter>>
        /\ pc' = "returned" /\ result' = D!Failure(cur, counter, nxt = D!NoBlock)
    BY <1>5 DEF D!ReadRefused, D!Fails, D!GivesUp, D!Return, D!params, D!input, D!current
  <2>2. D!GoodBlocks = counter /\ result' = D!Verdict /\ counter \in Nat
    BY <1>g, <2>1, CurrentLast, RefusedAt
  <2>3. OpenedSoFar' = D!GoodBlocks
    BY <1>g, <2>1, <2>2 DEF CurrentIsNext, OpenedSoFar
  <2> QED BY <1>g, <2>1, <2>2, <2>3, EndsWell
<1>6. CASE D!ReadPiece
  <2>1. /\ pc = "reader" /\ plain = D!NoBlock /\ D!Authenticates(cur, counter, nxt = D!NoBlock)
        /\ UNCHANGED <<n, file, api>> /\ Len(file) \in Nat
        /\ (plain' = cur /\ out' = out) \/ (out' = Append(out, cur) /\ plain' = D!NoBlock)
        /\ \/ nxt = D!NoBlock /\ pc' = "done" /\ shifted' = shifted
           \/ nxt # D!NoBlock /\ pc' = "reader" /\ counter' = counter + 1 /\ cur' = nxt
              /\ nxt' \in D!NextBlock /\ D!ReadOne
    BY <1>g, <1>6, BlockNumbers DEF D!ReadPiece, D!params, D!input
  <2>2. /\ counter \in Nat /\ counter + 1 <= Len(file)
        /\ nxt = BlockAt(counter + 2) /\ read = ReadTo(counter + 2)
        /\ nxt = D!NoBlock <=> counter + 1 = Len(file)
    BY <1>g, <2>1, CurrentLast
  <2>3. /\ Good(counter + 1)
        /\ nxt = D!NoBlock => counter + 1 = n /\ Len(file) = n /\ Good(n)
    BY <1>g, <2>1, CurrentGood
  <2>4. CASE nxt = D!NoBlock /\ pc' = "done" /\ shifted' = shifted
    <3>1. DoneIsWhole'
      BY <2>1, <2>3, <2>4 DEF DoneIsWhole, Good, D!Authenticates
    <3> QED BY <1>g, <2>4, <3>1 DEF VerdictInv, CurrentIsNext, BatchIsNext, D!SameVerdict
  <2>5. CASE nxt # D!NoBlock /\ pc' = "reader" /\ counter' = counter + 1 /\ cur' = nxt
              /\ nxt' \in D!NextBlock /\ D!ReadOne
    <3>1. counter + 2 \in Nat /\ counter + 2 + 1 = counter + 3 /\ counter + 2 = counter' + 1
          /\ counter + 3 = counter' + 2 /\ counter + 2 <= Len(file)
      BY <2>2, <2>5, <2>1
    <3>2. nxt' = BlockAt(counter + 3) /\ read' = ReadTo(counter + 3) /\ ~shifted'
      BY <1>g, <2>2, <2>5, <3>1, NextIs
    <3>3. nxt' = BlockAt(counter + 2)' /\ read' = ReadTo(counter + 2)'
      BY <2>1, <3>1, <3>2 DEF BlockAt, ReadTo
    <3>4. Good(counter)'
      BY <2>1, <2>3, <2>5 DEF Good, D!Authenticates
    <3>5. cur' = file'[counter' + 1] /\ counter' + 1 <= Len(file')
      BY <2>1, <2>2, <2>5, <3>1 DEF BlockAt
    <3>6. cur = counter + 1 /\ cur # D!NoBlock /\ Len(out) = counter
      <4>1. cur \in D!Block
        BY <1>g DEF GivenTyped
      <4>2. cur = counter + 1 /\ cur # D!NoBlock
        BY <1>g, <2>1, <2>2, <4>1, Opening
      <4> QED BY <1>g, <2>1, <4>2 DEF CurrentIsNext, OpenedSoFar, GivenTyped
    <3>7. OpenedSoFar' = counter'
      <4>1. Append(out, cur) = out' => Len(out') = Len(out) + 1
        BY <1>g, AppendProperties DEF GivenTyped
      <4> QED BY <2>1, <2>2, <2>5, <3>6, <4>1 DEF OpenedSoFar
    <3>8. CurrentIsNext'
      BY <2>5, <3>3, <3>4, <3>5, <3>7 DEF CurrentIsNext
    <3> QED BY <2>5, <3>2, <3>8 DEF VerdictInv, BatchIsNext, DoneIsWhole, D!SameVerdict
  <2> QED BY <2>1, <2>4, <2>5
<1>7. CASE D!CounterEnds
  <2>1. /\ pc = "reader" /\ plain = D!NoBlock /\ D!Authenticates(cur, counter, FALSE)
        /\ nxt # D!NoBlock /\ counter = MaxCounter /\ plain' = cur
        /\ UNCHANGED <<n, file, api, shifted, out>>
        /\ pc' = "returned" /\ result' = "overflow"
    <3>1. D!Fails("overflow") \/ D!GivesUp("overflow")
      BY <1>7 DEF D!CounterEnds
    <3>2. pc' = "returned" /\ result' = "overflow"
      BY <3>1 DEF D!Fails, D!GivesUp, D!Return
    <3> QED BY <1>7, <3>2 DEF D!CounterEnds, D!params, D!input
  <2>2. D!Authenticates(cur, counter, nxt = D!NoBlock)
    BY <2>1 DEF D!Authenticates
  <2>3. counter \in Nat /\ counter + 1 < Len(file)
    <3>1. counter \in Nat /\ counter + 1 <= Len(file) /\ counter + 1 # Len(file)
      BY <1>g, <2>1, CurrentLast
    <3> QED BY <1>g, <3>1, BlockNumbers
  <2>4. D!GoodBlocks = counter + 1
    BY <1>g, <2>1, <2>2, CurrentGood
  <2>5. cur = counter + 1 /\ cur # D!NoBlock /\ Len(out) = counter
    <3>1. cur \in D!Block
      BY <1>g DEF GivenTyped
    <3>2. cur = counter + 1 /\ cur # D!NoBlock
      BY <1>g, <2>2, <2>3, <3>1, Opening
    <3> QED BY <1>g, <2>1, <3>2 DEF CurrentIsNext, OpenedSoFar, GivenTyped
  <2>6. OpenedSoFar' = D!GoodBlocks /\ plain' = Len(out') + 1 /\ D!GoodBlocks \in Nat
    BY <2>1, <2>3, <2>4, <2>5 DEF OpenedSoFar
  <2>7. D!GoodBlocks = MaxCounter + 1 /\ Len(file) > MaxCounter + 1
    BY <2>1, <2>3, <2>4, <1>g, BlockNumbers
  <2> QED BY <1>g, <2>1, <2>6, <2>7, EndsWell
<1> QED BY <1>1, <1>2, <1>3, <1>4, <1>5, <1>6, <1>7

LEMMA VerdictStep ==
  ASSUME DecryptAssumption, OpenInv, OpenInv', VerdictInv, [D!Next]_(D!vars)
  PROVE  VerdictInv'
<1> SUFFICES ASSUME ~faulted', retries' = 0 PROVE VerdictInv'
  BY DEF VerdictInv
<1>1. CASE UNCHANGED D!vars
  <2>1. UNCHANGED <<n, file, api, size, read, shifted, pc, cur, nxt, counter, plain>>
        /\ UNCHANGED <<batch, taken, out, result, faulted, retries>>
    BY <1>1 DEF D!vars, D!params, D!input, D!current, D!group, D!answer
  <2>2. D!Verdict' = D!Verdict /\ D!GoodBlocks' = D!GoodBlocks
    BY <2>1, SameFile
  <2>3. D!SameVerdict' <=> D!SameVerdict
    BY <2>1, <2>2 DEF D!SameVerdict, D!OpenedPieces, D!CounterEnded
  <2>4. (CurrentIsNext' <=> CurrentIsNext) /\ (BatchIsNext' <=> BatchIsNext)
        /\ (DoneIsWhole' <=> DoneIsWhole)
    BY <2>1 DEF CurrentIsNext, BatchIsNext, DoneIsWhole, Good, D!Authenticates, BlockAt,
       ReadTo, OpenedSoFar
  <2> QED BY <2>1, <2>3, <2>4 DEF VerdictInv
<1>2. CASE D!FillFails \/ D!ReadFailure \/ D!WriteFailure
  BY <1>2 DEF D!FillFails, D!ReadFailure, D!WriteFailure
<1> QED BY <1>1, <1>2, SerialVerdict, ParallelVerdict, ReaderVerdict DEF D!Next

\* If every read and write succeeds, the serial and the parallel decryptor and the
\* reader open the same pieces of a file and end with the same verdict, which the
\* file alone decides; or, out of counters, say so.
THEOREM VerdictsAgree == ASSUME DecryptAssumption PROVE D!Spec => []D!SameVerdict
<1>1. OpenInv /\ OpenInv' /\ VerdictInv /\ [D!Next]_(D!vars) => VerdictInv'
  BY VerdictStep
<1>2. OpenInv /\ VerdictInv => D!SameVerdict
  BY DEF VerdictInv, D!SameVerdict
<1> QED BY <1>1, <1>2, InitOpen, OpenInvariant, PTL DEF D!Spec
=============================================================================
