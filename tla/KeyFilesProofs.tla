---------------------------- MODULE KeyFilesProofs ----------------------------
(***************************************************************************)
(* Machine-checked facts about KeyFiles, for any number of directories,    *)
(* passphrases, processes of the command line and of the window, hardware  *)
(* keys, and kills and failures between any two writes.                    *)
(***************************************************************************)
EXTENDS KeyFiles, SequenceTheorems, TLAPS

\* No file, and a file cut short, are none of the files there are, nor passphrases; a
\* label names one hardware key.
KeyAssumption ==
  /\ MaxCommands \in Nat /\ MaxFaults \in Nat /\ Cli \cap Gui = {}
  /\ ~SharedLabels
  /\ None # Half /\ None \notin Passphrases /\ Protections \subseteq Passphrases \cup {None}
  /\ None \notin Int /\ Half \notin Int
  /\ {None, Half} \cap [key : Int, expires : BOOLEAN] = {}
  /\ {None, Half} \cap [key : Int, lock : {None} \cup Locks, expires : BOOLEAN] = {}
  /\ {None, Half} \cap [label : Dirs] = {}

(* The inductive invariant. *)

PublicPems   == [key : Keys, expires : BOOLEAN]
SoftKeys     == [key : Keys, lock : {None} \cup Locks, expires : BOOLEAN]
Stubs        == [label : Dirs]
PrivateKeys  == SoftKeys \cup Stubs
Fingerprints == {Unknown} \cup Keys
KeyDirs      == [pub : PublicPems \cup {None, Half}, priv : PrivateKeys \cup {None},
                 rev : {None, Half} \cup Fingerprints]
WriterJobs   == [pc : {"store", "pub", "fill", "priv", "expiry", "reread"},
                 do : {"keygen", "import", "repassphrase"}, d : Dirs, key : Keys,
                 pub : PublicPems \cup {None, Half}, priv : PrivateKeys,
                 expiry : BOOLEAN, label : Dirs \cup {None}, first : BOOLEAN]
EndedJobs    == [pc : {"idle", "ok", "failed"}, do : {"none"}]
RevokeJobs   == [pc : {"revoke", "sidecar"}, do : {"revoke"}, d : Dirs, key : Fingerprints]
CheckJobs    == [pc : {"check"}, do : {"encrypt"}, d : Dirs, key : Fingerprints]
SaidJobs     == [pc : {"accepted", "refused"}, do : {"encrypt"}, d : Dirs,
                 key : Fingerprints, gone : {None} \cup Fingerprints]
OtherJobs    == EndedJobs \cup RevokeJobs \cup CheckJobs \cup SaidJobs
KeyCopies    == [pub : {None} \cup [d : Dirs, key : Fingerprints],
                 priv : {None} \cup [d : Dirs, pem : PrivateKeys]]

KeyTyped ==
  /\ made \in Nat \ {0} /\ started \in 0 .. MaxCommands /\ faults \in 0 .. MaxFaults
  /\ disk \in [Dirs -> KeyDirs] /\ store \in [Dirs -> Keys \cup {None}]
  /\ job \in [Procs -> WriterJobs \cup OtherJobs] /\ copy \in KeyCopies
  /\ list \subseteq Dirs /\ label \in Dirs
  /\ revoked \in [Dirs -> {None} \cup Fingerprints]
  /\ promised \in [Dirs -> {None} \cup PrivateKeys]
  /\ mixed \subseteq Dirs /\ cut \subseteq Dirs

\* What was accepted from the command line was not what had been revoked there; the
\* sidecar of what was revoked is never gone.
SidecarKept == \A d \in Dirs : disk[d].rev \in {Half, revoked[d]}

\* A label is a directory's own, and has a seed by the time a stub names it.
Labelled(d, priv) == priv \in Stubs => priv.label = d /\ store[d] # None
StubsStored ==
  /\ \A d \in Dirs : Labelled(d, disk[d].priv)
  /\ \A p \in Procs : job[p] \in WriterJobs =>
       IF job[p].pc = "store"
       THEN /\ job[p].label = Dir(p) /\ job[p].do = "keygen" /\ job[p].first
            /\ job[p].priv = HardwareStub(Dir(p)) /\ job[p].pub = PublicPem(job[p].key)
       ELSE Labelled(Dir(p), job[p].priv)

\* A private key file is what was last written.
PromiseKept == \A d \in Dirs : promised[d] \in {None, disk[d].priv}

\* The key that a private key file in a directory gives.
KeyIn(d, priv) == IF priv \in Stubs THEN store[d] ELSE priv.key
Matched(d) ==
  \/ None \in {disk[d].pub, disk[d].priv}
  \/ disk[d].pub # Half /\ disk[d].pub.key = KeyIn(d, disk[d].priv)
\* What the one writer of a directory has in hand, and has written so far.
InHand(j) ==
  IF j.do = "repassphrase"
  THEN /\ j.pc = "priv" /\ ~j.first /\ ~j.expiry /\ Matched(j.d)
       /\ j.priv \in SoftKeys /\ disk[j.d].priv \in SoftKeys
       /\ j.priv.key = disk[j.d].priv.key
  ELSE j.pc # "store" =>
       /\ j.pub \in PublicPems /\ j.pub.key = KeyIn(j.d, j.priv)
       /\ j.pc \in {"priv", "expiry", "reread"} => disk[j.d].pub = j.pub
       /\ ~j.first \/ j.pc \in {"expiry", "reread"} =>
            disk[j.d].priv # None /\ j.pub.key = KeyIn(j.d, disk[j.d].priv)
WritesIn(d) == {p \in Procs : job[p] \in WriterJobs /\ job[p].d = d}
PairsMatched ==
  \A d \in Dirs \ (mixed \cup cut) :
    /\ \A p, q \in WritesIn(d) : p = q
    /\ WritesIn(d) = {} => Matched(d)
    /\ \A p \in WritesIn(d) : InHand(job[p])

KeyInv == /\ KeyTyped /\ RevokedStaysRefused /\ SidecarKept /\ StubsStored
          /\ PromiseKept /\ PairsMatched

-----------------------------------------------------------------------------
(* What kind of key and of job there is. *)

LEMMA KeyKinds ==
  ASSUME KeyAssumption, made \in Nat
  PROVE  /\ \A k \in SoftKeys : k \notin Stubs /\ ~IsHardwareKey(k) /\ k # None /\ k # Half
         /\ \A k \in Stubs : k \notin SoftKeys /\ IsHardwareKey(k) /\ k # None /\ k # Half
         /\ \A k \in PublicPems : ~IsHardwareKey(k) /\ k # None /\ k # Half
<1>1. \A k \in SoftKeys : k # None /\ k # Half /\ DOMAIN k = {"key", "lock", "expires"}
  <2>1. SoftKeys \subseteq [key : Int, lock : {None} \cup Locks, expires : BOOLEAN]
    BY DEF SoftKeys, Keys
  <2>2. \A k \in SoftKeys : DOMAIN k = {"key", "lock", "expires"}
    BY DEF SoftKeys
  <2> QED BY <2>1, <2>2 DEF KeyAssumption
<1>2. \A k \in Stubs : k # None /\ k # Half /\ DOMAIN k = {"label"}
  BY DEF Stubs, KeyAssumption
<1>3. \A k \in PublicPems : k # None /\ k # Half /\ DOMAIN k = {"key", "expires"}
  <2>1. PublicPems \subseteq [key : Int, expires : BOOLEAN]
    BY DEF PublicPems, Keys
  <2>2. \A k \in PublicPems : DOMAIN k = {"key", "expires"}
    BY DEF PublicPems
  <2> QED BY <2>1, <2>2 DEF KeyAssumption
<1>4. "key" \notin {"label"} /\ "key" \in {"key", "lock", "expires"} /\ "key" \in {"key", "expires"}
  OBVIOUS
<1> QED BY <1>1, <1>2, <1>3, <1>4 DEF IsHardwareKey

LEMMA Prepended ==
  ASSUME KeyAssumption, made \in Nat
  PROVE  /\ \A k \in PublicPems : PrependExpiry(k) \in PublicPems /\ PrependExpiry(k).key = k.key
         /\ PrependExpiry(Half) = Half
         /\ \A k \in SoftKeys : PrependExpiry(k) \in SoftKeys /\ PrependExpiry(k).key = k.key
         /\ \A k \in Stubs : PrependExpiry(k) = k
<1>1. \A k \in PublicPems : PrependExpiry(k) \in PublicPems /\ PrependExpiry(k).key = k.key
  BY KeyKinds DEF PrependExpiry, PublicPems
<1>2. \A k \in SoftKeys : PrependExpiry(k) \in SoftKeys /\ PrependExpiry(k).key = k.key
  BY KeyKinds DEF PrependExpiry, SoftKeys
<1> QED BY <1>1, <1>2, KeyKinds DEF PrependExpiry

LEMMA NewKeys ==
  ASSUME KeyAssumption, made \in Nat
  PROVE  /\ 0 \in Keys /\ made \in Keys
         /\ \A k \in Keys : PublicPem(k) \in PublicPems /\ PublicPem(k).key = k
         /\ \A k \in Keys, pass \in Passphrases \cup {None} :
              EncodePrivateKey(k, pass) \in SoftKeys /\ EncodePrivateKey(k, pass).key = k
         /\ \A l \in Dirs : HardwareStub(l) \in Stubs /\ HardwareStub(l).label = l
BY DEF Keys, PublicPem, PublicPems, EncodePrivateKey, SoftKeys, HardwareStub, Stubs, Locks

LEMMA JobKinds ==
  ASSUME KeyTyped, NEW p \in Procs
  PROVE  /\ job[p] \in WriterJobs => Busy(p) /\ Writes(p) /\ job[p] \notin OtherJobs
         /\ job[p] \in OtherJobs => ~Writes(p) /\ job[p] \notin WriterJobs
         /\ job[p] \in WriterJobs \/ job[p] \in OtherJobs
         /\ Writes(p) <=> job[p] \in WriterJobs
<1>1. ASSUME NEW j \in WriterJobs
      PROVE  j.pc \notin Resting /\ j.do \in {"keygen", "import", "repassphrase"} /\ j \notin OtherJobs
  BY DEF WriterJobs, OtherJobs, EndedJobs, RevokeJobs, CheckJobs, SaidJobs, Resting
<1>2. ASSUME NEW j \in OtherJobs PROVE j.do \notin {"keygen", "import", "repassphrase"}
  BY DEF OtherJobs, EndedJobs, RevokeJobs, CheckJobs, SaidJobs
<1>3. job[p] \in WriterJobs \cup OtherJobs
  BY DEF KeyTyped
<1> QED BY <1>1, <1>2, <1>3 DEF Writes, Busy

LEMMA KeyInit == ASSUME KeyAssumption, Init PROVE KeyInv
<1>1. made = 1 /\ made \in Nat /\ Unknown \in Fingerprints /\ 1 \in Keys
  BY DEF Init, Fingerprints, Keys, Unknown
<1>2. PICK first \in Dirs, lock \in {None} \cup Locks, rev \in {None, 1} :
        /\ disk \in [Dirs -> {Empty, Old(lock, rev)}]
        /\ promised = [d \in Dirs |-> disk[d].priv] /\ revoked = [d \in Dirs |-> disk[d].rev]
  BY DEF Init
<1>3. /\ Empty \in KeyDirs /\ Empty.priv = None /\ Empty.pub = None /\ Empty.rev = None
      /\ Old(lock, rev) \in KeyDirs /\ Old(lock, rev).priv \in SoftKeys
      /\ Old(lock, rev).pub \in PublicPems /\ Old(lock, rev).pub.key = Old(lock, rev).priv.key
      /\ Old(lock, rev).rev \in {None} \cup Fingerprints
  BY <1>1 DEF Empty, Old, KeyDirs, PublicPem, PublicPems, EncodePrivateKey, SoftKeys, PrivateKeys,
              Fingerprints
<1>4. KeyTyped
  <2>1. disk \in [Dirs -> KeyDirs] /\ revoked \in [Dirs -> {None} \cup Fingerprints]
        /\ promised \in [Dirs -> {None} \cup PrivateKeys]
    BY <1>2, <1>3 DEF PrivateKeys
  <2>2. job \in [Procs -> WriterJobs \cup OtherJobs]
    BY DEF Init, Ended, OtherJobs, EndedJobs
  <2>3. copy \in KeyCopies /\ store \in [Dirs -> Keys \cup {None}]
    BY DEF Init, KeyCopies, Labels
  <2> QED BY <1>1, <2>1, <2>2, <2>3 DEF Init, KeyTyped, KeyAssumption, Labels
<1>5. \A p \in Procs : job[p] \notin WriterJobs /\ job[p].pc = "idle"
  BY DEF Init, Ended, WriterJobs
<1>6. RevokedStaysRefused /\ SidecarKept /\ PromiseKept
  BY <1>2, <1>5 DEF RevokedStaysRefused, SidecarKept, PromiseKept, Procs
<1>7. StubsStored
  BY <1>1, <1>2, <1>3, <1>5, KeyKinds DEF StubsStored, Labelled
<1>8. PairsMatched
  <2>1. \A d \in Dirs : Matched(d)
    BY <1>1, <1>2, <1>3, KeyKinds DEF Matched, KeyIn
  <2> QED BY <1>5, <2>1 DEF PairsMatched, WritesIn
<1> QED BY <1>4, <1>6, <1>7, <1>8 DEF KeyInv

-----------------------------------------------------------------------------
(* What a step leaves alone. *)

\* New keys are added to those there are.
LEMMA MoreKeys ==
  ASSUME KeyTyped, made' \in {made, made + 1}
  PROVE  /\ Keys \subseteq Keys' /\ PublicPems \subseteq PublicPems' /\ SoftKeys \subseteq SoftKeys'
         /\ Stubs' = Stubs /\ PrivateKeys \subseteq PrivateKeys'
            /\ Fingerprints \subseteq Fingerprints'
         /\ KeyDirs \subseteq KeyDirs' /\ WriterJobs \subseteq WriterJobs'
         /\ OtherJobs \subseteq OtherJobs' /\ KeyCopies \subseteq KeyCopies'
         /\ made' \in Nat \ {0} /\ made \in Nat
<1>1. Keys \subseteq Keys' /\ made' \in Nat \ {0} /\ made \in Nat
  BY DEF KeyTyped, Keys
<1>2. /\ PublicPems \subseteq PublicPems' /\ SoftKeys \subseteq SoftKeys' /\ Stubs' = Stubs
      /\ Fingerprints \subseteq Fingerprints'
  BY <1>1 DEF PublicPems, SoftKeys, Stubs, Fingerprints
<1>3. PrivateKeys \subseteq PrivateKeys'
  BY <1>2 DEF PrivateKeys
<1>4. KeyDirs \subseteq KeyDirs' /\ KeyCopies \subseteq KeyCopies'
  BY <1>2, <1>3 DEF KeyDirs, KeyCopies
<1>5. WriterJobs \subseteq WriterJobs'
  BY <1>1, <1>2, <1>3 DEF WriterJobs
<1>6. OtherJobs \subseteq OtherJobs'
  BY <1>2 DEF OtherJobs, EndedJobs, RevokeJobs, CheckJobs, SaidJobs
<1> QED BY <1>1, <1>2, <1>3, <1>4, <1>5, <1>6

\* A step of p that concerns the files of d.
OnlyAt(p, d) ==
  /\ made' \in {made, made + 1} /\ mixed \subseteq mixed' /\ cut \subseteq cut'
  /\ \A q \in Procs \ {p} : job'[q] = job[q]
  /\ \A e \in Dirs \ {d} : disk'[e] = disk[e] /\ store'[e] = store[e]
  /\ job[p] \in WriterJobs => job[p].d = d
  /\ job'[p] \in WriterJobs' => job'[p].d = d

LEMMA SameWriters ==
  ASSUME KeyTyped, KeyTyped', NEW q \in Procs, job'[q] = job[q]
  PROVE  job'[q] \in WriterJobs' <=> job[q] \in WriterJobs
<1>1. \A j \in WriterJobs : j.do \in {"keygen", "import", "repassphrase"}
  BY DEF WriterJobs
<1>2. \A j \in WriterJobs' : j.do \in {"keygen", "import", "repassphrase"}
  BY DEF WriterJobs
<1>3. \A j \in OtherJobs : j.do \notin {"keygen", "import", "repassphrase"}
  BY DEF OtherJobs, EndedJobs, RevokeJobs, CheckJobs, SaidJobs
<1>4. \A j \in OtherJobs' : j.do \notin {"keygen", "import", "repassphrase"}
  BY DEF OtherJobs, EndedJobs, RevokeJobs, CheckJobs, SaidJobs
<1>5. job[q] \in WriterJobs \cup OtherJobs /\ job'[q] \in WriterJobs' \cup OtherJobs'
  BY DEF KeyTyped, Procs
<1> QED BY <1>1, <1>2, <1>3, <1>4, <1>5

\* What is known of another directory stays known.
LEMMA OneDirectory ==
  ASSUME KeyAssumption, KeyTyped, KeyTyped', PairsMatched, NEW p \in Procs, NEW d \in Dirs,
         OnlyAt(p, d),
         d \notin mixed' \cup cut' =>
           /\ WritesIn(d) \subseteq {p}
           /\ job'[p] \in WriterJobs' => InHand(job[p])'
           /\ job'[p] \notin WriterJobs' => Matched(d)'
  PROVE  PairsMatched'
<1> SUFFICES ASSUME NEW e \in Dirs \ (mixed' \cup cut')
             PROVE  /\ \A q, r \in WritesIn(e)' : q = r
                    /\ WritesIn(e)' = {} => Matched(e)'
                    /\ \A q \in WritesIn(e)' : InHand(job[q])'
  BY DEF PairsMatched
<1>1. \A q \in Procs \ {p} : job'[q] = job[q] /\ (job'[q] \in WriterJobs' <=> job[q] \in WriterJobs)
  BY SameWriters DEF OnlyAt
<1>2. e \notin mixed \cup cut
  BY DEF OnlyAt
<1>3. CASE e = d
  <2>1. WritesIn(e)' = IF job'[p] \in WriterJobs' THEN {p} ELSE {}
    BY <1>1, <1>3 DEF WritesIn, OnlyAt, Procs
  <2> QED BY <2>1, <1>3
<1>4. CASE e # d
  <2>1. WritesIn(e)' = WritesIn(e) /\ p \notin WritesIn(e)
    BY <1>1, <1>4 DEF WritesIn, OnlyAt, Procs
  <2>2. disk'[e] = disk[e] /\ store'[e] = store[e]
    BY <1>4 DEF OnlyAt
  <2>3. Matched(e) => Matched(e)'
    BY <2>2 DEF Matched, KeyIn, Stubs
  <2>4. \A q \in WritesIn(e) : job'[q] = job[q] /\ job[q].d = e
    BY <1>1, <2>1 DEF WritesIn
  <2>5. ASSUME NEW q \in WritesIn(e) PROVE InHand(job[q])'
    <3>1. InHand(job[q]) /\ job[q].d = e /\ job'[q] = job[q]
      BY <1>2, <2>4, <2>5 DEF PairsMatched
    <3>2. PublicPems \subseteq PublicPems' /\ SoftKeys \subseteq SoftKeys' /\ Stubs' = Stubs
      BY MoreKeys DEF OnlyAt
    <3> QED BY <2>2, <2>3, <3>1, <3>2 DEF InHand, KeyIn
  <2> QED BY <1>2, <2>1, <2>3, <2>5 DEF PairsMatched
<1> QED BY <1>3, <1>4

\* A step that no writer takes, and that writes neither key file.
LEMMA NoWriter ==
  ASSUME KeyTyped, KeyTyped', PairsMatched, made' \in {made, made + 1},
         mixed \subseteq mixed', cut \subseteq cut', store' = store,
         \A e \in Dirs : disk'[e].pub = disk[e].pub /\ disk'[e].priv = disk[e].priv,
         \A q \in Procs : /\ job[q] \in WriterJobs => job'[q] = job[q]
                          /\ job'[q] \in WriterJobs' => job[q] \in WriterJobs
  PROVE  PairsMatched'
<1> SUFFICES ASSUME NEW e \in Dirs \ (mixed' \cup cut')
             PROVE  /\ \A q, r \in WritesIn(e)' : q = r
                    /\ WritesIn(e)' = {} => Matched(e)'
                    /\ \A q \in WritesIn(e)' : InHand(job[q])'
  BY DEF PairsMatched
<1>1. \A q \in Procs : /\ job'[q] \in WriterJobs' <=> job[q] \in WriterJobs
                       /\ job[q] \in WriterJobs => job'[q] = job[q]
  BY SameWriters
<1>2. e \notin mixed \cup cut /\ WritesIn(e)' = WritesIn(e)
  BY <1>1 DEF WritesIn, Procs
<1>3. Matched(e) => Matched(e)'
  BY DEF Matched, KeyIn, Stubs
<1>4. ASSUME NEW q \in WritesIn(e) PROVE InHand(job[q])'
  <2>1. InHand(job[q]) /\ job[q].d = e /\ job'[q] = job[q]
    BY <1>1, <1>2, <1>4 DEF PairsMatched, WritesIn
  <2>2. PublicPems \subseteq PublicPems' /\ SoftKeys \subseteq SoftKeys' /\ Stubs' = Stubs
    BY MoreKeys
  <2> QED BY <1>3, <2>1, <2>2 DEF InHand, KeyIn
<1> QED BY <1>2, <1>3, <1>4 DEF PairsMatched

\* The same of what stubs name.
LEMMA StubsAt ==
  ASSUME KeyTyped, KeyTyped', StubsStored, NEW p \in Procs, NEW d \in Dirs, OnlyAt(p, d),
         store[d] # None => store'[d] # None,
         Labelled(d, disk[d].priv)',
         job'[p] \in WriterJobs' =>
           IF job'[p].pc = "store"
           THEN /\ job'[p].label = d /\ job'[p].do = "keygen" /\ job'[p].first
                /\ job'[p].priv = HardwareStub(d) /\ job'[p].pub = PublicPem(job'[p].key)
           ELSE Labelled(d, job[p].priv)'
  PROVE  StubsStored'
<1>1. \A e \in Dirs : store[e] # None => store'[e] # None
  BY DEF OnlyAt
<1>2. \A e \in Dirs : Labelled(e, disk[e].priv)'
  <2>1. \A e \in Dirs \ {d} : Labelled(e, disk[e].priv)'
    BY <1>1 DEF OnlyAt, StubsStored, Labelled, Stubs
  <2> QED BY <2>1
<1>3. ASSUME NEW q \in Procs, job'[q] \in WriterJobs'
      PROVE  IF job'[q].pc = "store"
             THEN /\ job'[q].label = Dir(q)' /\ job'[q].do = "keygen" /\ job'[q].first
                  /\ job'[q].priv = HardwareStub(Dir(q)') /\ job'[q].pub = PublicPem(job'[q].key)
             ELSE Labelled(Dir(q), job[q].priv)'
  <2>1. CASE q = p
    <3>1. job'[p].d = d
      BY <1>3, <2>1 DEF OnlyAt
    <3> QED BY <1>3, <2>1, <3>1 DEF Dir, Labelled
  <2>2. CASE q # p
    <3>1. job'[q] = job[q] /\ job[q] \in WriterJobs
      BY <1>3, <2>2, SameWriters DEF OnlyAt
    <3>2. job[q].d \in Dirs
      BY <3>1 DEF WriterJobs
    <3> QED BY <1>1, <3>1, <3>2 DEF StubsStored, Dir, Labelled, Stubs
  <2> QED BY <2>1, <2>2
<1> QED BY <1>2, <1>3 DEF StubsStored, Dir, Procs

LEMMA StubsStay ==
  ASSUME KeyTyped, KeyTyped', StubsStored, made' \in {made, made + 1}, store' = store,
         \A e \in Dirs : disk'[e].priv = disk[e].priv,
         \A q \in Procs : /\ job[q] \in WriterJobs => job'[q] = job[q]
                          /\ job'[q] \in WriterJobs' => job[q] \in WriterJobs
  PROVE  StubsStored'
<1>1. \A e \in Dirs : Labelled(e, disk[e].priv)'
  BY DEF StubsStored, Labelled, Stubs
<1>2. ASSUME NEW q \in Procs, job'[q] \in WriterJobs'
      PROVE  job[q] \in WriterJobs /\ job'[q] = job[q]
  BY <1>2
<1> QED BY <1>1, <1>2 DEF StubsStored, Dir, Procs, Labelled, Stubs

-----------------------------------------------------------------------------
(* Starting a command. *)

LEMMA BeginTyped ==
  ASSUME KeyAssumption, KeyTyped, NEW p \in Procs, NEW j \in WriterJobs' \cup OtherJobs',
         made' \in {made, made + 1}, Begin(p, j), UNCHANGED window
  PROVE  KeyTyped'
<1>1. /\ made' \in Nat \ {0} /\ disk \in [Dirs -> KeyDirs'] /\ store \in [Dirs -> Keys' \cup {None}]
      /\ copy \in KeyCopies' /\ revoked \in [Dirs -> {None} \cup Fingerprints']
      /\ promised \in [Dirs -> {None} \cup PrivateKeys']
  BY MoreKeys DEF KeyTyped
<1>2. job \in [Procs -> WriterJobs' \cup OtherJobs']
  BY MoreKeys DEF KeyTyped
<1>3. job' \in [Procs -> WriterJobs' \cup OtherJobs']
  BY <1>2 DEF Begin, Go
<1>4. mixed' \subseteq Dirs
  <2>1. j \in WriterJobs' => j.d \in Dirs
    BY DEF WriterJobs
  <2>2. j \in OtherJobs' => j.do \notin {"keygen", "import", "repassphrase"}
    BY DEF OtherJobs, EndedJobs, RevokeJobs, CheckJobs, SaidJobs
  <2> QED BY <2>1, <2>2 DEF Begin, KeyTyped
<1>5. started' \in 0 .. MaxCommands
  BY DEF Begin, KeyTyped, KeyAssumption
<1> QED BY <1>1, <1>3, <1>4, <1>5 DEF KeyTyped, Begin, window, Procs

\* Where one begins to write and no other is writing, the files match.
LEMMA WriterBegins ==
  ASSUME KeyTyped, PairsMatched, NEW p \in Procs, ~Busy(p),
         NEW d \in Dirs, d \notin mixed \cup cut, ~Meets(p, d)
  PROVE  WritesIn(d) = {} /\ Matched(d)
<1>1. \A q \in Procs : job[q] \in WriterJobs => Writes(q) /\ Busy(q)
  BY JobKinds
<1>2. WritesIn(d) = {}
  BY <1>1 DEF WritesIn, Meets, Dir
<1> QED BY <1>2 DEF PairsMatched

\* A writer that begins has in its hands what there is, unless it is not alone.
LEMMA StartWriting ==
  ASSUME KeyAssumption, KeyInv, KeyTyped', NEW p \in Procs, NEW j \in WriterJobs',
         made' \in {made, made + 1}, ~Busy(p), job' = [job EXCEPT ![p] = j],
         UNCHANGED <<disk, store, cut, revoked, promised>>,
         mixed \subseteq mixed', Meets(p, j.d) => j.d \in mixed',
         IF j.pc = "store"
         THEN /\ j.label = j.d /\ j.do = "keygen" /\ j.first
              /\ j.priv = HardwareStub(j.d) /\ j.pub = PublicPem(j.key)
         ELSE Labelled(j.d, j.priv),
         job'[p] = j /\ j.d \notin mixed' /\ Matched(j.d) => InHand(job[p])'
  PROVE  KeyInv'
<1>1. /\ job'[p] = j /\ job[p] \notin WriterJobs /\ j.d \in Dirs
      /\ \A q \in Procs \ {p} : job'[q] = job[q]
  <2>1. job \in [Procs -> WriterJobs \cup OtherJobs] /\ job[p] \notin WriterJobs
    BY JobKinds DEF KeyInv, KeyTyped
  <2>2. j.d \in Dirs
    BY DEF WriterJobs
  <2> QED BY <2>1, <2>2
<1>2. OnlyAt(p, j.d)
  BY <1>1 DEF OnlyAt
<1>3. StubsStored'
  <2>1. Labelled(j.d, disk[j.d].priv)'
    BY <1>1 DEF KeyInv, StubsStored, Labelled, Stubs
  <2>2. Labelled(j.d, j.priv) => Labelled(j.d, job[p].priv)'
    BY <1>1 DEF Labelled, Stubs
  <2> QED BY <1>1, <1>2, <2>1, <2>2, StubsAt DEF KeyInv
<1>4. PairsMatched'
  <2>1. j.d \notin mixed' \cup cut' => WritesIn(j.d) = {} /\ Matched(j.d)
    BY <1>1, WriterBegins DEF KeyInv
  <2> QED BY <1>1, <1>2, <2>1, OneDirectory DEF KeyInv
<1>5. RevokedStaysRefused'
  <2>1. j.pc # "accepted"
    BY DEF WriterJobs
  <2> QED BY <1>1, <2>1 DEF RevokedStaysRefused, KeyInv, Procs
<1>6. SidecarKept' /\ PromiseKept'
  BY DEF SidecarKept, PromiseKept, KeyInv
<1> QED BY <1>3, <1>4, <1>5, <1>6 DEF KeyInv

LEMMA BeginWriting ==
  ASSUME KeyAssumption, KeyInv, NEW p \in Procs, NEW j \in WriterJobs',
         made' \in {made, made + 1}, Begin(p, j), UNCHANGED window,
         IF j.pc = "store"
         THEN /\ j.label = j.d /\ j.do = "keygen" /\ j.first
              /\ j.priv = HardwareStub(j.d) /\ j.pub = PublicPem(j.key)
         ELSE Labelled(j.d, j.priv),
         job'[p] = j /\ Matched(j.d) => InHand(job[p])'
  PROVE  KeyInv'
<1>1. KeyTyped'
  BY BeginTyped DEF KeyInv
<1>2. j.do \in {"keygen", "import", "repassphrase"}
  BY DEF WriterJobs
<1>3. /\ job' = [job EXCEPT ![p] = j] /\ UNCHANGED <<disk, store, cut, revoked, promised>>
      /\ ~Busy(p) /\ mixed' = IF Meets(p, j.d) THEN mixed \cup {j.d} ELSE mixed
  BY <1>2 DEF Begin, Go
<1> QED BY <1>1, <1>3, StartWriting

LEMMA KeygenKeeps ==
  ASSUME KeyAssumption, KeyInv, NEW p \in Procs, NEW d \in Dirs, NEW force \in BOOLEAN,
         NEW pass \in Protections, NEW expiry \in BOOLEAN, Keygen(p, d, force, pass, expiry)
  PROVE  KeyInv'
<1> DEFINE j == NewPair(made', PublicPem(made'), EncodePrivateKey(made', pass), d,
                        "keygen", "pub", expiry, None)
<1>1. made' = made + 1 /\ made' \in Nat /\ pass \in Passphrases \cup {None}
  BY DEF Keygen, KeyInv, KeyTyped, KeyAssumption
<1>2. made' \in Keys' /\ PublicPem(made') \in PublicPems'
      /\ EncodePrivateKey(made', pass) \in SoftKeys'
      /\ PublicPem(made').key = made' /\ EncodePrivateKey(made', pass).key = made'
  BY <1>1 DEF Keys, PublicPem, PublicPems, EncodePrivateKey, SoftKeys, Locks
<1>3. j \in WriterJobs'
  BY <1>2 DEF NewPair, WriterJobs, PrivateKeys
<1>4. j.priv \notin Stubs /\ Stubs' = Stubs
  <2>1. \A k \in SoftKeys' : k \notin Stubs
    BY DEF SoftKeys, Stubs
  <2> QED BY <1>2, <2>1 DEF NewPair, Stubs
<1>5. /\ j.pc = "pub" /\ j.do = "keygen" /\ j.first /\ j.d = d /\ j.pub = PublicPem(made')
      /\ j.priv = EncodePrivateKey(made', pass)
  BY DEF NewPair
<1>6. job'[p] = j => InHand(job[p])'
  BY <1>2, <1>4, <1>5 DEF InHand, KeyIn
<1> HIDE DEF j
<1>7. Begin(p, j) /\ UNCHANGED window
  BY DEF Keygen, j
<1> QED BY <1>1, <1>3, <1>4, <1>5, <1>6, <1>7, BeginWriting DEF Labelled

LEMMA HardwareKeeps ==
  ASSUME KeyAssumption, KeyInv, NEW p \in Procs, NEW d \in Dirs, NEW force \in BOOLEAN,
         NEW l \in Labels, KeygenHardware(p, d, force, l)
  PROVE  KeyInv'
<1> DEFINE j == NewPair(made', PublicPem(made'), HardwareStub(l), d, "keygen", "store", FALSE, l)
<1>1. made' = made + 1 /\ made' \in Nat /\ l = d
  BY DEF KeygenHardware, KeyInv, KeyTyped, KeyAssumption
<1>2. made' \in Keys' /\ PublicPem(made') \in PublicPems' /\ HardwareStub(l) \in PrivateKeys'
  BY <1>1 DEF Keys, PublicPem, PublicPems, HardwareStub, Stubs, PrivateKeys
<1>3. j \in WriterJobs'
  BY <1>1, <1>2 DEF NewPair, WriterJobs
<1>4. /\ j.pc = "store" /\ j.do = "keygen" /\ j.first /\ j.d = d /\ j.label = d /\ j.key = made'
      /\ j.priv = HardwareStub(d) /\ j.pub = PublicPem(made')
  BY <1>1 DEF NewPair
<1>5. job'[p] = j => InHand(job[p])'
  BY <1>4 DEF InHand
<1> HIDE DEF j
<1>6. Begin(p, j) /\ UNCHANGED window
  BY DEF KeygenHardware, j
<1> QED BY <1>1, <1>3, <1>4, <1>5, <1>6, BeginWriting

LEMMA ImportKeeps ==
  ASSUME KeyAssumption, KeyInv, NEW p \in Procs, NEW d \in Dirs, NEW force \in BOOLEAN,
         NEW pass \in Protections, NEW ssh \in SshFiles, NEW expiry \in BOOLEAN,
         ImportKey(p, d, force, pass, ssh, expiry)
  PROVE  KeyInv'
<1> DEFINE pub == PublicPem(SshKey)
           priv == EncodePrivateKey(SshKey, pass)
           j == NewPair(SshKey, IF expiry THEN PrependExpiry(pub) ELSE pub,
                        IF expiry THEN PrependExpiry(priv) ELSE priv, d, "import", "pub", FALSE, None)
<1>1. made' = made /\ made \in Nat /\ pass \in Passphrases \cup {None} /\ SshKey \in Keys
  BY DEF ImportKey, KeyInv, KeyTyped, KeyAssumption, SshKey, Keys
<1>2. pub \in PublicPems /\ pub.key = SshKey /\ priv \in SoftKeys /\ priv.key = SshKey
  BY <1>1, NewKeys
<1>3. /\ j.pub \in PublicPems /\ j.pub.key = SshKey /\ j.priv \in SoftKeys /\ j.priv.key = SshKey
      /\ j.pc = "pub" /\ j.do = "import" /\ j.first /\ j.d = d
  BY <1>1, <1>2, Prepended DEF NewPair
<1>4. j \in WriterJobs
  BY <1>1, <1>3 DEF NewPair, WriterJobs, PrivateKeys
<1>5. j \in WriterJobs' /\ Stubs' = Stubs /\ PublicPems' = PublicPems /\ j.priv \notin Stubs
  BY <1>1, <1>3, <1>4, MoreKeys, KeyKinds DEF KeyInv, PublicPems, Keys
<1> HIDE DEF j
<1>6. job'[p] = j => InHand(job[p])'
  BY <1>3, <1>5 DEF InHand, KeyIn
<1>7. Begin(p, j) /\ UNCHANGED window
  BY DEF ImportKey, j
<1> QED BY <1>1, <1>3, <1>5, <1>6, <1>7, BeginWriting DEF Labelled

\* A private key that is given a new passphrase stays the key it is.
LEMMA Repassphrased ==
  ASSUME KeyAssumption, made \in Nat, NEW priv \in PrivateKeys \cup {None},
         NEW old \in Passphrases, NEW new \in Passphrases, NEW legacy \in BOOLEAN,
         Repassphrase(priv, old, new, legacy) # None
  PROVE  /\ priv \in SoftKeys /\ Repassphrase(priv, old, new, legacy) \in SoftKeys
         /\ Repassphrase(priv, old, new, legacy).key = priv.key
<1>1. IsEncryptedKey(priv) /\ Repassphrase(priv, old, new, legacy) = EncodePrivateKey(priv.key, new)
  BY DEF Repassphrase
<1>2. priv \in SoftKeys
  BY <1>1, KeyKinds DEF IsEncryptedKey, PrivateKeys
<1>3. priv.key \in Keys
  BY <1>2 DEF SoftKeys
<1> QED BY <1>1, <1>2, <1>3, NewKeys

LEMMA Rewritten ==
  ASSUME KeyAssumption, made \in Nat, NEW d \in Dirs, NEW priv \in SoftKeys
  PROVE  LET j == Rewrite(d, priv) IN
         /\ j \in WriterJobs /\ j.pc = "priv" /\ j.do = "repassphrase" /\ j.d = d
         /\ j.priv = priv /\ ~j.first /\ ~j.expiry
<1> DEFINE j == Rewrite(d, priv)
<1>1. priv.key \in Keys
  BY DEF SoftKeys
<1>2. j \in WriterJobs
  BY <1>1 DEF Rewrite, NewPair, WriterJobs, PrivateKeys
<1>3. /\ j.pc = "priv" /\ j.do = "repassphrase" /\ j.d = d
      /\ j.priv = priv /\ ~j.first /\ ~j.expiry
  BY DEF Rewrite, NewPair
<1> QED BY <1>2, <1>3

LEMMA RewriteInHand ==
  ASSUME KeyAssumption, KeyTyped, made' = made, disk' = disk, store' = store,
         NEW p \in Procs, NEW d \in Dirs, NEW priv \in SoftKeys, job'[p] = Rewrite(d, priv),
         Matched(d), disk[d].priv \in SoftKeys, disk[d].priv.key = priv.key
  PROVE  InHand(job[p])'
<1>1. Matched(d)' /\ SoftKeys' = SoftKeys
  BY DEF Matched, KeyIn, Stubs, SoftKeys, Keys
<1>2. /\ job'[p].pc = "priv" /\ job'[p].do = "repassphrase" /\ job'[p].d = d
      /\ job'[p].priv = priv /\ ~job'[p].first /\ ~job'[p].expiry
  BY Rewritten DEF KeyTyped
<1> QED BY <1>1, <1>2 DEF InHand, Matched, KeyIn

LEMMA RepassphraseKeeps ==
  ASSUME KeyAssumption, KeyInv, NEW p \in Procs, NEW d \in Dirs, NEW old \in Passphrases,
         NEW new \in Passphrases, NEW legacy \in BOOLEAN, RepassphraseFile(p, d, old, new, legacy)
  PROVE  KeyInv'
<1> DEFINE priv == Repassphrase(disk[d].priv, old, new, legacy)
           j == Rewrite(d, priv)
<1>1. /\ made' = made /\ made \in Nat /\ priv # None /\ disk[d].priv \in PrivateKeys \cup {None}
      /\ Begin(p, j) /\ UNCHANGED window
  BY DEF RepassphraseFile, KeyInv, KeyTyped, KeyDirs
<1>2. disk[d].priv \in SoftKeys /\ priv \in SoftKeys /\ priv.key = disk[d].priv.key
  BY <1>1, Repassphrased
<1> HIDE DEF priv
<1>3. j \in WriterJobs /\ j.pc = "priv" /\ j.do = "repassphrase" /\ j.d = d /\ j.priv = priv
  BY <1>1, <1>2, Rewritten
<1>4. j \in WriterJobs' /\ Labelled(d, priv)
  BY <1>1, <1>2, <1>3, MoreKeys, KeyKinds DEF KeyInv, Labelled
<1>5. disk' = disk /\ store' = store
  BY <1>1 DEF Begin
<1>6. job'[p] = j /\ Matched(d) => InHand(job[p])'
  BY <1>1, <1>2, <1>5, RewriteInHand DEF KeyInv
<1> HIDE DEF j
<1> QED BY <1>1, <1>3, <1>4, <1>6, BeginWriting

LEMMA DoRepassphraseKeeps ==
  ASSUME KeyAssumption, KeyInv, NEW p \in Procs, NEW old \in Passphrases,
         NEW new \in Passphrases, NEW legacy \in BOOLEAN, DoRepassphrase(p, old, new, legacy)
  PROVE  KeyInv'
<1> DEFINE c == copy.priv
           priv == Repassphrase(c.pem, old, new, legacy)
           j == Rewrite(c.d, priv)
<1>1. /\ made' = made /\ made \in Nat /\ priv # None /\ ~Busy(p)
      /\ c.d \in Dirs /\ c.pem \in PrivateKeys
      /\ job' = [job EXCEPT ![p] = j] /\ UNCHANGED <<disk, store, window, revoked, promised, cut, faults>>
      /\ started < MaxCommands /\ started' = started + 1
      /\ mixed' = IF Meets(p, c.d) \/ Stale(c) THEN mixed \cup {c.d} ELSE mixed
  BY DEF DoRepassphrase, KeyInv, KeyTyped, KeyCopies, Go
<1>2. c.pem \in SoftKeys /\ priv \in SoftKeys /\ priv.key = c.pem.key
  BY <1>1, Repassphrased
<1> HIDE DEF priv, c
<1>3. j \in WriterJobs /\ j.pc = "priv" /\ j.do = "repassphrase" /\ j.d = c.d /\ j.priv = priv
  BY <1>1, <1>2, Rewritten
<1>4. j \in WriterJobs' /\ Labelled(c.d, priv)
  BY <1>1, <1>2, <1>3, MoreKeys, KeyKinds DEF KeyInv, Labelled
<1>5. ~Stale(c) => disk[c.d].priv \in SoftKeys /\ disk[c.d].priv.key = priv.key
  <2>1. disk[c.d].priv \in PrivateKeys \cup {None}
    BY <1>1 DEF KeyInv, KeyTyped, KeyDirs
  <2> QED BY <1>1, <1>2, <2>1, KeyKinds DEF Stale, PrivateKeys
<1>6. job'[p] = j /\ c.d \notin mixed' /\ Matched(c.d) => InHand(job[p])'
  BY <1>1, <1>2, <1>5, RewriteInHand DEF KeyInv
<1> HIDE DEF j
<1>7. KeyTyped'
  <2>1. job' \in [Procs -> WriterJobs' \cup OtherJobs']
    BY <1>1, <1>4, MoreKeys DEF KeyInv, KeyTyped
  <2>2. mixed' \subseteq Dirs /\ started' \in 0 .. MaxCommands
    BY <1>1 DEF KeyInv, KeyTyped, KeyAssumption
  <2>3. /\ disk' \in [Dirs -> KeyDirs'] /\ store' \in [Dirs -> Keys' \cup {None}]
        /\ copy' \in KeyCopies' /\ revoked' \in [Dirs -> {None} \cup Fingerprints']
        /\ promised' \in [Dirs -> {None} \cup PrivateKeys']
    BY <1>1, MoreKeys DEF KeyInv, KeyTyped, window
  <2> QED BY <1>1, <2>1, <2>2, <2>3 DEF KeyInv, KeyTyped, window, Procs
<1>8. mixed \subseteq mixed' /\ (Meets(p, j.d) => j.d \in mixed')
  BY <1>1, <1>3
<1>9. made' \in {made, made + 1} /\ Labelled(j.d, j.priv) /\ j.pc # "store"
  BY <1>1, <1>3, <1>4
<1> QED BY <1>1, <1>3, <1>4, <1>6, <1>7, <1>8, <1>9, StartWriting

\* A command that writes no key file.
LEMMA BeginOther ==
  ASSUME KeyAssumption, KeyInv, NEW p \in Procs, NEW j \in OtherJobs,
         made' = made, Begin(p, j), UNCHANGED window, j.pc = "accepted" => p \in Gui
  PROVE  KeyInv'
<1>1. j \in OtherJobs' /\ j \notin WriterJobs'
  <2>1. \A k \in OtherJobs' : k \notin WriterJobs'
    BY DEF OtherJobs, EndedJobs, RevokeJobs, CheckJobs, SaidJobs, WriterJobs
  <2> QED BY <2>1, MoreKeys DEF KeyInv
<1>2. KeyTyped'
  BY <1>1, BeginTyped DEF KeyInv
<1>3. /\ job[p] \notin WriterJobs /\ job'[p] = j /\ \A q \in Procs \ {p} : job'[q] = job[q]
      /\ UNCHANGED <<disk, store, revoked, promised, cut, mixed>>
  <2>1. job \in [Procs -> WriterJobs \cup OtherJobs]
    BY DEF KeyInv, KeyTyped
  <2>2. j.do \notin {"keygen", "import", "repassphrase"}
    BY DEF OtherJobs, EndedJobs, RevokeJobs, CheckJobs, SaidJobs
  <2> QED BY <2>1, <2>2, JobKinds DEF Begin, Go, KeyInv
<1>4. \A q \in Procs : /\ job[q] \in WriterJobs => job'[q] = job[q]
                       /\ job'[q] \in WriterJobs' => job[q] \in WriterJobs
  BY <1>1, <1>2, <1>3, SameWriters DEF KeyInv
<1>5. StubsStored' /\ PairsMatched'
  BY <1>2, <1>3, <1>4, StubsStay, NoWriter DEF KeyInv
<1>6. RevokedStaysRefused'
  BY <1>3 DEF RevokedStaysRefused, KeyInv, Procs, KeyAssumption
<1>7. SidecarKept' /\ PromiseKept'
  BY <1>3 DEF SidecarKept, PromiseKept, KeyInv
<1> QED BY <1>2, <1>5, <1>6, <1>7 DEF KeyInv

LEMMA Fingerprinted ==
  ASSUME made \in Nat, NEW pub \in PublicPems \cup {None, Half}
  PROVE  FingerprintPem(pub) \in Fingerprints
BY DEF FingerprintPem, PublicPems, Fingerprints

LEMMA OtherBegins ==
  ASSUME KeyAssumption, KeyInv, NEW p \in Procs,
         \/ \E d \in Dirs : RevokeKey(p, d) \/ ReadRecipient(p, d)
         \/ EncryptForLoaded(p)
  PROVE  KeyInv'
<1>1. made \in Nat /\ \A d \in Dirs : FingerprintPem(disk[d].pub) \in Fingerprints
  BY Fingerprinted DEF KeyInv, KeyTyped, KeyDirs
<1>2. ASSUME NEW d \in Dirs, RevokeKey(p, d) PROVE KeyInv'
  <2> DEFINE j == [pc |-> "revoke", do |-> "revoke", d |-> d, key |-> FingerprintPem(disk[d].pub)]
  <2>1. j \in OtherJobs /\ j.pc # "accepted"
    BY <1>1 DEF OtherJobs, RevokeJobs
  <2>2. Begin(p, j) /\ made' = made /\ UNCHANGED window
    BY <1>2 DEF RevokeKey
  <2> QED BY <2>1, <2>2, BeginOther
<1>3. ASSUME NEW d \in Dirs, ReadRecipient(p, d) PROVE KeyInv'
  <2> DEFINE j == [pc |-> "check", do |-> "encrypt", d |-> d, key |-> FingerprintPem(disk[d].pub)]
  <2>1. j \in OtherJobs /\ j.pc # "accepted"
    BY <1>1 DEF OtherJobs, CheckJobs
  <2>2. Begin(p, j) /\ made' = made /\ UNCHANGED window
    BY <1>3 DEF ReadRecipient
  <2> QED BY <2>1, <2>2, BeginOther
<1>4. CASE EncryptForLoaded(p)
  <2> DEFINE j == [pc |-> "accepted", do |-> "encrypt", d |-> copy.pub.d, key |-> copy.pub.key,
                   gone |-> revoked[copy.pub.d]]
  <2>1. copy.pub.d \in Dirs /\ copy.pub.key \in Fingerprints
    BY <1>4 DEF EncryptForLoaded, KeyInv, KeyTyped, KeyCopies
  <2>2. j \in OtherJobs
    BY <2>1 DEF OtherJobs, SaidJobs, KeyInv, KeyTyped
  <2>3. Begin(p, j) /\ made' = made /\ UNCHANGED window /\ p \in Gui
    BY <1>4 DEF EncryptForLoaded
  <2> QED BY <2>2, <2>3, BeginOther
<1> QED BY <1>2, <1>3, <1>4

-----------------------------------------------------------------------------
(* Writing the files of a pair. *)

WriterPcs == {"store", "pub", "fill", "priv", "expiry", "reread"}

LEMMA AtWork ==
  ASSUME KeyTyped, NEW p \in Procs
  PROVE  /\ job[p].pc \in WriterPcs => job[p] \in WriterJobs
         /\ job[p].pc \in {"revoke", "sidecar"} => job[p] \in RevokeJobs
         /\ job[p].pc = "check" => job[p] \in CheckJobs
         /\ job[p].pc \in Resting => job[p] \in OtherJobs
<1>1. job[p] \in WriterJobs \cup OtherJobs
  BY DEF KeyTyped
<1> QED BY <1>1 DEF WriterPcs, Resting, WriterJobs, OtherJobs, EndedJobs, RevokeJobs, CheckJobs,
                    SaidJobs

\* A writer's next step: it keeps what it has, or has ended.
LEMMA Stepped ==
  ASSUME KeyTyped, NEW p \in Procs, job[p] \in WriterJobs,
         NEW pc \in WriterPcs \cup {"ok", "failed"}, Step(p, pc), made' = made
  PROVE  /\ job' \in [Procs -> WriterJobs' \cup OtherJobs']
         /\ \A q \in Procs \ {p} : job'[q] = job[q]
         /\ job'[p].pc = pc
         /\ pc \notin WriterPcs => job'[p] \notin WriterJobs'
         /\ pc \in WriterPcs =>
              /\ job'[p] \in WriterJobs'
              /\ job'[p].do = job[p].do /\ job'[p].d = job[p].d /\ job'[p].key = job[p].key
              /\ job'[p].pub = job[p].pub /\ job'[p].priv = job[p].priv
              /\ job'[p].expiry = job[p].expiry /\ job'[p].label = job[p].label
              /\ job'[p].first = job[p].first
<1>1. job \in [Procs -> WriterJobs \cup OtherJobs]
  BY DEF KeyTyped
<1>2. WriterJobs \subseteq WriterJobs' /\ OtherJobs \subseteq OtherJobs'
  BY MoreKeys
<1>3. CASE pc \in WriterPcs
  <2>1. job' = [job EXCEPT ![p] = [job[p] EXCEPT !.pc = pc]]
    BY <1>3 DEF Step, Go, WriterPcs, Resting
  <2>2. [job[p] EXCEPT !.pc = pc] \in WriterJobs
    BY <1>3 DEF WriterJobs, WriterPcs
  <2>3. job'[p] = [job[p] EXCEPT !.pc = pc] /\ \A q \in Procs \ {p} : job'[q] = job[q]
    BY <1>1, <2>1
  <2>4. job' \in [Procs -> WriterJobs' \cup OtherJobs']
    BY <1>1, <1>2, <2>1, <2>2
  <2>5. /\ job'[p].pc = pc
        /\ job'[p].do = job[p].do /\ job'[p].d = job[p].d /\ job'[p].key = job[p].key
        /\ job'[p].pub = job[p].pub /\ job'[p].priv = job[p].priv
        /\ job'[p].expiry = job[p].expiry /\ job'[p].label = job[p].label
        /\ job'[p].first = job[p].first
    BY <2>3 DEF WriterJobs
  <2> QED BY <1>2, <1>3, <2>2, <2>3, <2>4, <2>5
<1>4. CASE pc \in {"ok", "failed"}
  <2>1. job' = [job EXCEPT ![p] = Ended(pc)] /\ pc \notin WriterPcs
    BY <1>4 DEF Step, Go, WriterPcs, Resting
  <2>2. Ended(pc) \in OtherJobs /\ Ended(pc).pc = pc /\ Ended(pc) \notin WriterJobs'
    BY <1>4 DEF Ended, OtherJobs, EndedJobs, WriterJobs
  <2>3. job'[p] = Ended(pc) /\ \A q \in Procs \ {p} : job'[q] = job[q]
    BY <1>1, <2>1
  <2> QED BY <1>1, <1>2, <2>1, <2>2, <2>3
<1> QED BY <1>3, <1>4

\* One step of a writer, from what it does in its own directory.
LEMMA WriterStep ==
  ASSUME KeyAssumption, KeyInv, KeyTyped', NEW p \in Procs, NEW d \in Dirs,
         job[p] \in WriterJobs, d = job[p].d, OnlyAt(p, d), revoked' = revoked,
         \A e \in Dirs : disk'[e].rev = disk[e].rev,
         promised'[d] \in {None, disk'[d].priv},
         \A e \in Dirs \ {d} : promised'[e] \in {None, promised[e]},
         job'[p].pc # "accepted",
         store[d] # None => store'[d] # None, Labelled(d, disk[d].priv)',
         job'[p] \in WriterJobs' => job'[p].pc # "store" /\ Labelled(d, job[p].priv)',
         d \notin mixed' \cup cut' /\ InHand(job[p]) =>
           /\ job'[p] \in WriterJobs' => InHand(job[p])'
           /\ job'[p] \notin WriterJobs' => Matched(d)'
  PROVE  KeyInv'
<1>1. StubsStored'
  BY StubsAt DEF KeyInv
<1>2. PairsMatched'
  <2>1. d \notin mixed' \cup cut' => WritesIn(d) \subseteq {p} /\ InHand(job[p])
    BY DEF KeyInv, PairsMatched, WritesIn, OnlyAt
  <2> QED BY <2>1, OneDirectory DEF KeyInv
<1>3. RevokedStaysRefused'
  BY DEF KeyInv, RevokedStaysRefused, OnlyAt, Procs
<1>4. SidecarKept'
  BY DEF KeyInv, SidecarKept
<1>5. PromiseKept'
  <2>1. \A e \in Dirs \ {d} : disk'[e] = disk[e] /\ promised[e] \in {None, disk[e].priv}
    BY DEF OnlyAt, KeyInv, PromiseKept
  <2> QED BY <2>1 DEF PromiseKept
<1> QED BY <1>1, <1>2, <1>3, <1>4, <1>5 DEF KeyInv

LEMMA GenerateKeeps ==
  ASSUME KeyAssumption, KeyInv, NEW p \in Procs, GenerateAndStore(p)
  PROVE  KeyInv'
<1>1. job[p].pc = "store" /\ job[p] \in WriterJobs /\ made' = made
  BY AtWork DEF GenerateAndStore, KeyInv, WriterPcs, budget
<1>0. PICK d \in Dirs : d = job[p].d
  BY <1>1 DEF WriterJobs
<1>2. /\ job[p].label = d /\ job[p].do = "keygen" /\ job[p].first /\ d \in Dirs
      /\ job[p].priv = HardwareStub(d) /\ job[p].pub = PublicPem(job[p].key) /\ job[p].key \in Keys
  BY <1>0, <1>1 DEF KeyInv, StubsStored, Dir, WriterJobs
<1>3. /\ job' \in [Procs -> WriterJobs' \cup OtherJobs'] /\ \A q \in Procs \ {p} : job'[q] = job[q]
      /\ job'[p] \in WriterJobs' /\ job'[p].pc = "pub" /\ job'[p].do = "keygen"
         /\ job'[p].d = d /\ job'[p].key = job[p].key
      /\ job'[p].pub = job[p].pub /\ job'[p].priv = job[p].priv /\ job'[p].first
  BY <1>0, <1>1, <1>2, Stepped DEF GenerateAndStore, KeyInv, WriterPcs
<1>4. /\ store' = [store EXCEPT ![d] = job[p].key] /\ store \in [Dirs -> Keys \cup {None}]
      /\ promised' = [e \in Dirs |-> IF disk[e].priv = HardwareStub(d) THEN None ELSE promised[e]]
      /\ UNCHANGED <<disk, window, revoked, mixed, cut, budget>>
  BY <1>2 DEF GenerateAndStore, KeyInv, KeyTyped
<1>5. store'[d] = job[p].key /\ store'[d] # None /\ \A e \in Dirs \ {d} : store'[e] = store[e]
  BY <1>1, <1>2, <1>4 DEF KeyAssumption, Keys, KeyInv, KeyTyped
<1>6. KeyTyped'
  <2>1. store' \in [Dirs -> Keys \cup {None}] /\ promised' \in [Dirs -> {None} \cup PrivateKeys]
    BY <1>2, <1>4 DEF KeyInv, KeyTyped
  <2>2. /\ Keys' = Keys /\ PrivateKeys' = PrivateKeys /\ KeyDirs' = KeyDirs
        /\ Fingerprints' = Fingerprints /\ KeyCopies' = KeyCopies
    BY <1>1 DEF Keys, PrivateKeys, KeyDirs, Fingerprints, KeyCopies, SoftKeys, Stubs, PublicPems
  <2> QED BY <1>3, <1>4, <2>1, <2>2 DEF KeyInv, KeyTyped, window, budget, Procs
<1>7. OnlyAt(p, d)
  BY <1>0, <1>1, <1>3, <1>4, <1>5 DEF OnlyAt
<1>8. promised'[d] \in {None, disk'[d].priv} /\ \A e \in Dirs \ {d} : promised'[e] \in {None, promised[e]}
  BY <1>2, <1>4 DEF KeyInv, PromiseKept
<1>9. HardwareStub(d) \in Stubs /\ HardwareStub(d).label = d /\ Stubs' = Stubs
  BY <1>2 DEF HardwareStub, Stubs
<1>10. Labelled(d, disk[d].priv)' /\ Labelled(d, job[p].priv)'
  BY <1>2, <1>3, <1>4, <1>5, <1>9 DEF Labelled, KeyInv, StubsStored
<1>11. InHand(job[p])'
  <2>1. job'[p].pub \in PublicPems' /\ job'[p].pub.key = store'[d]
    <3>1. PublicPem(job[p].key) \in PublicPems /\ PublicPem(job[p].key).key = job[p].key
      BY <1>2 DEF PublicPem, PublicPems
    <3> QED BY <1>1, <1>2, <1>3, <1>5, <3>1 DEF PublicPems, Keys
  <2> QED BY <1>2, <1>3, <1>9, <2>1 DEF InHand, KeyIn
<1>12. job'[p].pc = "pub" /\ revoked' = revoked /\ disk' = disk
  BY <1>3, <1>4
<1> QED BY <1>0, <1>1, <1>3, <1>5, <1>6, <1>7, <1>8, <1>10, <1>11, <1>12, WriterStep

\* Writing one file of a directory.
LEMMA FileSet ==
  ASSUME KeyTyped, NEW d \in Dirs
  PROVE  /\ \A new \in PublicPems \cup {None, Half} :
              LET D == [disk EXCEPT ![d].pub = new] IN
              /\ D \in [Dirs -> KeyDirs] /\ D[d].pub = new /\ D[d].priv = disk[d].priv
              /\ \A e \in Dirs : D[e].rev = disk[e].rev
              /\ \A e \in Dirs \ {d} : D[e] = disk[e]
         /\ \A new \in PrivateKeys \cup {None} :
              LET D == [disk EXCEPT ![d].priv = new] IN
              /\ D \in [Dirs -> KeyDirs] /\ D[d].priv = new /\ D[d].pub = disk[d].pub
              /\ \A e \in Dirs : D[e].rev = disk[e].rev
              /\ \A e \in Dirs \ {d} : D[e] = disk[e]
         /\ \A new \in {None, Half} \cup Fingerprints :
              LET D == [disk EXCEPT ![d].rev = new] IN
              /\ D \in [Dirs -> KeyDirs] /\ D[d].rev = new
              /\ \A e \in Dirs : D[e].pub = disk[e].pub /\ D[e].priv = disk[e].priv
              /\ \A e \in Dirs \ {d} : D[e] = disk[e]
<1>1. disk \in [Dirs -> KeyDirs]
  BY DEF KeyTyped
<1> QED BY <1>1 DEF KeyDirs

\* What a step types that makes no key.
LEMMA FileTyped ==
  ASSUME KeyTyped, made' = made, faults' \in 0 .. MaxFaults,
         job' \in [Procs -> WriterJobs' \cup OtherJobs'], disk' \in [Dirs -> KeyDirs],
         promised' \in [Dirs -> {None} \cup PrivateKeys],
         revoked' \in [Dirs -> {None} \cup Fingerprints], cut' \subseteq Dirs,
         copy' \in KeyCopies, UNCHANGED <<store, list, label, mixed, started>>
  PROVE  KeyTyped'
<1>1. /\ Keys' = Keys /\ PrivateKeys' = PrivateKeys /\ KeyDirs' = KeyDirs
      /\ Fingerprints' = Fingerprints /\ KeyCopies' = KeyCopies
  BY DEF Keys, PrivateKeys, KeyDirs, Fingerprints, KeyCopies, SoftKeys, Stubs, PublicPems
<1> QED BY <1>1 DEF KeyTyped, Procs

LEMMA TruncateKeeps ==
  ASSUME KeyAssumption, KeyInv, NEW p \in Procs, TruncatePublicKey(p)
  PROVE  KeyInv'
<1>1. job[p].pc = "pub" /\ job[p] \in WriterJobs /\ made' = made
  BY AtWork DEF TruncatePublicKey, KeyInv, WriterPcs, budget
<1>2. PICK d \in Dirs : d = job[p].d
  BY <1>1 DEF WriterJobs
<1>3. /\ job' \in [Procs -> WriterJobs' \cup OtherJobs'] /\ \A q \in Procs \ {p} : job'[q] = job[q]
      /\ job'[p] \in WriterJobs' /\ job'[p].pc = "fill" /\ job'[p].do = job[p].do /\ job'[p].d = d
      /\ job'[p].pub = job[p].pub /\ job'[p].priv = job[p].priv /\ job'[p].first = job[p].first
  BY <1>1, <1>2, Stepped DEF TruncatePublicKey, KeyInv, WriterPcs
<1>4. /\ disk' = [disk EXCEPT ![d].pub = Half] /\ UNCHANGED <<store, window, history, budget>>
  BY <1>2 DEF TruncatePublicKey, Dir
<1>5. /\ disk' \in [Dirs -> KeyDirs] /\ disk'[d].pub = Half /\ disk'[d].priv = disk[d].priv
      /\ \A e \in Dirs : disk'[e].rev = disk[e].rev
      /\ \A e \in Dirs \ {d} : disk'[e] = disk[e]
  BY <1>4, FileSet DEF KeyInv
<1>6. KeyTyped'
  BY <1>3, <1>4, <1>5, FileTyped DEF KeyInv, KeyTyped, window, history, budget
<1>7. OnlyAt(p, d)
  BY <1>1, <1>2, <1>3, <1>4, <1>5 DEF OnlyAt, history, budget
<1>8. promised' = promised /\ promised'[d] \in {None, disk'[d].priv} /\ revoked' = revoked
      /\ store' = store
  BY <1>4, <1>5 DEF KeyInv, PromiseKept, history
<1>9. Labelled(d, disk[d].priv)' /\ Labelled(d, job[p].priv)'
  BY <1>1, <1>2, <1>3, <1>5, <1>8 DEF KeyInv, StubsStored, Labelled, Stubs, Dir
<1>10. ASSUME InHand(job[p]) PROVE InHand(job[p])'
  <2>1. job[p].do # "repassphrase"
    BY <1>1, <1>10 DEF InHand
  <2>2. Stubs' = Stubs /\ PublicPems' = PublicPems
    BY <1>1 DEF Stubs, PublicPems, Keys
  <2> QED BY <1>1, <1>2, <1>3, <1>5, <1>8, <1>10, <2>1, <2>2 DEF InHand, KeyIn
<1> QED BY <1>1, <1>2, <1>3, <1>5, <1>6, <1>7, <1>8, <1>9, <1>10, WriterStep

LEMMA WritePublicKeeps ==
  ASSUME KeyAssumption, KeyInv, NEW p \in Procs, WritePublicKey(p)
  PROVE  KeyInv'
<1> DEFINE pc == IF p \in Gui /\ ~job[p].first THEN "reread" ELSE "priv"
<1>1. job[p].pc \in {"pub", "fill"} /\ job[p] \in WriterJobs /\ made' = made
  BY AtWork DEF WritePublicKey, KeyInv, WriterPcs, budget
<1>2. PICK d \in Dirs : d = job[p].d
  BY <1>1 DEF WriterJobs
<1>3. /\ job' \in [Procs -> WriterJobs' \cup OtherJobs'] /\ \A q \in Procs \ {p} : job'[q] = job[q]
      /\ job'[p] \in WriterJobs' /\ job'[p].pc = pc /\ job'[p].do = job[p].do /\ job'[p].d = d
      /\ job'[p].pub = job[p].pub /\ job'[p].priv = job[p].priv /\ job'[p].first = job[p].first
  <2>1. Step(p, pc) /\ pc \in WriterPcs
    BY DEF WritePublicKey, WriterPcs
  <2> HIDE DEF pc
  <2> QED BY <1>1, <1>2, <2>1, Stepped DEF KeyInv
<1>4. /\ disk' = [disk EXCEPT ![d].pub = job[p].pub] /\ UNCHANGED <<store, window, history, budget>>
  BY <1>2 DEF WritePublicKey, Dir
<1>5. /\ disk' \in [Dirs -> KeyDirs] /\ disk'[d].pub = job[p].pub /\ disk'[d].priv = disk[d].priv
      /\ \A e \in Dirs : disk'[e].rev = disk[e].rev
      /\ \A e \in Dirs \ {d} : disk'[e] = disk[e]
  <2>1. job[p].pub \in PublicPems \cup {None, Half}
    BY <1>1 DEF WriterJobs
  <2> QED BY <1>4, <2>1, FileSet DEF KeyInv
<1>6. KeyTyped'
  BY <1>3, <1>4, <1>5, FileTyped DEF KeyInv, KeyTyped, window, history, budget
<1>7. OnlyAt(p, d)
  BY <1>1, <1>2, <1>3, <1>4, <1>5 DEF OnlyAt, history, budget
<1>8. promised' = promised /\ promised'[d] \in {None, disk'[d].priv} /\ revoked' = revoked
      /\ store' = store /\ pc \in {"reread", "priv"} /\ (pc = "reread" => ~job[p].first)
  BY <1>4, <1>5 DEF KeyInv, PromiseKept, history
<1>9. Labelled(d, disk[d].priv)' /\ Labelled(d, job[p].priv)'
  BY <1>1, <1>2, <1>3, <1>5, <1>8 DEF KeyInv, StubsStored, Labelled, Stubs, Dir
<1> HIDE DEF pc
<1>10. ASSUME InHand(job[p]) PROVE InHand(job[p])'
  <2>1. job[p].do # "repassphrase"
    BY <1>1, <1>10 DEF InHand
  <2>2. Stubs' = Stubs /\ PublicPems' = PublicPems
    BY <1>1 DEF Stubs, PublicPems, Keys
  <2> QED BY <1>1, <1>2, <1>3, <1>5, <1>8, <1>10, <2>1, <2>2 DEF InHand, KeyIn
<1> QED BY <1>1, <1>2, <1>3, <1>5, <1>6, <1>7, <1>8, <1>9, <1>10, WriterStep

LEMMA WritePrivateKeeps ==
  ASSUME KeyAssumption, KeyInv, NEW p \in Procs, WritePrivateFile(p)
  PROVE  KeyInv'
<1> DEFINE pc == IF job[p].expiry THEN "expiry" ELSE "ok"
<1>1. job[p].pc = "priv" /\ job[p] \in WriterJobs /\ made' = made
  BY AtWork DEF WritePrivateFile, KeyInv, WriterPcs, budget
<1>2. PICK d \in Dirs : d = job[p].d
  BY <1>1 DEF WriterJobs
<1>3. /\ job' \in [Procs -> WriterJobs' \cup OtherJobs'] /\ \A q \in Procs \ {p} : job'[q] = job[q]
      /\ job'[p].pc = pc
      /\ pc = "ok" => job'[p] \notin WriterJobs'
      /\ pc # "ok" =>
           /\ job'[p] \in WriterJobs' /\ job'[p].do = job[p].do /\ job'[p].d = d
           /\ job'[p].pub = job[p].pub /\ job'[p].priv = job[p].priv /\ job'[p].first = job[p].first
  <2>1. Step(p, pc) /\ pc \in {"expiry", "ok"} /\ "expiry" \in WriterPcs /\ "ok" \notin WriterPcs
    BY DEF WritePrivateFile, WriterPcs
  <2> HIDE DEF pc
  <2> QED BY <1>1, <1>2, <2>1, Stepped DEF KeyInv
<1>4. /\ disk' = [disk EXCEPT ![d].priv = job[p].priv] /\ UNCHANGED <<store, window, revoked, mixed, cut, budget>>
      /\ promised' = [promised EXCEPT ![d] = job[p].priv]
  BY <1>2 DEF WritePrivateFile, Dir
<1>5. /\ disk' \in [Dirs -> KeyDirs] /\ disk'[d].priv = job[p].priv /\ disk'[d].pub = disk[d].pub
      /\ \A e \in Dirs : disk'[e].rev = disk[e].rev
      /\ \A e \in Dirs \ {d} : disk'[e] = disk[e]
      /\ promised' \in [Dirs -> {None} \cup PrivateKeys] /\ promised'[d] = job[p].priv
      /\ \A e \in Dirs \ {d} : promised'[e] = promised[e]
  <2>1. job[p].priv \in PrivateKeys
    BY <1>1 DEF WriterJobs
  <2>2. promised \in [Dirs -> {None} \cup PrivateKeys]
    BY DEF KeyInv, KeyTyped
  <2> QED BY <1>4, <2>1, <2>2, FileSet DEF KeyInv
<1>6. KeyTyped'
  BY <1>3, <1>4, <1>5, FileTyped DEF KeyInv, KeyTyped, window, budget
<1>7. OnlyAt(p, d)
  BY <1>1, <1>2, <1>3, <1>4, <1>5 DEF OnlyAt, budget
<1>8. store' = store /\ revoked' = revoked /\ pc \in {"expiry", "ok"} /\ (pc = "ok"
          => ~job[p].expiry)
      /\ (~job[p].expiry => pc = "ok")
  BY <1>4
<1>9. Labelled(d, disk[d].priv)' /\ (pc # "ok" => Labelled(d, job[p].priv)')
  BY <1>1, <1>2, <1>3, <1>5, <1>8 DEF KeyInv, StubsStored, Labelled, Stubs, Dir
<1> HIDE DEF pc
<1>10. ASSUME InHand(job[p]) PROVE /\ pc # "ok" => InHand(job[p])'
                                   /\ pc = "ok" => Matched(d)'
  <2>1. Stubs' = Stubs /\ PublicPems' = PublicPems /\ SoftKeys' = SoftKeys
    BY <1>1 DEF Stubs, PublicPems, SoftKeys, Keys
  <2>2. CASE job[p].do = "repassphrase"
    <3>1. /\ pc = "ok" /\ Matched(d) /\ job[p].priv \in SoftKeys /\ disk[d].priv \in SoftKeys
          /\ job[p].priv.key = disk[d].priv.key
      BY <1>2, <1>8, <1>10, <2>2 DEF InHand
    <3>2. disk[d].priv # None /\ job[p].priv \notin Stubs /\ disk[d].priv \notin Stubs
      BY <1>1, <3>1, KeyKinds DEF KeyInv, KeyTyped
    <3> QED BY <1>5, <1>8, <2>1, <3>1, <3>2 DEF Matched, KeyIn
  <2>3. CASE job[p].do # "repassphrase"
    <3>1. /\ job[p].pub \in PublicPems /\ job[p].pub.key = KeyIn(d, job[p].priv)
          /\ disk[d].pub = job[p].pub
      BY <1>1, <1>2, <1>10, <2>3 DEF InHand
    <3>2. job[p].pub # Half /\ job[p].priv # None
      BY <1>1, <3>1, KeyKinds DEF KeyInv, KeyTyped, WriterJobs, PrivateKeys
    <3>3. pc = "ok" => Matched(d)'
      BY <1>5, <1>8, <2>1, <3>1, <3>2 DEF Matched, KeyIn
    <3>4. pc # "ok" => InHand(job[p])'
      BY <1>3, <1>5, <1>8, <2>1, <2>3, <3>1, <3>2 DEF InHand, KeyIn
    <3> QED BY <3>3, <3>4
  <2> QED BY <2>2, <2>3
<1> QED BY <1>1, <1>2, <1>3, <1>5, <1>6, <1>7, <1>8, <1>9, <1>10, WriterStep

LEMMA FailKeeps ==
  ASSUME KeyAssumption, KeyInv, NEW p \in Procs, FailPrivateFile(p)
  PROVE  KeyInv'
<1> DEFINE pc == IF p \in Gui /\ job[p].do = "keygen" /\ ~job[p].first THEN "ok" ELSE "failed"
<1>1. job[p].pc = "priv" /\ job[p] \in WriterJobs /\ made' = made
  BY AtWork DEF FailPrivateFile, KeyInv, WriterPcs
<1>2. PICK d \in Dirs : d = job[p].d
  BY <1>1 DEF WriterJobs
<1>3. /\ job' \in [Procs -> WriterJobs' \cup OtherJobs'] /\ \A q \in Procs \ {p} : job'[q] = job[q]
      /\ job'[p].pc \in {"ok", "failed"} /\ job'[p] \notin WriterJobs'
  <2>1. Step(p, pc) /\ pc \in {"ok", "failed"} /\ pc \notin WriterPcs
    BY DEF FailPrivateFile, WriterPcs
  <2> HIDE DEF pc
  <2> QED BY <1>1, <2>1, Stepped DEF KeyInv
<1>4. /\ disk' = IF job[p].do = "keygen" /\ job[p].first THEN [disk EXCEPT ![d].pub = None] ELSE disk
      /\ cut' = IF job[p].do = "import" THEN cut \cup {d} ELSE cut
      /\ faults' \in 0 .. MaxFaults
      /\ UNCHANGED <<store, window, revoked, promised, mixed, started>>
  BY <1>2 DEF FailPrivateFile, Dir, KeyInv, KeyTyped, KeyAssumption
<1>5. /\ disk' \in [Dirs -> KeyDirs] /\ disk'[d].priv = disk[d].priv
      /\ disk'[d].pub = IF job[p].do = "keygen" /\ job[p].first THEN None ELSE disk[d].pub
      /\ \A e \in Dirs : disk'[e].rev = disk[e].rev
      /\ \A e \in Dirs \ {d} : disk'[e] = disk[e]
  <2> DEFINE D == [disk EXCEPT ![d].pub = None]
  <2>1. /\ D \in [Dirs -> KeyDirs] /\ D[d].pub = None /\ D[d].priv = disk[d].priv
        /\ \A e \in Dirs : D[e].rev = disk[e].rev
        /\ \A e \in Dirs \ {d} : D[e] = disk[e]
    BY FileSet DEF KeyInv
  <2>2. disk \in [Dirs -> KeyDirs]
    BY DEF KeyInv, KeyTyped
  <2>3. disk' = IF job[p].do = "keygen" /\ job[p].first THEN D ELSE disk
    BY <1>4
  <2> HIDE DEF D
  <2> QED BY <2>1, <2>2, <2>3
<1>6. KeyTyped'
  BY <1>1, <1>3, <1>4, <1>5, FileTyped DEF KeyInv, KeyTyped, window
<1>7. OnlyAt(p, d)
  BY <1>1, <1>2, <1>3, <1>4, <1>5 DEF OnlyAt
<1>8. promised' = promised /\ promised'[d] \in {None, disk'[d].priv} /\ revoked' = revoked
      /\ store' = store
  BY <1>4, <1>5 DEF KeyInv, PromiseKept
<1>9. Labelled(d, disk[d].priv)'
  BY <1>1, <1>2, <1>5, <1>8 DEF KeyInv, StubsStored, Labelled, Stubs
<1>10. ASSUME InHand(job[p]), d \notin cut' PROVE Matched(d)'
  <2>1. CASE job[p].do = "repassphrase"
    BY <1>2, <1>5, <1>8, <1>10, <2>1 DEF InHand, Matched, KeyIn, Stubs
  <2>2. CASE job[p].do = "keygen" /\ job[p].first
    BY <1>5, <2>2 DEF Matched
  <2>3. CASE job[p].do = "keygen" /\ ~job[p].first
    <3>1. /\ disk[d].pub = job[p].pub /\ job[p].pub \in PublicPems
          /\ job[p].pub.key = KeyIn(d, disk[d].priv)
      BY <1>1, <1>2, <1>10, <2>3 DEF InHand
    <3>2. job[p].pub # Half /\ disk'[d].pub = disk[d].pub
      BY <1>5, <2>3, <3>1, KeyKinds DEF KeyInv, KeyTyped
    <3> QED BY <1>5, <1>8, <3>1, <3>2 DEF Matched, KeyIn, Stubs
  <2>4. job[p].do = "import" => d \in cut'
    BY <1>4
  <2> QED BY <1>1, <1>10, <2>1, <2>2, <2>3, <2>4 DEF WriterJobs
<1>11. job'[p].pc # "accepted"
  BY <1>3
<1> QED BY <1>1, <1>2, <1>3, <1>5, <1>6, <1>7, <1>8, <1>9, <1>10, <1>11, WriterStep

\* A file that is written again with an expiry in front is of the key it was of.
LEMMA SameKey ==
  ASSUME KeyAssumption, made \in Nat, NEW d \in Dirs, NEW priv \in PrivateKeys
  PROVE  /\ PrependExpiry(priv) \in PrivateKeys /\ KeyIn(d, PrependExpiry(priv)) = KeyIn(d, priv)
         /\ (Labelled(d, priv) => Labelled(d, PrependExpiry(priv)))
<1>1. CASE priv \in SoftKeys
  BY <1>1, Prepended, KeyKinds DEF PrivateKeys, KeyIn, Labelled
<1>2. CASE priv \in Stubs
  BY <1>2, Prepended, KeyKinds DEF PrivateKeys, KeyIn, Labelled
<1> QED BY <1>1, <1>2 DEF PrivateKeys

\* A step of a writer that writes nothing.
LEMMA InHandOnly ==
  ASSUME KeyAssumption, KeyInv, NEW p \in Procs, job[p] \in WriterJobs, NEW j,
         NEW d \in Dirs, d = job[p].d,
         job' = [job EXCEPT ![p] = j], UNCHANGED <<disk, store, window, history, budget>>,
         \/ j \in OtherJobs /\ j.pc # "accepted"
         \/ j \in WriterJobs /\ j.d = d /\ j.pc # "store" /\ Labelled(d, j.priv),
         d \notin mixed \cup cut /\ InHand(job[p]) => j \in WriterJobs /\ InHand(j)
  PROVE  KeyInv'
<1>1. made' = made /\ WriterJobs' = WriterJobs /\ OtherJobs' = OtherJobs /\ Stubs' = Stubs
      /\ PublicPems' = PublicPems /\ SoftKeys' = SoftKeys
  BY DEF budget, WriterJobs, OtherJobs, Keys, PublicPems, PrivateKeys, SoftKeys, Stubs,
         Fingerprints,
         EndedJobs, RevokeJobs, CheckJobs, SaidJobs
<1>2. /\ job' \in [Procs -> WriterJobs \cup OtherJobs] /\ job'[p] = j
      /\ \A q \in Procs \ {p} : job'[q] = job[q]
  BY DEF KeyInv, KeyTyped
<1>3. KeyTyped'
  BY <1>1, <1>2, FileTyped DEF KeyInv, KeyTyped, window, history, budget
<1>4. j \in OtherJobs => j \notin WriterJobs
  BY DEF OtherJobs, EndedJobs, RevokeJobs, CheckJobs, SaidJobs, WriterJobs
<1>5. OnlyAt(p, d)
  BY <1>1, <1>2, <1>4 DEF OnlyAt, history
<1>6. Labelled(d, disk[d].priv)' /\ (job'[p] \in WriterJobs' => Labelled(d, job[p].priv)')
  BY <1>1, <1>2, <1>4 DEF KeyInv, StubsStored, Labelled
<1>7. InHand(j) /\ j \in WriterJobs => InHand(job[p])'
  BY <1>1, <1>2 DEF InHand, KeyIn, Matched
<1>8. job'[p].pc # "accepted" /\ (job'[p] \in WriterJobs' => job'[p].pc # "store")
  BY <1>1, <1>2, <1>4 DEF WriterJobs
<1>9. UNCHANGED <<revoked, promised, mixed, cut>> /\ promised[d] \in {None, disk[d].priv}
  BY DEF history, KeyInv, PromiseKept
<1> QED BY <1>1, <1>2, <1>3, <1>5, <1>6, <1>7, <1>8, <1>9, WriterStep

LEMMA RereadKeeps ==
  ASSUME KeyAssumption, KeyInv, NEW p \in Procs, RereadPrivateKey(p)
  PROVE  KeyInv'
<1>1. job[p].pc = "reread" /\ job[p] \in WriterJobs /\ made \in Nat
  BY AtWork DEF RereadPrivateKey, KeyInv, WriterPcs, KeyTyped
<1>2. PICK d \in Dirs : d = job[p].d
  BY <1>1 DEF WriterJobs
<1>3. disk[d].priv \in PrivateKeys \cup {None} /\ Labelled(d, disk[d].priv)
  BY DEF KeyInv, KeyTyped, KeyDirs, StubsStored
<1>4. UNCHANGED <<disk, store, window, history, budget>>
  BY DEF RereadPrivateKey
<1>5. CASE disk[d].priv = None
  <2>1. job' = [job EXCEPT ![p] = Ended("ok")]
    BY <1>2, <1>5 DEF RereadPrivateKey, Step, Go, Dir, Resting
  <2>2. Ended("ok") \in OtherJobs /\ Ended("ok").pc # "accepted"
    BY DEF Ended, OtherJobs, EndedJobs
  <2>3. ~InHand(job[p])
    BY <1>1, <1>2, <1>5 DEF InHand, WriterJobs
  <2> QED BY <1>1, <1>2, <1>4, <2>1, <2>2, <2>3, InHandOnly
<1>6. CASE disk[d].priv # None
  <2> DEFINE j == [job[p] EXCEPT !.pc = "priv", !.priv = PrependExpiry(disk[d].priv)]
  <2>1. job' = [job EXCEPT ![p] = j]
    BY <1>2, <1>6 DEF RereadPrivateKey, Go, Dir
  <2>2. /\ PrependExpiry(disk[d].priv) \in PrivateKeys /\ Labelled(d, PrependExpiry(disk[d].priv))
        /\ KeyIn(d, PrependExpiry(disk[d].priv)) = KeyIn(d, disk[d].priv)
    BY <1>1, <1>3, <1>6, SameKey
  <2>3. j \in WriterJobs /\ j.d = d /\ j.pc = "priv" /\ j.priv = PrependExpiry(disk[d].priv)
        /\ j.do = job[p].do /\ j.pub = job[p].pub /\ j.first = job[p].first
    BY <1>1, <1>2, <2>2 DEF WriterJobs
  <2> HIDE DEF j
  <2>4. InHand(job[p]) => InHand(j)
    BY <1>1, <1>2, <2>2, <2>3 DEF InHand
  <2> QED BY <1>1, <1>2, <1>4, <2>1, <2>2, <2>3, <2>4, InHandOnly
<1> QED BY <1>5, <1>6

\* The expiry is prepended to what is there, which is what was just written.
LEMMA PrependKeeps ==
  ASSUME KeyAssumption, KeyInv, NEW p \in Procs, PrependExpiryToFiles(p)
  PROVE  KeyInv'
<1> DEFINE pub  == disk[Dir(p)].pub
           priv == disk[Dir(p)].priv
           again == [job[p] EXCEPT !.pc = "pub", !.expiry = FALSE, !.first = FALSE]
           j == IF p \in Gui
                THEN IF pub = None THEN [again EXCEPT !.pc = "reread"]
                     ELSE [again EXCEPT !.pub = PrependExpiry(pub)]
                ELSE IF None \in {pub, priv} THEN Ended("failed")
                     ELSE [again EXCEPT !.pub = PrependExpiry(pub), !.priv = PrependExpiry(priv)]
<1>1. job[p].pc = "expiry" /\ job[p] \in WriterJobs /\ made \in Nat
  BY AtWork DEF PrependExpiryToFiles, KeyInv, WriterPcs, KeyTyped
<1>2. PICK d \in Dirs : d = job[p].d
  BY <1>1 DEF WriterJobs
<1>3. /\ priv \in PrivateKeys \cup {None} /\ Labelled(d, priv)
      /\ pub \in PublicPems \cup {None, Half} /\ Dir(p) = d
  BY <1>2 DEF KeyInv, KeyTyped, KeyDirs, StubsStored, Dir
<1>4. UNCHANGED <<disk, store, window, history, budget>>
  BY DEF PrependExpiryToFiles
<1>5. job' = [job EXCEPT ![p] = j]
  BY DEF PrependExpiryToFiles, Step, Go, Resting
<1>6. /\ again \in WriterJobs /\ again.d = d /\ again.pc = "pub" /\ again.do = job[p].do
      /\ again.priv = job[p].priv /\ again.pub = job[p].pub /\ again.first = FALSE
  BY <1>1, <1>2 DEF WriterJobs
<1>7. /\ pub # None => PrependExpiry(pub) \in PublicPems \cup {None, Half}
      /\ pub \in PublicPems => PrependExpiry(pub) \in PublicPems /\ PrependExpiry(pub).key = pub.key
  BY <1>1, <1>3, Prepended
<1>8. priv # None => /\ PrependExpiry(priv) \in PrivateKeys /\ Labelled(d, PrependExpiry(priv))
                     /\ KeyIn(d, PrependExpiry(priv)) = KeyIn(d, priv)
  BY <1>1, <1>3, SameKey
<1>9. InHand(job[p]) => /\ pub = job[p].pub /\ pub \in PublicPems /\ pub # None /\ priv # None
                        /\ pub.key = KeyIn(d, job[p].priv) /\ pub.key = KeyIn(d, priv)
                        /\ job[p].do # "repassphrase"
  <2>1. InHand(job[p]) => /\ pub = job[p].pub /\ pub \in PublicPems /\ priv # None
                          /\ pub.key = KeyIn(d, job[p].priv) /\ pub.key = KeyIn(d, priv)
                          /\ job[p].do # "repassphrase"
    BY <1>1, <1>2, <1>3 DEF InHand
  <2> QED BY <1>1, <2>1, KeyKinds
<1>10. Labelled(d, job[p].priv)
  BY <1>1, <1>2 DEF KeyInv, StubsStored, Dir
<1> HIDE DEF pub, priv, again
<1>11. CASE p \in Gui /\ pub = None
  <2>1. /\ j \in WriterJobs /\ j.d = d /\ j.pc # "store" /\ j.priv = job[p].priv
    BY <1>6, <1>11 DEF WriterJobs
  <2> HIDE DEF j
  <2> QED BY <1>1, <1>2, <1>4, <1>5, <1>9, <1>10, <1>11, <2>1, InHandOnly
<1>12. CASE p \in Gui /\ pub # None
  <2>1. /\ j \in WriterJobs /\ j.d = d /\ j.pc = "pub" /\ j.priv = job[p].priv
        /\ j.pub = PrependExpiry(pub) /\ j.do = job[p].do /\ ~j.first
    BY <1>6, <1>7, <1>12 DEF WriterJobs
  <2> HIDE DEF j
  <2>2. InHand(job[p]) => InHand(j)
    BY <1>3, <1>7, <1>9, <2>1 DEF InHand, priv
  <2> QED BY <1>1, <1>2, <1>4, <1>5, <1>10, <2>1, <2>2, InHandOnly
<1>13. CASE p \notin Gui /\ None \in {pub, priv}
  <2>1. j = Ended("failed") /\ j \in OtherJobs /\ j.pc # "accepted"
    BY <1>13 DEF Ended, OtherJobs, EndedJobs
  <2> HIDE DEF j
  <2> QED BY <1>1, <1>2, <1>4, <1>5, <1>9, <1>13, <2>1, InHandOnly
<1>14. CASE p \notin Gui /\ None \notin {pub, priv}
  <2>1. /\ j \in WriterJobs /\ j.d = d /\ j.pc = "pub" /\ j.priv = PrependExpiry(priv)
        /\ j.pub = PrependExpiry(pub) /\ j.do = job[p].do /\ ~j.first
    BY <1>6, <1>7, <1>8, <1>14 DEF WriterJobs
  <2> HIDE DEF j
  <2>2. InHand(job[p]) => InHand(j)
    BY <1>3, <1>7, <1>8, <1>9, <2>1 DEF InHand, priv
  <2> QED BY <1>1, <1>2, <1>4, <1>5, <1>8, <1>14, <2>1, <2>2, InHandOnly
<1> QED BY <1>11, <1>12, <1>13, <1>14

-----------------------------------------------------------------------------
(* Revoking, checking, being killed; the window. *)

\* A step that writes no key file, and that no writer takes.
LEMMA OtherStep ==
  ASSUME KeyAssumption, KeyInv, KeyTyped', NEW p \in Procs, made' = made, store' = store,
         job[p] \notin WriterJobs, job'[p] \in OtherJobs',
         \A q \in Procs \ {p} : job'[q] = job[q],
         \A e \in Dirs : disk'[e].pub = disk[e].pub /\ disk'[e].priv = disk[e].priv,
         mixed \subseteq mixed', cut \subseteq cut', promised' = promised
  PROVE  StubsStored' /\ PairsMatched' /\ PromiseKept'
<1>1. job'[p] \notin WriterJobs'
  BY DEF OtherJobs, EndedJobs, RevokeJobs, CheckJobs, SaidJobs, WriterJobs
<1>2. \A q \in Procs : /\ job[q] \in WriterJobs => job'[q] = job[q]
                       /\ job'[q] \in WriterJobs' => job[q] \in WriterJobs
  BY <1>1, SameWriters DEF KeyInv
<1>3. StubsStored' /\ PairsMatched'
  BY <1>2, StubsStay, NoWriter DEF KeyInv
<1>4. PromiseKept'
  BY DEF KeyInv, PromiseKept
<1> QED BY <1>3, <1>4

LEMMA SidecarKeeps ==
  ASSUME KeyAssumption, KeyInv, NEW p \in Procs, TruncateSidecar(p) \/ WriteSidecar(p)
  PROVE  KeyInv'
<1>1. job[p].pc \in {"revoke", "sidecar"} /\ job[p] \in RevokeJobs /\ made' = made
  BY AtWork DEF TruncateSidecar, WriteSidecar, KeyInv, budget
<1>2. PICK d \in Dirs : d = job[p].d /\ job[p].key \in Fingerprints
  BY <1>1 DEF RevokeJobs
<1>3. job[p] \notin WriterJobs
  BY <1>1 DEF RevokeJobs, WriterJobs
<1>4. PICK new \in {None, Half} \cup Fingerprints :
        /\ disk' = [disk EXCEPT ![d].rev = new]
        /\ \/ new = Half /\ revoked' = revoked
           \/ new = job[p].key /\ revoked' = [revoked EXCEPT ![d] = new]
  BY <1>2 DEF TruncateSidecar, WriteSidecar, Dir, history
<1>5. /\ disk' \in [Dirs -> KeyDirs] /\ disk'[d].rev = new
      /\ \A e \in Dirs : disk'[e].pub = disk[e].pub /\ disk'[e].priv = disk[e].priv
      /\ \A e \in Dirs \ {d} : disk'[e] = disk[e]
  BY <1>4, FileSet DEF KeyInv
<1>6. UNCHANGED <<store, window, promised, mixed, cut, budget>>
  BY DEF TruncateSidecar, WriteSidecar, history
<1>7. /\ job' \in [Procs -> WriterJobs' \cup OtherJobs'] /\ job'[p] \in OtherJobs'
      /\ job'[p].pc # "accepted" /\ \A q \in Procs \ {p} : job'[q] = job[q]
  <2>1. job \in [Procs -> WriterJobs \cup OtherJobs] /\ OtherJobs \subseteq OtherJobs'
        /\ WriterJobs \subseteq WriterJobs'
    BY <1>1, MoreKeys DEF KeyInv, KeyTyped
  <2>2. PICK j \in OtherJobs : job' = [job EXCEPT ![p] = j] /\ j.pc # "accepted"
    <3>1. CASE TruncateSidecar(p)
      <4>1. [job[p] EXCEPT !.pc = "sidecar"] \in RevokeJobs /\ [job[p] EXCEPT !.pc = "sidecar"].pc = "sidecar"
        BY <1>1 DEF RevokeJobs
      <4> QED BY <3>1, <4>1 DEF TruncateSidecar, Step, Go, Resting, OtherJobs
    <3>2. CASE WriteSidecar(p)
      <4>1. Ended("ok") \in EndedJobs /\ Ended("ok").pc = "ok"
        BY DEF Ended, EndedJobs
      <4> QED BY <3>2, <4>1 DEF WriteSidecar, Step, Go, Resting, OtherJobs
    <3> QED BY <3>1, <3>2
  <2> QED BY <2>1, <2>2
<1>8. revoked' \in [Dirs -> {None} \cup Fingerprints]
  BY <1>2, <1>4 DEF KeyInv, KeyTyped
<1>9. KeyTyped'
  BY <1>1, <1>5, <1>6, <1>7, <1>8, FileTyped DEF KeyInv, KeyTyped, window, budget
<1>10. StubsStored' /\ PairsMatched' /\ PromiseKept'
  BY <1>1, <1>3, <1>5, <1>6, <1>7, <1>9, OtherStep
<1>11. RevokedStaysRefused'
  BY <1>7 DEF KeyInv, RevokedStaysRefused, Procs
<1>12. SidecarKept'
  <2>1. \A e \in Dirs \ {d} : disk'[e].rev \in {Half, revoked'[e]}
    BY <1>4, <1>5 DEF KeyInv, KeyTyped, SidecarKept
  <2>2. disk'[d].rev \in {Half, revoked'[d]}
    BY <1>4, <1>5 DEF KeyInv, KeyTyped, SidecarKept
  <2> QED BY <2>1, <2>2 DEF SidecarKept
<1> QED BY <1>9, <1>10, <1>11, <1>12 DEF KeyInv

\* The check refuses what the sidecar names, and everything while it names nothing.
LEMMA CheckKeeps ==
  ASSUME KeyAssumption, KeyInv, NEW p \in Procs, CheckNotRevoked(p)
  PROVE  KeyInv'
<1>1. job[p].pc = "check" /\ job[p] \in CheckJobs
  BY AtWork DEF CheckNotRevoked, KeyInv
<1>2. PICK d \in Dirs : d = job[p].d /\ Dir(p) = d
  BY <1>1 DEF CheckJobs, Dir
<1>3. job[p].key \in Fingerprints /\ job[p] \notin WriterJobs
  BY <1>1 DEF CheckJobs, WriterJobs
<1> DEFINE pc == IF IsRevoked(disk[d].rev, job[p].key) \/ job[p].key = Unknown
                 THEN "refused" ELSE "accepted"
           j == [pc |-> pc, do |-> "encrypt", d |-> d, key |-> job[p].key, gone |-> revoked[d]]
<1>4. job' = [job EXCEPT ![p] = j] /\ UNCHANGED <<disk, store, window, history, budget>>
  BY <1>2 DEF CheckNotRevoked, Go
<1>5. j \in OtherJobs
  BY <1>3 DEF KeyInv, KeyTyped, OtherJobs, SaidJobs
<1>6. j.pc = "accepted" => j.key # j.gone
  <2>1. disk[d].rev \in {Half, revoked[d]}
    BY DEF KeyInv, SidecarKept
  <2>2. job[p].key # None
    BY <1>3 DEF Fingerprints, Keys, Unknown, KeyInv, KeyTyped, KeyAssumption
  <2>3. job[p].key = revoked[d] => IsRevoked(disk[d].rev, job[p].key)
    BY <2>1, <2>2 DEF IsRevoked, KeyAssumption
  <2> QED BY <2>3
<1> HIDE DEF j
<1>7. /\ job' \in [Procs -> WriterJobs' \cup OtherJobs'] /\ job'[p] = j /\ j \in OtherJobs'
      /\ \A q \in Procs \ {p} : job'[q] = job[q]
  BY <1>4, <1>5, MoreKeys DEF KeyInv, KeyTyped, budget
<1>8. KeyTyped'
  BY <1>4, <1>7, FileTyped DEF KeyInv, KeyTyped, window, history, budget
<1>9. StubsStored' /\ PairsMatched' /\ PromiseKept'
  BY <1>3, <1>4, <1>7, <1>8, OtherStep DEF history, budget
<1>10. RevokedStaysRefused' /\ SidecarKept'
  BY <1>4, <1>6, <1>7 DEF KeyInv, RevokedStaysRefused, SidecarKept, Procs, history
<1> QED BY <1>8, <1>9, <1>10 DEF KeyInv

LEMMA KillKeeps ==
  ASSUME KeyAssumption, KeyInv, NEW p \in Procs, Kill(p)
  PROVE  KeyInv'
<1>1. /\ job' = [job EXCEPT ![p] = Ended("failed")] /\ made' = made /\ faults' \in 0 .. MaxFaults
      /\ UNCHANGED <<disk, store, list, label, revoked, promised, mixed, started>>
      /\ cut' = IF Writes(p) THEN cut \cup {job[p].d} ELSE cut
      /\ copy' \in KeyCopies
  BY DEF Kill, Go, Dir, KeyInv, KeyTyped, KeyAssumption, KeyCopies
<1>2. /\ job' \in [Procs -> WriterJobs' \cup OtherJobs'] /\ job'[p] = Ended("failed")
      /\ \A q \in Procs \ {p} : job'[q] = job[q]
      /\ Ended("failed") \in OtherJobs' /\ Ended("failed") \notin WriterJobs'
         /\ Ended("failed").pc # "accepted"
  <2>1. Ended("failed") \in OtherJobs /\ Ended("failed") \notin WriterJobs'
        /\ Ended("failed").pc # "accepted"
    BY DEF Ended, OtherJobs, EndedJobs, WriterJobs
  <2> QED BY <1>1, <2>1, MoreKeys DEF KeyInv, KeyTyped
<1>3. cut' \subseteq Dirs /\ cut \subseteq cut'
  <2>1. Writes(p) => job[p].d \in Dirs
    BY JobKinds DEF KeyInv, WriterJobs
  <2> QED BY <1>1, <2>1 DEF KeyInv, KeyTyped
<1>4. KeyTyped'
  BY <1>1, <1>2, <1>3, FileTyped DEF KeyInv, KeyTyped
<1>5. CASE job[p] \in WriterJobs
  <2>1. PICK d \in Dirs : d = job[p].d
    BY <1>5 DEF WriterJobs
  <2>2. d \in cut'
    BY <1>1, <1>5, <2>1, JobKinds DEF KeyInv
  <2>3. OnlyAt(p, d)
    BY <1>1, <1>2, <1>3, <2>1 DEF OnlyAt
  <2>4. Labelled(d, disk[d].priv)' /\ promised'[d] \in {None, disk'[d].priv}
    BY <1>1 DEF KeyInv, StubsStored, PromiseKept, Labelled, Stubs
  <2> QED BY <1>1, <1>2, <1>4, <1>5, <2>1, <2>2, <2>3, <2>4, WriterStep
<1>6. CASE job[p] \notin WriterJobs
  <2>1. StubsStored' /\ PairsMatched' /\ PromiseKept'
    BY <1>1, <1>2, <1>3, <1>4, <1>6, OtherStep
  <2>2. RevokedStaysRefused' /\ SidecarKept'
    BY <1>1, <1>2 DEF KeyInv, RevokedStaysRefused, SidecarKept, Procs
  <2> QED BY <1>4, <2>1, <2>2 DEF KeyInv
<1> QED BY <1>5, <1>6

LEMMA WindowKeeps ==
  ASSUME KeyAssumption, KeyInv, NEW d \in Dirs, Window(d)
  PROVE  KeyInv'
<1>1. UNCHANGED <<disk, store, job, history, budget>>
  BY DEF Window, ImportKeyPair, RemoveKey, ApplyLoadPub, ApplyRenew, TypeLabel, LoadPrivateKey
<1>2. list' \subseteq Dirs /\ label' \in Dirs
  BY DEF Window, ImportKeyPair, RemoveKey, ApplyLoadPub, ApplyRenew, TypeLabel, LoadPrivateKey,
         KeyInv, KeyTyped
<1>3. copy' \in KeyCopies
  <2>1. copy \in KeyCopies /\ disk[d] \in KeyDirs /\ made \in Nat
    BY DEF KeyInv, KeyTyped
  <2>2. CASE ApplyLoadPub(d)
    <3>1. FingerprintPem(disk[d].pub) \in Fingerprints
      BY <2>1, Fingerprinted DEF KeyDirs
    <3> QED BY <2>1, <2>2, <3>1 DEF ApplyLoadPub, KeyCopies
  <2>3. CASE LoadPrivateKey(d)
    <3>1. disk[d].priv \in PrivateKeys
      BY <2>1, <2>3 DEF LoadPrivateKey, KeyDirs
    <3> QED BY <2>1, <2>3, <3>1 DEF LoadPrivateKey, KeyCopies
  <2> QED BY <2>1, <2>2, <2>3 DEF Window, ImportKeyPair, RemoveKey, ApplyRenew, TypeLabel
<1>4. KeyTyped'
  <2>1. job' \in [Procs -> WriterJobs' \cup OtherJobs']
    BY <1>1, MoreKeys DEF KeyInv, KeyTyped, budget
  <2>2. /\ Keys' = Keys /\ PrivateKeys' = PrivateKeys /\ KeyDirs' = KeyDirs
        /\ Fingerprints' = Fingerprints /\ KeyCopies' = KeyCopies
    BY <1>1 DEF budget, Keys, PrivateKeys, KeyDirs, Fingerprints, KeyCopies, SoftKeys, Stubs,
                PublicPems
  <2> QED BY <1>1, <1>2, <1>3, <2>1, <2>2 DEF KeyInv, KeyTyped, history, budget, Procs
<1>5. \A q \in Procs : /\ job[q] \in WriterJobs => job'[q] = job[q]
                       /\ job'[q] \in WriterJobs' => job[q] \in WriterJobs
  BY <1>1, <1>4, SameWriters DEF KeyInv
<1>6. StubsStored' /\ PairsMatched'
  BY <1>1, <1>4, <1>5, StubsStay, NoWriter DEF KeyInv, history, budget
<1>7. RevokedStaysRefused' /\ SidecarKept' /\ PromiseKept'
  BY <1>1 DEF KeyInv, RevokedStaysRefused, SidecarKept, PromiseKept, history
<1> QED BY <1>4, <1>6, <1>7 DEF KeyInv

LEMMA KeyStep == ASSUME KeyAssumption, KeyInv, [Next]_vars PROVE KeyInv'
<1>1. ASSUME NEW p \in Procs, Command(p) PROVE KeyInv'
  BY <1>1, KeygenKeeps, HardwareKeeps, ImportKeeps, RepassphraseKeeps, DoRepassphraseKeeps,
     OtherBegins DEF Command
<1>2. ASSUME NEW p \in Procs, FileStep(p) PROVE KeyInv'
  BY <1>2, GenerateKeeps, TruncateKeeps, WritePublicKeeps, WritePrivateKeeps, FailKeeps,
     PrependKeeps, RereadKeeps, SidecarKeeps, CheckKeeps, KillKeeps DEF FileStep
<1>3. ASSUME NEW d \in Dirs, Window(d) PROVE KeyInv'
  BY <1>3, WindowKeeps
<1>4. CASE UNCHANGED vars
  BY <1>4 DEF vars, KeyInv, KeyTyped, RevokedStaysRefused, SidecarKept, StubsStored, Labelled,
              PromiseKept, PairsMatched, WritesIn, Matched, InHand, KeyIn, Dir, Keys, PublicPems,
              SoftKeys, Stubs, PrivateKeys, Fingerprints, KeyDirs, WriterJobs, EndedJobs,
              RevokeJobs, CheckJobs, SaidJobs, OtherJobs, KeyCopies
<1> QED BY <1>1, <1>2, <1>3, <1>4 DEF Next

LEMMA KeyInvariant == ASSUME KeyAssumption PROVE Spec => []KeyInv
<1> QED BY KeyInit, KeyStep, PTL DEF Spec

-----------------------------------------------------------------------------
(* The theorems. *)

\* The types.
THEOREM KeysTypeCorrect == ASSUME KeyAssumption PROVE Spec => []TypeOK
<1>1. KeyInv => TypeOK
  <2> SUFFICES ASSUME KeyInv PROVE TypeOK
    OBVIOUS
  <2>1. ASSUME NEW d \in Dirs
        PROVE  /\ disk[d].pub \in Publics /\ disk[d].priv \in Privates /\ disk[d].rev \in Sidecars
               /\ promised[d] \in Privates \ {Half} /\ revoked[d] \in Sidecars \ {Half}
    <3>1. /\ disk[d].pub \in PublicPems \cup {None, Half}
             /\ disk[d].priv \in PrivateKeys \cup {None}
          /\ disk[d].rev \in {None, Half} \cup Fingerprints
          /\ promised[d] \in {None} \cup PrivateKeys /\ revoked[d] \in {None} \cup Fingerprints
          /\ made \in Nat
      BY DEF KeyInv, KeyTyped, KeyDirs
    <3>2. Half \notin PrivateKeys /\ Half # None /\ Half \notin Fingerprints
      BY <3>1, KeyKinds DEF PrivateKeys, KeyAssumption, Fingerprints, Keys, Unknown
    <3> QED
      BY <3>1, <3>2 DEF Publics, Privates, Sidecars, PublicPems, PrivateKeys, SoftKeys, Stubs,
                              Fingerprints, Labels
  <2>2. ASSUME NEW p \in Procs
        PROVE  job[p].pc \in Resting \cup {"store", "pub", "fill", "priv", "expiry", "reread",
                                           "revoke", "sidecar", "check"}
    <3>1. job[p] \in WriterJobs \cup OtherJobs
      BY DEF KeyInv, KeyTyped
    <3> QED BY <3>1 DEF WriterJobs, OtherJobs, EndedJobs, RevokeJobs, CheckJobs, SaidJobs, Resting
  <2> QED BY <2>1, <2>2 DEF KeyInv, KeyTyped, TypeOK, Labels
<1> QED BY <1>1, KeyInvariant, PTL

\* What a directory's sidecar last revoked is never accepted as a recipient from there
\* by the command line, whoever writes the sidecar again meanwhile, and however far.
THEOREM RevokedKeysRefused == ASSUME KeyAssumption PROVE Spec => []RevokedStaysRefused
<1>1. KeyInv => RevokedStaysRefused
  BY DEF KeyInv
<1> QED BY <1>1, KeyInvariant, PTL

\* Where one writer at a time is at work, on what is there, and is not killed, the two
\* files of a directory are of one key, whichever of its writes fails.
THEOREM KeyPairsMatch == ASSUME KeyAssumption PROVE Spec => []PairMatches
<1>1. KeyInv => PairMatches
  <2> SUFFICES ASSUME KeyInv, NEW d \in Dirs \ (mixed \cup cut),
                      \A p \in Procs : ~(Writes(p) /\ Dir(p) = d),
                      None \notin {disk[d].pub, disk[d].priv}
               PROVE  disk[d].pub.key = IF IsHardwareKey(disk[d].priv)
                                        THEN StoredSeed(disk[d].priv) ELSE disk[d].priv.key
    BY DEF PairMatches
  <2>1. WritesIn(d) = {}
    BY JobKinds DEF WritesIn, KeyInv, Dir
  <2>2. disk[d].pub.key = KeyIn(d, disk[d].priv)
    BY <2>1 DEF KeyInv, PairsMatched, Matched
  <2>3. disk[d].priv \in PrivateKeys /\ made \in Nat /\ Labelled(d, disk[d].priv)
    BY DEF KeyInv, KeyTyped, KeyDirs, StubsStored
  <2> QED BY <2>2, <2>3, KeyKinds DEF KeyIn, PrivateKeys, Labelled, StoredSeed
<1> QED BY <1>1, KeyInvariant, PTL

\* A private key that was written stays, under its passphrase, whatever fails or is
\* killed afterwards, until another one is in its place.
THEOREM PrivateKeysKept == ASSUME KeyAssumption PROVE Spec => []PrivateKeyKept
<1>1. KeyInv => PrivateKeyKept
  <2> SUFFICES ASSUME KeyInv, NEW d \in Dirs, promised[d] # None
               PROVE  IF IsHardwareKey(promised[d]) THEN LoadSeed(disk[d].priv, None) # None
                      ELSE /\ disk[d].priv \notin {None, Half}
                           /\ disk[d].priv.key = promised[d].key
                           /\ disk[d].priv.lock = promised[d].lock
    BY DEF PrivateKeyKept
  <2>1. /\ disk[d].priv = promised[d] /\ promised[d] \in PrivateKeys /\ made \in Nat
        /\ Labelled(d, disk[d].priv)
    BY DEF KeyInv, KeyTyped, PromiseKept, StubsStored
  <2>2. disk[d].priv \notin {None, Half}
    BY <2>1, KeyKinds DEF PrivateKeys
  <2>3. ASSUME IsHardwareKey(promised[d]) PROVE LoadSeed(disk[d].priv, None) # None
    <3>1. LoadSeed(disk[d].priv, None) = StoredSeed(disk[d].priv)
      BY <2>1, <2>2, <2>3 DEF LoadSeed
    <3>2. disk[d].priv \in Stubs
      BY <2>1, <2>3, KeyKinds DEF PrivateKeys
    <3> QED BY <2>1, <3>1, <3>2 DEF StoredSeed, Labelled
  <2> QED BY <2>1, <2>2, <2>3
<1> QED BY <1>1, KeyInvariant, PTL
=============================================================================
