-------------------------- MODULE FileCommandsProofs --------------------------
(***************************************************************************)
(* Machine-checked facts about FileCommands, for any number of processes,  *)
(* files, lengths, options and faults; and about AuditLog, the log that    *)
(* these commands append to, for any number of commands and entries, and   *)
(* kills, power losses and I/O errors at every step.                       *)
(***************************************************************************)
EXTENDS FileCommands, FiniteSetTheorems, SequenceTheorems, TLAPS

\* There are finitely many files; no file, and one half written, are none of those
\* that a command finishes; an announced length can be padded.
FilesAssumption ==
  /\ Lengths \subseteq Nat /\ Chunk \in Nat \ {0} /\ MaxCommands \in Nat /\ MaxFaults \in Nat
  /\ \A n \in Lengths : PadmeLength(n) \in Nat
  /\ IsFiniteSet(Files) /\ None # Half
  /\ {None, Half} \cap [of : Nat, bytes : Seq((Files \X Nat) \cup {0})] = {}
  /\ {None, Half} \cap [id : Nat, how : {"stream", "compress", "mmap", "stealth"},
                        text : Seq((Files \X Nat) \cup {0}), zeros : Seq({0}), size : Nat,
                        rot : {"none", "size", "block", "heavy"}] = {}

(* The inductive invariant. *)

FileBytes  == (Files \X Nat) \cup {0}
Rots       == {"none", "size", "block", "heavy"}
Hows       == {"stream", "compress", "mmap", "stealth"}
PqfFiles   == [id : Nat \ {0}, how : Hows, text : Seq(FileBytes), zeros : Seq({0}), size : Nat,
               rot : Rots]
OutFiles   == [of : Nat, bytes : Seq(FileBytes)]
Parities   == [of : Nat \ {0}, rot : Rots]
FecFiles   == Parities \cup {None, Half}
\* A batch that has not come to a file has none.
EncryptJobs == [do : {"encrypt", "recurse"}, f : Files \cup {None}, opts : EncryptOptions,
                how : Hows, to : (Files \cup {None}) \X {"pqf"}, size : Nat,
                wrote : PqfFiles \cup {None}, parity : FecFiles, all : SUBSET Files,
                more : Seq(Files), bad : BOOLEAN,
                pc : {"write", "commit", "fec", "parity", "log", "next", "ok", "failed"}]
DecryptJobs == [do : {"decrypt", "resume"}, f : Single, opts : DecryptOptions,
                how : {"header", "stealth", "resume"}, to : Files \X {"out"}, c : PqfFiles,
                parity : FecFiles, limit : Nat, wrote : OutFiles \cup {None}, more : {<<>>},
                bad : {FALSE},
                pc : {"peek", "write", "commit", "fec", "log", "next", "chunk", "ok", "failed"}]
EndedJobs   == {Idle, Ended("ok"), Ended("failed")}

FileCounts == seals \in Nat \ {0} /\ started \in 0 .. MaxCommands /\ faults \in 0 .. MaxFaults
DiskTyped ==
  /\ DOMAIN disk = Paths
  /\ \A f \in Files :
       /\ \E n \in Lengths : disk[Src(f)] = Bytes(f, n)
       /\ disk[Pqf(f)] \in PqfFiles \cup {None}
       /\ disk[Fec(f)] \in FecFiles
       /\ disk[Out(f)] \in OutFiles \cup {None}

\* A command that encrypts has a source at hand, except for a batch between two.
EncryptShape(j) ==
  /\ j.to = Pqf(j.f)
  /\ j.do = "encrypt" => j.f \in Files
  /\ j.do = "recurse" => j.pc \in {"next", "ok", "failed"}
  /\ j.pc = "write" => j.size \in Lengths
  /\ j.pc = "ok" => ~j.bad /\ j.more = <<>>
DecryptShape(j) ==
  /\ j.to = Out(j.f)
  /\ (j.do = "resume") <=> (j.how = "resume")
  /\ j.do = "resume" => j.pc \in {"chunk", "ok", "failed"}
  /\ j.do = "decrypt" => j.pc # "chunk"
  /\ j.how = "stealth" => j.limit = 0
  /\ j.pc = "chunk" => j.limit <= Chunks(j.c)
JobTyped(j) ==
  \/ j \in EndedJobs
  \/ j \in EncryptJobs /\ EncryptShape(j)
  \/ j \in DecryptJobs /\ DecryptShape(j)

Live(j)     == j.pc \notin {"ok", "failed"}
Pending(j)  == j \in EncryptJobs /\ j.pc = "commit"
Resuming(j) == j \in DecryptJobs /\ j.pc = "chunk"

\* A file of a batch that did not fail is yet to come, being done, or done.
Filed(j) ==
  j \in EncryptJobs /\ j.pc # "failed" /\ ~j.bad =>
    \A f \in j.all :
      \/ disk[Pqf(f)] # None
      \/ \E i \in 1 .. Len(j.more) : j.more[i] = f
      \/ f = j.f /\ j.pc \in {"write", "commit"}

\* s is how t begins.
Begins(s, t) == Len(s) <= Len(t) /\ \A i \in 1 .. Len(s) : s[i] = t[i]

\* What a decryption wrote, from its container and where it cut.
AsSealed(j) ==
  /\ j.wrote \in OutFiles /\ j.wrote.of = j.c.id /\ Begins(j.wrote.bytes, Plain(j.c))
  /\ /\ j.c.size \in {0, Len(j.c.text)} /\ j.limit \in {0, j.c.size}
     /\ j.limit = 0 => j.c.zeros = <<>>
     => j.wrote.bytes = j.c.text
Decrypted(j) ==
  j \in DecryptJobs =>
    /\ j.do = "decrypt" /\ j.pc \in {"commit", "fec", "log", "next", "ok"} => AsSealed(j)
    /\ j.do = "resume" /\ j.pc = "ok" /\ j.wrote.of = j.c.id => j.wrote.bytes = Plain(j.c)

\* What a command reads is the container of its number, damaged perhaps.
SameText(j, pqf) ==
  Live(j) /\ pqf # None /\ pqf.id = j.c.id => Plain(pqf) = Plain(j.c)
\* A resumed decryption has in its output the chunks before its own.
SoFar(c, n) == Least(n * Chunk, Len(Plain(c)))
InStep(j, out, pqf) ==
  Resuming(j) =>
    /\ out \in OutFiles
    /\ out.of = j.c.id => Len(out.bytes) = SoFar(j.c, j.limit) /\ Begins(out.bytes, Plain(j.c))
    /\ pqf # None
    /\ out.of = pqf.id => out.of = j.c.id

Reads(j, out, pqf) == j \in DecryptJobs => SameText(j, pqf) /\ InStep(j, out, pqf)
Numbered(j, n) == /\ j \in DecryptJobs => j.c.id <= n
                  /\ Pending(j) => j.wrote.id <= n
JobsFit ==
  /\ DOMAIN job = Procs
  /\ \A p \in Procs :
       /\ JobTyped(job[p]) /\ Filed(job[p]) /\ Decrypted(job[p])
       /\ Reads(job[p], disk[Out(job[p].f)], disk[Pqf(job[p].f)]) /\ Numbered(job[p], seals)

\* What is about to be renamed is what was written.
InTemp == \A p \in Procs : job[p].pc = "commit" =>
            disk[Tmp(p, job[p].to)] = job[p].wrote /\ job[p].wrote # None

\* A container that is not in place yet has a number nothing else has.
DiskNumbered ==
  \A f \in Files : /\ disk[Pqf(f)] # None => disk[Pqf(f)].id <= seals
                   /\ disk[Out(f)] # None => disk[Out(f)].of <= seals
Unseen ==
  \A p \in Procs : Pending(job[p]) =>
    /\ \A f \in Files : /\ disk[Pqf(f)] # None => disk[Pqf(f)].id # job[p].wrote.id
                        /\ disk[Out(f)] # None => disk[Out(f)].of # job[p].wrote.id
    /\ \A q \in Procs : /\ job[q] \in DecryptJobs => job[q].c.id # job[p].wrote.id
                        /\ q # p /\ Pending(job[q]) => job[q].wrote.id # job[p].wrote.id

\* An output of the container in place is how its plaintext begins.
OutputBegins ==
  \A f \in Files : disk[Out(f)] # None /\ disk[Pqf(f)] # None /\ disk[Out(f)].of = disk[Pqf(f)].id
    => Begins(disk[Out(f)].bytes, Plain(disk[Pqf(f)]))

\* A resumed decryption has its output to itself.
Alone ==
  \A p, q \in Procs : Resuming(job[p]) /\ p # q /\ job[q] \in DecryptJobs /\ Live(job[q])
    => job[q].f # job[p].f

FileInv == FileCounts /\ DiskTyped /\ JobsFit /\ InTemp /\ DiskNumbered /\ Unseen
           /\ OutputBegins /\ Alone

-----------------------------------------------------------------------------
(* Files, bytes and jobs. *)

LEMMA Kinds ==
  ASSUME FilesAssumption
  PROVE  /\ \A c \in PqfFiles : c # None /\ c # Half
         /\ \A o \in OutFiles : o # None /\ o # Half
<1>1. /\ PqfFiles \subseteq [id : Nat, how : {"stream", "compress", "mmap", "stealth"},
                             text : Seq((Files \X Nat) \cup {0}), zeros : Seq({0}), size : Nat,
                             rot : {"none", "size", "block", "heavy"}]
  BY DEF PqfFiles, Hows, Rots, FileBytes
<1>2. OutFiles = [of : Nat, bytes : Seq((Files \X Nat) \cup {0})]
  BY DEF OutFiles, FileBytes
<1> QED BY <1>1, <1>2 DEF FilesAssumption

LEMMA JobKinds ==
  /\ \A j \in EncryptJobs : j \notin DecryptJobs /\ j \notin EndedJobs /\ j.pc # "idle" /\ j.pc # "chunk" /\ j.pc # "peek"
                            /\ j.do \notin {"decrypt", "resume", "none"}
  /\ \A j \in DecryptJobs : j \notin EncryptJobs /\ j \notin EndedJobs /\ j.pc # "idle"
                            /\ j.do \notin {"encrypt", "recurse", "none"}
  /\ \A j \in EndedJobs : /\ j \notin EncryptJobs /\ j \notin DecryptJobs
                          /\ j.pc \in {"idle", "ok", "failed"} /\ (j.pc # "idle" => j.do = "none")
<1>1. \A j \in EncryptJobs : j.do \in {"encrypt", "recurse"} /\ j.pc \notin {"idle", "chunk", "peek"}
  BY DEF EncryptJobs
<1>2. \A j \in DecryptJobs : j.do \in {"decrypt", "resume"} /\ j.pc # "idle"
  BY DEF DecryptJobs
<1>3. \A j \in EndedJobs : j.pc \in {"idle", "ok", "failed"} /\ (j.pc # "idle" => j.do = "none")
  BY DEF EndedJobs, Idle, Ended
<1> QED BY <1>1, <1>2, <1>3

LEMMA PathsApart ==
  /\ \A f \in Files : {Src(f), Pqf(f), Fec(f), Out(f)} \subseteq Paths
  /\ \A p \in Procs : \A to : Tmp(p, to) \in Paths
  /\ \A f, g : /\ Src(f) \notin {Pqf(g), Fec(g), Out(g)} /\ Pqf(f) \notin {Fec(g), Out(g)} /\ Fec(f) # Out(g)
               /\ \A p, to : Tmp(p, to) \notin {Src(f), Pqf(f), Fec(f), Out(f)}
  /\ \A f, g : /\ (Src(f) = Src(g)) => f = g
               /\ (Pqf(f) = Pqf(g)) => f = g
               /\ (Out(f) = Out(g)) => f = g
  /\ \A p, q, to, too : /\ (Tmp(p, to) = Tmp(q, too)) => p = q
                        /\ Tmp(p, to) = Tmp(p, too)
BY DEF Src, Pqf, Fec, Out, Tmp, Paths

LEMMA Putting ==
  ASSUME DOMAIN disk = Paths, NEW x \in Paths, NEW w, Put(x, w)
  PROVE  DOMAIN disk' = Paths /\ disk'[x] = w /\ \A y \in Paths : y # x => disk'[y] = disk[y]
BY DEF Put

LEMMA Going ==
  ASSUME DOMAIN job = Procs, NEW p \in Procs, NEW j, Go(p, j)
  PROVE  DOMAIN job' = Procs /\ job'[p] = j /\ \A q \in Procs : q # p => job'[q] = job[q]
BY DEF Go

-----------------------------------------------------------------------------
(* Bytes. *)

LEMMA SourceBytes ==
  ASSUME FilesAssumption, NEW f \in Files, NEW n \in Lengths
  PROVE  Bytes(f, n) \in Seq(FileBytes) /\ Len(Bytes(f, n)) = n
<1>1. n \in Nat BY DEF FilesAssumption
<1>2. \A i \in 1 .. n : <<f, i>> \in FileBytes BY DEF FileBytes
<1> QED BY <1>1, <1>2 DEF Bytes

LEMMA ZeroBytes ==
  ASSUME NEW n \in Int
  PROVE  Zeros(n) \in Seq({0}) /\ Zeros(n) \in Seq(FileBytes)
<1>1. CASE n \in Nat BY <1>1 DEF Zeros, FileBytes
<1>2. CASE n \notin Nat
  <2>1. Zeros(n) = [i \in 1 .. 0 |-> 0] BY <1>2 DEF Zeros
  <2> QED BY <2>1 DEF FileBytes
<1> QED BY <1>1, <1>2

LEMMA PlainBytes ==
  ASSUME FilesAssumption, NEW c \in PqfFiles
  PROVE  /\ Plain(c) \in Seq(FileBytes) /\ Len(Plain(c)) = Len(c.text) + Len(c.zeros)
         /\ Len(Plain(c)) \in Nat /\ Len(c.text) \in Nat /\ Len(c.zeros) \in Nat
         /\ Begins(c.text, Plain(c)) /\ (c.zeros = <<>> => Plain(c) = c.text)
         /\ c.text \in Seq(FileBytes)
<1>1. c.text \in Seq(FileBytes) /\ c.zeros \in Seq({0})
  BY DEF PqfFiles
<1>2. {0} \subseteq FileBytes
  BY DEF FileBytes
<1>3. c.zeros \in Seq(FileBytes)
  BY <1>1, <1>2, SeqMonotonic
<1>4. Len(c.text) \in Nat /\ Len(c.zeros) \in Nat
  BY <1>1, <1>3, LenProperties
<1>5. /\ Plain(c) \in Seq(FileBytes) /\ Len(Plain(c)) = Len(c.text) + Len(c.zeros)
      /\ \A i \in 1 .. Len(c.text) : Plain(c)[i] = c.text[i]
  <2> DEFINE t == c.text  z == c.zeros
  <2>1. t \in Seq(FileBytes) /\ z \in Seq(FileBytes) /\ Len(t) \in Nat /\ Len(z) \in Nat
    BY <1>1, <1>3, <1>4
  <2>2. Plain(c) = t \o z BY DEF Plain
  <2> HIDE DEF t, z
  <2>3. /\ t \o z \in Seq(FileBytes) /\ Len(t \o z) = Len(t) + Len(z)
        /\ \A i \in 1 .. Len(t) + Len(z) : (t \o z)[i] = IF i <= Len(t) THEN t[i] ELSE z[i - Len(t)]
    BY <2>1, ConcatProperties
  <2>4. \A i \in 1 .. Len(t) : (t \o z)[i] = t[i] BY <2>1, <2>3
  <2> QED BY <2>2, <2>3, <2>4 DEF t, z
<1>6. c.zeros = <<>> => Plain(c) = c.text
  <2>1. \A t \in Seq(FileBytes) : t \o <<>> = t BY ConcatEmptySeq
  <2> QED BY <1>1, <2>1 DEF Plain
<1>7. Begins(c.text, Plain(c))
  <2> DEFINE a == Len(c.text)  b == Len(c.zeros)  n == Len(Plain(c))
  <2>1. n = a + b /\ a \in Nat /\ b \in Nat BY <1>4, <1>5
  <2> HIDE DEF a, b, n
  <2>2. a <= n BY <2>1
  <2>3. Len(c.text) <= Len(Plain(c)) BY <2>2 DEF a, n
  <2> QED BY <1>5, <2>3 DEF Begins
<1>8. Len(Plain(c)) \in Nat BY <1>5, LenProperties
<1> QED BY <1>1, <1>4, <1>5, <1>6, <1>7, <1>8

LEMMA SameBytes ==
  ASSUME NEW s \in Seq(FileBytes), NEW t \in Seq(FileBytes), Begins(s, t), Len(s) = Len(t)
  PROVE  s = t
BY SeqEqual DEF Begins

\* The first n of a file's bytes.
LEMMA FirstBytes ==
  ASSUME NEW s \in Seq(FileBytes), NEW n \in Nat
  PROVE  /\ SubSeq(s, 1, Least(n, Len(s))) \in Seq(FileBytes)
         /\ Len(SubSeq(s, 1, Least(n, Len(s)))) = Least(n, Len(s))
         /\ Least(n, Len(s)) \in Nat
         /\ Begins(SubSeq(s, 1, Least(n, Len(s))), s)
<1> DEFINE m == Least(n, Len(s))
<1>1. Len(s) \in Nat BY LenProperties
<1>2. m \in 0 .. Len(s) BY <1>1 DEF Least
<1>3. \A i \in 1 .. m : s[i] \in FileBytes BY <1>1, <1>2, ElementOfSeq
<1> HIDE DEF m
<1>4. /\ SubSeq(s, 1, m) \in Seq(FileBytes) /\ Len(SubSeq(s, 1, m)) = m
      /\ \A i \in 1 .. m : SubSeq(s, 1, m)[i] = s[i]
  BY <1>1, <1>2, <1>3, SubSeqProperties
<1>5. Begins(SubSeq(s, 1, m), s) BY <1>1, <1>2, <1>4 DEF Begins
<1>6. m \in Nat BY <1>2
<1> QED BY <1>4, <1>5, <1>6 DEF m

LEMMA Truncated ==
  ASSUME NEW s \in Seq(FileBytes), NEW n \in Nat
  PROVE  /\ TruncatingWriter(s, n) \in Seq(FileBytes) /\ Begins(TruncatingWriter(s, n), s)
         /\ Len(TruncatingWriter(s, n)) = IF n = 0 THEN Len(s) ELSE Least(n, Len(s))
<1>1. CASE n = 0 BY <1>1, LenProperties DEF TruncatingWriter, Begins
<1>2. CASE n # 0 BY <1>2, FirstBytes DEF TruncatingWriter
<1> QED BY <1>1, <1>2

LEMMA BeginsAgain ==
  ASSUME NEW s \in Seq(FileBytes), NEW t \in Seq(FileBytes), NEW u \in Seq(FileBytes),
         Begins(s, t), Begins(t, u)
  PROVE  Begins(s, u)
BY LenProperties DEF Begins

\* Two beginnings of one length are one.
LEMMA SameBeginning ==
  ASSUME NEW s \in Seq(FileBytes), NEW t \in Seq(FileBytes), NEW u \in Seq(FileBytes),
         Begins(s, u), Begins(t, u), Len(s) = Len(t)
  PROVE  s = t
BY SeqEqual, LenProperties DEF Begins

\* What a decryptor and the writer behind it give.
LEMMA Opened ==
  ASSUME FilesAssumption, NEW c \in PqfFiles, NEW n \in Nat, OpenContainer(c).ok,
         c.how = "stealth" => n = 0
  PROVE  LET out == TruncatingWriter(OpenContainer(c).text, n) IN
         /\ out \in Seq(FileBytes) /\ Begins(out, Plain(c))
         /\ c.size \in {0, Len(c.text)} /\ n \in {0, c.size} /\ (n = 0 => c.zeros = <<>>)
              => out = c.text
<1> DEFINE open == OpenContainer(c).text
           out == TruncatingWriter(open, n)
<1>0. c.size \in Nat BY DEF PqfFiles
<1>1. c.rot = "none" /\ ~(c.how = "compress" /\ c.size > 0 /\ Len(c.text) > c.size)
  BY DEF OpenContainer, Refused
<1>2. open = IF c.how = "stealth" THEN TruncatingWriter(Plain(c), c.size) ELSE Plain(c)
  BY <1>1 DEF OpenContainer, Refused
<1> HIDE DEF open
<1>3. open \in Seq(FileBytes) /\ Begins(open, Plain(c))
  <2>1. Begins(Plain(c), Plain(c)) BY PlainBytes DEF Begins
  <2> QED BY <1>0, <1>2, <2>1, PlainBytes, Truncated
<1>4. out \in Seq(FileBytes) /\ Begins(out, open)
      /\ Len(out) = IF n = 0 THEN Len(open) ELSE Least(n, Len(open))
  BY <1>3, Truncated
<1> HIDE DEF out
<1>5. Begins(out, Plain(c)) BY <1>3, <1>4, BeginsAgain, PlainBytes
<1>6. ASSUME c.size \in {0, Len(c.text)}, n \in {0, c.size}, n = 0 => c.zeros = <<>>
      PROVE  Len(out) = Len(c.text)
  <2>1. CASE c.how = "stealth"
    <3>1. n = 0 /\ Plain(c) = c.text BY <1>6, <2>1, PlainBytes
    <3>2. Len(open) = IF c.size = 0 THEN Len(c.text) ELSE Least(c.size, Len(c.text))
      BY <1>0, <1>2, <2>1, <3>1, Truncated, PlainBytes
    <3> QED BY <1>4, <1>6, <3>1, <3>2, PlainBytes DEF Least
  <2>2. CASE c.how # "stealth" /\ n = 0
    BY <1>2, <1>4, <1>6, <2>2, PlainBytes
  <2>3. CASE c.how # "stealth" /\ n # 0
    <3>1. n = Len(c.text) /\ open = Plain(c) BY <1>2, <1>6, <2>3
    <3>2. Len(open) \in Nat /\ Len(c.text) \in Nat /\ Len(c.text) <= Len(open)
      BY <1>2, <2>3, PlainBytes DEF Begins
    <3>3. Least(n, Len(open)) = n BY <3>1, <3>2 DEF Least
    <3> QED BY <1>4, <2>3, <3>1, <3>3
  <2> QED BY <2>1, <2>2, <2>3
<1>7. Len(out) = Len(c.text) => out = c.text
  BY <1>4, <1>5, PlainBytes, SameBeginning
<1>8. out = TruncatingWriter(OpenContainer(c).text, n) BY DEF out, open
<1> QED BY <1>4, <1>5, <1>6, <1>7, <1>8

-----------------------------------------------------------------------------
(* Chunks. *)

LEMMA Products ==
  ASSUME NEW L \in Nat, NEW C \in Nat \ {0}
  PROVE  /\ (L + C - 1) \div C \in Nat
         /\ L # 0 => (L + C - 1) \div C # 0
         /\ L <= ((L + C - 1) \div C) * C
         /\ \A i \in Nat : i < (L + C - 1) \div C => i * C <= L /\ i * C \in Nat
         /\ L \div C \in Nat /\ (L \div C) * C <= L
<1>1. /\ (L + C - 1) \div C \in Nat
      /\ L # 0 => (L + C - 1) \div C # 0
  OBVIOUS
<1>2. L <= ((L + C - 1) \div C) * C
  OBVIOUS
<1>3. ASSUME NEW i \in Nat, i < (L + C - 1) \div C PROVE i * C <= L
  BY <1>3
<1>4. L \div C \in Nat /\ (L \div C) * C <= L
  OBVIOUS
<1>5. \A i \in Nat : i * C \in Nat
  OBVIOUS
<1> QED BY <1>1, <1>2, <1>3, <1>4, <1>5

LEMMA ChunkCounts ==
  ASSUME FilesAssumption, NEW c \in PqfFiles
  PROVE  /\ Chunks(c) \in Nat \ {0}
         /\ \A i \in Nat : i < Chunks(c) => i * Chunk <= Len(Plain(c)) /\ SoFar(c, i) = i * Chunk
         /\ SoFar(c, Chunks(c)) = Len(Plain(c))
         /\ \A i \in Nat : SoFar(c, i) \in 0 .. Len(Plain(c)) /\ i * Chunk \in Nat
<1> DEFINE L == Len(Plain(c))
<1>1. L \in Nat /\ Chunk \in Nat \ {0} BY PlainBytes DEF FilesAssumption
<1>2. Plain(c) = <<>> <=> L = 0
  <2>1. Plain(c) \in Seq(FileBytes) BY PlainBytes
  <2> QED BY <2>1, EmptySeq
<1>3. Chunks(c) = IF L = 0 THEN 1 ELSE (L + Chunk - 1) \div Chunk
  BY <1>2 DEF Chunks, CeilDiv
<1>4. \A i \in Nat : SoFar(c, i) = IF i * Chunk < L THEN i * Chunk ELSE L
  BY DEF SoFar, Least
<1> HIDE DEF L
<1>5. Chunks(c) \in Nat \ {0}
  BY <1>1, <1>3, Products
<1>6. ASSUME NEW i \in Nat, i < Chunks(c) PROVE i * Chunk <= L /\ i * Chunk \in Nat
  <2>1. CASE L = 0
    <3>1. i = 0 BY <1>3, <1>6, <2>1
    <3> QED BY <1>1, <3>1
  <2>2. CASE L # 0 BY <1>1, <1>3, <1>6, <2>2, Products
  <2> QED BY <2>1, <2>2
<1>7. \A i \in Nat : i * Chunk \in Nat BY <1>1
<1>8. \A i \in Nat : SoFar(c, i) \in 0 .. L
  <2> TAKE i \in Nat
  <2>1. i * Chunk \in Nat BY <1>7
  <2> DEFINE k == i * Chunk
  <2>2. SoFar(c, i) = IF k < L THEN k ELSE L BY <1>4
  <2> HIDE DEF k
  <2>3. k \in Nat BY <2>1 DEF k
  <2> QED BY <1>1, <2>2, <2>3
<1>9. \A i \in Nat : i < Chunks(c) => SoFar(c, i) = i * Chunk
  <2> SUFFICES ASSUME NEW i \in Nat, i < Chunks(c) PROVE SoFar(c, i) = i * Chunk
    OBVIOUS
  <2> DEFINE k == i * Chunk
  <2>1. k \in Nat /\ k <= L BY <1>6
  <2>2. SoFar(c, i) = IF k < L THEN k ELSE L BY <1>4
  <2> HIDE DEF k
  <2>3. SoFar(c, i) = k BY <1>1, <2>1, <2>2
  <2> QED BY <2>3 DEF k
<1>10. SoFar(c, Chunks(c)) = L
  <2> DEFINE k == Chunks(c) * Chunk
  <2>1. k \in Nat BY <1>5, <1>7
  <2>2. L <= k
    <3>1. CASE L = 0 BY <2>1, <3>1
    <3>2. CASE L # 0 BY <1>1, <1>3, <3>2, Products
    <3> QED BY <3>1, <3>2
  <2>3. SoFar(c, Chunks(c)) = IF k < L THEN k ELSE L BY <1>4, <1>5
  <2> HIDE DEF k
  <2> QED BY <1>1, <2>1, <2>2, <2>3
<1> QED BY <1>5, <1>6, <1>7, <1>8, <1>9, <1>10 DEF L

\* The next chunk, and any part of it, continue what is there.
LEMMA NextChunk ==
  ASSUME FilesAssumption, NEW c \in PqfFiles, NEW i \in Nat, i < Chunks(c)
  PROVE  /\ ReadChunk(c, i) \in Seq(FileBytes)
         /\ Len(ReadChunk(c, i)) = SoFar(c, i + 1) - SoFar(c, i)
         /\ \A k \in 1 .. Len(ReadChunk(c, i)) : ReadChunk(c, i)[k] = Plain(c)[SoFar(c, i) + k]
<1> DEFINE s == Plain(c)  m == SoFar(c, i)  n == SoFar(c, i + 1)
<1>1. m = i * Chunk /\ m \in 0 .. Len(s) /\ n \in 0 .. Len(s) /\ Len(s) \in Nat
  <2>1. i + 1 \in Nat OBVIOUS
  <2>2. m = i * Chunk BY ChunkCounts
  <2>3. \A x \in Nat : SoFar(c, x) \in 0 .. Len(s) BY ChunkCounts
  <2>4. Len(s) \in Nat BY PlainBytes
  <2> QED BY <2>1, <2>2, <2>3, <2>4
<1>2. m <= n
  <2> DEFINE a == i * Chunk  b == (i + 1) * Chunk  z == Len(s)
  <2>1. a \in Nat /\ b \in Nat /\ a <= b BY DEF FilesAssumption
  <2>2. n = (IF b < z THEN b ELSE z) /\ m = a /\ a <= z /\ z \in Nat
    BY <1>1 DEF SoFar, Least
  <2> HIDE DEF a, b, z, m, n
  <2> QED BY <2>1, <2>2
<1>3. ReadChunk(c, i) = SubSeq(s, m + 1, n)
  BY <1>1 DEF ReadChunk, SoFar
<1>4. s \in Seq(FileBytes) BY PlainBytes
<1> HIDE DEF s, m, n
<1>5. \A k \in m + 1 .. n : s[k] \in FileBytes
  <2> TAKE k \in m + 1 .. n
  <2>1. k \in 1 .. Len(s) BY <1>1
  <2> QED BY <1>4, <2>1, ElementOfSeq
<1>6. m + 1 \in Int /\ n \in Int BY <1>1
<1>7. /\ SubSeq(s, m + 1, n) \in Seq(FileBytes)
      /\ Len(SubSeq(s, m + 1, n)) = IF m + 1 <= n THEN n - (m + 1) + 1 ELSE 0
      /\ \A k \in 1 .. n - (m + 1) + 1 : SubSeq(s, m + 1, n)[k] = s[m + 1 + k - 1]
  BY <1>5, <1>6, SubSeqProperties
<1>8. Len(SubSeq(s, m + 1, n)) = n - m BY <1>1, <1>2, <1>7
<1>9. \A k \in 1 .. n - m : SubSeq(s, m + 1, n)[k] = s[m + k]
  <2> TAKE k \in 1 .. n - m
  <2>1. k \in 1 .. n - (m + 1) + 1 /\ m + 1 + k - 1 = m + k BY <1>1
  <2> QED BY <1>7, <2>1
<1>10. ReadChunk(c, i) \in Seq(FileBytes) /\ Len(ReadChunk(c, i)) = n - m
       /\ \A k \in 1 .. Len(ReadChunk(c, i)) : ReadChunk(c, i)[k] = s[m + k]
  BY <1>3, <1>7, <1>8, <1>9
<1> QED BY <1>10 DEF s, m, n

LEMMA Continued ==
  ASSUME NEW s \in Seq(FileBytes), NEW r \in Seq(FileBytes), NEW t \in Seq(FileBytes),
         Begins(s, t), Len(s) + Len(r) <= Len(t),
         \A k \in 1 .. Len(r) : r[k] = t[Len(s) + k]
  PROVE  s \o r \in Seq(FileBytes) /\ Len(s \o r) = Len(s) + Len(r) /\ Begins(s \o r, t)
<1>1. Len(s) \in Nat /\ Len(r) \in Nat /\ Len(t) \in Nat BY LenProperties
<1>2. /\ s \o r \in Seq(FileBytes) /\ Len(s \o r) = Len(s) + Len(r)
      /\ \A i \in 1 .. Len(s) + Len(r) : (s \o r)[i] = IF i <= Len(s) THEN s[i] ELSE r[i - Len(s)]
  BY ConcatProperties
<1>3. ASSUME NEW i \in 1 .. Len(s) + Len(r) PROVE (s \o r)[i] = t[i]
  <2>1. CASE i <= Len(s)
    <3>1. i \in 1 .. Len(s) BY <1>1, <1>3, <2>1
    <3> QED BY <1>2, <2>1, <3>1 DEF Begins
  <2>2. CASE ~(i <= Len(s))
    <3>1. i - Len(s) \in 1 .. Len(r) /\ Len(s) + (i - Len(s)) = i BY <1>1, <1>3, <2>2
    <3>2. r[i - Len(s)] = t[Len(s) + (i - Len(s))] BY <3>1
    <3> QED BY <1>2, <2>2, <3>1, <3>2
  <2> QED BY <2>1, <2>2
<1> QED BY <1>2, <1>3 DEF Begins

LEMMA Appended ==
  ASSUME FilesAssumption, NEW c \in PqfFiles, NEW i \in Nat, i < Chunks(c),
         NEW s \in Seq(FileBytes), Begins(s, Plain(c)), Len(s) = SoFar(c, i)
  PROVE  /\ Len(s \o ReadChunk(c, i)) = SoFar(c, i + 1)
         /\ Begins(s \o ReadChunk(c, i), Plain(c))
         /\ \A n \in 1 .. Len(ReadChunk(c, i)) : Begins(s \o SubSeq(ReadChunk(c, i), 1, n), Plain(c))
<1> DEFINE r == ReadChunk(c, i)  t == Plain(c)
<1>1. /\ r \in Seq(FileBytes) /\ Len(r) = SoFar(c, i + 1) - SoFar(c, i)
      /\ \A k \in 1 .. Len(r) : r[k] = t[SoFar(c, i) + k]
  BY NextChunk
<1>2. /\ t \in Seq(FileBytes) /\ Len(t) \in Nat /\ SoFar(c, i + 1) \in 0 .. Len(t)
         /\ SoFar(c, i) \in 0 .. Len(t)
      /\ Len(r) \in Nat
  <2>1. i + 1 \in Nat OBVIOUS
  <2>2. \A x \in Nat : SoFar(c, x) \in 0 .. Len(t) BY ChunkCounts
  <2>3. t \in Seq(FileBytes) /\ Len(t) \in Nat BY PlainBytes
  <2>4. Len(r) \in Nat BY <1>1, LenProperties
  <2> QED BY <2>1, <2>2, <2>3, <2>4
<1>3. Begins(s, t) OBVIOUS
<1> HIDE DEF r, t
<1>4. Len(s) + Len(r) = SoFar(c, i + 1) BY <1>1, <1>2
<1>5. Len(s \o r) = SoFar(c, i + 1) /\ Begins(s \o r, t)
  <2>1. Len(s) + Len(r) <= Len(t) BY <1>2, <1>4
  <2>2. \A k \in 1 .. Len(r) : r[k] = t[Len(s) + k] BY <1>1
  <2>3. Len(s \o r) = Len(s) + Len(r) /\ Begins(s \o r, t)
    BY <1>1, <1>2, <1>3, <2>1, <2>2, Continued
  <2> QED BY <1>4, <2>3
<1>6. ASSUME NEW n \in 1 .. Len(r) PROVE Begins(s \o SubSeq(r, 1, n), t)
  <2> DEFINE q == SubSeq(r, 1, n)
  <2>1. Least(n, Len(r)) = n /\ n \in Nat BY <1>2 DEF Least
  <2>2. q \in Seq(FileBytes) /\ Len(q) = n /\ Begins(q, r) BY <1>1, <2>1, FirstBytes
  <2> HIDE DEF q
  <2>3. Len(s) + Len(q) <= Len(t) BY <1>2, <1>4, <2>1, <2>2
  <2>4. ASSUME NEW k \in 1 .. Len(q) PROVE q[k] = t[Len(s) + k]
    <3>1. q[k] = r[k] BY <2>2 DEF Begins
    <3>2. k \in 1 .. Len(r) BY <1>2, <2>1, <2>2
    <3> QED BY <1>1, <3>1, <3>2
  <2> QED BY <1>2, <1>3, <2>2, <2>3, <2>4, Continued DEF q
<1> QED BY <1>5, <1>6 DEF r, t

\* Where a decryption goes on from: at a chunk, which the output reaches.
LEMMA GoesOn ==
  ASSUME FilesAssumption, NEW c \in PqfFiles, NEW s \in Seq(FileBytes)
  PROVE  LET safe == SafeChunks(c, Len(s)) IN
         /\ safe \in Nat /\ safe < Chunks(c) /\ safe * Chunk \in Nat
         /\ Least(safe * Chunk, Len(s)) = SoFar(c, safe)
<1> DEFINE n == Len(s)  k == n \div Chunk  safe == SafeChunks(c, n)
<1>1. n \in Nat /\ Chunk \in Nat \ {0} /\ Chunks(c) \in Nat \ {0}
  BY LenProperties, ChunkCounts DEF FilesAssumption
<1> HIDE DEF n
<1>2. k \in Nat /\ k * Chunk <= n BY <1>1, Products
<1>3. safe = IF k < Chunks(c) - 1 THEN k ELSE Chunks(c) - 1
  BY DEF SafeChunks, Least
<1> HIDE DEF k, safe
<1>4. safe \in Nat /\ safe < Chunks(c) /\ safe <= k BY <1>1, <1>2, <1>3
<1>5. safe * Chunk \in Nat /\ safe * Chunk <= k * Chunk BY <1>1, <1>2, <1>4
<1>6. safe * Chunk = SoFar(c, safe) BY <1>4, ChunkCounts
<1>7. Least(safe * Chunk, n) = safe * Chunk
  <2> DEFINE a == safe * Chunk  b == k * Chunk
  <2>1. a \in Nat /\ a <= b /\ b <= n /\ b \in Nat BY <1>1, <1>2, <1>5
  <2> HIDE DEF a, b
  <2>2. Least(a, n) = a BY <1>1, <2>1 DEF Least
  <2> QED BY <2>2 DEF a
<1> QED BY <1>4, <1>5, <1>6, <1>7 DEF n, safe

\* The files of a directory, in a row.
LEMMA Collected ==
  ASSUME FilesAssumption
  PROVE  /\ CollectFiles \in Seq(Files)
         /\ \A f \in Files : disk[Src(f)] # None
              => \E i \in 1 .. Len(CollectFiles) : CollectFiles[i] = f
<1> DEFINE found == {f \in Files : disk[Src(f)] # None}
           n == Cardinality(found)
<1>1. CASE found = {}
  BY <1>1 DEF CollectFiles
<1>2. CASE found # {}
  <2>1. IsFiniteSet(found) BY FS_Subset DEF FilesAssumption
  <2>2. n \in Nat /\ ExistsBijection(1 .. n, found) BY <2>1, FS_CardinalityType
  <2>3. \E s \in [1 .. n -> found] : \A f \in found : \E i \in DOMAIN s : s[i] = f
    BY <2>2 DEF ExistsBijection, Bijection, Injection, Surjection
  <2>4. CollectFiles = CHOOSE s \in [1 .. n -> found] : \A f \in found : \E i \in DOMAIN s : s[i] = f
    BY <1>2 DEF CollectFiles
  <2>5. CollectFiles \in [1 .. n -> found] /\ \A f \in found : \E i \in DOMAIN CollectFiles : CollectFiles[i] = f
    BY <2>3, <2>4
  <2>6. CollectFiles \in Seq(Files) /\ Len(CollectFiles) = n /\ DOMAIN CollectFiles = 1 .. n
    <3> DEFINE s == CollectFiles
    <3>1. s \in [1 .. n -> Files] BY <2>5
    <3> HIDE DEF s, n
    <3>2. s \in Seq(Files) /\ Len(s) = n /\ DOMAIN s = 1 .. n BY <2>2, <3>1 
    <3> QED BY <3>2 DEF s
  <2> QED BY <2>5, <2>6
<1> QED BY <1>1, <1>2

-----------------------------------------------------------------------------
(* Steps that leave containers and outputs alone. *)

\* At most p's temporary file and parity are touched.
InPlace(p) ==
  /\ DOMAIN disk' = Paths
  /\ \A f \in Files : /\ disk'[Src(f)] = disk[Src(f)] /\ disk'[Pqf(f)] = disk[Pqf(f)]
                      /\ disk'[Out(f)] = disk[Out(f)] /\ disk'[Fec(f)] \in FecFiles
  /\ \A q \in Procs : \A to : q # p => disk'[Tmp(q, to)] = disk[Tmp(q, to)]

LEMMA SameInPlace == ASSUME DiskTyped, NEW p \in Procs, UNCHANGED disk PROVE InPlace(p)
BY DEF DiskTyped, InPlace

LEMMA TempInPlace ==
  ASSUME DiskTyped, NEW p \in Procs, NEW to, NEW w, Put(Tmp(p, to), w)
  PROVE  InPlace(p) /\ \A too : disk'[Tmp(p, too)] = w
<1>1. DOMAIN disk = Paths BY DEF DiskTyped
<1>2. /\ DOMAIN disk' = Paths /\ disk'[Tmp(p, to)] = w
      /\ \A y \in Paths : y # Tmp(p, to) => disk'[y] = disk[y]
  BY <1>1, PathsApart, Putting
<1> QED BY <1>2, PathsApart DEF InPlace, DiskTyped

LEMMA FecInPlace ==
  ASSUME DiskTyped, NEW p \in Procs, NEW f \in Files, NEW w \in FecFiles, Put(Fec(f), w)
  PROVE  InPlace(p) /\ \A to : disk'[Tmp(p, to)] = disk[Tmp(p, to)]
<1>1. DOMAIN disk = Paths BY DEF DiskTyped
<1>2. /\ DOMAIN disk' = Paths /\ disk'[Fec(f)] = w
      /\ \A y \in Paths : y # Fec(f) => disk'[y] = disk[y]
  BY <1>1, PathsApart, Putting
<1>3. \A g \in Files : disk'[Fec(g)] \in FecFiles
  <2> TAKE g \in Files
  <2>1. CASE Fec(g) = Fec(f) BY <1>2, <2>1
  <2>2. CASE Fec(g) # Fec(f) BY <1>2, <2>2, PathsApart DEF DiskTyped
  <2> QED BY <2>1, <2>2
<1> QED BY <1>2, <1>3, PathsApart DEF InPlace

Fits(j) == JobTyped(j) /\ Filed(j) /\ Decrypted(j) /\ Reads(j, disk[Out(j.f)], disk[Pqf(j.f)])

\* What a job that follows p's may be.
MayFollow(p, j, n) ==
  /\ Pending(j) => j.wrote.id = n /\ seals < n
  /\ j \in DecryptJobs =>
       \/ /\ job[p] \in DecryptJobs /\ j.c = job[p].c /\ j.f = job[p].f
          /\ Live(j) => Live(job[p])
          /\ Resuming(j) => Resuming(job[p])
       \/ /\ j.c = disk[Pqf(j.f)] /\ ~Resuming(j)
          /\ \A q \in Procs : q # p /\ Resuming(job[q]) => job[q].f # j.f

LEMMA JobStep ==
  ASSUME FilesAssumption, FileInv, NEW p \in Procs, NEW j, Fits(j), Go(p, j), InPlace(p),
         FileCounts', seals <= seals', MayFollow(p, j, seals'),
         j.pc = "commit" => disk'[Tmp(p, j.to)] = j.wrote /\ j.wrote # None
  PROVE  FileInv'
<1>j. DOMAIN job' = Procs /\ job'[p] = j /\ \A q \in Procs : q # p => job'[q] = job[q]
  BY Going DEF FileInv, JobsFit
<1>s. seals \in Nat /\ seals' \in Nat BY DEF FileInv, FileCounts
<1>f. \A q \in Procs : job[q] \in DecryptJobs => job[q].f \in Files
  BY DEF DecryptJobs, Files
<1>g. j \in DecryptJobs => j.f \in Files BY DEF DecryptJobs, Files
<1>1. DiskTyped' BY DEF FileInv, DiskTyped, InPlace
<1>2. JobsFit'
  <2>2. ASSUME NEW q \in Procs PROVE JobTyped(job'[q]) /\ Decrypted(job'[q])
    BY <1>j, <2>2 DEF FileInv, JobsFit, Fits
  <2>3. ASSUME NEW q \in Procs PROVE Filed(job[q])'
    <3>1. \A k \in EncryptJobs : k.all \subseteq Files BY DEF EncryptJobs
    <3>2. Filed(job'[q]) BY <1>j DEF FileInv, JobsFit, Fits
    <3> QED BY <3>1, <3>2 DEF Filed, InPlace, Pqf
  <2>4. ASSUME NEW q \in Procs PROVE Reads(job'[q], disk'[Out(job'[q].f)], disk'[Pqf(job'[q].f)])
    <3>1. Reads(job'[q], disk[Out(job'[q].f)], disk[Pqf(job'[q].f)])
      BY <1>j DEF FileInv, JobsFit, Fits
    <3>2. CASE job'[q] \notin DecryptJobs BY <3>2 DEF Reads
    <3>3. CASE job'[q] \in DecryptJobs
      <4>1. job'[q].f \in Files BY <1>j, <1>f, <1>g, <3>3
      <4> QED BY <3>1, <4>1 DEF InPlace
    <3> QED BY <3>2, <3>3
  <2>5. ASSUME NEW q \in Procs PROVE Numbered(job'[q], seals')
    <3>1. \A k \in Procs : Numbered(job[k], seals) BY DEF FileInv, JobsFit
    <3>2. \A k \in Procs : job[k] \in DecryptJobs => job[k].c.id \in Nat
      BY DEF DecryptJobs, PqfFiles
    <3>3. \A k \in Procs : Pending(job[k]) => job[k].wrote.id \in Nat
      BY DEF FileInv, JobsFit, InTemp, Pending, EncryptJobs, PqfFiles
    <3>4. CASE q # p BY <1>j, <1>s, <3>1, <3>2, <3>3, <3>4 DEF Numbered
    <3>5. CASE q = p
      <4>1. Pending(j) => j.wrote.id <= seals' BY <1>s DEF MayFollow
      <4>2. j \in DecryptJobs => j.c.id <= seals'
        <5> SUFFICES ASSUME j \in DecryptJobs PROVE j.c.id <= seals' OBVIOUS
        <5>1. CASE job[p] \in DecryptJobs /\ j.c = job[p].c BY <1>s, <3>1, <3>2, <5>1 DEF Numbered
        <5>2. CASE j.c = disk[Pqf(j.f)]
          <6>1. j.c \in PqfFiles BY DEF DecryptJobs
          <6>2. j.c.id <= seals /\ j.c.id \in Nat
            BY <1>g, <5>2, <6>1, Kinds DEF FileInv, DiskNumbered, PqfFiles
          <6> QED BY <1>s, <6>2
        <5> QED BY <5>1, <5>2 DEF MayFollow
      <4> QED BY <1>j, <3>5, <4>1, <4>2 DEF Numbered
    <3> QED BY <3>4, <3>5
  <2>6. ASSUME NEW q \in Procs PROVE JobTyped(job[q])' /\ Decrypted(job[q])'
    BY <2>2 DEF JobTyped, EncryptShape, DecryptShape, Decrypted, AsSealed
  <2>7. ASSUME NEW q \in Procs PROVE Reads(job[q], disk[Out(job[q].f)], disk[Pqf(job[q].f)])'
    BY <2>4 DEF Reads, SameText, InStep, Resuming, Live, Out, Pqf
  <2>8. ASSUME NEW q \in Procs PROVE Numbered(job[q], seals)'
    BY <2>5 DEF Numbered, Pending
  <2> QED BY <1>j, <2>3, <2>6, <2>7, <2>8 DEF JobsFit
<1>3. InTemp'
  <2> SUFFICES ASSUME NEW q \in Procs, job'[q].pc = "commit"
               PROVE  disk'[Tmp(q, job'[q].to)] = job'[q].wrote /\ job'[q].wrote # None
    BY DEF InTemp, Tmp
  <2>1. CASE q = p BY <1>j, <2>1
  <2>2. CASE q # p BY <1>j, <2>2 DEF FileInv, InTemp, InPlace
  <2> QED BY <2>1, <2>2
<1>4. DiskNumbered'
  <2> SUFFICES ASSUME NEW f \in Files
               PROVE  /\ disk'[Pqf(f)] # None => disk'[Pqf(f)].id <= seals'
                      /\ disk'[Out(f)] # None => disk'[Out(f)].of <= seals'
    BY DEF DiskNumbered, Pqf, Out
  <2>1. disk'[Pqf(f)] = disk[Pqf(f)] /\ disk'[Out(f)] = disk[Out(f)] BY DEF InPlace
  <2>2. disk[Pqf(f)] # None => disk[Pqf(f)].id \in Nat BY DEF FileInv, DiskTyped, PqfFiles
  <2>3. disk[Out(f)] # None => disk[Out(f)].of \in Nat BY DEF FileInv, DiskTyped, OutFiles
  <2> QED BY <1>s, <2>1, <2>2, <2>3 DEF FileInv, DiskNumbered
<1>5. Unseen'
  <2>1. \A k \in Procs : job[k] \in DecryptJobs => job[k].c.id \in Nat /\ job[k].c.id <= seals
    BY DEF DecryptJobs, PqfFiles, FileInv, JobsFit, Numbered
  <2>2. \A k \in Procs : Pending(job[k]) => job[k].wrote.id \in Nat /\ job[k].wrote.id <= seals
    BY DEF FileInv, JobsFit, InTemp, Pending, EncryptJobs, PqfFiles, Numbered
  <2>3. \A f \in Files : /\ disk[Pqf(f)] # None
                              => disk[Pqf(f)].id \in Nat /\ disk[Pqf(f)].id <= seals
                         /\ disk[Out(f)] # None
                              => disk[Out(f)].of \in Nat /\ disk[Out(f)].of <= seals
    BY DEF FileInv, DiskTyped, PqfFiles, OutFiles, DiskNumbered
  <2>4. \A q \in Procs : job'[q] \in DecryptJobs =>
          \/ \E k \in Procs : job[k] \in DecryptJobs /\ job'[q].c = job[k].c
          \/ \E f \in Files : disk[Pqf(f)] # None /\ job'[q].c = disk[Pqf(f)]
    <3> SUFFICES ASSUME j \in DecryptJobs
                 PROVE  \/ \E k \in Procs : job[k] \in DecryptJobs /\ j.c = job[k].c
                        \/ \E f \in Files : disk[Pqf(f)] # None /\ j.c = disk[Pqf(f)]
      BY <1>j
    <3>1. CASE job[p] \in DecryptJobs /\ j.c = job[p].c BY <3>1
    <3>2. CASE j.c = disk[Pqf(j.f)]
      <4>1. j.c \in PqfFiles BY DEF DecryptJobs
      <4> QED BY <1>g, <3>2, <4>1, Kinds
    <3> QED BY <3>1, <3>2 DEF MayFollow
  <2>5. ASSUME NEW q \in Procs, Pending(job'[q])
        PROVE  /\ \A f \in Files : /\ disk'[Pqf(f)] # None => disk'[Pqf(f)].id # job'[q].wrote.id
                                   /\ disk'[Out(f)] # None => disk'[Out(f)].of # job'[q].wrote.id
               /\ \A r \in Procs : /\ job'[r] \in DecryptJobs => job'[r].c.id # job'[q].wrote.id
                                   /\ r # q /\ Pending(job'[r])
                                        => job'[r].wrote.id # job'[q].wrote.id
    <3>1. CASE q = p
      <4>1. job'[q].wrote.id = seals' /\ seals < seals' BY <1>j, <2>5, <3>1 DEF MayFollow
      <4>2. \A r \in Procs : r # q => job'[r] = job[r] BY <1>j, <3>1
      <4>3. \A r \in Procs : job'[r] \in DecryptJobs
                => job'[r].c.id \in Nat /\ job'[r].c.id <= seals
        BY <2>1, <2>3, <2>4
      <4> QED BY <1>s, <2>2, <2>3, <4>1, <4>2, <4>3 DEF InPlace
    <3>2. CASE q # p
      <4>1. job'[q] = job[q] /\ Pending(job[q]) BY <1>j, <2>5, <3>2
      <4>2. \A f \in Files : /\ disk[Pqf(f)] # None => disk[Pqf(f)].id # job[q].wrote.id
                             /\ disk[Out(f)] # None => disk[Out(f)].of # job[q].wrote.id
        BY <4>1 DEF FileInv, Unseen
      <4>3. \A r \in Procs : job[r] \in DecryptJobs => job[r].c.id # job[q].wrote.id
        BY <4>1 DEF FileInv, Unseen
      <4>4. \A r \in Procs : r # q /\ Pending(job[r]) => job[r].wrote.id # job[q].wrote.id
        BY <4>1 DEF FileInv, Unseen
      <4>5. \A r \in Procs : job'[r] \in DecryptJobs => job'[r].c.id # job'[q].wrote.id
        BY <2>4, <4>1, <4>2, <4>3
      <4>6. \A r \in Procs : r # q /\ Pending(job'[r]) => job'[r].wrote.id # job'[q].wrote.id
        <5> TAKE r \in Procs
        <5>1. CASE r = p
          <6>1. Pending(job'[r]) => job'[r].wrote.id = seals' /\ seals < seals'
            BY <1>j, <5>1 DEF MayFollow
          <6> QED BY <1>s, <2>2, <4>1, <6>1
        <5>2. CASE r # p BY <1>j, <4>1, <4>4, <5>2
        <5> QED BY <5>1, <5>2
      <4> QED BY <4>1, <4>2, <4>5, <4>6 DEF InPlace
    <3> QED BY <3>1, <3>2
  <2> QED BY <2>5 DEF Unseen, Pending, Pqf, Out
<1>6. OutputBegins' BY DEF FileInv, OutputBegins, InPlace, Begins, Plain
<1>7. Alone'
  <2>1. ASSUME NEW q \in Procs, NEW r \in Procs, Resuming(job'[q]), q # r, job'[r] \in DecryptJobs, Live(job'[r])
        PROVE  job'[r].f # job'[q].f
    <3>1. CASE r = p
      <4>1. job'[q] = job[q] BY <1>j, <2>1, <3>1
      <4>2. CASE job[p] \in DecryptJobs /\ j.f = job[p].f /\ (Live(j) => Live(job[p]))
        BY <1>j, <2>1, <3>1, <4>1, <4>2 DEF FileInv, Alone
      <4>3. CASE \A k \in Procs : k # p /\ Resuming(job[k]) => job[k].f # j.f
        BY <1>j, <2>1, <3>1, <4>1, <4>3
      <4> QED BY <1>j, <2>1, <3>1, <4>2, <4>3 DEF MayFollow
    <3>2. CASE q = p
      <4>1. job'[r] = job[r] /\ job'[q] = j BY <1>j, <2>1, <3>2
      <4>2. j \in DecryptJobs BY <2>1, <4>1 DEF Resuming
      <4>3. job[p] \in DecryptJobs /\ j.f = job[p].f /\ Resuming(job[p])
        BY <2>1, <4>1, <4>2 DEF MayFollow
      <4> QED BY <2>1, <3>2, <4>1, <4>3 DEF FileInv, Alone
    <3>3. CASE q # p /\ r # p BY <1>j, <2>1, <3>3 DEF FileInv, Alone
    <3> QED BY <3>1, <3>2, <3>3
  <2> QED BY <2>1 DEF Alone, Resuming, Live
<1> QED BY <1>1, <1>2, <1>3, <1>4, <1>5, <1>6, <1>7 DEF FileInv

LEMMA EndedStep ==
  ASSUME FilesAssumption, FileInv, NEW p \in Procs, NEW j \in EndedJobs, Go(p, j), InPlace(p),
         FileCounts', seals <= seals'
  PROVE  FileInv'
<1>1. j \notin EncryptJobs /\ j \notin DecryptJobs /\ j.pc # "commit" BY JobKinds
<1>2. Fits(j) BY <1>1 DEF Fits, JobTyped, Filed, Decrypted, Reads
<1>3. MayFollow(p, j, seals') BY <1>1 DEF MayFollow, Pending
<1> QED BY <1>1, <1>2, <1>3, JobStep

LEMMA Starting ==
  ASSUME FilesAssumption, FileInv, NEW p \in Procs, NEW j, Start(p, j)
  PROVE  Go(p, j) /\ FileCounts' /\ seals <= seals' /\ seals' = seals
BY DEF Start, FileInv, FileCounts, FilesAssumption

LEMMA Steady ==
  ASSUME FileInv, UNCHANGED <<seals, started, faults>>
  PROVE  FileCounts' /\ seals <= seals' /\ seals' = seals
BY DEF FileInv, FileCounts

LEMMA NewEncrypt ==
  ASSUME NEW f \in Files \cup {None}, NEW opts \in EncryptOptions, NEW how \in Hows,
         NEW j, j = EncryptJob(f, opts, how)
  PROVE  /\ j \in EncryptJobs /\ j.f = f /\ j.to = Pqf(f) /\ j.do = "encrypt" /\ j.pc = "write"
         /\ j.all = {} /\ j.more = <<>> /\ j.opts = opts /\ j.how = how
BY DEF EncryptJob, EncryptJobs, FecFiles, Pqf

LEMMA BeginStep ==
  ASSUME FilesAssumption, FileInv, NEW p \in Procs, NEW f \in Single, NEW opts \in EncryptOptions,
         NEW how \in Hows, NEW ready, Begin(p, f, opts, how, ready)
  PROVE  FileInv'
<1> DEFINE j == [EncryptJob(f, opts, how) EXCEPT !.size = ResolveEncryptOutput(f)]
<1>1. CASE Start(p, Ended("failed")) /\ UNCHANGED disk
  <2>1. Ended("failed") \in EndedJobs BY DEF EndedJobs
  <2> QED BY <1>1, <2>1, EndedStep, Starting, SameInPlace DEF FileInv
<1>2. CASE disk[Src(f)] # None /\ Start(p, j) /\ Put(Tmp(p, j.to), Half)
  <2> DEFINE e == EncryptJob(f, opts, how)
             n == ResolveEncryptOutput(f)
  <2>1. f \in Files BY DEF Files
  <2>2. n \in Lengths /\ n \in Nat
    BY <1>2, <2>1, SourceBytes DEF FileInv, DiskTyped, ResolveEncryptOutput, FilesAssumption
  <2>3. /\ e \in EncryptJobs /\ e.f = f /\ e.to = Pqf(f) /\ e.do = "encrypt" /\ e.pc = "write"
        /\ e.all = {}
    BY <2>1, NewEncrypt
  <2>4. j = [e EXCEPT !.size = n] OBVIOUS
  <2> HIDE DEF j, e, n
  <2>5. /\ j \in EncryptJobs /\ j.f = f /\ j.to = Pqf(f) /\ j.do = "encrypt" /\ j.pc = "write"
        /\ j.all = {} /\ j.size \in Lengths
    BY <2>2, <2>3, <2>4 DEF EncryptJobs
  <2>6. Fits(j)
    BY <2>1, <2>5, JobKinds DEF Fits, JobTyped, EncryptShape, Filed, Decrypted, Reads
  <2>7. MayFollow(p, j, seals') BY <2>5, JobKinds DEF MayFollow, Pending
  <2>8. InPlace(p) BY <1>2, TempInPlace DEF FileInv, j
  <2>9. Go(p, j) /\ FileCounts' /\ seals <= seals' BY <1>2, Starting DEF j
  <2> QED BY <2>5, <2>6, <2>7, <2>8, <2>9, JobStep
<1> QED BY <1>1, <1>2 DEF Begin

LEMMA BatchStep ==
  ASSUME FilesAssumption, FileInv, NEW p \in Procs, RunEncryptRecursive(p)
  PROVE  FileInv'
<1>1. PICK opts \in EncryptOptions, how \in {"stream", "compress"} :
        /\ Start(p, [EncryptJob(None, opts, how) EXCEPT !.do = "recurse", !.more = CollectFiles,
                        !.all = {f \in Files : disk[Src(f)] # None}, !.pc = "next"])
        /\ UNCHANGED disk
  BY DEF RunEncryptRecursive
<1> DEFINE j == [EncryptJob(None, opts, how) EXCEPT !.do = "recurse", !.more = CollectFiles,
                        !.all = {f \in Files : disk[Src(f)] # None}, !.pc = "next"]
<1> DEFINE e == EncryptJob(None, opts, how)
           found == {f \in Files : disk[Src(f)] # None}
<1>2. how \in Hows BY DEF Hows
<1>3. Start(p, j) BY <1>1
<1>4. e \in EncryptJobs /\ e.f = None /\ e.to = Pqf(None) BY <1>2, NewEncrypt
<1>5. /\ j \in EncryptJobs /\ j.all = found /\ j.pc = "next" /\ j.do = "recurse"
      /\ j.to = Pqf(None) /\ j.f = None /\ j.more = CollectFiles
  <2>1. j = [e EXCEPT !.do = "recurse", !.more = CollectFiles, !.all = found, !.pc = "next"]
    OBVIOUS
  <2>2. found \in SUBSET Files /\ CollectFiles \in Seq(Files) BY Collected
  <2> HIDE DEF j, e, found
  <2> QED BY <1>4, <2>1, <2>2 DEF EncryptJobs
<1> HIDE DEF j
<1>6. JobTyped(j) BY <1>5 DEF JobTyped, EncryptShape
<1>7. Filed(j) BY <1>5, Collected DEF Filed
<1>8. Fits(j) BY <1>5, <1>6, <1>7, JobKinds DEF Fits, Decrypted, Reads
<1>9. MayFollow(p, j, seals') BY <1>5, JobKinds DEF MayFollow, Pending
<1>10. InPlace(p) BY <1>1, SameInPlace DEF FileInv
<1>11. Go(p, j) /\ FileCounts' /\ seals <= seals' BY <1>3, Starting
<1> QED BY <1>5, <1>8, <1>9, <1>10, <1>11, JobStep

LEMMA Current ==
  ASSUME FileInv, NEW p \in Procs
  PROVE  /\ Fits(job[p]) /\ Numbered(job[p], seals) /\ p \in DOMAIN job
         /\ job[p].pc \notin {"idle", "ok", "failed"} => job[p] \in EncryptJobs \cup DecryptJobs
         /\ job[p] \in EncryptJobs => EncryptShape(job[p]) /\ job[p] \notin DecryptJobs
         /\ job[p] \in DecryptJobs => DecryptShape(job[p]) /\ job[p] \notin EncryptJobs
         /\ job[p].do = "encrypt" /\ job[p].pc \notin {"idle", "ok", "failed"}
              => job[p] \in EncryptJobs
         /\ job[p].do \in {"decrypt", "resume"} /\ job[p].pc \notin {"idle", "ok", "failed"}
              => job[p] \in DecryptJobs
<1>1. Fits(job[p]) /\ Numbered(job[p], seals) /\ p \in DOMAIN job BY DEF FileInv, JobsFit, Fits
<1>2. JobTyped(job[p]) BY <1>1 DEF Fits
<1> QED BY <1>1, <1>2, JobKinds DEF JobTyped

\* A job that fails is done with.
LEMMA FailingStep ==
  ASSUME FilesAssumption, FileInv, NEW p \in Procs, job[p].pc \notin {"idle", "ok", "failed"},
         Go(p, Failing(job[p])), InPlace(p), UNCHANGED <<seals, started, faults>>
  PROVE  FileInv'
<1> DEFINE j == Failing(job[p])
<1>1. CASE job[p] \in EncryptJobs
  <2>1. j \in EncryptJobs /\ EncryptShape(j) /\ j.pc = "failed"
    BY <1>1, Current DEF Failing, EncryptJobs, EncryptShape
  <2> HIDE DEF j
  <2>2. Fits(j) BY <2>1, JobKinds DEF Fits, JobTyped, Filed, Decrypted, Reads
  <2>3. MayFollow(p, j, seals') BY <2>1, JobKinds DEF MayFollow, Pending
  <2>4. Go(p, j) BY DEF j
  <2> QED BY <2>1, <2>2, <2>3, <2>4, Steady, JobStep
<1>2. CASE job[p] \in DecryptJobs
  <2>1. j \in DecryptJobs /\ DecryptShape(j) /\ j.pc = "failed" /\ j.c = job[p].c /\ j.f = job[p].f
    BY <1>2, Current DEF Failing, DecryptJobs, DecryptShape
  <2> HIDE DEF j
  <2>2. Fits(j)
    BY <2>1, JobKinds DEF Fits, JobTyped, Filed, Decrypted, Reads, SameText, InStep, Live,
                          Resuming
  <2>3. MayFollow(p, j, seals') BY <1>2, <2>1, JobKinds DEF MayFollow, Pending, Live, Resuming
  <2>4. Go(p, j) BY DEF j
  <2> QED BY <2>1, <2>2, <2>3, <2>4, Steady, JobStep
<1> QED BY <1>1, <1>2, Current

\* The steps after the file is in place: nothing of it changes.
LEMMA AfterStep ==
  ASSUME FilesAssumption, FileInv, NEW p \in Procs, job[p].pc \in {"fec", "parity", "log"},
         NEW next \in {"log", "next"}, Go(p, [job[p] EXCEPT !.pc = next]), InPlace(p),
         UNCHANGED <<seals, started, faults>>
  PROVE  FileInv'
<1> DEFINE j == [job[p] EXCEPT !.pc = next]
<1>1. CASE job[p] \in EncryptJobs
  <2>1. j \in EncryptJobs /\ EncryptShape(j) /\ j.pc = next
        /\ j.all = job[p].all /\ j.more = job[p].more /\ j.bad = job[p].bad
    BY <1>1, Current DEF EncryptJobs, EncryptShape
  <2> HIDE DEF j
  <2>2. Filed(j) BY <1>1, <2>1, Current DEF Fits, Filed
  <2>3. Fits(j) BY <2>1, <2>2, JobKinds DEF Fits, JobTyped, Decrypted, Reads
  <2>4. MayFollow(p, j, seals') BY <2>1, JobKinds DEF MayFollow, Pending
  <2>5. Go(p, j) BY DEF j
  <2> QED BY <2>1, <2>3, <2>4, <2>5, Steady, JobStep
<1>2. CASE job[p] \in DecryptJobs
  <2>1. job[p].do = "decrypt" BY <1>2, Current DEF DecryptShape, DecryptJobs
  <2>2. /\ j \in DecryptJobs /\ DecryptShape(j) /\ j.pc = next /\ j.c = job[p].c /\ j.f = job[p].f
        /\ j.do = "decrypt" /\ j.wrote = job[p].wrote /\ j.limit = job[p].limit
    BY <1>2, <2>1, Current DEF DecryptJobs, DecryptShape
  <2> HIDE DEF j
  <2>3. AsSealed(job[p])
    BY <1>2, <2>1, Current DEF Fits, Decrypted, DecryptJobs
  <2>4. AsSealed(j) BY <2>2, <2>3 DEF AsSealed
  <2>5. Live(job[p]) /\ Reads(job[p], disk[Out(job[p].f)], disk[Pqf(job[p].f)])
    BY Current DEF Fits, Live
  <2>6. Reads(j, disk[Out(j.f)], disk[Pqf(j.f)])
    BY <1>2, <2>2, <2>5 DEF Reads, SameText, InStep, Resuming
  <2>7. Fits(j) BY <2>2, <2>4, <2>6, JobKinds DEF Fits, JobTyped, Filed, Decrypted
  <2>8. MayFollow(p, j, seals') BY <1>2, <2>2, <2>5, JobKinds DEF MayFollow, Pending, Resuming
  <2>9. Go(p, j) BY DEF j
  <2> QED BY <2>2, <2>7, <2>8, <2>9, Steady, JobStep
<1> QED BY <1>1, <1>2, Current

LEMMA SidecarStep ==
  ASSUME FilesAssumption, FileInv, NEW p \in Procs,
         NoSidecar(p) \/ WriteFecSidecar(p) \/ FinishSidecar(p) \/ LogEvent(p)
  PROVE  FileInv'
<1>0. UNCHANGED <<seals, started, faults>>
  BY DEF NoSidecar, WriteFecSidecar, FinishSidecar, LogEvent
<1>1. CASE NoSidecar(p)
  <2>1. InPlace(p) BY <1>1, SameInPlace DEF NoSidecar, FileInv
  <2> QED BY <1>0, <1>1, <2>1, AfterStep DEF NoSidecar
<1>2. CASE WriteFecSidecar(p)
  <2>1. job[p] \in EncryptJobs /\ EncryptShape(job[p]) /\ job[p].pc = "fec" /\ job[p].f \in Files
        /\ job[p].do = "encrypt"
    BY <1>2, Current DEF WriteFecSidecar, Is, EncryptShape
  <2> DEFINE c == disk[Pqf(job[p].f)]
             j == [job[p] EXCEPT !.pc = "parity", !.parity = Parity(c)]
  <2>2. CASE Whole(c) /\ Put(Fec(job[p].f), Half) /\ Go(p, j)
    <3>1. Parity(c) \in FecFiles
      BY <2>1, <2>2 DEF FileInv, DiskTyped, Whole, Parity, FecFiles, Parities, PqfFiles
    <3>2. j \in EncryptJobs /\ EncryptShape(j) /\ j.pc = "parity"
          /\ j.all = job[p].all /\ j.more = job[p].more /\ j.bad = job[p].bad
      BY <2>1, <3>1 DEF EncryptJobs, EncryptShape
    <3> HIDE DEF j
    <3>3. Filed(j) BY <2>1, <3>2, Current DEF Fits, Filed
    <3>4. Fits(j) BY <3>2, <3>3, JobKinds DEF Fits, JobTyped, Decrypted, Reads
    <3>5. MayFollow(p, j, seals') BY <3>2, JobKinds DEF MayFollow, Pending
    <3>6. InPlace(p) BY <2>1, <2>2, FecInPlace DEF FileInv, FecFiles
    <3> QED BY <1>0, <2>2, <3>2, <3>4, <3>5, <3>6, Steady, JobStep
  <2>3. CASE Go(p, Failing(job[p])) /\ UNCHANGED disk
    BY <1>0, <2>1, <2>3, SameInPlace, FailingStep DEF FileInv
  <2> QED BY <1>2, <2>2, <2>3 DEF WriteFecSidecar
<1>3. CASE FinishSidecar(p)
  <2>1. job[p] \in EncryptJobs /\ EncryptShape(job[p])
    BY <1>3, Current DEF FinishSidecar, DecryptJobs
  <2>2. job[p].f \in Files /\ job[p].parity \in FecFiles
    BY <1>3, <2>1 DEF FinishSidecar, EncryptShape, EncryptJobs
  <2>3. InPlace(p) BY <1>3, <2>2, FecInPlace DEF FinishSidecar, FileInv
  <2> QED BY <1>0, <1>3, <2>3, AfterStep DEF FinishSidecar
<1>4. CASE LogEvent(p)
  <2>1. InPlace(p) BY <1>4, SameInPlace DEF LogEvent, FileInv
  <2>2. CASE Go(p, [job[p] EXCEPT !.pc = "next"])
    BY <1>0, <1>4, <2>1, <2>2, AfterStep DEF LogEvent
  <2>3. CASE Go(p, Failing(job[p])) BY <1>0, <1>4, <2>1, <2>3, FailingStep DEF LogEvent
  <2> QED BY <1>4, <2>2, <2>3 DEF LogEvent
<1> QED BY <1>1, <1>2, <1>3, <1>4

LEMMA OneFileStep ==
  ASSUME FilesAssumption, FileInv, NEW p \in Procs, EncryptOneFile(p)
  PROVE  FileInv'
<1> DEFINE f == Head(job[p].more)
           n == ResolveEncryptOutput(f)
           j == [job[p] EXCEPT !.do = "encrypt", !.f = f, !.to = Pqf(f), !.more = Tail(@), !.size = n]
<1>0. UNCHANGED <<seals, started, faults>> BY DEF EncryptOneFile
<1>1. job[p] \in EncryptJobs /\ EncryptShape(job[p]) /\ job[p].pc = "next" /\ job[p].more # <<>>
  BY Current DEF EncryptOneFile, DecryptJobs
<1>2. /\ job[p].more \in Seq(Files) /\ f \in Files /\ Tail(job[p].more) \in Seq(Files)
      /\ Len(Tail(job[p].more)) = Len(job[p].more) - 1 /\ Len(job[p].more) \in Nat
      /\ \A i \in 1 .. Len(job[p].more) :
           job[p].more[i] = f \/ \E k \in 1 .. Len(Tail(job[p].more)) : Tail(job[p].more)[k] = job[p].more[i]
  <2> DEFINE s == job[p].more
  <2>1. s \in Seq(Files) /\ s # <<>> BY <1>1 DEF EncryptJobs
  <2> HIDE DEF s
  <2>2. Head(s) \in Files /\ Tail(s) \in Seq(Files) /\ Len(Tail(s)) = Len(s) - 1 /\ Len(s) \in Nat
    BY <2>1, HeadTailProperties, LenProperties
  <2>3. ASSUME NEW i \in 1 .. Len(s), s[i] # Head(s)
        PROVE  \E k \in 1 .. Len(Tail(s)) : Tail(s)[k] = s[i]
    <3>1. i # 1 BY <2>1, <2>3
    <3>2. i - 1 \in 1 .. Len(Tail(s)) BY <2>2, <2>3, <3>1
    <3>3. Tail(s)[i - 1] = s[i] BY <2>1, <2>2, <3>2
    <3> QED BY <3>2, <3>3
  <2> QED BY <2>1, <2>2, <2>3 DEF s
<1>3. disk[Src(f)] # None => n \in Lengths /\ n \in Nat
  BY <1>2, SourceBytes DEF FileInv, DiskTyped, ResolveEncryptOutput, FilesAssumption
<1>4. CASE /\ disk[Src(f)] # None
           /\ Go(p, [j EXCEPT !.pc = "write"]) /\ Put(Tmp(p, j.to), Half)
  <2> DEFINE k == [j EXCEPT !.pc = "write"]
  <2>1. k = [job[p] EXCEPT !.do = "encrypt", !.f = f, !.to = Pqf(f), !.more = Tail(@), !.size = n, !.pc = "write"]
    BY <1>1 DEF EncryptJobs
  <2>2. InPlace(p) BY <1>4, TempInPlace DEF FileInv
  <2>3. Go(p, k) BY <1>4
  <2> HIDE DEF k, j, n, f
  <2>4. /\ k \in EncryptJobs /\ k.do = "encrypt" /\ k.f = f /\ k.to = Pqf(f)
           /\ k.more = Tail(job[p].more)
        /\ k.size = n /\ k.pc = "write" /\ k.all = job[p].all /\ k.bad = job[p].bad
    BY <1>1, <1>2, <1>3, <1>4, <2>1 DEF EncryptJobs, Pqf
  <2>5. JobTyped(k) BY <1>2, <1>3, <1>4, <2>4 DEF JobTyped, EncryptShape
  <2>6. Filed(k)
    <3>1. Filed(job[p]) BY Current DEF Fits
    <3> QED BY <1>1, <1>2, <2>4, <3>1 DEF Filed
  <2>7. Fits(k) BY <2>4, <2>5, <2>6, JobKinds DEF Fits, Decrypted, Reads
  <2>8. MayFollow(p, k, seals') BY <2>4, JobKinds DEF MayFollow, Pending
  <2> QED BY <1>0, <2>2, <2>3, <2>4, <2>7, <2>8, Steady, JobStep
<1>5. CASE Go(p, [j EXCEPT !.bad = TRUE]) /\ UNCHANGED disk
  <2> DEFINE k == [j EXCEPT !.bad = TRUE]
  <2>0. n \in Nat
    <3>1. \E m \in Lengths : disk[Src(f)] = Bytes(f, m) BY <1>2 DEF FileInv, DiskTyped
    <3>2. CASE disk[Src(f)] = None BY <3>2 DEF ResolveEncryptOutput
    <3> QED BY <1>3, <3>2
  <2>1. k = [job[p] EXCEPT !.do = "encrypt", !.f = f, !.to = Pqf(f), !.more = Tail(@), !.size = n, !.bad = TRUE]
    BY <1>1 DEF EncryptJobs
  <2>2. InPlace(p) BY <1>5, SameInPlace DEF FileInv
  <2>3. Go(p, k) BY <1>5
  <2> HIDE DEF k, j, n, f
  <2>4. /\ k \in EncryptJobs /\ k.do = "encrypt" /\ k.f = f /\ k.to = Pqf(f)
        /\ k.pc = "next" /\ k.bad = TRUE
    BY <1>1, <1>2, <2>0, <2>1 DEF EncryptJobs, Pqf
  <2>5. JobTyped(k) BY <1>2, <2>4 DEF JobTyped, EncryptShape
  <2>7. Fits(k) BY <2>4, <2>5, JobKinds DEF Fits, Decrypted, Reads, Filed
  <2>8. MayFollow(p, k, seals') BY <2>4, JobKinds DEF MayFollow, Pending
  <2> QED BY <1>0, <2>2, <2>3, <2>4, <2>7, <2>8, Steady, JobStep
<1> QED BY <1>4, <1>5 DEF EncryptOneFile

LEMMA FailStep ==
  ASSUME FilesAssumption, FileInv, NEW p \in Procs, Fail(p)
  PROVE  FileInv'
<1>0. UNCHANGED <<seals, started, faults>> /\ job[p].pc \in {"write", "commit"} BY DEF Fail
<1>1. InPlace(p) BY TempInPlace DEF Fail, FileInv
<1>2. CASE Go(p, Failing(job[p])) BY <1>0, <1>1, <1>2, FailingStep
<1>3. CASE job[p].more # <<>> /\ Go(p, [job[p] EXCEPT !.pc = "next", !.bad = TRUE])
  <2> DEFINE k == [job[p] EXCEPT !.pc = "next", !.bad = TRUE]
  <2>1. job[p] \in EncryptJobs /\ EncryptShape(job[p]) BY <1>0, <1>3, Current DEF DecryptJobs
  <2>2. k \in EncryptJobs /\ EncryptShape(k) /\ k.pc = "next" /\ k.bad = TRUE
    BY <2>1 DEF EncryptJobs, EncryptShape
  <2> HIDE DEF k
  <2>3. Fits(k) BY <2>2, JobKinds DEF Fits, JobTyped, Decrypted, Reads, Filed
  <2>4. MayFollow(p, k, seals') BY <2>2, JobKinds DEF MayFollow, Pending
  <2>5. Go(p, k) BY <1>3 DEF k
  <2> QED BY <1>0, <1>1, <2>2, <2>3, <2>4, <2>5, Steady, JobStep
<1> QED BY <1>2, <1>3 DEF Fail

LEMMA SealStep ==
  ASSUME FilesAssumption, FileInv, NEW p \in Procs, Seal(p)
  PROVE  FileInv'
<1> DEFINE j == job[p]
           text == disk[Src(j.f)]
           size == IF j.how = "mmap" THEN Len(text) ELSE j.size
           zeros == IF j.opts.pad THEN PadmeReader(text, size) ELSE <<>>
           c == Sealed(seals + 1, j.how, text, zeros, size)
           k == [j EXCEPT !.pc = "commit", !.wrote = c]
<1>1. j \in EncryptJobs /\ EncryptShape(j) /\ j.pc = "write" /\ j.do = "encrypt" /\ j.f \in Files
  BY Current DEF Seal, Is, EncryptShape
<1>2. PICK n \in Lengths : text = Bytes(j.f, n) BY <1>1 DEF FileInv, DiskTyped
<1>3. text \in Seq(FileBytes) /\ Len(text) = n BY <1>1, <1>2, SourceBytes
<1>4. size \in Lengths /\ size \in Nat BY <1>1, <1>3 DEF EncryptShape, FilesAssumption
<1>5. zeros \in Seq({0})
  <2>1. PadmeLength(size) - size \in Int BY <1>4 DEF FilesAssumption
  <2>2. <<>> \in Seq({0}) OBVIOUS
  <2> QED BY <2>1, <2>2, ZeroBytes DEF PadmeReader
<1>6. seals + 1 \in Nat \ {0} /\ seals' = seals + 1 /\ started' = started
      /\ faults' = faults /\ seals \in Nat
  BY DEF Seal, FileInv, FileCounts
<1>7. c \in PqfFiles /\ c.id = seals + 1
  <2>1. j.how \in Hows BY <1>1 DEF EncryptJobs
  <2> HIDE DEF j, text, size, zeros
  <2> QED BY <1>3, <1>4, <1>5, <1>6, <2>1 DEF Sealed, PqfFiles, Rots
<1>8. Put(Tmp(p, j.to), c) /\ Go(p, k) BY DEF Seal
<1> HIDE DEF text, size, zeros, c
<1>9. /\ k \in EncryptJobs /\ EncryptShape(k) /\ k.pc = "commit" /\ k.wrote = c
      /\ k.all = j.all /\ k.more = j.more /\ k.bad = j.bad /\ k.f = j.f
  BY <1>1, <1>7 DEF EncryptJobs, EncryptShape
<1>10. Filed(j) BY Current DEF Fits
<1> HIDE DEF j, k
<1>11. Filed(k) BY <1>1, <1>9, <1>10 DEF Filed
<1>12. Fits(k) BY <1>9, <1>11, JobKinds DEF Fits, JobTyped, Decrypted, Reads
<1>13. MayFollow(p, k, seals') BY <1>6, <1>7, <1>9, JobKinds DEF MayFollow, Pending
<1>14. InPlace(p) /\ \A too : disk'[Tmp(p, too)] = c BY <1>8, TempInPlace DEF FileInv
<1>15. FileCounts' /\ seals <= seals' BY <1>6 DEF FileInv, FileCounts
<1>16. k.wrote # None BY <1>7, <1>9, Kinds
<1> QED BY <1>8, <1>9, <1>12, <1>13, <1>14, <1>15, <1>16, JobStep

LEMMA FinishStep ==
  ASSUME FilesAssumption, FileInv, NEW p \in Procs, Finish(p)
  PROVE  FileInv'
<1>0. UNCHANGED <<seals, started, faults>> /\ InPlace(p) /\ job[p].pc = "next" /\ job[p].more = <<>>
  BY SameInPlace DEF Finish, FileInv
<1>1. CASE job[p].bad
  <2>1. Failing(job[p]) = [job[p] EXCEPT !.pc = "failed"] BY DEF Failing
  <2> QED BY <1>0, <1>1, <2>1, FailingStep DEF Finish
<1>2. CASE ~job[p].bad
  <2> DEFINE k == [job[p] EXCEPT !.pc = "ok"]
  <2>0. Go(p, k) BY <1>2 DEF Finish
  <2>1. CASE job[p] \in EncryptJobs
    <3>1. /\ k \in EncryptJobs /\ EncryptShape(k) /\ k.pc = "ok" /\ k.all = job[p].all
          /\ k.more = job[p].more /\ k.bad = job[p].bad
      BY <1>0, <1>2, <2>1, Current DEF EncryptJobs, EncryptShape
    <3> HIDE DEF k
    <3>2. Filed(k) BY <1>0, <2>1, <3>1, Current DEF Fits, Filed
    <3>3. Fits(k) BY <3>1, <3>2, JobKinds DEF Fits, JobTyped, Decrypted, Reads
    <3>4. MayFollow(p, k, seals') BY <3>1, JobKinds DEF MayFollow, Pending
    <3> QED BY <1>0, <2>0, <3>1, <3>3, <3>4, Steady, JobStep
  <2>2. CASE job[p] \in DecryptJobs
    <3>0. job[p].do = "decrypt" BY <1>0, <2>2, Current DEF DecryptShape, DecryptJobs
    <3>1. /\ k \in DecryptJobs /\ DecryptShape(k) /\ k.pc = "ok" /\ k.c = job[p].c /\ k.f = job[p].f
          /\ k.do = "decrypt" /\ k.wrote = job[p].wrote /\ k.limit = job[p].limit
      BY <2>2, <3>0, Current DEF DecryptJobs, DecryptShape
    <3> HIDE DEF k
    <3>2. AsSealed(job[p]) BY <1>0, <2>2, <3>0, Current DEF Fits, Decrypted
    <3>3. AsSealed(k) BY <3>1, <3>2 DEF AsSealed
    <3>4. Fits(k)
      BY <3>1, <3>3, JobKinds DEF Fits, JobTyped, Filed, Decrypted, Reads, SameText, InStep,
                                  Live, Resuming
    <3>5. MayFollow(p, k, seals') BY <2>2, <3>1, JobKinds DEF MayFollow, Pending, Live, Resuming
    <3> QED BY <1>0, <2>0, <3>1, <3>4, <3>5, Steady, JobStep
  <2> QED BY <1>0, <2>1, <2>2, Current
<1> QED BY <1>1, <1>2

LEMMA NewDecrypt ==
  ASSUME FilesAssumption, FileInv, NEW f \in Single, NEW opts \in DecryptOptions,
         NEW how \in {"header", "stealth", "resume"}, OpenReader(f), NEW j, j = DecryptJob(f,
         opts, how)
  PROVE  /\ j \in DecryptJobs /\ j.f = f /\ j.to = Out(f) /\ j.do = "decrypt" /\ j.pc = "peek"
         /\ j.how = how /\ j.c = disk[Pqf(f)] /\ j.limit = 0 /\ f \in Files
<1>1. f \in Files BY DEF Files
<1>2. disk[Pqf(f)] \in PqfFiles BY <1>1 DEF OpenReader, FileInv, DiskTyped
<1>3. (IF opts.fec THEN disk[Fec(f)] ELSE None) \in FecFiles
  BY <1>1 DEF FileInv, DiskTyped, FecFiles
<1> DEFINE c == disk[Pqf(f)]  fec == IF opts.fec THEN disk[Fec(f)] ELSE None
<1>4. j = [do |-> "decrypt", f |-> f, opts |-> opts, how |-> how, to |-> Out(f), c |-> c,
           parity |-> fec, limit |-> 0, wrote |-> None, more |-> <<>>, bad |-> FALSE, pc |-> "peek"]
  BY DEF DecryptJob
<1>5. Out(f) \in Files \X {"out"} BY <1>1 DEF Out
<1> HIDE DEF c, fec
<1>6. c \in PqfFiles /\ fec \in FecFiles BY <1>2, <1>3 DEF c, fec
<1>7. j \in DecryptJobs BY <1>4, <1>5, <1>6 DEF DecryptJobs
<1> QED BY <1>1, <1>4, <1>7 DEF c

LEMMA ReadStep ==
  ASSUME FilesAssumption, FileInv, NEW p \in Procs,
         RunDecrypt(p) \/ RunDecryptTlock(p) \/ RunCheck(p)
  PROVE  FileInv'
<1>0. InPlace(p) BY SameInPlace DEF RunDecrypt, RunDecryptTlock, RunCheck, FileInv
<1>1. CASE Start(p, Ended("failed")) \/ Start(p, Ended("ok"))
  <2>1. Ended("failed") \in EndedJobs /\ Ended("ok") \in EndedJobs BY DEF EndedJobs
  <2> QED BY <1>0, <1>1, <2>1, Starting, EndedStep
<1>2. CASE \E f \in Single, opts \in DecryptOptions, how \in {"header", "stealth"} :
             OutputFree(f, {"resume"}) /\ OpenReader(f) /\ Start(p, DecryptJob(f, opts, how))
  <2>1. PICK f \in Single, opts \in DecryptOptions, how \in {"header", "stealth"} :
             OutputFree(f, {"resume"}) /\ OpenReader(f) /\ Start(p, DecryptJob(f, opts, how))
    BY <1>2
  <2> DEFINE j == DecryptJob(f, opts, how)
  <2>2. /\ j \in DecryptJobs /\ j.f = f /\ j.to = Out(f) /\ j.do = "decrypt" /\ j.pc = "peek"
        /\ j.how = how /\ j.c = disk[Pqf(f)] /\ j.limit = 0 /\ f \in Files
    BY <2>1, NewDecrypt
  <2>3. Go(p, j) /\ FileCounts' /\ seals <= seals' BY <2>1, Starting
  <2> HIDE DEF j
  <2>4. Fits(j)
    BY <2>2, JobKinds DEF Fits, JobTyped, DecryptShape, Filed, Decrypted, Reads, SameText,
                          InStep, Resuming
  <2>5. \A q \in Procs : q # p /\ Resuming(job[q]) => job[q].f # j.f
    <3> SUFFICES ASSUME NEW q \in Procs, Resuming(job[q]) PROVE job[q].f # f
      BY <2>2
    <3>1. job[q] \in DecryptJobs /\ job[q].pc = "chunk" /\ DecryptShape(job[q])
      BY Current DEF Resuming
    <3>2. job[q].do = "resume" BY <3>1 DEF DecryptShape, DecryptJobs
    <3> QED BY <2>1, <3>1, <3>2 DEF OutputFree
  <2>6. MayFollow(p, j, seals') BY <2>2, <2>5, JobKinds DEF MayFollow, Pending, Resuming
  <2> QED BY <1>0, <2>2, <2>3, <2>4, <2>6, JobStep
<1>3. CASE RunDecrypt(p)
  <2>1. PICK f \in Single, opts \in DecryptOptions, how \in {"header", "stealth"} :
          /\ OutputFree(f, {"resume"})
          /\ \/ OpenReader(f) /\ Start(p, DecryptJob(f, opts, how))
             \/ Start(p, Ended("failed"))
    BY <1>3 DEF RunDecrypt
  <2> QED BY <1>1, <1>2, <2>1
<1>4. CASE RunDecryptTlock(p)
  <2>1. PICK f \in Single, opts \in DecryptOptions :
          /\ OutputFree(f, {"resume"})
          /\ \/ OpenReader(f) /\ Start(p, DecryptJob(f, opts, "header"))
             \/ Start(p, Ended("failed"))
    BY <1>4 DEF RunDecryptTlock
  <2> QED BY <1>1, <1>2, <2>1
<1>5. CASE RunCheck(p)
  <2>1. Start(p, Ended("failed")) \/ Start(p, Ended("ok")) BY <1>5 DEF RunCheck
  <2> QED BY <1>1, <2>1
<1> QED BY <1>3, <1>4, <1>5

LEMMA PeekStep ==
  ASSUME FilesAssumption, FileInv, NEW p \in Procs, Peek(p)
  PROVE  FileInv'
<1> DEFINE n == IF job[p].how = "stealth" THEN 0 ELSE PeekOriginalSize(disk[Pqf(job[p].f)])
           k == [job[p] EXCEPT !.pc = "write", !.limit = n]
<1>0. UNCHANGED <<seals, started, faults>> /\ Go(p, k) /\ InPlace(p) /\ job[p].pc = "peek"
      /\ job[p].do = "decrypt"
  BY TempInPlace DEF Peek, Is, FileInv
<1>1. job[p] \in DecryptJobs /\ DecryptShape(job[p]) /\ job[p].f \in Files
  BY <1>0, Current DEF DecryptJobs, Files
<1>2. n \in Nat /\ (job[p].how = "stealth" => n = 0)
  <2>1. disk[Pqf(job[p].f)] \in PqfFiles \cup {None} BY <1>1 DEF FileInv, DiskTyped
  <2> QED BY <2>1 DEF PeekOriginalSize, Whole, RottenSize, PqfFiles
<1> HIDE DEF n
<1>3. /\ k \in DecryptJobs /\ DecryptShape(k) /\ k.pc = "write" /\ k.c = job[p].c /\ k.f = job[p].f
      /\ k.do = "decrypt"
  BY <1>0, <1>1, <1>2 DEF DecryptJobs, DecryptShape
<1> HIDE DEF k
<1>4. Live(job[p]) /\ Reads(job[p], disk[Out(job[p].f)], disk[Pqf(job[p].f)])
  BY <1>0, Current DEF Fits, Live
<1>5. Reads(k, disk[Out(k.f)], disk[Pqf(k.f)])
  BY <1>1, <1>3, <1>4 DEF Reads, SameText, InStep, Resuming
<1>6. Fits(k) BY <1>3, <1>5, JobKinds DEF Fits, JobTyped, Filed, Decrypted
<1>7. MayFollow(p, k, seals') BY <1>1, <1>3, <1>4, JobKinds DEF MayFollow, Pending, Resuming
<1> QED BY <1>0, <1>3, <1>6, <1>7, Steady, JobStep

LEMMA DecryptStep ==
  ASSUME FilesAssumption, FileInv, NEW p \in Procs, Decrypt(p)
  PROVE  FileInv'
<1>1. job[p] \in DecryptJobs /\ DecryptShape(job[p]) /\ job[p].do = "decrypt" /\ job[p].pc = "write"
  BY Current DEF Decrypt, Is
<1>2. PICK c \in FecRepair(job[p].c, job[p].parity) :
        /\ (c.how = "stealth") = (job[p].how = "stealth") /\ OpenContainer(c).ok
        /\ LET out == [of |-> c.id, bytes |-> TruncatingWriter(OpenContainer(c).text, job[p].limit)] IN
           /\ Put(Tmp(p, job[p].to), out)
           /\ Go(p, [job[p] EXCEPT !.pc = "commit", !.wrote = out])
  BY DEF Decrypt
<1>3. /\ c \in PqfFiles /\ c.id = job[p].c.id /\ c.text = job[p].c.text /\ c.zeros = job[p].c.zeros
      /\ c.size = job[p].c.size /\ job[p].c \in PqfFiles
  <2>1. job[p].c \in PqfFiles BY <1>1 DEF DecryptJobs
  <2>2. c = job[p].c \/ c = [job[p].c EXCEPT !.rot = "none"] \/ c = [job[p].c EXCEPT !.rot = "heavy"]
    BY <1>2 DEF FecRepair
  <2> QED BY <2>1, <2>2 DEF PqfFiles, Rots
<1>4. job[p].limit \in Nat /\ (c.how = "stealth" => job[p].limit = 0)
  BY <1>1, <1>2 DEF DecryptJobs, DecryptShape
<1> DEFINE n == job[p].limit
           bytes == TruncatingWriter(OpenContainer(c).text, n)
           out == [of |-> c.id, bytes |-> bytes]
           k == [job[p] EXCEPT !.pc = "commit", !.wrote = out]
<1>5. /\ bytes \in Seq(FileBytes) /\ Begins(bytes, Plain(c))
      /\ c.size \in {0, Len(c.text)} /\ n \in {0, c.size} /\ (n = 0 => c.zeros = <<>>)
           => bytes = c.text
  BY <1>2, <1>3, <1>4, Opened
<1>6. Put(Tmp(p, job[p].to), out) /\ Go(p, k) BY <1>2
<1>7. Plain(c) = Plain(job[p].c) BY <1>3 DEF Plain
<1> HIDE DEF bytes
<1>8. out \in OutFiles /\ out.of = job[p].c.id /\ out.bytes = bytes
  BY <1>3, <1>5 DEF OutFiles, PqfFiles
<1> HIDE DEF out
<1>9. /\ k \in DecryptJobs /\ DecryptShape(k) /\ k.pc = "commit" /\ k.c = job[p].c /\ k.f = job[p].f
      /\ k.do = "decrypt" /\ k.wrote = out /\ k.limit = n
  BY <1>1, <1>8 DEF DecryptJobs, DecryptShape
<1> HIDE DEF k
<1>10. AsSealed(k) BY <1>3, <1>5, <1>7, <1>8, <1>9 DEF AsSealed
<1>11. Live(job[p]) /\ Reads(job[p], disk[Out(job[p].f)], disk[Pqf(job[p].f)])
  BY <1>1, Current DEF Fits, Live
<1>12. Reads(k, disk[Out(k.f)], disk[Pqf(k.f)])
  BY <1>1, <1>9, <1>11 DEF Reads, SameText, InStep, Resuming
<1>13. Fits(k) BY <1>9, <1>10, <1>12, JobKinds DEF Fits, JobTyped, Filed, Decrypted
<1>14. MayFollow(p, k, seals') BY <1>1, <1>9, <1>11, JobKinds DEF MayFollow, Pending, Resuming
<1>15. InPlace(p) /\ \A too : disk'[Tmp(p, too)] = out BY <1>6, TempInPlace DEF FileInv
<1>16. UNCHANGED <<seals, started, faults>> BY DEF Decrypt
<1>17. out # None BY <1>8, Kinds
<1> QED BY <1>6, <1>9, <1>13, <1>14, <1>15, <1>16, <1>17, Steady, JobStep

LEMMA FinishResumeStep ==
  ASSUME FilesAssumption, FileInv, NEW p \in Procs, FinishResume(p)
  PROVE  FileInv'
<1> DEFINE out == disk[job[p].to]
           k == [job[p] EXCEPT !.pc = "ok", !.wrote = out]
<1>1. /\ job[p] \in DecryptJobs /\ DecryptShape(job[p]) /\ job[p].do = "resume"
         /\ job[p].pc = "chunk"
      /\ job[p].limit = Chunks(job[p].c) /\ job[p].f \in Files /\ job[p].c \in PqfFiles
      /\ job[p].to = Out(job[p].f)
  BY Current DEF FinishResume, Is, DecryptJobs, Files, DecryptShape
<1>2. InStep(job[p], out, disk[Pqf(job[p].f)]) BY <1>1, Current DEF Fits, Reads
<1>3. out \in OutFiles /\ (out.of = job[p].c.id => out.bytes = Plain(job[p].c))
  <2>1. out \in OutFiles /\ out.bytes \in Seq(FileBytes)
    BY <1>1, <1>2 DEF InStep, Resuming, OutFiles
  <2>2. ASSUME out.of = job[p].c.id PROVE out.bytes = Plain(job[p].c)
    <3>1. Len(out.bytes) = Len(Plain(job[p].c)) /\ Begins(out.bytes, Plain(job[p].c))
      BY <1>1, <1>2, <2>2, ChunkCounts DEF InStep, Resuming
    <3> QED BY <1>1, <2>1, <3>1, PlainBytes, SameBytes
  <2> QED BY <2>1, <2>2
<1>4. Go(p, k) /\ InPlace(p) /\ UNCHANGED <<seals, started, faults>>
  BY SameInPlace DEF FinishResume, FileInv
<1> HIDE DEF out
<1>5. /\ k \in DecryptJobs /\ DecryptShape(k) /\ k.pc = "ok" /\ k.c = job[p].c /\ k.f = job[p].f
      /\ k.do = "resume" /\ k.wrote = out
  BY <1>1, <1>3 DEF DecryptJobs, DecryptShape
<1> HIDE DEF k
<1>6. Fits(k)
  BY <1>3, <1>5, JobKinds DEF Fits, JobTyped, Filed, Decrypted, Reads, SameText, InStep, Live,
                              Resuming
<1>7. MayFollow(p, k, seals') BY <1>1, <1>5, JobKinds DEF MayFollow, Pending, Live, Resuming
<1> QED BY <1>4, <1>5, <1>6, <1>7, Steady, JobStep

-----------------------------------------------------------------------------
(* Steps that put a container or an output in place. *)

\* An output is written, and with it at most p's temporary file.
OutPlaced(p, f, o) ==
  /\ DOMAIN disk' = Paths /\ disk'[Out(f)] = o
  /\ \A g \in Files : /\ disk'[Src(g)] = disk[Src(g)] /\ disk'[Pqf(g)] = disk[Pqf(g)]
                      /\ disk'[Fec(g)] = disk[Fec(g)]
                      /\ g # f => disk'[Out(g)] = disk[Out(g)]
  /\ \A q \in Procs : \A to : q # p => disk'[Tmp(q, to)] = disk[Tmp(q, to)]

LEMMA OutStep ==
  ASSUME FilesAssumption, FileInv, NEW p \in Procs, NEW f \in Files, NEW o \in OutFiles, NEW j,
         Go(p, j), OutPlaced(p, f, o), FileCounts', seals' = seals,
         JobTyped(j), j \notin EncryptJobs, j.pc # "commit", Decrypted(j),
         j \in DecryptJobs => /\ j.f = f /\ SameText(j, disk[Pqf(f)]) /\ InStep(j, o, disk[Pqf(f)])
                              /\ \/ job[p] \in DecryptJobs /\ j.c = job[p].c
                                 \/ j.c = disk[Pqf(f)],
         \A q \in Procs : q # p /\ Resuming(job[q]) => job[q].f # f,
         Resuming(j) => \A q \in Procs : q # p /\ job[q] \in DecryptJobs /\ Live(job[q])
             => job[q].f # f,
         disk[Pqf(f)] # None /\ o.of = disk[Pqf(f)].id => Begins(o.bytes, Plain(disk[Pqf(f)])),
         \/ disk[Out(f)] # None /\ o.of = disk[Out(f)].of
         \/ disk[Pqf(f)] # None /\ o.of = disk[Pqf(f)].id
         \/ job[p] \in DecryptJobs /\ o.of = job[p].c.id
  PROVE  FileInv'
<1>j. DOMAIN job' = Procs /\ job'[p] = j /\ \A q \in Procs : q # p => job'[q] = job[q]
  BY Going DEF FileInv, JobsFit
<1>f. \A q \in Procs : job'[q] \in DecryptJobs => job'[q].f \in Files
  BY DEF DecryptJobs, Files
<1>o. o # None BY Kinds
<1>n. ~Pending(j) BY DEF Pending
<1>1. DiskTyped'
  <2>1. \A g \in Files : disk'[Out(g)] \in OutFiles \cup {None}
    <3> TAKE g \in Files
    <3>1. CASE g = f BY <3>1 DEF OutPlaced
    <3>2. CASE g # f BY <3>2 DEF OutPlaced, FileInv, DiskTyped
    <3> QED BY <3>1, <3>2
  <2> QED BY <2>1 DEF OutPlaced, FileInv, DiskTyped, Src, Pqf, Fec, Out
<1>2. JobsFit'
  <2>2. ASSUME NEW q \in Procs PROVE JobTyped(job'[q]) /\ Decrypted(job'[q])
    BY <1>j, <2>2 DEF FileInv, JobsFit
  <2>3. ASSUME NEW q \in Procs PROVE Filed(job[q])'
    <3>1. \A k \in EncryptJobs : k.all \subseteq Files BY DEF EncryptJobs
    <3>2. job'[q] \in EncryptJobs => job'[q] = job[q] BY <1>j
    <3>3. job'[q] \in EncryptJobs => Filed(job'[q]) BY <3>2 DEF FileInv, JobsFit
    <3> QED BY <3>1, <3>3 DEF Filed, OutPlaced, Pqf
  <2>4. ASSUME NEW q \in Procs PROVE Reads(job'[q], disk'[Out(job'[q].f)], disk'[Pqf(job'[q].f)])
    <3>1. CASE job'[q] \notin DecryptJobs BY <3>1 DEF Reads
    <3>2. CASE job'[q] \in DecryptJobs /\ q = p
      BY <1>j, <3>2 DEF Reads, OutPlaced
    <3>3. CASE job'[q] \in DecryptJobs /\ q # p
      <4>1. job'[q] = job[q] /\ job[q].f \in Files BY <1>j, <1>f, <3>3
      <4>2. Reads(job[q], disk[Out(job[q].f)], disk[Pqf(job[q].f)]) BY DEF FileInv, JobsFit
      <4>3. CASE job[q].f = f
        BY <3>3, <4>1, <4>2, <4>3 DEF Reads, OutPlaced, InStep
      <4>4. CASE job[q].f # f BY <4>1, <4>2, <4>4 DEF OutPlaced
      <4> QED BY <4>3, <4>4
    <3> QED BY <3>1, <3>2, <3>3
  <2>5. ASSUME NEW q \in Procs PROVE Numbered(job'[q], seals')
    <3>1. Numbered(job[q], seals) /\ Numbered(job[p], seals) BY DEF FileInv, JobsFit
    <3>2. j \in DecryptJobs => j.c.id <= seals
      <4>1. CASE j \in DecryptJobs /\ j.c = disk[Pqf(f)]
        <5>1. j.c # None BY <4>1, Kinds DEF DecryptJobs
        <5> QED BY <4>1, <5>1 DEF FileInv, DiskNumbered
      <4>2. CASE job[p] \in DecryptJobs /\ j.c = job[p].c BY <3>1, <4>2 DEF Numbered
      <4> QED BY <4>1, <4>2
    <3> QED BY <1>j, <1>n, <3>1, <3>2 DEF Numbered
  <2>6. ASSUME NEW q \in Procs PROVE JobTyped(job[q])' /\ Decrypted(job[q])'
    BY <2>2 DEF JobTyped, EncryptShape, DecryptShape, Decrypted, AsSealed
  <2>7. ASSUME NEW q \in Procs PROVE Reads(job[q], disk[Out(job[q].f)], disk[Pqf(job[q].f)])'
    BY <2>4 DEF Reads, SameText, InStep, Resuming, Live, Out, Pqf
  <2>8. ASSUME NEW q \in Procs PROVE Numbered(job[q], seals)'
    BY <2>5 DEF Numbered, Pending
  <2> QED BY <1>j, <2>3, <2>6, <2>7, <2>8 DEF JobsFit
<1>3. InTemp'
  <2> SUFFICES ASSUME NEW q \in Procs, job'[q].pc = "commit"
               PROVE  disk'[Tmp(q, job'[q].to)] = job'[q].wrote /\ job'[q].wrote # None
    BY DEF InTemp, Tmp
  <2>1. q # p /\ job'[q] = job[q] BY <1>j
  <2> QED BY <2>1 DEF FileInv, InTemp, OutPlaced
<1>c. ASSUME NEW n, \A q \in Procs : job[q] \in DecryptJobs => job[q].c.id # n,
             \A g \in Files : /\ disk[Pqf(g)] # None => disk[Pqf(g)].id # n
                              /\ disk[Out(g)] # None => disk[Out(g)].of # n
      PROVE  /\ \A g \in Files : /\ disk'[Pqf(g)] # None => disk'[Pqf(g)].id # n
                                 /\ disk'[Out(g)] # None => disk'[Out(g)].of # n
             /\ \A q \in Procs : job'[q] \in DecryptJobs => job'[q].c.id # n
  <2>1. o.of # n BY <1>c
  <2>2. \A g \in Files : disk'[Out(g)] # None => disk'[Out(g)].of # n
    <3> TAKE g \in Files
    <3>1. CASE g = f BY <2>1, <3>1 DEF OutPlaced
    <3>2. CASE g # f BY <1>c, <3>2 DEF OutPlaced
    <3> QED BY <3>1, <3>2
  <2>3. j \in DecryptJobs => j.c.id # n
    <3>1. CASE j \in DecryptJobs /\ j.c = disk[Pqf(f)]
      <4>1. j.c # None BY <3>1, Kinds DEF DecryptJobs
      <4> QED BY <1>c, <3>1, <4>1
    <3>2. CASE job[p] \in DecryptJobs /\ j.c = job[p].c BY <1>c, <3>2
    <3> QED BY <3>1, <3>2
  <2>4. \A q \in Procs : job'[q] \in DecryptJobs => job'[q].c.id # n BY <1>c, <1>j, <2>3
  <2>5. \A g \in Files : disk'[Pqf(g)] # None => disk'[Pqf(g)].id # n BY <1>c DEF OutPlaced
  <2> QED BY <2>2, <2>4, <2>5
<1>4. DiskNumbered'
  <2>1. o.of <= seals
    BY DEF FileInv, DiskNumbered, JobsFit, Numbered
  <2>2. ASSUME NEW g \in Files
        PROVE  /\ disk'[Pqf(g)] # None => disk'[Pqf(g)].id <= seals'
               /\ disk'[Out(g)] # None => disk'[Out(g)].of <= seals'
    <3>1. CASE g = f BY <2>1, <3>1 DEF OutPlaced, FileInv, DiskNumbered
    <3>2. CASE g # f BY <3>2 DEF OutPlaced, FileInv, DiskNumbered
    <3> QED BY <3>1, <3>2
  <2> QED BY <2>2 DEF DiskNumbered, Pqf, Out
<1>5. Unseen'
  <2>1. ASSUME NEW q \in Procs, Pending(job'[q])
        PROVE  /\ \A g \in Files : /\ disk'[Pqf(g)] # None => disk'[Pqf(g)].id # job'[q].wrote.id
                                   /\ disk'[Out(g)] # None => disk'[Out(g)].of # job'[q].wrote.id
               /\ \A r \in Procs : /\ job'[r] \in DecryptJobs => job'[r].c.id # job'[q].wrote.id
                                   /\ r # q /\ Pending(job'[r])
                                        => job'[r].wrote.id # job'[q].wrote.id
    <3>1. q # p /\ job'[q] = job[q] BY <1>j, <1>n, <2>1
    <3>2. Pending(job[q]) BY <2>1, <3>1
    <3>3. \A r \in Procs : r # q /\ Pending(job'[r]) => job'[r].wrote.id # job[q].wrote.id
      BY <1>j, <1>n, <3>2 DEF FileInv, Unseen
    <3>4. /\ \A r \in Procs : job[r] \in DecryptJobs => job[r].c.id # job[q].wrote.id
          /\ \A g \in Files : /\ disk[Pqf(g)] # None => disk[Pqf(g)].id # job[q].wrote.id
                              /\ disk[Out(g)] # None => disk[Out(g)].of # job[q].wrote.id
      BY <3>2 DEF FileInv, Unseen
    <3> QED BY <1>c, <3>1, <3>3, <3>4
  <2> QED BY <2>1 DEF Unseen, Pending, Pqf, Out
<1>6. OutputBegins'
  <2>1. ASSUME NEW g \in Files, disk'[Out(g)] # None, disk'[Pqf(g)] # None, disk'[Out(g)].of = disk'[Pqf(g)].id
        PROVE  Begins(disk'[Out(g)].bytes, Plain(disk'[Pqf(g)]))
    <3>1. CASE g = f BY <2>1, <3>1 DEF OutPlaced
    <3>2. CASE g # f BY <2>1, <3>2 DEF OutPlaced, FileInv, OutputBegins
    <3> QED BY <3>1, <3>2
  <2> QED BY <2>1 DEF OutputBegins, Begins, Plain, Pqf, Out
<1>7. Alone'
  <2>1. ASSUME NEW q \in Procs, NEW r \in Procs, Resuming(job'[q]), q # r, job'[r] \in DecryptJobs, Live(job'[r])
        PROVE  job'[r].f # job'[q].f
    <3>1. CASE r = p BY <1>j, <2>1, <3>1
    <3>2. CASE q = p
      <4>1. job'[r] = job[r] /\ job'[q] = j /\ j \in DecryptJobs BY <1>j, <2>1, <3>2 DEF Resuming
      <4> QED BY <2>1, <3>2, <4>1
    <3>3. CASE q # p /\ r # p BY <1>j, <2>1, <3>3 DEF FileInv, Alone
    <3> QED BY <3>1, <3>2, <3>3
  <2> QED BY <2>1 DEF Alone, Resuming, Live
<1> QED BY <1>1, <1>2, <1>3, <1>4, <1>5, <1>6, <1>7 DEF FileInv

LEMMA OutputPut ==
  ASSUME DiskTyped, NEW p \in Procs, NEW f \in Files, NEW o, Put(Out(f), o)
  PROVE  OutPlaced(p, f, o)
<1>1. DOMAIN disk = Paths BY DEF DiskTyped
<1>2. /\ DOMAIN disk' = Paths /\ disk'[Out(f)] = o
      /\ \A y \in Paths : y # Out(f) => disk'[y] = disk[y]
  BY <1>1, PathsApart, Putting
<1> QED BY <1>2, PathsApart DEF OutPlaced

\* Before a step the one who resumes is the only one at work on its output.
LEMMA Owned ==
  ASSUME FileInv, NEW p \in Procs, Resuming(job[p])
  PROVE  /\ \A q \in Procs : q # p /\ job[q] \in DecryptJobs /\ Live(job[q]) => job[q].f # job[p].f
         /\ \A q \in Procs : q # p /\ Resuming(job[q]) => job[q].f # job[p].f
BY DEF FileInv, Alone, Resuming, Live

LEMMA ResumeStep ==
  ASSUME FilesAssumption, FileInv, NEW p \in Procs, RunDecryptResumable(p)
  PROVE  FileInv'
<1>1. CASE Start(p, Ended("failed")) /\ UNCHANGED disk
  <2>1. Ended("failed") \in EndedJobs BY DEF EndedJobs
  <2> QED BY <1>1, <2>1, EndedStep, Starting, SameInPlace DEF FileInv
<1>2. CASE ~(Start(p, Ended("failed")) /\ UNCHANGED disk)
  <2>1. PICK f \in Single, opts \in DecryptOptions :
          /\ OutputFree(f, {"decrypt", "resume"}) /\ OpenReader(f)
          /\ LET c == disk[Pqf(f)] old == disk[Out(f)]
                 j == [DecryptJob(f, opts, "resume") EXCEPT !.do = "resume"]
                 safe == SafeChunks(c, IF old = None THEN 0 ELSE Len(old.bytes)) IN
            /\ Start(p, [j EXCEPT !.pc = "chunk", !.limit = safe])
            /\ Put(Out(f), IF old = None THEN [of |-> c.id, bytes |-> <<>>]
                           ELSE [old EXCEPT !.bytes = SubSeq(@, 1, Least(safe * Chunk, Len(@)))])
    BY <1>2 DEF RunDecryptResumable
  <2> DEFINE c == disk[Pqf(f)]
             old == disk[Out(f)]
             e == DecryptJob(f, opts, "resume")
             safe == SafeChunks(c, IF old = None THEN 0 ELSE Len(old.bytes))
             j == [e EXCEPT !.do = "resume", !.pc = "chunk", !.limit = safe]
             o == IF old = None THEN [of |-> c.id, bytes |-> <<>>]
                  ELSE [old EXCEPT !.bytes = SubSeq(@, 1, Least(safe * Chunk, Len(@)))]
  <2>2. f \in Files /\ c \in PqfFiles /\ c # None /\ old \in OutFiles \cup {None}
    BY <2>1, Kinds DEF Files, OpenReader, FileInv, DiskTyped
  <2>3. /\ e \in DecryptJobs /\ e.f = f /\ e.to = Out(f) /\ e.how = "resume" /\ e.c = c
    BY <2>1, NewDecrypt
  <2> DEFINE bytes == IF old = None THEN <<>> ELSE old.bytes
  <2>4. bytes \in Seq(FileBytes) /\ safe = SafeChunks(c, Len(bytes))
    BY <2>2 DEF OutFiles
  <2>5. /\ safe \in Nat /\ safe < Chunks(c) /\ safe * Chunk \in Nat
        /\ Least(safe * Chunk, Len(bytes)) = SoFar(c, safe)
    BY <2>2, <2>4, GoesOn
  <2> DEFINE cut == SubSeq(bytes, 1, Least(safe * Chunk, Len(bytes)))
  <2>6. cut \in Seq(FileBytes) /\ Len(cut) = SoFar(c, safe) /\ Begins(cut, bytes)
    <3> DEFINE s == safe * Chunk
    <3>1. s \in Nat BY <2>5
    <3> HIDE DEF s, bytes
    <3>2. /\ SubSeq(bytes, 1, Least(s, Len(bytes))) \in Seq(FileBytes)
          /\ Len(SubSeq(bytes, 1, Least(s, Len(bytes)))) = Least(s, Len(bytes))
          /\ Begins(SubSeq(bytes, 1, Least(s, Len(bytes))), bytes)
      BY <2>4, <3>1, FirstBytes
    <3> QED BY <2>5, <3>2 DEF s
  <2>7. /\ old = None => o = [of |-> c.id, bytes |-> cut]
        /\ old # None => o = [of |-> old.of, bytes |-> cut]
    <3>1. CASE old = None
      <4>1. cut = <<>>
        <5>1. bytes = <<>> /\ Len(bytes) = 0 BY <3>1
        <5>2. Len(cut) = 0 BY <2>6, <5>1, LenProperties DEF Begins
        <5> QED BY <2>6, <5>2, EmptySeq
      <4> QED BY <3>1, <4>1
    <3>2. CASE old # None BY <2>2, <3>2 DEF OutFiles
    <3> QED BY <3>1, <3>2
  <2>8. o \in OutFiles BY <2>2, <2>6, <2>7 DEF OutFiles, PqfFiles
  <2>9. o.bytes = cut /\ (o.of = c.id \/ (old # None /\ o.of = old.of))
    <3>1. CASE old = None
      <4>1. o = [of |-> c.id, bytes |-> cut] BY <2>7, <3>1
      <4> HIDE DEF o, cut, c
      <4> QED BY <4>1
    <3>2. CASE old # None
      <4>1. o = [of |-> old.of, bytes |-> cut] BY <2>7, <3>2
      <4> HIDE DEF o, cut, old
      <4> QED BY <3>2, <4>1
    <3> QED BY <3>1, <3>2
  <2>10. o.of = c.id => Begins(cut, Plain(c))
    <3>1. CASE old = None
      <4>1. Len(cut) = 0
        <5>1. Len(bytes) = 0 BY <3>1
        <5> QED BY <2>6, <5>1, LenProperties DEF Begins
      <4>2. Len(Plain(c)) \in Nat BY <2>2, PlainBytes
      <4> HIDE DEF cut, c
      <4> QED BY <4>1, <4>2 DEF Begins
    <3>2. CASE old # None /\ old.of = c.id
      <4>1. Begins(bytes, Plain(c)) BY <2>2, <3>2 DEF FileInv, OutputBegins
      <4> QED BY <2>2, <2>4, <2>6, <4>1, PlainBytes, BeginsAgain
    <3> QED BY <2>7, <3>1, <3>2
  <2>11. Start(p, j) /\ Put(Out(f), o)
    <3>1. [[e EXCEPT !.do = "resume"] EXCEPT !.pc = "chunk", !.limit = safe] = j
      BY <2>3 DEF DecryptJobs
    <3> QED BY <2>1, <3>1
  <2>12. \A q \in Procs : job[q] \in DecryptJobs /\ Live(job[q]) => job[q].f # f
    <3>1. \A k \in DecryptJobs : k.do \in {"decrypt", "resume"} /\ k.pc # "idle"
      BY DEF DecryptJobs
    <3>2. OutputFree(f, {"decrypt", "resume"}) BY <2>1
    <3> QED BY <3>1, <3>2 DEF OutputFree, Live
  <2>13. \A q \in Procs : Resuming(job[q]) => job[q].f # f
    BY <2>12 DEF Resuming, Live
  <2> HIDE DEF o, cut, bytes, safe, e, old, c
  <2>14. /\ j \in DecryptJobs /\ DecryptShape(j) /\ j.pc = "chunk" /\ j.c = c /\ j.f = f
         /\ j.do = "resume" /\ j.limit = safe
    <3>1. safe \in Nat /\ safe <= Chunks(c) BY <2>2, <2>5, ChunkCounts
    <3> QED BY <2>3, <3>1 DEF DecryptJobs, DecryptShape
  <2> HIDE DEF j
  <2>15. SameText(j, c) /\ InStep(j, o, c)
    BY <2>2, <2>6, <2>8, <2>9, <2>10, <2>14 DEF SameText, InStep
  <2>16. JobTyped(j) /\ Decrypted(j) /\ j \notin EncryptJobs
    BY <2>14, JobKinds DEF JobTyped, Decrypted
  <2>17. OutPlaced(p, f, o) BY <2>2, <2>11, OutputPut DEF FileInv
  <2>18. Go(p, j) /\ FileCounts' /\ seals' = seals BY <2>11, Starting
  <2> QED
    BY <2>2, <2>8, <2>9, <2>10, <2>12, <2>13, <2>14, <2>15, <2>16, <2>17, <2>18, OutStep DEF c,
                                                                                             old
<1> QED BY <1>1, <1>2

\* What the one who resumes finds, and the next chunk of it.
LEMMA Chunking ==
  ASSUME FilesAssumption, FileInv, NEW p \in Procs, job[p].pc = "chunk", job[p].do = "resume",
         job[p].limit < Chunks(job[p].c)
  PROVE  LET j == job[p]  f == job[p].f  old == disk[Out(f)]  pqf == disk[Pqf(f)]
             r == ReadChunk(j.c, j.limit) IN
         /\ j \in DecryptJobs /\ DecryptShape(j) /\ f \in Files /\ j.c \in PqfFiles
            /\ j.limit \in Nat
         /\ j.to = Out(f) /\ old \in OutFiles /\ pqf # None /\ old # None
         /\ old.bytes \in Seq(FileBytes) /\ r \in Seq(FileBytes) /\ Len(r) \in Nat
         /\ old.of = pqf.id => old.of = j.c.id /\ Plain(pqf) = Plain(j.c)
         /\ old.of = j.c.id =>
              /\ Len(old.bytes \o r) = SoFar(j.c, j.limit + 1)
              /\ Begins(old.bytes \o r, Plain(j.c))
              /\ \A n \in 1 .. Len(r) : Begins(old.bytes \o SubSeq(r, 1, n), Plain(j.c))
<1> DEFINE j == job[p]
           f == job[p].f
           old == disk[Out(f)]
           pqf == disk[Pqf(f)]
           r == ReadChunk(j.c, j.limit)
<1>1. /\ j \in DecryptJobs /\ DecryptShape(j) /\ f \in Files /\ j.c \in PqfFiles /\ j.limit \in Nat
      /\ j.to = Out(f)
  BY Current DEF DecryptJobs, Files, DecryptShape
<1>2. SameText(j, pqf) /\ InStep(j, old, pqf) /\ Resuming(j) /\ Live(j)
  BY <1>1, Current DEF Fits, Reads, Resuming, Live
<1>3. old \in OutFiles /\ pqf # None /\ old # None /\ old.bytes \in Seq(FileBytes)
  BY <1>2, Kinds DEF InStep, OutFiles
<1>4. old.of = pqf.id => old.of = j.c.id /\ Plain(pqf) = Plain(j.c)
  BY <1>2 DEF InStep, SameText
<1>5. old.of = j.c.id => Len(old.bytes) = SoFar(j.c, j.limit) /\ Begins(old.bytes, Plain(j.c))
  BY <1>2 DEF InStep
<1>6. r \in Seq(FileBytes) /\ Len(r) \in Nat BY <1>1, NextChunk, LenProperties
<1>7. old.of = j.c.id => /\ Len(old.bytes \o r) = SoFar(j.c, j.limit + 1)
                         /\ Begins(old.bytes \o r, Plain(j.c))
                         /\ \A n \in 1 .. Len(r) : Begins(old.bytes \o SubSeq(r, 1, n), Plain(j.c))
  BY <1>1, <1>3, <1>5, Appended
<1> QED BY <1>1, <1>3, <1>4, <1>6, <1>7

LEMMA WriteChunkStep ==
  ASSUME FilesAssumption, FileInv, NEW p \in Procs, WriteChunk(p)
  PROVE  FileInv'
<1> DEFINE j == job[p]
           f == job[p].f
           old == disk[Out(f)]
           pqf == disk[Pqf(f)]
           r == ReadChunk(j.c, j.limit)
           k == [j EXCEPT !.limit = @ + 1]
           o == [old EXCEPT !.bytes = @ \o r]
<1>0. /\ job[p].pc = "chunk" /\ job[p].do = "resume" /\ job[p].limit < Chunks(job[p].c)
      /\ UNCHANGED <<seals, started, faults>>
  BY DEF WriteChunk, Is
<1>1. CASE Go(p, Failing(job[p])) /\ UNCHANGED disk
  BY <1>0, <1>1, SameInPlace, FailingStep DEF FileInv
<1>2. CASE Put(j.to, [disk[j.to] EXCEPT !.bytes = @ \o r]) /\ Go(p, k)
  <2>1. /\ j \in DecryptJobs /\ DecryptShape(j) /\ f \in Files /\ j.c \in PqfFiles
           /\ j.limit \in Nat
        /\ j.to = Out(f) /\ old \in OutFiles /\ pqf # None /\ old # None
        /\ old.bytes \in Seq(FileBytes) /\ r \in Seq(FileBytes)
        /\ old.of = pqf.id => old.of = j.c.id /\ Plain(pqf) = Plain(j.c)
        /\ old.of = j.c.id =>
             Len(old.bytes \o r) = SoFar(j.c, j.limit + 1) /\ Begins(old.bytes \o r, Plain(j.c))
    BY <1>0, Chunking
  <2>2. Put(Out(f), o) /\ Go(p, k) BY <1>2, <2>1
  <2>3. Chunks(j.c) \in Nat BY <2>1, ChunkCounts
  <2> HIDE DEF r, old, pqf
  <2>4. old.bytes \o r \in Seq(FileBytes) BY <2>1, ConcatProperties
  <2>5. o \in OutFiles /\ o.of = old.of /\ o.bytes = old.bytes \o r
    BY <2>1, <2>4 DEF OutFiles
  <2>6. /\ k \in DecryptJobs /\ DecryptShape(k) /\ k.pc = "chunk" /\ k.c = j.c /\ k.f = f
        /\ k.do = "resume" /\ k.limit = j.limit + 1
    <3>1. j.limit + 1 \in Nat /\ j.limit + 1 <= Chunks(j.c) BY <1>0, <2>1, <2>3
    <3>2. j.pc = "chunk" /\ j.do = "resume" /\ f = j.f BY <1>0
    <3> HIDE DEF j, f
    <3> QED BY <2>1, <3>1, <3>2 DEF DecryptJobs, DecryptShape
  <2> HIDE DEF o, k
  <2>7. SameText(j, pqf) /\ InStep(j, old, pqf) /\ Resuming(j)
    BY <1>0, <2>1, Current DEF Fits, Reads, Resuming, old, pqf
  <2>8. SameText(k, pqf) BY <1>0, <2>6, <2>7 DEF SameText, Live
  <2>9. InStep(k, o, pqf) BY <2>1, <2>5, <2>6 DEF InStep
  <2>10. JobTyped(k) /\ Decrypted(k) /\ k \notin EncryptJobs /\ k.pc # "commit"
    BY <2>6, JobKinds DEF JobTyped, Decrypted
  <2>11. OutPlaced(p, f, o) BY <2>1, <2>2, OutputPut DEF FileInv
  <2>12. FileCounts' /\ seals' = seals BY <1>0, Steady
  <2>13. /\ \A q \in Procs : q # p /\ job[q] \in DecryptJobs /\ Live(job[q]) => job[q].f # f
         /\ \A q \in Procs : q # p /\ Resuming(job[q]) => job[q].f # f
    BY <2>7, Owned
  <2>14. o.of = pqf.id => Begins(o.bytes, Plain(pqf)) BY <2>1, <2>5
  <2>15. SameText(k, disk[Pqf(f)]) /\ InStep(k, o, disk[Pqf(f)]) /\ disk[Out(f)] # None
         /\ o.of = disk[Out(f)].of
         /\ (o.of = disk[Pqf(f)].id => Begins(o.bytes, Plain(disk[Pqf(f)])))
    BY <2>1, <2>5, <2>8, <2>9, <2>14 DEF old, pqf
  <2> HIDE DEF j, f
  <2> QED BY <2>1, <2>2, <2>5, <2>6, <2>10, <2>11, <2>12, <2>13, <2>15, OutStep DEF j, f
<1> QED BY <1>1, <1>2 DEF WriteChunk

LEMMA KillStep ==
  ASSUME FilesAssumption, FileInv, NEW p \in Procs, Kill(p)
  PROVE  FileInv'
<1>0. FileCounts' /\ seals' = seals /\ seals <= seals' /\ Go(p, Idle) /\ Idle \in EndedJobs
  <2>1. seals' = seals /\ started' = started /\ faults' = faults + 1 /\ faults < MaxFaults
    BY DEF Kill, Fault
  <2>2. Go(p, Idle) BY DEF Kill
  <2>3. seals \in Nat \ {0} /\ started \in 0 .. MaxCommands /\ faults \in 0 .. MaxFaults
        /\ MaxFaults \in Nat
    BY DEF FileInv, FileCounts, FilesAssumption
  <2>4. faults + 1 \in 0 .. MaxFaults /\ seals <= seals BY <2>1, <2>3
  <2>5. FileCounts' BY <2>1, <2>3, <2>4 DEF FileCounts
  <2>6. Idle \in EndedJobs BY DEF EndedJobs
  <2> QED BY <2>1, <2>2, <2>4, <2>5, <2>6
<1>1. CASE UNCHANGED disk BY <1>0, <1>1, SameInPlace, EndedStep DEF FileInv
<1>2. CASE /\ Is(p, "chunk", "resume") /\ job[p].limit < Chunks(job[p].c)
           /\ \E n \in 1 .. Len(ReadChunk(job[p].c, job[p].limit)) :
                Put(job[p].to, [disk[job[p].to] EXCEPT !.bytes = @ \o SubSeq(ReadChunk(job[p].c, job[p].limit), 1, n)])
  <2> DEFINE j == job[p]
             f == job[p].f
             old == disk[Out(f)]
             pqf == disk[Pqf(f)]
             r == ReadChunk(j.c, j.limit)
  <2>0. job[p].pc = "chunk" /\ job[p].do = "resume" BY <1>2 DEF Is
  <2>1. /\ j \in DecryptJobs /\ f \in Files
        /\ j.to = Out(f) /\ old \in OutFiles /\ pqf # None /\ old # None
        /\ old.bytes \in Seq(FileBytes) /\ r \in Seq(FileBytes) /\ Len(r) \in Nat
        /\ old.of = pqf.id => old.of = j.c.id /\ Plain(pqf) = Plain(j.c)
        /\ old.of = j.c.id
             => \A n \in 1 .. Len(r) : Begins(old.bytes \o SubSeq(r, 1, n), Plain(j.c))
    BY <1>2, <2>0, Chunking
  <2>2. PICK n \in 1 .. Len(r) : Put(Out(f), [old EXCEPT !.bytes = @ \o SubSeq(r, 1, n)])
    BY <1>2, <2>1
  <2> DEFINE cut == SubSeq(r, 1, n)
             o == [old EXCEPT !.bytes = @ \o cut]
  <2> HIDE DEF r
  <2>3. cut \in Seq(FileBytes)
    <3>1. n \in Nat /\ Least(n, Len(r)) = n BY <2>1, <2>2 DEF Least
    <3> QED BY <2>1, <3>1, FirstBytes
  <2>4. old.of = j.c.id => Begins(old.bytes \o cut, Plain(j.c)) BY <2>1, <2>2
  <2>5. Put(Out(f), o) BY <2>2
  <2> HIDE DEF cut, old, pqf
  <2>6. old.bytes \o cut \in Seq(FileBytes) BY <2>1, <2>3, ConcatProperties
  <2>7. o \in OutFiles /\ o.of = old.of /\ o.bytes = old.bytes \o cut
    BY <2>1, <2>6 DEF OutFiles
  <2> HIDE DEF o
  <2>8. OutPlaced(p, f, o) BY <2>1, <2>5, OutputPut DEF FileInv
  <2>9. Resuming(job[p]) BY <2>0, <2>1 DEF Resuming
  <2>10. /\ \A q \in Procs : q # p /\ Resuming(job[q]) => job[q].f # f
    BY <2>9, Owned
  <2>11. /\ Idle \notin EncryptJobs /\ Idle \notin DecryptJobs /\ Idle.pc # "commit"
            /\ JobTyped(Idle) /\ Decrypted(Idle)
         /\ ~Resuming(Idle)
    BY <1>0, JobKinds DEF JobTyped, Decrypted, Resuming
  <2>12. o.of = pqf.id => Begins(o.bytes, Plain(pqf)) BY <2>1, <2>4, <2>7
  <2>13. disk[Out(f)] # None /\ o.of = disk[Out(f)].of
         /\ (o.of = disk[Pqf(f)].id => Begins(o.bytes, Plain(disk[Pqf(f)])))
    BY <2>1, <2>7, <2>12 DEF old, pqf
  <2> PICK i : i = Idle OBVIOUS
  <2>14. /\ i \notin EncryptJobs /\ i \notin DecryptJobs /\ i.pc # "commit" /\ JobTyped(i)
            /\ Decrypted(i)
         /\ ~Resuming(i) /\ Go(p, i)
    BY <1>0, <2>11
  <2>15. disk[Pqf(f)] # None BY <2>1 DEF pqf
  <2>16. FileCounts' /\ seals' = seals BY <1>0
  <2>17. f \in Files /\ o \in OutFiles BY <2>1, <2>7
  <2> HIDE DEF j, f
  <2> QED BY <2>8, <2>10, <2>13, <2>14, <2>15, <2>16, <2>17, OutStep
<1> QED BY <1>1, <1>2 DEF Kill

LEMMA CommitPaths ==
  ASSUME DiskTyped, NEW p \in Procs, NEW to \in Paths, NEW f \in Files,
         to = Pqf(f) \/ to = Out(f), NEW w,
         disk[Tmp(p, to)] = w,
         disk' = [disk EXCEPT ![to] = disk[Tmp(p, to)], ![Tmp(p, to)] = IF Tmp(p, to) = to THEN @ ELSE None]
  PROVE  /\ DOMAIN disk' = Paths /\ disk'[to] = w
         /\ \A y \in Paths : y # to /\ y # Tmp(p, to) => disk'[y] = disk[y]
<1>1. DOMAIN disk = Paths /\ Tmp(p, to) \in Paths /\ Tmp(p, to) # to
  BY PathsApart DEF DiskTyped
<1> QED BY <1>1

LEMMA SealedCommit ==
  ASSUME FilesAssumption, FileInv, NEW p \in Procs, Commit(p), job[p] \in EncryptJobs
  PROVE  FileInv'
<1> DEFINE c == job[p].wrote
           f == job[p].f
           k == [job[p] EXCEPT !.pc = IF BareNames THEN "failed" ELSE "fec"]
<1>1. /\ EncryptShape(job[p]) /\ job[p].pc = "commit" /\ Pending(job[p]) /\ f \in Files
         /\ job[p].to = Pqf(f)
      /\ UNCHANGED <<seals, started, faults>> /\ Go(p, k)
  <2>1. EncryptShape(job[p]) /\ job[p].pc = "commit" BY Current DEF Commit
  <2>2. job[p].do = "encrypt" BY <2>1 DEF EncryptShape, EncryptJobs
  <2> QED BY <2>1, <2>2 DEF Commit, EncryptShape, Pending
<1>2. c \in PqfFiles /\ c # None /\ disk[Tmp(p, Pqf(f))] = c /\ c.id <= seals
  <2>1. Numbered(job[p], seals) BY DEF FileInv, JobsFit
  <2> QED BY <1>1, <2>1 DEF FileInv, InTemp, EncryptJobs, Numbered
<1>3. /\ k \in EncryptJobs /\ EncryptShape(k) /\ k.pc \in {"failed", "fec"} /\ k.all = job[p].all
      /\ k.more = job[p].more /\ k.bad = job[p].bad /\ k.f = f
  BY <1>1 DEF EncryptJobs, EncryptShape
<1> HIDE DEF k
<1>j. /\ DOMAIN job' = Procs /\ job'[p] = k /\ \A q \in Procs : q # p => job'[q] = job[q]
      /\ k \notin DecryptJobs /\ ~Pending(k) /\ k.pc # "commit"
  BY <1>1, <1>3, Going, JobKinds DEF FileInv, JobsFit, Pending
<1>d. /\ DOMAIN disk' = Paths /\ disk'[Pqf(f)] = c
      /\ \A g \in Files : /\ disk'[Src(g)] = disk[Src(g)] /\ disk'[Fec(g)] = disk[Fec(g)]
                          /\ disk'[Out(g)] = disk[Out(g)]
                          /\ g # f => disk'[Pqf(g)] = disk[Pqf(g)]
      /\ \A q \in Procs : \A to : q # p => disk'[Tmp(q, to)] = disk[Tmp(q, to)]
  <2>1. disk' = [disk EXCEPT ![Pqf(f)] = disk[Tmp(p, Pqf(f))],
                             ![Tmp(p, Pqf(f))] = IF Tmp(p, Pqf(f)) = Pqf(f) THEN @ ELSE None]
    BY <1>1 DEF Commit
  <2>2. Pqf(f) \in Paths BY <1>1, PathsApart
  <2>3. /\ DOMAIN disk' = Paths /\ disk'[Pqf(f)] = c
        /\ \A y \in Paths : y # Pqf(f) /\ y # Tmp(p, Pqf(f)) => disk'[y] = disk[y]
    BY <1>1, <1>2, <2>1, <2>2, CommitPaths DEF FileInv
  <2> HIDE DEF f, c
  <2> QED BY <2>3, PathsApart
<1>u. /\ \A g \in Files : /\ disk[Pqf(g)] # None => disk[Pqf(g)].id # c.id
                          /\ disk[Out(g)] # None => disk[Out(g)].of # c.id
      /\ \A q \in Procs : /\ job[q] \in DecryptJobs => job[q].c.id # c.id
                          /\ q # p /\ Pending(job[q]) => job[q].wrote.id # c.id
  BY <1>1 DEF FileInv, Unseen
<1>k. \A q \in Procs : job'[q] \in DecryptJobs => q # p /\ job'[q] = job[q] /\ job[q].f \in Files
  BY <1>j DEF DecryptJobs, Files
<1>o. Filed(job[p]) BY DEF FileInv, JobsFit
<1>ff. f \in Files BY <1>1
<1>p. job[p].pc = "commit" BY <1>1
<1>ef. f = job[p].f OBVIOUS
<1> HIDE DEF c, f
<1>1a. DiskTyped'
  <2>1. \A g \in Files : disk'[Pqf(g)] \in PqfFiles \cup {None}
    <3> TAKE g \in Files
    <3>1. CASE g = f BY <1>2, <1>d, <3>1
    <3>2. CASE g # f BY <1>d, <3>2 DEF FileInv, DiskTyped
    <3> QED BY <3>1, <3>2
  <2> QED BY <1>d, <2>1 DEF FileInv, DiskTyped, Src, Pqf, Fec, Out
<1>2a. JobsFit'
  <2>2. ASSUME NEW q \in Procs PROVE JobTyped(job'[q]) /\ Decrypted(job'[q])
    <3>1. JobTyped(k) /\ Decrypted(k) BY <1>3, <1>j DEF JobTyped, Decrypted
    <3> QED BY <1>j, <3>1 DEF FileInv, JobsFit
  <2>3. ASSUME NEW q \in Procs PROVE Filed(job[q])'
    <3>1. \A g \in Files : disk[Pqf(g)] # None \/ g = f => disk'[Pqf(g)] # None
      BY <1>2, <1>d
    <3>2. \A e \in EncryptJobs : e.all \subseteq Files BY DEF EncryptJobs
    <3>3. CASE q # p
      <4>1. Filed(job[q]) BY DEF FileInv, JobsFit
      <4> QED BY <1>j, <3>1, <3>2, <3>3, <4>1 DEF Filed, Pqf
    <3>4. CASE q = p
      <4>1. ASSUME k.pc # "failed", ~k.bad, NEW g \in k.all
            PROVE  disk'[Pqf(g)] # None \/ \E i \in 1 .. Len(k.more) : k.more[i] = g
        <5>1. g \in Files /\ job[p] \in EncryptJobs /\ job[p].pc # "failed" /\ ~job[p].bad
              /\ g \in job[p].all
          BY <1>3, <1>p, <3>2, <4>1
        <5>2. \/ disk[Pqf(g)] # None
              \/ \E i \in 1 .. Len(job[p].more) : job[p].more[i] = g
              \/ g = f
          BY <1>o, <1>ef, <5>1 DEF Filed
        <5> QED BY <1>3, <3>1, <5>1, <5>2
      <4> QED BY <1>j, <3>4, <4>1 DEF Filed, Pqf
    <3> QED BY <3>3, <3>4
  <2>4. ASSUME NEW q \in Procs PROVE Reads(job'[q], disk'[Out(job'[q].f)], disk'[Pqf(job'[q].f)])
    <3>1. CASE job'[q] \notin DecryptJobs BY <3>1 DEF Reads
    <3>2. CASE job'[q] \in DecryptJobs
      <4>1. q # p /\ job'[q] = job[q] /\ job[q].f \in Files BY <1>k, <3>2
      <4>2. Reads(job[q], disk[Out(job[q].f)], disk[Pqf(job[q].f)]) BY DEF FileInv, JobsFit
      <4>3. CASE job[q].f # f BY <1>d, <4>1, <4>2, <4>3
      <4>4. CASE job[q].f = f
        <5>1. SameText(job[q], c) BY <1>u, <3>2, <4>1 DEF SameText
        <5>2. InStep(job[q], disk[Out(f)], c)
          <6>1. InStep(job[q], disk[Out(f)], disk[Pqf(f)]) BY <3>2, <4>1, <4>2, <4>4 DEF Reads
          <6>2. Resuming(job[q]) => disk[Out(f)] # None BY <6>1, Kinds DEF InStep
          <6> QED BY <1>2, <1>u, <1>ff, <6>1, <6>2 DEF InStep
        <5>3. disk'[Out(f)] = disk[Out(f)] BY <1>d, <1>ff
        <5> QED BY <1>d, <4>1, <4>4, <5>1, <5>2, <5>3 DEF Reads
      <4> QED BY <4>3, <4>4
    <3> QED BY <3>1, <3>2
  <2>5. ASSUME NEW q \in Procs PROVE Numbered(job'[q], seals')
    <3>1. Numbered(job[q], seals) /\ seals' = seals BY <1>1 DEF FileInv, JobsFit
    <3> QED BY <1>j, <3>1 DEF Numbered
  <2>6. ASSUME NEW q \in Procs PROVE JobTyped(job[q])' /\ Decrypted(job[q])'
    BY <2>2 DEF JobTyped, EncryptShape, DecryptShape, Decrypted, AsSealed
  <2>7. ASSUME NEW q \in Procs PROVE Reads(job[q], disk[Out(job[q].f)], disk[Pqf(job[q].f)])'
    BY <2>4 DEF Reads, SameText, InStep, Resuming, Live, Out, Pqf
  <2>8. ASSUME NEW q \in Procs PROVE Numbered(job[q], seals)'
    BY <2>5 DEF Numbered, Pending
  <2> QED BY <1>j, <2>3, <2>6, <2>7, <2>8 DEF JobsFit
<1>3a. InTemp'
  <2> SUFFICES ASSUME NEW q \in Procs, job'[q].pc = "commit"
               PROVE  disk'[Tmp(q, job'[q].to)] = job'[q].wrote /\ job'[q].wrote # None
    BY DEF InTemp, Tmp
  <2>1. q # p /\ job'[q] = job[q] BY <1>j
  <2> QED BY <1>d, <2>1 DEF FileInv, InTemp
<1>4a. DiskNumbered'
  <2>1. seals' = seals BY <1>1
  <2>2. ASSUME NEW g \in Files
        PROVE  /\ disk'[Pqf(g)] # None => disk'[Pqf(g)].id <= seals'
               /\ disk'[Out(g)] # None => disk'[Out(g)].of <= seals'
    <3>1. CASE g = f BY <1>2, <1>d, <2>1, <3>1 DEF FileInv, DiskNumbered
    <3>2. CASE g # f BY <1>d, <2>1, <3>2 DEF FileInv, DiskNumbered
    <3> QED BY <3>1, <3>2
  <2> QED BY <2>2 DEF DiskNumbered, Pqf, Out
<1>5a. Unseen'
  <2>1. ASSUME NEW q \in Procs, Pending(job'[q])
        PROVE  /\ \A g \in Files : /\ disk'[Pqf(g)] # None => disk'[Pqf(g)].id # job'[q].wrote.id
                                   /\ disk'[Out(g)] # None => disk'[Out(g)].of # job'[q].wrote.id
               /\ \A r \in Procs : /\ job'[r] \in DecryptJobs => job'[r].c.id # job'[q].wrote.id
                                   /\ r # q /\ Pending(job'[r])
                                        => job'[r].wrote.id # job'[q].wrote.id
    <3>1. q # p /\ job'[q] = job[q] BY <1>j, <2>1
    <3>2. Pending(job[q]) BY <2>1, <3>1
    <3>3. \A r \in Procs : r # q /\ Pending(job'[r]) => job'[r].wrote.id # job[q].wrote.id
      BY <1>j, <3>2 DEF FileInv, Unseen
    <3>4. \A r \in Procs : job'[r] \in DecryptJobs => job'[r].c.id # job[q].wrote.id
      BY <1>k, <3>2 DEF FileInv, Unseen
    <3>5. ASSUME NEW g \in Files
          PROVE  /\ disk'[Pqf(g)] # None => disk'[Pqf(g)].id # job[q].wrote.id
                 /\ disk'[Out(g)] # None => disk'[Out(g)].of # job[q].wrote.id
      <4>1. CASE g = f BY <1>d, <1>u, <3>1, <3>2, <4>1 DEF FileInv, Unseen
      <4>2. CASE g # f BY <1>d, <3>2, <4>2 DEF FileInv, Unseen
      <4> QED BY <4>1, <4>2
    <3> QED BY <3>1, <3>3, <3>4, <3>5
  <2> QED BY <2>1 DEF Unseen, Pending, Pqf, Out
<1>6a. OutputBegins'
  <2>1. ASSUME NEW g \in Files, disk'[Out(g)] # None, disk'[Pqf(g)] # None, disk'[Out(g)].of = disk'[Pqf(g)].id
        PROVE  Begins(disk'[Out(g)].bytes, Plain(disk'[Pqf(g)]))
    <3>1. CASE g = f BY <1>d, <1>u, <2>1, <3>1
    <3>2. CASE g # f BY <1>d, <2>1, <3>2 DEF FileInv, OutputBegins
    <3> QED BY <3>1, <3>2
  <2> QED BY <2>1 DEF OutputBegins, Begins, Plain, Pqf, Out
<1>7a. Alone'
  <2>1. ASSUME NEW q \in Procs, NEW r \in Procs, Resuming(job'[q]), q # r, job'[r] \in DecryptJobs, Live(job'[r])
        PROVE  job'[r].f # job'[q].f
    <3>1. job'[q] = job[q] /\ job'[r] = job[r] BY <1>k, <2>1 DEF Resuming
    <3> QED BY <2>1, <3>1 DEF FileInv, Alone
  <2> QED BY <2>1 DEF Alone, Resuming, Live
<1>8a. FileCounts' BY <1>1, Steady
<1> QED BY <1>1a, <1>2a, <1>3a, <1>4a, <1>5a, <1>6a, <1>7a, <1>8a DEF FileInv

LEMMA OpenedCommit ==
  ASSUME FilesAssumption, FileInv, NEW p \in Procs, Commit(p), job[p] \in DecryptJobs
  PROVE  FileInv'
<1> DEFINE o == job[p].wrote
           f == job[p].f
           k == [job[p] EXCEPT !.pc = IF BareNames THEN "failed" ELSE "fec"]
<1>1. /\ DecryptShape(job[p]) /\ job[p].pc = "commit" /\ job[p].do = "decrypt" /\ f \in Files
      /\ job[p].to = Out(f) /\ UNCHANGED <<seals, started, faults>> /\ Go(p, k)
  <2>1. DecryptShape(job[p]) /\ job[p].pc = "commit" BY Current DEF Commit
  <2> QED BY <2>1 DEF Commit, DecryptShape, DecryptJobs, Files
<1>2. AsSealed(job[p]) /\ SameText(job[p], disk[Pqf(f)]) /\ Live(job[p])
  <2>1. Decrypted(job[p]) /\ Reads(job[p], disk[Out(f)], disk[Pqf(f)]) BY DEF FileInv, JobsFit
  <2> QED BY <1>1, <2>1 DEF Decrypted, Reads, Live
<1>3. /\ o \in OutFiles /\ o.of = job[p].c.id /\ Begins(o.bytes, Plain(job[p].c))
      /\ disk[Tmp(p, Out(f))] = o
  BY <1>1, <1>2 DEF AsSealed, FileInv, InTemp
<1>4. OutPlaced(p, f, o)
  <2>1. disk' = [disk EXCEPT ![Out(f)] = disk[Tmp(p, Out(f))],
                             ![Tmp(p, Out(f))] = IF Tmp(p, Out(f)) = Out(f) THEN @ ELSE None]
    BY <1>1 DEF Commit
  <2>2. Out(f) \in Paths BY <1>1, PathsApart
  <2>3. /\ DOMAIN disk' = Paths /\ disk'[Out(f)] = o
        /\ \A y \in Paths : y # Out(f) /\ y # Tmp(p, Out(f)) => disk'[y] = disk[y]
    BY <1>1, <1>3, <2>1, <2>2, CommitPaths DEF FileInv
  <2> HIDE DEF f, o
  <2> QED BY <2>3, PathsApart DEF OutPlaced
<1>5. /\ k \in DecryptJobs /\ DecryptShape(k) /\ k.pc \in {"failed", "fec"}
         /\ k.c = job[p].c /\ k.f = f
      /\ k.do = "decrypt" /\ k.wrote = o /\ k.limit = job[p].limit
  BY <1>1 DEF DecryptJobs, DecryptShape
<1> HIDE DEF k
<1>6. AsSealed(k) BY <1>2, <1>5 DEF AsSealed
<1>7. JobTyped(k) /\ Decrypted(k) /\ k \notin EncryptJobs /\ k.pc # "commit" /\ ~Resuming(k)
  BY <1>5, <1>6, JobKinds DEF JobTyped, Decrypted, Resuming
<1>8. SameText(k, disk[Pqf(f)]) /\ InStep(k, o, disk[Pqf(f)])
  BY <1>2, <1>5, <1>7 DEF SameText, InStep
<1>9. \A q \in Procs : q # p /\ Resuming(job[q]) => job[q].f # f
  BY <1>2 DEF FileInv, Alone
<1>10. disk[Pqf(f)] # None /\ o.of = disk[Pqf(f)].id => Begins(o.bytes, Plain(disk[Pqf(f)]))
  BY <1>2, <1>3 DEF SameText
<1>11. FileCounts' /\ seals' = seals BY <1>1, Steady
<1>12. f \in Files /\ Go(p, k) BY <1>1
<1> HIDE DEF o, f
<1> QED BY <1>3, <1>4, <1>5, <1>7, <1>8, <1>9, <1>10, <1>11, <1>12, OutStep

LEMMA CommitStep ==
  ASSUME FilesAssumption, FileInv, NEW p \in Procs, Commit(p)
  PROVE  FileInv'
BY SealedCommit, OpenedCommit, Current DEF Commit

-----------------------------------------------------------------------------
(* What happens to files meanwhile. *)

LEMMA FaultCounts ==
  ASSUME FilesAssumption, FileInv, Fault
  PROVE  FileCounts' /\ seals' = seals
<1>1. seals' = seals /\ started' = started /\ faults' = faults + 1 /\ faults < MaxFaults
  BY DEF Fault
<1>2. seals \in Nat \ {0} /\ started \in 0 .. MaxCommands /\ faults \in 0 .. MaxFaults
      /\ MaxFaults \in Nat
  BY DEF FileInv, FileCounts, FilesAssumption
<1>3. faults + 1 \in 0 .. MaxFaults BY <1>1, <1>2
<1> QED BY <1>1, <1>2, <1>3 DEF FileCounts

\* A source edited, a container damaged, an output no command wrote.
LEMMA OutsideStep ==
  ASSUME FilesAssumption, FileInv, UNCHANGED job, FileCounts', seals' = seals,
         DOMAIN disk' = Paths,
         \A q \in Procs : \A to : disk'[Tmp(q, to)] = disk[Tmp(q, to)],
         \A g \in Files : \E n \in Lengths : disk'[Src(g)] = Bytes(g, n),
         \A g \in Files : disk'[Fec(g)] = disk[Fec(g)],
         \A g \in Files : \/ disk'[Pqf(g)] = disk[Pqf(g)]
                          \/ /\ disk[Pqf(g)] # None /\ disk'[Pqf(g)] \in PqfFiles
                             /\ disk'[Pqf(g)].id = disk[Pqf(g)].id
                             /\ Plain(disk'[Pqf(g)]) = Plain(disk[Pqf(g)]),
         \A g \in Files : \/ disk'[Out(g)] = disk[Out(g)]
                          \/ disk[Out(g)] = None /\ disk'[Out(g)] \in OutFiles /\ disk'[Out(g)].of = 0
  PROVE  FileInv'
<1>p. \A g \in Files : (disk'[Pqf(g)] # None) => /\ disk[Pqf(g)] # None
                                                 /\ disk'[Pqf(g)].id = disk[Pqf(g)].id
                                                 /\ Plain(disk'[Pqf(g)]) = Plain(disk[Pqf(g)])
  OBVIOUS
<1>q. \A g \in Files : (disk[Pqf(g)] # None) => disk'[Pqf(g)] # None
  BY Kinds
<1>i. \A g \in Files : (disk'[Pqf(g)] # None) => disk'[Pqf(g)].id \in Nat \ {0}
  BY DEF FileInv, DiskTyped, PqfFiles
<1>s. seals \in Nat \ {0} BY DEF FileInv, FileCounts
<1>1. DiskTyped' BY DEF FileInv, DiskTyped, Src, Pqf, Fec, Out
<1>2. JobsFit'
  <2>2. ASSUME NEW q \in Procs
        PROVE  JobTyped(job'[q]) /\ Decrypted(job'[q]) /\ Numbered(job'[q], seals')
    BY DEF FileInv, JobsFit
  <2>3. ASSUME NEW q \in Procs PROVE Filed(job[q])'
    <3>1. \A e \in EncryptJobs : e.all \subseteq Files BY DEF EncryptJobs
    <3>2. Filed(job[q]) BY DEF FileInv, JobsFit
    <3> QED BY <1>q, <3>1, <3>2 DEF Filed, Pqf
  <2>4. ASSUME NEW q \in Procs PROVE Reads(job'[q], disk'[Out(job'[q].f)], disk'[Pqf(job'[q].f)])
    <3>1. CASE job[q] \notin DecryptJobs BY <3>1 DEF Reads
    <3>2. CASE job[q] \in DecryptJobs
      <4>1. job[q].f \in Files BY <3>2 DEF DecryptJobs, Files
      <4>2. SameText(job[q], disk[Pqf(job[q].f)])
            /\ InStep(job[q], disk[Out(job[q].f)], disk[Pqf(job[q].f)])
        BY <3>2 DEF FileInv, JobsFit, Reads
      <4>3. SameText(job[q], disk'[Pqf(job[q].f)]) BY <1>p, <4>1, <4>2 DEF SameText
      <4>4. Resuming(job[q]) => disk'[Out(job[q].f)] = disk[Out(job[q].f)]
        BY <4>1, <4>2, Kinds DEF InStep
      <4>5. InStep(job[q], disk'[Out(job[q].f)], disk'[Pqf(job[q].f)])
        BY <1>p, <1>q, <4>1, <4>2, <4>4 DEF InStep
      <4> QED BY <4>3, <4>5 DEF Reads
    <3> QED BY <3>1, <3>2
  <2>6. ASSUME NEW q \in Procs PROVE JobTyped(job[q])' /\ Decrypted(job[q])'
    BY <2>2 DEF JobTyped, EncryptShape, DecryptShape, Decrypted, AsSealed
  <2>7. ASSUME NEW q \in Procs PROVE Reads(job[q], disk[Out(job[q].f)], disk[Pqf(job[q].f)])'
    BY <2>4 DEF Reads, SameText, InStep, Resuming, Live, Out, Pqf
  <2>8. ASSUME NEW q \in Procs PROVE Numbered(job[q], seals)'
    BY <2>2 DEF Numbered, Pending
  <2>9. DOMAIN job' = Procs BY DEF FileInv, JobsFit
  <2> QED BY <2>3, <2>6, <2>7, <2>8, <2>9 DEF JobsFit
<1>3. InTemp'
  <2> SUFFICES ASSUME NEW q \in Procs, job'[q].pc = "commit"
               PROVE  disk'[Tmp(q, job'[q].to)] = job'[q].wrote /\ job'[q].wrote # None
    BY DEF InTemp, Tmp
  <2> QED BY DEF FileInv, InTemp
<1>4. DiskNumbered'
  <2>1. ASSUME NEW g \in Files
        PROVE  /\ disk'[Pqf(g)] # None => disk'[Pqf(g)].id <= seals'
               /\ disk'[Out(g)] # None => disk'[Out(g)].of <= seals'
    <3>1. disk'[Pqf(g)] # None => disk'[Pqf(g)].id <= seals BY <1>p DEF FileInv, DiskNumbered
    <3>2. disk'[Out(g)] # None => disk'[Out(g)].of <= seals BY <1>s DEF FileInv, DiskNumbered
    <3> QED BY <3>1, <3>2
  <2> QED BY <2>1 DEF DiskNumbered, Pqf, Out
<1>5. Unseen'
  <2>1. ASSUME NEW q \in Procs, Pending(job'[q])
        PROVE  /\ \A f \in Files : /\ disk'[Pqf(f)] # None => disk'[Pqf(f)].id # job'[q].wrote.id
                                   /\ disk'[Out(f)] # None => disk'[Out(f)].of # job'[q].wrote.id
               /\ \A r \in Procs : /\ job'[r] \in DecryptJobs => job'[r].c.id # job'[q].wrote.id
                                   /\ r # q /\ Pending(job'[r])
                                        => job'[r].wrote.id # job'[q].wrote.id
    <3>1. Pending(job[q]) /\ job'[q] = job[q] BY <2>1
    <3>2. job[q].wrote.id # 0
      <4>1. job[q] \in EncryptJobs /\ job[q].wrote # None BY <3>1 DEF Pending, FileInv, InTemp
      <4> QED BY <4>1 DEF EncryptJobs, PqfFiles
    <3>3. ASSUME NEW f \in Files
          PROVE  /\ disk'[Pqf(f)] # None => disk'[Pqf(f)].id # job[q].wrote.id
                 /\ disk'[Out(f)] # None => disk'[Out(f)].of # job[q].wrote.id
      BY <1>p, <3>1, <3>2 DEF FileInv, Unseen
    <3>4. \A r \in Procs : /\ job[r] \in DecryptJobs => job[r].c.id # job[q].wrote.id
                           /\ r # q /\ Pending(job[r]) => job[r].wrote.id # job[q].wrote.id
      BY <3>1 DEF FileInv, Unseen
    <3> QED BY <3>1, <3>3, <3>4
  <2> QED BY <2>1 DEF Unseen, Pending, Pqf, Out
<1>6. OutputBegins'
  <2>1. ASSUME NEW g \in Files, disk'[Out(g)] # None, disk'[Pqf(g)] # None, disk'[Out(g)].of = disk'[Pqf(g)].id
        PROVE  Begins(disk'[Out(g)].bytes, Plain(disk'[Pqf(g)]))
    <3>1. disk'[Out(g)] = disk[Out(g)] BY <1>i, <2>1
    <3>2. disk[Pqf(g)] # None /\ disk[Out(g)].of = disk[Pqf(g)].id BY <1>p, <2>1, <3>1
    <3>3. Begins(disk[Out(g)].bytes, Plain(disk[Pqf(g)]))
      BY <2>1, <3>1, <3>2 DEF FileInv, OutputBegins
    <3> QED BY <1>p, <2>1, <3>1, <3>3
  <2> QED BY <2>1 DEF OutputBegins, Begins, Plain, Pqf, Out
<1>7. Alone' BY DEF FileInv, Alone, Resuming, Live
<1> QED BY <1>1, <1>2, <1>3, <1>4, <1>5, <1>6, <1>7 DEF FileInv

LEMMA EditStep ==
  ASSUME FilesAssumption, FileInv, EditSource
  PROVE  FileInv'
<1>1. PICK f \in Single, n \in Lengths : Fault /\ Put(Src(f), Bytes(f, n)) /\ UNCHANGED job
  BY DEF EditSource
<1>2. f \in Files /\ DOMAIN disk = Paths BY DEF Files, FileInv, DiskTyped
<1>3. /\ DOMAIN disk' = Paths /\ disk'[Src(f)] = Bytes(f, n)
      /\ \A y \in Paths : y # Src(f) => disk'[y] = disk[y]
  BY <1>1, <1>2, PathsApart, Putting
<1>4. \A g \in Files : \E m \in Lengths : disk'[Src(g)] = Bytes(g, m)
  <2> TAKE g \in Files
  <2>1. CASE g = f BY <1>3, <2>1
  <2>2. CASE g # f
    <3>1. disk'[Src(g)] = disk[Src(g)] BY <1>3, <2>2, PathsApart
    <3> QED BY <3>1 DEF FileInv, DiskTyped
  <2> QED BY <2>1, <2>2
<1>5. /\ \A g \in Files : /\ disk'[Pqf(g)] = disk[Pqf(g)] /\ disk'[Fec(g)] = disk[Fec(g)]
                          /\ disk'[Out(g)] = disk[Out(g)]
      /\ \A q \in Procs : \A to : disk'[Tmp(q, to)] = disk[Tmp(q, to)]
  BY <1>2, <1>3, PathsApart
<1> QED BY <1>1, <1>3, <1>4, <1>5, FaultCounts, OutsideStep

LEMMA RotStep ==
  ASSUME FilesAssumption, FileInv, Rot
  PROVE  FileInv'
<1>1. PICK f \in Single, rot \in {"size", "block", "heavy"} :
        /\ Fault /\ Whole(disk[Pqf(f)]) /\ UNCHANGED job
        /\ Put(Pqf(f), [disk[Pqf(f)] EXCEPT !.rot = rot])
  BY DEF Rot
<1>2. f \in Files /\ DOMAIN disk = Paths BY DEF Files, FileInv, DiskTyped
<1> DEFINE c == disk[Pqf(f)]
           d == [c EXCEPT !.rot = rot]
<1>3. c \in PqfFiles /\ c # None BY <1>1, <1>2 DEF FileInv, DiskTyped, Whole
<1>4. d \in PqfFiles /\ d.id = c.id /\ Plain(d) = Plain(c)
  BY <1>3 DEF PqfFiles, Rots, Plain
<1>5. /\ DOMAIN disk' = Paths /\ disk'[Pqf(f)] = d
      /\ \A y \in Paths : y # Pqf(f) => disk'[y] = disk[y]
  BY <1>1, <1>2, PathsApart, Putting
<1> HIDE DEF d
<1>6. /\ \A g \in Files : /\ disk'[Src(g)] = disk[Src(g)] /\ disk'[Fec(g)] = disk[Fec(g)]
                          /\ disk'[Out(g)] = disk[Out(g)]
                          /\ g # f => disk'[Pqf(g)] = disk[Pqf(g)]
      /\ \A q \in Procs : \A to : disk'[Tmp(q, to)] = disk[Tmp(q, to)]
  BY <1>2, <1>5, PathsApart
<1>7. \A g \in Files : \E m \in Lengths : disk'[Src(g)] = Bytes(g, m)
  BY <1>6 DEF FileInv, DiskTyped
<1>8. \A g \in Files : \/ disk'[Pqf(g)] = disk[Pqf(g)]
                       \/ /\ disk[Pqf(g)] # None /\ disk'[Pqf(g)] \in PqfFiles
                          /\ disk'[Pqf(g)].id = disk[Pqf(g)].id
                          /\ Plain(disk'[Pqf(g)]) = Plain(disk[Pqf(g)])
  BY <1>3, <1>4, <1>5, <1>6
<1> QED BY <1>1, <1>5, <1>6, <1>7, <1>8, FaultCounts, OutsideStep

LEMMA OtherStep ==
  ASSUME FilesAssumption, FileInv, OtherOutput
  PROVE  FileInv'
<1> DEFINE o == [of |-> 0, bytes |-> Zeros(1)]
<1>1. PICK f \in Single : Fault /\ disk[Out(f)] = None /\ Put(Out(f), o) /\ UNCHANGED job
  BY DEF OtherOutput
<1>2. f \in Files /\ DOMAIN disk = Paths BY DEF Files, FileInv, DiskTyped
<1>3. o \in OutFiles /\ o.of = 0 BY ZeroBytes DEF OutFiles
<1> HIDE DEF o
<1>4. /\ DOMAIN disk' = Paths /\ disk'[Out(f)] = o
      /\ \A y \in Paths : y # Out(f) => disk'[y] = disk[y]
  BY <1>1, <1>2, PathsApart, Putting
<1>5. /\ \A g \in Files : /\ disk'[Src(g)] = disk[Src(g)] /\ disk'[Fec(g)] = disk[Fec(g)]
                          /\ disk'[Pqf(g)] = disk[Pqf(g)]
                          /\ g # f => disk'[Out(g)] = disk[Out(g)]
      /\ \A q \in Procs : \A to : disk'[Tmp(q, to)] = disk[Tmp(q, to)]
  BY <1>2, <1>4, PathsApart
<1>6. \A g \in Files : \E m \in Lengths : disk'[Src(g)] = Bytes(g, m)
  BY <1>5 DEF FileInv, DiskTyped
<1>7. \A g \in Files : \/ disk'[Out(g)] = disk[Out(g)]
                       \/ disk[Out(g)] = None /\ disk'[Out(g)] \in OutFiles /\ disk'[Out(g)].of = 0
  BY <1>1, <1>3, <1>4, <1>5
<1> QED BY <1>1, <1>4, <1>5, <1>6, <1>7, FaultCounts, OutsideStep

-----------------------------------------------------------------------------
(* The theorems. *)

LEMMA FilesInit == FilesAssumption /\ Init => FileInv
<1> SUFFICES ASSUME FilesAssumption, Init PROVE FileInv
  OBVIOUS
<1>1. PICK n \in Lengths, before \in BOOLEAN :
        disk = [path \in Paths |->
                 CASE path[1] \in Files /\ path[2] = "src"            -> Bytes(path[1], n)
                   [] before /\ path[1] \in Single /\ path[2] = "pqf" -> Earlier(path[1], n)
                   [] before /\ path[1] \in Single /\ path[2] = "fec" -> Parity(Earlier(path[1], n))
                   [] OTHER                                           -> None]
  BY DEF Init
<1>2. job = [p \in Procs |-> Idle] /\ seals = 1 /\ started = 0 /\ faults = 0 BY DEF Init
<1>3. FileCounts BY <1>2 DEF FileCounts, FilesAssumption
<1>4. ASSUME NEW f \in Files
      PROVE  /\ Earlier(f, n) \in PqfFiles /\ Earlier(f, n).id = 1
             /\ Parity(Earlier(f, n)) \in FecFiles
  <2>1. Bytes(f, n) \in Seq(FileBytes) /\ n \in Nat /\ <<>> \in Seq({0})
    BY SourceBytes DEF FilesAssumption
  <2> DEFINE b == Bytes(f, n)
  <2>2. Earlier(f, n) = [id |-> 1, how |-> "stream", text |-> b, zeros |-> <<>>, size |-> n, rot |-> "none"]
    BY DEF Earlier, Sealed
  <2> HIDE DEF b
  <2>3. b \in Seq(FileBytes) BY <2>1 DEF b
  <2>4. Earlier(f, n) \in PqfFiles /\ Earlier(f, n).id = 1 /\ Earlier(f, n).rot = "none"
    BY <2>1, <2>2, <2>3 DEF PqfFiles, Hows, Rots
  <2>5. Parity(Earlier(f, n)) = [of |-> 1, rot |-> "none"] BY <2>4 DEF Parity
  <2> QED BY <2>4, <2>5 DEF FecFiles, Parities, Rots
<1>5. ASSUME NEW f \in Files
      PROVE  /\ disk[Src(f)] = Bytes(f, n) /\ disk[Out(f)] = None
             /\ disk[Pqf(f)] \in {None, Earlier(f, n)}
                /\ disk[Fec(f)] \in {None, Parity(Earlier(f, n))}
  <2>1. {Src(f), Pqf(f), Fec(f), Out(f)} \subseteq Paths BY PathsApart
  <2>2. disk[Src(f)] = Bytes(f, n) BY <1>1, <2>1 DEF Src
  <2>3. disk[Out(f)] = None BY <1>1, <2>1 DEF Out
  <2>4. disk[Pqf(f)] \in {None, Earlier(f, n)}
    <3>1. Pqf(f)[1] = f /\ Pqf(f)[2] = "pqf" BY DEF Pqf
    <3> QED BY <1>1, <2>1, <3>1
  <2>5. disk[Fec(f)] \in {None, Parity(Earlier(f, n))}
    <3>1. Fec(f)[1] = f /\ Fec(f)[2] = "fec" BY DEF Fec
    <3> QED BY <1>1, <2>1, <3>1
  <2> QED BY <2>2, <2>3, <2>4, <2>5
<1>6. DiskTyped
  <2>1. DOMAIN disk = Paths BY <1>1
  <2>2. ASSUME NEW f \in Files
        PROVE  /\ \E m \in Lengths : disk[Src(f)] = Bytes(f, m)
               /\ disk[Pqf(f)] \in PqfFiles \cup {None} /\ disk[Fec(f)] \in FecFiles
               /\ disk[Out(f)] \in OutFiles \cup {None}
    BY <1>4, <1>5 DEF FecFiles
  <2> QED BY <2>1, <2>2 DEF DiskTyped
<1>7. ASSUME NEW p \in Procs
      PROVE  /\ job[p] = Idle /\ job[p] \in EndedJobs /\ job[p] \notin EncryptJobs /\ job[p] \notin DecryptJobs
             /\ job[p].pc = "idle"
  BY <1>2, JobKinds DEF EndedJobs, Idle
<1>8. JobsFit
  <2>1. DOMAIN job = Procs BY <1>2
  <2> QED BY <1>7, <2>1 DEF JobsFit, JobTyped, Filed, Decrypted, Reads, Numbered, Pending
<1>9. InTemp BY <1>7 DEF InTemp
<1>10. DiskNumbered BY <1>2, <1>4, <1>5 DEF DiskNumbered
<1>11. Unseen BY <1>7 DEF Unseen, Pending
<1>12. OutputBegins BY <1>5 DEF OutputBegins
<1>13. Alone BY <1>7 DEF Alone, Resuming
<1> QED BY <1>3, <1>6, <1>8, <1>9, <1>10, <1>11, <1>12, <1>13 DEF FileInv

LEMMA FilesStep == FilesAssumption /\ FileInv /\ [Next]_vars => FileInv'
<1> SUFFICES ASSUME FilesAssumption, FileInv, [Next]_vars PROVE FileInv'
  OBVIOUS
<1>1. ASSUME NEW p \in Procs, Encrypt(p) PROVE FileInv'
  <2>2. CASE RunEncryptSingle(p)
    <3>1. PICK f \in Single, opts \in EncryptOptions : Begin(p, f, opts, "stream", MaybePadded(f, opts))
      BY <2>2 DEF RunEncryptSingle
    <3> QED BY <3>1, BeginStep DEF Hows
  <2>3. CASE PerformEncrypt(p)
    <3>1. PICK f \in Single, opts \in EncryptOptions : Begin(p, f, opts, "compress", TRUE)
      BY <2>3 DEF PerformEncrypt
    <3> QED BY <3>1, BeginStep DEF Hows
  <2>4. CASE EncryptMmap(p)
    <3>1. PICK f \in Single, opts \in EncryptOptions : Begin(p, f, opts, "mmap", TRUE)
      BY <2>4 DEF EncryptMmap
    <3> QED BY <3>1, BeginStep DEF Hows
  <2>5. CASE RunEncryptStealth(p)
    <3>1. PICK f \in Single, opts \in EncryptOptions : Begin(p, f, opts, "stealth", MaybePadded(f, opts))
      BY <2>5 DEF RunEncryptStealth
    <3> QED BY <3>1, BeginStep DEF Hows
  <2>6. CASE RunEncryptPassphrase(p)
    <3>1. PICK f \in Single, opts \in EncryptOptions : Begin(p, f, opts, "stream", MaybePadded(f, opts))
      BY <2>6 DEF RunEncryptPassphrase
    <3> QED BY <3>1, BeginStep DEF Hows
  <2>7. CASE RunEncryptTlock(p)
    <3>1. PICK f \in Single, opts \in EncryptOptions : Begin(p, f, opts, "stream", MaybePadded(f, opts))
      BY <2>7 DEF RunEncryptTlock
    <3> QED BY <3>1, BeginStep DEF Hows
  <2>8. CASE RunEncryptRecursive(p) BY <2>8, BatchStep
  <2>9. CASE Seal(p) BY <2>9, SealStep
  <2>10. CASE EncryptOneFile(p) BY <2>10, OneFileStep
  <2>11. CASE Finish(p) BY <2>11, FinishStep
  <2> QED BY <1>1, <2>2, <2>3, <2>4, <2>5, <2>6, <2>7, <2>8, <2>9, <2>10, <2>11 DEF Encrypt
<1>2. ASSUME NEW p \in Procs, Read(p) PROVE FileInv'
  <2>1. CASE RunDecrypt(p) \/ RunDecryptTlock(p) \/ RunCheck(p) BY <2>1, ReadStep
  <2>2. CASE Peek(p) BY <2>2, PeekStep
  <2>3. CASE Decrypt(p) BY <2>3, DecryptStep
  <2>4. CASE RunDecryptResumable(p) BY <2>4, ResumeStep
  <2>5. CASE WriteChunk(p) BY <2>5, WriteChunkStep
  <2>6. CASE FinishResume(p) BY <2>6, FinishResumeStep
  <2> QED BY <1>2, <2>1, <2>2, <2>3, <2>4, <2>5, <2>6 DEF Read
<1>3. ASSUME NEW p \in Procs, Shared(p) PROVE FileInv'
  <2>1. CASE Commit(p) BY <2>1, CommitStep
  <2>2. CASE NoSidecar(p) \/ WriteFecSidecar(p) \/ FinishSidecar(p) \/ LogEvent(p)
    BY <2>2, SidecarStep
  <2>3. CASE Fail(p) BY <2>3, FailStep
  <2>4. CASE Kill(p) BY <2>4, KillStep
  <2> QED BY <1>3, <2>1, <2>2, <2>3, <2>4 DEF Shared
<1>4. CASE EditSource BY <1>4, EditStep
<1>5. CASE Rot BY <1>5, RotStep
<1>6. CASE OtherOutput BY <1>6, OtherStep
<1>7. CASE UNCHANGED vars
  BY <1>7 DEF FileInv, FileCounts, DiskTyped, JobsFit, JobTyped, EncryptShape, DecryptShape,
              Filed, Decrypted,
              AsSealed, Reads, SameText, InStep, Resuming, Live, Numbered, Pending, InTemp,
              DiskNumbered,
              Unseen, OutputBegins, Alone, Src, Pqf, Fec, Out, Tmp, vars
<1> QED BY <1>1, <1>2, <1>3, <1>4, <1>5, <1>6, <1>7 DEF Next

\* All of the invariant holds, of every process and every file.
THEOREM FilesInvariant == ASSUME FilesAssumption PROVE Spec => []FileInv
<1>1. Init => FileInv BY FilesInit
<1>2. FileInv /\ [Next]_vars => FileInv' BY FilesStep
<1> QED BY <1>1, <1>2, PTL DEF Spec

\* The types: a source is a prefix of its file, and the counters keep to their
\* bounds, whatever is edited, killed or damaged (encrypt.rs, decrypt.rs).
THEOREM FilesTypeCorrect == ASSUME FilesAssumption PROVE Spec => []TypeOK
<1>1. FileInv => TypeOK
  <2> SUFFICES ASSUME FileInv PROVE TypeOK
    OBVIOUS
  <2>1. \A f \in Files : disk[Src(f)] \in {None} \cup {Bytes(f, n) : n \in Lengths}
    BY DEF FileInv, DiskTyped
  <2>2. seals \in Nat /\ started \in 0 .. MaxCommands /\ faults \in 0 .. MaxFaults
    BY DEF FileInv, FileCounts
  <2>3. ASSUME NEW p \in Procs
        PROVE  job[p].pc \in {"idle", "failed", "ok"} \/ job[p].f \in Files \cup {None}
    BY Current DEF EncryptJobs, DecryptJobs, Files
  <2> QED BY <2>1, <2>2, <2>3 DEF TypeOK
<1> QED BY <1>1, FilesInvariant, PTL

\* Whatever is killed or fails, and whoever else writes, a container or an
\* output at its own name is never half of one (atomic_output.rs).
THEOREM NamesAreWhole == ASSUME FilesAssumption PROVE Spec => []NeverHalf
<1>1. FileInv => NeverHalf
  <2> SUFFICES ASSUME FileInv PROVE NeverHalf
    OBVIOUS
  <2>1. None # Half BY DEF FilesAssumption
  <2> QED BY <2>1, Kinds DEF FileInv, DiskTyped, NeverHalf
<1> QED BY <1>1, FilesInvariant, PTL

\* A command that reports success did what it says: a decryption wrote what was
\* sealed, and a batch left a container beside every file it found.
THEOREM ReportsAreTrue == ASSUME FilesAssumption PROVE Spec => []ReportsHold
<1>1. FileInv => ReportsHold
  <2> SUFFICES ASSUME FileInv PROVE ReportsHold
    OBVIOUS
  <2>1. DecryptedIsSealed
    <3>1. ASSUME NEW p \in Procs, Is(p, "ok", "decrypt") PROVE AsSealed(job[p])
      <4>1. job[p].pc = "ok" /\ job[p].do = "decrypt" BY <3>1 DEF Is
      <4>2. job[p] \in DecryptJobs BY <4>1, Current, JobKinds DEF Fits, JobTyped
      <4> QED BY <4>1, <4>2, Current DEF Fits, Decrypted
    <3> QED BY <3>1 DEF DecryptedIsSealed, AsSealed
  <2>2. BatchReports
    <3>1. ASSUME NEW p \in Procs, job[p].pc = "ok", job[p].do \in {"encrypt", "recurse"}, NEW f \in job[p].all
          PROVE  disk[Pqf(f)] # None
      <4>1. job[p] \in EncryptJobs BY <3>1, Current, JobKinds DEF Fits, JobTyped
      <4>2. EncryptShape(job[p]) /\ Filed(job[p]) BY <4>1, Current DEF Fits
      <4>3. ~job[p].bad /\ Len(job[p].more) = 0 BY <3>1, <4>2 DEF EncryptShape
      <4> QED BY <3>1, <4>1, <4>2, <4>3 DEF Filed
    <3> QED BY <3>1 DEF BatchReports
  <2> QED BY <2>1, <2>2 DEF ReportsHold
<1> QED BY <1>1, FilesInvariant, PTL

\* decrypt --resume, after any number of attempts that were killed, leaves the
\* plaintext of its container, if nothing else wrote to the output (resume.rs).
THEOREM ResumedAreSealed == ASSUME FilesAssumption PROVE Spec => []ResumedIsSealed
<1>1. FileInv => ResumedIsSealed
  <2> SUFFICES ASSUME FileInv, NEW p \in Procs, Is(p, "ok", "resume"),
                      job[p].wrote.of = job[p].c.id
               PROVE  job[p].wrote.bytes = Plain(job[p].c)
    BY DEF ResumedIsSealed
  <2>1. job[p].pc = "ok" /\ job[p].do = "resume" BY DEF Is
  <2>2. job[p] \in DecryptJobs BY <2>1, Current, JobKinds DEF Fits, JobTyped
  <2> QED BY <2>1, <2>2, Current DEF Fits, Decrypted
<1> QED BY <1>1, FilesInvariant, PTL

-----------------------------------------------------------------------------
(* The log that the commands append to. *)

CONSTANTS Commands, MaxEntries
VARIABLES log, synced, tip, tipPast, pc, prevHash, entry, built, saved, acked, overlapped

L == INSTANCE AuditLog


Entries == [id : Nat, prev : Nat]

\* Enough of the types for the arguments below.
LogTyped ==
  /\ log \in Seq(Entries) /\ synced \in 0 .. Len(log)
  /\ built \in Nat /\ tip \in tipPast /\ tipPast \subseteq Nat
  /\ pc \in [Commands -> {"idle", "write", "sync", "truncate", "tip"}]
  /\ prevHash \in [Commands -> Nat] /\ entry \in [Commands -> Nat]

-----------------------------------------------------------------------------
(* What was acknowledged stays. *)

Within(k, id) == \E i \in 1 .. k : log[i].id = id

\* A command's entry is written before it is synced, and synced before the tip
\* is touched.
OnItsWay ==
  \A c \in Commands :
    /\ pc[c] = "sync" => Within(Len(log), entry[c])
    /\ pc[c] \in {"truncate", "tip"} => Within(synced, entry[c])

KeptInv ==
  /\ LogTyped /\ OnItsWay
  /\ \A id \in acked : Within(synced, id)
  /\ \A t \in tipPast \ {0} : Within(synced, t)

\* What a step does to the log: it grows by an entry, or is cut behind what is
\* synced, perhaps in the middle of a write.
LEMMA Growing ==
  ASSUME LogTyped, NEW e \in Entries, log' = Append(log, e)
  PROVE  /\ log' \in Seq(Entries) /\ Len(log') = Len(log) + 1 /\ Len(log) \in Nat
         /\ \A i \in 1 .. Len(log) : log'[i] = log[i]
         /\ log'[Len(log) + 1] = e
  BY AppendProperties, LenProperties DEF LogTyped

LEMMA Cutting ==
  ASSUME LogTyped, L!PowerLoss
  PROVE  /\ log' \in Seq(Entries) /\ Len(log') \in Nat /\ synced' = Len(log') /\ synced <= Len(log')
         /\ \A i \in 1 .. synced : log'[i] = log[i]
<1>1. PICK keep \in synced .. Len(log) :
        /\ \/ log' = SubSeq(log, 1, keep)
           \/ log' = Append(SubSeq(log, 1, keep), L!Torn)
        /\ synced' = Len(log')
  BY DEF L!PowerLoss
<1> DEFINE cut == SubSeq(log, 1, keep)
<1>2. synced \in Nat /\ Len(log) \in Nat /\ keep \in 0 .. Len(log) /\ synced <= keep
  BY <1>1, LenProperties DEF LogTyped
<1>3. cut \in Seq(Entries) /\ Len(cut) = keep /\ \A i \in 1 .. keep : cut[i] = log[i]
  <2>1. log \in Seq(Entries)
    BY DEF LogTyped
  <2>2. CASE keep = 0
    BY <1>2, <2>1, <2>2, SubSeqProperties
  <2>3. CASE keep # 0
    BY <1>2, <2>1, <2>3, SubSeqProperties
  <2> QED BY <2>2, <2>3
<1>4. L!Torn \in Entries
  BY DEF L!Torn, Entries
<1> HIDE DEF cut
<1>5. CASE log' = cut
  BY <1>1, <1>2, <1>3, <1>5
<1>6. CASE log' = Append(cut, L!Torn)
  <2>1. log' \in Seq(Entries) /\ Len(log') = keep + 1 /\ \A i \in 1 .. keep : log'[i] = cut[i]
    BY <1>2, <1>3, <1>4, <1>6, AppendProperties
  <2> QED BY <1>1, <1>2, <1>3, <2>1
<1> QED BY <1>1, <1>5, <1>6 DEF cut

\* Failures keep the types.
LEMMA FaultTyped ==
  ASSUME LogTyped, (\E c \in Commands : L!Stop(c)) \/ L!PowerLoss PROVE LogTyped'
<1>1. ASSUME NEW c \in Commands, L!Stop(c) PROVE LogTyped'
  <2>1. CASE UNCHANGED log
    BY <1>1, <2>1 DEF L!Stop, LogTyped
  <2>2. CASE log' = Append(log, L!Torn)
    <3>1. log' \in Seq(Entries) /\ Len(log') = Len(log) + 1 /\ Len(log) \in Nat
      BY <2>2, Growing DEF L!Torn, Entries
    <3> QED BY <1>1, <3>1 DEF L!Stop, LogTyped
  <2> QED BY <1>1, <2>1, <2>2 DEF L!Stop
<1>2. CASE L!PowerLoss
  <2>1. log' \in Seq(Entries) /\ Len(log') \in Nat /\ synced' = Len(log')
    BY <1>2, Cutting
  <2> QED BY <1>2, <2>1 DEF L!PowerLoss, LogTyped
<1> QED BY <1>1, <1>2

LEMMA InitKept == ASSUME L!Init PROVE KeptInv
<1>1. log \in Seq(Entries) /\ Len(log) = 0
  BY EmptySeq DEF L!Init
<1> QED BY <1>1 DEF L!Init, KeptInv, LogTyped, OnItsWay

LEMMA AppendKept == ASSUME KeptInv, NEW c \in Commands, L!AppendEvent(c) PROVE KeptInv'
<1>t. LogTyped /\ Len(log) \in Nat
  BY LenProperties DEF KeptInv, LogTyped
<1>1. CASE L!ReadTip(c)
  <2>1. LogTyped'
    BY <1>1, <1>t DEF L!ReadTip, L!files, LogTyped
  <2>2. \A id : Within(synced, id) => Within(synced, id)'
    BY <1>1, <1>t DEF L!ReadTip, L!files, Within, LogTyped
  <2>3. \A id : Within(Len(log), id) => Within(Len(log), id)'
    BY <1>1, <1>t DEF L!ReadTip, L!files, Within
  <2>4. OnItsWay'
    BY <1>1, <1>t, <2>2, <2>3 DEF L!ReadTip, KeptInv, OnItsWay, LogTyped
  <2> QED BY <1>1, <2>1, <2>2, <2>4 DEF L!ReadTip, L!files, KeptInv
<1>2. CASE L!WriteEntry(c)
  <2> DEFINE e == [id |-> entry[c], prev |-> prevHash[c]]
  <2>1. e \in Entries /\ log' = Append(log, e)
    BY <1>2, <1>t DEF L!WriteEntry, LogTyped, Entries
  <2>2. /\ log' \in Seq(Entries) /\ Len(log') = Len(log) + 1
        /\ \A i \in 1 .. Len(log) : log'[i] = log[i]
        /\ log'[Len(log) + 1].id = entry[c]
    <3>1. e.id = entry[c]
      OBVIOUS
    <3> HIDE DEF e
    <3> QED BY <1>t, <2>1, <3>1, Growing
  <2>3. LogTyped'
    BY <1>2, <1>t, <2>2 DEF L!WriteEntry, LogTyped
  <2>4. \A id : Within(synced, id) => Within(synced, id)'
    BY <1>2, <1>t, <2>2 DEF L!WriteEntry, Within, LogTyped
  <2>5. \A id : Within(Len(log), id) => Within(Len(log), id)'
    BY <1>t, <2>2 DEF Within
  <2>6. Within(Len(log), entry[c])'
    BY <1>2, <1>t, <2>2 DEF Within, L!WriteEntry
  <2>7. OnItsWay'
    BY <1>2, <1>t, <2>4, <2>5, <2>6 DEF KeptInv, OnItsWay, L!WriteEntry, LogTyped
  <2> QED BY <1>2, <2>3, <2>4, <2>7 DEF KeptInv, L!WriteEntry, L!history
<1>3. CASE L!SyncLog(c)
  <2>1. LogTyped' /\ UNCHANGED log
    BY <1>3, <1>t DEF L!SyncLog, LogTyped
  <2>2. \A id : Within(Len(log), id) <=> Within(synced, id)'
    BY <1>3 DEF L!SyncLog, Within
  <2>3. \A id : Within(synced, id) => Within(Len(log), id)
    BY <1>t DEF Within, LogTyped
  <2>4. \A id : Within(Len(log), id) => Within(Len(log), id)'
    BY <2>1 DEF Within
  <2>5. OnItsWay'
    BY <1>3, <1>t, <2>2, <2>3, <2>4 DEF L!SyncLog, KeptInv, OnItsWay, LogTyped
  <2> QED BY <1>3, <2>1, <2>2, <2>3, <2>5 DEF L!SyncLog, L!history, KeptInv
<1>4. CASE L!TruncateTip(c)
  BY <1>4, <1>t DEF L!TruncateTip, L!history, KeptInv, LogTyped, OnItsWay, Within
<1>5. CASE L!WriteTip(c)
  <2>1. LogTyped'
    BY <1>5, <1>t DEF L!WriteTip, LogTyped
  <2>2. \A id : Within(synced, id) => Within(synced, id)'
    BY <1>5, <1>t DEF L!WriteTip, Within, LogTyped
  <2>3. \A id : Within(Len(log), id) => Within(Len(log), id)'
    BY <1>5, <1>t DEF L!WriteTip, Within
  <2>4. OnItsWay'
    BY <1>5, <1>t, <2>2, <2>3 DEF L!WriteTip, KeptInv, OnItsWay, LogTyped
  <2>5. Within(synced, entry[c])
    BY <1>5 DEF KeptInv, OnItsWay, L!WriteTip
  <2> QED BY <1>5, <2>1, <2>2, <2>4, <2>5 DEF L!WriteTip, KeptInv
<1> QED BY <1>1, <1>2, <1>3, <1>4, <1>5 DEF L!AppendEvent

LEMMA FaultKept ==
  ASSUME KeptInv, (\E c \in Commands : L!Stop(c)) \/ L!PowerLoss \/ L!AuditVerify PROVE KeptInv'
<1>t. LogTyped /\ Len(log) \in Nat
  BY LenProperties DEF KeptInv, LogTyped
<1>1. ASSUME NEW c \in Commands, L!Stop(c) PROVE KeptInv'
  <2>1. CASE UNCHANGED log
    <3>1. LogTyped'
      BY <1>1, <1>t, FaultTyped
    <3>3. Len(log') = Len(log) /\ synced' = synced
      BY <1>1, <2>1 DEF L!Stop
    <3>4. OnItsWay'
      BY <1>1, <1>t, <2>1, <3>3 DEF L!Stop, KeptInv, OnItsWay, LogTyped, Within
    <3> QED BY <1>1, <2>1, <3>1, <3>3, <3>4 DEF KeptInv, L!Stop, L!history, Within
  <2>2. CASE log' = Append(log, L!Torn)
    <3>1. /\ log' \in Seq(Entries) /\ Len(log') = Len(log) + 1
          /\ \A i \in 1 .. Len(log) : log'[i] = log[i]
      BY <1>t, <2>2, Growing DEF L!Torn, Entries
    <3>2. LogTyped'
      BY <1>1, <1>t, FaultTyped
    <3>3. synced' = synced /\ 1 .. synced \subseteq 1 .. Len(log)
      BY <1>1, <1>t DEF L!Stop, LogTyped
    <3>5. \A id : Within(synced, id) => Within(synced, id)'
      BY <3>1, <3>3 DEF Within
    <3>6. \A id : Within(Len(log), id) => Within(Len(log), id)'
      BY <1>t, <3>1 DEF Within
    <3>4. OnItsWay'
      BY <1>1, <1>t, <3>5, <3>6 DEF L!Stop, KeptInv, OnItsWay, LogTyped
    <3> QED BY <1>1, <3>2, <3>5, <3>4 DEF KeptInv, L!Stop, L!history
  <2> QED BY <1>1, <2>1, <2>2 DEF L!Stop
<1>2. CASE L!PowerLoss
  <2>1. /\ log' \in Seq(Entries) /\ Len(log') \in Nat /\ synced' = Len(log') /\ synced <= Len(log')
        /\ \A i \in 1 .. synced : log'[i] = log[i]
    BY <1>2, <1>t, Cutting
  <2>2. \A id : Within(synced, id) => Within(synced, id)'
    BY <1>t, <2>1 DEF Within, LogTyped
  <2>3. LogTyped'
    BY <1>2, <1>t, FaultTyped
  <2>4. OnItsWay'
    BY <1>2 DEF L!PowerLoss, OnItsWay
  <2> QED BY <1>2, <2>2, <2>3, <2>4 DEF KeptInv, L!PowerLoss, L!history
<1>3. CASE L!AuditVerify
  BY <1>3 DEF L!AuditVerify, L!files, L!command, L!history, KeptInv, LogTyped, OnItsWay, Within
<1> QED BY <1>1, <1>2, <1>3

\* Whatever is killed, fails or loses power, and however commands overlap: an
\* entry whose append returned Ok is among the synced entries of the log, and
\* so is the entry of every tip that the sidecar may be left with.
THEOREM AcknowledgedStays == L!Spec => [](L!AckedIsKept /\ L!TipHasEntry)
<1>1. KeptInv /\ [L!Next]_(L!vars) => KeptInv'
  <2> SUFFICES ASSUME KeptInv, [L!Next]_(L!vars) PROVE KeptInv'
    OBVIOUS
  <2>1. CASE UNCHANGED L!vars
    BY <2>1 DEF L!vars, L!files, L!command, L!history, KeptInv, LogTyped, OnItsWay, Within
  <2> QED BY <2>1, AppendKept, FaultKept DEF L!Next
<1>2. KeptInv => L!AckedIsKept /\ L!TipHasEntry
  BY DEF KeptInv, L!AckedIsKept, L!TipHasEntry, Within
<1> QED BY <1>1, <1>2, InitKept, PTL DEF L!Spec

-----------------------------------------------------------------------------
(* Commands that take turns leave a log that verifies. *)

\* While nothing has failed and no two appends met: whoever reads the tip reads
\* that of the log, and writes the tip of its own entry before the next reads.
InTurn ==
  faults = 0 /\ ~overlapped =>
    /\ L!Intact(log)
    /\ \A c, d \in Commands : pc[c] # "idle" /\ pc[d] # "idle" => c = d
    /\ (\A c \in Commands : pc[c] = "idle") => tip = L!TipOf(log)
    /\ \A c \in Commands :
         /\ pc[c] # "idle" => entry[c] # 0
         /\ pc[c] = "write" => prevHash[c] = L!TipOf(log)
         /\ pc[c] \in {"sync", "truncate", "tip"} => entry[c] = L!TipOf(log)

TurnInv == LogTyped /\ faults \in Nat /\ InTurn

\* An entry made over the tip of an intact log continues it.
LEMMA Continues ==
  ASSUME NEW l \in Seq(Entries), L!Intact(l), NEW e \in Entries, e.id # 0, e.prev = L!TipOf(l)
  PROVE  L!Intact(Append(l, e)) /\ L!TipOf(Append(l, e)) = e.id
<1> DEFINE m == Append(l, e)
<1>1. /\ m \in Seq(Entries) /\ Len(m) = Len(l) + 1 /\ Len(l) \in Nat /\ m # <<>>
      /\ \A i \in 1 .. Len(l) : m[i] = l[i]
      /\ m[Len(l) + 1] = e
  BY AppendProperties, LenProperties
<1>2. L!TipOf(m) = e.id
  <2> HIDE DEF m
  <2> QED BY <1>1 DEF L!TipOf
<1>3. ASSUME NEW i \in 1 .. Len(m) PROVE m[i] # L!Torn /\ L!Linked(m, i)
  <2>1. SubSeq(m, 1, i - 1) = SubSeq(l, 1, i - 1)
    <3> DEFINE a == SubSeq(m, 1, i - 1)
               b == SubSeq(l, 1, i - 1)
    <3>1. i - 1 \in 0 .. Len(l)
      BY <1>1
    <3>2. a \in Seq(Entries) /\ Len(a) = i - 1 /\ \A k \in 1 .. i - 1 : a[k] = m[k]
      BY <1>1, <3>1, SubSeqProperties
    <3>3. b \in Seq(Entries) /\ Len(b) = i - 1 /\ \A k \in 1 .. i - 1 : b[k] = l[k]
      BY <1>1, <3>1, SubSeqProperties
    <3> HIDE DEF a, b, m
    <3>4. \A k \in 1 .. i - 1 : a[k] = b[k]
      <4>1. 1 .. i - 1 \subseteq 1 .. Len(l)
        BY <1>1, <3>1
      <4> QED BY <1>1, <3>2, <3>3, <4>1
    <3>5. a = b
      BY <3>2, <3>3, <3>4, SeqEqual
    <3> QED BY <3>5 DEF a, b
  <2>2. CASE i \in 1 .. Len(l)
    <3>1. l[i] # L!Torn /\ l[i].prev = L!TipOf(SubSeq(l, 1, i - 1)) /\ m[i] = l[i]
      BY <1>1, <2>2 DEF L!Intact, L!Linked
    <3> HIDE DEF m
    <3> QED BY <2>1, <3>1 DEF L!Linked
  <2>3. CASE i = Len(l) + 1
    <3>1. SubSeq(l, 1, i - 1) = l
      <4>1. i - 1 = Len(l)
        BY <1>1, <2>3
      <4> QED BY <4>1, SubSeqFull
    <3>2. m[i] = e
      BY <1>1, <2>3
    <3>3. e # L!Torn
      BY DEF L!Torn
    <3> HIDE DEF m
    <3> QED BY <2>1, <3>1, <3>2, <3>3 DEF L!Linked
  <2> QED BY <1>1, <2>2, <2>3
<1>4. L!Intact(m)
  BY <1>3 DEF L!Intact
<1> QED BY <1>2, <1>4

LEMMA InitTurn == ASSUME L!Init PROVE TurnInv
<1>1. log \in Seq(Entries) /\ Len(log) = 0
  BY EmptySeq DEF L!Init
<1>2. L!Intact(log) /\ tip = L!TipOf(log)
  BY <1>1 DEF L!Init, L!Intact, L!TipOf
<1> QED BY <1>1, <1>2 DEF L!Init, TurnInv, LogTyped, InTurn

LEMMA AppendTurn == ASSUME TurnInv, NEW c \in Commands, L!AppendEvent(c) PROVE TurnInv'
<1>t. LogTyped /\ Len(log) \in Nat
  BY LenProperties DEF TurnInv, LogTyped
<1>f. faults' = faults /\ (overlapped => overlapped')
  <2>1. faults' = faults
    BY DEF L!AppendEvent, L!ReadTip, L!WriteEntry, L!SyncLog, L!TruncateTip, L!WriteTip
  <2>2. CASE L!ReadTip(c)
    BY <2>1, <2>2, Zenon DEF L!ReadTip
  <2>3. CASE ~L!ReadTip(c)
    BY <2>1, <2>3 DEF L!AppendEvent, L!WriteEntry, L!SyncLog, L!TruncateTip, L!WriteTip, L!history
  <2> QED BY <2>2, <2>3
<1> SUFFICES LogTyped' /\ (faults = 0 /\ ~overlapped' => InTurn')
  BY <1>f DEF TurnInv, InTurn
<1>1. CASE L!ReadTip(c)
  <2>1. LogTyped'
    BY <1>1, <1>t DEF L!ReadTip, L!files, LogTyped
  <2>2. ASSUME faults = 0, ~overlapped' PROVE InTurn'
    <3>1. ~overlapped /\ \A d \in Commands : pc[d] = "idle"
      BY <1>1, <2>2 DEF L!ReadTip
    <3>2. L!Intact(log) /\ tip = L!TipOf(log) /\ log' = log
      BY <1>1, <2>2, <3>1 DEF TurnInv, InTurn, L!ReadTip, L!files
    <3>3. /\ \A d \in Commands \ {c} : pc'[d] = "idle"
          /\ pc'[c] = "write" /\ prevHash'[c] = tip /\ entry'[c] = built + 1 /\ built \in Nat
      BY <1>1, <1>t, <3>1 DEF L!ReadTip, LogTyped
    <3> QED BY <3>2, <3>3 DEF InTurn
  <2> QED BY <2>1, <2>2
<1>2. CASE L!WriteEntry(c)
  <2> DEFINE e == [id |-> entry[c], prev |-> prevHash[c]]
  <2>1. e \in Entries /\ log' = Append(log, e) /\ e.id = entry[c] /\ e.prev = prevHash[c]
    BY <1>2, <1>t DEF L!WriteEntry, LogTyped, Entries
  <2> HIDE DEF e
  <2>2. log' \in Seq(Entries) /\ Len(log') = Len(log) + 1
    BY <1>t, <2>1, Growing
  <2>3. LogTyped'
    BY <1>2, <1>t, <2>2 DEF L!WriteEntry, LogTyped
  <2>4. ASSUME faults = 0, ~overlapped' PROVE InTurn'
    <3>1. InTurn /\ ~overlapped /\ pc[c] = "write"
      BY <1>2, <2>4 DEF TurnInv, L!WriteEntry, L!history
    <3>2. L!Intact(log) /\ entry[c] # 0 /\ prevHash[c] = L!TipOf(log)
      BY <2>4, <3>1 DEF InTurn
    <3>3. L!Intact(log') /\ L!TipOf(log') = entry[c]
      BY <1>t, <2>1, <3>2, Continues DEF LogTyped
    <3>4. \A d \in Commands \ {c} : pc'[d] = "idle"
      BY <1>2, <1>t, <2>4, <3>1 DEF InTurn, L!WriteEntry, LogTyped
    <3>5. pc'[c] = "sync" /\ entry' = entry
      BY <1>2, <1>t DEF L!WriteEntry, LogTyped
    <3> QED BY <3>2, <3>3, <3>4, <3>5 DEF InTurn
  <2> QED BY <2>3, <2>4
<1>3. CASE L!SyncLog(c) \/ L!TruncateTip(c)
  <2>1. LogTyped' /\ log' = log /\ entry' = entry /\ overlapped' = overlapped
    <3>1. CASE L!SyncLog(c)
      BY <1>t, <3>1 DEF L!SyncLog, LogTyped, L!history
    <3>2. CASE L!TruncateTip(c)
      BY <1>t, <3>2 DEF L!TruncateTip, LogTyped, L!history
    <3> QED BY <1>3, <3>1, <3>2
  <2>2. ASSUME faults = 0, ~overlapped' PROVE InTurn'
    <3>1. InTurn /\ ~overlapped /\ pc[c] \in {"sync", "truncate"}
      BY <1>3, <2>1, <2>2 DEF TurnInv, L!SyncLog, L!TruncateTip
    <3>2. L!Intact(log) /\ entry[c] # 0 /\ entry[c] = L!TipOf(log)
      BY <2>2, <3>1 DEF InTurn
    <3>3. pc'[c] \in {"truncate", "tip"} /\ \A d \in Commands \ {c} : pc'[d] = "idle"
      BY <1>3, <1>t, <2>2, <3>1 DEF InTurn, L!SyncLog, L!TruncateTip, LogTyped
    <3> QED BY <2>1, <3>2, <3>3 DEF InTurn
  <2> QED BY <2>1, <2>2
<1>4. CASE L!WriteTip(c)
  <2>1. LogTyped' /\ log' = log /\ entry' = entry /\ overlapped' = overlapped
    BY <1>4, <1>t DEF L!WriteTip, LogTyped
  <2>2. ASSUME faults = 0, ~overlapped' PROVE InTurn'
    <3>1. InTurn /\ ~overlapped /\ pc[c] = "tip" /\ tip' = entry[c]
      BY <1>4, <2>1, <2>2 DEF TurnInv, L!WriteTip
    <3>2. L!Intact(log) /\ entry[c] = L!TipOf(log)
      BY <2>2, <3>1 DEF InTurn
    <3>3. \A d \in Commands : pc'[d] = "idle"
      BY <1>4, <1>t, <2>2, <3>1 DEF InTurn, L!WriteTip, LogTyped
    <3> QED BY <2>1, <3>1, <3>2, <3>3 DEF InTurn
  <2> QED BY <2>1, <2>2
<1> QED BY <1>1, <1>2, <1>3, <1>4 DEF L!AppendEvent

\* Commands that take turns and are not interrupted leave a log that verifies,
\* at every moment of an append.
THEOREM TurnsChain == L!Spec => []L!ChainHolds
<1>1. TurnInv /\ [L!Next]_(L!vars) => TurnInv'
  <2> SUFFICES ASSUME TurnInv, [L!Next]_(L!vars) PROVE TurnInv'
    OBVIOUS
  <2>1. CASE UNCHANGED L!vars
    BY <2>1 DEF L!vars, L!files, L!command, L!history, TurnInv, LogTyped, InTurn, L!Intact,
                L!Linked, L!TipOf
  <2>2. CASE L!AuditVerify
    BY <2>2 DEF L!AuditVerify, L!files, L!command, L!history, TurnInv, LogTyped, InTurn,
                L!Intact, L!Linked, L!TipOf
  <2>3. ASSUME (\E c \in Commands : L!Stop(c)) \/ L!PowerLoss PROVE TurnInv'
    <3>1. faults' = faults + 1 /\ faults \in Nat
      BY <2>3 DEF L!Stop, L!PowerLoss, L!Fault, TurnInv
    <3>2. LogTyped'
      BY <2>3, FaultTyped DEF TurnInv
    <3> QED BY <3>1, <3>2 DEF TurnInv, InTurn
  <2> QED BY <2>1, <2>2, <2>3, AppendTurn DEF L!Next
<1>2. TurnInv => L!ChainHolds
  BY DEF TurnInv, InTurn, L!ChainHolds
<1> QED BY <1>1, <1>2, InitTurn, PTL DEF L!Spec
-----------------------------------------------------------------------------
(* What verify_log notices. *)

\* The tip of the entries before the i-th.
Before(l, i) == IF i = 1 THEN 0 ELSE l[i - 1].id

Follows(l, i) == l[i] # L!Torn /\ l[i].prev = Before(l, i)

\* Every entry was drawn after the one it names.
Dated(l) == \A i \in 1 .. Len(l) : l[i] = L!Torn \/ l[i].prev < l[i].id

\* As far as the chain holds, it rises: the links are of neighbours, so that entries
\* far apart are told from each other is a fact of its own.
Rising(l) ==
  \A j \in 1 .. Len(l) :
    (\A i \in 1 .. j : Follows(l, i)) => \A i \in 1 .. j - 1 : l[i].id < l[j].id

LEMMA LinkedIsFollows ==
  ASSUME NEW l \in Seq(Entries) PROVE L!Intact(l) <=> \A i \in 1 .. Len(l) : Follows(l, i)
<1>1. ASSUME NEW i \in 1 .. Len(l) PROVE L!TipOf(SubSeq(l, 1, i - 1)) = Before(l, i)
  <2> DEFINE a == SubSeq(l, 1, i - 1)
  <2>1. Len(l) \in Nat
    BY LenProperties
  <2>2. a \in Seq(Entries) /\ Len(a) = i - 1 /\ \A k \in 1 .. i - 1 : a[k] = l[k]
    <3>1. \A k \in 1 .. i - 1 : l[k] \in Entries
      BY <2>1, ElementOfSeq
    <3> QED BY <2>1, <3>1, SubSeqProperties
  <2> SUFFICES L!TipOf(a) = Before(l, i)
    OBVIOUS
  <2> HIDE DEF a
  <2>3. CASE i = 1
    BY <2>2, <2>3, EmptySeq DEF L!TipOf, Before
  <2>4. CASE i # 1
    <3>1. i - 1 \in 1 .. i - 1 /\ a # <<>>
      BY <2>1, <2>2, <2>4
    <3> QED BY <2>2, <2>4, <3>1 DEF L!TipOf, Before
  <2> QED BY <2>3, <2>4
<1> QED BY <1>1 DEF L!Intact, L!Linked, Follows

\* An entry at the end, or bytes that are none, and a cut at any place.
LEMMA AppendRises ==
  ASSUME NEW l \in Seq(Entries), Dated(l), Rising(l),
         NEW e \in Entries, e = L!Torn \/ e.prev < e.id
  PROVE  Dated(Append(l, e)) /\ Rising(Append(l, e))
<1> DEFINE m == Append(l, e)
<1>1. /\ Len(l) \in Nat /\ Len(m) = Len(l) + 1 /\ \A i \in 1 .. Len(l) : m[i] = l[i]
      /\ m[Len(l) + 1] = e
  BY AppendProperties, LenProperties
<1>2. \A i \in 1 .. Len(l) : l[i] \in Entries
  BY ElementOfSeq
<1> HIDE DEF m
<1>3. Dated(m)
  BY <1>1 DEF Dated
<1>4. \A i \in 1 .. Len(l) : Follows(m, i) <=> Follows(l, i)
  BY <1>1 DEF Follows, Before
<1>5. ASSUME NEW j \in 1 .. Len(m), \A i \in 1 .. j : Follows(m, i), NEW k \in 1 .. j - 1
      PROVE  m[k].id < m[j].id
  <2>1. CASE j <= Len(l)
    <3>1. j \in 1 .. Len(l) /\ k \in 1 .. Len(l) /\ \A i \in 1 .. j : Follows(l, i)
      BY <1>1, <1>4, <1>5, <2>1
    <3> QED BY <1>1, <3>1 DEF Rising
  <2>2. CASE j = Len(l) + 1
    <3>1. Len(l) \in 1 .. Len(l) /\ k \in 1 .. Len(l) /\ \A i \in 1 .. Len(l) : Follows(l, i)
      BY <1>1, <1>4, <1>5, <2>2
    <3>2. m[j] = e /\ e # L!Torn /\ e.prev = l[Len(l)].id
      BY <1>1, <1>5, <2>2, <3>1 DEF Follows, Before
    <3>3. k # Len(l) => l[k].id < l[Len(l)].id
      BY <1>1, <3>1 DEF Rising
    <3>4. m[k] = l[k] /\ {l[k].id, l[Len(l)].id, e.id} \subseteq Nat
      BY <1>1, <1>2, <3>1 DEF Entries
    <3> QED BY <3>2, <3>3, <3>4
  <2> QED BY <1>1, <2>1, <2>2
<1>6. Rising(m)
  BY <1>5 DEF Rising
<1> QED BY <1>3, <1>6 DEF m

LEMMA CutRises ==
  ASSUME NEW l \in Seq(Entries), Dated(l), Rising(l), NEW keep \in 0 .. Len(l)
  PROVE  LET cut == SubSeq(l, 1, keep)
         IN  cut \in Seq(Entries) /\ Dated(cut) /\ Rising(cut)
<1> DEFINE cut == SubSeq(l, 1, keep)
<1>1. Len(l) \in Nat /\ \A i \in 1 .. keep : l[i] \in Entries
  BY LenProperties, ElementOfSeq
<1>2. cut \in Seq(Entries) /\ Len(cut) = keep /\ \A i \in 1 .. keep : cut[i] = l[i]
  <2>1. Len(cut) = IF 1 <= keep THEN keep - 1 + 1 ELSE 0
    BY <1>1, SubSeqProperties
  <2>2. cut \in Seq(Entries) /\ \A i \in 1 .. keep - 1 + 1 : cut[i] = l[1 + i - 1]
    BY <1>1, SubSeqProperties
  <2> HIDE DEF cut
  <2> QED BY <1>1, <2>1, <2>2
<1> HIDE DEF cut
<1>3. Dated(cut)
  BY <1>1, <1>2 DEF Dated
<1>4. \A i \in 1 .. keep : Follows(cut, i) <=> Follows(l, i)
  BY <1>1, <1>2 DEF Follows, Before
<1>5. Rising(cut)
  <2> SUFFICES ASSUME NEW j \in 1 .. keep, \A i \in 1 .. j : Follows(cut, i), NEW k \in 1 .. j - 1
               PROVE  cut[k].id < cut[j].id
    BY <1>2 DEF Rising
  <2>1. j \in 1 .. Len(l) /\ k \in 1 .. keep /\ \A i \in 1 .. j : Follows(l, i)
    BY <1>1, <1>4
  <2> QED BY <1>2, <2>1 DEF Rising
<1> QED BY <1>2, <1>3, <1>5 DEF cut

\* The tip a command reads is one that was drawn before its own entry.
Drawn ==
  /\ tipPast \subseteq 0 .. built
  /\ \A c \in Commands : entry[c] <= built /\ (pc[c] = "write" => prevHash[c] < entry[c])

RiseInv == LogTyped /\ Drawn /\ Dated(log) /\ Rising(log)

LEMMA RiseStep == ASSUME RiseInv, [L!Next]_(L!vars) PROVE RiseInv'
<1>t. LogTyped /\ Drawn /\ log \in Seq(Entries) /\ Len(log) \in Nat
  BY LenProperties DEF RiseInv, LogTyped
<1>1. ASSUME UNCHANGED log PROVE Dated(log') /\ Rising(log')
  BY <1>1 DEF RiseInv
<1>2. ASSUME NEW c \in Commands, L!ReadTip(c) PROVE RiseInv'
  BY <1>1, <1>2, <1>t DEF L!ReadTip, L!files, RiseInv, LogTyped, Drawn
<1>3. ASSUME NEW c \in Commands, L!WriteEntry(c) PROVE RiseInv'
  <2> DEFINE e == [id |-> entry[c], prev |-> prevHash[c]]
  <2>1. e \in Entries /\ log' = Append(log, e) /\ e.prev < e.id
    BY <1>3, <1>t DEF L!WriteEntry, LogTyped, Entries, Drawn
  <2> HIDE DEF e
  <2>2. Dated(log') /\ Rising(log') /\ log' \in Seq(Entries) /\ Len(log') = Len(log) + 1
    BY <1>t, <2>1, AppendRises, Growing DEF RiseInv
  <2> QED BY <1>3, <1>t, <2>2 DEF L!WriteEntry, RiseInv, LogTyped, Drawn
<1>4. ASSUME NEW c \in Commands, L!SyncLog(c) \/ L!TruncateTip(c) \/ L!WriteTip(c) PROVE RiseInv'
  <2>1. CASE L!SyncLog(c)
    BY <1>1, <1>t, <2>1 DEF L!SyncLog, RiseInv, LogTyped, Drawn
  <2>2. CASE L!TruncateTip(c)
    BY <1>1, <1>t, <2>2 DEF L!TruncateTip, RiseInv, LogTyped, Drawn
  <2>3. CASE L!WriteTip(c)
    <3>1. entry[c] \in 0 .. built
      BY <1>t DEF LogTyped, Drawn
    <3>2. LogTyped'
      BY <1>t, <2>3, <3>1 DEF L!WriteTip, LogTyped
    <3>3. Drawn'
      BY <1>t, <2>3, <3>1 DEF L!WriteTip, LogTyped, Drawn
    <3> QED BY <1>1, <2>3, <3>2, <3>3 DEF L!WriteTip, RiseInv
  <2> QED BY <1>4, <2>1, <2>2, <2>3
<1>5. ASSUME NEW c \in Commands, L!Stop(c) PROVE RiseInv'
  <2>1. LogTyped'
    BY <1>5, <1>t, FaultTyped
  <2>2. Drawn'
    BY <1>5, <1>t DEF L!Stop, Drawn, LogTyped
  <2>3. L!Torn \in Entries
    BY DEF L!Torn, Entries
  <2>4. UNCHANGED log \/ log' = Append(log, L!Torn)
    BY <1>5 DEF L!Stop
  <2>5. Dated(log') /\ Rising(log')
    BY <1>1, <1>t, <2>3, <2>4, AppendRises DEF RiseInv
  <2> QED BY <2>1, <2>2, <2>5 DEF RiseInv
<1>6. CASE L!PowerLoss
  <2>1. LogTyped'
    BY <1>6, <1>t, FaultTyped
  <2>2. Drawn'
    BY <1>6, <1>t DEF L!PowerLoss, Drawn, LogTyped
  <2>3. PICK keep \in synced .. Len(log) :
          log' = SubSeq(log, 1, keep) \/ log' = Append(SubSeq(log, 1, keep), L!Torn)
    BY <1>6 DEF L!PowerLoss
  <2>4. keep \in 0 .. Len(log) /\ L!Torn \in Entries
    BY <1>t DEF LogTyped, L!Torn, Entries
  <2> DEFINE cut == SubSeq(log, 1, keep)
  <2>5. cut \in Seq(Entries) /\ Dated(cut) /\ Rising(cut)
    BY <1>t, <2>4, CutRises DEF RiseInv
  <2> HIDE DEF cut
  <2>6. Dated(Append(cut, L!Torn)) /\ Rising(Append(cut, L!Torn))
    BY <2>4, <2>5, AppendRises
  <2>7. Dated(log') /\ Rising(log')
    BY <2>3, <2>5, <2>6 DEF cut
  <2> QED BY <2>1, <2>2, <2>7 DEF RiseInv
<1>7. CASE L!AuditVerify
  BY <1>1, <1>7, <1>t DEF L!AuditVerify, L!files, L!command, RiseInv, LogTyped, Drawn
<1>8. CASE UNCHANGED L!vars
  BY <1>1, <1>8, <1>t DEF L!vars, L!files, L!command, RiseInv, LogTyped, Drawn
<1> QED BY <1>2, <1>3, <1>4, <1>5, <1>6, <1>7, <1>8 DEF L!Next, L!AppendEvent

\* Without the i-th entry, the next one stands where the i-th stood and names it.
LEMMA RemovedIsSeen ==
  ASSUME NEW l \in Seq(Entries), Dated(l), L!Intact(l), NEW i \in 1 .. Len(l) - 1
  PROVE  ~L!Intact(L!RemoveAt(l, i))
<1>1. Len(l) \in Nat /\ \A k \in 1 .. Len(l) : l[k] \in Entries /\ Follows(l, k)
  BY LenProperties, ElementOfSeq, LinkedIsFollows
<1> DEFINE a == SubSeq(l, 1, i - 1)
           b == SubSeq(l, i + 1, Len(l))
           m == L!RemoveAt(l, i)
<1>2. a \in Seq(Entries) /\ Len(a) = i - 1 /\ \A k \in 1 .. i - 1 : a[k] = l[k]
  <2>1. \A k \in 1 .. i - 1 : l[k] \in Entries
    BY <1>1
  <2>2. /\ a \in Seq(Entries)
        /\ Len(a) = IF 1 <= i - 1 THEN i - 1 - 1 + 1 ELSE 0
        /\ \A k \in 1 .. i - 1 - 1 + 1 : a[k] = l[1 + k - 1]
    BY <1>1, <2>1, SubSeqProperties
  <2> HIDE DEF a
  <2> QED BY <1>1, <2>2
<1>3. b \in Seq(Entries) /\ Len(b) = Len(l) - i /\ b[1] = l[i + 1]
  <2>1. \A k \in i + 1 .. Len(l) : l[k] \in Entries
    BY <1>1
  <2>2. /\ b \in Seq(Entries)
        /\ Len(b) = IF i + 1 <= Len(l) THEN Len(l) - (i + 1) + 1 ELSE 0
        /\ \A k \in 1 .. Len(l) - (i + 1) + 1 : b[k] = l[i + 1 + k - 1]
    BY <1>1, <2>1, SubSeqProperties
  <2> HIDE DEF b
  <2>3. 1 \in 1 .. Len(l) - (i + 1) + 1
    BY <1>1
  <2> QED BY <1>1, <2>2, <2>3
<1>4. m = a \o b
  BY DEF L!RemoveAt
<1> HIDE DEF a, b, m
<1>5. /\ m \in Seq(Entries) /\ Len(m) = Len(l) - 1 /\ m[i] = l[i + 1]
      /\ \A k \in 1 .. i - 1 : m[k] = l[k]
  <2>1. /\ m \in Seq(Entries) /\ Len(m) = Len(a) + Len(b)
        /\ \A k \in 1 .. Len(a) + Len(b) : m[k] = IF k <= Len(a) THEN a[k] ELSE b[k - Len(a)]
    BY <1>2, <1>3, <1>4, ConcatProperties
  <2>2. Len(a) + Len(b) = Len(l) - 1 /\ i \in 1 .. Len(l) - 1 /\ ~(i <= Len(a)) /\ i - Len(a) = 1
    BY <1>1, <1>2, <1>3
  <2>3. m[i] = b[1]
    BY <2>1, <2>2
  <2>4. ASSUME NEW k \in 1 .. i - 1 PROVE m[k] = a[k]
    <3>1. k \in 1 .. Len(a) + Len(b) /\ k <= Len(a)
      BY <1>2, <2>2
    <3> QED BY <2>1, <3>1
  <2> QED BY <1>2, <1>3, <2>1, <2>2, <2>3, <2>4
<1>6. Before(m, i) = Before(l, i) /\ Before(l, i + 1) = l[i].id
  <2>1. i \in Nat /\ i + 1 # 1 /\ (i + 1) - 1 = i /\ (i # 1 => i - 1 \in 1 .. i - 1)
    BY <1>1
  <2> QED BY <1>5, <2>1 DEF Before
<1>7. l[i].prev < l[i].id /\ l[i].prev = Before(l, i) /\ l[i + 1].prev = l[i].id
  BY <1>1, <1>6 DEF Dated, Follows
<1>8. ~Follows(m, i)
  <2>1. l[i] \in Entries
    BY <1>1
  <2>2. l[i].prev \in Nat /\ l[i].id \in Nat
    BY <2>1 DEF Entries
  <2>3. l[i].prev # l[i].id
    BY <1>7, <2>2
  <2> QED BY <1>5, <1>6, <1>7, <2>3 DEF Follows
<1>9. ~L!Intact(m)
  BY <1>1, <1>5, <1>8, LinkedIsFollows
<1> QED BY <1>9 DEF m

LEMMA SwappedIs ==
  \A l, i, j : L!Swapped(l, i, j) = [[l EXCEPT ![i] = l[j]] EXCEPT ![j] = l[i]]
BY DEF L!Swapped

\* The later of two entries, in the place of the earlier, names one that is behind it.
LEMMA SwapIsSeen ==
  ASSUME NEW l \in Seq(Entries), Dated(l), Rising(l), L!Intact(l),
         NEW i \in 1 .. Len(l) - 1, NEW j \in i + 1 .. Len(l)
  PROVE  ~L!Intact(L!Swapped(l, i, j))
<1>1. Len(l) \in Nat /\ \A k \in 1 .. Len(l) : l[k] \in Entries /\ Follows(l, k)
  BY LenProperties, ElementOfSeq, LinkedIsFollows
<1> DEFINE n == [l EXCEPT ![i] = l[j]]
           m == L!Swapped(l, i, j)
<1>s. m = [n EXCEPT ![j] = l[i]]
  BY SwappedIs
<1> HIDE DEF m
<1>2. i \in 1 .. Len(l) /\ j \in 1 .. Len(l) /\ j - 1 \in 1 .. Len(l) /\ i # j
  BY <1>1
<1>3. n \in Seq(Entries) /\ Len(n) = Len(l) /\ \A k \in 1 .. Len(l) : n[k] = IF k = i THEN l[j] ELSE l[k]
  BY <1>1, <1>2, ExceptSeq
<1> HIDE DEF n
<1>4. m \in Seq(Entries) /\ Len(m) = Len(l) /\ \A k \in 1 .. Len(l) : m[k] = IF k = j THEN l[i] ELSE n[k]
  BY <1>s, <1>1, <1>2, <1>3, ExceptSeq
<1>6. m[i] = l[j] /\ \A k \in 1 .. i - 1 : m[k] = l[k]
  <2>1. m[i] = n[i] /\ n[i] = l[j]
    BY <1>2, <1>3, <1>4
  <2>2. ASSUME NEW k \in 1 .. i - 1 PROVE m[k] = l[k]
    <3>1. k \in 1 .. Len(l) /\ k # i /\ k # j
      BY <1>1, <1>2
    <3> QED BY <3>1, <1>3, <1>4
  <2> QED BY <2>1, <2>2
<1>7. Before(m, i) = Before(l, i)
  BY <1>1, <1>6 DEF Before
<1>8. l[i].prev = Before(l, i) /\ l[i].prev < l[i].id /\ l[j].prev = l[j - 1].id
  BY <1>1, <1>2 DEF Follows, Dated, Before
<1>9. l[i].id <= l[j - 1].id
  <2>1. \A k \in 1 .. j - 1 : Follows(l, k)
    BY <1>1, <1>2
  <2>2. i # j - 1 => i \in 1 .. (j - 1) - 1
    BY <1>1, <1>2
  <2>3. {l[i].id, l[j - 1].id} \subseteq Nat
    BY <1>1, <1>2 DEF Entries
  <2>4. i # j - 1 => l[i].id < l[j - 1].id
    BY <1>2, <2>1, <2>2 DEF Rising
  <2> QED BY <2>3, <2>4
<1>10. ~Follows(m, i)
  <2>1. {l[i].prev, l[i].id, l[j - 1].id} \subseteq Nat
    BY <1>1, <1>2 DEF Entries
  <2> QED BY <1>6, <1>7, <1>8, <1>9, <2>1 DEF Follows
<1>11. ~L!Intact(m)
  BY <1>1, <1>2, <1>4, <1>10, LinkedIsFollows
<1> QED BY <1>11 DEF m

\* Whatever the commands did, however they overlapped and whatever was cut off: if the
\* log verifies, then it no longer does without an entry that has another behind it, nor
\* with two entries swapped.
THEOREM LossIsNoticed == L!Spec => []L!DeletionDetected
<1>1. L!Init => RiseInv
  <2> SUFFICES ASSUME L!Init PROVE RiseInv
    OBVIOUS
  <2>1. log \in Seq(Entries) /\ Len(log) = 0
    BY EmptySeq DEF L!Init
  <2> QED BY <2>1 DEF L!Init, RiseInv, LogTyped, Drawn, Dated, Rising
<1>2. RiseInv /\ [L!Next]_(L!vars) => RiseInv'
  BY RiseStep
<1>3. RiseInv => L!DeletionDetected
  BY RemovedIsSeen, SwapIsSeen DEF RiseInv, LogTyped, L!DeletionDetected
<1> QED BY <1>1, <1>2, <1>3, PTL DEF L!Spec
=============================================================================
