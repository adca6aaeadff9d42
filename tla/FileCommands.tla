----------------------------- MODULE FileCommands -----------------------------
(* The commands encrypt, decrypt and check on the files of one directory: the  *)
(* checks made before, the temporary file and its rename, the parity sidecar,  *)
(* the audit record, and what a source edited, a container replaced, a disk    *)
(* that rots and a process that dies do in between.  Two processes may run.    *)
(* What makes a container open, and for whom, is in Containers; here it is     *)
(* what was read, the size declared for it, and whether it is still intact.    *)
EXTENDS Integers, Sequences, FiniteSets, TLC

CONSTANTS
    Procs, None,
    Single,         \* files the commands are run on
    Others,         \* more files of the directory, taken by --recursive alone
    Half,           \* a file whose writer has not finished
    Lengths,        \* lengths a source may have
    Chunk,          \* bytes in a chunk
    EncryptOptions, \* the sets of options used in a run
    DecryptOptions,
    BareNames,      \* outputs are named without a directory
    MaxCommands,    \* bound: commands started
    MaxFaults       \* bound: edits, rot, and processes killed

ASSUME LengthsAssumption ==
    Lengths \subseteq Nat /\ Chunk \in Nat \ {0} /\ MaxCommands \in Nat /\ MaxFaults \in Nat

VARIABLES
    disk,           \* what is at each path
    job,            \* what each process is doing
    seals,          \* containers sealed so far
    started, faults

vars == <<disk, job, seals, started, faults>>

Files == Single \cup Others
Src(f) == <<f, "src">>
Pqf(f) == <<f, "pqf">>
Fec(f) == <<f, "fec">>
Out(f) == <<f, "out">>
MutTmp(p, target) == target
Tmp(p, target) == <<p, "tmp">>
Paths == (Files \X {"src", "pqf", "fec", "out"}) \cup (Procs \X {"tmp"})

Idle    == [pc |-> "idle"]
\* A command that ended before it touched anything.
Ended(how) == [pc |-> how, do |-> "none"]
Least(a, b) == IF a < b THEN a ELSE b
CeilDiv(a, b) == (a + b - 1) \div b
\* The first n bytes of a source.
Bytes(f, n) == [i \in 1 .. n |-> <<f, i>>]
Zeros(n)    == [i \in 1 .. n |-> 0]
Put(path, what) == disk' = [disk EXCEPT ![path] = what]
Go(p, j) == job' = [job EXCEPT ![p] = j]
Is(p, pc, do) == job[p].pc = pc /\ job[p].do = do

(***************************************************************************)
(* Padding.                                                                *)
(***************************************************************************)
Log2(n) == CHOOSE e \in 0 .. n : 2 ^ e <= n /\ n < 2 ^ (e + 1)
\* Rounds up in the low bits a length of its size may lose.
PadmeLength(n) ==
    IF n < 2 THEN n
    ELSE LET mask == 2 ^ (Log2(n) - (Log2(Log2(n)) + 1)) IN CeilDiv(n, mask) * mask
ASSUME PaddingAssumption == \A n \in Lengths : PadmeLength(n) \in Nat
\* The padding is counted from the length announced, not from the one read.
PadmeReader(text, size) == Zeros(PadmeLength(size) - size)
MutTruncatingWriter(text, limit) == text
TruncatingWriter(text, limit) ==
    IF limit = 0 THEN text ELSE SubSeq(text, 1, Least(limit, Len(text)))

(***************************************************************************)
(* Containers, and the parity of one.                                      *)
(***************************************************************************)
Sealed(id, how, text, zeros, size) ==
    [id |-> id, how |-> how, text |-> text, zeros |-> zeros, size |-> size, rot |-> "none"]
Plain(c)  == c.text \o c.zeros
Whole(c)  == c # None /\ c # Half
Refused   == [ok |-> FALSE, text |-> <<>>]

\* What the decryptors give: the decompressor stops at the declared size, and
\* stealth strips the padding itself.
OpenContainer(c) ==
    IF c.rot # "none" \/ (c.how = "compress" /\ c.size > 0 /\ Len(c.text) > c.size) THEN Refused
    ELSE [ok |-> TRUE,
          text |-> IF c.how = "stealth" THEN TruncatingWriter(Plain(c), c.size) ELSE Plain(c)]

\* Rot in the header shows another size; what cannot be read counts as 0.
RottenSize == 1
PeekOriginalSize(c) ==
    IF ~Whole(c) \/ c.how = "stealth" THEN 0
    ELSE IF c.rot = "size" THEN RottenSize ELSE c.size

Parity(c) == [of |-> c.id, rot |-> c.rot]
\* Parity of these bytes repairs a few bad ones.  Parity of others finds too
\* many, or corrects towards something that does not authenticate.
FecRepair(c, parity) ==
    IF parity = None THEN {c}
    ELSE IF parity = [of |-> c.id, rot |-> "none"]
         THEN {IF c.rot = "heavy" THEN c ELSE [c EXCEPT !.rot = "none"]}
         ELSE {c, [c EXCEPT !.rot = "heavy"]}

(***************************************************************************)
(* What the commands share.                                                *)
(***************************************************************************)
OverwriteAllowed(path, opts) == opts.force \/ disk[path] = None

Start(p, j) ==
    /\ job[p].pc \in {"idle", "ok", "failed"} /\ started < MaxCommands
    /\ Go(p, j) /\ started' = started + 1
    /\ UNCHANGED <<seals, faults>>

Failing(j)  == [j EXCEPT !.pc = "failed"]
\* Dropping the writer removes its temporary file.
Fail(p) ==
    /\ job[p].pc \in {"write", "commit"} /\ job[p].do # "resume"
    /\ IF job[p].more = <<>>
       THEN Go(p, Failing(job[p])) ELSE Go(p, [job[p] EXCEPT !.pc = "next", !.bad = TRUE])
    /\ Put(Tmp(p, job[p].to), None)
    /\ UNCHANGED <<seals, started, faults>>

\* Flushed, synced and renamed.  The directory is opened to sync it, and for a
\* name without one that fails: after the rename.
Commit(p) ==
    /\ job[p].pc = "commit"
    /\ LET to == job[p].to tmp == Tmp(p, to) IN
       disk' = [disk EXCEPT ![to] = disk[tmp], ![tmp] = IF tmp = to THEN @ ELSE None]
    /\ Go(p, [job[p] EXCEPT !.pc = IF BareNames THEN "failed" ELSE "fec"])
    /\ UNCHANGED <<seals, started, faults>>

\* Without a sidecar to write the file goes to the log.
NoSidecar(p) ==
    /\ job[p].pc = "fec" /\ ~(job[p].do = "encrypt" /\ job[p].opts.fec)
    /\ Go(p, [job[p] EXCEPT !.pc = "log"])
    /\ UNCHANGED <<disk, seals, started, faults>>
\* The parity is computed from the file as it is read back, and written over
\* the sidecar that was there.
WriteFecSidecar(p) ==
    /\ Is(p, "fec", "encrypt") /\ job[p].opts.fec
    /\ IF Whole(disk[Pqf(job[p].f)])
       THEN /\ Put(Fec(job[p].f), Half)
            /\ Go(p, [job[p] EXCEPT !.pc = "parity", !.parity = Parity(disk[Pqf(job[p].f)])])
       ELSE Go(p, Failing(job[p])) /\ UNCHANGED disk
    /\ UNCHANGED <<seals, started, faults>>
FinishSidecar(p) ==
    /\ job[p].pc = "parity"
    /\ Put(Fec(job[p].f), job[p].parity)
    /\ Go(p, [job[p] EXCEPT !.pc = "log"])
    /\ UNCHANGED <<seals, started, faults>>

\* The container is fingerprinted as it is read back and a record appended; the
\* command has done its work when that fails.
LogEvent(p) ==
    /\ job[p].pc = "log"
    /\ \/ (job[p].opts.log => Whole(disk[Pqf(job[p].f)])) /\ Go(p, [job[p] EXCEPT !.pc = "next"])
       \/ job[p].opts.log /\ Go(p, Failing(job[p]))
    /\ UNCHANGED <<disk, seals, started, faults>>

(***************************************************************************)
(* encrypt.                                                                *)
(***************************************************************************)
MutEncryptJob(f, opts, how) ==
    [do |-> "encrypt", f |-> f, opts |-> opts, how |-> how, to |-> Src(f), size |-> 0,
     wrote |-> None, parity |-> None, all |-> {}, more |-> <<>>, bad |-> FALSE, pc |-> "write"]
EncryptJob(f, opts, how) ==
    [do |-> "encrypt", f |-> f, opts |-> opts, how |-> how, to |-> Pqf(f), size |-> 0,
     wrote |-> None, parity |-> None, all |-> {}, more |-> <<>>, bad |-> FALSE, pc |-> "write"]

\* The size is taken before the file is opened.
ResolveEncryptOutput(f) == IF disk[Src(f)] = None THEN 0 ELSE Len(disk[Src(f)])

Begin(p, f, opts, how, ready) ==
    LET j == [EncryptJob(f, opts, how) EXCEPT !.size = ResolveEncryptOutput(f)] IN
    IF OverwriteAllowed(Pqf(f), opts) /\ disk[Src(f)] # None /\ ready
    THEN Start(p, j) /\ Put(Tmp(p, j.to), Half)
    ELSE Start(p, Ended("failed")) /\ UNCHANGED disk

\* Padding needs a known size, a reader of its own and no compression.
MaybePadded(f, opts) == opts.pad => ResolveEncryptOutput(f) > 0

RunEncryptSingle(p) == \E f \in Single, opts \in EncryptOptions : Begin(p, f, opts, "stream", MaybePadded(f, opts))
PerformEncrypt(p) == \E f \in Single, opts \in EncryptOptions :
    ~opts.pad /\ Begin(p, f, opts, "compress", TRUE)
EncryptMmap(p) == \E f \in Single, opts \in EncryptOptions :
    ~opts.pad /\ Begin(p, f, opts, "mmap", TRUE)
RunEncryptStealth(p) == \E f \in Single, opts \in EncryptOptions : Begin(p, f, opts, "stealth", MaybePadded(f, opts))
RunEncryptPassphrase(p) == \E f \in Single, opts \in EncryptOptions :
    Begin(p, f, opts, "stream", MaybePadded(f, opts))
RunEncryptTlock(p) == \E f \in Single, opts \in EncryptOptions :
    Begin(p, f, opts, "stream", MaybePadded(f, opts))

\* The source is read to its end, wherever that is by now; a mapping has the
\* length it has when it is made.
Seal(p) ==
    /\ Is(p, "write", "encrypt") /\ disk[Src(job[p].f)] # None
    /\ LET j == job[p] text == disk[Src(j.f)]
           size == IF j.how = "mmap" THEN Len(text) ELSE j.size
           zeros == IF j.opts.pad THEN PadmeReader(text, size) ELSE <<>>
           c == Sealed(seals + 1, j.how, text, zeros, size) IN
       /\ Put(Tmp(p, j.to), c)
       /\ Go(p, [j EXCEPT !.pc = "commit", !.wrote = c])
    /\ seals' = seals + 1
    /\ UNCHANGED <<started, faults>>

\* Everything below a directory but its containers, in order.
CollectFiles == LET found == {f \in Files : disk[Src(f)] # None} IN
    IF found = {} THEN <<>>
    ELSE CHOOSE s \in [1 .. Cardinality(found) -> found] : \A f \in found : \E i \in DOMAIN s : s[i] = f

RunEncryptRecursive(p) ==
    \E opts \in EncryptOptions, how \in {"stream", "compress"} :
        /\ ~opts.pad /\ ~opts.fec /\ ~opts.log
        /\ Start(p, [EncryptJob(None, opts, how) EXCEPT !.do = "recurse", !.more = CollectFiles,
                        !.all = {f \in Files : disk[Src(f)] # None}, !.pc = "next"])
        /\ UNCHANGED disk

\* One file of the directory.  A failure is kept for the end.
EncryptOneFile(p) ==
    /\ job[p].pc = "next" /\ job[p].do # "resume" /\ job[p].more # <<>>
    /\ LET f == Head(job[p].more)
           j == [job[p] EXCEPT !.do = "encrypt", !.f = f, !.to = Pqf(f), !.more = Tail(@),
                               !.size = ResolveEncryptOutput(f)] IN
       IF OverwriteAllowed(Pqf(f), j.opts) /\ disk[Src(f)] # None
       THEN Go(p, [j EXCEPT !.pc = "write"]) /\ Put(Tmp(p, j.to), Half)
       ELSE Go(p, [j EXCEPT !.bad = TRUE]) /\ UNCHANGED disk
    /\ UNCHANGED <<seals, started, faults>>
Finish(p) ==
    /\ job[p].pc = "next" /\ job[p].more = <<>>
    /\ Go(p, [job[p] EXCEPT !.pc = IF job[p].bad THEN "failed" ELSE "ok"])
    /\ UNCHANGED <<disk, seals, started, faults>>

(***************************************************************************)
(* decrypt and check.                                                      *)
(***************************************************************************)
DecryptJob(f, opts, how) ==
    [do |-> "decrypt", f |-> f, opts |-> opts, how |-> how, to |-> Out(f), c |-> disk[Pqf(f)],
     parity |-> IF opts.fec THEN disk[Fec(f)] ELSE None, limit |-> 0, wrote |-> None,
     more |-> <<>>, bad |-> FALSE, pc |-> "peek"]

\* Asked to repair, the command needs a sidecar with a header.
MaybeWrapFec(f, opts) == opts.fec => Whole(disk[Fec(f)])
OpenReader(f) == disk[Pqf(f)] # None

\* Assumed: nobody decrypts into an output that is being resumed.
OutputFree(f, does) == \A q \in Procs : job[q].pc \notin {"idle", "ok", "failed"} /\ job[q].do \in does => job[q].f # f

RunDecrypt(p) == \E f \in Single, opts \in DecryptOptions, how \in {"header", "stealth"} :
    /\ OutputFree(f, {"resume"})
    /\ LET j == DecryptJob(f, opts, how) IN
       Start(p, IF OverwriteAllowed(Out(f), opts) /\ OpenReader(f) /\ MaybeWrapFec(f, opts)
                THEN j ELSE Ended("failed"))
    /\ UNCHANGED disk
RunDecryptTlock(p) == \E f \in Single, opts \in DecryptOptions :
    /\ OutputFree(f, {"resume"})
    /\ LET j == DecryptJob(f, opts, "header") IN
       Start(p, IF OverwriteAllowed(Out(f), opts) /\ OpenReader(f) /\ MaybeWrapFec(f, opts)
                THEN j ELSE Ended("failed"))
    /\ UNCHANGED disk

\* The size to cut the output at is read by opening the path once more.
Peek(p) ==
    /\ Is(p, "peek", "decrypt")
    /\ Put(Tmp(p, job[p].to), Half)
    /\ Go(p, [job[p] EXCEPT !.pc = "write",
              !.limit = IF job[p].how = "stealth" THEN 0 ELSE PeekOriginalSize(disk[Pqf(job[p].f)])])
    /\ UNCHANGED <<seals, started, faults>>

Decrypt(p) ==
    /\ Is(p, "write", "decrypt")
    /\ LET j == job[p] IN \E c \in FecRepair(j.c, j.parity) :
        /\ (c.how = "stealth") = (j.how = "stealth") /\ OpenContainer(c).ok
        /\ LET out == [of |-> c.id, bytes |-> TruncatingWriter(OpenContainer(c).text, j.limit)] IN
           /\ Put(Tmp(p, j.to), out)
           /\ Go(p, [j EXCEPT !.pc = "commit", !.wrote = out])
    /\ UNCHANGED <<seals, started, faults>>

\* Nothing is written: the command says whether the container opens.
RunCheck(p) == \E f \in Single, opts \in DecryptOptions, how \in {"header", "stealth"} :
    /\ LET j == DecryptJob(f, opts, how) IN
       \/ /\ OpenReader(f) /\ MaybeWrapFec(f, opts)
          /\ \E c \in FecRepair(j.c, j.parity) :
                Start(p, Ended(IF (c.how = "stealth") = (how = "stealth") /\ OpenContainer(c).ok
                               THEN "ok" ELSE "failed"))
       \/ ~(OpenReader(f) /\ MaybeWrapFec(f, opts)) /\ Start(p, Ended("failed"))
    /\ UNCHANGED disk

(***************************************************************************)
(* decrypt --resume writes in place, and takes the output's length for how  *)
(* far it got.                                                              *)
(***************************************************************************)
Chunks(c) == IF Plain(c) = <<>> THEN 1 ELSE CeilDiv(Len(Plain(c)), Chunk)
ReadChunk(c, i) == SubSeq(Plain(c), i * Chunk + 1, Least((i + 1) * Chunk, Len(Plain(c))))
\* A chunk is authenticated for itself; the declared size with the first alone.
Authentic(c, i) ==
    \/ c.rot = "none"
    \/ c.rot = "size" /\ i > 0
    \/ c.rot = "block" /\ i # 1

MutSafeChunks(c, already) == Least(CeilDiv(already, Chunk), Chunks(c) - 1)
SafeChunks(c, already) == Least(already \div Chunk, Chunks(c) - 1)

RunDecryptResumable(p) == \E f \in Single, opts \in DecryptOptions :
    /\ OutputFree(f, {"decrypt", "resume"})
    /\ LET c == disk[Pqf(f)] old == disk[Out(f)]
           j == [DecryptJob(f, opts, "resume") EXCEPT !.do = "resume"] IN
       IF OpenReader(f) /\ c.how \in {"stream", "mmap"}
       THEN LET safe == SafeChunks(c, IF old = None THEN 0 ELSE Len(old.bytes)) IN
            /\ Start(p, [j EXCEPT !.pc = "chunk", !.limit = safe])
            /\ Put(Out(f), IF old = None THEN [of |-> c.id, bytes |-> <<>>]
                           ELSE [old EXCEPT !.bytes = SubSeq(@, 1, Least(safe * Chunk, Len(@)))])
       ELSE Start(p, Ended("failed")) /\ UNCHANGED disk

WriteChunk(p) ==
    /\ Is(p, "chunk", "resume") /\ job[p].limit < Chunks(job[p].c)
    /\ LET j == job[p] IN
       IF Authentic(j.c, j.limit)
       THEN /\ Put(j.to, [disk[j.to] EXCEPT !.bytes = @ \o ReadChunk(j.c, j.limit)])
            /\ Go(p, [j EXCEPT !.limit = @ + 1])
       ELSE Go(p, Failing(j)) /\ UNCHANGED disk
    /\ UNCHANGED <<seals, started, faults>>
FinishResume(p) ==
    /\ Is(p, "chunk", "resume") /\ job[p].limit = Chunks(job[p].c)
    /\ Go(p, [job[p] EXCEPT !.pc = "ok", !.wrote = disk[job[p].to]])
    /\ UNCHANGED <<disk, seals, started, faults>>

-----------------------------------------------------------------------------

Fault == faults < MaxFaults /\ faults' = faults + 1 /\ UNCHANGED <<seals, started>>

\* A process is killed; of a chunk being written any part may be in the file.
Kill(p) ==
    /\ Fault /\ job[p].pc \notin {"idle", "ok", "failed"}
    /\ Go(p, Idle)
    /\ \/ UNCHANGED disk
       \/ /\ Is(p, "chunk", "resume") /\ job[p].limit < Chunks(job[p].c)
          /\ \E n \in 1 .. Len(ReadChunk(job[p].c, job[p].limit)) :
                Put(job[p].to, [disk[job[p].to] EXCEPT !.bytes = @ \o SubSeq(ReadChunk(job[p].c, job[p].limit), 1, n)])
EditSource == \E f \in Single, n \in Lengths :
    Fault /\ disk[Src(f)] # None /\ n # Len(disk[Src(f)]) /\ Put(Src(f), Bytes(f, n)) /\ UNCHANGED job
Rot == \E f \in Single, rot \in {"size", "block", "heavy"} :
    /\ Fault /\ Whole(disk[Pqf(f)]) /\ disk[Pqf(f)].rot = "none"
    /\ Put(Pqf(f), [disk[Pqf(f)] EXCEPT !.rot = rot]) /\ UNCHANGED job
OtherOutput == \E f \in Single :
    Fault /\ disk[Out(f)] = None /\ Put(Out(f), [of |-> 0, bytes |-> Zeros(1)]) /\ UNCHANGED job

\* A directory may hold a container of the source, and its sidecar.
Earlier(f, n) == Sealed(1, "stream", Bytes(f, n), <<>>, n)
Init ==
    /\ \E n \in Lengths, before \in BOOLEAN :
          /\ before => \A m \in Lengths : m <= n
          /\ disk = [path \in Paths |->
                 CASE path[1] \in Files /\ path[2] = "src"            -> Bytes(path[1], n)
                   [] before /\ path[1] \in Single /\ path[2] = "pqf" -> Earlier(path[1], n)
                   [] before /\ path[1] \in Single /\ path[2] = "fec" -> Parity(Earlier(path[1], n))
                   [] OTHER                                           -> None]
    /\ job = [p \in Procs |-> Idle]
    /\ seals = 1 /\ started = 0 /\ faults = 0

Encrypt(p) == \/ RunEncryptSingle(p) \/ PerformEncrypt(p) \/ EncryptMmap(p) \/ RunEncryptStealth(p)
              \/ RunEncryptPassphrase(p) \/ RunEncryptTlock(p) \/ RunEncryptRecursive(p)
              \/ Seal(p) \/ EncryptOneFile(p) \/ Finish(p)
Read(p)    == \/ RunDecrypt(p) \/ RunDecryptTlock(p) \/ Peek(p) \/ Decrypt(p) \/ RunCheck(p)
              \/ RunDecryptResumable(p) \/ WriteChunk(p) \/ FinishResume(p)
Shared(p)  == \/ Commit(p) \/ NoSidecar(p) \/ WriteFecSidecar(p) \/ FinishSidecar(p) \/ LogEvent(p)
              \/ Fail(p) \/ Kill(p)
Next == (\E p \in Procs : Encrypt(p) \/ Read(p) \/ Shared(p)) \/ EditSource \/ Rot \/ OtherOutput
Spec == Init /\ [][Next]_vars

-----------------------------------------------------------------------------

TypeOK ==
    /\ \A f \in Files : disk[Src(f)] \in {None} \cup {Bytes(f, n) : n \in Lengths}
    /\ seals \in Nat /\ started \in 0 .. MaxCommands /\ faults \in 0 .. MaxFaults
    /\ \A p \in Procs : job[p].pc \in {"idle", "failed", "ok"} \/ job[p].f \in Files \cup {None}

\* Whatever is killed or fails, and whoever else is writing, a container or an
\* output at its own name is one that a command finished: never half of one.
NeverHalf == \A f \in Files : disk[Pqf(f)] # Half /\ disk[Out(f)] # Half

\* A decryption that reports success wrote what had been sealed, no more and no
\* less, if the source had kept its length while it was read and the size was
\* peeked from the container that was opened, undamaged.
DecryptedIsSealed ==
    \A p \in Procs : Is(p, "ok", "decrypt") =>
        LET j == job[p] IN
        /\ j.wrote.of = j.c.id
        /\ (j.c.size \in {0, Len(j.c.text)} /\ j.limit \in {0, j.c.size} /\ (j.limit = 0 => j.c.zeros = <<>>))
              => j.wrote.bytes = j.c.text

\* decrypt --resume, after any number of attempts that were killed, leaves the
\* plaintext of its container, if nothing else wrote to the output.
ResumedIsSealed ==
    \A p \in Procs : Is(p, "ok", "resume") /\ job[p].wrote.of = job[p].c.id
        => job[p].wrote.bytes = Plain(job[p].c)

\* A batch over a directory that reports success left a container beside every
\* file it found.
BatchReports ==
    \A p \in Procs : job[p].pc = "ok" /\ job[p].do \in {"encrypt", "recurse"}
        => \A f \in job[p].all : disk[Pqf(f)] # None

\* A command that reports success did what it says, alone or for a batch.
ReportsHold == DecryptedIsSealed /\ BatchReports
=============================================================================
