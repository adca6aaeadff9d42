----------------------------- MODULE Recipients -----------------------------
(***************************************************************************)
(* Who can open a file: the container layouts and their recipient slots,   *)
(* the commands that write a container or rewrite its header over the same *)
(* payload (encrypt, rekey, rotate, add-recipient), and the atomic         *)
(* replacement through which each puts its result at its path.             *)
(*                                                                         *)
(* The payload is what it was sealed under: a secret, here always Session, *)
(* a chunk size, a compression, and the commitment bound into chunk 0.     *)
(* Decapsulating a slot made for another key of the same kind yields not   *)
(* an error but Garbage, ML-KEM's implicit rejection.  Slot order is left  *)
(* out of the shuffled layouts: no reader depends on it.                   *)
(***************************************************************************)
EXTENDS Integers, Sequences, FiniteSets

CONSTANTS
  Keys,           \* key pairs
  KemOf,          \* the KEM variant of each
  Nobody,         \* whom a dummy slot is for
  Files,          \* numbered as their paths sort, all in one directory
  Absent,         \* no file at a path
  Earlier,        \* what may be there at the start, by earlier releases too
  RekeyKeys,      \* private keys that rekey and rotate are given
  NewKeys,        \* keys they put in their place
  AddKeys,        \* keys add-recipient is given
  Lists,          \* recipient lists encrypt is given
  MaxRecipients,  \* MAX_RECIPIENTS
  Processes,      \* commands that may run at once
  Rotators,       \* those of them that may be a rotate
  MaxCommands,    \* bound: commands besides rotate, which is rerun freely
  MaxFaults       \* bound: kills, power losses and I/O errors

ASSUME RecipientsAssumption ==
  /\ Nobody \notin Keys /\ RekeyKeys \cup NewKeys \cup AddKeys \subseteq Keys
  /\ Lists \subseteq Seq(Keys) /\ <<>> \notin Lists
  /\ Rotators \subseteq Processes
  /\ KemOf \in [Keys -> STRING]
  /\ Files \subseteq Nat /\ IsFiniteSet(Files)
  /\ MaxRecipients \in Nat \ {0} /\ MaxCommands \in Nat /\ MaxFaults \in Nat

VARIABLES
  entry,     \* what each path holds
  durable,   \* what each path may hold after a power loss
  proc,      \* each process and the result it has in its temporary file
  ran,       \* commands started
  faults,
  alone,     \* history: no two commands have overlapped
  due,       \* history: who was last told that the file opens for them
  barred     \* history: whom an acknowledged rekey has replaced

disk    == <<entry, durable>>
history == <<alone, due, barred>>
vars    == <<disk, proc, ran, faults, history>>
-----------------------------------------------------------------------------
(* Containers. *)

Session == "session"
Garbage == "garbage"
NoKey   == "no key"

Single == {"v2", "v3", "v5", "v6"}
Multi  == {"v4", "v7", "v8", "v9"}

Slot(k, secret) == [to |-> k, wraps |-> secret]
Dummy == Slot(Nobody, Garbage)

Commitment(secret, auth, chunk, comp) ==
  IF auth THEN <<secret, chunk, comp>> ELSE <<secret>>

\* A container as an encryptor writes it: everything under one header.
Sealed(layout, auth, slots, chunk, comp) ==
  [layout |-> layout, auth |-> auth, slots |-> slots, chunk |-> chunk,
   comp |-> comp,
   payload |-> [whole |-> layout = "v2", chunk |-> chunk, comp |-> comp,
                bound |-> Commitment(Session, auth, chunk, comp)]]

MutWithHeader(c, layout, slots) ==
  [c EXCEPT !.layout = layout, !.auth = TRUE, !.slots = slots]

\* The payload and every other field copied, under a new slot list.
WithHeader(c, layout, slots) == [c EXCEPT !.layout = layout, !.slots = slots]

NextPowerOfTwo(n) ==
  CHOOSE m \in {2 ^ i : i \in 0 .. n} :
    m >= n /\ \A j \in 0 .. n : 2 ^ j >= n => m <= 2 ^ j

Slots(ks) == [i \in 1 .. Len(ks) |-> Slot(ks[i], Session)]

Padded(slots) ==
  slots \o [i \in 1 .. NextPowerOfTwo(Len(slots)) - Len(slots) |-> Dummy]

\* Encryption always sets the authenticated-header bit.
Encrypted(mode, ks) ==
  CASE mode = "single"     -> Sealed("v3", TRUE, Slots(ks), "default", "none")
    [] mode = "chunk size" -> Sealed("v5", TRUE, Slots(ks), "custom", "none")
    [] mode = "compressed" -> Sealed("v6", TRUE, Slots(ks), "default", "zstd")
    [] mode = "multi"      -> Sealed("v4", TRUE, Slots(ks), "default", "none")
    [] mode = "anonymous"  -> Sealed("v8", TRUE, Slots(ks), "default", "none")
    [] mode = "padded"     -> Sealed("v9", TRUE, Padded(Slots(ks)), "default",
                                     "none")
-----------------------------------------------------------------------------
(* decrypt_stream *)

Decapsulate(k, slot) == IF slot.to = k THEN slot.wraps ELSE Garbage

\* A v4 or v7 slot declares its variant; a v8 or v9 slot is tried blindly.
Tried(k, c) ==
  {i \in DOMAIN c.slots :
     \/ c.layout \in {"v8", "v9"}
     \/ c.slots[i].to # Nobody /\ KemOf[c.slots[i].to] = KemOf[k]}

FindSessionKey(k, c) ==
  LET hits == {i \in Tried(k, c) : c.slots[i].to = k}
  IN  IF hits = {} \/ Len(c.slots) > MaxRecipients
      THEN NoKey
      ELSE c.slots[CHOOSE i \in hits : \A j \in hits : i <= j].wraps

StreamKey(k, c) ==
  IF c.layout \in Multi THEN FindSessionKey(k, c)
  ELSE IF c.layout \in Single /\ KemOf[c.slots[1].to] = KemOf[k]
  THEN Decapsulate(k, c.slots[1])
  ELSE NoKey

\* The multi-recipient layouts have no field for either.
HeaderChunk(c) == IF c.layout \in {"v5", "v6"} THEN c.chunk ELSE "default"
HeaderComp(c)  == IF c.layout = "v6" THEN c.comp ELSE "none"

\* k's decryption of c succeeds and yields the text that was encrypted.
Opens(k, c) ==
  /\ StreamKey(k, c) = Session
  /\ c.payload.whole = (c.layout = "v2")
  /\ c.payload.chunk = HeaderChunk(c) /\ c.payload.comp = HeaderComp(c)
  /\ c.payload.bound =
       Commitment(Session, c.auth, HeaderChunk(c), HeaderComp(c))

Openers(v) == IF v = Absent THEN {} ELSE {k \in Keys : Opens(k, v.pqf)}

\* The keys that a slot is for.
Named(slots) == {slots[i].to : i \in DOMAIN slots} \ {Nobody}

\* What an encryptor of this or an earlier release writes for those it is given: all
\* of it under one header, one slot in a layout for one recipient, the session secret
\* in each slot of a key, and no chunk size or compression the layout has no field for.
Written(v) ==
  LET c == v.pqf
  IN  /\ v = [pqf   |-> Sealed(c.layout, c.auth, c.slots, c.chunk, c.comp),
              named |-> Named(c.slots)]
      /\ c.layout \in Single \cup Multi /\ c.auth \in BOOLEAN
      /\ c.slots \in Seq([to : Keys \cup {Nobody}, wraps : {Session, Garbage}])
      /\ Len(c.slots) <= MaxRecipients /\ Named(c.slots) # {}
      /\ c.layout \in Single => Len(c.slots) = 1
      /\ \A i \in DOMAIN c.slots : c.slots[i].to # Nobody => c.slots[i].wraps = Session
      /\ c.layout \notin {"v5", "v6"} => c.chunk = "default"
      /\ c.layout # "v6" => c.comp = "none"

ASSUME EarlierAssumption ==
  \A files \in Earlier :
    DOMAIN files = Files /\ \A f \in Files : files[f] = Absent \/ Written(files[f])
-----------------------------------------------------------------------------
(* Rewriting a header.  A version of a file is its container and, for the  *)
(* record, the keys its commands named.                                    *)

Rekeyable(k, c) ==
  /\ c.layout \in {"v3", "v5"}
  /\ HeaderChunk(c) = "default"
  /\ KemOf[c.slots[1].to] = KemOf[k]

Rekeyed(k, new, v) ==
  [pqf   |-> WithHeader(v.pqf, "v4", <<Slot(new, Decapsulate(k, v.pqf.slots[1]))>>),
   named |-> {new}]

\* The slot limit is checked when the new header is written.
Extensible(k, c) ==
  /\ c.layout \in {"v4", "v7", "v8"}
  /\ FindSessionKey(k, c) # NoKey
  /\ Len(c.slots) + 1 <= MaxRecipients

Extended(k, new, v) ==
  [pqf   |-> WithHeader(v.pqf, v.pqf.layout,
                        Append(v.pqf.slots,
                               Slot(new, FindSessionKey(k, v.pqf)))),
   named |-> v.named \cup {new}]

-----------------------------------------------------------------------------
(* Commands.  Reading, computing and filling the temporary file is one     *)
(* step: the source is replaced by rename only, so an open handle reads    *)
(* one version, and the temporary file is the command's own.  A refused    *)
(* command has no effect and is left out, except in rotate, which counts.  *)

Idle == [pc |-> "idle", op |-> "none", old |-> Nobody, new |-> {}, src |-> 0,
         dst |-> 0, out |-> Absent, todo |-> {}, listed |-> {}, failed |-> FALSE]

None == [f \in Files |-> {}]

NoteOverlap ==
  IF \A q \in Processes : proc[q] = Idle THEN UNCHANGED history
  ELSE alone' = FALSE /\ due' = None /\ barred' = None

Start(p, op, old, new, src, dst, out) ==
  /\ proc[p] = Idle
  /\ ran < MaxCommands /\ ran' = ran + 1
  /\ proc' = [proc EXCEPT ![p] =
       [Idle EXCEPT !.pc = "rename", !.op = op, !.old = old, !.new = new,
                    !.src = src, !.dst = dst, !.out = out]]
  /\ NoteOverlap
  /\ UNCHANGED <<disk, faults>>

\* Every option goes with one recipient or with several.
Modes(ks) ==
  IF Len(ks) = 1 THEN {"single", "chunk size", "compressed"}
  ELSE {"multi", "anonymous", "padded"}

Encrypt(p) ==
  \E f \in Files, ks \in Lists : \E mode \in Modes(ks) :
    /\ Len(ks) <= MaxRecipients
    /\ LET c == Encrypted(mode, ks)
       IN  /\ Len(c.slots) <= MaxRecipients
           /\ Start(p, "encrypt", Nobody, {ks[i] : i \in DOMAIN ks}, 0, f,
                    [pqf |-> c, named |-> {ks[i] : i \in DOMAIN ks}])

\* In place, or to another path: free, or given up with --force.
Rekey(p) ==
  \E src, dst \in Files, k \in RekeyKeys, new \in NewKeys :
    /\ entry[src] # Absent
    /\ Rekeyable(k, entry[src].pqf)
    /\ Start(p, "rekey", k, {new}, src, dst, Rekeyed(k, new, entry[src]))

AddRecipient(p) ==
  \E src, dst \in Files, k \in Keys, new \in AddKeys :
    /\ entry[src] # Absent
    /\ Extensible(k, entry[src].pqf)
    /\ Start(p, "add", k, {new}, src, dst, Extended(k, new, entry[src]))

\* run_rotate: the files are listed once, then rekeyed in place one by one.
Rotate(p) ==
  \E k \in RekeyKeys, new \in NewKeys :
    /\ proc[p] = Idle
    /\ LET listed == {f \in Files : entry[f] # Absent}
       IN  proc' = [proc EXCEPT ![p] =
             [Idle EXCEPT !.pc = "next", !.op = "rotate", !.old = k,
                          !.new = {new}, !.todo = listed, !.listed = listed]]
    /\ NoteOverlap
    /\ UNCHANGED <<disk, ran, faults>>

First(s) == CHOOSE f \in s : \A g \in s : f <= g

MutRotateAborts(p, f) ==
  LET job == proc[p]
  IN  IF Rekeyable(job.old, entry[f].pqf)
      THEN [job EXCEPT !.pc = "rename", !.src = f, !.dst = f, !.todo = @ \ {f},
                       !.out = Rekeyed(job.old, CHOOSE k \in job.new : TRUE,
                                       entry[f])]
      ELSE [job EXCEPT !.todo = {}, !.failed = TRUE]

\* Rekeys the next file, or counts it as failed.
RotateFile(p, f) ==
  LET job == proc[p]
  IN  IF Rekeyable(job.old, entry[f].pqf)
      THEN [job EXCEPT !.pc = "rename", !.src = f, !.dst = f, !.todo = @ \ {f},
                       !.out = Rekeyed(job.old, CHOOSE k \in job.new : TRUE,
                                       entry[f])]
      ELSE [job EXCEPT !.todo = @ \ {f}, !.failed = TRUE]

RotateNext(p) ==
  /\ proc[p].pc = "next" /\ proc[p].todo # {}
  /\ proc' = [proc EXCEPT ![p] = RotateFile(p, First(proc[p].todo))]
  /\ UNCHANGED <<disk, ran, faults, history>>

\* The exit status is zero only when no file failed.
RotateEnd(p) ==
  /\ proc[p].pc = "next" /\ proc[p].todo = {}
  /\ proc' = [proc EXCEPT ![p] = Idle]
  /\ UNCHANGED <<disk, ran, faults, history>>
-----------------------------------------------------------------------------
(* AtomicOutput::commit: the temporary file is flushed and fsynced, renamed *)
(* over the target, and the directory is fsynced.                           *)

\* What the history then holds of the file that is replaced.
NoteRename(job) ==
  IF ~alone THEN UNCHANGED <<due, barred>>
  ELSE IF job.op = "add" /\ job.src = job.dst
  THEN barred' = [barred EXCEPT ![job.dst] = @ \ job.new] /\ UNCHANGED due
  ELSE /\ due' = [due EXCEPT ![job.dst] = {}]
       /\ barred' = [barred EXCEPT ![job.dst] = {}]

Rename(p) ==
  LET job == proc[p]
  IN  /\ job.pc = "rename"
      /\ entry' = [entry EXCEPT ![job.dst] = job.out]
      /\ durable' = [durable EXCEPT ![job.dst] = @ \cup {job.out}]
      /\ proc' = [proc EXCEPT ![p].pc = "fsync"]
      /\ NoteRename(job)
      /\ UNCHANGED <<ran, faults, alone>>

\* The command is done; rotate goes on with its next file.
Done(job) ==
  IF job.op = "rotate"
  THEN [job EXCEPT !.pc = "next", !.src = 0, !.dst = 0, !.out = Absent]
  ELSE Idle

Failed(job) ==
  IF job.op = "rotate" THEN [Done(job) EXCEPT !.failed = TRUE] ELSE Idle

NoteDone(job) ==
  IF ~alone THEN UNCHANGED <<due, barred>>
  ELSE /\ due' = [due EXCEPT ![job.dst] = @ \cup job.new]
       /\ barred' = IF job.op \in {"rekey", "rotate"}
                    THEN [barred EXCEPT ![job.dst] = {job.old} \ job.new]
                    ELSE barred

MutSyncDirectory(p) ==
  LET job == proc[p]
  IN  /\ job.pc = "fsync"
      /\ proc' = [proc EXCEPT ![p] = Done(job)]
      /\ NoteDone(job)
      /\ UNCHANGED <<disk, ran, faults, alone>>

SyncDirectory(p) ==
  LET job == proc[p]
  IN  /\ job.pc = "fsync"
      /\ durable' = [f \in Files |-> {entry[f]}]
      /\ proc' = [proc EXCEPT ![p] = Done(job)]
      /\ NoteDone(job)
      /\ UNCHANGED <<entry, ran, faults, alone>>
-----------------------------------------------------------------------------
(* Failures. *)

Fault == faults < MaxFaults /\ faults' = faults + 1

\* An I/O error: before the rename the old file stays, at the directory's
\* fsync the new one is already in place.
IoError(p) ==
  /\ Fault
  /\ proc[p].pc \in {"rename", "fsync"}
  /\ proc' = [proc EXCEPT ![p] = Failed(proc[p])]
  /\ UNCHANGED <<disk, ran, history>>

Kill(p) ==
  /\ Fault
  /\ proc[p] # Idle
  /\ proc' = [proc EXCEPT ![p] = Idle]
  /\ UNCHANGED <<disk, ran, history>>

PowerLoss ==
  /\ Fault
  /\ proc' = [p \in Processes |-> Idle]
  /\ entry' \in {e \in [Files -> UNION {durable[f] : f \in Files}] :
                   \A f \in Files : e[f] \in durable[f]}
  /\ durable' = [f \in Files |-> {entry'[f]}]
  /\ UNCHANGED <<ran, history>>
-----------------------------------------------------------------------------
Init ==
  /\ entry \in Earlier
  /\ durable = [f \in Files |-> {entry[f]}]
  /\ proc = [p \in Processes |-> Idle]
  /\ ran = 0 /\ faults = 0
  /\ alone = TRUE
  /\ due = None /\ barred = None

Work(p) == RotateNext(p) \/ RotateEnd(p) \/ Rename(p) \/ SyncDirectory(p)

Next ==
  \/ \E p \in Processes :
       \/ Encrypt(p) \/ Rekey(p) \/ AddRecipient(p)
       \/ Work(p)
       \/ IoError(p) \/ Kill(p)
  \/ \E p \in Rotators : Rotate(p)
  \/ PowerLoss

Spec == Init /\ [][Next]_vars

\* A command in progress goes on, and the user runs rotate again.
FairSpec ==
  /\ Spec
  /\ \A p \in Processes : WF_vars(Work(p))
  /\ \A p \in Rotators : WF_vars(Rotate(p))
-----------------------------------------------------------------------------
(* Properties. *)

Versions == (UNION {durable[f] : f \in Files}) \ {Absent}

\* Every variable of the rewriting machinery stays in its type.
TypeOK ==
  /\ \A f \in Files : entry[f] \in durable[f]
  /\ \A v \in Versions : DOMAIN v = {"pqf", "named"} /\ v.named \subseteq Keys
  /\ \A p \in Processes :
       /\ proc[p].pc \in {"idle", "next", "rename", "fsync"}
       /\ proc[p].op \in {"none", "encrypt", "rekey", "add", "rotate"}
       /\ proc[p].new \subseteq Keys /\ proc[p].todo \subseteq proc[p].listed
       /\ proc[p].pc \in {"rename", "fsync"} => proc[p].dst \in Files
  /\ ran \in 0 .. MaxCommands /\ faults \in 0 .. MaxFaults
  /\ alone \in BOOLEAN
  /\ due \in [Files -> SUBSET Keys] /\ barred \in [Files -> SUBSET Keys]

\* Through every sequence of commands, whatever overlaps or is lost, each
\* version of a file opens for the keys its commands named and no other: no
\* rewritten header parts from the commitment, the chunk size and the secret
\* its payload was sealed under, and none has more slots than a reader takes.
OpensForItsRecipients == \A v \in Versions : Openers(v) = v.named

\* What a finished command told its user holds, across kills, power losses
\* and every later command that did not overlap another: those it named can
\* open the file, and the key it replaced cannot.
AcknowledgedHolds ==
  alone => \A f \in Files :
    due[f] \subseteq Openers(entry[f]) /\ barred[f] \cap Openers(entry[f]) = {}

\* A rotate about to report that every file succeeded has left every file it
\* listed to the new key, unless another command came in between.
RotateReports ==
  \A p \in Processes :
    /\ alone /\ proc[p].op = "rotate" /\ proc[p].pc = "next"
    /\ proc[p].todo = {} /\ ~proc[p].failed
    => \A f \in proc[p].listed : proc[p].new \subseteq Openers(entry[f])

\* One bad file does not stop the batch: rerun after every interruption,
\* rotate comes to leave no file that it could still rekey.
EventuallyRotated ==
  <>[](\A f \in Files : entry[f] # Absent =>
         \A k \in RekeyKeys : ~Rekeyable(k, entry[f].pqf))
=============================================================================
