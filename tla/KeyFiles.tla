------------------------------- MODULE KeyFiles -------------------------------
(* The files of a key pair and the commands that make, replace, revoke and use *)
(* them: keygen, keygen --hardware, import-key, repassphrase, revoke and the   *)
(* recipient check of encrypt, run from the command line, and the same from    *)
(* the window, which keeps copies of what it has read.  Processes interleave   *)
(* between their file operations, and may be killed there.                     *)
EXTENDS Integers, FiniteSets, TLC

CONSTANTS
    Cli, Gui,       \* command-line processes, and the window
    Dirs,           \* directories with a pubkey.pem and a privkey.pem
    None, Half,     \* no file; a file cut short while being written in place
    Passphrases,
    Protections,    \* what a new key may be protected with: passphrases, None
    SshFiles,       \* what import-key may be given; Ed25519 is the one it takes
    Ed25519,
    SharedLabels,   \* a label may be used for two hardware keys
    MaxCommands,    \* bound: commands and operations started
    MaxFaults       \* bound: failed writes and killed processes

ASSUME KeyFilesAssumption ==
    /\ MaxCommands \in Nat /\ MaxFaults \in Nat
    /\ Cli \cap Gui = {} /\ Ed25519 \in SshFiles

VARIABLES
    disk,           \* the files of each directory
    store,          \* the seed the credential store has under each label
    job,            \* what each process is doing
    copy,           \* what the window read, and from where
    list,           \* the directories whose keys the window remembers
    label,          \* the label in the window's form
    revoked,        \* history: the key last revoked in each directory
    promised,       \* history: what the private key file last written held
    mixed,          \* history: directories two writers, or an old copy, met in
    cut,            \* history: directories a writer died or import failed in
    made, started, faults

vars == <<disk, store, job, copy, list, label, revoked, promised, mixed, cut,
          made, started, faults>>
history == <<revoked, promised, mixed, cut>>
window  == <<copy, list, label>>
budget  == <<made, started, faults>>

Procs  == Cli \cup Gui
Labels == Dirs
Resting == {"idle", "ok", "failed", "accepted", "refused"}
Busy(p)   == job[p].pc \notin Resting
Writes(p) == Busy(p) /\ job[p].do \in {"keygen", "import", "repassphrase"}
Go(p, j)  == job' = [job EXCEPT ![p] = j]
Ended(pc) == [pc |-> pc, do |-> "none"]
Step(p, pc) == Go(p, IF pc \in Resting THEN Ended(pc) ELSE [job[p] EXCEPT !.pc = pc])
Dir(p)    == job[p].d

(***************************************************************************)
(* Keys.  A key is the number it was made as.                              *)
(***************************************************************************)
SshKey == 0
ExtractSshSeed(ssh) == IF ssh = Ed25519 THEN SshKey ELSE None
PublicPem(k) == [key |-> k, expires |-> FALSE]
\* What an encrypted seed was sealed with: the passphrase, and how many lanes
\* its key is derived in: 4 now, 1 before version 4.
EncryptSeed(pass) == [pass |-> pass, lanes |-> 4]
Legacy(pass) == [pass |-> pass, lanes |-> 1]
EncodePrivateKey(k, pass) ==
    [key |-> k, lock |-> IF pass = None THEN None ELSE EncryptSeed(pass), expires |-> FALSE]
HardwareStub(l) == [label |-> l]
IsHardwareKey(priv) == priv # None /\ DOMAIN priv = {"label"}
IsEncryptedKey(priv) == priv \notin {None, Half} /\ ~IsHardwareKey(priv) /\ priv.lock # None
\* What cannot be parsed has a fingerprint too: "unknown".
Unknown == 0 - 1
FingerprintPem(pub) == IF pub \in {None, Half} THEN Unknown ELSE pub.key
\* A seed sealed the old way is reported, not opened, except to migrate it; the
\* migration opens nothing else.
DecryptSeed(priv, pass)       == IF priv.lock = EncryptSeed(pass) THEN priv.key ELSE None
DecryptSeedLegacy(priv, pass) == IF priv.lock = Legacy(pass) THEN priv.key ELSE None
StoredSeed(priv) == store[priv.label]
\* The key a private key file gives with this passphrase.
LoadSeed(priv, pass) ==
    CASE priv \in {None, Half} -> None
      [] IsHardwareKey(priv) -> StoredSeed(priv)
      [] OTHER -> IF IsEncryptedKey(priv) THEN DecryptSeed(priv, pass) ELSE priv.key
PrependExpiry(pem) == IF pem = Half \/ IsHardwareKey(pem) THEN pem ELSE [pem EXCEPT !.expires = TRUE]

(***************************************************************************)
(* Starting a command.                                                     *)
(***************************************************************************)
Meets(p, d) == \E q \in Procs \ {p} : Writes(q) /\ Dir(q) = d
Begin(p, j) ==
    /\ ~Busy(p) /\ started < MaxCommands /\ started' = started + 1
    /\ Go(p, j)
    /\ mixed' = IF j.do \in {"keygen", "import", "repassphrase"} /\ Meets(p, j.d)
                THEN mixed \cup {j.d} ELSE mixed
    /\ UNCHANGED <<disk, store, revoked, promised, cut, faults>>

NewPair(k, pub, priv, d, do, pc, expiry, l) ==
    [pc |-> pc, do |-> do, d |-> d, key |-> k, pub |-> pub, priv |-> priv,
     expiry |-> expiry, label |-> l, first |-> TRUE]

OutputExists(d) == disk[d].pub # None \/ disk[d].priv # None

Keygen(p, d, force, pass, expiry) ==
    /\ force \/ ~OutputExists(d)
    /\ made' = made + 1
    /\ Begin(p, NewPair(made', PublicPem(made'), EncodePrivateKey(made', pass), d,
                        "keygen", "pub", expiry, None))
    /\ UNCHANGED window
\* The seed is stored before either file is written.
KeygenHardware(p, d, force, l) ==
    /\ force \/ ~OutputExists(d)
    /\ SharedLabels \/ l = d
    /\ p \in Gui => l = label
    /\ made' = made + 1
    /\ Begin(p, NewPair(made', PublicPem(made'), HardwareStub(l), d, "keygen", "store", FALSE, l))
    /\ UNCHANGED window
\* The window prepends the expiry to what it imports; the command has none.
ImportKey(p, d, force, pass, ssh, expiry) ==
    /\ force \/ ~OutputExists(d)
    /\ ExtractSshSeed(ssh) # None
    /\ expiry => p \in Gui
    /\ LET pub == PublicPem(SshKey) priv == EncodePrivateKey(SshKey, pass) IN
       Begin(p, NewPair(SshKey, IF expiry THEN PrependExpiry(pub) ELSE pub,
                        IF expiry THEN PrependExpiry(priv) ELSE priv, d, "import", "pub", FALSE, None))
    /\ UNCHANGED <<window, made>>

(***************************************************************************)
(* Writing a pair.                                                         *)
(***************************************************************************)
MutGenerateAndStore(p) ==
    /\ job[p].pc = "store"
    /\ store' = [store EXCEPT ![job[p].label] = job[p].label]
    /\ Step(p, "pub")
    /\ UNCHANGED <<disk, window, history, budget>>
\* set_secret replaces what the label had.
GenerateAndStore(p) ==
    /\ job[p].pc = "store"
    /\ store' = [store EXCEPT ![job[p].label] = job[p].key]
    /\ promised' = [d \in Dirs |-> IF disk[d].priv = HardwareStub(job[p].label)
                                   THEN None ELSE promised[d]]
    /\ Step(p, "pub")
    /\ UNCHANGED <<disk, window, revoked, mixed, cut, budget>>

\* In place from the library and the command line; the window's own writes, of
\* what it imports and of an expiry, are a rename.
InPlace(p) == p \in Cli \/ (job[p].do = "keygen" /\ job[p].first)
TruncatePublicKey(p) ==
    /\ job[p].pc = "pub" /\ InPlace(p)
    /\ disk' = [disk EXCEPT ![Dir(p)].pub = Half]
    /\ Step(p, "fill")
    /\ UNCHANGED <<store, window, history, budget>>
WritePublicKey(p) ==
    /\ job[p].pc = (IF InPlace(p) THEN "fill" ELSE "pub")
    /\ disk' = [disk EXCEPT ![Dir(p)].pub = job[p].pub]
    /\ Step(p, IF p \in Gui /\ ~job[p].first THEN "reread" ELSE "priv")
    /\ UNCHANGED <<store, window, history, budget>>

\* Written beside it, synced and renamed: the file is the old one or the new one.
WritePrivateFile(p) ==
    /\ job[p].pc = "priv"
    /\ disk' = [disk EXCEPT ![Dir(p)].priv = job[p].priv]
    /\ promised' = [promised EXCEPT ![Dir(p)] = job[p].priv]
    /\ Step(p, IF job[p].expiry THEN "expiry" ELSE "ok")
    /\ UNCHANGED <<store, window, revoked, mixed, cut, budget>>

MutFailPrivateFile(p) ==
    /\ job[p].pc = "priv" /\ faults < MaxFaults /\ faults' = faults + 1
    /\ Step(p, IF p \in Gui /\ job[p].do = "keygen" /\ ~job[p].first THEN "ok" ELSE "failed")
    /\ cut' = IF job[p].do = "import" THEN cut \cup {Dir(p)} ELSE cut
    /\ UNCHANGED <<disk, store, window, revoked, promised, mixed, made, started>>
MutTornPrivateFile(p) ==
    /\ job[p].pc = "priv" /\ faults < MaxFaults /\ faults' = faults + 1
    /\ disk' = [disk EXCEPT ![Dir(p)].priv = Half]
    /\ Step(p, "failed")
    /\ UNCHANGED <<store, window, history, made, started>>
\* keygen then takes its public key away again; import-key does not.  The
\* window does not look at the result of writing the expiry.
FailPrivateFile(p) ==
    /\ job[p].pc = "priv" /\ faults < MaxFaults /\ faults' = faults + 1
    /\ IF job[p].do = "keygen" /\ job[p].first
       THEN disk' = [disk EXCEPT ![Dir(p)].pub = None] ELSE UNCHANGED disk
    /\ Step(p, IF p \in Gui /\ job[p].do = "keygen" /\ ~job[p].first THEN "ok" ELSE "failed")
    /\ cut' = IF job[p].do = "import" THEN cut \cup {Dir(p)} ELSE cut
    /\ UNCHANGED <<store, window, revoked, promised, mixed, made, started>>

\* The expiry goes in front of both files after they are written: they are read
\* back and written again.  The window goes file by file.
PrependExpiryToFiles(p) ==
    /\ job[p].pc = "expiry"
    /\ LET pub == disk[Dir(p)].pub priv == disk[Dir(p)].priv
           again == [job[p] EXCEPT !.pc = "pub", !.expiry = FALSE, !.first = FALSE] IN
       IF p \in Gui
       THEN IF pub = None THEN Go(p, [again EXCEPT !.pc = "reread"])
            ELSE Go(p, [again EXCEPT !.pub = PrependExpiry(pub)])
       ELSE IF None \in {pub, priv} THEN Step(p, "failed")
            ELSE Go(p, [again EXCEPT !.pub = PrependExpiry(pub), !.priv = PrependExpiry(priv)])
    /\ UNCHANGED <<disk, store, window, history, budget>>
RereadPrivateKey(p) ==
    /\ job[p].pc = "reread"
    /\ LET priv == disk[Dir(p)].priv IN
       IF priv = None THEN Step(p, "ok")
       ELSE Go(p, [job[p] EXCEPT !.pc = "priv", !.priv = PrependExpiry(priv)])
    /\ UNCHANGED <<disk, store, window, history, budget>>

(***************************************************************************)
(* A new passphrase.                                                       *)
(***************************************************************************)
\* Only an encrypted key that opens; the expiry comment is not kept.
Repassphrase(priv, old, new, legacy) ==
    IF IsEncryptedKey(priv)
       /\ None # IF legacy THEN DecryptSeedLegacy(priv, old) ELSE DecryptSeed(priv, old)
    THEN EncodePrivateKey(priv.key, new) ELSE None
Rewrite(d, priv) == [NewPair(priv.key, None, priv, d, "repassphrase", "priv", FALSE, None)
                     EXCEPT !.first = FALSE]
RepassphraseFile(p, d, old, new, legacy) ==
    LET priv == Repassphrase(disk[d].priv, old, new, legacy) IN
    /\ p \in Cli /\ priv # None
    /\ Begin(p, Rewrite(d, priv))
    /\ UNCHANGED <<window, made>>
\* The window works on the copy it read, and writes over what is there now.
Stale(c) == disk[c.d].priv = None \/ IsHardwareKey(disk[c.d].priv) \/ disk[c.d].priv.key # c.pem.key
DoRepassphrase(p, old, new, legacy) ==
    /\ p \in Gui /\ copy.priv # None
    /\ LET c == copy.priv priv == Repassphrase(c.pem, old, new, legacy) IN
       /\ priv # None
       /\ ~Busy(p) /\ started < MaxCommands /\ started' = started + 1
       /\ Go(p, Rewrite(c.d, priv))
       /\ mixed' = IF Meets(p, c.d) \/ Stale(c) THEN mixed \cup {c.d} ELSE mixed
    /\ UNCHANGED <<disk, store, window, revoked, promised, cut, faults, made>>

(***************************************************************************)
(* Revoking, and using a key.                                              *)
(***************************************************************************)
\* The public key is read from its path, by the window too.
RevokeKey(p, d) ==
    /\ disk[d].pub # None
    /\ Begin(p, [pc |-> "revoke", do |-> "revoke", d |-> d, key |-> FingerprintPem(disk[d].pub)])
    /\ UNCHANGED <<window, made>>
TruncateSidecar(p) ==
    /\ job[p].pc = "revoke"
    /\ disk' = [disk EXCEPT ![Dir(p)].rev = Half]
    /\ Step(p, "sidecar")
    /\ UNCHANGED <<store, window, history, budget>>
WriteSidecar(p) ==
    /\ job[p].pc = "sidecar"
    /\ disk' = [disk EXCEPT ![Dir(p)].rev = job[p].key]
    /\ revoked' = [revoked EXCEPT ![Dir(p)] = job[p].key]
    /\ Step(p, "ok")
    /\ UNCHANGED <<store, window, promised, mixed, cut, budget>>

\* The recipient is read, and then the sidecar.
ReadRecipient(p, d) ==
    /\ p \in Cli /\ disk[d].pub # None
    /\ Begin(p, [pc |-> "check", do |-> "encrypt", d |-> d, key |-> FingerprintPem(disk[d].pub)])
    /\ UNCHANGED <<window, made>>
MutIsRevoked(sidecar, fp) == sidecar # None /\ sidecar = fp
\* A sidecar without a fingerprint revokes whatever key there is.
IsRevoked(sidecar, fp) == sidecar # None /\ sidecar \in {Half, fp}
CheckNotRevoked(p) ==
    /\ job[p].pc = "check"
    /\ Go(p, [pc |-> IF IsRevoked(disk[Dir(p)].rev, job[p].key) \/ job[p].key = Unknown
                     THEN "refused" ELSE "accepted",
              do |-> "encrypt", d |-> Dir(p), key |-> job[p].key, gone |-> revoked[Dir(p)]])
    /\ UNCHANGED <<disk, store, window, history, budget>>

(***************************************************************************)
(* The window's list of keys, and what it loads.                           *)
(***************************************************************************)
ImportKeyPair(d) ==
    /\ disk[d].pub # None /\ d \notin list /\ list' = list \cup {d}
    /\ UNCHANGED <<disk, store, job, copy, label, history, budget>>
RemoveKey(d) ==
    /\ d \in list /\ list' = list \ {d}
    /\ UNCHANGED <<disk, store, job, copy, label, history, budget>>
\* What is at the path now; the list shows the fingerprint read at its import.
ApplyLoadPub(d) ==
    /\ d \in list /\ disk[d].pub # None
    /\ copy' = [copy EXCEPT !.pub = [d |-> d, key |-> FingerprintPem(disk[d].pub)]]
    /\ UNCHANGED <<disk, store, job, list, label, history, budget>>
ApplyRenew(d) ==
    /\ d \in list /\ disk[d].pub \notin {None, Half} /\ disk[d].pub.expires
    /\ label' = d
    /\ UNCHANGED <<disk, store, job, copy, list, history, budget>>
TypeLabel(l) ==
    /\ label' = l
    /\ UNCHANGED <<disk, store, job, copy, list, history, budget>>
LoadPrivateKey(d) ==
    /\ disk[d].priv # None /\ disk[d].priv # Half
    /\ copy' = [copy EXCEPT !.priv = [d |-> d, pem |-> disk[d].priv]]
    /\ UNCHANGED <<disk, store, job, list, label, history, budget>>
\* The window encrypts for the copy, and asks no sidecar.
EncryptForLoaded(p) ==
    /\ p \in Gui /\ copy.pub # None /\ copy.pub.key # Unknown
    /\ Begin(p, [pc |-> "accepted", do |-> "encrypt", d |-> copy.pub.d, key |-> copy.pub.key,
                 gone |-> revoked[copy.pub.d]])
    /\ UNCHANGED <<window, made>>

\* Killed between two file operations.
Kill(p) ==
    /\ Busy(p) /\ faults < MaxFaults /\ faults' = faults + 1
    /\ cut' = IF Writes(p) THEN cut \cup {Dir(p)} ELSE cut
    /\ Go(p, Ended("failed"))
    /\ copy' = IF p \in Gui THEN [pub |-> None, priv |-> None] ELSE copy
    /\ UNCHANGED <<disk, store, list, label, revoked, promised, mixed, made, started>>

(***************************************************************************)
(* A directory is empty, or has a pair, perhaps revoked.                   *)
(***************************************************************************)
Locks == {EncryptSeed(pass) : pass \in Passphrases} \cup {Legacy(pass) : pass \in Passphrases}
Empty == [pub |-> None, priv |-> None, rev |-> None]
Old(lock, rev) == [pub |-> PublicPem(1), priv |-> [EncodePrivateKey(1, None) EXCEPT !.lock = lock], rev |-> rev]
Init ==
    /\ \E first \in Dirs, lock \in {None} \cup {l \in Locks : l.pass \in Protections}, rev \in {None, 1} :
          /\ disk \in [Dirs -> {Empty, Old(lock, rev)}]
          /\ \A d \in Dirs : disk[d] # Empty <=> d = first
          /\ promised = [d \in Dirs |-> disk[d].priv]
          /\ revoked = [d \in Dirs |-> disk[d].rev]
    /\ store = [l \in Labels |-> None]
    /\ job = [p \in Procs |-> Ended("idle")]
    /\ copy = [pub |-> None, priv |-> None] /\ list = {} /\ label \in Labels
    /\ mixed = {} /\ cut = {}
    /\ made = 1 /\ started = 0 /\ faults = 0

Command(p) ==
    \/ \E d \in Dirs, force \in BOOLEAN, pass \in Protections, expiry \in BOOLEAN :
          Keygen(p, d, force, pass, expiry)
    \/ \E d \in Dirs, force \in BOOLEAN, l \in Labels : KeygenHardware(p, d, force, l)
    \/ \E d \in Dirs, force \in BOOLEAN, pass \in Protections, ssh \in SshFiles,
          expiry \in BOOLEAN : ImportKey(p, d, force, pass, ssh, expiry)
    \/ \E d \in Dirs, old, new \in Passphrases, legacy \in BOOLEAN :
          RepassphraseFile(p, d, old, new, legacy) \/ DoRepassphrase(p, old, new, legacy)
    \/ \E d \in Dirs : RevokeKey(p, d) \/ ReadRecipient(p, d)
    \/ EncryptForLoaded(p)
FileStep(p) ==
    \/ GenerateAndStore(p) \/ TruncatePublicKey(p) \/ WritePublicKey(p)
    \/ WritePrivateFile(p) \/ FailPrivateFile(p) \/ PrependExpiryToFiles(p)
    \/ RereadPrivateKey(p) \/ TruncateSidecar(p) \/ WriteSidecar(p)
    \/ CheckNotRevoked(p) \/ Kill(p)
Window(d) ==
    /\ \E p \in Gui : ~Busy(p)
    /\ \/ ImportKeyPair(d) \/ RemoveKey(d) \/ ApplyLoadPub(d) \/ ApplyRenew(d)
       \/ TypeLabel(d) \/ LoadPrivateKey(d)
Next ==
    \/ \E p \in Procs : Command(p) \/ FileStep(p)
    \/ \E d \in Dirs : Window(d)

Spec == Init /\ [][Next]_vars

(***************************************************************************)
(* Properties.                                                             *)
(***************************************************************************)
Keys == 0 .. made
Publics  == {None, Half} \cup [key : Keys, expires : BOOLEAN]
Privates == {None, Half} \cup [key : Keys, lock : {None} \cup Locks, expires : BOOLEAN]
            \cup [label : Labels]
Sidecars == {None, Half, Unknown} \cup Keys
\* Types, and the bounds.
TypeOK ==
    /\ \A d \in Dirs : /\ disk[d].pub \in Publics /\ disk[d].priv \in Privates
                       /\ disk[d].rev \in Sidecars
                       /\ promised[d] \in Privates \ {Half} /\ revoked[d] \in Sidecars \ {Half}
    /\ store \in [Labels -> Keys \cup {None}]
    /\ \A p \in Procs : job[p].pc \in Resting \cup {"store", "pub", "fill", "priv", "expiry",
                           "reread", "revoke", "sidecar", "check"}
    /\ list \subseteq Dirs /\ label \in Labels
    /\ mixed \subseteq Dirs /\ cut \subseteq Dirs
    /\ started \in 0 .. MaxCommands /\ faults \in 0 .. MaxFaults

\* The key a directory's last complete revocation named is never accepted as a
\* recipient from there, also while the sidecar is being written again, for this
\* key or another, and after that was cut short.
RevokedStaysRefused ==
    \A p \in Cli : job[p].pc = "accepted" => job[p].key # job[p].gone
\* The same, of the window.
WindowRefusesRevoked ==
    \A p \in Gui : job[p].pc = "accepted" => job[p].key # job[p].gone

\* Unless two writers or an old copy met there, one was killed or an import
\* failed, the two files of a directory are of one key when nobody is writing
\* them: what the public key encrypts, the private key opens.  Failed writes are
\* not excused: a generation that fails must not leave its public key beside
\* the private key it was to replace.
PairMatches ==
    \A d \in Dirs \ (mixed \cup cut) :
        (\A p \in Procs : ~(Writes(p) /\ Dir(p) = d)) =>
        \/ None \in {disk[d].pub, disk[d].priv}
        \/ LET priv == disk[d].priv IN
           disk[d].pub.key = IF IsHardwareKey(priv) THEN StoredSeed(priv) ELSE priv.key

\* What was last written as a private key opens, with the passphrase it was
\* written with, whatever failed or was killed since: changing a passphrase or
\* generating over a key never leaves neither the old nor the new.
PrivateKeyKept ==
    \A d \in Dirs : promised[d] # None =>
        LET was == promised[d] IN
        IF IsHardwareKey(was) THEN LoadSeed(disk[d].priv, None) # None
        ELSE /\ disk[d].priv \notin {None, Half}
             /\ disk[d].priv.key = was.key /\ disk[d].priv.lock = was.lock
=============================================================================
