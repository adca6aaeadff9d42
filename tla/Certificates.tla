----------------------------- MODULE Certificates -----------------------------
(* Certificates and the CA's revocation list: issue-cert, revoke-cert,         *)
(* verify-cert and the commands that take a certificate for a key, from the    *)
(* command line, which reads its files step by step and writes the list in     *)
(* place, and from the window, which works on copies and writes atomically.    *)
EXTENDS Integers, Sequences, SequencesExt, FiniteSetsExt, FiniteSets, TLC

CONSTANTS
    Cli, Gui,       \* command-line processes, and the window
    None, Half,     \* no file; a list cut short while being written in place
    CaKeys,         \* keys that sign certificates and lists
    Subjects,       \* keys a certificate may speak for
    Uses, Masks,    \* uses, and the sets of them a certificate may allow
    Days,           \* for how long a certificate may be asked
    MaxTime,        \* bound: the clock
    MaxIssued,      \* bound: certificates in circulation
    MaxEntries,     \* the longest list (65 536 in the code)
    MaxBatch,       \* bound: recipients of one command
    MaxCommands,    \* bound: commands that revoke or check
    MaxFaults       \* bound: failed writes and killed processes

ASSUME CertificatesAssumption ==
    /\ {MaxTime, MaxIssued, MaxEntries, MaxBatch, MaxCommands, MaxFaults} \subseteq Nat
    /\ Days \subseteq Nat /\ Masks \subseteq (SUBSET Uses) \ {{}} /\ Cli \cap Gui = {} /\ None # Half

VARIABLES
    now,            \* the clock
    certs,          \* the certificates in circulation
    list,           \* the revocation list file
    copy,           \* what the window has loaded of it, to extend and to check by
    job,            \* what each process is doing
    revoked,        \* history: the bodies whose revocation was reported done
    forgot,         \* history: a list was replaced by one not made from it on request
    stale,          \* history: a list was replaced by one made from an older one, or
                    \* under a command that was still writing it
    started, faults

vars == <<now, certs, list, copy, job, revoked, forgot, stale, started, faults>>
history == <<revoked, forgot, stale>>
budget  == <<started, faults>>

Procs == Cli \cup Gui
Idle == [pc |-> "idle"]
Busy(p) == job[p] # Idle
Go(p, j) == job' = [job EXCEPT ![p] = j]
Step(p, pc) == Go(p, [job[p] EXCEPT !.pc = pc])
End(p) == Go(p, Idle)
Starts(p) == ~Busy(p) /\ started < MaxCommands /\ started' = started + 1 /\ UNCHANGED faults
Faults == faults < MaxFaults /\ faults' = faults + 1 /\ UNCHANGED started

(***************************************************************************)
(* What is signed.  Two certificates with the same body have the same id,  *)
(* whoever signed them.                                                    *)
(***************************************************************************)
EncodeBody(subject, nb, na, use) == [subject |-> subject, nb |-> nb, na |-> na, use |-> use]
SignAndFrame(body, key) == [body |-> body, by |-> key]
IssuedCert(key, subject, nb, na, use) == SignAndFrame(EncodeBody(subject, nb, na, use), key)
CertId(c) == c.body
\* When and why is recorded too, and read by nobody.
EncodeList(ids) == [ids |-> ids]

Raw == [raw |-> TRUE]                       \* a key that is not a certificate
IsCertificate(pem) == "body" \in DOMAIN pem
MutIsValidAt(body, t) == t >= body.nb
IsValidAt(body, t) == t >= body.nb /\ t <= body.na
Permits(body, use) == use \subseteq body.use
ParsesAsList(f) == f \notin {None, Half}
VerifySignedBody(x, key) == x.by = key

VerifyCert(key, c) == VerifySignedBody(c, key) /\ IsValidAt(c.body, now)
VerifyList(key, f) == ParsesAsList(f) /\ VerifySignedBody(f, key)
Find(f, id) == id \in ToSet(f.body.ids)
CheckNotRevoked(f, c) == ~Find(f, CertId(c))
\* Without a list nothing is checked; with one that does not verify, nothing passes.
CheckNotRevokedPem(key, f, c) == f = None \/ (VerifyList(key, f) /\ CheckNotRevoked(f, c))

\* An existing list is carried on as it parses, whoever signed it.
EntriesOf(existing) == IF existing = None THEN <<>> ELSE existing.body.ids
MutCanRevoke(existing) == /\ existing = None \/ ParsesAsList(existing)
                          /\ Len(EntriesOf(existing)) <= MaxEntries
CanRevoke(existing) == /\ existing = None \/ ParsesAsList(existing)
                       /\ Len(EntriesOf(existing)) < MaxEntries
MutRevokedList(key, existing, c) == SignAndFrame(EncodeList(<<CertId(c)>>), key)
RevokedList(key, existing, c) ==
    SignAndFrame(EncodeList(Append(EntriesOf(existing), CertId(c))), key)
--------------------------------------------------------------------------------
Init ==
    /\ now = 0 /\ certs = {} /\ list = None
    /\ copy = [existing |-> None, trusted |-> None]
    /\ job = [p \in Procs |-> Idle]
    /\ revoked = {} /\ forgot = FALSE /\ stale = FALSE
    /\ started = 0 /\ faults = 0

Tick == now < MaxTime /\ now' = now + 1
        /\ UNCHANGED <<certs, list, copy, job, history, budget>>

Issue(key, subject, nb, d, use) == certs' = certs \cup {IssuedCert(key, subject, nb, nb + d, use)}
MayIssue(p) == ~Busy(p) /\ Cardinality(certs) < MaxIssued
               /\ UNCHANGED <<now, list, copy, job, history, budget>>

\* A certificate may start on any day, and last none.  Dates after MaxTime are alike.
IssueCert(p) ==
    /\ p \in Cli /\ MayIssue(p)
    /\ \E key \in CaKeys, s \in Subjects, nb \in 0 .. MaxTime, d \in Days, use \in Masks :
          nb + d <= MaxTime /\ Issue(key, s, nb, d, use)

\* The window's start now, and last a day at least; it may find a file in the way.
FormAllows(d, use) == d >= 1 /\ use # {}
DoIssueCert(g) ==
    /\ g \in Gui /\ MayIssue(g)
    /\ \E key \in CaKeys, s \in Subjects, d \in Days, use \in Masks :
          FormAllows(d, use) /\ Issue(key, s, now, d, use)

(***************************************************************************)
(* revoke-cert: read the existing list, sign a longer one, write it over   *)
(* the file.  A write cut short leaves a list that nothing reads.          *)
(***************************************************************************)
BeginRevoke(p) ==
    /\ p \in Cli /\ Starts(p)
    /\ \E c \in certs, key \in CaKeys, append, force \in BOOLEAN :
          IF list # None /\ ~force THEN End(p)
          ELSE Go(p, [pc |-> "read", c |-> c, key |-> key, append |-> append])
    /\ UNCHANGED <<now, certs, list, copy, history>>

ReadExisting(p) ==
    LET j == job[p]  existing == IF j.append THEN list ELSE None IN
    /\ j.pc = "read"
    /\ IF (j.append /\ list = None) \/ ~CanRevoke(existing) THEN End(p)
       ELSE Go(p, [pc |-> "truncate", id |-> CertId(j.c), read |-> list, append |-> j.append,
                   new |-> RevokedList(j.key, existing, j.c)])
    /\ UNCHANGED <<now, certs, list, copy, history, budget>>

\* What the writer did to the lists before its own.
Replaces(old, read, append, alone) ==
    /\ forgot' = (forgot \/ (~append /\ revoked # {}))
    /\ stale'  = (stale \/ old # read \/ ~alone)
Writing == \E p \in Procs : job[p].pc = "write"

TruncateList(p) ==
    /\ job[p].pc = "truncate" /\ list' = Half /\ Step(p, "write")
    /\ Replaces(list, job[p].read, job[p].append, ~Writing)
    /\ UNCHANGED <<now, certs, copy, revoked, budget>>

WriteList(p) ==
    /\ job[p].pc = "write" /\ list' = job[p].new /\ End(p)
    /\ revoked' = revoked \cup {job[p].id} /\ Replaces(list, Half, TRUE, TRUE)
    /\ UNCHANGED <<now, certs, copy, budget>>

FailWrite(p) ==
    /\ job[p].pc \in {"truncate", "write"} /\ Faults /\ End(p)
    /\ UNCHANGED <<now, certs, list, copy, history>>
--------------------------------------------------------------------------------
(***************************************************************************)
(* Commands that take a certificate: the CA's key and the list are read    *)
(* once, then each certificate is resolved, and one refused refuses all.   *)
(* `known` is what was revoked before the command began, if it was given a *)
(* list to check by; without a CA key the list is not even read.           *)
(***************************************************************************)
Known(lists) == IF lists THEN revoked ELSE {}
Presented == UNION {SetToSeqs(S) : S \in kSubset(MaxBatch, certs) \cup kSubset(1, certs \cup {Raw})}

BeginResolve(p) ==
    /\ p \in Cli /\ Starts(p)
    /\ \E todo \in Presented, key \in CaKeys \cup {None}, use \in Uses, lists \in BOOLEAN :
          (lists => key # None) /\ Go(p, [pc |-> "trust", todo |-> todo, key |-> key, use |-> {use}, lists |-> lists,
                 trust |-> None, got |-> {}, known |-> Known(lists), since |-> now])
    /\ UNCHANGED <<now, certs, list, copy, history>>

LoadTrust(p) ==
    LET j == job[p] IN
    /\ j.pc = "trust"
    /\ IF ~j.lists THEN Step(p, "resolve")
       ELSE IF VerifyList(j.key, list) THEN Go(p, [j EXCEPT !.pc = "resolve", !.trust = list])
       ELSE End(p)
    /\ UNCHANGED <<now, certs, list, copy, history, budget>>

ResolvesWithCa(c, j) ==
    \/ ~IsCertificate(c)
    \/ /\ j.key # None /\ VerifyCert(j.key, c) /\ Permits(c.body, j.use)
       /\ (j.trust = None \/ CheckNotRevoked(j.trust, c))

Accept(p, j) == Go(p, [j EXCEPT !.pc = "accepted", !.todo = <<>>, !.trust = None])
ResolveNext(p) ==
    LET j == job[p]  c == Head(j.todo) IN
    /\ j.pc = "resolve"
    /\ IF ~ResolvesWithCa(c, j) THEN End(p)
       ELSE IF Len(j.todo) = 1 THEN Accept(p, [j EXCEPT !.got = @ \cup ({c} \ {Raw})])
       ELSE Go(p, [j EXCEPT !.todo = Tail(@), !.got = @ \cup ({c} \ {Raw})])
    /\ UNCHANGED <<now, certs, list, copy, history, budget>>

\* verify-cert looks at the certificate first and reads the list after.
BeginVerify(p) ==
    /\ p \in Cli /\ Starts(p)
    /\ \E c \in certs, key \in CaKeys, lists \in BOOLEAN :
          IF ~VerifyCert(key, c) THEN End(p)
          ELSE Go(p, [pc |-> "list", todo |-> <<>>, key |-> key, use |-> {}, lists |-> lists,
                      trust |-> None, got |-> {c}, known |-> Known(lists), since |-> now])
    /\ UNCHANGED <<now, certs, list, copy, history>>

CheckCertRevocation(p) ==
    LET j == job[p] IN
    /\ j.pc = "list"
    /\ IF j.lists /\ (list = None \/ \E c \in j.got : ~CheckNotRevokedPem(j.key, list, c))
       THEN End(p) ELSE Accept(p, j)
    /\ UNCHANGED <<now, certs, list, copy, history, budget>>

\* What was accepted is used, and the command is over.
Use(p) == job[p].pc = "accepted" /\ End(p)
          /\ UNCHANGED <<now, certs, list, copy, history, budget>>

Kill(p) == p \in Cli /\ Busy(p) /\ Faults /\ End(p)
           /\ UNCHANGED <<now, certs, list, copy, history>>
--------------------------------------------------------------------------------
(***************************************************************************)
(* The window.  Files are read when they are picked.                       *)
(***************************************************************************)
PickList(g) ==
    /\ g \in Gui /\ list # None
    /\ \E field \in {"existing", "trusted"} : copy' = [copy EXCEPT ![field] = list]
    /\ UNCHANGED <<now, certs, list, job, history, budget>>

DoRevokeCert(g) ==
    /\ g \in Gui /\ Starts(g)
    /\ \E c \in certs, key \in CaKeys, confirm \in BOOLEAN :
          IF CanRevoke(copy.existing) /\ ~(confirm /\ list # None)
          THEN /\ list' = RevokedList(key, copy.existing, c) /\ End(g)
               /\ revoked' = revoked \cup {CertId(c)}
               /\ forgot' = (forgot \/ (copy.existing = None /\ revoked # {}))
               /\ stale' = (stale \/ (copy.existing # None /\ list # copy.existing))
          ELSE End(g) /\ UNCHANGED <<list, history>>
    /\ UNCHANGED <<now, certs, copy>>

\* What the window was shown to be revoked is in the list it picked.
Accepted(got, key, f) ==
    [pc |-> "accepted", todo |-> <<>>, key |-> key, use |-> {}, lists |-> f # None, trust |-> f,
     got |-> got, known |-> IF f = None THEN {} ELSE ToSet(EntriesOf(f)), since |-> now]
DoVerifyCert(g) ==
    /\ g \in Gui /\ Starts(g)
    /\ \E c \in certs, key \in CaKeys :
          IF VerifyCert(key, c) /\ CheckNotRevokedPem(key, copy.trusted, c)
          THEN Go(g, Accepted({c}, key, copy.trusted))
          ELSE End(g)
    /\ UNCHANGED <<now, certs, list, copy, history>>

Next ==
    \/ Tick
    \/ \E p \in Procs :
        \/ IssueCert(p) \/ DoIssueCert(p) \/ BeginRevoke(p) \/ ReadExisting(p) \/ TruncateList(p) \/ WriteList(p)
        \/ FailWrite(p) \/ BeginResolve(p) \/ LoadTrust(p) \/ ResolveNext(p) \/ BeginVerify(p)
        \/ CheckCertRevocation(p) \/ Use(p) \/ Kill(p)
        \/ PickList(p) \/ DoRevokeCert(p) \/ DoVerifyCert(p)

Spec == Init /\ [][Next]_vars
--------------------------------------------------------------------------------
Signed(x, body) == DOMAIN x = {"body", "by"} /\ x.by \in CaKeys /\ body
IsList(f) == f \in {None, Half} \/ Signed(f, Len(f.body.ids) \in 1 .. MaxEntries)
JobFields(pc) ==
    CASE pc = "idle"       -> {"pc"}
      [] pc = "read"       -> {"pc", "c", "key", "append"}
      [] pc \in {"truncate", "write"} -> {"pc", "id", "read", "append", "new"}
      [] OTHER             -> {"pc", "todo", "key", "use", "lists", "trust", "got", "known", "since"}

TypeOK ==
    /\ now \in 0 .. MaxTime
    /\ \A c \in certs : Signed(c, c.body.subject \in Subjects /\ c.body.nb <= c.body.na
                                  /\ c.body.use \in Masks)
    /\ IsList(list) /\ IsList(copy.existing) /\ IsList(copy.trusted)
    /\ revoked \subseteq {CertId(c) : c \in certs}
    /\ \A p \in Procs : /\ DOMAIN job[p] = JobFields(job[p].pc)
                         /\ job[p].pc \in {"idle", "read", "truncate", "write", "trust",
                                          "resolve", "list", "accepted"}
                         /\ job[p].pc = "write" => list # None
    /\ {forgot, stale} \subseteq BOOLEAN
    /\ started \in 0 .. MaxCommands /\ faults \in 0 .. MaxFaults

\* A command given the CA's key and list accepts no certificate whose revocation had
\* been reported when it began, as long as every revocation was asked to extend the
\* list it found: whatever writes failed, were killed or were under way.
RevokedCertRefused ==
    \A p \in Procs : job[p].pc = "accepted" /\ job[p].lists /\ ~forgot /\ ~stale =>
        {CertId(c) : c \in job[p].got} \cap job[p].known = {}

\* What a command accepts was signed by the CA it was given, for the use at hand, and
\* was in its window of validity at some time of the command, however long the command
\* waited between reading the list and looking at each certificate.
AcceptedWasTrusted ==
    \A p \in Procs : job[p].pc = "accepted" =>
        \A c \in job[p].got :
            /\ c.by = job[p].key /\ job[p].use \subseteq c.body.use
            /\ c.body.nb <= now /\ job[p].since <= c.body.na

\* A revocation the window reported done stays on the list it saves, as long as it had
\* an existing list to append to.
WindowRevocationsKept ==
    ~forgot /\ ParsesAsList(list) => \A id \in revoked : Find(list, id)
=============================================================================
