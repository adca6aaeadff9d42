-------------------------- MODULE CertificatesProofs --------------------------
(***************************************************************************)
(* Machine-checked facts about Certificates, for any number of processes,  *)
(* signing keys, certificates and days.                                    *)
(***************************************************************************)
EXTENDS Certificates, SequenceTheorems, TLAPS

\* Of the constants only the clock's matter, and that a command is given
\* something to check.
ClockAssumption == MaxTime \in Nat /\ Days \subseteq Nat /\ MaxBatch \in Nat \ {0}

Certs    == [body : [subject : Subjects, nb : Int, na : Int, use : Masks], by : CaKeys]
PemFiles == Certs \cup {Raw}

\* The records of a command that revokes and of one that checks.
Revoking(j) == j = [pc |-> j.pc, id |-> j.id, read |-> j.read, append |-> j.append, new |-> j.new]
Checking(j) == j = [pc |-> j.pc, todo |-> j.todo, key |-> j.key, use |-> j.use,
                    lists |-> j.lists, trust |-> j.trust, got |-> j.got,
                    known |-> j.known, since |-> j.since]

\* What a command has let pass so far is good: the date only moves on.
GoodSoFar(j) ==
  /\ j.since \in Int /\ j.since <= now
  /\ \A c \in j.got : /\ c \in Certs /\ c.by = j.key /\ j.use \subseteq c.body.use
                      /\ c.body.nb <= now /\ j.since <= c.body.na

JobHolds(j) ==
  /\ j.pc \in {"idle", "read", "truncate", "write", "trust", "resolve", "list", "accepted"}
  /\ j.pc \in {"truncate", "write"} => Revoking(j)
  /\ j.pc \in {"trust", "resolve", "list", "accepted"} => Checking(j) /\ GoodSoFar(j)
  /\ j.pc \in {"trust", "resolve"} => j.todo \in Seq(PemFiles) /\ j.todo # <<>>

TrustInv ==
  /\ now \in Nat /\ certs \subseteq Certs
  /\ job = [p \in Procs |-> job[p]]
  /\ \A p \in Procs : JobHolds(job[p])
-----------------------------------------------------------------------------
LEMMA InitTrust == ASSUME Init PROVE TrustInv
<1>1. \A p \in Procs : job[p] = Idle
  BY DEF Init
<1>2. \A p \in Procs : JobHolds(job[p])
  BY <1>1 DEF JobHolds, Idle
<1> QED BY <1>2 DEF Init, TrustInv

\* A process that goes on with a good record leaves the others as they were.
LEMMA GoesOn ==
  ASSUME TrustInv, UNCHANGED <<now, certs>>, NEW p \in Procs, NEW j, JobHolds(j), Go(p, j)
  PROVE  TrustInv'
<1>1. job' = [q \in Procs |-> IF q = p THEN j ELSE job[q]]
  BY DEF Go, TrustInv
<1>2. \A q \in Procs : JobHolds(job'[q])
  BY <1>1 DEF TrustInv
<1>3. \A q \in Procs : JobHolds(job[q])'
  BY <1>2 DEF JobHolds, GoodSoFar, Revoking, Checking
<1> QED BY <1>1, <1>3 DEF TrustInv

LEMMA Ends == ASSUME TrustInv, UNCHANGED <<now, certs>>, NEW p \in Procs, End(p) PROVE TrustInv'
<1>1. JobHolds(Idle)
  BY DEF JobHolds, Idle
<1> QED BY <1>1, GoesOn DEF End

\* What a command is given is a list of certificates and keys.
LEMMA PresentedAreFiles ==
  ASSUME ClockAssumption, certs \subseteq Certs, NEW todo \in Presented
  PROVE  todo \in Seq(PemFiles) /\ todo # <<>>
<1>1. PICK S : /\ S \in kSubset(MaxBatch, certs) \cup kSubset(1, certs \cup {Raw})
               /\ todo \in SetToSeqs(S)
  BY DEF Presented
<1>2. S \subseteq PemFiles /\ Cardinality(S) \in Nat \ {0}
  BY <1>1 DEF kSubset, PemFiles, ClockAssumption
<1>3. todo \in [1 .. Cardinality(S) -> S]
  BY <1>1 DEF SetToSeqs
<1>4. todo \in [1 .. Cardinality(S) -> PemFiles]
  BY <1>2, <1>3
<1>5. todo \in Seq(PemFiles) /\ Len(todo) = Cardinality(S)
  BY <1>2, <1>4
<1> QED BY <1>2, <1>5

-----------------------------------------------------------------------------
(* Steps that touch no job. *)

LEMMA TickStep == ASSUME TrustInv, Tick PROVE TrustInv'
<1>1. now \in Nat /\ now' = now + 1 /\ UNCHANGED <<certs, job>>
  BY DEF TrustInv, Tick
<1>2. ASSUME NEW p \in Procs PROVE JobHolds(job[p])'
  <2>1. JobHolds(job[p])
    BY DEF TrustInv
  <2>2. ASSUME GoodSoFar(job[p]) PROVE GoodSoFar(job[p])'
    BY <1>1, <2>2 DEF GoodSoFar, Certs
  <2> QED BY <1>1, <2>1, <2>2 DEF JobHolds, Revoking, Checking
<1> QED BY <1>1, <1>2 DEF TrustInv

LEMMA IssueStep ==
  ASSUME ClockAssumption, TrustInv, NEW p \in Procs, IssueCert(p) \/ DoIssueCert(p)
  PROVE  TrustInv'
<1>1. UNCHANGED <<now, job>> /\ now \in Nat
  BY DEF IssueCert, DoIssueCert, MayIssue, TrustInv
<1>2. \E key \in CaKeys, s \in Subjects, nb \in Int, d \in Days, use \in Masks : Issue(key, s, nb, d, use)
  BY <1>1 DEF IssueCert, DoIssueCert, ClockAssumption
<1>3. certs' \subseteq Certs
  BY <1>2 DEF Issue, IssuedCert, SignAndFrame, EncodeBody, Certs, ClockAssumption, TrustInv
<1>4. \A q \in Procs : JobHolds(job[q])'
  BY <1>1 DEF TrustInv, JobHolds, GoodSoFar, Revoking, Checking
<1> QED BY <1>1, <1>3, <1>4 DEF TrustInv

-----------------------------------------------------------------------------
(* Commands that revoke: their records hold nothing that was let pass. *)

LEMMA RevokeStep ==
  ASSUME TrustInv, NEW p \in Procs,
         BeginRevoke(p) \/ ReadExisting(p) \/ TruncateList(p) \/ WriteList(p) \/ DoRevokeCert(p)
           \/ FailWrite(p) \/ Kill(p) \/ Use(p)
  PROVE  TrustInv'
<1>u. UNCHANGED <<now, certs>>
  BY DEF BeginRevoke, ReadExisting, TruncateList, WriteList, DoRevokeCert, FailWrite, Kill, Use
<1>1. CASE BeginRevoke(p)
  <2>1. PICK c \in certs, key \in CaKeys, append \in BOOLEAN :
          End(p) \/ Go(p, [pc |-> "read", c |-> c, key |-> key, append |-> append])
    BY <1>1 DEF BeginRevoke
  <2>2. JobHolds([pc |-> "read", c |-> c, key |-> key, append |-> append])
    BY DEF JobHolds
  <2> QED BY <1>u, <2>1, <2>2, GoesOn, Ends
<1>2. CASE ReadExisting(p)
  <2>1. PICK id, new, append :
          End(p) \/ Go(p, [pc |-> "truncate", id |-> id, read |-> list, append |-> append, new |-> new])
    BY <1>2 DEF ReadExisting
  <2>2. JobHolds([pc |-> "truncate", id |-> id, read |-> list, append |-> append, new |-> new])
    BY DEF JobHolds, Revoking
  <2> QED BY <1>u, <2>1, <2>2, GoesOn, Ends
<1>3. CASE TruncateList(p)
  <2>1. Revoking(job[p])
    BY <1>3 DEF TruncateList, TrustInv, JobHolds
  <2>2. Go(p, [job[p] EXCEPT !.pc = "write"])
    BY <1>3 DEF TruncateList, Step
  <2>3. [job[p] EXCEPT !.pc = "write"]
          = [pc |-> "write", id |-> job[p].id, read |-> job[p].read, append |-> job[p].append,
             new |-> job[p].new]
    BY <2>1 DEF Revoking
  <2>4. JobHolds([job[p] EXCEPT !.pc = "write"])
    BY <2>3 DEF JobHolds, Revoking
  <2> QED BY <1>u, <2>2, <2>4, GoesOn
<1>4. CASE WriteList(p) \/ DoRevokeCert(p) \/ FailWrite(p) \/ Kill(p) \/ Use(p)
  <2>1. End(p)
    BY <1>4 DEF WriteList, DoRevokeCert, FailWrite, Kill, Use
  <2> QED BY <1>u, <2>1, Ends
<1> QED BY <1>1, <1>2, <1>3, <1>4

-----------------------------------------------------------------------------
(* Commands that check. *)

LEMMA BeginStep ==
  ASSUME ClockAssumption, TrustInv, NEW p \in Procs,
         BeginResolve(p) \/ BeginVerify(p) \/ DoVerifyCert(p)
  PROVE  TrustInv'
<1>u. UNCHANGED <<now, certs>> /\ now \in Nat
  BY DEF BeginResolve, BeginVerify, DoVerifyCert, TrustInv
<1>1. CASE BeginResolve(p)
  <2>1. PICK todo \in Presented, key \in CaKeys \cup {None}, use \in Uses, lists \in BOOLEAN :
          Go(p, [pc |-> "trust", todo |-> todo, key |-> key, use |-> {use}, lists |-> lists,
                 trust |-> None, got |-> {}, known |-> Known(lists), since |-> now])
    BY <1>1 DEF BeginResolve
  <2>2. todo \in Seq(PemFiles) /\ todo # <<>>
    BY <2>1, PresentedAreFiles DEF TrustInv
  <2>3. JobHolds([pc |-> "trust", todo |-> todo, key |-> key, use |-> {use}, lists |-> lists,
                  trust |-> None, got |-> {}, known |-> Known(lists), since |-> now])
    BY <1>u, <2>2 DEF JobHolds, Checking, GoodSoFar
  <2> QED BY <1>u, <2>1, <2>3, GoesOn
<1>2. CASE BeginVerify(p)
  <2>1. PICK c \in certs, key \in CaKeys, lists \in BOOLEAN :
          IF ~VerifyCert(key, c) THEN End(p)
          ELSE Go(p, [pc |-> "list", todo |-> <<>>, key |-> key, use |-> {}, lists |-> lists,
                      trust |-> None, got |-> {c}, known |-> Known(lists), since |-> now])
    BY <1>2 DEF BeginVerify
  <2>2. ASSUME VerifyCert(key, c)
        PROVE  JobHolds([pc |-> "list", todo |-> <<>>, key |-> key, use |-> {}, lists |-> lists,
                         trust |-> None, got |-> {c}, known |-> Known(lists), since |-> now])
    <3>1. c \in Certs /\ c.by = key /\ c.body.nb <= now /\ now <= c.body.na
      BY <1>u, <2>1, <2>2 DEF TrustInv, VerifyCert, VerifySignedBody, IsValidAt, Certs
    <3> QED BY <1>u, <3>1 DEF JobHolds, Checking, GoodSoFar
  <2> QED BY <1>u, <2>1, <2>2, GoesOn, Ends
<1>3. CASE DoVerifyCert(p)
  <2>1. PICK c \in certs, key \in CaKeys :
          IF VerifyCert(key, c) /\ CheckNotRevokedPem(key, copy.trusted, c)
          THEN Go(p, Accepted({c}, key, copy.trusted))
          ELSE End(p)
    BY <1>3 DEF DoVerifyCert
  <2>2. ASSUME VerifyCert(key, c) PROVE JobHolds(Accepted({c}, key, copy.trusted))
    <3>1. c \in Certs /\ c.by = key /\ c.body.nb <= now /\ now <= c.body.na
      BY <1>u, <2>1, <2>2 DEF TrustInv, VerifyCert, VerifySignedBody, IsValidAt, Certs
    <3> QED BY <1>u, <3>1 DEF JobHolds, Checking, GoodSoFar, Accepted
  <2> QED BY <1>u, <2>1, <2>2, GoesOn, Ends
<1> QED BY <1>1, <1>2, <1>3

\* Going on with the same certificates let pass.
Fields == {"pc", "todo", "key", "use", "lists", "trust", "got", "known", "since"}
ByFields(j) == j = [f \in Fields |-> j[f]]

LEMMA Passing ==
  ASSUME TrustInv, NEW p \in Procs, job[p].pc \in {"trust", "resolve", "list"},
         NEW pc \in {"resolve", "accepted"}, NEW todo, NEW trust, NEW got,
         pc = "resolve" => todo \in Seq(PemFiles) /\ todo # <<>>,
         \A c \in got \ job[p].got :
           /\ c \in Certs /\ c.by = job[p].key /\ job[p].use \subseteq c.body.use
           /\ c.body.nb <= now /\ now <= c.body.na
  PROVE  JobHolds([job[p] EXCEPT !.pc = pc, !.todo = todo, !.trust = trust, !.got = got])
<1> DEFINE j == job[p]
           k == [j EXCEPT !.pc = pc, !.todo = todo, !.trust = trust, !.got = got]
<1>1. Checking(j) /\ GoodSoFar(j) /\ now \in Nat
  BY DEF TrustInv, JobHolds
<1>2. /\ Checking(k) /\ k.pc = pc /\ k.todo = todo /\ k.got = got
      /\ k.key = j.key /\ k.use = j.use /\ k.since = j.since
  <2>1. ByFields(j)
    BY <1>1 DEF Checking, ByFields, Fields
  <2> HIDE DEF j
  <2>2. ByFields(k)
    BY <2>1 DEF ByFields, Fields
  <2>3. k.pc = pc /\ k.todo = todo /\ k.got = got
    BY <2>1 DEF ByFields, Fields
  <2>4. k.key = j.key /\ k.use = j.use /\ k.since = j.since
    BY <2>1 DEF ByFields, Fields
  <2>5. Checking(k)
    <3> HIDE DEF k
    <3> QED BY <2>2 DEF Checking, ByFields, Fields
  <2> QED BY <2>3, <2>4, <2>5
<1> HIDE DEF k
<1>3. GoodSoFar(k)
  <2>1. ASSUME NEW c \in got
        PROVE  /\ c \in Certs /\ c.by = j.key /\ j.use \subseteq c.body.use
               /\ c.body.nb <= now /\ j.since <= c.body.na
    BY <1>1, <2>1 DEF GoodSoFar, Certs
  <2> QED BY <1>1, <1>2, <2>1 DEF GoodSoFar
<1>4. JobHolds(k)
  BY <1>2, <1>3 DEF JobHolds
<1> QED BY <1>4 DEF k

LEMMA CheckStep ==
  ASSUME TrustInv, NEW p \in Procs, LoadTrust(p) \/ CheckCertRevocation(p) \/ ResolveNext(p)
  PROVE  TrustInv'
<1> DEFINE j == job[p]
<1>u. UNCHANGED <<now, certs>> /\ JobHolds(j)
  BY DEF LoadTrust, CheckCertRevocation, ResolveNext, TrustInv
<1>1. CASE LoadTrust(p)
  <2>1. /\ j.pc = "trust" /\ j.todo \in Seq(PemFiles) /\ j.todo # <<>> /\ Checking(j)
        /\ \/ End(p) \/ Go(p, [j EXCEPT !.pc = "resolve"])
           \/ Go(p, [j EXCEPT !.pc = "resolve", !.trust = list])
    BY <1>1, <1>u DEF LoadTrust, Step, JobHolds
  <2>2. /\ [j EXCEPT !.pc = "resolve"]
             = [j EXCEPT !.pc = "resolve", !.todo = j.todo, !.trust = j.trust, !.got = j.got]
        /\ [j EXCEPT !.pc = "resolve", !.trust = list]
             = [j EXCEPT !.pc = "resolve", !.todo = j.todo, !.trust = list, !.got = j.got]
    BY <2>1 DEF Checking
  <2>3. ASSUME NEW trust
        PROVE  JobHolds([j EXCEPT !.pc = "resolve", !.todo = j.todo, !.trust = trust, !.got = j.got])
    BY <2>1, Passing
  <2>4. JobHolds([j EXCEPT !.pc = "resolve"])
    BY <2>2, <2>3
  <2>5. JobHolds([j EXCEPT !.pc = "resolve", !.trust = list])
    BY <2>2, <2>3
  <2> QED BY <1>u, <2>1, <2>4, <2>5, GoesOn, Ends
<1>2. CASE CheckCertRevocation(p)
  <2>1. /\ j.pc = "list" /\ Checking(j)
        /\ \/ End(p) \/ Go(p, [j EXCEPT !.pc = "accepted", !.todo = <<>>, !.trust = None])
    BY <1>2, <1>u DEF CheckCertRevocation, Accept, JobHolds
  <2>2. [j EXCEPT !.pc = "accepted", !.todo = <<>>, !.trust = None]
          = [j EXCEPT !.pc = "accepted", !.todo = <<>>, !.trust = None, !.got = j.got]
    BY <2>1 DEF Checking
  <2>3. JobHolds([j EXCEPT !.pc = "accepted", !.todo = <<>>, !.trust = None, !.got = j.got])
    BY <2>1, Passing
  <2>4. JobHolds([j EXCEPT !.pc = "accepted", !.todo = <<>>, !.trust = None])
    BY <2>2, <2>3
  <2> QED BY <1>u, <2>1, <2>4, GoesOn, Ends
<1>3. CASE ResolveNext(p)
  <2> DEFINE c   == Head(j.todo)
             got == j.got \cup ({c} \ {Raw})
  <2>1. j.pc = "resolve" /\ j.todo \in Seq(PemFiles) /\ j.todo # <<>> /\ Checking(j)
    BY <1>3, <1>u DEF ResolveNext, JobHolds
  <2>2. /\ c \in PemFiles /\ Tail(j.todo) \in Seq(PemFiles)
        /\ Len(j.todo) # 1 => Tail(j.todo) # <<>>
    <3>1. c \in PemFiles /\ Tail(j.todo) \in Seq(PemFiles) /\ Len(Tail(j.todo)) = Len(j.todo) - 1
      BY <2>1, HeadTailProperties
    <3>2. Len(j.todo) \in Nat
      BY <2>1, LenProperties
    <3>3. Tail(j.todo) = <<>> => Len(Tail(j.todo)) = 0
      BY <3>1, EmptySeq
    <3> QED BY <3>1, <3>2, <3>3
  <2>3. CASE ~ResolvesWithCa(c, j)
    BY <1>3, <1>u, <2>3, Ends DEF ResolveNext
  <2>4. CASE ResolvesWithCa(c, j)
    <3>1. ASSUME NEW d \in got \ j.got
          PROVE  /\ d \in Certs /\ d.by = j.key /\ j.use \subseteq d.body.use
                 /\ d.body.nb <= now /\ now <= d.body.na
      <4>1. d = c /\ c \in Certs
        BY <2>2, <3>1 DEF PemFiles
      <4>2. IsCertificate(c)
        BY <4>1 DEF Certs, IsCertificate
      <4>3. VerifyCert(j.key, c) /\ Permits(c.body, j.use)
        BY <2>4, <4>2 DEF ResolvesWithCa
      <4>4. now \in Nat /\ c.body.nb \in Int /\ c.body.na \in Int
        BY <4>1 DEF Certs, TrustInv
      <4> QED BY <4>1, <4>3, <4>4 DEF VerifyCert, VerifySignedBody, IsValidAt, Permits
    <3>2. \/ Go(p, [[j EXCEPT !.got = got] EXCEPT !.pc = "accepted", !.todo = <<>>, !.trust = None])
          \/ Len(j.todo) # 1 /\ Go(p, [j EXCEPT !.todo = Tail(j.todo), !.got = got])
      BY <1>3, <2>4 DEF ResolveNext, Accept
    <3>3. /\ [[j EXCEPT !.got = got] EXCEPT !.pc = "accepted", !.todo = <<>>, !.trust = None]
               = [j EXCEPT !.pc = "accepted", !.todo = <<>>, !.trust = None, !.got = got]
          /\ [j EXCEPT !.todo = Tail(j.todo), !.got = got]
               = [j EXCEPT !.pc = "resolve", !.todo = Tail(j.todo), !.trust = j.trust, !.got = got]
      <4> HIDE DEF got
      <4> QED BY <2>1 DEF Checking
    <3>4. JobHolds([j EXCEPT !.pc = "accepted", !.todo = <<>>, !.trust = None, !.got = got])
      <4> HIDE DEF got
      <4> QED BY <2>1, <3>1, Passing
    <3>5. ASSUME Len(j.todo) # 1
          PROVE  JobHolds([j EXCEPT !.pc = "resolve", !.todo = Tail(j.todo), !.trust = j.trust, !.got = got])
      <4> HIDE DEF got
      <4> QED BY <2>1, <2>2, <3>1, <3>5, Passing
    <3> HIDE DEF got
    <3> QED BY <1>u, <3>2, <3>3, <3>4, <3>5, GoesOn
  <2> QED BY <2>3, <2>4
<1> QED BY <1>1, <1>2, <1>3

-----------------------------------------------------------------------------
LEMMA TrustInvariant == ASSUME ClockAssumption PROVE Spec => []TrustInv
<1>1. Init => TrustInv
  BY InitTrust
<1>2. TrustInv /\ [Next]_vars => TrustInv'
  <2> SUFFICES ASSUME TrustInv, [Next]_vars PROVE TrustInv'
    OBVIOUS
  <2>1. CASE UNCHANGED vars
    BY <2>1 DEF vars, TrustInv, JobHolds, GoodSoFar, Revoking, Checking
  <2>2. CASE Tick
    BY <2>2, TickStep
  <2>3. ASSUME NEW p \in Procs, PickList(p) PROVE TrustInv'
    BY <2>3 DEF PickList, TrustInv, JobHolds, GoodSoFar, Revoking, Checking
  <2> QED BY <2>1, <2>2, <2>3, IssueStep, RevokeStep, BeginStep, CheckStep DEF Next
<1> QED BY <1>1, <1>2, PTL DEF Spec

\* Whatever a command accepts was signed by the CA it was given, permits the use
\* at hand, and was in its window of validity at some time of the command: for any
\* number of processes, however they are interleaved, delayed or killed.
THEOREM AcceptedAreTrusted == ASSUME ClockAssumption PROVE Spec => []AcceptedWasTrusted
<1>1. TrustInv => AcceptedWasTrusted
  BY DEF TrustInv, JobHolds, GoodSoFar, AcceptedWasTrusted
<1> QED BY <1>1, TrustInvariant, PTL
-----------------------------------------------------------------------------
(* What is revoked.  Two histories are set by it apart: a list that was not to *)
(* extend the one before, and a list made from an older one.                 *)

Ids      == [subject : Subjects, nb : Int, na : Int, use : Masks]
Lists    == {f \in [body : [ids : Seq(Ids)], by : CaKeys] : Len(f.body.ids) \in 1 .. MaxEntries}
On(f)    == ToSet(f.body.ids)
ListFile(f) == f \in {None, Half} \/ f \in Lists
IssuedIds   == {CertId(c) : c \in certs}
Unbroken    == ~forgot /\ ~stale

\* A list is not taken for a missing or a torn one.
ListAssumption == None \notin Lists /\ Half \notin Lists

\* A command that revokes holds a list with the new entry, and with every entry of
\* the list it read if it is to extend that one.
RevokeHolds(j) ==
  /\ j.pc = "idle" => j = Idle
  /\ j.pc = "read" => /\ j = [pc |-> j.pc, c |-> j.c, key |-> j.key, append |-> j.append]
                      /\ j.c \in certs /\ j.key \in CaKeys
  /\ j.pc \in {"truncate", "write"} =>
       /\ j.new \in Lists /\ j.id \in On(j.new) /\ j.id \in IssuedIds
       /\ j.append => j.read \in Lists /\ On(j.read) \subseteq On(j.new)
  /\ j.pc = "write" => list # None

ListsTyped ==
  /\ ListFile(list) /\ ListFile(copy.existing) /\ ListFile(copy.trusted)
  /\ copy = [existing |-> copy.existing, trusted |-> copy.trusted]
  /\ revoked \subseteq IssuedIds
  /\ \A p \in Procs : RevokeHolds(job[p])

\* The list holds all that was revoked; while it is torn, the one command that is
\* writing it holds a list that does.
RevocationsKept ==
  /\ list = None => revoked = {}
  /\ list \in Lists => revoked \subseteq On(list)
  /\ \A p \in Procs : job[p].pc = "write" =>
       /\ list = Half => revoked \subseteq On(job[p].new)
       /\ \A q \in Procs : job[q].pc = "write" => q = p

\* Nothing let pass is known to be revoked.
Clean(j) == \A c \in j.got : CertId(c) \notin j.known

\* A command that checks has what was revoked before it began, once it has read
\* the list.
CheckHolds(j) ==
  j.pc \in {"trust", "resolve", "list", "accepted"} =>
    /\ ~j.lists => j.known = {}
    /\ j.pc \in {"trust", "list"} => j.known \subseteq revoked
    /\ j.pc = "trust" => j.got = {}
    /\ j.pc = "resolve" /\ j.lists => j.trust \in Lists
    /\ Unbroken /\ j.pc = "resolve" /\ j.lists => j.known \subseteq On(j.trust)
    /\ Unbroken /\ j.pc \in {"resolve", "accepted"} => Clean(j)

RevokedInv ==
  /\ TrustInv /\ ListsTyped
  /\ Unbroken => RevocationsKept
  /\ \A p \in Procs : CheckHolds(job[p])

Bounded ==
  /\ now \in 0 .. MaxTime /\ started \in 0 .. MaxCommands /\ faults \in 0 .. MaxFaults
  /\ {forgot, stale} \subseteq BOOLEAN
  /\ \A c \in certs : c.body.nb <= c.body.na
-----------------------------------------------------------------------------
(* Lists as sets of entries. *)

LEMMA Extended ==
  ASSUME NEW f, f = None \/ f \in Lists, CanRevoke(f), NEW key \in CaKeys, NEW c \in Certs,
         ListAssumption, CertificatesAssumption
  PROVE  /\ RevokedList(key, f, c) \in Lists
         /\ CertId(c) \in On(RevokedList(key, f, c))
         /\ f \in Lists => On(f) \subseteq On(RevokedList(key, f, c))
<1>1. PICK id \in Ids : id = CertId(c)
  BY DEF Certs, Ids, CertId
<1>2. PICK s : s = EntriesOf(f)
  OBVIOUS
<1>3. s \in Seq(Ids) /\ (f \in Lists => s = f.body.ids)
  <2>1. CASE f = None
    BY <1>2, <2>1, EmptySeq DEF EntriesOf, ListAssumption
  <2>2. CASE f \in Lists
    BY <1>2, <2>2 DEF EntriesOf, ListAssumption, Lists
  <2> QED BY <2>1, <2>2
<1>4. Len(s) < MaxEntries /\ Len(s) \in Nat /\ MaxEntries \in Nat
  BY <1>2, <1>3, LenProperties DEF CanRevoke, CertificatesAssumption
<1>5. PICK t : t = Append(s, id)
  OBVIOUS
<1>6. /\ t \in Seq(Ids) /\ Len(t) = Len(s) + 1 /\ DOMAIN t = 1 .. Len(t) /\ DOMAIN s = 1 .. Len(s)
      /\ \A i \in 1 .. Len(s) : t[i] = s[i]
      /\ t[Len(s) + 1] = id
  BY <1>3, <1>5, AppendProperties, LenProperties
<1>7. id \in ToSet(t) /\ ToSet(s) \subseteq ToSet(t)
  BY <1>4, <1>6 DEF ToSet
<1>8. RevokedList(key, f, c) = [body |-> [ids |-> t], by |-> key]
  BY <1>1, <1>2, <1>5 DEF RevokedList, SignAndFrame, EncodeList
<1>9. Len(t) \in 1 .. MaxEntries
  BY <1>4, <1>6
<1>10. PICK new : new = RevokedList(key, f, c)
  OBVIOUS
<1>11. new \in Lists /\ On(new) = ToSet(t)
  BY <1>6, <1>8, <1>9, <1>10 DEF Lists, On
<1> QED BY <1>1, <1>3, <1>7, <1>10, <1>11 DEF On

LEMMA ParsedIsList ==
  ASSUME NEW f, ListFile(f), ParsesAsList(f)
  PROVE  f \in Lists
BY DEF ListFile, ParsesAsList

-----------------------------------------------------------------------------
(* A command goes on, and the list is as it was. *)

\* Certificates only get more.
LEMMA MoreIssued ==
  ASSUME certs \subseteq certs'
  PROVE  IssuedIds \subseteq IssuedIds'
BY DEF IssuedIds, CertId

\* What a job holds, it holds as certificates and revocations get more.
LEMMA HoldsOn ==
  ASSUME NEW j, RevokeHolds(j), CheckHolds(j), certs \subseteq certs', revoked \subseteq revoked',
         Unbroken' => Unbroken, list' = None => list = None
  PROVE  RevokeHolds(j)' /\ CheckHolds(j)'
<1>1. IssuedIds \subseteq IssuedIds'
  BY MoreIssued
<1>2. RevokeHolds(j)'
  BY <1>1 DEF RevokeHolds
<1>3. CheckHolds(j)'
  BY DEF CheckHolds
<1> QED BY <1>2, <1>3

LEMMA ListsGoOn ==
  ASSUME RevokedInv, TrustInv', NEW p \in Procs, NEW j, Go(p, j),
         certs \subseteq certs', UNCHANGED <<list, copy, revoked, forgot, stale>>,
         RevokeHolds(j), CheckHolds(j), j.pc # "write"
  PROVE  RevokedInv'
<1>1. job' = [q \in Procs |-> IF q = p THEN j ELSE job[q]]
  BY DEF Go, RevokedInv, TrustInv
<1>2. \A q \in Procs : RevokeHolds(job'[q]) /\ CheckHolds(job'[q])
  BY <1>1 DEF RevokedInv, ListsTyped
<1>3. /\ revoked \subseteq revoked' /\ (Unbroken' => Unbroken) /\ (list' = None => list = None)
      /\ IssuedIds \subseteq IssuedIds'
  BY MoreIssued DEF Unbroken
<1>4. \A q \in Procs : RevokeHolds(job[q])' /\ CheckHolds(job[q])'
  <2>1. ASSUME NEW q \in Procs PROVE RevokeHolds(job[q])' /\ CheckHolds(job[q])'
    <3>1. PICK k : k = job'[q]
      OBVIOUS
    <3>2. RevokeHolds(k) /\ CheckHolds(k)
      BY <1>2, <3>1
    <3>3. RevokeHolds(k)' /\ CheckHolds(k)'
      BY <1>3, <3>2, HoldsOn
    <3> QED BY <3>1, <3>3
  <2> QED BY <2>1
<1>5. ListsTyped'
  BY <1>3, <1>4 DEF RevokedInv, ListsTyped, ListFile
<1>6. Unbroken' => RevocationsKept'
  <2>1. ASSUME Unbroken' PROVE RevocationsKept
    BY <1>3, <2>1 DEF RevokedInv
  <2>2. ASSUME RevocationsKept PROVE RevocationsKept'
    <3>1. \A q \in Procs : job'[q].pc = "write" => q # p /\ job'[q] = job[q]
      BY <1>1
    <3> QED BY <2>2, <3>1 DEF RevocationsKept
  <2> QED BY <2>1, <2>2
<1> QED BY <1>4, <1>5, <1>6 DEF RevokedInv

LEMMA IdleHolds == RevokeHolds(Idle) /\ CheckHolds(Idle) /\ Idle.pc # "write"
BY DEF RevokeHolds, CheckHolds, Idle

LEMMA ListsEnd ==
  ASSUME RevokedInv, TrustInv', NEW p \in Procs, End(p),
         certs \subseteq certs', UNCHANGED <<list, copy, revoked, forgot, stale>>
  PROVE  RevokedInv'
<1>1. PICK j : j = Idle
  OBVIOUS
<1>2. RevokeHolds(j) /\ CheckHolds(j) /\ j.pc # "write"
  BY <1>1, IdleHolds
<1>3. Go(p, j)
  BY <1>1 DEF End
<1> QED BY <1>2, <1>3, ListsGoOn

\* No job changes.
LEMMA ListsStay ==
  ASSUME RevokedInv, TrustInv', certs \subseteq certs', UNCHANGED <<list, revoked, forgot, stale, job>>,
         copy' = [existing |-> copy'.existing, trusted |-> copy'.trusted],
         ListFile(copy'.existing), ListFile(copy'.trusted)
  PROVE  RevokedInv'
<1>1. /\ revoked \subseteq revoked' /\ (Unbroken' => Unbroken) /\ (list' = None => list = None)
      /\ IssuedIds \subseteq IssuedIds'
  BY MoreIssued DEF Unbroken
<1>2. ASSUME NEW q \in Procs PROVE RevokeHolds(job[q])' /\ CheckHolds(job[q])'
  <2>1. PICK k : k = job[q]
    OBVIOUS
  <2>2. RevokeHolds(k) /\ CheckHolds(k)
    BY <2>1 DEF RevokedInv, ListsTyped
  <2>3. RevokeHolds(k)' /\ CheckHolds(k)'
    BY <1>1, <2>2, HoldsOn
  <2>4. job'[q] = k
    BY <2>1
  <2> QED BY <2>3, <2>4
<1>3. ListsTyped'
  BY <1>1, <1>2 DEF RevokedInv, ListsTyped, ListFile
<1>4. Unbroken' => RevocationsKept'
  BY <1>1 DEF RevokedInv, RevocationsKept
<1> QED BY <1>2, <1>3, <1>4 DEF RevokedInv

-----------------------------------------------------------------------------
(* Commands that revoke. *)

LEMMA BeginRevokeLists ==
  ASSUME RevokedInv, TrustInv', NEW p \in Procs, BeginRevoke(p)
  PROVE  RevokedInv'
<1>1. /\ UNCHANGED <<certs, list, copy, revoked, forgot, stale>>
  BY DEF BeginRevoke, history
<1>2. PICK c \in certs, key \in CaKeys, append \in BOOLEAN :
        End(p) \/ Go(p, [pc |-> "read", c |-> c, key |-> key, append |-> append])
  BY DEF BeginRevoke
<1>3. PICK j : j = [pc |-> "read", c |-> c, key |-> key, append |-> append]
  OBVIOUS
<1>4. RevokeHolds(j) /\ CheckHolds(j) /\ j.pc # "write"
  BY <1>3 DEF RevokeHolds, CheckHolds
<1> QED BY <1>1, <1>2, <1>3, <1>4, ListsGoOn, ListsEnd

LEMMA ReadLists ==
  ASSUME ListAssumption, RevokedInv, TrustInv', NEW p \in Procs, ReadExisting(p)
  PROVE  RevokedInv'
<1>1. UNCHANGED <<certs, list, copy, revoked, forgot, stale>>
  BY DEF ReadExisting, history
<1>2. PICK r : r = job[p]
  OBVIOUS
<1>3. PICK existing : existing = IF r.append THEN list ELSE None
  OBVIOUS
<1>4. PICK j : j = [pc |-> "truncate", id |-> CertId(r.c), read |-> list, append |-> r.append,
                    new |-> RevokedList(r.key, existing, r.c)]
  OBVIOUS
<1>5. /\ r.pc = "read"
      /\ End(p) \/ (/\ ~(r.append /\ list = None) /\ CanRevoke(existing) /\ Go(p, j))
  BY <1>2, <1>3, <1>4 DEF ReadExisting
<1>6. CASE ~(r.append /\ list = None) /\ CanRevoke(existing) /\ Go(p, j)
  <2>1. /\ r.c \in Certs /\ r.c \in certs /\ r.key \in CaKeys /\ ListFile(list)
    BY <1>2, <1>5 DEF RevokedInv, TrustInv, ListsTyped, RevokeHolds
  <2>2. existing = None \/ existing \in Lists
    BY <1>6, ParsedIsList, <1>3, <2>1 DEF CanRevoke
  <2>3. /\ j.new \in Lists /\ j.id \in On(j.new)
        /\ existing \in Lists => On(existing) \subseteq On(j.new)
    <3>1. PICK new : new = RevokedList(r.key, existing, r.c)
      OBVIOUS
    <3>2. /\ new \in Lists /\ CertId(r.c) \in On(new)
          /\ existing \in Lists => On(existing) \subseteq On(new)
      BY <1>6, <2>1, <2>2, <3>1, Extended, CertificatesAssumption
    <3>3. j.new = new /\ j.id = CertId(r.c)
      BY <1>4, <3>1
    <3> QED BY <3>2, <3>3
  <2>4. j.append => existing = list /\ j.read = list /\ list # None
    BY <1>3, <1>4, <1>6
  <2>5. j.id \in IssuedIds /\ j.pc = "truncate"
    BY <1>4, <2>1 DEF IssuedIds
  <2>6. RevokeHolds(j) /\ CheckHolds(j) /\ j.pc # "write"
    BY <2>2, <2>3, <2>4, <2>5 DEF RevokeHolds, CheckHolds
  <2> QED BY <1>1, <1>6, <2>6, ListsGoOn
<1> QED BY <1>1, <1>5, <1>6, ListsEnd

\* The list is replaced: what every other job holds stays.
LEMMA Replaced ==
  ASSUME RevokedInv, TrustInv', NEW p \in Procs, NEW j, Go(p, j), RevokeHolds(j)', CheckHolds(j)',
         UNCHANGED <<certs, copy>>, revoked \subseteq revoked', revoked' \subseteq IssuedIds,
         Unbroken' => Unbroken, ListFile(list'), list' # None,
         Unbroken' => RevocationsKept'
  PROVE  RevokedInv'
<1>1. job' = [q \in Procs |-> IF q = p THEN j ELSE job[q]]
  BY DEF Go, RevokedInv, TrustInv
<1>2. ASSUME NEW q \in Procs PROVE RevokeHolds(job[q])' /\ CheckHolds(job[q])'
  <2>1. PICK k : k = job[q]
    OBVIOUS
  <2>2. RevokeHolds(k) /\ CheckHolds(k)
    BY <2>1 DEF RevokedInv, ListsTyped
  <2>3. RevokeHolds(k)' /\ CheckHolds(k)'
    BY <2>2, HoldsOn
  <2>4. job'[q] = IF q = p THEN j ELSE k
    BY <1>1, <2>1
  <2>5. CASE q = p
    BY <2>4, <2>5
  <2>6. CASE q # p
    BY <2>3, <2>4, <2>6
  <2> QED BY <2>5, <2>6
<1>3. IssuedIds' = IssuedIds
  BY DEF IssuedIds, CertId
<1>4. ListsTyped'
  BY <1>2, <1>3 DEF RevokedInv, ListsTyped, ListFile
<1> QED BY <1>2, <1>4 DEF RevokedInv

LEMMA TruncateLists ==
  ASSUME ListAssumption, RevokedInv, TrustInv', NEW p \in Procs, TruncateList(p)
  PROVE  RevokedInv'
<1>1. UNCHANGED <<certs, copy, revoked>> /\ list' = Half
  BY DEF TruncateList
<1>2. PICK r : r = job[p]
  OBVIOUS
<1>3. PICK j : j = [r EXCEPT !.pc = "write"]
  OBVIOUS
<1>4. Go(p, j) /\ r.pc = "truncate"
  BY <1>2, <1>3 DEF TruncateList, Step
<1>5. /\ Revoking(r) /\ r.new \in Lists /\ r.id \in On(r.new) /\ r.id \in IssuedIds
      /\ r.append => r.read \in Lists /\ On(r.read) \subseteq On(r.new)
  BY <1>2, <1>4 DEF RevokedInv, TrustInv, JobHolds, ListsTyped, RevokeHolds
<1>6. /\ j.pc = "write" /\ j.new = r.new /\ j.id = r.id /\ j.append = r.append /\ j.read = r.read
  BY <1>3, <1>5 DEF Revoking
<1>7. Half # None /\ IssuedIds' = IssuedIds
  BY <1>1, CertificatesAssumption DEF CertificatesAssumption, IssuedIds, CertId
<1>8. RevokeHolds(j)' /\ CheckHolds(j)'
  BY <1>1, <1>5, <1>6, <1>7 DEF RevokeHolds, CheckHolds
<1>9. /\ forgot' = (forgot \/ (~r.append /\ revoked # {}))
      /\ stale'  = (stale \/ list # r.read \/ Writing)
  BY <1>2 DEF TruncateList, Replaces
<1>10. Unbroken' => Unbroken
  BY <1>9 DEF Unbroken
<1>11. Unbroken' => RevocationsKept'
  <2> SUFFICES ASSUME Unbroken' PROVE RevocationsKept'
    OBVIOUS
  <2>1. /\ list = r.read /\ ~Writing /\ (r.append \/ revoked = {})
        /\ RevocationsKept
    BY <1>9, <1>10 DEF Unbroken, RevokedInv
  <2>2. revoked \subseteq On(r.new)
    <3>1. CASE r.append
      BY <1>5, <2>1, <3>1 DEF RevocationsKept
    <3>2. CASE ~r.append
      BY <2>1, <3>2
    <3> QED BY <3>1, <3>2
  <2>3. job' = [q \in Procs |-> IF q = p THEN j ELSE job[q]]
    BY <1>4 DEF Go, RevokedInv, TrustInv
  <2>4. \A q \in Procs : job'[q].pc = "write" => q = p
    BY <2>1, <2>3 DEF Writing
  <2>5. job'[p].new = r.new
    BY <1>6, <2>3
  <2>6. Half \notin Lists
    BY DEF ListAssumption
  <2> QED BY <1>1, <1>7, <2>2, <2>4, <2>5, <2>6 DEF RevocationsKept
<1>12. ListFile(list') /\ list' # None /\ revoked' \subseteq IssuedIds
  BY <1>1, <1>7 DEF ListFile, RevokedInv, ListsTyped
<1> QED BY <1>1, <1>4, <1>8, <1>10, <1>11, <1>12, Replaced

LEMMA IdleAfter == RevokeHolds(Idle)' /\ CheckHolds(Idle)'
BY DEF RevokeHolds, CheckHolds, Idle

LEMMA WriteLists ==
  ASSUME ListAssumption, RevokedInv, TrustInv', NEW p \in Procs, WriteList(p)
  PROVE  RevokedInv'
<1>1. UNCHANGED <<certs, copy>> /\ list' = job[p].new /\ revoked' = revoked \cup {job[p].id}
  BY DEF WriteList
<1>2. PICK r : r = job[p]
  OBVIOUS
<1>3. PICK j : j = Idle
  OBVIOUS
<1>4. Go(p, j) /\ r.pc = "write"
  BY <1>2, <1>3 DEF WriteList, End
<1>5. r.new \in Lists /\ r.id \in On(r.new) /\ r.id \in IssuedIds
  BY <1>2, <1>4 DEF RevokedInv, ListsTyped, RevokeHolds
<1>6. RevokeHolds(j)' /\ CheckHolds(j)'
  BY <1>3, IdleAfter
<1>7. /\ forgot' = (forgot \/ (~TRUE /\ revoked # {}))
      /\ stale'  = (stale \/ list # Half \/ ~TRUE)
  BY DEF WriteList, Replaces
<1>8. Unbroken' => Unbroken /\ list = Half
  BY <1>7 DEF Unbroken
<1>9. list' \in Lists /\ list' # None /\ list' # Half
  BY <1>1, <1>2, <1>5 DEF ListAssumption
<1>10. Unbroken' => RevocationsKept'
  <2> SUFFICES ASSUME Unbroken' PROVE RevocationsKept'
    OBVIOUS
  <2>1. list = Half /\ RevocationsKept
    BY <1>8 DEF RevokedInv
  <2>2. revoked' \subseteq On(list')
    BY <1>1, <1>2, <1>4, <1>5, <2>1 DEF RevocationsKept
  <2>3. job' = [q \in Procs |-> IF q = p THEN j ELSE job[q]]
    BY <1>4 DEF Go, RevokedInv, TrustInv
  <2>4. \A q \in Procs : job'[q].pc # "write"
    <3>1. j.pc # "write"
      BY <1>3, IdleHolds
    <3>2. \A q \in Procs : q # p => job[q].pc # "write"
      BY <1>2, <1>4, <2>1 DEF RevocationsKept
    <3> QED BY <2>3, <3>1, <3>2
  <2> QED BY <1>9, <2>2, <2>4 DEF RevocationsKept
<1>11. ListFile(list') /\ revoked \subseteq revoked' /\ revoked' \subseteq IssuedIds
  BY <1>1, <1>2, <1>5, <1>9 DEF ListFile, RevokedInv, ListsTyped
<1> QED BY <1>1, <1>4, <1>6, <1>8, <1>9, <1>10, <1>11, Replaced

LEMMA WindowRevokes ==
  ASSUME ListAssumption, RevokedInv, TrustInv', NEW p \in Procs, DoRevokeCert(p)
  PROVE  RevokedInv'
<1>1. UNCHANGED <<certs, copy>> /\ End(p)
  BY DEF DoRevokeCert
<1>2. CASE UNCHANGED <<list, history>>
  BY <1>1, <1>2, ListsEnd DEF history
<1>3. CASE ~UNCHANGED <<list, history>>
  <2>1. PICK c \in certs, key \in CaKeys :
          /\ CanRevoke(copy.existing)
          /\ list' = RevokedList(key, copy.existing, c)
          /\ revoked' = revoked \cup {CertId(c)}
          /\ forgot' = (forgot \/ (copy.existing = None /\ revoked # {}))
          /\ stale' = (stale \/ (copy.existing # None /\ list # copy.existing))
    BY <1>3 DEF DoRevokeCert
  <2>2. PICK f : f = copy.existing
    OBVIOUS
  <2>3. (f = None \/ f \in Lists) /\ c \in Certs /\ CanRevoke(f)
    BY <2>1, <2>2, ParsedIsList DEF RevokedInv, ListsTyped, TrustInv, CanRevoke
  <2>4. PICK new : new = RevokedList(key, f, c)
    OBVIOUS
  <2>5. /\ new \in Lists /\ CertId(c) \in On(new)
        /\ f \in Lists => On(f) \subseteq On(new)
    BY <2>3, <2>4, Extended, CertificatesAssumption
  <2>6. list' = new /\ list' # None /\ list' # Half
    BY <2>1, <2>2, <2>4, <2>5 DEF ListAssumption
  <2>7. PICK j : j = Idle
    OBVIOUS
  <2>8. Go(p, j) /\ RevokeHolds(j)' /\ CheckHolds(j)'
    BY <1>1, <2>7, IdleAfter DEF End
  <2>9. Unbroken' => Unbroken /\ (f = None => revoked = {}) /\ (f # None => list = f)
    BY <2>1, <2>2 DEF Unbroken
  <2>10. Unbroken' => RevocationsKept'
    <3> SUFFICES ASSUME Unbroken' PROVE RevocationsKept'
      OBVIOUS
    <3>1. RevocationsKept
      BY <2>9 DEF RevokedInv
    <3>2. revoked' \subseteq On(list')
      <4>1. revoked \subseteq On(new)
        BY <2>3, <2>5, <2>9, <3>1 DEF RevocationsKept
      <4> QED BY <2>1, <2>5, <2>6, <4>1
    <3>3. job' = [q \in Procs |-> IF q = p THEN j ELSE job[q]]
      BY <2>8 DEF Go, RevokedInv, TrustInv
    <3>4. \A q \in Procs : job'[q].pc = "write" => q # p /\ job[q].pc = "write"
      BY <2>7, <3>3, IdleHolds
    <3>5. \A q, s \in Procs : job'[q].pc = "write" /\ job'[s].pc = "write" => s = q
      BY <3>1, <3>4 DEF RevocationsKept
    <3> QED BY <2>6, <3>2, <3>5 DEF RevocationsKept
  <2>11. CertId(c) \in IssuedIds
    BY DEF IssuedIds
  <2>12. ListFile(list') /\ revoked \subseteq revoked' /\ revoked' \subseteq IssuedIds
    BY <2>1, <2>5, <2>6, <2>11 DEF ListFile, RevokedInv, ListsTyped
  <2> QED BY <1>1, <2>6, <2>8, <2>9, <2>10, <2>12, Replaced
<1> QED BY <1>2, <1>3

-----------------------------------------------------------------------------
(* Commands that check. *)

LEMMA BeginLists ==
  ASSUME RevokedInv, TrustInv', NEW p \in Procs, BeginResolve(p) \/ BeginVerify(p)
  PROVE  RevokedInv'
<1>1. UNCHANGED <<certs, list, copy, revoked, forgot, stale>>
  BY DEF BeginResolve, BeginVerify, history
<1>2. CASE End(p)
  BY <1>1, <1>2, ListsEnd
<1>3. CASE ~End(p)
  <2>1. PICK pc \in {"trust", "list"}, lists \in BOOLEAN : \E todo, key, use, got :
          /\ pc = "trust" => got = {}
          /\ Go(p, [pc |-> pc, todo |-> todo, key |-> key, use |-> use, lists |-> lists,
                    trust |-> None, got |-> got, known |-> Known(lists), since |-> now])
    BY <1>3 DEF BeginResolve, BeginVerify
  <2>2. PICK todo, key, use, got :
          /\ pc = "trust" => got = {}
          /\ Go(p, [pc |-> pc, todo |-> todo, key |-> key, use |-> use, lists |-> lists,
                    trust |-> None, got |-> got, known |-> Known(lists), since |-> now])
    BY <2>1
  <2>3. PICK j : j = [pc |-> pc, todo |-> todo, key |-> key, use |-> use, lists |-> lists,
                      trust |-> None, got |-> got, known |-> Known(lists), since |-> now]
    OBVIOUS
  <2>4. j.pc = pc /\ j.lists = lists /\ j.got = got /\ j.known = Known(lists)
    BY <2>3
  <2>5. Known(lists) \subseteq revoked /\ (~lists => Known(lists) = {})
    BY DEF Known
  <2>6. RevokeHolds(j) /\ CheckHolds(j) /\ j.pc # "write"
    BY <2>1, <2>2, <2>4, <2>5 DEF RevokeHolds, CheckHolds
  <2> QED BY <1>1, <2>2, <2>3, <2>6, ListsGoOn
<1> QED BY <1>2, <1>3

LEMMA WindowVerifies ==
  ASSUME RevokedInv, TrustInv', NEW p \in Procs, DoVerifyCert(p)
  PROVE  RevokedInv'
<1>1. UNCHANGED <<certs, list, copy, revoked, forgot, stale>>
  BY DEF DoVerifyCert, history
<1>2. CASE End(p)
  BY <1>1, <1>2, ListsEnd
<1>3. CASE ~End(p)
  <2>1. PICK c \in certs, key \in CaKeys :
          CheckNotRevokedPem(key, copy.trusted, c) /\ Go(p, Accepted({c}, key, copy.trusted))
    BY <1>3 DEF DoVerifyCert
  <2>2. PICK f : f = copy.trusted
    OBVIOUS
  <2>3. PICK j : j = Accepted({c}, key, f)
    OBVIOUS
  <2>4. /\ j.pc = "accepted" /\ j.got = {c} /\ j.lists = (f # None)
        /\ j.known = IF f = None THEN {} ELSE ToSet(EntriesOf(f))
    BY <2>3 DEF Accepted
  <2>5. f # None => CertId(c) \notin ToSet(EntriesOf(f))
    BY <2>1, <2>2 DEF CheckNotRevokedPem, CheckNotRevoked, Find, EntriesOf
  <2>6. Clean(j) /\ (~j.lists => j.known = {})
    BY <2>4, <2>5 DEF Clean
  <2>7. RevokeHolds(j) /\ CheckHolds(j) /\ j.pc # "write"
    BY <2>4, <2>6 DEF RevokeHolds, CheckHolds
  <2> QED BY <1>1, <2>1, <2>2, <2>3, <2>7, ListsGoOn
<1> QED BY <1>2, <1>3

\* The list is read: it holds all that the command may know to be revoked.
LEMMA LoadLists ==
  ASSUME RevokedInv, TrustInv', NEW p \in Procs, LoadTrust(p)
  PROVE  RevokedInv'
<1>1. UNCHANGED <<certs, list, copy, revoked, forgot, stale>>
  BY DEF LoadTrust, history
<1>2. PICK r : r = job[p]
  OBVIOUS
<1>3. r.pc = "trust" /\ Checking(r) /\ CheckHolds(r)
  BY <1>2 DEF LoadTrust, RevokedInv, TrustInv, JobHolds
<1>4. \/ End(p)
      \/ ~r.lists /\ Go(p, [r EXCEPT !.pc = "resolve"])
      \/ VerifyList(r.key, list) /\ Go(p, [r EXCEPT !.pc = "resolve", !.trust = list])
  BY <1>2 DEF LoadTrust, Step
<1>5. r.known \subseteq revoked /\ r.got = {} /\ (~r.lists => r.known = {})
  BY <1>3 DEF CheckHolds
<1>6. CASE ~r.lists /\ Go(p, [r EXCEPT !.pc = "resolve"])
  <2>1. PICK j : j = [r EXCEPT !.pc = "resolve"]
    OBVIOUS
  <2>2. j.pc = "resolve" /\ j.lists = r.lists /\ j.known = r.known /\ j.got = r.got
    BY <1>3, <2>1 DEF Checking
  <2>3. RevokeHolds(j) /\ CheckHolds(j) /\ j.pc # "write"
    BY <1>5, <1>6, <2>2 DEF RevokeHolds, CheckHolds, Clean
  <2> QED BY <1>1, <1>6, <2>1, <2>3, ListsGoOn
<1>7. CASE VerifyList(r.key, list) /\ Go(p, [r EXCEPT !.pc = "resolve", !.trust = list])
  <2>1. PICK j : j = [r EXCEPT !.pc = "resolve", !.trust = list]
    OBVIOUS
  <2>2. /\ j.pc = "resolve" /\ j.lists = r.lists /\ j.known = r.known /\ j.got = r.got
        /\ j.trust = list
    BY <1>3, <2>1 DEF Checking
  <2>3. list \in Lists
    BY <1>7, ParsedIsList DEF VerifyList, RevokedInv, ListsTyped
  <2>4. Unbroken => revoked \subseteq On(list)
    BY <2>3 DEF RevokedInv, RevocationsKept
  <2>5. RevokeHolds(j) /\ CheckHolds(j) /\ j.pc # "write"
    BY <1>5, <2>2, <2>3, <2>4 DEF RevokeHolds, CheckHolds, Clean
  <2> QED BY <1>1, <1>7, <2>1, <2>5, ListsGoOn
<1> QED BY <1>1, <1>4, <1>6, <1>7, ListsEnd

LEMMA VerifyLists ==
  ASSUME RevokedInv, TrustInv', NEW p \in Procs, CheckCertRevocation(p)
  PROVE  RevokedInv'
<1>1. UNCHANGED <<certs, list, copy, revoked, forgot, stale>>
  BY DEF CheckCertRevocation, history
<1>2. PICK r : r = job[p]
  OBVIOUS
<1>3. r.pc = "list" /\ Checking(r) /\ CheckHolds(r)
  BY <1>2 DEF CheckCertRevocation, RevokedInv, TrustInv, JobHolds
<1>4. PICK j : j = [r EXCEPT !.pc = "accepted", !.todo = <<>>, !.trust = None]
  OBVIOUS
<1>5. \/ End(p)
      \/ /\ Go(p, j)
         /\ r.lists => list # None /\ \A c \in r.got : CheckNotRevokedPem(r.key, list, c)
  BY <1>2, <1>4 DEF CheckCertRevocation, Accept
<1>6. CASE Go(p, j) /\ (r.lists => list # None /\ \A c \in r.got : CheckNotRevokedPem(r.key, list, c))
  <2>1. j.pc = "accepted" /\ j.lists = r.lists /\ j.known = r.known /\ j.got = r.got
    BY <1>3, <1>4 DEF Checking
  <2>2. r.known \subseteq revoked /\ (~r.lists => r.known = {})
    BY <1>3 DEF CheckHolds
  <2>3. Unbroken => Clean(j)
    <3>1. CASE ~r.lists
      BY <2>1, <2>2, <3>1 DEF Clean
    <3>2. CASE r.lists
      <4>1. ASSUME Unbroken, NEW c \in r.got PROVE CertId(c) \notin r.known
        <5>1. VerifyList(r.key, list) /\ CertId(c) \notin On(list)
          BY <1>6, <3>2 DEF CheckNotRevokedPem, CheckNotRevoked, Find, On
        <5>2. list \in Lists
          BY <5>1, ParsedIsList DEF VerifyList, RevokedInv, ListsTyped
        <5>3. revoked \subseteq On(list)
          BY <4>1, <5>2 DEF RevokedInv, RevocationsKept
        <5> QED BY <2>2, <5>1, <5>3
      <4> QED BY <2>1, <4>1 DEF Clean
    <3> QED BY <3>1, <3>2
  <2>4. RevokeHolds(j) /\ CheckHolds(j) /\ j.pc # "write"
    BY <2>1, <2>2, <2>3 DEF RevokeHolds, CheckHolds
  <2> QED BY <1>1, <1>6, <2>4, ListsGoOn
<1> QED BY <1>1, <1>5, <1>6, ListsEnd

LEMMA ResolveLists ==
  ASSUME RevokedInv, TrustInv', NEW p \in Procs, ResolveNext(p), ListAssumption
  PROVE  RevokedInv'
<1>1. UNCHANGED <<certs, list, copy, revoked, forgot, stale>>
  BY DEF ResolveNext, history
<1>2. PICK r : r = job[p]
  OBVIOUS
<1>3. r.pc = "resolve" /\ Checking(r) /\ CheckHolds(r)
  BY <1>2 DEF ResolveNext, RevokedInv, TrustInv, JobHolds
<1>4. PICK c, got : c = Head(r.todo) /\ got = r.got \cup ({c} \ {Raw})
  OBVIOUS
<1>5. \/ End(p)
      \/ /\ ResolvesWithCa(c, r)
         /\ \/ Go(p, [[r EXCEPT !.got = got] EXCEPT !.pc = "accepted", !.todo = <<>>, !.trust = None])
            \/ Go(p, [r EXCEPT !.todo = Tail(r.todo), !.got = got])
  BY <1>2, <1>4 DEF ResolveNext, Accept
<1>6. CASE ResolvesWithCa(c, r)
  <2>1. ASSUME Unbroken PROVE \A d \in got : CertId(d) \notin r.known
    <3>1. \A d \in r.got : CertId(d) \notin r.known
      BY <1>3, <2>1 DEF CheckHolds, Clean
    <3>2. ASSUME c # Raw PROVE CertId(c) \notin r.known
      <4>1. CASE ~r.lists
        BY <1>3, <4>1 DEF CheckHolds
      <4>2. CASE r.lists
        <5>1. r.trust \in Lists /\ r.known \subseteq On(r.trust)
          BY <1>3, <2>1, <4>2 DEF CheckHolds
        <5>2. c \in Certs
          <6>1. r.todo \in Seq(PemFiles) /\ r.todo # <<>>
            BY <1>2, <1>3 DEF RevokedInv, TrustInv, JobHolds
          <6>2. c \in PemFiles
            BY <1>4, <6>1, HeadTailProperties
          <6> QED BY <3>2, <6>2 DEF PemFiles
        <5>3. IsCertificate(c)
          BY <5>2 DEF Certs, IsCertificate
        <5>4. r.trust # None
          BY <5>1 DEF ListAssumption
        <5>5. CheckNotRevoked(r.trust, c)
          BY <1>6, <5>3, <5>4 DEF ResolvesWithCa
        <5> QED BY <5>1, <5>5 DEF CheckNotRevoked, Find, On
      <4> QED BY <4>1, <4>2
    <3> QED BY <1>4, <3>1, <3>2
  <2>2. CASE Go(p, [[r EXCEPT !.got = got] EXCEPT !.pc = "accepted", !.todo = <<>>, !.trust = None])
    <3>1. PICK j : j = [[r EXCEPT !.got = got] EXCEPT !.pc = "accepted", !.todo = <<>>, !.trust = None]
      OBVIOUS
    <3>2. j.pc = "accepted" /\ j.lists = r.lists /\ j.known = r.known /\ j.got = got
      BY <1>3, <3>1 DEF Checking
    <3>3. RevokeHolds(j) /\ CheckHolds(j) /\ j.pc # "write"
      BY <1>3, <2>1, <3>2 DEF RevokeHolds, CheckHolds, Clean
    <3> QED BY <1>1, <2>2, <3>1, <3>3, ListsGoOn
  <2>3. CASE Go(p, [r EXCEPT !.todo = Tail(r.todo), !.got = got])
    <3>1. PICK j : j = [r EXCEPT !.todo = Tail(r.todo), !.got = got]
      OBVIOUS
    <3>2. j.pc = "resolve" /\ j.lists = r.lists /\ j.known = r.known /\ j.got = got /\ j.trust = r.trust
      BY <1>3, <3>1 DEF Checking
    <3>3. RevokeHolds(j) /\ CheckHolds(j) /\ j.pc # "write"
      BY <1>3, <2>1, <3>2 DEF RevokeHolds, CheckHolds, Clean
    <3> QED BY <1>1, <2>3, <3>1, <3>3, ListsGoOn
  <2> QED BY <1>1, <1>5, <2>2, <2>3, ListsEnd
<1> QED BY <1>1, <1>5, <1>6, ListsEnd

-----------------------------------------------------------------------------
LEMMA RevokedInvariant == ASSUME ClockAssumption, ListAssumption PROVE Spec => []RevokedInv
<1>1. Init => RevokedInv
  <2> SUFFICES ASSUME Init PROVE RevokedInv
    OBVIOUS
  <2>1. TrustInv
    BY InitTrust
  <2>2. /\ \A p \in Procs : job[p] = Idle
        /\ list = None /\ revoked = {} /\ copy = [existing |-> None, trusted |-> None]
    BY DEF Init
  <2>3. ASSUME NEW p \in Procs PROVE RevokeHolds(job[p]) /\ CheckHolds(job[p]) /\ job[p].pc # "write"
    <3>1. job[p] = Idle
      BY <2>2
    <3> QED BY <3>1, IdleHolds
  <2>4. ListsTyped
    BY <2>2, <2>3 DEF ListsTyped, ListFile
  <2>5. RevocationsKept
    BY <2>2, <2>3 DEF RevocationsKept
  <2> QED BY <2>1, <2>3, <2>4, <2>5 DEF RevokedInv
<1>2. RevokedInv /\ TrustInv' /\ [Next]_vars => RevokedInv'
  <2> SUFFICES ASSUME RevokedInv, TrustInv', [Next]_vars PROVE RevokedInv'
    OBVIOUS
  <2>c. /\ copy = [existing |-> copy.existing, trusted |-> copy.trusted]
        /\ ListFile(copy.existing) /\ ListFile(copy.trusted) /\ ListFile(list)
    BY DEF RevokedInv, ListsTyped
  <2>1. CASE UNCHANGED vars \/ Tick
    <3>1. UNCHANGED <<certs, list, copy, job, revoked, forgot, stale>>
      BY <2>1 DEF vars, Tick, history
    <3> QED BY <2>c, <3>1, ListsStay
  <2>2. ASSUME NEW p \in Procs, IssueCert(p) \/ DoIssueCert(p) PROVE RevokedInv'
    <3>1. UNCHANGED <<list, copy, job, revoked, forgot, stale>> /\ certs \subseteq certs'
      BY <2>2 DEF IssueCert, DoIssueCert, MayIssue, Issue, history
    <3> QED BY <2>c, <3>1, ListsStay
  <2>3. ASSUME NEW p \in Procs, PickList(p) PROVE RevokedInv'
    <3>1. UNCHANGED <<certs, list, job, revoked, forgot, stale>>
      BY <2>3 DEF PickList, history
    <3>2. /\ copy' = [existing |-> copy'.existing, trusted |-> copy'.trusted]
          /\ copy'.existing \in {copy.existing, list} /\ copy'.trusted \in {copy.trusted, list}
      BY <2>3, <2>c DEF PickList
    <3> QED BY <2>c, <3>1, <3>2, ListsStay
  <2>4. ASSUME NEW p \in Procs, FailWrite(p) \/ Kill(p) \/ Use(p) PROVE RevokedInv'
    <3>1. UNCHANGED <<certs, list, copy, revoked, forgot, stale>> /\ End(p)
      BY <2>4 DEF FailWrite, Kill, Use, history
    <3> QED BY <3>1, ListsEnd
  <2> QED BY <2>1, <2>2, <2>3, <2>4, BeginRevokeLists, ReadLists, TruncateLists, WriteLists,
             WindowRevokes, BeginLists, WindowVerifies, LoadLists, VerifyLists, ResolveLists DEF Next
<1> QED BY <1>1, <1>2, TrustInvariant, PTL DEF Spec

\* A command given the CA's key and list accepts no certificate whose revocation was
\* reported before it began, whatever writes failed, were killed or are under way,
\* for any number of commands and windows: a torn list refuses, and the command
\* that tore it holds one that still has every entry.
THEOREM RevokedAreRefused ==
  ASSUME ClockAssumption, ListAssumption PROVE Spec => []RevokedCertRefused
<1>1. RevokedInv => RevokedCertRefused
  BY DEF RevokedInv, CheckHolds, Clean, Unbroken, RevokedCertRefused
<1> QED BY <1>1, RevokedInvariant, PTL
-----------------------------------------------------------------------------
(* Types. *)

LEMMA BoundedStep ==
  ASSUME ClockAssumption, Bounded, ListsTyped, [Next]_vars
  PROVE  Bounded'
<1> USE DEF Bounded
<1>c. /\ MaxTime \in Nat /\ MaxCommands \in Nat /\ MaxFaults \in Nat
  BY CertificatesAssumption DEF CertificatesAssumption
<1>1. CASE UNCHANGED vars
  BY <1>1 DEF vars
<1>2. CASE Tick
  BY <1>2, <1>c DEF Tick, history, budget
<1>3. ASSUME NEW p \in Procs, IssueCert(p) \/ DoIssueCert(p) PROVE Bounded'
  <2>1. UNCHANGED <<now, started, faults, forgot, stale>>
    BY <1>3 DEF IssueCert, DoIssueCert, MayIssue, history, budget
  <2>2. PICK key \in CaKeys, s \in Subjects, nb \in Int, d \in Nat, use \in Masks :
          Issue(key, s, nb, d, use)
    <3>1. CASE IssueCert(p)
      <4>1. PICK key \in CaKeys, s \in Subjects, nb \in 0 .. MaxTime, d \in Days, use \in Masks :
              Issue(key, s, nb, d, use)
        BY <3>1 DEF IssueCert
      <4>2. nb \in Int /\ d \in Nat
        BY <1>c DEF ClockAssumption
      <4> QED BY <4>1, <4>2
    <3>2. CASE DoIssueCert(p)
      <4>1. PICK key \in CaKeys, s \in Subjects, d \in Days, use \in Masks :
              Issue(key, s, now, d, use)
        BY <3>2 DEF DoIssueCert
      <4>2. now \in Int /\ d \in Nat
        BY <1>c DEF ClockAssumption
      <4> QED BY <4>1, <4>2
    <3> QED BY <1>3, <3>1, <3>2
  <2>3. PICK c : c = IssuedCert(key, s, nb, nb + d, use)
    OBVIOUS
  <2>4. c.body.nb = nb /\ c.body.na = nb + d
    BY <2>3 DEF IssuedCert, SignAndFrame, EncodeBody
  <2>5. certs' = certs \cup {c}
    BY <2>2, <2>3 DEF Issue
  <2> QED BY <2>1, <2>2, <2>4, <2>5
<1>4. ASSUME NEW p \in Procs, Starts(p), UNCHANGED <<now, certs, history>> PROVE Bounded'
  BY <1>4, <1>c DEF Starts, history
<1>5. ASSUME NEW p \in Procs, DoRevokeCert(p) PROVE Bounded'
  <2>1. UNCHANGED <<now, certs>> /\ Starts(p) /\ {forgot', stale'} \subseteq BOOLEAN
    BY <1>5 DEF DoRevokeCert, history
  <2> QED BY <2>1, <1>c DEF Starts
<1>6. ASSUME NEW p \in Procs, TruncateList(p) \/ WriteList(p) PROVE Bounded'
  <2>1. UNCHANGED <<now, certs, started, faults>> /\ {forgot', stale'} \subseteq BOOLEAN
    BY <1>6 DEF TruncateList, WriteList, Replaces, budget
  <2> QED BY <2>1
<1>7. ASSUME NEW p \in Procs, FailWrite(p) \/ Kill(p) PROVE Bounded'
  <2>1. UNCHANGED <<now, certs, history>> /\ Faults
    BY <1>7 DEF FailWrite, Kill
  <2> QED BY <2>1, <1>c DEF Faults, history
<1>8. ASSUME NEW p \in Procs, PickList(p) \/ ReadExisting(p) \/ LoadTrust(p) \/ ResolveNext(p)
                              \/ CheckCertRevocation(p) \/ Use(p)
      PROVE  Bounded'
  BY <1>8 DEF PickList, ReadExisting, LoadTrust, ResolveNext, CheckCertRevocation, Use, history, budget
<1>9. ASSUME NEW p \in Procs, BeginRevoke(p) \/ BeginResolve(p) \/ BeginVerify(p) \/ DoVerifyCert(p)
      PROVE  Starts(p) /\ UNCHANGED <<now, certs, history>>
  BY <1>9 DEF BeginRevoke, BeginResolve, BeginVerify, DoVerifyCert
<1> QED BY <1>1, <1>2, <1>3, <1>4, <1>5, <1>6, <1>7, <1>8, <1>9 DEF Next

LEMMA JobsTyped ==
  ASSUME RevokedInv, NEW p \in Procs
  PROVE  /\ DOMAIN job[p] = JobFields(job[p].pc)
         /\ job[p].pc \in {"idle", "read", "truncate", "write", "trust", "resolve", "list", "accepted"}
         /\ job[p].pc = "write" => list # None
<1>1. PICK j : j = job[p]
  OBVIOUS
<1>2. JobHolds(j) /\ RevokeHolds(j)
  BY <1>1 DEF RevokedInv, TrustInv, ListsTyped
<1>3. j.pc \in {"idle", "read", "truncate", "write", "trust", "resolve", "list", "accepted"}
  BY <1>2 DEF JobHolds
<1>4. CASE j.pc = "idle"
  <2>1. j = [pc |-> "idle"]
    BY <1>2, <1>4 DEF RevokeHolds, Idle
  <2>2. DOMAIN j = {"pc"}
    BY <2>1
  <2> QED BY <1>1, <1>4, <2>2 DEF JobFields
<1>5. CASE j.pc = "read"
  <2>1. j = [pc |-> j.pc, c |-> j.c, key |-> j.key, append |-> j.append]
    BY <1>2, <1>5 DEF RevokeHolds
  <2>2. DOMAIN j = {"pc", "c", "key", "append"}
    BY <2>1
  <2> QED BY <1>1, <1>5, <2>2 DEF JobFields
<1>6. CASE j.pc \in {"truncate", "write"}
  <2>1. Revoking(j) /\ (j.pc = "write" => list # None)
    BY <1>2, <1>6 DEF JobHolds, RevokeHolds
  <2>2. DOMAIN j = {"pc", "id", "read", "append", "new"}
    BY <2>1 DEF Revoking
  <2> QED BY <1>6, <2>1, <2>2, <1>1 DEF JobFields
<1>7. CASE j.pc \in {"trust", "resolve", "list", "accepted"}
  <2>1. Checking(j)
    BY <1>2, <1>7 DEF JobHolds
  <2>2. DOMAIN j = {"pc", "todo", "key", "use", "lists", "trust", "got", "known", "since"}
    BY <2>1 DEF Checking
  <2>3. JobFields(j.pc) = {"pc", "todo", "key", "use", "lists", "trust", "got", "known", "since"}
    BY <1>7 DEF JobFields
  <2> QED BY <1>1, <1>7, <2>2, <2>3
<1> QED BY <1>1, <1>3, <1>4, <1>5, <1>6, <1>7

\* Every variable keeps its type: certificates and lists stay well formed, a list
\* never exceeds its bound, what is reported revoked was issued, and a list under
\* way is never one that is missing.
THEOREM CertificatesTypeCorrect ==
  ASSUME ClockAssumption, ListAssumption PROVE Spec => []TypeOK
<1>1. Init => Bounded
  <2> SUFFICES ASSUME Init PROVE Bounded
    OBVIOUS
  <2>1. MaxTime \in Nat /\ MaxCommands \in Nat /\ MaxFaults \in Nat
    BY CertificatesAssumption
  <2>2. now = 0 /\ started = 0 /\ faults = 0 /\ certs = {}
    BY DEF Init
  <2>3. forgot \in BOOLEAN /\ stale \in BOOLEAN
    BY DEF Init
  <2> QED BY <2>1, <2>2, <2>3 DEF Bounded
<1>2. RevokedInv /\ Bounded /\ [Next]_vars => Bounded'
  BY BoundedStep DEF RevokedInv
<1>3. RevokedInv /\ Bounded => TypeOK
  <2> SUFFICES ASSUME RevokedInv, Bounded PROVE TypeOK
    OBVIOUS
  <2>1. ASSUME NEW c \in certs
        PROVE  Signed(c, c.body.subject \in Subjects /\ c.body.nb <= c.body.na /\ c.body.use \in Masks)
    <3>1. c \in Certs /\ c.body.nb <= c.body.na
      BY DEF RevokedInv, TrustInv, Bounded
    <3>2. DOMAIN c = {"body", "by"} /\ c.by \in CaKeys /\ c.body.subject \in Subjects /\ c.body.use \in Masks
      BY <3>1 DEF Certs
    <3> QED BY <3>1, <3>2 DEF Signed
  <2>2. ASSUME NEW f, ListFile(f) PROVE IsList(f)
    <3>1. CASE f \in Lists
      <4>1. DOMAIN f = {"body", "by"} /\ f.by \in CaKeys /\ Len(f.body.ids) \in 1 .. MaxEntries
        BY <3>1 DEF Lists
      <4> QED BY <4>1 DEF IsList, Signed
    <3> QED BY <2>2, <3>1 DEF ListFile, IsList
  <2>3. IsList(list) /\ IsList(copy.existing) /\ IsList(copy.trusted)
    BY <2>2 DEF RevokedInv, ListsTyped
  <2>4. revoked \subseteq {CertId(c) : c \in certs}
    BY DEF RevokedInv, ListsTyped, IssuedIds
  <2> QED BY <2>1, <2>3, <2>4, JobsTyped DEF Bounded, TypeOK
<1> QED BY <1>1, <1>2, <1>3, RevokedInvariant, PTL DEF Spec
=============================================================================
