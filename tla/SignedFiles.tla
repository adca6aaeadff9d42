----------------------------- MODULE SignedFiles ------------------------------
(* Signatures and sender authentication: sign-keygen and identity-keygen, sign *)
(* and verify, signcrypt and signdecrypt, seal and unseal.  A command line     *)
(* reads its input block by block while it may be edited, the two-pass         *)
(* commands twice; the window works on copies of what was picked.              *)
EXTENDS Integers, Sequences, FiniteSets, TLC

CONSTANTS
    Cli, Gui,       \* command-line processes, and the window
    None, Half,     \* no file; a file cut short while being written in place
    Blocks, Size,   \* what a source is made of, and how many of them
    MaxKeys,        \* bound: key pairs made
    MaxCommands,    \* bound: commands started
    MaxEdits,       \* bound: edits of the source
    MaxFaults       \* bound: failed writes and killed processes

ASSUME SignedFilesAssumption ==
    /\ {MaxKeys, MaxCommands, MaxEdits, MaxFaults} \subseteq Nat
    /\ Size \in Nat \ {0} /\ Cli \cap Gui = {} /\ None # Half

VARIABLES
    src,            \* the source
    pair,           \* the key files of each kind
    sig,            \* the detached signature
    box,            \* the signcrypted or sealed file
    out,            \* what the last opening released, to a file or to stdout
    verdict,        \* what the last verification accepted
    copy,           \* what the window has picked
    job,            \* what each process is doing
    signed,         \* history: what was signed, and how
    broken,         \* history: the kinds whose files a writer died over, or two met in
    made, started, edits, faults

files  == <<src, pair, sig, box, out, verdict>>
vars   == <<files, copy, job, signed, broken, made, started, edits, faults>>
budget == <<made, started, edits, faults>>

Kinds == {"signing", "identity"}
KindOf(do) == IF do \in {"seal", "unseal"} THEN "identity" ELSE "signing"
Procs == Cli \cup Gui
Whole(f) == f \notin {None, Half}
Idle == [pc |-> "idle"]
Busy(p) == job[p] # Idle
Go(p, j) == job' = [job EXCEPT ![p] = j]
Step(p, pc) == Go(p, [job[p] EXCEPT !.pc = pc])
End(p) == Go(p, Idle)
Starts(p) == ~Busy(p) /\ started < MaxCommands /\ started' = started + 1
             /\ UNCHANGED <<made, edits, faults>>
Faults == faults < MaxFaults /\ faults' = faults + 1 /\ UNCHANGED <<made, started, edits>>

(***************************************************************************)
(* Keys are numbers, the same for both halves of a pair.  A signature, or  *)
(* the tag of a sealed file, is of one text, by one key, for one purpose.  *)
(***************************************************************************)
SignBytes(do, key, text) == [do |-> do, key |-> key, of |-> text]
VerifyBytes(do, key, text, s) == s = SignBytes(do, key, text)
\* The tag's key is both parties'; the recipient is one and the same here.
ComputeTag(key, text) == SignBytes("seal", key, text)
\* The key a file gives, and whether a signature file can be read.
ParseSigningKey(f)  == IF f = Half THEN None ELSE f
ParseIdentitySk(f)  == IF f = Half THEN None ELSE f
KeyFor(do) == IF do = "seal" THEN ParseIdentitySk(pair["identity"].priv)
              ELSE ParseSigningKey(pair["signing"].priv)
DecodeSigPem(f) == Whole(f)
Sealed(do, key, text) == IF do = "seal" THEN ComputeTag(key, text) ELSE SignBytes(do, key, text)
Purpose(do) == [signdecrypt |-> "signcrypt", unseal |-> "seal", verify |-> "sign"][do]
--------------------------------------------------------------------------------
Init ==
    /\ \E b \in Blocks : src = [i \in 1 .. Size |-> b]
    /\ pair = [k \in Kinds |-> [pub |-> None, priv |-> None]]
    /\ sig = None /\ box = None /\ out = None /\ verdict = None
    /\ copy = [text |-> None, key |-> None, sig |-> None, box |-> None]
    /\ job = [p \in Procs |-> Idle]
    /\ signed = {} /\ broken = {}
    /\ made = 0 /\ started = 0 /\ edits = 0 /\ faults = 0

\* The source changes under every command that is reading it.
Edit ==
    /\ edits < MaxEdits /\ edits' = edits + 1
    /\ \E i \in 1 .. Size : \E b \in Blocks \ {src[i]} : src' = [src EXCEPT ![i] = b]
    /\ job' = [p \in Procs |-> IF job[p].pc = "read" THEN [job[p] EXCEPT !.still = FALSE] ELSE job[p]]
    /\ UNCHANGED <<pair, sig, box, out, verdict, copy, signed, broken, made, started, faults>>

(***************************************************************************)
(* sign-keygen and identity-keygen: the public file is written in place,   *)
(* the private one replaced whole; neither is taken back.                  *)
(***************************************************************************)
Writers(k) == {p \in Procs : job[p].pc \in {"truncate", "public", "private"} /\ job[p].kind = k}

OutputExists(k) == pair[k].pub # None \/ pair[k].priv # None
NewPair(p, k) ==
    /\ Go(p, [pc |-> "truncate", kind |-> k, key |-> made + 1]) /\ made' = made + 1
    /\ broken' = IF Writers(k) = {} THEN broken ELSE broken \cup {k}
Keygen(p, k) ==
    /\ made < MaxKeys /\ ~Busy(p)
    /\ \E force \in BOOLEAN : (force \/ ~OutputExists(k)) /\ NewPair(p, k)
    /\ UNCHANGED <<files, copy, signed, started, edits, faults>>
RunSignKeygen(p)      == p \in Cli /\ Keygen(p, "signing")
RunIdentityKeygen(p)  == p \in Cli /\ Keygen(p, "identity")
HandleSignKeygen(g)   == g \in Gui /\ Keygen(g, "signing")
DoIdentityKeygen(g)   == g \in Gui /\ Keygen(g, "identity")

MutTornKeyFile(p) ==
    LET j == job[p] IN
    /\ \/ j.pc = "truncate" /\ pair' = [pair EXCEPT ![j.kind].pub = Half] /\ Step(p, "public")
       \/ j.pc = "public"   /\ pair' = [pair EXCEPT ![j.kind].pub = j.key] /\ Step(p, "private")
       \/ j.pc = "private"  /\ pair' = [pair EXCEPT ![j.kind].priv = Half] /\ End(p)
    /\ UNCHANGED <<src, sig, box, out, verdict, copy, signed, broken, budget>>
MutKeptKeyFile(p) ==
    LET j == job[p] IN
    /\ \/ j.pc = "truncate" /\ pair' = [pair EXCEPT ![j.kind].pub = Half] /\ Step(p, "public")
       \/ j.pc = "public"   /\ pair' = [pair EXCEPT ![j.kind].pub = j.key] /\ Step(p, "private")
       \/ j.pc = "private"  /\ pair' = [pair EXCEPT ![j.kind].priv = IF @ = None THEN j.key ELSE @]
                            /\ End(p)
    /\ UNCHANGED <<src, sig, box, out, verdict, copy, signed, broken, budget>>
WriteKeyFile(p) ==
    LET j == job[p] IN
    /\ \/ j.pc = "truncate" /\ pair' = [pair EXCEPT ![j.kind].pub = Half] /\ Step(p, "public")
       \/ j.pc = "public"   /\ pair' = [pair EXCEPT ![j.kind].pub = j.key] /\ Step(p, "private")
       \/ j.pc = "private"  /\ pair' = [pair EXCEPT ![j.kind].priv = j.key] /\ End(p)
    /\ UNCHANGED <<src, sig, box, out, verdict, copy, signed, broken, budget>>

FailKeygen(p) ==
    /\ job[p].pc \in {"truncate", "public", "private"} /\ Faults /\ End(p)
    /\ broken' = IF job[p].pc = "truncate" THEN broken ELSE broken \cup {job[p].kind}
    /\ UNCHANGED <<files, copy, signed>>
--------------------------------------------------------------------------------
(***************************************************************************)
(* sign, signcrypt and seal: read the key, then the source.                *)
(***************************************************************************)
Reading(do, key) == [pc |-> "read", do |-> do, key |-> key, seen |-> <<>>, first |-> None, still |-> TRUE]

BeginSigning(p) ==
    /\ p \in Cli /\ Starts(p)
    /\ \E do \in {"sign", "signcrypt", "seal"}, force \in BOOLEAN :
          IF KeyFor(do) = None \/ (do # "sign" /\ box # None /\ ~force) THEN UNCHANGED job
          ELSE Go(p, Reading(do, KeyFor(do)))
    /\ UNCHANGED <<files, copy, signed, broken>>

ReadBlock(p) ==
    LET j == job[p] IN
    /\ j.pc = "read" /\ Len(j.seen) < Size
    /\ Go(p, [j EXCEPT !.seen = Append(@, src[Len(@) + 1])])
    /\ UNCHANGED <<files, copy, signed, broken, budget>>

AtEnd(p, does) == job[p].pc = "read" /\ Len(job[p].seen) = Size /\ job[p].do \in does

\* The end of the first pass: sign what was read, and rewind.
MutRewind(p) ==
    LET j == job[p]  s == Sealed(j.do, j.key, [i \in 1 .. Size |-> j.seen[1]]) IN
    /\ AtEnd(p, {"signcrypt", "seal"}) /\ j.first = None
    /\ Go(p, [j EXCEPT !.first = s, !.seen = <<>>]) /\ signed' = signed \cup {s}
    /\ UNCHANGED <<files, copy, broken, budget>>
Rewind(p) ==
    LET j == job[p]  s == Sealed(j.do, j.key, j.seen) IN
    /\ AtEnd(p, {"signcrypt", "seal"}) /\ j.first = None
    /\ Go(p, [j EXCEPT !.first = s, !.seen = <<>>]) /\ signed' = signed \cup {s}
    /\ UNCHANGED <<files, copy, broken, budget>>

\* The end of the second: what it read is encrypted behind the signature.
Box(s, text, still) == [sig |-> s, text |-> text, still |-> still]
CommitBox(p) ==
    LET j == job[p] IN
    /\ AtEnd(p, {"signcrypt", "seal"}) /\ j.first # None
    /\ box' = Box(j.first, j.seen, j.still) /\ End(p)
    /\ UNCHANGED <<src, pair, sig, out, verdict, copy, signed, broken, budget>>

\* The signature file is written over in place, whatever was there.
SignFile(p) ==
    LET j == job[p]  s == SignBytes("sign", j.key, j.seen) IN
    /\ AtEnd(p, {"sign"}) /\ sig' = Half /\ Go(p, [pc |-> "write", sig |-> s])
    /\ signed' = signed \cup {s}
    /\ UNCHANGED <<src, pair, box, out, verdict, copy, broken, budget>>
WriteSignature(p) ==
    /\ job[p].pc = "write" /\ sig' = job[p].sig /\ End(p)
    /\ UNCHANGED <<src, pair, box, out, verdict, copy, signed, broken, budget>>

(***************************************************************************)
(* verify reads the source, then the signature.  signdecrypt and unseal    *)
(* open the box as it is and release its text only once it has verified.   *)
(***************************************************************************)
BeginVerify(p) ==
    /\ p \in Cli /\ Starts(p)
    /\ \E key \in 1 .. made : Go(p, Reading("verify", key))
    /\ UNCHANGED <<files, copy, signed, broken>>

Verdict(key, text, s) ==
    verdict' = IF DecodeSigPem(s) /\ VerifyBytes("sign", key, text, s) THEN [key |-> key, text |-> text] ELSE None
VerifyFile(p) ==
    /\ AtEnd(p, {"verify"}) /\ End(p) /\ Verdict(job[p].key, job[p].seen, sig)
    /\ UNCHANGED <<src, pair, sig, box, out, copy, signed, broken, budget>>

\* The text is hashed as it comes out of the box, behind its signature or tag.
MutSignDecrypt(key, b) == VerifyBytes("signcrypt", key, b.sig.of, b.sig)
SignDecrypt(key, b) == VerifyBytes("signcrypt", key, b.text, b.sig)
UnsealBytes(key, b) == b.sig = ComputeTag(key, b.text)
Opens(do, key, b) == IF do = "unseal" THEN UnsealBytes(key, b) ELSE SignDecrypt(key, b)
Released(do, key, b) == [do |-> Purpose(do), key |-> key, text |-> b.text]

BeginOpen(p) ==
    /\ p \in Cli /\ Starts(p) /\ box # None
    /\ \E do \in {"signdecrypt", "unseal"}, key \in 1 .. made, stdout, force \in BOOLEAN :
          IF ~stdout /\ out # None /\ ~force THEN UNCHANGED job
          ELSE Go(p, [pc |-> "open", do |-> do, key |-> key, box |-> box])
    /\ UNCHANGED <<files, copy, signed, broken>>

FinishOpen(p) ==
    LET j == job[p] IN
    /\ j.pc = "open" /\ End(p)
    /\ out' = IF Opens(j.do, j.key, j.box) THEN Released(j.do, j.key, j.box) ELSE out
    /\ UNCHANGED <<src, pair, sig, box, verdict, copy, signed, broken, budget>>

\* Before its file is replaced a command that fails or dies leaves nothing; a
\* signature it was writing stays cut short.
Stop(p) == /\ p \in Cli /\ Busy(p) /\ job[p].pc \in {"read", "write", "open"} /\ Faults /\ End(p)
           /\ UNCHANGED <<files, copy, signed, broken>>
--------------------------------------------------------------------------------
(***************************************************************************)
(* The window: one pass over what it has picked, files replaced whole.     *)
(***************************************************************************)
Pick(g) ==
    /\ g \in Gui /\ ~Busy(g)
    /\ \/ copy' = [copy EXCEPT !.text = src]
       \/ \E k \in Kinds : Whole(pair[k].priv)
                           /\ copy' = [copy EXCEPT !.key = [kind |-> k, n |-> pair[k].priv]]
       \/ sig # None /\ copy' = [copy EXCEPT !.sig = sig]
       \/ box # None /\ copy' = [copy EXCEPT !.box = box]
    /\ UNCHANGED <<files, job, signed, broken, budget>>

\* What must have been picked before a button can be pressed.
HasKey(kind)       == copy.key # None /\ copy.key.kind = kind
ReadyToSign        == copy.text # None /\ HasKey("signing")
ReadyToSigncrypt   == copy.text # None /\ HasKey("signing")
ReadyToSeal        == copy.text # None /\ HasKey("identity")
ReadyToVerify      == copy.text # None /\ copy.sig # None
ReadyToSigndecrypt == copy.box # None
ReadyToUnseal      == copy.box # None
Presses(g) == g \in Gui /\ Starts(g) /\ UNCHANGED <<src, pair, copy, job, broken>>

\* A file in the way may be kept.
Saved(f, new) == f' = new \/ (f # None /\ f' = f)

DoSign(g) ==
    LET s == SignBytes("sign", copy.key.n, copy.text) IN
    /\ ReadyToSign /\ Presses(g) /\ Saved(sig, s) /\ signed' = signed \cup {s}
    /\ UNCHANGED <<box, out, verdict>>
BoxPicked(do) ==
    LET s == Sealed(do, copy.key.n, copy.text) IN
    /\ Saved(box, Box(s, copy.text, TRUE)) /\ signed' = signed \cup {s}
    /\ UNCHANGED <<sig, out, verdict>>
SigncryptBytes == BoxPicked("signcrypt")
SealBytes      == BoxPicked("seal")
DoSigncrypt(g) == ReadyToSigncrypt /\ Presses(g) /\ SigncryptBytes
DoSeal(g)      == ReadyToSeal /\ Presses(g) /\ SealBytes

DoVerify(g) ==
    /\ ReadyToVerify /\ Presses(g)
    /\ \E key \in 1 .. made : Verdict(key, copy.text, copy.sig)
    /\ UNCHANGED <<sig, box, out, signed>>
Release(do) == /\ \E key \in 1 .. made : Opens(do, key, copy.box) /\ Saved(out, Released(do, key, copy.box))
               /\ UNCHANGED <<sig, box, verdict, signed>>
DoSigndecrypt(g) == ReadyToSigndecrypt /\ Presses(g) /\ Release("signdecrypt")
DoUnseal(g)      == ReadyToUnseal /\ Presses(g) /\ Release("unseal")

Next ==
    \/ Edit
    \/ \E p \in Procs :
        \/ RunSignKeygen(p) \/ RunIdentityKeygen(p) \/ HandleSignKeygen(p) \/ DoIdentityKeygen(p)
        \/ WriteKeyFile(p) \/ FailKeygen(p)
        \/ BeginSigning(p) \/ ReadBlock(p) \/ Rewind(p) \/ CommitBox(p) \/ SignFile(p)
        \/ WriteSignature(p) \/ BeginVerify(p) \/ VerifyFile(p) \/ BeginOpen(p) \/ FinishOpen(p)
        \/ Stop(p) \/ Pick(p) \/ DoSign(p) \/ DoSigncrypt(p) \/ DoSeal(p) \/ DoVerify(p)
        \/ DoSigndecrypt(p) \/ DoUnseal(p)

Spec == Init /\ [][Next]_vars
--------------------------------------------------------------------------------
Texts == [1 .. Size -> Blocks]
KeyOrNot == {None, Half} \cup 1 .. MaxKeys
Signature(s) == DOMAIN s = {"do", "key", "of"} /\ s.key \in 1 .. made /\ s.of \in Texts

TypeOK ==
    /\ src \in Texts /\ made \in 0 .. MaxKeys /\ started \in 0 .. MaxCommands
    /\ edits \in 0 .. MaxEdits /\ faults \in 0 .. MaxFaults /\ broken \subseteq Kinds
    /\ \A k \in Kinds : pair[k].pub \in KeyOrNot /\ pair[k].priv \in KeyOrNot \ {Half}
    /\ Whole(sig) => Signature(sig)
    /\ box # None => Signature(box.sig) /\ box.text \in Texts
    /\ \A s \in signed : Signature(s)
    /\ \A p \in Procs : job[p].pc \in {"idle", "truncate", "public", "private", "read", "write", "open"}

\* Whatever is accepted as signed, and whatever text is released, was signed by the
\* holder of the key asked for, as it stands and for the same purpose: however the
\* source was edited between the passes, and whatever file was replaced meanwhile.
AcceptedWasSigned ==
    /\ verdict # None => SignBytes("sign", verdict.key, verdict.text) \in signed
    /\ out # None => SignBytes(out.do, out.key, out.text) \in signed

\* A file that was reported signcrypted or sealed opens under its sender's key, unless
\* its source was edited while it was read.
ReportedOpens ==
    box # None /\ box.still =>
        \E do \in {"signdecrypt", "unseal"} : Opens(do, box.sig.key, box)

\* The two files of a pair are of one key between two keygens that did not fail or meet:
\* what is signed with the one verifies with the other.
SigningPairMatches ==
    \A k \in Kinds : k \notin broken /\ Writers(k) = {} => pair[k].pub = pair[k].priv
=============================================================================
