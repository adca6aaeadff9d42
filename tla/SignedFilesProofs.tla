-------------------------- MODULE SignedFilesProofs --------------------------
(* Machine-checked facts about SignedFiles, for any number of processes,       *)
(* windows, keys, edits and faults, and sources of any length.                 *)
(*                                                                             *)
(* One invariant: what a process or the window has in its hands was signed     *)
(* (Held); what was accepted or released was too (AcceptedWasSigned); a        *)
(* command whose source is still as it found it has read a beginning of it     *)
(* (ReadsSource); a box that was reported opens (BoxOpens); and the files of a *)
(* pair are those of its one writer (OneWriter).                               *)
(*                                                                             *)
(* And, from the heading on archives on, about Archive.                        *)
EXTENDS SignedFiles, SequenceTheorems, WellFoundedInduction, TLAPS

Keygens == [pc : {"truncate", "public", "private"}, kind : Kinds, key : 1 .. made]
Boxes   == [sig : signed, text : Texts, still : BOOLEAN]
Readers == [pc : {"read"}, do : {"sign", "signcrypt", "seal", "verify"}, key : 1 .. made,
            seen : Seq(Blocks), first : {None} \cup signed, still : BOOLEAN]
Signers == [pc : {"write"}, sig : signed]
Openers == [pc : {"open"}, do : {"signdecrypt", "unseal"}, key : 1 .. made, box : Boxes]
Jobs    == {Idle} \cup Keygens \cup Readers \cup Signers \cup Openers
Copies  == [text : {None} \cup Texts, key : {None} \cup [kind : Kinds, n : 1 .. made],
            sig : {None, Half} \cup signed, box : {None} \cup Boxes]
Pairs   == [Kinds -> [pub : {None, Half} \cup 1 .. made, priv : {None} \cup 1 .. made]]
Signatures == [do : {"sign", "signcrypt", "seal"}, key : 1 .. made, of : Texts]

Held ==
    /\ src \in Texts /\ made \in Nat
    /\ signed \subseteq Signatures
    /\ pair \in Pairs
    /\ sig \in {None, Half} \cup signed /\ box \in {None} \cup Boxes
    /\ copy \in Copies /\ job \in [Procs -> Jobs]

\* The source as a command that found no edit of it has read it so far.
Follows(j) ==
    /\ Len(j.seen) <= Size
    /\ \A i \in 1 .. Len(j.seen) : j.seen[i] = src[i]
    /\ j.first # None => j.first = SignBytes(j.do, j.key, src)
ReadsSource == \A p \in Procs : job[p].pc = "read" /\ job[p].still => Follows(job[p])

Writing == {"truncate", "public", "private"}
\* While one keygen is at work the public file is what it has made of it.
Alone(p, k) ==
    /\ Writers(k) = {p}
    /\ job[p].pc = "truncate" => pair[k].pub = pair[k].priv
    /\ job[p].pc = "private"  => pair[k].pub = job[p].key
OneWriter ==
    \A k \in Kinds \ broken :
        \/ Writers(k) = {} /\ pair[k].pub = pair[k].priv
        \/ \E p \in Procs : Alone(p, k)

\* What a box that was reported holds.
BoxOpens ==
    box # None /\ box.still => \E do \in {"signcrypt", "seal"} : box.sig = SignBytes(do, box.sig.key, box.text)
-----------------------------------------------------------------------------
(* What is held stays what it is when keys are made and texts are signed. *)

LEMMA SealedIs ==
  ASSUME NEW do, NEW key, NEW text PROVE Sealed(do, key, text) = SignBytes(do, key, text)
BY DEF Sealed, ComputeTag, SignBytes

LEMMA HeldGrows ==
  ASSUME made \in Nat, made' \in Nat, made <= made', signed \subseteq signed'
  PROVE  /\ Signatures \subseteq Signatures' /\ Boxes \subseteq Boxes' /\ Jobs \subseteq Jobs'
         /\ Copies \subseteq Copies' /\ Pairs \subseteq Pairs'
<1>1. 1 .. made \subseteq 1 .. made' OBVIOUS
<1>2. Texts' = Texts BY DEF Texts
<1>3. Signatures \subseteq Signatures' BY <1>1, <1>2 DEF Signatures
<1>4. Boxes \subseteq Boxes' BY <1>2 DEF Boxes
<1>5. Keygens \subseteq Keygens' BY <1>1 DEF Keygens
<1>6. Readers \subseteq Readers' BY <1>1 DEF Readers
<1>7. Signers \subseteq Signers' BY DEF Signers
<1>8. Openers \subseteq Openers' BY <1>1, <1>4 DEF Openers
<1>9. Jobs \subseteq Jobs' BY <1>5, <1>6, <1>7, <1>8 DEF Jobs, Idle
<1>10. Copies \subseteq Copies' BY <1>1, <1>2, <1>4 DEF Copies
<1>11. Pairs \subseteq Pairs' BY <1>1 DEF Pairs
<1> QED BY <1>3, <1>4, <1>9, <1>10, <1>11

\* Which job it is.
LEMMA JobIs ==
  ASSUME Held, NEW p \in Procs
  PROVE  /\ job[p] \in Jobs
         /\ job[p].pc \in {"idle", "truncate", "public", "private", "read", "write", "open"}
         /\ job[p].pc = "idle" => job[p] = Idle
         /\ job[p].pc \in Writing => job[p] \in Keygens
         /\ job[p].pc = "read" => job[p] \in Readers
         /\ job[p].pc = "write" => job[p] \in Signers
         /\ job[p].pc = "open" => job[p] \in Openers
<1>1. job[p] \in Jobs BY DEF Held
<1>2. CASE job[p] = Idle BY <1>1, <1>2 DEF Idle, Writing
<1>3. CASE job[p] \in Keygens BY <1>1, <1>3 DEF Keygens, Writing
<1>4. CASE job[p] \in Readers BY <1>1, <1>4 DEF Readers, Writing
<1>5. CASE job[p] \in Signers BY <1>1, <1>5 DEF Signers, Writing
<1>6. CASE job[p] \in Openers BY <1>1, <1>6 DEF Openers, Writing
<1> QED BY <1>1, <1>2, <1>3, <1>4, <1>5, <1>6 DEF Jobs

\* A whole pass over the source is a text.
LEMMA PassIsText ==
  ASSUME NEW seen \in Seq(Blocks), Len(seen) = Size PROVE seen \in Texts
BY DEF Texts

\* A command goes on, whatever is signed meanwhile.
LEMMA HeldGo ==
  ASSUME Held, made' \in Nat, made <= made', signed \subseteq signed', signed' \subseteq Signatures',
         UNCHANGED src, pair' \in Pairs', sig' \in {None, Half} \cup signed', box' \in {None} \cup Boxes',
         copy' = copy, NEW p \in Procs, NEW j, j \in Jobs', Go(p, j)
  PROVE  Held'
<1>1. /\ Signatures \subseteq Signatures' /\ Boxes \subseteq Boxes' /\ Jobs \subseteq Jobs'
      /\ Copies \subseteq Copies' /\ Pairs \subseteq Pairs'
  BY HeldGrows DEF Held
<1>2. job' \in [Procs -> Jobs'] BY <1>1 DEF Held, Go
<1>3. src' \in Texts' BY DEF Held, Texts
<1> QED BY <1>1, <1>2, <1>3 DEF Held

\* Nobody's job changes.
LEMMA HeldStays ==
  ASSUME Held, UNCHANGED made, signed \subseteq signed', signed' \subseteq Signatures',
         UNCHANGED src, pair' \in Pairs', sig' \in {None, Half} \cup signed', box' \in {None} \cup Boxes',
         copy' \in Copies', UNCHANGED job
  PROVE  Held'
<1>1. Signatures \subseteq Signatures' /\ Jobs \subseteq Jobs' BY HeldGrows DEF Held
<1>2. job' \in [Procs -> Jobs'] BY <1>1 DEF Held
<1>3. src' \in Texts' BY DEF Held, Texts
<1> QED BY <1>2, <1>3 DEF Held

LEMMA InitHeld == ASSUME SignedFilesAssumption, Init PROVE Held
<1>1. src \in Texts
  <2>1. PICK b \in Blocks : src = [i \in 1 .. Size |-> b] BY DEF Init
  <2> QED BY <2>1 DEF Texts
<1>2. pair \in Pairs BY DEF Init, Pairs
<1>3. copy \in Copies BY DEF Init, Copies
<1>4. job \in [Procs -> Jobs] BY DEF Init, Jobs
<1> QED BY <1>1, <1>2, <1>3, <1>4 DEF Init, Held

\* A keygen begins, goes on and ends.
LEMMA KeygenHeld ==
  ASSUME Held, NEW p \in Procs, NEW k \in Kinds, Keygen(p, k) PROVE Held'
<1>1. UNCHANGED <<src, pair, sig, box, copy, signed>> BY DEF Keygen, files
<1>2. made' = made + 1 /\ Go(p, [pc |-> "truncate", kind |-> k, key |-> made + 1])
  BY DEF Keygen, NewPair
<1>3. made' \in Nat /\ made <= made' /\ made + 1 \in 1 .. made' BY <1>2 DEF Held
<1>4. [pc |-> "truncate", kind |-> k, key |-> made + 1] \in Jobs' BY <1>3 DEF Jobs, Keygens
<1>5. /\ Signatures \subseteq Signatures' /\ Boxes \subseteq Boxes' /\ Pairs \subseteq Pairs'
  BY <1>1, <1>3, HeldGrows DEF Held
<1> QED BY <1>1, <1>2, <1>3, <1>4, <1>5, HeldGo DEF Held

LEMMA WriteKeyFileHeld ==
  ASSUME Held, NEW p \in Procs, WriteKeyFile(p) PROVE Held'
<1>1. UNCHANGED <<src, sig, box, copy, signed, made>> BY DEF WriteKeyFile, budget
<1>2. job[p] \in Keygens BY JobIs DEF WriteKeyFile, Writing
<1>3. Signatures' = Signatures /\ Boxes' = Boxes /\ Pairs' = Pairs /\ Keygens' = Keygens
  BY <1>1 DEF Signatures, Boxes, Pairs, Keygens, Texts
<1>4. pair' \in Pairs BY <1>2 DEF WriteKeyFile, Held, Pairs, Keygens
<1>5. PICK j : j \in Keygens \cup {Idle} /\ Go(p, j)
  <2>1. CASE job[p].pc = "truncate" BY <1>2, <2>1 DEF WriteKeyFile, Step, Keygens
  <2>2. CASE job[p].pc = "public" BY <1>2, <2>2 DEF WriteKeyFile, Step, Keygens
  <2>3. CASE job[p].pc = "private" BY <1>2, <2>3 DEF WriteKeyFile, End
  <2> QED BY <1>2, <2>1, <2>2, <2>3 DEF WriteKeyFile
<1>6. j \in Jobs' BY <1>3, <1>5 DEF Jobs, Idle
<1> QED BY <1>1, <1>3, <1>4, <1>5, <1>6, HeldGo DEF Held

\* What ends with nothing written.
LEMMA EndHeld ==
  ASSUME Held, NEW p \in Procs, End(p), UNCHANGED <<src, pair, sig, box, copy, signed, made>>
  PROVE  Held'
<1>1. Signatures' = Signatures /\ Boxes' = Boxes /\ Pairs' = Pairs
  BY DEF Signatures, Boxes, Pairs, Texts
<1> QED BY <1>1, HeldGo DEF Held, Jobs, End, Idle

\* A command goes on from one job to another, nothing else changes.
LEMMA JobHeld ==
  ASSUME Held, NEW p \in Procs, NEW j \in Jobs, Go(p, j),
         UNCHANGED <<src, pair, sig, box, copy, signed, made>>
  PROVE  Held'
<1>1. Signatures' = Signatures /\ Boxes' = Boxes /\ Pairs' = Pairs
  BY DEF Signatures, Boxes, Pairs, Texts
<1>2. j \in Jobs' BY HeldGrows DEF Held
<1> QED BY <1>1, <1>2, HeldGo DEF Held

\* A command signs s.
LEMMA SigningHeld ==
  ASSUME Held, NEW p \in Procs, NEW do \in {"sign", "signcrypt", "seal"}, NEW key \in 1 .. made,
         NEW text \in Texts, NEW s, s = SignBytes(do, key, text), signed' = signed \cup {s},
         UNCHANGED <<src, pair, made>>, UNCHANGED copy,
         sig' \in {None, Half, s, sig}, box' = box \/ box' = Box(s, text, TRUE),
         NEW j, j \in Jobs', Go(p, j) \/ UNCHANGED job
  PROVE  Held'
<1>1. s \in Signatures BY DEF SignBytes, Signatures
<1>2. signed \subseteq signed' /\ signed' \subseteq Signatures' BY <1>1 DEF Held, Signatures, Texts
<1>3. sig' \in {None, Half} \cup signed' BY DEF Held
<1>4. Boxes \subseteq Boxes' /\ Copies \subseteq Copies' /\ Pairs' = Pairs
  BY <1>2, HeldGrows DEF Held, Pairs
<1>5. box' \in {None} \cup Boxes'
  <2>1. Box(s, text, TRUE) \in Boxes' BY DEF Box, Boxes, Texts
  <2> QED BY <1>4, <2>1 DEF Held
<1>6. copy' \in Copies' BY <1>4 DEF Held
<1>7. CASE Go(p, j) BY <1>2, <1>3, <1>4, <1>5, <1>7, HeldGo DEF Held
<1>8. CASE UNCHANGED job BY <1>2, <1>3, <1>4, <1>5, <1>6, <1>8, HeldStays DEF Held
<1> QED BY <1>7, <1>8

LEMMA BeginSigningHeld ==
  ASSUME Held, NEW p \in Procs, BeginSigning(p) PROVE Held'
<1>1. UNCHANGED <<src, pair, sig, box, copy, signed, made>> BY DEF BeginSigning, files, Starts
<1>2. CASE UNCHANGED job BY <1>1, <1>2, HeldStays, HeldGrows DEF Held
<1>3. CASE ~UNCHANGED job
  <2>1. PICK do \in {"sign", "signcrypt", "seal"} : KeyFor(do) # None /\ Go(p, Reading(do, KeyFor(do)))
    BY <1>3 DEF BeginSigning
  <2>2. KeyFor(do) \in 1 .. made
    BY <2>1 DEF KeyFor, ParseIdentitySk, ParseSigningKey, Held, Pairs, Kinds
  <2>3. Reading(do, KeyFor(do)) \in Readers BY <2>2 DEF Reading, Readers
  <2> QED BY <1>1, <2>1, <2>3, JobHeld DEF Jobs
<1> QED BY <1>2, <1>3

LEMMA ReadBlockHeld ==
  ASSUME SignedFilesAssumption, Held, NEW p \in Procs, ReadBlock(p) PROVE Held'
<1>1. UNCHANGED <<src, pair, sig, box, copy, signed, made>> BY DEF ReadBlock, files, budget
<1>2. PICK j : j = [job[p] EXCEPT !.seen = Append(@, src[Len(@) + 1])] OBVIOUS
<1>3. job[p] \in Readers BY JobIs DEF ReadBlock
<1>4. Len(job[p].seen) \in Nat /\ Len(job[p].seen) + 1 \in 1 .. Size
  BY <1>3 DEF ReadBlock, Readers, SignedFilesAssumption
<1>5. Append(job[p].seen, src[Len(job[p].seen) + 1]) \in Seq(Blocks)
  BY <1>3, <1>4 DEF Held, Texts, Readers
<1>6. j \in Readers BY <1>2, <1>3, <1>5 DEF Readers
<1>7. Go(p, j) BY <1>2 DEF ReadBlock
<1> QED BY <1>1, <1>6, <1>7, JobHeld DEF Jobs

\* At the end of a pass of a command that signs.
LEMMA PassEnds ==
  ASSUME Held, NEW p \in Procs, NEW dos, dos \subseteq {"sign", "signcrypt", "seal"}, AtEnd(p, dos)
  PROVE  /\ job[p] \in Readers /\ job[p].seen \in Texts /\ job[p].key \in 1 .. made
         /\ job[p].do \in {"sign", "signcrypt", "seal"}
<1>1. job[p] \in Readers BY JobIs DEF AtEnd
<1> QED BY <1>1, PassIsText DEF AtEnd, Readers

LEMMA RewindHeld ==
  ASSUME Held, NEW p \in Procs, Rewind(p) PROVE Held'
<1>1. UNCHANGED <<src, pair, sig, box, copy, made>> BY DEF Rewind, files, budget
<1>2. job[p] \in Readers /\ job[p].seen \in Texts /\ job[p].key \in 1 .. made
      /\ job[p].do \in {"sign", "signcrypt", "seal"}
  BY PassEnds DEF Rewind
<1>3. PICK s : s = Sealed(job[p].do, job[p].key, job[p].seen) OBVIOUS
<1> DEFINE j == [job[p] EXCEPT !.first = s, !.seen = <<>>]
<1>4. signed' = signed \cup {s} BY <1>3 DEF Rewind
<1>5. Go(p, j) BY <1>3, Zenon DEF Rewind
<1>6. j \in Readers'
  <2> DEFINE i == [job[p] EXCEPT !.first = s]
  <2>1. i \in Readers' BY <1>1, <1>2, <1>4 DEF Readers
  <2>2. PICK none : none = <<>> OBVIOUS
  <2>3. j = [i EXCEPT !.seen = none] BY <2>2
  <2>4. none \in Seq(Blocks) BY <2>2, EmptySeq
  <2> HIDE DEF i, j
  <2> QED BY <2>1, <2>3, <2>4 DEF Readers
<1>7. s = SignBytes(job[p].do, job[p].key, job[p].seen) BY <1>3, SealedIs
<1> HIDE DEF j
<1> QED BY <1>1, <1>2, <1>4, <1>5, <1>6, <1>7, SigningHeld DEF Held, Jobs

LEMMA SignFileHeld ==
  ASSUME Held, NEW p \in Procs, SignFile(p) PROVE Held'
<1>1. UNCHANGED <<src, pair, box, copy, made>> /\ sig' = Half BY DEF SignFile, budget
<1>2. job[p].seen \in Texts /\ job[p].key \in 1 .. made
  BY PassEnds DEF SignFile
<1>3. PICK s : s = SignBytes("sign", job[p].key, job[p].seen) OBVIOUS
<1>4. PICK j : j = [pc |-> "write", sig |-> s] OBVIOUS
<1>5. signed' = signed \cup {s} /\ Go(p, j) BY <1>3, <1>4 DEF SignFile
<1>6. j \in Signers' BY <1>4, <1>5 DEF Signers
<1> QED BY <1>1, <1>2, <1>3, <1>5, <1>6, SigningHeld DEF Held, Jobs

\* What a command has at its end becomes a file.
LEMMA CommitHeld ==
  ASSUME Held, NEW p \in Procs, End(p), UNCHANGED <<src, pair, copy, signed, made>>,
         sig' \in {None, Half} \cup signed, box' \in {None} \cup Boxes
  PROVE  Held'
<1>1. /\ Signatures \subseteq Signatures' /\ Boxes \subseteq Boxes' /\ Pairs \subseteq Pairs'
  BY HeldGrows DEF Held
<1>2. Idle \in Jobs' /\ Go(p, Idle) BY DEF Jobs, End
<1> QED BY <1>1, <1>2, HeldGo DEF Held

LEMMA CommitBoxHeld ==
  ASSUME Held, NEW p \in Procs, CommitBox(p) PROVE Held'
<1>1. End(p) /\ UNCHANGED <<src, pair, sig, copy, signed, made>> BY DEF CommitBox, budget
<1>2. job[p] \in Readers /\ job[p].seen \in Texts BY PassEnds DEF CommitBox
<1>3. box' \in Boxes BY <1>2 DEF CommitBox, Box, Boxes, Readers
<1> QED BY <1>1, <1>3, CommitHeld DEF Held

LEMMA WriteSignatureHeld ==
  ASSUME Held, NEW p \in Procs, WriteSignature(p) PROVE Held'
<1>1. End(p) /\ UNCHANGED <<src, pair, box, copy, signed, made>> BY DEF WriteSignature, budget
<1>2. sig' \in signed BY JobIs DEF WriteSignature, Signers
<1> QED BY <1>1, <1>2, CommitHeld DEF Held

LEMMA BeginHeld ==
  ASSUME Held, NEW p \in Procs, BeginVerify(p) \/ BeginOpen(p) PROVE Held'
<1>1. UNCHANGED <<src, pair, sig, box, copy, signed, made>>
  BY DEF BeginVerify, BeginOpen, files, Starts
<1>2. CASE UNCHANGED job BY <1>1, <1>2, HeldStays, HeldGrows DEF Held
<1>3. CASE BeginVerify(p)
  <2>1. PICK key \in 1 .. made : Go(p, Reading("verify", key)) BY <1>3 DEF BeginVerify
  <2>2. Reading("verify", key) \in Readers BY DEF Reading, Readers
  <2> QED BY <1>1, <2>1, <2>2, JobHeld DEF Jobs
<1>4. CASE BeginOpen(p) /\ ~UNCHANGED job
  <2>1. PICK do \in {"signdecrypt", "unseal"}, key \in 1 .. made :
          Go(p, [pc |-> "open", do |-> do, key |-> key, box |-> box])
    BY <1>4 DEF BeginOpen
  <2>2. box \in Boxes BY <1>4 DEF BeginOpen, Held
  <2>3. [pc |-> "open", do |-> do, key |-> key, box |-> box] \in Openers BY <2>2 DEF Openers
  <2> QED BY <1>1, <2>1, <2>3, JobHeld DEF Jobs
<1> QED BY <1>2, <1>3, <1>4

LEMMA PickHeld ==
  ASSUME Held, NEW g \in Procs, Pick(g) PROVE Held'
<1>1. UNCHANGED <<src, pair, sig, box, job, signed, made>> BY DEF Pick, files, budget
<1>2. Boxes' = Boxes /\ Copies' = Copies /\ Pairs' = Pairs /\ Signatures' = Signatures
  BY <1>1 DEF Boxes, Copies, Pairs, Signatures, Texts
<1>3. copy' \in Copies
  <2>1. CASE copy' = [copy EXCEPT !.text = src] BY <2>1 DEF Held, Copies
  <2>2. ASSUME NEW k \in Kinds, Whole(pair[k].priv),
               copy' = [copy EXCEPT !.key = [kind |-> k, n |-> pair[k].priv]]
        PROVE copy' \in Copies
    <3>1. pair[k].priv \in 1 .. made BY <2>2 DEF Held, Pairs, Whole
    <3> QED BY <2>2, <3>1 DEF Held, Copies
  <2>3. CASE copy' = [copy EXCEPT !.sig = sig] BY <2>3 DEF Held, Copies
  <2>4. CASE copy' = [copy EXCEPT !.box = box] BY <2>4 DEF Held, Copies
  <2> QED BY <2>1, <2>2, <2>3, <2>4 DEF Pick
<1> QED BY <1>1, <1>2, <1>3, HeldStays DEF Held

\* The window signs what was picked.
LEMMA WindowSignsHeld ==
  ASSUME Held, NEW g \in Procs, DoSign(g) \/ DoSigncrypt(g) \/ DoSeal(g) PROVE Held'
<1>1. UNCHANGED <<src, pair, copy, job, made>>
  BY DEF DoSign, DoSigncrypt, DoSeal, Presses, Starts
<1>2. copy.text \in Texts /\ copy.key.n \in 1 .. made
  BY DEF DoSign, DoSigncrypt, DoSeal, ReadyToSign, ReadyToSigncrypt, ReadyToSeal, HasKey, Held, Copies
<1>3. Idle \in Jobs' BY DEF Jobs
<1>4. CASE DoSign(g)
  <2>1. PICK s : s = SignBytes("sign", copy.key.n, copy.text) OBVIOUS
  <2>2. signed' = signed \cup {s} /\ sig' \in {s, sig} /\ box' = box
    BY <1>4, <2>1 DEF DoSign, Saved
  <2> QED BY <1>1, <1>2, <1>3, <2>1, <2>2, SigningHeld
<1>5. ASSUME NEW do \in {"signcrypt", "seal"}, BoxPicked(do) PROVE Held'
  <2>1. PICK s : s = SignBytes(do, copy.key.n, copy.text) OBVIOUS
  <2>2. signed' = signed \cup {s} /\ sig' = sig /\ (box' = box \/ box' = Box(s, copy.text, TRUE))
    BY <1>5, <2>1, SealedIs DEF BoxPicked, Saved
  <2> QED BY <1>1, <1>2, <1>3, <2>1, <2>2, SigningHeld
<1> QED BY <1>4, <1>5 DEF DoSigncrypt, DoSeal, SigncryptBytes, SealBytes

LEMMA EditHeld == ASSUME Held, Edit PROVE Held'
<1>1. UNCHANGED <<pair, sig, box, copy, signed, made>> BY DEF Edit
<1>2. /\ Boxes' = Boxes /\ Copies' = Copies /\ Pairs' = Pairs /\ Signatures' = Signatures
      /\ Jobs' = Jobs
  BY <1>1 DEF Boxes, Copies, Pairs, Signatures, Texts, Jobs, Keygens, Readers, Signers, Openers
<1>3. src' \in Texts BY DEF Edit, Held, Texts
<1>4. job' \in [Procs -> Jobs]
  <2>1. ASSUME NEW p \in Procs, job[p].pc = "read" PROVE [job[p] EXCEPT !.still = FALSE] \in Jobs
    <3>1. job[p] \in Readers BY <2>1, JobIs
    <3> QED BY <3>1 DEF Jobs, Readers
  <2> QED BY <2>1, JobIs DEF Edit
<1> QED BY <1>1, <1>2, <1>3, <1>4 DEF Held, Texts

LEMMA StepHeld == ASSUME SignedFilesAssumption, Held, [Next]_vars PROVE Held'
<1>1. CASE Edit BY <1>1, EditHeld
<1>2. ASSUME NEW p \in Procs,
             RunSignKeygen(p) \/ RunIdentityKeygen(p) \/ HandleSignKeygen(p) \/ DoIdentityKeygen(p)
      PROVE Held'
  BY <1>2, KeygenHeld DEF RunSignKeygen, RunIdentityKeygen, HandleSignKeygen, DoIdentityKeygen, Kinds
<1>3. ASSUME NEW p \in Procs, WriteKeyFile(p) PROVE Held' BY <1>3, WriteKeyFileHeld
<1>4. ASSUME NEW p \in Procs, FailKeygen(p) \/ Stop(p) PROVE Held'
  BY <1>4, EndHeld DEF FailKeygen, Stop, files, Faults
<1>5. ASSUME NEW p \in Procs, BeginSigning(p) PROVE Held' BY <1>5, BeginSigningHeld
<1>6. ASSUME NEW p \in Procs, ReadBlock(p) PROVE Held' BY <1>6, ReadBlockHeld
<1>7. ASSUME NEW p \in Procs, Rewind(p) PROVE Held' BY <1>7, RewindHeld
<1>8. ASSUME NEW p \in Procs, CommitBox(p) PROVE Held' BY <1>8, CommitBoxHeld
<1>9. ASSUME NEW p \in Procs, SignFile(p) PROVE Held' BY <1>9, SignFileHeld
<1>10. ASSUME NEW p \in Procs, WriteSignature(p) PROVE Held' BY <1>10, WriteSignatureHeld
<1>11. ASSUME NEW p \in Procs, BeginVerify(p) \/ BeginOpen(p) PROVE Held' BY <1>11, BeginHeld
<1>12. ASSUME NEW p \in Procs, VerifyFile(p) \/ FinishOpen(p) PROVE Held'
  BY <1>12, EndHeld DEF VerifyFile, FinishOpen, budget
<1>13. ASSUME NEW p \in Procs, Pick(p) PROVE Held' BY <1>13, PickHeld
<1>14. ASSUME NEW p \in Procs, DoSign(p) \/ DoSigncrypt(p) \/ DoSeal(p) PROVE Held'
  BY <1>14, WindowSignsHeld
<1>15. ASSUME UNCHANGED <<src, pair, sig, box, copy, job, signed, made>> PROVE Held'
  BY <1>15, HeldStays, HeldGrows DEF Held
<1>16. ASSUME NEW p \in Procs, DoVerify(p) \/ DoSigndecrypt(p) \/ DoUnseal(p) PROVE Held'
  <2>1. UNCHANGED <<src, pair, sig, box, copy, job, signed, made>>
    BY <1>16 DEF DoVerify, DoSigndecrypt, DoUnseal, Release, Presses, Starts
  <2> QED BY <1>15, <2>1
<1>17. CASE UNCHANGED vars BY <1>15, <1>17 DEF vars, files
<1> QED BY <1>1, <1>2, <1>3, <1>4, <1>5, <1>6, <1>7, <1>8, <1>9, <1>10, <1>11, <1>12, <1>13,
           <1>14, <1>16, <1>17 DEF Next
-----------------------------------------------------------------------------
(* What was accepted or released. *)

LEMMA AcceptedStep ==
  ASSUME Held, AcceptedWasSigned, [Next]_vars, signed \subseteq signed' PROVE AcceptedWasSigned'
<1> USE DEF AcceptedWasSigned
<1>1. CASE UNCHANGED <<verdict, out>> BY <1>1
<1>2. ASSUME NEW key, NEW text, NEW f, f \in {None, Half} \cup signed, Verdict(key, text, f),
             UNCHANGED out
      PROVE AcceptedWasSigned'
  <2>1. CASE verdict' = None BY <1>2, <2>1
  <2>2. CASE verdict' # None
    <3>1. /\ verdict' = [key |-> key, text |-> text] /\ Whole(f)
          /\ f = SignBytes("sign", key, text)
      BY <1>2, <2>2 DEF Verdict, DecodeSigPem, VerifyBytes
    <3> QED BY <1>2, <3>1 DEF Whole
  <2> QED BY <2>1, <2>2
<1>3. ASSUME NEW do \in {"signdecrypt", "unseal"}, NEW key, NEW b \in Boxes, Opens(do, key, b),
             out' = Released(do, key, b), UNCHANGED verdict
      PROVE AcceptedWasSigned'
  <2>1. b.sig = SignBytes(Purpose(do), key, b.text)
    BY <1>3 DEF Opens, UnsealBytes, SignDecrypt, ComputeTag, VerifyBytes, Purpose
  <2>2. b.sig \in signed BY DEF Boxes
  <2>3. out'.do = Purpose(do) /\ out'.key = key /\ out'.text = b.text BY <1>3 DEF Released
  <2> QED BY <1>3, <2>1, <2>2, <2>3
<1>4. ASSUME NEW p \in Procs, VerifyFile(p) PROVE AcceptedWasSigned'
  BY <1>2, <1>4 DEF VerifyFile, Held
<1>5. ASSUME NEW p \in Procs, FinishOpen(p) PROVE AcceptedWasSigned'
  <2>1. job[p] \in Openers BY <1>5, JobIs DEF FinishOpen
  <2>2. CASE UNCHANGED out BY <1>1, <1>5, <2>2 DEF FinishOpen
  <2>3. CASE ~UNCHANGED out BY <1>3, <1>5, <2>1, <2>3 DEF FinishOpen, Openers
  <2> QED BY <2>2, <2>3
<1>6. ASSUME NEW p \in Procs, DoVerify(p) PROVE AcceptedWasSigned'
  <2>1. copy.sig \in {None, Half} \cup signed BY DEF Held, Copies
  <2> QED BY <1>2, <1>6, <2>1 DEF DoVerify
<1>7. ASSUME NEW p \in Procs, DoSigndecrypt(p) \/ DoUnseal(p) PROVE AcceptedWasSigned'
  <2>1. copy.box \in Boxes
    BY <1>7 DEF DoSigndecrypt, DoUnseal, ReadyToSigndecrypt, ReadyToUnseal, Held, Copies
  <2>2. PICK do \in {"signdecrypt", "unseal"} : Release(do) BY <1>7 DEF DoSigndecrypt, DoUnseal
  <2>3. PICK key \in 1 .. made : Opens(do, key, copy.box) /\ Saved(out, Released(do, key, copy.box))
    BY <2>2 DEF Release
  <2>4. UNCHANGED verdict BY <2>2 DEF Release
  <2> QED BY <1>1, <1>3, <2>1, <2>3, <2>4 DEF Saved
<1>8. ASSUME NEW p \in Procs, 
             \/ RunSignKeygen(p) \/ RunIdentityKeygen(p) \/ HandleSignKeygen(p) \/ DoIdentityKeygen(p)
             \/ WriteKeyFile(p) \/ FailKeygen(p) \/ BeginSigning(p) \/ ReadBlock(p) \/ Rewind(p)
             \/ CommitBox(p) \/ SignFile(p) \/ WriteSignature(p) \/ BeginVerify(p) \/ BeginOpen(p)
             \/ Stop(p) \/ Pick(p) \/ DoSign(p) \/ DoSigncrypt(p) \/ DoSeal(p)
      PROVE UNCHANGED <<verdict, out>>
  BY <1>8 DEF RunSignKeygen, RunIdentityKeygen, HandleSignKeygen, DoIdentityKeygen, Keygen,
     WriteKeyFile, FailKeygen, BeginSigning, ReadBlock, Rewind, CommitBox, SignFile, WriteSignature,
     BeginVerify, BeginOpen, Stop, Pick, DoSign, DoSigncrypt, DoSeal, SigncryptBytes, SealBytes,
     BoxPicked, files
<1>9. CASE Edit BY <1>1, <1>9 DEF Edit
<1>10. CASE UNCHANGED vars BY <1>1, <1>10 DEF vars, files
<1> QED BY <1>1, <1>4, <1>5, <1>6, <1>7, <1>8, <1>9, <1>10 DEF Next

\* What was signed was signed.
LEMMA SignedGrows == ASSUME [Next]_vars PROVE signed \subseteq signed'
BY DEF Next, Edit, RunSignKeygen, RunIdentityKeygen, HandleSignKeygen, DoIdentityKeygen, Keygen,
   WriteKeyFile, FailKeygen, BeginSigning, ReadBlock, Rewind, CommitBox, SignFile, WriteSignature,
   BeginVerify, VerifyFile, BeginOpen, FinishOpen, Stop, Pick, DoSign, DoSigncrypt, DoSeal,
   DoVerify, DoSigndecrypt, DoUnseal, Release, SigncryptBytes, SealBytes, BoxPicked, vars
-----------------------------------------------------------------------------
(* What was reported signcrypted or sealed opens. *)

\* A command keeps what it has read, or ends.
LEMMA ReadsGo ==
  ASSUME Held, ReadsSource, UNCHANGED src, NEW p \in Procs, NEW j, Go(p, j),
         j.pc = "read" /\ j.still => Follows(j)
  PROVE  ReadsSource'
<1>1. DOMAIN job = Procs BY DEF Held
<1>2. ASSUME NEW q \in Procs, (job[q].pc = "read" /\ job[q].still)' PROVE Follows(job[q])'
  <2>1. CASE q = p BY <1>1, <1>2, <2>1 DEF Go, Follows
  <2>2. CASE q # p BY <1>1, <1>2, <2>2 DEF Go, Follows, ReadsSource
  <2> QED BY <2>1, <2>2
<1> QED BY <1>2 DEF ReadsSource

LEMMA ReadsStay == ASSUME ReadsSource, UNCHANGED <<src, job>> PROVE ReadsSource'
BY DEF ReadsSource, Follows

\* A command that found no edit has read the whole source when it is at its end.
LEMMA WholeSource ==
  ASSUME Held, NEW j \in Readers, Follows(j), Len(j.seen) = Size PROVE j.seen = src
<1>1. j.seen \in Texts BY PassIsText DEF Readers
<1> QED BY <1>1 DEF Held, Texts, Follows

LEMMA ReadBlockReads ==
  ASSUME SignedFilesAssumption, Held, ReadsSource, NEW p \in Procs, ReadBlock(p) PROVE ReadsSource'
<1>1. UNCHANGED src BY DEF ReadBlock, files
<1> DEFINE seen == job[p].seen
           more == Append(seen, src[Len(seen) + 1])
           j == [job[p] EXCEPT !.seen = more]
<1>2. job[p] \in Readers /\ job[p].pc = "read" BY JobIs DEF ReadBlock
<1>3. seen \in Seq(Blocks) /\ Len(seen) < Size BY <1>2 DEF ReadBlock, Readers
<1>4. Go(p, j)
  <2>1. j = [job[p] EXCEPT !.seen = Append(@, src[Len(@) + 1])] OBVIOUS
  <2> QED BY <2>1 DEF ReadBlock
<1>5. /\ j.seen = more /\ j.still = job[p].still /\ j.first = job[p].first /\ j.do = job[p].do
      /\ j.key = job[p].key
  BY <1>2 DEF Readers
<1>6. ASSUME j.still PROVE Follows(j)
  <2>1. Follows(job[p]) BY <1>2, <1>5, <1>6 DEF ReadsSource
  <2>2. Len(seen) \in Nat /\ Len(seen) + 1 \in 1 .. Size BY <1>3 DEF SignedFilesAssumption
  <2>3. src[Len(seen) + 1] \in Blocks BY <2>2 DEF Held, Texts
  <2>4. Len(more) = Len(seen) + 1 /\ \A i \in 1 .. Len(more) :
          more[i] = IF i = Len(seen) + 1 THEN src[Len(seen) + 1] ELSE seen[i]
    BY <1>3, <2>2, <2>3
  <2>5. \A i \in 1 .. Len(more) : more[i] = src[i] BY <2>1, <2>2, <2>4 DEF Follows
  <2> HIDE DEF j, more
  <2> QED BY <1>5, <2>1, <2>2, <2>4, <2>5 DEF Follows
<1> HIDE DEF j
<1> QED BY <1>1, <1>4, <1>6, ReadsGo

LEMMA RewindReads ==
  ASSUME SignedFilesAssumption, Held, ReadsSource, NEW p \in Procs, Rewind(p) PROVE ReadsSource'
<1>1. UNCHANGED src BY DEF Rewind, files
<1>2. job[p] \in Readers /\ job[p].pc = "read" /\ Len(job[p].seen) = Size
  BY PassEnds DEF Rewind, AtEnd
<1>3. PICK s : s = Sealed(job[p].do, job[p].key, job[p].seen) OBVIOUS
<1> DEFINE j == [job[p] EXCEPT !.first = s, !.seen = <<>>]
<1>4. Go(p, j) BY <1>3, Zenon DEF Rewind
<1>5. /\ j.seen = <<>> /\ j.still = job[p].still /\ j.first = s /\ j.do = job[p].do
      /\ j.key = job[p].key
  BY <1>2 DEF Readers
<1>6. s = SignBytes(job[p].do, job[p].key, job[p].seen) BY <1>3, SealedIs
<1>7. ASSUME j.still PROVE Follows(j)
  <2>1. Follows(job[p]) BY <1>2, <1>5, <1>7 DEF ReadsSource
  <2>2. job[p].seen = src BY <1>2, <2>1, WholeSource
  <2>3. Len(j.seen) = 0 BY <1>5
  <2> HIDE DEF j
  <2> QED BY <1>5, <1>6, <2>2, <2>3 DEF Follows, SignedFilesAssumption
<1> HIDE DEF j
<1> QED BY <1>1, <1>4, <1>7, ReadsGo

\* What is not reading does not read.
LEMMA OtherReads ==
  ASSUME Held, ReadsSource, UNCHANGED src, NEW p \in Procs, NEW j, Go(p, j), j.pc # "read"
  PROVE  ReadsSource'
BY ReadsGo

LEMMA EditReads == ASSUME Held, Edit PROVE ReadsSource'
<1>1. job' = [p \in Procs |-> IF job[p].pc = "read" THEN [job[p] EXCEPT !.still = FALSE] ELSE job[p]]
  BY DEF Edit
<1>2. ASSUME NEW p \in Procs, (job[p].pc = "read" /\ job[p].still)' PROVE FALSE
  <2>1. CASE job[p].pc = "read"
    <3>1. job[p] \in Readers BY <2>1, JobIs
    <3>2. job'[p] = [job[p] EXCEPT !.still = FALSE] BY <1>1, <2>1
    <3>3. job'[p].still = FALSE BY <3>1, <3>2 DEF Readers
    <3> QED BY <1>2, <3>3
  <2>2. CASE job[p].pc # "read" BY <1>1, <1>2, <2>2
  <2> QED BY <2>1, <2>2
<1> QED BY <1>2 DEF ReadsSource

\* A command begins to read, having read nothing.
LEMMA BeginReads ==
  ASSUME SignedFilesAssumption, Held, ReadsSource, NEW p \in Procs, BeginSigning(p) \/ BeginVerify(p)
  PROVE  ReadsSource'
<1>1. UNCHANGED src BY DEF BeginSigning, BeginVerify, files
<1>2. CASE UNCHANGED job BY <1>1, <1>2, ReadsStay
<1>3. ASSUME NEW do, NEW key, Go(p, Reading(do, key)) PROVE ReadsSource'
  <2>1. Follows(Reading(do, key)) BY DEF Reading, Follows, SignedFilesAssumption
  <2> QED BY <1>1, <1>3, <2>1, ReadsGo
<1> QED BY <1>2, <1>3 DEF BeginSigning, BeginVerify

LEMMA ReadsStep ==
  ASSUME SignedFilesAssumption, Held, ReadsSource, [Next]_vars PROVE ReadsSource'
<1>1. CASE Edit BY <1>1, EditReads
<1>2. ASSUME NEW p \in Procs, ReadBlock(p) PROVE ReadsSource' BY <1>2, ReadBlockReads
<1>3. ASSUME NEW p \in Procs, Rewind(p) PROVE ReadsSource' BY <1>3, RewindReads
<1>4. ASSUME NEW p \in Procs, BeginSigning(p) \/ BeginVerify(p) PROVE ReadsSource' BY <1>4, BeginReads
<1>5. ASSUME NEW p \in Procs, FailKeygen(p) \/ CommitBox(p) \/ WriteSignature(p) \/ VerifyFile(p)
                              \/ FinishOpen(p) \/ Stop(p)
      PROVE ReadsSource'
  <2>1. Go(p, Idle) /\ UNCHANGED src
    BY <1>5 DEF FailKeygen, CommitBox, WriteSignature, VerifyFile, FinishOpen, Stop, files, End
  <2> QED BY <2>1, OtherReads DEF Idle
<1>6. ASSUME NEW p \in Procs, NEW k \in Kinds, Keygen(p, k) PROVE ReadsSource'
  <2>1. Go(p, [pc |-> "truncate", kind |-> k, key |-> made + 1]) /\ UNCHANGED src
    BY <1>6 DEF Keygen, NewPair, files
  <2> QED BY <2>1, OtherReads
<1>7. ASSUME NEW p \in Procs, WriteKeyFile(p) PROVE ReadsSource'
  <2>1. UNCHANGED src BY <1>7 DEF WriteKeyFile
  <2>2. job[p] \in Keygens BY <1>7, JobIs DEF WriteKeyFile, Writing
  <2>3. PICK j : Go(p, j) /\ j.pc # "read"
    <3>1. CASE job[p].pc = "truncate" BY <1>7, <2>2, <3>1 DEF WriteKeyFile, Step, Keygens
    <3>2. CASE job[p].pc = "public" BY <1>7, <2>2, <3>2 DEF WriteKeyFile, Step, Keygens
    <3>3. CASE job[p].pc = "private" BY <1>7, <3>3 DEF WriteKeyFile, End, Idle
    <3> QED BY <1>7, <3>1, <3>2, <3>3 DEF WriteKeyFile
  <2> QED BY <2>1, <2>3, OtherReads
<1>8. ASSUME NEW p \in Procs, SignFile(p) PROVE ReadsSource'
  <2>1. PICK j : Go(p, j) /\ j.pc = "write" BY <1>8 DEF SignFile
  <2>2. UNCHANGED src BY <1>8 DEF SignFile
  <2> QED BY <2>1, <2>2, OtherReads
<1>9. ASSUME NEW p \in Procs, BeginOpen(p) PROVE ReadsSource'
  <2>1. UNCHANGED src BY <1>9 DEF BeginOpen, files
  <2>2. UNCHANGED job \/ \E j : Go(p, j) /\ j.pc = "open" BY <1>9 DEF BeginOpen
  <2> QED BY <2>1, <2>2, OtherReads, ReadsStay
<1>10. ASSUME NEW p \in Procs, Pick(p) \/ DoSign(p) \/ DoSigncrypt(p) \/ DoSeal(p) \/ DoVerify(p)
                               \/ DoSigndecrypt(p) \/ DoUnseal(p)
       PROVE ReadsSource'
  <2>1. UNCHANGED <<src, job>>
    BY <1>10 DEF Pick, DoSign, DoSigncrypt, DoSeal, DoVerify, DoSigndecrypt, DoUnseal, Presses, files
  <2> QED BY <2>1, ReadsStay
<1>11. CASE UNCHANGED vars BY <1>11, ReadsStay DEF vars, files
<1>12. ASSUME NEW p \in Procs,
              RunSignKeygen(p) \/ RunIdentityKeygen(p) \/ HandleSignKeygen(p) \/ DoIdentityKeygen(p)
       PROVE ReadsSource'
  BY <1>6, <1>12 DEF RunSignKeygen, RunIdentityKeygen, HandleSignKeygen, DoIdentityKeygen, Kinds
<1> QED BY <1>1, <1>2, <1>3, <1>4, <1>5, <1>7, <1>8, <1>9, <1>10, <1>11, <1>12 DEF Next

LEMMA BoxStep == ASSUME Held, ReadsSource, BoxOpens, [Next]_vars PROVE BoxOpens'
<1>1. CASE UNCHANGED box BY <1>1 DEF BoxOpens
<1>2. ASSUME NEW do \in {"signcrypt", "seal"}, NEW key, NEW text, NEW still,
             box' = Box(SignBytes(do, key, text), text, still)
      PROVE BoxOpens'
  BY <1>2 DEF BoxOpens, Box, SignBytes
<1>3. ASSUME NEW p \in Procs, CommitBox(p) PROVE BoxOpens'
  <2>1. /\ job[p] \in Readers /\ Len(job[p].seen) = Size /\ job[p].do \in {"signcrypt", "seal"}
        /\ job[p].pc = "read" /\ job[p].first # None
        /\ box' = Box(job[p].first, job[p].seen, job[p].still)
    BY <1>3, PassEnds DEF CommitBox, AtEnd
  <2>2. CASE ~job[p].still BY <2>1, <2>2 DEF BoxOpens, Box
  <2>3. CASE job[p].still
    <3>1. Follows(job[p]) BY <2>1, <2>3 DEF ReadsSource
    <3>2. job[p].seen = src BY <2>1, <3>1, WholeSource
    <3>3. job[p].first = SignBytes(job[p].do, job[p].key, job[p].seen)
      BY <2>1, <3>1, <3>2 DEF Follows
    <3> QED BY <1>2, <2>1, <3>3
  <2> QED BY <2>2, <2>3
<1>4. ASSUME NEW do \in {"signcrypt", "seal"}, BoxPicked(do) PROVE BoxOpens'
  <2>1. PICK s : s = Sealed(do, copy.key.n, copy.text) OBVIOUS
  <2>2. s = SignBytes(do, copy.key.n, copy.text) BY <2>1, SealedIs
  <2>3. box' = box \/ box' = Box(s, copy.text, TRUE) BY <1>4, <2>1 DEF BoxPicked, Saved
  <2> QED BY <1>1, <1>2, <2>2, <2>3
<1>5. ASSUME NEW p \in Procs, DoSigncrypt(p) \/ DoSeal(p) PROVE BoxOpens'
  BY <1>4, <1>5 DEF DoSigncrypt, DoSeal, SigncryptBytes, SealBytes
<1>6. CASE Edit BY <1>1, <1>6 DEF Edit
<1>7. CASE UNCHANGED vars BY <1>1, <1>7 DEF vars, files
<1>8. ASSUME NEW p \in Procs, 
             \/ RunSignKeygen(p) \/ RunIdentityKeygen(p) \/ HandleSignKeygen(p) \/ DoIdentityKeygen(p)
             \/ WriteKeyFile(p) \/ FailKeygen(p) \/ BeginSigning(p) \/ ReadBlock(p) \/ Rewind(p)
             \/ SignFile(p) \/ WriteSignature(p) \/ BeginVerify(p) \/ VerifyFile(p) \/ BeginOpen(p)
             \/ FinishOpen(p) \/ Stop(p) \/ Pick(p) \/ DoSign(p) \/ DoVerify(p) \/ DoSigndecrypt(p)
             \/ DoUnseal(p)
      PROVE UNCHANGED box
  BY <1>8 DEF RunSignKeygen, RunIdentityKeygen, HandleSignKeygen, DoIdentityKeygen, Keygen,
     WriteKeyFile, FailKeygen, BeginSigning, ReadBlock, Rewind, SignFile, WriteSignature,
     BeginVerify, VerifyFile, BeginOpen, FinishOpen, Stop, Pick, DoSign, DoVerify, DoSigndecrypt,
     DoUnseal, Release, files
<1> QED BY <1>1, <1>3, <1>5, <1>6, <1>7, <1>8 DEF Next
-----------------------------------------------------------------------------
(* The two files of a pair. *)

\* A command that is at work on no pair of kind k, and comes to be at work on none.
LEMMA PairKept ==
  ASSUME Held, NEW k \in Kinds, NEW p \in Procs, NEW j, Go(p, j), p \notin Writers(k),
         ~(j.pc \in Writing /\ j.kind = k), pair'[k] = pair[k],
         \/ Writers(k) = {} /\ pair[k].pub = pair[k].priv
         \/ \E q \in Procs : Alone(q, k)
  PROVE  \/ Writers(k)' = {} /\ pair'[k].pub = pair'[k].priv
         \/ \E q \in Procs : Alone(q, k)'
<1>1. DOMAIN job = Procs BY DEF Held
<1>2. Writers(k)' = Writers(k) BY <1>1 DEF Go, Writers, Writing
<1>3. ASSUME NEW q \in Procs, Alone(q, k) PROVE Alone(q, k)'
  <2>1. q # p BY <1>3 DEF Alone
  <2>2. job'[q] = job[q] BY <1>1, <2>1 DEF Go
  <2> QED BY <1>2, <1>3, <2>2 DEF Alone
<1> QED BY <1>2, <1>3

\* A process that is not at work on a pair does something else that is not.
LEMMA PairsKept ==
  ASSUME Held, OneWriter, NEW p \in Procs, NEW j, Go(p, j), job[p].pc \notin Writing,
         j.pc \notin Writing, UNCHANGED <<pair, broken>>
  PROVE  OneWriter'
<1>1. \A k \in Kinds : p \notin Writers(k) BY DEF Writers, Writing
<1> QED BY <1>1, PairKept DEF OneWriter

LEMMA PairsStay == ASSUME OneWriter, UNCHANGED <<pair, broken, job>> PROVE OneWriter'
BY DEF OneWriter, Alone, Writers

LEMMA KeygenPairs ==
  ASSUME Held, OneWriter, NEW p \in Procs, NEW k \in Kinds, Keygen(p, k) PROVE OneWriter'
<1>1. /\ pair' = pair /\ job[p] = Idle
      /\ broken' = IF Writers(k) = {} THEN broken ELSE broken \cup {k}
  BY DEF Keygen, NewPair, Busy, files
<1>2. PICK j : Go(p, j) /\ j.pc = "truncate" /\ j.kind = k BY DEF Keygen, NewPair
<1>3. \A i \in Kinds : p \notin Writers(i) BY <1>1 DEF Idle, Writers
<1>4. ASSUME NEW i \in Kinds \ broken'
      PROVE  \/ Writers(i)' = {} /\ pair'[i].pub = pair'[i].priv
             \/ \E q \in Procs : Alone(q, i)'
  <2>1. i \notin broken BY <1>1, <1>4
  <2>2. CASE i # k BY <1>1, <1>2, <1>3, <1>4, <2>1, <2>2, PairKept DEF OneWriter
  <2>3. CASE i = k
    <3>1. Writers(k) = {} BY <1>1, <1>4, <2>3
    <3>2. pair[k].pub = pair[k].priv BY <2>1, <2>3, <3>1 DEF OneWriter, Alone
    <3>3. Writers(k)' = {p} BY <1>2, <3>1 DEF Go, Writers, Held
    <3>4. job'[p].pc = "truncate" BY <1>2 DEF Go, Held
    <3>5. Alone(p, k)' BY <1>1, <3>2, <3>3, <3>4 DEF Alone
    <3> QED BY <2>3, <3>5
  <2> QED BY <2>2, <2>3
<1> QED BY <1>4 DEF OneWriter

\* Only one is at work on a pair that is not broken.
LEMMA OnlyWriter ==
  ASSUME OneWriter, NEW p \in Procs, NEW k \in Kinds \ broken, p \in Writers(k) PROVE Alone(p, k)
BY DEF OneWriter, Alone

LEMMA WriteKeyFilePairs ==
  ASSUME Held, OneWriter, NEW p \in Procs, WriteKeyFile(p) PROVE OneWriter'
<1>1. PICK k \in Kinds : k = job[p].kind BY JobIs DEF WriteKeyFile, Writing, Keygens
<1>2. /\ job[p] \in Keygens /\ job[p].pc \in Writing /\ p \in Writers(k)
      /\ broken' = broken
  BY <1>1, JobIs DEF WriteKeyFile, Writing, Writers
<1>3. \A i \in Kinds : i # k => pair'[i] = pair[i] /\ p \notin Writers(i)
  BY <1>1 DEF WriteKeyFile, Held, Pairs, Writers
<1>4. PICK j : /\ Go(p, j) /\ (j = Idle \/ (j.pc \in Writing /\ j.kind = k))
               /\ job[p].pc = "truncate" => j.pc = "public"
               /\ job[p].pc = "public" => /\ j.pc = "private" /\ j.kind = k /\ j.key = job[p].key
                                          /\ pair'[k].pub = job[p].key
               /\ job[p].pc = "private" => /\ j = Idle /\ pair'[k].priv = job[p].key
                                           /\ pair'[k].pub = pair[k].pub
  <2>1. CASE job[p].pc = "truncate"
    BY <1>1, <1>2, <2>1 DEF WriteKeyFile, Step, Keygens, Writing
  <2>2. CASE job[p].pc = "public"
    BY <1>1, <1>2, <2>2 DEF WriteKeyFile, Step, Keygens, Writing, Held, Pairs
  <2>3. CASE job[p].pc = "private"
    BY <1>1, <1>2, <2>3 DEF WriteKeyFile, End, Held, Pairs
  <2> QED BY <2>1, <2>2, <2>3 DEF WriteKeyFile
<1>5. ASSUME NEW i \in Kinds \ broken, i # k
      PROVE  \/ Writers(i)' = {} /\ pair'[i].pub = pair'[i].priv
             \/ \E q \in Procs : Alone(q, i)'
  <2>1. ~(j.pc \in Writing /\ j.kind = i) BY <1>4, <1>5 DEF Idle, Writing
  <2> QED BY <1>3, <1>4, <1>5, <2>1, PairKept DEF OneWriter
<1>6. ASSUME k \notin broken
      PROVE  \/ Writers(k)' = {} /\ pair'[k].pub = pair'[k].priv
             \/ \E q \in Procs : Alone(q, k)'
  <2>1. Alone(p, k) BY <1>2, <1>6, OnlyWriter
  <2>2. DOMAIN job = Procs /\ job'[p] = j BY <1>4 DEF Go, Held
  <2>3. CASE job[p].pc = "private"
    <3>1. Writers(k)' = {} BY <1>4, <2>1, <2>2, <2>3 DEF Alone, Writers, Go, Idle
    <3> QED BY <1>4, <2>1, <2>3, <3>1 DEF Alone
  <2>4. CASE job[p].pc # "private"
    <3>1. j.pc \in {"public", "private"} /\ j.kind = k
      BY <1>2, <1>4, <2>4 DEF Writing, Idle
    <3>2. Writers(k)' = {p} BY <1>4, <2>1, <2>2, <3>1 DEF Alone, Writers, Go
    <3>3. j.pc = "private" => pair'[k].pub = j.key BY <1>2, <1>4, <2>4 DEF Writing
    <3>4. Alone(p, k)' BY <2>2, <3>1, <3>2, <3>3 DEF Alone
    <3> QED BY <3>4
  <2> QED BY <2>3, <2>4
<1> QED BY <1>2, <1>5, <1>6 DEF OneWriter

LEMMA FailKeygenPairs ==
  ASSUME Held, OneWriter, NEW p \in Procs, FailKeygen(p) PROVE OneWriter'
<1>1. PICK k \in Kinds : k = job[p].kind BY JobIs DEF FailKeygen, Writing, Keygens
<1>2. /\ Go(p, Idle) /\ pair' = pair /\ p \in Writers(k)
      /\ broken' = IF job[p].pc = "truncate" THEN broken ELSE broken \cup {k}
  BY <1>1 DEF FailKeygen, End, Writers, files
<1>3. \A i \in Kinds : i # k => p \notin Writers(i) BY <1>1 DEF Writers
<1>4. ASSUME NEW i \in Kinds \ broken'
      PROVE  \/ Writers(i)' = {} /\ pair'[i].pub = pair'[i].priv
             \/ \E q \in Procs : Alone(q, i)'
  <2>1. i \notin broken BY <1>2, <1>4
  <2>2. CASE i # k BY <1>2, <1>3, <2>1, <2>2, PairKept DEF OneWriter, Idle, Writing
  <2>3. CASE i = k
    <3>1. Alone(p, k) /\ job[p].pc = "truncate" BY <1>2, <1>4, <2>1, <2>3, OnlyWriter
    <3>2. Writers(k)' = {} BY <1>2, <3>1 DEF Alone, Writers, Go, Idle, Held
    <3> QED BY <1>2, <2>3, <3>1, <3>2 DEF Alone
  <2> QED BY <2>2, <2>3
<1> QED BY <1>4 DEF OneWriter

LEMMA PairsStep == ASSUME Held, OneWriter, [Next]_vars PROVE OneWriter'
<1>1. CASE Edit
  <2>1. \A p \in Procs : /\ job'[p].pc = job[p].pc
                         /\ job[p].pc # "read" => job'[p] = job[p]
    <3>1. ASSUME NEW p \in Procs, job[p].pc = "read" PROVE job'[p].pc = "read"
      <4>1. job[p] \in Readers BY <3>1, JobIs
      <4> QED BY <1>1, <3>1, <4>1 DEF Edit, Readers
    <3> QED BY <1>1, <3>1 DEF Edit
  <2>2. \A k \in Kinds : Writers(k)' = Writers(k) BY <2>1 DEF Writers
  <2>3. \A p \in Procs, k \in Kinds : Alone(p, k) => Alone(p, k)'
    <3>1. UNCHANGED pair BY <1>1 DEF Edit
    <3> QED BY <2>1, <2>2, <3>1 DEF Alone
  <2>4. UNCHANGED <<pair, broken>> BY <1>1 DEF Edit
  <2> QED BY <2>2, <2>3, <2>4 DEF OneWriter
<1>2. ASSUME NEW p \in Procs,
             RunSignKeygen(p) \/ RunIdentityKeygen(p) \/ HandleSignKeygen(p) \/ DoIdentityKeygen(p)
      PROVE OneWriter'
  BY <1>2, KeygenPairs DEF RunSignKeygen, RunIdentityKeygen, HandleSignKeygen, DoIdentityKeygen, Kinds
<1>3. ASSUME NEW p \in Procs, WriteKeyFile(p) PROVE OneWriter' BY <1>3, WriteKeyFilePairs
<1>4. ASSUME NEW p \in Procs, FailKeygen(p) PROVE OneWriter' BY <1>4, FailKeygenPairs
<1>5. ASSUME NEW p \in Procs, ReadBlock(p) \/ Rewind(p) \/ CommitBox(p) \/ SignFile(p)
             \/ WriteSignature(p) \/ VerifyFile(p) \/ FinishOpen(p) \/ Stop(p)
      PROVE OneWriter'
  <2>1. UNCHANGED <<pair, broken>>
    BY <1>5 DEF ReadBlock, Rewind, CommitBox, SignFile, WriteSignature, VerifyFile, FinishOpen, Stop, files
  <2>2. job[p].pc \in {"read", "write", "open"}
    BY <1>5 DEF ReadBlock, Rewind, CommitBox, SignFile, WriteSignature, VerifyFile, FinishOpen, Stop, AtEnd
  <2>3. PICK j : Go(p, j) /\ j.pc \in {"read", "idle", "write"}
    <3>1. CASE ReadBlock(p) \/ Rewind(p)
      <4>1. job[p] \in Readers BY <3>1, JobIs DEF ReadBlock, Rewind, AtEnd
      <4>2. CASE ReadBlock(p) BY <4>1, <4>2 DEF ReadBlock, Readers
      <4>3. CASE Rewind(p)
        <5>1. PICK s : s = Sealed(job[p].do, job[p].key, job[p].seen) OBVIOUS
        <5> DEFINE j == [job[p] EXCEPT !.first = s, !.seen = <<>>]
        <5>2. Go(p, j) BY <4>3, <5>1, Zenon DEF Rewind
        <5>3. j.pc = "read" BY <4>1 DEF Readers
        <5> HIDE DEF j
        <5> QED BY <5>2, <5>3
      <4> QED BY <3>1, <4>2, <4>3
    <3>2. CASE SignFile(p) BY <3>2 DEF SignFile
    <3>3. CASE CommitBox(p) \/ WriteSignature(p) \/ VerifyFile(p) \/ FinishOpen(p) \/ Stop(p)
      <4>1. Go(p, Idle) BY <3>3 DEF CommitBox, WriteSignature, VerifyFile, FinishOpen, Stop, End
      <4> QED BY <4>1 DEF Idle
    <3> QED BY <1>5, <3>1, <3>2, <3>3
  <2> QED BY <2>1, <2>2, <2>3, PairsKept DEF Writing
<1>6. ASSUME NEW p \in Procs, BeginSigning(p) \/ BeginVerify(p) \/ BeginOpen(p) PROVE OneWriter'
  <2>1. UNCHANGED <<pair, broken>> /\ job[p] = Idle
    BY <1>6 DEF BeginSigning, BeginVerify, BeginOpen, Starts, Busy, files
  <2>2. UNCHANGED job \/ \E j : Go(p, j) /\ j.pc \in {"read", "open"}
    <3>1. CASE BeginSigning(p) BY <3>1 DEF BeginSigning, Reading
    <3>2. CASE BeginVerify(p) BY <3>2 DEF BeginVerify, Reading
    <3>3. CASE BeginOpen(p) BY <3>3 DEF BeginOpen
    <3> QED BY <1>6, <3>1, <3>2, <3>3
  <2> QED BY <2>1, <2>2, PairsKept, PairsStay DEF Writing, Idle
<1>7. ASSUME NEW p \in Procs, Pick(p) \/ DoSign(p) \/ DoSigncrypt(p) \/ DoSeal(p) \/ DoVerify(p)
                               \/ DoSigndecrypt(p) \/ DoUnseal(p)
       PROVE OneWriter'
  <2>1. UNCHANGED <<pair, broken, job>>
    BY <1>7 DEF Pick, DoSign, DoSigncrypt, DoSeal, DoVerify, DoSigndecrypt, DoUnseal, Presses, files
  <2> QED BY <2>1, PairsStay
<1>8. CASE UNCHANGED vars BY <1>8, PairsStay DEF vars, files
<1> QED BY <1>1, <1>2, <1>3, <1>4, <1>5, <1>6, <1>7, <1>8 DEF Next
-----------------------------------------------------------------------------
(* The theorems. *)

SignedInv == Held /\ AcceptedWasSigned /\ ReadsSource /\ BoxOpens /\ OneWriter

\* All of the invariant holds, of every process and both kinds of pair.
THEOREM SignedInvariant == ASSUME SignedFilesAssumption PROVE Spec => []SignedInv
<1>1. Init => SignedInv
  <2> SUFFICES ASSUME Init PROVE SignedInv
    OBVIOUS
  <2>1. Held BY InitHeld
  <2>2. AcceptedWasSigned /\ BoxOpens BY DEF Init, AcceptedWasSigned, BoxOpens
  <2>3. ReadsSource BY DEF Init, Idle, ReadsSource
  <2>4. OneWriter BY DEF Init, Idle, OneWriter, Writers
  <2> QED BY <2>1, <2>2, <2>3, <2>4 DEF SignedInv
<1>2. SignedInv /\ [Next]_vars => SignedInv'
  BY StepHeld, AcceptedStep, SignedGrows, ReadsStep, BoxStep, PairsStep DEF SignedInv
<1> QED BY <1>1, <1>2, PTL DEF Spec

\* Whatever a command or the window accepted as signed, and whatever text it released,
\* was signed by the holder of the key asked for, as it stands and for the same purpose,
\* for any number of processes, keys, edits between two passes, replaced files and faults.
THEOREM AcceptedIsSigned ==
  ASSUME SignedFilesAssumption PROVE Spec => []AcceptedWasSigned
BY SignedInvariant, PTL DEF SignedInv

\* A file that was reported signcrypted or sealed opens under its sender's key, unless
\* its source was edited while it was read: the second pass then reads what the first
\* one signed.
THEOREM ReportedBoxesOpen ==
  ASSUME SignedFilesAssumption PROVE Spec => []ReportedOpens
<1>1. SignedInv => ReportedOpens
  BY DEF SignedInv, BoxOpens, ReportedOpens, Opens, UnsealBytes, SignDecrypt, VerifyBytes, ComputeTag
<1> QED BY <1>1, SignedInvariant, PTL

\* The two files of a pair are of one key between two keygens that did not fail or meet.
THEOREM PairsMatch ==
  ASSUME SignedFilesAssumption PROVE Spec => []SigningPairMatches
<1>1. SignedInv => SigningPairMatches
  BY DEF SignedInv, OneWriter, Alone, SigningPairMatches
<1> QED BY <1>1, SignedInvariant, PTL
-----------------------------------------------------------------------------
(* Types. *)

\* A key is not taken for a file cut short.
NamesAssumption == Half \notin Nat

Bounded ==
    /\ made \in 0 .. MaxKeys /\ started \in 0 .. MaxCommands /\ edits \in 0 .. MaxEdits
    /\ faults \in 0 .. MaxFaults /\ broken \subseteq Kinds

LEMMA BoundedStep ==
  ASSUME SignedFilesAssumption, Held, Bounded, [Next]_vars PROVE Bounded'
<1>1. {MaxKeys, MaxCommands, MaxEdits, MaxFaults} \subseteq Nat BY DEF SignedFilesAssumption
<1>2. CASE Edit BY <1>1, <1>2 DEF Edit, Bounded
<1>3. ASSUME NEW p \in Procs, NEW k \in Kinds, Keygen(p, k) PROVE Bounded'
  BY <1>1, <1>3 DEF Keygen, NewPair, Bounded
<1>4. ASSUME NEW p \in Procs, FailKeygen(p) \/ Stop(p) PROVE Bounded'
  <2>1. UNCHANGED <<made, started, edits>> /\ faults' \in 0 .. MaxFaults
    BY <1>1, <1>4 DEF FailKeygen, Stop, Faults, Bounded
  <2>2. broken' \in {broken, broken \cup {job[p].kind}} /\ (FailKeygen(p) \/ broken' = broken)
    BY <1>4 DEF FailKeygen, Stop
  <2>3. FailKeygen(p) => job[p].kind \in Kinds BY JobIs DEF FailKeygen, Writing, Keygens
  <2> QED BY <2>1, <2>2, <2>3 DEF Bounded
<1>5. ASSUME NEW p \in Procs, \/ BeginSigning(p) \/ BeginVerify(p) \/ BeginOpen(p) \/ DoSign(p)
             \/ DoSigncrypt(p) \/ DoSeal(p) \/ DoVerify(p) \/ DoSigndecrypt(p) \/ DoUnseal(p)
      PROVE Bounded'
  <2>1. UNCHANGED broken /\ Starts(p)
    BY <1>5 DEF BeginSigning, BeginVerify, BeginOpen, DoSign, DoSigncrypt, DoSeal, DoVerify,
       DoSigndecrypt, DoUnseal, Presses
  <2> QED BY <1>1, <2>1 DEF Starts, Bounded
<1>6. ASSUME NEW p \in Procs, \/ WriteKeyFile(p) \/ ReadBlock(p) \/ Rewind(p) \/ CommitBox(p)
             \/ SignFile(p) \/ WriteSignature(p) \/ VerifyFile(p) \/ FinishOpen(p) \/ Pick(p)
      PROVE UNCHANGED <<budget, broken>>
  BY <1>6 DEF WriteKeyFile, ReadBlock, Rewind, CommitBox, SignFile, WriteSignature, VerifyFile,
     FinishOpen, Pick
<1>7. CASE UNCHANGED <<budget, broken>> BY <1>7 DEF budget, Bounded
<1>8. CASE UNCHANGED vars BY <1>7, <1>8 DEF vars, budget
<1>9. ASSUME NEW p \in Procs,
             RunSignKeygen(p) \/ RunIdentityKeygen(p) \/ HandleSignKeygen(p) \/ DoIdentityKeygen(p)
      PROVE Bounded'
  BY <1>3, <1>9 DEF RunSignKeygen, RunIdentityKeygen, HandleSignKeygen, DoIdentityKeygen, Kinds
<1> QED BY <1>2, <1>4, <1>5, <1>6, <1>7, <1>8, <1>9 DEF Next

\* TypeOK holds.
THEOREM SignedTypeCorrect ==
  ASSUME SignedFilesAssumption, NamesAssumption PROVE Spec => []TypeOK
<1>1. Init => Bounded BY DEF Init, Bounded, SignedFilesAssumption
<1>2. SignedInv /\ Bounded /\ [Next]_vars => Bounded' BY BoundedStep DEF SignedInv
<1>3. SignedInv /\ Bounded => TypeOK
  <2> SUFFICES ASSUME Held, Bounded PROVE TypeOK
    BY DEF SignedInv
  <2>1. 1 .. made \subseteq 1 .. MaxKeys /\ Half \notin 1 .. MaxKeys
    BY DEF Bounded, SignedFilesAssumption, NamesAssumption
  <2>2. \A s \in signed : Signature(s) BY DEF Held, Signatures, Signature
  <2>3. \A k \in Kinds : pair[k].pub \in KeyOrNot /\ pair[k].priv \in KeyOrNot \ {Half}
    BY <2>1 DEF Held, Pairs, KeyOrNot, SignedFilesAssumption
  <2>4. Whole(sig) => Signature(sig) BY <2>2 DEF Held, Whole
  <2>5. box # None => Signature(box.sig) /\ box.text \in Texts BY <2>2 DEF Held, Boxes
  <2>6. \A p \in Procs : job[p].pc \in {"idle", "truncate", "public", "private", "read", "write", "open"}
    BY JobIs
  <2>7. src \in Texts BY DEF Held
  <2> QED BY <2>2, <2>3, <2>4, <2>5, <2>6, <2>7 DEF TypeOK, Bounded
<1> QED BY <1>1, <1>2, <1>3, SignedInvariant, PTL DEF Spec

-----------------------------------------------------------------------------
(* Archives (the module Archive), for any files, names, processes, edits,      *)
(* damage and faults.  Its processes, blocks and bounds are named as those of  *)
(* the signed files, and so are some of its variables (src, box, job, made,    *)
(* faults): R!Spec is about these alone.                                       *)
(*                                                                             *)
(* The sizes measured are those of what was packed, one after another          *)
(* (Parted); an extraction is at the place in the text that its entry says     *)
(* (ReadUpTo), and while it is alone it has restored the files before it.      *)

CONSTANTS Zero, Sources, Links, NameOf(_), Lower(_), Unsafe, MaxLen, MaxListed, MaxEntries,
          MaxArchives, MaxExtracts
VARIABLES dir, picked, report, extracted

R == INSTANCE Archive

\* The bounds are numbers, and a file has room for a block.
ArchiveAssumption ==
  /\ MaxLen \in Nat \ {0}
  /\ {MaxListed, MaxEntries, MaxArchives, MaxExtracts, MaxFaults} \subseteq Nat

-----------------------------------------------------------------------------
(* One text after another. *)

\* The first m parts lie in the text one after another, the i-th behind start[i].
Parted(text, parts, start, m) ==
  /\ start \in [1 .. m + 1 -> 0 .. Len(text)] /\ start[1] = 0
  /\ \A i \in 1 .. m : /\ start[i + 1] = start[i] + Len(parts[i])
                       /\ \A k \in 1 .. Len(parts[i]) : text[start[i] + k] = parts[i][k]

LEMMA NonePartedYet ==
  ASSUME NEW t, Len(t) \in Nat, NEW r
  PROVE  \E start : Parted(t, r, start, 0) /\ start[1] = 0
<1> DEFINE none == [i \in 1 .. 0 + 1 |-> 0]
<1>1. none \in [1 .. 0 + 1 -> 0 .. Len(t)] /\ none[1] = 0
  OBVIOUS
<1> HIDE DEF none
<1>2. Parted(t, r, none, 0)
  BY <1>1 DEF Parted
<1> QED BY <1>1, <1>2

\* A text that goes on keeps its parts.
LEMMA PartsStay ==
  ASSUME NEW t, NEW u, Len(t) \in Nat, Len(u) \in Nat, NEW m \in Nat, NEW r, NEW start,
         \A i \in 1 .. m : Len(r[i]) \in Nat, Parted(t, r, start, m),
         Len(t) <= Len(u), \A i \in 1 .. Len(t) : u[i] = t[i]
  PROVE  Parted(u, r, start, m)
<1>1. Len(t) \in Nat /\ Len(u) \in Nat
  OBVIOUS
<1>2. start \in [1 .. m + 1 -> 0 .. Len(u)]
  BY <1>1 DEF Parted
<1>3. ASSUME NEW i \in 1 .. m, NEW k \in 1 .. Len(r[i]) PROVE u[start[i] + k] = r[i][k]
  <2>1. start[i] \in 0 .. Len(t) /\ start[i + 1] \in 0 .. Len(t) /\ start[i + 1] = start[i] + Len(r[i])
    BY DEF Parted
  <2>2. start[i] + k \in 1 .. Len(t)
    BY <2>1, <1>1, <1>3
  <2> QED BY <2>2, <1>3 DEF Parted
<1> QED BY <1>2, <1>3 DEF Parted

\* A part that lies behind the others is one of them.
LiesBehind(t, r, start, m, last) ==
  /\ Len(t) \in Nat /\ m \in Nat /\ last = m + 1 /\ Parted(t, r, start, m)
  /\ Len(r[last]) \in Nat /\ start[last] + Len(r[last]) <= Len(t)
  /\ \A k \in 1 .. Len(r[last]) : t[start[last] + k] = r[last][k]

LEMMA OnePartMore ==
  ASSUME NEW t, NEW r, NEW start, NEW m, NEW last, LiesBehind(t, r, start, m, last)
  PROVE  \E more : Parted(t, r, more, last) /\ more[last + 1] = start[last] + Len(r[last])
<1> USE DEF LiesBehind
<1> DEFINE more == [i \in 1 .. last + 1 |-> IF i = last + 1 THEN start[last] + Len(r[last]) ELSE start[i]]
<1>1. /\ start[last] \in 0 .. Len(t) /\ Len(t) \in Nat /\ last \in Nat /\ m = last - 1
      /\ start \in [1 .. last -> 0 .. Len(t)]
  BY DEF Parted
<1>2. more \in [1 .. last + 1 -> 0 .. Len(t)]
  <2> SUFFICES ASSUME NEW i \in 1 .. last + 1
               PROVE  (IF i = last + 1 THEN start[last] + Len(r[last]) ELSE start[i]) \in 0 .. Len(t)
    OBVIOUS
  <2>1. CASE i = last + 1
    BY <1>1, <2>1
  <2>2. CASE i # last + 1
    BY <2>2, <1>1
  <2> QED BY <2>1, <2>2
<1>3. more[1] = 0 /\ more[last + 1] = start[last] + Len(r[last]) /\ \A i \in 1 .. last : more[i] = start[i]
  BY <1>1 DEF Parted
<1> HIDE DEF more
<1>4. ASSUME NEW i \in 1 .. last
      PROVE  /\ more[i + 1] = more[i] + Len(r[i])
             /\ \A k \in 1 .. Len(r[i]) : t[more[i] + k] = r[i][k]
  <2>1. CASE i = last
    BY <1>3, <2>1
  <2>2. CASE i \in 1 .. m
    <3>1. more[i] = start[i] /\ more[i + 1] = start[i + 1]
      BY <1>3, <2>2
    <3> QED BY <2>2, <3>1 DEF Parted
  <2> QED BY <2>1, <2>2
<1> QED BY <1>2, <1>3, <1>4 DEF Parted

\* One text behind another is the last part of the two together.
Continues(S, u, v, w, r, start, m, last) ==
  /\ u \in Seq(S) /\ v \in Seq(S) /\ w = u \o v
  /\ m \in Nat /\ last = m + 1 /\ r[last] = v
  /\ \A i \in 1 .. m : Len(r[i]) \in Nat
  /\ Parted(u, r, start, m) /\ start[last] = Len(u)

LEMMA PartBehind ==
  ASSUME NEW S, NEW u, NEW v, NEW w, NEW r, NEW start, NEW m, NEW last,
         Continues(S, u, v, w, r, start, m, last)
  PROVE  \E more : Parted(w, r, more, last) /\ more[last + 1] = Len(w)
<1>1. u \in Seq(S) /\ v \in Seq(S) /\ w = u \o v
  BY DEF Continues
<1>2. /\ Len(u) \in Nat /\ Len(v) \in Nat /\ Len(w) = Len(u) + Len(v)
      /\ \A i \in 1 .. Len(u) : w[i] = u[i]
      /\ \A k \in 1 .. Len(v) : w[Len(u) + k] = v[k]
  BY <1>1
<1>3. Len(w) \in Nat /\ Len(u) <= Len(w)
  BY <1>2
<1>4. /\ m \in Nat /\ last = m + 1 /\ \A i \in 1 .. m : Len(r[i]) \in Nat
      /\ Parted(u, r, start, m) /\ start[last] = Len(u) /\ r[last] = v
  BY DEF Continues
<1>5. Parted(w, r, start, m)
  BY <1>2, <1>3, <1>4, PartsStay
<1>6. LiesBehind(w, r, start, m, last)
  BY <1>2, <1>3, <1>4, <1>5 DEF LiesBehind
<1>7. \E more : Parted(w, r, more, last) /\ more[last + 1] = start[last] + Len(r[last])
  BY <1>6, OnePartMore
<1>8. start[last] + Len(r[last]) = Len(w)
  BY <1>2, <1>4
<1> QED BY <1>7, <1>8

\* A set of numbers has a least one.
LEMMA LeastOf == ASSUME NEW s, s \subseteq Nat, s # {} PROVE \E i \in s : \A j \in s : i <= j
<1> DEFINE less == OpToRel(<, Nat)
<1>1. IsWellFoundedOn(less, Nat) BY NatLessThanWellFounded
<1>2. PICK u \in s : \A v \in s : ~ (<<v, u>> \in less)
  <2> HIDE DEF less
  <2> QED BY <1>1, WFMin
<1>3. ASSUME NEW v \in s PROVE u <= v
  <2>1. ~ (<<v, u>> \in less) BY <1>2
  <2>2. ~ (v < u) BY <2>1 DEF OpToRel
  <2> QED BY <2>2
<1> QED BY <1>3

\* What FlattenSeq puts together, up to the i-th.
Joining(s, f) == [i \in 1 .. Len(s) |-> IF i = 1 THEN s[i] ELSE f[i - 1] \o s[i]]
Joined(s)     == CHOOSE f : f = Joining(s, f)

LEMMA FlatIsJoined ==
  ASSUME NEW s, Len(s) # 0
  PROVE  R!FlattenSeq(s) = Joined(s)[Len(s)]
BY DEF R!FlattenSeq, Joined, Joining

\* There is such a function: one for the first m sequences goes on to the next.
LEMMA JoinedIs ==
  ASSUME NEW s, Len(s) \in Nat \ {0}
  PROVE  Joined(s) = Joining(s, Joined(s))
<1>1. Len(s) \in Nat \ {0}
  OBVIOUS
<1> DEFINE Upto(m) == \E f : f = [i \in 1 .. m |-> IF i = 1 THEN s[i] ELSE f[i - 1] \o s[i]]
           Not     == {m \in 1 .. Len(s) : ~Upto(m)}
<1>2. Not = {}
  <2> SUFFICES ASSUME Not # {} PROVE FALSE
    OBVIOUS
  <2>1. PICK m \in Not : \A i \in Not : m <= i
    <3> HIDE DEF Upto
    <3>1. Not \subseteq Nat
      BY <1>1
    <3> HIDE DEF Not
    <3> QED BY <3>1, LeastOf
  <2>2. m \in 1 .. Len(s) /\ ~Upto(m) /\ m \in Nat
    <3> HIDE DEF Upto
    <3> QED BY <1>1
  <2>3. CASE m = 1
    <3> DEFINE f == [i \in 1 .. 1 |-> s[i]]
    <3>1. f = [i \in 1 .. m |-> IF i = 1 THEN s[i] ELSE f[i - 1] \o s[i]]
      BY <2>3
    <3> QED BY <3>1, <2>2
  <2>4. CASE m # 1
    <3>1. m - 1 \in 1 .. Len(s) /\ m - 1 \notin Not
      <4>1. m - 1 \in 1 .. Len(s) /\ ~(m <= m - 1)
        BY <2>2, <2>4, <1>1
      <4> HIDE DEF Not
      <4> QED BY <2>1, <4>1
    <3>2. Upto(m - 1)
      <4> HIDE DEF Upto
      <4> QED BY <3>1
    <3>3. PICK f : f = [i \in 1 .. m - 1 |-> IF i = 1 THEN s[i] ELSE f[i - 1] \o s[i]]
      BY <3>2
    <3> DEFINE g == [i \in 1 .. m |-> IF i = m THEN f[m - 1] \o s[m] ELSE f[i]]
    <3>4. ASSUME NEW i \in 1 .. m PROVE g[i] = IF i = 1 THEN s[i] ELSE g[i - 1] \o s[i]
      <4>1. CASE i = m
        <5>0. m \in 1 .. m /\ m - 1 \in 1 .. m /\ m - 1 # m
          BY <2>2, <2>4
        <5>1. g[m] = f[m - 1] \o s[m] /\ g[m - 1] = f[m - 1]
          BY <5>0
        <5> HIDE DEF g
        <5> QED BY <4>1, <5>1, <2>4
      <4>2. CASE i # m
        <5>1. i \in 1 .. m - 1 /\ (i # 1 => i - 1 \in 1 .. m)
          BY <4>2, <2>2
        <5>2. g[i] = f[i] /\ (i # 1 => g[i - 1] = f[i - 1])
          BY <4>2, <5>1, <2>2
        <5>3. f[i] = IF i = 1 THEN s[i] ELSE f[i - 1] \o s[i]
          BY <3>3, <5>1
        <5> HIDE DEF g
        <5> QED BY <5>2, <5>3
      <4> QED BY <4>1, <4>2
    <3>5. g = [i \in 1 .. m |-> g[i]]
      OBVIOUS
    <3> HIDE DEF g
    <3>6. g = [i \in 1 .. m |-> IF i = 1 THEN s[i] ELSE g[i - 1] \o s[i]]
      BY <3>4, <3>5
    <3> QED BY <3>6, <2>2
  <2> QED BY <2>3, <2>4
<1>3. Upto(Len(s))
  <2> HIDE DEF Upto
  <2> QED BY <1>1, <1>2
<1>4. \E f : f = Joining(s, f)
  BY <1>3 DEF Joining
<1> QED BY <1>4 DEF Joined

\* What is put together has the parts in it.
LEMMA Flattened ==
  \A S, s : Len(s) \in Nat \ {0} /\ (\A i \in 1 .. Len(s) : s[i] \in Seq(S)) =>
    /\ R!FlattenSeq(s) \in Seq(S)
    /\ \E start : Parted(R!FlattenSeq(s), s, start, Len(s))
<1>0. SUFFICES ASSUME NEW S, NEW s, Len(s) \in Nat \ {0}, \A i \in 1 .. Len(s) : s[i] \in Seq(S)
               PROVE  /\ R!FlattenSeq(s) \in Seq(S)
                      /\ \E start : Parted(R!FlattenSeq(s), s, start, Len(s))
  OBVIOUS
<1>1. Len(s) \in Nat \ {0} /\ \A i \in 1 .. Len(s) : s[i] \in Seq(S) /\ Len(s[i]) \in Nat
  BY <1>0
<1> DEFINE J == Joined(s)
<1>2. J = Joining(s, J)
  BY <1>1, JoinedIs
<1> HIDE DEF J
<1>3. /\ J[1] = s[1]
      /\ \A i \in 2 .. Len(s) : J[i] = J[i - 1] \o s[i]
  <2>1. \A i \in 1 .. Len(s) : J[i] = IF i = 1 THEN s[i] ELSE J[i - 1] \o s[i]
    BY <1>2 DEF Joining
  <2>2. 1 \in 1 .. Len(s) /\ \A i \in 2 .. Len(s) : i \in 1 .. Len(s) /\ i # 1
    BY <1>1
  <2> QED BY <2>1, <2>2
<1> DEFINE Good(m) == /\ J[m] \in Seq(S)
                      /\ \E start : Parted(J[m], s, start, m) /\ start[m + 1] = Len(J[m])
           Not     == {m \in 1 .. Len(s) : ~Good(m)}
<1>4. Good(1)
  <2>1. J[1] \in Seq(S) /\ s[1] = J[1] /\ Len(J[1]) \in Nat
    BY <1>1, <1>3
  <2> HIDE DEF Good, Not
  <2>2. PICK start : Parted(J[1], s, start, 0) /\ start[1] = 0
    BY <2>1, NonePartedYet
  <2>3. /\ 0 \in Nat /\ 1 = 0 + 1 /\ start[1] + Len(s[1]) = Len(J[1]) /\ Len(J[1]) <= Len(J[1])
        /\ \A k \in 1 .. Len(s[1]) : J[1][start[1] + k] = s[1][k]
    BY <2>1, <2>2
  <2>4. \E more : Parted(J[1], s, more, 1) /\ more[1 + 1] = start[1] + Len(s[1])
    <3>1. LiesBehind(J[1], s, start, 0, 1)
      BY <2>1, <2>2, <2>3 DEF LiesBehind
    <3> QED BY <3>1, OnePartMore
  <2> QED BY <2>1, <2>3, <2>4 DEF Good
<1>5. ASSUME NEW m \in Nat, m # 0, m < Len(s), Good(m) PROVE Good(m + 1)
  <2> DEFINE last == m + 1
  <2>1. last = m + 1 /\ last \in 2 .. Len(s) /\ last - 1 = m /\ \A i \in 1 .. m : i \in 1 .. Len(s)
    BY <1>1, <1>5
  <2>2. J[m] \in Seq(S) /\ \E start : Parted(J[m], s, start, m) /\ start[last] = Len(J[m])
    BY <1>5
  <2> HIDE DEF Good, Not, last
  <2>3. s[last] \in Seq(S) /\ J[last] = J[m] \o s[last] /\ \A i \in 1 .. m : Len(s[i]) \in Nat
    <3>1. last \in 1 .. Len(s)
      BY <1>1, <2>1
    <3>2. s[last] \in Seq(S)
      BY <1>1, <3>1
    <3>3. J[last] = J[last - 1] \o s[last]
      BY <1>3, <2>1
    <3>4. \A i \in 1 .. m : Len(s[i]) \in Nat
      BY <1>1, <2>1
    <3> QED BY <2>1, <3>2, <3>3, <3>4
  <2>4. PICK start : Parted(J[m], s, start, m) /\ start[last] = Len(J[m])
    BY <2>1, <2>2
  <2>5. J[last] \in Seq(S)
    BY <2>2, <2>3
  <2>6. \E more : Parted(J[last], s, more, last) /\ more[last + 1] = Len(J[last])
    <3>1. Continues(S, J[m], s[last], J[last], s, start, m, last)
      BY <2>1, <2>2, <2>3, <2>4 DEF Continues
    <3> QED BY <3>1, PartBehind
  <2>7. Good(last)
    BY <2>5, <2>6 DEF Good
  <2> QED BY <2>1, <2>7
<1>6. Not = {}
  <2> SUFFICES ASSUME Not # {} PROVE FALSE
    OBVIOUS
  <2>1. Not \subseteq Nat
    BY <1>1
  <2>2. PICK m \in Not : \A i \in Not : m <= i
    <3> HIDE DEF Not
    <3> QED BY <2>1, LeastOf
  <2>3. m \in 1 .. Len(s) /\ ~Good(m) /\ m # 1
    <3> HIDE DEF Good
    <3> QED BY <1>4
  <2>4. m - 1 \in 1 .. Len(s) /\ m - 1 \in Nat /\ m - 1 # 0 /\ m - 1 < Len(s) /\ (m - 1) + 1 = m
    <3> HIDE DEF Good, Not
    <3> QED BY <1>1, <2>3
  <2>5. m - 1 \notin Not
    <3>1. ~(m <= m - 1)
      <4> HIDE DEF Good, Not
      <4> QED BY <2>4
    <3> HIDE DEF Good, Not
    <3> QED BY <2>2, <3>1
  <2>6. Good(m - 1)
    <3> HIDE DEF Good
    <3> QED BY <2>4, <2>5
  <2> HIDE DEF Good, Not
  <2> DEFINE o == m - 1
  <2>7. o \in Nat /\ o # 0 /\ o < Len(s) /\ o + 1 = m /\ Good(o)
    BY <2>4, <2>6
  <2> HIDE DEF o
  <2>8. Good(o + 1)
    BY <2>7, <1>5
  <2> QED BY <2>3, <2>7, <2>8
<1>7. Good(Len(s))
  <2> HIDE DEF Good
  <2> QED BY <1>1, <1>6
<1>8. R!FlattenSeq(s) = J[Len(s)]
  BY <1>1, FlatIsJoined DEF J
<1> QED BY <1>7, <1>8

-----------------------------------------------------------------------------
(* What archives and jobs are. *)
Bytes    == Blocks \cup {Zero}
ArcNames == {NameOf(s) : s \in Sources}
Entries  == [name : ArcNames, size : 0 .. MaxLen]
ArcBoxes == [entries : Seq(Entries), text : Seq(Bytes), good : Nat, still : BOOLEAN,
             real : Seq(Seq(Bytes))]
Packers  == [pc : {"pack"}, list : R!Lists, entries : Seq(Entries), text : Seq(Bytes),
             at : Nat, pos : Nat, still : BOOLEAN]
Extractors == [pc : {"extract"}, box : ArcBoxes, at : Nat, left : Nat, pos : Nat, met : BOOLEAN]
ArcCopies == [name : ArcNames, data : R!Texts]

\* An archive of sources that held still has them one after another, by their sizes.
BoxOk(b) ==
  /\ b \in ArcBoxes /\ Len(b.entries) \in 1 .. MaxListed
  /\ Len(b.real) = Len(b.entries) /\ b.good <= Len(b.text) + 1
  /\ b.still => /\ \A i \in 1 .. Len(b.entries) : b.entries[i].size = Len(b.real[i])
                /\ \E start : Parted(b.text, b.real, start, Len(b.entries))

\* A command that packs sources that hold still has the sizes of those it measured,
\* and those it has read one after another, with the beginning of the next.
ReadSoFar(text, parts, at, pos) ==
  \E start : /\ Parted(text, parts, start, at - 1) /\ start[at] + pos = Len(text)
             /\ at > Len(parts) => pos = 0
             /\ at <= Len(parts) => /\ pos <= Len(parts[at])
                                    /\ \A k \in 1 .. pos : text[start[at] + k] = parts[at][k]
Contents(list, s) == [i \in 1 .. Len(list) |-> s[list[i]]]
PackingOk(j, s) ==
  /\ j \in Packers /\ Len(j.entries) <= Len(j.list) /\ j.at \in 1 .. Len(j.list) + 1
  /\ j.still => /\ \A i \in 1 .. Len(j.entries) : j.entries[i].size = Len(s[j.list[i]])
                /\ ReadSoFar(j.text, Contents(j.list, s), j.at, j.pos)

\* One that extracts is at the place in the text that its entry says; and when it is
\* alone it has restored the files before, and the beginning of the one it fills.
Begins(f, part, n) == f \in R!Texts /\ Len(f) = n /\ \A k \in 1 .. n : f[k] = part[k]
ReadUpTo(j) == \E start : /\ Parted(j.box.text, j.box.real, start, Len(j.box.entries))
                          /\ j.pos + j.left = start[j.at + 1]
InPlace(b, d, i) == d[Lower(b.entries[i].name)]
Apart(b) == ~R!Collide([i \in DOMAIN b.entries |-> b.entries[i].name])
ExtractingOk(j, d) ==
  /\ j \in Extractors /\ BoxOk(j.box)
  /\ j.at <= Len(j.box.entries) /\ j.pos <= Len(j.box.text)
  /\ j.at = 0 => j.left = 0
  /\ j.at > 0 => j.left <= j.box.entries[j.at].size /\ InPlace(j.box, d, j.at) \in R!Texts
  /\ j.box.still => ReadUpTo(j)
  /\ j.box.still /\ ~j.met /\ Apart(j.box) =>
       \A i \in 1 .. j.at :
          Begins(InPlace(j.box, d, i), j.box.real[i],
                 IF i = j.at THEN j.box.entries[i].size - j.left ELSE j.box.entries[i].size)

FilesOk == /\ src \in [Sources -> R!Texts]
           /\ dir \in [R!Names -> R!Texts \cup {None}]
           /\ picked \in [files : Seq(ArcCopies), box : {picked.box}] /\ Len(picked.files) <= MaxListed
           /\ picked.box # None => BoxOk(picked.box)
           /\ box # None => BoxOk(box)
JobsOk  == /\ job \in [R!Procs -> {R!Idle} \cup Packers \cup Extractors]
           /\ \A p \in R!Procs : /\ job[p].pc = "pack" => PackingOk(job[p], src)
                                 /\ R!Extracting(p) => ExtractingOk(job[p], dir)
MetOk   == \A p, q \in R!Procs : p # q /\ R!Extracting(p) /\ R!Extracting(q) => job[p].met
BudgetOk == made \in 0 .. MaxArchives /\ extracted \in 0 .. MaxExtracts /\ faults \in 0 .. MaxFaults
ArchiveInv == FilesOk /\ JobsOk /\ MetOk /\ BudgetOk /\ R!ExtractedIsArchived

-----------------------------------------------------------------------------
(* Texts. *)
LEMMA TextIs ==
  ASSUME ArchiveAssumption, NEW f
  PROVE  f \in R!Texts <=> f \in Seq(Bytes) /\ Len(f) <= MaxLen
<1>1. MaxLen \in Nat
  BY DEF ArchiveAssumption
<1>2. ASSUME f \in R!Texts PROVE f \in Seq(Bytes) /\ Len(f) <= MaxLen
  <2>1. PICK n \in 0 .. MaxLen : f \in [1 .. n -> Bytes]
    BY <1>2 DEF R!Texts, Bytes
  <2>2. n \in Nat /\ n <= MaxLen
    BY <1>1, <2>1
  <2>3. f \in Seq(Bytes) /\ Len(f) = n
    BY <2>1, <2>2, IsASeq, LenProperties
  <2> QED BY <2>2, <2>3
<1>3. ASSUME f \in Seq(Bytes), Len(f) <= MaxLen PROVE f \in R!Texts
  <2>1. Len(f) \in 0 .. MaxLen /\ f \in [1 .. Len(f) -> Bytes]
    BY <1>1, <1>3, LenProperties
  <2> QED BY <2>1 DEF R!Texts, Bytes
<1> QED BY <1>2, <1>3

LEMMA ListIs ==
  ASSUME ArchiveAssumption, NEW l \in R!Lists
  PROVE  /\ l \in Seq(Sources) /\ Len(l) \in 1 .. MaxListed /\ DOMAIN l = 1 .. Len(l)
         /\ \A i \in 1 .. Len(l) : l[i] \in Sources
<1>1. MaxListed \in Nat
  BY DEF ArchiveAssumption
<1>2. PICK n \in 1 .. MaxListed : l \in [1 .. n -> Sources]
  BY DEF R!Lists
<1>3. n \in Nat /\ l \in Seq(Sources) /\ Len(l) = n
  BY <1>1, <1>2, IsASeq, LenProperties
<1> QED BY <1>2, <1>3, LenProperties

\* What is put behind a text.
LEMMA Appended ==
  ASSUME NEW S, NEW t \in Seq(S), NEW b \in S
  PROVE  /\ Append(t, b) \in Seq(S) /\ Len(Append(t, b)) = Len(t) + 1
         /\ Append(t, b)[Len(t) + 1] = b
         /\ \A i \in 1 .. Len(t) : Append(t, b)[i] = t[i]
OBVIOUS

-----------------------------------------------------------------------------
(* Packing. *)

\* Sources that held still have not been edited.
LEMMA Unedited ==
  ASSUME NEW j, NEW s, NEW u, PackingOk(j, s), ArchiveAssumption,
         j.still => \A i \in 1 .. Len(j.list) : u[j.list[i]] = s[j.list[i]]
  PROVE  PackingOk(j, u)
<1>1. j \in Packers /\ Len(j.entries) <= Len(j.list) /\ Len(j.entries) \in Nat /\ Len(j.list) \in Nat
  BY ListIs DEF PackingOk, Packers
<1>2. ASSUME j.still PROVE Contents(j.list, u) = Contents(j.list, s)
  BY <1>2 DEF Contents
<1>3. ASSUME j.still, NEW i \in 1 .. Len(j.entries) PROVE j.entries[i].size = Len(u[j.list[i]])
  <2>1. i \in 1 .. Len(j.list)
    BY <1>1
  <2> QED BY <2>1, <1>3 DEF PackingOk
<1> QED BY <1>1, <1>2, <1>3 DEF PackingOk

LEMMA Disturbed ==
  ASSUME NEW j, NEW s, NEW u, PackingOk(j, s)
  PROVE  PackingOk([j EXCEPT !.still = FALSE], u)
BY DEF PackingOk, Packers

LEMMA PackingBegins ==
  ASSUME ArchiveAssumption, NEW l \in R!Lists, NEW s, NEW j,
         j = [pc |-> "pack", list |-> l, entries |-> <<>>, text |-> <<>>,
              at |-> 1, pos |-> 0, still |-> TRUE],
         \A i \in 1 .. Len(l) : s[l[i]] \in R!Texts
  PROVE  PackingOk(j, s)
<1>1. l \in Seq(Sources) /\ Len(l) \in 1 .. MaxListed /\ Len(l) \in Nat
  BY ListIs DEF ArchiveAssumption
<1>2. j \in Packers /\ Len(j.entries) = 0 /\ Len(j.text) = 0
  BY DEF Packers
<1>3. Len(j.text) \in Nat /\ j.at - 1 = 0 /\ j.pos = 0 /\ j.at = 1
  BY <1>2
<1> DEFINE c == Contents(j.list, s)
<1>4. Len(c) = Len(l) /\ Len(c[1]) \in Nat
  <2>1. j.list = l /\ 1 \in 1 .. Len(l)
    BY <1>1
  <2>2. c = [i \in 1 .. Len(l) |-> s[l[i]]]
    BY <2>1 DEF Contents
  <2>3. c \in Seq(R!Texts) /\ Len(c) = Len(l) /\ c[1] \in R!Texts
    BY <1>1, <2>1, <2>2, IsASeq, LenProperties
  <2> QED BY <2>3, TextIs
<1> HIDE DEF c
<1>5. PICK start : Parted(j.text, c, start, 0) /\ start[1] = 0
  BY <1>3, NonePartedYet
<1>6. ReadSoFar(j.text, c, j.at, j.pos)
  BY <1>1, <1>2, <1>3, <1>4, <1>5 DEF ReadSoFar
<1> QED BY <1>1, <1>2, <1>6 DEF PackingOk, c

\* The contents of the list are sequences.
LEMMA ContentsAre ==
  ASSUME ArchiveAssumption, NEW l \in R!Lists, NEW s, \A i \in 1 .. Len(l) : s[l[i]] \in R!Texts
  PROVE  /\ Contents(l, s) \in Seq(Seq(Bytes)) /\ Len(Contents(l, s)) = Len(l)
         /\ \A i \in 1 .. Len(l) : /\ Contents(l, s)[i] = s[l[i]] /\ s[l[i]] \in Seq(Bytes)
                                   /\ Len(s[l[i]]) \in Nat /\ Len(s[l[i]]) <= MaxLen
<1>1. Len(l) \in Nat
  BY ListIs DEF ArchiveAssumption
<1>2. ASSUME NEW i \in 1 .. Len(l)
      PROVE  s[l[i]] \in Seq(Bytes) /\ Len(s[l[i]]) \in Nat /\ Len(s[l[i]]) <= MaxLen
  BY <1>2, TextIs
<1>3. \A i \in 1 .. Len(l) : Contents(l, s)[i] = s[l[i]]
  BY DEF Contents
<1>4. Contents(l, s) \in [1 .. Len(l) -> Seq(Bytes)]
  BY <1>2 DEF Contents
<1>5. Contents(l, s) \in Seq(Seq(Bytes)) /\ Len(Contents(l, s)) = Len(l)
  BY <1>1, <1>4, IsASeq, LenProperties
<1> QED BY <1>2, <1>3, <1>5

LEMMA Measured ==
  ASSUME ArchiveAssumption, NEW j, NEW s, NEW h, PackingOk(j, s),
         \A i \in 1 .. Len(j.list) : s[j.list[i]] \in R!Texts,
         Len(j.entries) < Len(j.list),
         h = [j EXCEPT !.entries = Append(@, [name |-> NameOf(j.list[Len(j.entries) + 1]),
                                               size |-> Len(s[j.list[Len(j.entries) + 1]])])]
  PROVE  PackingOk(h, s)
<1> DEFINE n == Len(j.entries) + 1
           e == [name |-> NameOf(j.list[n]), size |-> Len(s[j.list[n]])]
<1>1. /\ j \in Packers /\ j.list \in R!Lists /\ j.entries \in Seq(Entries) /\ j.at \in 1 .. Len(j.list) + 1
      /\ Len(j.list) \in Nat /\ Len(j.entries) \in Nat
  <2>1. j \in Packers /\ j.at \in 1 .. Len(j.list) + 1
    BY DEF PackingOk
  <2>2. j.list \in R!Lists /\ j.entries \in Seq(Entries)
    BY <2>1 DEF Packers
  <2> QED BY <2>1, <2>2, ListIs
<1>2. n \in 1 .. Len(j.list) /\ j.list[n] \in Sources
  BY <1>1, ListIs
<1>3. Len(s[j.list[n]]) \in 0 .. MaxLen
  <2>1. Len(s[j.list[n]]) \in Nat /\ Len(s[j.list[n]]) <= MaxLen
    <3> HIDE DEF n
    <3> QED BY <1>1, <1>2, ContentsAre
  <2> QED BY <2>1 DEF ArchiveAssumption
<1>4. e \in Entries
  BY <1>2, <1>3 DEF Entries, ArcNames
<1>5. e.size = Len(s[j.list[n]])
  OBVIOUS
<1>6. h = [j EXCEPT !.entries = Append(j.entries, e)]
  OBVIOUS
<1> HIDE DEF e
<1>7. /\ Append(j.entries, e) \in Seq(Entries) /\ Len(Append(j.entries, e)) = n
      /\ Append(j.entries, e)[n] = e
      /\ \A i \in 1 .. Len(j.entries) : Append(j.entries, e)[i] = j.entries[i]
  BY <1>1, <1>4, Appended
<1>8. /\ h \in Packers /\ h.entries = Append(j.entries, e) /\ h.list = j.list /\ h.still = j.still
      /\ h.at = j.at /\ h.pos = j.pos /\ h.text = j.text
  BY <1>1, <1>6, <1>7 DEF Packers
<1>9. ASSUME h.still, NEW i \in 1 .. n PROVE h.entries[i].size = Len(s[h.list[i]])
  <2>1. CASE i = n
    BY <2>1, <1>5, <1>7, <1>8
  <2>2. CASE i \in 1 .. Len(j.entries)
    BY <2>2, <1>7, <1>8, <1>9 DEF PackingOk
  <2> QED BY <1>1, <2>1, <2>2
<1>10. h.still => ReadSoFar(h.text, Contents(h.list, s), h.at, h.pos)
  BY <1>8 DEF PackingOk
<1>11. Len(h.entries) = n /\ n <= Len(h.list) /\ h.at \in 1 .. Len(h.list) + 1
  BY <1>1, <1>2, <1>7, <1>8
<1> QED BY <1>8, <1>9, <1>10, <1>11 DEF PackingOk

\* One more block of a source.
Reads(t, u, c, at, pos, S) ==
  /\ t \in Seq(S) /\ c \in Seq(Seq(S)) /\ at \in 1 .. Len(c) /\ pos \in Nat
  /\ ReadSoFar(t, c, at, pos) /\ pos < Len(c[at]) /\ u = Append(t, c[at][pos + 1])
LEMMA ReadsOn ==
  ASSUME NEW S, NEW t, NEW u, NEW c, NEW at, NEW pos, Reads(t, u, c, at, pos, S)
  PROVE  ReadSoFar(u, c, at, pos + 1)
<1>1. /\ t \in Seq(S) /\ c \in Seq(Seq(S)) /\ at \in 1 .. Len(c) /\ Len(c) \in Nat /\ pos \in Nat
      /\ pos < Len(c[at]) /\ u = Append(t, c[at][pos + 1]) /\ at <= Len(c)
  BY DEF Reads
<1>2. c[at] \in Seq(S) /\ c[at][pos + 1] \in S /\ at \in Nat /\ Len(c[at]) \in Nat
  BY <1>1
<1>3. /\ Len(t) \in Nat /\ Len(u) = Len(t) + 1 /\ u[Len(t) + 1] = c[at][pos + 1]
      /\ \A i \in 1 .. Len(t) : u[i] = t[i]
  BY <1>1, <1>2, Appended
<1>4. PICK start : /\ Parted(t, c, start, at - 1) /\ start[at] + pos = Len(t)
                   /\ \A k \in 1 .. pos : t[start[at] + k] = c[at][k]
  <2>1. ReadSoFar(t, c, at, pos) /\ at <= Len(c)
    BY <1>1 DEF Reads
  <2> QED BY <2>1 DEF ReadSoFar
<1>5. \A i \in 1 .. at - 1 : Len(c[i]) \in Nat
  <2> SUFFICES ASSUME NEW i \in 1 .. at - 1 PROVE Len(c[i]) \in Nat
    OBVIOUS
  <2>1. i \in 1 .. Len(c)
    BY <1>1
  <2> QED BY <2>1, <1>1
<1>6. at - 1 \in Nat /\ Len(u) \in Nat /\ Len(t) <= Len(u)
  BY <1>1, <1>3
<1>7. Parted(u, c, start, at - 1)
  BY <1>3, <1>4, <1>5, <1>6, PartsStay
<1>8. start[at] \in Nat
  <2>1. at \in 1 .. (at - 1) + 1
    BY <1>1
  <2> QED BY <1>4, <2>1, <1>3 DEF Parted
<1> DEFINE from == start[at]
           part == c[at]
<1>11. /\ from \in Nat /\ pos \in Nat /\ Len(t) \in Nat /\ Len(part) \in Nat /\ pos < Len(part)
       /\ from + pos = Len(t) /\ Len(u) = Len(t) + 1 /\ u[Len(t) + 1] = part[pos + 1]
       /\ \A k \in 1 .. pos : t[from + k] = part[k]
       /\ \A i \in 1 .. Len(t) : u[i] = t[i]
  BY <1>1, <1>2, <1>3, <1>4, <1>8
<1> HIDE DEF from, part
<1>9. from + (pos + 1) = Len(u) /\ pos + 1 <= Len(part)
  BY <1>11
<1>10. ASSUME NEW k \in 1 .. pos + 1 PROVE u[from + k] = part[k]
  <2>1. CASE k = pos + 1
    <3>1. from \in Nat /\ pos \in Nat /\ from + pos = Len(t)
      BY <1>11
    <3>2. from + k = Len(t) + 1
      BY <2>1, <3>1
    <3> QED BY <2>1, <3>2, <1>11
  <2>2. CASE k \in 1 .. pos
    <3>1. from + k \in 1 .. Len(t)
      BY <2>2, <1>11
    <3> QED BY <3>1, <2>2, <1>11
  <2> QED BY <1>11, <2>1, <2>2
<1>12. at <= Len(c) /\ ~(at > Len(c))
  BY <1>1, <1>2
<1> QED BY <1>7, <1>9, <1>10, <1>12 DEF ReadSoFar, from, part

\* A source that has been read is one of the parts.
Ends(t, c, at, pos, S) ==
  /\ t \in Seq(S) /\ c \in Seq(Seq(S)) /\ at \in 1 .. Len(c) /\ pos \in Nat
  /\ ReadSoFar(t, c, at, pos) /\ ~(pos < Len(c[at]))
LEMMA NextSource ==
  ASSUME NEW S, NEW t, NEW c, NEW at, NEW pos, Ends(t, c, at, pos, S)
  PROVE  ReadSoFar(t, c, at + 1, 0)
<1>1. /\ t \in Seq(S) /\ c \in Seq(Seq(S)) /\ at \in 1 .. Len(c) /\ Len(c) \in Nat /\ pos \in Nat
      /\ ~(pos < Len(c[at])) /\ Len(t) \in Nat
  BY DEF Ends
<1>2. Len(c[at]) \in Nat /\ at \in Nat /\ at - 1 \in Nat /\ at = (at - 1) + 1
  BY <1>1
<1>3. PICK start : /\ Parted(t, c, start, at - 1) /\ start[at] + pos = Len(t) /\ pos <= Len(c[at])
                   /\ \A k \in 1 .. pos : t[start[at] + k] = c[at][k]
  BY <1>1 DEF Ends, ReadSoFar
<1>4. pos = Len(c[at])
  BY <1>1, <1>2, <1>3
<1>5. LiesBehind(t, c, start, at - 1, at)
  BY <1>1, <1>2, <1>3, <1>4 DEF LiesBehind
<1>6. PICK more : Parted(t, c, more, at) /\ more[at + 1] = start[at] + Len(c[at])
  BY <1>5, OnePartMore
<1>7. more[at + 1] = Len(t)
  BY <1>3, <1>4, <1>6
<1>8. (at + 1) - 1 = at /\ more[at + 1] + 0 = Len(t)
  BY <1>1, <1>2, <1>7
<1>9. at + 1 <= Len(c) => /\ 0 <= Len(c[at + 1])
                          /\ \A k \in 1 .. 0 : t[more[at + 1] + k] = c[at + 1][k]
  <2> SUFFICES ASSUME at + 1 <= Len(c) PROVE 0 <= Len(c[at + 1])
    OBVIOUS
  <2>1. at + 1 \in 1 .. Len(c)
    BY <1>1
  <2> QED BY <2>1, <1>1
<1>10. Parted(t, c, more, (at + 1) - 1)
  BY <1>6, <1>8
<1> QED BY <1>8, <1>9, <1>10 DEF ReadSoFar

LEMMA Committed ==
  ASSUME ArchiveAssumption, NEW j, NEW s, PackingOk(j, s),
         \A i \in 1 .. Len(j.list) : s[j.list[i]] \in R!Texts,
         Len(j.entries) = Len(j.list), ~(j.at <= Len(j.list))
  PROVE  BoxOk(R!Sealed(j.entries, j.text, j.still,
                      [i \in DOMAIN j.list |-> IF j.still THEN s[j.list[i]] ELSE <<>>]))
<1> DEFINE l == j.list
           real == [i \in DOMAIN j.list |-> IF j.still THEN s[j.list[i]] ELSE <<>>]
           b == R!Sealed(j.entries, j.text, j.still, real)
<1>1. /\ l \in R!Lists /\ j.entries \in Seq(Entries) /\ j.text \in Seq(Bytes) /\ j.still \in BOOLEAN
      /\ j.at \in 1 .. Len(l) + 1
  BY DEF PackingOk, Packers
<1>2. Len(l) \in 1 .. MaxListed /\ DOMAIN l = 1 .. Len(l) /\ Len(l) \in Nat
  BY <1>1, ListIs DEF ArchiveAssumption
<1>3. /\ Contents(l, s) \in Seq(Seq(Bytes)) /\ Len(Contents(l, s)) = Len(l)
      /\ \A i \in 1 .. Len(l) : Contents(l, s)[i] = s[l[i]] /\ s[l[i]] \in Seq(Bytes)
  BY <1>1, ContentsAre
<1>4. real \in Seq(Seq(Bytes)) /\ Len(real) = Len(l)
  <2>1. <<>> \in Seq(Bytes)
    OBVIOUS
  <2>2. real \in [1 .. Len(l) -> Seq(Bytes)]
    BY <1>2, <1>3, <2>1
  <2> HIDE DEF real
  <2> QED BY <1>2, <2>2, IsASeq, LenProperties
<1>5. ASSUME j.still PROVE real = Contents(l, s)
  BY <1>2, <1>5 DEF Contents
<1> HIDE DEF real
<1>6. /\ b = [entries |-> j.entries, text |-> j.text, good |-> Len(j.text) + 1, still |-> j.still,
              real |-> real]
      /\ b.entries = j.entries /\ b.text = j.text /\ b.good = Len(j.text) + 1 /\ b.still = j.still
      /\ b.real = real
  BY DEF R!Sealed
<1>7. Len(j.text) \in Nat /\ Len(j.text) + 1 \in Nat /\ j.at = Len(l) + 1
  BY <1>1, <1>2
<1>8. b \in ArcBoxes
  BY <1>1, <1>4, <1>6, <1>7 DEF ArcBoxes
<1>9. ASSUME b.still
      PROVE  /\ \A i \in 1 .. Len(b.entries) : b.entries[i].size = Len(b.real[i])
             /\ \E start : Parted(b.text, b.real, start, Len(b.entries))
  <2>1. j.still /\ real = Contents(l, s)
    BY <1>5, <1>6, <1>9
  <2>2. \A i \in 1 .. Len(b.entries) : b.entries[i].size = Len(b.real[i])
    <3>1. \A i \in 1 .. Len(l) : j.entries[i].size = Len(s[l[i]])
      BY <2>1 DEF PackingOk
    <3>2. \A i \in 1 .. Len(l) : real[i] = s[l[i]]
      BY <2>1, <1>3
    <3> HIDE DEF l
    <3>3. Len(b.entries) = Len(l)
      BY <1>6 DEF l
    <3> QED BY <3>1, <3>2, <3>3, <1>6
  <2>3. ReadSoFar(j.text, Contents(l, s), j.at, j.pos)
    BY <2>1 DEF PackingOk
  <2>4. j.at - 1 = Len(b.entries)
    BY <1>2, <1>6, <1>7
  <2>5. \E start : Parted(j.text, Contents(l, s), start, Len(b.entries))
    BY <2>3, <2>4 DEF ReadSoFar
  <2> QED BY <1>6, <2>1, <2>2, <2>5
<1>10. Len(b.entries) \in 1 .. MaxListed /\ Len(b.real) = Len(b.entries) /\ b.good <= Len(b.text) + 1
  BY <1>2, <1>4, <1>6, <1>7
<1> HIDE DEF b
<1>11. BoxOk(b)
  BY <1>8, <1>9, <1>10 DEF BoxOk
<1> QED BY <1>11 DEF b, real

LEMMA FromMemory ==
  ASSUME ArchiveAssumption, NEW held, held \in Seq(ArcCopies), Len(held) <= MaxListed, held # <<>>
  PROVE  BoxOk(R!CreateFromMemory(held))
<1> DEFINE n == Len(held)
           entries == [i \in DOMAIN held |-> [name |-> held[i].name, size |-> Len(held[i].data)]]
           real == [i \in DOMAIN held |-> held[i].data]
           b == R!CreateFromMemory(held)
<1>1. n \in Nat \ {0} /\ n \in 1 .. MaxListed /\ DOMAIN held = 1 .. n
  <2>1. Len(held) \in Nat /\ Len(held) # 0 /\ DOMAIN held = 1 .. Len(held)
    BY LenProperties, EmptySeq
  <2> QED BY <2>1 DEF ArchiveAssumption
<1>2. ASSUME NEW i \in 1 .. n
      PROVE  /\ held[i].name \in ArcNames /\ held[i].data \in Seq(Bytes)
             /\ Len(held[i].data) \in 0 .. MaxLen
  <2>1. held[i] \in ArcCopies
    BY <1>1, <1>2
  <2>2. held[i].name \in ArcNames /\ held[i].data \in R!Texts
    BY <2>1 DEF ArcCopies
  <2>3. held[i].data \in Seq(Bytes) /\ Len(held[i].data) <= MaxLen
    BY <2>2, TextIs
  <2>4. Len(held[i].data) \in Nat
    BY <2>3
  <2> QED BY <2>2, <2>3, <2>4 DEF ArchiveAssumption
<1>3. entries \in Seq(Entries) /\ Len(entries) = n
  <2>1. entries \in [1 .. n -> Entries]
    BY <1>1, <1>2 DEF Entries
  <2> HIDE DEF entries
  <2> QED BY <1>1, <2>1, IsASeq, LenProperties
<1>4. real \in Seq(Seq(Bytes)) /\ Len(real) = n
  <2>1. real \in [1 .. n -> Seq(Bytes)]
    BY <1>1, <1>2
  <2> HIDE DEF real
  <2> QED BY <1>1, <2>1, IsASeq, LenProperties
<1>5. \A i \in 1 .. n : real[i] = held[i].data /\ real[i] \in Seq(Bytes) /\ entries[i].size = Len(real[i])
  BY <1>1, <1>2
<1>6. b = R!Sealed(entries, R!FlattenSeq(real), TRUE, real)
  BY DEF R!CreateFromMemory
<1> HIDE DEF entries, real, b, n
<1>7. R!FlattenSeq(real) \in Seq(Bytes) /\ \E start : Parted(R!FlattenSeq(real), real, start, n)
  BY <1>1, <1>4, <1>5, Flattened
<1>8. /\ b = [entries |-> entries, text |-> R!FlattenSeq(real), good |-> Len(R!FlattenSeq(real)) + 1,
              still |-> TRUE, real |-> real]
      /\ b.entries = entries /\ b.text = R!FlattenSeq(real) /\ b.good = Len(R!FlattenSeq(real)) + 1
      /\ b.real = real
  BY <1>6 DEF R!Sealed
<1>9. Len(R!FlattenSeq(real)) \in Nat
  BY <1>7
<1>10. b \in ArcBoxes /\ b.good <= Len(b.text) + 1
  BY <1>3, <1>4, <1>7, <1>8, <1>9 DEF ArcBoxes
<1>11. BoxOk(b)
  BY <1>1, <1>3, <1>4, <1>5, <1>7, <1>8, <1>10 DEF BoxOk
<1> QED BY <1>11 DEF b

LEMMA BoxDamaged ==
  ASSUME NEW b, BoxOk(b), NEW k \in 0 .. b.good - 1
  PROVE  BoxOk([b EXCEPT !.good = k])
<1>1. b \in ArcBoxes /\ b.good \in Nat /\ k \in Nat /\ k <= b.good /\ Len(b.text) \in Nat
  BY DEF BoxOk, ArcBoxes
<1> DEFINE h == [b EXCEPT !.good = k]
<1>2. /\ h \in ArcBoxes /\ h.entries = b.entries /\ h.text = b.text /\ h.good = k /\ h.still = b.still
      /\ h.real = b.real
  BY <1>1 DEF ArcBoxes
<1>3. h.good <= Len(h.text) + 1
  BY <1>1, <1>2 DEF BoxOk
<1> HIDE DEF h
<1>4. BoxOk(h)
  BY <1>2, <1>3 DEF BoxOk
<1> QED BY <1>4 DEF h

-----------------------------------------------------------------------------
(* Extracting. *)
LEMMA ExtractBegins ==
  ASSUME NEW b, BoxOk(b), NEW j, NEW m \in BOOLEAN, NEW d,
         j = [pc |-> "extract", box |-> b, at |-> 0, left |-> 0, pos |-> 0, met |-> m]
  PROVE  ExtractingOk(j, d)
<1>1. b \in ArcBoxes /\ Len(b.entries) \in Nat /\ Len(b.text) \in Nat
  BY DEF BoxOk, ArcBoxes
<1>2. /\ j \in Extractors /\ j.box = b /\ j.at = 0 /\ j.left = 0 /\ j.pos = 0
  BY <1>1 DEF Extractors
<1>3. ASSUME b.still PROVE ReadUpTo(j)
  <2>1. PICK start : Parted(b.text, b.real, start, Len(b.entries))
    BY <1>3 DEF BoxOk
  <2>2. start[1] = 0
    BY <2>1 DEF Parted
  <2>3. j.pos + j.left = start[j.at + 1]
    BY <1>2, <2>2
  <2> QED BY <1>2, <2>1, <2>3 DEF ReadUpTo
<1>4. j.at <= Len(b.entries) /\ j.pos <= Len(b.text) /\ ~(j.at > 0) /\ 1 .. j.at = {}
  BY <1>1, <1>2
<1> QED BY <1>2, <1>3, <1>4 DEF ExtractingOk

\* One that has met another.
LEMMA StillExtracting ==
  ASSUME NEW j, NEW d, NEW e, ExtractingOk(j, d), j.met, e \in [R!Names -> R!Texts \cup {None}],
         \A n \in R!Names : d[n] \in R!Texts => e[n] \in R!Texts
  PROVE  ExtractingOk(j, e)
<1>1. /\ j \in Extractors /\ j.at \in Nat /\ j.box \in ArcBoxes
      /\ j.box.entries \in Seq(Entries) /\ j.at <= Len(j.box.entries) /\ Len(j.box.entries) \in Nat
  BY DEF ExtractingOk, Extractors, ArcBoxes
<1>2. ASSUME j.at > 0 PROVE Lower(j.box.entries[j.at].name) \in R!Names
  <2>1. j.box.entries[j.at] \in Entries
    BY <1>1, <1>2
  <2>2. j.box.entries[j.at].name \in ArcNames
    BY <2>1 DEF Entries
  <2> QED BY <2>2 DEF ArcNames, R!Names
<1>3. j.at > 0 => j.left <= j.box.entries[j.at].size /\ InPlace(j.box, e, j.at) \in R!Texts
  BY <1>2 DEF ExtractingOk, InPlace
<1> QED BY <1>3 DEF ExtractingOk

LEMMA MeetsAnother ==
  ASSUME NEW j, NEW d, ExtractingOk(j, d)
  PROVE  ExtractingOk([j EXCEPT !.met = TRUE], d)
<1> DEFINE h == [j EXCEPT !.met = TRUE]
<1>1. j \in Extractors
  BY DEF ExtractingOk
<1>2. /\ h \in Extractors /\ h.box = j.box /\ h.at = j.at /\ h.left = j.left /\ h.pos = j.pos
      /\ h.met = TRUE
  BY <1>1 DEF Extractors
<1> HIDE DEF h
<1>3. ReadUpTo(h) <=> ReadUpTo(j)
  BY <1>2 DEF ReadUpTo
<1>4. ExtractingOk(h, d)
  BY <1>2, <1>3 DEF ExtractingOk
<1> QED BY <1>4 DEF h

\* The place of an entry is among the names, and no other entry's when all are apart.
LEMMA PlacesAre ==
  ASSUME NEW b, BoxOk(b)
  PROVE  /\ Len(b.entries) \in Nat /\ Len(b.text) \in Nat
         /\ \A i \in 1 .. Len(b.entries) :
               /\ b.entries[i] \in Entries /\ Lower(b.entries[i].name) \in R!Names
               /\ b.entries[i].size \in 0 .. MaxLen
         /\ Apart(b) => \A i, k \in 1 .. Len(b.entries) :
               i # k => Lower(b.entries[i].name) # Lower(b.entries[k].name)
         /\ b.still => \A i \in 1 .. Len(b.entries) : b.entries[i].size = Len(b.real[i])
<1>1. b \in ArcBoxes
  BY DEF BoxOk
<1>2. b.entries \in Seq(Entries) /\ b.text \in Seq(Bytes)
  BY <1>1 DEF ArcBoxes
<1>3. Len(b.entries) \in Nat /\ Len(b.text) \in Nat /\ DOMAIN b.entries = 1 .. Len(b.entries)
  BY <1>2
<1>4. ASSUME NEW i \in 1 .. Len(b.entries)
      PROVE  /\ b.entries[i] \in Entries /\ Lower(b.entries[i].name) \in R!Names
             /\ b.entries[i].size \in 0 .. MaxLen
  <2>1. b.entries[i] \in Entries
    BY <1>2
  <2>2. b.entries[i].name \in ArcNames /\ b.entries[i].size \in 0 .. MaxLen
    BY <2>1 DEF Entries
  <2> QED BY <2>1, <2>2 DEF ArcNames, R!Names
<1>5. ASSUME Apart(b), NEW i \in 1 .. Len(b.entries), NEW k \in 1 .. Len(b.entries), i # k
      PROVE  Lower(b.entries[i].name) # Lower(b.entries[k].name)
  <2> DEFINE names == [x \in DOMAIN b.entries |-> b.entries[x].name]
  <2>1. DOMAIN names = 1 .. Len(b.entries) /\ ~R!Collide(names)
    BY <1>3, <1>5 DEF Apart
  <2>2. names[i] = b.entries[i].name /\ names[k] = b.entries[k].name
    BY <1>3
  <2> HIDE DEF names
  <2> QED BY <1>5, <2>1, <2>2 DEF R!Collide
<1>6. b.still => \A i \in 1 .. Len(b.entries) : b.entries[i].size = Len(b.real[i])
  BY DEF BoxOk
<1> QED BY <1>3, <1>4, <1>5, <1>6

LEMMA EmptyText == ASSUME ArchiveAssumption PROVE <<>> \in R!Texts /\ Len(<<>>) = 0
<1>1. <<>> \in Seq(Bytes) /\ Len(<<>>) = 0
  OBVIOUS
<1>2. 0 <= MaxLen
  BY DEF ArchiveAssumption
<1> QED BY <1>1, <1>2, TextIs

\* The next file is created, and emptied if it was there.
Creates(j, h, d, e) ==
  /\ j.left = 0 /\ j.at < Len(j.box.entries)
  /\ h = [j EXCEPT !.at = @ + 1, !.left = j.box.entries[j.at + 1].size]
  /\ e = [d EXCEPT ![Lower(j.box.entries[j.at + 1].name)] = <<>>]
LEMMA Created ==
  ASSUME ArchiveAssumption, NEW j, NEW h, NEW d, NEW e, ExtractingOk(j, d), Creates(j, h, d, e),
         d \in [R!Names -> R!Texts \cup {None}]
  PROVE  ExtractingOk(h, e)
<1> DEFINE n == j.at + 1
           b == j.box
<1>1. j \in Extractors /\ BoxOk(b) /\ j.at \in Nat /\ j.pos \in Nat /\ j.pos <= Len(b.text)
  BY DEF ExtractingOk, Extractors
<1>2. /\ Len(b.entries) \in Nat /\ Len(b.text) \in Nat
      /\ \A i \in 1 .. Len(b.entries) :
               /\ b.entries[i] \in Entries /\ Lower(b.entries[i].name) \in R!Names
               /\ b.entries[i].size \in 0 .. MaxLen
      /\ Apart(b) => \A i, k \in 1 .. Len(b.entries) :
               i # k => Lower(b.entries[i].name) # Lower(b.entries[k].name)
      /\ b.still => \A i \in 1 .. Len(b.entries) : b.entries[i].size = Len(b.real[i])
  BY <1>1, PlacesAre
<1>3. n \in 1 .. Len(b.entries) /\ b.entries[n].size \in Nat /\ n \in Nat /\ j.left = 0
  <2>1. n \in 1 .. Len(b.entries) /\ j.left = 0 /\ n \in Nat
    BY <1>1, <1>2 DEF Creates
  <2>2. b.entries[n].size \in 0 .. MaxLen
    BY <1>2, <2>1
  <2> QED BY <2>1, <2>2 DEF ArchiveAssumption
<1>4. h = [j EXCEPT !.at = n, !.left = b.entries[n].size]
  BY DEF Creates
<1>5. e = [d EXCEPT ![Lower(b.entries[n].name)] = <<>>]
  BY DEF Creates
<1>6. j.at = n - 1 /\ n > 0
  BY <1>1, <1>3
<1> HIDE DEF n
<1>7. /\ h \in Extractors /\ h.box = b /\ h.at = n /\ h.left = b.entries[n].size /\ h.pos = j.pos
      /\ h.met = j.met
  BY <1>1, <1>3, <1>4 DEF Extractors
<1>8. InPlace(b, e, n) = <<>> /\ <<>> \in R!Texts /\ Len(<<>>) = 0
  BY <1>2, <1>3, <1>5, EmptyText DEF InPlace
<1>9. ASSUME b.still PROVE ReadUpTo(h)
  <2>1. PICK start : Parted(b.text, b.real, start, Len(b.entries)) /\ j.pos + j.left = start[j.at + 1]
    BY <1>9 DEF ExtractingOk, ReadUpTo
  <2>2. start[n + 1] = start[n] + Len(b.real[n]) /\ Len(b.real[n]) = b.entries[n].size
    BY <2>1, <1>2, <1>3, <1>9 DEF Parted
  <2>3. j.pos = start[n]
    BY <2>1, <1>1, <1>3 DEF n
  <2>4. h.pos + h.left = start[h.at + 1]
    BY <2>2, <2>3, <1>7
  <2> QED BY <2>1, <2>4, <1>7 DEF ReadUpTo
<1>10. ASSUME b.still, ~h.met, Apart(b), NEW i \in 1 .. n
       PROVE  Begins(InPlace(b, e, i), b.real[i],
                     IF i = n THEN b.entries[i].size - h.left ELSE b.entries[i].size)
  <2>1. CASE i = n
    <3>1. b.entries[i].size - h.left = 0
      BY <2>1, <1>3, <1>7
    <3>2. \A k \in 1 .. 0 : <<>>[k] = b.real[i][k]
      OBVIOUS
    <3> QED BY <2>1, <3>1, <3>2, <1>8 DEF Begins
  <2>2. CASE i # n
    <3>1. i \in 1 .. j.at /\ i \in 1 .. Len(b.entries)
      BY <2>2, <1>2, <1>3, <1>6
    <3>2. InPlace(b, e, i) = InPlace(b, d, i)
      BY <2>2, <3>1, <1>2, <1>3, <1>5, <1>10 DEF InPlace
    <3>3. Begins(InPlace(b, d, i), b.real[i],
                 IF i = j.at THEN b.entries[i].size - j.left ELSE b.entries[i].size)
      BY <3>1, <1>7, <1>10 DEF ExtractingOk
    <3>4. b.entries[i].size - j.left = b.entries[i].size
      <4>1. b.entries[i].size \in 0 .. MaxLen
        BY <3>1, <1>2
      <4> QED BY <4>1, <1>3 DEF ArchiveAssumption
    <3>5. (IF i = j.at THEN b.entries[i].size - j.left ELSE b.entries[i].size) = b.entries[i].size
      BY <3>4
    <3> QED BY <2>2, <3>2, <3>3, <3>5
  <2> QED BY <2>1, <2>2
<1>11. h.left <= b.entries[n].size /\ h.at <= Len(b.entries) /\ h.at # 0
  BY <1>2, <1>3, <1>7
<1> HIDE DEF b
<1>12. h.box = b /\ h.at = n
  BY <1>7
<1> QED BY <1>1, <1>7, <1>8, <1>9, <1>10, <1>11, <1>12 DEF ExtractingOk

\* A write behind what a file holds, or over it.
LEMMA PutIs ==
  ASSUME ArchiveAssumption, NEW f \in R!Texts, NEW k \in 1 .. MaxLen, NEW c \in Bytes
  PROVE  /\ R!Put(f, k, c) \in R!Texts
         /\ k = Len(f) + 1 => /\ Len(R!Put(f, k, c)) = k /\ R!Put(f, k, c)[k] = c
                              /\ \A i \in 1 .. Len(f) : R!Put(f, k, c)[i] = f[i]
<1>1. f \in Seq(Bytes) /\ Len(f) \in Nat /\ Len(f) <= MaxLen /\ MaxLen \in Nat
  BY TextIs DEF ArchiveAssumption
<1> DEFINE m == IF Len(f) < k THEN k ELSE Len(f)
           g == [i \in 1 .. m |-> IF i = k THEN c ELSE IF i <= Len(f) THEN f[i] ELSE Zero]
<1>2. m \in Nat /\ m <= MaxLen /\ k \in 1 .. m /\ (k = Len(f) + 1 => m = k)
  BY <1>1
<1>3. R!Put(f, k, c) = g
  BY DEF R!Put
<1> HIDE DEF m
<1>4. g \in [1 .. m -> Bytes]
  <2> SUFFICES ASSUME NEW i \in 1 .. m
               PROVE  (IF i = k THEN c ELSE IF i <= Len(f) THEN f[i] ELSE Zero) \in Bytes
    OBVIOUS
  <2>1. i <= Len(f) => f[i] \in Bytes
    BY <1>1, <1>2
  <2>2. Zero \in Bytes
    BY DEF Bytes
  <2> QED BY <2>1, <2>2
<1>5. ASSUME k = Len(f) + 1 PROVE g[k] = c /\ \A i \in 1 .. Len(f) : g[i] = f[i]
  BY <1>1, <1>2, <1>5
<1> HIDE DEF g
<1>6. g \in Seq(Bytes) /\ Len(g) = m
  BY <1>2, <1>4, IsASeq, LenProperties
<1>7. g \in R!Texts
  BY <1>2, <1>6, TextIs
<1> QED BY <1>2, <1>3, <1>5, <1>6, <1>7

\* The next block is written.
CopiesBlock(j, h, d, e) ==
  /\ j.left > 0 /\ R!Readable(j.box, j.pos)
  /\ h = [j EXCEPT !.left = @ - 1, !.pos = @ + 1]
  /\ e = [d EXCEPT ![Lower(j.box.entries[j.at].name)] =
            R!Put(@, j.box.entries[j.at].size - j.left + 1, j.box.text[j.pos + 1])]

\* In an archive of sources that held still it is the one that the file has there.
LEMMA NextBlock ==
  ASSUME NEW j, NEW d, ArchiveAssumption, ExtractingOk(j, d), j.box.still, j.left > 0
  PROVE  /\ j.box.text[j.pos + 1] = j.box.real[j.at][j.box.entries[j.at].size - j.left + 1]
         /\ j.pos < Len(j.box.text)
<1> DEFINE b == j.box
           n == j.at
           done == b.entries[n].size - j.left
<1>1. /\ j \in Extractors /\ BoxOk(b) /\ n \in Nat /\ j.left \in Nat /\ j.pos \in Nat /\ n # 0
      /\ j.left # 0
  BY DEF ExtractingOk, Extractors
<1>2. Len(b.entries) \in Nat /\ Len(b.text) \in Nat /\ n <= Len(b.entries)
  BY <1>1, PlacesAre DEF ExtractingOk
<1>3. n \in 1 .. Len(b.entries)
  BY <1>1, <1>2
<1>4. b.entries[n].size \in Nat /\ b.entries[n].size = Len(b.real[n]) /\ j.left <= b.entries[n].size
  <2>1. b.entries[n].size \in 0 .. MaxLen /\ b.entries[n].size = Len(b.real[n])
    BY <1>1, <1>3, PlacesAre
  <2>2. j.left <= b.entries[n].size
    BY <1>1 DEF ExtractingOk
  <2> QED BY <2>1, <2>2 DEF ArchiveAssumption
<1>5. PICK start : Parted(b.text, b.real, start, Len(b.entries)) /\ j.pos + j.left = start[n + 1]
  BY DEF ExtractingOk, ReadUpTo
<1>6. /\ start[n] \in 0 .. Len(b.text) /\ start[n + 1] \in 0 .. Len(b.text)
      /\ start[n + 1] = start[n] + Len(b.real[n])
      /\ \A k \in 1 .. Len(b.real[n]) : b.text[start[n] + k] = b.real[n][k]
  <2>1. n \in 1 .. Len(b.entries) + 1 /\ n + 1 \in 1 .. Len(b.entries) + 1
    BY <1>2, <1>3
  <2> QED BY <1>3, <1>5, <2>1 DEF Parted
<1>7. done \in Nat /\ done + j.left = Len(b.real[n]) /\ done + 1 \in 1 .. Len(b.real[n])
  <2> DEFINE whole == b.entries[n].size
             left == j.left
  <2>1. whole \in Nat /\ left \in Nat /\ left # 0 /\ left <= whole
    BY <1>1, <1>4
  <2>2. done = whole - left
    OBVIOUS
  <2> HIDE DEF whole, left, done
  <2>3. done \in Nat /\ done + left = whole /\ done + 1 \in 1 .. whole
    BY <2>1, <2>2
  <2>4. whole = Len(b.real[n])
    BY <1>4 DEF whole
  <2> QED BY <2>3, <2>4 DEF left
<1> HIDE DEF b, n
<1>8. j.pos = start[n] + done /\ start[n] \in Nat
  <2>1. start[n] \in Nat /\ start[n + 1] = start[n] + Len(b.real[n]) /\ j.pos + j.left = start[n + 1]
    BY <1>2, <1>5, <1>6
  <2>2. j.pos \in Nat /\ j.left \in Nat /\ done \in Nat /\ Len(b.real[n]) = done + j.left
    BY <1>1, <1>7
  <2> DEFINE all == Len(b.real[n])
             next == start[n + 1]
             from == start[n]
             pos == j.pos
             left == j.left
  <2>3. /\ from \in Nat /\ pos \in Nat /\ left \in Nat /\ done \in Nat
        /\ next = from + all /\ pos + left = next /\ all = done + left
    BY <2>1, <2>2
  <2> HIDE DEF done, all, next, from, pos, left
  <2>4. pos = from + done
    BY <2>3
  <2> QED BY <2>3, <2>4 DEF from, pos
<1>9. b.text[j.pos + 1] = b.real[n][done + 1]
  <2> HIDE DEF done
  <2>1. j.pos + 1 = start[n] + (done + 1)
    BY <1>7, <1>8
  <2>2. done + 1 \in 1 .. Len(b.real[n])
    BY <1>7
  <2>3. \A k \in 1 .. Len(b.real[n]) : b.text[start[n] + k] = b.real[n][k]
    BY <1>6
  <2>4. b.text[start[n] + (done + 1)] = b.real[n][done + 1]
    BY <2>2, <2>3
  <2> QED BY <2>1, <2>4, Zenon
<1>10. j.pos < Len(b.text)
  <2>1. start[n + 1] \in 0 .. Len(b.text) /\ j.pos + j.left = start[n + 1]
    BY <1>5, <1>6
  <2> QED BY <1>1, <1>2, <2>1
<1> QED BY <1>9, <1>10 DEF b, n

LEMMA Copied ==
  ASSUME ArchiveAssumption, NEW j, NEW h, NEW d, NEW e, ExtractingOk(j, d), CopiesBlock(j, h, d, e),
         d \in [R!Names -> R!Texts \cup {None}]
  PROVE  ExtractingOk(h, e) /\ e \in [R!Names -> R!Texts \cup {None}] /\ InPlace(h.box, e, h.at) \in R!Texts
<1> DEFINE n == j.at
           b == j.box
           done == b.entries[n].size - j.left
           place == Lower(b.entries[n].name)
           c == b.text[j.pos + 1]
<1>1. /\ j \in Extractors /\ BoxOk(b) /\ n \in Nat /\ j.left \in Nat /\ j.pos \in Nat /\ n # 0
      /\ j.left # 0
  BY DEF ExtractingOk, Extractors, CopiesBlock
<1>2. /\ Len(b.entries) \in Nat /\ Len(b.text) \in Nat /\ n <= Len(b.entries)
      /\ \A i \in 1 .. Len(b.entries) : Lower(b.entries[i].name) \in R!Names
      /\ Apart(b) => \A i, k \in 1 .. Len(b.entries) :
               i # k => Lower(b.entries[i].name) # Lower(b.entries[k].name)
  BY <1>1, PlacesAre DEF ExtractingOk
<1>3. n \in 1 .. Len(b.entries) /\ place \in R!Names
  BY <1>1, <1>2
<1>4. /\ b.entries[n].size \in 0 .. MaxLen /\ j.left <= b.entries[n].size /\ MaxLen \in Nat
      /\ d[place] \in R!Texts
  BY <1>1, <1>3, PlacesAre DEF ExtractingOk, InPlace, ArchiveAssumption
<1>5. done \in Nat /\ done + 1 \in 1 .. MaxLen /\ b.entries[n].size - (j.left - 1) = done + 1
  BY <1>1, <1>4
<1>6. j.pos < Len(b.text) /\ c \in Bytes
  <2>1. j.pos < Len(b.text)
    BY DEF CopiesBlock, R!Readable
  <2>2. b.text \in Seq(Bytes)
    BY <1>1 DEF BoxOk, ArcBoxes
  <2> QED BY <2>1, <2>2, <1>1
<1>7. e = [d EXCEPT ![place] = R!Put(d[place], done + 1, c)]
  BY DEF CopiesBlock
<1>8. h = [j EXCEPT !.left = j.left - 1, !.pos = j.pos + 1] /\ j.left - 1 \in Nat /\ j.pos + 1 \in Nat
  BY <1>1 DEF CopiesBlock
<1>9. /\ h \in Extractors /\ h.box = b /\ h.at = n /\ h.left = j.left - 1 /\ h.pos = j.pos + 1
      /\ h.met = j.met
  BY <1>1, <1>8 DEF Extractors
<1>10. /\ R!Put(d[place], done + 1, c) \in R!Texts
       /\ Len(d[place]) = done => /\ Len(R!Put(d[place], done + 1, c)) = done + 1
                                  /\ R!Put(d[place], done + 1, c)[done + 1] = c
                                  /\ \A i \in 1 .. done : R!Put(d[place], done + 1, c)[i] = d[place][i]
  <2> HIDE DEF place, done, c
  <2> QED BY <1>4, <1>5, <1>6, PutIs
<1>11. e \in [R!Names -> R!Texts \cup {None}] /\ e[place] = R!Put(d[place], done + 1, c)
  <2> HIDE DEF place, done, c
  <2> QED BY <1>3, <1>7, <1>10
<1>12. InPlace(b, e, n) = e[place] /\ InPlace(b, d, n) = d[place]
  BY DEF InPlace
<1>13. ASSUME b.still PROVE ReadUpTo(h)
  <2>1. PICK start : Parted(b.text, b.real, start, Len(b.entries)) /\ j.pos + j.left = start[n + 1]
    BY <1>13 DEF ExtractingOk, ReadUpTo
  <2>2. h.pos + h.left = start[h.at + 1]
    BY <2>1, <1>1, <1>9
  <2> QED BY <2>1, <2>2, <1>9 DEF ReadUpTo
<1>14. ASSUME b.still, ~h.met, Apart(b), NEW i \in 1 .. n
       PROVE  Begins(InPlace(b, e, i), b.real[i],
                     IF i = n THEN b.entries[i].size - h.left ELSE b.entries[i].size)
  <2>0. Begins(InPlace(b, d, i), b.real[i],
               IF i = n THEN b.entries[i].size - j.left ELSE b.entries[i].size)
    BY <1>9, <1>14 DEF ExtractingOk
  <2>1. CASE i = n
    <3>1. Begins(d[place], b.real[n], done)
      BY <2>0, <2>1, <1>12
    <3>2. c = b.real[n][done + 1]
      BY <1>1, <1>14, NextBlock DEF CopiesBlock
    <3>3. b.entries[n].size - h.left = done + 1
      BY <1>5, <1>9
    <3> HIDE DEF place, done, c
    <3>4. ASSUME NEW k \in 1 .. done + 1 PROVE e[place][k] = b.real[n][k]
      <4>1. CASE k = done + 1
        BY <4>1, <3>1, <3>2, <1>10, <1>11 DEF Begins
      <4>2. CASE k \in 1 .. done
        BY <4>2, <3>1, <1>10, <1>11 DEF Begins
      <4> QED BY <4>1, <4>2, <1>5
    <3>5. Begins(e[place], b.real[n], done + 1)
      BY <3>1, <3>4, <1>10, <1>11 DEF Begins
    <3> QED BY <2>1, <3>3, <3>5, <1>12
  <2>2. CASE i # n
    <3>1. i \in 1 .. Len(b.entries)
      BY <1>2, <1>3, <1>1
    <3>2. Lower(b.entries[i].name) # place
      BY <2>2, <3>1, <1>2, <1>3, <1>14
    <3>3. InPlace(b, e, i) = InPlace(b, d, i)
      BY <3>1, <3>2, <1>2, <1>7 DEF InPlace
    <3> QED BY <2>0, <2>2, <3>3
  <2> QED BY <2>1, <2>2
<1>15. h.at <= Len(b.entries) /\ h.pos <= Len(b.text) /\ h.at # 0 /\ h.left <= b.entries[n].size
  <2> DEFINE whole == b.entries[n].size
             left == j.left
             pos == j.pos
             all == Len(b.text)
             count == Len(b.entries)
  <2>1. /\ whole \in Nat /\ left \in Nat /\ left # 0 /\ left <= whole
        /\ pos \in Nat /\ all \in Nat /\ pos < all
    BY <1>1, <1>2, <1>4, <1>6
  <2>2. h.at = n /\ h.left = left - 1 /\ h.pos = pos + 1
    BY <1>9
  <2>3. n <= count /\ n # 0
    BY <1>1, <1>2
  <2> HIDE DEF whole, left, pos, all, count, n
  <2>4. left - 1 <= whole /\ pos + 1 <= all
    BY <2>1
  <2>5. h.at <= count /\ h.at # 0 /\ h.left <= whole /\ h.pos <= all
    BY <2>2, <2>3, <2>4
  <2> QED BY <2>5 DEF whole, all, count
<1>16. InPlace(h.box, e, h.at) \in R!Texts
  BY <1>9, <1>10, <1>11, <1>12
<1> HIDE DEF b, n
<1>17. h.box = b /\ h.at = n
  BY <1>9 DEF b, n
<1> QED BY <1>1, <1>9, <1>11, <1>13, <1>14, <1>15, <1>16, <1>17 DEF ExtractingOk

\* What a job that has come to its end has restored.
LEMMA Restored ==
  ASSUME ArchiveAssumption, NEW j, NEW d, ExtractingOk(j, d), j.left = 0,
         ~(j.at < Len(j.box.entries)), j.box.still, ~j.met, Apart(j.box)
  PROVE  \A i \in 1 .. Len(j.box.entries) : InPlace(j.box, d, i) = j.box.real[i]
<1> DEFINE b == j.box
<1>1. /\ j \in Extractors /\ BoxOk(b) /\ j.at \in Nat /\ Len(b.entries) \in Nat
      /\ j.at = Len(b.entries)
  <2>1. j \in Extractors /\ BoxOk(b) /\ j.at \in Nat /\ j.at <= Len(b.entries)
    BY DEF ExtractingOk, Extractors
  <2> QED BY <2>1, PlacesAre
<1>2. ASSUME NEW i \in 1 .. Len(b.entries) PROVE InPlace(b, d, i) = b.real[i]
  <2> DEFINE f == InPlace(b, d, i)
             part == b.real[i]
  <2>1. Begins(f, part, IF i = j.at THEN b.entries[i].size - j.left ELSE b.entries[i].size)
    BY <1>1, <1>2 DEF ExtractingOk
  <2>2. b.entries[i].size \in Nat /\ b.entries[i].size = Len(part)
    <3>1. b.entries[i].size \in 0 .. MaxLen /\ b.entries[i].size = Len(part)
      BY <1>1, <1>2, PlacesAre
    <3> QED BY <3>1 DEF ArchiveAssumption
  <2>3. Begins(f, part, Len(part))
    BY <2>1, <2>2
  <2>4. part \in Seq(Bytes)
    <3>1. b.real \in Seq(Seq(Bytes)) /\ i \in 1 .. Len(b.real)
      BY <1>1, <1>2 DEF BoxOk, ArcBoxes
    <3> QED BY <3>1
  <2> HIDE DEF f, part
  <2>5. f \in Seq(Bytes) /\ Len(f) = Len(part) /\ \A k \in 1 .. Len(part) : f[k] = part[k]
    BY <2>3, TextIs DEF Begins
  <2>6. f = part
    BY <2>4, <2>5, SeqEqual
  <2> QED BY <2>6 DEF f, part
<1> QED BY <1>2

-----------------------------------------------------------------------------
(* Steps. *)
LEMMA OneJobOnly ==
  ASSUME JobsOk, NEW p \in R!Procs, NEW j, R!Go(p, j), src' = src,
         j \in {R!Idle} \cup Packers \cup Extractors,
         j.pc = "pack" => PackingOk(j, src'), j.pc = "extract" => ExtractingOk(j, dir'),
         \A q \in R!Procs : q # p /\ R!Extracting(q) => ExtractingOk(job[q], dir')
  PROVE  JobsOk'
<1>1. /\ job \in [R!Procs -> {R!Idle} \cup Packers \cup Extractors]
      /\ job' = [job EXCEPT ![p] = j] /\ job' \in [R!Procs -> {R!Idle} \cup Packers \cup Extractors]
  BY DEF JobsOk, R!Go
<1>2. ASSUME NEW q \in R!Procs
      PROVE  /\ job'[q].pc = "pack" => PackingOk(job'[q], src')
             /\ job'[q].pc = "extract" => ExtractingOk(job'[q], dir')
  <2>1. CASE q = p
    <3>1. job'[q] = j
      BY <1>1, <2>1
    <3> QED BY <3>1
  <2>2. CASE q # p
    <3>1. job'[q] = job[q]
      BY <1>1, <2>2
    <3>2. job[q].pc = "pack" => PackingOk(job[q], src')
      BY DEF JobsOk
    <3> QED BY <2>2, <3>1, <3>2 DEF R!Extracting
  <2> QED BY <2>1, <2>2
<1> QED BY <1>1, <1>2 DEF JobsOk, R!Extracting

LEMMA MetStays ==
  ASSUME JobsOk, MetOk, NEW p \in R!Procs, NEW j, R!Go(p, j),
         j.pc = "extract" => R!Extracting(p) /\ j.met = job[p].met
  PROVE  MetOk'
<1>1. job \in [R!Procs -> {R!Idle} \cup Packers \cup Extractors] /\ job' = [job EXCEPT ![p] = j]
  BY DEF JobsOk, R!Go
<1>2. \A q \in R!Procs : job'[q] = IF q = p THEN j ELSE job[q]
  BY <1>1
<1>3. \A q \in R!Procs : /\ R!Extracting(q)' => R!Extracting(q) /\ job'[q].met = job[q].met
  BY <1>2 DEF R!Extracting
<1> QED BY <1>3 DEF MetOk

LEMMA ReportStays == ASSUME R!ExtractedIsArchived, report' = report PROVE R!ExtractedIsArchived'
BY DEF R!ExtractedIsArchived, R!Intact

LEMMA IdleIs == R!Idle.pc = "idle" /\ R!Idle \in {R!Idle} \cup Packers \cup Extractors
BY DEF R!Idle

\* A job that is left, and one that stays as it is.
LEMMA JobEnds ==
  ASSUME JobsOk, MetOk, NEW p \in R!Procs, R!Go(p, R!Idle), UNCHANGED <<src, dir>>
  PROVE  JobsOk' /\ MetOk'
<1>1. \A q \in R!Procs : q # p /\ R!Extracting(q) => ExtractingOk(job[q], dir')
  BY DEF JobsOk
<1>2. JobsOk'
  BY <1>1, IdleIs, OneJobOnly
<1>3. MetOk'
  BY IdleIs, MetStays
<1> QED BY <1>2, <1>3

LEMMA JobsStay ==
  ASSUME JobsOk, MetOk, UNCHANGED <<src, dir, job>> PROVE JobsOk' /\ MetOk'
BY DEF JobsOk, MetOk, R!Extracting

LEMMA SourcesThere ==
  ASSUME ArchiveAssumption, FilesOk, NEW l \in R!Lists
  PROVE  \A i \in 1 .. Len(l) : src[l[i]] \in R!Texts
BY ListIs DEF FilesOk

LEMMA InitArchive == ASSUME ArchiveAssumption, R!Init PROVE ArchiveInv
<1>1. \A b \in Blocks : <<b>> \in R!Texts /\ [i \in 1 .. MaxLen |-> b] \in R!Texts
  <2> SUFFICES ASSUME NEW b \in Blocks PROVE <<b>> \in R!Texts /\ [i \in 1 .. MaxLen |-> b] \in R!Texts
    OBVIOUS
  <2>1. MaxLen \in Nat /\ 1 <= MaxLen /\ b \in Bytes
    BY DEF ArchiveAssumption, Bytes
  <2>2. <<b>> \in Seq(Bytes) /\ Len(<<b>>) = 1
    BY <2>1
  <2>3. [i \in 1 .. MaxLen |-> b] \in [1 .. MaxLen -> Bytes] /\ MaxLen \in 0 .. MaxLen
    BY <2>1
  <2> QED BY <2>1, <2>2, <2>3, TextIs DEF R!Texts, Bytes
<1>2. src \in [Sources -> R!Texts]
  BY <1>1 DEF R!Init
<1>3. dir \in [R!Names -> R!Texts \cup {None}]
  <2>1. PICK old \in {None} \cup {[i \in 1 .. MaxLen |-> b] : b \in Blocks} : dir = [n \in R!Names |-> old]
    BY DEF R!Init
  <2>2. old \in R!Texts \cup {None}
    BY <1>1
  <2> QED BY <2>1, <2>2
<1>4. /\ picked = [files |-> <<>>, box |-> None] /\ box = None /\ job = [p \in R!Procs |-> R!Idle]
      /\ report = None /\ made = 0 /\ extracted = 0 /\ faults = 0
  BY DEF R!Init
<1>5. 0 <= MaxListed /\ MaxListed \in Nat /\ MaxArchives \in Nat /\ MaxExtracts \in Nat /\ MaxFaults \in Nat
  BY DEF ArchiveAssumption
<1>6. FilesOk
  <2>1. <<>> \in Seq(ArcCopies) /\ Len(<<>>) = 0
    OBVIOUS
  <2>2. picked \in [files : Seq(ArcCopies), box : {picked.box}] /\ picked.files = <<>> /\ picked.box = None
    BY <1>4, <2>1
  <2> QED BY <1>2, <1>3, <1>4, <1>5, <2>1, <2>2 DEF FilesOk
<1>7. JobsOk /\ MetOk
  BY <1>4, IdleIs DEF JobsOk, MetOk, R!Extracting
<1>8. BudgetOk
  BY <1>4, <1>5 DEF BudgetOk
<1>9. R!ExtractedIsArchived
  BY <1>4 DEF R!ExtractedIsArchived
<1> QED BY <1>6, <1>7, <1>8, <1>9 DEF ArchiveInv

LEMMA OneFault ==
  ASSUME ArchiveAssumption, BudgetOk, R!Faults PROVE BudgetOk'
BY DEF ArchiveAssumption, BudgetOk, R!Faults

LEMMA EditArchive == ASSUME ArchiveAssumption, ArchiveInv, R!Edit PROVE ArchiveInv'
<1> USE DEF ArchiveInv
<1>1. PICK s \in Sources, b \in Blocks :
        /\ src' = [src EXCEPT ![s] = IF Len(@) < MaxLen THEN Append(@, b) ELSE Tail(@)]
        /\ job' = [p \in R!Procs |-> IF job[p].pc = "pack" /\ s \in R!ToSet(job[p].list)
                                     THEN [job[p] EXCEPT !.still = FALSE] ELSE job[p]]
  BY DEF R!Edit
<1>2. UNCHANGED <<box, dir, picked, report>> /\ R!Faults
  BY DEF R!Edit
<1>3. src' \in [Sources -> R!Texts] /\ \A x \in Sources \ {s} : src'[x] = src[x]
  <2>1. src[s] \in R!Texts /\ src \in [Sources -> R!Texts]
    BY DEF FilesOk
  <2>2. src[s] \in Seq(Bytes) /\ Len(src[s]) \in Nat /\ Len(src[s]) <= MaxLen
    BY <2>1, TextIs
  <2>3. b \in Bytes /\ MaxLen \in Nat /\ MaxLen # 0
    BY DEF Bytes, ArchiveAssumption
  <2>4. ASSUME Len(src[s]) < MaxLen PROVE Append(src[s], b) \in R!Texts
    <3>1. Append(src[s], b) \in Seq(Bytes) /\ Len(Append(src[s], b)) = Len(src[s]) + 1
      BY <2>2, <2>3, Appended
    <3>2. Len(Append(src[s], b)) <= MaxLen
      BY <2>2, <2>3, <2>4, <3>1
    <3> QED BY <3>1, <3>2, TextIs
  <2>5. ASSUME ~(Len(src[s]) < MaxLen) PROVE Tail(src[s]) \in R!Texts
    <3>1. Len(src[s]) = MaxLen /\ src[s] # <<>>
      BY <2>2, <2>3, <2>5
    <3>2. Tail(src[s]) \in Seq(Bytes) /\ Len(Tail(src[s])) = Len(src[s]) - 1
      BY <2>2, <3>1, HeadTailProperties
    <3>3. Len(Tail(src[s])) <= MaxLen
      BY <2>2, <2>3, <3>1, <3>2
    <3> QED BY <3>2, <3>3, TextIs
  <2> QED BY <1>1, <2>1, <2>4, <2>5
<1>4. FilesOk'
  BY <1>2, <1>3 DEF FilesOk
<1>5. ASSUME NEW p \in R!Procs
      PROVE  /\ job'[p] \in {R!Idle} \cup Packers \cup Extractors
             /\ job'[p].pc = job[p].pc
             /\ job'[p].pc = "pack" => PackingOk(job'[p], src')
             /\ job'[p].pc = "extract" => job'[p] = job[p] /\ ExtractingOk(job[p], dir')
  <2>0. /\ job[p] \in {R!Idle} \cup Packers \cup Extractors
        /\ job[p].pc = "pack" => PackingOk(job[p], src)
        /\ job[p].pc = "extract" => ExtractingOk(job[p], dir)
    BY DEF JobsOk, R!Extracting
  <2>1. CASE job[p].pc = "pack" /\ s \in R!ToSet(job[p].list)
    <3>1. job'[p] = [job[p] EXCEPT !.still = FALSE]
      BY <1>1, <2>1
    <3>2. PackingOk(job'[p], src')
      BY <2>0, <2>1, <3>1, Disturbed
    <3>3. job'[p] \in Packers
      BY <3>2 DEF PackingOk
    <3>4. job'[p].pc = "pack"
      BY <3>3 DEF Packers
    <3> QED BY <2>1, <3>2, <3>3, <3>4
  <2>2. CASE ~(job[p].pc = "pack" /\ s \in R!ToSet(job[p].list))
    <3>1. job'[p] = job[p]
      BY <1>1, <2>2
    <3>2. ASSUME job[p].pc = "pack" PROVE PackingOk(job[p], src')
      <4>1. PackingOk(job[p], src) /\ job[p].list \in R!Lists
        BY <2>0, <3>2 DEF PackingOk, Packers
      <4>2. \A i \in 1 .. Len(job[p].list) : job[p].list[i] \in Sources /\ job[p].list[i] # s
        BY <4>1, <2>2, <3>2, ListIs DEF R!ToSet
      <4>3. \A i \in 1 .. Len(job[p].list) : src'[job[p].list[i]] = src[job[p].list[i]]
        BY <4>2, <1>3
      <4> QED BY <4>1, <4>3, Unedited
    <3> QED BY <2>0, <3>1, <3>2, <1>2
  <2> QED BY <2>1, <2>2
<1>6. job' = [p \in R!Procs |-> job'[p]]
  BY <1>1
<1>7. job' \in [R!Procs -> {R!Idle} \cup Packers \cup Extractors]
  BY <1>5, <1>6
<1>8. JobsOk' /\ MetOk'
  BY <1>5, <1>7 DEF JobsOk, MetOk, R!Extracting
<1>9. BudgetOk' /\ R!ExtractedIsArchived'
  BY <1>2, OneFault, ReportStays
<1> QED BY <1>4, <1>8, <1>9

\* What the jobs of the invariant are.
LEMMA JobAtHand ==
  ASSUME ArchiveInv, NEW p \in R!Procs
  PROVE  /\ job[p] \in {R!Idle} \cup Packers \cup Extractors
         /\ job[p].pc = "pack" => PackingOk(job[p], src) /\ job[p] \in Packers
         /\ R!Extracting(p) => ExtractingOk(job[p], dir) /\ job[p] \in Extractors
BY DEF ArchiveInv, JobsOk, PackingOk, ExtractingOk

\* A step of packing changes nothing but the job.
LEMMA PackingOn ==
  ASSUME ArchiveInv, NEW p \in R!Procs, NEW j, R!Go(p, j), j.pc = "pack", PackingOk(j, src),
         UNCHANGED <<src, box, dir, picked, report>>, BudgetOk'
  PROVE  ArchiveInv'
<1> USE DEF ArchiveInv
<1>1. FilesOk' /\ R!ExtractedIsArchived'
  <2>1. FilesOk'
    BY DEF FilesOk
  <2> QED BY <2>1, ReportStays
<1>2. j \in {R!Idle} \cup Packers \cup Extractors /\ PackingOk(j, src')
  BY DEF PackingOk
<1>3. \A q \in R!Procs : q # p /\ R!Extracting(q) => ExtractingOk(job[q], dir')
  BY DEF JobsOk
<1>4. JobsOk'
  BY <1>2, <1>3, OneJobOnly
<1>5. MetOk'
  BY MetStays
<1> QED BY <1>1, <1>4, <1>5

LEMMA BeginArchiveStep ==
  ASSUME ArchiveAssumption, ArchiveInv, NEW p \in R!Procs, R!BeginArchive(p) PROVE ArchiveInv'
<1>1. PICK list \in R!Lists :
        R!Go(p, [pc |-> "pack", list |-> list, entries |-> <<>>, text |-> <<>>,
               at |-> 1, pos |-> 0, still |-> TRUE])
  BY DEF R!BeginArchive
<1> DEFINE j == [pc |-> "pack", list |-> list, entries |-> <<>>, text |-> <<>>,
                 at |-> 1, pos |-> 0, still |-> TRUE]
<1>2. UNCHANGED <<src, box, dir, picked, report>> /\ BudgetOk'
  <2>1. made \in Nat /\ made < MaxArchives /\ made' = made + 1 /\ MaxArchives \in Nat
    BY DEF R!BeginArchive, ArchiveInv, BudgetOk, ArchiveAssumption
  <2> QED BY <2>1 DEF R!BeginArchive, ArchiveInv, BudgetOk
<1>3. \A i \in 1 .. Len(list) : src[list[i]] \in R!Texts
  BY SourcesThere DEF ArchiveInv
<1>4. PackingOk(j, src) /\ j.pc = "pack" /\ R!Go(p, j)
  <2>1. j.pc = "pack" /\ R!Go(p, j) /\ j = [pc |-> "pack", list |-> list, entries |-> <<>>, text |-> <<>>,
                 at |-> 1, pos |-> 0, still |-> TRUE]
    BY <1>1
  <2> HIDE DEF j
  <2> QED BY <2>1, <1>3, PackingBegins
<1> HIDE DEF j
<1> QED BY <1>2, <1>4, PackingOn

LEMMA MeasureStep ==
  ASSUME ArchiveAssumption, ArchiveInv, NEW p \in R!Procs, R!Measure(p) PROVE ArchiveInv'
<1> DEFINE j == job[p]
           h == [j EXCEPT !.entries = Append(@, [name |-> NameOf(j.list[Len(j.entries) + 1]),
                                                 size |-> Len(src[j.list[Len(j.entries) + 1]])])]
<1>1. PackingOk(j, src) /\ j \in Packers
  BY JobAtHand DEF R!Measure
<1>2. /\ R!Go(p, h) /\ Len(j.entries) < Len(j.list) /\ UNCHANGED <<src, box, dir, picked, report>>
      /\ UNCHANGED R!budget
  BY DEF R!Measure
<1>3. \A i \in 1 .. Len(j.list) : src[j.list[i]] \in R!Texts
  BY <1>1, SourcesThere DEF ArchiveInv, Packers
<1>4. PackingOk(h, src)
  <2> DEFINE g == h
  <2>1. g = h
    OBVIOUS
  <2> HIDE DEF g
  <2>2. PackingOk(g, src)
    BY <1>1, <1>2, <1>3, <2>1, Measured
  <2> QED BY <2>1, <2>2
<1>5. h.pc = "pack"
  BY <1>1 DEF Packers
<1>6. BudgetOk'
  BY <1>2 DEF ArchiveInv, BudgetOk, R!budget
<1> HIDE DEF h
<1> QED BY <1>2, <1>4, <1>5, <1>6, PackingOn

LEMMA ReadChainStep ==
  ASSUME ArchiveAssumption, ArchiveInv, NEW p \in R!Procs, R!ReadChain(p) PROVE ArchiveInv'
<1> DEFINE j == job[p]
           source == src[j.list[j.at]]
           h == IF j.pos < Len(source)
                THEN [j EXCEPT !.text = Append(j.text, source[j.pos + 1]), !.pos = j.pos + 1]
                ELSE [j EXCEPT !.at = j.at + 1, !.pos = 0]
           parts == Contents(j.list, src)
<1>1. /\ j.pc = "pack" /\ j.at <= Len(j.list) /\ UNCHANGED <<src, box, dir, picked, report>>
      /\ UNCHANGED R!budget
  BY DEF R!ReadChain, R!Sealing, R!Chain
<1>2. R!Go(p, h)
  BY DEF R!ReadChain
<1>3. PackingOk(j, src) /\ j \in Packers
  BY <1>1, JobAtHand
<1>4. /\ j.list \in R!Lists /\ j.text \in Seq(Bytes) /\ j.at \in Nat /\ j.pos \in Nat /\ j.still \in BOOLEAN
      /\ j.at \in 1 .. Len(j.list) + 1 /\ Len(j.entries) <= Len(j.list)
  BY <1>3 DEF PackingOk, Packers
<1>5. Len(j.list) \in Nat /\ j.at \in 1 .. Len(j.list)
  BY <1>1, <1>4, ListIs
<1>6. \A i \in 1 .. Len(j.list) : src[j.list[i]] \in R!Texts
  BY <1>4, SourcesThere DEF ArchiveInv
<1>7. /\ parts \in Seq(Seq(Bytes)) /\ Len(parts) = Len(j.list) /\ parts[j.at] = source
      /\ source \in Seq(Bytes) /\ Len(source) \in Nat
  BY <1>4, <1>5, <1>6, ContentsAre
<1> HIDE DEF source, parts, j
<1>8. CASE j.pos < Len(source)
  <2> DEFINE u == Append(j.text, source[j.pos + 1])
  <2>1. h = [j EXCEPT !.text = u, !.pos = j.pos + 1]
    BY <1>8
  <2>2. source[j.pos + 1] \in Bytes
    BY <1>4, <1>7, <1>8
  <2>3. u \in Seq(Bytes) /\ j.pos + 1 \in Nat
    BY <1>4, <2>2, Appended
  <2>4. ASSUME j.still PROVE ReadSoFar(u, parts, j.at, j.pos + 1)
    <3>1. Reads(j.text, u, parts, j.at, j.pos, Bytes)
      <4>1. ReadSoFar(j.text, parts, j.at, j.pos)
        BY <1>3, <2>4 DEF PackingOk, parts
      <4> QED BY <4>1, <1>4, <1>5, <1>7, <1>8 DEF Reads
    <3> HIDE DEF u
    <3> QED BY <3>1, ReadsOn
  <2> HIDE DEF u, h
  <2>5. /\ h \in Packers /\ h.pc = "pack" /\ h.list = j.list /\ h.entries = j.entries /\ h.text = u
        /\ h.at = j.at /\ h.pos = j.pos + 1 /\ h.still = j.still
    BY <1>3, <2>1, <2>3 DEF Packers
  <2>6. PackingOk(h, src)
    BY <1>3, <1>4, <2>4, <2>5 DEF PackingOk, parts
  <2>7. BudgetOk'
    BY <1>1 DEF ArchiveInv, BudgetOk, R!budget
  <2> QED BY <1>1, <1>2, <2>5, <2>6, <2>7, PackingOn
<1>9. CASE ~(j.pos < Len(source))
  <2>1. h = [j EXCEPT !.at = j.at + 1, !.pos = 0]
    BY <1>9
  <2>2. j.at + 1 \in Nat /\ j.at + 1 \in 1 .. Len(j.list) + 1
    BY <1>4, <1>5
  <2>3. ASSUME j.still PROVE ReadSoFar(j.text, parts, j.at + 1, 0)
    <3>1. Ends(j.text, parts, j.at, j.pos, Bytes)
      <4>1. ReadSoFar(j.text, parts, j.at, j.pos)
        BY <1>3, <2>3 DEF PackingOk, parts
      <4> QED BY <4>1, <1>4, <1>5, <1>7, <1>9 DEF Ends
    <3> QED BY <3>1, NextSource
  <2> HIDE DEF h
  <2>4. /\ h \in Packers /\ h.pc = "pack" /\ h.list = j.list /\ h.entries = j.entries
        /\ h.text = j.text /\ h.at = j.at + 1 /\ h.pos = 0 /\ h.still = j.still
    BY <1>3, <2>1, <2>2 DEF Packers
  <2>5. PackingOk(h, src)
    BY <1>3, <1>4, <2>2, <2>3, <2>4 DEF PackingOk, parts
  <2>6. BudgetOk'
    BY <1>1 DEF ArchiveInv, BudgetOk, R!budget
  <2> QED BY <1>1, <1>2, <2>4, <2>5, <2>6, PackingOn
<1> QED BY <1>8, <1>9

LEMMA CommitArchiveStep ==
  ASSUME ArchiveAssumption, ArchiveInv, NEW p \in R!Procs, R!CommitArchive(p) PROVE ArchiveInv'
<1> DEFINE j == job[p]
<1>1. /\ j.pc = "pack" /\ Len(j.entries) = Len(j.list) /\ ~(j.at <= Len(j.list))
      /\ box' = R!Sealed(j.entries, j.text, j.still,
                       [i \in DOMAIN j.list |-> IF j.still THEN src[j.list[i]] ELSE <<>>])
      /\ R!Go(p, R!Idle) /\ UNCHANGED <<src, dir, picked, report, R!budget>>
  BY DEF R!CommitArchive, R!Sealing, R!Chain
<1>2. PackingOk(j, src) /\ j.list \in R!Lists
  BY <1>1, JobAtHand DEF Packers
<1>3. \A i \in 1 .. Len(j.list) : src[j.list[i]] \in R!Texts
  BY <1>2, SourcesThere DEF ArchiveInv
<1>4. BoxOk(box')
  BY <1>1, <1>2, <1>3, Committed
<1>5. FilesOk'
  BY <1>1, <1>4 DEF ArchiveInv, FilesOk
<1>6. JobsOk' /\ MetOk' /\ R!ExtractedIsArchived'
  BY <1>1, JobEnds, ReportStays DEF ArchiveInv
<1>7. BudgetOk'
  BY <1>1 DEF ArchiveInv, BudgetOk, R!budget
<1> QED BY <1>5, <1>6, <1>7 DEF ArchiveInv

\* Steps of the window between jobs.
LEMMA WindowStep ==
  ASSUME ArchiveInv, UNCHANGED <<src, dir, job, report>>, FilesOk', BudgetOk'
  PROVE  ArchiveInv'
BY JobsStay, ReportStays DEF ArchiveInv

LEMMA PickFilesStep ==
  ASSUME ArchiveAssumption, ArchiveInv, NEW g, R!PickFiles(g) PROVE ArchiveInv'
<1>1. PICK s \in Sources :
        picked' = [picked EXCEPT !.files = Append(@, [name |-> NameOf(s), data |-> src[s]])]
  BY DEF R!PickFiles
<1>2. Len(picked.files) < MaxListed /\ UNCHANGED <<src, box, dir, job, report, R!budget>>
  BY DEF R!PickFiles
<1> DEFINE e == [name |-> NameOf(s), data |-> src[s]]
<1>3. /\ e \in ArcCopies /\ picked \in [files : Seq(ArcCopies), box : {picked.box}]
      /\ picked.files \in Seq(ArcCopies) /\ Len(picked.files) \in Nat
  <2>1. e \in ArcCopies
    BY DEF ArchiveInv, FilesOk, ArcCopies, ArcNames
  <2>2. picked \in [files : Seq(ArcCopies), box : {picked.box}]
    BY DEF ArchiveInv, FilesOk
  <2>3. picked.files \in Seq(ArcCopies)
    BY <2>2
  <2>4. Len(picked.files) \in Nat
    BY <2>3
  <2> QED BY <2>1, <2>2, <2>3, <2>4
<1> HIDE DEF e
<1>4. Append(picked.files, e) \in Seq(ArcCopies) /\ Len(Append(picked.files, e)) = Len(picked.files) + 1
  BY <1>3, Appended
<1>5. picked' = [picked EXCEPT !.files = Append(picked.files, e)]
  BY <1>1 DEF e
<1>6. /\ picked' \in [files : Seq(ArcCopies), box : {picked.box}] /\ picked'.box = picked.box
      /\ picked'.files = Append(picked.files, e)
  BY <1>3, <1>4, <1>5
<1>7. Len(picked'.files) <= MaxListed
  <2>1. MaxListed \in Nat
    BY DEF ArchiveAssumption
  <2> QED BY <2>1, <1>2, <1>3, <1>4, <1>6
<1>8. FilesOk'
  BY <1>2, <1>6, <1>7 DEF ArchiveInv, FilesOk
<1>9. BudgetOk'
  BY <1>2 DEF ArchiveInv, BudgetOk, R!budget
<1> QED BY <1>2, <1>8, <1>9, WindowStep

LEMMA OneLess ==
  ASSUME NEW S, NEW s \in Seq(S), NEW i \in 1 .. Len(s)
  PROVE  R!RemoveAt(s, i) \in Seq(S) /\ Len(R!RemoveAt(s, i)) <= Len(s)
<1> DEFINE a == SubSeq(s, 1, i - 1)
           b == SubSeq(s, i + 1, Len(s))
<1>1. Len(s) \in Nat /\ i \in Nat /\ i >= 1 /\ i <= Len(s)
  OBVIOUS
<1>2. a \in Seq(S) /\ Len(a) = i - 1
  BY <1>1, SubSeqProperties
<1>3. b \in Seq(S) /\ Len(b) = Len(s) - i
  BY <1>1, SubSeqProperties
<1>4. R!RemoveAt(s, i) = a \o b
  BY DEF R!RemoveAt
<1> HIDE DEF a, b
<1>5. a \o b \in Seq(S) /\ Len(a \o b) = Len(a) + Len(b)
  BY <1>2, <1>3, ConcatProperties
<1> QED BY <1>1, <1>2, <1>3, <1>4, <1>5

LEMMA RemoveFileStep ==
  ASSUME ArchiveAssumption, ArchiveInv, NEW g, R!RemoveFile(g) PROVE ArchiveInv'
<1>1. PICK i \in DOMAIN picked.files : picked' = [picked EXCEPT !.files = R!RemoveAt(picked.files, i)]
  BY DEF R!RemoveFile
<1>2. UNCHANGED <<src, box, dir, job, report, R!budget>>
  BY DEF R!RemoveFile
<1>3. /\ picked \in [files : Seq(ArcCopies), box : {picked.box}] /\ Len(picked.files) <= MaxListed
      /\ picked.files \in Seq(ArcCopies) /\ Len(picked.files) \in Nat /\ i \in 1 .. Len(picked.files)
  <2>1. picked \in [files : Seq(ArcCopies), box : {picked.box}] /\ Len(picked.files) <= MaxListed
    BY DEF ArchiveInv, FilesOk
  <2>2. picked.files \in Seq(ArcCopies)
    BY <2>1
  <2> QED BY <1>1, <2>1, <2>2, LenProperties
<1> DEFINE rest == R!RemoveAt(picked.files, i)
<1>4. rest \in Seq(ArcCopies) /\ Len(rest) <= Len(picked.files)
  BY <1>3, OneLess
<1>5. picked' = [picked EXCEPT !.files = rest]
  BY <1>1
<1> HIDE DEF rest
<1>6. /\ picked' \in [files : Seq(ArcCopies), box : {picked.box}] /\ picked'.box = picked.box
      /\ picked'.files = rest
  BY <1>3, <1>4, <1>5
<1>7. Len(picked'.files) <= MaxListed
  <2>1. MaxListed \in Nat /\ Len(rest) \in Nat
    BY <1>4 DEF ArchiveAssumption
  <2> QED BY <2>1, <1>3, <1>4, <1>6
<1>8. FilesOk'
  BY <1>2, <1>6, <1>7 DEF ArchiveInv, FilesOk
<1>9. BudgetOk'
  BY <1>2 DEF ArchiveInv, BudgetOk, R!budget
<1> QED BY <1>2, <1>8, <1>9, WindowStep

LEMMA CreateStep ==
  ASSUME ArchiveAssumption, ArchiveInv, NEW g, R!DoArchiveCreate(g) PROVE ArchiveInv'
<1>1. /\ UNCHANGED <<src, dir, picked, job, report, extracted, faults>> /\ picked.files # <<>>
      /\ box' \in {box, R!CreateFromMemory(picked.files)}
      /\ made < MaxArchives /\ made' = made + 1
  BY DEF R!DoArchiveCreate
<1>2. picked.files \in Seq(ArcCopies) /\ Len(picked.files) <= MaxListed
  <2>1. picked \in [files : Seq(ArcCopies), box : {picked.box}] /\ Len(picked.files) <= MaxListed
    BY DEF ArchiveInv, FilesOk
  <2> QED BY <2>1
<1>3. BoxOk(R!CreateFromMemory(picked.files))
  BY <1>1, <1>2, FromMemory
<1>4. FilesOk'
  BY <1>1, <1>3 DEF ArchiveInv, FilesOk
<1>5. BudgetOk'
  <2>1. made \in Nat /\ MaxArchives \in Nat
    BY DEF ArchiveInv, BudgetOk, ArchiveAssumption
  <2> QED BY <1>1, <2>1 DEF ArchiveInv, BudgetOk
<1> QED BY <1>1, <1>4, <1>5, WindowStep

LEMMA PickArchiveStep ==
  ASSUME ArchiveInv, NEW g, R!PickArchive(g) PROVE ArchiveInv'
<1>1. /\ box # None /\ picked' = [picked EXCEPT !.box = box]
      /\ UNCHANGED <<src, box, dir, job, report, R!budget>>
  BY DEF R!PickArchive
<1>2. picked \in [files : Seq(ArcCopies), box : {picked.box}]
  BY DEF ArchiveInv, FilesOk
<1>3. /\ picked'.files = picked.files /\ picked'.box = box
      /\ picked' \in [files : Seq(ArcCopies), box : {picked'.box}]
  BY <1>1, <1>2
<1>4. FilesOk'
  BY <1>1, <1>3 DEF ArchiveInv, FilesOk
<1>5. BudgetOk'
  BY <1>1 DEF ArchiveInv, BudgetOk, R!budget
<1> QED BY <1>1, <1>4, <1>5, WindowStep

LEMMA DamageStep == ASSUME ArchiveAssumption, ArchiveInv, R!Damage PROVE ArchiveInv'
<1>1. /\ box # None /\ R!Faults /\ UNCHANGED <<src, dir, picked, job, report>>
      /\ \E k \in 0 .. box.good - 1 : box' = [box EXCEPT !.good = k]
  BY DEF R!Damage
<1>2. BoxOk(box')
  BY <1>1, BoxDamaged DEF ArchiveInv, FilesOk
<1>3. FilesOk'
  BY <1>1, <1>2 DEF ArchiveInv, FilesOk
<1>4. BudgetOk'
  BY <1>1, OneFault DEF ArchiveInv
<1> QED BY <1>1, <1>3, <1>4, WindowStep

-----------------------------------------------------------------------------
LEMMA BeginStep ==
  ASSUME ArchiveAssumption, ArchiveInv, NEW p \in R!Procs, NEW b, BoxOk(b), ~R!Busy(p), R!Begin(p, b)
  PROVE  ArchiveInv'
<1> DEFINE m == \E r \in R!Procs \ {p} : R!Extracting(r)
           j == [pc |-> "extract", box |-> b, at |-> 0, left |-> 0, pos |-> 0, met |-> m]
<1>1. /\ job' = [q \in R!Procs |-> IF q = p THEN j
                                ELSE IF R!Extracting(q) THEN [job[q] EXCEPT !.met = TRUE] ELSE job[q]]
      /\ report' = None /\ UNCHANGED <<src, box, dir, picked, made, faults>>
      /\ extracted < MaxExtracts /\ extracted' = extracted + 1
  BY DEF R!Begin
<1>2. m \in BOOLEAN
  OBVIOUS
<1>3. /\ j = [pc |-> "extract", box |-> b, at |-> 0, left |-> 0, pos |-> 0, met |-> m]
      /\ j.pc = "extract" /\ j.met = m
  OBVIOUS
<1> HIDE DEF j, m
<1>4. ExtractingOk(j, dir) /\ j \in Extractors
  BY <1>2, <1>3, ExtractBegins DEF ExtractingOk
<1>5. ~R!Extracting(p)
  BY IdleIs DEF R!Busy, R!Extracting
<1>6. ASSUME NEW q \in R!Procs
      PROVE  /\ job'[q] \in {R!Idle} \cup Packers \cup Extractors
             /\ job'[q].pc = "pack" => PackingOk(job'[q], src')
             /\ job'[q].pc = "extract" => ExtractingOk(job'[q], dir')
             /\ q # p => (job'[q].pc = "extract" <=> R!Extracting(q))
             /\ q # p /\ R!Extracting(q) => job'[q].met
  <2>1. CASE q = p
    BY <1>1, <1>3, <1>4, <2>1
  <2>2. CASE q # p /\ R!Extracting(q)
    <3>1. job'[q] = [job[q] EXCEPT !.met = TRUE]
      BY <1>1, <2>2
    <3>2. ExtractingOk(job[q], dir) /\ job[q] \in Extractors
      BY <2>2, JobAtHand
    <3>3. ExtractingOk(job'[q], dir)
      BY <3>1, <3>2, MeetsAnother
    <3>4. job'[q] \in Extractors /\ job'[q].met /\ job'[q].pc = "extract"
      BY <3>1, <3>2 DEF Extractors
    <3> QED BY <1>1, <2>2, <3>3, <3>4
  <2>3. CASE q # p /\ ~R!Extracting(q)
    <3>1. job'[q] = job[q]
      BY <1>1, <2>3
    <3> QED BY <1>1, <2>3, <3>1, JobAtHand DEF R!Extracting
  <2> QED BY <2>1, <2>2, <2>3
<1>7. job' \in [R!Procs -> {R!Idle} \cup Packers \cup Extractors]
  <2>1. job' = [q \in R!Procs |-> job'[q]]
    BY <1>1
  <2> QED BY <1>6, <2>1
<1>8. JobsOk'
  BY <1>6, <1>7 DEF JobsOk, R!Extracting
<1>9. MetOk'
  <2> SUFFICES ASSUME NEW q \in R!Procs, NEW r \in R!Procs, q # r,
                      job'[q].pc = "extract", job'[r].pc = "extract"
               PROVE  job'[q].met
    BY DEF MetOk, R!Extracting
  <2>1. CASE q = p
    <3>1. R!Extracting(r) /\ r # p
      BY <1>6, <2>1
    <3>2. job'[q].met = m
      BY <1>1, <1>3, <2>1
    <3> QED BY <3>1, <3>2 DEF m
  <2>2. CASE q # p
    BY <1>6, <2>2
  <2> QED BY <2>1, <2>2
<1>10. FilesOk'
  BY <1>1 DEF ArchiveInv, FilesOk
<1>11. BudgetOk'
  <2>1. extracted \in Nat /\ MaxExtracts \in Nat
    BY DEF ArchiveInv, BudgetOk, ArchiveAssumption
  <2> QED BY <1>1, <2>1 DEF ArchiveInv, BudgetOk
<1>12. R!ExtractedIsArchived'
  BY <1>1 DEF R!ExtractedIsArchived
<1> QED BY <1>8, <1>9, <1>10, <1>11, <1>12 DEF ArchiveInv

\* A step that writes to the directory: whoever else extracts has met this one.
LEMMA Writes ==
  ASSUME ArchiveInv, NEW p \in R!Procs, NEW j, R!Go(p, j), R!Extracting(p), j.pc = "extract",
         j.met = job[p].met, ExtractingOk(j, dir'), UNCHANGED <<src, box, picked, report, R!budget>>,
         dir' \in [R!Names -> R!Texts \cup {None}],
         \A n \in R!Names : dir[n] \in R!Texts => dir'[n] \in R!Texts
  PROVE  ArchiveInv'
<1>1. FilesOk' /\ BudgetOk' /\ R!ExtractedIsArchived'
  <2>1. FilesOk' /\ BudgetOk'
    BY DEF ArchiveInv, FilesOk, BudgetOk, R!budget
  <2> QED BY <2>1, ReportStays DEF ArchiveInv
<1>2. ASSUME NEW q \in R!Procs, q # p, R!Extracting(q) PROVE ExtractingOk(job[q], dir')
  <2>1. job[q].met /\ ExtractingOk(job[q], dir)
    BY <1>2, JobAtHand DEF ArchiveInv, MetOk
  <2> QED BY <2>1, StillExtracting
<1>3. j \in {R!Idle} \cup Packers \cup Extractors
  BY DEF ExtractingOk
<1>4. JobsOk'
  BY <1>2, <1>3, OneJobOnly DEF ArchiveInv
<1>5. MetOk'
  BY MetStays DEF ArchiveInv
<1> QED BY <1>1, <1>4, <1>5 DEF ArchiveInv

LEMMA CreateEntryStep ==
  ASSUME ArchiveAssumption, ArchiveInv, NEW p \in R!Procs, R!CreateEntry(p) PROVE ArchiveInv'
<1> DEFINE j == job[p]
           e == j.box.entries[j.at + 1]
           h == [j EXCEPT !.at = j.at + 1, !.left = e.size]
<1>1. /\ R!Extracting(p) /\ j.left = 0 /\ j.at < Len(j.box.entries)
      /\ dir' = [dir EXCEPT ![Lower(e.name)] = <<>>] /\ R!Go(p, h)
      /\ UNCHANGED <<src, box, picked, report, R!budget>>
  BY DEF R!CreateEntry, R!EntryDone, R!MoreEntries
<1>2. ExtractingOk(j, dir) /\ j \in Extractors
  BY <1>1, JobAtHand
<1>3. dir \in [R!Names -> R!Texts \cup {None}]
  BY DEF ArchiveInv, FilesOk
<1>4. Creates(j, h, dir, dir')
  BY <1>1 DEF Creates
<1>5. h.pc = "extract" /\ h.met = j.met
  BY <1>2 DEF Extractors
<1> HIDE DEF h
<1>6. ExtractingOk(h, dir')
  BY <1>2, <1>3, <1>4, Created
<1>7. <<>> \in R!Texts
  BY EmptyText
<1>8. /\ dir' \in [R!Names -> R!Texts \cup {None}]
      /\ \A n \in R!Names : dir[n] \in R!Texts => dir'[n] \in R!Texts
  <2> HIDE DEF e
  <2> QED BY <1>1, <1>3, <1>7
<1> QED BY <1>1, <1>5, <1>6, <1>8, Writes

LEMMA CopyBlockStep ==
  ASSUME ArchiveAssumption, ArchiveInv, NEW p \in R!Procs, R!CopyBlock(p) PROVE ArchiveInv'
<1> DEFINE j == job[p]
           h == [j EXCEPT !.left = @ - 1, !.pos = @ + 1]
           n == Lower(j.box.entries[j.at].name)
<1>1. /\ R!Extracting(p) /\ CopiesBlock(j, h, dir, dir') /\ R!Go(p, h)
      /\ UNCHANGED <<src, box, picked, report, R!budget>>
  BY DEF R!CopyBlock, CopiesBlock
<1>2. ExtractingOk(j, dir) /\ j \in Extractors
  BY <1>1, JobAtHand
<1>3. dir \in [R!Names -> R!Texts \cup {None}]
  BY DEF ArchiveInv, FilesOk
<1>4. h.pc = "extract" /\ h.met = j.met /\ h.at = j.at /\ h.box = j.box
  BY <1>2 DEF Extractors
<1> HIDE DEF h
<1>5. /\ ExtractingOk(h, dir') /\ dir' \in [R!Names -> R!Texts \cup {None}]
      /\ InPlace(h.box, dir', h.at) \in R!Texts
  BY <1>1, <1>2, <1>3, Copied
<1>6. \A k \in R!Names : dir[k] \in R!Texts => dir'[k] \in R!Texts
  <2>1. dir'[n] \in R!Texts
    BY <1>4, <1>5 DEF InPlace
  <2>2. \A k \in R!Names : k # n => dir'[k] = dir[k]
    BY <1>1, <1>3 DEF CopiesBlock
  <2> HIDE DEF n
  <2> QED BY <2>1, <2>2
<1> QED BY <1>1, <1>4, <1>5, <1>6, Writes

\* An end of a job whose report holds.
LEMMA EndStep ==
  ASSUME ArchiveInv, NEW p \in R!Procs, NEW ok, NEW why, R!End(p, ok, why), BudgetOk',
         job[p].box.still =>
           /\ ok /\ ~job[p].met /\ Apart(job[p].box) =>
                \A i \in DOMAIN job[p].box.entries : InPlace(job[p].box, dir, i) = job[p].box.real[i]
           /\ why = "short" => ~R!Intact(job[p].box)
  PROVE  ArchiveInv'
<1> DEFINE b == job[p].box
           names == [i \in DOMAIN b.entries |-> b.entries[i].name]
<1>1. /\ report' = [ok |-> ok, why |-> why, box |-> b, met |-> job[p].met, files |-> dir]
      /\ R!Go(p, R!Idle) /\ UNCHANGED <<src, box, dir, picked>>
  BY DEF R!End
<1>2. /\ report'.ok = ok /\ report'.why = why /\ report'.box = b /\ report'.met = job[p].met
      /\ report'.files = dir
  BY <1>1
<1>3. Apart(b) = ~R!Collide(names) /\ DOMAIN names = DOMAIN b.entries
  BY DEF Apart
<1>4. \A i \in DOMAIN names : InPlace(b, dir, i) = dir[Lower(names[i])]
  BY DEF InPlace
<1>5. b.still => /\ ok /\ ~job[p].met /\ ~R!Collide(names) =>
                      \A i \in DOMAIN names : dir[Lower(names[i])] = b.real[i]
                 /\ why = "short" => ~R!Intact(b)
  BY <1>3, <1>4
<1>6. R!ExtractedIsArchived'
  <2> SUFFICES ASSUME b.still
               PROVE  /\ ok /\ ~job[p].met /\ ~R!Collide(names) =>
                            \A i \in DOMAIN names : dir[Lower(names[i])] = b.real[i]
                      /\ why = "short" => ~R!Intact(b)
    <3>1. /\ report'.box.entries = b.entries /\ report'.box.real = b.real
          /\ report'.box.still = b.still
          /\ report'.box.good = b.good /\ report'.box.text = b.text
      BY <1>2
    <3>2. [i \in DOMAIN report'.box.entries |-> report'.box.entries[i].name] = names
      BY <3>1
    <3>3. R!Intact(report'.box) <=> R!Intact(b)
      BY <3>1 DEF R!Intact
    <3> HIDE DEF names, b
    <3> QED BY <1>2, <3>1, <3>2, <3>3 DEF R!ExtractedIsArchived
  <2> QED BY <1>5
<1>7. JobsOk' /\ MetOk'
  BY <1>1, JobEnds DEF ArchiveInv
<1>8. FilesOk'
  BY <1>1 DEF ArchiveInv, FilesOk
<1> QED BY <1>6, <1>7, <1>8 DEF ArchiveInv

LEMMA BudgetStays == ASSUME ArchiveInv, UNCHANGED R!budget PROVE BudgetOk'
BY DEF ArchiveInv, BudgetOk, R!budget

LEMMA EndSteps ==
  ASSUME ArchiveAssumption, ArchiveInv, NEW p \in R!Procs,
         R!RefuseEntry(p) \/ R!RunsOut(p) \/ R!Extract(p) \/ R!Stop(p)
  PROVE  ArchiveInv'
<1> DEFINE j == job[p]
<1>1. CASE R!RefuseEntry(p)
  <2>1. R!End(p, FALSE, "unsafe") /\ UNCHANGED R!budget
    BY <1>1 DEF R!RefuseEntry
  <2> QED BY <2>1, BudgetStays, EndStep
<1>2. CASE R!RunsOut(p)
  <2>1. /\ R!End(p, FALSE, "short") /\ UNCHANGED R!budget /\ R!Extracting(p) /\ j.left > 0
        /\ ~R!Readable(j.box, j.pos)
    BY <1>2 DEF R!RunsOut
  <2>2. ExtractingOk(j, dir) /\ j \in Extractors
    BY <2>1, JobAtHand
  <2>3. ASSUME j.box.still PROVE ~R!Intact(j.box)
    <3>1. j.pos < Len(j.box.text)
      BY <2>1, <2>2, <2>3, NextBlock
    <3>2. Len(j.box.text) \in Nat /\ j.pos \in Nat
      BY <2>2, PlacesAre DEF ExtractingOk, Extractors
    <3> QED BY <2>1, <3>1, <3>2 DEF R!Readable, R!Intact
  <2> QED BY <2>1, <2>3, BudgetStays, EndStep
<1>3. CASE R!Extract(p)
  <2>1. /\ R!End(p, TRUE, "done") /\ UNCHANGED R!budget /\ R!Extracting(p) /\ j.left = 0
        /\ ~(j.at < Len(j.box.entries))
    BY <1>3 DEF R!Extract, R!EntryDone, R!MoreEntries
  <2>2. ExtractingOk(j, dir)
    BY <2>1, JobAtHand
  <2>3. DOMAIN j.box.entries = 1 .. Len(j.box.entries)
    BY <2>2 DEF ExtractingOk, BoxOk, ArcBoxes
  <2>4. ASSUME j.box.still, ~j.met, Apart(j.box)
        PROVE  \A i \in DOMAIN j.box.entries : InPlace(j.box, dir, i) = j.box.real[i]
    BY <2>1, <2>2, <2>3, <2>4, Restored
  <2>5. "done" # "short"
    OBVIOUS
  <2> QED BY <2>1, <2>4, <2>5, BudgetStays, EndStep
<1>4. CASE R!Stop(p)
  <2>1. BudgetOk'
    BY <1>4, OneFault DEF R!Stop, ArchiveInv
  <2>2. CASE R!End(p, FALSE, "stopped")
    BY <2>1, <2>2, EndStep
  <2>3. CASE R!Go(p, R!Idle) /\ UNCHANGED <<src, box, dir, picked, report>>
    <3>1. JobsOk' /\ MetOk' /\ R!ExtractedIsArchived'
      BY <2>3, JobEnds, ReportStays DEF ArchiveInv
    <3>2. FilesOk'
      BY <2>3 DEF ArchiveInv, FilesOk
    <3> QED BY <2>1, <3>1, <3>2 DEF ArchiveInv
  <2> QED BY <1>4, <2>2, <2>3 DEF R!Stop
<1> QED BY <1>1, <1>2, <1>3, <1>4

LEMMA ArchiveStep == ASSUME ArchiveAssumption, ArchiveInv, [R!Next]_(R!vars) PROVE ArchiveInv'
<1>1. CASE R!Edit
  BY <1>1, EditArchive
<1>2. CASE R!Damage
  BY <1>2, DamageStep
<1>3. ASSUME NEW p \in R!Procs,
             \/ R!BeginArchive(p) \/ R!Measure(p) \/ R!ReadChain(p) \/ R!CommitArchive(p)
             \/ R!PickFiles(p) \/ R!RemoveFile(p) \/ R!DoArchiveCreate(p) \/ R!PickArchive(p)
      PROVE  ArchiveInv'
  BY <1>3, BeginArchiveStep, MeasureStep, ReadChainStep, CommitArchiveStep, PickFilesStep,
     RemoveFileStep, CreateStep, PickArchiveStep
<1>4. ASSUME NEW p \in R!Procs,
             \/ R!BeginExtract(p) \/ R!DoArchiveExtract(p) \/ R!CreateEntry(p) \/ R!RefuseEntry(p)
             \/ R!CopyBlock(p) \/ R!RunsOut(p) \/ R!Extract(p) \/ R!Stop(p)
      PROVE  ArchiveInv'
  <2>1. CASE R!BeginExtract(p)
    <3>1. box # None /\ ~R!Busy(p) /\ R!Begin(p, box)
      BY <2>1 DEF R!BeginExtract
    <3>2. BoxOk(box)
      BY <3>1 DEF ArchiveInv, FilesOk
    <3> QED BY <3>1, <3>2, BeginStep
  <2>2. CASE R!DoArchiveExtract(p)
    <3>1. picked.box # None /\ ~R!Busy(p) /\ R!Begin(p, picked.box)
      BY <2>2 DEF R!DoArchiveExtract
    <3>2. BoxOk(picked.box)
      BY <3>1 DEF ArchiveInv, FilesOk
    <3> QED BY <3>1, <3>2, BeginStep
  <2> QED BY <1>4, <2>1, <2>2, CreateEntryStep, CopyBlockStep, EndSteps
<1>5. CASE UNCHANGED R!vars
  <2>1. UNCHANGED <<src, box, dir, picked, job, report, R!budget>>
    BY <1>5 DEF R!vars, R!budget
  <2>2. FilesOk' /\ BudgetOk'
    BY <2>1 DEF ArchiveInv, FilesOk, BudgetOk, R!budget
  <2> QED BY <2>1, <2>2, WindowStep
<1> QED BY <1>1, <1>2, <1>3, <1>4, <1>5 DEF R!Next

\* Whatever is edited, damaged or stopped meanwhile: archives hold their sources one
\* after another by the sizes measured, and a job is at the place its entry says.
THEOREM ArchiveInvariant == ASSUME ArchiveAssumption PROVE R!Spec => []ArchiveInv
<1>1. R!Init => ArchiveInv
  BY InitArchive
<1>2. ArchiveInv /\ [R!Next]_(R!vars) => ArchiveInv'
  BY ArchiveStep
<1> QED BY <1>1, <1>2, PTL DEF R!Spec

\* An extraction that reports success has restored every file just as it was packed,
\* and an intact archive of sources that held still never runs short.
THEOREM ArchivedIsExtracted == ASSUME ArchiveAssumption PROVE R!Spec => []R!ExtractedIsArchived
<1>1. ArchiveInv => R!ExtractedIsArchived
  BY DEF ArchiveInv
<1> QED BY <1>1, ArchiveInvariant, PTL

\* Every variable stays in its type: what a hole reads as is all that a file can hold
\* besides blocks.
THEOREM ArchiveTypeCorrect == ASSUME ArchiveAssumption PROVE R!Spec => []R!TypeOK
<1>1. ASSUME ArchiveInv PROVE R!TypeOK
  <2>1. /\ \A s \in Sources : src[s] \in R!Texts
        /\ \A n \in R!Names : dir[n] # None => dir[n] \in R!Texts
        /\ box # None => BoxOk(box)
    BY <1>1 DEF ArchiveInv, FilesOk
  <2>2. ASSUME box # None
        PROVE  Len(box.entries) \in 1 .. MaxListed /\ box.good \in 0 .. Len(box.text) + 1
    <3>1. BoxOk(box)
      BY <2>1, <2>2
    <3>2. box.good \in Nat /\ Len(box.text) \in Nat
      BY <3>1, PlacesAre DEF BoxOk, ArcBoxes
    <3> QED BY <3>1, <3>2 DEF BoxOk
  <2>3. ASSUME NEW p \in R!Procs, R!Extracting(p)
        PROVE  job[p].pos <= Len(job[p].box.text) /\ job[p].at <= Len(job[p].box.entries)
    BY <1>1, <2>3, JobAtHand DEF ExtractingOk
  <2> QED BY <1>1, <2>1, <2>2, <2>3 DEF R!TypeOK, ArchiveInv, BudgetOk
<1> QED BY <1>1, ArchiveInvariant, PTL
=============================================================================
