---------------------------- MODULE GuiBatchProofs ----------------------------
(***************************************************************************)
(* Machine-checked facts about GuiBatch, for any files, output paths and   *)
(* keys, and lists of any length: what the form shows as done was saved.   *)
(***************************************************************************)
EXTENDS GuiBatch, SequenceTheorems, TLAPS

\* No file is mistaken for none, and the form is not cleared under a job: with
\* ClearAnyTime a result may reach another file that has since taken its place.
FormAssumption == None \notin Files /\ ~ClearAnyTime

\* f was saved, and its output is still there if outputs are protected.
Kept(f) == f \in saved /\ (settings.protect /\ ~Web => disk[OutPath[f]] = f)

Fields  == {"files", "at", "results", "protect", "finished"}

-----------------------------------------------------------------------------
(* The inductive invariant. *)

FormTyped ==
  /\ list \in Seq(Entry) /\ pending \in Seq(Entry)
  /\ disk \in [Paths -> Files \cup {None}]
  /\ settings \in [autoClear : BOOLEAN, protect : BOOLEAN]

\* What waits to be listed has not been tried.
Waiting == \A i \in DOMAIN pending : pending[i].status # "ok"

ShownAreKept == \A i \in DOMAIN list : list[i].status = "ok" => Kept(list[i].file)

\* The job's files are the first of the list, each at the index it had.
InPlace ==
  /\ job.files \in Seq(Files) /\ Len(job.files) <= Len(list)
  /\ \A i \in DOMAIN job.files : list[i].file = job.files[i]

\* A result that says ok is of a file that is kept.
ResultsTrue ==
  /\ job.results \in Seq(Nat \X {"ok", "err"})
  /\ \A k \in DOMAIN job.results :
       /\ job.results[k][1] \in DOMAIN job.files
       /\ job.results[k][2] = "ok" => Kept(job.files[job.results[k][1]])

JobInStep ==
  Started =>
    /\ job = [f \in Fields |-> job[f]]
    /\ job.protect = settings.protect
    /\ InPlace /\ ResultsTrue
    /\ Web => tab = "encrypt" /\ job.at \in DOMAIN job.files

FormInv == FormTyped /\ Waiting /\ ShownAreKept /\ JobInStep

-----------------------------------------------------------------------------
(* Lists. *)

\* Applying results to a list whose first files are the job's.
LEMMA Applying ==
  ASSUME Started, InPlace, ResultsTrue, NEW files \in Seq(Entry), Len(files) >= Len(list),
         list \in Seq(Entry),
         \A i \in DOMAIN list : files[i].file = list[i].file,
         \A i \in DOMAIN files : files[i].status = "ok" => Kept(files[i].file)
  PROVE  LET new == ApplyJobResults(job.results, files) IN
         /\ new \in Seq(Entry) /\ Len(new) = Len(files)
         /\ \A i \in DOMAIN files :
              /\ new[i].file = files[i].file
              /\ new[i].status = "ok" => Kept(new[i].file)
<1> DEFINE new     == ApplyJobResults(job.results, files)
           mine(i) == {r \in Range(job.results) : r[1] = i}
           pick(i) == CHOOSE r \in mine(i) : TRUE
<1>0. /\ DOMAIN files = 1 .. Len(files) /\ DOMAIN list = 1 .. Len(list) /\ Len(files) \in Nat
      /\ DOMAIN job.files = 1 .. Len(job.files) /\ Len(list) \in Nat /\ Len(job.files) \in Nat
  BY LenProperties DEF InPlace
<1>1. new = [i \in 1 .. Len(files) |-> IF mine(i) = {} THEN files[i]
                                       ELSE [files[i] EXCEPT !.status = pick(i)[2]]]
  BY <1>0 DEF ApplyJobResults
<1> HIDE DEF new, pick
<1>2. ASSUME NEW i \in 1 .. Len(files)
      PROVE  /\ new[i] \in Entry /\ new[i].file = files[i].file
             /\ new[i].status = "ok" => Kept(new[i].file)
  <2>1. files[i] \in Entry /\ (files[i].status = "ok" => Kept(files[i].file))
    BY <1>0
  <2>2. CASE mine(i) = {}
    BY <1>1, <2>1, <2>2
  <2>3. CASE mine(i) # {}
    <3>1. pick(i) \in mine(i)
      BY <2>3 DEF pick
    <3>2. PICK k \in DOMAIN job.results : job.results[k] = pick(i) /\ pick(i)[1] = i
      BY <3>1 DEF Range
    <3>3. /\ pick(i)[2] \in {"ok", "err"} /\ i \in DOMAIN job.files
          /\ pick(i)[2] = "ok" => Kept(job.files[i])
      BY <3>2 DEF ResultsTrue
    <3>4. job.files[i] = files[i].file
      BY <1>0, <3>3 DEF InPlace
    <3>5. new[i] = [files[i] EXCEPT !.status = pick(i)[2]]
      BY <1>1, <2>3
    <3>6. new[i] \in Entry /\ new[i].file = files[i].file /\ new[i].status = pick(i)[2]
      BY <2>1, <3>3, <3>5 DEF Entry
    <3> QED BY <3>3, <3>4, <3>6
  <2> QED BY <2>2, <2>3
<1>3. new \in Seq(Entry) /\ Len(new) = Len(files)
  BY <1>0, <1>1, <1>2
<1> QED BY <1>0, <1>2, <1>3 DEF new

\* A list that grows by what is not marked ok shows no more than before.
LEMMA Growing ==
  ASSUME FormTyped, ShownAreKept, NEW more \in Seq(Entry),
         \A i \in DOMAIN more : more[i].status # "ok"
  PROVE  /\ list \o more \in Seq(Entry) /\ Len(list \o more) >= Len(list)
         /\ \A i \in DOMAIN list : (list \o more)[i] = list[i] /\ i \in DOMAIN (list \o more)
         /\ \A i \in DOMAIN (list \o more) :
              (list \o more)[i].status = "ok" => Kept((list \o more)[i].file)
<1> DEFINE all == list \o more
<1>1. /\ all \in Seq(Entry) /\ Len(all) = Len(list) + Len(more)
      /\ \A i \in 1 .. Len(list) : all[i] = list[i]
      /\ \A i \in 1 .. Len(more) : all[Len(list) + i] = more[i]
      /\ Len(list) \in Nat /\ Len(more) \in Nat
  BY ConcatProperties, LenProperties DEF FormTyped
<1>2. DOMAIN list = 1 .. Len(list) /\ DOMAIN more = 1 .. Len(more) /\ DOMAIN all = 1 .. Len(all)
  BY <1>1, LenProperties DEF FormTyped
<1> HIDE DEF all
<1>3. ASSUME NEW i \in DOMAIN all, all[i].status = "ok" PROVE Kept(all[i].file)
  <2>1. CASE i <= Len(list)
    BY <1>1, <1>2, <1>3, <2>1 DEF ShownAreKept
  <2>2. CASE i > Len(list)
    <3>1. i - Len(list) \in 1 .. Len(more) /\ Len(list) + (i - Len(list)) = i
      BY <1>1, <1>2, <2>2
    <3>2. all[i] = more[i - Len(list)]
      BY <1>1, <3>1
    <3> QED BY <1>2, <1>3, <3>1, <3>2
  <2> QED BY <1>1, <1>2, <2>1, <2>2
<1> QED BY <1>1, <1>2, <1>3 DEF all

\* Taking one off leaves the others.
LEMMA Removing ==
  ASSUME FormTyped, NEW i \in DOMAIN list
  PROVE  /\ RemoveAt(list, i) \in Seq(Entry) /\ Len(RemoveAt(list, i)) = Len(list) - 1
         /\ \A k \in DOMAIN RemoveAt(list, i) : \E m \in DOMAIN list : RemoveAt(list, i)[k] = list[m]
<1> DEFINE a == SubSeq(list, 1, i - 1)
           b == SubSeq(list, i + 1, Len(list))
<1>1. list \in Seq(Entry) /\ Len(list) \in Nat /\ DOMAIN list = 1 .. Len(list) /\ i \in 1 .. Len(list)
  BY LenProperties DEF FormTyped
<1>2. a \in Seq(Entry) /\ Len(a) = i - 1 /\ \A k \in 1 .. i - 1 : a[k] = list[k]
  BY <1>1, SubSeqProperties
<1>3. b \in Seq(Entry) /\ Len(b) = Len(list) - i /\ \A k \in 1 .. Len(list) - i : b[k] = list[i + k]
  BY <1>1, SubSeqProperties
<1>4. RemoveAt(list, i) = a \o b
  BY DEF RemoveAt
<1> HIDE DEF a, b
<1>5. /\ a \o b \in Seq(Entry) /\ Len(a \o b) = Len(a) + Len(b)
      /\ \A k \in 1 .. Len(a) : (a \o b)[k] = a[k]
      /\ \A k \in 1 .. Len(b) : (a \o b)[Len(a) + k] = b[k]
  <2>1. a \in Seq(Entry) /\ b \in Seq(Entry)
    BY <1>2, <1>3
  <2> QED BY <2>1, ConcatProperties
<1>6. DOMAIN (a \o b) = 1 .. Len(a \o b)
  BY <1>5, LenProperties
<1>7. ASSUME NEW k \in DOMAIN (a \o b) PROVE \E m \in DOMAIN list : (a \o b)[k] = list[m]
  <2>1. CASE k <= i - 1
    BY <1>1, <1>2, <1>5, <1>6, <2>1
  <2>2. CASE k > i - 1
    <3>1. k - (i - 1) \in 1 .. Len(b) /\ Len(a) + (k - (i - 1)) = k /\ i + (k - (i - 1)) \in 1 .. Len(list)
      BY <1>1, <1>2, <1>3, <1>5, <1>6, <2>2
    <3>2. (a \o b)[k] = b[k - (i - 1)]
      BY <1>5, <3>1
    <3>3. b[k - (i - 1)] = list[i + (k - (i - 1))]
      BY <1>3, <3>1
    <3> QED BY <1>1, <3>1, <3>2, <3>3
  <2> QED BY <1>1, <1>6, <2>1, <2>2
<1>8. Len(a \o b) = Len(list) - 1
  BY <1>1, <1>2, <1>3, <1>5
<1> QED BY <1>4, <1>5, <1>7, <1>8

LEMMA Fresh ==
  ASSUME NEW f \in Files
  PROVE  /\ Untried(<<f>>) \in Seq(Entry) /\ \A i \in DOMAIN Untried(<<f>>) : Untried(<<f>>)[i].status # "ok"
         /\ Unread(f) \in Seq(Entry) /\ \A i \in DOMAIN Unread(f) : Unread(f)[i].status # "ok"
<1>1. PICK c : c = [file |-> f, status |-> "none"]
  OBVIOUS
<1>2. PICK d : d = [file |-> f, status |-> "err"]
  OBVIOUS
<1>3. c \in Entry /\ c.status = "none"
  BY <1>1 DEF Entry
<1>4. d \in Entry /\ d.status = "err"
  BY <1>2 DEF Entry
<1>5. Untried(<<f>>) = [i \in 1 .. 1 |-> c]
  BY <1>1 DEF Untried
<1>6. Unread(f) = <<d>>
  BY <1>2 DEF Unread
<1>7. <<d>> \in Seq(Entry) /\ \A i \in DOMAIN <<d>> : <<d>>[i] = d
  BY <1>4
<1>8. PICK s : s = Untried(<<f>>)
  OBVIOUS
<1>9. DOMAIN s = 1 .. 1 /\ s[1] = c /\ s = [i \in 1 .. 1 |-> s[i]]
  BY <1>5, <1>8
<1>10. s \in Seq(Entry) /\ \A i \in DOMAIN s : s[i] = c
  BY <1>3, <1>9
<1> QED BY <1>3, <1>4, <1>6, <1>7, <1>8, <1>10

-----------------------------------------------------------------------------
(* The form. *)

LEMMA InitForm == ASSUME Init PROVE FormInv
<1>1. list = <<>> /\ pending = <<>> /\ ~Started
  BY DEF Init, Started
<1>2. FormTyped
  BY <1>1, EmptySeq DEF Init, FormTyped
<1>3. Waiting /\ ShownAreKept
  BY <1>1 DEF Waiting, ShownAreKept
<1> QED BY <1>1, <1>2, <1>3 DEF FormInv, JobInStep

\* Nothing that the invariant is about changes, but for what waits.
LEMMA Still ==
  ASSUME FormInv, UNCHANGED <<tab, platform, saved, disk, job, list>>,
         settings' \in [autoClear : BOOLEAN, protect : BOOLEAN], settings'.protect = settings.protect,
         pending' \in Seq(Entry), Waiting'
  PROVE  FormInv'
<1>1. \A f : Kept(f)' = Kept(f)
  BY DEF Kept, Web
<1>2. FormTyped' /\ ShownAreKept'
  BY <1>1 DEF FormInv, FormTyped, ShownAreKept
<1>3. JobInStep'
  BY <1>1 DEF FormInv, JobInStep, Started, InPlace, ResultsTrue, Web
<1> QED BY <1>2, <1>3 DEF FormInv

\* The list grows at its end, whatever runs.
LEMMA Longer ==
  ASSUME FormInv, UNCHANGED <<tab, platform, settings, saved, disk, job>>,
         NEW more \in Seq(Entry), \A i \in DOMAIN more : more[i].status # "ok",
         list' = list \o more, pending' \in Seq(Entry), Waiting'
  PROVE  FormInv'
<1>1. \A f : Kept(f)' = Kept(f)
  BY DEF Kept, Web
<1>2. /\ list' \in Seq(Entry) /\ Len(list') >= Len(list)
      /\ \A i \in DOMAIN list : list'[i] = list[i] /\ i \in DOMAIN list'
      /\ \A i \in DOMAIN list' : list'[i].status = "ok" => Kept(list'[i].file)
  BY Growing DEF FormInv
<1>3. FormTyped' /\ ShownAreKept'
  BY <1>1, <1>2 DEF FormInv, FormTyped, ShownAreKept
<1>4. ASSUME Started, InPlace PROVE InPlace'
  <2>1. /\ DOMAIN list = 1 .. Len(list) /\ DOMAIN job.files = 1 .. Len(job.files)
        /\ Len(list) \in Nat /\ Len(list') \in Nat /\ Len(job.files) \in Nat
    BY <1>2, <1>4, LenProperties DEF FormInv, FormTyped, InPlace
  <2>2. DOMAIN job.files \subseteq DOMAIN list
    BY <1>4, <2>1 DEF InPlace
  <2> QED BY <1>2, <1>4, <2>1, <2>2 DEF InPlace
<1>5. JobInStep'
  BY <1>1, <1>4 DEF FormInv, JobInStep, Started, ResultsTrue, Web
<1> QED BY <1>3, <1>5 DEF FormInv

\* No job runs: the list may lose files, or get files that are not tried.
LEMMA Unstarted ==
  ASSUME FormInv, ~Started, UNCHANGED <<platform, settings, saved, disk, job>>,
         list' \in Seq(Entry), pending' \in Seq(Entry), Waiting',
         \A i \in DOMAIN list' : list'[i].status # "ok" \/ \E m \in DOMAIN list : list'[i] = list[m]
  PROVE  FormInv'
<1>1. \A f : Kept(f)' = Kept(f)
  BY DEF Kept, Web
<1>2. FormTyped' /\ ShownAreKept'
  BY <1>1 DEF FormInv, FormTyped, ShownAreKept
<1> QED BY <1>2 DEF FormInv, JobInStep, Started

LEMMA FillStep == ASSUME FormAssumption, FormInv, Fill \/ Clear \/ Rejected \/ PollCertificate PROVE FormInv'
<1>t. pending \in Seq(Entry) /\ settings \in [autoClear : BOOLEAN, protect : BOOLEAN]
  BY DEF FormInv, FormTyped
<1>1. CASE DropFile
  <2>1. PICK f \in Files : list' = list \o Untried(<<f>>)
    BY <1>1 DEF DropFile
  <2>2. UNCHANGED <<tab, platform, settings, saved, disk, job, pending>>
    BY <1>1 DEF DropFile, effects
  <2>3. pending' \in Seq(Entry) /\ Waiting'
    BY <1>t, <2>2 DEF FormInv, Waiting
  <2> QED BY <2>1, <2>2, <2>3, Fresh, Longer
<1>2. CASE DropKey \/ RecipientsCard \/ Rejected \/ PollCertificate
  <2>1. UNCHANGED <<tab, platform, settings, saved, disk, job, list, pending>>
    BY <1>2 DEF DropKey, RecipientsCard, Rejected, PollCertificate, effects, form
  <2>2. pending' \in Seq(Entry) /\ Waiting'
    BY <1>t, <2>1 DEF FormInv, Waiting
  <2> QED BY <1>t, <2>1, <2>2, Still
<1>3. CASE PickFiles \/ PickUnreadable
  <2>1. UNCHANGED <<tab, platform, settings, saved, disk, job, list>>
    BY <1>3 DEF PickFiles, PickUnreadable, effects
  <2>2. pending' = pending \/ \E f \in Files : pending' \in {Untried(<<f>>), Unread(f)}
    BY <1>3 DEF PickFiles, PickUnreadable
  <2>3. pending' \in Seq(Entry) /\ Waiting'
    BY <1>t, <2>2, Fresh DEF FormInv, Waiting
  <2> QED BY <1>t, <2>1, <2>3, Still
<1>4. CASE FilesCard
  <2>1. UNCHANGED <<tab, platform, settings, saved, disk, job, pending>> /\ ~Started
    BY <1>4 DEF FilesCard, effects
  <2>2. pending' \in Seq(Entry) /\ Waiting'
    BY <1>t, <2>1 DEF FormInv, Waiting
  <2>3. \/ list' = list \/ list' = <<>>
        \/ \E i \in DOMAIN list : list' = RemoveAt(list, i)
        \/ \E f \in Files : list' = Untried(<<f>>)
    BY <1>4 DEF FilesCard, OpenDialog, RemoveOne, ClearList, PickRecent
  <2>4. /\ list' \in Seq(Entry)
        /\ \A i \in DOMAIN list' : list'[i].status # "ok" \/ \E m \in DOMAIN list : list'[i] = list[m]
    <3>1. CASE list' = list
      BY <3>1 DEF FormInv, FormTyped
    <3>2. CASE list' = <<>>
      BY <3>2, EmptySeq
    <3>3. ASSUME NEW i \in DOMAIN list, list' = RemoveAt(list, i) PROVE <2>4!2
      BY <3>3, Removing DEF FormInv
    <3>4. ASSUME NEW i \in DOMAIN list, list' = RemoveAt(list, i) PROVE list' \in Seq(Entry)
      BY <3>4, Removing DEF FormInv
    <3>5. ASSUME NEW f \in Files, list' = Untried(<<f>>) PROVE <2>4!1 /\ <2>4!2
      BY <3>5, Fresh
    <3> QED BY <2>3, <3>1, <3>2, <3>3, <3>4, <3>5
  <2> QED BY <2>1, <2>2, <2>4, Unstarted
<1>5. CASE ToggleAutoClear
  <2>1. /\ UNCHANGED <<tab, platform, saved, disk, job, list, pending>>
        /\ settings' = [settings EXCEPT !.autoClear = ~settings.autoClear]
    BY <1>5 DEF ToggleAutoClear, effects
  <2>2. settings' \in [autoClear : BOOLEAN, protect : BOOLEAN] /\ settings'.protect = settings.protect
    BY <1>t, <2>1
  <2>3. pending' \in Seq(Entry) /\ Waiting'
    BY <1>t, <2>1 DEF FormInv, Waiting
  <2> QED BY <2>1, <2>2, <2>3, Still
<1>6. CASE ClearAllInputs
  <2>1. /\ UNCHANGED <<platform, settings, saved, disk, job>> /\ ~Started
        /\ list' = <<>> /\ pending' = <<>>
    BY <1>6 DEF ClearAllInputs, effects, FormAssumption
  <2>2. list' \in Seq(Entry) /\ pending' \in Seq(Entry) /\ Waiting'
    BY <2>1, EmptySeq DEF Waiting
  <2> QED BY <2>1, <2>2, Unstarted
<1> QED BY <1>1, <1>2, <1>3, <1>4, <1>5, <1>6 DEF Fill, Clear

-----------------------------------------------------------------------------
(* The job. *)

LEMMA StartStep == ASSUME FormInv, StartDesktop \/ RunEncryptWeb PROVE FormInv'
<1>1. /\ UNCHANGED <<tab, platform, form, effects>> /\ ~Started /\ list # <<>> /\ job' = NewJob
      /\ Web => tab = "encrypt"
  BY DEF StartDesktop, RunEncryptWeb
<1>2. \A f : Kept(f)' = Kept(f)
  BY <1>1 DEF Kept, Web, effects, form
<1>3. FormTyped' /\ Waiting' /\ ShownAreKept'
  BY <1>1, <1>2 DEF FormInv, FormTyped, Waiting, ShownAreKept, form, effects
<1>4. list \in Seq(Entry) /\ Len(list) \in Nat \ {0} /\ DOMAIN list = 1 .. Len(list)
  BY <1>1, EmptySeq, LenProperties DEF FormInv, FormTyped
<1> DEFINE files == [i \in DOMAIN list |-> list[i].file]
<1>5. files \in Seq(Files) /\ Len(files) = Len(list) /\ DOMAIN files = 1 .. Len(list)
  <2>1. ASSUME NEW i \in 1 .. Len(list) PROVE list[i].file \in Files
    <3>1. list[i] \in Entry
      BY <1>4
    <3> QED BY <3>1 DEF Entry
  <2>2. files = [i \in 1 .. Len(list) |-> list[i].file]
    BY <1>4
  <2> HIDE DEF files
  <2>3. files \in [1 .. Len(list) -> Files]
    BY <2>1, <2>2
  <2> QED BY <1>4, <2>3, LenProperties
<1>6. /\ job'.files = files /\ job'.results = <<>> /\ job'.protect = settings.protect /\ job'.at = 1
      /\ job' = [f \in Fields |-> job'[f]]
  BY <1>1 DEF NewJob, Fields
<1>7. \A i \in DOMAIN files : list[i].file = files[i]
  BY <1>4
<1> HIDE DEF files
<1>8. InPlace'
  BY <1>1, <1>4, <1>5, <1>6, <1>7 DEF InPlace, form
<1>9. ResultsTrue'
  BY <1>6, EmptySeq DEF ResultsTrue
<1> QED BY <1>1, <1>3, <1>4, <1>5, <1>6, <1>8, <1>9 DEF FormInv, JobInStep, Web, form

\* Encrypting or decrypting one file takes nothing away from the others.
LEMMA EntryKeeps ==
  ASSUME FormAssumption, FormTyped, UNCHANGED <<platform, settings>>, NEW f \in Files, NEW status,
         NEW protect, ~Web => protect = settings.protect, EntryDone(f, protect, status)
  PROVE  /\ \A g \in Files : Kept(g) => Kept(g)'
         /\ status = "ok" => Kept(f)'
         /\ disk' \in [Paths -> Files \cup {None}]
<1> USE DEF FormAssumption
<1>1. CASE UNCHANGED <<saved, disk>> /\ status = "err"
  BY <1>1 DEF Kept, Web, FormTyped
<1>2. CASE Web /\ saved' = saved \cup {f} /\ UNCHANGED disk
  BY <1>2 DEF Kept, Web, FormTyped
<1>3. CASE ~Web /\ saved' = saved \cup {f} /\ disk' = [disk EXCEPT ![OutPath[f]] = f]
            /\ (protect => disk[OutPath[f]] = None)
  <2>1. OutPath[f] \in Paths
    BY DEF Paths
  <2>2. disk' \in [Paths -> Files \cup {None}] /\ disk'[OutPath[f]] = f
    BY <1>3, <2>1 DEF FormTyped
  <2>3. ASSUME NEW g \in Files, Kept(g) PROVE Kept(g)'
    <3>1. OutPath[g] \in Paths
      BY DEF Paths
    <3>2. ASSUME settings.protect PROVE disk'[OutPath[g]] = g
      <4>1. disk[OutPath[g]] = g /\ disk[OutPath[f]] = None
        BY <1>3, <2>3, <3>2 DEF Kept
      <4>2. OutPath[g] # OutPath[f]
        BY <4>1
      <4> QED BY <1>3, <3>1, <4>1, <4>2 DEF FormTyped
    <3> QED BY <1>3, <2>3, <3>2 DEF Kept, Web
  <2> QED BY <1>3, <2>2, <2>3 DEF Kept, Web
<1> QED BY <1>1, <1>2, <1>3 DEF EntryDone, SaveResult, effects

\* Results that will be true of what a step leaves.
TrueAfter(results) ==
  \A k \in DOMAIN results :
     /\ results[k][1] \in DOMAIN job.files
     /\ results[k][2] = "ok" => \E f \in Files : f = job.files[results[k][1]] /\ Kept(f)'

LEMMA Posted ==
  ASSUME FormAssumption, FormInv, Started, UNCHANGED <<tab, platform, settings, pending, list>>,
         NEW results \in Seq(Nat \X {"ok", "err"}), NEW at, NEW finished,
         job' = [job EXCEPT !.results = results, !.at = at, !.finished = finished],
         Web => job'.at \in DOMAIN job.files,
         \A g \in Files : Kept(g) => Kept(g)',
         disk' \in [Paths -> Files \cup {None}],
         TrueAfter(results)
  PROVE  FormInv'
<1>1. /\ job = [f \in Fields |-> job[f]] /\ job.protect = settings.protect
      /\ InPlace /\ (Web => tab = "encrypt")
  BY DEF FormInv, JobInStep
<1>2. /\ job'.files = job.files /\ job'.protect = job.protect /\ job'.results = results
      /\ job' = [f \in Fields |-> job'[f]]
  <2>1. PICK j, n : j = job /\ n = job'
    OBVIOUS
  <2>2. j = [f \in Fields |-> j[f]]
    BY <1>1, <2>1
  <2>3. n = [j EXCEPT !.results = results, !.at = at, !.finished = finished]
    BY <2>1
  <2>4. /\ n.files = j.files /\ n.protect = j.protect /\ n.results = results
        /\ n = [f \in Fields |-> n[f]]
    BY <2>2, <2>3 DEF Fields
  <2> QED BY <2>1, <2>4
<1>3. InPlace'
  BY <1>1, <1>2 DEF InPlace
<1>4. ResultsTrue'
  <2>1. ASSUME NEW k \in DOMAIN results
        PROVE  /\ results[k][1] \in DOMAIN job'.files
               /\ results[k][2] = "ok" => Kept(job.files[results[k][1]])'
    BY <1>2 DEF TrueAfter
  <2> QED BY <1>2, <2>1 DEF ResultsTrue
<1>5. FormTyped' /\ Waiting'
  BY DEF FormInv, FormTyped, Waiting
<1>6. ShownAreKept'
  <2>1. ASSUME NEW i \in DOMAIN list, list[i].status = "ok" PROVE Kept(list[i].file)'
    <3>0. list[i] \in Entry
      BY DEF FormInv, FormTyped
    <3>1. PICK g \in Files : g = list[i].file
      BY <3>0 DEF Entry
    <3>2. Kept(g)
      BY <2>1, <3>1 DEF FormInv, ShownAreKept
    <3>3. Kept(g)'
      BY <3>1, <3>2
    <3> QED BY <3>1, <3>3
  <2> QED BY <2>1 DEF ShownAreKept
<1> QED BY <1>1, <1>2, <1>3, <1>4, <1>5, <1>6 DEF FormInv, JobInStep, Web

LEMMA WorkerStep == ASSUME FormAssumption, FormInv, Worker PROVE FormInv'
<1>1. /\ UNCHANGED <<tab, platform, settings, pending, list>> /\ Started /\ ~Web
      /\ job = [f \in Fields |-> job[f]] /\ InPlace /\ ResultsTrue /\ job.protect = settings.protect
  BY DEF Worker, WorkerRefuses, WorkerFile, WorkerFinishes, FormInv, JobInStep, form
<1>2. /\ job.files \in Seq(Files) /\ DOMAIN job.files = 1 .. Len(job.files) /\ Len(job.files) \in Nat
      /\ job.results \in Seq(Nat \X {"ok", "err"})
  BY <1>1, LenProperties DEF InPlace, ResultsTrue
<1>3. \A k \in DOMAIN job.results :
         /\ job.results[k][1] \in DOMAIN job.files
         /\ job.results[k][2] = "ok" =>
              \E f \in Files : f = job.files[job.results[k][1]] /\ Kept(f)
  <2>1. ASSUME NEW k \in DOMAIN job.results
        PROVE  /\ job.results[k][1] \in DOMAIN job.files
               /\ job.results[k][2] = "ok" => Kept(job.files[job.results[k][1]])
    BY <1>1 DEF ResultsTrue
  <2>2. \A i \in DOMAIN job.files : job.files[i] \in Files
    BY <1>2
  <2> QED BY <2>1, <2>2
<1>4. ASSUME UNCHANGED effects
      PROVE  (\A f : Kept(f)' = Kept(f)) /\ disk' \in [Paths -> Files \cup {None}]
  BY <1>1, <1>4 DEF Kept, Web, effects, FormInv, FormTyped
<1>5. CASE WorkerRefuses
  <2>1. PICK results : results = [i \in DOMAIN job.files |-> <<i, "err">>]
    OBVIOUS
  <2>2. /\ job' = [job EXCEPT !.results = results, !.at = Len(job.files) + 2, !.finished = TRUE]
        /\ UNCHANGED effects
    BY <1>5, <2>1 DEF WorkerRefuses
  <2>3. results \in Seq(Nat \X {"ok", "err"}) /\ DOMAIN results = DOMAIN job.files
    BY <1>2, <2>1
  <2>4. TrueAfter(results)
    BY <2>1 DEF TrueAfter
  <2> QED BY <1>1, <1>4, <2>2, <2>3, <2>4, Posted
<1>6. CASE WorkerFile
  <2>1. PICK status \in {"ok", "err"} :
          /\ EntryDone(job.files[job.at], job.protect, status)
          /\ job' = [job EXCEPT !.results = Append(job.results, <<job.at, status>>), !.at = job.at + 1]
    BY <1>6 DEF WorkerFile
  <2>2. job.at \in DOMAIN job.files /\ job.at \in Nat
    BY <1>2, <1>6 DEF WorkerFile
  <2>3. PICK f \in Files : f = job.files[job.at]
    BY <1>2, <2>2
  <2>4. EntryDone(f, job.protect, status)
    BY <2>1, <2>3
  <2>5. /\ \A g \in Files : Kept(g) => Kept(g)'
        /\ status = "ok" => Kept(f)'
        /\ disk' \in [Paths -> Files \cup {None}]
    BY <1>1, <2>4, EntryKeeps DEF FormInv
  <2>6. PICK r : r = <<job.at, status>>
    OBVIOUS
  <2>7. r \in Nat \X {"ok", "err"} /\ r[1] = job.at /\ r[2] = status
    BY <2>2, <2>6
  <2>8. PICK results : results = Append(job.results, r)
    OBVIOUS
  <2>9. /\ results \in Seq(Nat \X {"ok", "err"}) /\ Len(results) = Len(job.results) + 1
        /\ \A k \in 1 .. Len(job.results) : results[k] = job.results[k]
        /\ results[Len(job.results) + 1] = r /\ DOMAIN results = 1 .. Len(results)
        /\ Len(job.results) \in Nat /\ DOMAIN job.results = 1 .. Len(job.results)
    BY <1>2, <2>7, <2>8, AppendProperties, LenProperties
  <2>10. job' = [job EXCEPT !.results = results, !.at = job.at + 1, !.finished = job.finished]
    <3>1. job' = [job EXCEPT !.results = results, !.at = job.at + 1]
      BY <2>1, <2>6, <2>8
    <3> QED BY <1>1, <3>1 DEF Fields
  <2>11. TrueAfter(results)
    <3>1. ASSUME NEW k \in DOMAIN results, k = Len(job.results) + 1
          PROVE  /\ results[k][1] \in DOMAIN job.files
                 /\ results[k][2] = "ok" => \E g \in Files : g = job.files[results[k][1]] /\ Kept(g)'
      <4>1. results[k] = r
        BY <2>9, <3>1
      <4> QED BY <2>2, <2>3, <2>5, <2>7, <4>1
    <3>2. ASSUME NEW k \in DOMAIN job.results
          PROVE  /\ results[k][1] \in DOMAIN job.files
                 /\ results[k][2] = "ok" => \E g \in Files : g = job.files[results[k][1]] /\ Kept(g)'
      <4>1. results[k] = job.results[k]
        BY <2>9
      <4> QED BY <1>3, <2>5, <4>1
    <3>3. \A k \in DOMAIN results : k = Len(job.results) + 1 \/ k \in DOMAIN job.results
      BY <2>9
    <3> QED BY <3>1, <3>2, <3>3 DEF TrueAfter
  <2> QED BY <1>1, <2>5, <2>9, <2>10, <2>11, Posted
<1>7. CASE WorkerFinishes
  <2>1. job' = [job EXCEPT !.finished = TRUE] /\ UNCHANGED effects
    BY <1>7 DEF WorkerFinishes
  <2>2. job' = [job EXCEPT !.results = job.results, !.at = job.at, !.finished = TRUE]
    BY <1>1, <2>1 DEF Fields
  <2>3. TrueAfter(job.results)
    BY <1>3, <1>4, <2>1 DEF TrueAfter
  <2> QED BY <1>1, <1>2, <1>4, <2>1, <2>2, <2>3, Posted
<1> QED BY <1>5, <1>6, <1>7 DEF Worker

-----------------------------------------------------------------------------
(* The frame. *)

\* Results applied to a list that begins with the one they were made for.
LEMMA Drained ==
  ASSUME FormInv, Started, UNCHANGED <<platform, settings, saved, disk>>,
         NEW more \in Seq(Entry), \A i \in DOMAIN more : more[i].status # "ok"
  PROVE  LET new == ApplyJobResults(job.results, list \o more) IN
         /\ new \in Seq(Entry) /\ Len(new) >= Len(list)
         /\ \A i \in DOMAIN new : new[i].status = "ok" => Kept(new[i].file)
         /\ \A i \in DOMAIN job.files : new[i].file = job.files[i]
<1> DEFINE all == list \o more
           new == ApplyJobResults(job.results, all)
<1>1. /\ all \in Seq(Entry) /\ Len(all) >= Len(list)
      /\ \A i \in DOMAIN list : all[i] = list[i] /\ i \in DOMAIN all
      /\ \A i \in DOMAIN all : all[i].status = "ok" => Kept(all[i].file)
  BY Growing DEF FormInv
<1> HIDE DEF all
<1>2. InPlace /\ ResultsTrue /\ list \in Seq(Entry)
  BY DEF FormInv, FormTyped, JobInStep
<1>3. \A i \in DOMAIN list : all[i].file = list[i].file
  BY <1>1
<1>4. /\ new \in Seq(Entry) /\ Len(new) = Len(all)
      /\ \A i \in DOMAIN all : /\ new[i].file = all[i].file
                               /\ new[i].status = "ok" => Kept(new[i].file)
  BY <1>1, <1>2, <1>3, Applying
<1> HIDE DEF new
<1>5. /\ DOMAIN new = DOMAIN all /\ Len(new) >= Len(list)
      /\ DOMAIN job.files \subseteq DOMAIN list
  BY <1>1, <1>2, <1>4, LenProperties DEF InPlace
<1>6. \A i \in DOMAIN job.files : new[i].file = job.files[i]
  BY <1>1, <1>2, <1>4, <1>5 DEF InPlace
<1> QED BY <1>4, <1>5, <1>6 DEF new, all

LEMMA PollStep == ASSUME FormAssumption, FormInv, PollFiles PROVE FormInv'
<1>1. /\ UNCHANGED <<tab, platform, settings, saved, disk>> /\ pending' = <<>>
      /\ pending \in Seq(Entry) /\ \A i \in DOMAIN pending : pending[i].status # "ok"
  BY DEF PollFiles, effects, FormInv, FormTyped, Waiting
<1>2. pending' \in Seq(Entry) /\ Waiting'
  BY <1>1, EmptySeq DEF Waiting
<1>3. CASE ~(Started /\ ~Web)
  <2>1. list' = list \o pending /\ job' = job
    BY <1>3 DEF PollFiles
  <2> QED BY <1>1, <1>2, <2>1, Longer
<1>4. CASE Started /\ ~Web
  <2> DEFINE all == list \o pending
             new == ApplyJobResults(job.results, all)
  <2>1. /\ new \in Seq(Entry) /\ Len(new) >= Len(list)
        /\ \A i \in DOMAIN new : new[i].status = "ok" => Kept(new[i].file)
        /\ \A i \in DOMAIN job.files : new[i].file = job.files[i]
    BY <1>1, <1>4, Drained
  <2>2. \/ job' = None /\ (list' = <<>> \/ list' = new)
        \/ job' = [job EXCEPT !.results = <<>>] /\ list' = new
    BY <1>4 DEF PollFiles, DrainJobResults, JobOver
  <2> HIDE DEF new, all
  <2>3. \A f : Kept(f)' = Kept(f)
    BY <1>1 DEF Kept, Web
  <2>4. list' \in Seq(Entry) /\ \A i \in DOMAIN list' : list'[i].status = "ok" => Kept(list'[i].file)
    <3>1. CASE list' = <<>>
      BY <3>1, EmptySeq
    <3>2. CASE list' = new
      BY <2>1, <3>2
    <3> QED BY <2>2, <3>1, <3>2
  <2>5. FormTyped' /\ ShownAreKept' /\ Waiting'
    BY <1>1, <1>2, <2>3, <2>4 DEF FormInv, FormTyped, ShownAreKept
  <2>6. JobInStep'
    <3>1. CASE job' = None
      BY <3>1 DEF JobInStep, Started
    <3>2. CASE job' = [job EXCEPT !.results = <<>>] /\ list' = new
      <4>1. /\ job = [f \in Fields |-> job[f]] /\ job.protect = settings.protect /\ InPlace
        BY <1>4 DEF FormInv, JobInStep
      <4>2. /\ job'.files = job.files /\ job'.protect = job.protect /\ job'.results = <<>>
            /\ job' = [f \in Fields |-> job'[f]]
        BY <3>2, <4>1 DEF Fields
      <4>3. InPlace'
        <5>1. Len(job.files) \in Nat /\ Len(list) \in Nat /\ Len(new) \in Nat
          BY <2>1, <4>1, LenProperties DEF InPlace, FormInv, FormTyped
        <5> QED BY <2>1, <3>2, <4>1, <4>2, <5>1 DEF InPlace
      <4>4. ResultsTrue'
        BY <4>2, EmptySeq DEF ResultsTrue
      <4> QED BY <1>1, <1>4, <4>1, <4>2, <4>3, <4>4 DEF JobInStep, Web
    <3> QED BY <2>2, <3>1, <3>2
  <2> QED BY <2>5, <2>6 DEF FormInv
<1> QED BY <1>3, <1>4

\* One result, applied: only the file it is for changes, and only its status.
OneChanged(files, new, n, status) ==
  /\ new \in Seq(Entry) /\ Len(new) = Len(files)
  /\ \A i \in DOMAIN files :
       /\ new[i].file = files[i].file
       /\ new[i].status = IF i = n THEN status ELSE files[i].status

LEMMA OneResult ==
  ASSUME NEW files \in Seq(Entry), NEW n \in Nat, NEW status \in {"ok", "err"},
         NEW results, results = <<<<n, status>>>>,
         NEW new, new = ApplyJobResults(results, files)
  PROVE  OneChanged(files, new, n, status)
<1> DEFINE mine(i) == {r \in Range(results) : r[1] = i}
<1>1. DOMAIN files = 1 .. Len(files) /\ Len(files) \in Nat
  BY LenProperties
<1>2. new = [i \in 1 .. Len(files) |-> IF mine(i) = {} THEN files[i]
                          ELSE [files[i] EXCEPT !.status = (CHOOSE r \in mine(i) : TRUE)[2]]]
  BY <1>1 DEF ApplyJobResults
<1>3. PICK r : r = <<n, status>>
  OBVIOUS
<1>4. Range(results) = {r} /\ r[1] = n /\ r[2] = status
  BY <1>3 DEF Range
<1>5. \A i : mine(i) = IF i = n THEN {r} ELSE {}
  BY <1>4
<1> HIDE DEF mine
<1>6. ASSUME NEW i \in 1 .. Len(files)
      PROVE  /\ new[i] \in Entry /\ new[i].file = files[i].file
             /\ new[i].status = IF i = n THEN status ELSE files[i].status
  <2>1. files[i] \in Entry
    BY <1>1
  <2>2. CASE i # n
    BY <1>2, <1>5, <2>1, <2>2
  <2>3. CASE i = n
    <3>1. (CHOOSE q \in mine(i) : TRUE) = r
      BY <1>5, <2>3
    <3>2. mine(i) # {}
      BY <1>5, <2>3
    <3>3. new[i] = [files[i] EXCEPT !.status = status]
      BY <1>2, <1>4, <3>1, <3>2
    <3> QED BY <2>1, <2>3, <3>3 DEF Entry
  <2> QED BY <2>2, <2>3
<1>7. new \in Seq(Entry) /\ Len(new) = Len(files)
  <2>1. new = [i \in 1 .. Len(files) |-> new[i]]
    BY <1>2
  <2>2. DOMAIN new = 1 .. Len(files)
    BY <2>1
  <2>3. new \in [1 .. Len(files) -> Entry]
    BY <1>6, <2>1
  <2>4. PICK m \in Nat : m = Len(files)
    BY <1>1
  <2>5. new \in [1 .. m -> Entry]
    BY <2>3, <2>4
  <2>6. new \in Seq(Entry)
    BY <2>5
  <2>7. Len(new) = m
    BY <2>2, <2>4, <2>6, LenProperties
  <2> QED BY <2>4, <2>6, <2>7
<1> QED BY <1>1, <1>6, <1>7 DEF OneChanged

LEMMA TickStep == ASSUME FormAssumption, FormInv, TickEncryptWeb PROVE FormInv'
<1>1. /\ UNCHANGED <<tab, platform, settings, pending>> /\ Started /\ Web /\ tab = "encrypt"
      /\ job = [f \in Fields |-> job[f]] /\ InPlace /\ ResultsTrue /\ job.protect = settings.protect
      /\ job.at \in DOMAIN job.files /\ list \in Seq(Entry)
  BY DEF TickEncryptWeb, FormInv, FormTyped, JobInStep
<1>2. /\ job.files \in Seq(Files) /\ DOMAIN job.files = 1 .. Len(job.files) /\ Len(job.files) \in Nat
      /\ job.at \in Nat /\ DOMAIN list = 1 .. Len(list) /\ Len(list) \in Nat
      /\ job.at \in DOMAIN list
  BY <1>1, LenProperties DEF InPlace
<1>3. PICK status \in {"ok", "err"} :
        /\ EntryDone(job.files[job.at], FALSE, status)
        /\ job' = IF job.at = Len(job.files) THEN None ELSE [job EXCEPT !.at = job.at + 1]
        /\ \/ list' = <<>> /\ job' = None
           \/ list' = ApplyJobResults(<<<<job.at, status>>>>, list)
  BY DEF TickEncryptWeb
<1>n. PICK new : new = ApplyJobResults(<<<<job.at, status>>>>, list)
  OBVIOUS
<1>l. (list' = <<>> /\ job' = None) \/ list' = new
  BY <1>3, <1>n
<1>4. PICK f \in Files : f = job.files[job.at]
  BY <1>1, <1>2
<1>5. /\ \A g \in Files : Kept(g) => Kept(g)'
      /\ status = "ok" => Kept(f)'
      /\ disk' \in [Paths -> Files \cup {None}]
  <2>1. EntryDone(f, FALSE, status)
    BY <1>3, <1>4
  <2> QED BY <1>1, <2>1, EntryKeeps DEF FormInv
<1>6. /\ new \in Seq(Entry) /\ Len(new) = Len(list)
      /\ \A i \in DOMAIN list :
           /\ new[i].file = list[i].file
           /\ new[i].status = IF i = job.at THEN status ELSE list[i].status
  <2>1. PICK n, files : n = job.at /\ files = list
    OBVIOUS
  <2>2. PICK results : results = <<<<n, status>>>>
    OBVIOUS
  <2>3. new = ApplyJobResults(results, files)
    BY <1>3, <1>n, <2>1, <2>2
  <2>4. files \in Seq(Entry) /\ n \in Nat /\ status \in {"ok", "err"}
    BY <1>1, <1>2, <1>3, <2>1
  <2>5. OneChanged(files, new, n, status)
    BY <2>2, <2>3, <2>4, OneResult
  <2> QED BY <2>1, <2>5 DEF OneChanged
<1>7. DOMAIN new = DOMAIN list
  BY <1>2, <1>6, LenProperties
<1>8. ASSUME NEW i \in DOMAIN new, new[i].status = "ok" PROVE Kept(new[i].file)'
  <2>1. PICK g \in Files : g = new[i].file /\ g = list[i].file
    <3>1. list[i] \in Entry
      BY <1>1, <1>7
    <3> QED BY <1>6, <1>7, <3>1 DEF Entry
  <2>2. CASE i = job.at
    <3>1. g = f /\ status = "ok"
      BY <1>1, <1>2, <1>4, <1>6, <1>7, <1>8, <2>1, <2>2 DEF InPlace
    <3>2. Kept(g)'
      BY <1>5, <3>1
    <3> QED BY <2>1, <3>2
  <2>3. CASE i # job.at
    <3>1. Kept(g)
      BY <1>6, <1>7, <1>8, <2>1, <2>3 DEF FormInv, ShownAreKept
    <3>2. Kept(g)'
      BY <1>5, <3>1
    <3> QED BY <2>1, <3>2
  <2> QED BY <2>2, <2>3
<1>9. list' \in Seq(Entry) /\ ShownAreKept'
  <2>1. CASE list' = <<>>
    BY <2>1, EmptySeq DEF ShownAreKept
  <2>2. CASE list' = new
    <3>1. \A i \in DOMAIN list' : list'[i].status = "ok" => Kept(list[i].file)'
      BY <1>8, <2>2
    <3> QED BY <1>6, <2>2, <3>1 DEF ShownAreKept
  <2> QED BY <1>3, <1>l, <2>1, <2>2
<1>10. FormTyped' /\ Waiting' /\ ShownAreKept'
  BY <1>1, <1>5, <1>9 DEF FormInv, FormTyped, Waiting
<1>11. JobInStep'
  <2>1. CASE job' = None
    BY <2>1 DEF JobInStep, Started
  <2>2. CASE job' = [job EXCEPT !.at = job.at + 1] /\ list' = new /\ job.at # Len(job.files)
    <3>1. /\ job'.files = job.files /\ job'.protect = job.protect /\ job'.results = job.results
          /\ job'.at = job.at + 1 /\ job' = [k \in Fields |-> job'[k]]
      BY <1>1, <2>2 DEF Fields
    <3>2. InPlace'
      <4>1. \A i \in DOMAIN job.files : i \in DOMAIN list /\ list[i].file = job.files[i]
        BY <1>1, <1>2 DEF InPlace
      <4>2. \A i \in DOMAIN job.files : list'[i].file = job.files[i]
        BY <1>6, <2>2, <4>1
      <4>3. Len(job.files) <= Len(list')
        BY <1>1, <1>6, <2>2 DEF InPlace
      <4> QED BY <1>2, <3>1, <4>2, <4>3 DEF InPlace
    <3>3. ResultsTrue'
      <4>1. ASSUME NEW k \in DOMAIN job.results
            PROVE  /\ job.results[k][1] \in DOMAIN job.files
                   /\ job.results[k][2] = "ok" =>
                        \E g \in Files : g = job.files[job.results[k][1]] /\ Kept(g)'
        <5>1. /\ job.results[k][1] \in DOMAIN job.files
              /\ job.results[k][2] = "ok" => Kept(job.files[job.results[k][1]])
          BY <1>1 DEF ResultsTrue
        <5>2. PICK g \in Files : g = job.files[job.results[k][1]]
          BY <1>2, <5>1
        <5> QED BY <1>5, <5>1, <5>2
      <4>2. ASSUME NEW k \in DOMAIN job.results, job.results[k][2] = "ok"
            PROVE  Kept(job.files[job.results[k][1]])'
        <5>1. PICK g \in Files : g = job.files[job.results[k][1]] /\ Kept(g)'
          BY <4>1, <4>2
        <5>2. g = job'.files[job'.results[k][1]]
          BY <3>1, <5>1
        <5> QED BY <5>1, <5>2
      <4> QED BY <1>1, <3>1, <4>1, <4>2 DEF ResultsTrue
    <3>4. job'.at \in DOMAIN job'.files
      BY <1>1, <1>2, <2>2, <3>1
    <3> QED BY <1>1, <3>1, <3>2, <3>3, <3>4 DEF JobInStep
  <2> QED BY <1>3, <1>l, <2>1, <2>2
<1> QED BY <1>10, <1>11 DEF FormInv

LEMMA ClickStep == ASSUME FormAssumption, FormInv, RunDecryptWeb PROVE FormInv'
<1>1. /\ UNCHANGED <<tab, platform, settings, pending, job, disk>> /\ Web /\ ~Started
      /\ list \in Seq(Entry) /\ Len(list) \in Nat /\ DOMAIN list = 1 .. Len(list)
  BY LenProperties DEF RunDecryptWeb, FormInv, FormTyped, JobInStep
<1>2. PICK status, new :
        /\ status \in [DOMAIN list -> {"ok", "err"}]
        /\ new = [i \in DOMAIN list |-> [list[i] EXCEPT !.status = status[i]]]
        /\ saved' = saved \cup With(new, "ok")
        /\ list' \in {<<>>, new}
  BY DEF RunDecryptWeb
<1>3. ASSUME NEW i \in 1 .. Len(list) PROVE new[i] \in Entry
  <2>1. list[i] \in Entry /\ status[i] \in {"ok", "err"} /\ new[i] = [list[i] EXCEPT !.status = status[i]]
    BY <1>1, <1>2
  <2> QED BY <2>1 DEF Entry
<1>4. new \in Seq(Entry) /\ DOMAIN new = DOMAIN list
  BY <1>1, <1>2, <1>3
<1>5. \A i \in DOMAIN new : new[i].status = "ok" => new[i].file \in saved'
  <2>1. ASSUME NEW i \in DOMAIN new, new[i].status = "ok" PROVE new[i].file \in With(new, "ok")
    BY <2>1 DEF With
  <2>2. With(new, "ok") \subseteq saved'
    BY <1>2
  <2> QED BY <2>1, <2>2
<1>6. list' \in Seq(Entry) /\ \A i \in DOMAIN list' : list'[i].status = "ok" => list'[i].file \in saved'
  <2>1. CASE list' = <<>>
    BY <2>1, EmptySeq
  <2>2. CASE list' = new
    BY <1>4, <1>5, <2>2
  <2> QED BY <1>2, <2>1, <2>2
<1>7. ShownAreKept'
  BY <1>1, <1>6 DEF ShownAreKept, Kept, Web
<1> QED BY <1>1, <1>6, <1>7 DEF FormInv, FormTyped, Waiting, JobInStep, Started

-----------------------------------------------------------------------------
(* The invariant, and what it is for. *)

LEMMA FormKeeps == ASSUME FormAssumption, FormInv, [Next]_vars PROVE FormInv'
<1>1. CASE UNCHANGED vars
  BY <1>1, Still DEF vars, form, effects, FormInv, FormTyped, Waiting
<1>2. CASE Fill \/ Clear \/ Rejected \/ PollCertificate
  BY <1>2, FillStep
<1>3. CASE PollFiles
  BY <1>3, PollStep
<1>4. CASE TickEncryptWeb
  BY <1>4, TickStep
<1>5. CASE StartDesktop \/ RunEncryptWeb
  BY <1>5, StartStep
<1>6. CASE RunDecryptWeb
  BY <1>6, ClickStep
<1>7. CASE Worker
  BY <1>7, WorkerStep
<1> QED BY <1>1, <1>2, <1>3, <1>4, <1>5, <1>6, <1>7 DEF Next, Frame

\* What the list shows as done was saved, and is still there if existing
\* files are protected, whatever joins the list while a batch runs, whatever
\* shares an output's name, and however the worker's steps fall between frames.
THEOREM DoneWasSaved == FormAssumption => (Spec => []OkMeansSaved)
<1> SUFFICES ASSUME FormAssumption PROVE Spec => []OkMeansSaved
  OBVIOUS
<1>1. Init => FormInv
  BY InitForm
<1>2. FormInv /\ [Next]_vars => FormInv'
  BY FormKeeps
<1>3. FormInv => OkMeansSaved
  BY DEF FormInv, ShownAreKept, Kept, OkMeansSaved
<1> QED BY <1>1, <1>2, <1>3, PTL DEF Spec

\* On the web the form is cleared at the end of a batch that saved all of it.
LEMMA WebClearStep ==
  ASSUME FormAssumption, FormInv, Web, cleared \subseteq saved, [Next]_vars
  PROVE  cleared' \subseteq saved'
<1>t. list \in Seq(Entry) /\ Len(list) \in Nat /\ DOMAIN list = 1 .. Len(list)
  BY LenProperties DEF FormInv, FormTyped
<1>1. CASE TickEncryptWeb
  <2>1. /\ Started /\ InPlace /\ job.at \in DOMAIN job.files
    BY <1>1 DEF TickEncryptWeb, FormInv, JobInStep
  <2>2. /\ DOMAIN job.files = 1 .. Len(job.files) /\ Len(job.files) \in Nat /\ job.at \in Nat
        /\ job.at \in DOMAIN list /\ list[job.at].file = job.files[job.at]
    BY <1>t, <2>1, LenProperties DEF InPlace
  <2>s. PICK status \in {"ok", "err"} :
          LET files == ApplyJobResults(<<<<job.at, status>>>>, list) IN
          /\ EntryDone(job.files[job.at], FALSE, status)
          /\ \/ cleared' = cleared
             \/ AllDone(files) /\ cleared' = cleared \cup FilesIn(files)
    BY <1>1 DEF TickEncryptWeb
  <2>n. PICK new : new = ApplyJobResults(<<<<job.at, status>>>>, list)
    OBVIOUS
  <2>3. /\ EntryDone(job.files[job.at], FALSE, status)
        /\ \/ cleared' = cleared
           \/ AllDone(new) /\ cleared' = cleared \cup FilesIn(new)
    BY <2>s, <2>n
  <2>4. saved \subseteq saved' /\ (status = "ok" => job.files[job.at] \in saved')
    BY <2>3 DEF EntryDone, effects
  <2>5. /\ new \in Seq(Entry) /\ Len(new) = Len(list)
        /\ \A i \in DOMAIN list :
             /\ new[i].file = list[i].file
             /\ new[i].status = IF i = job.at THEN status ELSE list[i].status
    <3>1. PICK n, files : n = job.at /\ files = list
      OBVIOUS
    <3>2. PICK results : results = <<<<n, status>>>>
      OBVIOUS
    <3>3. new = ApplyJobResults(results, files)
      BY <2>n, <3>1, <3>2
    <3>4. files \in Seq(Entry) /\ n \in Nat /\ status \in {"ok", "err"}
      BY <1>t, <2>2, <2>3, <3>1
    <3>5. OneChanged(files, new, n, status)
      BY <3>2, <3>3, <3>4, OneResult
    <3> QED BY <3>1, <3>5 DEF OneChanged
  <2>6. DOMAIN new = DOMAIN list
    BY <1>t, <2>5, LenProperties
  <2>7. ASSUME NEW i \in DOMAIN new, new[i].status = "ok" PROVE new[i].file \in saved'
    <3>1. CASE i = job.at
      BY <2>2, <2>4, <2>5, <2>6, <2>7, <3>1
    <3>2. CASE i # job.at
      <4>1. list[i].status = "ok" /\ new[i].file = list[i].file
        BY <2>5, <2>6, <2>7, <3>2
      <4>2. list[i].file \in saved
        BY <2>6, <4>1 DEF FormInv, ShownAreKept, Kept
      <4> QED BY <2>4, <4>1, <4>2
    <3> QED BY <3>1, <3>2
  <2>8. AllDone(new) => FilesIn(new) \subseteq saved'
    BY <2>7 DEF AllDone, FilesIn
  <2> QED BY <2>3, <2>4, <2>8
<1>2. CASE RunDecryptWeb
  <2>1. PICK new :
          /\ saved' = saved \cup With(new, "ok")
          /\ \/ cleared' = cleared
             \/ AllDone(new) /\ cleared' = cleared \cup FilesIn(new)
    BY <1>2 DEF RunDecryptWeb
  <2>2. AllDone(new) => FilesIn(new) \subseteq With(new, "ok")
    BY DEF AllDone, FilesIn, With
  <2> QED BY <2>1, <2>2
<1>3. CASE ~TickEncryptWeb /\ ~RunDecryptWeb
  <2>1. UNCHANGED <<saved, cleared>>
    BY <1>3 DEF Next, Fill, Clear, Frame, Worker, DropFile, DropKey, PickFiles, PickUnreadable, FilesCard,
       RecipientsCard, ToggleAutoClear, ClearAllInputs, StartDesktop, Rejected, WorkerRefuses,
       WorkerFile, WorkerFinishes, PollFiles, PollCertificate, RunEncryptWeb, vars, effects
  <2> QED BY <2>1
<1> QED BY <1>1, <1>2, <1>3

\* In the browser, clear inputs after success takes a file off the form only when
\* that file was handed to the user: a file dropped while the queue runs has not
\* been tried, so the form it is on stays as it is.
THEOREM WebClearsOnlySaved == FormAssumption => (Spec => []WebClearedWereSaved)
<1> SUFFICES ASSUME FormAssumption PROVE Spec => []WebClearedWereSaved
  OBVIOUS
<1>1. Init => FormInv /\ WebClearedWereSaved
  <2>1. Init => cleared = {}
    BY DEF Init
  <2> QED BY <2>1, InitForm DEF WebClearedWereSaved, ClearedWereSaved
<1>2. FormInv /\ WebClearedWereSaved /\ [Next]_vars => FormInv' /\ WebClearedWereSaved'
  <2>1. ASSUME FormInv, WebClearedWereSaved, [Next]_vars PROVE WebClearedWereSaved'
    <3>1. Web' = Web
      BY <2>1 DEF Next, Fill, Clear, Frame, Worker, DropFile, DropKey, PickFiles, PickUnreadable, FilesCard,
         RecipientsCard, ToggleAutoClear, ClearAllInputs, StartDesktop, Rejected, WorkerRefuses,
         WorkerFile, WorkerFinishes, PollFiles, PollCertificate, RunEncryptWeb, TickEncryptWeb,
         RunDecryptWeb, vars, Web
    <3> QED BY <2>1, <3>1, WebClearStep DEF WebClearedWereSaved, ClearedWereSaved
  <2> QED BY <2>1, FormKeeps
<1> QED BY <1>1, <1>2, PTL DEF Spec

-----------------------------------------------------------------------------
(* Types. They hold whatever is cleared while a job runs. *)

JobTyped ==
  Started =>
    /\ job = [f \in Fields |-> job[f]] /\ job.files \in Seq(Files)
    /\ job.results \in Seq(Nat \X {"ok", "err"})
    /\ Web => job.at \in DOMAIN job.files

\* The list never outgrows the room left for what waits to join it.
RoomLeft == Len(list) + Len(pending) <= MaxEntries

Chosen ==
  /\ keys \subseteq Keys /\ staged \in Keys \cup {None} /\ picking \in BOOLEAN
  /\ summary \in {"none", "ok", "err"}

Effected == saved \subseteq Files /\ logged \subseteq Files /\ cleared \subseteq Files

TypeInv == FormTyped /\ JobTyped /\ RoomLeft /\ Chosen /\ Effected

LEMMA InitTypes == ASSUME Init PROVE TypeInv
<1>1. /\ list = <<>> /\ pending = <<>> /\ ~Started
      /\ keys = {} /\ staged = None /\ picking = FALSE /\ summary = "none"
      /\ saved = {} /\ logged = {} /\ cleared = {}
  BY DEF Init, Started
<1>2. FormTyped
  BY <1>1, EmptySeq DEF Init, FormTyped
<1>3. RoomLeft
  <2>1. Len(list) = 0 /\ Len(pending) = 0
    BY <1>1, EmptySeq
  <2> QED BY <2>1, BoundsAssumption DEF RoomLeft
<1>4. Chosen
  BY <1>1 DEF Chosen
<1> QED BY <1>1, <1>2, <1>3, <1>4 DEF TypeInv, JobTyped, Effected

\* Results of the right shape leave a list of the same length.
LEMMA AppliedTyped ==
  ASSUME NEW results \in Seq(Nat \X {"ok", "err"}), NEW files \in Seq(Entry)
  PROVE  /\ ApplyJobResults(results, files) \in Seq(Entry)
         /\ Len(ApplyJobResults(results, files)) = Len(files)
<1> DEFINE new     == ApplyJobResults(results, files)
           mine(i) == {r \in Range(results) : r[1] = i}
           pick(i) == CHOOSE r \in mine(i) : TRUE
<1>0. DOMAIN files = 1 .. Len(files) /\ Len(files) \in Nat
  BY LenProperties
<1>1. new = [i \in 1 .. Len(files) |-> IF mine(i) = {} THEN files[i]
                                       ELSE [files[i] EXCEPT !.status = pick(i)[2]]]
  BY <1>0 DEF ApplyJobResults
<1> HIDE DEF new, pick
<1>2. ASSUME NEW i \in 1 .. Len(files) PROVE new[i] \in Entry
  <2>1. files[i] \in Entry
    BY <1>0
  <2>2. CASE mine(i) = {}
    BY <1>1, <2>1, <2>2
  <2>3. CASE mine(i) # {}
    <3>1. pick(i) \in mine(i)
      BY <2>3 DEF pick
    <3>2. PICK k \in DOMAIN results : results[k] = pick(i)
      BY <3>1 DEF Range
    <3>3. pick(i)[2] \in {"ok", "err"}
      BY <3>2
    <3>4. new[i] = [files[i] EXCEPT !.status = pick(i)[2]]
      BY <1>1, <2>3
    <3> QED BY <2>1, <3>3, <3>4 DEF Entry
  <2> QED BY <2>2, <2>3
<1>3. new \in Seq(Entry) /\ Len(new) = Len(files)
  BY <1>0, <1>1, <1>2
<1> QED BY <1>3 DEF new

LEMMA OneTyped ==
  ASSUME NEW n \in Nat, NEW status \in {"ok", "err"}
  PROVE  <<<<n, status>>>> \in Seq(Nat \X {"ok", "err"})
<1>1. PICK r : r = <<n, status>>
  OBVIOUS
<1>2. r \in Nat \X {"ok", "err"}
  BY <1>1
<1>3. <<r>> \in Seq(Nat \X {"ok", "err"})
  BY <1>2
<1> QED BY <1>1, <1>3

LEMMA OneOf == ASSUME NEW s \in Seq(Files), NEW n \in DOMAIN s PROVE \E f \in Files : f = s[n]
OBVIOUS

LEMMA Listed ==
  ASSUME NEW files \in Seq(Entry)
  PROVE  FilesIn(files) \subseteq Files /\ \A s : With(files, s) \subseteq Files
<1>1. \A i \in DOMAIN files : files[i] \in Entry
  OBVIOUS
<1>2. \A i \in DOMAIN files : files[i].file \in Files
  BY <1>1 DEF Entry
<1> QED BY <1>2 DEF FilesIn, With

LEMMA PromotedTyped == ASSUME Chosen PROVE PromoteStaged \subseteq Keys
BY DEF Chosen, PromoteStaged

LEMMA OneMore ==
  ASSUME NEW f \in Files
  PROVE  Len(Untried(<<f>>)) = 1 /\ Len(Unread(f)) = 1
<1>1. PICK s, u : s = Untried(<<f>>) /\ u = Unread(f)
  OBVIOUS
<1>2. s \in Seq(Entry) /\ u \in Seq(Entry)
  BY <1>1, Fresh
<1>3. DOMAIN s = 1 .. 1 /\ DOMAIN u = 1 .. 1
  BY <1>1 DEF Untried, Unread
<1>4. ASSUME NEW q \in Seq(Entry), DOMAIN q = 1 .. 1 PROVE Len(q) = 1
  BY <1>4, LenProperties
<1> QED BY <1>1, <1>2, <1>3, <1>4

\* The frame that changes the list but no job: what stays typed.
LEMMA SameJob ==
  ASSUME TypeInv, UNCHANGED <<platform, job, disk, saved, logged, cleared>>,
         list' \in Seq(Entry), pending' \in Seq(Entry), RoomLeft',
         settings' \in [autoClear : BOOLEAN, protect : BOOLEAN],
         Chosen'
  PROVE  TypeInv'
<1>1. FormTyped' /\ JobTyped' /\ Effected'
  BY DEF TypeInv, FormTyped, JobTyped, Effected, Started, Web
<1> QED BY <1>1 DEF TypeInv

LEMMA FillTypes == ASSUME TypeInv, Fill \/ Clear \/ Rejected \/ PollCertificate PROVE TypeInv'
<1>t. /\ list \in Seq(Entry) /\ pending \in Seq(Entry) /\ Len(list) \in Nat /\ Len(pending) \in Nat
      /\ settings \in [autoClear : BOOLEAN, protect : BOOLEAN] /\ MaxEntries \in Nat
  BY LenProperties, BoundsAssumption DEF TypeInv, FormTyped
<1>0. Len(list) + Len(pending) <= MaxEntries
  BY DEF TypeInv, RoomLeft
<1>e. Len(<<>>) = 0 /\ <<>> \in Seq(Entry)
  BY EmptySeq
<1>1. CASE DropFile
  <2>1. PICK f \in Files : list' = list \o Untried(<<f>>) /\ Room(1)
    BY <1>1 DEF DropFile
  <2>2. UNCHANGED <<platform, settings, saved, logged, cleared, disk, job, pending, keys, staged, picking, summary>>
    BY <1>1 DEF DropFile, effects
  <2>3. PICK more \in Seq(Entry) : more = Untried(<<f>>) /\ Len(more) = 1
    BY Fresh, OneMore
  <2>4. list' \in Seq(Entry) /\ Len(list') = Len(list) + 1
    BY <1>t, <2>1, <2>3, ConcatProperties
  <2>5. RoomLeft'
    BY <1>t, <2>1, <2>2, <2>4 DEF RoomLeft, Room
  <2>6. Chosen'
    BY <2>2 DEF TypeInv, Chosen
  <2> QED BY <1>t, <2>2, <2>4, <2>5, <2>6, SameJob
<1>2. CASE DropKey \/ RecipientsCard \/ Rejected \/ PollCertificate
  <2>1. UNCHANGED <<platform, settings, saved, logged, cleared, disk, job, list, pending>>
    BY <1>2 DEF DropKey, RecipientsCard, Rejected, PollCertificate, effects, form
  <2>2. Chosen'
    BY <1>2 DEF DropKey, RecipientsCard, Rejected, PollCertificate, AddCertRecipient, effects, form, TypeInv, Chosen
  <2>3. RoomLeft'
    BY <2>1 DEF TypeInv, RoomLeft
  <2> QED BY <1>t, <2>1, <2>2, <2>3, SameJob
<1>3. CASE PickFiles \/ PickUnreadable
  <2>1. UNCHANGED <<platform, settings, saved, logged, cleared, disk, job, list, keys, staged, summary>>
        /\ picking' = FALSE
    BY <1>3 DEF PickFiles, PickUnreadable, effects
  <2>2. \/ pending' = pending
        \/ \E f \in Files : Room(1) /\ pending' \in {Untried(<<f>>), Unread(f)}
    <3>1. CASE PickUnreadable
      BY <3>1 DEF PickUnreadable
    <3>2. CASE PickFiles
      <4>1. PICK fs \in {<<f>> : f \in Files} \cup {<<>>} :
              Room(Len(fs)) /\ pending' = IF fs = <<>> THEN pending ELSE Untried(fs)
        BY <3>2 DEF PickFiles
      <4>2. CASE fs = <<>>
        BY <4>1, <4>2
      <4>3. CASE fs # <<>>
        <5>1. PICK f \in Files : fs = <<f>>
          BY <4>3
        <5>2. Len(fs) = 1
          BY <5>1
        <5> QED BY <4>1, <4>3, <5>1, <5>2
      <4> QED BY <4>2, <4>3
    <3> QED BY <1>3, <3>1, <3>2
  <2>3. pending' \in Seq(Entry) /\ RoomLeft'
    <3>1. CASE pending' = pending
      BY <1>t, <2>1, <3>1 DEF TypeInv, RoomLeft
    <3>2. CASE pending' # pending
      <4>1. PICK f \in Files : Room(1) /\ pending' \in {Untried(<<f>>), Unread(f)}
        BY <2>2, <3>2
      <4>2. pending' \in Seq(Entry) /\ Len(pending') = 1
        BY <4>1, Fresh, OneMore
      <4> QED BY <1>t, <2>1, <4>1, <4>2 DEF RoomLeft, Room
    <3> QED BY <3>1, <3>2
  <2>4. Chosen'
    BY <2>1 DEF TypeInv, Chosen
  <2> QED BY <1>t, <2>1, <2>3, <2>4, SameJob
<1>4. CASE FilesCard
  <2>1. UNCHANGED <<platform, settings, saved, logged, cleared, disk, job, pending, keys, staged>>
    BY <1>4 DEF FilesCard, effects
  <2>2. \/ list' = list \/ list' = <<>>
        \/ \E i \in DOMAIN list : list' = RemoveAt(list, i)
        \/ \E f \in Files : Room(1) /\ list = <<>> /\ list' = Untried(<<f>>)
    BY <1>4 DEF FilesCard, OpenDialog, RemoveOne, ClearList, PickRecent
  <2>3. Chosen'
    <3>1. picking' \in {picking, TRUE} /\ summary' \in {summary, "none"}
      BY <1>4 DEF FilesCard, OpenDialog, RemoveOne, ClearList, PickRecent
    <3> QED BY <2>1, <3>1 DEF TypeInv, Chosen
  <2>4. list' \in Seq(Entry) /\ RoomLeft'
    <3>1. CASE list' = list
      BY <1>t, <2>1, <3>1 DEF TypeInv, RoomLeft
    <3>2. CASE list' = <<>>
      BY <1>t, <1>0, <1>e, <2>1, <3>2 DEF RoomLeft
    <3>3. ASSUME NEW i \in DOMAIN list, list' = RemoveAt(list, i) PROVE <2>4
      <4>1. list' \in Seq(Entry)
        BY <3>3, Removing DEF TypeInv
      <4>2. Len(list') = Len(list) - 1
        BY <1>t, <3>3, Removing DEF TypeInv
      <4> QED BY <1>t, <1>0, <2>1, <4>1, <4>2 DEF RoomLeft
    <3>4. ASSUME NEW f \in Files, Room(1), list = <<>>, list' = Untried(<<f>>) PROVE <2>4
      <4>1. list' \in Seq(Entry) /\ Len(list') = 1 /\ Len(list) = 0
        BY <1>e, <3>4, Fresh, OneMore
      <4>2. Len(list') + Len(pending) <= MaxEntries
        <5>1. Len(list) + Len(pending) + 1 <= MaxEntries
          BY <3>4 DEF Room
        <5> QED BY <1>t, <4>1, <5>1
      <4> QED BY <2>1, <4>1, <4>2 DEF RoomLeft
    <3> QED BY <2>2, <3>1, <3>2, <3>3, <3>4
  <2> QED BY <1>t, <2>1, <2>3, <2>4, SameJob
<1>5. CASE ToggleAutoClear
  <2>1. /\ UNCHANGED <<platform, saved, logged, cleared, disk, job, list, pending, keys, staged, picking, summary>>
        /\ settings' = [settings EXCEPT !.autoClear = ~settings.autoClear]
    BY <1>5 DEF ToggleAutoClear, effects
  <2>2. settings' \in [autoClear : BOOLEAN, protect : BOOLEAN]
    BY <1>t, <2>1
  <2>3. Chosen' /\ RoomLeft'
    BY <2>1 DEF TypeInv, Chosen, RoomLeft
  <2> QED BY <1>t, <2>1, <2>2, <2>3, SameJob
<1>6. CASE ClearAllInputs
  <2>1. /\ UNCHANGED <<platform, settings, saved, logged, cleared, disk, job, staged, picking, summary>>
        /\ list' = <<>> /\ pending' = <<>> /\ keys' = {}
    BY <1>6 DEF ClearAllInputs, effects
  <2>2. Chosen'
    BY <2>1 DEF TypeInv, Chosen
  <2>3. RoomLeft'
    BY <1>t, <1>e, <2>1 DEF RoomLeft
  <2> QED BY <1>t, <1>e, <2>1, <2>2, <2>3, SameJob
<1> QED BY <1>1, <1>2, <1>3, <1>4, <1>5, <1>6 DEF Fill, Clear

LEMMA StartTypes == ASSUME TypeInv, StartDesktop \/ RunEncryptWeb PROVE TypeInv'
<1>1. /\ UNCHANGED <<tab, platform, form, effects, cleared>> /\ list # <<>> /\ job' = NewJob
      /\ summary' \in {"none", summary}
  BY DEF StartDesktop, RunEncryptWeb
<1>2. FormTyped' /\ RoomLeft' /\ Chosen' /\ Effected'
  BY <1>1 DEF TypeInv, FormTyped, RoomLeft, Chosen, Effected, form, effects
<1>3. list \in Seq(Entry) /\ Len(list) \in Nat \ {0} /\ DOMAIN list = 1 .. Len(list)
  BY <1>1, EmptySeq, LenProperties DEF TypeInv, FormTyped
<1>4. PICK files : files = [i \in 1 .. Len(list) |-> list[i].file]
  OBVIOUS
<1>5. files \in Seq(Files) /\ DOMAIN files = 1 .. Len(list)
  <2>1. ASSUME NEW i \in 1 .. Len(list) PROVE list[i].file \in Files
    <3>1. list[i] \in Entry
      BY <1>3
    <3> QED BY <3>1 DEF Entry
  <2>2. files \in [1 .. Len(list) -> Files]
    BY <1>4, <2>1
  <2> QED BY <1>3, <1>4, <2>2
<1>6. /\ job'.files = files /\ job'.results = <<>> /\ job'.at = 1
      /\ job' = [f \in Fields |-> job'[f]]
  BY <1>1, <1>3, <1>4 DEF NewJob, Fields
<1>7. JobTyped'
  BY <1>3, <1>5, <1>6, EmptySeq DEF JobTyped
<1> QED BY <1>2, <1>7 DEF TypeInv

\* One file of a batch leaves the disk and the records typed.
LEMMA EntryTyped ==
  ASSUME TypeInv, NEW f \in Files, NEW protect, NEW status, EntryDone(f, protect, status)
  PROVE  /\ disk' \in [Paths -> Files \cup {None}]
         /\ saved' \subseteq Files /\ logged' \subseteq Files
<1>1. OutPath[f] \in Paths
  BY DEF Paths
<1>2. disk' = disk \/ disk' = [disk EXCEPT ![OutPath[f]] = f]
  BY DEF EntryDone, effects
<1>3. saved' \in {saved, saved \cup {f}} /\ logged' \in {logged, logged \cup {f}}
  BY DEF EntryDone, effects
<1> QED BY <1>1, <1>2, <1>3 DEF TypeInv, FormTyped, Effected

LEMMA WorkerTypes == ASSUME TypeInv, Worker PROVE TypeInv'
<1>1. /\ UNCHANGED <<platform, form, summary, cleared>> /\ Started /\ ~Web
      /\ job = [f \in Fields |-> job[f]] /\ job.files \in Seq(Files)
      /\ job.results \in Seq(Nat \X {"ok", "err"})
  BY DEF Worker, WorkerRefuses, WorkerFile, WorkerFinishes, TypeInv, JobTyped
<1>2. DOMAIN job.files = 1 .. Len(job.files) /\ Len(job.files) \in Nat
  BY <1>1, LenProperties
<1>3. /\ disk' \in [Paths -> Files \cup {None}] /\ saved' \subseteq Files /\ logged' \subseteq Files
  <2>1. CASE UNCHANGED effects
    BY <2>1 DEF effects, TypeInv, FormTyped, Effected
  <2>2. CASE WorkerFile
    <3>1. PICK status : EntryDone(job.files[job.at], job.protect, status)
      BY <2>2 DEF WorkerFile
    <3>0. job.at \in DOMAIN job.files
      BY <2>2 DEF WorkerFile
    <3>2. PICK f \in Files : f = job.files[job.at]
      BY <1>1, <3>0, OneOf
    <3>3. EntryDone(f, job.protect, status)
      BY <3>1, <3>2
    <3> QED BY <3>3, EntryTyped
  <2> QED BY <2>1, <2>2 DEF Worker, WorkerRefuses, WorkerFinishes
<1>4. \E results \in Seq(Nat \X {"ok", "err"}) : \E at, finished :
         job' = [job EXCEPT !.results = results, !.at = at, !.finished = finished]
  <2>1. CASE WorkerRefuses
    <3>1. PICK results : results = [i \in 1 .. Len(job.files) |-> <<i, "err">>]
      OBVIOUS
    <3>2. job' = [job EXCEPT !.results = results, !.at = Len(job.files) + 2, !.finished = TRUE]
      BY <1>2, <2>1, <3>1 DEF WorkerRefuses
    <3>3. results \in Seq(Nat \X {"ok", "err"})
      BY <1>2, <3>1
    <3> QED BY <3>2, <3>3
  <2>2. CASE WorkerFile
    <3>1. PICK status \in {"ok", "err"} :
            job' = [job EXCEPT !.results = Append(job.results, <<job.at, status>>), !.at = job.at + 1]
      BY <2>2 DEF WorkerFile
    <3>2. PICK r : r = <<job.at, status>>
      OBVIOUS
    <3>3. r \in Nat \X {"ok", "err"}
      BY <1>2, <2>2, <3>2 DEF WorkerFile
    <3>4. PICK results : results = Append(job.results, r)
      OBVIOUS
    <3>5. results \in Seq(Nat \X {"ok", "err"})
      BY <1>1, <3>3, <3>4, AppendProperties
    <3>6. job' = [job EXCEPT !.results = results, !.at = job.at + 1]
      BY <3>1, <3>2, <3>4
    <3>7. job' = [job EXCEPT !.results = results, !.at = job.at + 1, !.finished = job.finished]
      BY <1>1, <3>6 DEF Fields
    <3> QED BY <3>5, <3>7
  <2>3. CASE WorkerFinishes
    <3>1. job' = [job EXCEPT !.finished = TRUE]
      BY <2>3 DEF WorkerFinishes
    <3>2. job' = [job EXCEPT !.results = job.results, !.at = job.at, !.finished = TRUE]
      BY <1>1, <3>1 DEF Fields
    <3> QED BY <1>1, <3>2
  <2> QED BY <2>1, <2>2, <2>3 DEF Worker
<1>5. JobTyped'
  <2>1. PICK results \in Seq(Nat \X {"ok", "err"}) : \E at, finished :
          job' = [job EXCEPT !.results = results, !.at = at, !.finished = finished]
    BY <1>4
  <2>0. PICK at, finished :
          job' = [job EXCEPT !.results = results, !.at = at, !.finished = finished]
    BY <2>1
  <2>2. PICK j, n : j = job /\ n = job'
    OBVIOUS
  <2>3. j = [f \in Fields |-> j[f]]
    BY <1>1, <2>2
  <2>4. n = [j EXCEPT !.results = results, !.at = at, !.finished = finished]
    BY <2>0, <2>2
  <2>5. n.files = j.files /\ n.results = results /\ n = [f \in Fields |-> n[f]]
    BY <2>3, <2>4 DEF Fields
  <2> QED BY <1>1, <2>2, <2>5 DEF JobTyped, Web
<1> QED BY <1>1, <1>3, <1>5 DEF TypeInv, FormTyped, RoomLeft, Chosen, Effected, form

LEMMA PollTypes == ASSUME TypeInv, PollFiles PROVE TypeInv'
<1>1. /\ UNCHANGED <<tab, platform, settings, picking, saved, logged, disk>>
      /\ pending' = <<>> /\ staged' = None
  BY DEF PollFiles, effects
<1>t. /\ list \in Seq(Entry) /\ pending \in Seq(Entry) /\ Len(list) \in Nat /\ Len(pending) \in Nat
      /\ MaxEntries \in Nat /\ Len(list) + Len(pending) <= MaxEntries
  BY LenProperties, BoundsAssumption DEF TypeInv, FormTyped, RoomLeft
<1>2. PICK all \in Seq(Entry) : all = list \o pending /\ Len(all) = Len(list) + Len(pending)
  BY <1>t, ConcatProperties
<1>3. PICK new : new = ApplyJobResults(job.results, all)
  OBVIOUS
<1>4. Started => new \in Seq(Entry) /\ Len(new) = Len(all)
  <2>1. Started => job.results \in Seq(Nat \X {"ok", "err"})
    BY DEF TypeInv, JobTyped
  <2> QED BY <1>3, <2>1, AppliedTyped
<1>5. CASE ~(Started /\ ~Web)
  <2>1. list' = all /\ keys' = PromoteStaged /\ UNCHANGED <<job, summary, cleared>>
    BY <1>2, <1>5 DEF PollFiles
  <2>2. Chosen'
    BY <1>1, <2>1, PromotedTyped DEF TypeInv, Chosen
  <2>3. RoomLeft'
    BY <1>1, <1>2, <1>t, <2>1, EmptySeq DEF RoomLeft
  <2> QED BY <1>1, <1>2, <2>1, <2>2, <2>3, EmptySeq, SameJob DEF TypeInv, FormTyped
<1>6. CASE Started /\ ~Web
  <2>1. DrainJobResults(all)
    BY <1>2, <1>6 DEF PollFiles
  <2>2. /\ list' \in {<<>>, new} /\ keys' \in {{}, PromoteStaged}
        /\ summary' \in {summary, "none", "ok", "err"}
        /\ cleared' \in {cleared, cleared \cup FilesIn(new)}
        /\ job' \in {None, [job EXCEPT !.results = <<>>]}
    BY <1>3, <2>1 DEF DrainJobResults, JobOver
  <2>3. list' \in Seq(Entry) /\ Len(list') <= Len(all) /\ Len(list') \in Nat
    <3>1. CASE list' = <<>>
      BY <1>2, <1>t, <3>1, EmptySeq
    <3>2. CASE list' = new
      BY <1>2, <1>4, <1>6, <1>t, <3>2
    <3> QED BY <2>2, <3>1, <3>2
  <2>4. RoomLeft'
    BY <1>1, <1>2, <1>t, <2>3, EmptySeq DEF RoomLeft
  <2>5. Chosen' /\ Effected'
    <3>1. cleared' \subseteq Files
      BY <1>4, <1>6, <2>2, Listed DEF TypeInv, Effected
    <3> QED BY <1>1, <2>2, <3>1, PromotedTyped DEF TypeInv, Chosen, Effected
  <2>6. JobTyped'
    <3>1. CASE job' = None
      BY <3>1 DEF JobTyped, Started
    <3>2. CASE job' = [job EXCEPT !.results = <<>>]
      <4>1. job = [f \in Fields |-> job[f]] /\ job.files \in Seq(Files)
        BY <1>6 DEF TypeInv, JobTyped
      <4>2. /\ job'.files = job.files /\ job'.results = <<>> /\ job' = [f \in Fields |-> job'[f]]
        BY <3>2, <4>1 DEF Fields
      <4> QED BY <1>1, <1>6, <4>1, <4>2, EmptySeq DEF JobTyped, Web
    <3> QED BY <2>2, <3>1, <3>2
  <2> QED BY <1>1, <2>3, <2>4, <2>5, <2>6, EmptySeq DEF TypeInv, FormTyped
<1> QED BY <1>5, <1>6

LEMMA WebTypes == ASSUME TypeInv, TickEncryptWeb \/ RunDecryptWeb PROVE TypeInv'
<1>1. /\ UNCHANGED <<platform, settings, staged, picking, pending>>
      /\ list \in Seq(Entry) /\ pending \in Seq(Entry) /\ Len(list) \in Nat /\ Len(pending) \in Nat
      /\ MaxEntries \in Nat /\ Len(list) + Len(pending) <= MaxEntries
      /\ DOMAIN list = 1 .. Len(list)
  BY LenProperties, BoundsAssumption DEF TickEncryptWeb, RunDecryptWeb, TypeInv, FormTyped, RoomLeft
<1>2. ASSUME NEW new \in Seq(Entry), Len(new) = Len(list), list' \in {<<>>, new},
             keys' \in {{}, keys}, summary' \in {summary, "none"},
             cleared' \in {cleared, cleared \cup FilesIn(new)}
      PROVE  list' \in Seq(Entry) /\ RoomLeft' /\ Chosen' /\ cleared' \subseteq Files
  <2>1. list' \in Seq(Entry) /\ Len(list') <= Len(list) /\ Len(list') \in Nat
    <3>1. CASE list' = <<>>
      BY <1>1, <3>1, EmptySeq
    <3>2. CASE list' = new
      BY <1>1, <1>2, <3>2
    <3> QED BY <1>2, <3>1, <3>2
  <2>2. RoomLeft'
    BY <1>1, <2>1 DEF RoomLeft
  <2>3. cleared' \subseteq Files
    BY <1>2, Listed DEF TypeInv, Effected
  <2> QED BY <1>1, <1>2, <2>1, <2>2, <2>3 DEF TypeInv, Chosen
<1>3. CASE TickEncryptWeb
  <2>0. /\ Started /\ Web /\ job = [f \in Fields |-> job[f]] /\ job.files \in Seq(Files)
        /\ job.results \in Seq(Nat \X {"ok", "err"})
        /\ job.at \in DOMAIN job.files /\ UNCHANGED summary
    BY <1>3 DEF TickEncryptWeb, TypeInv, JobTyped
  <2>n. DOMAIN job.files = 1 .. Len(job.files) /\ Len(job.files) \in Nat /\ job.at \in Nat
    BY <2>0, LenProperties
  <2>s. PICK status \in {"ok", "err"} :
          LET files == ApplyJobResults(<<<<job.at, status>>>>, list) IN
          /\ EntryDone(job.files[job.at], FALSE, status)
          /\ job' = IF job.at = Len(job.files) THEN None ELSE [job EXCEPT !.at = job.at + 1]
          /\ list' \in {<<>>, files} /\ keys' \in {{}, keys}
          /\ cleared' \in {cleared, cleared \cup FilesIn(files)}
    BY <1>3 DEF TickEncryptWeb
  <2>r. PICK new : new = ApplyJobResults(<<<<job.at, status>>>>, list)
    OBVIOUS
  <2>1. /\ EntryDone(job.files[job.at], FALSE, status)
        /\ job' = IF job.at = Len(job.files) THEN None ELSE [job EXCEPT !.at = job.at + 1]
        /\ list' \in {<<>>, new} /\ keys' \in {{}, keys}
        /\ cleared' \in {cleared, cleared \cup FilesIn(new)}
    BY <2>s, <2>r
  <2>2. new \in Seq(Entry) /\ Len(new) = Len(list)
    BY <1>1, <2>r, <2>n, OneTyped, AppliedTyped
  <2>3. list' \in Seq(Entry) /\ RoomLeft' /\ Chosen' /\ cleared' \subseteq Files
    BY <1>2, <2>0, <2>1, <2>2
  <2>4. /\ disk' \in [Paths -> Files \cup {None}] /\ saved' \subseteq Files /\ logged' \subseteq Files
    <3>1. PICK f \in Files : f = job.files[job.at]
      BY <2>0, OneOf
    <3>2. EntryDone(f, FALSE, status)
      BY <2>1, <3>1
    <3> QED BY <3>2, EntryTyped
  <2>5. JobTyped'
    <3>1. CASE job' = None
      BY <3>1 DEF JobTyped, Started
    <3>2. CASE job' = [job EXCEPT !.at = job.at + 1] /\ job.at # Len(job.files)
      <4>1. /\ job'.files = job.files /\ job'.results = job.results
            /\ job'.at = job.at + 1 /\ job' = [k \in Fields |-> job'[k]]
        BY <2>0, <3>2 DEF Fields
      <4>2. job'.at \in DOMAIN job'.files
        BY <2>0, <2>n, <3>2, <4>1
      <4> QED BY <2>0, <4>1, <4>2 DEF JobTyped
    <3> QED BY <2>1, <3>1, <3>2
  <2> QED BY <1>1, <2>3, <2>4, <2>5 DEF TypeInv, FormTyped, Effected
<1>4. CASE RunDecryptWeb
  <2>1. PICK status, new :
          /\ status \in [DOMAIN list -> {"ok", "err"}]
          /\ new = [i \in DOMAIN list |-> [list[i] EXCEPT !.status = status[i]]]
          /\ saved' = saved \cup With(new, "ok")
          /\ list' \in {<<>>, new} /\ keys' \in {{}, keys}
          /\ cleared' \in {cleared, cleared \cup FilesIn(new)}
    BY <1>4 DEF RunDecryptWeb
  <2>2. summary' = "none" /\ UNCHANGED <<job, disk, logged>>
    BY <1>4 DEF RunDecryptWeb
  <2>3. ASSUME NEW i \in 1 .. Len(list) PROVE new[i] \in Entry
    <3>1. list[i] \in Entry /\ status[i] \in {"ok", "err"}
          /\ new[i] = [list[i] EXCEPT !.status = status[i]]
      BY <1>1, <2>1
    <3> QED BY <3>1 DEF Entry
  <2>4. new \in Seq(Entry) /\ Len(new) = Len(list)
    <3>1. new \in Seq(Entry) /\ DOMAIN new = DOMAIN list
      BY <1>1, <2>1, <2>3
    <3>2. DOMAIN new = 1 .. Len(new) /\ Len(new) \in Nat
      BY <3>1, LenProperties
    <3> QED BY <1>1, <3>1, <3>2
  <2>5. list' \in Seq(Entry) /\ RoomLeft' /\ Chosen' /\ cleared' \subseteq Files
    BY <1>2, <2>1, <2>2, <2>4
  <2>6. Effected'
    BY <2>1, <2>2, <2>4, <2>5, Listed DEF TypeInv, Effected
  <2> QED BY <1>1, <2>2, <2>5, <2>6 DEF TypeInv, FormTyped, JobTyped, Started, Web
<1> QED BY <1>3, <1>4

\* Every variable keeps its type, and the list its bound: a file on its way from
\* a dialog has its place counted, so that the frame that takes it in never
\* overfills the list.  Clearing the form under a running job changes nothing
\* of this.
THEOREM FormTypeCorrect == Spec => []TypeOK
<1>1. Init => TypeInv
  BY InitTypes
<1>2. ASSUME TypeInv, [Next]_vars PROVE TypeInv'
  <2>1. CASE UNCHANGED vars
    <3>1. UNCHANGED <<platform, settings, list, pending, keys, staged, picking, summary, job, disk, saved, logged, cleared>>
      BY <2>1 DEF vars, form, effects
    <3>2. RoomLeft' /\ Chosen'
      BY <1>2, <3>1 DEF TypeInv, RoomLeft, Chosen
    <3>3. /\ list' \in Seq(Entry) /\ pending' \in Seq(Entry)
          /\ settings' \in [autoClear : BOOLEAN, protect : BOOLEAN]
      BY <1>2, <3>1 DEF TypeInv, FormTyped
    <3> QED BY <1>2, <3>1, <3>2, <3>3, SameJob
  <2>2. CASE Fill \/ Clear \/ Rejected \/ PollCertificate
    BY <1>2, <2>2, FillTypes
  <2>3. CASE PollFiles
    BY <1>2, <2>3, PollTypes
  <2>4. CASE TickEncryptWeb \/ RunDecryptWeb
    BY <1>2, <2>4, WebTypes
  <2>5. CASE StartDesktop \/ RunEncryptWeb
    BY <1>2, <2>5, StartTypes
  <2>6. CASE Worker
    BY <1>2, <2>6, WorkerTypes
  <2> QED BY <1>2, <2>1, <2>2, <2>3, <2>4, <2>5, <2>6 DEF Next, Frame
<1>3. TypeInv => TypeOK
  <2>1. ASSUME TypeInv PROVE job = None \/ job.files \in Seq(Files)
    BY <2>1 DEF TypeInv, JobTyped, Started
  <2>2. ASSUME TypeInv PROVE Len(list) <= MaxEntries
    BY <2>2, LenProperties, BoundsAssumption DEF TypeInv, FormTyped, RoomLeft
  <2> QED BY <2>1, <2>2 DEF TypeInv, FormTyped, Chosen, Effected, TypeOK
<1> QED BY <1>1, <1>2, <1>3, PTL DEF Spec
=============================================================================
