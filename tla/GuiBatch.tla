------------------------------ MODULE GuiBatch ------------------------------
(* The Encrypt and Decrypt tabs of the graphical interface: the list of files, *)
(* the keys, and the batch job over them.  On the desktop a worker thread runs *)
(* the job on a copy of the list and posts results under the index each file   *)
(* had in it; the interface thread applies them once a frame.  In the browser  *)
(* there is no worker: encryption takes one file per frame and decryption runs *)
(* to its end in the handler of the click.                                     *)
(*                                                                             *)
(* The tabs share only the settings, so a behaviour follows one of them.  Files *)
(* are read when they are picked, so a file here is the bytes it had then.     *)
EXTENDS Naturals, Sequences, FiniteSets, SequencesExt

CONSTANTS
    Files,          \* files the user can pick
    OutPath,        \* OutPath[f]: where f's output goes, by name or by directory
    Keys,           \* key files
    None,
    MaxEntries,     \* bound: the longest list
    ClearAnyTime,   \* the user also presses Clear All Inputs while a job runs
    Logging         \* the audit log is configured

ASSUME OutPathAssumption == DOMAIN OutPath = Files
ASSUME BoundsAssumption == MaxEntries \in Nat

VARIABLES
    tab,            \* "encrypt" or "decrypt"
    platform,       \* "desktop" or "web"
    settings,       \* [autoClear, protect]: the two toggles of the Behavior card
    list,           \* encrypt_files or decrypt_files
    keys,           \* encrypt_recipients, or decrypt_privkey as a set of one
    staged,         \* a key picked or dropped and not yet polled
    picking,        \* an open file dialog
    pending,        \* encrypt_batch_pending, decrypt_batch_pending
    job,            \* encrypt_job, decrypt_batch_job, encrypt_wasm_queue
    summary,        \* the batch summary shown: "none", "ok" or "err"
    disk,           \* the file whose output is at each path
    saved,          \* files whose output was written or handed to the browser
    logged,         \* files with an entry in the audit log
    cleared         \* files auto-clear took off the list

form    == <<settings, list, keys, staged, picking, pending>>
effects == <<disk, saved, logged>>
vars    == <<tab, platform, form, job, summary, effects, cleared>>

Paths   == {OutPath[f] : f \in Files}
Entry   == [file : Files, status : {"none", "ok", "err"}]
Started == job # None
Web     == platform = "web"

(***************************************************************************)
(* Filling the form.                                                       *)
(***************************************************************************)
Untried(fs) == [i \in DOMAIN fs |-> [file |-> fs[i], status |-> "none"]]
Unread(f)   == <<[file |-> f, status |-> "err"]>>
Room(n)     == Len(list) + Len(pending) + n <= MaxEntries

\* A file dropped on the window joins the list whatever runs; a key waits to
\* be polled.
DropFile ==
    /\ \E f \in Files : Room(1) /\ list' = list \o Untried(<<f>>)
    /\ UNCHANGED <<tab, platform, settings, keys, staged, picking, pending, job, summary,
                   effects, cleared>>

DropKey ==
    /\ \E k \in Keys : staged' = k
    /\ UNCHANGED <<tab, platform, settings, list, keys, picking, pending, job, summary,
                   effects, cleared>>

\* The dialog runs in a thread of its own and outlives what the form does
\* meanwhile; what it returns waits in the one slot of the tab.
PickFiles ==
    /\ picking
    /\ \E fs \in {<<f>> : f \in Files} \cup {<<>>} :
          /\ Room(Len(fs))
          /\ pending' = IF fs = <<>> THEN pending ELSE Untried(fs)
    /\ picking' = FALSE
    /\ UNCHANGED <<tab, platform, settings, list, keys, staged, job, summary,
                   effects, cleared>>

\* A file that cannot be read is listed with its error.
PickUnreadable ==
    /\ picking /\ ~Web
    /\ \E f \in Files : Room(1) /\ pending' = Unread(f)
    /\ picking' = FALSE
    /\ UNCHANGED <<tab, platform, settings, list, keys, staged, job, summary,
                   effects, cleared>>

OpenDialog == ~picking /\ picking' = TRUE /\ UNCHANGED <<list, summary>>
RemoveOne  == \E i \in DOMAIN list : list' = RemoveAt(list, i) /\ UNCHANGED <<picking, summary>>
ClearList  == /\ list # <<>> /\ list' = <<>> /\ summary' = "none"
              /\ UNCHANGED picking
\* Recent files outlive the session, so any file may be one.
PickRecent == /\ list = <<>>
              /\ \E f \in Files : Room(1) /\ list' = Untried(<<f>>)
              /\ UNCHANGED <<picking, summary>>

\* The buttons of the file list; none of them is there while a job runs.
MutFilesCard ==
    /\ OpenDialog \/ RemoveOne \/ ClearList \/ (~Web /\ PickRecent)
    /\ UNCHANGED <<tab, platform, settings, keys, staged, pending, job, effects, cleared>>
FilesCard ==
    /\ ~Started
    /\ OpenDialog \/ RemoveOne \/ ClearList \/ (~Web /\ PickRecent)
    /\ UNCHANGED <<tab, platform, settings, keys, staged, pending, job, effects, cleared>>

\* The buttons of the recipients' card, also absent while a job runs; the row
\* of the private key is there at all times and replaces it through DropKey.
RecipientsCard ==
    /\ ~Started /\ tab = "encrypt" /\ keys # {}
    /\ \/ \E k \in keys : keys' = keys \ {k} /\ UNCHANGED summary
       \/ keys' = {} /\ summary' = "none"
    /\ UNCHANGED <<tab, platform, settings, list, staged, picking, pending, job,
                   effects, cleared>>

ToggleAutoClear ==
    /\ settings' = [settings EXCEPT !.autoClear = ~@]
    /\ UNCHANGED <<tab, platform, list, keys, staged, picking, pending, job, summary,
                   effects, cleared>>

\* Settings, Clear All Inputs: the job goes on.
ClearAllInputs ==
    /\ ClearAnyTime \/ ~Started
    /\ list' = <<>> /\ keys' = {} /\ pending' = <<>>
    /\ UNCHANGED <<tab, platform, settings, staged, picking, job, summary, effects, cleared>>

(***************************************************************************)
(* Starting a batch.  Passphrase stands for the key when the batch uses     *)
(* one; what the user types may fail the tab's own checks.                 *)
(***************************************************************************)
BuildTarget(mode) == IF mode = "keys" THEN keys # {} ELSE TRUE

NewJob == [files |-> [i \in DOMAIN list |-> list[i].file], at |-> 1, results |-> <<>>,
           protect |-> settings.protect, finished |-> FALSE]

StartDesktop ==
    /\ ~Web /\ ~Started /\ list # <<>>
    /\ \E mode \in {"keys", "passphrase"} : BuildTarget(mode)
    /\ job' = NewJob
    /\ summary' = "none"
    /\ UNCHANGED <<tab, platform, form, effects, cleared>>

\* Passphrases that differ, or a second factor not chosen.
Rejected ==
    /\ ~Started /\ list # <<>>
    /\ summary' = "err"
    /\ UNCHANGED <<tab, platform, form, job, effects, cleared>>

(***************************************************************************)
(* One file of a batch: encrypt or decrypt it, log it, save it.            *)
(***************************************************************************)
SaveResult(f, protect) ==
    IF Web THEN "downloaded"
    ELSE IF protect /\ disk[OutPath[f]] # None THEN "exists" ELSE "written"

\* The entry is logged before the output is saved, and saving may fail.
EntryDone(f, protect, status) ==
    \/ status = "err" /\ UNCHANGED effects
    \/ /\ logged' = IF Logging /\ ~Web THEN logged \cup {f} ELSE logged
       /\ LET how == SaveResult(f, protect) IN
          \/ /\ status = "ok" /\ how # "exists"
             /\ saved' = saved \cup {f}
             /\ disk' = IF how = "written" THEN [disk EXCEPT ![OutPath[f]] = f] ELSE disk
          \/ /\ status = "err" /\ how # "downloaded"      \* it exists, or an I/O error
             /\ UNCHANGED <<saved, disk>>

\* The second factor or the audit log cannot be resolved: every file fails.
MutWorkerRefuses ==
    /\ Started /\ ~Web /\ job.at = 1 /\ ~job.finished
    /\ job' = [job EXCEPT !.results = [i \in DOMAIN job.files |-> <<i, "err">>],
                          !.at = Len(job.files) + 2]
    /\ UNCHANGED <<tab, platform, form, summary, effects, cleared>>
WorkerRefuses ==
    /\ Started /\ ~Web /\ job.at = 1 /\ ~job.finished
    /\ job' = [job EXCEPT !.results = [i \in DOMAIN job.files |-> <<i, "err">>],
                          !.at = Len(job.files) + 2, !.finished = TRUE]
    /\ UNCHANGED <<tab, platform, form, summary, effects, cleared>>

WorkerFile ==
    /\ Started /\ ~Web /\ job.at \in DOMAIN job.files
    /\ \E status \in {"ok", "err"} :
          /\ EntryDone(job.files[job.at], job.protect, status)
          /\ job' = [job EXCEPT !.results = Append(@, <<job.at, status>>), !.at = @ + 1]
    /\ UNCHANGED <<tab, platform, form, summary, cleared>>

WorkerFinishes ==
    /\ Started /\ ~Web /\ job.at = Len(job.files) + 1 /\ ~job.finished
    /\ job' = [job EXCEPT !.finished = TRUE]
    /\ UNCHANGED <<tab, platform, form, summary, effects, cleared>>

Worker == WorkerRefuses \/ WorkerFile \/ WorkerFinishes

(***************************************************************************)
(* The frame: what arrived is taken in, in the order of poll_files.  A slot *)
(* whose lock is taken waits for the next frame.                           *)
(***************************************************************************)
PromoteStaged ==
    IF staged = None THEN keys
    ELSE IF tab = "encrypt" THEN keys \cup {staged} ELSE {staged}

\* A certificate needs the key of its authority and must permit encryption.
AddCertRecipient == /\ staged # None /\ tab = "encrypt"
                    /\ staged' = None /\ UNCHANGED keys

ApplyJobResults(results, files) ==
    [i \in DOMAIN files |->
        LET mine == {r \in Range(results) : r[1] = i} IN
        IF mine = {} THEN files[i]
        ELSE [files[i] EXCEPT !.status = (CHOOSE r \in mine : TRUE)[2]]]

FilesIn(files)      == {files[i].file : i \in DOMAIN files}
With(files, status) == {files[i].file : i \in {k \in DOMAIN files : files[k].status = status}}
AllDone(files)      == \A i \in DOMAIN files : files[i].status = "ok"

\* The job is over: the summary counts the whole list, and auto-clear asks
\* only that something succeeded and nothing failed.
JobOver(files) ==
    LET ok == With(files, "ok")  err == With(files, "err")
        all == settings.autoClear /\ err = {} /\ ok # {}
    IN
    /\ summary' = IF all \/ ok \cup err = {} THEN IF all THEN "none" ELSE summary
                  ELSE IF err = {} THEN "ok" ELSE "err"
    /\ list' = IF all THEN <<>> ELSE files
    /\ keys' = IF all THEN {} ELSE PromoteStaged
    /\ cleared' = IF all THEN cleared \cup FilesIn(files) ELSE cleared
    /\ job' = None

DrainJobResults(files) ==
    LET applied == ApplyJobResults(job.results, files) IN
    IF job.finished THEN JobOver(applied)
    ELSE /\ list' = applied
         /\ keys' = PromoteStaged
         /\ job' = [job EXCEPT !.results = <<>>]
         /\ UNCHANGED <<summary, cleared>>

MutPollFiles ==
    /\ \/ staged # None \/ pending # <<>>
       \/ Started /\ ~Web /\ (job.finished \/ job.results # <<>>)
    /\ staged' = None /\ UNCHANGED pending
    /\ IF Started /\ ~Web THEN DrainJobResults(list \o pending)
       ELSE /\ list' = list \o pending /\ keys' = PromoteStaged
            /\ UNCHANGED <<job, summary, cleared>>
    /\ UNCHANGED <<tab, platform, settings, picking, effects>>
PollFiles ==
    /\ \/ staged # None \/ pending # <<>>
       \/ Started /\ ~Web /\ (job.finished \/ job.results # <<>>)
    /\ staged' = None /\ pending' = <<>>
    /\ IF Started /\ ~Web THEN DrainJobResults(list \o pending)
       ELSE /\ list' = list \o pending /\ keys' = PromoteStaged
            /\ UNCHANGED <<job, summary, cleared>>
    /\ UNCHANGED <<tab, platform, settings, picking, effects>>

PollCertificate ==
    /\ AddCertRecipient
    /\ UNCHANGED <<tab, platform, settings, list, picking, pending, job, summary,
                   effects, cleared>>

(***************************************************************************)
(* The browser.                                                            *)
(***************************************************************************)
RunEncryptWeb ==
    /\ Web /\ tab = "encrypt" /\ ~Started /\ list # <<>>
    /\ \E mode \in {"keys", "passphrase"} : BuildTarget(mode)
    /\ job' = NewJob
    /\ UNCHANGED <<tab, platform, form, summary, effects, cleared>>

MutTickEncryptWeb ==
    /\ Started /\ Web
    /\ \E status \in {"ok", "err"} :
         LET files == ApplyJobResults(<<<<job.at, status>>>>, list)
             last  == job.at = Len(job.files)
             all   == last /\ settings.autoClear /\ With(files, "err") = {}
         IN
         /\ EntryDone(job.files[job.at], FALSE, status)
         /\ job' = IF last THEN None ELSE [job EXCEPT !.at = @ + 1]
         /\ list' = IF all THEN <<>> ELSE files
         /\ keys' = IF all THEN {} ELSE keys
         /\ cleared' = IF all THEN cleared \cup FilesIn(files) ELSE cleared
    /\ UNCHANGED <<tab, platform, settings, staged, picking, pending, summary>>
\* One file per frame; the last one clears the form if every file in the list,
\* those that joined it meanwhile included, has succeeded.
TickEncryptWeb ==
    /\ Started /\ Web
    /\ \E status \in {"ok", "err"} :
         LET files == ApplyJobResults(<<<<job.at, status>>>>, list)
             last  == job.at = Len(job.files)
             all   == last /\ settings.autoClear /\ AllDone(files)
         IN
         /\ EntryDone(job.files[job.at], FALSE, status)
         /\ job' = IF last THEN None ELSE [job EXCEPT !.at = @ + 1]
         /\ list' = IF all THEN <<>> ELSE files
         /\ keys' = IF all THEN {} ELSE keys
         /\ cleared' = IF all THEN cleared \cup FilesIn(files) ELSE cleared
    /\ UNCHANGED <<tab, platform, settings, staged, picking, pending, summary>>

\* The click decrypts the whole list before the next frame.
RunDecryptWeb ==
    /\ Web /\ tab = "decrypt" /\ list # <<>>
    /\ \E mode \in {"keys", "passphrase"} : BuildTarget(mode)
    /\ \E status \in [DOMAIN list -> {"ok", "err"}] :
         LET files == [i \in DOMAIN list |-> [list[i] EXCEPT !.status = status[i]]]
             all   == settings.autoClear /\ AllDone(files)
         IN
         /\ saved' = saved \cup With(files, "ok")
         /\ list' = IF all THEN <<>> ELSE files
         /\ keys' = IF all THEN {} ELSE keys
         /\ cleared' = IF all THEN cleared \cup FilesIn(files) ELSE cleared
    /\ summary' = "none"
    /\ UNCHANGED <<tab, platform, settings, staged, picking, pending, job, disk, logged>>

-----------------------------------------------------------------------------

Init ==
    /\ tab \in {"encrypt", "decrypt"} /\ platform \in {"desktop", "web"}
    /\ settings \in [autoClear : BOOLEAN, protect : BOOLEAN]
    /\ list = <<>> /\ keys = {} /\ staged = None /\ picking = FALSE /\ pending = <<>>
    /\ job = None /\ summary = "none"
    /\ disk = [p \in Paths |-> None]
    /\ saved = {} /\ logged = {} /\ cleared = {}

Fill  == DropFile \/ DropKey \/ PickFiles \/ PickUnreadable \/ FilesCard \/ RecipientsCard
Clear == ToggleAutoClear \/ ClearAllInputs
Frame == PollFiles \/ PollCertificate \/ TickEncryptWeb
Next  == Fill \/ Clear \/ Frame \/ StartDesktop \/ Rejected \/ RunEncryptWeb \/ RunDecryptWeb
         \/ Worker

Spec == Init /\ [][Next]_vars

\* The worker thread runs, and a posted result asks for a frame.
FairSpec == Spec /\ WF_vars(Worker) /\ WF_vars(PollFiles) /\ WF_vars(TickEncryptWeb)

-----------------------------------------------------------------------------

TypeOK ==
    /\ settings \in [autoClear : BOOLEAN, protect : BOOLEAN]
    /\ list \in Seq(Entry) /\ pending \in Seq(Entry) /\ Len(list) <= MaxEntries
    /\ keys \subseteq Keys /\ staged \in Keys \cup {None} /\ picking \in BOOLEAN
    /\ job = None \/ job.files \in Seq(Files)
    /\ summary \in {"none", "ok", "err"}
    /\ disk \in [Paths -> Files \cup {None}]
    /\ saved \cup logged \cup cleared \subseteq Files

\* A file shown as done was really saved, and with existing files protected its
\* output is still the one on disk, whatever else shares its name: the result of
\* another file of the batch never lands on it.
OkMeansSaved ==
    \A i \in DOMAIN list : list[i].status = "ok" =>
        /\ list[i].file \in saved
        /\ settings.protect /\ ~Web => disk[OutPath[list[i].file]] = list[i].file

\* Clear inputs after success takes a file off the form only when that file was
\* saved.
ClearedWereSaved == cleared \subseteq saved

\* In the browser a file dropped while the queue runs keeps the form.
WebClearedWereSaved == Web => ClearedWereSaved

\* A batch ends and gives the form back.
EventuallyIdle == Started ~> ~Started
=============================================================================
