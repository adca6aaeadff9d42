------------------------------- MODULE Archive --------------------------------
(* Archives of several files.  A command measures every source, then reads    *)
(* them one after another into one sealed stream; extraction cuts the stream  *)
(* up again by the sizes measured, and writes the files in place as it goes.  *)
(* The sources may change in between, and the archive may be cut or damaged.  *)
(* The window packs copies of what was picked.                                *)
EXTENDS Integers, Sequences, FiniteSets, SequencesExt

CONSTANTS
    Cli, Gui,       \* command-line processes, and the window
    None, Zero,     \* nothing; what a hole in a file reads as
    Sources,        \* files there are
    Links,          \* those that are links, devices, pipes or sockets
    NameOf(_),      \* the name a source gets in an archive
    Lower(_),       \* the name folded, as a file system that ignores case sees it
    Unsafe,         \* names that leave the directory or are devices
    Blocks,         \* what files are made of
    MaxLen,         \* bound: blocks in a source
    MaxListed,      \* bound: sources in one archive
    MaxEntries,     \* MAX_ARCHIVE_ENTRIES: entries extraction accepts
    MaxArchives,    \* bound: archives begun
    MaxExtracts,    \* bound: extractions begun
    MaxFaults       \* bound: edits, archives damaged, commands that fail or are killed

VARIABLES
    src,            \* the sources
    box,            \* the archive file
    dir,            \* the directory extracted into, by folded name
    picked,         \* the files and the archive the window holds copies of
    job,            \* what each process is doing
    report,         \* history: how the last extraction ended
    made, extracted, faults

vars   == <<src, box, dir, picked, job, report, made, extracted, faults>>
budget == <<made, extracted, faults>>

Procs == Cli \cup Gui
Names == {Lower(NameOf(s)) : s \in Sources}
Idle  == [pc |-> "idle"]
Busy(p)  == job[p] # Idle
Go(p, j) == job' = [job EXCEPT ![p] = j]
Faults == faults < MaxFaults /\ faults' = faults + 1 /\ UNCHANGED <<made, extracted>>
Extracting(p) == job[p].pc = "extract"

Init ==
    /\ src \in [Sources -> {<<b>> : b \in Blocks}]
    /\ box = None
    /\ \E old \in {None} \cup {[i \in 1 .. MaxLen |-> b] : b \in Blocks} : dir = [n \in Names |-> old]
    /\ picked = [files |-> <<>>, box |-> None]
    /\ job = [p \in Procs |-> Idle] /\ report = None
    /\ made = 0 /\ extracted = 0 /\ faults = 0

\* A source grows, shrinks or changes under a command that is packing; when none is,
\* it is as if it had been so from the start.
Edit ==
    /\ Faults
    /\ \E p \in Procs : job[p].pc = "pack"
    /\ \E s \in Sources, b \in Blocks :
          /\ src' = [src EXCEPT ![s] = IF Len(@) < MaxLen THEN Append(@, b) ELSE Tail(@)]
          /\ job' = [p \in Procs |-> IF job[p].pc = "pack" /\ s \in ToSet(job[p].list)
                                     THEN [job[p] EXCEPT !.still = FALSE] ELSE job[p]]
    /\ UNCHANGED <<box, dir, picked, report>>
--------------------------------------------------------------------------------
(***************************************************************************)
(* archive: measure all, then read all.                                    *)
(***************************************************************************)
Lists == UNION {[1 .. n -> Sources] : n \in 1 .. MaxListed}
EntryNames(list) == [i \in DOMAIN list |-> NameOf(list[i])]
Collide(names) == \E i, j \in DOMAIN names : i # j /\ Lower(names[i]) = Lower(names[j])
CollectFiles(list) == ToSet(list) \cap Links = {}

BeginArchive(p) ==
    /\ p \in Cli /\ ~Busy(p) /\ made < MaxArchives /\ made' = made + 1
    /\ \E list \in Lists, force \in BOOLEAN :
          /\ box # None => force
          /\ CollectFiles(list) /\ ~Collide(EntryNames(list))
          /\ Go(p, [pc |-> "pack", list |-> list, entries |-> <<>>, text |-> <<>>,
                    at |-> 1, pos |-> 0, still |-> TRUE])
    /\ UNCHANGED <<src, box, dir, picked, report, extracted, faults>>

Measure(p) ==
    LET j == job[p]  s == j.list[Len(j.entries) + 1] IN
    /\ j.pc = "pack" /\ Len(j.entries) < Len(j.list)
    /\ Go(p, [j EXCEPT !.entries = Append(@, [name |-> NameOf(s), size |-> Len(src[s])])])
    /\ UNCHANGED <<src, box, dir, picked, report, budget>>

Chain(p) == job[p].pc = "pack" /\ Len(job[p].entries) = Len(job[p].list)
Sealing(p) == Chain(p) /\ job[p].at <= Len(job[p].list)

\* Each source is read to its end as it is by then, whatever size was measured.
ReadChain(p) ==
    LET j == job[p]  text == src[j.list[j.at]] IN
    /\ Sealing(p)
    /\ Go(p, IF j.pos < Len(text)
             THEN [j EXCEPT !.text = Append(@, text[j.pos + 1]), !.pos = @ + 1]
             ELSE [j EXCEPT !.at = @ + 1, !.pos = 0])
    /\ UNCHANGED <<src, box, dir, picked, report, budget>>

\* An archive, how much of it authenticates (its manifest being one block), and what
\* its sources held if they held still.
Sealed(entries, text, still, real) ==
    [entries |-> entries, text |-> text, good |-> Len(text) + 1, still |-> still, real |-> real]

CommitArchive(p) ==
    LET j == job[p] IN
    /\ Chain(p) /\ ~Sealing(p)
    /\ box' = Sealed(j.entries, j.text, j.still, [i \in DOMAIN j.list |-> IF j.still THEN src[j.list[i]] ELSE <<>>])
    /\ Go(p, Idle)
    /\ UNCHANGED <<src, dir, picked, report, budget>>
--------------------------------------------------------------------------------
(***************************************************************************)
(* The window packs the copies it holds; nothing compares their names.     *)
(***************************************************************************)
PickFiles(g) ==
    /\ g \in Gui /\ ~Busy(g) /\ Len(picked.files) < MaxListed /\ made < MaxArchives
    /\ \E s \in Sources : picked' = [picked EXCEPT !.files = Append(@, [name |-> NameOf(s), data |-> src[s]])]
    /\ UNCHANGED <<src, box, dir, job, report, budget>>
RemoveFile(g) ==
    /\ g \in Gui /\ ~Busy(g)
    /\ \E i \in DOMAIN picked.files : picked' = [picked EXCEPT !.files = RemoveAt(@, i)]
    /\ UNCHANGED <<src, box, dir, job, report, budget>>

CreateFromMemory(files) ==
    Sealed([i \in DOMAIN files |-> [name |-> files[i].name, size |-> Len(files[i].data)]],
           FlattenSeq([i \in DOMAIN files |-> files[i].data]), TRUE, [i \in DOMAIN files |-> files[i].data])

DoArchiveCreate(g) ==
    /\ g \in Gui /\ ~Busy(g) /\ picked.files # <<>>
    /\ made < MaxArchives /\ made' = made + 1
    /\ box' \in {box, CreateFromMemory(picked.files)} /\ (box' # box \/ box # None)
    /\ UNCHANGED <<src, dir, picked, job, report, extracted, faults>>
--------------------------------------------------------------------------------
(***************************************************************************)
(* extract: the files are created one by one, in place, and filled from    *)
(* what has been authenticated so far.                                     *)
(***************************************************************************)
ReadManifest(b) == b.good > 0 /\ Len(b.entries) <= MaxEntries
SafeDest(name)  == name \notin Unsafe

Begin(p, b) ==  \* the last report is forgotten
    /\ extracted < MaxExtracts /\ extracted' = extracted + 1
    /\ job' = [q \in Procs |->
          IF q = p THEN [pc |-> "extract", box |-> b, at |-> 0, left |-> 0, pos |-> 0,
                         met |-> \E r \in Procs \ {p} : Extracting(r)]
          ELSE IF Extracting(q) THEN [job[q] EXCEPT !.met = TRUE] ELSE job[q]]
    /\ report' = None
    /\ UNCHANGED <<src, box, dir, picked, made, faults>>
BeginExtract(p)   == p \in Cli /\ ~Busy(p) /\ box # None /\ ReadManifest(box) /\ Begin(p, box)
PickArchive(g)    == /\ g \in Gui /\ ~Busy(g) /\ box # None /\ picked' = [picked EXCEPT !.box = box]
                     /\ UNCHANGED <<src, box, dir, job, report, budget>>
DoArchiveExtract(g) ==
    g \in Gui /\ ~Busy(g) /\ picked.box # None /\ ReadManifest(picked.box) /\ Begin(g, picked.box)

End(p, ok, why) ==
    /\ report' = [ok |-> ok, why |-> why, box |-> job[p].box, met |-> job[p].met, files |-> dir]
    /\ Go(p, Idle) /\ UNCHANGED <<src, box, dir, picked>>

EntryDone(p) == Extracting(p) /\ job[p].left = 0
MoreEntries(p) == job[p].at < Len(job[p].box.entries)

MutCreateEntry(p) ==
    LET j == job[p]  e == j.box.entries[j.at + 1] IN
    /\ EntryDone(p) /\ MoreEntries(p) /\ SafeDest(e.name)
    /\ dir' = [dir EXCEPT ![Lower(e.name)] = IF @ = None THEN <<>> ELSE @]
    /\ Go(p, [j EXCEPT !.at = @ + 1, !.left = e.size])
    /\ UNCHANGED <<src, box, picked, report, budget>>
CreateEntry(p) ==
    LET j == job[p]  e == j.box.entries[j.at + 1] IN
    /\ EntryDone(p) /\ MoreEntries(p) /\ SafeDest(e.name)
    /\ dir' = [dir EXCEPT ![Lower(e.name)] = <<>>]
    /\ Go(p, [j EXCEPT !.at = @ + 1, !.left = e.size])
    /\ UNCHANGED <<src, box, picked, report, budget>>
RefuseEntry(p) ==
    /\ EntryDone(p) /\ MoreEntries(p) /\ ~SafeDest(job[p].box.entries[job[p].at + 1].name)
    /\ End(p, FALSE, "unsafe") /\ UNCHANGED budget

\* A write at an offset, over what is there, leaving a hole where nothing is.
Put(f, k, b) == [i \in 1 .. (IF Len(f) < k THEN k ELSE Len(f)) |->
                   IF i = k THEN b ELSE IF i <= Len(f) THEN f[i] ELSE Zero]

Readable(b, pos) == pos < Len(b.text) /\ pos + 1 < b.good
CopyBlock(p) ==
    LET j == job[p]  e == j.box.entries[j.at] IN
    /\ Extracting(p) /\ j.left > 0 /\ Readable(j.box, j.pos)
    /\ dir' = [dir EXCEPT ![Lower(e.name)] = Put(@, e.size - j.left + 1, j.box.text[j.pos + 1])]
    /\ Go(p, [j EXCEPT !.left = @ - 1, !.pos = @ + 1])
    /\ UNCHANGED <<src, box, picked, report, budget>>
RunsOut(p) ==
    /\ Extracting(p) /\ job[p].left > 0 /\ ~Readable(job[p].box, job[p].pos)
    /\ End(p, FALSE, "short") /\ UNCHANGED budget
Extract(p) == EntryDone(p) /\ ~MoreEntries(p) /\ End(p, TRUE, "done") /\ UNCHANGED budget
--------------------------------------------------------------------------------
Damage ==
    /\ box # None /\ Faults
    /\ \E k \in 0 .. box.good - 1 : box' = [box EXCEPT !.good = k]
    /\ UNCHANGED <<src, dir, picked, job, report>>
\* A command that is packing leaves nothing; one that is extracting, what it has written.
Stop(p) ==
    /\ p \in Cli /\ Busy(p) /\ Faults
    /\ \/ Extracting(p) /\ End(p, FALSE, "stopped")
       \/ ~Extracting(p) /\ Go(p, Idle) /\ UNCHANGED <<src, box, dir, picked, report>>

Next ==
    \/ Edit \/ Damage
    \/ \E p \in Procs :
        \/ BeginArchive(p) \/ Measure(p) \/ ReadChain(p) \/ CommitArchive(p)
        \/ PickFiles(p) \/ RemoveFile(p) \/ DoArchiveCreate(p) \/ PickArchive(p)
        \/ BeginExtract(p) \/ DoArchiveExtract(p) \/ CreateEntry(p) \/ RefuseEntry(p)
        \/ CopyBlock(p) \/ RunsOut(p) \/ Extract(p) \/ Stop(p)

Spec == Init /\ [][Next]_vars
--------------------------------------------------------------------------------
Intact(b) == b.good = Len(b.text) + 1
Texts == UNION {[1 .. n -> Blocks \cup {Zero}] : n \in 0 .. MaxLen}

TypeOK ==
    /\ \A s \in Sources : src[s] \in Texts
    /\ \A n \in Names : dir[n] # None => dir[n] \in Texts
    /\ box # None => Len(box.entries) \in 1 .. MaxListed /\ box.good \in 0 .. Len(box.text) + 1
    /\ \A p \in Procs : Extracting(p) =>
          job[p].pos <= Len(job[p].box.text) /\ job[p].at <= Len(job[p].box.entries)
    /\ made \in 0 .. MaxArchives /\ extracted \in 0 .. MaxExtracts
    /\ faults \in 0 .. MaxFaults

\* An extraction that reports success has restored every file just as it was packed,
\* over whatever was there: when the sources held still, no two names fall together
\* and no other extraction wrote to the directory meanwhile.  And an intact archive of
\* sources that held still is cut up without running short.
ExtractedIsArchived ==
    report # None /\ report.box.still =>
        LET names == [i \in DOMAIN report.box.entries |-> report.box.entries[i].name] IN
        /\ report.ok /\ ~report.met /\ ~Collide(names) =>
              \A i \in DOMAIN names : report.files[Lower(names[i])] = report.box.real[i]
        /\ report.why = "short" => ~Intact(report.box)

=============================================================================
