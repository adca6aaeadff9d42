------------------------------ MODULE AuditLog ------------------------------
(***************************************************************************)
(* The hash-chained audit log: commands that append an entry after an      *)
(* encryption or a decryption, several of them perhaps at once, the        *)
(* <log>.chainhash sidecar that carries the chain's tip from one command   *)
(* to the next, and the auditor who verifies the log.                      *)
(*                                                                         *)
(* An entry's chain hash is its number, drawn when the entry is built; 0   *)
(* is the all-zero hash, which an absent or unreadable sidecar stands for  *)
(* too.  Bytes that are no whole entry (torn) misframe all that follows.   *)
(***************************************************************************)
EXTENDS Integers, Sequences, SequencesExt

CONSTANTS
  Commands,     \* processes that encrypt or decrypt with --audit-log
  MaxEntries,   \* bound: entries built
  MaxFaults     \* bound: kills, power losses and I/O errors

VARIABLES
  log,         \* the log file
  synced,      \* leading entries that survive a power loss
  tip,         \* the sidecar
  tipPast,     \* what the sidecar may hold after a power loss
  pc,          \* where each command is in AuditTarget::append
  prevHash,    \* the tip it read
  entry,       \* the entry it built
  built,       \* entries built so far
  saved,       \* the tip the auditor noted at the last verification
  acked,       \* history: entries whose append returned Ok
  overlapped,  \* history: two appends were in progress at once
  faults

files   == <<log, synced, tip, tipPast>>
command == <<pc, prevHash, entry, built>>
history == <<acked, overlapped>>
vars    == <<files, command, saved, history, faults>>

Torn  == [id |-> 0, prev |-> 0]
NoTip == 0 - 1
-----------------------------------------------------------------------------
(* AuditTarget::append *)

\* The tip, then an entry signed over it and encrypted to the auditor.
ReadTip(c) ==
  /\ pc[c] = "idle" /\ built < MaxEntries
  /\ prevHash' = [prevHash EXCEPT ![c] = tip]
  /\ built' = built + 1
  /\ entry' = [entry EXCEPT ![c] = built + 1]
  /\ pc' = [pc EXCEPT ![c] = "write"]
  /\ overlapped' = (overlapped \/ \E d \in Commands : pc[d] # "idle")
  /\ UNCHANGED <<files, saved, acked, faults>>

WriteEntry(c) ==
  /\ pc[c] = "write"
  /\ log' = Append(log, [id |-> entry[c], prev |-> prevHash[c]])
  /\ pc' = [pc EXCEPT ![c] = "sync"]
  /\ UNCHANGED <<synced, tip, tipPast, prevHash, entry, built, saved, history,
                 faults>>

SyncLog(c) ==
  /\ pc[c] = "sync"
  /\ synced' = Len(log)
  /\ pc' = [pc EXCEPT ![c] = "truncate"]
  /\ UNCHANGED <<log, tip, tipPast, prevHash, entry, built, saved, history,
                 faults>>

\* fs::write empties the sidecar before it fills it, and never fsyncs it.
TruncateTip(c) ==
  /\ pc[c] = "truncate"
  /\ tip' = 0 /\ tipPast' = tipPast \cup {0}
  /\ pc' = [pc EXCEPT ![c] = "tip"]
  /\ UNCHANGED <<log, synced, prevHash, entry, built, saved, history, faults>>

MutWriteTip(c) ==
  /\ pc[c] = "tip"
  /\ tip' = prevHash[c] /\ tipPast' = tipPast \cup {prevHash[c]}
  /\ pc' = [pc EXCEPT ![c] = "idle"]
  /\ acked' = acked \cup {entry[c]}
  /\ UNCHANGED <<log, synced, prevHash, entry, built, saved, overlapped, faults>>

WriteTip(c) ==
  /\ pc[c] = "tip"
  /\ tip' = entry[c] /\ tipPast' = tipPast \cup {entry[c]}
  /\ pc' = [pc EXCEPT ![c] = "idle"]
  /\ acked' = acked \cup {entry[c]}
  /\ UNCHANGED <<log, synced, prevHash, entry, built, saved, overlapped, faults>>

-----------------------------------------------------------------------------
(* Failures. *)

Fault == faults < MaxFaults /\ faults' = faults + 1

\* The command fails or is killed; the write it was in may be partly done.
Stop(c) ==
  /\ Fault
  /\ pc[c] # "idle"
  /\ pc' = [pc EXCEPT ![c] = "idle"]
  /\ \/ UNCHANGED log
     \/ pc[c] = "write" /\ log' = Append(log, Torn)
  /\ UNCHANGED <<synced, tip, tipPast, prevHash, entry, built, saved, history>>

PowerLoss ==
  /\ Fault
  /\ pc' = [c \in Commands |-> "idle"]
  /\ \E keep \in synced .. Len(log) :
       /\ \/ log' = SubSeq(log, 1, keep)
          \/ keep < Len(log) /\ log' = Append(SubSeq(log, 1, keep), Torn)
       /\ synced' = Len(log')
  /\ tip' \in tipPast
  /\ tipPast' = {tip'}
  /\ UNCHANGED <<prevHash, entry, built, saved, history>>

-----------------------------------------------------------------------------
(* verify_log *)

TipOf(l) == IF l = <<>> THEN 0 ELSE l[Len(l)].id

Linked(l, i) == l[i].prev = TipOf(SubSeq(l, 1, i - 1))

Intact(l) == \A i \in 1 .. Len(l) : l[i] # Torn /\ Linked(l, i)

Verifies(l, expected) == Intact(l) /\ expected \in {NoTip, TipOf(l)}

\* audit-verify, which needs a log to open: what it prints as the tip is what
\* the auditor notes.
AuditVerify ==
  /\ log # <<>>
  /\ Verifies(log, NoTip)
  /\ saved' = TipOf(log)
  /\ UNCHANGED <<files, command, history, faults>>

-----------------------------------------------------------------------------
Init ==
  /\ log = <<>> /\ synced = 0
  /\ tip = 0 /\ tipPast = {0}
  /\ pc = [c \in Commands |-> "idle"]
  /\ prevHash = [c \in Commands |-> 0]
  /\ entry = [c \in Commands |-> 0]
  /\ built = 0
  /\ saved = NoTip
  /\ acked = {} /\ overlapped = FALSE
  /\ faults = 0

AppendEvent(c) ==
  ReadTip(c) \/ WriteEntry(c) \/ SyncLog(c) \/ TruncateTip(c) \/ WriteTip(c)

Next ==
  \/ \E c \in Commands : AppendEvent(c) \/ Stop(c)
  \/ PowerLoss
  \/ AuditVerify

Spec == Init /\ [][Next]_vars
-----------------------------------------------------------------------------
(* Properties. *)

Hash == 0 .. MaxEntries

\* Every variable of the audit machinery stays in its type.
TypeOK ==
  /\ log \in Seq([id : Hash, prev : Hash]) /\ synced \in 0 .. Len(log)
  /\ tip \in Hash /\ tipPast \subseteq Hash /\ tip \in tipPast
  /\ pc \in [Commands -> {"idle", "write", "sync", "truncate", "tip"}]
  /\ prevHash \in [Commands -> Hash] /\ entry \in [Commands -> Hash]
  /\ built \in Hash /\ saved \in Hash \cup {NoTip}
  /\ acked \subseteq Hash /\ overlapped \in BOOLEAN
  /\ faults \in 0 .. MaxFaults

\* Commands that take turns and are not interrupted leave a log that
\* verifies, at every moment of an append.
ChainHolds == faults = 0 /\ ~overlapped => Intact(log)

\* An append that returned Ok has put its entry where no power loss and no
\* other command can take it from.
AckedIsKept ==
  \A id \in acked : \E i \in 1 .. synced : log[i].id = id

\* The sidecar never runs ahead of the log: no power loss leaves a tip whose
\* entry is gone, so an entry chained to a lost one is never built.
TipHasEntry ==
  \A t \in tipPast \ {0} : \E i \in 1 .. synced : log[i].id = t

Swapped(l, i, j) == [l EXCEPT ![i] = l[j], ![j] = l[i]]

\* verify_log's scope: in a log that verifies, an entry that has another
\* behind it cannot be removed, nor two entries swapped, without its notice.
DeletionDetected ==
  Intact(log) =>
    \A i \in 1 .. Len(log) - 1 :
      /\ ~Intact(RemoveAt(log, i))
      /\ \A j \in i + 1 .. Len(log) : ~Intact(Swapped(log, i, j))

=============================================================================
