------------------------------ MODULE AclMerge ------------------------------
(***************************************************************************)
(* CertificateGenerator.update_acl_whitelist (cert_generator.py 267-296)  *)
(* over the text of conf/acl_wl.conf, across several runs of the program. *)
(* The file is a sequence of characters; an identity is a sequence of     *)
(* characters without newline.  Membership is Python's substring test     *)
(* `identity not in content` (line 284), the appended block is written    *)
(* after the newline check of line 289, and a write that fails or a kill *)
(* of the process leaves any prefix of the block on disk.                 *)
(***************************************************************************)
EXTENDS Integers, Sequences, SequencesExt

CONSTANTS
    NL,           \* the character '\n'
    HeaderText,   \* the characters of "# 自动添加的新客户端身份"
    ClientLists,  \* the sequences of <CommonName> texts a configuration may hold
    InitialAcls,  \* the contents conf/acl_wl.conf may have before the first run
    Absent,       \* no file at conf/acl_wl.conf
    MaxRuns,      \* number of runs of the program
    WriteFaults   \* whether a write of the appended block may fail

VARIABLES
    acl,         \* the file on disk: a character sequence or Absent
    clients,     \* the client identities of the configuration, in order
    pc,          \* "idle" between runs, "check", "append"
    content,     \* the text read at line 277
    newEntries,  \* new_entries
    run,         \* runs started so far
    lastExit,    \* -1 while running, 0 when the stage returned, 1 when it raised
    merged,      \* whether some run has already completed the stage
    origin       \* the file as it was before the first run (history only)

vars == <<acl, clients, pc, content, newEntries, run, lastExit, merged, origin>>

(***************************************************************************)
(* Text helpers.                                                          *)
(***************************************************************************)
\* `identity in content`: identity is a contiguous piece of content.
InText(identity, text) == identity \in SubSeqs(text)

\* content.endswith('\n')
EndsWithNewline(text) == text # <<>> /\ Last(text) = NL

\* The lines of a text: the maximal pieces without a newline.
Lines(text) ==
    LET n == Len(text)
        IsLine(i, j) ==
            /\ j >= i - 1
            /\ i = 1 \/ text[i - 1] = NL
            /\ j = n \/ text[j + 1] = NL
            /\ \A k \in i..j : text[k] # NL
        Bounds == {b \in (1..n + 1) \X (0..n) : IsLine(b[1], b[2])}
    IN  {SubSeq(text, b[1], b[2]) : b \in Bounds}

\* Mutant: each entry is written without its newline.
AppendedBlockNoEntryNewline(text, entries) ==
    (IF EndsWithNewline(text) THEN <<>> ELSE <<NL>>)
      \o HeaderText \o <<NL>> \o FlattenSeq(entries)

\* The characters written by lines 289-293 for a list of new entries.
AppendedBlock(text, entries) ==
    (IF EndsWithNewline(text) THEN <<>> ELSE <<NL>>)
      \o HeaderText \o <<NL>>
      \o FlattenSeq([k \in DOMAIN entries |-> entries[k] \o <<NL>>])

\* Mutant: a client is added when it is not yet the whole file.
NewEntriesWholeFile(text, ids) == SelectSeq(ids, LAMBDA id : id # text)

\* The loop of lines 281-285.
NewEntries(text, ids) == SelectSeq(ids, LAMBDA id : ~InText(id, text))

(***************************************************************************)
(* Actions.                                                               *)
(***************************************************************************)
Init ==
    /\ acl \in InitialAcls
    /\ clients \in ClientLists
    /\ pc = "idle"
    /\ content = <<>>
    /\ newEntries = <<>>
    /\ run = 0
    /\ lastExit = -1
    /\ merged = FALSE
    /\ origin = acl

\* A new process reaches the stage; the file and the configuration stay.
StartRun ==
    /\ pc = "idle"
    /\ run < MaxRuns
    /\ pc' = "check"
    /\ run' = run + 1
    /\ lastExit' = -1
    /\ UNCHANGED <<origin, acl, clients, content, newEntries, merged>>

\* Lines 272-274: no file, a warning, return.
AclMissing ==
    /\ pc = "check"
    /\ acl = Absent
    /\ pc' = "idle"
    /\ lastExit' = 0
    /\ merged' = TRUE
    /\ UNCHANGED <<origin, acl, clients, content, newEntries, run>>

\* Mutant: the `if new_entries:` test of line 287 is dropped.
ReadAclAlwaysAppends ==
    /\ pc = "check"
    /\ acl # Absent
    /\ content' = acl
    /\ newEntries' = NewEntries(acl, clients)
    /\ pc' = "append"
    /\ UNCHANGED <<origin, acl, clients, run, lastExit, merged>>

\* Lines 276-286 and 295-296: read the file, collect the identities not
\* found in it; with none, the stage ends without writing.
ReadAcl ==
    /\ pc = "check"
    /\ acl # Absent
    /\ content' = acl
    /\ newEntries' = NewEntries(acl, clients)
    /\ IF newEntries' = <<>>
       THEN pc' = "idle" /\ lastExit' = 0 /\ merged' = TRUE
       ELSE pc' = "append" /\ UNCHANGED <<lastExit, merged>>
    /\ UNCHANGED <<origin, acl, clients, run>>

\* Lines 287-294: open in append mode and write the block.
AppendEntries ==
    /\ pc = "append"
    /\ acl' = acl \o AppendedBlock(content, newEntries)
    /\ pc' = "idle"
    /\ lastExit' = 0
    /\ merged' = TRUE
    /\ UNCHANGED <<origin, clients, content, newEntries, run>>

\* A write of lines 290-293 raises (disk full) or the process is killed:
\* what was flushed, a strict prefix of the block, stays; the run exits 1.
AppendEntriesFails ==
    /\ pc = "append"
    /\ WriteFaults
    /\ \E k \in 0..Len(AppendedBlock(content, newEntries)) - 1 :
           acl' = acl \o SubSeq(AppendedBlock(content, newEntries), 1, k)
    /\ pc' = "idle"
    /\ lastExit' = 1
    /\ UNCHANGED <<origin, clients, content, newEntries, run, merged>>

\* After the last run nothing more happens.
Terminating ==
    /\ pc = "idle"
    /\ run = MaxRuns
    /\ UNCHANGED vars

Next ==
    \/ StartRun
    \/ AclMissing
    \/ ReadAcl
    \/ AppendEntries
    \/ AppendEntriesFails
    \/ Terminating

Spec == Init /\ [][Next]_vars

(***************************************************************************)
(* Properties                                                             *)
(***************************************************************************)
TypeOK ==
    /\ acl = Absent \/ acl \in Seq(STRING)
    /\ pc \in {"idle", "check", "append"}
    /\ content \in Seq(STRING)
    /\ newEntries \in Seq(Seq(STRING))
    /\ run \in 0..MaxRuns
    /\ lastExit \in {-1, 0, 1}
    /\ merged \in BOOLEAN
    /\ pc = "append" => newEntries # <<>>

(* After the stage returns normally, every configured client identity is *)
(* a line of the access list (spec section 8: "an access-list entry      *)
(* after merge").  Runs that failed in the middle of the append of lines  *)
(* 288-293 come before; the membership test of line 284 must not take a  *)
(* fragment they left for an entry.                                       *)
AclListsClients ==
    (pc = "idle" /\ lastExit = 0 /\ acl # Absent)
        => \A k \in DOMAIN clients : clients[k] \in Lines(acl)

(* Once one run has completed the merge, no later run changes a byte of  *)
(* the file (spec section 8: the merge is idempotent), whatever the      *)
(* trailing newline of the file was: line 289 only writes inside the     *)
(* block of line 287.                                                     *)
AclMergeIdempotent ==
    [][merged => acl' = acl]_acl

\* The entry lines of a text: neither empty nor a '#' comment.
EntryLines(text) ==
    {l \in Lines(IF text = Absent THEN <<>> ELSE text) :
        l # <<>> /\ Head(l) # Head(HeaderText)}

(* Whenever the stage has returned normally, the entries of the access   *)
(* list are exactly the entries the file had before the first run and   *)
(* the configured client identities (spec section 8): the substring test *)
(* of line 284 must not skip a client, and an append of lines 288-293    *)
(* cut short must not leave an entry that nobody configured.              *)
AclWhitelistExact ==
    (pc = "idle" /\ lastExit = 0)
        => EntryLines(acl) = EntryLines(origin) \cup ToSet(clients)

=============================================================================
