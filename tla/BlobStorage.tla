----------------------------- MODULE BlobStorage -----------------------------
(***************************************************************************)
(* LocalBlobStorage on its POSIX anchor (infrastructure/blob_storage.py).  *)
(* A blob is a pair of directory entries, the content and its metadata     *)
(* sidecar, and every step that touches the directory is an action: the    *)
(* processes of several commands share the directory, any step may fail,   *)
(* and a process may die between any two of them.                          *)
(*                                                                         *)
(* An inode is identified by the put that created it and the part it       *)
(* holds.  Bytes are a model value with a size; the checksum of bytes is   *)
(* the bytes themselves.  The eight attempts at a fresh quarantine name    *)
(* and the probe of the rename call at start-up have no state here.        *)
(***************************************************************************)
EXTENDS Integers, Sequences, FiniteSets, TLC, SequencesExt

CONSTANTS
    Sessions,       \* processes, one command at a time
    Keys,           \* what the key factory may return
    MaxPuts,        \* bound on the blobs ever written
    MaxFaults,      \* bound on failing file operations, statements and crashes
    MaxBlobBytes    \* the configured size limit

ASSUME BlobAssumption == MaxPuts \in Nat /\ MaxFaults \in Nat /\ MaxBlobBytes \in Nat \ {0}

VARIABLES
    root,           \* entries of the root directory
    quarantine,     \* entries of the private quarantine directory
    written,        \* the puts so far: key and data of each
    io,             \* the file operation each session is in
    faults          \* failures so far

blobVars == <<root, quarantine, written, io, faults>>

Parts == <<"content", "sidecar">>

\* The names the anchor accepts: a key, its sidecar, or a temporary of a put.
LocalName(key, part) == [key |-> key, part |-> part]
TemporaryName(put, part) == [put |-> put, part |-> part]

NoError == ""

IdleIo == [op |-> "idle", step |-> "none", key |-> "none", put |-> 0, n |-> 1,
           temps |-> <<>>, published |-> <<>>, held |-> <<>>, moved |-> <<>>, error |-> NoError]

\* The entry of a put, under its key or as a temporary.
LocalEntry(put, key, part) ==
    [name |-> LocalName(key, part), inode |-> [put |-> put, part |-> part]]
TemporaryEntry(put, part) ==
    [name |-> TemporaryName(put, part), inode |-> [put |-> put, part |-> part]]

ValidEntry(e, puts) ==
    \E put \in 1..Len(puts), part \in {"content", "sidecar"} :
        e \in {LocalEntry(put, puts[put].key, part), TemporaryEntry(put, part)}

\* A blob that can be read: both entries are there and are of one put.
WholeBlob(entries, puts, put, key, bytes) ==
    /\ put \in 1..Len(puts) /\ puts[put].key = key
    /\ puts[put].data.bytes = bytes /\ puts[put].data.size \in 0..MaxBlobBytes
    /\ \A part \in {"content", "sidecar"} : LocalEntry(put, key, part) \in entries

ValidDirectory(entries, puts) ==
    /\ puts \in Seq(ToSet(puts))
    /\ \A e \in entries : ValidEntry(e, puts)
    /\ \A e, f \in entries : e.name = f.name => e = f

BlobTypeOK ==
    /\ ValidDirectory(root, written)
    /\ \A e \in quarantine : ValidEntry(e, written)
    /\ Len(written) <= MaxPuts
    /\ faults \in 0..MaxFaults
    /\ \A s \in Sessions : io[s].op \in {"idle", "put", "delete", "done"}

\* The directory as earlier commands left it.
BlobInit(entries, puts) ==
    /\ root = entries /\ quarantine = {}
    /\ written = puts
    /\ io = [s \in Sessions |-> IdleIo]
    /\ faults = 0

Fault == faults < MaxFaults /\ faults' = faults + 1
NoFault == UNCHANGED faults

\* Validation before anything is written.
ValidData(data) == data.size <= MaxBlobBytes
ValidContentType(data) == data.type # "blank"
ValidPut(data) == ValidData(data) /\ ValidContentType(data)

Named(name) == {e \in root : e.name = name}
Done(s, error) == [IdleIo EXCEPT !.op = "done", !.key = io[s].key, !.put = io[s].put, !.error = error]

(***************************************************************************)
(* Reading.                                                                *)
(***************************************************************************)
PairExists(key) == [i \in 1..2 |-> Named(LocalName(key, Parts[i])) # {}]

\* exists: both entries, none, or the entry is incomplete.
Exists(key) ==
    LET pair == PairExists(key)
    IN  IF pair[1] /\ pair[2] THEN "present"
        ELSE IF ~pair[1] /\ ~pair[2] THEN "absent" ELSE "incomplete"

\* The sidecar states the uri, size and checksum of the put that wrote it.
Sidecar(put) == [uri |-> written[put].key, checksum |-> written[put].data.bytes,
                 size |-> written[put].data.size, type |-> written[put].data.type]

InodeUnder(key, part) == (CHOOSE e \in Named(LocalName(key, part)) : TRUE).inode

Unread(error) == [error |-> error, bytes |-> ""]

\* _read_verified: the bytes, or why there are none.
ReadVerified(key) ==
    LET data == written[InodeUnder(key, "content").put].data
        meta == Sidecar(InodeUnder(key, "sidecar").put)
    IN  IF Exists(key) = "absent" THEN Unread("not_found")
        ELSE IF Exists(key) = "incomplete" THEN Unread("incomplete")
        ELSE IF meta.uri # key \/ meta.size > MaxBlobBytes
        THEN Unread("metadata_invalid")
        ELSE IF data.size # meta.size \/ data.bytes # meta.checksum
        THEN Unread("integrity")
        ELSE [error |-> NoError, bytes |-> data.bytes]

(***************************************************************************)
(* put: two temporaries, two links, the temporaries removed; whatever was  *)
(* published is rolled back, newest first, when any of it fails.           *)
(***************************************************************************)
BeginPut(s, key, data) ==
    /\ io[s].op = "idle" /\ Len(written) < MaxPuts
    /\ written' = Append(written, [key |-> key, data |-> data])
    /\ io' = [io EXCEPT ![s] = [IdleIo EXCEPT !.op = "put", !.step = "create", !.key = key,
                                              !.put = Len(written) + 1]]
    /\ UNCHANGED <<root, quarantine, faults>>

AtStep(s, op, step) == io[s].op = op /\ io[s].step = step

\* A fault after the file was opened removes it again, or leaves it behind.
CreateTemporary(s) ==
    /\ AtStep(s, "put", "create")
    /\ LET part == Parts[io[s].n]
           entry == TemporaryEntry(io[s].put, part)
       IN  \/ /\ NoFault
              /\ root' = root \cup {entry}
              /\ io' = [io EXCEPT ![s].temps = Append(@, part),
                                  ![s].n = IF io[s].n = 2 THEN 1 ELSE 2,
                                  ![s].step = IF io[s].n = 2 THEN "link" ELSE "create"]
           \/ /\ Fault
              /\ \E left \in {{}, {entry}} : root' = root \cup left
              /\ io' = [io EXCEPT ![s].step = "clean", ![s].error = "failed"]
    /\ UNCHANGED <<quarantine, written>>

\* Mutant: publication by a rename that replaces what is there.
LinkedReplacing(name, inode) ==
    [error |-> NoError, root |-> (root \ Named(name)) \cup {[name |-> name, inode |-> inode]}]

\* os.link refuses a name that exists.
Linked(name, inode) ==
    IF Named(name) # {} THEN [error |-> "exists", root |-> root]
    ELSE [error |-> NoError, root |-> root \cup {[name |-> name, inode |-> inode]}]

PublishLink(s) ==
    /\ AtStep(s, "put", "link")
    /\ LET part == Parts[io[s].n]
           name == LocalName(io[s].key, part)
           link == Linked(name, [put |-> io[s].put, part |-> part])
       IN  \/ /\ NoFault
              /\ root' = link.root
              /\ io' = [io EXCEPT ![s] = [@ EXCEPT
                    !.published = IF link.error = NoError THEN Append(io[s].published, part)
                                  ELSE io[s].published,
                    !.error = link.error,
                    !.n = 2,
                    !.step = IF link.error # NoError \/ io[s].n = 2 THEN "clean" ELSE "link"]]
           \/ /\ Fault
              /\ io' = [io EXCEPT ![s] = [@ EXCEPT !.error = "failed", !.step = "clean"]]
              /\ UNCHANGED root
    /\ UNCHANGED <<quarantine, written>>

(***************************************************************************)
(* Removal of an entry by its expected identity: it is renamed into the    *)
(* quarantine, looked at, put back if it is another file, and unlinked.    *)
(* A failure leaves it in one directory or the other.                      *)
(***************************************************************************)
UnlinkExpected(name, inode) ==
    LET here == Named(name)
        ours == {e \in here : e.inode = inode}
    IN  \/ /\ NoFault
           /\ root' = root \ ours /\ UNCHANGED quarantine
        \/ /\ ours # {} /\ Fault
           /\ \/ UNCHANGED <<root, quarantine>>
              \/ root' = root \ ours /\ quarantine' = quarantine \cup ours

\* TRUE when the removal succeeds: nothing there, or the expected file gone.
Unlinked(name, inode) ==
    /\ faults' = faults
    /\ \A e \in Named(name) : e.inode = inode

DiscardTemporary(s) ==
    /\ AtStep(s, "put", "clean") /\ io[s].temps # <<>>
    /\ LET part == Head(io[s].temps)
           name == TemporaryName(io[s].put, part)
           inode == [put |-> io[s].put, part |-> part]
       IN  /\ UnlinkExpected(name, inode)
           /\ io' = [io EXCEPT ![s].temps = Tail(@),
                               ![s].error = IF Unlinked(name, inode) THEN @ ELSE "cleanup"]
    /\ UNCHANGED written

PutEnds(s) ==
    /\ AtStep(s, "put", "clean") /\ io[s].temps = <<>>
    /\ io' = [io EXCEPT ![s] =
                IF @.error = NoError \/ @.published = <<>> THEN Done(s, @.error)
                ELSE [@ EXCEPT !.step = "rollback"]]
    /\ UNCHANGED <<root, quarantine, written, faults>>

RollBackPublished(s) ==
    /\ AtStep(s, "put", "rollback")
    /\ LET part == Last(io[s].published)
           name == LocalName(io[s].key, part)
           inode == [put |-> io[s].put, part |-> part]
       IN  /\ UnlinkExpected(name, inode)
           /\ LET error == IF Unlinked(name, inode) THEN io[s].error ELSE "cleanup"
              IN  io' = [io EXCEPT ![s] =
                           IF Len(@.published) = 1 THEN Done(s, error)
                           ELSE [@ EXCEPT !.published = Front(io[s].published), !.error = error]]
    /\ UNCHANGED written

(***************************************************************************)
(* delete: both entries are opened for their identity, both are moved to   *)
(* the quarantine, then both are unlinked; a failure while moving puts     *)
(* back what was moved, a failure while unlinking puts back what is left.  *)
(***************************************************************************)
HeldEntry(key, part) ==
    IF Named(LocalName(key, part)) = {} THEN <<>> ELSE <<CHOOSE e \in Named(LocalName(key, part)) : TRUE>>

BeginDelete(s, key) ==
    LET held == HeldEntry(key, "content") \o HeldEntry(key, "sidecar")
        begun == [IdleIo EXCEPT !.key = key, !.put = io[s].put]
    IN  io' = [io EXCEPT ![s] =
                 IF held = <<>> THEN [begun EXCEPT !.op = "done", !.error = "missing"]
                 ELSE [begun EXCEPT !.op = "delete", !.step = "quarantine", !.held = held]]

QuarantineEntry(s) ==
    /\ AtStep(s, "delete", "quarantine")
    /\ LET entry == io[s].held[io[s].n]
           last == io[s].n = Len(io[s].held)
           moved == IF entry \in root THEN Append(io[s].moved, entry) ELSE io[s].moved
       IN  \/ /\ entry \in root \/ Named(entry.name) = {}
              /\ NoFault
              /\ root' = root \ {entry}
              /\ quarantine' = quarantine \cup (root \cap {entry})
              /\ io' = [io EXCEPT ![s] = [@ EXCEPT !.moved = moved, !.n = io[s].n + 1,
                                                   !.step = IF last THEN "commit" ELSE "quarantine"]]
           \/ /\ \/ entry \in root /\ Fault
                 \/ entry \notin root /\ Named(entry.name) # {} /\ NoFault
              /\ io' = [io EXCEPT ![s] = [@ EXCEPT !.step = "restore", !.error = "cleanup"]]
              /\ UNCHANGED <<root, quarantine>>
    /\ UNCHANGED written

\* Put back, newest first; an entry whose name was taken stays in quarantine.
RestoreQuarantined(s) ==
    /\ AtStep(s, "delete", "restore")
    /\ IF io[s].moved = <<>>
       THEN io' = [io EXCEPT ![s] = Done(s, "cleanup")] /\ UNCHANGED <<root, quarantine>>
       ELSE LET entry == Last(io[s].moved)
                free == Named(entry.name) = {}
            IN  /\ root' = IF free THEN root \cup {entry} ELSE root
                /\ quarantine' = IF free THEN quarantine \ {entry} ELSE quarantine
                /\ io' = [io EXCEPT ![s].moved = Front(@)]
    /\ UNCHANGED <<written, faults>>

CommitQuarantined(s) ==
    /\ AtStep(s, "delete", "commit")
    /\ IF io[s].moved = <<>>
       THEN /\ io' = [io EXCEPT ![s] = Done(s, NoError)]
            /\ UNCHANGED <<quarantine, faults>>
       ELSE \/ /\ NoFault
               /\ quarantine' = quarantine \ {Head(io[s].moved)}
               /\ io' = [io EXCEPT ![s].moved = Tail(@)]
            \/ /\ Fault
               /\ io' = [io EXCEPT ![s] = [@ EXCEPT !.moved = Tail(io[s].moved), !.step = "restore"]]
               /\ UNCHANGED quarantine
    /\ UNCHANGED <<root, written>>

BlobStep(s) ==
    \/ CreateTemporary(s) \/ PublishLink(s) \/ DiscardTemporary(s) \/ PutEnds(s)
    \/ RollBackPublished(s) \/ QuarantineEntry(s) \/ RestoreQuarantined(s) \/ CommitQuarantined(s)
=============================================================================
