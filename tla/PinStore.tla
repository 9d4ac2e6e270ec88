------------------------------ MODULE PinStore ------------------------------
(***************************************************************************)
(* The file-backed pin store (pin_store_file.c) as the b* tools use it:    *)
(* every run of a tool loads the pin, shakes hands with the bridge, and    *)
(* saves the bridge's key if it had loaded none.  Runs of the same binary  *)
(* share one pin file and one ".new" sidecar.  The file system keeps POSIX *)
(* semantics: a name points to an inode, an open descriptor holds on to    *)
(* its inode across rename and unlink, and O_TRUNC empties it in place.    *)
(*                                                                         *)
(* A run may be killed between any two system calls of file_save.          *)
(***************************************************************************)
EXTENDS Naturals

CONSTANTS
    Procs,       \* runs of the tool that may be active at the same time
    Keys,        \* SEP keys the bridge may present
    NoKey,
    Inodes,      \* inodes the directory has room for
    NoInode,
    V2Files      \* may a newer library have left a version 2 pin file?

ASSUME PinStoreAssumption ==
    /\ NoKey \notin Keys
    /\ NoInode \notin Inodes
    /\ V2Files \in BOOLEAN

VARIABLES
    pc,          \* where each run is
    key,         \* the key each run holds: the loaded pin, then the bridge's key
    fd,          \* inode each run has open for writing
    head,        \* header bytes of each inode: "absent", "v1" or "v2"
    body,        \* key bytes of each inode, NoKey while not written
    live,        \* inode behind <binary_id>.sep-pub
    sidecar      \* inode behind <binary_id>.sep-pub.new

vars == <<pc, key, fd, head, body, live, sidecar>>
fsVars == <<head, body, live, sidecar>>

Steps == {"start", "handshake", "open", "header", "pubkey", "fsync", "rename"}

(* Types of the runs and of the directory.                                 *)
TypeOK ==
    /\ pc \in [Procs -> Steps]
    /\ key \in [Procs -> Keys \cup {NoKey}]
    /\ fd \in [Procs -> Inodes \cup {NoInode}]
    /\ head \in [Inodes -> {"absent", "v1", "v2"}]
    /\ body \in [Inodes -> Keys \cup {NoKey}]
    /\ live \in Inodes \cup {NoInode}
    /\ sidecar \in Inodes \cup {NoInode}

Init ==
    /\ pc = [p \in Procs |-> "start"]
    /\ key = [p \in Procs |-> NoKey]
    /\ fd = [p \in Procs |-> NoInode]
    /\ sidecar = NoInode
    /\ \/ /\ head = [i \in Inodes |-> "absent"]
          /\ body = [i \in Inodes |-> NoKey]
          /\ live = NoInode
       \/ /\ V2Files
          /\ live \in Inodes
          /\ head = [i \in Inodes |-> IF i = live THEN "v2" ELSE "absent"]
          /\ \E k \in Keys : body = [i \in Inodes |-> IF i = live THEN k ELSE NoKey]

-----------------------------------------------------------------------------
\* What file_load makes of the live file: the key of a complete version 1
\* file, and "no pin" for everything else (absent, short, bad magic, version).
file_load ==
    IF live # NoInode /\ head[live] = "v1" /\ body[live] # NoKey
    THEN body[live] ELSE NoKey

\* An inode no name and no descriptor refers to.
Free(i) == i \notin {live, sidecar} /\ \A p \in Procs : fd[p] # i

\* The run is over (it ends, fails or is killed) and a later one may start.
Exit(p) ==
    /\ pc' = [pc EXCEPT ![p] = "start"]
    /\ key' = [key EXCEPT ![p] = NoKey]
    /\ fd' = [fd EXCEPT ![p] = NoInode]

Goto(p, step) == pc' = [pc EXCEPT ![p] = step]

\* bl_register loads the pin before its first request.
Load(p) ==
    /\ pc[p] = "start"
    /\ Goto(p, "handshake")
    /\ key' = [key EXCEPT ![p] = file_load]
    /\ UNCHANGED <<fd, fsVars>>

\* Faulty variant: the bridge's key is saved over a loaded pin.
HandshakeSaves(p, k) ==
    /\ pc[p] = "handshake"
    /\ Goto(p, "open")
    /\ key' = [key EXCEPT ![p] = k]
    /\ UNCHANGED <<fd, fsVars>>

\* The bridge presents key k.  A run with a pin goes on without saving, or
\* stops at the mismatch; a run without one saves k.
Handshake(p, k) ==
    /\ pc[p] = "handshake"
    /\ \/ key[p] # NoKey /\ Exit(p)
       \/ /\ key[p] = NoKey
          /\ Goto(p, "open")
          /\ key' = [key EXCEPT ![p] = k]
          /\ UNCHANGED fd
    /\ UNCHANGED fsVars

\* open(tmp_path, O_WRONLY | O_CREAT | O_TRUNC).
OpenSidecar(p) ==
    /\ pc[p] = "open"
    /\ \E i \in Inodes :
          /\ IF sidecar # NoInode THEN i = sidecar ELSE Free(i)
          /\ fd' = [fd EXCEPT ![p] = i]
          /\ sidecar' = i
          /\ head' = [head EXCEPT ![i] = "absent"]
          /\ body' = [body EXCEPT ![i] = NoKey]
    /\ Goto(p, "header")
    /\ UNCHANGED <<key, live>>

\* Faulty variant: the file goes live before the key is written.
WriteHeaderRenames(p) ==
    /\ pc[p] = "header"
    /\ head' = [head EXCEPT ![fd[p]] = "v1"]
    /\ Goto(p, "fsync")
    /\ UNCHANGED <<key, fd, body, live, sidecar>>

\* write(fd, hdr): magic and version.
WriteHeader(p) ==
    /\ pc[p] = "header"
    /\ head' = [head EXCEPT ![fd[p]] = "v1"]
    /\ Goto(p, "pubkey")
    /\ UNCHANGED <<key, fd, body, live, sidecar>>

\* write(fd, pub65) at this descriptor's own offset, past the header.
WritePubkey(p) ==
    /\ pc[p] = "pubkey"
    /\ body' = [body EXCEPT ![fd[p]] = key[p]]
    /\ Goto(p, "fsync")
    /\ UNCHANGED <<key, fd, head, live, sidecar>>

\* fsync and close.
SyncAndClose(p) ==
    /\ pc[p] = "fsync"
    /\ fd' = [fd EXCEPT ![p] = NoInode]
    /\ Goto(p, "rename")
    /\ UNCHANGED <<key, fsVars>>

\* rename(tmp_path, file_path): whatever the sidecar name points to now goes live.
Rename(p) ==
    /\ pc[p] = "rename" /\ sidecar # NoInode
    /\ live' = sidecar
    /\ sidecar' = NoInode
    /\ Exit(p)
    /\ UNCHANGED <<head, body>>

\* Any system call of file_save fails: unlink(tmp_path), whosever it is, and
\* return 0, which the caller ignores.  (A failing open does not unlink.)
SaveFails(p) ==
    /\ pc[p] \in {"open", "header", "pubkey", "fsync", "rename"}
    /\ sidecar' = IF pc[p] = "open" THEN sidecar ELSE NoInode
    /\ Exit(p)
    /\ UNCHANGED <<head, body, live>>

\* The run is killed where it stands.
Killed(p) ==
    /\ pc[p] # "start"
    /\ Exit(p)
    /\ UNCHANGED fsVars

\* bl_glue_reset_pin: unlink the live file.
ResetPin ==
    /\ live # NoInode
    /\ live' = NoInode
    /\ UNCHANGED <<pc, key, fd, head, body, sidecar>>

Next ==
    \/ \E p \in Procs :
          \/ Load(p) \/ OpenSidecar(p) \/ WriteHeader(p) \/ WritePubkey(p)
          \/ SyncAndClose(p) \/ Rename(p) \/ SaveFails(p) \/ Killed(p)
          \/ \E k \in Keys : Handshake(p, k)
    \/ ResetPin

Spec == Init /\ [][Next]_vars

-----------------------------------------------------------------------------
(* pin_store_file.c, "Atomicity": writes go through .new, fsync and rename *)
(* and a torn write leaves the existing file untouched.  So whatever stage *)
(* a save was killed at, the live name points to a whole file.             *)
LiveWhole == live # NoInode => head[live] # "absent" /\ body[live] # NoKey

(* The pin file implements the trust-on-first-use register: its key        *)
(* appears in one step, is never replaced, and only a reset removes it.    *)
Register == INSTANCE PinRegister WITH reg <- file_load
RegisterSpec == Register!Spec

(* pin-format.md, "Compatibility": a version 1 reader handed a version 2   *)
(* file refuses it and does not silently downgrade it.                     *)
NoSilentDowngrade ==
    [][\A i \in Inodes : live = i /\ head[i] = "v2" => live' \in {i, NoInode}]_vars
=============================================================================
