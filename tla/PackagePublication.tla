--------------------------- MODULE PackagePublication ---------------------------
(***************************************************************************)
(* Calls of investigationpackage.Create and of Verify on one path, in      *)
(* processes of their own: the package is written to a temporary file of   *)
(* its directory, synced, linked to the path without replacement, and the  *)
(* directory is synced; a verifier reads whatever the path then names.     *)
(* Calls fail or die between any two steps, somebody else may create a     *)
(* file at the path, and the machine may lose its power.  Nobody removes   *)
(* what is at the path.                                                    *)
(*                                                                         *)
(* A package is named by the call that writes it.  Its content is the      *)
(* number of ZIP entries written so far, or Whole once the archive is      *)
(* closed.                                                                 *)
(***************************************************************************)
EXTENDS Integers

CONSTANTS Calls,      \* calls of Create
          Verifiers,  \* calls of Verify
          Accepted,   \* the calls whose document is valid and free of secrets
          Foreign,    \* a file of somebody else, no package
          Entries,    \* the number of required files
          MaxLosses,  \* bound: power losses
          None

ASSUME PackageAssumption ==
  /\ Accepted \subseteq Calls
  /\ Foreign \notin Calls /\ None \notin Calls /\ Foreign # None
  /\ None # "created"
  /\ Entries \in Nat /\ MaxLosses \in Nat

Whole == Entries + 1

Files == Calls \cup {Foreign}

VARIABLES path,     \* the file the path names
          onDisk,   \* the file it would name after a power loss at the latest
          temp,     \* the temporary names that exist
          content,  \* what each call has written
          synced,   \* the files that have been synced
          pc,       \* where each call of Create is
          result,   \* what it returned
          digest,   \* the file whose digest it returned
          opened,   \* the file each verifier has read
          verdict,  \* what it makes of it
          hashed,   \* the file whose digest it returned
          losses    \* power losses so far
vars == <<path, onDisk, temp, content, synced, pc, result, digest,
          opened, verdict, hashed, losses>>

disk      == <<path, onDisk, temp, content, synced>>
creating  == <<pc, result, digest>>
verifying == <<opened, verdict, hashed>>

Init ==
  /\ path \in {None, Foreign}
  /\ onDisk = path
  /\ temp = {}
  /\ content = [c \in Calls |-> 0]
  /\ synced = {}
  /\ pc = [c \in Calls |-> "lstat"]
  /\ result = [c \in Calls |-> None]
  /\ digest = [c \in Calls |-> None]
  /\ opened = [v \in Verifiers |-> None]
  /\ verdict = [v \in Verifiers |-> "none"]
  /\ hashed = [v \in Verifiers |-> None]
  /\ losses = 0

Goto(c, from, to) ==
  /\ pc[c] = from
  /\ pc' = [pc EXCEPT ![c] = to]

Return(c, from, what) ==
  /\ Goto(c, from, "done")
  /\ result' = [result EXCEPT ![c] = what]

-----------------------------------------------------------------------------
(* Create                                                                  *)

LstatAbsent(c) ==
  /\ Goto(c, "lstat", "encode")
  /\ path = None
  /\ UNCHANGED <<disk, result, digest, verifying, losses>>

LstatExists(c) ==
  /\ Return(c, "lstat", "conflict")
  /\ path # None
  /\ UNCHANGED <<disk, digest, verifying, losses>>

\* Wrong variant: the document is packed as it is.
EncodeUnchecked(c) ==
  /\ Goto(c, "encode", "create")
  /\ UNCHANGED <<disk, result, digest, verifying, losses>>

\* OutputFrom, the redaction scan and the limits on size accept the document.
Encode(c) ==
  /\ Goto(c, "encode", "create")
  /\ c \in Accepted
  /\ UNCHANGED <<disk, result, digest, verifying, losses>>

Reject(c) ==
  /\ Return(c, "encode", "invalid")
  /\ c \notin Accepted
  /\ UNCHANGED <<disk, digest, verifying, losses>>

CreateTemp(c) ==
  /\ Goto(c, "create", "write")
  /\ temp' = temp \cup {c}
  /\ UNCHANGED <<path, onDisk, content, synced, result, digest, verifying, losses>>

WriteEntry(c) ==
  /\ pc[c] = "write"
  /\ content[c] < Entries
  /\ content' = [content EXCEPT ![c] = @ + 1]
  /\ UNCHANGED <<path, onDisk, temp, synced, creating, verifying, losses>>

\* Wrong variant: the central directory of the archive is left to a deferred Close.
CloseArchiveLate(c) ==
  /\ Goto(c, "write", "sync")
  /\ content[c] = Entries
  /\ UNCHANGED <<disk, result, digest, verifying, losses>>

CloseArchive(c) ==
  /\ Goto(c, "write", "sync")
  /\ content[c] = Entries
  /\ content' = [content EXCEPT ![c] = Whole]
  /\ UNCHANGED <<path, onDisk, temp, synced, result, digest, verifying, losses>>

\* Wrong variant: the file is closed, and left to the kernel.
SyncNothing(c) ==
  /\ Goto(c, "sync", "link")
  /\ UNCHANGED <<disk, result, digest, verifying, losses>>

Sync(c) ==
  /\ Goto(c, "sync", "link")
  /\ synced' = synced \cup {c}
  /\ UNCHANGED <<path, onDisk, temp, content, result, digest, verifying, losses>>

\* Wrong variant: a rename, which replaces what is at the path.
LinkReplacing(c) ==
  /\ Goto(c, "link", "syncdir")
  /\ path' = c
  /\ UNCHANGED <<onDisk, temp, content, synced, result, digest, verifying, losses>>

\* os.Link fails when the path exists, whatever Lstat has found before.
Link(c) ==
  /\ Goto(c, "link", "syncdir")
  /\ path = None
  /\ path' = c
  /\ UNCHANGED <<onDisk, temp, content, synced, result, digest, verifying, losses>>

LinkExists(c) ==
  /\ Goto(c, "link", "conflict")
  /\ path # None
  /\ UNCHANGED <<disk, result, digest, verifying, losses>>

\* Wrong variant: only the file is synced, not the directory that names it.
SyncDirectoryNot(c) ==
  /\ Goto(c, "syncdir", "remove")
  /\ UNCHANGED <<disk, result, digest, verifying, losses>>

SyncDirectory(c) ==
  /\ Goto(c, "syncdir", "remove")
  /\ onDisk' = path
  /\ UNCHANGED <<path, temp, content, synced, result, digest, verifying, losses>>

\* The deferred removal of the temporary name, with nothing gone wrong so far.
Remove(c) ==
  /\ Goto(c, "remove", "hash")
  /\ temp' = temp \ {c}
  /\ UNCHANGED <<path, onDisk, content, synced, result, digest, verifying, losses>>

\* Wrong variant: what becomes of the temporary name is no concern of the caller.
RemoveFailsUnnoticed(c) ==
  /\ Goto(c, "remove", "hash")
  /\ UNCHANGED <<disk, result, digest, verifying, losses>>

\* The removal fails: an error, though the package is at its path.
RemoveFails(c) ==
  /\ Return(c, "remove", "error")
  /\ UNCHANGED <<disk, digest, verifying, losses>>

\* The deferred removal after an error, which the error hides.
CleanUp(c) ==
  /\ \/ Return(c, "conflict", "conflict")
     \/ Return(c, "failed", "error")
  /\ temp' \in {temp, temp \ {c}}
  /\ UNCHANGED <<path, onDisk, content, synced, digest, verifying, losses>>

\* fileDigest reads the path once more.
Hash(c) ==
  /\ Return(c, "hash", "created")
  /\ path # None
  /\ digest' = [digest EXCEPT ![c] = path]
  /\ UNCHANGED <<disk, verifying, losses>>

\* Any other error: of the context, of the file system, of the encoding.
Fail(c) ==
  /\ \/ \E from \in {"lstat", "encode", "create", "hash"} : Return(c, from, "error")
     \/ /\ \E from \in {"write", "sync", "link", "syncdir"} : Goto(c, from, "failed")
        /\ UNCHANGED result
  /\ UNCHANGED <<disk, digest, verifying, losses>>

\* The process dies; what it has written stays.
Crash(c) ==
  /\ pc[c] \notin {"done", "dead"}
  /\ pc' = [pc EXCEPT ![c] = "dead"]
  /\ UNCHANGED <<disk, result, digest, verifying, losses>>

-----------------------------------------------------------------------------
(* Verify                                                                  *)

\* Wrong variant: every file that opens is taken for a package.
ValidUnread(f) == f # None

\* The three files, the manifest, the document, the checksums and the redaction scan.
Valid(f) == f \in Accepted /\ content[f] = Whole

ReadPackage(v) ==
  /\ verdict[v] = "none"
  /\ opened' = [opened EXCEPT ![v] = path]
  /\ verdict' = [verdict EXCEPT ![v] = IF Valid(path) THEN "valid" ELSE "rejected"]
  /\ UNCHANGED <<disk, creating, hashed, losses>>

\* fileDigest opens the path once more.
HashPackage(v) ==
  /\ verdict[v] = "valid"
  /\ path # None
  /\ hashed' = [hashed EXCEPT ![v] = path]
  /\ verdict' = [verdict EXCEPT ![v] = "accepted"]
  /\ UNCHANGED <<disk, creating, opened, losses>>

VerifyFails(v) ==
  /\ verdict[v] \in {"none", "valid"}
  /\ verdict' = [verdict EXCEPT ![v] = "failed"]
  /\ UNCHANGED <<disk, creating, opened, hashed, losses>>

-----------------------------------------------------------------------------
(* Around the calls                                                        *)

\* Somebody else creates a file, without replacement too.
OtherFile ==
  /\ path = None
  /\ path' = Foreign
  /\ UNCHANGED <<onDisk, temp, content, synced, creating, verifying, losses>>

\* Every process dies.  A name may be there or not unless the directory was synced
\* since, temporary ones included, and a file that was not synced may have lost any
\* of its content.
PowerLoss ==
  /\ losses < MaxLosses
  /\ losses' = losses + 1
  /\ path' \in {path, onDisk}
  /\ onDisk' = path'
  /\ temp' \in SUBSET (temp \cup {c \in Calls : content[c] > 0})
  /\ content' \in [Calls -> 0..Whole]
  /\ \A c \in Calls :
       /\ content'[c] <= content[c]
       /\ c \in synced => content'[c] = content[c]
  /\ pc' = [c \in Calls |-> IF pc[c] = "done" THEN "done" ELSE "dead"]
  /\ verdict' = [v \in Verifiers |->
                   IF verdict[v] \in {"none", "valid"} THEN "failed" ELSE verdict[v]]
  /\ UNCHANGED <<synced, result, digest, opened, hashed>>

Next ==
  \/ \E c \in Calls :
       \/ LstatAbsent(c) \/ LstatExists(c)
       \/ Encode(c) \/ Reject(c)
       \/ CreateTemp(c) \/ WriteEntry(c) \/ CloseArchive(c) \/ Sync(c)
       \/ Link(c) \/ LinkExists(c) \/ SyncDirectory(c)
       \/ Remove(c) \/ RemoveFails(c) \/ CleanUp(c)
       \/ Hash(c) \/ Fail(c) \/ Crash(c)
  \/ \E v \in Verifiers : ReadPackage(v) \/ HashPackage(v) \/ VerifyFails(v)
  \/ OtherFile
  \/ PowerLoss

Spec == Init /\ [][Next]_vars

-----------------------------------------------------------------------------
(* Properties                                                              *)

Steps == {"lstat", "encode", "create", "write", "sync", "link", "syncdir", "remove",
          "hash", "failed", "conflict", "done", "dead"}

\* The variables have their types.
TypeOK ==
  /\ path \in Files \cup {None}
  /\ onDisk \in Files \cup {None}
  /\ temp \subseteq Calls
  /\ content \in [Calls -> 0..Whole]
  /\ synced \subseteq Calls
  /\ pc \in [Calls -> Steps]
  /\ result \in [Calls -> {None, "created", "conflict", "invalid", "error"}]
  /\ digest \in [Calls -> Files \cup {None}]
  /\ opened \in [Verifiers -> Files \cup {None}]
  /\ verdict \in [Verifiers -> {"none", "valid", "accepted", "rejected", "failed"}]
  /\ hashed \in [Verifiers -> Files \cup {None}]
  /\ losses \in Nat

Torn == "torn"

\* What a reader of the path finds.
Held ==
  IF path \in Calls /\ content[path] # Whole THEN Torn ELSE path

Announced ==
  IF \E c \in Calls : result[c] = "created"
  THEN CHOOSE c \in Calls : result[c] = "created"
  ELSE None

WO == INSTANCE WriteOnce WITH Values <- Files, value <- Held, announced <- Announced

\* The path holds nothing or one whole file, at every instant and after every power
\* loss; no call replaces it, and once a call has returned success it is never lost.
ImplementsWriteOnce == WO!Spec

\* A call that returned success returned the digest of its own package, which is at
\* the path, survives a power loss, and is under no temporary name unless the power
\* failed.
SuccessIsKept ==
  \A c \in Calls :
    result[c] = "created" =>
      /\ path = c /\ onDisk = c /\ digest[c] = c
      /\ c \in synced /\ content[c] = Whole
      /\ losses = 0 => c \notin temp

\* A verifier accepts the package a call has put at the path, though that call may
\* not have ended or may have failed since, and nothing else; the digest it
\* returns is of what it has read.
PublishedVerifies ==
  \A v \in Verifiers :
    /\ verdict[v] = "accepted" => opened[v] \in Accepted /\ hashed[v] = opened[v]
    /\ verdict[v] = "rejected" => opened[v] \in {Foreign, None}
================================================================================
