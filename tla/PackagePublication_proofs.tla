----------------------- MODULE PackagePublication_proofs -----------------------
(***************************************************************************)
(* Theorems about PackagePublication for every number of calls, verifiers  *)
(* and power losses: the path is written once, a success is kept, and a    *)
(* verifier accepts what was published and nothing else.                   *)
(***************************************************************************)
EXTENDS PackagePublication, TLAPS

-----------------------------------------------------------------------------
(* The inductive invariant                                                 *)

\* A file has been synced whole before it gets its name, and not before it is whole.
FilesOK ==
  \A c \in Calls :
    /\ c \in synced => content[c] = Whole
    /\ pc[c] = "sync" => content[c] = Whole
    /\ pc[c] \in {"lstat", "encode", "create", "write", "sync"} => c \notin synced
    /\ pc[c] \in {"link", "syncdir", "remove", "hash"} => c \in synced
    /\ pc[c] \in {"create", "write", "sync", "link", "syncdir", "remove", "hash"}
         => c \in Accepted
    /\ (path = c \/ onDisk = c) => c \in synced /\ c \in Accepted

\* The name a power loss leaves is the present one or none.
DirectoryOK == onDisk \in {None, path}

\* What a call has done since its link.
CallsOK ==
  \A c \in Calls :
    /\ pc[c] \in {"syncdir", "remove", "hash"} => path = c
    /\ pc[c] \in {"remove", "hash"} => onDisk = c
    /\ pc[c] = "hash" => (losses = 0 => c \notin temp)
    /\ result[c] = "created" => pc[c] = "done"

\* Between its two readings of the path, a verifier still finds what it has read.
VerifiersOK ==
  \A v \in Verifiers :
    verdict[v] = "valid" => opened[v] \in Accepted /\ path = opened[v]

IInv ==
  /\ TypeOK
  /\ FilesOK
  /\ DirectoryOK
  /\ CallsOK
  /\ SuccessIsKept
  /\ VerifiersOK
  /\ PublishedVerifies

-----------------------------------------------------------------------------
(* Invariance                                                              *)

\* Initially nothing is written, synced or told.
LEMMA InitInv == Init => IInv
BY PackageAssumption
   DEF Init, IInv, TypeOK, FilesOK, DirectoryOK, CallsOK, SuccessIsKept, VerifiersOK,
       PublishedVerifies, Steps, Files, Whole

\* Steps of a call that leave the disk as it is.
LEMMA ControlInv ==
  ASSUME IInv, NEW c \in Calls,
         LstatAbsent(c) \/ LstatExists(c) \/ Encode(c) \/ Reject(c) \/ LinkExists(c)
           \/ RemoveFails(c) \/ Fail(c) \/ Crash(c)
  PROVE  IInv'
<1> USE PackageAssumption
     DEF IInv, LstatAbsent, LstatExists, Encode, Reject, LinkExists, RemoveFails,
         Fail, Crash, Goto, Return, disk, creating, verifying
<1>1. TypeOK'
  BY DEF TypeOK, Steps, Files, Whole
<1>2. FilesOK'
  BY DEF TypeOK, FilesOK, DirectoryOK, CallsOK, Files, Whole
<1>3. DirectoryOK'
  BY DEF TypeOK, DirectoryOK
<1>4. CallsOK'
  BY DEF TypeOK, FilesOK, DirectoryOK, CallsOK, Files
<1>5. SuccessIsKept'
  BY DEF TypeOK, FilesOK, DirectoryOK, CallsOK, SuccessIsKept, Files, Whole
<1>6. VerifiersOK'
  BY DEF TypeOK, VerifiersOK, FilesOK, Files
<1>7. PublishedVerifies'
  BY DEF TypeOK, PublishedVerifies, VerifiersOK, FilesOK, Files
<1> QED
  BY <1>1, <1>2, <1>3, <1>4, <1>5, <1>6, <1>7

\* Writing, syncing and removing the temporary file touches no name at the path.
LEMMA WritingInv ==
  ASSUME IInv, NEW c \in Calls,
         CreateTemp(c) \/ WriteEntry(c) \/ CloseArchive(c) \/ Sync(c) \/ Remove(c) \/ CleanUp(c)
  PROVE  IInv'
<1> USE PackageAssumption
     DEF IInv, CreateTemp, WriteEntry, CloseArchive, Sync, Remove, CleanUp, Goto, Return, disk, creating, verifying
<1>1. TypeOK'
  BY DEF TypeOK, Steps, Files, Whole
<1>2. FilesOK'
  BY DEF TypeOK, FilesOK, DirectoryOK, CallsOK, Files, Whole
<1>3. DirectoryOK'
  BY DEF TypeOK, DirectoryOK
<1>4. CallsOK'
  BY DEF TypeOK, FilesOK, DirectoryOK, CallsOK, Files
<1>5. SuccessIsKept'
  BY DEF TypeOK, FilesOK, DirectoryOK, CallsOK, SuccessIsKept, Files, Whole
<1>6. VerifiersOK'
  BY DEF TypeOK, VerifiersOK, FilesOK, Files
<1>7. PublishedVerifies'
  BY DEF TypeOK, PublishedVerifies, VerifiersOK, FilesOK, Files
<1> QED
  BY <1>1, <1>2, <1>3, <1>4, <1>5, <1>6, <1>7

\* The file that is linked is whole and synced, and the path was empty.
LEMMA LinkInv ==
  ASSUME IInv, NEW c \in Calls,
         Link(c)
  PROVE  IInv'
<1> USE PackageAssumption
     DEF IInv, Link, Goto, disk, creating, verifying
<1>1. TypeOK'
  BY DEF TypeOK, Steps, Files, Whole
<1>2. FilesOK'
  BY DEF TypeOK, FilesOK, DirectoryOK, CallsOK, Files, Whole
<1>3. DirectoryOK'
  BY DEF TypeOK, DirectoryOK
<1>4. CallsOK'
  BY DEF TypeOK, FilesOK, DirectoryOK, CallsOK, Files
<1>5. SuccessIsKept'
  BY DEF TypeOK, FilesOK, DirectoryOK, CallsOK, SuccessIsKept, Files, Whole
<1>6. VerifiersOK'
  BY DEF TypeOK, VerifiersOK, FilesOK, Files
<1>7. PublishedVerifies'
  BY DEF TypeOK, PublishedVerifies, VerifiersOK, FilesOK, Files
<1> QED
  BY <1>1, <1>2, <1>3, <1>4, <1>5, <1>6, <1>7

\* Once the directory is synced a power loss leaves the name.
LEMMA SyncDirectoryInv ==
  ASSUME IInv, NEW c \in Calls,
         SyncDirectory(c)
  PROVE  IInv'
<1> USE PackageAssumption
     DEF IInv, SyncDirectory, Goto, disk, creating, verifying
<1>1. TypeOK'
  BY DEF TypeOK, Steps, Files, Whole
<1>2. FilesOK'
  BY DEF TypeOK, FilesOK, DirectoryOK, CallsOK, Files, Whole
<1>3. DirectoryOK'
  BY DEF TypeOK, DirectoryOK
<1>4. CallsOK'
  BY DEF TypeOK, FilesOK, DirectoryOK, CallsOK, Files
<1>5. SuccessIsKept'
  BY DEF TypeOK, FilesOK, DirectoryOK, CallsOK, SuccessIsKept, Files, Whole
<1>6. VerifiersOK'
  BY DEF TypeOK, VerifiersOK, FilesOK, Files
<1>7. PublishedVerifies'
  BY DEF TypeOK, PublishedVerifies, VerifiersOK, FilesOK, Files
<1> QED
  BY <1>1, <1>2, <1>3, <1>4, <1>5, <1>6, <1>7

\* A call succeeds when its own file is at the path and on disk.
LEMMA HashInv ==
  ASSUME IInv, NEW c \in Calls,
         Hash(c)
  PROVE  IInv'
<1> USE PackageAssumption
     DEF IInv, Hash, Return, Goto, disk, creating, verifying
<1>1. TypeOK'
  BY DEF TypeOK, Steps, Files, Whole
<1>2. FilesOK'
  BY DEF TypeOK, FilesOK, DirectoryOK, CallsOK, Files, Whole
<1>3. DirectoryOK'
  BY DEF TypeOK, DirectoryOK
<1>4. CallsOK'
  BY DEF TypeOK, FilesOK, DirectoryOK, CallsOK, Files
<1>5. SuccessIsKept'
  BY DEF TypeOK, FilesOK, DirectoryOK, CallsOK, SuccessIsKept, Files, Whole
<1>6. VerifiersOK'
  BY DEF TypeOK, VerifiersOK, FilesOK, Files
<1>7. PublishedVerifies'
  BY DEF TypeOK, PublishedVerifies, VerifiersOK, FilesOK, Files
<1> QED
  BY <1>1, <1>2, <1>3, <1>4, <1>5, <1>6, <1>7

\* A verifier reads a whole file of an accepted document, or somebody else's.
LEMMA VerifyInv ==
  ASSUME IInv, NEW v \in Verifiers,
         ReadPackage(v) \/ HashPackage(v) \/ VerifyFails(v)
  PROVE  IInv'
<1> USE PackageAssumption
     DEF IInv, ReadPackage, HashPackage, VerifyFails, Valid, disk, creating, verifying
<1>1. TypeOK'
  BY DEF TypeOK, Steps, Files, Whole
<1>2. FilesOK'
  BY DEF TypeOK, FilesOK, DirectoryOK, CallsOK, Files, Whole
<1>3. DirectoryOK'
  BY DEF TypeOK, DirectoryOK
<1>4. CallsOK'
  BY DEF TypeOK, FilesOK, DirectoryOK, CallsOK, Files
<1>5. SuccessIsKept'
  BY DEF TypeOK, FilesOK, DirectoryOK, CallsOK, SuccessIsKept, Files, Whole
<1>6. VerifiersOK'
  BY DEF TypeOK, VerifiersOK, FilesOK, Files
<1>7. PublishedVerifies'
  BY DEF TypeOK, PublishedVerifies, VerifiersOK, FilesOK, Files
<1> QED
  BY <1>1, <1>2, <1>3, <1>4, <1>5, <1>6, <1>7

\* Nobody has published when another file comes to the path.
LEMMA OtherFileInv ==
  ASSUME IInv, OtherFile
  PROVE  IInv'
<1> USE PackageAssumption
     DEF IInv, OtherFile, disk, creating, verifying
<1>1. TypeOK'
  BY DEF TypeOK, Steps, Files, Whole
<1>2. FilesOK'
  BY DEF TypeOK, FilesOK, DirectoryOK, CallsOK, Files, Whole
<1>3. DirectoryOK'
  BY DEF TypeOK, DirectoryOK
<1>4. CallsOK'
  BY DEF TypeOK, FilesOK, DirectoryOK, CallsOK, Files
<1>5. SuccessIsKept'
  BY DEF TypeOK, FilesOK, DirectoryOK, CallsOK, SuccessIsKept, Files, Whole
<1>6. VerifiersOK'
  BY DEF TypeOK, VerifiersOK, FilesOK, Files
<1>7. PublishedVerifies'
  BY DEF TypeOK, PublishedVerifies, VerifiersOK, FilesOK, Files
<1> QED
  BY <1>1, <1>2, <1>3, <1>4, <1>5, <1>6, <1>7

\* A power loss keeps what was synced, and ends every process.
LEMMA PowerLossInv ==
  ASSUME IInv, PowerLoss
  PROVE  IInv'
<1> USE PackageAssumption
     DEF IInv, PowerLoss, disk, creating, verifying
<1>1. TypeOK'
  BY DEF TypeOK, Steps, Files, Whole
<1>2. FilesOK'
  <2>1. \A c \in Calls : c \in synced => content'[c] = Whole
    BY DEF FilesOK
  <2>2. \A c \in Calls : pc'[c] \in {"done", "dead"}
    OBVIOUS
  <2>3. path' \in {path, onDisk} /\ onDisk' = path' /\ synced' = synced
    OBVIOUS
  <2> QED
    BY <2>1, <2>2, <2>3 DEF FilesOK
<1>3. DirectoryOK'
  BY DEF TypeOK, DirectoryOK
<1>4. CallsOK'
  BY DEF TypeOK, FilesOK, DirectoryOK, CallsOK, Files
<1>5. SuccessIsKept'
  BY DEF TypeOK, FilesOK, DirectoryOK, CallsOK, SuccessIsKept, Files, Whole
<1>6. VerifiersOK'
  BY DEF TypeOK, VerifiersOK, FilesOK, Files
<1>7. PublishedVerifies'
  BY DEF TypeOK, PublishedVerifies, VerifiersOK, FilesOK, Files
<1> QED
  BY <1>1, <1>2, <1>3, <1>4, <1>5, <1>6, <1>7

\* Every step keeps the invariant.
LEMMA StepInv == IInv /\ [Next]_vars => IInv'
<1> SUFFICES ASSUME IInv, [Next]_vars PROVE IInv'
  OBVIOUS
<1>1. CASE Next
  BY <1>1, ControlInv, WritingInv, LinkInv, SyncDirectoryInv, HashInv, VerifyInv,
     OtherFileInv, PowerLossInv DEF Next
<1>2. CASE UNCHANGED vars
  BY <1>2 DEF IInv, vars, TypeOK, FilesOK, DirectoryOK, CallsOK, SuccessIsKept,
              VerifiersOK, PublishedVerifies
<1> QED
  BY <1>1, <1>2

\* The invariant holds of every behaviour.
LEMMA Invariance == Spec => []IInv
BY InitInv, StepInv, PTL DEF Spec

-----------------------------------------------------------------------------
(* The abstract specification                                              *)

\* The path never names a torn file.
LEMMA HeldIsPath == IInv => Held = path
BY DEF IInv, FilesOK, Held

\* The same, after a step.
LEMMA HeldIsPathNext == (IInv => Held = path)'
BY HeldIsPath, PTL

\* What was announced is at the path.
LEMMA AnnouncedIsPath ==
  IInv => Announced = IF \E c \in Calls : result[c] = "created" THEN path ELSE None
<1> SUFFICES ASSUME IInv, NEW c \in Calls, result[c] = "created"
             PROVE  Announced = path
  BY DEF Announced
<1>1. Announced \in Calls /\ result[Announced] = "created"
  BY DEF Announced
<1> QED
  BY <1>1 DEF IInv, SuccessIsKept

\* The same, after a step.
LEMMA AnnouncedIsPathNext ==
  (IInv => Announced = IF \E c \in Calls : result[c] = "created" THEN path ELSE None)'
BY AnnouncedIsPath, PTL

\* A step that makes no call succeed tells nobody anything, and no such step takes
\* away what somebody was told.
LEMMA AnnouncedStays ==
  ASSUME IInv, IInv', \A c \in Calls : result'[c] = "created" <=> result[c] = "created"
  PROVE  Announced' = Announced
<1>1. Announced' = IF \E c \in Calls : result'[c] = "created" THEN path' ELSE None
  BY AnnouncedIsPathNext
<1>2. CASE \E c \in Calls : result[c] = "created"
  <2>1. PICK c \in Calls : result[c] = "created"
    BY <1>2
  <2>2. path = c /\ path' = c
    BY <2>1 DEF IInv, SuccessIsKept
  <2> QED
    BY <1>1, <2>1, <2>2, AnnouncedIsPath
<1>3. CASE \A c \in Calls : result[c] # "created"
  BY <1>1, <1>3, AnnouncedIsPath
<1> QED
  BY <1>2, <1>3

\* A step that makes no call succeed writes the path, loses it before anybody was told,
\* or leaves it.
LEMMA QuietStep ==
  ASSUME IInv, IInv', \A c \in Calls : result'[c] = "created" <=> result[c] = "created",
         \/ path' = path
         \/ path = None /\ path' \in Files
         \/ path' = onDisk
  PROVE  [WO!Next]_(WO!vars)
<1>1. Held = path /\ Held' = path'
  BY HeldIsPath, HeldIsPathNext
<1>2. Announced' = Announced
  BY AnnouncedStays
<1>3. CASE path' = path
  BY <1>1, <1>2, <1>3 DEF WO!vars
<1>4. CASE path = None /\ path' \in Files
  BY <1>1, <1>2, <1>4 DEF WO!Next, WO!Write
<1>5. CASE path' = onDisk /\ path' # path
  <2>1. path' = None
    BY <1>5 DEF IInv, DirectoryOK
  <2>2. \A c \in Calls : result[c] # "created"
    BY <1>5 DEF IInv, SuccessIsKept
  <2>3. Announced = None
    BY <2>2, AnnouncedIsPath
  <2> QED
    BY <1>1, <1>2, <2>1, <2>3 DEF WO!Next, WO!Lose
<1> QED
  BY <1>3, <1>4, <1>5

\* A call succeeds: somebody is told what is at the path.
LEMMA HashAnnounces ==
  ASSUME IInv, IInv', NEW c \in Calls, Hash(c)
  PROVE  WO!Announce
<1>1. path = c /\ path' = c /\ result'[c] = "created"
  BY DEF IInv, TypeOK, CallsOK, Hash, Return, Goto, disk
<1>2. Announced' = IF \E d \in Calls : result'[d] = "created" THEN path' ELSE None
  BY AnnouncedIsPathNext
<1>3. Held = path /\ Held' = path'
  BY HeldIsPath, HeldIsPathNext
<1> QED
  BY <1>1, <1>2, <1>3 DEF WO!Announce, Files

\* Every step is a step of WriteOnce, or leaves what it promises about.
LEMMA StepRefines == IInv /\ IInv' /\ [Next]_vars => [WO!Next]_(WO!vars)
<1> SUFFICES ASSUME IInv, IInv', [Next]_vars PROVE [WO!Next]_(WO!vars)
  OBVIOUS
<1>1. ASSUME NEW c \in Calls, Hash(c) PROVE WO!Next
  BY <1>1, HashAnnounces DEF WO!Next
<1>2. ASSUME NEW c \in Calls,
             \/ LstatAbsent(c) \/ LstatExists(c) \/ Encode(c) \/ Reject(c)
             \/ CreateTemp(c) \/ WriteEntry(c) \/ CloseArchive(c) \/ Sync(c)
             \/ Link(c) \/ LinkExists(c) \/ SyncDirectory(c)
             \/ Remove(c) \/ RemoveFails(c) \/ CleanUp(c) \/ Fail(c) \/ Crash(c)
      PROVE  /\ \A d \in Calls : result'[d] = "created" <=> result[d] = "created"
             /\ path' = path \/ (path = None /\ path' \in Files)
  BY <1>2 DEF IInv, TypeOK, CallsOK, LstatAbsent, LstatExists, Encode, Reject, CreateTemp,
              WriteEntry, CloseArchive, Sync, Link, LinkExists, SyncDirectory, Remove,
              RemoveFails, CleanUp, Fail, Crash, Goto, Return, disk, creating, Files
<1>3. ASSUME \/ \E v \in Verifiers : ReadPackage(v) \/ HashPackage(v) \/ VerifyFails(v)
             \/ OtherFile
             \/ PowerLoss
             \/ UNCHANGED vars
      PROVE  /\ \A d \in Calls : result'[d] = "created" <=> result[d] = "created"
             /\ \/ path' = path
                \/ path = None /\ path' \in Files
                \/ path' = onDisk
  BY <1>3 DEF ReadPackage, HashPackage, VerifyFails, OtherFile, PowerLoss, vars, disk,
              creating, Files
<1> QED
  BY <1>1, <1>2, <1>3, QuietStep DEF Next

-----------------------------------------------------------------------------
(* Theorems                                                                *)

\* The variables keep their types (Create, Verify).
THEOREM TypeCorrect == Spec => []TypeOK
<1>1. IInv => TypeOK
  BY DEF IInv
<1> QED
  BY <1>1, Invariance, PTL

\* Whoever fails, dies or comes between, the path holds nothing or one whole file that is
\* never replaced, nor lost once a call has succeeded (writeAtomicZip).
THEOREM PathIsWrittenOnce == Spec => ImplementsWriteOnce
<1>1. Init => WO!Init
  BY PackageAssumption DEF Init, WO!Init, Held, Announced, Files
<1> QED
  BY <1>1, StepRefines, Invariance, PTL DEF Spec, ImplementsWriteOnce, WO!Spec

\* A success is about the call's own package, and survives a power loss (Create).
THEOREM SuccessStands == Spec => []SuccessIsKept
<1>1. IInv => SuccessIsKept
  BY DEF IInv
<1> QED
  BY <1>1, Invariance, PTL

\* A verifier accepts what a call has published and nothing else (Verify).
THEOREM VerdictIsRight == Spec => []PublishedVerifies
<1>1. IInv => PublishedVerifies
  BY DEF IInv
<1> QED
  BY <1>1, Invariance, PTL
================================================================================
