---------------------------- MODULE FileProofs ----------------------------
(***************************************************************************)
(* Proofs about what the server keeps beside its database: the pictures    *)
(* (RowsHaveFiles, OrphansExplained), the spreadsheet of the backup        *)
(* (MirrorHolds, ForcedSends) and the PDFs of contracts                    *)
(* (ContractsDownloadable), for any number of rows, files, requests,       *)
(* tables, contents and contracts.                                         *)
(***************************************************************************)
EXTENDS ImageFiles, BackupRuns, ContractDesk, TLAPS

-----------------------------------------------------------------------------
(* ImageFiles.  OrphansExplained is inductive next to the types.  The      *)
(* other two need to know who may hold a file: a file that a request       *)
(* has saved and not yet put in a row is held by that request alone, is    *)
(* named by no row, and is nobody's old picture, unless its statement      *)
(* committed without an answer; and a request's old picture is named by    *)
(* the row it is about or by none.                                         *)

\* A request has a file that no row was known to name.
Holding(r) ==
  \/ task[r].pc \in {"variants", "undo"}
  \/ task[r].pc = "row" /\ task[r].op # "remove"

ImageTyped ==
  /\ url \in [Owners -> Files \cup {NoFile, Absent}]
  /\ file \in [Files -> {"unused", "original", "complete", "gone"}]
  /\ task \in [ImageRequests -> Task]
  /\ lost \subseteq Files
  /\ leaked \subseteq Files

\* What each stage of a request knows of its row and files.
ImageStaged ==
  \A r \in ImageRequests :
    /\ Holding(r) => task[r].file \in Files /\ file[task[r].file] # "unused"
    /\ task[r].pc = "row" /\ task[r].op # "remove" => file[task[r].file] = "complete"
    /\ task[r].pc \in {"save", "variants", "undo"} => task[r].op # "remove"
    /\ task[r].pc = "old" => task[r].old \in Files
    /\ task[r].pc # "idle" => task[r].owner \in Owners

\* A name that a row or a request has is not given again.
Used ==
  /\ \A o \in Owners : url[o] \in Files => file[url[o]] # "unused"
  /\ \A r \in ImageRequests : task[r].old \in Files => file[task[r].old] # "unused"

NamedByOne ==
  \A o, p \in Owners : url[o] \in Files /\ url[o] = url[p] => o = p

HeldByOne ==
  \A r, s \in ImageRequests :
    Holding(r) /\ Holding(s) /\ task[r].file = task[s].file => r = s

HeldUnnamed ==
  \A r \in ImageRequests, o \in Owners :
    Holding(r) /\ url[o] = task[r].file => task[r].pc = "undo" /\ task[r].file \in lost

HeldNotOld ==
  \A r, s \in ImageRequests :
    Holding(s) /\ task[r].old = task[s].file => task[s].pc = "undo" /\ task[s].file \in lost

OldOfOwner ==
  \A r \in ImageRequests, o \in Owners :
    task[r].old \in Files /\ url[o] = task[r].old => o = task[r].owner /\ task[r].pc # "old"

ImageInv ==
  /\ ImageTyped /\ ImageStaged /\ Used
  /\ NamedByOne /\ HeldByOne /\ HeldUnnamed /\ HeldNotOld /\ OldOfOwner
  /\ RowsHaveFiles

-----------------------------------------------------------------------------
\* The first state: no picture, no request.
LEMMA ImageInitInv == ImageInit => ImageInv /\ OrphansExplained
<1> SUFFICES ASSUME ImageInit PROVE ImageInv /\ OrphansExplained
  OBVIOUS
<1> USE ImageAssumption DEF ImageInit, NoTask
<1>1. ImageTyped
  BY DEF ImageTyped, Owners, Task
<1>2. ImageStaged /\ HeldByOne /\ HeldUnnamed /\ HeldNotOld
  BY DEF ImageStaged, HeldByOne, HeldUnnamed, HeldNotOld, Holding
<1>3. Used /\ NamedByOne /\ OldOfOwner /\ RowsHaveFiles /\ OrphansExplained
  BY DEF Used, NamedByOne, OldOfOwner, RowsHaveFiles, OrphansExplained, Owners
<1> QED
  BY <1>1, <1>2, <1>3 DEF ImageInv

\* A request begins: its old picture is the one its row names.
LEMMA BeginInv ==
  ASSUME NEW r \in ImageRequests, NEW o \in Owners,
         ImageInv, Create(r, o) \/ Replace(r, o) \/ Remove(r, o)
  PROVE  ImageInv'
<1> USE ImageAssumption DEF ImageInv
<1>1. /\ task' \in [ImageRequests -> Task]
      /\ \/ task'[r].pc = "save" /\ task'[r].op \in {"create", "replace"}
         \/ task'[r].pc = "row" /\ task'[r].op = "remove"
      /\ task'[r].owner = o
      /\ task'[r].old = NoFile \/ task'[r].old = url[o]
      /\ \A u \in ImageRequests : u # r => task'[u] = task[u]
      /\ UNCHANGED <<url, file, lost, leaked>>
  BY DEF Create, Replace, Remove, ImageTyped, Task, Owners
<1>2. ImageTyped'
  BY <1>1 DEF ImageTyped
<1>3. ImageStaged'
  BY <1>1 DEF ImageStaged, Holding
<1>4. Used'
  BY <1>1 DEF Used
<1>5. NamedByOne'
  BY <1>1 DEF NamedByOne
<1>6. HeldByOne'
  BY <1>1 DEF HeldByOne, Holding
<1>7. HeldUnnamed'
  BY <1>1 DEF HeldUnnamed, Holding
<1>8. HeldNotOld'
  BY <1>1 DEF ImageStaged, HeldUnnamed, HeldNotOld, Holding
<1>9. OldOfOwner'
  BY <1>1 DEF NamedByOne, OldOfOwner
<1>10. RowsHaveFiles'
  BY <1>1 DEF RowsHaveFiles
<1> QED
  BY <1>2, <1>3, <1>4, <1>5, <1>6, <1>7, <1>8, <1>9, <1>10

\* The name is fresh.
LEMMA SaveOriginalInv ==
  ASSUME NEW r \in ImageRequests, NEW f \in Files,
         ImageInv, SaveOriginal(r, f)
  PROVE  ImageInv'
<1> USE ImageAssumption DEF ImageInv
<1>1. /\ task' \in [ImageRequests -> Task]
      /\ task'[r].op = task[r].op /\ task'[r].owner = task[r].owner /\ task'[r].old = task[r].old
      /\ task[r].pc = "save" /\ task'[r].pc = "variants" /\ task'[r].file = f
      /\ \A u \in ImageRequests : u # r => task'[u] = task[u]
      /\ file[f] = "unused" /\ file' = [file EXCEPT ![f] = "original"]
      /\ UNCHANGED <<url, lost, leaked>>
  BY DEF SaveOriginal, ImageTyped, Task
<1>2. ImageTyped'
  BY <1>1 DEF ImageTyped
<1>3. ImageStaged'
  BY <1>1 DEF ImageTyped, ImageStaged, Holding
<1>4. Used'
  BY <1>1 DEF Used
<1>5. NamedByOne'
  BY <1>1 DEF NamedByOne
<1>6. HeldByOne'
  BY <1>1 DEF ImageStaged, HeldByOne, Holding
<1>7. HeldUnnamed'
  BY <1>1 DEF Used, HeldUnnamed, Holding
<1>8. HeldNotOld'
  BY <1>1 DEF Used, HeldNotOld, Holding
<1>9. OldOfOwner'
  BY <1>1 DEF OldOfOwner
<1>10. RowsHaveFiles'
  BY <1>1 DEF RowsHaveFiles
<1> QED
  BY <1>2, <1>3, <1>4, <1>5, <1>6, <1>7, <1>8, <1>9, <1>10

\* The request ends with the file left over.
LEMMA SaveFailsInv ==
  ASSUME NEW r \in ImageRequests, NEW f \in Files,
         ImageInv, SaveFails(r, f)
  PROVE  ImageInv'
<1> USE ImageAssumption DEF ImageInv
<1>1. /\ task' \in [ImageRequests -> Task]
      /\ task'[r] = NoTask
      /\ \A u \in ImageRequests : u # r => task'[u] = task[u]
      /\ file[f] = "unused" /\ file' = [file EXCEPT ![f] = "original"]
      /\ leaked' \subseteq Files
      /\ UNCHANGED <<url, lost>>
  BY DEF SaveFails, End, NoTask, ImageTyped, Task
<1>2. ImageTyped'
  BY <1>1 DEF ImageTyped
<1>3. ImageStaged'
  BY <1>1 DEF ImageStaged, Holding, NoTask
<1>4. Used'
  BY <1>1 DEF Used, NoTask
<1>5. NamedByOne'
  BY <1>1 DEF NamedByOne
<1>6. HeldByOne'
  BY <1>1 DEF HeldByOne, Holding, NoTask
<1>7. HeldUnnamed'
  BY <1>1 DEF HeldUnnamed, Holding, NoTask
<1>8. HeldNotOld'
  BY <1>1 DEF ImageStaged, HeldNotOld, Holding, NoTask
<1>9. OldOfOwner'
  BY <1>1 DEF OldOfOwner, NoTask
<1>10. RowsHaveFiles'
  BY <1>1 DEF RowsHaveFiles
<1> QED
  BY <1>2, <1>3, <1>4, <1>5, <1>6, <1>7, <1>8, <1>9, <1>10

\* The held file becomes complete.
LEMMA SaveVariantsInv ==
  ASSUME NEW r \in ImageRequests,
         ImageInv, SaveVariants(r)
  PROVE  ImageInv'
<1> USE ImageAssumption DEF ImageInv
<1>1. /\ task' \in [ImageRequests -> Task]
      /\ task'[r].op = task[r].op /\ task'[r].owner = task[r].owner /\ task'[r].old = task[r].old
      /\ task[r].pc = "variants" /\ task'[r].pc = "row" /\ task'[r].file = task[r].file
      /\ \A u \in ImageRequests : u # r => task'[u] = task[u]
      /\ file' = [file EXCEPT ![task[r].file] = "complete"]
      /\ UNCHANGED <<url, lost, leaked>>
  BY DEF SaveVariants, Goto, ImageTyped, Task
<1>2. ImageTyped'
  BY <1>1 DEF ImageTyped
<1>3. ImageStaged'
  BY <1>1 DEF ImageTyped, ImageStaged, Holding
<1>4. Used'
  BY <1>1 DEF Used
<1>5. NamedByOne'
  BY <1>1 DEF NamedByOne
<1>6. HeldByOne'
  BY <1>1 DEF HeldByOne, Holding
<1>7. HeldUnnamed'
  BY <1>1 DEF HeldUnnamed, Holding
<1>8. HeldNotOld'
  BY <1>1 DEF HeldNotOld, Holding
<1>9. OldOfOwner'
  BY <1>1 DEF OldOfOwner
<1>10. RowsHaveFiles'
  BY <1>1 DEF RowsHaveFiles
<1> QED
  BY <1>2, <1>3, <1>4, <1>5, <1>6, <1>7, <1>8, <1>9, <1>10

\* The request turns to its file, or ends if it has none.
LEMMA UndoInv ==
  ASSUME NEW r \in ImageRequests,
         ImageInv, VariantsFail(r) \/ WriteFails(r)
  PROVE  ImageInv'
<1> USE ImageAssumption DEF ImageInv
<1>1. /\ task' \in [ImageRequests -> Task]
      /\ \/ /\ task'[r].op = task[r].op /\ task'[r].owner = task[r].owner /\ task'[r].old = task[r].old
            /\ Holding(r) /\ task'[r].pc = "undo" /\ task'[r].file = task[r].file
         \/ task'[r] = NoTask
      /\ \A u \in ImageRequests : u # r => task'[u] = task[u]
      /\ UNCHANGED <<url, file, lost, leaked>>
  BY DEF VariantsFail, WriteFails, Goto, End, NoTask, Holding, ImageTyped, Task
<1>2. ImageTyped'
  BY <1>1 DEF ImageTyped
<1>3. ImageStaged'
  BY <1>1 DEF ImageStaged, Holding, NoTask
<1>4. Used'
  BY <1>1 DEF Used, NoTask
<1>5. NamedByOne'
  BY <1>1 DEF NamedByOne
<1>6. HeldByOne'
  BY <1>1 DEF HeldByOne, Holding, NoTask
<1>7. HeldUnnamed'
  BY <1>1 DEF HeldUnnamed, Holding, NoTask
<1>8. HeldNotOld'
  BY <1>1 DEF ImageStaged, HeldNotOld, Holding, NoTask
<1>9. OldOfOwner'
  BY <1>1 DEF OldOfOwner, NoTask
<1>10. RowsHaveFiles'
  BY <1>1 DEF RowsHaveFiles
<1> QED
  BY <1>2, <1>3, <1>4, <1>5, <1>6, <1>7, <1>8, <1>9, <1>10

\* The row names the held file, and nobody holds it any more.
LEMMA WriteRowInv ==
  ASSUME NEW r \in ImageRequests,
         ImageInv, WriteRow(r)
  PROVE  ImageInv'
<1> USE ImageAssumption DEF ImageInv
<1>1. /\ task' \in [ImageRequests -> Task]
      /\ task[r].pc = "row"
      /\ \/ /\ task'[r].pc = "old" /\ task[r].old \in Files
            /\ task'[r].old = task[r].old /\ task'[r].owner = task[r].owner
         \/ task'[r] = NoTask
      /\ \A u \in ImageRequests : u # r => task'[u] = task[u]
      /\ leaked' \subseteq Files
      /\ UNCHANGED <<file, lost>>
  BY DEF WriteRow, Forgotten, Goto, End, NoTask, ImageTyped, Task
<1>2. /\ \A o \in Owners :
           \/ url'[o] = url[o]
           \/ task[r].op = "remove" /\ url'[o] = Absent
           \/ Holding(r) /\ o = task[r].owner /\ url'[o] = task[r].file
      /\ url' \in [Owners -> Files \cup {NoFile, Absent}]
      /\ task[r].owner \in Owners
      /\ url'[task[r].owner] = IF task[r].op = "remove" THEN Absent ELSE task[r].file
  BY DEF WriteRow, Written, ImageTyped, ImageStaged, Holding, Task
<1>3. ImageTyped'
  BY <1>1, <1>2 DEF ImageTyped
<1>4. ImageStaged'
  BY <1>1, <1>2 DEF ImageStaged, Holding, NoTask
<1>5. Used'
  BY <1>1, <1>2 DEF ImageStaged, Used, NoTask
<1>6. NamedByOne'
  BY <1>1, <1>2 DEF NamedByOne, HeldUnnamed
<1>7. HeldByOne'
  BY <1>1, <1>2 DEF HeldByOne, Holding, NoTask
<1>8. HeldUnnamed'
  BY <1>1, <1>2 DEF HeldByOne, HeldUnnamed, Holding, Task, NoTask
<1>9. HeldNotOld'
  BY <1>1, <1>2 DEF ImageStaged, HeldNotOld, Holding, NoTask
<1>10. OldOfOwner'
  <2> SUFFICES ASSUME NEW u \in ImageRequests, NEW o \in Owners,
                      task'[u].old \in Files, url'[o] = task'[u].old
               PROVE  o = task'[u].owner /\ task'[u].pc # "old"
    BY DEF OldOfOwner
  <2>1. task[u].old = task'[u].old /\ task[u].owner = task'[u].owner
    BY <1>1 DEF NoTask
  <2>2. url'[o] = url[o]
    BY <1>1, <1>2, <2>1 DEF HeldNotOld
  <2>3. o = task[u].owner /\ task[u].pc # "old"
    BY <2>1, <2>2 DEF OldOfOwner
  <2>4. ASSUME u = r PROVE FALSE
    <3>1. url'[task[r].owner] = task[r].old /\ task[r].old \in Files
      BY <2>1, <2>2, <2>3, <2>4
    <3>2. Holding(r) /\ task[r].file = task[r].old
      BY <1>1, <1>2, <3>1 DEF Holding
    <3> QED
      BY <1>1, <3>2 DEF HeldNotOld
  <2> QED
    BY <1>1, <2>1, <2>3, <2>4
<1>11. RowsHaveFiles'
  BY <1>1, <1>2 DEF ImageStaged, RowsHaveFiles, Holding
<1> QED
  BY <1>3, <1>4, <1>5, <1>6, <1>7, <1>8, <1>9, <1>10, <1>11

\* The row names the held file, which is marked as lost.
LEMMA WriteLostInv ==
  ASSUME NEW r \in ImageRequests,
         ImageInv, WriteLost(r)
  PROVE  ImageInv'
<1> USE ImageAssumption DEF ImageInv
<1>1. /\ task' \in [ImageRequests -> Task]
      /\ task[r].pc = "row"
      /\ \/ /\ task[r].op # "remove" /\ task'[r].op = task[r].op /\ task'[r].owner = task[r].owner /\ task'[r].old = task[r].old
            /\ task'[r].pc = "undo" /\ task'[r].file = task[r].file
         \/ task[r].op = "remove" /\ task'[r] = NoTask
      /\ \A u \in ImageRequests : u # r => task'[u] = task[u]
      /\ lost' = lost \cup ({task[r].file} \cap Files)
      /\ leaked' \subseteq Files
      /\ UNCHANGED file
  BY DEF WriteLost, Goto, End, NoTask, ImageTyped, Task
<1>2. /\ \A o \in Owners :
           \/ url'[o] = url[o]
           \/ task[r].op = "remove" /\ url'[o] = Absent
           \/ Holding(r) /\ o = task[r].owner /\ url'[o] = task[r].file
      /\ url' \in [Owners -> Files \cup {NoFile, Absent}]
      /\ task[r].owner \in Owners
      /\ url'[task[r].owner] = IF task[r].op = "remove" THEN Absent ELSE task[r].file
  BY DEF WriteLost, Written, ImageTyped, ImageStaged, Holding, Task
<1>3. ImageTyped'
  BY <1>1, <1>2 DEF ImageTyped
<1>4. ImageStaged'
  BY <1>1, <1>2 DEF ImageStaged, Holding, NoTask
<1>5. Used'
  BY <1>1, <1>2 DEF ImageStaged, Used, NoTask
<1>6. NamedByOne'
  BY <1>1, <1>2 DEF NamedByOne, HeldUnnamed
<1>7. HeldByOne'
  BY <1>1, <1>2 DEF HeldByOne, Holding, NoTask
<1>8. HeldUnnamed'
  BY <1>1, <1>2 DEF ImageStaged, HeldByOne, HeldUnnamed, Holding, NoTask
<1>9. HeldNotOld'
  BY <1>1, <1>2 DEF ImageStaged, HeldNotOld, Holding, NoTask
<1>10. OldOfOwner'
  BY <1>1, <1>2 DEF HeldNotOld, OldOfOwner, NoTask
<1>11. RowsHaveFiles'
  BY <1>1, <1>2 DEF RowsHaveFiles
<1> QED
  BY <1>3, <1>4, <1>5, <1>6, <1>7, <1>8, <1>9, <1>10, <1>11

\* The file deleted is one that no row names, unless it is lost.
LEMMA DeleteInv ==
  ASSUME NEW r \in ImageRequests,
         ImageInv, Delete(r) \/ DeleteFails(r)
  PROVE  ImageInv'
<1> USE ImageAssumption DEF ImageInv
<1>1. /\ task' \in [ImageRequests -> Task]
      /\ task[r].pc \in {"undo", "old"} /\ task'[r] = NoTask
      /\ \A u \in ImageRequests : u # r => task'[u] = task[u]
      /\ \/ file' = [f \in Files |-> IF f \in Deleted(r) THEN "gone" ELSE file[f]]
         \/ UNCHANGED file
      /\ leaked' \subseteq Files
      /\ UNCHANGED <<url, lost>>
  BY DEF Delete, DeleteFails, End, NoTask, Deleted, ImageTyped, ImageStaged, Holding, Task
<1>2. ImageTyped'
  BY <1>1 DEF ImageTyped
<1>3. ImageStaged'
  BY <1>1 DEF ImageStaged, HeldByOne, HeldNotOld, Holding, NoTask, Deleted
<1>4. Used'
  BY <1>1 DEF Used, NoTask
<1>5. NamedByOne'
  BY <1>1 DEF NamedByOne
<1>6. HeldByOne'
  BY <1>1 DEF HeldByOne, Holding, NoTask
<1>7. HeldUnnamed'
  BY <1>1 DEF HeldUnnamed, Holding, NoTask
<1>8. HeldNotOld'
  BY <1>1 DEF ImageStaged, HeldNotOld, Holding, NoTask
<1>9. OldOfOwner'
  BY <1>1 DEF OldOfOwner, NoTask
<1>10. RowsHaveFiles'
  BY <1>1 DEF HeldUnnamed, OldOfOwner, RowsHaveFiles, Holding, Deleted
<1> QED
  BY <1>2, <1>3, <1>4, <1>5, <1>6, <1>7, <1>8, <1>9, <1>10

\* No request is left.
LEMMA StopInv ==
  ASSUME ImageInv, Stop
  PROVE  ImageInv'
<1> USE ImageAssumption DEF ImageInv
<1>1. /\ task' \in [ImageRequests -> Task]
      /\ \A u \in ImageRequests : task'[u] = NoTask
      /\ leaked' \subseteq Files
      /\ UNCHANGED <<url, file, lost>>
  BY DEF Stop, NoTask, Owed, ImageTyped, ImageStaged, Holding, Task
<1>2. ImageTyped'
  BY <1>1 DEF ImageTyped
<1>3. ImageStaged'
  BY <1>1 DEF ImageStaged, Holding, NoTask
<1>4. Used'
  BY <1>1 DEF Used, NoTask
<1>5. NamedByOne'
  BY <1>1 DEF NamedByOne
<1>6. HeldByOne'
  BY <1>1 DEF HeldByOne, Holding, NoTask
<1>7. HeldUnnamed'
  BY <1>1 DEF HeldUnnamed, Holding, NoTask
<1>8. HeldNotOld'
  BY <1>1 DEF HeldNotOld, Holding, NoTask
<1>9. OldOfOwner'
  BY <1>1 DEF OldOfOwner, NoTask
<1>10. RowsHaveFiles'
  BY <1>1 DEF RowsHaveFiles
<1> QED
  BY <1>2, <1>3, <1>4, <1>5, <1>6, <1>7, <1>8, <1>9, <1>10

-----------------------------------------------------------------------------
\* Every step of any request, and a stop, preserve the invariant.
LEMMA ImageStep == ImageInv /\ [ImageNext]_imageVars => ImageInv'
<1> SUFFICES ASSUME ImageInv, [ImageNext]_imageVars PROVE ImageInv'
  OBVIOUS
<1>1. ASSUME NEW r \in ImageRequests, NEW o \in Owners,
             Create(r, o) \/ Replace(r, o) \/ Remove(r, o)
      PROVE  ImageInv'
  BY <1>1, BeginInv
<1>2. ASSUME NEW r \in ImageRequests, NEW f \in Files,
             SaveOriginal(r, f) \/ SaveFails(r, f)
      PROVE  ImageInv'
  BY <1>2, SaveOriginalInv, SaveFailsInv
<1>3. ASSUME NEW r \in ImageRequests,
             \/ SaveVariants(r) \/ VariantsFail(r)
             \/ WriteRow(r) \/ WriteFails(r) \/ WriteLost(r)
             \/ Delete(r) \/ DeleteFails(r)
      PROVE  ImageInv'
  BY <1>3, SaveVariantsInv, UndoInv, WriteRowInv, WriteLostInv, DeleteInv
<1>4. CASE Stop
  BY <1>4, StopInv
<1>5. CASE UNCHANGED imageVars
  BY <1>5 DEF imageVars, ImageInv, ImageTyped, ImageStaged, Used, NamedByOne, HeldByOne,
              HeldUnnamed, HeldNotOld, OldOfOwner, RowsHaveFiles, Holding
<1> QED
  BY <1>1, <1>2, <1>3, <1>4, <1>5 DEF ImageNext

\* The invariant holds in every state: the files rows name, the files requests hold
\* and the ghosts agree, whatever replaces, removals, failures and stops cross.
THEOREM ImageInvariant == ImageSpec => []ImageInv
<1>1. ImageInit => ImageInv
  BY ImageInitInv
<1> QED
  BY <1>1, ImageStep, PTL DEF ImageSpec

\* Rows, files and requests keep their types, and a row is written only for a
\* picture that has all its variants (ImageStorageService.save comes first).
THEOREM ImageTypes == ImageSpec => []ImageTypeOK
<1>1. ImageInv => ImageTypeOK
  BY DEF ImageInv, ImageTyped, ImageStaged, ImageTypeOK
<1> QED
  BY <1>1, ImageInvariant, PTL

\* No broken picture, for any number of rows, pictures and crossing requests: the
\* file a row names is there, unless the row's own statement lost its answer.
THEOREM NoBrokenPicture == ImageSpec => []RowsHaveFiles
<1>1. ImageInv => RowsHaveFiles
  BY DEF ImageInv
<1> QED
  BY <1>1, ImageInvariant, PTL

-----------------------------------------------------------------------------
\* A file on disk stays accounted for: what leaves a row or a request goes to
\* another of them, or is counted as left over.
LEMMA OrphansStep ==
  ImageInv /\ OrphansExplained /\ [ImageNext]_imageVars => OrphansExplained'
<1> SUFFICES ASSUME ImageInv, OrphansExplained, [ImageNext]_imageVars,
                    NEW f \in Files, file'[f] \in {"original", "complete"}
             PROVE  \/ \E o \in Owners : url'[o] = f
                    \/ \E r \in ImageRequests : f \in Owed(r)'
                    \/ f \in leaked'
  BY DEF OrphansExplained
<1> USE ImageAssumption DEF ImageInv
<1>1. ASSUME NEW r \in ImageRequests, NEW o \in Owners,
             Create(r, o) \/ Replace(r, o) \/ Remove(r, o)
      PROVE  \/ \E p \in Owners : url'[p] = f
             \/ \E u \in ImageRequests : f \in Owed(u)'
             \/ f \in leaked'
  <2>1. /\ task[r].pc = "idle" /\ UNCHANGED <<url, file, leaked>>
        /\ \A u \in ImageRequests : u # r => task'[u] = task[u]
    BY <1>1 DEF Create, Replace, Remove, ImageTyped
  <2>2. Owed(r) = {}
    BY <2>1 DEF Owed
  <2>3. \A u \in ImageRequests : u # r => Owed(u)' = Owed(u)
    BY <2>1 DEF Owed
  <2> QED
    BY <2>1, <2>2, <2>3 DEF OrphansExplained
<1>2. ASSUME NEW r \in ImageRequests, NEW g \in Files,
             SaveOriginal(r, g) \/ SaveFails(r, g)
      PROVE  \/ \E p \in Owners : url'[p] = f
             \/ \E u \in ImageRequests : f \in Owed(u)'
             \/ f \in leaked'
  <2>1. /\ task[r].pc = "save" /\ UNCHANGED url
        /\ \A u \in ImageRequests : u # r => task'[u] = task[u]
        /\ file' = [file EXCEPT ![g] = "original"]
        /\ leaked \subseteq leaked'
    BY <1>2 DEF SaveOriginal, SaveFails, End, ImageTyped
  <2>2. Owed(r) = {}
    BY <2>1 DEF Owed
  <2>3. \A u \in ImageRequests : u # r => Owed(u)' = Owed(u)
    BY <2>1 DEF Owed
  <2>4. g \in Owed(r)' \/ g \in leaked'
    BY <1>2 DEF SaveOriginal, SaveFails, End, Owed, ImageTyped, Task
  <2>5. CASE f = g
    BY <2>4, <2>5
  <2>6. CASE f # g
    <3>1. file[f] \in {"original", "complete"}
      BY <2>1, <2>6 DEF ImageTyped
    <3> QED
      BY <2>1, <2>2, <2>3, <3>1 DEF OrphansExplained
  <2> QED
    BY <2>5, <2>6
<1>3. ASSUME NEW r \in ImageRequests,
             SaveVariants(r) \/ VariantsFail(r) \/ WriteFails(r)
      PROVE  \/ \E p \in Owners : url'[p] = f
             \/ \E u \in ImageRequests : f \in Owed(u)'
             \/ f \in leaked'
  <2>1. /\ UNCHANGED <<url, leaked>>
        /\ \A u \in ImageRequests : u # r => task'[u] = task[u]
        /\ f # task[r].file => file'[f] = file[f]
    BY <1>3 DEF SaveVariants, VariantsFail, WriteFails, Goto, End, ImageTyped
  <2>2. \A u \in ImageRequests : u # r => Owed(u)' = Owed(u)
    BY <2>1 DEF Owed
  <2>3. Owed(r)' = Owed(r) /\ (UNCHANGED file \/ task[r].file \in Owed(r))
    <3>1. CASE SaveVariants(r) \/ VariantsFail(r)
      <4>1. /\ task[r].pc = "variants" /\ task[r].op # "remove"
            /\ task'[r].pc \in {"row", "undo"}
            /\ task'[r].file = task[r].file /\ task'[r].op = task[r].op
        BY <3>1 DEF SaveVariants, VariantsFail, Goto, ImageTyped, Task, ImageStaged
      <4> QED
        BY <4>1 DEF Owed
    <3>2. CASE WriteFails(r)
      <4>1. /\ task[r].pc = "row" /\ UNCHANGED file
            /\ \/ task[r].op = "remove" /\ task'[r].pc = "idle"
               \/ /\ task[r].op # "remove" /\ task'[r].pc = "undo"
                  /\ task'[r].file = task[r].file
        BY <3>2 DEF WriteFails, Goto, End, NoTask, ImageTyped, Task
      <4> QED
        BY <4>1 DEF Owed
    <3> QED
      BY <1>3, <3>1, <3>2
  <2> QED
    BY <2>1, <2>2, <2>3 DEF OrphansExplained
<1>4. ASSUME NEW r \in ImageRequests, WriteRow(r) \/ WriteLost(r)
      PROVE  \/ \E p \in Owners : url'[p] = f
             \/ \E u \in ImageRequests : f \in Owed(u)'
             \/ f \in leaked'
  <2> DEFINE o == task[r].owner
  <2>1. /\ UNCHANGED file /\ leaked \subseteq leaked'
        /\ \A u \in ImageRequests : u # r => task'[u] = task[u]
        /\ o \in Owners
        /\ \A p \in Owners : p # o => url'[p] = url[p]
        /\ task[r].op # "remove" => url'[o] = task[r].file
    BY <1>4 DEF WriteRow, WriteLost, Written, Goto, End, ImageTyped, ImageStaged
  <2>2. \A u \in ImageRequests : u # r => Owed(u)' = Owed(u)
    BY <2>1 DEF Owed
  <2>3. f \in Owed(r) => url'[o] = f
    BY <1>4, <2>1 DEF WriteRow, WriteLost, Owed
  <2>4. url[o] = f => f \in leaked' \/ f \in Owed(r)'
    BY <1>4 DEF WriteRow, WriteLost, Forgotten, Goto, End, Owed, ImageTyped, Task
  <2> HIDE DEF o
  <2> QED
    BY <2>1, <2>2, <2>3, <2>4 DEF OrphansExplained
<1>5. ASSUME NEW r \in ImageRequests, Delete(r) \/ DeleteFails(r)
      PROVE  \/ \E p \in Owners : url'[p] = f
             \/ \E u \in ImageRequests : f \in Owed(u)'
             \/ f \in leaked'
  <2>1. /\ UNCHANGED url /\ leaked \subseteq leaked'
        /\ \A u \in ImageRequests : u # r => task'[u] = task[u]
        /\ file[f] \in {"original", "complete"}
        /\ f \in Deleted(r) => f \in leaked'
    BY <1>5 DEF Delete, DeleteFails, End, ImageTyped
  <2>2. \A u \in ImageRequests : u # r => Owed(u)' = Owed(u)
    BY <2>1 DEF Owed
  <2>3. Owed(r) = Deleted(r)
    BY <1>5 DEF Delete, DeleteFails, Owed, Deleted
  <2> QED
    BY <2>1, <2>2, <2>3 DEF OrphansExplained
<1>6. CASE Stop
  BY <1>6 DEF Stop, OrphansExplained
<1>7. CASE UNCHANGED imageVars
  <2>1. \A r \in ImageRequests : Owed(r)' = Owed(r)
    BY <1>7 DEF imageVars, Owed
  <2> QED
    BY <1>7, <2>1 DEF imageVars, OrphansExplained
<1> QED
  BY <1>1, <1>2, <1>3, <1>4, <1>5, <1>6, <1>7 DEF ImageNext

\* No file is left behind without one of the four reasons the code knows of, for
\* any number of rows, pictures and crossing requests.
THEOREM OrphansHaveReasons == ImageSpec => []OrphansExplained
<1>1. ImageInit => OrphansExplained
  BY ImageInitInv
<1> QED
  BY <1>1, ImageInvariant, OrphansStep, PTL DEF ImageSpec

-----------------------------------------------------------------------------
(* BackupRuns.  The copy in memory is complete once its tables are read,   *)
(* the mirror grows into it value by value, and the copy sent last is what *)
(* the mirror holds until a run writes, which marks the mirror when it     *)
(* then fails.                                                             *)

\* What a run has read, and what of it the mirror already has.
RunSound ==
  /\ run.stage = "collect" =>
       /\ run.copy \in Copy /\ ~run.wrote
       /\ \A t \in Tables : t < run.next => run.copy[t] \in Contents
  /\ run.stage \in {"layout", "clear", "values"} => run.copy \in [Tables -> Contents]
  /\ run.stage \in {"layout", "clear"} => run.next = 1
  /\ run.stage \in {"none", "layout"} => ~run.wrote
  /\ run.stage \in {"clear", "values"} => run.wrote
  /\ run.stage = "values" =>
       /\ run.next \in Tables
       /\ \A t \in Tables : t < run.next => sheet[t] = run.copy[t]

\* Until a run writes, the mirror holds what was sent last.
Remembered == ~damaged /\ ~run.wrote /\ sent # NoCopy => sheet = sent

\* Who waits waits for a run, and one it did not join is forced.
CallSound ==
  /\ result \in {"SENT", "UNCHANGED"} => sent # NoCopy
  /\ forced.stage = "waiting" => run.stage # "none" /\ (forced.joined \/ run.force)

BackupInv == BackupTypeOK /\ RunSound /\ Remembered /\ CallSound /\ ForcedSends

-----------------------------------------------------------------------------
\* No run and no call are a run and a call.
LEMMA NothingTyped == NoRun \in RunRow /\ NoCall \in CallRow
<1>1. NoRun \in RunRow
  BY BackupAssumption DEF NoRun, RunRow
<1>2. NoCall \in CallRow
  BY DEF NoCall, CallRow, Results
<1> QED
  BY <1>1, <1>2

\* Nothing was sent, nothing runs.
LEMMA BackupInitInv == BackupInit => BackupInv
<1> SUFFICES ASSUME BackupInit PROVE BackupInv
  OBVIOUS
<1> USE BackupAssumption DEF BackupInit
<1>1. BackupTypeOK
  BY NothingTyped DEF BackupTypeOK, Results, Copy
<1>2. RunSound /\ Remembered /\ CallSound /\ ForcedSends
  BY DEF RunSound, Remembered, CallSound, ForcedSends, NoRun, NoCall
<1> QED
  BY <1>1, <1>2 DEF BackupInv

\* A run ends: who waited is answered.
LEMMA FinishCall ==
  ASSUME BackupInv, NEW outcome \in Results, Finish(outcome), run.stage # "none",
         outcome = "UNCHANGED" => ~run.force
  PROVE  /\ run' = NoRun /\ result' = outcome
         /\ run' \in RunRow /\ result' \in Results /\ forced' \in CallRow
         /\ forced'.stage # "waiting"
         /\ ForcedSends'
<1> USE BackupAssumption DEF BackupInv
<1>1. NoRun \in RunRow
  BY NothingTyped
<1>2. forced \in CallRow
  BY DEF BackupTypeOK
<1>3. [forced EXCEPT !.stage = "answered", !.result = outcome] \in CallRow
  BY <1>2 DEF CallRow
<1>4. /\ run' = NoRun /\ result' = outcome
      /\ forced' = IF forced.stage = "waiting"
                   THEN [forced EXCEPT !.stage = "answered", !.result = outcome]
                   ELSE forced
  BY DEF Finish
<1>5. forced' \in CallRow /\ forced'.stage # "waiting"
  BY <1>2, <1>3, <1>4 DEF CallRow
<1>6. ForcedSends'
  BY <1>2, <1>4 DEF ForcedSends, CallSound, CallRow
<1> QED
  BY <1>1, <1>4, <1>5, <1>6

\* Runs begin: by the timer, by an admin, who may find one in progress.
LEMMA StartInv ==
  ASSUME BackupInv, RunTimer \/ RunForced \/ ForcedAnswered
  PROVE  BackupInv'
<1> USE BackupAssumption DEF BackupInv
<1>1. UNCHANGED <<db, sheet, sent, result, damaged>>
  BY DEF RunTimer, RunForced, ForcedAnswered
<1>2. /\ forced' \in CallRow
      /\ forced'.stage # "answered" \/ forced' = forced
      /\ forced'.stage = "waiting" => forced' = forced \/ forced'.joined \/ run.stage = "none"
  <2>1. forced \in CallRow
    BY DEF BackupTypeOK
  <2>2. CASE RunTimer
    BY <2>1, <2>2 DEF RunTimer
  <2>3. CASE ForcedAnswered
    BY <2>3, NothingTyped DEF ForcedAnswered, NoCall
  <2>4. CASE RunForced
    <3> DEFINE new == [stage |-> "waiting", joined |-> run.stage # "none", result |-> "none"]
    <3>1. /\ new \in CallRow /\ new.stage = "waiting"
          /\ new.joined \/ run.stage = "none"
      BY DEF CallRow, Results
    <3>2. forced' = new
      BY <2>4 DEF RunForced
    <3> HIDE DEF new
    <3> QED
      BY <3>1, <3>2
  <2> QED
    BY <2>2, <2>3, <2>4
<1>3. ASSUME NEW force \in BOOLEAN, StartRun(force), run.stage = "none"
      PROVE  /\ run' \in RunRow /\ run'.stage = "collect" /\ ~run'.wrote /\ run'.force = force
             /\ run'.copy \in Copy /\ run'.next = 1
  BY <1>3 DEF StartRun, RunRow, Copy
<1>4. \/ UNCHANGED run
      \/ /\ run.stage = "none" /\ run' \in RunRow /\ run'.stage = "collect" /\ ~run'.wrote
         /\ run'.copy \in Copy /\ run'.next = 1
  BY <1>3 DEF RunTimer, RunForced, ForcedAnswered
<1>5. BackupTypeOK'
  BY <1>1, <1>2, <1>4 DEF BackupTypeOK
<1>6. RunSound'
  <2>1. CASE UNCHANGED run
    BY <1>1, <2>1 DEF RunSound
  <2>2. CASE ~UNCHANGED run
    BY <1>4, <2>2 DEF RunSound, Tables
  <2> QED
    BY <2>1, <2>2
<1>7. Remembered'
  BY <1>1, <1>4 DEF Remembered, RunSound
<1>8. CallSound'
  <2>1. CASE RunTimer
    BY <1>1, <1>4, <2>1 DEF CallSound, RunTimer
  <2>2. CASE RunForced
    BY <1>1, <1>3, <2>2 DEF CallSound, RunForced
  <2>3. CASE ForcedAnswered
    BY <1>1, <2>3 DEF CallSound, ForcedAnswered, NoCall
  <2> QED
    BY <2>1, <2>2, <2>3
<1>9. ForcedSends'
  BY <1>2 DEF ForcedSends
<1> QED
  BY <1>5, <1>6, <1>7, <1>8, <1>9

\* The tables are read one by one, and compared with what was sent.
LEMMA CollectInv ==
  ASSUME BackupInv, ReadTable \/ ReadFails \/ Unchanged \/ Changed
  PROVE  BackupInv'
<1> USE BackupAssumption DEF BackupInv
<1>1. run \in RunRow /\ run.stage = "collect" /\ run.copy \in Copy /\ ~run.wrote
  BY DEF ReadTable, ReadFails, Unchanged, Changed, Collected, BackupTypeOK, RunSound
<1>2. Collected => run.copy \in [Tables -> Contents]
  <2>1. Collected => \A t \in Tables : t < run.next
    BY <1>1 DEF Collected, RunRow, Tables
  <2> QED
    BY <1>1, <2>1 DEF RunSound, Copy
<1>3. CASE ReadTable
  <2>1. PICK n \in Tables : n = run.next
    BY <1>3 DEF ReadTable
  <2>2. db[n] \in Contents
    BY DEF BackupTypeOK
  <2> DEFINE copy == [run.copy EXCEPT ![n] = db[n]]
             new == [run EXCEPT !.copy = copy, !.next = n + 1]
  <2>3. copy \in Copy /\ \A t \in Tables : t < n + 1 => copy[t] \in Contents
    BY <1>1, <2>1, <2>2 DEF Copy, RunSound, Tables
  <2>4. run' = new /\ UNCHANGED <<db, sheet, sent, result, forced, damaged>>
    BY <1>3, <2>1 DEF ReadTable
  <2> HIDE DEF copy
  <2>5. /\ new \in RunRow /\ new.stage = "collect" /\ ~new.wrote /\ new.copy = copy
        /\ new.next = n + 1 /\ new.force = run.force
    <3>1. n + 1 \in 1..(TableCount + 1)
      BY DEF Tables
    <3> QED
      BY <1>1, <2>3, <3>1 DEF RunRow
  <2> HIDE DEF new
  <2>6. BackupTypeOK'
    BY <2>4, <2>5 DEF BackupTypeOK
  <2>7. RunSound'
    BY <2>3, <2>4, <2>5 DEF RunSound
  <2> QED
    BY <1>1, <2>4, <2>5, <2>6, <2>7 DEF Remembered, CallSound, ForcedSends
<1>4. CASE Changed
  <2> DEFINE new == [run EXCEPT !.stage = "layout", !.next = 1]
  <2>1. run' = new /\ UNCHANGED <<db, sheet, sent, result, forced, damaged>> /\ Collected
    BY <1>4 DEF Changed
  <2>2. /\ new \in RunRow /\ new.stage = "layout" /\ ~new.wrote /\ new.copy = run.copy
        /\ new.next = 1 /\ new.force = run.force
    <3>1. 1 \in 1..(TableCount + 1)
      OBVIOUS
    <3> QED
      BY <1>1, <3>1 DEF RunRow
  <2> HIDE DEF new
  <2>3. BackupTypeOK'
    BY <2>1, <2>2 DEF BackupTypeOK
  <2>4. RunSound'
    BY <1>2, <2>1, <2>2 DEF RunSound
  <2> QED
    BY <1>1, <2>1, <2>2, <2>3, <2>4 DEF Remembered, CallSound, ForcedSends
<1>5. ASSUME NEW outcome \in {"FAILED", "UNCHANGED"}, Finish(outcome),
             UNCHANGED <<db, sheet, sent, damaged>>,
             outcome = "UNCHANGED" => ~run.force /\ sent # NoCopy
      PROVE  BackupInv'
  <2>1. /\ run' = NoRun /\ result' = outcome
        /\ run' \in RunRow /\ result' \in Results /\ forced' \in CallRow
        /\ forced'.stage # "waiting" /\ ForcedSends'
    BY <1>1, <1>5, FinishCall DEF Results
  <2>2. BackupTypeOK'
    BY <1>5, <2>1 DEF BackupTypeOK
  <2>3. RunSound' /\ Remembered' /\ CallSound'
    BY <1>1, <1>5, <2>1 DEF RunSound, Remembered, CallSound, NoRun
  <2> QED
    BY <2>1, <2>2, <2>3
<1>6. CASE ReadFails
  BY <1>5, <1>6 DEF ReadFails
<1>7. CASE Unchanged
  BY <1>2, <1>5, <1>7 DEF Unchanged
<1> QED
  BY <1>3, <1>4, <1>6, <1>7

\* A call of the mirror that throws: the run has failed, and the mirror is marked if
\* anything was written.
LEMMA CallFailsInv ==
  ASSUME BackupInv, NEW newSheet \in Copy, CallFails(newSheet),
         run.stage \in {"layout", "clear", "values"}
  PROVE  BackupInv'
<1> USE BackupAssumption DEF BackupInv
<1>1. PICK done \in BOOLEAN :
        /\ sheet' = IF done THEN newSheet ELSE sheet
        /\ damaged' = (damaged \/ run.wrote \/ done)
        /\ Finish("FAILED") /\ UNCHANGED <<db, sent>>
  BY DEF CallFails
<1>2. /\ run' = NoRun /\ result' = "FAILED"
      /\ run' \in RunRow /\ result' \in Results /\ forced' \in CallRow
      /\ forced'.stage # "waiting" /\ ForcedSends'
  BY <1>1, FinishCall DEF Results
<1>3. run.wrote \in BOOLEAN /\ damaged \in BOOLEAN
  BY DEF BackupTypeOK, RunRow
<1>4. BackupTypeOK'
  BY <1>1, <1>2, <1>3 DEF BackupTypeOK
<1>5. RunSound' /\ CallSound'
  BY <1>2 DEF RunSound, CallSound, NoRun
<1>6. Remembered'
  BY <1>1, <1>3 DEF Remembered
<1> QED
  BY <1>2, <1>4, <1>5, <1>6

\* A call that returns: the run goes on, and has written.
LEMMA CallReturnsInv ==
  ASSUME BackupInv, NEW newSheet \in Copy, NEW newRun \in RunRow,
         CallReturns(newSheet, newRun),
         newRun.stage \in {"clear", "values"}, newRun.force = run.force,
         newRun.copy \in [Tables -> Contents],
         newRun.stage = "clear" => newRun.next = 1,
         newRun.stage = "values" =>
           newRun.next \in Tables
           /\ \A t \in Tables : t < newRun.next => newSheet[t] = newRun.copy[t],
         run.stage # "none"
  PROVE  BackupInv'
<1> USE BackupAssumption DEF BackupInv
<1> DEFINE new == [newRun EXCEPT !.wrote = TRUE]
<1>1. /\ sheet' = newSheet /\ run' = new
      /\ UNCHANGED <<db, sent, result, forced, damaged>>
  BY DEF CallReturns
<1>2. /\ new \in RunRow /\ new.wrote /\ new.stage = newRun.stage /\ new.next = newRun.next
      /\ new.copy = newRun.copy /\ new.force = run.force
  BY DEF RunRow
<1> HIDE DEF new
<1>3. BackupTypeOK'
  BY <1>1, <1>2 DEF BackupTypeOK
<1>4. RunSound'
  BY <1>1, <1>2 DEF RunSound
<1> QED
  BY <1>1, <1>2, <1>3, <1>4 DEF Remembered, CallSound, ForcedSends

\* The mirror is laid out, cleared and filled.
LEMMA MirrorInv ==
  ASSUME BackupInv, Layout \/ BatchClear \/ PutValues
  PROVE  BackupInv'
<1> USE BackupAssumption DEF BackupInv
<1>1. run \in RunRow /\ sheet \in Copy /\ run.copy \in [Tables -> Contents]
  BY DEF Layout, BatchClear, PutValues, BackupTypeOK, RunSound
<1>2. CASE Layout
  <2>1. PICK cut \in SUBSET Tables :
          LET fitted == [t \in Tables |-> IF t \in cut THEN Cleared ELSE sheet[t]] IN
          CallReturns(fitted, [run EXCEPT !.stage = "clear"]) \/ CallFails(fitted)
    BY <1>2 DEF Layout
  <2> DEFINE fitted == [t \in Tables |-> IF t \in cut THEN Cleared ELSE sheet[t]]
             new == [run EXCEPT !.stage = "clear"]
  <2>2. fitted \in Copy
    BY <1>1 DEF Copy
  <2>3. CallReturns(fitted, new) \/ CallFails(fitted)
    BY <2>1
  <2>4. /\ new \in RunRow /\ new.stage = "clear" /\ new.copy = run.copy /\ new.force = run.force
        /\ new.next = run.next
    BY <1>1 DEF RunRow
  <2>5. run.stage = "layout" /\ run.next = 1
    BY <1>2 DEF Layout, RunSound
  <2> HIDE DEF fitted, new
  <2> QED
    BY <1>1, <2>2, <2>3, <2>4, <2>5, CallReturnsInv, CallFailsInv
<1>3. CASE BatchClear
  <2> DEFINE empty == [t \in Tables |-> Cleared]
             new == [run EXCEPT !.stage = "values"]
  <2>1. empty \in Copy
    BY DEF Copy
  <2>2. CallReturns(empty, new) \/ CallFails(empty)
    BY <1>3 DEF BatchClear
  <2>3. run.stage = "clear" /\ run.next = 1
    BY <1>3 DEF BatchClear, RunSound
  <2>4. /\ new \in RunRow /\ new.stage = "values" /\ new.copy = run.copy
        /\ new.force = run.force /\ new.next = 1
    BY <1>1, <2>3 DEF RunRow
  <2>5. 1 \in Tables /\ \A t \in Tables : ~(t < 1)
    BY DEF Tables
  <2> HIDE DEF empty, new
  <2> QED
    BY <1>1, <2>1, <2>2, <2>3, <2>4, <2>5, CallReturnsInv, CallFailsInv
<1>4. CASE PutValues
  <2>1. PICK n \in Tables : /\ n = run.next /\ run.stage = "values"
                            /\ \A t \in Tables : t < n => sheet[t] = run.copy[t]
    BY <1>4 DEF PutValues, RunSound
  <2> DEFINE put == [sheet EXCEPT ![n] = run.copy[n]]
             new == [run EXCEPT !.next = n + 1]
  <2>2. put \in Copy /\ \A t \in Tables : t < n + 1 => put[t] = run.copy[t]
    BY <1>1, <2>1 DEF Copy, Tables
  <2>3. \/ n < TableCount /\ CallReturns(put, new)
        \/ n = TableCount /\ sheet' = put /\ Sent
        \/ CallFails(put)
    BY <1>4, <2>1 DEF PutValues
  <2> HIDE DEF put
  <2>4. CASE CallFails(put)
    BY <2>1, <2>2, <2>4, CallFailsInv
  <2>5. CASE n < TableCount /\ CallReturns(put, new)
    <3>1. /\ new \in RunRow /\ new.stage = "values" /\ new.copy = run.copy
          /\ new.force = run.force /\ new.next = n + 1 /\ n + 1 \in Tables
      BY <1>1, <2>1, <2>5 DEF RunRow, Tables
    <3> HIDE DEF new
    <3> QED
      BY <1>1, <2>1, <2>2, <2>5, <3>1, CallReturnsInv
  <2>6. CASE n = TableCount /\ sheet' = put /\ Sent
    <3>1. sheet' = run.copy
      <4>1. \A t \in Tables : put[t] = run.copy[t]
        BY <2>2, <2>6 DEF Tables
      <4>2. put = [t \in Tables |-> put[t]] /\ run.copy = [t \in Tables |-> run.copy[t]]
        BY <1>1, <2>2 DEF Copy
      <4> QED
        BY <1>1, <2>6, <4>1, <4>2
    <3>2. /\ run' = NoRun /\ result' = "SENT"
          /\ run' \in RunRow /\ result' \in Results /\ forced' \in CallRow
          /\ forced'.stage # "waiting" /\ ForcedSends'
      BY <2>1, <2>6, FinishCall DEF Sent, Results
    <3>3. sent' = run.copy /\ damaged' = FALSE /\ UNCHANGED db
      BY <2>6 DEF Sent
    <3>4. BackupTypeOK'
      BY <1>1, <2>2, <2>6, <3>2, <3>3 DEF BackupTypeOK
    <3>5. RunSound' /\ Remembered' /\ CallSound'
      BY <1>1, <3>1, <3>2, <3>3 DEF RunSound, Remembered, CallSound, NoRun
    <3> QED
      BY <3>2, <3>4, <3>5
  <2> QED
    BY <2>3, <2>4, <2>5, <2>6
<1> QED
  BY <1>2, <1>3, <1>4

\* The rest of the system writes; the process restarts.
LEMMA OutsideInv ==
  ASSUME BackupInv, Restart \/ \E t \in Tables, c \in Contents : WriteTable(t, c)
  PROVE  BackupInv'
<1> USE BackupAssumption DEF BackupInv
<1>1. CASE Restart
  <2>1. BackupTypeOK'
    BY <1>1, NothingTyped DEF Restart, BackupTypeOK, Results
  <2>2. RunSound' /\ Remembered' /\ CallSound' /\ ForcedSends'
    BY <1>1 DEF Restart, RunSound, Remembered, CallSound, ForcedSends, NoRun, NoCall
  <2> QED
    BY <2>1, <2>2
<1>2. ASSUME NEW t \in Tables, NEW c \in Contents, WriteTable(t, c) PROVE BackupInv'
  BY <1>2 DEF WriteTable, BackupTypeOK, RunSound, Remembered, CallSound, ForcedSends
<1> QED
  BY <1>1, <1>2

-----------------------------------------------------------------------------
LEMMA BackupStep == ASSUME BackupInv, [BackupNext]_backupVars PROVE BackupInv'
<1>1. CASE UNCHANGED backupVars
  BY <1>1 DEF backupVars, BackupInv, BackupTypeOK, RunSound, Remembered, CallSound,
     ForcedSends
<1> QED
  BY <1>1, StartInv, CollectInv, MirrorInv, OutsideInv DEF BackupNext, RunStep

\* The copy, the mirror and who waits agree in every reachable state.
THEOREM BackupInvariant == BackupSpec => []BackupInv
<1> QED
  BY BackupInitInv, BackupStep, PTL DEF BackupSpec

\* Between runs a status that says the copy was sent, or is unchanged since it was, is
\* right (backup.service.ts 121-134), unless a write since stopped half way.
THEOREM MirrorIsTheCopy == BackupSpec => []MirrorHolds
<1>1. BackupInv => MirrorHolds
  BY DEF BackupInv, RunSound, Remembered, CallSound, MirrorHolds
<1> QED
  BY <1>1, BackupInvariant, PTL

\* A forced call is answered UNCHANGED only when it joined a run already going
\* (backup.service.ts 80-83).
THEOREM ForcedIsSent == BackupSpec => []ForcedSends
<1>1. BackupInv => ForcedSends
  BY DEF BackupInv
<1> QED
  BY <1>1, BackupInvariant, PTL

-----------------------------------------------------------------------------
(* ContractDesk: what a request has done by each of its steps.             *)

DeskStaged ==
  \A a \in Agreements :
    /\ step[a] \in {"new", "drafted"} => ~agreement[a].url /\ a \notin delivered
    /\ step[a] \in {"saved", "marked", "delivered", "done"} => pdf[a]
    /\ step[a] \in {"marked", "delivered", "done"} => agreement[a].url
    /\ step[a] \in {"delivered", "done"} => a \in delivered

DeskInv == DeskTypeOK /\ DeskStaged /\ ContractsDownloadable

\* A step concerns one agreement: what it makes of that row, its file, the delivery and
\* the event decides.
LEMMA DeskRowInv ==
  ASSUME DeskInv, DeskTypeOK', NEW a \in Agreements,
         \A b \in Agreements \ {a} :
           /\ agreement'[b] = agreement[b] /\ pdf'[b] = pdf[b] /\ step'[b] = step[b]
           /\ b \in delivered' <=> b \in delivered
           /\ b \in announced' <=> b \in announced,
         /\ step'[a] \in {"new", "drafted"} => ~agreement'[a].url /\ a \notin delivered'
         /\ step'[a] \in {"saved", "marked", "delivered", "done"} => pdf'[a]
         /\ step'[a] \in {"marked", "delivered", "done"} => agreement'[a].url
         /\ step'[a] \in {"delivered", "done"} => a \in delivered'
         /\ agreement'[a].status = "SENT" <=> agreement'[a].url
         /\ agreement'[a].url \/ a \in delivered' \/ a \in announced' => pdf'[a]
         /\ a \in announced' => a \in delivered' /\ agreement'[a].status = "SENT"
  PROVE  DeskInv'
BY DEF DeskInv, DeskStaged, ContractsDownloadable

LEMMA DeskInitInv == DeskInit => DeskInv
BY DEF DeskInit, DeskInv, DeskTypeOK, DeskStaged, ContractsDownloadable

LEMMA DeskStep == ASSUME DeskInv, [DeskNext]_deskVars PROVE DeskInv'
<1> USE DEF Next1
<1> DEFINE Row == [status : {"none", "DRAFT", "SENT"}, url : BOOLEAN]
<1>a. /\ [status |-> "DRAFT", url |-> FALSE] \in Row
      /\ [status |-> "SENT", url |-> TRUE] \in Row
  OBVIOUS
<1>b. ASSUME NEW a \in Agreements,
             \/ UNCHANGED agreement
             \/ agreement' = [agreement EXCEPT ![a] = [status |-> "DRAFT", url |-> FALSE]]
             \/ agreement' = [agreement EXCEPT ![a] = [status |-> "SENT", url |-> TRUE]]
      PROVE  agreement' \in [Agreements -> Row]
  <2>1. agreement \in [Agreements -> Row]
    BY DEF DeskInv, DeskTypeOK
  <2> HIDE DEF Row
  <2>2. QED
    BY <1>a, <1>b, <2>1
<1>1. ASSUME NEW a \in Agreements, MakeDraft(a) \/ SavePdf(a) \/ MarkSent(a)
      PROVE  DeskInv'
  <2>1. DeskTypeOK'
    <3>1. agreement' \in [Agreements -> Row]
      BY <1>1, <1>b DEF MakeDraft, SavePdf, MarkSent
    <3>2. QED
      BY <1>1, <3>1 DEF MakeDraft, SavePdf, MarkSent, DeskInv, DeskTypeOK
  <2>2. QED
    BY <1>1, <2>1, DeskRowInv DEF MakeDraft, SavePdf, MarkSent, DeskInv, DeskTypeOK, DeskStaged,
                                  ContractsDownloadable
<1>2. ASSUME NEW a \in Agreements, Deliver(a) \/ Announced(a)
      PROVE  DeskInv'
  <2>1. DeskTypeOK'
    BY <1>2 DEF Deliver, Announced, DeskInv, DeskTypeOK
  <2>2. QED
    BY <1>2, <2>1, DeskRowInv DEF Deliver, Announced, DeskInv, DeskTypeOK, DeskStaged,
                                  ContractsDownloadable
<1>3. ASSUME NEW a \in Agreements, AbandonDraft(a)
      PROVE  DeskInv'
  <2>1. DeskTypeOK'
    <3>1. agreement' \in [Agreements -> Row]
      BY <1>3, <1>b DEF AbandonDraft
    <3>2. QED
      BY <1>3, <3>1 DEF AbandonDraft, DeskInv, DeskTypeOK
  <2>2. QED
    BY <1>3, <2>1, DeskRowInv DEF AbandonDraft, DeskInv, DeskTypeOK, DeskStaged,
                                  ContractsDownloadable
<1>4. CASE UNCHANGED deskVars
  BY <1>4 DEF deskVars, DeskInv, DeskTypeOK, DeskStaged, ContractsDownloadable
<1>5. QED
  BY <1>1, <1>2, <1>3, <1>4 DEF DeskNext

\* Types and the steps of every request, in every reachable state.
THEOREM DeskInvariant == DeskSpec => []DeskInv
<1>1. QED
  BY DeskInitInv, DeskStep, PTL DEF DeskSpec

\* Wherever a request stops a row names no file that is not there, and only a contract that
\* is stored and delivered is announced (notification.service.ts 192).
THEOREM SentContractsAreThere == DeskSpec => []ContractsDownloadable
<1>1. DeskInv => ContractsDownloadable
  BY DEF DeskInv
<1>2. QED
  BY <1>1, DeskInvariant, PTL

=============================================================================
