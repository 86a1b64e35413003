----------------------------- MODULE LocalExport -----------------------------
(***************************************************************************)
(* The command that exports the Qur'an to files.  It runs pools one after  *)
(* the other: the chapters of each script, of each translation, of each    *)
(* reciter, then the pages of the image mushafs.  The lanes of a pool take *)
(* its files in order; a lane that fails ends the step of its pool, while  *)
(* the other lanes go on to the end of their pool beside the later steps.  *)
(* The command may be killed at any moment and is then run again: files    *)
(* that are there are not fetched again.  A file is a path: translations   *)
(* of one author into one language write at the same paths, where the      *)
(* first to come stays.                                                    *)
(***************************************************************************)
EXTENDS Integers, Sequences, FiniteSets

CONSTANTS
  File,      \* the files, by their path
  Pools,     \* the pools in order: their step, how they fetch, and their files
  Lane,      \* the lanes of a pool
  Fatal,     \* steps whose failure ends the run: those that are not in a runStep
  MaxTries,  \* attempts after the first
  MaxExports    \* bound on the runs

(* How a file comes: as JSON with a token, page by page, or without one; as a download, by *)
(* itself or from a list of recordings asked for first; or copied from uploads.            *)
Way == {"session", "public", "binary", "audio", "copy"}

\* Pools of two steps write in folders of their own; those of one step may share files, as the
\* pages of a mushaf that are copied and then downloaded, and a pool may name a file twice.
ASSUME ExportAssumption ==
  /\ Pools \in Seq([step: STRING, way: Way, files: Seq(File)])
  /\ \A p, q \in DOMAIN Pools : \A i \in DOMAIN Pools[p].files, j \in DOMAIN Pools[q].files :
       p < q /\ Pools[p].files[i] = Pools[q].files[j]
         => \A r \in p..q : Pools[r].step = Pools[p].step
  /\ IsFiniteSet(Lane) /\ Lane # {}
  /\ MaxTries \in Nat /\ MaxExports \in Nat

VARIABLES
  file,     \* what is at the path of each file
  part,     \* and at its path with .part
  lane,     \* the lanes of each pool
  next,     \* the next file of each pool
  phase,    \* where the run is: the pool it waits for, or a phase before or after the pools
  clean,    \* no step of this run has failed, and no text was missing upstream
  remote,   \* is there an address the pages that were not copied can be downloaded from?
  exports   \* runs so far

exportVars == <<file, part, lane, next, phase, clean, remote, exports>>

PoolIx == 1..Len(Pools)
NotRunning == -1
Catalogs == 0
Readme == Len(Pools) + 1
Done == Len(Pools) + 2

FileState == {"none", "piece", "whole"}
LanePc == {"off", "unlisted", "take", "lookup", "check", "fetch", "recheck", "write", "rename",
           "ended", "failed"}
Off == [pc |-> "off", at |-> 0, tries |-> 0, renewed |-> FALSE]

ExportTypeOK ==
  /\ file \in [File -> FileState] /\ part \in [File -> FileState]
  /\ \A p \in PoolIx, l \in Lane :
       /\ lane[p][l].pc \in LanePc /\ lane[p][l].at \in 0..Len(Pools[p].files)
       /\ lane[p][l].tries \in 0..MaxTries
  /\ \A p \in PoolIx : next[p] \in 1..Len(Pools[p].files) + 1
  /\ phase \in NotRunning..Done
  /\ clean \in BOOLEAN /\ remote \in BOOLEAN /\ exports \in 0..MaxExports

Stopped == /\ lane' = [p \in PoolIx |-> [l \in Lane |-> Off]]
           /\ next' = [p \in PoolIx |-> 1]
           /\ phase' = NotRunning /\ clean' = TRUE

ExportInit ==
  /\ file = [f \in File |-> "none"] /\ part = [f \in File |-> "none"]
  /\ lane = [p \in PoolIx |-> [l \in Lane |-> Off]] /\ next = [p \in PoolIx |-> 1]
  /\ phase = NotRunning /\ clean = TRUE /\ remote = FALSE /\ exports = 0

FileOf(p, l) == Pools[p].files[lane[p][l].at]
LaneAt(p, l, pc) == lane[p][l].pc = pc
PutLane(p, l, r) == lane' = [lane EXCEPT ![p][l] = r]
Goto(p, l, pc) == PutLane(p, l, [Off EXCEPT !.pc = pc, !.at = lane[p][l].at])
Download(p) == Pools[p].way \in {"binary", "audio"}

----------------------------------------------------------------------------
(* A lane. *)

\* a recording the list has no address of is looked up by itself
Take(p, l) ==
  /\ LaneAt(p, l, "take")
  /\ \/ /\ next[p] > Len(Pools[p].files)
        /\ PutLane(p, l, [Off EXCEPT !.pc = "ended"])
        /\ UNCHANGED next
     \/ /\ next[p] <= Len(Pools[p].files)
        /\ \E pc \in IF Pools[p].way = "audio" THEN {"lookup", "check"} ELSE {"check"} :
             PutLane(p, l, [Off EXCEPT !.pc = pc, !.at = next[p]])
        /\ next' = [next EXCEPT ![p] = @ + 1]
  /\ UNCHANGED <<file, part, phase, clean, remote, exports>>

Lookup(p, l) ==
  /\ LaneAt(p, l, "lookup")
  /\ Goto(p, l, "check") \/ Goto(p, l, "failed")
  /\ UNCHANGED <<file, part, next, phase, clean, remote, exports>>

\* a file that is there and not empty is left as it is; a text looks again before it is written
FileExistsNonEmpty(p, l) ==
  /\ LaneAt(p, l, "check") \/ LaneAt(p, l, "recheck")
  /\ \/ file[FileOf(p, l)] # "none" /\ Goto(p, l, "take")
     \/ /\ file[FileOf(p, l)] = "none"
        /\ IF LaneAt(p, l, "check") /\ Pools[p].way # "copy"
           THEN PutLane(p, l, [lane[p][l] EXCEPT !.pc = "fetch"]) ELSE Goto(p, l, "write")
  /\ UNCHANGED <<file, part, next, phase, clean, remote, exports>>

\* the next page of a text is a request of its own
NextPage(p, l) ==
  /\ LaneAt(p, l, "fetch") /\ Pools[p].way = "session"
  /\ Goto(p, l, "fetch")
  /\ UNCHANGED <<file, part, next, phase, clean, remote, exports>>

\* the last page, or an empty one, whatever its pagination says of more
FetchedFile(p, l) ==
  /\ LaneAt(p, l, "fetch")
  /\ Goto(p, l, IF Download(p) THEN "write" ELSE "recheck")
  /\ UNCHANGED <<file, part, next, phase, clean, remote, exports>>

\* a request refused for its token is sent once more with a new one
TokenRefused(p, l) ==
  /\ LaneAt(p, l, "fetch") /\ Pools[p].way = "session"
  /\ \/ lane[p][l].renewed /\ Goto(p, l, "failed")
     \/ ~lane[p][l].renewed /\ PutLane(p, l, [lane[p][l] EXCEPT !.renewed = TRUE])
  /\ UNCHANGED <<file, part, next, phase, clean, remote, exports>>

\* the network fails, or upstream is busy; a download looks again whether the file is there
TryAgain(p, l) ==
  /\ LaneAt(p, l, "fetch")
  /\ \/ lane[p][l].tries = MaxTries /\ Goto(p, l, "failed")
     \/ /\ lane[p][l].tries < MaxTries
        /\ PutLane(p, l, [lane[p][l] EXCEPT !.tries = @ + 1, !.pc = IF Download(p) THEN "check" ELSE "fetch"])
  /\ UNCHANGED <<file, part, next, phase, clean, remote, exports>>

\* upstream refuses, the token cannot be had, or what comes is empty; a translation may be
NothingComes(p, l) ==
  /\ LaneAt(p, l, "fetch")
  /\ \/ Goto(p, l, "failed") /\ UNCHANGED clean
     \/ Pools[p].step = "translations" /\ Goto(p, l, "take") /\ clean' = FALSE
  /\ UNCHANGED <<file, part, next, phase, remote, exports>>

\* mutant: everything is written at its final path
WritesInPlace(p) == TRUE

\* copyFile writes at the final path
InPlace(p) == Pools[p].way = "copy"

\* the last disjunct: the .part that is being written was renamed by another lane meanwhile
Write(p, l) ==
  /\ LaneAt(p, l, "write")
  /\ \/ /\ InPlace(p) /\ file' = [file EXCEPT ![FileOf(p, l)] = "whole"]
        /\ Goto(p, l, "take") /\ UNCHANGED part
     \/ /\ ~InPlace(p) /\ part' = [part EXCEPT ![FileOf(p, l)] = "whole"]
        /\ Goto(p, l, "rename") /\ UNCHANGED file
     \/ /\ ~InPlace(p) /\ file[FileOf(p, l)] = "piece"
        /\ file' = [file EXCEPT ![FileOf(p, l)] = "whole"]
        /\ Goto(p, l, "rename") /\ UNCHANGED part
  /\ UNCHANGED <<next, phase, clean, remote, exports>>

\* another lane may have begun to write the same .part again
Overwritten(p, l) ==
  \E m \in Lane \ {l} : LaneAt(p, m, "write") /\ FileOf(p, m) = FileOf(p, l)

Rename(p, l) ==
  /\ LaneAt(p, l, "rename") /\ part[FileOf(p, l)] # "none"
  /\ \E state \in {part[FileOf(p, l)]} \union (IF Overwritten(p, l) THEN {"piece"} ELSE {}) :
       file' = [file EXCEPT ![FileOf(p, l)] = state]
  /\ part' = [part EXCEPT ![FileOf(p, l)] = "none"]
  /\ Goto(p, l, "take")
  /\ UNCHANGED <<next, phase, clean, remote, exports>>

\* a folder, a file or a name cannot be had; a .part is not there when another lane renamed it
WriteFails(p, l) ==
  /\ LaneAt(p, l, "write") \/ LaneAt(p, l, "rename")
  /\ \/ UNCHANGED <<file, part>>
     \/ /\ LaneAt(p, l, "write") /\ InPlace(p)
        /\ file' = [file EXCEPT ![FileOf(p, l)] = "piece"] /\ UNCHANGED part
     \/ /\ LaneAt(p, l, "write") /\ ~InPlace(p)
        /\ part' = [part EXCEPT ![FileOf(p, l)] = "piece"] /\ UNCHANGED file
  /\ Goto(p, l, "failed")
  /\ UNCHANGED <<next, phase, clean, remote, exports>>

LaneStep(p, l) ==
  \/ Take(p, l) \/ Lookup(p, l) \/ FileExistsNonEmpty(p, l) \/ NextPage(p, l) \/ FetchedFile(p, l)
  \/ TokenRefused(p, l) \/ TryAgain(p, l) \/ NothingComes(p, l)
  \/ Write(p, l) \/ Rename(p, l) \/ WriteFails(p, l)

----------------------------------------------------------------------------
(* The run. *)

StartRun ==
  /\ phase = NotRunning /\ exports < MaxExports
  /\ phase' = Catalogs /\ clean' = TRUE /\ exports' = exports + 1
  /\ remote' \in BOOLEAN
  /\ UNCHANGED <<file, part, lane, next>>

\* The pages not copied are downloaded only when there is an address to do so, and not when as
\* many files were copied as there are pages, whichever pages these are.
Skipped(p) ==
  /\ p > 1 /\ Pools[p - 1].way = "copy"
  /\ ~remote \/ Len(Pools[p].files) <= Len(Pools[p - 1].files)

\* the pages that are copied are copied one after the other
Lanes(p) ==
  IF Skipped(p) THEN {}
  ELSE IF Pools[p].way = "copy" THEN {CHOOSE l \in Lane : TRUE} ELSE Lane

\* the list of a reciter's recordings, or the folder of the copies, may not be had
Listed(p) == Pools[p].way \in {"audio", "copy"}
StartPool(p) ==
  /\ phase' = p
  /\ IF p = Readme THEN lane' = lane
     ELSE \E pc \in IF Listed(p) THEN {"take", "unlisted"} ELSE {"take"} :
            lane' = [lane EXCEPT ![p] =
                      [l \in Lane |-> [Off EXCEPT !.pc = IF l \in Lanes(p) THEN pc ELSE "ended"]]]

\* the chapters, the translations and the reciters; without them the run is over
FetchCatalogs ==
  /\ phase = Catalogs
  /\ \/ StartPool(1) /\ UNCHANGED <<next, clean>>
     \/ Stopped
  /\ UNCHANGED <<file, part, remote, exports>>

PoolEnds ==
  /\ phase \in PoolIx /\ \A l \in Lane : LaneAt(phase, l, "ended")
  /\ StartPool(phase + 1)
  /\ UNCHANGED <<file, part, next, clean, remote, exports>>

AfterStep(p) ==
  LET later == {q \in p..Len(Pools) : Pools[q].step # Pools[p].step}
  IN IF later = {} THEN Readme ELSE CHOOSE q \in later : \A r \in later : q <= r

\* runStep reports it and goes on; otherwise the process exits, with the lanes that are under way
StepFails ==
  /\ phase \in PoolIx /\ \E l \in Lane : lane[phase][l].pc \in {"failed", "unlisted"}
  /\ IF Pools[phase].step \in Fatal THEN Stopped
     ELSE StartPool(AfterStep(phase)) /\ clean' = FALSE /\ UNCHANGED next
  /\ UNCHANGED <<file, part, remote, exports>>

WriteReadme ==
  /\ phase = Readme
  /\ \/ phase' = Done /\ UNCHANGED <<lane, next, clean>>
     \/ Stopped
  /\ UNCHANGED <<file, part, remote, exports>>

\* the process ends when no lane is left
RunEnds ==
  /\ phase = Done
  /\ \A p \in PoolIx, l \in Lane : lane[p][l].pc \in {"off", "unlisted", "ended", "failed"}
  /\ Stopped
  /\ UNCHANGED <<file, part, remote, exports>>

\* a write that is cut off leaves a piece
Cut(p, f) == \E l \in Lane : LaneAt(p, l, "write") /\ FileOf(p, l) = f
Kill ==
  /\ phase # NotRunning
  /\ file' \in {file, [f \in File |-> IF \E p \in PoolIx : InPlace(p) /\ Cut(p, f) THEN "piece" ELSE file[f]]}
  /\ part' \in {part, [f \in File |-> IF \E p \in PoolIx : ~InPlace(p) /\ Cut(p, f) THEN "piece" ELSE part[f]]}
  /\ Stopped
  /\ UNCHANGED <<remote, exports>>

RunStep == FetchCatalogs \/ PoolEnds \/ StepFails \/ WriteReadme \/ RunEnds

ExportNext ==
  \/ \E p \in PoolIx, l \in Lane : LaneStep(p, l)
  \/ RunStep
  \/ StartRun \/ Kill

ExportSpec == ExportInit /\ [][ExportNext]_exportVars

----------------------------------------------------------------------------
(* Properties. *)

\* Copied page images are not written through .part: one that is cut off stays, as a piece.
Copied == UNION { {Pools[p].files[i] : i \in 1..Len(Pools[p].files)} :
                   p \in {q \in PoolIx : Pools[q].way = "copy"} }

\* Nothing takes out a second address for one recording, and its two lanes share a .part.
Twice == {f \in File : \E p \in PoolIx : \E i, j \in 1..Len(Pools[p].files) :
                        i # j /\ Pools[p].files[i] = f /\ Pools[p].files[j] = f}

\* Wherever runs are killed, writes fail and lanes of failed steps go on: at the final path of a
\* text or a download that is named once is no piece, which later runs would not look at again.
\* And when a run has come to its end without a failure, and without a text missing upstream, all
\* that it did not skip is there, as far as its last page and first bearer of the path gave it.
ExportIsWhole ==
  /\ \A f \in File \ (Copied \union Twice) : file[f] # "piece"
  /\ phase = Done /\ clean =>
       \A p \in PoolIx : ~Skipped(p) =>
         \A i \in 1..Len(Pools[p].files) : file[Pools[p].files[i]] # "none"
=============================================================================
