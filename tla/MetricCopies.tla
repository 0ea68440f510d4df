---------------------------- MODULE MetricCopies ----------------------------
(***************************************************************************)
(* One copy of a metric that a workspace keeps on the server: its row       *)
(* (core2_copies), its files, the threads that make it and the answers read *)
(* from it (core2/copies.py, core2/precompute.py, store/core2_store.py).    *)
(*                                                                          *)
(* Every making writes a file of its own, so file n is the one that making  *)
(* n wrote; makings are numbered as they claim the row.  Times are told     *)
(* apart only as the code compares them: `long` is a making started more    *)
(* than MAKING_STALE ago, `lately` a failed try less than an hour old, and  *)
(* `made` the age of the copy against its schedule (every_hours, and twice  *)
(* that, after which no answer is read from it).                            *)
(*                                                                          *)
(* A making lists the copy's files and deletes those it does not keep in    *)
(* one step, and a thread claims the row as it starts.  Of an answer only   *)
(* the listed file is kept.  What write() leaves as ".making" is not a file *)
(* of the copy.                                                             *)
(*                                                                          *)
(* A definition X_Something is X with a plausible bug (README, Mutants).    *)
(***************************************************************************)
EXTENDS Naturals

CONSTANTS
    MaxMakings,   \* bound: makings that claim the row
    MaxRestarts   \* bound: restarts of the service

ASSUME CopyConstants == MaxMakings \in Nat \ {0} /\ MaxRestarts \in Nat

Making == 1 .. MaxMakings
NoFile == 0
Process == 1 .. MaxRestarts + 1
NoProcess == 0

VARIABLES
    row,      \* the row of core2_copies
    ours,     \* the workspace still uses the database the copy was kept for
    files,    \* the copy's files on the server
    maker,    \* where each making is, and the row's file it found before its own
    remover,  \* the admin's removal of the copy
    process,  \* this service process (core2_runner)
    answer,   \* the file an answer listed, until it ends, and the makings swapped in since
    noted     \* history: what the properties tell apart

copyVars == <<row, ours, files, maker, remover, process, answer, noted>>

RowState ==
    [kept : BOOLEAN, status : {"new", "making", "ready", "failed"}, runner : Process \cup {NoProcess},
     file : Making \cup {NoFile}, made : {"never", "new", "due", "old"}, lately : BOOLEAN, long : BOOLEAN]

MakerState ==
    [at : {"new", "read", "write", "before", "swap", "look", "tidy", "done"}, old : Making \cup {NoFile}]

AnswerState == [file : Making \cup {NoFile}, swaps : 0 .. 2]
NoAnswer == [file |-> NoFile, swaps |-> 0]

CopyInit ==
    /\ row = [kept |-> TRUE, status |-> "new", runner |-> NoProcess, file |-> NoFile, made |-> "never",
              lately |-> FALSE, long |-> FALSE]
    /\ ours = TRUE
    /\ files = {}
    /\ maker = [m \in Making |-> [at |-> "new", old |-> NoFile]]
    /\ remover = "none"
    /\ process = 1
    /\ answer = NoAnswer
    /\ noted = [tookOver |-> FALSE, freed |-> FALSE, overlap |-> FALSE, cut |-> FALSE, cleared |-> FALSE]

\* The makings that have not claimed the row yet.
Unclaimed == {m \in Making : maker[m].at = "new"}

-----------------------------------------------------------------------------
(***************************************************************************)
(* The row: what its times say                                              *)
(***************************************************************************)

MakingDue_NoTakeover == ~row.lately /\ row.made \in {"never", "due", "old"} /\ row.status # "making"

MakingDue ==
    IF row.status = "making" THEN row.long ELSE ~row.lately /\ row.made \in {"never", "due", "old"}

\* Time goes on: the making under way becomes older than two hours, the failed try older than
\* an hour, or the copy older than its schedule, then than twice that.  Bound: until the last
\* making has claimed the row; what the times say is then asked of no other.
TimePasses ==
    /\ \/ row.status = "making" /\ ~row.long /\ row' = [row EXCEPT !.long = TRUE]
       \/ row.lately /\ row' = [row EXCEPT !.lately = FALSE]
       \/ row.made = "new" /\ row' = [row EXCEPT !.made = "due"]
       \/ row.made = "due" /\ row' = [row EXCEPT !.made = "old"]
    /\ row.kept /\ Unclaimed # {}
    /\ UNCHANGED <<ours, files, maker, remover, process, answer, noted>>

-----------------------------------------------------------------------------
(***************************************************************************)
(* A making: make                                                           *)
(***************************************************************************)

AtWork(m) == maker[m].at \in {"read", "write", "before", "swap"}
InItsTail(m) == maker[m].at \in {"look", "tidy"}
GoTo(m, at) == maker' = [maker EXCEPT ![m].at = at]
End(m) == maker' = [maker EXCEPT ![m] = [at |-> "done", old |-> NoFile]]

\* copy_making's condition: no making of this process is under way, or it began two hours ago.
Free == row.status # "making" \/ row.runner # process \/ row.long

\* copy_making, as a making's thread begins; refused, the thread ends.  Bound: the last making
\* takes over none that is still at work.
Claim ==
    /\ row.kept /\ Free /\ Unclaimed # {}
    /\ row.long /\ Unclaimed = {MaxMakings} => \A n \in Making : ~AtWork(n)
    /\ LET m == CHOOSE n \in Unclaimed : \A o \in Unclaimed : n <= o IN
        /\ row' = [row EXCEPT !.status = "making", !.runner = process, !.long = FALSE]
        /\ GoTo(m, "read")
        /\ noted' = [noted EXCEPT !.overlap = @ \/ \E n \in Making : AtWork(n) \/ InItsTail(n),
                                    !.tookOver = @ \/ (row.long /\ \E n \in Making : AtWork(n))]
    /\ UNCHANGED <<ours, files, remover, process, answer>>

\* run_due_copies, each minute: a making that is due is started.
RunDue == ours /\ MakingDue /\ Claim

\* The admin has it made now (or has just added the copy).
MakeNow == Claim

\* run_due_copies, of a copy of a database the workspace no longer uses: its files are deleted.
ClearFiles ==
    /\ row.kept /\ ~ours /\ files # {}
    /\ files' = {}
    /\ noted' = [noted EXCEPT !.cleared = TRUE]
    /\ UNCHANGED <<row, ours, maker, remover, process, answer>>

CopyFailed_Ready == row' = [row EXCEPT !.status = IF row.kept THEN "ready" ELSE @, !.runner = NoProcess]

\* copy_failed: a copy made before stays in use.
CopyFailed ==
    row' = IF row.kept
           THEN [row EXCEPT !.status = IF row.file # NoFile THEN "ready" ELSE "failed", !.runner = NoProcess,
                            !.lately = TRUE, !.long = FALSE]
           ELSE row

\* The database cannot be read, or is another one now; the copy cannot be written, its row not
\* updated or not looked at again, or its files not be listed.  Whoever holds the row then, it is
\* free; the file that was written stays.
Fail(m) ==
    /\ AtWork(m) \/ InItsTail(m)
    /\ CopyFailed
    /\ End(m)
    /\ noted' = [noted EXCEPT !.cut = @ \/ (m \in files /\ remover = "done"),
                              !.freed = @ \/ (InItsTail(m) /\ row.status = "making")]
    /\ UNCHANGED <<ours, files, remover, process, answer>>

\* Its rows are read from the database, then written to a file put in its place.
ReadRows(m) ==
    /\ maker[m].at = "read"
    /\ ours
    /\ GoTo(m, "write")
    /\ UNCHANGED <<row, ours, files, remover, process, answer, noted>>

WriteFile(m) ==
    /\ maker[m].at = "write"
    /\ files' = files \cup {m}
    /\ GoTo(m, "before")
    /\ UNCHANGED <<row, ours, remover, process, answer, noted>>

\* copy_made: the row is read, then updated.
SeeOld(m) ==
    /\ maker[m].at = "before"
    /\ maker' = [maker EXCEPT ![m] = [at |-> "swap", old |-> IF row.kept THEN row.file ELSE NoFile]]
    /\ UNCHANGED <<row, ours, files, remover, process, answer, noted>>

Swap(m) ==
    /\ maker[m].at = "swap"
    /\ row' = IF row.kept
              THEN [row EXCEPT !.status = "ready", !.runner = NoProcess, !.file = m, !.made = "new",
                               !.lately = FALSE, !.long = FALSE]
              ELSE row
    /\ answer' = IF answer.file # NoFile /\ answer.swaps < 2 THEN [answer EXCEPT !.swaps = @ + 1] ELSE answer
    /\ GoTo(m, "look")
    /\ UNCHANGED <<ours, files, remover, process, noted>>

LookAgain_Never(m) ==
    /\ maker[m].at = "look"
    /\ GoTo(m, "tidy") /\ UNCHANGED files
    /\ UNCHANGED <<row, ours, remover, process, answer, noted>>

\* Taken out while it was being made: nothing of it stays on the server.
LookAgain(m) ==
    /\ maker[m].at = "look"
    /\ IF row.kept THEN GoTo(m, "tidy") /\ UNCHANGED files ELSE End(m) /\ files' = files \ {m}
    /\ UNCHANGED <<row, ours, remover, process, answer, noted>>

Tidy_OldToo(m) ==
    /\ maker[m].at = "tidy"
    /\ files' = files \cap {m}
    /\ End(m)
    /\ UNCHANGED <<row, ours, remover, process, answer, noted>>

\* The file it replaces stays until the next making.
Tidy(m) ==
    /\ maker[m].at = "tidy"
    /\ files' = files \cap {m, maker[m].old}
    /\ End(m)
    /\ UNCHANGED <<row, ours, remover, process, answer, noted>>

-----------------------------------------------------------------------------
(***************************************************************************)
(* The admin, the workspace and the service                                 *)
(***************************************************************************)

\* remove: the row goes, then the files.
RemoveRow ==
    /\ row.kept /\ remover = "none"
    /\ row' = [row EXCEPT !.kept = FALSE, !.status = "new", !.runner = NoProcess, !.file = NoFile,
                          !.made = "never", !.lately = FALSE, !.long = FALSE]
    /\ remover' = "files"
    /\ UNCHANGED <<ours, files, maker, process, answer, noted>>

RemoveFiles ==
    /\ remover = "files"
    /\ files' = {}
    /\ remover' = "done"
    /\ UNCHANGED <<row, ours, maker, process, answer, noted>>

\* The workspace is given another database.
SwitchDatabase ==
    /\ ours
    /\ ours' = FALSE
    /\ UNCHANGED <<row, files, maker, remover, process, answer, noted>>

\* The service stops and starts again: its threads end where they are.  Bounds: one making is
\* left for the process that starts; a restart while no making or removal is under way is left
\* out, it changes nothing but that an answer ends.
RestartService ==
    /\ process <= MaxRestarts /\ Unclaimed # {}
    /\ remover = "files" \/ \E m \in Making : AtWork(m) \/ InItsTail(m)
    /\ process' = process + 1
    /\ maker' = [m \in Making |-> IF maker[m].at = "new" THEN maker[m] ELSE [at |-> "done", old |-> NoFile]]
    /\ remover' = IF remover = "files" THEN "done" ELSE remover
    /\ answer' = NoAnswer
    /\ noted' = [noted EXCEPT !.cut = @ \/ (~row.kept /\ files # {})]
    /\ UNCHANGED <<row, ours, files>>

-----------------------------------------------------------------------------
(***************************************************************************)
(* An answer that reads the copy                                            *)
(***************************************************************************)

\* ready: the copies that may answer now are listed.
ListReady ==
    /\ answer = NoAnswer
    /\ row.kept /\ ours
    /\ row.file \in files /\ row.made \in {"new", "due"}
    /\ answer' = [NoAnswer EXCEPT !.file = row.file]
    /\ UNCHANGED <<row, ours, files, maker, remover, process, noted>>

EndAnswer ==
    /\ answer # NoAnswer
    /\ answer' = NoAnswer
    /\ UNCHANGED <<row, ours, files, maker, remover, process, noted>>

MakerStep(m) ==
    \/ Fail(m)
    \/ ReadRows(m)
    \/ WriteFile(m)
    \/ SeeOld(m)
    \/ Swap(m)
    \/ LookAgain(m)
    \/ Tidy(m)

CopyNext ==
    \/ \E m \in Making : MakerStep(m)
    \/ TimePasses
    \/ RunDue
    \/ MakeNow
    \/ ClearFiles
    \/ RemoveRow
    \/ RemoveFiles
    \/ SwitchDatabase
    \/ RestartService
    \/ ListReady
    \/ EndAnswer

\* The making threads go on (their queries have time limits), the clock and the minute
\* scheduler too.  Nothing is promised of the admin.
CopyFairness ==
    /\ WF_copyVars(\E m \in Making : MakerStep(m))
    /\ WF_copyVars(TimePasses) /\ WF_copyVars(RunDue)

CopySpec == CopyInit /\ [][CopyNext]_copyVars /\ CopyFairness

-----------------------------------------------------------------------------
CopyTypes ==
    /\ row \in RowState
    /\ ours \in BOOLEAN
    /\ files \subseteq Making
    /\ maker \in [Making -> MakerState]
    /\ remover \in {"none", "files", "done"}
    /\ process \in Process
    /\ answer \in AnswerState
    /\ noted \in [tookOver : BOOLEAN, freed : BOOLEAN, overlap : BOOLEAN, cut : BOOLEAN, cleared : BOOLEAN]

\* store/core2_store.py:946 "False when a making of it started here is under way": two makings
\* of the copy are at work at once only after one still at work two hours on was taken over, or
\* one that had swapped its file in failed after all and freed the row the next one had claimed.
OneMaking == \A m, n \in Making : AtWork(m) /\ AtWork(n) /\ m # n => noted.tookOver \/ noted.freed

\* core2/copies.py:132 "nothing of it stays on the server": once a copy is taken out and no
\* making of it is under way, none of its files is left, unless the service stopped before they
\* were deleted, or after that a making failed that had written its file: its row could not be
\* updated, or not be looked at again.
NothingStays ==
    /\ ~row.kept /\ remover = "done" /\ ~noted.cut
    /\ \A m \in Making : maker[m].at \in {"new", "done"}
    => files = {}

\* The file of a copy that is ready is on the server, unless two makings overlapped or the
\* workspace's database changed.
ReadyHasItsFile ==
    row.kept /\ row.status = "ready" /\ ~noted.overlap /\ ~noted.cleared => row.file \in files

\* core2/copies.py:134 "an answer that listed it a moment ago still reads it": an answer's file
\* is gone only after a second making since it was listed, a removal, a change of database or
\* makings that overlapped.
StillReadable ==
    answer.file \notin files \cup {NoFile} =>
        answer.swaps = 2 \/ ~row.kept \/ noted.cleared \/ noted.overlap

\* A copy never stays "being made": its making ends, or (its process stopped) is taken over
\* two hours on, while the copy is kept and the workspace uses its database; for one that was
\* begun, infinitely often not being made is that it ends.
MakingEnds == []<>~(row.kept /\ ours /\ row.status = "making")
=============================================================================
