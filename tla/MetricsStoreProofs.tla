------------------------- MODULE MetricsStoreProofs -------------------------
(***************************************************************************)
(* What the results file holds, for any number of requests, any of which   *)
(* may save, fail, or have a save that fails: only rows that change during *)
(* a save are lost, and, where the launcher's own save does not fail, none *)
(* is when every request is answered.                                      *)
(***************************************************************************)
EXTENDS MetricsStore, TLAPS

USE MetricsAssumption

\* A row is as its posting task left it.
RowsFollowPosts ==
  \A q \in Request :
    /\ post[q] = "none" <=> cache[q] = "none"
    /\ post[q] \in {"sent", "answered", "failed"} => cache[q] = "posted"
    /\ post[q] # "none" => q <= routed

\* The router saves for a request it has not scheduled, a request before it
\* records its answer.
SaversHaveUnfinishedRow ==
  /\ stage[Router] # "idle" => routed + 1 \in Saves
  /\ \A q \in Saves :
       /\ stage[q] # "idle" => post[q] \in {"answered", "failed", "closed"}
       /\ Saving(q) => post[q] \in {"answered", "failed"}

Writing(c) == stage[c] = "writing"

\* A snapshot is stale in raced rows only, and so is what is written of it.
SnapshotsAgree ==
  \A c \in Caller : stage[c] \in {"opening", "writing"} =>
    \A q \in Request \ raced : snapshot[c][q] = cache[q]

FileAgrees ==
  /\ raced = {} /\ (\E c \in Caller : Writing(c)) => file \in {NoRows, cache}
  /\ leftover => raced # {}
  /\ /\ failed = {} /\ \A c \in Caller : ~Writing(c)
     /\ ~dirty \/ \E c \in Caller : stage[c] = "written"
     => \A q \in Request \ raced : file[q] = cache[q]

AllAnswered == \A q \in Request : cache[q] = "answered"

\* The last answer is still to be saved.
LastAnswerIsDirty ==
  AllAnswered /\ Request # {} /\ stage[Launcher] = "idle" => dirty

\* The launcher's save, when all posts have ended before it.
LastSaveIsComplete ==
  stage[Launcher] # "idle" /\ open = {} =>
    /\ \A q \in Request : post[q] = "closed"
    /\ AllAnswered =>
         /\ stage[Launcher] \in {"opening", "writing"} => snapshot[Launcher] = cache
         /\ stage[Launcher] = "writing" => file = NoRows /\ ~leftover
         /\ stage[Launcher] \in {"written", "returned"} => file = cache /\ ~leftover

TasksInv == TypeOK /\ RowsFollowPosts /\ SaversHaveUnfinishedRow
FileInv == TasksInv /\ SnapshotsAgree /\ FileAgrees
AnswersInv == TasksInv /\ LastAnswerIsDirty /\ LastSaveIsComplete
-----------------------------------------------------------------------------
LEMMA CallersDiffer ==
  /\ Router \notin Request /\ Launcher \notin Request /\ Router # Launcher
  /\ Saves \subseteq Caller /\ Router \in Caller /\ Launcher \in Caller
  BY DEF Router, Launcher, Request, Caller

LEMMA NoRowsIsTyped == NoRows \in [Request -> Row]
  BY DEF NoRows, Row

LEMMA SaveCacheType ==
  ASSUME TypeOK, NEW c \in Caller, SaveCache(c)
  PROVE  stage' \in [Caller -> Stage] /\ snapshot' \in [Caller -> [Request -> Row]]
  BY DEF SaveCache, TypeOK, Stage

LEMMA TypeSave ==
  ASSUME TypeOK, NEW c \in Caller, SaveStep(c)
  PROVE  TypeOK'
<1>1. CASE Truncate(c)
  BY <1>1, NoRowsIsTyped DEF Truncate, TypeOK, Stage, rowVars, taskVars
<1>2. CASE Write(c)
  BY <1>2, NoRowsIsTyped DEF Write, TypeOK, Stage, rowVars, taskVars
<1>3. CASE Saved(c)
  BY <1>3 DEF Saved, TypeOK, Stage, fileVars, rowVars, taskVars
<1>4. CASE SaveFails(c)
  BY <1>4, NoRowsIsTyped DEF SaveFails, TypeOK, Stage, fileVars, rowVars
<1> QED
  BY <1>1, <1>2, <1>3, <1>4 DEF SaveStep

LEMMA TypeTask ==
  ASSUME TypeOK, NEW q \in Request,
         InsertMetrics(q) \/ PostEnds(q) \/ UpdateMetrics(q) \/ Abort(q)
  PROVE  TypeOK'
<1>1. CASE InsertMetrics(q)
  BY <1>1 DEF InsertMetrics, Change, TypeOK, Row, Post, fileVars
<1>2. CASE PostEnds(q)
  <2>1. stage' \in [Caller -> Stage] /\ snapshot' \in [Caller -> [Request -> Row]]
    BY <1>2, SaveCacheType, CallersDiffer DEF PostEnds, TypeOK
  <2>2. post' \in [Request -> Post]
    BY <1>2 DEF PostEnds, TypeOK, Post
  <2> QED
    BY <1>2, <2>1, <2>2 DEF PostEnds, TypeOK, fileVars, rowVars
<1>3. CASE UpdateMetrics(q)
  BY <1>3 DEF UpdateMetrics, Change, TypeOK, Row, Post, fileVars
<1>4. CASE Abort(q)
  BY <1>4 DEF Abort, TypeOK, Post, fileVars, rowVars
<1> QED
  BY <1>1, <1>2, <1>3, <1>4

LEMMA TypeRouter ==
  ASSUME TypeOK, RouterSync \/ Schedule \/ FinalSync \/ UNCHANGED vars
  PROVE  TypeOK'
<1>1. CASE RouterSync
  BY <1>1, SaveCacheType, CallersDiffer DEF RouterSync, TypeOK, fileVars, rowVars, taskVars
<1>2. CASE Schedule
  BY <1>2, CallersDiffer DEF Schedule, TypeOK, Stage, fileVars, rowVars
<1>3. CASE FinalSync
  <2>1. stage' \in [Caller -> Stage] /\ snapshot' \in [Caller -> [Request -> Row]]
    BY <1>3, SaveCacheType, CallersDiffer DEF FinalSync
  <2> QED
    BY <1>3, <2>1 DEF FinalSync, Unanswered, TypeOK, fileVars, rowVars
<1>4. CASE UNCHANGED vars
  BY <1>4 DEF vars, TypeOK
<1> QED
  BY <1>1, <1>2, <1>3, <1>4

LEMMA TypeStep == TypeOK /\ [Next]_vars => TypeOK'
  BY TypeSave, TypeTask, TypeRouter DEF Next
-----------------------------------------------------------------------------
\* What becomes of the rows and tasks.

LEMMA InitTasks == Init => TasksInv
<1> SUFFICES ASSUME Init PROVE TasksInv
  OBVIOUS
<1>1. TypeOK
  <2>1. stage \in [Caller -> Stage] /\ post \in [Request -> Post]
    BY DEF Init, Stage, Post
  <2>2. snapshot \in [Caller -> [Request -> Row]]
    BY NoRowsIsTyped DEF Init
  <2>3. routed \in 0 .. NumRequests
    BY DEF Init
  <2> QED
    BY <2>1, <2>2, <2>3, NoRowsIsTyped, Zenon DEF Init, TypeOK
<1>2. RowsFollowPosts
  BY DEF Init, RowsFollowPosts, NoRows
<1>3. SaversHaveUnfinishedRow
  BY CallersDiffer DEF Init, SaversHaveUnfinishedRow, Saving
<1> QED
  BY <1>1, <1>2, <1>3 DEF TasksInv

LEMMA TasksSave ==
  ASSUME TasksInv, NEW c \in Caller, SaveStep(c)
  PROVE  TasksInv'
<1> USE DEF TasksInv
<1>1. TypeOK'
  BY TypeSave
<1>2. /\ UNCHANGED <<cache, post, routed>>
      /\ stage[c] \in {"opening", "writing", "written"}
      /\ stage' \in {[stage EXCEPT ![c] = "writing"], [stage EXCEPT ![c] = "written"],
                     [stage EXCEPT ![c] = "returned"]}
  BY DEF SaveStep, Truncate, Write, Saved, SaveFails, rowVars, taskVars
<1>3. RowsFollowPosts'
  BY <1>2 DEF RowsFollowPosts
<1>4. \A d \in Caller : d # c => stage'[d] = stage[d]
  BY <1>2 DEF TypeOK
<1>5. SaversHaveUnfinishedRow'
  BY <1>2, <1>4, CallersDiffer DEF SaversHaveUnfinishedRow, Saving
<1> QED
  BY <1>1, <1>3, <1>5

LEMMA TasksTask ==
  ASSUME TasksInv, NEW q \in Request,
         InsertMetrics(q) \/ PostEnds(q) \/ UpdateMetrics(q) \/ Abort(q)
  PROVE  TasksInv'
<1> USE DEF TasksInv
<1>1. TypeOK'
  BY TypeTask
<1>2. CASE InsertMetrics(q)
  <2>1. RowsFollowPosts'
    BY <1>2 DEF InsertMetrics, Change, RowsFollowPosts, TypeOK
  <2>2. SaversHaveUnfinishedRow'
    BY <1>2 DEF InsertMetrics, SaversHaveUnfinishedRow, Saving, TypeOK
  <2> QED
    BY <1>1, <2>1, <2>2
<1>3. CASE PostEnds(q)
  <2>1. RowsFollowPosts'
    BY <1>3 DEF PostEnds, rowVars, RowsFollowPosts, TypeOK
  <2>2. SaversHaveUnfinishedRow'
    BY <1>3, CallersDiffer DEF PostEnds, SaveCache, SaversHaveUnfinishedRow, Saving, TypeOK
  <2> QED
    BY <1>1, <2>1, <2>2
<1>4. CASE UpdateMetrics(q)
  <2>1. RowsFollowPosts'
    BY <1>4 DEF UpdateMetrics, Change, RowsFollowPosts, TypeOK
  <2>2. SaversHaveUnfinishedRow'
    BY <1>4 DEF UpdateMetrics, Returned, SaversHaveUnfinishedRow, Saving, TypeOK
  <2> QED
    BY <1>1, <2>1, <2>2
<1>5. CASE Abort(q)
  <2>1. RowsFollowPosts'
    BY <1>5 DEF Abort, rowVars, RowsFollowPosts, TypeOK
  <2>2. SaversHaveUnfinishedRow'
    BY <1>5 DEF Abort, Returned, SaversHaveUnfinishedRow, Saving, TypeOK
  <2> QED
    BY <1>1, <2>1, <2>2
<1> QED
  BY <1>2, <1>3, <1>4, <1>5

LEMMA TasksRouter ==
  ASSUME TasksInv, RouterSync \/ Schedule \/ FinalSync \/ UNCHANGED vars
  PROVE  TasksInv'
<1> USE DEF TasksInv
<1>1. TypeOK'
  BY TypeRouter
<1>2. RowsFollowPosts'
  <2>1. UNCHANGED <<cache, post>> /\ routed' \in {routed, routed + 1}
    BY DEF RouterSync, Schedule, FinalSync, vars, rowVars, taskVars
  <2> QED
    BY <2>1 DEF RowsFollowPosts, TypeOK, Request
<1>3. SaversHaveUnfinishedRow'
  <2>1. CASE RouterSync
    BY <2>1, CallersDiffer DEF RouterSync, SaveCache, taskVars, SaversHaveUnfinishedRow, Saving, TypeOK
  <2>2. CASE Schedule
    BY <2>2, CallersDiffer DEF Schedule, SaversHaveUnfinishedRow, Saving, TypeOK
  <2>3. CASE FinalSync
    BY <2>3, CallersDiffer DEF FinalSync, SaveCache, SaversHaveUnfinishedRow, Saving, TypeOK
  <2>4. CASE UNCHANGED vars
    BY <2>4 DEF vars, SaversHaveUnfinishedRow, Saving
  <2> QED
    BY <2>1, <2>2, <2>3, <2>4
<1> QED
  BY <1>1, <1>2, <1>3

LEMMA TasksStep == TasksInv /\ [Next]_vars => TasksInv'
  BY TasksSave, TasksTask, TasksRouter DEF Next

-----------------------------------------------------------------------------
\* What becomes of the file.

LEMMA InitFile == Init => FileInv
  BY InitTasks DEF FileInv, Init, SnapshotsAgree, FileAgrees, Writing

\* A call of save_cache only takes a snapshot of the rows.
LEMMA FileSaveCache ==
  ASSUME FileInv, NEW c \in Caller, SaveCache(c),
         UNCHANGED <<dirty, failed, file, leftover, cache, raced>>
  PROVE  SnapshotsAgree' /\ FileAgrees'
<1>1. SnapshotsAgree'
  BY DEF SaveCache, FileInv, TasksInv, TypeOK, SnapshotsAgree
<1>2. \A d \in Caller : /\ Writing(d)' <=> Writing(d)
                        /\ stage'[d] = "written" <=> stage[d] = "written"
  BY DEF SaveCache, FileInv, TasksInv, TypeOK, Writing
<1>3. FileAgrees'
  BY <1>2 DEF FileInv, FileAgrees
<1> QED
  BY <1>1, <1>3

\* A row that changes changes unseen, or joins the raced ones.
LEMMA FileChange ==
  ASSUME FileInv, NEW q \in Request, NEW row \in Row, Change(q, row), dirty' = TRUE,
         UNCHANGED <<failed, file, leftover, stage, snapshot>>
  PROVE  SnapshotsAgree' /\ FileAgrees'
<1>1. CASE \E c \in Caller : Saving(c)
  <2>1. /\ raced' = raced \union {q} /\ \A r \in Request \ raced' : cache'[r] = cache[r]
        /\ raced' # {}
    BY <1>1 DEF Change, FileInv, TasksInv, TypeOK
  <2>2. SnapshotsAgree'
    BY <2>1 DEF FileInv, SnapshotsAgree
  <2>3. FileAgrees'
    BY <2>1 DEF FileInv, FileAgrees, Writing
  <2> QED
    BY <2>2, <2>3
<1>2. CASE ~ \E c \in Caller : Saving(c)
  <2>1. UNCHANGED raced /\ \A c \in Caller : stage[c] \notin {"opening", "writing", "written"}
    BY <1>2 DEF Change, Saving
  <2> QED
    BY <2>1 DEF FileInv, SnapshotsAgree, FileAgrees, Writing
<1> QED
  BY <1>1, <1>2

LEMMA FileTask ==
  ASSUME FileInv, NEW q \in Request,
         InsertMetrics(q) \/ PostEnds(q) \/ UpdateMetrics(q) \/ Abort(q)
  PROVE  SnapshotsAgree' /\ FileAgrees'
<1>1. CASE InsertMetrics(q)
  BY <1>1, FileChange DEF InsertMetrics, fileVars, Row
<1>2. CASE PostEnds(q)
  <2>1. CASE q \in Saves
    BY <1>2, <2>1, FileSaveCache, CallersDiffer DEF PostEnds, fileVars, rowVars
  <2>2. CASE q \notin Saves
    BY <1>2, <2>2 DEF PostEnds, fileVars, rowVars, FileInv, SnapshotsAgree, FileAgrees, Writing
  <2> QED
    BY <2>1, <2>2
<1>3. CASE UpdateMetrics(q)
  BY <1>3, FileChange DEF UpdateMetrics, fileVars, Row
<1>4. CASE Abort(q)
  BY <1>4 DEF Abort, fileVars, rowVars, FileInv, SnapshotsAgree, FileAgrees, Writing
<1> QED
  BY <1>1, <1>2, <1>3, <1>4

LEMMA FileRouter ==
  ASSUME FileInv, RouterSync \/ Schedule \/ FinalSync \/ UNCHANGED vars
  PROVE  SnapshotsAgree' /\ FileAgrees'
<1>1. CASE RouterSync
  BY <1>1, FileSaveCache, CallersDiffer DEF RouterSync, fileVars, rowVars, taskVars
<1>2. CASE Schedule
  <2>1. \A c \in Caller : \/ stage'[c] = stage[c]
                          \/ stage'[c] = "idle" /\ stage[c] \notin {"opening", "writing", "written"}
    BY <1>2, CallersDiffer DEF Schedule, FileInv, TasksInv, TypeOK, SaversHaveUnfinishedRow
  <2>2. SnapshotsAgree'
    BY <1>2, <2>1 DEF Schedule, fileVars, rowVars, FileInv, SnapshotsAgree
  <2>3. FileAgrees'
    BY <1>2, <2>1 DEF Schedule, fileVars, rowVars, FileInv, FileAgrees, Writing
  <2> QED
    BY <2>2, <2>3
<1>3. CASE FinalSync
  BY <1>3, FileSaveCache, CallersDiffer DEF FinalSync, fileVars, rowVars
<1>4. CASE UNCHANGED vars
  BY <1>4 DEF vars, FileInv, SnapshotsAgree, FileAgrees, Writing
<1> QED
  BY <1>1, <1>2, <1>3, <1>4

LEMMA FileSave ==
  ASSUME FileInv, NEW c \in Caller, SaveStep(c)
  PROVE  SnapshotsAgree' /\ FileAgrees'
<1> USE DEF FileInv, TasksInv
<1>1. CASE Truncate(c)
  <2>1. SnapshotsAgree'
    BY <1>1 DEF Truncate, rowVars, SnapshotsAgree, TypeOK
  <2>2. Writing(c)' /\ file' = NoRows /\ ~leftover'
    BY <1>1 DEF Truncate, Writing, TypeOK
  <2> QED
    BY <2>1, <2>2 DEF FileAgrees
<1>2. CASE Write(c)
  <2>1. UNCHANGED <<cache, raced, dirty, failed>> /\ file' = snapshot[c] /\ stage[c] = "writing"
    BY <1>2 DEF Write, rowVars, taskVars
  <2>2. \A q \in Request \ raced : file'[q] = cache[q]
    BY <2>1 DEF SnapshotsAgree
  <2>3. \A d \in Caller : d # c => stage'[d] = stage[d] /\ snapshot'[d] = snapshot[d]
    BY <1>2 DEF Write, TypeOK
  <2>4. stage'[c] = "written"
    BY <1>2 DEF Write, TypeOK
  <2>5. SnapshotsAgree'
    BY <2>1, <2>3, <2>4 DEF SnapshotsAgree
  <2>6. raced = {} => snapshot[c] = cache
    BY <2>1 DEF SnapshotsAgree, TypeOK
  <2>7. leftover' => raced # {}
    BY <1>2, <2>1, <2>6 DEF Write, FileAgrees, Writing
  <2> QED
    BY <2>1, <2>2, <2>5, <2>6, <2>7 DEF FileAgrees
<1>3. CASE Saved(c)
  <2>1. \A d \in Caller : d # c => stage'[d] = stage[d]
    BY <1>3 DEF Saved, TypeOK
  <2>2. stage[c] = "written" /\ stage'[c] = "returned"
    BY <1>3 DEF Saved, TypeOK
  <2>3. SnapshotsAgree'
    BY <1>3, <2>1, <2>2 DEF Saved, rowVars, SnapshotsAgree
  <2>4. FileAgrees'
    BY <1>3, <2>1, <2>2 DEF Saved, rowVars, fileVars, taskVars, FileAgrees, Writing
  <2> QED
    BY <2>3, <2>4
<1>4. CASE SaveFails(c)
  <2>1. \A d \in Caller : d # c => stage'[d] = stage[d] /\ snapshot'[d] = snapshot[d]
    BY <1>4 DEF SaveFails, TypeOK
  <2>2. stage'[c] = "returned"
    BY <1>4 DEF SaveFails, TypeOK
  <2>3. SnapshotsAgree'
    BY <1>4, <2>1, <2>2 DEF SaveFails, rowVars, SnapshotsAgree
  <2>4. failed' = {} => failed = {} /\ stage[c] = "opening"
    BY <1>4 DEF SaveFails
  <2>5. FileAgrees'
    BY <1>4, <2>1, <2>2, <2>4 DEF SaveFails, rowVars, fileVars, FileAgrees, Writing
  <2> QED
    BY <2>3, <2>5
<1> QED
  BY <1>1, <1>2, <1>3, <1>4 DEF SaveStep

LEMMA FileStep == FileInv /\ [Next]_vars => FileInv'
<1> SUFFICES ASSUME FileInv, [Next]_vars PROVE FileInv'
  OBVIOUS
<1>1. TasksInv'
  BY TasksStep DEF FileInv
<1>2. SnapshotsAgree' /\ FileAgrees'
  BY FileTask, FileRouter, FileSave DEF Next
<1> QED
  BY <1>1, <1>2 DEF FileInv

\* Outside the raced rows the file is the store, whatever fails.
THEOREM MetricsCorrect == Spec => []MetricsInv
<1>1. FileInv => MetricsInv
  <2> SUFFICES ASSUME FileInv, ~dirty, failed = {}, \A c \in Caller : ~Saving(c)
               PROVE  /\ \A q \in Request \ raced : file[q] = cache[q]
                      /\ leftover => raced # {}
    BY DEF FileInv, TasksInv, MetricsInv, OnlyRacedRowsAreLost
  <2> QED
    BY DEF FileInv, FileAgrees, Saving, Writing
<1> QED
  BY InitFile, FileStep, <1>1, PTL DEF Spec

-----------------------------------------------------------------------------
\* What the last save writes.

LEMMA InitAnswers == Init => AnswersInv
  BY InitTasks, CallersDiffer DEF AnswersInv, Init, LastAnswerIsDirty, LastSaveIsComplete,
     AllAnswered, NoRows

\* Whoever clears the flag has yet to change a row, or is the launcher.
LEMMA SaverIsUnanswered ==
  ASSUME TasksInv, NEW c \in Caller, Saving(c), c # Launcher
  PROVE  \E q \in Request : cache[q] # "answered" /\ post[q] # "closed"
<1> USE DEF TasksInv
<1>1. CASE c = Router
  <2>1. routed + 1 \in Request
    BY <1>1 DEF Saving, SaversHaveUnfinishedRow
  <2>2. post[routed + 1] = "none" /\ cache[routed + 1] = "none"
    BY <2>1 DEF RowsFollowPosts, TypeOK, Post
  <2> QED
    BY <2>1, <2>2
<1>2. CASE c \in Saves
  BY <1>2 DEF SaversHaveUnfinishedRow, RowsFollowPosts
<1> QED
  BY <1>1, <1>2 DEF Caller

LEMMA AnswersSave ==
  ASSUME AnswersInv, Launcher \notin Unreliable, NEW c \in Caller, SaveStep(c)
  PROVE  LastAnswerIsDirty' /\ LastSaveIsComplete'
<1> USE DEF AnswersInv, TasksInv
<1>1. /\ UNCHANGED <<cache, post, open>> /\ Saving(c)
      /\ UNCHANGED dirty \/ dirty' = FALSE
      /\ \A d \in Caller : d # c => stage'[d] = stage[d]
      /\ stage'[c] # "idle"
  BY DEF SaveStep, Truncate, Write, Saved, SaveFails, rowVars, taskVars, Saving, TypeOK
<1>2. c # Launcher => ~AllAnswered /\ \E q \in Request : post[q] # "closed"
  BY <1>1, SaverIsUnanswered DEF AllAnswered
<1>3. CASE c # Launcher
  <2>1. ~AllAnswered'
    BY <1>1, <1>2, <1>3 DEF AllAnswered
  <2>2. stage'[Launcher] = stage[Launcher]
    BY <1>1, <1>3, CallersDiffer
  <2> QED
    BY <1>1, <1>2, <1>3, <2>1, <2>2 DEF LastAnswerIsDirty, LastSaveIsComplete
<1>4. CASE c = Launcher
  <2>1. LastAnswerIsDirty'
    BY <1>1, <1>4 DEF LastAnswerIsDirty
  <2>2. AllAnswered' <=> AllAnswered
    BY <1>1 DEF AllAnswered
  <2>3. CASE Truncate(c)
    <3>1. /\ stage[c] = "opening" /\ stage'[c] = "writing" /\ UNCHANGED snapshot
          /\ file' = NoRows /\ ~leftover'
      BY <2>3 DEF Truncate, TypeOK
    <3> QED
      BY <1>1, <1>4, <2>1, <2>2, <3>1 DEF LastSaveIsComplete
  <2>4. CASE Write(c)
    <3>1. /\ stage[c] = "writing" /\ stage'[c] = "written" /\ file' = snapshot[c]
          /\ file = NoRows => ~leftover'
      BY <2>4 DEF Write, TypeOK
    <3> QED
      BY <1>1, <1>4, <2>1, <2>2, <3>1 DEF LastSaveIsComplete
  <2>5. CASE Saved(c)
    <3>1. stage[c] = "written" /\ stage'[c] = "returned" /\ UNCHANGED <<file, leftover>>
      BY <2>5 DEF Saved, TypeOK, fileVars
    <3> QED
      BY <1>1, <1>4, <2>1, <2>2, <3>1 DEF LastSaveIsComplete
  <2>6. ~SaveFails(c)
    BY <1>4 DEF SaveFails
  <2> QED
    BY <2>3, <2>4, <2>5, <2>6 DEF SaveStep
<1> QED
  BY <1>3, <1>4

LEMMA AnswersTask ==
  ASSUME AnswersInv, NEW q \in Request,
         InsertMetrics(q) \/ PostEnds(q) \/ UpdateMetrics(q) \/ Abort(q)
  PROVE  LastAnswerIsDirty' /\ LastSaveIsComplete'
<1> USE DEF AnswersInv, TasksInv
<1>1. /\ post[q] # "closed" /\ UNCHANGED <<open, file, leftover>>
      /\ stage'[Launcher] = stage[Launcher]
      /\ (cache' = cache /\ dirty' = dirty) \/ dirty'
  BY CallersDiffer DEF InsertMetrics, PostEnds, UpdateMetrics, Abort, SaveCache, Change,
     fileVars, rowVars, TypeOK
<1>2. ~(stage[Launcher] # "idle" /\ open = {})
  BY <1>1 DEF LastSaveIsComplete
<1> QED
  BY <1>1, <1>2 DEF LastAnswerIsDirty, LastSaveIsComplete, AllAnswered

LEMMA AnswersRouter ==
  ASSUME AnswersInv, RouterSync \/ Schedule \/ FinalSync \/ UNCHANGED vars
  PROVE  LastAnswerIsDirty' /\ LastSaveIsComplete'
<1> USE DEF AnswersInv, TasksInv
<1>1. CASE RouterSync \/ Schedule \/ UNCHANGED vars
  <2>1. /\ UNCHANGED <<cache, post, dirty, open, file, leftover>>
        /\ stage'[Launcher] = stage[Launcher] /\ snapshot'[Launcher] = snapshot[Launcher]
    BY <1>1, CallersDiffer DEF RouterSync, Schedule, SaveCache, vars, fileVars, rowVars,
       taskVars, TypeOK
  <2> QED
    BY <2>1 DEF LastAnswerIsDirty, LastSaveIsComplete, AllAnswered
<1>2. CASE FinalSync
  <2>1. stage[Launcher] = "idle" /\ Request # {} /\ UNCHANGED <<cache, post, dirty>>
    BY <1>2 DEF FinalSync, SaveCache, rowVars
  <2>2. AllAnswered => dirty
    BY <2>1 DEF LastAnswerIsDirty
  <2>3. /\ stage'[Launcher] # "idle"
        /\ dirty => stage'[Launcher] = "opening" /\ snapshot'[Launcher] = cache
    BY <1>2, CallersDiffer DEF FinalSync, SaveCache, TypeOK
  <2>4. open' = {} => \A q \in Request : post[q] = "closed"
    BY <1>2 DEF FinalSync, Unanswered
  <2> QED
    BY <2>1, <2>2, <2>3, <2>4 DEF LastAnswerIsDirty, LastSaveIsComplete, AllAnswered
<1> QED
  BY <1>1, <1>2

LEMMA AnswersStep ==
  Launcher \notin Unreliable /\ AnswersInv /\ [Next]_vars => AnswersInv'
<1> SUFFICES ASSUME Launcher \notin Unreliable, AnswersInv, [Next]_vars PROVE AnswersInv'
  OBVIOUS
<1>1. TasksInv'
  BY TasksStep DEF AnswersInv
<1>2. LastAnswerIsDirty' /\ LastSaveIsComplete'
  BY AnswersTask, AnswersRouter, AnswersSave DEF Next
<1> QED
  BY <1>1, <1>2 DEF AnswersInv

\* When every request is answered before the launcher saves, and that save
\* does not fail, the file holds every row as it last was.
THEOREM AnswersReachFile ==
  ASSUME Launcher \notin Unreliable
  PROVE  Spec => []AnswersAreRecorded
<1>1. AnswersInv => AnswersAreRecorded
  BY DEF AnswersInv, LastSaveIsComplete, AnswersAreRecorded, RunIsRecorded, Stopped, AllAnswered
<1>2. AnswersInv /\ [Next]_vars => AnswersInv'
  BY AnswersStep
<1> QED
  BY InitAnswers, <1>1, <1>2, PTL DEF Spec
=============================================================================
