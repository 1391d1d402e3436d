---------------------------- MODULE MetricsStore ----------------------------
(***************************************************************************)
(* The experiment's results: rows kept in memory and written to one CSV    *)
(* file (metrics/metrics_store.py), together with everything that calls    *)
(* the store: the router, the posting tasks and the launcher.  insert and  *)
(* update suspend nowhere; save_cache takes its snapshot at once and then  *)
(* waits for a thread that opens, and a thread that writes, the file.      *)
(***************************************************************************)
EXTENDS Integers

CONSTANTS
  NumRequests,   \* requests are routed in the order of their numbers
  Saves,         \* those whose _id is a multiple of 10
  MayFail,       \* requests whose post may fail
  Unreliable     \* callers whose save may raise (disk full, no permission)

Request == 1 .. NumRequests
Router == 0
Launcher == -1
Caller == Saves \union {Router, Launcher}

ASSUME MetricsAssumption ==
  /\ NumRequests \in Nat
  /\ Saves \subseteq Request /\ MayFail \subseteq Request
  /\ Unreliable \subseteq Caller

(* A row does not exist, is as insert_metrics made it, or holds the times  *)
(* that update_metrics adds once the answer is complete.                   *)
Row == {"none", "posted", "answered"}
NoRows == [q \in Request |-> "none"]

VARIABLES
  cache,         \* data_cache
  dirty,
  file,          \* the rows a reader of the file sees
  leftover,      \* ... followed by bytes of another snapshot?
  stage,         \* [Caller -> where its save_cache is]
  snapshot,      \* [Caller -> csv_content]
  routed,        \* requests the router has scheduled
  post,          \* [Request -> how far its posting task is]
  open,          \* requests not answered when the launcher saved
  raced,         \* requests whose row changed while somebody was saving
  failed         \* callers whose save raised after it had truncated the file

vars == <<cache, dirty, file, leftover, stage, snapshot, routed, post, open, raced, failed>>
rowVars == <<cache, raced>>
fileVars == <<file, leftover>>
taskVars == <<routed, post, open, failed>>

Stage == {"idle", "opening", "writing", "written", "returned"}
Post == {"none", "sent", "answered", "failed", "closed"}

TypeOK ==
  /\ cache \in [Request -> Row] /\ file \in [Request -> Row]
  /\ dirty \in BOOLEAN /\ leftover \in BOOLEAN
  /\ stage \in [Caller -> Stage] /\ snapshot \in [Caller -> [Request -> Row]]
  /\ routed \in 0 .. NumRequests /\ post \in [Request -> Post]
  /\ open \subseteq Request /\ raced \subseteq Request /\ failed \subseteq Caller

Init ==
  /\ cache = NoRows /\ dirty = FALSE
  /\ file = NoRows /\ leftover = FALSE
  /\ stage = [c \in Caller |-> "idle"]
  /\ snapshot = [c \in Caller |-> NoRows]
  /\ routed = 0 /\ post = [q \in Request |-> "none"]
  /\ open = {} /\ raced = {} /\ failed = {}

Saving(c) == stage[c] \in {"opening", "writing", "written"}

(* The event loop is closed once the launcher's save has returned.         *)
Stopped == stage[Launcher] = "returned"
-----------------------------------------------------------------------------
(* save_cache is called: nothing to do, or take the snapshot.              *)
SaveCache(c) ==
  /\ stage[c] = "idle"
  /\ IF dirty
       THEN /\ stage' = [stage EXCEPT ![c] = "opening"]
            /\ snapshot' = [snapshot EXCEPT ![c] = cache]
       ELSE /\ stage' = [stage EXCEPT ![c] = "returned"]
            /\ UNCHANGED snapshot

(* The file is opened with mode "w".                                       *)
Truncate(c) ==
  /\ ~Stopped /\ stage[c] = "opening"
  /\ stage' = [stage EXCEPT ![c] = "writing"]
  /\ file' = NoRows /\ leftover' = FALSE
  /\ UNCHANGED <<dirty, snapshot, rowVars, taskVars>>

(* The snapshot is written at the start of the file.  What another caller  *)
(* has written there since it was truncated may be longer.                 *)
Write(c) ==
  /\ ~Stopped /\ stage[c] = "writing"
  /\ stage' = [stage EXCEPT ![c] = "written"]
  /\ file' = snapshot[c]
  /\ leftover' \in (IF file \in {NoRows, snapshot[c]} THEN {FALSE} ELSE BOOLEAN)
  /\ snapshot' = [snapshot EXCEPT ![c] = NoRows]
  /\ UNCHANGED <<dirty, rowVars, taskVars>>

(* The caller resumes and clears the flag.                                 *)
Saved(c) ==
  /\ ~Stopped /\ stage[c] = "written"
  /\ stage' = [stage EXCEPT ![c] = "returned"]
  /\ dirty' = FALSE
  /\ UNCHANGED <<snapshot, fileVars, rowVars, taskVars>>

(* Opening or writing raises, which save_cache logs.                       *)
SaveFails(c) ==
  /\ ~Stopped /\ c \in Unreliable
  /\ stage[c] \in {"opening", "writing"}
  /\ stage' = [stage EXCEPT ![c] = "returned"]
  /\ snapshot' = [snapshot EXCEPT ![c] = NoRows]
  /\ failed' = IF stage[c] = "writing" THEN failed \union {c} ELSE failed
  /\ UNCHANGED <<dirty, routed, post, open, fileVars, rowVars>>
-----------------------------------------------------------------------------
Change(q, row) ==
  /\ cache' = [cache EXCEPT ![q] = row]
  /\ raced' = IF \E c \in Caller : Saving(c) THEN raced \union {q} ELSE raced

(* The router saves before it schedules a request of Saves ...             *)
RouterSync ==
  /\ ~Stopped /\ routed + 1 \in Saves
  /\ SaveCache(Router)
  /\ UNCHANGED <<dirty, fileVars, rowVars, taskVars>>

(* ... and schedules it; when it is posted is up to the scheduler.         *)
Schedule ==
  /\ ~Stopped /\ routed < NumRequests
  /\ routed + 1 \in Saves => stage[Router] = "returned"
  /\ routed' = routed + 1
  /\ stage' = [stage EXCEPT ![Router] = "idle"]
  /\ UNCHANGED <<dirty, snapshot, post, open, failed, fileVars, rowVars>>

(* insert_metrics: the posting task starts.                                *)
InsertMetrics(q) ==
  /\ ~Stopped /\ q <= routed /\ post[q] = "none"
  /\ post' = [post EXCEPT ![q] = "sent"]
  /\ Change(q, "posted") /\ dirty' = TRUE
  /\ UNCHANGED <<stage, snapshot, routed, open, failed, fileVars>>

(* The replica has answered, or the post has failed; a request of Saves    *)
(* saves before it records which.                                          *)
PostEnds(q) ==
  /\ ~Stopped /\ post[q] = "sent"
  /\ \E end \in {"answered"} \union (IF q \in MayFail THEN {"failed"} ELSE {}) :
       post' = [post EXCEPT ![q] = end]
  /\ IF q \in Saves THEN SaveCache(q) ELSE UNCHANGED <<stage, snapshot>>
  /\ UNCHANGED <<dirty, routed, open, failed, fileVars, rowVars>>

Returned(q) == q \in Saves => stage[q] = "returned"

(* Mutant of UpdateMetrics: the flag is not set.                           *)
UpdateMetricsClean(q) ==
  /\ ~Stopped /\ post[q] = "answered" /\ Returned(q)
  /\ post' = [post EXCEPT ![q] = "closed"]
  /\ Change(q, "answered") /\ UNCHANGED dirty
  /\ UNCHANGED <<stage, snapshot, routed, open, failed, fileVars>>

(* Mutant of UpdateMetrics: a request updates before it has saved.         *)
UpdateMetricsEarly(q) ==
  /\ ~Stopped /\ post[q] = "answered"
  /\ post' = [post EXCEPT ![q] = "closed"]
  /\ Change(q, "answered") /\ dirty' = TRUE
  /\ UNCHANGED <<stage, snapshot, routed, open, failed, fileVars>>

(* update_metrics                                                          *)
UpdateMetrics(q) ==
  /\ ~Stopped /\ post[q] = "answered" /\ Returned(q)
  /\ post' = [post EXCEPT ![q] = "closed"]
  /\ Change(q, "answered") /\ dirty' = TRUE
  /\ UNCHANGED <<stage, snapshot, routed, open, failed, fileVars>>

(* A post that failed leaves its row as it was inserted.                   *)
Abort(q) ==
  /\ ~Stopped /\ post[q] = "failed" /\ Returned(q)
  /\ post' = [post EXCEPT ![q] = "closed"]
  /\ UNCHANGED <<dirty, stage, snapshot, routed, open, failed, fileVars, rowVars>>

Unanswered == {q \in Request : post[q] # "closed"}

(* The launcher finds the generator inactive: nothing was posted and       *)
(* nothing has completed for a while.                                      *)
FinalSync ==
  /\ \E q \in Request : post[q] # "none"
  /\ SaveCache(Launcher)
  /\ open' = Unanswered
  /\ UNCHANGED <<dirty, routed, post, failed, fileVars, rowVars>>

SaveStep(c) == Truncate(c) \/ Write(c) \/ Saved(c) \/ SaveFails(c)

Next ==
  \/ RouterSync \/ Schedule \/ FinalSync
  \/ \E q \in Request : InsertMetrics(q) \/ PostEnds(q) \/ UpdateMetrics(q) \/ Abort(q)
  \/ \E c \in Caller : SaveStep(c)

Spec == Init /\ [][Next]_vars
-----------------------------------------------------------------------------
(* README.md:103, "Experiment outputs will be saved": when every post has  *)
(* ended before the launcher's last save, the file holds every row as it   *)
(* last was, and nothing else.                                             *)
RunIsRecorded == Stopped /\ open = {} => file = cache /\ ~leftover

(* It does if no post has failed: saves that overlap, fail, or race with   *)
(* rows that change then lose nothing, since whoever saves and clears the  *)
(* flag changes a row of its own afterwards.                               *)
AnswersAreRecorded == (\A q \in Request : cache[q] = "answered") => RunIsRecorded

(* save_cache clears the flag although rows may have changed since its     *)
(* snapshot, and a save may overwrite a newer one.  However many saves     *)
(* overlap, only rows changed while one was running are lost by that,      *)
(* unless a save fails between opening the file and writing it: that also  *)
(* empties what another has just written and then marks as saved.          *)
OnlyRacedRowsAreLost ==
  ~dirty /\ failed = {} /\ (\A c \in Caller : ~Saving(c)) =>
    /\ \A q \in Request \ raced : file[q] = cache[q]
    /\ leftover => raced # {}

(* What holds of the store whoever saves, and whenever.                    *)
MetricsInv == TypeOK /\ OnlyRacedRowsAreLost
=============================================================================
