--------------------------- MODULE AnalysisWatching ---------------------------
(***************************************************************************)
(* A tab that follows one analysis (AnalysisProgressFlow, AnalysisReport-  *)
(* Flow): it asks GET /analyses/{id}, once more if that fails, every three *)
(* seconds while the status it has is not final, and moves to the report   *)
(* when it is.  What the server answers is what AnalysisApi promises.      *)
(***************************************************************************)
EXTENDS Naturals

CONSTANTS Analyses, InputSets, Reports, None

VARIABLES
  accepted, detail,   \* of AnalysisApi
  watch               \* the tab

Api == INSTANCE AnalysisApi

(***************************************************************************)
(* page    None until there is something to follow                         *)
(* about   the analysis                                                    *)
(* data    the answer the query cache has                                  *)
(* fetch   None, or the answer on its way: {} until the server has read it *)
(* again   whether the request may be repeated (retry: 1)                  *)
(* error   whether the last fetch ended in an error                        *)
(***************************************************************************)
NotWatching == [page |-> None, about |-> None, data |-> None, fetch |-> None,
                again |-> FALSE, error |-> FALSE]

WatchInit == Api!Init /\ watch = NotWatching

\* Only a run that has begun is watched.
PollsWhenRunning(answer) == answer.status = "running"

shouldPollAnalysis(answer) == answer.status \in {"pending", "running"}

Asks(w) == [w EXCEPT !.fetch = {}, !.again = TRUE]

\* The progress page, pushed when the analysis was accepted, or the report by its address.
Follow(a) ==
  /\ watch.page = None
  /\ \E page \in {"progress", "report"} :
       watch' = Asks([NotWatching EXCEPT !.page = page, !.about = a])

ApiReads ==
  /\ watch.fetch = {}
  /\ watch' = [watch EXCEPT !.fetch = {detail[watch.about]}]
  /\ UNCHANGED <<accepted, detail>>

AnswerArrives ==
  /\ watch.fetch \notin {None, {}}
  /\ \E answer \in watch.fetch :
       watch' = [watch EXCEPT !.data = answer, !.fetch = None, !.error = FALSE]
  /\ UNCHANGED <<accepted, detail>>

\* A failed fetch leaves the data of the one before.
WatchFails ==
  /\ watch.fetch # None
  /\ watch' = IF watch.again THEN [watch EXCEPT !.fetch = {}, !.again = FALSE]
              ELSE [watch EXCEPT !.fetch = None, !.error = TRUE]
  /\ UNCHANGED <<accepted, detail>>

\* refetchInterval, of both pages: as long as the data at hand is not final.
Poll ==
  /\ watch.fetch = None
  /\ watch.data # None
  /\ shouldPollAnalysis(watch.data)
  /\ watch' = Asks(watch)
  /\ UNCHANGED <<accepted, detail>>

\* 900 ms after a completed analysis is shown; the report page asks anew.
MoveToReport ==
  /\ watch.page = "progress"
  /\ watch.data # None
  /\ watch.data.status = "completed"
  /\ watch' = [IF watch.fetch = None THEN Asks(watch) ELSE watch EXCEPT !.page = "report"]
  /\ UNCHANGED <<accepted, detail>>

\* The report page of an analysis that is not completed sends the reader back.
BackToProgress ==
  /\ watch.page = "report"
  /\ watch.data # None
  /\ watch.data.status # "completed"
  /\ watch' = [IF watch.fetch = None THEN Asks(watch) ELSE watch EXCEPT !.page = "progress"]
  /\ UNCHANGED <<accepted, detail>>

WatchStep ==
  \/ \E a \in Analyses : (Api!Start(a) \/ Api!Publish(a) \/ Api!Fail(a)) /\ UNCHANGED watch
  \/ ApiReads \/ AnswerArrives \/ WatchFails \/ Poll \/ MoveToReport \/ BackToProgress

\* Timers fire and requests end; that the analysis itself ends is not assumed.
WatchFairness ==
  /\ WF_watch(ApiReads) /\ WF_watch(AnswerArrives)
  /\ WF_watch(Poll) /\ WF_watch(MoveToReport) /\ WF_watch(BackToProgress)

===============================================================================
