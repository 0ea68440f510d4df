---------------------------- MODULE AnswersCheck ----------------------------
(***************************************************************************)
(* The answers check: a client's own questions, answered again whenever     *)
(* what they are answered from changes (core2/answers_check.py, its tables  *)
(* in store/core2_store.py, the page admin/core2_answers_check.py).         *)
(*                                                                          *)
(* The minute's pass works out whether a run is due and claims one; an      *)
(* admin's request claims one too.  A unique index lets one run of a        *)
(* workspace be 'running'.  The run's thread answers question after         *)
(* question and stores each result; decisions, Learns, new questions and    *)
(* restarts fall in between.  A run of a process that is gone, or of two    *)
(* hours, is let go and never done.  What is due is worked out from the     *)
(* last finished run of every question, the results and the decisions.      *)
(*                                                                          *)
(* The reads of one pass are one step.  Whether a question is asked anew or *)
(* its last plan drawn again, it is answered from the model as it is then:  *)
(* that model stands for the answer.                                        *)
(*                                                                          *)
(* A definition X_Something is X with a plausible bug (README, Mutants).    *)
(***************************************************************************)
EXTENDS Naturals

CONSTANTS
    Worker,     \* threads that start and do runs
    Question,
    Digest,     \* what the decisions come to
    None,
    MaxEvents   \* bound: decisions, Learns, questions added, runs that fail, restarts, runs of two hours

ASSUME AnswersConstants ==
    /\ MaxEvents \in Nat
    /\ Digest # {} /\ None \notin Digest

Stamp == [version : Nat, digest : Digest]     \* core2_model_stamp
ASSUME NoStamp == None \notin Stamp

VARIABLES
    model,     \* the stamp of the model questions are answered from
    learning,  \* a Learn runs in this process
    questions, \* core2_test_question
    result,    \* core2_answer_check_result: what each question's latest answer was drawn from
    running,   \* the run that is 'running': None, or whether another process's, or two hours old, let it go
    whole,     \* the stamp of the last run of every question that is done
    noticed,   \* _SEEN: the digest that was seen, and whether it has settled since
    busy,      \* _RUNNING: a run's thread is at work in this process
    worker,    \* where each thread is
    events,
    shaken     \* history: decisions are back at what they were; a run that was let go stored an old answer

answersVars == <<model, learning, questions, result, running, whole, noticed, busy, worker, events, shaken>>

WorkerState ==
    [at : {"idle", "start", "claim", "begin", "ask", "store"},
     only : SUBSET Question, every : BOOLEAN,   \* the questions it is for, and whether these are all of them
     stamp : Stamp \cup {None},                 \* read before it is claimed
     drawn : Stamp \cup {None},                 \* what the answer in hand was drawn from
     next : Question \cup {None}]
Off == [at |-> "idle", only |-> {}, every |-> FALSE, stamp |-> None, drawn |-> None, next |-> None]

AnswersInit ==
    /\ model \in [version : {1}, digest : Digest]
    /\ learning = FALSE
    /\ questions \in SUBSET Question
    /\ result = [q \in Question |-> None]
    /\ running = None /\ whole = None /\ noticed = None /\ busy = FALSE
    /\ worker = [w \in Worker |-> Off]
    /\ events = 0
    /\ shaken = [back |-> FALSE, late |-> FALSE]

To(w, fields) == worker' = [worker EXCEPT ![w] = fields]
Minds(w) == running # None /\ running.by = w

-----------------------------------------------------------------------------
(***************************************************************************)
(* When a run is due: due, run_due_answer_checks                            *)
(***************************************************************************)

\* release_stopped_core2_answer_checks
Released == IF running # None /\ (running.gone \/ running.old) THEN None ELSE running

Fresh == {q \in questions : result[q] = None}
Checks(w, only, every) == To(w, [Off EXCEPT !.at = "start", !.only = only, !.every = every])

LearnedSince == IF whole = None THEN TRUE ELSE whole.version # model.version
NoticedNow == IF noticed = None THEN FALSE ELSE noticed.digest = model.digest

\* Every question is asked first of all, and after a Learn; new ones by themselves; all are
\* drawn again once the decisions have not changed for a while.
Plan(w) ==
    IF LearnedSince THEN Checks(w, questions, TRUE) /\ UNCHANGED noticed
    ELSE IF Fresh # {} THEN Checks(w, Fresh, FALSE) /\ UNCHANGED noticed
    ELSE IF whole.digest = model.digest THEN noticed' = None /\ UNCHANGED worker
    ELSE IF ~NoticedNow THEN noticed' = [digest |-> model.digest, settled |-> FALSE] /\ UNCHANGED worker
    ELSE IF ~noticed.settled THEN UNCHANGED <<noticed, worker>>
    ELSE Checks(w, questions, TRUE) /\ noticed' = None

Due(w) ==
    /\ worker[w].at = "idle" /\ ~learning
    /\ running' = Released
    /\ IF questions # {} /\ ~busy THEN Plan(w) ELSE UNCHANGED <<noticed, worker>>
    /\ UNCHANGED <<model, learning, questions, result, whole, busy, events, shaken>>

\* SETTLE_SECONDS
Settles ==
    /\ noticed # None /\ ~noticed.settled
    /\ noticed' = [noticed EXCEPT !.settled = TRUE]
    /\ UNCHANGED <<model, learning, questions, result, running, whole, busy, worker, events, shaken>>

\* answers_check_run: an admin's request, of every question or of one
AskNow(w) ==
    /\ worker[w].at = "idle" /\ ~learning
    /\ \/ questions # {} /\ Checks(w, questions, TRUE)
       \/ \E q \in questions : Checks(w, {q}, FALSE)
    /\ events < MaxEvents /\ events' = events + 1
    /\ UNCHANGED <<model, learning, questions, result, running, whole, noticed, busy, shaken>>

-----------------------------------------------------------------------------
(***************************************************************************)
(* A run: start, run                                                        *)
(***************************************************************************)

\* The questions of a run, as they are listed now.
Listed(w) == IF worker[w].every THEN questions ELSE worker[w].only \cap questions

ReadStamp(w) ==
    /\ worker[w].at = "start"
    /\ To(w, IF Listed(w) = {} THEN Off ELSE [worker[w] EXCEPT !.at = "claim", !.stamp = model])
    /\ UNCHANGED <<model, learning, questions, result, running, whole, noticed, busy, events, shaken>>

\* update_core2_answer_check: the run is done, unless it was let go.
Closes(w, stamp) ==
    /\ running' = IF Minds(w) THEN None ELSE running
    /\ whole' = IF Minds(w) /\ worker[w].every THEN stamp ELSE whole
    /\ To(w, Off)

\* claim_core2_answer_check: the stopped one is let go; while one runs there is no other.
ClaimRun(w) ==
    /\ worker[w].at = "claim"
    /\ IF Released = None
       THEN /\ running' = [by |-> w, gone |-> FALSE, old |-> FALSE]
            /\ To(w, [worker[w] EXCEPT !.at = "begin"])
       ELSE running' = Released /\ To(w, Off)
    /\ UNCHANGED <<model, learning, questions, result, whole, noticed, busy, events, shaken>>

\* The questions are listed anew; with none left the run is done at once.
BeginRun(w) ==
    /\ worker[w].at = "begin"
    /\ IF Listed(w) = {}
       THEN Closes(w, worker[w].stamp) /\ UNCHANGED busy
       ELSE /\ To(w, [worker[w] EXCEPT !.at = "ask", !.only = Listed(w)])
            /\ busy' = TRUE
            /\ UNCHANGED <<running, whole>>
    /\ UNCHANGED <<model, learning, questions, result, noticed, events, shaken>>

\* check_one
Answer(w) ==
    /\ worker[w].at = "ask"
    /\ \E q \in worker[w].only : To(w, [worker[w] EXCEPT !.at = "store", !.next = q, !.drawn = model])
    /\ UNCHANGED <<model, learning, questions, result, running, whole, noticed, busy, events, shaken>>

\* add_core2_answer_result, whatever became of the run
StoreResult(w) ==
    /\ worker[w].at = "store"
    /\ result' = [result EXCEPT ![worker[w].next] = worker[w].drawn]
    /\ To(w, [worker[w] EXCEPT !.at = "ask", !.only = @ \ {worker[w].next}, !.next = None, !.drawn = None])
    /\ shaken' = [shaken EXCEPT !.late = @ \/ (~Minds(w) /\ worker[w].drawn # model)]
    /\ UNCHANGED <<model, learning, questions, running, whole, noticed, busy, events>>

FinishRun_StampNow(w) ==
    /\ worker[w].at = "ask" /\ worker[w].only = {}
    /\ Closes(w, model)
    /\ busy' = FALSE
    /\ UNCHANGED <<model, learning, questions, result, noticed, events, shaken>>

FinishRun_KeepsBusy(w) ==
    /\ worker[w].at = "ask" /\ worker[w].only = {}
    /\ Closes(w, worker[w].stamp)
    /\ UNCHANGED <<model, learning, questions, result, noticed, busy, events, shaken>>

\* _RUNNING is left whoever else is at work.
FinishRun(w) ==
    /\ worker[w].at = "ask" /\ worker[w].only = {}
    /\ Closes(w, worker[w].stamp)
    /\ busy' = FALSE
    /\ UNCHANGED <<model, learning, questions, result, noticed, events, shaken>>

-----------------------------------------------------------------------------
(***************************************************************************)
(* What happens meanwhile                                                   *)
(***************************************************************************)

Event == events < MaxEvents /\ events' = events + 1

\* The run's thread meets an exception: the run has failed.
FailRun(w) ==
    /\ worker[w].at \in {"ask", "store"}
    /\ Event
    /\ running' = IF Minds(w) THEN None ELSE running
    /\ busy' = FALSE
    /\ To(w, Off)
    /\ UNCHANGED <<model, learning, questions, result, whole, noticed, shaken>>

\* The questions cannot be listed: the thread ends, and its run stays 'running'.
LoseRun(w) ==
    /\ worker[w].at = "begin"
    /\ Event
    /\ To(w, Off)
    /\ UNCHANGED <<model, learning, questions, result, running, whole, noticed, busy, shaken>>

AtWorkOn(w) == Minds(w) /\ ~running.gone /\ worker[w].at \in {"begin", "ask", "store"}

\* ANSWER_CHECK_STALE_MINUTES pass while its thread is at work, or with nobody at work on it.
GrowsOld ==
    /\ running # None /\ ~running.old
    /\ running' = [running EXCEPT !.old = TRUE]
    /\ UNCHANGED <<model, learning, questions, result, whole, noticed, busy, worker, shaken>>
RunGrowsOld == (\E w \in Worker : AtWorkOn(w)) /\ GrowsOld /\ Event
LostRunGrowsOld == (\A w \in Worker : ~AtWorkOn(w)) /\ GrowsOld /\ UNCHANGED events

\* A restart: threads and memory are gone, the run is another process's, a Learn is no more.
Restart ==
    /\ Event
    /\ running' = IF running = None THEN None ELSE [running EXCEPT !.gone = TRUE]
    /\ worker' = [w \in Worker |-> Off]
    /\ busy' = FALSE /\ noticed' = None /\ learning' = FALSE
    /\ UNCHANGED <<model, questions, result, whole, shaken>>

\* Another decision, or one taken back.
ChangeDecisions ==
    /\ Event
    /\ \E d \in Digest \ {model.digest} : model' = [model EXCEPT !.digest = d]
    /\ shaken' = [shaken EXCEPT !.back = @ \/ model' = whole \/ (\E q \in Question : model' = result[q])
                                        \/ \E w \in Worker : model' = worker[w].stamp]
    /\ UNCHANGED <<learning, questions, result, running, whole, noticed, busy, worker>>

StartLearn ==
    /\ ~learning /\ Event
    /\ learning' = TRUE
    /\ UNCHANGED <<model, questions, result, running, whole, noticed, busy, worker, shaken>>

\* It stores its version, or fails, or has run for LEARN_STALE.
EndLearn ==
    /\ learning /\ learning' = FALSE
    /\ model' \in {model, [model EXCEPT !.version = @ + 1]}
    /\ UNCHANGED <<questions, result, running, whole, noticed, busy, worker, events, shaken>>

AddQuestion ==
    /\ Event
    /\ \E q \in {p \in Question \ questions : result[p] = None} : questions' = questions \cup {q}
    /\ UNCHANGED <<model, learning, result, running, whole, noticed, busy, worker, shaken>>

\* delete_core2_test_question; another that is added has another id.
DeleteQuestion ==
    /\ Event
    /\ \E q \in questions : questions' = questions \ {q}
    /\ UNCHANGED <<model, learning, result, running, whole, noticed, busy, worker, shaken>>

\* A thread that is at work goes on.
RunGoesOn(w) ==
    \/ ReadStamp(w)
    \/ ClaimRun(w)
    \/ BeginRun(w)
    \/ Answer(w)
    \/ StoreResult(w)
    \/ FinishRun(w)

AnswersNext ==
    \/ \E w \in Worker : Due(w) \/ AskNow(w) \/ RunGoesOn(w) \/ FailRun(w) \/ LoseRun(w)
    \/ Settles
    \/ RunGrowsOld
    \/ LostRunGrowsOld
    \/ Restart
    \/ ChangeDecisions
    \/ StartLearn
    \/ EndLearn
    \/ AddQuestion
    \/ DeleteQuestion

AnswersFairness ==
    /\ \A w \in Worker : WF_answersVars(RunGoesOn(w))
    /\ WF_answersVars(\E w \in Worker : Due(w))
    /\ WF_answersVars(Settles)
    /\ WF_answersVars(LostRunGrowsOld)
    /\ WF_answersVars(EndLearn)

AnswersSpec == AnswersInit /\ [][AnswersNext]_answersVars /\ AnswersFairness

-----------------------------------------------------------------------------
AnswersTypes ==
    /\ model \in Stamp /\ learning \in BOOLEAN
    /\ questions \subseteq Question
    /\ result \in [Question -> Stamp \cup {None}]
    /\ running \in [by : Worker, gone : BOOLEAN, old : BOOLEAN] \cup {None}
    /\ whole \in Stamp \cup {None}
    /\ noticed \in [digest : Digest, settled : BOOLEAN] \cup {None}
    /\ busy \in BOOLEAN
    /\ worker \in [Worker -> WorkerState]
    /\ events \in 0 .. MaxEvents
    /\ shaken \in [back : BOOLEAN, late : BOOLEAN]

Checked == \A q \in questions : result[q] = model

\* core2/answers_check.py:22 "everything asked again after a Learn, replayed once decisions have
\* stopped changing": where the pass finds nothing left to do, each question's latest answer
\* was drawn from the model as it is, unless decisions came back to what they had been or a
\* run that was let go stored an answer it had drawn before.
NothingDueIsChecked ==
    whole = model /\ Fresh = {} => Checked \/ shaken.back \/ shaken.late

\* The same, as what must come about: changes ended, every question is checked as things are.
AnswersGetChecked == <>[](Checked \/ shaken.back \/ shaken.late)
=============================================================================
