--------------------------- MODULE EvalLabelling ---------------------------
(***************************************************************************)
(* Labelling evaluation candidates in the browser (web/routes/             *)
(* _bootstrap_state.py, the label and finish routes of mutations.py, the   *)
(* fold of evals/bootstrap.py, and the page that drives them): the queue   *)
(* of candidates lives in the web process, every label is a request of its *)
(* own that the page does not wait for, a label that has been taken makes  *)
(* the page ask for the queue again, and "finish" folds what the queue     *)
(* then holds into the gold set file.                                      *)
(*                                                                         *)
(* Simplifications.                                                        *)
(*  - A candidate's label and corrected type are one choice: the type to   *)
(*    keep it as, "drop" or "unreviewed" (bootstrapLabels.ts).             *)
(*  - The gold set is its classifier cases: [candidate -> type]; the seed  *)
(*    memories are the same candidates, and the other cases stay empty.    *)
(***************************************************************************)
EXTENDS Naturals

CONSTANTS
    Candidate,
    MemoryType,     \* the types a candidate can be kept as
    MaxChoices,     \* bound: labels the operator gives
    MaxTroubles     \* bound: restarts of the web process, failing writes

ASSUME LabelAssumption ==
    MemoryType \cap {"drop", "unreviewed"} = {} /\ {MaxChoices, MaxTroubles} \subseteq Nat

VARIABLES
    queue,      \* bootstrap_store: [candidate -> choice]
    page,       \* the choices the page shows
    calls,      \* requests under way: [n, verb, candidate, choice, taken]
    fetch,      \* the page's reading of the queue: [state, choices]
    gold,       \* the file: [candidate -> type]
    choices,    \* how many labels have been given, and the number of the next
    troubles,
    chosen,     \* history: [candidate -> the choices ever made for it]
    blind,      \* history: the web process restarted since the page read its queue
    agreed      \* history: what finish was pressed upon with nothing under way, and
                \* whether it has been folded since: [known, shown, folded]

labelVars == <<queue, page, calls, fetch, gold, choices, troubles, chosen, blind, agreed>>

Choice == MemoryType \cup {"drop", "unreviewed"}
Unreviewed == [c \in Candidate |-> "unreviewed"]
Trouble == troubles < MaxTroubles /\ troubles' = troubles + 1

NoFetch == [state |-> "none", choices |-> Unreviewed]
Asked == [state |-> "asked", choices |-> Unreviewed]
Unknown == [known |-> FALSE, shown |-> Unreviewed, folded |-> FALSE]

\* candidates_to_gold_set: the kept ones, each with its final type.
Folded(labels) ==
    [c \in {d \in Candidate : labels[d] \in MemoryType} |-> labels[c]]

\* Mutant of Invalidated: a reading that is under way is joined.
Joined == IF fetch.state = "none" THEN Asked ELSE fetch

\* invalidateQueries: a reading that is under way is dropped and begun again.
Invalidated == Asked

(***************************************************************************)
(* The page                                                                *)
(***************************************************************************)
Quiet == calls = {} /\ fetch.state = "none" /\ ~blind

\* applyChoice, clearChoice: other labels may still be under way.
Choose(c, choice) ==
    /\ choices < MaxChoices /\ choices' = choices + 1
    /\ calls' = calls \cup {[n |-> choices, verb |-> "label", candidate |-> c,
                             choice |-> choice, taken |-> FALSE]}
    /\ chosen' = [chosen EXCEPT ![c] = @ \cup {choice}]
    /\ agreed' = Unknown
    /\ UNCHANGED <<queue, page, fetch, gold, troubles, blind>>

\* finish: once at a time, labels under way or not.
FinishLabelling ==
    /\ \A call \in calls : call.verb # "finish"
    /\ calls' = calls \cup {[n |-> choices, verb |-> "finish", taken |-> FALSE]}
    /\ agreed' = IF Quiet THEN [known |-> TRUE, shown |-> page, folded |-> FALSE] ELSE Unknown
    /\ UNCHANGED <<queue, page, fetch, gold, choices, troubles, chosen, blind>>

\* onSuccess of either.
Answered(call) ==
    /\ call.taken /\ calls' = calls \ {call} /\ fetch' = Invalidated
    /\ UNCHANGED <<queue, page, gold, choices, troubles, chosen, blind, agreed>>

\* The window is focused, or what is shown is stale.
Refetch ==
    /\ fetch.state = "none" /\ fetch' = Asked
    /\ UNCHANGED <<queue, page, calls, gold, choices, troubles, chosen, blind, agreed>>

Show ==
    /\ fetch.state = "read" /\ page' = fetch.choices /\ fetch' = NoFetch
    /\ UNCHANGED <<queue, calls, gold, choices, troubles, chosen, blind, agreed>>

(***************************************************************************)
(* The web process, which takes requests in the order they arrive          *)
(***************************************************************************)
\* bootstrap_candidates
ReadQueue ==
    /\ fetch.state = "asked" /\ fetch' = [state |-> "read", choices |-> queue]
    /\ blind' = FALSE
    /\ UNCHANGED <<queue, page, calls, gold, choices, troubles, chosen, agreed>>

Take(call) == ~call.taken /\ calls' = (calls \ {call}) \cup {[call EXCEPT !.taken = TRUE]}

\* label_candidate
TakeLabel(call) ==
    /\ call.verb = "label" /\ Take(call)
    /\ queue' = [queue EXCEPT ![call.candidate] = call.choice]
    /\ UNCHANGED <<page, fetch, gold, choices, troubles, chosen, blind, agreed>>

\* finish_bootstrap
TakeFinish(call) ==
    /\ call.verb = "finish" /\ Take(call)
    /\ gold' = Folded(queue) /\ agreed' = [agreed EXCEPT !.folded = TRUE]
    /\ UNCHANGED <<queue, page, fetch, choices, troubles, chosen, blind>>

\* The file cannot be written: the answer is the same.
TakeFinishUnsaved(call) ==
    /\ call.verb = "finish" /\ Take(call) /\ Trouble
    /\ agreed' = Unknown
    /\ UNCHANGED <<queue, page, fetch, gold, choices, chosen, blind>>

\* The queue is seeded anew, requests are lost and a reading is tried again.
Restart ==
    /\ Trouble /\ queue' = Unreviewed /\ calls' = {}
    /\ fetch' = IF fetch.state = "none" THEN fetch ELSE Asked
    /\ blind' = TRUE /\ agreed' = IF agreed.folded THEN agreed ELSE Unknown
    /\ UNCHANGED <<page, gold, choices, chosen>>

(***************************************************************************)
(* The specification                                                       *)
(***************************************************************************)
LabelInit ==
    /\ queue = Unreviewed /\ page = Unreviewed /\ calls = {} /\ fetch = NoFetch
    /\ gold = [c \in {} |-> "drop"] /\ choices = 0 /\ troubles = 0
    /\ chosen = [c \in Candidate |-> {}] /\ blind = FALSE /\ agreed = Unknown

LabelNext ==
    \/ \E c \in Candidate, choice \in Choice : Choose(c, choice)
    \/ \E call \in calls : \/ Answered(call) \/ TakeLabel(call)
                           \/ TakeFinish(call) \/ TakeFinishUnsaved(call)
    \/ FinishLabelling \/ Refetch \/ Show \/ ReadQueue \/ Restart

LabelSpec == LabelInit /\ [][LabelNext]_labelVars

(***************************************************************************)
(* Properties                                                              *)
(***************************************************************************)
\* Whatever the order in which labels, readings and answers arrive, a page with nothing
\* under way shows what the web process holds; a gold set folded from there is what the
\* page showed; and nothing is in the gold set but as the operator chose it.
GoldIsTheOperators ==
    /\ Quiet => page = queue
    /\ agreed.known /\ agreed.folded => gold = Folded(agreed.shown)
    /\ \A c \in DOMAIN gold : gold[c] \in chosen[c]

=============================================================================
