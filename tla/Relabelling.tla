---------------------------- MODULE Relabelling ----------------------------
(***************************************************************************)
(* The tags of a memory - its scope, its category and the cross-reference  *)
(* flag - and everything that writes them: the extractor that derives the  *)
(* scope from the transcript's path and the model's decision, the          *)
(* operator's corrections, and three jobs.  reclassify asks the model      *)
(* again, rescope-global moves global memories to the project of their     *)
(* transcript, and the category merge folds look-alike categories.  Each   *)
(* job works from one listing, memory by memory, with awaits in between.   *)
(*                                                                         *)
(* Simplifications.                                                        *)
(*  - A scope is a path of names, <<>> is global.  A transcript gives the  *)
(*    project it belongs to, the project its directory's encoded name      *)
(*    decodes to, whether its lines carry the working directory, where it  *)
(*    lies, and its workflow segment.                                      *)
(*  - The tier plays no part: every job takes archived memories too.       *)
(*  - Which categories look alike is a constant relation: no embedding     *)
(*    fails for some of the names only.                                    *)
(***************************************************************************)
EXTENDS Integers, FiniteSets

CONSTANTS
    Memo,
    Transcript,     \* [Memo -> [home, decoded, cwd, place, segment]]
    SubSegments,    \* scope.subagent_subsegments
    Slug,           \* [label -> category]: trimmed, lower case, never empty
    Answers,        \* what the model says of a text: [decision, label, seed]
    Unparsed,       \* what classify() makes of an answer without a scope decision
    KeepGlobal,     \* maintenance.rescope_keep_global_categories, slugs
    Alike,          \* pairs of categories above category.merge_similarity_threshold
    Rank,           \* [category -> Nat]: shorter, then alphabetical
    Corrections,    \* what an operator sets: [scope, label, seed]; a scope is a sequence
    MaxCorrections  \* bound: operator's corrections and closed windows

ASSUME RelabellingAssumption ==
    /\ IsFiniteSet(Memo)
    /\ IsFiniteSet(DOMAIN Rank) /\ \A c \in DOMAIN Rank : Rank[c] \in Nat
    /\ \A fix \in Corrections :
         fix.label \in DOMAIN Slug /\ (fix.scope = <<>> \/ 1 \in DOMAIN fix.scope)
    /\ Answers \cup {Unparsed} \subseteq
         [decision : {"global", "project"}, label : DOMAIN Slug, seed : BOOLEAN]
    /\ Unparsed.decision = "global"
    /\ \A c, d \in DOMAIN Rank : /\ <<c, d>> \in Alike <=> <<d, c>> \in Alike
                                 /\ Rank[c] = Rank[d] => c = d

VARIABLES
    tags,       \* memory -> [scope, category, seed, open]
    task,       \* the job under way: [kind, todo]
    quiet,      \* history: nobody but the job has written since its listing
    placed,     \* history: memory -> the projects an operator put it in
    everybodys, \* history: kept kinds filed under global and not filed anew since; a
                \* correction that a rescope's listing is too old to know of does not count
    corrections

tagVars == <<tags, task, quiet, placed, everybodys, corrections>>

Known == DOMAIN tags
NoTask == [kind |-> "none", todo |-> {}]

(***************************************************************************)
(* Scopes                                                                  *)
(***************************************************************************)
\* derive_scope_from_transcript: the working directory names the project, or else
\* what the directory's encoded name decodes to; a workflow may get a segment.
DerivedScope(t, withCwd) ==
    LET project == IF withCwd /\ t.cwd THEN t.home ELSE t.decoded
    IN  IF SubSegments /\ t.place = "projects" /\ t.segment # ""
        THEN <<project, t.segment>> ELSE <<project>>

\* _project_scope_from_events; a pushed turn has no transcript, and perhaps no project.
ProjectScope(m) ==
    LET t == Transcript[m]
    IN  CASE t.place # "none" -> DerivedScope(t, TRUE)
          [] t.place = "none" /\ t.home # "" -> <<t.home>>
          [] OTHER -> <<>>

\* _scope_for: the decision is the model's, the path never.
ScopeFor(decision, projectScope) == IF decision = "global" THEN <<>> ELSE projectScope

\* Mutant of SourceScope: a path outside of projects/ is decoded too.
SourceOfAnyPath(m) ==
    IF Transcript[m].place = "none" THEN {} ELSE {<<DerivedScope(Transcript[m], FALSE)[1]>>}

\* _source_project_scope: the project whose directory the path lies in, if any.
SourceScope(m) ==
    IF Transcript[m].place = "projects" THEN {<<DerivedScope(Transcript[m], FALSE)[1]>>} ELSE {}

(***************************************************************************)
(* Writers                                                                 *)
(***************************************************************************)
Filed(m, new) ==
    everybodys' = IF new.scope = <<>> /\ new.category \in KeepGlobal
                  THEN everybodys \cup {m} ELSE everybodys \ {m}

\* _parse_memories: what the model says of a chunk, filed.
Extract(m, answer) ==
    /\ m \notin Known
    /\ LET new == [scope |-> ScopeFor(answer.decision, ProjectScope(m)),
                   category |-> Slug[answer.label], seed |-> answer.seed, open |-> TRUE]
       IN  /\ tags' = [k \in Known \cup {m} |-> IF k = m THEN new ELSE tags[k]]
           /\ Filed(m, new)
    /\ quiet' = FALSE
    /\ UNCHANGED <<task, placed, corrections>>

\* patch_memory: any of the three tags.
Correct(m, fix) ==
    /\ m \in Known /\ corrections < MaxCorrections /\ corrections' = corrections + 1
    /\ LET new == [tags[m] EXCEPT !.scope = fix.scope, !.category = Slug[fix.label],
                                  !.seed = fix.seed]
       IN  /\ tags' = [tags EXCEPT ![m] = new]
           /\ IF task.kind = "rescope" THEN everybodys' = everybodys \ {m} ELSE Filed(m, new)
    /\ placed' = [placed EXCEPT ![m] = @ \cup {fix.scope[k] : k \in DOMAIN fix.scope}]
    /\ quiet' = FALSE
    /\ UNCHANGED task

\* A later memory supersedes it.
Retire(m) ==
    /\ m \in Known /\ tags[m].open
    /\ corrections < MaxCorrections /\ corrections' = corrections + 1
    /\ tags' = [tags EXCEPT ![m].open = FALSE]
    /\ quiet' = FALSE
    /\ UNCHANGED <<task, placed, everybodys>>

(***************************************************************************)
(* The jobs                                                                *)
(***************************************************************************)
Begin(kind, todo) ==
    /\ task = NoTask /\ task' = [kind |-> kind, todo |-> todo]
    /\ quiet' = TRUE
    /\ UNCHANGED <<tags, placed, everybodys, corrections>>

Doing(kind, item) == task.kind = kind /\ item \in task.todo
Done(item) == task' = [task EXCEPT !.todo = @ \ {item}]

EndJob ==
    /\ task # NoTask /\ task.todo = {} /\ task' = NoTask
    /\ UNCHANGED <<tags, quiet, placed, everybodys, corrections>>

\* iter_memories: the open records as they are now.
Records(chosen) == {[id |-> m, was |-> tags[m]] : m \in {k \in chosen : tags[k].open}}

ListForReclassify == Begin("reclassify", Records(Known))
ListGlobals == Begin("rescope", Records({m \in Known : tags[m].scope = <<>>}))

\* _reclassify_one: the model sees the listed project, and what differs from the
\* listed record is written over whatever is there now.
Reclassify(item, answer) ==
    /\ Doing("reclassify", item) /\ Done(item)
    /\ LET was == item.was
           scope == ScopeFor(answer.decision, IF was.scope = <<>> THEN <<>> ELSE <<was.scope[1]>>)
           new == [tags[item.id] EXCEPT
                     !.scope = IF scope # was.scope THEN scope ELSE @,
                     !.category = IF Slug[answer.label] # was.category THEN Slug[answer.label] ELSE @,
                     !.seed = IF answer.seed # was.seed THEN answer.seed ELSE @]
       IN  /\ tags' = [tags EXCEPT ![item.id] = new]
           /\ IF new # tags[item.id] THEN Filed(item.id, new) ELSE UNCHANGED everybodys
    /\ UNCHANGED <<quiet, placed, corrections>>

ClassifyOne(item, answer) == Reclassify(item, answer)

\* An answer without a valid decision comes back as a classification.
ClassifyUnparsed(item) == Reclassify(item, Unparsed)

\* The call raises: the memory is left as it is.
ClassifyFails(item) ==
    /\ Doing("reclassify", item) /\ Done(item)
    /\ UNCHANGED <<tags, quiet, placed, everybodys, corrections>>

\* ProvenanceRescopeJob: the listed category counts, and the scope is overwritten.
RescopeOne(item) ==
    /\ Doing("rescope", item) /\ Done(item)
    /\ tags' = IF item.was.category \in KeepGlobal \/ SourceScope(item.id) = {} THEN tags
               ELSE [tags EXCEPT ![item.id].scope = CHOOSE s \in SourceScope(item.id) : TRUE]
    /\ UNCHANGED <<quiet, placed, everybodys, corrections>>

(***************************************************************************)
(* The category merge                                                      *)
(***************************************************************************)
\* list_categories: the open memories of a category.
Count(c) == Cardinality({m \in Known : tags[m].open /\ tags[m].category = c})
InUse == {c \in DOMAIN Rank : Count(c) > 0}
Before(c, d) == Count(c) > Count(d) \/ (Count(c) = Count(d) /\ Rank[c] < Rank[d])

\* Each category in turn, the most used first, starts a cluster unless it has been
\* taken by an earlier one it resembles.
Canonical ==
    CHOOSE L \in SUBSET InUse :
        \A c \in InUse : c \in L <=> ~ \E l \in L : Before(l, c) /\ <<l, c>> \in Alike

\* Mutant of Target: any look-alike that is used more will do.
AnyTarget(c) ==
    CHOOSE l \in InUse : /\ Before(l, c) /\ <<l, c>> \in Alike
                         /\ \A k \in InUse : Before(k, c) /\ <<k, c>> \in Alike => ~ Before(l, k)

\* The cluster that took it, and _pick_canonical.
Target(c) ==
    CHOOSE l \in Canonical : /\ Before(l, c) /\ <<l, c>> \in Alike
                             /\ \A k \in Canonical : <<k, c>> \in Alike => ~ Before(k, l)

\* propose_merges.
Proposals == {<<c, Target(c)>> : c \in InUse \ Canonical}

ListCategories == Begin("merge", Proposals)

\* merge_categories: every memory of the category, closed ones too.
MergeOne(pair) ==
    /\ Doing("merge", pair) /\ Done(pair)
    /\ tags' = [m \in Known |-> IF tags[m].category = pair[1]
                                THEN [tags[m] EXCEPT !.category = pair[2]] ELSE tags[m]]
    /\ UNCHANGED <<quiet, placed, everybodys, corrections>>

(***************************************************************************)
(* The specification                                                       *)
(***************************************************************************)
RelabelInit ==
    /\ tags = [m \in {} |-> {}] /\ task = NoTask
    /\ quiet = FALSE
    /\ placed = [m \in Memo |-> {}] /\ everybodys = {}
    /\ corrections = 0

JobStep ==
    \/ ListForReclassify \/ ListGlobals \/ ListCategories \/ EndJob
    \/ \E item \in task.todo :
         \/ \E answer \in Answers : ClassifyOne(item, answer)
         \/ ClassifyUnparsed(item) \/ ClassifyFails(item)
         \/ RescopeOne(item) \/ MergeOne(item)

RelabelNext ==
    \/ \E m \in Memo : \/ \E answer \in Answers : Extract(m, answer)
                       \/ \E fix \in Corrections : Correct(m, fix)
                       \/ Retire(m)
    \/ JobStep

RelabelSpec == RelabelInit /\ [][RelabelNext]_tagVars

(***************************************************************************)
(* Properties                                                              *)
(***************************************************************************)
\* Where a memory belongs: the project it was said in; and the one that its directory's
\* name decodes to (the decoding is lossy), if that is where the path has to say it.
Homes(m) ==
    LET t == Transcript[m]
    IN  {t.home} \cup (IF t.place = "projects" \/ ~ t.cwd THEN {t.decoded} ELSE {})

AtHome(m, scope, others) == scope = <<>> \/ scope[1] \in Homes(m) \cup others

\* No job leaks: whatever is extracted, asked again, moved by its path and folded,
\* in whatever order, a memory is global or in a scope of a project it belongs to (or
\* of one that an operator put it in), and what was filed under everybody's kinds is
\* not taken to a project by a rescope, a merge of categories or both.
RelabelledStaysHome ==
    /\ \A m \in Known : AtHome(m, tags[m].scope, placed[m])
    /\ \A m \in everybodys : tags[m].scope = <<>>

\* "Idempotent": after a category merge that nobody wrote into, nothing is left to
\* merge, although merging changes the counts that the targets were chosen by.
MergeSettles == task.kind = "merge" /\ task.todo = {} /\ quiet => Proposals = {}

=============================================================================
