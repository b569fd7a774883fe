--------------------------- MODULE ContextSearch ---------------------------
(***************************************************************************)
(* What the working context brings up by itself: the cross-reference       *)
(* engine ("this reminds me of ...") and the injection index.  Both walk   *)
(* the entity graph outwards from the entities of the context, one awaited *)
(* query per entity and hop, and then query the composed scopes.  The      *)
(* engine scores what shares entities, falls back on embeddings when       *)
(* nothing surfaces, and asks the store of every hit whether it was        *)
(* dismissed in this context; the index is cut down to its token budget.   *)
(* Meanwhile the operator dismisses suggestions, windows close and links   *)
(* come and go.                                                            *)
(*                                                                         *)
(* Simplifications.                                                        *)
(*  - Every query pulls all its candidates (top_k is not reached), and     *)
(*    links have weight one: a score is the Jaccard overlap in percent.    *)
(*  - Likeness is the cosine of a memory and the recent text, in percent.  *)
(*  - Tokens are counted line by line, and lines of a kind are alike.      *)
(***************************************************************************)
EXTENDS Integers, FiniteSets, Sequences

CONSTANTS
    Idea,           \* memories
    Entity,
    Tags,           \* [Idea -> SUBSET Entity], the entities of a memory
    Place,          \* [Idea -> scope], a scope is a path and <<>> is global
    Seeds,          \* memories flagged cross_ref_candidate
    Likeness,       \* [Idea -> 0..100]
    Contexts,       \* what find_related is asked for: [project, scopes, entities, text]
    Workspaces,     \* where agents work: [path, home, remote, manifest, words, text],
                    \* home being the project it belongs to: the leaf of the path, or
                    \* what the worktree was made from
    MaxEntities,    \* retrieval.context._MAX_CONTEXT_ENTITIES
    Hops,           \* retrieval.neighborhood_hops
    Threshold,      \* crossref.relevance_threshold, percent
    Fallback,       \* crossref.vector_fallback_threshold, percent
    MaxSuggestions, \* crossref.max_suggestions
    MaxSnippets,    \* inject.max_preference_snippets
    TokenBudget,    \* inject.token_budget
    Tokens,         \* tokens of a line: [summary, hint, snippet, recall]
    MaxEvents       \* bound: dismissals, closed windows and changed links

ASSUME ContextAssumption ==
    /\ IsFiniteSet(Idea)
    /\ Tags \in [Idea -> SUBSET Entity] /\ Likeness \in [Idea -> 0..100] /\ Seeds \subseteq Idea
    /\ {Hops, Threshold, Fallback, MaxSuggestions, MaxSnippets, TokenBudget, MaxEvents,
        MaxEntities} \subseteq Nat
    /\ Tokens \in [{"summary", "hint", "snippet", "recall"} -> Nat]
    /\ \A ctx \in Contexts : ctx.project \in Seq(STRING) /\ ctx.scopes \subseteq Seq(STRING)
    /\ \A w \in Workspaces :
         /\ w.path \in Seq(STRING)
         /\ \E k \in DOMAIN w.path :
              /\ w.path[k] = w.home /\ \A n \in 1..k : w.path[n] # ".claude/worktrees"
              /\ k = Len(w.path) \/ w.path[k + 1] = ".claude/worktrees"

VARIABLES
    live,       \* memories that are open and hot
    links,      \* active RELATES edges, as sets of two entities
    dismissed,  \* Suppression nodes: <<memory, context key>>
    search,     \* the search under way
    atAsk,      \* history: live and dismissed when it began, links: there at any time
                \* since, kept: there all the time since
    events

contextVars == <<live, links, dismissed, search, atAsk, events>>

(***************************************************************************)
(* Contexts and scopes                                                     *)
(***************************************************************************)
\* Mutant of ProjectOf: a worktree is a project of its own.
LeafOf(path) == path[Len(path)]

\* derive_project: the leaf of the working directory, a worktree (a directory below
\* ".claude/worktrees") counting as the project it was made from.
ProjectOf(path) ==
    LET cuts == {k \in DOMAIN path : path[k] = ".claude/worktrees"}
    IN  path[IF cuts = {} THEN Len(path) ELSE (CHOOSE k \in cuts : \A n \in cuts : k <= n) - 1]

\* context_from_payload: the hooks name no entities.
HookContext(w) ==
    [project |-> <<ProjectOf(w.path)>>, scopes |-> {<<>>, <<ProjectOf(w.path)>>},
     entities |-> {}, text |-> w.text]

\* _dedup_keep_order and the cap.
FirstNames(names) ==
    {names[k] : k \in {n \in DOMAIN names :
                          Cardinality({names[j] : j \in 1..n - 1} \ {names[n]}) < MaxEntities}}

\* detect_context: the git remote names the project, else the directory; the
\* entities are those of the manifests, then the words of the text.
DetectedContext(w) ==
    LET project == <<IF w.remote # "" THEN w.remote ELSE w.path[Len(w.path)]>>
    IN  [project |-> project, scopes |-> {<<>>, project},
         entities |-> FirstNames(w.manifest \o w.words), text |-> w.text]

\* mid_session_injection: the words of the prompt alone.
PromptContext(w) ==
    [HookContext(w) EXCEPT !.entities = FirstNames(w.words)]

\* Mutant of ContextKey: the wording counts.
KeyWithText(ctx) == <<ctx.project, ctx.entities, ctx.text>>

\* context_key_for: the project and the set of entities, not the wording.
ContextKey(ctx) == <<ctx.project, ctx.entities>>

\* Mutant of Composed: a scope brings everything below its project with it.
WholeProject(ctx) ==
    {Place[i] : i \in {j \in Idea : Place[j] = <<>> \/ Place[j][1] = ctx.project[1]}}

\* _compose_scopes and _scopes: the scopes of the context, or those of its project,
\* with global; the query adds everything above them.
Composed(ctx) ==
    LET asked == IF ctx.scopes # {} THEN ctx.scopes ELSE {ctx.project}
    IN  UNION {{SubSeq(s, 1, k) : k \in 0..Len(s)} : s \in asked}

\* scoped_query: open, hot, in scope, and on one of the entities if any are given.
InReach(ctx, entities) ==
    {i \in live : Place[i] \in Composed(ctx) /\ (entities = {} \/ Tags[i] \cap entities # {})}

\* _is_crossref_candidate: a seed, or a fact of a project.
CrossRefCandidates == {i \in Idea : i \in Seeds \/ Place[i] # <<>>}

Neighbours(names) == UNION {l \in links : l \cap names # {}}

\* graph_relevance, with edges of weight one.
Relevance(i, entities) ==
    (100 * Cardinality(Tags[i] \cap entities)) \div Cardinality(Tags[i] \cup entities)

(***************************************************************************)
(* The walk                                                                *)
(***************************************************************************)
NoSearch == [pc |-> "idle", kind |-> "none", ctx |-> <<>>, seen |-> {}, frontier |-> {},
         next |-> {}, hop |-> 0, hits |-> {}, out |-> {}, index |-> <<>>]

\* An engine without entities has no graph path, an index without entities no filter.
AskContext(kind, ctx) ==
    /\ search.pc = "idle"
    /\ search' = [NoSearch EXCEPT !.kind = kind, !.ctx = ctx, !.seen = ctx.entities,
                              !.frontier = ctx.entities,
                              !.pc = IF ctx.entities # {} /\ Hops > 0 THEN "expand"
                                     ELSE IF kind # "related" THEN "index"
                                     ELSE IF ctx.entities = {} THEN "vector" ELSE "graph"]
    /\ atAsk' = [live |-> live, dismissed |-> dismissed, links |-> links, kept |-> links]
    /\ UNCHANGED <<live, links, dismissed, events>>

\* _expand_neighborhood and _expand_entities: one neighbors() call.
ExpandOne ==
    /\ search.pc = "expand"
    /\ \E name \in search.frontier :
        LET found == Neighbours({name}) \ search.seen
        IN  search' = [search EXCEPT !.frontier = @ \ {name}, !.seen = @ \cup found,
                                     !.next = @ \cup found]
    /\ UNCHANGED <<live, links, dismissed, atAsk, events>>

EndHop ==
    /\ search.pc = "expand" /\ search.frontier = {}
    /\ search' = IF search.next # {} /\ search.hop + 1 < Hops
                 THEN [search EXCEPT !.hop = @ + 1, !.frontier = search.next, !.next = {}]
                 ELSE [search EXCEPT !.pc = IF search.kind = "related" THEN "graph" ELSE "index",
                                     !.next = {}]
    /\ UNCHANGED <<live, links, dismissed, atAsk, events>>

(***************************************************************************)
(* CrossReferenceEngine.find_related                                       *)
(***************************************************************************)
Surfacing(hits) == {h \in hits : h.score >= Threshold}

\* _graph_candidates; when none of them surfaces, the fallback follows.
GraphCandidates ==
    /\ search.pc = "graph"
    /\ LET hits == {[idea |-> i, score |-> Relevance(i, search.seen), graph |-> TRUE] :
                      i \in InReach(search.ctx, search.seen) \cap CrossRefCandidates}
       IN  search' = [search EXCEPT !.hits = hits,
                                    !.pc = IF Surfacing(hits) = {} THEN "vector" ELSE "check"]
    /\ UNCHANGED <<live, links, dismissed, atAsk, events>>

\* _vector_candidates: only with a text to embed, and never a graph candidate again.
VectorCandidates ==
    /\ search.pc = "vector"
    /\ LET known == {h.idea : h \in search.hits}
           near == {i \in (InReach(search.ctx, {}) \cap CrossRefCandidates) \ known :
                      search.ctx.text # "" /\ Likeness[i] >= Fallback}
       IN  search' = [search EXCEPT
              !.hits = @ \cup {[idea |-> i, score |-> Likeness[i], graph |-> FALSE] : i \in near},
              !.pc = "check"]
    /\ UNCHANGED <<live, links, dismissed, atAsk, events>>

\* The best hit that is left: one is_suppressed query each, until the cap.
CheckHit ==
    /\ search.pc = "check" /\ Cardinality(search.out) < MaxSuggestions
    /\ \E h \in Surfacing(search.hits) :
        /\ \A other \in search.hits : other.score <= h.score
        /\ search' = [search EXCEPT !.hits = @ \ {h},
                         !.out = IF <<h.idea, ContextKey(search.ctx)>> \in dismissed THEN @
                                 ELSE @ \cup {h}]
    /\ UNCHANGED <<live, links, dismissed, atAsk, events>>

EndCheck ==
    /\ search.pc = "check"
    /\ Surfacing(search.hits) = {} \/ Cardinality(search.out) = MaxSuggestions
    /\ search' = [search EXCEPT !.pc = "answered"]
    /\ UNCHANGED <<live, links, dismissed, atAsk, events>>

(***************************************************************************)
(* ScopedRetriever.build_index                                             *)
(***************************************************************************)
\* _assemble and estimate_tokens.
Size(form) ==
    Tokens["summary"] + form.hints * Tokens["hint"] + form.snippets * Tokens["snippet"]
      + (IF form.recall THEN Tokens["recall"] ELSE 0)

\* The forms of an index in the order render_index tries them: a snippet less each
\* time, then without the recall hint, then a hint less each time.
Forms(snippets, hints) ==
    [n \in 0..snippets + 1 + hints |->
        [snippets |-> IF n <= snippets THEN snippets - n ELSE 0,
         recall |-> n <= snippets,
         hints |-> IF n <= snippets + 1 THEN hints ELSE hints - (n - snippets - 1)]]

\* render_index: the first form that fits, or the last.
Rendered(snippets, hints, budget) ==
    LET forms == Forms(snippets, hints)
        fits == {n \in DOMAIN forms : Size(forms[n]) <= budget}
    IN  forms[IF fits = {} THEN snippets + 1 + hints ELSE CHOOSE n \in fits : \A k \in fits : n <= k]

\* mid_session_injection has half the budget of session_start_injection.
Budget(kind) == IF kind = "session start" THEN TokenBudget
                ELSE IF TokenBudget \div 2 > 1 THEN TokenBudget \div 2 ELSE 1

BuildIndex ==
    /\ search.pc = "index"
    /\ LET rows == InReach(search.ctx, search.seen)
           globals == Cardinality({i \in rows : Place[i] = <<>>})
       IN  search' = [search EXCEPT !.pc = "answered", !.out = rows,
              !.index = Rendered(IF globals < MaxSnippets THEN globals ELSE MaxSnippets,
                                 Cardinality(rows \cap Seeds), Budget(search.kind))]
    /\ UNCHANGED <<live, links, dismissed, atAsk, events>>

ReturnContext ==
    /\ search.pc = "answered" /\ search' = NoSearch
    /\ UNCHANGED <<live, links, dismissed, atAsk, events>>

(***************************************************************************)
(* Meanwhile                                                               *)
(***************************************************************************)
Event == events < MaxEvents /\ events' = events + 1

\* record_suppression, idempotent.
Dismiss(i, ctx) ==
    /\ Event /\ dismissed' = dismissed \cup {<<i, ContextKey(ctx)>>}
    /\ UNCHANGED <<live, links, search, atAsk>>

CloseIdea(i) ==
    /\ Event /\ i \in live /\ live' = live \ {i}
    /\ UNCHANGED <<links, dismissed, search, atAsk>>

Link(l) ==
    /\ Event
    /\ links' = IF l \in links THEN links \ {l} ELSE links \cup {l}
    /\ atAsk' = [atAsk EXCEPT !.links = @ \cup links', !.kept = @ \cap links']
    /\ UNCHANGED <<live, dismissed, search>>

ContextInit ==
    /\ live = Idea /\ links = {} /\ dismissed = {} /\ search = NoSearch
    /\ atAsk = [live |-> {}, dismissed |-> {}, links |-> {}, kept |-> {}] /\ events = 0

SearchStep ==
    \/ ExpandOne \/ EndHop \/ GraphCandidates \/ VectorCandidates \/ CheckHit \/ EndCheck
    \/ BuildIndex \/ ReturnContext

ContextNext ==
    \/ \E ctx \in Contexts : AskContext("related", ctx)
    \/ \E w \in Workspaces : \/ AskContext("session start", HookContext(w))
                             \/ AskContext("session start", DetectedContext(w))
                             \/ AskContext("mid session", PromptContext(w))
    \/ SearchStep
    \/ \E i \in Idea : CloseIdea(i) \/ \E ctx \in Contexts : Dismiss(i, ctx)
    \/ \E l \in {k \in SUBSET Entity : Cardinality(k) = 2} : Link(l)

ContextSpec == ContextInit /\ [][ContextNext]_contextVars

(***************************************************************************)
(* Properties                                                              *)
(***************************************************************************)
Answered(kinds) == search.pc = "answered" /\ search.kind \in kinds

\* A dismissal made before a search began keeps the memory away in the same working
\* context, however that context is worded, whichever path finds the memory again
\* and whatever else is dismissed meanwhile.
DismissedStaysAway ==
    Answered({"related"}) =>
        \A h \in search.out, ctx \in Contexts :
            ctx.project = search.ctx.project /\ ctx.entities = search.ctx.entities
              => <<h.idea, ContextKey(ctx)>> \notin atAsk.dismissed

\* What links lead to within so many steps.
Around(names, over, hops) ==
    LET reached[h \in 0..hops] ==
            IF h = 0 THEN names
            ELSE reached[h - 1] \cup UNION {l \in over : l \cap reached[h - 1] # {}}
    IN  reached[hops]

Visible(i, ctx) ==
    \E s \in ctx.scopes \cup {ctx.project} :
        Len(Place[i]) <= Len(s) /\ Place[i] = SubSeq(s, 1, Len(Place[i]))

\* On an entity within reach of the context's, if it has any.
OnTopic(i, ctx, over) ==
    ctx.entities = {} \/ Tags[i] \cap Around(ctx.entities, over, Hops) # {}

\* What a context brings up is the business of that context: it was open when the
\* search began, it is visible from the context's scopes (never a sibling's or a
\* sub-scope's), and it is on an entity within reach of the context's, or was found
\* by its likeness after the graph surfaced nothing.
SurfacedIsInReach ==
    /\ Answered({"related"}) =>
         \A h \in search.out :
            /\ h.idea \in atAsk.live \cap CrossRefCandidates /\ Visible(h.idea, search.ctx)
            /\ IF h.graph THEN OnTopic(h.idea, search.ctx, atAsk.links)
               ELSE Likeness[h.idea] >= Threshold /\ \A g \in search.out : ~ g.graph
    /\ Answered({"session start", "mid session"}) =>
         \A i \in search.out :
            i \in atAsk.live /\ Visible(i, search.ctx) /\ OnTopic(i, search.ctx, atAsk.links)

\* Whoever starts to work in a directory, or in a worktree made from it, is told of
\* what was learnt there: the hooks' index leaves out no open memory of that project
\* (or of everybody's), whatever links and windows change while it is built.
IndexKnowsItsProject ==
    Answered({"session start", "mid session"}) =>
        \A w \in Workspaces, i \in live :
            /\ search.ctx \in {HookContext(w), PromptContext(w)}
            /\ Place[i] \in {<<>>, <<w.home>>} /\ OnTopic(i, search.ctx, atAsk.kept)
            => i \in search.out

\* "Truncate, never overflow": the index keeps to its budget, or is the summary
\* alone; and nothing was dropped that would have fitted.
IndexFitsItsBudget ==
    Answered({"session start", "mid session"}) =>
        LET form == search.index
            budget == Budget(search.kind)
        IN  /\ Size(form) <= budget \/ form = [snippets |-> 0, hints |-> 0, recall |-> FALSE]
            /\ form.recall /\ form.snippets < MaxSnippets
               /\ form.snippets < Cardinality({i \in search.out : Place[i] = <<>>})
                 => Size([form EXCEPT !.snippets = @ + 1]) > budget
            /\ ~ form.recall /\ form.hints < Cardinality(search.out \cap Seeds)
                 => Size([form EXCEPT !.hints = @ + 1]) > budget

\* The index that a session is given serves the work on its project: it is complete,
\* and what is cut from it is cut to the budget.
IndexServesItsProject == IndexKnowsItsProject /\ IndexFitsItsBudget

=============================================================================
