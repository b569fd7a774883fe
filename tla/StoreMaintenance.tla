-------------------------- MODULE StoreMaintenance --------------------------
(***************************************************************************)
(* The maintenance jobs that rewrite the memory store, composed with its   *)
(* writers: consolidation (FR-MNT-2) and the exact-duplicate pass (the     *)
(* decay sweep is in MemoryTiers).  Every job lists the store in one query *)
(* and acts on that list one awaited call at a time, while the ingest      *)
(* loop, the console and other jobs keep writing: the jobs share the       *)
(* asyncio loop with the rest, POST /api/maintenance/{job}/run starts one  *)
(* at any time, and the operator's subcommands run in processes of their   *)
(* own.                                                                    *)
(*                                                                         *)
(* Consolidation writes through upsert_memory like everybody else, so the  *)
(* consolidator is one of the Writers.                                     *)
(***************************************************************************)
EXTENDS MemoryStore

CONSTANTS
    Consolidator,   \* the writer that is the ConsolidationJob
    Dedupers        \* runs of the MemoryDedupJob

Ingesters == Writers \ {Consolidator}

VARIABLES
    conPc,          \* where ConsolidationJob.run is
    listed,         \* units it listed and has not clustered yet, as listed
    cluster,        \* the cluster in hand, then what is left to archive of it
    redundant       \* redundant[d]: copies dedup run d has still to close

consolidationVars == <<conPc, listed, cluster>>
jobVars == <<consolidationVars, redundant>>
vars == <<storeVars, jobVars>>

ActiveHot == Active \cap Hot

-----------------------------------------------------------------------------
(* ConsolidationJob.run *)

\* What the job goes by is the listing; of a listed unit only the confidence can
\* have changed since.
Listing == [id: Ids, confidence: Confidence]

Listed(i) == [id |-> i, confidence |-> mem[i].confidence]

IdsOf(L) == {l.id : l \in L}

\* iter_memories(active_only=True, tier=hot)
ListForConsolidation ==
    /\ Consolidator \in Writers
    /\ conPc = "idle"
    /\ conPc' = "cluster"
    /\ listed' = {Listed(i) : i \in ActiveHot}
    /\ UNCHANGED <<storeVars, cluster, redundant>>

\* Mutant of Joins: clusters are not kept within a scope.
JoinsAcrossScopes(u, v) ==
    /\ mem[u].category = mem[v].category
    /\ mem[u].entities \cap mem[v].entities # {}
    /\ <<mem[u].content, mem[v].content>> \in Equivalent

\* v joins the cluster that u seeds.
Joins(u, v) ==
    /\ mem[u].scope = mem[v].scope
    /\ mem[u].category = mem[v].category
    /\ mem[u].entities \cap mem[v].entities # {}
    /\ <<mem[u].content, mem[v].content>> \in Equivalent

\* The greedy pass: a seed takes every unassigned unit that joins it.  A cluster
\* of one is skipped.
NextCluster ==
    /\ conPc = "cluster"
    /\ \E u \in listed :
        LET C == {u} \cup {v \in listed : Joins(u.id, v.id)} IN
        /\ listed' = listed \ C
        /\ IF Cardinality(C) >= 2
           THEN conPc' = "synthesize" /\ cluster' = C
           ELSE UNCHANGED <<conPc, cluster>>
    /\ UNCHANGED <<storeVars, redundant>>

\* The unit built from the model's text: the cluster's scope and category, the
\* union of its entities, its highest confidence.
Theme(C, text) ==
    LET seed == CHOOSE i \in IdsOf(C) : TRUE IN
    [content |-> text,
     scope |-> mem[seed].scope,
     entities |-> UNION {mem[i].entities : i \in IdsOf(C)},
     category |-> mem[seed].category,
     confidence |-> (CHOOSE l \in C : \A k \in C : k.confidence <= l.confidence).confidence]

\* The LLM returns a statement and the job starts its upsert.
Synthesize ==
    /\ conPc = "synthesize"
    /\ \E text \in Content : BeginWrite(Consolidator, Theme(cluster, text))
    /\ conPc' = "upsert"
    /\ UNCHANGED <<listed, cluster, redundant>>

\* The call fails or the text is empty: the cluster is left as it is.
SynthesisFails ==
    /\ conPc = "synthesize"
    /\ conPc' = "cluster"
    /\ cluster' = {}
    /\ UNCHANGED <<storeVars, listed, redundant>>

\* upsert_memory has returned, whatever its decision was.
UpsertReturned ==
    /\ conPc = "upsert"
    /\ pc[Consolidator] = "done"
    /\ conPc' = "archive"
    /\ UNCHANGED <<storeVars, listed, cluster, redundant>>

ArchiveSource ==
    /\ conPc = "archive"
    /\ \E l \in cluster :
        /\ Archive(l.id)
        /\ cluster' = cluster \ {l}
    /\ conPc' = IF Cardinality(cluster) = 1 THEN "cluster" ELSE "archive"
    /\ UNCHANGED <<writerVars, orphaned, listed, redundant>>

\* The list is exhausted, or a storage or embedding call raises and the runner
\* records the failure; a failed upsert fails the job with it.
EndConsolidation ==
    /\ conPc # "idle"
    /\ \/ conPc \in {"cluster", "archive"}
       \/ conPc = "upsert" /\ pc[Consolidator] = "idle"
    /\ conPc' = "idle"
    /\ listed' = {}
    /\ cluster' = {}
    /\ UNCHANGED <<storeVars, redundant>>

Consolidation ==
    \/ ListForConsolidation
    \/ NextCluster
    \/ Synthesize
    \/ SynthesisFails
    \/ UpsertReturned
    \/ ArchiveSource
    \/ EndConsolidation

-----------------------------------------------------------------------------
(* MemoryDedupJob.run *)

\* _dedup_key: the folded text and the scope.
SameKey(i, j) ==
    /\ Folded[mem[i].content] = Folded[mem[j].content]
    /\ mem[i].scope = mem[j].scope

\* _survivor_sort_key: the highest confidence, then the earliest.
Outranks(i, j) ==
    \/ mem[i].confidence > mem[j].confidence
    \/ mem[i].confidence = mem[j].confidence /\ i < j

\* keep has one member of every bucket of L, and it outranks the bucket's rest.
Survivors(keep, L) ==
    /\ \A i \in L : \E k \in keep : SameKey(i, k)
    /\ \A k \in keep, i \in L : i # k /\ SameKey(i, k) => Outranks(k, i)

ListDuplicates(d) ==
    /\ redundant[d] = {}
    /\ \E keep \in SUBSET ActiveHot :
        /\ Survivors(keep, ActiveHot)
        /\ redundant' = [redundant EXCEPT ![d] = ActiveHot \ keep]
    /\ UNCHANGED <<storeVars, consolidationVars>>

CloseDuplicate(d) ==
    /\ \E i \in redundant[d] :
        /\ CloseWindow(i)
        /\ redundant' = [redundant EXCEPT ![d] = @ \ {i}]
    /\ UNCHANGED <<writerVars, orphaned, consolidationVars>>

\* A storage call raises and the rest of the list is dropped.
FailDedup(d) ==
    /\ redundant[d] # {}
    /\ redundant' = [redundant EXCEPT ![d] = {}]
    /\ UNCHANGED <<storeVars, consolidationVars>>

Dedup == \E d \in Dedupers :
    \/ ListDuplicates(d)
    \/ CloseDuplicate(d)
    \/ FailDedup(d)

-----------------------------------------------------------------------------
(* Composition *)

WriterStep ==
    \E w \in Writers :
        /\ \/ w # Consolidator /\ \E s \in Extracted : BeginWrite(w, s)
           \/ WriteStep(w)
        /\ UNCHANGED <<consolidationVars, redundant>>

CorrectionStep == OperatorStep /\ UNCHANGED jobVars

MaintenanceInit ==
    /\ Init
    /\ conPc = "idle"
    /\ listed = {}
    /\ cluster = {}
    /\ redundant = [d \in Dedupers |-> {}]

MaintenanceNext ==
    \/ WriterStep
    \/ CorrectionStep
    \/ Consolidation
    \/ Dedup

MaintenanceSpec == MaintenanceInit /\ [][MaintenanceNext]_vars

-----------------------------------------------------------------------------
(* Properties *)

\* A project's facts are only ever merged, never retired: whatever was stored in
\* a project scope, an open unit with the same text is still there.  Supersede
\* judges global memories only, and the duplicate pass keeps one survivor of
\* every bucket of its (possibly outdated) listing.
ProjectFactsAreNeverForgotten ==
    \A i \in Ids :
        mem[i].scope # GlobalScope => \E j \in Active : SameKey(i, j)

\* With the jobs running, a closed window still has its reason in the store: a
\* later memory on the subject, a copy with the same key, or a write that is
\* about to insert or has failed before it could.
ClosedHasHeir ==
    \A i \in Ids \ Active :
        \/ \E j \in Ids : i < j /\ SameSubject(i, j)
        \/ \E j \in Ids \ {i} : SameKey(i, j)
        \/ \E w \in Writers : pc[w] \in {"close", "insert"} /\ i \in superseded[w]
        \/ i \in orphaned

\* "We never cross scope boundaries": while a consolidation writes and archives,
\* its sources, the theme it writes and the unit the store returned for it are in
\* one scope.
ConsolidationStaysInScope ==
    conPc \in {"upsert", "archive"} =>
        \A i \in IdsOf(cluster) :
            /\ mem[i].scope = stmt[Consolidator].scope
            /\ conPc = "archive" =>
                mem[current[Consolidator]].scope = mem[i].scope

=============================================================================
