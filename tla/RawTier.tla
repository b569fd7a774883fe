------------------------------ MODULE RawTier ------------------------------
(***************************************************************************)
(* The raw tier: an ingested chunk's text is kept as a RawChunk beside the *)
(* memories extracted from it (extract/raw_tier.py, services.py), so that  *)
(* they can be extracted again later (re_extract_from_raw_chunks, run by   *)
(* the re-extract subcommand in a process of its own).                     *)
(*                                                                         *)
(* The link between the two is a list of ids: extraction gives every unit  *)
(* it offers a fresh id, the chunk's list is written before the units are, *)
(* and upsert_memory keeps the id only of a unit it inserts.               *)
(*                                                                         *)
(* Simplifications.                                                        *)
(*  - Units are numbered as they are offered: the number is the id.        *)
(*  - Ingesting a chunk again stands for another process doing so: within  *)
(*    one, IngestPipeline shows that a chunk is extracted once.            *)
(*  - The entities and edges of an extraction are left out.                *)
(*  - An unrestricted re-extraction, with supersede_existing as its        *)
(*    default is.                                                          *)
(***************************************************************************)
EXTENDS MemoryStore, FiniteSetsExt, SequencesExt

CONSTANTS
    Chunk,          \* content hashes
    Legacy,         \* chunks stored by an older version of the program
    Answers,        \* sequences of statements an extraction may return
    MaxOffers,      \* bound: units extracted altogether
    NoChunk

ASSUME RawAssumption ==
    /\ Legacy \subseteq Chunk
    /\ Answers \subseteq Seq(Extracted)
    /\ MaxOffers \in Nat
    /\ NoChunk \notin Chunk

VARIABLES
    raw,            \* raw[c]: memory_ids of the RawChunk node of c, if it has one
    stale,          \* RawChunk nodes below CURRENT_DATA_VERSION
    offers,         \* offers[n]: the chunk unit n was extracted from
    born,           \* born[i]: the id of memory node i
    task,           \* task[w]: the chunk w ingests, the call it awaits, what is
                    \* left of the answer
    phase,          \* where re_extract_from_raw_chunks is
    chunks,         \* RawChunks it listed and has not come to, as listed
    inHand,         \* the one it is at
    closing,        \* ids of that one it has still to close
    done,           \* history: RawChunks the running job has finished, as listed
    known           \* history: memories that were open when it listed them

ingestVars == <<offers, born, task>>
reindexVars == <<phase, chunks, inHand, closing, done, known>>
rawVars == <<storeVars, raw, stale, ingestVars, reindexVars>>

NoTask == [chunk |-> NoChunk, at |-> "idle", batch |-> <<>>]

-----------------------------------------------------------------------------
(* extract_with_raw_retention and MnemozineIngestService._persist *)

\* persist_raw_chunk: the node is merged on its hash and all its properties are
\* replaced.  Its errors are logged and swallowed.
PersistChunk(c, ids) ==
    \/ /\ raw' = [x \in DOMAIN raw \cup {c} |-> IF x = c THEN ids ELSE raw[x]]
       /\ stale' = stale \ {c}
    \/ UNCHANGED <<raw, stale>>

\* The input is stored before extraction, without a link.
StoreInput(w, c) ==
    /\ task[w].at = "idle"
    /\ PersistChunk(c, {})
    /\ task' = [task EXCEPT ![w] = [chunk |-> c, at |-> "extract", batch |-> <<>>]]
    /\ UNCHANGED <<storeVars, offers, born, reindexVars>>

\* The units of an answer, each with an id of its own.
FreshIds(answer) ==
    [k \in DOMAIN answer |-> [id |-> Len(offers) + k, stmt |-> answer[k]]]

\* extract_full returns; a chunk that yields nothing is finished.
Extract(w) ==
    /\ task[w].at = "extract"
    /\ \E answer \in Answers :
        /\ Len(offers) + Len(answer) <= MaxOffers
        /\ offers' = offers \o [k \in DOMAIN answer |-> task[w].chunk]
        /\ task' = [task EXCEPT ![w] =
             IF answer = <<>> THEN NoTask
             ELSE [@ EXCEPT !.at = "link", !.batch = FreshIds(answer)]]
    /\ UNCHANGED <<storeVars, raw, stale, born, reindexVars>>

\* The second persist, with the ids of the units that are about to be written.
LinkOutput(w) ==
    /\ task[w].at = "link"
    /\ PersistChunk(task[w].chunk, {u.id : u \in ToSet(task[w].batch)})
    /\ task' = [task EXCEPT ![w].at = "upsert"]
    /\ UNCHANGED <<storeVars, offers, born, reindexVars>>

BeginUpsert(w) ==
    /\ task[w].at = "upsert"
    /\ BeginWrite(w, Head(task[w].batch).stmt)
    /\ task' = [task EXCEPT ![w].at = "await"]
    /\ UNCHANGED <<raw, stale, offers, born, reindexVars>>

\* What the write's step means for the batch: the next unit, the end of it, or
\* an exception that drops the rest.
Proceeded(w) ==
    LET t == task[w] IN
    \/ /\ pc'[w] = "done" /\ Len(t.batch) > 1
       /\ task' = [task EXCEPT ![w] = [t EXCEPT !.at = "upsert", !.batch = Tail(t.batch)]]
    \/ /\ pc'[w] = "idle" \/ (pc'[w] = "done" /\ Len(t.batch) = 1)
       /\ task' = [task EXCEPT ![w] = NoTask]
    \/ pc'[w] \notin {"idle", "done"} /\ UNCHANGED task

\* A node is born with the id of the unit it was inserted for.
Born(w) ==
    born' = IF Len(mem') > Len(mem) THEN Append(born, Head(task[w].batch).id)
            ELSE born

\* Mutant of Upsert: the id of the unit that was kept is linked, whoever made it.
UpsertAndLink(w) ==
    /\ task[w].at = "await"
    /\ WriteStep(w)
    /\ Proceeded(w)
    /\ Born(w)
    /\ raw' = IF pc'[w] = "done" /\ task[w].chunk \in DOMAIN raw
              THEN [raw EXCEPT ![task[w].chunk] = @ \cup {born'[current'[w]]}]
              ELSE raw
    /\ UNCHANGED <<stale, offers, reindexVars>>

\* One awaited query of upsert_memory.
Upsert(w) ==
    /\ task[w].at = "await"
    /\ WriteStep(w)
    /\ Proceeded(w)
    /\ Born(w)
    /\ UNCHANGED <<raw, stale, offers, reindexVars>>

\* Extraction raises, or the process dies between two calls.
AbandonIngest(w) ==
    /\ task[w].at \in {"extract", "link", "upsert"}
    /\ task' = [task EXCEPT ![w] = NoTask]
    /\ UNCHANGED <<storeVars, raw, stale, offers, born, reindexVars>>

Ingest(w) ==
    \/ \E c \in Chunk : StoreInput(w, c)
    \/ Extract(w)
    \/ LinkOutput(w)
    \/ BeginUpsert(w)
    \/ Upsert(w)
    \/ AbandonIngest(w)

-----------------------------------------------------------------------------
(* re_extract_from_raw_chunks *)

\* iter_raw_chunks, read to its end before the loop starts.
ListChunks ==
    /\ phase = "idle"
    /\ phase' = "chunks"
    /\ chunks' = {[chunk |-> c, ids |-> raw[c], stale |-> c \in stale] : c \in DOMAIN raw}
    /\ known' = Active
    /\ done' = {}
    /\ UNCHANGED <<storeVars, raw, stale, ingestVars, inHand, closing>>

TakeChunk ==
    /\ phase = "chunks"
    /\ \E r \in chunks :
        /\ inHand' = {r}
        /\ closing' = r.ids
        /\ chunks' = chunks \ {r}
    /\ phase' = "close"
    /\ UNCHANGED <<storeVars, raw, stale, ingestVars, done, known>>

\* Mutant of CloseLinked: the first id without a node ends the loop over the ids.
CloseUntilMissing ==
    /\ phase = "close"
    /\ \E n \in closing :
        /\ \/ /\ \E i \in Ids : born[i] = n /\ CloseWindow(i)
              /\ closing' = closing \ {n}
           \/ /\ \A i \in Ids : born[i] # n
              /\ closing' = {}
              /\ UNCHANGED mem
    /\ UNCHANGED <<writerVars, orphaned, raw, stale, ingestVars,
                   phase, chunks, inHand, done, known>>

\* close_validity_window of a linked id; one that no node has raises KeyError and
\* is passed over.
CloseLinked ==
    /\ phase = "close"
    /\ \E n \in closing :
        /\ \/ \E i \in Ids : born[i] = n /\ CloseWindow(i)
           \/ (\A i \in Ids : born[i] # n) /\ UNCHANGED mem
        /\ closing' = closing \ {n}
    /\ UNCHANGED <<writerVars, orphaned, raw, stale, ingestVars,
                   phase, chunks, inHand, done, known>>

\* The chunk's text is extracted again only by an extractor with an extract_text
\* method; TypedExtractor, the program's only one, has none.  A chunk that was
\* listed as stale is written back as it was listed, with the current version.
FinishChunk ==
    /\ phase = "close"
    /\ closing = {}
    /\ \E r \in inHand :
        /\ done' = done \cup {r}
        /\ IF r.stale
           THEN /\ raw' = [raw EXCEPT ![r.chunk] = r.ids]
                /\ stale' = stale \ {r.chunk}
           ELSE UNCHANGED <<raw, stale>>
    /\ inHand' = {}
    /\ phase' = "chunks"
    /\ UNCHANGED <<storeVars, ingestVars, chunks, closing, known>>

ReindexDone ==
    /\ phase = "chunks"
    /\ chunks = {}
    /\ phase' = "idle"
    /\ done' = {}
    /\ known' = {}
    /\ UNCHANGED <<storeVars, raw, stale, ingestVars, chunks, inHand, closing>>

\* A storage call raises and the job ends, or its process dies.
FailReindex ==
    /\ phase # "idle"
    /\ phase' = "idle"
    /\ chunks' = {}
    /\ inHand' = {}
    /\ closing' = {}
    /\ done' = {}
    /\ known' = {}
    /\ UNCHANGED <<storeVars, raw, stale, ingestVars>>

Reindex ==
    \/ ListChunks
    \/ TakeChunk
    \/ CloseLinked
    \/ FinishChunk
    \/ ReindexDone
    \/ FailReindex

-----------------------------------------------------------------------------
RawInit ==
    /\ Init
    /\ raw = [c \in Legacy |-> {}]
    /\ stale = Legacy
    /\ offers = <<>>
    /\ born = <<>>
    /\ task = [w \in Writers |-> NoTask]
    /\ phase = "idle"
    /\ chunks = {}
    /\ inHand = {}
    /\ closing = {}
    /\ done = {}
    /\ known = {}

RawNext ==
    \/ \E w \in Writers : Ingest(w)
    \/ Reindex

RawSpec == RawInit /\ [][RawNext]_rawVars

-----------------------------------------------------------------------------
(* Properties *)

\* A re-extraction of a chunk "can supersede exactly those" memories: it closes no
\* memory that was inserted for another chunk, although one whose text was merely
\* restated by this chunk is what the write returned for it.
ReindexSparesOthers ==
    [][\A r \in inHand, i \in Active :
        closing' # closing /\ ~mem'[i].active => offers[born[i]] = r.chunk]_rawVars

\* Once a chunk has been re-extracted, none of the memories linked to it when the
\* job listed it is open, even if some of its ids were never stored.
ReindexClosesLinked ==
    \A r \in done, i \in known : born[i] \in r.ids => i \notin Active

\* "An unchanged extractor re-produces equivalent units that reinforce rather
\* than duplicate": when the job has run to its end, every text that was open
\* when it started is open again or still.
ReindexKeepsBeliefs ==
    [][ReindexDone => \A i \in known : \E j \in Active :
        mem[j].scope = mem[i].scope /\ mem[j].content = mem[i].content]_rawVars

=============================================================================
