----------------------------- MODULE MemoryViews -----------------------------
(***************************************************************************)
(* What the operator console shows of the memories: the paged table, the   *)
(* detail with its supersession chain, the scope navigator, the top bar    *)
(* and the growth trend.  The store keeps no edge between a memory and the *)
(* one it replaced, so the chain is derived from the validity windows of   *)
(* its peers.  Each view has a query or a fold of its own, and they should *)
(* tell one story.                                                         *)
(*                                                                         *)
(* Simplifications.                                                        *)
(*  - Every now() is later than the one before.                            *)
(*  - All memories are of one category and one source; the detail's two    *)
(*    reads see one store.                                                 *)
(*  - A write closes what it supersedes and inserts in one step: its       *)
(*    queries are the matter of MemoryStore.                               *)
(***************************************************************************)
EXTENDS Integers, FiniteSetsExt, Sequences

CONSTANTS
    Row,        \* memories
    Lies,       \* [Row -> scope], a scope is a path and <<>> is global
    Subject,    \* [Row -> set of entities]
    Begins,     \* <<x, y>>: the segment y begins with the letters of x
    DayLength,  \* stamps in a day
    PageMax,    \* the page the detail's peers are read with (500)
    MaxStamps   \* bound on the clock

ASSUME ViewsAssumption ==
    /\ DayLength \in Nat \ {0} /\ PageMax \in Nat \ {0} /\ MaxStamps \in Nat
    /\ \A r \in Row : Lies[r] \in Seq(STRING)

VARIABLES
    clock,      \* datetime.now()
    windows,    \* [Row -> [at, from, to]]: at is absent, held by a writer or stored,
                \* to is Open while the window is
    replaced    \* history: <<new, old>> for what writes have superseded

viewVars == <<clock, windows, replaced>>

Open == MaxStamps + 1
Absent == [at |-> "absent", from |-> 0, to |-> Open]

Kept == {r \in Row : windows[r].at = "stored"}
StillOpen == {r \in Kept : windows[r].to = Open}
Stamp == clock < MaxStamps /\ clock' = clock + 1

(***************************************************************************)
(* Memories come and close                                                 *)
(***************************************************************************)
\* The extractor makes the unit: valid_from is the time of that.
Extract(r) ==
    /\ windows[r].at = "absent" /\ Stamp
    /\ windows' = [windows EXCEPT ![r] = [at |-> "held", from |-> clock, to |-> Open]]
    /\ UNCHANGED replaced

Overlap(r, o) == Subject[r] \cap Subject[o] # {}

\* upsert_memory supersedes or adds: the open global peers it contradicts are closed
\* now, and the unit goes in as the extractor has made it.
Upsert(r) ==
    /\ windows[r].at = "held" /\ Stamp
    /\ \E old \in SUBSET {o \in StillOpen : Lies[o] = <<>> /\ Lies[r] = <<>> /\ Overlap(r, o)} :
        /\ windows' = [o \in Row |-> IF o = r THEN [windows[r] EXCEPT !.at = "stored"]
                                     ELSE IF o \in old THEN [windows[o] EXCEPT !.to = clock]
                                     ELSE windows[o]]
        /\ replaced' = replaced \cup ({r} \X old)

\* The duplicate pass and the re-extraction close what has no successor.
Retire(r) ==
    /\ r \in StillOpen /\ Stamp
    /\ windows' = [windows EXCEPT ![r].to = clock]
    /\ UNCHANGED replaced

(***************************************************************************)
(* The table (query_memories)                                              *)
(***************************************************************************)
Newer(r, o) == windows[r].from > windows[o].from

\* The filters that the views below use: by scope, exactly, and by open windows.
Filtered(scopes, active) ==
    {r \in Kept : /\ Lies[r] \in scopes
                  /\ active = "any" \/ (active = "yes") = (windows[r].to = Open)}
Everywhere == {Lies[r] : r \in Row}

\* ORDER BY valid_from DESC SKIP offset LIMIT limit.
ListPage(rows, offset, limit) ==
    {r \in rows : LET rank == Cardinality({o \in rows : Newer(o, r)})
                  IN  offset <= rank /\ rank < offset + limit}

(***************************************************************************)
(* The detail (derive_supersession_chain_views)                            *)
(***************************************************************************)
\* The first page of the memories of its scope and category that share an entity.
Peers(r) == {o \in ListPage({p \in Kept : Lies[p] = Lies[r]}, 0, PageMax) \ {r} : Overlap(r, o)}

\* Mutant of Supersedes: any closed peer that started earlier.
StartedBefore(r) ==
    {o \in Peers(r) : windows[o].to # Open /\ windows[o].from <= windows[r].from}

\* Older peers whose window had closed when this one opened.
Supersedes(r) ==
    {o \in Peers(r) : /\ windows[o].to # Open
                      /\ windows[o].from <= windows[r].from /\ windows[o].to <= windows[r].from}

\* Peers that started after this one was closed.
SupersededBy(r) ==
    {o \in Peers(r) \ Supersedes(r) : windows[r].to # Open /\ windows[o].from >= windows[r].to}

(***************************************************************************)
(* The scope navigator (build_scope_tree over scope_counts)                *)
(***************************************************************************)
Prefix(p, q) == Len(p) <= Len(q) /\ SubSeq(q, 1, Len(p)) = p
CountAt(p) == Cardinality(Filtered({p}, "any"))
SumOf(f, S) == MapThenSumSet(LAMBDA x : f[x], S)

\* A node for every segment on the way to a memory.
TreeNodes == {<<>>} \cup UNION {{SubSeq(Lies[r], 1, k) : k \in 0..Len(Lies[r])} : r \in Kept}
Children(p) == {q \in TreeNodes : Len(q) = Len(p) + 1 /\ Prefix(p, q)}

TotalCount ==
    LET total[p \in TreeNodes] == CountAt(p) + SumOf(total, Children(p))
    IN  total

(***************************************************************************)
(* The trend (memory_growth, stats_growth) and the top bar (store_stats)   *)
(***************************************************************************)
Day(t) == t \div DayLength

\* Mutant of RollsUp: the scope string is a prefix, with no delimiter after it.
BeginsWith(place, scope) ==
    \/ scope = <<>> \/ Prefix(scope, place)
    \/ /\ Len(place) = Len(scope)
       /\ \A k \in 1..Len(scope) - 1 : place[k] = scope[k]
       /\ <<scope[Len(scope)], place[Len(place)]>> \in Begins

\* The scope itself and what lies below it; the global root counts everything.
RollsUp(place, scope) == scope = <<>> \/ Prefix(scope, place)

Daily(scope, day) == Cardinality({r \in Kept : RollsUp(Lies[r], scope) /\ Day(windows[r].from) = day})

\* The days of the window, oldest first, empty ones included.
Growth(scope, days) == [k \in 1..days |-> Daily(scope, Day(clock) - days + k)]
Grown(scope, days) == SumOf(Growth(scope, days), 1..days)

Stats == [total |-> Cardinality(Kept), active |-> Cardinality(StillOpen),
          superseded |-> Cardinality(Kept) - Cardinality(StillOpen)]

(***************************************************************************)
(* The specification                                                       *)
(***************************************************************************)
ViewsInit == clock = 0 /\ windows = [r \in Row |-> Absent] /\ replaced = {}

\* The console's requests read only.
Browse == UNCHANGED viewVars

ViewsNext == Browse \/ \E r \in Row : Extract(r) \/ Upsert(r) \/ Retire(r)

ViewsSpec == ViewsInit /\ [][ViewsNext]_viewVars

(***************************************************************************)
(* Properties                                                              *)
(***************************************************************************)
\* The table's pages show every row once and agree with the top bar, and what the
\* navigator rolls up at a scope is what has grown there, in the table and over time
\* ("no-leak: a node never counts a sibling subtree").
CountsAgree ==
    /\ Stats.total = TotalCount[<<>>]
    /\ Stats.active = Cardinality(Filtered(Everywhere, "yes"))
    /\ Stats.superseded = Cardinality(Filtered(Everywhere, "no"))
    /\ \A p \in TreeNodes : TotalCount[p] = Grown(p, Day(clock) + 1)
    /\ \A r \in Kept : Cardinality({n \in 0..Cardinality(Kept) - 1 :
                                        r \in ListPage(Filtered(Everywhere, "any"), PageMax * n, PageMax)}) = 1

\* Of two memories of the first page, each names the other or neither does, and a
\* memory that names a successor is closed and named by no memory it names.
ChainsAgree ==
    \A r, o \in Kept :
        LET page == ListPage({p \in Kept : Lies[p] = Lies[r]}, 0, PageMax)
        IN  {r, o} \subseteq page =>
              /\ (o \in SupersededBy(r)) = (r \in Supersedes(o))
              /\ ~(o \in Supersedes(r) /\ o \in SupersededBy(r))

\* However memories are written and retired, the views of the console agree with
\* each other.
ViewsAgree == CountsAgree /\ ChainsAgree

\* A memory that replaced another shows it (_read.py: adjacent windows are "exactly
\* how a real supersede leaves the graph").
ChainShowsTheReplaced ==
    \A pair \in replaced :
        pair[2] \in Peers(pair[1]) => pair[2] \in Supersedes(pair[1])

=============================================================================
