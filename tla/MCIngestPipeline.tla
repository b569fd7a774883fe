-------------------------- MODULE MCIngestPipeline --------------------------
(* Instances of IngestPipeline for TLC.                                     *)
EXTENDS IngestPipeline, TLC

\* A short and a long text: two short ones fill a chunk, a long one overflows it.
MCSize == [t \in Text |-> IF t = "long" THEN 3 ELSE 1]

\* The stream with hooks, failures and shutdown.
Streaming == [backfill |-> FALSE, flushes |-> TRUE, faults |-> TRUE, rewrites |-> FALSE,
              sources |-> {}, restarts |-> 0]

\* A backfill of two sources while transcripts are rewound; it may die once.
Backfilling == [backfill |-> TRUE, flushes |-> FALSE, faults |-> FALSE,
                rewrites |-> TRUE, sources |-> {"gateway"}, restarts |-> 1]

MCModes == {Streaming, Backfilling}
MCStream == {[Streaming EXCEPT !.flushes = FALSE, !.sources = {"gateway"}]}

\* Sessions are interchangeable.
Sessions == Permutations(Session)

=============================================================================
