------------------------------- MODULE Readahead -------------------------------
(***************************************************************************)
(* The I/O of one map: what a worker of execute_concurrent does.  It asks  *)
(* mincore which pages are cached, turns the answer into byte ranges and   *)
(* requests these, 128 KiB at a time (do_readahead, readahead) or each at  *)
(* once (do_madvise).  A behaviour is one such call.                       *)
(***************************************************************************)
EXTENDS Integers, Sequences, SequencesExt, FiniteSetsExt

CONSTANTS
    PageSize, ChunkSize,
    Offsets, Sizes,     \* of maps, in bytes
    FilePages           \* the pages of a file

ASSUME PageAssumption == PageSize \in Nat \ {0} /\ ChunkSize \in Nat \ {0}
ASSUME RequestAssumption ==
    Offsets \subseteq Nat /\ Sizes \subseteq Int /\ FilePages \subseteq Nat

VARIABLES
    request,    \* what the call finds: offset, length, cached pages, mincore
    io,         \* "query", "pages", "read", and "done" or "failed"
    page,       \* i of the loop over the pages
    run_start,  \* where the uncached run began, or NoRun
    ranges,     \* <<offset, length>>: still to be requested
    requested   \* history: the bytes that the kernel was asked for

io_vars == <<request, io, page, run_start, ranges, requested>>

NoRun == -1

Request == [offset : Offsets, length : Sizes, cached : SUBSET FilePages,
            mincore_ok : BOOLEAN]

End == request.offset + request.length

Bytes(range) == range[1] .. range[1] + range[2] - 1

-----------------------------------------------------------------------------
(* uncached_ranges                                                         *)

FirstPage == request.offset \div PageSize

WrongNumPages == request.length \div PageSize     \* mutant: of whole pages

\* aligned_length / page_size
NumPages == (End + PageSize - 1) \div PageSize - FirstPage

PageStart == (FirstPage + page) * PageSize

\* a run that ends at end, clamped to the map
Closed(end) ==
    LET from == Max({run_start, request.offset})
        to   == Min({end, End})
    IN  IF run_start # NoRun /\ to > from
        THEN Append(ranges, <<from, to - from>>) ELSE ranges

\* nothing to do, or no answer: the map as a whole
QueryFails ==
    /\ io = "query"
    /\ request.length <= 0 \/ ~request.mincore_ok
    /\ ranges' = IF request.length <= 0 THEN <<>>
                 ELSE <<<<request.offset, request.length>>>>
    /\ io' = "read"
    /\ UNCHANGED <<request, page, run_start, requested>>

Query ==
    /\ io = "query"
    /\ request.length > 0 /\ request.mincore_ok
    /\ io' = "pages"
    /\ UNCHANGED <<request, page, run_start, ranges, requested>>

InCache == FirstPage + page \in request.cached

\* one page; none of the mapping lies outside the map
Page ==
    /\ io = "pages" /\ page < NumPages
    /\ IF InCache
       THEN ranges' = Closed(PageStart) /\ run_start' = NoRun
       ELSE /\ run_start' = IF run_start = NoRun THEN PageStart ELSE run_start
            /\ UNCHANGED ranges
    /\ page' = page + 1
    /\ UNCHANGED <<request, io, requested>>

Flushed == Closed(End)

Flush ==
    /\ io = "pages" /\ page = NumPages
    /\ ranges' = Flushed
    /\ run_start' = NoRun /\ io' = "read"
    /\ UNCHANGED <<request, page, requested>>

-----------------------------------------------------------------------------
(* the worker and the three ways to request a range                        *)

Counts(length) == {length, Min({length, ChunkSize})}

RequestRange ==
    /\ io = "read" /\ ranges # <<>>
    /\ LET range == Head(ranges)
       IN  \E count \in Counts(range[2]) :
             /\ requested' = requested \cup Bytes(<<range[1], count>>)
             /\ ranges' = IF count = range[2] THEN Tail(ranges)
                          ELSE <<<<range[1] + count, range[2] - count>>>>
                                 \o Tail(ranges)
    /\ UNCHANGED <<request, io, page, run_start>>

\* ?: the ranges after a failed one are not tried
RequestFails ==
    /\ io = "read" /\ ranges # <<>>
    /\ io' = "failed"
    /\ UNCHANGED <<request, page, run_start, ranges, requested>>

Return ==
    /\ io = "read" /\ ranges = <<>>
    /\ io' = "done"
    /\ UNCHANGED <<request, page, run_start, ranges, requested>>

ReadaheadInit ==
    /\ request \in Request
    /\ io = "query" /\ page = 0 /\ run_start = NoRun
    /\ ranges = <<>> /\ requested = {}

ReadaheadNext == QueryFails \/ Query \/ Page \/ Flush
                   \/ RequestRange \/ RequestFails \/ Return

ReadaheadSpec == ReadaheadInit /\ [][ReadaheadNext]_io_vars

-----------------------------------------------------------------------------
\* the bytes of the map whose pages are not cached
Wanted ==
    {b \in request.offset .. End - 1 :
        request.mincore_ok => b \div PageSize \notin request.cached}

(***************************************************************************)
(* Every byte of a map that is not in the page cache is requested once     *)
(* unless a request fails, and no other byte: neither outside the map nor  *)
(* of a cached page, wherever the map begins and ends within its pages     *)
(* (uncached_ranges, do_readahead).                                        *)
(***************************************************************************)
RequestsExactly ==
    /\ requested \subseteq Wanted
    /\ io = "done" => requested = Wanted
    /\ \A i \in DOMAIN ranges :
          /\ ranges[i][2] > 0 /\ Bytes(ranges[i]) \subseteq Wanted \ requested
          /\ \A j \in 1 .. i - 1 : ranges[j][1] + ranges[j][2] < ranges[i][1]

-----------------------------------------------------------------------------
(* The inductive invariant                                                 *)

Covered(rs) == UNION {Bytes(rs[i]) : i \in DOMAIN rs}

IoTypeOK ==
    /\ request \in Request
    /\ io \in {"query", "pages", "read", "done", "failed"}
    /\ page \in Nat /\ run_start \in Int
    /\ ranges \in Seq(Int \X (Nat \ {0}))

\* what the ranges tell of: up to the current run, or to the current page
Settled == IF run_start = NoRun THEN PageStart ELSE run_start

(***************************************************************************)
(* While the pages are looked at, the ranges hold what is wanted below     *)
(* Settled, and end before it, and the pages of the run are not cached.    *)
(***************************************************************************)
PagesInv ==
    /\ request.length > 0 /\ request.mincore_ok /\ page <= NumPages
    /\ requested = {}
    /\ Settled <= PageStart /\ (run_start = NoRun \/ run_start >= 0)
    /\ Covered(ranges) = {b \in Wanted : b < Settled}
    /\ \A i \in DOMAIN ranges : ranges[i][1] + ranges[i][2] < Settled
    /\ \A b \in Settled .. PageStart - 1 : b \div PageSize \notin request.cached

Separate ==
    \A i \in DOMAIN ranges : \A j \in 1 .. i - 1 :
        ranges[j][1] + ranges[j][2] < ranges[i][1]

ReadaheadInv ==
    /\ IoTypeOK
    /\ Separate
    /\ io = "query" => page = 0 /\ run_start = NoRun /\ ranges = <<>> /\ requested = {}
    /\ io = "pages" => PagesInv
    /\ io \in {"read", "done", "failed"} =>
          Covered(ranges) \cup requested = Wanted /\ Covered(ranges) \cap requested = {}
    /\ io = "done" => ranges = <<>>
=============================================================================
