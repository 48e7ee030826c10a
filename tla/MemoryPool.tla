----------------------------- MODULE MemoryPool -----------------------------
(***************************************************************************)
(* The allocators of src/ConcurrentMemoryPool and src/Pool, which share    *)
(* their design: a cache per thread, a central cache whose size classes    *)
(* have a lock each, and a page cache with one lock, which splits and      *)
(* merges spans.  Where they differ, config.lib tells them apart.          *)
(*                                                                         *)
(* A section under the page cache's lock is one step, and so is one under  *)
(* a class's lock in FetchRangeObj; ReleaseListToSpans drops its lock in   *)
(* between, and takes a step per block.  What a thread does to its own     *)
(* cache belongs to the step next to it.                                   *)
(*                                                                         *)
(* Memory is a row of words, PageSize of them to a page.  A block is its   *)
(* first word.  Free lists are sets, since no caller may count on their    *)
(* order; so are the page cache's lists, a span's list being its length.   *)
(***************************************************************************)
EXTENDS Naturals, FiniteSets, FiniteSetsExt

CONSTANTS
  Threads,
  Scenarios,    \* which allocator it is, and how it is used: see Scenario
  Classes,      \* the size classes in use
  BlockWords,   \* per class, RoundUp of its sizes, in words
  MoveSize,     \* per class, most blocks moved at once
  MovePages,    \* per class, the pages of a span
  PageSize,
  MaxSpan,      \* NPAGE_LISTS - 1, the longest span kept
  None

\* Pool has no requests above MAX_BYTES.
Scenario ==
  [lib   : {"ConcurrentMemoryPool", "Pool"},
   uses  : [Threads -> SUBSET Classes],  \* the classes each thread allocates from
   large : SUBSET (Nat \ {0}),           \* the page counts of requests above MAX_BYTES
   held  : Nat,                          \* blocks the program holds at once (a bound)
   pages : Nat]                          \* the pages of the system (a bound)

\* A span, as long as it exists.  The class "large" is of requests above MAX_BYTES.
Span == [page : Nat, npage : Nat, free : SUBSET Nat, count : Nat,
         class : Classes \cup {"large", None}, used : BOOLEAN]

ASSUME ScenariosAssumption ==
  \A x \in Scenarios : x \in Scenario /\ (x.lib = "Pool" => x.large = {})

ASSUME SizesAssumption ==
  /\ BlockWords \in [Classes -> Nat \ {0}] /\ MoveSize \in [Classes -> Nat \ {0, 1}]
  /\ PageSize \in Nat \ {0} /\ MaxSpan \in Nat \ {0}
  /\ MovePages \in [Classes -> 1 .. MaxSpan]

\* None is the null pointer, and "large" is no size class.
ASSUME NoneAssumption ==
  /\ "large" \notin Classes
  /\ None \notin Classes \cup {"large"} /\ None \notin Threads
  /\ None \notin Nat /\ None \notin Span

VARIABLES
  config,   \* the scenario
  heap,     \* PageCache: the Span objects, lists and page map, and the system's memory
  central,  \* CentralCache: per class, the spans in its list
  lock,     \* per class, the thread that returns blocks under the list's _mutex
  cache,    \* per thread and class, the blocks of its free list
  maxSize,  \* per thread and class, the free list's _max_size
  at,       \* per thread, where it is
  held      \* the blocks the program has

allocVars == <<config, heap, central, lock, cache, maxSize, at, held>>

Pages == 1 .. config.pages

\* No page is spanned twice, so there are never more Span objects than pages.
Spans == Pages

PagesOf(s) == s.page .. s.page + s.npage - 1

\* Blocks the program gets.
Block(b, size) == [at |-> b, size |-> size]

FirstWord(page) == page * PageSize

PageOf(b) == b \div PageSize

Idle == [pc |-> "idle", class |-> None, n |-> 0, span |-> None, blocks |-> {}]

Places == {"idle", "fetch", "newspan", "carve", "push", "release", "return"}

PageCache ==
  [span   : [Spans -> Span \cup {None}],  \* the Span objects
   listed : SUBSET Spans,                 \* those in the page cache's lists
   map    : [Pages -> Spans \cup {None}], \* _id_span_map
   mem    : SUBSET Pages,                 \* what the system has given
   brk    : Nat,                          \* the page it gives next
   wild   : BOOLEAN]                      \* Erase was called on a span in no list

AllocTypeOK ==
  /\ config \in Scenarios
  /\ heap \in PageCache
  /\ central \in [Classes -> SUBSET Spans]
  /\ lock \in [Classes -> Threads \cup {None}]
  /\ cache \in [Threads -> [Classes -> SUBSET Nat]]
  /\ maxSize \in [Threads -> [Classes -> Nat]]
  /\ \A t \in Threads, c \in Classes : maxSize[t][c] \in 1 .. MoveSize[c] + 1
  /\ at \in [Threads -> [pc : Places, class : Classes \cup {None}, n : Nat,
                         span : Spans \cup {None}, blocks : SUBSET Nat]]
  /\ held \subseteq [at : Nat, size : Nat]

AllocInit ==
  /\ config \in Scenarios
  /\ heap = [span |-> [s \in Spans |-> None], listed |-> {}, map |-> [p \in Pages |-> None],
             mem |-> {}, brk |-> 1, wild |-> FALSE]
  /\ central = [c \in Classes |-> {}]
  /\ lock = [c \in Classes |-> None]
  /\ cache = [t \in Threads |-> [c \in Classes |-> {}]]
  /\ maxSize = [t \in Threads |-> [c \in Classes |-> 1]]
  /\ at = [t \in Threads |-> Idle]
  /\ held = {}

-----------------------------------------------------------------------------
(* PageCache: operators from its state to what it may become. *)

SetMap(h, ps, v) == [h EXCEPT !.map = [p \in Pages |-> IF p \in ps THEN v ELSE @[p]]]

Get(h, p) == IF p \in Pages THEN h.map[p] ELSE None

NewObject(h) == Min({s \in Spans : h.span[s] = None})

SpanOf(page, npage) ==
  [page |-> page, npage |-> npage, free |-> {}, count |-> 0, class |-> None, used |-> FALSE]

\* SystemAlloc.  ConcurrentMemoryPool asks for NPAGE_LISTS pages, one more than it uses.
Taken == IF config.lib = "Pool" THEN MaxSpan ELSE MaxSpan + 1

FromSystem(h, npage, pages) ==
  [h EXCEPT !.mem = @ \cup (h.brk .. h.brk + npage - 1), !.brk = @ + pages]

Grown(h) ==
  LET s == NewObject(h)
  IN  [FromSystem(h, MaxSpan, Taken) EXCEPT
         !.span[s] = SpanOf(h.brk, MaxSpan), !.listed = @ \cup {s}]

\* The ends of a span in a list are mapped, every page of any other.
MapEnds(h, s) ==
  SetMap(h, {h.span[s].page, h.span[s].page + h.span[s].npage - 1}, s)

MapAll(h, s) == SetMap(h, PagesOf(h.span[s]), s)

Popped(h, s) == MapAll([h EXCEPT !.listed = @ \ {s}], s)

\* Mutant of CutSpan: _page_id is not advanced.
CutKeepingPage(h, n, k) ==
  LET s == NewObject(h)
      g == [h EXCEPT !.span[s] = SpanOf(h.span[n].page, k), !.span[n].npage = @ - k]
  IN  <<MapAll(MapEnds(g, n), s), s>>

\* The first k pages of span n as a span of their own.
CutSpan(h, n, k) ==
  LET s == NewObject(h)
      g == [h EXCEPT !.span[s] = SpanOf(h.span[n].page, k),
                     !.span[n].page = @ + k, !.span[n].npage = @ - k]
  IN  <<MapAll(MapEnds(g, n), s), s>>

\* The shortest spans of the lists that have k pages.
BestFit(h, k) ==
  LET fits == {s \in h.listed : h.span[s].npage >= k}
  IN  {s \in fits : \A r \in fits : h.span[s].npage <= h.span[r].npage}

\* NewSpan's state and result.  None when the bound on memory is reached.
NewSpan(h, k) ==
  IF k > MaxSpan
  THEN LET s == NewObject(h)
           g == [FromSystem(h, k, k) EXCEPT !.span[s] = SpanOf(h.brk, k)]
       IN  {r \in {<<MapAll(g, s), s>>} : h.brk + k - 1 <= config.pages}
  ELSE LET full == h.brk + Taken - 1 > config.pages
           g == IF BestFit(h, k) = {} /\ ~full THEN Grown(h) ELSE h
       IN  {IF g.span[n].npage = k THEN <<Popped(g, n), n>> ELSE CutSpan(g, n, k) : n \in BestFit(g, k)}

CanMerge(h, s, n) ==
  /\ n # None
  /\ ~h.span[n].used
  /\ h.span[s].npage + h.span[n].npage <= MaxSpan

\* Mutant of Merged: the pages of n are not added.
MergedShort(h, s, n) ==
  LET ends == {h.span[n].page, h.span[n].page + h.span[n].npage - 1}
  IN  [SetMap(h, ends, None) EXCEPT
         !.span[s].page = IF @ < h.span[n].page THEN @ ELSE h.span[n].page,
         !.span[n] = None,
         !.listed = @ \ {n},
         !.wild = @ \/ n \notin h.listed]

\* Span n becomes part of s.  Erase takes n from a list: if it is in none (its
\* _prev is null or stale), nothing can be said of the process any more.
Merged(h, s, n) ==
  LET ends == {h.span[n].page, h.span[n].page + h.span[n].npage - 1}
  IN  [SetMap(h, ends, None) EXCEPT
         !.span[s].page = IF @ < h.span[n].page THEN @ ELSE h.span[n].page,
         !.span[s].npage = @ + h.span[n].npage,
         !.span[n] = None,
         !.listed = @ \ {n},
         !.wild = @ \/ n \notin h.listed]

\* The span on one side of s, if the page map knows one.
Neighbour(side, h, s) ==
  Get(h, IF side = "before" THEN h.span[s].page - 1 ELSE h.span[s].page + h.span[s].npage)

MergeOnce(side, h, s) ==
  LET n == Neighbour(side, h, s)
  IN  IF CanMerge(h, s, n) THEN Merged(h, s, n) ELSE h

\* A while loop for each side; each round adds a page at least.
MergedWith(side, h, s) ==
  LET rounds[i \in 0 .. MaxSpan] ==
        IF i = 0 THEN h ELSE MergeOnce(side, rounds[i - 1], s)
  IN  rounds[MaxSpan]

\* Mutant of Unmapped: the middle of the span stays mapped.
UnmappedEnds(h, s) ==
  SetMap(h, {h.span[s].page, h.span[s].page + h.span[s].npage - 1}, None)

Unmapped(h, s) == SetMap(h, PagesOf(h.span[s]), None)

ReleaseSpanToPageCache(h, s) ==
  LET u == Unmapped(h, s)
      m == MergedWith("after", MergedWith("before", u, s), s)
  IN  IF h.span[s].npage > MaxSpan
      THEN [u EXCEPT !.span[s] = None, !.mem = @ \ PagesOf(h.span[s])]
      ELSE MapEnds([m EXCEPT !.listed = @ \cup {s}, !.span[s].used = FALSE], s)

-----------------------------------------------------------------------------
(* Allocation. *)

Goto(t, pc, class, n, span, blocks) ==
  at' = [at EXCEPT ![t] =
           [pc |-> pc, class |-> class, n |-> n, span |-> span, blocks |-> blocks]]

\* Allocate from the thread's own free list.
AllocateCached(t, c) ==
  /\ at[t].pc = "idle" /\ c \in config.uses[t] /\ Cardinality(held) < config.held
  /\ \E b \in cache[t][c] :
       /\ cache' = [cache EXCEPT ![t][c] = @ \ {b}]
       /\ held' = held \cup {Block(b, BlockWords[c])}
  /\ UNCHANGED <<config, heap, central, lock, maxSize, at>>

\* Mutant of NextMaxSize: it grows with every fetch.
NextMaxSizeAlways(c, m) == m + 1

\* The slow start: what is asked for grows up to MoveSize.
NextMaxSize(c, m) == IF m <= MoveSize[c] THEN m + 1 ELSE m

FetchFromCentralCache(t, c) ==
  LET m == maxSize[t][c]
  IN  /\ at[t].pc = "idle" /\ c \in config.uses[t] /\ Cardinality(held) < config.held
      /\ cache[t][c] = {}
      /\ maxSize' = [maxSize EXCEPT ![t][c] = NextMaxSize(c, m)]
      /\ Goto(t, "fetch", c, Min({MoveSize[c], m}), None, {})
      /\ UNCHANGED <<config, heap, central, lock, cache, held>>

\* The end of FetchRangeObj, with a span of the list that has free blocks; of the
\* blocks taken the program gets one, and the thread's cache the others.
Take(t, s) ==
  LET c == at[t].class
      free == heap.span[s].free
  IN  \E taken \in kSubset(Min({at[t].n, Cardinality(free)}), free) :
        /\ heap' = [heap EXCEPT !.span[s].free = @ \ taken,
                                !.span[s].count = @ + Cardinality(taken)]
        /\ \E b \in taken :
             /\ cache' = [cache EXCEPT ![t][c] = @ \cup (taken \ {b})]
             /\ held' = held \cup {Block(b, BlockWords[c])}
        /\ at' = [at EXCEPT ![t] = Idle]

FetchOneSpan(c) == {s \in central[c] : heap.span[s].free # {}}

FetchRangeObj(t) ==
  LET c == at[t].class
  IN  /\ at[t].pc = "fetch" /\ lock[c] = None
      /\ \/ \E s \in FetchOneSpan(c) : Take(t, s)
         \/ /\ FetchOneSpan(c) = {}
            /\ Goto(t, "newspan", c, at[t].n, None, {})
            /\ UNCHANGED <<heap, cache, held>>
      /\ UNCHANGED <<config, central, lock, maxSize>>

\* Mutant of MarkedEarly: neither marks the span under the page cache's lock.
MarkedNever == FALSE

\* Pool's GetNewSpan sets _is_used.  ConcurrentMemoryPool's NewSpan does not.
MarkedEarly == config.lib = "Pool"

GetSpan(t) ==
  /\ at[t].pc = "newspan"
  /\ \E r \in NewSpan(heap, MovePages[at[t].class]) :
       /\ heap' = [r[1] EXCEPT !.span[r[2]].used = MarkedEarly]
       /\ Goto(t, "carve", at[t].class, at[t].n, r[2], {})
  /\ UNCHANGED <<config, central, lock, cache, maxSize, held>>

\* As many blocks as start within the span.
Carved(s, c) ==
  {b \in FirstWord(s.page) .. FirstWord(s.page + s.npage) - 1 :
     (b - FirstWord(s.page)) % BlockWords[c] = 0}

\* Mutant of CarveSpan: _use_count is left as it is.
CarveWithoutReset(k, c) ==
  [k EXCEPT !.class = c, !.used = TRUE, !.free = Carved(k, c)]

CarveSpan(k, c) ==
  [k EXCEPT !.class = c, !.count = 0, !.used = TRUE, !.free = Carved(k, c)]

Carve(t) ==
  /\ at[t].pc = "carve"
  /\ heap' = [heap EXCEPT !.span[at[t].span] = CarveSpan(@, at[t].class)]
  /\ at' = [at EXCEPT ![t].pc = "push"]
  /\ UNCHANGED <<config, central, lock, cache, maxSize, held>>

PushSpan(t) ==
  LET c == at[t].class
  IN  /\ at[t].pc = "push" /\ lock[c] = None
      /\ central' = [central EXCEPT ![c] = @ \cup {at[t].span}]
      /\ Take(t, at[t].span)
      /\ UNCHANGED <<config, lock, maxSize>>

\* ConcurrentMalloc of more than MAX_BYTES: a span of its own.
MallocPages(t, k) ==
  /\ k \in config.large
  /\ at[t].pc = "idle" /\ Cardinality(held) < config.held
  /\ \E r \in NewSpan(heap, k) :
       /\ heap' = [r[1] EXCEPT !.span[r[2]].class = "large", !.span[r[2]].count = 1,
                               !.span[r[2]].used = TRUE]
       /\ held' = held \cup {Block(FirstWord(r[1].span[r[2]].page), k * PageSize)}
  /\ UNCHANGED <<config, central, lock, cache, maxSize, at>>

-----------------------------------------------------------------------------
(* Deallocation: of any block, by any thread that has a cache. *)

PageToSpan(b) == heap.map[PageOf(b)]

\* pTLSThreadCache is not null, for the first Allocate raises a _max_size.
HasCache(t) == \E c \in Classes : maxSize[t][c] > 1

\* Mutant of TooLong: a free list gets one block too long.
TooLongLate(t, c, blocks) == Cardinality(blocks) > maxSize[t][c] + 1

TooLong(t, c, blocks) ==
  IF config.lib = "Pool" THEN Cardinality(blocks) > maxSize[t][c]
  ELSE Cardinality(blocks) >= maxSize[t][c]

DeletePages(t, b) ==
  LET s == PageToSpan(b.at)
  IN  /\ at[t].pc = "idle" /\ b \in held
      /\ heap.span[s].class = "large"
      /\ held' = held \ {b}
      /\ Goto(t, "return", None, 0, s, {})
      /\ UNCHANGED <<config, heap, central, lock, cache, maxSize>>

\* DeAllocate, and the part of ListTooLong before the central cache's lock.
DeAllocate(t, b) ==
  LET c == heap.span[PageToSpan(b.at)].class
      blocks == cache[t][c] \cup {b.at}
  IN  /\ at[t].pc = "idle" /\ b \in held /\ HasCache(t)
      /\ c \in Classes
      /\ held' = held \ {b}
      /\ IF TooLong(t, c, blocks)
         THEN \E out \in kSubset(maxSize[t][c], blocks) :
                /\ cache' = [cache EXCEPT ![t][c] = blocks \ out]
                /\ Goto(t, "release", c, 0, None, out)
         ELSE cache' = [cache EXCEPT ![t][c] = blocks] /\ UNCHANGED at
      /\ UNCHANGED <<config, heap, central, lock, maxSize>>

LockList(t) ==
  LET c == at[t].class
  IN  /\ at[t].pc = "release" /\ lock[c] = None
      /\ lock' = [lock EXCEPT ![c] = t]
      /\ UNCHANGED <<config, heap, central, cache, maxSize, at, held>>

\* One round of ReleaseListToSpans' loop.
ReturnBlock(t, b) ==
  LET c == at[t].class
      s == PageToSpan(b)
      rest == at[t].blocks \ {b}
      last == heap.span[s].count = 1
  IN  /\ at[t].pc = "release" /\ lock[c] = t /\ b \in at[t].blocks
      /\ heap' = [heap EXCEPT !.span[s].free = IF last THEN {} ELSE @ \cup {b},
                              !.span[s].count = @ - 1]
      /\ central' = [central EXCEPT ![c] = IF last THEN @ \ {s} ELSE @]
      /\ lock' = [lock EXCEPT ![c] = IF last \/ rest = {} THEN None ELSE @]
      /\ IF last THEN Goto(t, "return", c, 0, s, rest)
         ELSE IF rest = {} THEN at' = [at EXCEPT ![t] = Idle]
         ELSE Goto(t, "release", c, 0, None, rest)
      /\ UNCHANGED <<config, cache, maxSize, held>>

\* Behind it the lock is taken again, for the blocks that are left.
ReturnSpan(t) ==
  /\ at[t].pc = "return"
  /\ heap' = ReleaseSpanToPageCache(heap, at[t].span)
  /\ IF at[t].blocks = {} THEN at' = [at EXCEPT ![t] = Idle]
     ELSE Goto(t, "release", at[t].class, 0, None, at[t].blocks)
  /\ UNCHANGED <<config, central, lock, cache, maxSize, held>>

-----------------------------------------------------------------------------

AllocNext ==
  /\ ~heap.wild
  /\ \E t \in Threads :
       \/ \E c \in Classes : AllocateCached(t, c) \/ FetchFromCentralCache(t, c)
       \/ FetchRangeObj(t) \/ GetSpan(t) \/ Carve(t) \/ PushSpan(t)
       \/ \E k \in config.large : MallocPages(t, k)
       \/ \E b \in held : DeletePages(t, b) \/ DeAllocate(t, b)
       \/ LockList(t) \/ ReturnSpan(t)
       \/ \E b \in at[t].blocks : ReturnBlock(t, b)

AllocSpec == AllocInit /\ [][AllocNext]_allocVars

-----------------------------------------------------------------------------

Live == {s \in Spans : heap.span[s] # None}

(***************************************************************************)
(* Every page the system gave belongs to exactly one span: cutting and     *)
(* merging neither lose nor share pages.                                   *)
(***************************************************************************)
SpansTile ==
  ~heap.wild =>
    /\ UNION {PagesOf(heap.span[s]) : s \in Live} = heap.mem
    /\ \A r, s \in Live : r # s => PagesOf(heap.span[r]) \cap PagesOf(heap.span[s]) = {}

(***************************************************************************)
(* The page map names the span of each page it knows.  It knows every page *)
(* of a span handed out, for PageToSpan; of a span in a list it knows the  *)
(* ends, for the merging, and nothing else.                                *)
(***************************************************************************)
MapSound ==
  ~heap.wild => \A s \in Live :
    LET k == heap.span[s]
    IN  {p \in Pages : heap.map[p] = s} =
          IF s \in heap.listed THEN {k.page, k.page + k.npage - 1} ELSE PagesOf(k)

\* Where a block is: free in a span, in a cache, on its way back, or in use.
PlacesOf(b) ==
  {x \in {"span"} \X Live : b \in heap.span[x[2]].free}
  \cup {x \in {"cache"} \X Threads \X Classes : b \in cache[x[2]][x[3]]}
  \cup {x \in {"back"} \X Threads : b \in at[x[2]].blocks}
  \cup {x \in {"held"} \X held : x[2].at = b}

(***************************************************************************)
(* Each block of a span in the central cache is in exactly one place, and  *)
(* _use_count is the number of those that are not free in it: the span     *)
(* goes back to the page cache when its last block has come back, neither  *)
(* before nor never.                                                       *)
(***************************************************************************)
BlocksAccounted ==
  ~heap.wild => \A c \in Classes : \A s \in central[c] :
    LET k == heap.span[s]
    IN  /\ \A b \in Carved(k, c) : Cardinality(PlacesOf(b)) = 1
        /\ k.count = Cardinality(Carved(k, c) \ k.free)

(***************************************************************************)
(* A free list of a thread does not outgrow _max_size, and Pop_Range finds *)
(* _max_size blocks in it.                                                 *)
(***************************************************************************)
CachesBounded ==
  \A t \in Threads, c \in Classes : Cardinality(cache[t][c]) <= maxSize[t][c]

\* The page cache as a whole: the pages and who finds them.  (NewSpan, ReleaseSpan)
PagesSound == AllocTypeOK /\ SpansTile /\ MapSound

\* The blocks, in the central cache and in the threads'.  (FetchRangeObj, DeAllocate)
BlocksSound == BlocksAccounted /\ CachesBounded

(***************************************************************************)
(* The blocks in use share no words, and are never those of a free block.  *)
(***************************************************************************)
PromisedHeap == INSTANCE Heap

AllocImplementsHeap == PromisedHeap!Spec

(***************************************************************************)
(* RoundUp's value is the room the caller really gets ("返回值是我实际给你的空间大 *)
(* 小", ConcurrentMemoryPool/Common.h:160): no block reaches into another. *)
(***************************************************************************)
BlocksDisjoint ==
  \A o, b \in held : o # b => PromisedHeap!Words(o) \cap PromisedHeap!Words(b) = {}

(***************************************************************************)
(* The page cache merges only spans that have been returned to it.         *)
(* (In ConcurrentMemoryPool see MergesOnlyReturned.)                       *)
(***************************************************************************)
PoolMergesOnlyReturned == config.lib = "Pool" => ~heap.wild

(***************************************************************************)
(* Merging stops at a span that is in use and has not been returned        *)
(* ("前面的这个页号在使用，没有归还", ConcurrentMemoryPool/PageCache.cpp:155).        *)
(***************************************************************************)
MergesOnlyReturned == ~heap.wild
=============================================================================
