-------------------------- MODULE MemoryPoolProofs --------------------------
(***************************************************************************)
(* Proofs about MemoryPool: cutting and merging keep every page in exactly *)
(* one span and the page map true, every block of a span in the central    *)
(* cache is in exactly one place and counted, and Pool merges only spans   *)
(* that were returned.                                                     *)
(***************************************************************************)
EXTENDS MemoryPool, Integers, FiniteSetTheorems, WellFoundedInduction, TLAPS

-----------------------------------------------------------------------------
(* The inductive invariant: first the page cache. *)

Alive(h) == {s \in Spans : h.span[s] # None}

\* The spans handed out, to a class, to a thread or as a large block.
Out(h) == Alive(h) \ h.listed

Ends(k) == {k.page, k.page + k.npage - 1}

\* The pages at which the page map names a span.
Named(h, s) == IF s \in h.listed THEN Ends(h.span[s]) ELSE PagesOf(h.span[s])

Apart(k, l) == k.page + k.npage <= l.page \/ l.page + l.npage <= k.page

\* The spans share the system's memory out among them.
Tiled(h) ==
  /\ h.brk >= 1 /\ \A p \in h.mem : p < h.brk
  /\ \A s \in Alive(h) : h.span[s].npage >= 1
  /\ \A r, s \in Alive(h) : r # s => Apart(h.span[r], h.span[s])
  /\ \A s \in Alive(h) : PagesOf(h.span[s]) \subseteq h.mem
  /\ \A p \in h.mem : \E s \in Alive(h) : p \in PagesOf(h.span[s])

\* A span in a list.
ListsKept(h) ==
  \A s \in h.listed : /\ s \in Alive(h) /\ h.span[s].npage <= MaxSpan
                      /\ ~h.span[s].used /\ h.span[s].free = {}

\* The map tells the truth, and all of it except about a span of X.
MapTrue(h, X) ==
  \A p \in Pages, s \in Spans :
    /\ h.map[p] = s => s \in Alive(h) /\ p \in Named(h, s)
    /\ s \in Alive(h) \ X /\ p \in Named(h, s) => h.map[p] = s

PagesKept(h, X) == Tiled(h) /\ ListsKept(h) /\ MapTrue(h, X)

-----------------------------------------------------------------------------
(* Then who has the spans that are handed out. *)

Owns(t) == at[t].pc \in {"carve", "push", "return"}

\* A span is in the list of its class, with one thread, or neither.
SpansOwned ==
  /\ \A c \in Classes : \A s \in central[c] : s \in Out(heap) /\ heap.span[s].class = c
  /\ \A t \in Threads : Owns(t) =>
       at[t].span \in Out(heap) /\ \A c \in Classes : at[t].span \notin central[c]
  /\ \A t, u \in Threads : Owns(t) /\ Owns(u) /\ at[t].span = at[u].span => t = u

\* Only a span in a list of the central cache, or on its way into one, has free blocks.
FreeOwned ==
  /\ \A s \in Alive(heap) : heap.span[s].free # {} =>
       \/ \E c \in Classes : s \in central[c]
       \/ \E t \in Threads : at[t].pc = "push" /\ at[t].span = s
  /\ \A t \in Threads : at[t].pc = "push" =>
       LET k == heap.span[at[t].span]
       IN  k.class = at[t].class /\ k.count = 0 /\ k.free = Carved(k, at[t].class)

\* Pool marks a span under the page cache's lock.
OutUsed == config.lib = "Pool" => \A s \in Out(heap) : heap.span[s].used

-----------------------------------------------------------------------------
(* And the blocks. *)

\* What a thread has in hand.
InHand ==
  \A t \in Threads :
    /\ at[t].pc \in {"fetch", "newspan", "carve", "push", "release"} => at[t].class \in Classes
    /\ at[t].blocks # {} => at[t].pc \in {"release", "return"} /\ at[t].class \in Classes
    /\ at[t].pc \in {"fetch", "newspan", "carve", "push"} =>
         cache[t][at[t].class] = {} /\ at[t].n <= maxSize[t][at[t].class]

CachesSized ==
  \A t \in Threads, c \in Classes :
    IsFiniteSet(cache[t][c]) /\ Cardinality(cache[t][c]) <= maxSize[t][c]

\* Block b of class c was taken out of a span of the list.
TakenFrom(list, span, c, b) ==
  \E s \in list : b \in Carved(span[s], c) /\ b \notin span[s].free

\* Block b is one of the spans, which has no class.
Large(spans, span, b) ==
  \E s \in spans : span[s].class = "large" /\ b = FirstWord(span[s].page)

\* The spans that threads have.
Owned == {at[t].span : t \in {u \in Threads : Owns(u)}}

\* Where the blocks outside the spans come from.
BlocksTaken ==
  /\ \A t \in Threads, c \in Classes : \A b \in cache[t][c] :
       TakenFrom(central[c], heap.span, c, b)
  /\ \A t \in Threads : \A b \in at[t].blocks :
       TakenFrom(central[at[t].class], heap.span, at[t].class, b)
  /\ \A o \in held :
       \/ \E c \in Classes : o.size = BlockWords[c] /\ TakenFrom(central[c], heap.span, c, o.at)
       \/ Large(Out(heap) \ Owned, heap.span, o.at)

\* A block outside the spans is in one place.
BlocksOnce ==
  /\ \A t, u \in Threads, c, d \in Classes : \A b \in cache[t][c] : b \in cache[u][d] => t = u /\ c = d
  /\ \A t, u \in Threads, c \in Classes : \A b \in cache[t][c] : b \notin at[u].blocks
  /\ \A t, u \in Threads : \A b \in at[t].blocks : b \in at[u].blocks => t = u
  /\ \A o \in held : \A t \in Threads : o.at \notin at[t].blocks /\ \A c \in Classes : o.at \notin cache[t][c]
  /\ \A o, q \in held : o.at = q.at => o = q

\* The blocks outside the spans: of class c in the caches, on their way back, in use.
Outside(caches, where, blocks, c, b) ==
  \/ \E t \in Threads : b \in caches[t][c] \/ b \in where[t].blocks
  \/ \E o \in blocks : o.at = b

\* No block of a span gets lost, and the span knows how many are outside.
BlocksCounted ==
  \A c \in Classes : \A s \in central[c] :
    LET k == heap.span[s]
    IN  /\ k.free \subseteq Carved(k, c)
        /\ k.count = Cardinality(Carved(k, c) \ k.free)
        /\ \A b \in Carved(k, c) \ k.free : Outside(cache, at, held, c, b)

Kept ==
  /\ PagesKept(heap, {}) /\ SpansOwned /\ FreeOwned /\ OutUsed
  /\ InHand /\ BlocksTaken /\ BlocksOnce /\ BlocksCounted

AllocInv == AllocTypeOK /\ CachesSized /\ (~heap.wild => Kept) /\ PoolMergesOnlyReturned

-----------------------------------------------------------------------------
(* Numbers and blocks. *)

\* A non-empty set of numbers has a least one, which Min chooses.  (NewObject, BestFit)
LEMMA MinIsLeast ==
  ASSUME NEW T \in SUBSET Nat, T # {}
  PROVE Min(T) \in T /\ \A y \in T : Min(T) <= y
<1> DEFINE R == OpToRel(<, Nat)
<1>1. IsWellFoundedOn(R, Nat)
  BY NatLessThanWellFounded
<1>2. \A x, y \in Nat : <<x, y>> \in R <=> x < y
  BY DEF OpToRel
<1>a. T \subseteq Nat
  OBVIOUS
<1>3. \E x \in T : \A y \in T : ~(<<y, x>> \in R)
  <2> HIDE DEF R
  <2> QED BY <1>1, <1>a, WFMin, Zenon
<1> HIDE DEF R
<1>4. PICK x \in T : \A y \in T : ~(<<y, x>> \in R)
  BY <1>3
<1>5. \A y \in T : ~(y < x) /\ y \in Nat /\ x \in Nat
  BY <1>2, <1>4
<1>6. \A y \in T : x <= y
  BY <1>5
<1> QED BY <1>4, <1>6 DEF Min

\* What holds at 0 and is passed on holds up to N.  (MergedWith)
LEMMA UpTo ==
  ASSUME NEW N \in Nat, NEW T, 0 \in T, \A i \in 1 .. N : i - 1 \in T => i \in T
  PROVE N \in T
<1> DEFINE Bad == {i \in 0 .. N : i \notin T}
<1>1. SUFFICES ASSUME Bad # {} PROVE FALSE
  OBVIOUS
<1>2. Bad \in SUBSET Nat
  OBVIOUS
<1> DEFINE m == Min(Bad)
<1>3. m \in Bad /\ \A i \in Bad : m <= i
  <2> HIDE DEF Bad
  <2> QED BY <1>1, <1>2, MinIsLeast
<1>4. m \in 0 .. N /\ m \notin T
  BY <1>3
<1>5. m # 0
  BY <1>4
<1> HIDE DEF m
<1>6. m - 1 \in 0 .. N /\ m \in 1 .. N
  BY <1>4, <1>5
<1>7. m - 1 \notin Bad
  BY <1>3, <1>6
<1> QED BY <1>4, <1>6, <1>7

\* A word that lies in some pages is on one of them.  (PageOf)
LEMMA PageOfWord ==
  ASSUME NEW b \in Nat, NEW p \in Nat, NEW q \in Nat,
         FirstWord(p) <= b, b < FirstWord(q)
  PROVE PageOf(b) \in p .. q - 1 /\ PageOf(b) \in Nat
<1> DEFINE d == b \div PageSize
           e == b % PageSize
<1>1. PageSize \in Nat \ {0}
  BY SizesAssumption
<1>2. d \in Nat /\ e \in 0 .. PageSize - 1 /\ b = PageSize * d + e
  BY <1>1
<1>3. p * PageSize <= b /\ b < q * PageSize
  BY DEF FirstWord
<1> HIDE DEF d, e
<1>4. p <= d
  <2>1. SUFFICES ASSUME d + 1 <= p PROVE FALSE
    BY <1>2
  <2>2. PageSize * (d + 1) <= PageSize * p
    BY <1>1, <1>2, <2>1, SMTT(30)
  <2>3. PageSize * (d + 1) = PageSize * d + PageSize
    BY <1>1, <1>2, SMTT(30)
  <2>4. PageSize * p = p * PageSize /\ PageSize * p \in Nat /\ PageSize * d \in Nat
    BY <1>1, <1>2, SMTT(30)
  <2> QED BY <1>1, <1>2, <1>3, <2>2, <2>3, <2>4
<1>5. d < q
  <2>1. SUFFICES ASSUME q <= d PROVE FALSE
    BY <1>2
  <2>2. PageSize * q <= PageSize * d
    BY <1>1, <1>2, <2>1, SMTT(30)
  <2>4. PageSize * q = q * PageSize /\ PageSize * q \in Nat /\ PageSize * d \in Nat
    BY <1>1, <1>2, SMTT(30)
  <2> QED BY <1>1, <1>2, <1>3, <2>2, <2>4
<1>6. PageOf(b) = d
  BY DEF d, PageOf
<1> QED BY <1>2, <1>4, <1>5, <1>6

\* The words of a page are those of no other.  (PageOf)
LEMMA PageOfFirst ==
  ASSUME NEW p \in Nat
  PROVE FirstWord(p) \in Nat /\ PageOf(FirstWord(p)) = p
<1>1. PageSize \in Nat \ {0}
  BY SizesAssumption
<1>2. FirstWord(p) \in Nat /\ FirstWord(p + 1) = FirstWord(p) + PageSize
  <2>1. p * PageSize \in Nat /\ (p + 1) * PageSize = p * PageSize + PageSize
    BY <1>1, SMTT(30)
  <2> QED BY <2>1 DEF FirstWord
<1>3. FirstWord(p) <= FirstWord(p) /\ FirstWord(p) < FirstWord(p + 1)
  BY <1>1, <1>2
<1>4. PageOf(FirstWord(p)) \in p .. (p + 1) - 1
  BY <1>2, <1>3, PageOfWord
<1> QED BY <1>2, <1>4

\* The blocks of a span start on its pages.  (Carve)
LEMMA CarvedInside ==
  ASSUME NEW k, k.page \in Nat, k.npage \in Nat, NEW c, NEW b \in Carved(k, c)
  PROVE b \in Nat /\ PageOf(b) \in PagesOf(k)
<1>1. FirstWord(k.page) \in Nat /\ FirstWord(k.page + k.npage) \in Nat
  BY PageOfFirst
<1>2. b \in FirstWord(k.page) .. FirstWord(k.page + k.npage) - 1
  BY DEF Carved
<1>3. b \in Nat /\ FirstWord(k.page) <= b /\ b < FirstWord(k.page + k.npage)
  BY <1>1, <1>2
<1>4. PageOf(b) \in k.page .. (k.page + k.npage) - 1
  BY <1>3, PageOfWord
<1> QED BY <1>3, <1>4 DEF PagesOf

\* There are finitely many of them.  (Carve)
LEMMA CarvedFinite ==
  ASSUME NEW k, k.page \in Nat, k.npage \in Nat, NEW c
  PROVE IsFiniteSet(Carved(k, c)) /\ Carved(k, c) \subseteq Nat
<1>1. FirstWord(k.page) \in Nat /\ FirstWord(k.page + k.npage) \in Nat
  BY PageOfFirst
<1>2. IsFiniteSet(FirstWord(k.page) .. FirstWord(k.page + k.npage) - 1)
  BY <1>1, FS_Interval
<1>3. Carved(k, c) \subseteq FirstWord(k.page) .. FirstWord(k.page + k.npage) - 1
  BY DEF Carved
<1> QED BY <1>1, <1>2, <1>3, FS_Subset

-----------------------------------------------------------------------------
(* The page cache's operators. *)

\* What a scenario is.
LEMMA ConfigType ==
  ASSUME config \in Scenarios
  PROVE /\ config.pages \in Nat /\ config.lib \in {"ConcurrentMemoryPool", "Pool"}
        /\ config.uses \in [Threads -> SUBSET Classes] /\ config.large \subseteq Nat \ {0}
        /\ Taken \in Nat /\ Taken >= MaxSpan /\ MaxSpan \in Nat \ {0}
  BY ScenariosAssumption, SizesAssumption DEF Scenario, Taken

\* The fields of a page cache.  (PageCache)
LEMMA PageCacheType ==
  ASSUME NEW h \in PageCache
  PROVE /\ h.span \in [Spans -> Span \cup {None}] /\ h.listed \subseteq Spans
        /\ h.map \in [Pages -> Spans \cup {None}] /\ h.mem \subseteq Pages
        /\ h.brk \in Nat /\ h.wild \in BOOLEAN
        /\ h = [span |-> h.span, listed |-> h.listed, map |-> h.map, mem |-> h.mem,
                brk |-> h.brk, wild |-> h.wild]
  BY DEF PageCache

\* The fields of a span.  (Span)
LEMMA SpanType ==
  ASSUME NEW h \in PageCache, NEW s \in Alive(h)
  PROVE /\ s \in Spans /\ h.span[s] \in Span
        /\ h.span[s].page \in Nat /\ h.span[s].npage \in Nat /\ h.span[s].free \subseteq Nat
        /\ h.span[s].count \in Nat /\ h.span[s].used \in BOOLEAN
  <1>1. s \in Spans /\ h.span[s] # None /\ h.span[s] \in Span \cup {None}
    BY PageCacheType DEF Alive
  <1> QED BY <1>1 DEF Span

\* While a page begins no span there is a Span object left.  (NewObject)
LEMMA ObjectLeft ==
  ASSUME config \in Scenarios, NEW h \in PageCache, Tiled(h),
         NEW q \in Pages, \A s \in Alive(h) : h.span[s].page # q
  PROVE NewObject(h) \in Spans /\ NewObject(h) \notin Alive(h)
<1> DEFINE T == {s \in Spans : h.span[s] = None}
<1>1. config.pages \in Nat /\ Spans = 1 .. config.pages /\ Pages = 1 .. config.pages
  BY ConfigType DEF Spans, Pages
<1>2. T # {}
  <2>1. SUFFICES ASSUME T = {} PROVE FALSE
    OBVIOUS
  <2>2. Alive(h) = Spans
    BY <2>1 DEF Alive
  <2> DEFINE f == [s \in Spans |-> h.span[s].page]
             U == Pages \ {q}
  <2>3. f \in [Spans -> U]
    <3>1. SUFFICES ASSUME NEW s \in Spans PROVE h.span[s].page \in U
      OBVIOUS
    <3>2. h.span[s].page \in Nat /\ h.span[s].npage \in Nat /\ h.span[s].npage >= 1
      BY <2>2, SpanType DEF Tiled
    <3>3. h.span[s].page \in PagesOf(h.span[s])
      BY <3>2 DEF PagesOf
    <3>4. h.span[s].page \in Pages
      BY <2>2, <3>3, PageCacheType DEF Tiled
    <3> QED BY <2>2, <3>4
  <2>4. IsFiniteSet(Spans) /\ Cardinality(Spans) = config.pages
    <3>1. 1 \in Int /\ config.pages \in Int
      BY <1>1
    <3>2. IsFiniteSet(1 .. config.pages) /\ Cardinality(1 .. config.pages) =
            IF 1 > config.pages THEN 0 ELSE config.pages - 1 + 1
      BY <3>1, FS_Interval, Zenon
    <3> QED BY <1>1, <3>2
  <2>5. IsFiniteSet(U) /\ Cardinality(U) = config.pages - 1
    <3>1. IsFiniteSet(Pages) /\ Cardinality(Pages) = config.pages
      BY <1>1, <2>4
    <3> QED BY <3>1, FS_RemoveElement
  <2>6. Cardinality(U) < Cardinality(Spans)
    BY <1>1, <2>4, <2>5
  <2>7. PICK r, s \in Spans : r # s /\ f[r] = f[s]
    <3> HIDE DEF f, U
    <3> QED BY <2>3, <2>4, <2>5, <2>6, FS_PigeonHole
  <2>8. Apart(h.span[r], h.span[s])
    BY <2>2, <2>7 DEF Tiled
  <2>9. /\ h.span[r].page \in Nat /\ h.span[r].npage \in Nat /\ h.span[r].npage >= 1
        /\ h.span[s].page \in Nat /\ h.span[s].npage \in Nat /\ h.span[s].npage >= 1
    BY <2>2, SpanType DEF Tiled
  <2>10. h.span[r].page = h.span[s].page
    BY <2>7
  <2> QED BY <2>8, <2>9, <2>10 DEF Apart
<1>3. T \in SUBSET Nat
  BY <1>1
<1>4. Min(T) \in T
  <2> HIDE DEF T
  <2> QED BY <1>2, <1>3, MinIsLeast
<1>5. NewObject(h) = Min(T)
  BY DEF NewObject
<1> QED BY <1>4, <1>5 DEF Alive

\* What SetMap changes.
LEMMA SetMapIs ==
  ASSUME NEW h \in PageCache, NEW ps, NEW v \in Spans \cup {None}
  PROVE /\ SetMap(h, ps, v) \in PageCache
        /\ SetMap(h, ps, v).span = h.span /\ SetMap(h, ps, v).listed = h.listed
        /\ SetMap(h, ps, v).mem = h.mem /\ SetMap(h, ps, v).brk = h.brk
        /\ SetMap(h, ps, v).wild = h.wild
        /\ \A p \in Pages : SetMap(h, ps, v).map[p] = IF p \in ps THEN v ELSE h.map[p]
<1> DEFINE m == [p \in Pages |-> IF p \in ps THEN v ELSE h.map[p]]
<1>1. m \in [Pages -> Spans \cup {None}]
  BY PageCacheType
<1>2. SetMap(h, ps, v) = [h EXCEPT !.map = m]
  BY DEF SetMap
<1>3. [h EXCEPT !.map = m] = [span |-> h.span, listed |-> h.listed, map |-> m,
                              mem |-> h.mem, brk |-> h.brk, wild |-> h.wild]
  <2> HIDE DEF m
  <2> QED BY PageCacheType DEF PageCache
<1>4. [h EXCEPT !.map = m] \in PageCache
  <2> HIDE DEF m
  <2> QED BY <1>1, <1>3, PageCacheType DEF PageCache
<1> QED BY <1>2, <1>3, <1>4

\* The shortest fitting span, if there is one.  (BestFit)
LEMMA BestFitIs ==
  ASSUME NEW h \in PageCache, h.listed \subseteq Alive(h), NEW k \in Nat
  PROVE /\ \A n \in BestFit(h, k) : n \in h.listed /\ h.span[n].npage >= k
        /\ BestFit(h, k) = {} => \A n \in h.listed : h.span[n].npage < k
<1> DEFINE fits == {s \in h.listed : h.span[s].npage >= k}
           T == {h.span[s].npage : s \in fits}
<1>1. BestFit(h, k) = {s \in fits : \A r \in fits : h.span[s].npage <= h.span[r].npage}
  BY DEF BestFit
<1>2. \A n \in h.listed : h.span[n].npage \in Nat
  BY SpanType
<1>3. ASSUME fits # {} PROVE BestFit(h, k) # {}
  <2>1. T # {} /\ T \in SUBSET Nat
    BY <1>2, <1>3
  <2>2. Min(T) \in T /\ \A y \in T : Min(T) <= y
    <3> HIDE DEF T
    <3> QED BY <2>1, MinIsLeast
  <2>3. PICK s \in fits : Min(T) = h.span[s].npage
    BY <2>2
  <2>4. \A r \in fits : h.span[s].npage <= h.span[r].npage
    BY <2>2, <2>3
  <2> QED BY <1>1, <2>4
<1> QED BY <1>1, <1>2, <1>3

\* What Popped changes.
LEMMA PoppedIs ==
  ASSUME NEW h \in PageCache, NEW n \in Spans
  PROVE /\ Popped(h, n) \in PageCache
        /\ Popped(h, n).span = h.span /\ Popped(h, n).listed = h.listed \ {n}
        /\ Popped(h, n).mem = h.mem /\ Popped(h, n).brk = h.brk
        /\ Popped(h, n).wild = h.wild
        /\ \A p \in Pages : Popped(h, n).map[p] =
             IF p \in PagesOf(h.span[n]) THEN n ELSE h.map[p]
<1> DEFINE g == [h EXCEPT !.listed = @ \ {n}]
<1>1. g = [span |-> h.span, listed |-> h.listed \ {n}, map |-> h.map,
           mem |-> h.mem, brk |-> h.brk, wild |-> h.wild]
  BY PageCacheType DEF PageCache
<1>2. g \in PageCache
  BY <1>1, PageCacheType DEF PageCache
<1>3. Popped(h, n) = SetMap(g, PagesOf(g.span[n]), n)
  BY DEF Popped, MapAll
<1>4. /\ g.span = h.span /\ g.listed = h.listed \ {n} /\ g.map = h.map
      /\ g.mem = h.mem /\ g.brk = h.brk /\ g.wild = h.wild
  BY <1>1
<1> HIDE DEF g
<1>5. n \in Spans \cup {None}
  OBVIOUS
<1> DEFINE S == SetMap(g, PagesOf(g.span[n]), n)
<1>6. /\ S \in PageCache /\ S.span = g.span /\ S.listed = g.listed
      /\ S.mem = g.mem /\ S.brk = g.brk /\ S.wild = g.wild
      /\ \A p \in Pages : S.map[p] = IF p \in PagesOf(g.span[n]) THEN n ELSE g.map[p]
  BY <1>2, <1>5, SetMapIs
<1> QED BY <1>3, <1>4, <1>6

\* A span of the right length is handed out as it is.  (NewSpan)
LEMMA PoppedKept ==
  ASSUME NEW h \in PageCache, NEW n \in h.listed, PagesKept(h, {n})
  PROVE PagesKept(Popped(h, n), {})
<1> DEFINE g == Popped(h, n)
<1>1. n \in Spans /\ n \in Alive(h) /\ h.listed \subseteq Spans
  BY PageCacheType DEF PagesKept, ListsKept
<1>2. /\ g \in PageCache /\ g.span = h.span /\ g.listed = h.listed \ {n}
      /\ g.mem = h.mem /\ g.brk = h.brk
      /\ \A p \in Pages : g.map[p] = IF p \in PagesOf(h.span[n]) THEN n ELSE h.map[p]
  BY <1>1, PoppedIs
<1> HIDE DEF g
<1>3. Alive(g) = Alive(h)
  BY <1>2 DEF Alive
<1>4. Tiled(g)
  BY <1>2, <1>3 DEF Tiled, PagesKept
<1>5. ListsKept(g)
  BY <1>2, <1>3 DEF ListsKept, PagesKept
<1>6. MapTrue(g, {})
  <2>1. SUFFICES ASSUME NEW p \in Pages, NEW s \in Spans
                 PROVE /\ g.map[p] = s => s \in Alive(g) /\ p \in Named(g, s)
                       /\ s \in Alive(g) /\ p \in Named(g, s) => g.map[p] = s
    BY DEF MapTrue
  <2>2. /\ h.map[p] = s => s \in Alive(h) /\ p \in Named(h, s)
        /\ s \in Alive(h) \ {n} /\ p \in Named(h, s) => h.map[p] = s
    BY DEF MapTrue, PagesKept
  <2>3. Named(g, n) = PagesOf(h.span[n])
    BY <1>2 DEF Named
  <2>4. ASSUME s # n PROVE Named(g, s) = Named(h, s)
    BY <1>2, <2>4 DEF Named
  <2>5. CASE s = n
    <3>1. ASSUME h.map[p] = n PROVE p \in PagesOf(h.span[n])
      <4>1. p \in Ends(h.span[n])
        BY <2>2, <2>5, <3>1 DEF Named
      <4>2. h.span[n].page \in Nat /\ h.span[n].npage \in Nat /\ h.span[n].npage >= 1
        BY <1>1, SpanType DEF PagesKept, Tiled
      <4> QED BY <4>1, <4>2 DEF Ends, PagesOf
    <3> QED BY <1>1, <1>2, <1>3, <2>3, <2>5, <3>1
  <2>6. CASE s # n
    <3>1. ASSUME s \in Alive(h), p \in Named(h, s) PROVE p \notin PagesOf(h.span[n])
      <4>1. /\ h.span[n].page \in Nat /\ h.span[n].npage \in Nat /\ h.span[n].npage >= 1
            /\ h.span[s].page \in Nat /\ h.span[s].npage \in Nat /\ h.span[s].npage >= 1
        BY <1>1, <3>1, SpanType DEF PagesKept, Tiled
      <4>2. Apart(h.span[s], h.span[n])
        BY <1>1, <2>6, <3>1 DEF PagesKept, Tiled
      <4>3. p \in PagesOf(h.span[s])
        BY <3>1, <4>1 DEF Named, Ends, PagesOf
      <4> QED BY <4>1, <4>2, <4>3 DEF Apart, PagesOf
    <3> QED BY <1>2, <1>3, <2>2, <2>4, <2>6, <3>1
  <2> QED BY <2>5, <2>6
<1> QED BY <1>4, <1>5, <1>6 DEF PagesKept, g

\* Page cache g is h with the first k pages of span n cut off as span s.
CutInto(h, g, n, s, k) ==
  /\ g \in PageCache /\ g.listed = h.listed /\ g.mem = h.mem /\ g.brk = h.brk
  /\ g.wild = h.wild
  /\ g.span[s] = SpanOf(h.span[n].page, k)
  /\ g.span[n] # None /\ g.span[n].page = h.span[n].page + k
  /\ g.span[n].npage = h.span[n].npage - k
  /\ g.span[n].used = h.span[n].used /\ g.span[n].free = h.span[n].free
  /\ \A m \in Spans \ {n, s} : g.span[m] = h.span[m]
  /\ \A p \in Pages : g.map[p] = IF p \in PagesOf(g.span[s]) THEN s
                                 ELSE IF p \in Ends(g.span[n]) THEN n ELSE h.map[p]

\* A new span.  (SpanOf)
LEMMA SpanOfType ==
  ASSUME NEW p \in Nat, NEW n \in Nat
  PROVE /\ SpanOf(p, n) \in Span /\ SpanOf(p, n) # None
        /\ SpanOf(p, n).page = p /\ SpanOf(p, n).npage = n /\ SpanOf(p, n).free = {}
        /\ ~SpanOf(p, n).used
<1>1. SpanOf(p, n) \in Span
  BY DEF SpanOf, Span
<1>2. SpanOf(p, n) # None
  BY <1>1, NoneAssumption
<1> QED BY <1>1, <1>2 DEF SpanOf

\* A span with another place.  (CutSpan, Merged)
LEMMA SpanMoved ==
  ASSUME NEW l \in Span, NEW p \in Nat, NEW n \in Nat
  PROVE /\ [l EXCEPT !.page = p, !.npage = n] =
             [page |-> p, npage |-> n, free |-> l.free, count |-> l.count,
              class |-> l.class, used |-> l.used]
        /\ [l EXCEPT !.page = p, !.npage = n] \in Span
<1> DEFINE m == [l EXCEPT !.page = p]
           r == [page |-> p, npage |-> n, free |-> l.free, count |-> l.count,
                 class |-> l.class, used |-> l.used]
<1>1. m = [page |-> p, npage |-> l.npage, free |-> l.free, count |-> l.count,
           class |-> l.class, used |-> l.used]
  BY DEF Span
<1>2. m \in Span
  BY <1>1 DEF Span
<1>3. [m EXCEPT !.npage = n] = [page |-> m.page, npage |-> n, free |-> m.free,
         count |-> m.count, class |-> m.class, used |-> m.used]
  <2> HIDE DEF m
  <2> QED BY <1>2 DEF Span
<1>4. m.page = p /\ m.free = l.free /\ m.count = l.count /\ m.class = l.class /\ m.used = l.used
  <2> HIDE DEF m
  <2> QED BY <1>1
<1>5. [m EXCEPT !.npage = n] = r
  <2> HIDE DEF m
  <2> QED BY <1>3, <1>4
<1>6. r \in Span
  BY DEF Span
<1>7. [l EXCEPT !.page = p, !.npage = n] = [m EXCEPT !.npage = n]
  OBVIOUS
<1> QED BY <1>5, <1>6, <1>7

\* What CutSpan changes.
LEMMA CutIs ==
  ASSUME NEW h \in PageCache, NEW n \in Alive(h), NEW k \in Nat, k < h.span[n].npage,
         NewObject(h) \in Spans, NewObject(h) \notin Alive(h)
  PROVE /\ CutSpan(h, n, k)[2] = NewObject(h)
        /\ CutInto(h, CutSpan(h, n, k)[1], n, NewObject(h), k)
<1> DEFINE s == NewObject(h)
           g == [h EXCEPT !.span[s] = SpanOf(h.span[n].page, k),
                          !.span[n].page = @ + k, !.span[n].npage = @ - k]
           e == MapEnds(g, n)
           r == MapAll(e, s)
           K == SpanOf(h.span[n].page, k)
           l == h.span[n]
           M == [page |-> l.page + k, npage |-> l.npage - k, free |-> l.free,
                 count |-> l.count, class |-> l.class, used |-> l.used]
           sp == [[h.span EXCEPT ![s] = K] EXCEPT ![n] = M]
<1>1. CutSpan(h, n, k) = <<r, s>>
  BY DEF CutSpan
<1>2. /\ n \in Spans /\ s \in Spans /\ l \in Span /\ s # n /\ l.page \in Nat /\ l.npage \in Nat
  BY SpanType
<1>a. l.npage - k \in Nat /\ l.page + k \in Nat
  BY <1>2
<1>3. M \in Span /\ M # None
  <2>2. M \in Span
    <3> HIDE DEF l
    <3> QED BY <1>2, <1>a DEF Span
  <2> HIDE DEF M
  <2> QED BY <2>2, NoneAssumption
<1>4. K \in Span /\ K # None
  BY <1>2, SpanOfType
<1>5. sp \in [Spans -> Span \cup {None}]
  <2> HIDE DEF K, M
  <2> QED BY <1>2, <1>3, <1>4, PageCacheType
<1>6. sp[s] = K /\ sp[n] = M /\ \A m \in Spans \ {n, s} : sp[m] = h.span[m]
  <2> HIDE DEF K, M, s
  <2> QED BY <1>2, PageCacheType
<1>7. g = [span |-> sp, listed |-> h.listed, map |-> h.map,
           mem |-> h.mem, brk |-> h.brk, wild |-> h.wild]
  <2>1. l = [page |-> l.page, npage |-> l.npage, free |-> l.free,
                 count |-> l.count, class |-> l.class, used |-> l.used]
    <3> HIDE DEF l
    <3> QED BY <1>2 DEF Span
  <2>2. M = [l EXCEPT !.page = @ + k, !.npage = @ - k]
    <3> HIDE DEF l
    <3> QED BY <1>2, <1>a, SpanMoved, Zenon DEF M
  <2>3. g = [[[h EXCEPT !.span[s] = K] EXCEPT !.span[n].page = @ + k] EXCEPT !.span[n].npage = @ - k]
    BY ZenonT(60)
  <2> DEFINE h1 == [h EXCEPT !.span[s] = K]
             sp1 == [h.span EXCEPT ![s] = K]
             h2 == [h1 EXCEPT !.span[n].page = @ + k]
             M1 == [l EXCEPT !.page = @ + k]
             sp2 == [sp1 EXCEPT ![n] = M1]
  <2>4. h1 = [span |-> sp1, listed |-> h.listed, map |-> h.map,
              mem |-> h.mem, brk |-> h.brk, wild |-> h.wild]
    <3> HIDE DEF K, s
    <3> QED BY PageCacheType DEF PageCache
  <2>5. sp1[n] = l /\ sp1 \in [Spans -> Span \cup {None}]
    <3> HIDE DEF K, s
    <3> QED BY <1>2, <1>4, PageCacheType
  <2>6. h2 = [span |-> sp2, listed |-> h.listed, map |-> h.map,
              mem |-> h.mem, brk |-> h.brk, wild |-> h.wild]
    <3> HIDE DEF h1, sp1, l
    <3> QED BY <1>2, <2>4, <2>5
  <2>7. sp2[n] = M1 /\ DOMAIN sp2 = Spans
    <3> HIDE DEF sp1, M1
    <3> QED BY <1>2, <2>5
  <2>8. g = [h2 EXCEPT !.span[n].npage = @ - k]
    BY <2>3
  <2>9. g = [span |-> [sp2 EXCEPT ![n] = [M1 EXCEPT !.npage = @ - k]], listed |-> h.listed,
             map |-> h.map, mem |-> h.mem, brk |-> h.brk, wild |-> h.wild]
    <3> HIDE DEF h2, sp2, M1, g
    <3> QED BY <1>2, <2>6, <2>7, <2>8
  <2>10. [M1 EXCEPT !.npage = @ - k] = M
    BY <2>2
  <2>11. [sp2 EXCEPT ![n] = M] = sp
    <3>1. sp2 = [sp1 EXCEPT ![n] = M1] /\ sp = [sp1 EXCEPT ![n] = M]
      OBVIOUS
    <3> HIDE DEF sp1, sp2, sp, M1, M
    <3> QED BY <1>2, <2>5, <3>1
  <2> HIDE DEF g, sp, sp2, M, M1
  <2> QED BY <2>9, <2>10, <2>11
<1>8. g \in PageCache
  <2> HIDE DEF g, sp
  <2> QED BY <1>5, <1>7, PageCacheType DEF PageCache
<1>9. /\ g.span = sp /\ g.listed = h.listed /\ g.map = h.map /\ g.mem = h.mem
      /\ g.brk = h.brk /\ g.wild = h.wild
  <2> HIDE DEF g, sp
  <2> QED BY <1>7
<1>10. /\ e \in PageCache /\ e.span = g.span /\ e.listed = g.listed
       /\ e.mem = g.mem /\ e.brk = g.brk /\ e.wild = g.wild
       /\ \A p \in Pages : e.map[p] = IF p \in Ends(g.span[n]) THEN n ELSE g.map[p]
  <2>1. e = SetMap(g, Ends(g.span[n]), n)
    BY DEF MapEnds, Ends
  <2>2. n \in Spans \cup {None}
    BY <1>2
  <2> DEFINE E == Ends(g.span[n])
  <2> HIDE DEF g, e
  <2>3. /\ SetMap(g, E, n) \in PageCache
        /\ SetMap(g, E, n).span = g.span /\ SetMap(g, E, n).listed = g.listed
        /\ SetMap(g, E, n).mem = g.mem /\ SetMap(g, E, n).brk = g.brk
        /\ SetMap(g, E, n).wild = g.wild
        /\ \A p \in Pages : SetMap(g, E, n).map[p] = IF p \in E THEN n ELSE g.map[p]
    <3> HIDE DEF E
    <3> QED BY <1>8, <2>2, SetMapIs
  <2> QED BY <2>1, <2>3
<1>11. /\ r \in PageCache /\ r.span = e.span /\ r.listed = e.listed
       /\ r.mem = e.mem /\ r.brk = e.brk /\ r.wild = e.wild
       /\ \A p \in Pages : r.map[p] = IF p \in PagesOf(e.span[s]) THEN s ELSE e.map[p]
  <2>1. r = SetMap(e, PagesOf(e.span[s]), s)
    BY DEF MapAll
  <2>2. s \in Spans \cup {None}
    BY <1>2
  <2> DEFINE E == PagesOf(e.span[s])
  <2> HIDE DEF e, s
  <2>3. /\ SetMap(e, E, s) \in PageCache
        /\ SetMap(e, E, s).span = e.span /\ SetMap(e, E, s).listed = e.listed
        /\ SetMap(e, E, s).mem = e.mem /\ SetMap(e, E, s).brk = e.brk
        /\ SetMap(e, E, s).wild = e.wild
        /\ \A p \in Pages : SetMap(e, E, s).map[p] = IF p \in E THEN s ELSE e.map[p]
    <3> HIDE DEF E
    <3> QED BY <1>10, <2>2, SetMapIs
  <2> QED BY <2>1, <2>3
<1>12. CutInto(h, r, n, s, k)
  <2>1. /\ M.page = l.page + k /\ M.npage = l.npage - k /\ M.used = l.used /\ M.free = l.free
    OBVIOUS
  <2> HIDE DEF r, e, g, sp, K, M, s
  <2>2. r.span = sp /\ r.listed = h.listed /\ r.mem = h.mem /\ r.brk = h.brk /\ r.wild = h.wild
    BY <1>9, <1>10, <1>11
  <2>3. \A p \in Pages : r.map[p] = IF p \in PagesOf(r.span[s]) THEN s
                                 ELSE IF p \in Ends(r.span[n]) THEN n ELSE h.map[p]
    BY <1>9, <1>10, <1>11
  <2>4. r.span[s] = K /\ r.span[n] = M /\ \A m \in Spans \ {n, s} : r.span[m] = h.span[m]
    BY <1>6, <2>2
  <2> QED BY <1>3, <1>11, <2>1, <2>2, <2>3, <2>4 DEF CutInto, K
<1>13. CutSpan(h, n, k)[1] = r /\ CutSpan(h, n, k)[2] = s
  <2> HIDE DEF r, s
  <2> QED BY <1>1
<1> QED BY <1>12, <1>13

\* The spans after a cut share the pages out as before, and the map names both parts.
LEMMA CutKept ==
  ASSUME NEW h \in PageCache, NEW g, NEW n \in h.listed, NEW s \in Spans, s \notin Alive(h),
         NEW k \in Nat, 1 <= k, k < h.span[n].npage,
         PagesKept(h, {n}), CutInto(h, g, n, s, k)
  PROVE PagesKept(g, {}) /\ \A m \in Spans : m \in Alive(g) <=> m \in Alive(h) \/ m = s
<1>1. n \in Spans /\ n \in Alive(h) /\ n # s /\ h.listed \subseteq Spans
  BY PageCacheType DEF PagesKept, ListsKept
<1>2. g \in PageCache /\ g.listed = h.listed /\ g.mem = h.mem /\ g.brk = h.brk
  BY DEF CutInto
<1> DEFINE P == h.span[n].page
           L == h.span[n].npage
<1>3. P \in Nat /\ L \in Nat /\ k < L
  BY <1>1, SpanType
<1>4. /\ g.span[s] # None /\ g.span[s].page = P /\ g.span[s].npage = k
      /\ ~g.span[s].used /\ g.span[s].free = {}
  <2>1. g.span[s] = SpanOf(P, k)
    BY DEF CutInto
  <2>2. /\ SpanOf(P, k) # None /\ SpanOf(P, k).page = P /\ SpanOf(P, k).npage = k
        /\ ~SpanOf(P, k).used /\ SpanOf(P, k).free = {}
    <3> HIDE DEF P, L
    <3> QED BY <1>3, SpanOfType
  <2> HIDE DEF P, L
  <2> QED BY <2>1, <2>2
<1>5. /\ g.span[n] # None /\ g.span[n].page = P + k /\ g.span[n].npage = L - k
      /\ g.span[n].used = h.span[n].used /\ g.span[n].free = h.span[n].free
  BY DEF CutInto
<1>6. \A m \in Spans : m # n /\ m # s => g.span[m] = h.span[m]
  BY DEF CutInto
<1>7. \A m \in Spans : m \in Alive(g) <=> m \in Alive(h) \/ m = s
  BY <1>1, <1>4, <1>5, <1>6 DEF Alive
<1>8. \A m \in Alive(h) : /\ m \in Spans /\ h.span[m].page \in Nat /\ h.span[m].npage \in Nat
                          /\ h.span[m].npage >= 1
                          /\ PagesOf(h.span[m]) \subseteq h.mem
  BY SpanType DEF PagesKept, Tiled
<1>9. \A r, m \in Alive(h) : r # m => Apart(h.span[r], h.span[m])
  BY DEF PagesKept, Tiled
<1>10. \A p \in h.mem : p \in Nat /\ \E m \in Alive(h) : p \in PagesOf(h.span[m])
  BY PageCacheType DEF PagesKept, Tiled, Pages
<1> HIDE DEF P, L
<1>a. h.span[n].page = P /\ h.span[n].npage = L
  BY DEF P, L
<1>11. Tiled(g)
  <2>1. \A m \in Alive(g) : g.span[m].npage >= 1
    <3>1. SUFFICES ASSUME NEW m \in Alive(g) PROVE g.span[m].npage >= 1
      OBVIOUS
    <3>2. m \in Spans
      BY DEF Alive
    <3>3. CASE m = n
      BY <1>3, <1>5, <3>3
    <3>4. CASE m = s
      BY <1>4, <3>4
    <3>5. CASE m # n /\ m # s
      BY <1>6, <1>7, <1>8, <3>2, <3>5
    <3> QED BY <3>3, <3>4, <3>5
  <2>2. \A r, m \in Alive(g) : r # m => Apart(g.span[r], g.span[m])
    <3>1. SUFFICES ASSUME NEW r \in Alive(g), NEW m \in Alive(g), r # m
                   PROVE Apart(g.span[r], g.span[m])
      OBVIOUS
    <3>2. r \in Spans /\ m \in Spans
      BY DEF Alive
    <3>3. ASSUME NEW x \in Alive(g), x # n, x # s
          PROVE /\ g.span[x] = h.span[x] /\ g.span[x].page \in Nat /\ g.span[x].npage \in Nat
                /\ g.span[x].page + g.span[x].npage <= P \/ P + L <= g.span[x].page
      <4>1. x \in Spans /\ x \in Alive(h) /\ g.span[x] = h.span[x]
        BY <1>6, <1>7, <3>3 DEF Alive
      <4>2. Apart(h.span[x], h.span[n])
        BY <1>1, <1>9, <3>3, <4>1
      <4> QED BY <1>8, <1>a, <4>1, <4>2 DEF Apart
    <3>4. CASE r = n /\ m = s
      BY <1>3, <1>4, <1>5, <3>4 DEF Apart
    <3>5. CASE r = s /\ m = n
      BY <1>3, <1>4, <1>5, <3>5 DEF Apart
    <3>6. CASE r \in {n, s} /\ m # n /\ m # s
      BY <1>3, <1>4, <1>5, <3>3, <3>6 DEF Apart
    <3>7. CASE m \in {n, s} /\ r # n /\ r # s
      BY <1>3, <1>4, <1>5, <3>3, <3>7 DEF Apart
    <3>8. CASE m # n /\ m # s /\ r # n /\ r # s
      BY <1>6, <1>7, <1>9, <3>1, <3>2, <3>8
    <3> QED BY <3>1, <3>4, <3>5, <3>6, <3>7, <3>8
  <2>3. \A m \in Alive(g) : PagesOf(g.span[m]) \subseteq g.mem
    <3>1. SUFFICES ASSUME NEW m \in Alive(g) PROVE PagesOf(g.span[m]) \subseteq h.mem
      BY <1>2
    <3>2. m \in Spans
      BY DEF Alive
    <3>3. CASE m = n
      BY <1>1, <1>3, <1>5, <1>8, <1>a, <3>3 DEF PagesOf
    <3>4. CASE m = s
      BY <1>1, <1>3, <1>4, <1>8, <1>a, <3>4 DEF PagesOf
    <3>5. CASE m # n /\ m # s
      BY <1>6, <1>7, <1>8, <3>2, <3>5
    <3> QED BY <3>3, <3>4, <3>5
  <2>4. \A p \in g.mem : \E m \in Alive(g) : p \in PagesOf(g.span[m])
    <3>1. SUFFICES ASSUME NEW p \in h.mem PROVE \E m \in Alive(g) : p \in PagesOf(g.span[m])
      BY <1>2
    <3>2. PICK m \in Alive(h) : p \in PagesOf(h.span[m])
      BY <1>10
    <3>3. CASE m = n
      <4>1. p \in PagesOf(g.span[s]) \/ p \in PagesOf(g.span[n])
        BY <1>3, <1>4, <1>5, <1>10, <1>a, <3>2, <3>3 DEF PagesOf
      <4> QED BY <1>1, <1>7, <4>1
    <3>4. CASE m # n
      <4>1. m # s /\ m \in Spans /\ m \in Alive(g)
        BY <1>7, <1>8
      <4> QED BY <1>6, <3>2, <3>4, <4>1
    <3> QED BY <3>3, <3>4
  <2>5. g.brk >= 1 /\ \A p \in g.mem : p < g.brk
    BY <1>2 DEF PagesKept, Tiled
  <2> QED BY <2>1, <2>2, <2>3, <2>4, <2>5 DEF Tiled
<1>12. ListsKept(g)
  <2>1. SUFFICES ASSUME NEW m \in h.listed
                 PROVE /\ m \in Alive(g) /\ g.span[m].npage <= MaxSpan
                       /\ ~g.span[m].used /\ g.span[m].free = {}
    BY <1>2 DEF ListsKept
  <2>2. /\ m \in Spans /\ m \in Alive(h) /\ h.span[m].npage <= MaxSpan
        /\ ~h.span[m].used /\ h.span[m].free = {}
    BY <1>1 DEF PagesKept, ListsKept
  <2>3. m # s /\ m \in Alive(g)
    BY <1>7, <2>2
  <2>4. CASE m = n
    <3>1. L - k <= MaxSpan
      BY <1>3, <1>a, <2>2, <2>4, SizesAssumption
    <3> QED BY <1>5, <2>2, <2>3, <2>4, <3>1
  <2>5. CASE m # n
    BY <1>6, <2>2, <2>3, <2>5
  <2> QED BY <2>4, <2>5
<1>13. MapTrue(g, {})
  <2>1. SUFFICES ASSUME NEW p \in Pages, NEW m \in Spans
                 PROVE /\ g.map[p] = m => m \in Alive(g) /\ p \in Named(g, m)
                       /\ m \in Alive(g) /\ p \in Named(g, m) => g.map[p] = m
    BY DEF MapTrue
  <2>2. g.map[p] = IF p \in PagesOf(g.span[s]) THEN s
                   ELSE IF p \in Ends(g.span[n]) THEN n ELSE h.map[p]
    BY DEF CutInto
  <2>3. /\ h.map[p] = m => m \in Alive(h) /\ p \in Named(h, m)
        /\ m \in Alive(h) \ {n} /\ p \in Named(h, m) => h.map[p] = m
    BY DEF MapTrue, PagesKept
  <2>4. Named(g, s) = PagesOf(g.span[s]) /\ Named(g, n) = Ends(g.span[n])
    <3>1. s \notin h.listed
      BY DEF PagesKept, ListsKept
    <3> QED BY <1>2, <3>1 DEF Named
  <2>5. p \in PagesOf(g.span[s]) => p \notin Ends(g.span[n])
    BY <1>3, <1>4, <1>5 DEF PagesOf, Ends
  <2>6. CASE m = s
    <3>1. h.map[p] # s
      BY <2>3, <2>6
    <3> QED BY <1>1, <1>7, <2>2, <2>4, <2>6, <3>1
  <2>7. CASE m = n
    <3>1. ASSUME h.map[p] = n, p \notin PagesOf(g.span[s]) PROVE p \in Ends(g.span[n])
      <4>1. p \in Ends(h.span[n])
        BY <2>3, <2>7, <3>1 DEF Named
      <4> QED BY <1>3, <1>4, <1>5, <1>a, <3>1, <4>1 DEF Ends, PagesOf
    <3> QED BY <1>1, <1>7, <2>2, <2>4, <2>5, <2>7, <3>1
  <2>8. CASE m # s /\ m # n
    <3>1. Named(g, m) = Named(h, m)
      BY <1>2, <1>6, <2>8 DEF Named
    <3>2. ASSUME m \in Alive(h), p \in Named(h, m)
          PROVE p \notin PagesOf(g.span[s]) /\ p \notin Ends(g.span[n])
      <4>1. p \in PagesOf(h.span[m])
        BY <1>8, <3>2 DEF Named, Ends, PagesOf
      <4>2. Apart(h.span[m], h.span[n])
        BY <1>1, <1>9, <2>8, <3>2
      <4> QED BY <1>3, <1>4, <1>5, <1>8, <1>a, <3>2, <4>1, <4>2 DEF Apart, PagesOf, Ends
    <3> QED BY <1>7, <2>2, <2>3, <2>8, <3>1, <3>2
  <2> QED BY <2>6, <2>7, <2>8
<1> QED BY <1>7, <1>11, <1>12, <1>13 DEF PagesKept

\* Page cache g is h with `pages` pages from the system, of which `length` are span s.
TakenInto(h, g, s, length, pages, listed, mapped) ==
  /\ g \in PageCache /\ g.wild = h.wild
  /\ g.mem = h.mem \cup (h.brk .. h.brk + length - 1) /\ g.brk = h.brk + pages
  /\ g.span[s] = SpanOf(h.brk, length)
  /\ \A m \in Spans \ {s} : g.span[m] = h.span[m]
  /\ g.listed = h.listed \cup listed
  /\ \A p \in Pages : g.map[p] = IF p \in mapped THEN s ELSE h.map[p]

\* The pages of the system are beyond those it has given.  (SystemAlloc)
LEMMA FromSystemIs ==
  ASSUME config \in Scenarios, NEW h \in PageCache, Tiled(h), NEW s \in Spans,
         NEW length \in Nat \ {0}, NEW pages \in Nat, length <= pages,
         h.brk + pages - 1 <= config.pages
  PROVE LET g == [FromSystem(h, length, pages) EXCEPT !.span[s] = SpanOf(h.brk, length)]
        IN  TakenInto(h, g, s, length, pages, {}, {}) /\ h.brk \in Pages
<1> DEFINE f == FromSystem(h, length, pages)
           K == SpanOf(h.brk, length)
           g == [f EXCEPT !.span[s] = K]
           sp == [h.span EXCEPT ![s] = K]
           new == h.brk .. h.brk + length - 1
           mem == h.mem \cup new
<1>1. /\ config.pages \in Nat /\ h.brk \in Nat /\ h.brk >= 1 /\ Pages = 1 .. config.pages
      /\ h.mem \subseteq Pages
  BY ConfigType, PageCacheType DEF Tiled, Pages
<1>2. new \subseteq Pages /\ h.brk \in Pages
  BY <1>1
<1>3. f = [span |-> h.span, listed |-> h.listed, map |-> h.map,
           mem |-> mem, brk |-> h.brk + pages, wild |-> h.wild]
  <2> DEFINE f1 == [h EXCEPT !.mem = mem]
  <2>1. f1 = [span |-> h.span, listed |-> h.listed, map |-> h.map,
              mem |-> mem, brk |-> h.brk, wild |-> h.wild]
    <3> HIDE DEF mem
    <3> QED BY PageCacheType DEF PageCache
  <2>2. f = [f1 EXCEPT !.brk = @ + pages]
    BY DEF FromSystem
  <2>3. f1.brk = h.brk
    <3> HIDE DEF f1
    <3> QED BY <2>1
  <2> HIDE DEF f1, f, mem
  <2> QED BY <2>1, <2>2, <2>3
<1>4. K \in Span /\ K # None
  BY <1>1, SpanOfType
<1>5. sp \in [Spans -> Span \cup {None}] /\ sp[s] = K /\ \A m \in Spans \ {s} : sp[m] = h.span[m]
  <2> HIDE DEF K
  <2> QED BY <1>4, PageCacheType
<1>6. g = [span |-> sp, listed |-> h.listed, map |-> h.map,
           mem |-> mem, brk |-> h.brk + pages, wild |-> h.wild]
  <2> HIDE DEF K, f, mem
  <2> QED BY <1>3, PageCacheType
<1>7. g \in PageCache
  <2>1. mem \in SUBSET Pages /\ h.brk + pages \in Nat
    BY <1>1, <1>2
  <2>2. h.listed \in SUBSET Spans /\ h.map \in [Pages -> Spans \cup {None}] /\ h.wild \in BOOLEAN
    BY PageCacheType
  <2> HIDE DEF g, sp, mem
  <2> QED BY <1>5, <1>6, <2>1, <2>2 DEF PageCache
<1>8. /\ g.span = sp /\ g.listed = h.listed /\ g.map = h.map /\ g.wild = h.wild
      /\ g.mem = mem /\ g.brk = h.brk + pages
  <2> HIDE DEF g, sp, mem
  <2> QED BY <1>6
<1>9. TakenInto(h, g, s, length, pages, {}, {})
  <2> HIDE DEF g, sp
  <2> QED BY <1>5, <1>7, <1>8 DEF TakenInto
<1> QED BY <1>2, <1>9

\* The new span has the new pages and no other.  (NewSpan)
LEMMA TakenKept ==
  ASSUME config \in Scenarios, NEW h \in PageCache, PagesKept(h, {}), NEW g, NEW s \in Spans,
         s \notin Alive(h), NEW length \in Nat \ {0}, NEW pages \in Nat, length <= pages,
         NEW listed, NEW mapped, NEW X,
         listed \in {{}, {s}}, listed = {s} => length <= MaxSpan,
         listed = {} => mapped = PagesOf(SpanOf(h.brk, length)) /\ X = {},
         listed = {s} => mapped = {} /\ X = {s},
         TakenInto(h, g, s, length, pages, listed, mapped)
  PROVE PagesKept(g, X) /\ \A m \in Spans : m \in Alive(g) <=> m \in Alive(h) \/ m = s
<1> DEFINE B == h.brk
<1>1. B \in Nat /\ B >= 1 /\ (\A p \in h.mem : p < B /\ p \in Nat) /\ h.listed \subseteq Spans
  BY PageCacheType DEF PagesKept, Tiled, Pages
<1>2. /\ g.span[s] # None /\ g.span[s].page = B /\ g.span[s].npage = length
      /\ ~g.span[s].used /\ g.span[s].free = {}
  <2>1. g.span[s] = SpanOf(B, length)
    BY DEF TakenInto
  <2>2. /\ SpanOf(B, length) # None /\ SpanOf(B, length).page = B
        /\ SpanOf(B, length).npage = length
        /\ ~SpanOf(B, length).used /\ SpanOf(B, length).free = {}
    <3>1. length \in Nat
      OBVIOUS
    <3> HIDE DEF B
    <3> QED BY <1>1, <3>1, SpanOfType
  <2> HIDE DEF B
  <2> QED BY <2>1, <2>2
<1>3. /\ g \in PageCache /\ g.mem = h.mem \cup (B .. B + length - 1) /\ g.brk = B + pages
      /\ g.listed = h.listed \cup listed
      /\ \A m \in Spans : m # s => g.span[m] = h.span[m]
  BY DEF TakenInto
<1>4. \A m \in Spans : m \in Alive(g) <=> m \in Alive(h) \/ m = s
  BY <1>2, <1>3 DEF Alive
<1>5. \A m \in Alive(h) : /\ m \in Spans /\ m # s /\ m \in Alive(g) /\ g.span[m] = h.span[m]
                          /\ h.span[m].page \in Nat /\ h.span[m].npage \in Nat
                          /\ h.span[m].npage >= 1
                          /\ PagesOf(h.span[m]) \subseteq h.mem
                          /\ h.span[m].page + h.span[m].npage <= B
  <2>1. SUFFICES ASSUME NEW m \in Alive(h)
                 PROVE /\ m \in Spans /\ m # s /\ m \in Alive(g) /\ g.span[m] = h.span[m]
                       /\ h.span[m].page \in Nat /\ h.span[m].npage \in Nat
                       /\ h.span[m].npage >= 1
                       /\ PagesOf(h.span[m]) \subseteq h.mem
                       /\ h.span[m].page + h.span[m].npage <= B
    OBVIOUS
  <2>2. /\ m \in Spans /\ m # s /\ h.span[m].page \in Nat /\ h.span[m].npage \in Nat
        /\ h.span[m].npage >= 1 /\ PagesOf(h.span[m]) \subseteq h.mem
    BY SpanType DEF PagesKept, Tiled
  <2>3. h.span[m].page + h.span[m].npage - 1 \in h.mem
    BY <2>2, SMTT(60) DEF PagesOf
  <2>4. h.span[m].page + h.span[m].npage <= B
    BY <1>1, <2>2, <2>3
  <2> QED BY <1>3, <1>4, <2>2, <2>4
<1> HIDE DEF B
<1>6. \A m \in Alive(g) : m = s \/ m \in Alive(h)
  BY <1>4 DEF Alive
<1>7. Tiled(g)
  <2>1. \A m \in Alive(g) : g.span[m].npage >= 1
    BY <1>2, <1>5, <1>6
  <2>2. \A r, m \in Alive(g) : r # m => Apart(g.span[r], g.span[m])
    <3>1. SUFFICES ASSUME NEW r \in Alive(g), NEW m \in Alive(g), r # m
                   PROVE Apart(g.span[r], g.span[m])
      OBVIOUS
    <3>2. CASE r = s
      BY <1>1, <1>2, <1>5, <1>6, <3>1, <3>2 DEF Apart
    <3>3. CASE m = s
      BY <1>1, <1>2, <1>5, <1>6, <3>1, <3>3 DEF Apart
    <3>4. CASE r # s /\ m # s
      BY <1>5, <1>6, <3>1, <3>4 DEF PagesKept, Tiled
    <3> QED BY <3>2, <3>3, <3>4
  <2>3. \A m \in Alive(g) : PagesOf(g.span[m]) \subseteq g.mem
    <3>1. SUFFICES ASSUME NEW m \in Alive(g) PROVE PagesOf(g.span[m]) \subseteq g.mem
      OBVIOUS
    <3>2. CASE m = s
      BY <1>2, <1>3, <3>2 DEF PagesOf
    <3>3. CASE m # s
      BY <1>3, <1>5, <1>6, <3>3
    <3> QED BY <3>2, <3>3
  <2>4. \A p \in g.mem : \E m \in Alive(g) : p \in PagesOf(g.span[m])
    <3>1. SUFFICES ASSUME NEW p \in g.mem PROVE \E m \in Alive(g) : p \in PagesOf(g.span[m])
      OBVIOUS
    <3>2. CASE p \in h.mem
      <4>1. PICK m \in Alive(h) : p \in PagesOf(h.span[m])
        BY <3>2 DEF PagesKept, Tiled
      <4> QED BY <1>5, <4>1
    <3>3. CASE p \in B .. B + length - 1
      <4>1. s \in Alive(g) /\ p \in PagesOf(g.span[s])
        BY <1>2, <1>4, <3>3 DEF PagesOf
      <4> QED BY <4>1
    <3> QED BY <1>3, <3>2, <3>3
  <2>5. g.brk >= 1 /\ \A p \in g.mem : p < g.brk
    BY <1>1, <1>3
  <2> QED BY <2>1, <2>2, <2>3, <2>4, <2>5 DEF Tiled
<1>8. ListsKept(g)
  <2>1. SUFFICES ASSUME NEW m \in g.listed
                 PROVE /\ m \in Alive(g) /\ g.span[m].npage <= MaxSpan
                       /\ ~g.span[m].used /\ g.span[m].free = {}
    BY DEF ListsKept
  <2>2. CASE m \in h.listed
    BY <1>5, <2>2 DEF PagesKept, ListsKept
  <2>3. CASE m = s /\ listed = {s}
    BY <1>2, <1>4, <2>3
  <2> QED BY <1>3, <2>2, <2>3
<1>9. MapTrue(g, X)
  <2>1. SUFFICES ASSUME NEW p \in Pages, NEW m \in Spans
                 PROVE /\ g.map[p] = m => m \in Alive(g) /\ p \in Named(g, m)
                       /\ m \in Alive(g) \ X /\ p \in Named(g, m) => g.map[p] = m
    BY DEF MapTrue
  <2>2. g.map[p] = IF p \in mapped THEN s ELSE h.map[p]
    BY DEF TakenInto
  <2>3. /\ h.map[p] = m => m \in Alive(h) /\ p \in Named(h, m)
        /\ m \in Alive(h) /\ p \in Named(h, m) => h.map[p] = m
    BY DEF MapTrue, PagesKept
  <2>4. s \notin h.listed
    BY DEF PagesKept, ListsKept
  <2>5. p \in mapped => p \in PagesOf(g.span[s]) /\ listed = {}
    <3>1. g.span[s] = SpanOf(h.brk, length)
      BY DEF TakenInto
    <3> QED BY <3>1
  <2>6. CASE m = s
    <3>1. h.map[p] # s
      BY <2>3, <2>6
    <3>2. listed = {} => Named(g, s) = PagesOf(g.span[s]) /\ mapped = PagesOf(g.span[s])
      <4>1. g.span[s] = SpanOf(h.brk, length)
        BY DEF TakenInto
      <4> QED BY <1>3, <2>4, <4>1 DEF Named
    <3>3. listed = {s} => X = {s}
      OBVIOUS
    <3> QED BY <1>4, <2>2, <2>5, <2>6, <3>1, <3>2, <3>3
  <2>7. CASE m # s
    <3>1. ASSUME m \in Alive(h) PROVE Named(g, m) = Named(h, m)
      BY <1>3, <1>5, <2>7, <3>1 DEF Named
    <3>2. ASSUME m \in Alive(h), p \in Named(h, m) PROVE p \notin mapped
      <4>1. p \in PagesOf(h.span[m])
        BY <1>5, <3>2 DEF Named, Ends, PagesOf
      <4> QED BY <1>1, <1>2, <1>5, <2>5, <3>2, <4>1 DEF PagesOf
    <3> QED BY <1>4, <1>5, <1>6, <2>2, <2>3, <2>7, <3>1, <3>2
  <2> QED BY <2>6, <2>7
<1> QED BY <1>4, <1>7, <1>8, <1>9 DEF PagesKept

\* Page cache g is h with span s of k pages handed out, and the others that are out untouched.
GivesOut(h, g, s, k) ==
  /\ g \in PageCache /\ PagesKept(g, {}) /\ g.wild = h.wild
  /\ s \in Out(g) /\ s \notin Out(h) /\ g.span[s].free = {} /\ g.span[s].npage = k
  /\ \A m \in Spans : m \in Out(g) <=> m \in Out(h) \/ m = s
  /\ \A m \in Out(h) : g.span[m] = h.span[m]

\* A span of a list is handed out, whole or in part.  (NewSpan)
LEMMA SplitGives ==
  ASSUME config \in Scenarios, NEW h \in PageCache, NEW k \in Nat \ {0},
         NEW n \in BestFit(h, k), PagesKept(h, {n})
  PROVE LET r == IF h.span[n].npage = k THEN <<Popped(h, n), n>> ELSE CutSpan(h, n, k)
        IN  GivesOut(h, r[1], r[2], k)
<1> DEFINE r == IF h.span[n].npage = k THEN <<Popped(h, n), n>> ELSE CutSpan(h, n, k)
<1> SUFFICES GivesOut(h, r[1], r[2], k)
  OBVIOUS
<1>1. h.listed \subseteq Alive(h)
  BY DEF PagesKept, ListsKept
<1>2. n \in h.listed /\ h.span[n].npage >= k /\ k \in Nat
  BY <1>1, BestFitIs
<1>3. n \in Alive(h) /\ n \in Spans /\ h.span[n].free = {}
  BY <1>1, <1>2 DEF Alive, PagesKept, ListsKept
<1>4. CASE h.span[n].npage = k
  <2> DEFINE g == Popped(h, n)
  <2>1. g \in PageCache /\ g.span = h.span /\ g.listed = h.listed \ {n} /\ g.wild = h.wild
    BY <1>3, PoppedIs
  <2>2. PagesKept(g, {})
    BY <1>2, PoppedKept
  <2>3. r[1] = g /\ r[2] = n
    BY <1>4
  <2> HIDE DEF g, r
  <2>4. \A m \in Spans : m \in Out(g) <=> m \in Out(h) \/ m = n
    BY <1>3, <2>1 DEF Out, Alive
  <2>5. n \notin Out(h) /\ n \in Out(g)
    BY <1>2, <1>3, <2>4 DEF Out
  <2> QED BY <1>3, <1>4, <2>1, <2>2, <2>3, <2>4, <2>5 DEF GivesOut
<1>5. CASE h.span[n].npage # k
  <2> DEFINE s == NewObject(h)
  <2>1. h.span[n].page \in Nat /\ h.span[n].npage \in Nat /\ k < h.span[n].npage /\ 1 <= k
    BY <1>2, <1>3, <1>5, SpanType
  <2>2. s \in Spans /\ s \notin Alive(h)
    <3> DEFINE q == h.span[n].page + 1
    <3>1. q \in PagesOf(h.span[n])
      BY <2>1 DEF PagesOf
    <3>2. q \in Pages
      BY <1>3, <3>1, PageCacheType DEF PagesKept, Tiled
    <3>3. ASSUME NEW m \in Alive(h) PROVE h.span[m].page # q
      <4>1. /\ h.span[m].page \in Nat /\ h.span[m].npage \in Nat /\ h.span[m].npage >= 1
            /\ m # n => Apart(h.span[m], h.span[n])
        BY <1>3, SpanType DEF PagesKept, Tiled
      <4> QED BY <2>1, <4>1 DEF Apart
    <3>4. Tiled(h)
      BY DEF PagesKept
    <3> HIDE DEF q
    <3> QED BY <3>2, <3>3, <3>4, ObjectLeft
  <2> DEFINE g == CutSpan(h, n, k)[1]
  <2>3. CutSpan(h, n, k)[2] = s /\ CutInto(h, g, n, s, k)
    BY <1>2, <1>3, <2>1, <2>2, CutIs
  <2>4. r[1] = g /\ r[2] = s
    BY <1>5, <2>3
  <2> HIDE DEF g, r, s
  <2>5. PagesKept(g, {}) /\ \A m \in Spans : m \in Alive(g) <=> m \in Alive(h) \/ m = s
    <3>1. n \in h.listed /\ s \in Spans /\ k \in Nat
      BY <1>2, <2>2
    <3>2. s \notin Alive(h) /\ 1 <= k /\ k < h.span[n].npage /\ CutInto(h, g, n, s, k)
      BY <2>1, <2>2, <2>3
    <3> QED BY <3>1, <3>2, CutKept, Zenon
  <2>6. g \in PageCache /\ g.listed = h.listed /\ g.wild = h.wild
    BY <2>3 DEF CutInto
  <2>7. s \notin h.listed
    BY <1>1, <2>2
  <2>8. \A m \in Spans : m \in Out(g) <=> m \in Out(h) \/ m = s
    BY <2>5, <2>6, <2>7 DEF Out
  <2>9. g.span[s].free = {} /\ g.span[s].npage = k
    <3>1. g.span[s] = SpanOf(h.span[n].page, k)
      BY <2>3 DEF CutInto
    <3> QED BY <2>1, <3>1, SpanOfType
  <2>10. \A m \in Out(h) : m \in Spans /\ m # n /\ m # s
    BY <1>2, <2>2 DEF Out, Alive
  <2>11. \A m \in Out(h) : g.span[m] = h.span[m]
    BY <2>3, <2>10 DEF CutInto
  <2>12. s \in Out(g) /\ s \notin Out(h)
    BY <2>2, <2>8 DEF Out
  <2> QED BY <2>4, <2>5, <2>6, <2>8, <2>9, <2>11, <2>12 DEF GivesOut
<1> QED BY <1>4, <1>5

\* Growing adds a span to a list, of new pages.  (NewSpan)
LEMMA GrownIs ==
  ASSUME config \in Scenarios, NEW h \in PageCache, PagesKept(h, {}),
         h.brk + Taken - 1 <= config.pages
  PROVE /\ NewObject(h) \in Spans /\ NewObject(h) \notin Alive(h)
        /\ TakenInto(h, Grown(h), NewObject(h), MaxSpan, Taken, {NewObject(h)}, {})
<1> DEFINE s == NewObject(h)
           f == [FromSystem(h, MaxSpan, Taken) EXCEPT !.span[s] = SpanOf(h.brk, MaxSpan)]
           g == Grown(h)
<1>1. Tiled(h) /\ Taken \in Nat /\ MaxSpan \in Nat \ {0} /\ MaxSpan <= Taken /\ config.pages \in Nat
  BY ConfigType DEF PagesKept
<1>2. h.brk \in Pages /\ \A m \in Alive(h) : h.span[m].page # h.brk
  <2>1. h.brk \in Pages
    BY <1>1, PageCacheType DEF Tiled, Pages
  <2>2. ASSUME NEW m \in Alive(h) PROVE h.span[m].page # h.brk
    <3>1. /\ h.span[m].page \in Nat /\ h.span[m].npage \in Nat /\ h.span[m].npage >= 1
          /\ PagesOf(h.span[m]) \subseteq h.mem
      BY <1>1, SpanType DEF Tiled
    <3>2. h.span[m].page \in h.mem
      BY <3>1 DEF PagesOf
    <3>3. h.span[m].page < h.brk
      BY <1>1, <3>2 DEF Tiled
    <3> QED BY <3>1, <3>3
  <2> QED BY <2>1, <2>2
<1>3. s \in Spans /\ s \notin Alive(h)
  BY <1>1, <1>2, ObjectLeft
<1>4. TakenInto(h, f, s, MaxSpan, Taken, {}, {})
  <2> HIDE DEF s
  <2> QED BY <1>1, <1>3, FromSystemIs
<1>5. g = [f EXCEPT !.listed = @ \cup {s}]
  BY DEF Grown
<1> HIDE DEF f, g
<1>6. f \in PageCache /\ f.listed = h.listed
  BY <1>4 DEF TakenInto
<1> DEFINE L == f.listed \cup {s}
<1>7. L \in SUBSET Spans
  BY <1>3, <1>6, PageCacheType
<1>8. g = [span |-> f.span, listed |-> L, map |-> f.map,
           mem |-> f.mem, brk |-> f.brk, wild |-> f.wild]
  <2> HIDE DEF L
  <2> QED BY <1>5, <1>6 DEF PageCache, L
<1>9. /\ g \in PageCache /\ g.span = f.span /\ g.listed = L /\ g.map = f.map
      /\ g.mem = f.mem /\ g.brk = f.brk /\ g.wild = f.wild
  <2>1. /\ f.span \in [Spans -> Span \cup {None}] /\ f.map \in [Pages -> Spans \cup {None}]
        /\ f.mem \in SUBSET Pages /\ f.brk \in Nat /\ f.wild \in BOOLEAN
    BY <1>6, PageCacheType
  <2> HIDE DEF L
  <2> QED BY <1>7, <1>8, <2>1 DEF PageCache
<1>10. TakenInto(h, g, s, MaxSpan, Taken, {s}, {})
  <2>1. L = h.listed \cup {s}
    BY <1>6
  <2> HIDE DEF L, s
  <2> QED BY <1>4, <1>9, <2>1 DEF TakenInto
<1> QED BY <1>3, <1>10 DEF g

\* NewSpan hands out a span that was not out, and leaves the others as they are.
LEMMA NewSpanGives ==
  ASSUME config \in Scenarios, NEW h \in PageCache, PagesKept(h, {}), NEW k \in Nat \ {0},
         NEW r \in NewSpan(h, k)
  PROVE GivesOut(h, r[1], r[2], k)
<1>1. Tiled(h) /\ h.listed \subseteq Alive(h) /\ MaxSpan \in Nat \ {0} /\ config.pages \in Nat
  BY ConfigType DEF PagesKept, ListsKept
<1>2. CASE k > MaxSpan
  <2> DEFINE s == NewObject(h)
             g == [FromSystem(h, k, k) EXCEPT !.span[s] = SpanOf(h.brk, k)]
             e == MapAll(g, s)
  <2>1. h.brk + k - 1 <= config.pages /\ r = <<e, s>>
    BY <1>2 DEF NewSpan
  <2>2. h.brk \in Pages /\ \A m \in Alive(h) : h.span[m].page # h.brk
    <3>1. h.brk \in Pages
      BY <1>1, <2>1, PageCacheType DEF Tiled, Pages
    <3>2. ASSUME NEW m \in Alive(h) PROVE h.span[m].page # h.brk
      <4>1. /\ h.span[m].page \in Nat /\ h.span[m].npage \in Nat /\ h.span[m].npage >= 1
            /\ PagesOf(h.span[m]) \subseteq h.mem
        BY <1>1, SpanType DEF Tiled
      <4>2. h.span[m].page \in h.mem
        BY <4>1 DEF PagesOf
      <4>3. h.span[m].page < h.brk
        BY <1>1, <4>2 DEF Tiled
      <4> QED BY <4>1, <4>3
    <3> QED BY <3>1, <3>2
  <2>3. s \in Spans /\ s \notin Alive(h)
    BY <1>1, <2>2, ObjectLeft
  <2>4. TakenInto(h, g, s, k, k, {}, {})
    <3>1. k \in Nat /\ k <= k
      OBVIOUS
    <3> HIDE DEF s
    <3> QED BY <1>1, <2>1, <2>3, <3>1, FromSystemIs
  <2> DEFINE E == PagesOf(SpanOf(h.brk, k))
  <2>5. e = SetMap(g, E, s)
    <3>1. g.span[s] = SpanOf(h.brk, k)
      BY <2>4 DEF TakenInto
    <3>2. e = SetMap(g, PagesOf(g.span[s]), s)
      BY DEF MapAll
    <3> HIDE DEF g, e, s
    <3> QED BY <3>1, <3>2
  <2> HIDE DEF e, g, s
  <2>6. /\ e \in PageCache /\ e.span = g.span /\ e.listed = g.listed
        /\ e.mem = g.mem /\ e.brk = g.brk /\ e.wild = g.wild
        /\ \A p \in Pages : e.map[p] = IF p \in E THEN s ELSE g.map[p]
    <3>1. g \in PageCache /\ s \in Spans \cup {None}
      BY <2>3, <2>4 DEF TakenInto
    <3> HIDE DEF E
    <3>2. /\ SetMap(g, E, s) \in PageCache
          /\ SetMap(g, E, s).span = g.span /\ SetMap(g, E, s).listed = g.listed
          /\ SetMap(g, E, s).mem = g.mem /\ SetMap(g, E, s).brk = g.brk
          /\ SetMap(g, E, s).wild = g.wild
          /\ \A p \in Pages : SetMap(g, E, s).map[p] = IF p \in E THEN s ELSE g.map[p]
      BY <3>1, SetMapIs
    <3> QED BY <2>5, <3>2
  <2>7. TakenInto(h, e, s, k, k, {}, E)
    <3> HIDE DEF E
    <3> QED BY <2>4, <2>6 DEF TakenInto
  <2>8. PagesKept(e, {}) /\ \A m \in Spans : m \in Alive(e) <=> m \in Alive(h) \/ m = s
    <3>1. k \in Nat /\ k <= k /\ {} \in {{}, {s}} /\ {} # {s}
      OBVIOUS
    <3>2. E = PagesOf(SpanOf(h.brk, k))
      OBVIOUS
    <3>3. /\ {} = {s} => k <= MaxSpan
          /\ {} = {} => E = PagesOf(SpanOf(h.brk, k)) /\ {} = {}
          /\ {} = {s} => E = {} /\ {} = {s}
      BY <3>1, <3>2
    <3>4. s \in Spans /\ s \notin Alive(h) /\ k \in Nat \ {0} /\ k \in Nat
      BY <2>3
    <3> HIDE DEF E
    <3> QED BY <2>7, <3>1, <3>3, <3>4, TakenKept, Zenon
  <2>9. e.listed = h.listed /\ s \notin h.listed /\ e.wild = h.wild
    BY <1>1, <2>3, <2>7 DEF TakenInto
  <2>10. \A m \in Spans : m \in Out(e) <=> m \in Out(h) \/ m = s
    BY <2>8, <2>9 DEF Out
  <2>11. e.span[s].free = {} /\ e.span[s].npage = k
    <3>1. e.span[s] = SpanOf(h.brk, k) /\ h.brk \in Nat /\ k \in Nat
      BY <2>7, PageCacheType DEF TakenInto
    <3> QED BY <3>1, SpanOfType
  <2>12. \A m \in Out(h) : e.span[m] = h.span[m]
    <3>1. \A m \in Out(h) : m \in Spans /\ m # s
      BY <2>3 DEF Out, Alive
    <3> QED BY <2>7, <3>1 DEF TakenInto
  <2>13. s \in Out(e) /\ s \notin Out(h)
    BY <2>3, <2>10 DEF Out
  <2>14. r[1] = e /\ r[2] = s
    BY <2>1 DEF e, s, g
  <2> QED BY <2>6, <2>8, <2>9, <2>10, <2>11, <2>12, <2>13, <2>14 DEF GivesOut
<1>3. CASE ~(k > MaxSpan)
  <2> DEFINE full == h.brk + Taken - 1 > config.pages
             g == IF BestFit(h, k) = {} /\ ~full THEN Grown(h) ELSE h
  <2>1. PICK n \in BestFit(g, k) :
          r = IF g.span[n].npage = k THEN <<Popped(g, n), n>> ELSE CutSpan(g, n, k)
    BY <1>3 DEF NewSpan
  <2>2. CASE g = h
    <3>1. PagesKept(h, {n})
      BY DEF PagesKept, MapTrue
    <3>2. n \in BestFit(h, k)
      BY <2>2
    <3>3. r = IF h.span[n].npage = k THEN <<Popped(h, n), n>> ELSE CutSpan(h, n, k)
      <4> HIDE DEF g
      <4> QED BY <2>1, <2>2
    <3> HIDE DEF g
    <3> QED BY <3>1, <3>2, <3>3, SplitGives
  <2>3. CASE g # h
    <3> DEFINE s == NewObject(h)
    <3>1. g = Grown(h) /\ BestFit(h, k) = {} /\ ~full
      BY <2>3
    <3>2. h.brk + Taken - 1 <= config.pages
      <4>1. h.brk \in Nat /\ Taken \in Nat
        BY PageCacheType, ConfigType
      <4> QED BY <1>1, <3>1, <4>1
    <3>3. s \in Spans /\ s \notin Alive(h) /\ TakenInto(h, g, s, MaxSpan, Taken, {s}, {})
      BY <3>1, <3>2, GrownIs
    <3> HIDE DEF g, s, full
    <3>4. PagesKept(g, {s}) /\ \A m \in Spans : m \in Alive(g) <=> m \in Alive(h) \/ m = s
      <4>1. Taken \in Nat /\ MaxSpan <= Taken /\ MaxSpan <= MaxSpan
        BY <1>1, ConfigType
      <4>2. {s} \in {{}, {s}} /\ {s} # {}
        OBVIOUS
      <4> QED BY <1>1, <3>3, <4>1, <4>2, TakenKept
    <3>5. /\ g \in PageCache /\ g.listed = h.listed \cup {s} /\ g.wild = h.wild
          /\ \A m \in Spans : m # s => g.span[m] = h.span[m]
      BY <3>3 DEF TakenInto
    <3>6. n = s
      <4>1. k \in Nat /\ g.listed \subseteq Alive(g)
        BY <3>4 DEF PagesKept, ListsKept
      <4>2. n \in g.listed /\ g.span[n].npage >= k
        BY <3>5, <4>1, BestFitIs
      <4>3. SUFFICES ASSUME n # s PROVE FALSE
        OBVIOUS
      <4>4. n \in h.listed /\ n \in Spans /\ g.span[n] = h.span[n] /\ n \in Alive(h)
        BY <1>1, <3>5, <4>2, <4>3 DEF Alive
      <4>5. h.span[n].npage < k
        BY <1>1, <3>1, <4>1, <4>4, BestFitIs
      <4>6. h.span[n].npage \in Nat
        BY <4>4, SpanType
      <4> QED BY <4>1, <4>2, <4>4, <4>5, <4>6
    <3>7. GivesOut(g, r[1], r[2], k)
      <4>1. PagesKept(g, {n}) /\ n \in BestFit(g, k)
        BY <3>4, <3>6
      <4> QED BY <2>1, <3>5, <4>1, SplitGives
    <3>8. \A m \in Spans : m \in Out(g) <=> m \in Out(h)
      <4>1. s \notin h.listed
        BY <1>1, <3>3
      <4> QED BY <3>3, <3>4, <3>5, <4>1 DEF Out
    <3>9. \A m \in Out(h) : m \in Spans /\ m \in Out(g) /\ m # s
      BY <3>3, <3>8 DEF Out, Alive
    <3>10. \A m \in Out(g) : m \in Spans
      BY DEF Out, Alive
    <3> DEFINE f == r[1]
               o == r[2]
    <3> HIDE DEF f, o
    <3>11. GivesOut(g, f, o, k)
      BY <3>7 DEF f, o
    <3>12. o \in Spans
      BY <3>11 DEF GivesOut, Out, Alive
    <3>13. o \in Out(f) /\ o \notin Out(h) /\ f.span[o].free = {} /\ f.span[o].npage = k /\ f.wild = h.wild
      BY <3>5, <3>8, <3>11, <3>12 DEF GivesOut
    <3>14. \A m \in Spans : m \in Out(f) <=> m \in Out(h) \/ m = o
      BY <3>8, <3>11 DEF GivesOut
    <3>15. \A m \in Out(h) : f.span[m] = h.span[m]
      BY <3>5, <3>9, <3>11 DEF GivesOut
    <3>16. GivesOut(h, f, o, k)
      BY <3>11, <3>13, <3>14, <3>15 DEF GivesOut
    <3> QED BY <3>16 DEF f, o
  <2> QED BY <2>2, <2>3
<1> QED BY <1>2, <1>3

-----------------------------------------------------------------------------
(* The return of a span. *)

\* The page cache with Span object s set to v.
WithSpan(h, s, v) == [h EXCEPT !.span[s] = v]

\* What that changes.
LEMMA WithSpanIs ==
  ASSUME NEW h \in PageCache, NEW s \in Spans, NEW v \in Span \cup {None}
  PROVE /\ WithSpan(h, s, v) \in PageCache /\ WithSpan(h, s, v).span[s] = v
        /\ \A m \in Spans : m # s => WithSpan(h, s, v).span[m] = h.span[m]
        /\ WithSpan(h, s, v).listed = h.listed /\ WithSpan(h, s, v).map = h.map
        /\ WithSpan(h, s, v).mem = h.mem /\ WithSpan(h, s, v).brk = h.brk
        /\ WithSpan(h, s, v).wild = h.wild
<1> DEFINE g == [h EXCEPT !.span[s] = v]
<1>1. /\ g \in PageCache /\ g.span[s] = v
      /\ \A m \in Spans : m # s => g.span[m] = h.span[m]
      /\ g.listed = h.listed /\ g.map = h.map /\ g.mem = h.mem /\ g.brk = h.brk
      /\ g.wild = h.wild
  BY DEF PageCache
<1> QED BY <1>1 DEF WithSpan

\* Page cache g is h with span n merged into span s.
MergedInto(h, g, s, n) ==
  /\ g \in PageCache /\ g.mem = h.mem /\ g.brk = h.brk
  /\ g.listed = h.listed \ {n} /\ (g.wild <=> h.wild \/ n \notin h.listed)
  /\ g.span[s] # None
  /\ g.span[s].page = IF h.span[s].page < h.span[n].page THEN h.span[s].page ELSE h.span[n].page
  /\ g.span[s].npage = h.span[s].npage + h.span[n].npage
  /\ g.span[s].free = h.span[s].free
  /\ g.span[n] = None
  /\ \A m \in Spans \ {n, s} : g.span[m] = h.span[m]
  /\ \A p \in Pages : g.map[p] = IF p \in Ends(h.span[n]) THEN None ELSE h.map[p]

\* What Merged changes.
LEMMA MergedIs ==
  ASSUME NEW h \in PageCache, NEW s \in Alive(h), NEW n \in Alive(h), n # s
  PROVE MergedInto(h, Merged(h, s, n), s, n)
<1> DEFINE f == SetMap(h, Ends(h.span[n]), None)
           P == IF h.span[s].page < h.span[n].page THEN h.span[s].page ELSE h.span[n].page
           N == h.span[s].npage + h.span[n].npage
           k == h.span[s]
           v == [k EXCEPT !.page = P, !.npage = N]
           e == WithSpan(f, s, v)
           d == WithSpan(e, n, None)
           L == d.listed \ {n}
           W == d.wild \/ n \notin h.listed
           g == [d EXCEPT !.listed = L, !.wild = W]
<1>1. /\ s \in Spans /\ n \in Spans /\ k \in Span /\ h.span[n] \in Span
      /\ h.span[s].page \in Nat /\ h.span[s].npage \in Nat
      /\ h.span[n].page \in Nat /\ h.span[n].npage \in Nat
  BY SpanType
<1>2. /\ f \in PageCache /\ f.span = h.span /\ f.listed = h.listed
      /\ f.mem = h.mem /\ f.brk = h.brk /\ f.wild = h.wild
      /\ \A p \in Pages : f.map[p] = IF p \in Ends(h.span[n]) THEN None ELSE h.map[p]
  <2> DEFINE E == Ends(h.span[n])
  <2>1. None \in Spans \cup {None}
    OBVIOUS
  <2> HIDE DEF E
  <2>2. /\ SetMap(h, E, None) \in PageCache
        /\ SetMap(h, E, None).span = h.span /\ SetMap(h, E, None).listed = h.listed
        /\ SetMap(h, E, None).mem = h.mem /\ SetMap(h, E, None).brk = h.brk
        /\ SetMap(h, E, None).wild = h.wild
        /\ \A p \in Pages : SetMap(h, E, None).map[p] = IF p \in E THEN None ELSE h.map[p]
    BY <2>1, SetMapIs
  <2> QED BY <2>2 DEF E
<1>3. /\ v \in Span /\ v.page = P /\ v.npage = N /\ v.free = k.free /\ v # None
  <2>1. P \in Nat /\ N \in Nat
    BY <1>1
  <2> DEFINE x == [page |-> P, npage |-> N, free |-> k.free, count |-> k.count,
                   class |-> k.class, used |-> k.used]
  <2>2. v = x /\ v \in Span
    <3> HIDE DEF P, N, k
    <3> QED BY <1>1, <2>1, SpanMoved
  <2>3. x.page = P /\ x.npage = N /\ x.free = k.free
    OBVIOUS
  <2> HIDE DEF v, x
  <2> QED BY <2>2, <2>3, NoneAssumption
<1>4. /\ e \in PageCache /\ e.span[s] = v /\ \A m \in Spans : m # s => e.span[m] = f.span[m]
      /\ e.listed = f.listed /\ e.map = f.map /\ e.mem = f.mem /\ e.brk = f.brk
      /\ e.wild = f.wild
  <2>1. v \in Span \cup {None} /\ s \in Spans /\ f \in PageCache
    BY <1>1, <1>2, <1>3
  <2> HIDE DEF f, v
  <2> QED BY <2>1, WithSpanIs, ZenonT(60) DEF e
<1>5. /\ d \in PageCache /\ d.span[n] = None /\ \A m \in Spans : m # n => d.span[m] = e.span[m]
      /\ d.listed = e.listed /\ d.map = e.map /\ d.mem = e.mem /\ d.brk = e.brk
      /\ d.wild = e.wild
  <2>1. None \in Span \cup {None}
    OBVIOUS
  <2> HIDE DEF e
  <2> QED BY <1>1, <1>4, <2>1, WithSpanIs
<1>6. /\ g \in PageCache /\ g.span = d.span /\ g.listed = L /\ g.wild = W
      /\ g.map = d.map /\ g.mem = d.mem /\ g.brk = d.brk
  <2>1. L \in SUBSET Spans /\ W \in BOOLEAN
    BY <1>5, PageCacheType
  <2> HIDE DEF d, L, W
  <2> QED BY <1>5, <2>1 DEF PageCache
<1>7. Merged(h, s, n) = g
  <2>1. Merged(h, s, n) =
          [f EXCEPT !.span[s].page = P, !.span[s].npage = @ + h.span[n].npage,
                    !.span[n] = None, !.listed = @ \ {n}, !.wild = @ \/ n \notin h.listed]
    <3>1. f.span[s].page = k.page
      <4> HIDE DEF f
      <4> QED BY <1>2
    <3> QED BY <3>1 DEF Merged, Ends
  <2>2. [f EXCEPT !.span[s].page = P, !.span[s].npage = @ + h.span[n].npage]
        = [f EXCEPT !.span[s] = v]
    <3>1. f.span[s] = k /\ f.span[s].npage = k.npage
      <4> HIDE DEF f
      <4> QED BY <1>2
    <3>2. [f EXCEPT !.span[s].page = P, !.span[s].npage = @ + h.span[n].npage]
          = [f EXCEPT !.span[s] = [f.span[s] EXCEPT !.page = P, !.npage = @ + h.span[n].npage]]
      <4> HIDE DEF f, P
      <4> QED BY <1>1, <1>2 DEF PageCache
    <3> HIDE DEF f, P
    <3> QED BY <3>1, <3>2
  <2>3. Merged(h, s, n) =
          [[[f EXCEPT !.span[s].page = P, !.span[s].npage = @ + h.span[n].npage]
              EXCEPT !.span[n] = None]
              EXCEPT !.listed = @ \ {n}, !.wild = @ \/ n \notin h.listed]
    BY <2>1
  <2>4. Merged(h, s, n) = [d EXCEPT !.listed = @ \ {n}, !.wild = @ \/ n \notin h.listed]
    <3>1. d = [[f EXCEPT !.span[s] = v] EXCEPT !.span[n] = None]
      BY DEF WithSpan
    <3> HIDE DEF f, d, v, P
    <3> QED BY <2>2, <2>3, <3>1
  <2> HIDE DEF d
  <2> QED BY <2>4
<1> HIDE DEF f, v, e, d, g
<1>8. MergedInto(h, g, s, n)
  <2>1. g.span[s] = v
    BY <1>1, <1>4, <1>5, <1>6
  <2>2. g.wild <=> h.wild \/ n \notin h.listed
    BY <1>2, <1>4, <1>5, <1>6
  <2>3. g.listed = h.listed \ {n} /\ g.mem = h.mem /\ g.brk = h.brk
    BY <1>2, <1>4, <1>5, <1>6
  <2>4. \A p \in Pages : g.map[p] = IF p \in Ends(h.span[n]) THEN None ELSE h.map[p]
    BY <1>2, <1>4, <1>5, <1>6
  <2>5. \A m \in Spans \ {n, s} : g.span[m] = h.span[m]
    BY <1>2, <1>4, <1>5, <1>6
  <2>6. g.span[n] = None
    BY <1>5, <1>6
  <2> QED BY <1>3, <1>6, <2>1, <2>2, <2>3, <2>4, <2>5, <2>6 DEF MergedInto
<1> QED BY <1>7, <1>8

\* Span s of page cache h is being returned: the map names it nowhere, and what
\* is left of others inside of it does not matter any more.
Returning(h, s) ==
  /\ h \in PageCache /\ Tiled(h) /\ ListsKept(h)
  /\ s \in Out(h) /\ h.span[s].npage <= MaxSpan /\ h.span[s].free = {}
  /\ \A p \in Pages, m \in Spans : h.map[p] = m /\ p \notin PagesOf(h.span[s]) =>
       m \in Alive(h) /\ m # s /\ p \in Named(h, m)
  /\ \A p \in Pages, m \in Spans : m \in Alive(h) /\ m # s /\ p \in Named(h, m) => h.map[p] = m
  /\ ~h.wild => \A p \in PagesOf(h.span[s]) : h.map[p] = None

\* Page cache g is h with spans merged into s: those of lists, or unused ones.
Absorbed(h, g, s) ==
  /\ \A m \in Out(g) : m # s => m \in Out(h) /\ g.span[m] = h.span[m]
  /\ ~g.wild => \A m \in Out(h) : m \in Out(g)
  /\ g.wild => h.wild \/ \E m \in Out(h) : m # s /\ ~h.span[m].used

\* The neighbour that the map finds begins or ends where the span ends or begins.
LEMMA NeighbourTouches ==
  ASSUME NEW h, NEW s, Returning(h, s), NEW side,
         Neighbour(side, h, s) # None
  PROVE LET n == Neighbour(side, h, s)
        IN  /\ n \in Alive(h) /\ n # s
            /\ \/ h.span[n].page + h.span[n].npage = h.span[s].page
               \/ h.span[s].page + h.span[s].npage = h.span[n].page
<1> DEFINE q == IF side = "before" THEN h.span[s].page - 1 ELSE h.span[s].page + h.span[s].npage
           n == Neighbour(side, h, s)
<1>1. n = Get(h, q)
  BY DEF Neighbour
<1>2. q \in Pages /\ n = h.map[q] /\ n # None
  BY <1>1 DEF Get
<1>3. h \in PageCache /\ Tiled(h) /\ s \in Alive(h)
  BY DEF Returning, Out
<1>4. n \in Spans
  BY <1>2, <1>3, PageCacheType
<1>5. /\ h.span[s].page \in Nat /\ h.span[s].npage \in Nat /\ h.span[s].npage >= 1
  BY <1>3, SpanType DEF Tiled
<1>6. q \notin PagesOf(h.span[s])
  BY <1>5 DEF PagesOf
<1> HIDE DEF q, n
<1>7. n \in Alive(h) /\ n # s /\ q \in Named(h, n)
  BY <1>2, <1>4, <1>6 DEF Returning
<1>8. /\ h.span[n].page \in Nat /\ h.span[n].npage \in Nat /\ h.span[n].npage >= 1
      /\ Apart(h.span[n], h.span[s])
  BY <1>3, <1>7, SpanType DEF Tiled
<1>9. q \in PagesOf(h.span[n])
  BY <1>7, <1>8 DEF Named, Ends, PagesOf
<1>10. \/ h.span[n].page + h.span[n].npage = h.span[s].page
       \/ h.span[s].page + h.span[s].npage = h.span[n].page
  BY <1>5, <1>8, <1>9 DEF PagesOf, Apart, q
<1> QED BY <1>7, <1>10 DEF n

\* Merging two spans that touch keeps the pages shared out.
LEMMA MergedTiles ==
  ASSUME NEW h, NEW s, Returning(h, s), NEW n \in Alive(h), n # s, NEW g,
         \/ h.span[n].page + h.span[n].npage = h.span[s].page
         \/ h.span[s].page + h.span[s].npage = h.span[n].page,
         MergedInto(h, g, s, n)
  PROVE /\ Tiled(g) /\ \A m \in Spans : m \in Alive(g) <=> m \in Alive(h) /\ m # n
        /\ \A p \in Int : p \in PagesOf(g.span[s]) <=> p \in PagesOf(h.span[s]) \/ p \in PagesOf(h.span[n])
<1> DEFINE P == h.span[s].page
           L == h.span[s].npage
           Q == h.span[n].page
           M == h.span[n].npage
<1>1. h \in PageCache /\ Tiled(h) /\ s \in Alive(h) /\ s \in Spans /\ n \in Spans
  BY SpanType DEF Returning, Out, Alive
<1>2. P \in Nat /\ L \in Nat /\ L >= 1 /\ Q \in Nat /\ M \in Nat /\ M >= 1
  BY <1>1, SpanType DEF Tiled
<1>3. Q + M = P \/ P + L = Q
  OBVIOUS
<1>4. /\ g.span[s] # None /\ g.span[s].page = IF P < Q THEN P ELSE Q
      /\ g.span[s].npage = L + M /\ g.span[n] = None
      /\ \A m \in Spans : m # n /\ m # s => g.span[m] = h.span[m]
  BY DEF MergedInto
<1>5. g.mem = h.mem /\ g.brk = h.brk
  BY DEF MergedInto
<1>6. \A m \in Spans : m \in Alive(g) <=> m \in Alive(h) /\ m # n
  BY <1>1, <1>4 DEF Alive
<1>7. PagesOf(h.span[s]) = P .. P + L - 1 /\ PagesOf(h.span[n]) = Q .. Q + M - 1
  BY DEF PagesOf
<1>8. \A m \in Alive(h) : m # n /\ m # s =>
        /\ m \in Spans /\ h.span[m].page \in Nat /\ h.span[m].npage \in Nat
        /\ g.span[m] = h.span[m] /\ m \in Alive(g)
        /\ h.span[m].page + h.span[m].npage <= P \/ P + L <= h.span[m].page
        /\ h.span[m].page + h.span[m].npage <= Q \/ Q + M <= h.span[m].page
  <2>1. SUFFICES ASSUME NEW m \in Alive(h), m # n, m # s
                 PROVE /\ m \in Spans /\ h.span[m].page \in Nat /\ h.span[m].npage \in Nat
                       /\ g.span[m] = h.span[m] /\ m \in Alive(g)
                       /\ h.span[m].page + h.span[m].npage <= P \/ P + L <= h.span[m].page
                       /\ h.span[m].page + h.span[m].npage <= Q \/ Q + M <= h.span[m].page
    OBVIOUS
  <2>2. m \in Spans /\ h.span[m].page \in Nat /\ h.span[m].npage \in Nat
    BY <1>1, SpanType
  <2>3. Apart(h.span[m], h.span[s]) /\ Apart(h.span[m], h.span[n])
    <3>1. \A r, x \in Alive(h) : r # x => Apart(h.span[r], h.span[x])
      BY <1>1 DEF Tiled
    <3> QED BY <1>1, <2>1, <3>1
  <2>4. /\ h.span[m].page + h.span[m].npage <= P \/ P + L <= h.span[m].page
        /\ h.span[m].page + h.span[m].npage <= Q \/ Q + M <= h.span[m].page
    BY <2>3 DEF Apart
  <2>5. g.span[m] = h.span[m] /\ m \in Alive(g)
    BY <1>4, <1>6, <2>1, <2>2
  <2> QED BY <2>2, <2>4, <2>5
<1> HIDE DEF P, L, Q, M
<1>9. PagesOf(g.span[s]) = (IF P < Q THEN P ELSE Q) .. (IF P < Q THEN P ELSE Q) + (L + M) - 1
  BY <1>4 DEF PagesOf
<1>10. \A p \in Int : p \in PagesOf(g.span[s]) <=> p \in PagesOf(h.span[s]) \/ p \in PagesOf(h.span[n])
  BY <1>2, <1>3, <1>7, <1>9
<1>11. \A m \in Alive(g) : m = s \/ (m \in Alive(h) /\ m # n /\ m # s)
  BY <1>6 DEF Alive
<1>12. \A m \in Alive(g) : g.span[m].npage >= 1
  BY <1>1, <1>2, <1>4, <1>8, <1>11 DEF Tiled
<1>13. \A r, m \in Alive(g) : r # m => Apart(g.span[r], g.span[m])
  <2>1. SUFFICES ASSUME NEW r \in Alive(g), NEW m \in Alive(g), r # m
                 PROVE Apart(g.span[r], g.span[m])
    OBVIOUS
  <2> DEFINE Q1 == IF P < Q THEN P ELSE Q
  <2>0. \A x \in Alive(g) : x # s =>
          \/ g.span[x].page + g.span[x].npage <= Q1
          \/ Q1 + (L + M) <= g.span[x].page
    <3>1. SUFFICES ASSUME NEW x \in Alive(g), x # s
                   PROVE \/ g.span[x].page + g.span[x].npage <= Q1
                         \/ Q1 + (L + M) <= g.span[x].page
      OBVIOUS
    <3>2. /\ h.span[x].page \in Nat /\ h.span[x].npage \in Nat /\ g.span[x] = h.span[x]
          /\ h.span[x].page + h.span[x].npage <= P \/ P + L <= h.span[x].page
          /\ h.span[x].page + h.span[x].npage <= Q \/ Q + M <= h.span[x].page
          /\ h.span[x].npage >= 1
      BY <1>1, <1>8, <1>11, <3>1 DEF Tiled
    <3> QED BY <1>2, <1>3, <3>2
  <2> HIDE DEF Q1
  <2>7. g.span[s].page = Q1 /\ g.span[s].npage = L + M
    BY <1>4 DEF Q1
  <2>2. CASE r = s
    BY <2>0, <2>1, <2>2, <2>7 DEF Apart
  <2>3. CASE m = s
    BY <2>0, <2>1, <2>3, <2>7 DEF Apart
  <2>4. CASE r # s /\ m # s
    <3>1. g.span[r] = h.span[r] /\ g.span[m] = h.span[m] /\ r \in Alive(h) /\ m \in Alive(h)
      BY <1>8, <1>11, <2>4
    <3> QED BY <1>1, <2>1, <3>1 DEF Tiled
  <2> QED BY <2>2, <2>3, <2>4
<1>14. \A m \in Alive(g) : PagesOf(g.span[m]) \subseteq g.mem
  <2>1. SUFFICES ASSUME NEW m \in Alive(g), NEW p \in PagesOf(g.span[m]) PROVE p \in h.mem
    BY <1>5
  <2>2. CASE m = s
    <3>1. p \in Int
      BY <1>2, <1>9, <2>2
    <3>2. p \in PagesOf(h.span[s]) \/ p \in PagesOf(h.span[n])
      BY <1>10, <2>1, <2>2, <3>1
    <3> QED BY <1>1, <3>2 DEF Tiled
  <2>3. CASE m # s
    BY <1>1, <1>8, <1>11, <2>1, <2>3 DEF Tiled
  <2> QED BY <2>2, <2>3
<1>15. \A p \in g.mem : \E m \in Alive(g) : p \in PagesOf(g.span[m])
  <2>1. SUFFICES ASSUME NEW p \in h.mem PROVE \E m \in Alive(g) : p \in PagesOf(g.span[m])
    BY <1>5
  <2>2. PICK m \in Alive(h) : p \in PagesOf(h.span[m])
    BY <1>1 DEF Tiled
  <2>3. CASE m = s \/ m = n
    <3>1. p \in Int
      BY <1>2, <1>7, <2>2, <2>3
    <3>2. p \in PagesOf(g.span[s]) /\ s \in Alive(g)
      BY <1>1, <1>6, <1>10, <2>2, <2>3, <3>1
    <3> QED BY <3>2
  <2>4. CASE m # s /\ m # n
    BY <1>8, <2>2, <2>4
  <2> QED BY <2>3, <2>4
<1>16. g.brk >= 1 /\ \A p \in g.mem : p < g.brk
  BY <1>1, <1>5 DEF Tiled
<1> QED BY <1>6, <1>10, <1>12, <1>13, <1>14, <1>15, <1>16 DEF Tiled

\* A merge leaves the span to be returned, one span longer.
LEMMA MergeStep ==
  ASSUME NEW o, NEW h, NEW s, Returning(h, s), Absorbed(o, h, s), NEW side
  PROVE Returning(MergeOnce(side, h, s), s) /\ Absorbed(o, MergeOnce(side, h, s), s)
<1> DEFINE n == Neighbour(side, h, s)
           g == MergeOnce(side, h, s)
<1>1. CASE ~CanMerge(h, s, n)
  <2>1. g = h
    BY <1>1 DEF MergeOnce
  <2> QED BY <2>1
<1>2. CASE CanMerge(h, s, n)
  <2>1. g = Merged(h, s, n)
    BY <1>2 DEF MergeOnce
  <2>2. n # None /\ ~h.span[n].used /\ h.span[s].npage + h.span[n].npage <= MaxSpan
    BY <1>2 DEF CanMerge
  <2>3. /\ n \in Alive(h) /\ n # s
        /\ \/ h.span[n].page + h.span[n].npage = h.span[s].page
           \/ h.span[s].page + h.span[s].npage = h.span[n].page
    BY <2>2, NeighbourTouches
  <2>4. /\ h \in PageCache /\ Tiled(h) /\ ListsKept(h) /\ s \in Alive(h) /\ s \notin h.listed
        /\ h.span[s].free = {}
    BY DEF Returning, Out
  <2> HIDE DEF n, g
  <2>5. MergedInto(h, g, s, n)
    BY <2>1, <2>3, <2>4, MergedIs
  <2>6. /\ Tiled(g) /\ \A m \in Spans : m \in Alive(g) <=> m \in Alive(h) /\ m # n
        /\ \A p \in Int : p \in PagesOf(g.span[s]) <=> p \in PagesOf(h.span[s]) \/ p \in PagesOf(h.span[n])
    BY <2>3, <2>5, MergedTiles
  <2>7. /\ g \in PageCache /\ g.listed = h.listed \ {n} /\ (g.wild <=> h.wild \/ n \notin h.listed)
        /\ g.span[s].npage <= MaxSpan /\ g.span[s].free = {}
        /\ \A m \in Spans : m # n /\ m # s => g.span[m] = h.span[m]
        /\ \A p \in Pages : g.map[p] = IF p \in Ends(h.span[n]) THEN None ELSE h.map[p]
    BY <2>2, <2>4, <2>5 DEF MergedInto
  <2>8. s \in Spans /\ n \in Spans /\ None \notin Spans /\ Pages \subseteq Int
    BY <2>3, <2>4, NoneAssumption DEF Alive, Spans, Pages
  <2>9. Ends(h.span[n]) \subseteq Named(h, n) /\ Named(h, n) \subseteq PagesOf(h.span[n])
    <3>1. /\ h.span[n].page \in Nat /\ h.span[n].npage \in Nat /\ h.span[n].npage >= 1
      BY <2>3, <2>4, SpanType DEF Tiled
    <3>2. Ends(h.span[n]) \subseteq PagesOf(h.span[n])
      BY <3>1 DEF Ends, PagesOf
    <3> QED BY <3>2 DEF Named
  <2>10. \A m \in Alive(g) : m # s =>
           m \in Alive(h) /\ m # n /\ g.span[m] = h.span[m] /\ Named(g, m) = Named(h, m)
    <3>1. SUFFICES ASSUME NEW m \in Alive(g), m # s
                   PROVE m \in Alive(h) /\ m # n /\ g.span[m] = h.span[m] /\ Named(g, m) = Named(h, m)
      OBVIOUS
    <3>2. m \in Spans /\ m \in Alive(h) /\ m # n
      BY <2>6 DEF Alive
    <3> QED BY <2>7, <3>1, <3>2 DEF Named
  <2>11. s \in Out(g)
    BY <2>3, <2>4, <2>6, <2>7, <2>8 DEF Out
  <2>12. ListsKept(g)
    <3>1. SUFFICES ASSUME NEW m \in h.listed, m # n
                   PROVE /\ m \in Alive(g) /\ g.span[m].npage <= MaxSpan
                         /\ ~g.span[m].used /\ g.span[m].free = {}
      BY <2>7 DEF ListsKept
    <3>2. m \in Alive(h) /\ m # s /\ m \in Spans
      BY <2>4 DEF ListsKept, Alive
    <3> QED BY <2>4, <2>6, <2>7, <3>1, <3>2 DEF ListsKept
  <2>13. \A p \in Pages, m \in Spans : g.map[p] = m /\ p \notin PagesOf(g.span[s]) =>
           m \in Alive(g) /\ m # s /\ p \in Named(g, m)
    <3>1. SUFFICES ASSUME NEW p \in Pages, NEW m \in Spans, g.map[p] = m, p \notin PagesOf(g.span[s])
                   PROVE m \in Alive(g) /\ m # s /\ p \in Named(g, m)
      OBVIOUS
    <3>2. p \notin PagesOf(h.span[s]) /\ p \notin PagesOf(h.span[n]) /\ h.map[p] = m
      BY <2>6, <2>7, <2>8, <3>1
    <3>3. m \in Alive(h) /\ m # s /\ p \in Named(h, m)
      BY <3>2 DEF Returning
    <3>4. m # n
      BY <2>9, <3>2, <3>3
    <3> QED BY <2>6, <2>10, <3>3, <3>4
  <2>14. \A p \in Pages, m \in Spans : m \in Alive(g) /\ m # s /\ p \in Named(g, m) => g.map[p] = m
    <3>1. SUFFICES ASSUME NEW p \in Pages, NEW m \in Spans, m \in Alive(g), m # s, p \in Named(g, m)
                   PROVE g.map[p] = m
      OBVIOUS
    <3>2. m \in Alive(h) /\ m # n /\ p \in Named(h, m)
      BY <2>10, <3>1
    <3>3. h.map[p] = m
      BY <3>1, <3>2 DEF Returning
    <3>4. p \in Ends(h.span[n]) => h.map[p] = n
      BY <2>3, <2>8, <2>9 DEF Returning
    <3> QED BY <2>7, <3>2, <3>3, <3>4
  <2>15. ~g.wild => \A p \in PagesOf(g.span[s]) : g.map[p] = None
    <3>1. SUFFICES ASSUME ~g.wild, NEW p \in PagesOf(g.span[s]) PROVE g.map[p] = None
      OBVIOUS
    <3>2. ~h.wild /\ n \in h.listed
      BY <2>7, <3>1
    <3>3. p \in Pages
      BY <2>6, <2>7, <2>11, PageCacheType DEF Tiled, Out
    <3>4. p \in PagesOf(h.span[s]) \/ p \in PagesOf(h.span[n])
      BY <2>6, <2>8, <3>3
    <3>5. CASE p \in PagesOf(h.span[s])
      <4>1. h.map[p] = None
        BY <3>2, <3>5 DEF Returning
      <4> QED BY <2>7, <3>3, <4>1
    <3>6. CASE p \notin PagesOf(h.span[s])
      <4>1. SUFFICES ASSUME p \notin Ends(h.span[n]), h.map[p] # None PROVE FALSE
        BY <2>7, <3>3
      <4>2. h.map[p] \in Spans
        BY <2>4, <3>3, <4>1, PageCacheType
      <4> DEFINE m == h.map[p]
      <4>3. m \in Alive(h) /\ p \in Named(h, m)
        BY <3>3, <3>6, <4>2 DEF Returning
      <4> HIDE DEF m
      <4>4. m # n
        BY <3>2, <4>1, <4>3 DEF Named
      <4>5. Apart(h.span[m], h.span[n])
        BY <2>3, <2>4, <4>3, <4>4 DEF Tiled
      <4>6. /\ h.span[n].page \in Nat /\ h.span[n].npage \in Nat /\ h.span[n].npage >= 1
            /\ h.span[m].page \in Nat /\ h.span[m].npage \in Nat /\ h.span[m].npage >= 1
        BY <2>3, <2>4, <4>3, SpanType DEF Tiled
      <4>7. p \in PagesOf(h.span[m]) /\ p \in PagesOf(h.span[n])
        BY <3>4, <3>6, <4>3, <4>6 DEF Named, Ends, PagesOf
      <4> QED BY <4>5, <4>6, <4>7 DEF Apart, PagesOf
    <3> QED BY <3>5, <3>6
  <2>16. Returning(g, s)
    BY <2>6, <2>7, <2>11, <2>12, <2>13, <2>14, <2>15 DEF Returning
  <2>17. \A m \in Out(g) : m # s => m \in Out(h) /\ g.span[m] = h.span[m]
    BY <2>7, <2>10 DEF Out
  <2>18. n \in h.listed => \A m \in Out(h) : m \in Out(g)
    BY <2>6, <2>7 DEF Out, Alive
  <2>19. Absorbed(o, g, s)
    <3>1. \A m \in Out(g) : m # s => m \in Out(o) /\ g.span[m] = o.span[m]
      BY <2>17 DEF Absorbed
    <3>2. ~g.wild => \A m \in Out(o) : m \in Out(g)
      BY <2>7, <2>18 DEF Absorbed
    <3>3. ASSUME g.wild PROVE o.wild \/ \E m \in Out(o) : m # s /\ ~o.span[m].used
      <4>1. CASE h.wild
        BY <4>1 DEF Absorbed
      <4>2. CASE n \notin h.listed
        <5>1. n \in Out(h) /\ n # s
          BY <2>3, <4>2 DEF Out
        <5>2. n \in Out(o) /\ h.span[n] = o.span[n]
          BY <5>1 DEF Absorbed
        <5> QED BY <2>2, <5>1, <5>2
      <4> QED BY <2>7, <3>3, <4>1, <4>2
    <3> QED BY <3>1, <3>2, <3>3 DEF Absorbed
  <2> QED BY <2>16, <2>19 DEF g
<1> QED BY <1>1, <1>2

\* The loops' rounds one by one.
LEMMA RoundsAre ==
  ASSUME NEW side, NEW h, NEW s
  PROVE \E rounds : /\ rounds[0] = h /\ MergedWith(side, h, s) = rounds[MaxSpan]
                    /\ \A i \in 1 .. MaxSpan : rounds[i] = MergeOnce(side, rounds[i - 1], s)
<1> DEFINE E(f, n) ==
             f = [i \in 0 .. n |-> IF i = 0 THEN h ELSE MergeOnce(side, f[i - 1], s)]
           Bad == {n \in Nat : ~ \E f : E(f, n)}
<1>1. Bad = {}
  <2>1. SUFFICES ASSUME Bad # {} PROVE FALSE
    OBVIOUS
  <2> DEFINE n == Min(Bad)
  <2>2. n \in Bad /\ n \in Nat /\ \A m \in Bad : n <= m
    <3>1. Bad \in SUBSET Nat
      OBVIOUS
    <3> HIDE DEF Bad
    <3> QED BY <2>1, <3>1, MinIsLeast
  <2> HIDE DEF n
  <2>3. CASE n = 0
    <3>1. E([i \in 0 .. 0 |-> h], 0)
      OBVIOUS
    <3> QED BY <3>1, <2>2, <2>3
  <2>4. CASE n # 0
    <3>1. n - 1 \in Nat /\ n - 1 \notin Bad
      <4> HIDE DEF Bad
      <4> QED BY <2>2, <2>4, SMT
    <3>2. PICK f : E(f, n - 1)
      BY <3>1
    <3> DEFINE x == MergeOnce(side, f[n - 1], s)
               g == [i \in 0 .. n |-> IF i = n THEN x ELSE f[i]]
    <3>3. E(g, n)
      <4>1. \A i \in 0 .. n : g[i] = IF i = 0 THEN h ELSE MergeOnce(side, g[i - 1], s)
        <5>1. SUFFICES ASSUME NEW i \in 0 .. n
                       PROVE g[i] = IF i = 0 THEN h ELSE MergeOnce(side, g[i - 1], s)
          OBVIOUS
        <5>2. CASE i = n
          <6>1. g[i] = x /\ g[i - 1] = f[n - 1] /\ i # 0
            <7> HIDE DEF x
            <7> QED BY <2>2, <2>4, <3>1, <5>2
          <6> HIDE DEF g
          <6> QED BY <5>2, <6>1
        <5>3. CASE i # n
          <6>1. g[i] = f[i] /\ i \in 0 .. n - 1
            <7> HIDE DEF x
            <7> QED BY <2>2, <3>1, <5>3
          <6>2. f[i] = IF i = 0 THEN h ELSE MergeOnce(side, f[i - 1], s)
            BY <3>2, <6>1
          <6>3. i # 0 => g[i - 1] = f[i - 1]
            <7> HIDE DEF x
            <7> QED BY <2>2, <3>1, <6>1
          <6> HIDE DEF g
          <6> QED BY <6>1, <6>2, <6>3
        <5> QED BY <5>2, <5>3
      <4>2. g = [i \in 0 .. n |-> g[i]]
        OBVIOUS
      <4> HIDE DEF g
      <4> QED BY <4>1, <4>2
    <3> QED BY <2>2, <3>3
  <2> QED BY <2>3, <2>4
<1>2. MaxSpan \in Nat
  BY SizesAssumption
<1>3. PICK f : E(f, MaxSpan)
  BY <1>1, <1>2
<1> DEFINE rounds[i \in 0 .. MaxSpan] ==
             IF i = 0 THEN h ELSE MergeOnce(side, rounds[i - 1], s)
<1>4. E(rounds, MaxSpan)
  BY <1>3
<1>5. MergedWith(side, h, s) = rounds[MaxSpan]
  BY DEF MergedWith
<1>6. rounds[0] = h /\ \A i \in 1 .. MaxSpan : rounds[i] = MergeOnce(side, rounds[i - 1], s)
  <2>1. 0 \in 0 .. MaxSpan /\ \A i \in 1 .. MaxSpan : i \in 0 .. MaxSpan /\ i # 0
    BY <1>2
  <2> HIDE DEF rounds
  <2> QED BY <1>4, <2>1
<1> HIDE DEF rounds
<1> QED BY <1>5, <1>6

\* The loops end with the span still to be returned.
LEMMA MergedWithKept ==
  ASSUME NEW o, NEW h, NEW s, Returning(h, s), Absorbed(o, h, s), NEW side
  PROVE Returning(MergedWith(side, h, s), s) /\ Absorbed(o, MergedWith(side, h, s), s)
<1>1. PICK rounds : /\ rounds[0] = h /\ MergedWith(side, h, s) = rounds[MaxSpan]
                    /\ \A i \in 1 .. MaxSpan : rounds[i] = MergeOnce(side, rounds[i - 1], s)
  BY RoundsAre
<1> DEFINE T == {i \in 0 .. MaxSpan : Returning(rounds[i], s) /\ Absorbed(o, rounds[i], s)}
<1>2. MaxSpan \in Nat
  BY SizesAssumption
<1>3. 0 \in T
  BY <1>1, <1>2
<1>4. \A i \in 1 .. MaxSpan : i - 1 \in T => i \in T
  <2>1. SUFFICES ASSUME NEW i \in 1 .. MaxSpan, i - 1 \in T PROVE i \in T
    OBVIOUS
  <2>2. Returning(rounds[i - 1], s) /\ Absorbed(o, rounds[i - 1], s)
    BY <2>1
  <2>3. Returning(rounds[i], s) /\ Absorbed(o, rounds[i], s)
    BY <1>1, <2>2, MergeStep
  <2> QED BY <1>2, <2>3
<1>5. MaxSpan \in T
  <2> HIDE DEF T
  <2> QED BY <1>2, <1>3, <1>4, UpTo
<1> QED BY <1>1, <1>5

\* Taking a span that is handed out from the map begins its return.
LEMMA UnmappedReturns ==
  ASSUME NEW h \in PageCache, PagesKept(h, {}), NEW s \in Out(h), ~h.wild,
         h.span[s].free = {}, h.span[s].npage <= MaxSpan
  PROVE Returning(Unmapped(h, s), s) /\ Absorbed(h, Unmapped(h, s), s)
<1> DEFINE E == PagesOf(h.span[s])
           u == Unmapped(h, s)
<1>1. /\ u \in PageCache /\ u.span = h.span /\ u.listed = h.listed
      /\ u.mem = h.mem /\ u.brk = h.brk /\ u.wild = h.wild
      /\ \A p \in Pages : u.map[p] = IF p \in E THEN None ELSE h.map[p]
  <2>1. u = SetMap(h, E, None) /\ None \in Spans \cup {None}
    BY DEF Unmapped
  <2> HIDE DEF E
  <2>2. /\ SetMap(h, E, None) \in PageCache
        /\ SetMap(h, E, None).span = h.span /\ SetMap(h, E, None).listed = h.listed
        /\ SetMap(h, E, None).mem = h.mem /\ SetMap(h, E, None).brk = h.brk
        /\ SetMap(h, E, None).wild = h.wild
        /\ \A p \in Pages : SetMap(h, E, None).map[p] = IF p \in E THEN None ELSE h.map[p]
    BY <2>1, SetMapIs
  <2> HIDE DEF u
  <2> QED BY <2>1, <2>2
<1> HIDE DEF u
<1>2. None \notin Spans /\ s \in Alive(h) /\ s \in Spans /\ Named(h, s) = E
  BY NoneAssumption DEF Out, Alive, Named, Spans, Pages
<1>3. \A m \in Spans : (m \in Alive(u) <=> m \in Alive(h)) /\ Named(u, m) = Named(h, m)
  BY <1>1 DEF Alive, Named
<1>4. Alive(u) = Alive(h) /\ Out(u) = Out(h)
  BY <1>1 DEF Alive, Out
<1>5. Tiled(u) /\ ListsKept(u)
  <2>1. Tiled(h) /\ ListsKept(h)
    BY DEF PagesKept
  <2>2. Tiled(u)
    BY <1>1, <1>4, <2>1 DEF Tiled
  <2> QED BY <1>1, <1>4, <2>1, <2>2 DEF ListsKept
<1>6. \A p \in Pages, m \in Spans : u.map[p] = m /\ p \notin E =>
        m \in Alive(u) /\ m # s /\ p \in Named(u, m)
  BY <1>1, <1>2, <1>3 DEF PagesKept, MapTrue
<1>7. \A p \in Pages, m \in Spans : m \in Alive(u) /\ m # s /\ p \in Named(u, m) => u.map[p] = m
  <2>1. SUFFICES ASSUME NEW p \in Pages, NEW m \in Spans, m \in Alive(u), m # s, p \in Named(u, m)
                 PROVE u.map[p] = m
    OBVIOUS
  <2>2. h.map[p] = m
    BY <1>3, <2>1 DEF PagesKept, MapTrue
  <2>3. p \in E => h.map[p] = s
    BY <1>2 DEF PagesKept, MapTrue
  <2> QED BY <1>1, <2>1, <2>2, <2>3
<1>8. \A p \in E : u.map[p] = None
  <2>1. E \subseteq Pages
    BY <1>2, PageCacheType DEF PagesKept, Tiled
  <2> QED BY <1>1, <2>1
<1>9. Returning(u, s)
  BY <1>1, <1>4, <1>5, <1>6, <1>7, <1>8 DEF Returning
<1>10. Absorbed(h, u, s)
  BY <1>1, <1>4 DEF Absorbed
<1> QED BY <1>9, <1>10 DEF u

\* The fields of a span object after one of them changed.
LEMMA SpanChanged ==
  ASSUME NEW l \in Span, NEW used \in BOOLEAN, NEW free \in SUBSET Nat, NEW count \in Nat,
         NEW class \in Classes \cup {"large", None}
  PROVE /\ [l EXCEPT !.used = used] = [page |-> l.page, npage |-> l.npage, free |-> l.free,
             count |-> l.count, class |-> l.class, used |-> used]
        /\ [l EXCEPT !.free = free] = [page |-> l.page, npage |-> l.npage, free |-> free,
             count |-> l.count, class |-> l.class, used |-> l.used]
        /\ [l EXCEPT !.count = count] = [page |-> l.page, npage |-> l.npage, free |-> l.free,
             count |-> count, class |-> l.class, used |-> l.used]
        /\ [l EXCEPT !.class = class] = [page |-> l.page, npage |-> l.npage, free |-> l.free,
             count |-> l.count, class |-> class, used |-> l.used]
  BY DEF Span

\* The fields of a span.
LEMMA SpanFields ==
  ASSUME NEW l \in Span
  PROVE /\ l.page \in Nat /\ l.npage \in Nat /\ l.free \in SUBSET Nat /\ l.count \in Nat
        /\ l.class \in Classes \cup {"large", None} /\ l.used \in BOOLEAN
  BY DEF Span

\* Page cache g is h with span s put into its list.
ListedInto(h, g, s) ==
  /\ g \in PageCache /\ g.mem = h.mem /\ g.brk = h.brk /\ g.listed = h.listed \cup {s}
  /\ g.wild = h.wild
  /\ g.span[s] # None /\ ~g.span[s].used
  /\ g.span[s].page = h.span[s].page /\ g.span[s].npage = h.span[s].npage
  /\ g.span[s].free = h.span[s].free
  /\ \A m \in Spans : m # s => g.span[m] = h.span[m]
  /\ \A p \in Pages : g.map[p] = IF p \in Ends(h.span[s]) THEN s ELSE h.map[p]

\* What the end of ReleaseSpanToPageCache changes.
LEMMA ListedIs ==
  ASSUME NEW h \in PageCache, NEW s \in Alive(h)
  PROVE ListedInto(h, MapEnds([h EXCEPT !.listed = @ \cup {s}, !.span[s].used = FALSE], s), s)
<1> DEFINE k == h.span[s]
           v == [k EXCEPT !.used = FALSE]
           w == [page |-> k.page, npage |-> k.npage, free |-> k.free, count |-> k.count,
                 class |-> k.class, used |-> FALSE]
           L == h.listed \cup {s}
           e == [h EXCEPT !.listed = L]
           f == WithSpan(e, s, v)
           E == Ends(k)
           g == SetMap(f, E, s)
<1>1. s \in Spans /\ k \in Span
  BY SpanType
<1>2. /\ v \in Span /\ v.page = k.page /\ v.npage = k.npage /\ v.free = k.free /\ ~v.used
      /\ v # None
  <2> DEFINE U == FALSE
  <2> HIDE DEF k, U
  <2>1. /\ k.page \in Nat /\ k.npage \in Nat /\ k.free \in SUBSET Nat /\ k.count \in Nat
        /\ k.class \in Classes \cup {"large", None} /\ U \in BOOLEAN
    BY <1>1, SpanFields DEF U
  <2>2. v = [page |-> k.page, npage |-> k.npage, free |-> k.free, count |-> k.count,
             class |-> k.class, used |-> U]
    <3>1. v = [k EXCEPT !.used = U]
      BY DEF U
    <3> HIDE DEF v
    <3> QED BY <1>1, <2>1, <3>1, SpanChanged
  <2> HIDE DEF v
  <2>3. v \in Span /\ v # None /\ v.page = k.page /\ v.npage = k.npage /\ v.free = k.free /\ v.used = U
    <3>1. v.page = k.page /\ v.npage = k.npage /\ v.free = k.free /\ v.used = U
      BY <2>2
    <3>2. v \in Span
      BY <2>1, <2>2 DEF Span
    <3> QED BY <3>1, <3>2, NoneAssumption
  <2> QED BY <2>3 DEF U
<1>3. /\ e \in PageCache /\ e.span = h.span /\ e.listed = L /\ e.map = h.map
      /\ e.mem = h.mem /\ e.brk = h.brk /\ e.wild = h.wild
  <2>1. L \in SUBSET Spans
    BY <1>1, PageCacheType
  <2> HIDE DEF L
  <2> QED BY <2>1 DEF PageCache
<1>4. /\ f \in PageCache /\ f.span[s] = v /\ \A m \in Spans : m # s => f.span[m] = e.span[m]
      /\ f.listed = e.listed /\ f.map = e.map /\ f.mem = e.mem /\ f.brk = e.brk
      /\ f.wild = e.wild
  <2>1. v \in Span \cup {None}
    BY <1>2
  <2> HIDE DEF e, v
  <2> QED BY <1>1, <1>3, <2>1, WithSpanIs, SMTT(60) DEF f
<1>5. MapEnds([h EXCEPT !.listed = @ \cup {s}, !.span[s].used = FALSE], s) = g
  <2>1. [h EXCEPT !.listed = @ \cup {s}, !.span[s].used = FALSE] = f
    <3>1. [h EXCEPT !.listed = @ \cup {s}, !.span[s].used = FALSE]
          = [e EXCEPT !.span[s].used = FALSE]
      OBVIOUS
    <3>2. [e EXCEPT !.span[s].used = FALSE] = [e EXCEPT !.span[s] = [e.span[s] EXCEPT !.used = FALSE]]
      <4> HIDE DEF e
      <4> QED BY <1>1, <1>3 DEF PageCache
    <3>3. e.span[s] = k
      <4> HIDE DEF e
      <4> QED BY <1>3
    <3> HIDE DEF e
    <3> QED BY <3>1, <3>2, <3>3 DEF WithSpan
  <2>2. MapEnds(f, s) = g
    <3> HIDE DEF f
    <3>1. f.span[s].page = k.page /\ f.span[s].npage = k.npage
      BY <1>2, <1>4
    <3> QED BY <3>1 DEF MapEnds, Ends
  <2> HIDE DEF f, g
  <2> QED BY <2>1, <2>2
<1>6. /\ g \in PageCache /\ g.span = f.span /\ g.listed = f.listed
      /\ g.mem = f.mem /\ g.brk = f.brk /\ g.wild = f.wild
      /\ \A p \in Pages : g.map[p] = IF p \in E THEN s ELSE f.map[p]
  <2>1. s \in Spans \cup {None}
    BY <1>1
  <2> HIDE DEF f, E
  <2> QED BY <1>4, <2>1, SetMapIs
<1> HIDE DEF e, f, g, v
<1>7. g.wild = h.wild /\ g.mem = h.mem /\ g.brk = h.brk /\ g.listed = L /\ g.map \in [Pages -> Spans \cup {None}]
  BY <1>3, <1>4, <1>6, PageCacheType
<1>8. g.span[s] = v /\ \A m \in Spans : m # s => g.span[m] = h.span[m]
  BY <1>3, <1>4, <1>6
<1>9. \A p \in Pages : g.map[p] = IF p \in Ends(h.span[s]) THEN s ELSE h.map[p]
  BY <1>3, <1>4, <1>6
<1>10. ListedInto(h, g, s)
  BY <1>2, <1>6, <1>7, <1>8, <1>9 DEF ListedInto
<1> QED BY <1>5, <1>10

\* A span that was returned is found at its ends.
LEMMA ListedKept ==
  ASSUME NEW h, NEW s, Returning(h, s), ~h.wild, NEW g, ListedInto(h, g, s)
  PROVE /\ PagesKept(g, {})
        /\ \A m \in Spans : m \in Out(g) <=> m \in Out(h) /\ m # s
<1>1. /\ h \in PageCache /\ Tiled(h) /\ ListsKept(h) /\ s \in Out(h)
      /\ s \in Alive(h) /\ s \in Spans /\ s \notin h.listed /\ None \notin Spans
  BY NoneAssumption DEF Returning, Out, Alive, Spans, Pages
<1>2. /\ g \in PageCache /\ g.mem = h.mem /\ g.brk = h.brk /\ g.listed = h.listed \cup {s}
      /\ \A m \in Spans : m # s => g.span[m] = h.span[m]
      /\ \A p \in Pages : g.map[p] = IF p \in Ends(h.span[s]) THEN s ELSE h.map[p]
  BY DEF ListedInto
<1>3. /\ g.span[s].page = h.span[s].page /\ g.span[s].npage = h.span[s].npage
      /\ ~g.span[s].used /\ g.span[s].free = {} /\ g.span[s].npage <= MaxSpan
  BY DEF ListedInto, Returning
<1>4. Alive(g) = Alive(h)
  BY <1>1, <1>2 DEF Alive, ListedInto
<1>5. \A m \in Alive(h) : /\ m \in Spans /\ g.span[m].page = h.span[m].page
                          /\ g.span[m].npage = h.span[m].npage
                          /\ PagesOf(g.span[m]) = PagesOf(h.span[m])
                          /\ Ends(g.span[m]) = Ends(h.span[m])
  BY <1>2, <1>3 DEF Alive, PagesOf, Ends
<1>6. Tiled(g)
  <2>1. \A r, m \in Alive(g) : r # m => Apart(g.span[r], g.span[m])
    <3>1. SUFFICES ASSUME NEW r \in Alive(h), NEW m \in Alive(h), r # m
                   PROVE Apart(g.span[r], g.span[m])
      BY <1>4
    <3>2. Apart(h.span[r], h.span[m])
      BY <1>1, <3>1 DEF Tiled
    <3> QED BY <1>5, <3>2 DEF Apart
  <2>2. \A m \in Alive(g) : g.span[m].npage >= 1 /\ PagesOf(g.span[m]) \subseteq g.mem
    BY <1>1, <1>2, <1>4, <1>5 DEF Tiled
  <2>3. \A p \in g.mem : \E m \in Alive(g) : p \in PagesOf(g.span[m])
    BY <1>1, <1>2, <1>4, <1>5 DEF Tiled
  <2>4. g.brk >= 1 /\ \A p \in g.mem : p < g.brk
    BY <1>1, <1>2 DEF Tiled
  <2> QED BY <2>1, <2>2, <2>3, <2>4 DEF Tiled
<1>7. ListsKept(g)
  <2>1. SUFFICES ASSUME NEW m \in g.listed
                 PROVE /\ m \in Alive(h) /\ g.span[m].npage <= MaxSpan
                       /\ ~g.span[m].used /\ g.span[m].free = {}
    BY <1>4 DEF ListsKept
  <2>2. CASE m = s
    BY <1>1, <1>3, <2>2
  <2>3. CASE m # s
    <3>1. m \in h.listed /\ m \in Spans
      BY <1>2, <2>3, PageCacheType
    <3> QED BY <1>1, <1>2, <2>3, <3>1 DEF ListsKept
  <2> QED BY <2>2, <2>3
<1>8. Ends(h.span[s]) \subseteq PagesOf(h.span[s]) /\ Named(g, s) = Ends(h.span[s])
  <2>1. h.span[s].page \in Nat /\ h.span[s].npage \in Nat /\ h.span[s].npage >= 1
    BY <1>1, SpanType DEF Tiled
  <2>2. Ends(h.span[s]) \subseteq PagesOf(h.span[s])
    BY <2>1 DEF Ends, PagesOf
  <2> QED BY <1>1, <1>2, <1>5, <2>2 DEF Named
<1>9. \A m \in Alive(h) : m # s => Named(g, m) = Named(h, m)
  BY <1>2, <1>5 DEF Named
<1>10. MapTrue(g, {})
  <2>1. SUFFICES ASSUME NEW p \in Pages, NEW m \in Spans
                 PROVE /\ g.map[p] = m => m \in Alive(g) /\ p \in Named(g, m)
                       /\ m \in Alive(g) /\ p \in Named(g, m) => g.map[p] = m
    BY DEF MapTrue
  <2>2. \A q \in PagesOf(h.span[s]) : h.map[q] = None
    BY DEF Returning
  <2>3. CASE p \in Ends(h.span[s])
    <3>1. g.map[p] = s
      BY <1>2, <2>3
    <3>2. m # s => ~(m \in Alive(h) /\ p \in Named(h, m))
      BY <1>1, <1>8, <2>2, <2>3 DEF Returning
    <3> QED BY <1>1, <1>4, <1>8, <1>9, <2>3, <3>1, <3>2
  <2>4. CASE p \notin Ends(h.span[s])
    <3>1. g.map[p] = h.map[p]
      BY <1>2, <2>4
    <3>2. h.map[p] = m => m \in Alive(h) /\ m # s /\ p \in Named(h, m)
      BY <1>1, <2>2 DEF Returning
    <3>3. m \in Alive(h) /\ m # s /\ p \in Named(h, m) => h.map[p] = m
      BY DEF Returning
    <3> QED BY <1>4, <1>8, <1>9, <2>4, <3>1, <3>2, <3>3
  <2> QED BY <2>3, <2>4
<1>11. \A m \in Spans : m \in Out(g) <=> m \in Out(h) /\ m # s
  BY <1>2, <1>4 DEF Out
<1> QED BY <1>6, <1>7, <1>10, <1>11 DEF PagesKept

\* What a caller of ReleaseSpanToPageCache can count on: page cache g is h with
\* span s returned, unless s was merged with one that was not.
TakesBack(h, g, s) ==
  /\ g \in PageCache
  /\ ~g.wild => /\ PagesKept(g, {})
                /\ \A m \in Spans : m \in Out(g) <=> m \in Out(h) /\ m # s
                /\ \A m \in Out(g) : g.span[m] = h.span[m]
  /\ g.wild => \E m \in Out(h) : m # s /\ ~h.span[m].used

\* A span too long for the lists goes back to the system.
LEMMA FreedKept ==
  ASSUME NEW h \in PageCache, PagesKept(h, {}), NEW s \in Out(h), ~h.wild, NEW g,
         g = [Unmapped(h, s) EXCEPT !.span[s] = None, !.mem = @ \ PagesOf(h.span[s])]
  PROVE TakesBack(h, g, s)
<1> DEFINE E == PagesOf(h.span[s])
           u == Unmapped(h, s)
           f == WithSpan(u, s, None)
           M == f.mem \ E
<1>1. /\ u \in PageCache /\ u.span = h.span /\ u.listed = h.listed
      /\ u.mem = h.mem /\ u.brk = h.brk /\ u.wild = h.wild
      /\ \A p \in Pages : u.map[p] = IF p \in E THEN None ELSE h.map[p]
  <2>1. u = SetMap(h, E, None) /\ None \in Spans \cup {None}
    BY DEF Unmapped
  <2> HIDE DEF E
  <2>2. /\ SetMap(h, E, None) \in PageCache
        /\ SetMap(h, E, None).span = h.span /\ SetMap(h, E, None).listed = h.listed
        /\ SetMap(h, E, None).mem = h.mem /\ SetMap(h, E, None).brk = h.brk
        /\ SetMap(h, E, None).wild = h.wild
        /\ \A p \in Pages : SetMap(h, E, None).map[p] = IF p \in E THEN None ELSE h.map[p]
    BY <2>1, SetMapIs
  <2> HIDE DEF u
  <2> QED BY <2>1, <2>2
<1>2. None \notin Spans /\ s \in Alive(h) /\ s \in Spans /\ Named(h, s) = E /\ s \notin h.listed
  BY NoneAssumption DEF Out, Alive, Named, Spans, Pages
<1>3. /\ f \in PageCache /\ f.span[s] = None /\ \A m \in Spans : m # s => f.span[m] = u.span[m]
      /\ f.listed = u.listed /\ f.map = u.map /\ f.mem = u.mem /\ f.brk = u.brk
      /\ f.wild = u.wild
  <2>1. None \in Span \cup {None}
    OBVIOUS
  <2> HIDE DEF u
  <2> QED BY <1>1, <1>2, <2>1, WithSpanIs
<1>4. g = [f EXCEPT !.mem = M]
  <2> HIDE DEF u, E
  <2> QED BY DEF WithSpan, u, E
<1>5. /\ g \in PageCache /\ g.span = f.span /\ g.listed = f.listed /\ g.map = f.map
      /\ g.mem = M /\ g.brk = f.brk /\ g.wild = f.wild
  <2>1. M \in SUBSET Pages
    BY <1>3, PageCacheType
  <2> HIDE DEF f, M
  <2> QED BY <1>3, <1>4, <2>1 DEF PageCache
<1> HIDE DEF f, u
<1>6. /\ g.listed = h.listed /\ g.mem = h.mem \ E /\ g.brk = h.brk /\ ~g.wild /\ g.span[s] = None
      /\ \A m \in Spans : m # s => g.span[m] = h.span[m]
      /\ \A p \in Pages : g.map[p] = IF p \in E THEN None ELSE h.map[p]
  BY <1>1, <1>3, <1>5
<1>7. \A m \in Spans : m \in Alive(g) <=> m \in Alive(h) /\ m # s
  BY <1>2, <1>6 DEF Alive
<1>8. \A m \in Alive(g) : m \in Spans /\ m \in Alive(h) /\ m # s /\ g.span[m] = h.span[m]
  BY <1>6, <1>7 DEF Alive
<1>9. Tiled(h) /\ ListsKept(h) /\ MapTrue(h, {})
  BY DEF PagesKept
<1>10. \A m \in Alive(g) : PagesOf(h.span[m]) \cap E = {}
  <2>1. SUFFICES ASSUME NEW m \in Alive(g), NEW p \in PagesOf(h.span[m]), p \in E PROVE FALSE
    OBVIOUS
  <2>2. Apart(h.span[m], h.span[s])
    BY <1>2, <1>8, <1>9 DEF Tiled
  <2>3. /\ h.span[s].page \in Nat /\ h.span[s].npage \in Nat
        /\ h.span[m].page \in Nat /\ h.span[m].npage \in Nat
    BY <1>2, <1>8, SpanType
  <2> QED BY <2>1, <2>2, <2>3 DEF Apart, PagesOf
<1>11. Tiled(g)
  <2>1. \A r, m \in Alive(g) : r # m => Apart(g.span[r], g.span[m])
    BY <1>8, <1>9 DEF Tiled
  <2>2. \A m \in Alive(g) : g.span[m].npage >= 1 /\ PagesOf(g.span[m]) \subseteq g.mem
    BY <1>6, <1>8, <1>9, <1>10 DEF Tiled
  <2>3. ASSUME NEW p \in g.mem PROVE \E m \in Alive(g) : p \in PagesOf(g.span[m])
    <3>1. PICK m \in Alive(h) : p \in PagesOf(h.span[m])
      BY <1>6, <1>9 DEF Tiled
    <3>2. m # s /\ m \in Spans
      BY <1>6, <3>1 DEF Alive
    <3>3. m \in Alive(g)
      BY <1>7, <3>2
    <3> QED BY <1>8, <3>1, <3>3
  <2>4. g.brk >= 1 /\ \A p \in g.mem : p < g.brk
    BY <1>6, <1>9 DEF Tiled
  <2> QED BY <2>1, <2>2, <2>3, <2>4 DEF Tiled
<1>12. ListsKept(g)
  <2>1. \A m \in h.listed : m \in Spans /\ m # s /\ m \in Alive(h) /\ g.span[m] = h.span[m]
    BY <1>2, <1>6, PageCacheType, <1>9 DEF ListsKept
  <2> QED BY <1>6, <1>7, <1>9, <2>1 DEF ListsKept
<1>13. MapTrue(g, {})
  <2>1. SUFFICES ASSUME NEW p \in Pages, NEW m \in Spans
                 PROVE /\ g.map[p] = m => m \in Alive(g) /\ p \in Named(g, m)
                       /\ m \in Alive(g) /\ p \in Named(g, m) => g.map[p] = m
    BY DEF MapTrue
  <2>2. m # s => Named(g, m) = Named(h, m)
    BY <1>6 DEF Named
  <2>3. h.map[p] = m <=> m \in Alive(h) /\ p \in Named(h, m)
    BY <1>9 DEF MapTrue
  <2>4. h.map[p] = s <=> p \in E
    BY <1>2, <1>9 DEF MapTrue
  <2> QED BY <1>2, <1>6, <1>7, <2>2, <2>3, <2>4
<1>14. \A m \in Spans : m \in Out(g) <=> m \in Out(h) /\ m # s
  BY <1>6, <1>7 DEF Out
<1>15. \A m \in Out(g) : g.span[m] = h.span[m]
  BY <1>8 DEF Out
<1> QED BY <1>5, <1>6, <1>11, <1>12, <1>13, <1>14, <1>15 DEF TakesBack, PagesKept

\* A span comes back to the page cache, and no other.  (ReleaseSpanToPageCache)
LEMMA Released ==
  ASSUME NEW h \in PageCache, PagesKept(h, {}), NEW s \in Out(h), ~h.wild, h.span[s].free = {}
  PROVE TakesBack(h, ReleaseSpanToPageCache(h, s), s)
<1> DEFINE u == Unmapped(h, s)
           b == MergedWith("before", u, s)
           a == MergedWith("after", b, s)
           g == ReleaseSpanToPageCache(h, s)
<1>1. CASE h.span[s].npage > MaxSpan
  <2>1. g = [u EXCEPT !.span[s] = None, !.mem = @ \ PagesOf(h.span[s])]
    BY <1>1 DEF ReleaseSpanToPageCache
  <2> HIDE DEF g
  <2> QED BY <2>1, FreedKept DEF g
<1>2. CASE ~(h.span[s].npage > MaxSpan)
  <2>1. g = MapEnds([a EXCEPT !.listed = @ \cup {s}, !.span[s].used = FALSE], s)
    BY <1>2 DEF ReleaseSpanToPageCache
  <2>2. h.span[s].npage <= MaxSpan
    <3>1. h.span[s].npage \in Nat /\ MaxSpan \in Nat
      BY SpanType, SizesAssumption DEF Out
    <3> QED BY <1>2, <3>1
  <2>3. Returning(u, s) /\ Absorbed(h, u, s)
    BY <2>2, UnmappedReturns
  <2> HIDE DEF u
  <2>4. Returning(b, s) /\ Absorbed(h, b, s)
    BY <2>3, MergedWithKept
  <2> HIDE DEF b
  <2>5. Returning(a, s) /\ Absorbed(h, a, s)
    BY <2>4, MergedWithKept
  <2> HIDE DEF a, g
  <2>6. ListedInto(a, g, s)
    <3>1. a \in PageCache /\ s \in Alive(a)
      BY <2>5 DEF Returning, Out
    <3> QED BY <2>1, <3>1, ListedIs
  <2>7. ~a.wild => PagesKept(g, {}) /\ \A m \in Spans : m \in Out(g) <=> m \in Out(a) /\ m # s
    BY <2>5, <2>6, ListedKept
  <2>8. /\ g \in PageCache /\ g.wild = a.wild
        /\ \A m \in Spans : m # s => g.span[m] = a.span[m]
    BY <2>6 DEF ListedInto
  <2>9. /\ \A m \in Out(a) : m # s => m \in Out(h) /\ a.span[m] = h.span[m]
        /\ ~a.wild => \A m \in Out(h) : m \in Out(a)
        /\ a.wild => \E m \in Out(h) : m # s /\ ~h.span[m].used
    BY <2>5 DEF Absorbed
  <2>10. \A m \in Out(g) : m \in Spans
    BY DEF Out, Alive
  <2> QED BY <2>7, <2>8, <2>9, <2>10 DEF TakesBack, g
<1> QED BY <1>1, <1>2

-----------------------------------------------------------------------------
(* A span that is handed out, and the blocks in it. *)

\* Page cache g is h, but for what a span object says of its blocks.
Refilled(h, g, s) ==
  /\ g \in PageCache /\ g.listed = h.listed /\ g.map = h.map /\ g.mem = h.mem
  /\ g.brk = h.brk /\ g.wild = h.wild
  /\ g.span[s] \in Span /\ g.span[s].page = h.span[s].page /\ g.span[s].npage = h.span[s].npage
  /\ \A m \in Spans : m # s => g.span[m] = h.span[m]

\* The page cache does not mind.
LEMMA RefilledKept ==
  ASSUME NEW h \in PageCache, PagesKept(h, {}), NEW s \in Out(h), NEW g, Refilled(h, g, s)
  PROVE PagesKept(g, {}) /\ Alive(g) = Alive(h) /\ Out(g) = Out(h)
<1>1. s \in Spans /\ s \in Alive(h) /\ s \notin h.listed
  BY DEF Out, Alive
<1>2. /\ g.listed = h.listed /\ g.map = h.map /\ g.mem = h.mem /\ g.brk = h.brk
      /\ g.span[s] # None /\ \A m \in Spans : m # s => g.span[m] = h.span[m]
      /\ g.span[s].page = h.span[s].page /\ g.span[s].npage = h.span[s].npage
  BY NoneAssumption DEF Refilled
<1>3. Alive(g) = Alive(h)
  BY <1>1, <1>2 DEF Alive
<1>4. Out(g) = Out(h)
  BY <1>2, <1>3 DEF Out
<1>5. \A m \in Alive(h) : /\ m \in Spans /\ g.span[m].page = h.span[m].page
                          /\ g.span[m].npage = h.span[m].npage
                          /\ PagesOf(g.span[m]) = PagesOf(h.span[m])
                          /\ Ends(g.span[m]) = Ends(h.span[m])
  BY <1>2 DEF Alive, PagesOf, Ends
<1>6. Tiled(g)
  <2>1. Tiled(h)
    BY DEF PagesKept
  <2>2. \A r, m \in Alive(g) : r # m => Apart(g.span[r], g.span[m])
    <3>1. SUFFICES ASSUME NEW r \in Alive(h), NEW m \in Alive(h), r # m
                   PROVE Apart(g.span[r], g.span[m])
      BY <1>3
    <3>2. Apart(h.span[r], h.span[m])
      BY <2>1, <3>1 DEF Tiled
    <3> QED BY <1>5, <3>2 DEF Apart
  <2>3. \A m \in Alive(g) : g.span[m].npage >= 1 /\ PagesOf(g.span[m]) \subseteq g.mem
    BY <1>2, <1>3, <1>5, <2>1 DEF Tiled
  <2>4. \A p \in g.mem : \E m \in Alive(g) : p \in PagesOf(g.span[m])
    BY <1>2, <1>3, <1>5, <2>1 DEF Tiled
  <2>5. g.brk >= 1 /\ \A p \in g.mem : p < g.brk
    BY <1>2, <2>1 DEF Tiled
  <2> QED BY <2>2, <2>3, <2>4, <2>5 DEF Tiled
<1>7. ListsKept(g)
  <2>1. \A m \in h.listed : m \in Spans /\ m # s /\ g.span[m] = h.span[m]
    BY <1>1, <1>2, PageCacheType
  <2> QED BY <1>2, <1>3, <2>1 DEF PagesKept, ListsKept
<1>8. \A m \in Alive(h) : Named(g, m) = Named(h, m)
  BY <1>2, <1>5 DEF Named
<1>9. MapTrue(g, {})
  <2>1. MapTrue(h, {})
    BY DEF PagesKept
  <2>2. SUFFICES ASSUME NEW p \in Pages, NEW m \in Spans
                 PROVE /\ h.map[p] = m => m \in Alive(h) /\ p \in Named(g, m)
                       /\ m \in Alive(h) /\ p \in Named(g, m) => h.map[p] = m
    BY <1>2, <1>3 DEF MapTrue
  <2> QED BY <1>8, <2>1 DEF MapTrue
<1> QED BY <1>3, <1>4, <1>6, <1>7, <1>9 DEF PagesKept

\* What setting the free list and the count of a span changes.
LEMMA RefilledIs ==
  ASSUME NEW h \in PageCache, NEW s \in Alive(h), NEW free \in SUBSET Nat, NEW count \in Nat
  PROVE LET g == [h EXCEPT !.span[s].free = free, !.span[s].count = count]
        IN  /\ Refilled(h, g, s) /\ g.span[s].free = free /\ g.span[s].count = count
            /\ g.span[s].class = h.span[s].class /\ (g.span[s].used <=> h.span[s].used)
<1> DEFINE k == h.span[s]
           v == [k EXCEPT !.free = free, !.count = count]
           w == [page |-> k.page, npage |-> k.npage, free |-> free, count |-> count,
                 class |-> k.class, used |-> k.used]
           f == WithSpan(h, s, v)
           g == [h EXCEPT !.span[s].free = free, !.span[s].count = count]
<1>1. s \in Spans /\ k \in Span
  BY SpanType
<1>2. v = w
  <2> DEFINE x == [k EXCEPT !.free = free]
  <2>1. x = [page |-> k.page, npage |-> k.npage, free |-> free, count |-> k.count,
             class |-> k.class, used |-> k.used]
    <3> HIDE DEF k
    <3> QED BY <1>1 DEF Span
  <2>2. x \in Span /\ x.page = k.page /\ x.npage = k.npage /\ x.free = free
        /\ x.class = k.class /\ x.used = k.used
    <3> HIDE DEF k, x
    <3> QED BY <1>1, <2>1 DEF Span
  <2>3. [x EXCEPT !.count = count] = [page |-> x.page, npage |-> x.npage, free |-> x.free,
             count |-> count, class |-> x.class, used |-> x.used]
    <3> HIDE DEF x
    <3> QED BY <2>2 DEF Span
  <2>4. v = [x EXCEPT !.count = count]
    OBVIOUS
  <2> HIDE DEF v, x, k
  <2> QED BY <2>2, <2>3, <2>4
<1>3. /\ w \in Span /\ w.page = k.page /\ w.npage = k.npage /\ w.free = free /\ w.count = count
      /\ w.class = k.class /\ w.used = k.used
  <2> HIDE DEF k
  <2> QED BY <1>1 DEF Span
<1>4. /\ f \in PageCache /\ f.span[s] = v /\ \A m \in Spans : m # s => f.span[m] = h.span[m]
      /\ f.listed = h.listed /\ f.map = h.map /\ f.mem = h.mem /\ f.brk = h.brk
      /\ f.wild = h.wild
  <2>1. v \in Span \cup {None}
    BY <1>2, <1>3
  <2> HIDE DEF v
  <2> QED BY <1>1, <2>1, WithSpanIs
<1>5. g = f
  <2>1. g = [h EXCEPT !.span[s] = [h.span[s] EXCEPT !.free = free, !.count = count]]
    BY <1>1 DEF PageCache
  <2> QED BY <2>1 DEF WithSpan
<1> HIDE DEF f, g, v, w
<1>6. Refilled(h, g, s)
  BY <1>2, <1>3, <1>4, <1>5 DEF Refilled
<1>7. /\ g.span[s].free = free /\ g.span[s].count = count
      /\ g.span[s].class = h.span[s].class /\ (g.span[s].used <=> h.span[s].used)
  BY <1>2, <1>3, <1>4, <1>5
<1> QED BY <1>6, <1>7 DEF g

\* What setting how a span is used changes.
LEMMA MarkedIs ==
  ASSUME NEW h \in PageCache, NEW s \in Alive(h), NEW used \in BOOLEAN
  PROVE LET g == [h EXCEPT !.span[s].used = used]
        IN  /\ Refilled(h, g, s) /\ g.span[s].free = h.span[s].free
            /\ (g.span[s].used <=> used)
<1> DEFINE k == h.span[s]
           v == [k EXCEPT !.used = used]
           g == [h EXCEPT !.span[s].used = used]
<1>1. s \in Spans /\ k \in Span
  BY SpanType
<1>2. v = [page |-> k.page, npage |-> k.npage, free |-> k.free, count |-> k.count,
           class |-> k.class, used |-> used]
  <2> HIDE DEF k
  <2> QED BY <1>1 DEF Span
<1>3. v \in Span /\ v.page = k.page /\ v.npage = k.npage /\ v.free = k.free /\ (v.used <=> used)
  <2> HIDE DEF k, v
  <2> QED BY <1>1, <1>2 DEF Span
<1>4. g = WithSpan(h, s, v)
  <2>1. g = [h EXCEPT !.span[s] = [h.span[s] EXCEPT !.used = used]]
    BY <1>1 DEF PageCache
  <2> QED BY <2>1 DEF WithSpan
<1> HIDE DEF g, v
<1>5. /\ g \in PageCache /\ g.span[s] = v /\ \A m \in Spans : m # s => g.span[m] = h.span[m]
      /\ g.listed = h.listed /\ g.map = h.map /\ g.mem = h.mem /\ g.brk = h.brk
      /\ g.wild = h.wild
  BY <1>1, <1>3, <1>4, WithSpanIs
<1>6. Refilled(h, g, s) /\ g.span[s].free = h.span[s].free /\ (g.span[s].used <=> used)
  BY <1>3, <1>5 DEF Refilled
<1> QED BY <1>6 DEF g

\* What MallocPages writes into its span.
LEMMA MadeLargeIs ==
  ASSUME NEW h \in PageCache, NEW s \in Alive(h)
  PROVE LET g == [h EXCEPT !.span[s].class = "large", !.span[s].count = 1, !.span[s].used = TRUE]
        IN  /\ Refilled(h, g, s) /\ g.span[s].free = h.span[s].free
            /\ g.span[s].class = "large" /\ g.span[s].used
<1> DEFINE k == h.span[s]
           x == [k EXCEPT !.class = "large"]
           y == [x EXCEPT !.count = 1]
           v == [y EXCEPT !.used = TRUE]
           g == [h EXCEPT !.span[s].class = "large", !.span[s].count = 1, !.span[s].used = TRUE]
<1>1. s \in Spans /\ k \in Span /\ "large" \in Classes \cup {"large", None} /\ 1 \in Nat /\ TRUE \in BOOLEAN
  BY SpanType
<1>2. /\ x \in Span /\ x.page = k.page /\ x.npage = k.npage /\ x.free = k.free
      /\ x.class = "large"
  <2>1. x = [page |-> k.page, npage |-> k.npage, free |-> k.free, count |-> k.count,
             class |-> "large", used |-> k.used]
    <3> HIDE DEF k
    <3> QED BY <1>1 DEF Span
  <2> HIDE DEF k, x
  <2> QED BY <1>1, <2>1 DEF Span
<1>3. /\ y \in Span /\ y.page = k.page /\ y.npage = k.npage /\ y.free = k.free
      /\ y.class = "large"
  <2>1. y = [page |-> x.page, npage |-> x.npage, free |-> x.free, count |-> 1,
             class |-> x.class, used |-> x.used]
    <3> HIDE DEF x
    <3> QED BY <1>2 DEF Span
  <2> HIDE DEF k, x, y
  <2> QED BY <1>2, <2>1 DEF Span
<1>4. /\ v \in Span /\ v.page = k.page /\ v.npage = k.npage /\ v.free = k.free
      /\ v.class = "large" /\ v.used
  <2> DEFINE U == TRUE
  <2>1. v = [page |-> y.page, npage |-> y.npage, free |-> y.free, count |-> y.count,
             class |-> y.class, used |-> U]
    <3>1. v = [y EXCEPT !.used = U]
      OBVIOUS
    <3> HIDE DEF v, y, U
    <3> QED BY <1>3, <3>1 DEF Span
  <2>2. U \in BOOLEAN
    OBVIOUS
  <2> HIDE DEF k, y, v, U
  <2>3. v \in Span
    BY <1>3, <2>1, <2>2 DEF Span
  <2>4. v.page = k.page /\ v.npage = k.npage /\ v.free = k.free /\ v.class = "large" /\ v.used = U
    BY <1>3, <2>1
  <2> QED BY <2>3, <2>4 DEF U
<1>5. g = WithSpan(h, s, v)
  <2>1. g = [h EXCEPT !.span[s] =
                [[[h.span[s] EXCEPT !.class = "large"] EXCEPT !.count = 1] EXCEPT !.used = TRUE]]
    BY <1>1 DEF PageCache
  <2> QED BY <2>1 DEF WithSpan
<1> HIDE DEF g, v
<1>6. /\ g \in PageCache /\ g.span[s] = v /\ \A m \in Spans : m # s => g.span[m] = h.span[m]
      /\ g.listed = h.listed /\ g.map = h.map /\ g.mem = h.mem /\ g.brk = h.brk
      /\ g.wild = h.wild
  BY <1>1, <1>4, <1>5, WithSpanIs
<1>7. /\ Refilled(h, g, s) /\ g.span[s].free = h.span[s].free
      /\ g.span[s].class = "large" /\ g.span[s].used
  BY <1>4, <1>6 DEF Refilled
<1> QED BY <1>7 DEF g

\* What Carve writes into its span.
LEMMA CarvedIs ==
  ASSUME NEW h \in PageCache, NEW s \in Alive(h), NEW c \in Classes
  PROVE LET g == [h EXCEPT !.span[s] = CarveSpan(@, c)]
        IN  /\ Refilled(h, g, s) /\ g.span[s].free = Carved(g.span[s], c)
            /\ g.span[s].count = 0 /\ g.span[s].class = c /\ g.span[s].used
<1> DEFINE k == h.span[s]
           F == Carved(k, c)
           U == TRUE
           x == [k EXCEPT !.class = c]
           y == [x EXCEPT !.count = 0]
           z == [y EXCEPT !.used = U]
           v == [z EXCEPT !.free = F]
           g == [h EXCEPT !.span[s] = CarveSpan(@, c)]
<1>1. /\ s \in Spans /\ k \in Span /\ c \in Classes \cup {"large", None} /\ U \in BOOLEAN
      /\ F \in SUBSET Nat
  <2>1. k.page \in Nat /\ k.npage \in Nat
    BY SpanType
  <2>2. F \in SUBSET Nat
    <3> HIDE DEF k
    <3> QED BY <2>1, CarvedFinite
  <2> QED BY <2>2, SpanType
<1> HIDE DEF U, F
<1>2. /\ x \in Span /\ x.page = k.page /\ x.npage = k.npage /\ x.class = c
  <2>1. x = [page |-> k.page, npage |-> k.npage, free |-> k.free, count |-> k.count,
             class |-> c, used |-> k.used]
    <3> HIDE DEF k
    <3> QED BY <1>1 DEF Span
  <2> HIDE DEF k, x
  <2> QED BY <1>1, <2>1 DEF Span
<1>3. /\ y \in Span /\ y.page = k.page /\ y.npage = k.npage /\ y.class = c /\ y.count = 0
  <2>1. y = [page |-> x.page, npage |-> x.npage, free |-> x.free, count |-> 0,
             class |-> x.class, used |-> x.used]
    <3> HIDE DEF x
    <3> QED BY <1>2 DEF Span
  <2> HIDE DEF k, x, y
  <2> QED BY <1>2, <2>1 DEF Span
<1>4. /\ z \in Span /\ z.page = k.page /\ z.npage = k.npage /\ z.class = c /\ z.count = 0
      /\ z.used = U
  <2>1. z = [page |-> y.page, npage |-> y.npage, free |-> y.free, count |-> y.count,
             class |-> y.class, used |-> U]
    <3> HIDE DEF y
    <3> QED BY <1>3 DEF Span
  <2> HIDE DEF k, y, z
  <2> QED BY <1>1, <1>3, <2>1 DEF Span
<1>5. /\ v \in Span /\ v.page = k.page /\ v.npage = k.npage /\ v.class = c /\ v.count = 0
      /\ v.used = U /\ v.free = F
  <2>1. v = [page |-> z.page, npage |-> z.npage, free |-> F, count |-> z.count,
             class |-> z.class, used |-> z.used]
    <3> HIDE DEF z
    <3> QED BY <1>4 DEF Span
  <2> HIDE DEF k, z, v
  <2> QED BY <1>1, <1>4, <2>1 DEF Span
<1>6. g = WithSpan(h, s, v)
  BY DEF CarveSpan, WithSpan, U, F
<1>7. Carved(v, c) = F
  <2> HIDE DEF v
  <2> QED BY <1>5 DEF Carved, F
<1> HIDE DEF g, v
<1>8. /\ g \in PageCache /\ g.span[s] = v /\ \A m \in Spans : m # s => g.span[m] = h.span[m]
      /\ g.listed = h.listed /\ g.map = h.map /\ g.mem = h.mem /\ g.brk = h.brk
      /\ g.wild = h.wild
  BY <1>1, <1>5, <1>6, WithSpanIs
<1>9. /\ Refilled(h, g, s) /\ g.span[s].free = Carved(g.span[s], c)
      /\ g.span[s].count = 0 /\ g.span[s].class = c /\ g.span[s].used
  BY <1>5, <1>7, <1>8 DEF Refilled, U
<1> QED BY <1>9 DEF g

\* The map finds the span of each block handed out.  (PageToSpan)
LEMMA HomeIs ==
  ASSUME NEW h \in PageCache, PagesKept(h, {}), NEW s \in Out(h)
  PROVE /\ \A b, c : b \in Carved(h.span[s], c) => b \in Nat /\ h.map[PageOf(b)] = s
        /\ FirstWord(h.span[s].page) \in Nat /\ h.map[PageOf(FirstWord(h.span[s].page))] = s
<1>1. s \in Spans /\ s \in Alive(h) /\ s \notin h.listed /\ Tiled(h) /\ MapTrue(h, {})
  BY DEF Out, Alive, PagesKept
<1>2. h.span[s].page \in Nat /\ h.span[s].npage \in Nat /\ h.span[s].npage >= 1
  BY <1>1, SpanType DEF Tiled
<1>3. \A p \in PagesOf(h.span[s]) : h.map[p] = s
  <2>1. PagesOf(h.span[s]) \subseteq Pages
    BY <1>1, PageCacheType DEF Tiled
  <2>2. Named(h, s) = PagesOf(h.span[s])
    BY <1>1 DEF Named
  <2> QED BY <1>1, <2>1, <2>2 DEF MapTrue
<1>4. ASSUME NEW b, NEW c, b \in Carved(h.span[s], c) PROVE b \in Nat /\ h.map[PageOf(b)] = s
  <2>1. b \in Nat /\ PageOf(b) \in PagesOf(h.span[s])
    BY <1>2, <1>4, CarvedInside
  <2> QED BY <1>3, <2>1
<1>5. FirstWord(h.span[s].page) \in Nat /\ PageOf(FirstWord(h.span[s].page)) = h.span[s].page
  BY <1>2, PageOfFirst
<1>6. h.span[s].page \in PagesOf(h.span[s])
  BY <1>2 DEF PagesOf
<1> QED BY <1>3, <1>4, <1>5, <1>6

\* A thread that went idle.
LEMMA IdleIs ==
  ASSUME AllocTypeOK, NEW t \in Threads, at' = [at EXCEPT ![t] = Idle]
  PROVE /\ at' \in [Threads -> [pc : Places, class : Classes \cup {None}, n : Nat,
                                span : Spans \cup {None}, blocks : SUBSET Nat]]
        /\ at'[t].pc = "idle" /\ at'[t].blocks = {}
        /\ \A u \in Threads : u # t => at'[u] = at[u]
<1>1. at' = [at EXCEPT ![t] = [pc |-> "idle", class |-> None, n |-> 0, span |-> None, blocks |-> {}]]
  BY DEF Idle
<1>2. "idle" \in Places /\ None \in Classes \cup {None} /\ 0 \in Nat /\ None \in Spans \cup {None}
      /\ {} \in SUBSET Nat
  BY DEF Places
<1>3. /\ at' \in [Threads -> [pc : Places, class : Classes \cup {None}, n : Nat,
                                span : Spans \cup {None}, blocks : SUBSET Nat]]
      /\ at'[t] = Idle /\ \A u \in Threads : u # t => at'[u] = at[u]
  BY <1>1, <1>2 DEF AllocTypeOK, Idle
<1> QED BY <1>3 DEF Idle

\* The values of the variables.
LEMMA StateType ==
  ASSUME AllocTypeOK
  PROVE /\ heap \in PageCache /\ config \in Scenarios
        /\ \A c \in Classes : central[c] \subseteq Spans
        /\ \A t \in Threads, c \in Classes :
             /\ cache[t][c] \subseteq Nat /\ maxSize[t][c] \in Nat /\ maxSize[t][c] >= 1
             /\ maxSize[t][c] <= MoveSize[c] + 1 /\ MoveSize[c] \in Nat /\ MoveSize[c] >= 2
        /\ \A t \in Threads : /\ at[t].pc \in Places /\ at[t].class \in Classes \cup {None}
                              /\ at[t].n \in Nat /\ at[t].span \in Spans \cup {None}
                              /\ at[t].blocks \subseteq Nat
        /\ \A o \in held : o.at \in Nat /\ o.size \in Nat /\ o = Block(o.at, o.size)
<1>1. \A c \in Classes : MoveSize[c] \in Nat /\ MoveSize[c] >= 2
  BY SizesAssumption
<1>2. \A t \in Threads, c \in Classes :
             /\ cache[t][c] \subseteq Nat /\ maxSize[t][c] \in Nat /\ maxSize[t][c] >= 1
             /\ maxSize[t][c] <= MoveSize[c] + 1
  BY <1>1 DEF AllocTypeOK
<1>3. \A t \in Threads : /\ at[t].pc \in Places /\ at[t].class \in Classes \cup {None}
                              /\ at[t].n \in Nat /\ at[t].span \in Spans \cup {None}
                              /\ at[t].blocks \subseteq Nat
  BY DEF AllocTypeOK
<1>4. \A o \in held : o.at \in Nat /\ o.size \in Nat /\ o = Block(o.at, o.size)
  BY DEF AllocTypeOK, Block
<1> QED BY <1>1, <1>2, <1>3, <1>4 DEF AllocTypeOK

-----------------------------------------------------------------------------
(* The steps that leave the page cache alone. *)

Sound == AllocTypeOK /\ CachesSized /\ Kept

\* The number of pages stays what it is.
LEMMA SameConfig ==
  ASSUME config' = config
  PROVE /\ Pages' = Pages /\ Spans' = Spans /\ PageCache' = PageCache
        /\ (Alive(heap))' = Alive(heap') /\ (Out(heap))' = Out(heap')
        /\ PagesKept(heap', {}) => (PagesKept(heap, {}))'
<1>1. Pages' = Pages /\ Spans' = Spans /\ PageCache' = PageCache
  BY DEF Pages, Spans, PageCache
<1>2. (Alive(heap))' = Alive(heap')
  BY <1>1 DEF Alive
<1>3. (Out(heap))' = Out(heap')
  BY <1>2 DEF Out
<1>4. ASSUME Tiled(heap') PROVE (Tiled(heap))'
  BY <1>2, <1>4 DEF Tiled
<1>5. ASSUME ListsKept(heap') PROVE (ListsKept(heap))'
  BY <1>2, <1>5 DEF ListsKept
<1>6. ASSUME MapTrue(heap', {}) PROVE (MapTrue(heap, {}))'
  BY <1>1, <1>2, <1>6 DEF MapTrue, Named
<1> QED BY <1>1, <1>2, <1>3, <1>4, <1>5, <1>6 DEF PagesKept

\* LockList takes a lock and nothing else.
LEMMA LockListKeeps ==
  ASSUME Sound, NEW t \in Threads, LockList(t)
  PROVE Sound'
<1>1. lock' = [lock EXCEPT ![at[t].class] = t]
  BY DEF LockList
<1>2. config' = config /\ heap' = heap /\ central' = central /\ cache' = cache
      /\ maxSize' = maxSize /\ at' = at /\ held' = held
  BY DEF LockList
<1>3. lock' \in [Classes -> Threads \cup {None}]
  BY <1>1 DEF Sound, AllocTypeOK
<1>4. AllocTypeOK'
  BY <1>2, <1>3, SameConfig DEF Sound, AllocTypeOK
<1>5. CachesSized'
  BY <1>2 DEF Sound, CachesSized
<1>6. PagesKept(heap, {})' /\ Out(heap)' = Out(heap) /\ Owned' = Owned
  BY <1>2, SameConfig DEF Sound, Kept, Owned, Owns
<1>7. SpansOwned' /\ FreeOwned' /\ OutUsed'
  BY <1>2, SameConfig DEF Sound, Kept, SpansOwned, FreeOwned, OutUsed, Owns
<1>8. InHand' /\ BlocksOnce'
  BY <1>2 DEF Sound, Kept, InHand, BlocksOnce
<1>9. BlocksTaken' /\ BlocksCounted'
  BY <1>2, <1>6 DEF Sound, Kept, BlocksTaken, BlocksCounted
<1> QED BY <1>4, <1>5, <1>6, <1>7, <1>8, <1>9 DEF Sound, Kept


\* A block that was taken is at home in a span of the list.
LEMMA TakenHome ==
  ASSUME Sound, NEW c \in Classes, NEW b, TakenFrom(central[c], heap.span, c, b)
  PROVE /\ b \in Nat /\ PageToSpan(b) \in central[c] /\ PageToSpan(b) \in Out(heap)
        /\ heap.span[PageToSpan(b)].class = c
        /\ b \in Carved(heap.span[PageToSpan(b)], c) /\ b \notin heap.span[PageToSpan(b)].free
<1>1. heap \in PageCache /\ PagesKept(heap, {}) /\ SpansOwned
  BY DEF Sound, Kept, AllocTypeOK
<1>2. PICK s \in central[c] : b \in Carved(heap.span[s], c) /\ b \notin heap.span[s].free
  BY DEF TakenFrom
<1>3. s \in Out(heap) /\ heap.span[s].class = c
  BY <1>1, <1>2 DEF SpansOwned
<1>4. b \in Nat /\ PageToSpan(b) = s
  BY <1>1, <1>2, <1>3, HomeIs DEF PageToSpan
<1> QED BY <1>2, <1>3, <1>4

\* And a large block is in a span handed out.
LEMMA LargeHome ==
  ASSUME Sound, NEW b, Large(Out(heap) \ Owned, heap.span, b)
  PROVE /\ b \in Nat /\ PageToSpan(b) \in Out(heap)
        /\ heap.span[PageToSpan(b)].class = "large" /\ b = FirstWord(heap.span[PageToSpan(b)].page)
        /\ PageToSpan(b) \notin Owned
<1>1. heap \in PageCache /\ PagesKept(heap, {})
  BY DEF Sound, Kept, AllocTypeOK
<1>2. PICK s \in Out(heap) \ Owned :
        heap.span[s].class = "large" /\ b = FirstWord(heap.span[s].page)
  BY DEF Large
<1>3. b \in Nat /\ PageToSpan(b) = s
  BY <1>1, <1>2, HomeIs DEF PageToSpan
<1> QED BY <1>2, <1>3

\* The program gets a block of the thread's own list.
LEMMA AllocateCachedKeeps ==
  ASSUME Sound, NEW t \in Threads, NEW c \in Classes, AllocateCached(t, c)
  PROVE Sound'
<1>1. PICK b \in cache[t][c] : /\ cache' = [cache EXCEPT ![t][c] = @ \ {b}]
                               /\ held' = held \cup {Block(b, BlockWords[c])}
  BY DEF AllocateCached
<1>2. config' = config /\ heap' = heap /\ central' = central /\ lock' = lock
      /\ maxSize' = maxSize /\ at' = at
  BY DEF AllocateCached
<1> DEFINE o == Block(b, BlockWords[c])
<1>3. b \in Nat /\ o \in [at : Nat, size : Nat] /\ o.at = b /\ o.size = BlockWords[c]
  BY SizesAssumption DEF Sound, AllocTypeOK, Block
<1> HIDE DEF o
<1>4. held' = held \cup {o}
  BY <1>1 DEF o
<1>5. /\ cache' \in [Threads -> [Classes -> SUBSET Nat]]
      /\ cache'[t][c] = cache[t][c] \ {b}
      /\ \A u \in Threads, d \in Classes : u # t \/ d # c => cache'[u][d] = cache[u][d]
      /\ \A u \in Threads, d \in Classes : \A x \in cache'[u][d] : x \in cache[u][d] /\ (x = b => u # t \/ d # c)
  BY <1>1 DEF Sound, AllocTypeOK
<1>6. AllocTypeOK'
  BY <1>2, <1>3, <1>4, <1>5, SameConfig DEF Sound, AllocTypeOK
<1>7. CachesSized'
  <2>1. SUFFICES ASSUME NEW u \in Threads, NEW d \in Classes
                 PROVE IsFiniteSet(cache'[u][d]) /\ Cardinality(cache'[u][d]) <= maxSize[u][d]
    BY <1>2 DEF CachesSized
  <2>2. IsFiniteSet(cache[u][d]) /\ Cardinality(cache[u][d]) <= maxSize[u][d] /\ maxSize[u][d] \in Nat
    BY StateType DEF Sound, CachesSized
  <2>3. cache'[u][d] \subseteq cache[u][d]
    BY <1>5
  <2>4. /\ IsFiniteSet(cache'[u][d]) /\ Cardinality(cache'[u][d]) <= Cardinality(cache[u][d])
        /\ Cardinality(cache'[u][d]) \in Nat /\ Cardinality(cache[u][d]) \in Nat
    BY <2>2, <2>3, FS_Subset, FS_CardinalityType
  <2> QED BY <2>2, <2>4
<1>8. PagesKept(heap, {})'
  BY <1>2, SameConfig DEF Sound, Kept
<1>9. SpansOwned' /\ FreeOwned' /\ OutUsed'
  BY <1>2, SameConfig DEF Sound, Kept, SpansOwned, FreeOwned, OutUsed, Owns
<1>10. InHand'
  <2>1. at[t].pc = "idle" /\ InHand
    BY DEF AllocateCached, Sound, Kept
  <2>2. SUFFICES ASSUME NEW u \in Threads
                 PROVE /\ at[u].pc \in {"fetch", "newspan", "carve", "push", "release"} => at[u].class \in Classes
                       /\ at[u].blocks # {} => at[u].pc \in {"release", "return"} /\ at[u].class \in Classes
                       /\ at[u].pc \in {"fetch", "newspan", "carve", "push"} =>
                            cache'[u][at[u].class] = {} /\ at[u].n <= maxSize[u][at[u].class]
    BY <1>2 DEF InHand
  <2>3. CASE u = t
    BY <2>1, <2>3 DEF InHand
  <2>4. CASE u # t
    BY <1>5, <2>1, <2>4 DEF InHand
  <2> QED BY <2>3, <2>4
<1>11. BlocksTaken'
  <2>1. BlocksTaken
    BY DEF Sound, Kept
  <2>2. TakenFrom(central[c], heap.span, c, b)
    BY <2>1 DEF BlocksTaken
  <2>3. \A u \in Threads, d \in Classes : \A x \in cache'[u][d] : TakenFrom(central[d], heap.span, d, x)
    BY <1>5, <2>1 DEF BlocksTaken
  <2>4. \A q \in held' :
         \/ \E d \in Classes : q.size = BlockWords[d] /\ TakenFrom(central[d], heap.span, d, q.at)
         \/ Large(Out(heap) \ Owned, heap.span, q.at)
    BY <1>3, <1>4, <2>1, <2>2 DEF BlocksTaken
  <2>5. Out(heap)' = Out(heap) /\ Owned' = Owned
    BY <1>2, SameConfig DEF Owned, Owns
  <2> QED BY <1>2, <2>1, <2>3, <2>4, <2>5 DEF BlocksTaken
<1>12. BlocksOnce'
  <2>1. BlocksOnce
    BY DEF Sound, Kept
  <2>2. \A u, v \in Threads, d, e \in Classes : \A x \in cache'[u][d] : x \in cache'[v][e] => u = v /\ d = e
    BY <1>5, <2>1 DEF BlocksOnce
  <2>3. \A u, v \in Threads, d \in Classes : \A x \in cache'[u][d] : x \notin at[v].blocks
    BY <1>5, <2>1 DEF BlocksOnce
  <2>4. \A q \in held' : \A u \in Threads : q.at \notin at[u].blocks /\ \A d \in Classes : q.at \notin cache'[u][d]
    <3>1. SUFFICES ASSUME NEW q \in held', NEW u \in Threads, NEW d \in Classes
                   PROVE q.at \notin at[u].blocks /\ q.at \notin cache'[u][d]
      OBVIOUS
    <3>2. CASE q \in held
      BY <1>5, <2>1, <3>2 DEF BlocksOnce
    <3>3. CASE q = o
      BY <1>3, <1>5, <2>1, <3>3 DEF BlocksOnce
    <3> QED BY <1>4, <3>2, <3>3
  <2>5. \A q, r \in held' : q.at = r.at => q = r
    <3>1. \A q \in held : q.at # b
      BY <2>1 DEF BlocksOnce
    <3> QED BY <1>3, <1>4, <2>1, <3>1 DEF BlocksOnce
  <2> QED BY <1>2, <2>1, <2>2, <2>3, <2>4, <2>5 DEF BlocksOnce
<1>13. BlocksCounted'
  <2>1. BlocksCounted
    BY DEF Sound, Kept
  <2>2. \A d \in Classes : \A x : Outside(cache, at, held, d, x) => Outside(cache', at, held', d, x)
    BY <1>3, <1>4, <1>5 DEF Outside
  <2> QED BY <1>2, <2>1, <2>2 DEF BlocksCounted
<1> QED BY <1>6, <1>7, <1>8, <1>9, <1>10, <1>11, <1>12, <1>13 DEF Sound, Kept

\* The smaller of two numbers.  (Min)
LEMMA MinOfTwo ==
  ASSUME NEW a \in Nat, NEW b \in Nat
  PROVE Min({a, b}) \in {a, b} /\ Min({a, b}) <= a /\ Min({a, b}) <= b
<1> DEFINE T == {a, b}
<1>1. T \in SUBSET Nat /\ T # {}
  OBVIOUS
<1>2. a \in T /\ b \in T
  OBVIOUS
<1> HIDE DEF T
<1>3. Min(T) \in T /\ \A y \in T : Min(T) <= y
  BY <1>1, MinIsLeast
<1>4. Min(T) <= a /\ Min(T) <= b
  BY <1>2, <1>3
<1> QED BY <1>3, <1>4 DEF T

\* A thread goes to the central cache.
LEMMA FetchFromCentralCacheKeeps ==
  ASSUME Sound, NEW t \in Threads, NEW c \in Classes, FetchFromCentralCache(t, c)
  PROVE Sound'
<1> DEFINE m == maxSize[t][c]
           n == Min({MoveSize[c], m})
<1>1. /\ maxSize' = [maxSize EXCEPT ![t][c] = NextMaxSize(c, m)]
      /\ at' = [at EXCEPT ![t] = [pc |-> "fetch", class |-> c, n |-> n, span |-> None, blocks |-> {}]]
      /\ at[t].pc = "idle" /\ cache[t][c] = {}
  BY DEF FetchFromCentralCache, Goto
<1>2. config' = config /\ heap' = heap /\ central' = central /\ lock' = lock
      /\ cache' = cache /\ held' = held
  BY DEF FetchFromCentralCache
<1>3. /\ m \in Nat /\ m >= 1 /\ m <= MoveSize[c] + 1 /\ MoveSize[c] \in Nat
      /\ NextMaxSize(c, m) \in 1 .. MoveSize[c] + 1 /\ m <= NextMaxSize(c, m)
  <2>1. m \in Nat /\ m >= 1 /\ m <= MoveSize[c] + 1 /\ MoveSize[c] \in Nat
    BY StateType DEF Sound
  <2> HIDE DEF m
  <2> QED BY <2>1 DEF NextMaxSize
<1>4. n \in Nat /\ n <= m
  BY <1>3, MinOfTwo
<1> HIDE DEF m, n
<1>5. /\ at' \in [Threads -> [pc : Places, class : Classes \cup {None}, n : Nat,
                              span : Spans \cup {None}, blocks : SUBSET Nat]]
      /\ at'[t].pc = "fetch" /\ at'[t].class = c /\ at'[t].n = n /\ at'[t].blocks = {}
      /\ \A u \in Threads : u # t => at'[u] = at[u]
  BY <1>1, <1>4 DEF Sound, AllocTypeOK, Places
<1>6. /\ maxSize' \in [Threads -> [Classes -> Nat]]
      /\ \A u \in Threads, d \in Classes : maxSize'[u][d] \in 1 .. MoveSize[d] + 1 /\ maxSize[u][d] <= maxSize'[u][d]
      /\ m <= maxSize'[t][c]
  <2> DEFINE M == NextMaxSize(c, m)
  <2>1. M \in Nat
    BY <1>3
  <2>2. m = maxSize[t][c]
    BY DEF m
  <2>3. M \in 1 .. MoveSize[c] + 1 /\ m <= M
    BY <1>3
  <2>4. maxSize' = [maxSize EXCEPT ![t][c] = M]
    BY <1>1
  <2> HIDE DEF M
  <2>5. /\ maxSize' \in [Threads -> [Classes -> Nat]] /\ maxSize'[t][c] = M
        /\ \A u \in Threads, d \in Classes : u # t \/ d # c => maxSize'[u][d] = maxSize[u][d]
    BY <2>1, <2>4 DEF Sound, AllocTypeOK
  <2>6. \A u \in Threads, d \in Classes : maxSize[u][d] \in 1 .. MoveSize[d] + 1 /\ maxSize[u][d] \in Nat
    BY StateType DEF Sound, AllocTypeOK
  <2> QED BY <2>2, <2>3, <2>5, <2>6
<1>7. AllocTypeOK'
  BY <1>2, <1>5, <1>6, SameConfig DEF Sound, AllocTypeOK
<1>8. CachesSized'
  <2>1. SUFFICES ASSUME NEW u \in Threads, NEW d \in Classes
                 PROVE IsFiniteSet(cache[u][d]) /\ Cardinality(cache[u][d]) <= maxSize'[u][d]
    BY <1>2 DEF CachesSized
  <2>2. /\ IsFiniteSet(cache[u][d]) /\ Cardinality(cache[u][d]) <= maxSize[u][d]
        /\ maxSize[u][d] \in Nat /\ maxSize[u][d] <= maxSize'[u][d] /\ maxSize'[u][d] \in Nat
    BY <1>6, StateType DEF Sound, CachesSized
  <2> QED BY <2>2, FS_CardinalityType
<1>9. Kept
  BY DEF Sound
<1>10. at[t].blocks = {}
  BY <1>1, <1>9 DEF Kept, InHand
<1>11. \A u \in Threads : (Owns(u))' <=> Owns(u)
  BY <1>1, <1>5 DEF Owns
<1>12. Out(heap)' = Out(heap) /\ Owned' = Owned
  <2>1. Out(heap)' = Out(heap)
    BY <1>2, SameConfig
  <2>2. \A u \in Threads : Owns(u) => at'[u].span = at[u].span
    BY <1>1, <1>5 DEF Owns
  <2> QED BY <1>11, <2>1, <2>2 DEF Owned
<1>13. PagesKept(heap, {})'
  BY <1>2, <1>9, SameConfig DEF Kept
<1>14. SpansOwned'
  <2>1. \A u \in Threads : at'[u].pc \in {"carve", "push", "return"} =>
          at[u].pc \in {"carve", "push", "return"} /\ at'[u].span = at[u].span
    BY <1>1, <1>5
  <2> QED BY <1>2, <1>9, <1>12, <2>1 DEF Kept, SpansOwned, Owns
<1>15. FreeOwned' /\ OutUsed'
  <2>1. \A u \in Threads : at'[u].pc = "push" <=> at[u].pc = "push"
    BY <1>1, <1>5
  <2>2. \A u \in Threads : at[u].pc = "push" => at'[u].span = at[u].span /\ at'[u].class = at[u].class
    BY <1>1, <1>5
  <2>3. Alive(heap)' = Alive(heap)
    BY <1>2, SameConfig
  <2>4. FreeOwned'
    BY <1>2, <1>9, <2>1, <2>2, <2>3 DEF Kept, FreeOwned
  <2> QED BY <1>2, <1>9, <1>12, <2>4 DEF Kept, OutUsed
<1>16. InHand'
  <2>1. SUFFICES ASSUME NEW u \in Threads
                 PROVE /\ at'[u].pc \in {"fetch", "newspan", "carve", "push", "release"} => at'[u].class \in Classes
                       /\ at'[u].blocks # {} => at'[u].pc \in {"release", "return"} /\ at'[u].class \in Classes
                       /\ at'[u].pc \in {"fetch", "newspan", "carve", "push"} =>
                            cache[u][at'[u].class] = {} /\ at'[u].n <= maxSize'[u][at'[u].class]
    BY <1>2 DEF InHand
  <2>2. CASE u = t
    BY <1>1, <1>3, <1>4, <1>5, <1>6, <2>2
  <2>3. CASE u # t
    <3>1. at'[u] = at[u] /\ at[u].n \in Nat
      BY <1>5, <2>3, StateType DEF Sound
    <3>2. \A d \in Classes : maxSize[u][d] <= maxSize'[u][d] /\ maxSize[u][d] \in Nat /\ maxSize'[u][d] \in Nat
      BY <1>6, StateType DEF Sound
    <3> QED BY <1>9, <3>1, <3>2 DEF Kept, InHand
  <2> QED BY <2>2, <2>3
<1>17. \A u \in Threads : at'[u].blocks = at[u].blocks /\ (at[u].blocks # {} => at'[u] = at[u])
  BY <1>5, <1>10
<1>18. BlocksTaken'
  BY <1>2, <1>9, <1>12, <1>17 DEF Kept, BlocksTaken
<1>19. BlocksOnce'
  BY <1>2, <1>9, <1>17 DEF Kept, BlocksOnce
<1>20. BlocksCounted'
  <2>1. \A d \in Classes : \A x : Outside(cache, at, held, d, x) => Outside(cache, at', held, d, x)
    BY <1>17 DEF Outside
  <2> QED BY <1>2, <1>9, <2>1 DEF Kept, BlocksCounted
<1> QED BY <1>7, <1>8, <1>13, <1>14, <1>15, <1>16, <1>18, <1>19, <1>20 DEF Sound, Kept

\* A block above MAX_BYTES comes back.
LEMMA DeletePagesKeeps ==
  ASSUME Sound, NEW t \in Threads, NEW b \in held, DeletePages(t, b)
  PROVE Sound'
<1> DEFINE s == PageToSpan(b.at)
<1>1. /\ at' = [at EXCEPT ![t] = [pc |-> "return", class |-> None, n |-> 0, span |-> s, blocks |-> {}]]
      /\ at[t].pc = "idle" /\ held' = held \ {b} /\ heap.span[s].class = "large"
  BY DEF DeletePages, Goto
<1>2. config' = config /\ heap' = heap /\ central' = central /\ lock' = lock
      /\ cache' = cache /\ maxSize' = maxSize
  BY DEF DeletePages
<1>3. Kept
  BY DEF Sound
<1>4. /\ s \in Out(heap) /\ b.at = FirstWord(heap.span[s].page) /\ s \notin Owned
      /\ \A c \in Classes : s \notin central[c]
  <2>1. \A c \in Classes : ~TakenFrom(central[c], heap.span, c, b.at)
    BY <1>1, TakenHome, NoneAssumption
  <2>2. Large(Out(heap) \ Owned, heap.span, b.at)
    BY <1>3, <2>1 DEF Kept, BlocksTaken
  <2>3. s \in Out(heap) /\ b.at = FirstWord(heap.span[s].page) /\ s \notin Owned
    BY <2>2, LargeHome
  <2>4. \A c \in Classes : s \notin central[c]
    BY <1>1, <1>3, NoneAssumption DEF Kept, SpansOwned
  <2> QED BY <2>3, <2>4
<1>5. s \in Spans
  BY <1>4 DEF Out, Alive
<1> HIDE DEF s
<1>6. /\ at' \in [Threads -> [pc : Places, class : Classes \cup {None}, n : Nat,
                              span : Spans \cup {None}, blocks : SUBSET Nat]]
      /\ at'[t].pc = "return" /\ at'[t].span = s /\ at'[t].blocks = {}
      /\ \A u \in Threads : u # t => at'[u] = at[u]
  BY <1>1, <1>5 DEF Sound, AllocTypeOK, Places
<1>7. AllocTypeOK'
  BY <1>1, <1>2, <1>6, SameConfig DEF Sound, AllocTypeOK
<1>8. CachesSized'
  BY <1>2 DEF Sound, CachesSized
<1>9. at[t].blocks = {}
  BY <1>1, <1>3 DEF Kept, InHand
<1>10. \A u \in Threads : (Owns(u))' <=> Owns(u) \/ u = t
  BY <1>6 DEF Owns
<1>11. Out(heap)' = Out(heap) /\ Alive(heap)' = Alive(heap)
  BY <1>2, SameConfig
<1>12. Owned' = Owned \cup {s}
  <2>1. \A u \in Threads : Owns(u) => u # t /\ at'[u].span = at[u].span
    BY <1>1, <1>6 DEF Owns
  <2> QED BY <1>6, <1>10, <2>1 DEF Owned
<1>13. PagesKept(heap, {})'
  BY <1>2, <1>3, SameConfig DEF Kept
<1>14. SpansOwned'
  <2>1. \A c \in Classes : \A r \in central[c] : r \in Out(heap) /\ heap.span[r].class = c
    BY <1>3 DEF Kept, SpansOwned
  <2>2. \A u \in Threads : (Owns(u))' =>
           at'[u].span \in Out(heap) /\ \A c \in Classes : at'[u].span \notin central[c]
    BY <1>3, <1>4, <1>6, <1>10 DEF Kept, SpansOwned
  <2>3. \A u \in Threads : u # t /\ Owns(u) => at'[u].span # s
    BY <1>4, <1>6 DEF Owned
  <2>4. \A u, v \in Threads : (Owns(u))' /\ (Owns(v))' /\ at'[u].span = at'[v].span => u = v
    BY <1>3, <1>6, <1>10, <2>3 DEF Kept, SpansOwned
  <2> QED BY <1>2, <1>11, <2>1, <2>2, <2>4 DEF SpansOwned, Owns
<1>15. FreeOwned' /\ OutUsed'
  <2>1. \A u \in Threads : at'[u].pc = "push" <=> at[u].pc = "push"
    BY <1>1, <1>6
  <2>2. \A u \in Threads : at[u].pc = "push" => at'[u].span = at[u].span /\ at'[u].class = at[u].class
    BY <1>1, <1>6
  <2>3. FreeOwned'
    BY <1>2, <1>3, <1>11, <2>1, <2>2 DEF Kept, FreeOwned
  <2> QED BY <1>2, <1>3, <1>11, <2>3 DEF Kept, OutUsed
<1>16. InHand'
  <2>1. SUFFICES ASSUME NEW u \in Threads
                 PROVE /\ at'[u].pc \in {"fetch", "newspan", "carve", "push", "release"} => at'[u].class \in Classes
                       /\ at'[u].blocks # {} => at'[u].pc \in {"release", "return"} /\ at'[u].class \in Classes
                       /\ at'[u].pc \in {"fetch", "newspan", "carve", "push"} =>
                            cache[u][at'[u].class] = {} /\ at'[u].n <= maxSize[u][at'[u].class]
    BY <1>2 DEF InHand
  <2>2. CASE u = t
    BY <1>6, <2>2
  <2>3. CASE u # t
    BY <1>3, <1>6, <2>3 DEF Kept, InHand
  <2> QED BY <2>2, <2>3
<1>17. \A u \in Threads : at'[u].blocks = at[u].blocks /\ (at[u].blocks # {} => at'[u] = at[u])
  BY <1>6, <1>9
<1>18. BlocksTaken'
  <2>1. \A q \in held' :
         \/ \E d \in Classes : q.size = BlockWords[d] /\ TakenFrom(central[d], heap.span, d, q.at)
         \/ Large(Out(heap) \ (Owned \cup {s}), heap.span, q.at)
    <3>1. SUFFICES ASSUME NEW q \in held, q # b, Large(Out(heap) \ Owned, heap.span, q.at)
                   PROVE Large(Out(heap) \ (Owned \cup {s}), heap.span, q.at)
      BY <1>1, <1>3 DEF Kept, BlocksTaken
    <3>2. PICK r \in Out(heap) \ Owned : heap.span[r].class = "large" /\ q.at = FirstWord(heap.span[r].page)
      BY <3>1 DEF Large
    <3>3. q.at # b.at
      BY <1>3, <3>1 DEF Kept, BlocksOnce
    <3>4. r # s
      BY <1>4, <3>2, <3>3
    <3> QED BY <3>2, <3>4 DEF Large
  <2> QED BY <1>2, <1>3, <1>11, <1>12, <1>17, <2>1 DEF Kept, BlocksTaken
<1>19. BlocksOnce'
  BY <1>1, <1>2, <1>3, <1>17 DEF Kept, BlocksOnce
<1>20. BlocksCounted'
  <2>1. ASSUME NEW c \in Classes, NEW r \in central[c], NEW x \in Carved(heap.span[r], c)
        PROVE x # b.at
    <3>1. r \in Out(heap) /\ r # s
      BY <1>3, <1>4 DEF Kept, SpansOwned
    <3>2. heap.map[PageOf(x)] = r
      BY <1>3, <3>1, HomeIs DEF Sound, Kept, AllocTypeOK
    <3> QED BY <3>1, <3>2 DEF s, PageToSpan
  <2>2. \A c \in Classes : \A x : x # b.at /\ Outside(cache, at, held, c, x) => Outside(cache, at', held', c, x)
    BY <1>1, <1>17 DEF Outside
  <2>3. \A c \in Classes : \A r \in central[c] : \A x \in Carved(heap.span[r], c) \ heap.span[r].free :
          Outside(cache, at', held', c, x)
    BY <1>3, <2>1, <2>2 DEF Kept, BlocksCounted
  <2> QED BY <1>2, <1>3, <2>3 DEF Kept, BlocksCounted
<1> QED BY <1>7, <1>8, <1>13, <1>14, <1>15, <1>16, <1>18, <1>19, <1>20 DEF Sound, Kept

\* A block comes back to the thread's list, and those it has too many go on.
LEMMA DeAllocateKeeps ==
  ASSUME Sound, NEW t \in Threads, NEW b \in held, DeAllocate(t, b)
  PROVE Sound'
<1> DEFINE c == heap.span[PageToSpan(b.at)].class
           blocks == cache[t][c] \cup {b.at}
           max == maxSize[t][c]
<1>1. /\ c \in Classes /\ at[t].pc = "idle" /\ held' = held \ {b}
      /\ config' = config /\ heap' = heap /\ central' = central /\ lock' = lock
      /\ maxSize' = maxSize
  BY DEF DeAllocate
<1>2. PICK out \in SUBSET blocks :
        /\ cache' = [cache EXCEPT ![t][c] = blocks \ out]
        /\ IF TooLong(t, c, blocks)
           THEN Cardinality(out) = max /\ Goto(t, "release", c, 0, None, out)
           ELSE out = {} /\ UNCHANGED at
  <2>1. CASE TooLong(t, c, blocks)
    BY <2>1 DEF DeAllocate, kSubset
  <2>2. CASE ~TooLong(t, c, blocks)
    <3>1. cache' = [cache EXCEPT ![t][c] = blocks] /\ UNCHANGED at
      BY <2>2 DEF DeAllocate
    <3>2. blocks \ {} = blocks
      OBVIOUS
    <3>3. {} \in SUBSET blocks
      OBVIOUS
    <3> HIDE DEF blocks, c
    <3> QED BY <2>2, <3>1, <3>2, <3>3
  <2> QED BY <2>1, <2>2
<1>3. Kept /\ CachesSized
  BY DEF Sound
<1>4. b.at \in Nat /\ TakenFrom(central[c], heap.span, c, b.at)
  <2>1. ~Large(Out(heap) \ Owned, heap.span, b.at)
    BY <1>1, LargeHome, NoneAssumption
  <2>2. PICK d \in Classes : TakenFrom(central[d], heap.span, d, b.at)
    BY <1>3, <2>1 DEF Kept, BlocksTaken
  <2>3. d = c /\ b.at \in Nat
    BY <2>2, TakenHome
  <2> QED BY <2>2, <2>3
<1> HIDE DEF c
<1>5. /\ \A u \in Threads, d \in Classes : b.at \notin cache[u][d]
      /\ \A u \in Threads : b.at \notin at[u].blocks
  BY <1>3 DEF Kept, BlocksOnce
<1>6. cache[t][c] \subseteq Nat /\ blocks \subseteq Nat /\ out \subseteq Nat
  BY <1>1, <1>4, StateType DEF Sound
<1>7. at[t].blocks = {}
  BY <1>1, <1>3 DEF Kept, InHand
<1>8. /\ at' \in [Threads -> [pc : Places, class : Classes \cup {None}, n : Nat,
                              span : Spans \cup {None}, blocks : SUBSET Nat]]
      /\ at'[t].blocks = out /\ at'[t].pc \in {"idle", "release"}
      /\ out # {} => at'[t].pc = "release"
      /\ at'[t].pc = "release" => at'[t].class = c
      /\ \A u \in Threads : u # t => at'[u] = at[u]
  <2> HIDE DEF blocks, max
  <2>1. CASE TooLong(t, c, blocks)
    <3>1. at' = [at EXCEPT ![t] = [pc |-> "release", class |-> c, n |-> 0, span |-> None, blocks |-> out]]
      BY <1>2, <2>1 DEF Goto
    <3> QED BY <1>1, <1>6, <3>1 DEF Sound, AllocTypeOK, Places
  <2>2. CASE ~TooLong(t, c, blocks)
    <3>1. at' = at /\ out = {}
      BY <1>2, <2>2
    <3> QED BY <1>1, <1>7, <3>1 DEF Sound, AllocTypeOK
  <2> QED BY <2>1, <2>2
<1>9. /\ cache' \in [Threads -> [Classes -> SUBSET Nat]]
      /\ cache'[t][c] = blocks \ out
      /\ \A u \in Threads, d \in Classes : u # t \/ d # c => cache'[u][d] = cache[u][d]
  <2> HIDE DEF blocks
  <2> QED BY <1>1, <1>2, <1>6 DEF Sound, AllocTypeOK
<1>10. Cardinality(blocks \ out) <= max /\ IsFiniteSet(blocks \ out)
  <2>1. /\ IsFiniteSet(cache[t][c]) /\ Cardinality(cache[t][c]) <= max
        /\ max \in Nat /\ max >= 1 /\ Cardinality(cache[t][c]) \in Nat
    BY <1>1, <1>3, StateType, FS_CardinalityType DEF Sound, CachesSized
  <2>2. IsFiniteSet(blocks) /\ Cardinality(blocks) = Cardinality(cache[t][c]) + 1
    BY <1>1, <1>5, <2>1, FS_AddElement
  <2> HIDE DEF blocks, max
  <2>3. IsFiniteSet(blocks \ out) /\ Cardinality(blocks \ out) = Cardinality(blocks) - Cardinality(out)
    <3>1. blocks \cap out = out
      BY <1>2
    <3>2. /\ IsFiniteSet(blocks \ out)
          /\ Cardinality(blocks \ out) = Cardinality(blocks) - Cardinality(blocks \cap out)
      BY <2>2, FS_Difference
    <3> QED BY <3>1, <3>2, Zenon
  <2>4. CASE TooLong(t, c, blocks)
    BY <1>2, <2>1, <2>2, <2>3, <2>4
  <2>5. CASE ~TooLong(t, c, blocks)
    <3>1. Cardinality(blocks) <= max
      <4>1. Cardinality(blocks) \in Nat
        BY <2>1, <2>2
      <4>2. max = maxSize[t][c]
        BY DEF max
      <4> QED BY <2>1, <2>5, <4>1, <4>2 DEF TooLong
    <3>2. Cardinality(out) = 0
      BY <1>2, <2>5, FS_EmptySet
    <3> QED BY <2>1, <2>2, <2>3, <3>1, <3>2
  <2> QED BY <2>4, <2>5
<1>11. /\ \A u \in Threads, d \in Classes : \A x \in cache'[u][d] :
            /\ x \in cache[u][d] \/ (u = t /\ d = c /\ x = b.at)
            /\ u = t /\ d = c => x \notin out
       /\ \A x \in out : x \in cache[t][c] \/ x = b.at
       /\ \A x \in cache[t][c] \cup {b.at} : x \in cache'[t][c] \/ x \in out
  BY <1>2, <1>9
<1> HIDE DEF blocks
<1>12. AllocTypeOK'
  <2>1. held' \subseteq [at : Nat, size : Nat]
    BY <1>1 DEF Sound, AllocTypeOK
  <2> QED BY <1>1, <1>8, <1>9, <2>1, SameConfig DEF Sound, AllocTypeOK
<1>13. CachesSized'
  <2>1. SUFFICES ASSUME NEW u \in Threads, NEW d \in Classes
                 PROVE IsFiniteSet(cache'[u][d]) /\ Cardinality(cache'[u][d]) <= maxSize[u][d]
    BY <1>1 DEF CachesSized
  <2>2. CASE u = t /\ d = c
    BY <1>9, <1>10, <2>2
  <2>3. CASE u # t \/ d # c
    BY <1>3, <1>9, <2>3 DEF CachesSized
  <2> QED BY <2>2, <2>3
<1>14. \A u \in Threads : at'[u].pc \in {"carve", "push", "return"} <=> at[u].pc \in {"carve", "push", "return"}
  BY <1>1, <1>8
<1>15. Out(heap)' = Out(heap) /\ Alive(heap)' = Alive(heap)
  BY <1>1, SameConfig
<1>16. \A u \in Threads : at[u].pc \in {"carve", "push", "return"} => u # t /\ at'[u] = at[u]
  BY <1>1, <1>8
<1>17. Owned' = Owned
  BY <1>14, <1>16 DEF Owned, Owns
<1>18. PagesKept(heap, {})'
  BY <1>1, <1>3, SameConfig DEF Kept
<1>19. SpansOwned'
  BY <1>1, <1>3, <1>14, <1>15, <1>16 DEF Kept, SpansOwned, Owns
<1>20. FreeOwned' /\ OutUsed'
  <2>1. \A u \in Threads : at'[u].pc = "push" <=> at[u].pc = "push"
    BY <1>1, <1>8
  <2>2. \A u \in Threads : at[u].pc = "push" => at'[u].span = at[u].span /\ at'[u].class = at[u].class
    BY <1>1, <1>8
  <2>3. FreeOwned'
    BY <1>1, <1>3, <1>15, <2>1, <2>2 DEF Kept, FreeOwned
  <2> QED BY <1>1, <1>3, <1>15, <2>3 DEF Kept, OutUsed
<1>21. InHand'
  <2>1. SUFFICES ASSUME NEW u \in Threads
                 PROVE /\ at'[u].pc \in {"fetch", "newspan", "carve", "push", "release"} => at'[u].class \in Classes
                       /\ at'[u].blocks # {} => at'[u].pc \in {"release", "return"} /\ at'[u].class \in Classes
                       /\ at'[u].pc \in {"fetch", "newspan", "carve", "push"} =>
                            cache'[u][at'[u].class] = {} /\ at'[u].n <= maxSize[u][at'[u].class]
    BY <1>1 DEF InHand
  <2>2. CASE u = t
    BY <1>1, <1>8, <2>2
  <2>3. CASE u # t
    <3>1. at'[u] = at[u] /\ \A d \in Classes : cache'[u][d] = cache[u][d]
      BY <1>8, <1>9, <2>3
    <3> QED BY <1>3, <3>1 DEF Kept, InHand
  <2> QED BY <2>2, <2>3
<1>22. BlocksTaken'
  <2>1. BlocksTaken
    BY <1>3 DEF Kept
  <2>2. \A u \in Threads, d \in Classes : \A x \in cache'[u][d] : TakenFrom(central[d], heap.span, d, x)
    BY <1>4, <1>11, <2>1 DEF BlocksTaken
  <2>3. \A u \in Threads : \A x \in at'[u].blocks : TakenFrom(central[at'[u].class], heap.span, at'[u].class, x)
    <3>1. SUFFICES ASSUME NEW u \in Threads, NEW x \in at'[u].blocks
                   PROVE TakenFrom(central[at'[u].class], heap.span, at'[u].class, x)
      OBVIOUS
    <3>2. CASE u = t
      <4>1. at'[u].class = c /\ x \in out
        BY <1>8, <3>1, <3>2
      <4>2. TakenFrom(central[c], heap.span, c, x)
        BY <1>1, <1>4, <1>11, <2>1, <4>1 DEF BlocksTaken
      <4> QED BY <4>1, <4>2
    <3>3. CASE u # t
      BY <1>8, <2>1, <3>3 DEF BlocksTaken
    <3> QED BY <3>2, <3>3
  <2>4. \A q \in held' :
         \/ \E d \in Classes : q.size = BlockWords[d] /\ TakenFrom(central[d], heap.span, d, q.at)
         \/ Large(Out(heap) \ Owned, heap.span, q.at)
    BY <1>1, <2>1 DEF BlocksTaken
  <2> QED BY <1>1, <1>15, <1>17, <2>2, <2>3, <2>4 DEF BlocksTaken
<1>23. BlocksOnce'
  <2>1. BlocksOnce
    BY <1>3 DEF Kept
  <2>2. \A u, v \in Threads, d, e \in Classes : \A x \in cache'[u][d] : x \in cache'[v][e] => u = v /\ d = e
    BY <1>5, <1>11, <2>1 DEF BlocksOnce
  <2>3. \A u, v \in Threads, d \in Classes : \A x \in cache'[u][d] : x \notin at'[v].blocks
    <3>1. SUFFICES ASSUME NEW u \in Threads, NEW v \in Threads, NEW d \in Classes,
                          NEW x \in cache'[u][d], x \in at'[v].blocks
                   PROVE FALSE
      OBVIOUS
    <3>2. CASE v = t
      <4>1. x \in out
        BY <1>8, <3>1, <3>2
      <4>2. x \in cache[u][d]
        BY <1>11, <3>1, <4>1
      <4>3. x \in cache[t][c]
        BY <1>5, <1>11, <4>1, <4>2
      <4>4. u = t /\ d = c
        BY <1>1, <2>1, <4>2, <4>3 DEF BlocksOnce
      <4> QED BY <1>11, <3>1, <4>1, <4>4
    <3>3. CASE v # t
      BY <1>5, <1>8, <1>11, <2>1, <3>1, <3>3 DEF BlocksOnce
    <3> QED BY <3>2, <3>3
  <2>4. \A u, v \in Threads : \A x \in at'[u].blocks : x \in at'[v].blocks => u = v
    <3>1. \A u \in Threads : \A x \in out : u # t => x \notin at[u].blocks
      BY <1>1, <1>5, <1>11, <2>1 DEF BlocksOnce
    <3> QED BY <1>8, <2>1, <3>1 DEF BlocksOnce
  <2>5. \A q \in held' : \A u \in Threads : q.at \notin at'[u].blocks /\ \A d \in Classes : q.at \notin cache'[u][d]
    <3>1. SUFFICES ASSUME NEW q \in held, q # b, NEW u \in Threads
                   PROVE q.at \notin at'[u].blocks /\ \A d \in Classes : q.at \notin cache'[u][d]
      BY <1>1
    <3>2. q.at # b.at /\ q.at \notin at[u].blocks /\ \A v \in Threads, d \in Classes : q.at \notin cache[v][d]
      BY <2>1, <3>1 DEF BlocksOnce
    <3> QED BY <1>1, <1>8, <1>11, <3>2
  <2>6. \A q, r \in held' : q.at = r.at => q = r
    BY <1>1, <2>1 DEF BlocksOnce
  <2> QED BY <2>2, <2>3, <2>4, <2>5, <2>6 DEF BlocksOnce
<1>24. BlocksCounted'
  <2>1. \A d \in Classes : \A r \in central[d] : \A x \in Carved(heap.span[r], d) \ heap.span[r].free :
          Outside(cache', at', held', d, x)
    <3>1. SUFFICES ASSUME NEW d \in Classes, NEW r \in central[d],
                          NEW x \in Carved(heap.span[r], d), Outside(cache, at, held, d, x)
                   PROVE Outside(cache', at', held', d, x)
      BY <1>3 DEF Kept, BlocksCounted
    <3>2. CASE \E u \in Threads : x \in cache[u][d]
      <4>1. PICK u \in Threads : x \in cache[u][d]
        BY <3>2
      <4>2. CASE u = t /\ d = c
        BY <1>8, <1>11, <4>1, <4>2 DEF Outside
      <4>3. CASE u # t \/ d # c
        BY <1>9, <4>1, <4>3 DEF Outside
      <4> QED BY <4>2, <4>3
    <3>3. CASE \E u \in Threads : x \in at[u].blocks
      BY <1>7, <1>8, <3>3 DEF Outside
    <3>4. CASE \E q \in held : q.at = x /\ q # b
      BY <1>1, <3>4 DEF Outside
    <3>5. CASE x = b.at /\ d = c
      BY <1>1, <1>8, <1>11, <3>5 DEF Outside
    <3>6. CASE x = b.at /\ d # c
      <4>1. r \in Out(heap) /\ heap.span[r].class = d
        BY <1>3, <3>1 DEF Kept, SpansOwned
      <4>2. heap \in PageCache /\ PagesKept(heap, {})
        BY DEF Sound, Kept, AllocTypeOK
      <4>3. heap.map[PageOf(x)] = r
        BY <3>1, <4>1, <4>2, HomeIs
      <4> QED BY <3>6, <4>1, <4>3 DEF c, PageToSpan
    <3> QED BY <3>1, <3>2, <3>3, <3>4, <3>5, <3>6 DEF Outside
  <2> QED BY <1>1, <1>3, <2>1 DEF Kept, BlocksCounted
<1> QED BY <1>12, <1>13, <1>18, <1>19, <1>20, <1>21, <1>22, <1>23, <1>24 DEF Sound, Kept

-----------------------------------------------------------------------------
(* The steps that take a span from the page cache. *)

\* What is written into a span handed out does not change that.
LEMMA GivesOutRefilled ==
  ASSUME NEW h, NEW f, NEW g, NEW s, NEW k, GivesOut(h, f, s, k), Refilled(f, g, s),
         g.span[s].free = f.span[s].free
  PROVE GivesOut(h, g, s, k)
<1>1. f \in PageCache /\ PagesKept(f, {}) /\ s \in Out(f)
  BY DEF GivesOut
<1>2. PagesKept(g, {}) /\ Out(g) = Out(f)
  BY <1>1, RefilledKept
<1>3. \A m \in Out(h) : m \in Spans /\ m # s
  BY DEF GivesOut, Out, Alive
<1>4. \A m \in Out(h) : g.span[m] = h.span[m]
  BY <1>3 DEF GivesOut, Refilled
<1> QED BY <1>2, <1>4 DEF GivesOut, Refilled

\* What stays as it was when the page cache hands out span s.
OthersStay(s) ==
  /\ s \in Spans /\ s \in Out(heap') /\ heap' \in PageCache /\ PagesKept(heap', {})
  /\ \A c \in Classes : \A r \in central[c] :
       r \in Out(heap') /\ heap'.span[r] = heap.span[r] /\ r # s
  /\ \A u \in Threads : Owns(u) =>
       /\ at[u].span \in Out(heap') /\ heap'.span[at[u].span] = heap.span[at[u].span]
       /\ at[u].span # s
  /\ \A c \in Classes : \A b : TakenFrom(central[c], heap.span, c, b) =>
       TakenFrom(central[c], heap'.span, c, b)
  /\ \A b : Large(Out(heap) \ Owned, heap.span, b) =>
       Large(Out(heap') \ (Owned \cup {s}), heap'.span, b)
  /\ \A m \in Alive(heap') : heap'.span[m].free # {} =>
       m \in Alive(heap) /\ heap'.span[m] = heap.span[m] /\ m # s
  /\ \A m \in Out(heap') : m # s => m \in Out(heap) /\ heap'.span[m] = heap.span[m]

\* The spans, and the blocks in them, of all others.
LEMMA GivesOutKeeps ==
  ASSUME Sound, NEW s, NEW k, GivesOut(heap, heap', s, k)
  PROVE OthersStay(s)
<1>1. /\ heap' \in PageCache /\ PagesKept(heap', {})
      /\ s \in Out(heap') /\ s \notin Out(heap) /\ heap'.span[s].free = {}
      /\ \A m \in Spans : m \in Out(heap') <=> m \in Out(heap) \/ m = s
      /\ \A m \in Out(heap) : heap'.span[m] = heap.span[m]
  BY DEF GivesOut
<1>2. s \in Spans /\ (\A m \in Out(heap) : m \in Spans) /\ \A m \in Out(heap') : m \in Spans
  BY <1>1 DEF Out, Alive
<1>3. SpansOwned
  BY DEF Sound, Kept
<1>4. \A c \in Classes : \A r \in central[c] :
        r \in Out(heap') /\ heap'.span[r] = heap.span[r] /\ r # s
  BY <1>1, <1>2, <1>3 DEF SpansOwned
<1>5. \A u \in Threads : Owns(u) =>
        /\ at[u].span \in Out(heap') /\ heap'.span[at[u].span] = heap.span[at[u].span]
        /\ at[u].span # s
  BY <1>1, <1>2, <1>3 DEF SpansOwned
<1>6. ASSUME NEW c \in Classes, NEW b, TakenFrom(central[c], heap.span, c, b)
      PROVE TakenFrom(central[c], heap'.span, c, b)
  BY <1>4, <1>6 DEF TakenFrom
<1>7. ASSUME NEW b, Large(Out(heap) \ Owned, heap.span, b)
      PROVE Large(Out(heap') \ (Owned \cup {s}), heap'.span, b)
  <2>1. PICK r \in Out(heap) \ Owned : heap.span[r].class = "large" /\ b = FirstWord(heap.span[r].page)
    BY <1>7 DEF Large
  <2>2. r \in Out(heap') \ (Owned \cup {s}) /\ heap'.span[r] = heap.span[r]
    BY <1>1, <1>2, <2>1
  <2> QED BY <2>1, <2>2 DEF Large
<1>8. \A m \in Out(heap') : m # s => m \in Out(heap) /\ heap'.span[m] = heap.span[m]
  BY <1>1, <1>2
<1>9. \A m \in Alive(heap') : heap'.span[m].free # {} =>
        m \in Alive(heap) /\ heap'.span[m] = heap.span[m] /\ m # s
  <2>1. \A m \in Alive(heap') : heap'.span[m].free # {} => m \in Out(heap')
    BY <1>1 DEF PagesKept, ListsKept, Out
  <2> QED BY <1>1, <1>8, <2>1 DEF Out
<1> QED BY <1>1, <1>2, <1>4, <1>5, <1>6, <1>7, <1>8, <1>9 DEF OthersStay

\* What the page cache gives a thread for its class.
LEMMA GetSpanGives ==
  ASSUME Sound, NEW t \in Threads, GetSpan(t)
  PROVE \E s : /\ GivesOut(heap, heap', s, MovePages[at[t].class])
               /\ heap'.span[s].used <=> MarkedEarly
               /\ at' = [at EXCEPT ![t] = [pc |-> "carve", class |-> at[t].class, n |-> at[t].n,
                                           span |-> s, blocks |-> {}]]
<1> DEFINE c == at[t].class
<1>1. PICK r \in NewSpan(heap, MovePages[c]) :
        /\ heap' = [r[1] EXCEPT !.span[r[2]].used = MarkedEarly]
        /\ at' = [at EXCEPT ![t] = [pc |-> "carve", class |-> c, n |-> at[t].n, span |-> r[2], blocks |-> {}]]
  BY DEF GetSpan, Goto
<1> DEFINE g == r[1]
           s == r[2]
<1>2. Kept /\ config \in Scenarios /\ heap \in PageCache /\ at[t].pc = "newspan"
  BY DEF Sound, AllocTypeOK, GetSpan
<1>3. c \in Classes
  BY <1>2 DEF Kept, InHand
<1> HIDE DEF c
<1>4. GivesOut(heap, g, s, MovePages[c])
  <2>1. MovePages[c] \in Nat \ {0}
    BY <1>3, SizesAssumption
  <2> QED BY <1>2, <2>1, NewSpanGives DEF Kept
<1> HIDE DEF g, s
<1>5. GivesOut(heap, heap', s, MovePages[c]) /\ (heap'.span[s].used <=> MarkedEarly)
  <2>1. g \in PageCache /\ s \in Alive(g) /\ MarkedEarly \in BOOLEAN
    BY <1>4 DEF GivesOut, Out, MarkedEarly
  <2>2. heap' = [g EXCEPT !.span[s].used = MarkedEarly]
    BY <1>1 DEF g, s
  <2>3. Refilled(g, heap', s) /\ heap'.span[s].free = g.span[s].free /\ (heap'.span[s].used <=> MarkedEarly)
    BY <2>1, <2>2, MarkedIs
  <2> QED BY <1>4, <2>3, GivesOutRefilled
<1>6. at' = [at EXCEPT ![t] = [pc |-> "carve", class |-> c, n |-> at[t].n, span |-> s, blocks |-> {}]]
  BY <1>1 DEF s
<1> QED BY <1>5, <1>6 DEF c

\* A thread gets a span for its class.
LEMMA GetSpanKeeps ==
  ASSUME Sound, NEW t \in Threads, GetSpan(t)
  PROVE Sound' /\ heap'.wild = heap.wild
<1> DEFINE c == at[t].class
           n == at[t].n
<1>1. PICK s : /\ GivesOut(heap, heap', s, MovePages[c])
               /\ heap'.span[s].used <=> MarkedEarly
               /\ at' = [at EXCEPT ![t] = [pc |-> "carve", class |-> c, n |-> n, span |-> s, blocks |-> {}]]
  BY GetSpanGives
<1>2. /\ config' = config /\ central' = central /\ lock' = lock
      /\ cache' = cache /\ maxSize' = maxSize /\ held' = held /\ at[t].pc = "newspan"
  BY DEF GetSpan
<1>3. Kept /\ config \in Scenarios /\ heap \in PageCache
  BY DEF Sound, AllocTypeOK
<1>4. c \in Classes /\ cache[t][c] = {} /\ n <= maxSize[t][c] /\ at[t].blocks = {} /\ n \in Nat
  BY <1>2, <1>3, StateType DEF Kept, InHand, Sound
<1> HIDE DEF c, n
<1>6. GivesOut(heap, heap', s, MovePages[c]) /\ (heap'.span[s].used <=> MarkedEarly)
  BY <1>1
<1>7. heap'.wild = heap.wild
  BY <1>6 DEF GivesOut
<1>8. /\ s \in Spans /\ s \in Out(heap') /\ heap' \in PageCache /\ PagesKept(heap', {})
      /\ \A d \in Classes : \A m \in central[d] :
           m \in Out(heap') /\ heap'.span[m] = heap.span[m] /\ m # s
      /\ \A u \in Threads : Owns(u) =>
           /\ at[u].span \in Out(heap') /\ heap'.span[at[u].span] = heap.span[at[u].span]
           /\ at[u].span # s
      /\ \A d \in Classes : \A b : TakenFrom(central[d], heap.span, d, b) =>
           TakenFrom(central[d], heap'.span, d, b)
      /\ \A b : Large(Out(heap) \ Owned, heap.span, b) =>
           Large(Out(heap') \ (Owned \cup {s}), heap'.span, b)
      /\ \A m \in Alive(heap') : heap'.span[m].free # {} =>
           m \in Alive(heap) /\ heap'.span[m] = heap.span[m] /\ m # s
      /\ \A m \in Out(heap') : m # s => m \in Out(heap) /\ heap'.span[m] = heap.span[m]
  <2>1. OthersStay(s)
    BY <1>6, GivesOutKeeps
  <2> QED BY <2>1, Zenon DEF OthersStay
<1>9. /\ at' \in [Threads -> [pc : Places, class : Classes \cup {None}, n : Nat,
                              span : Spans \cup {None}, blocks : SUBSET Nat]]
      /\ at'[t].pc = "carve" /\ at'[t].class = c /\ at'[t].n = n /\ at'[t].span = s
      /\ at'[t].blocks = {}
      /\ \A u \in Threads : u # t => at'[u] = at[u]
  <2>1. at' = [at EXCEPT ![t] = [pc |-> "carve", class |-> c, n |-> n, span |-> s, blocks |-> {}]]
    BY <1>1
  <2> QED BY <1>4, <1>8, <2>1 DEF Sound, AllocTypeOK, Places
<1>10. AllocTypeOK'
  BY <1>2, <1>8, <1>9, SameConfig DEF Sound, AllocTypeOK
<1>11. CachesSized'
  BY <1>2 DEF Sound, CachesSized
<1>12. PagesKept(heap, {})' /\ Out(heap)' = Out(heap') /\ Alive(heap)' = Alive(heap')
  BY <1>2, <1>8, SameConfig
<1>13. \A u \in Threads : (Owns(u))' <=> Owns(u) \/ u = t
  BY <1>9 DEF Owns
<1>14. \A u \in Threads : Owns(u) => u # t
  BY <1>2 DEF Owns
<1>15. Owned' = Owned \cup {s}
  BY <1>9, <1>13, <1>14 DEF Owned
<1>16. SpansOwned'
  <2>1. \A d \in Classes : \A m \in central[d] : m \in Out(heap') /\ heap'.span[m].class = d
    BY <1>3, <1>8 DEF Kept, SpansOwned
  <2>2. \A u \in Threads : (Owns(u))' =>
           at'[u].span \in Out(heap') /\ \A d \in Classes : at'[u].span \notin central[d]
    BY <1>3, <1>8, <1>9, <1>13 DEF Kept, SpansOwned
  <2>3. \A u, v \in Threads : (Owns(u))' /\ (Owns(v))' /\ at'[u].span = at'[v].span => u = v
    BY <1>3, <1>8, <1>9, <1>13 DEF Kept, SpansOwned
  <2> QED BY <1>2, <1>12, <2>1, <2>2, <2>3 DEF SpansOwned, Owns
<1>17. \A u \in Threads : at'[u].pc = "push" <=> at[u].pc = "push"
  BY <1>2, <1>9
<1>18. \A u \in Threads : at[u].pc = "push" => at'[u].span = at[u].span /\ at'[u].class = at[u].class /\ Owns(u)
  BY <1>2, <1>9 DEF Owns
<1>19. FreeOwned'
  <2>1. \A m \in Alive(heap') : heap'.span[m].free # {} =>
          \/ \E d \in Classes : m \in central[d]
          \/ \E u \in Threads : at'[u].pc = "push" /\ at'[u].span = m
    BY <1>3, <1>8, <1>17, <1>18 DEF Kept, FreeOwned
  <2>2. \A u \in Threads : at'[u].pc = "push" =>
          LET k == heap'.span[at'[u].span]
          IN  k.class = at'[u].class /\ k.count = 0 /\ k.free = Carved(k, at'[u].class)
    BY <1>3, <1>8, <1>17, <1>18 DEF Kept, FreeOwned
  <2> QED BY <1>2, <1>12, <2>1, <2>2 DEF FreeOwned
<1>20. OutUsed'
  <2>1. config.lib = "Pool" => \A m \in Out(heap') : heap'.span[m].used
    BY <1>3, <1>6, <1>8 DEF Kept, OutUsed, MarkedEarly
  <2> QED BY <1>2, <1>12, <2>1 DEF OutUsed
<1>21. InHand'
  <2>1. SUFFICES ASSUME NEW u \in Threads
                 PROVE /\ at'[u].pc \in {"fetch", "newspan", "carve", "push", "release"} => at'[u].class \in Classes
                       /\ at'[u].blocks # {} => at'[u].pc \in {"release", "return"} /\ at'[u].class \in Classes
                       /\ at'[u].pc \in {"fetch", "newspan", "carve", "push"} =>
                            cache[u][at'[u].class] = {} /\ at'[u].n <= maxSize[u][at'[u].class]
    BY <1>2 DEF InHand
  <2>2. CASE u = t
    BY <1>4, <1>9, <2>2
  <2>3. CASE u # t
    BY <1>3, <1>9, <2>3 DEF Kept, InHand
  <2> QED BY <2>2, <2>3
<1>22. \A u \in Threads : at'[u].blocks = at[u].blocks /\ (at[u].blocks # {} => at'[u] = at[u])
  BY <1>4, <1>9
<1>23. BlocksTaken'
  <2>1. \A u \in Threads, d \in Classes : \A b \in cache[u][d] : TakenFrom(central[d], heap'.span, d, b)
    BY <1>3, <1>8 DEF Kept, BlocksTaken
  <2>2. \A u \in Threads : \A b \in at'[u].blocks : TakenFrom(central[at'[u].class], heap'.span, at'[u].class, b)
    BY <1>3, <1>8, <1>22 DEF Kept, BlocksTaken, InHand
  <2>3. \A q \in held :
         \/ \E d \in Classes : q.size = BlockWords[d] /\ TakenFrom(central[d], heap'.span, d, q.at)
         \/ Large(Out(heap') \ (Owned \cup {s}), heap'.span, q.at)
    BY <1>3, <1>8 DEF Kept, BlocksTaken
  <2> QED BY <1>2, <1>12, <1>15, <2>1, <2>2, <2>3 DEF BlocksTaken
<1>24. BlocksOnce'
  BY <1>2, <1>3, <1>22 DEF Kept, BlocksOnce
<1>25. BlocksCounted'
  <2>1. \A d \in Classes : \A x : Outside(cache, at, held, d, x) => Outside(cache, at', held, d, x)
    BY <1>22 DEF Outside
  <2> QED BY <1>2, <1>3, <1>8, <2>1 DEF Kept, BlocksCounted
<1> QED BY <1>7, <1>10, <1>11, <1>12, <1>16, <1>19, <1>20, <1>21, <1>23, <1>24, <1>25 DEF Sound, Kept

\* A thread cuts its span into blocks.
LEMMA CarveKeeps ==
  ASSUME Sound, NEW t \in Threads, Carve(t)
  PROVE Sound' /\ heap'.wild = heap.wild
<1> DEFINE c == at[t].class
           s == at[t].span
<1>1. /\ heap' = [heap EXCEPT !.span[s] = CarveSpan(@, c)] /\ at' = [at EXCEPT ![t].pc = "push"]
      /\ at[t].pc = "carve"
  BY DEF Carve
<1>2. /\ config' = config /\ central' = central /\ lock' = lock
      /\ cache' = cache /\ maxSize' = maxSize /\ held' = held
  BY DEF Carve
<1>3. Kept /\ config \in Scenarios /\ heap \in PageCache /\ PagesKept(heap, {})
  BY DEF Sound, AllocTypeOK, Kept
<1>4. c \in Classes /\ at[t].blocks = {} /\ Owns(t)
  BY <1>1, <1>3 DEF Kept, InHand, Owns
<1>5. /\ s \in Out(heap) /\ s \in Spans /\ s \in Alive(heap)
      /\ \A d \in Classes : s \notin central[d]
  BY <1>3, <1>4 DEF Kept, SpansOwned, Out, Alive
<1> HIDE DEF c, s
<1>6. /\ Refilled(heap, heap', s) /\ heap'.span[s].free = Carved(heap'.span[s], c)
      /\ heap'.span[s].count = 0 /\ heap'.span[s].class = c /\ heap'.span[s].used
  BY <1>1, <1>3, <1>4, <1>5, CarvedIs
<1>7. /\ heap' \in PageCache /\ heap'.wild = heap.wild
      /\ \A m \in Spans : m # s => heap'.span[m] = heap.span[m]
  BY <1>6 DEF Refilled
<1>8. PagesKept(heap', {}) /\ Alive(heap') = Alive(heap) /\ Out(heap') = Out(heap)
  BY <1>3, <1>5, <1>6, RefilledKept
<1>9. \A m \in Out(heap) : m \in Spans /\ (m # s => heap'.span[m] = heap.span[m])
  BY <1>7 DEF Out, Alive
<1>10. /\ at' \in [Threads -> [pc : Places, class : Classes \cup {None}, n : Nat,
                              span : Spans \cup {None}, blocks : SUBSET Nat]]
      /\ at'[t].pc = "push" /\ at'[t].class = c /\ at'[t].n = at[t].n /\ at'[t].span = s
      /\ at'[t].blocks = {}
      /\ \A u \in Threads : u # t => at'[u] = at[u]
  <2>1. /\ at'[t].pc = "push" /\ at'[t].class = at[t].class /\ at'[t].n = at[t].n
        /\ at'[t].span = at[t].span /\ at'[t].blocks = at[t].blocks
        /\ \A u \in Threads : u # t => at'[u] = at[u]
    BY <1>1 DEF Sound, AllocTypeOK
  <2>2. at' \in [Threads -> [pc : Places, class : Classes \cup {None}, n : Nat,
                              span : Spans \cup {None}, blocks : SUBSET Nat]]
    <3>1. "push" \in Places
      BY DEF Places
    <3> QED BY <1>1, <3>1 DEF Sound, AllocTypeOK
  <2> QED BY <1>4, <2>1, <2>2 DEF c, s
<1>11. AllocTypeOK'
  BY <1>2, <1>7, <1>10, SameConfig DEF Sound, AllocTypeOK
<1>12. CachesSized'
  BY <1>2 DEF Sound, CachesSized
<1>13. PagesKept(heap, {})' /\ Out(heap)' = Out(heap) /\ Alive(heap)' = Alive(heap)
  BY <1>2, <1>8, SameConfig
<1>14. \A u \in Threads : /\ at'[u].span = at[u].span /\ at'[u].class = at[u].class
                          /\ at'[u].blocks = at[u].blocks /\ at'[u].n = at[u].n
                          /\ (u # t => at'[u].pc = at[u].pc)
  BY <1>4, <1>10 DEF c, s
<1>15. \A u \in Threads : (Owns(u))' <=> Owns(u)
  BY <1>1, <1>10 DEF Owns
<1>16. Owned' = Owned
  BY <1>14, <1>15 DEF Owned
<1>17. \A u \in Threads : Owns(u) /\ u # t => at[u].span # s /\ at[u].span \in Out(heap)
  BY <1>3, <1>4 DEF Kept, SpansOwned, s
<1>18. SpansOwned'
  <2>1. \A d \in Classes : \A m \in central[d] : m \in Out(heap) /\ heap'.span[m].class = d
    BY <1>3, <1>5, <1>9 DEF Kept, SpansOwned
  <2>2. \A u \in Threads : (Owns(u))' =>
          at'[u].span \in Out(heap) /\ \A d \in Classes : at'[u].span \notin central[d]
    BY <1>3, <1>14, <1>15 DEF Kept, SpansOwned
  <2>3. \A u, v \in Threads : (Owns(u))' /\ (Owns(v))' /\ at'[u].span = at'[v].span => u = v
    BY <1>3, <1>14, <1>15 DEF Kept, SpansOwned
  <2> QED BY <1>2, <1>13, <2>1, <2>2, <2>3 DEF SpansOwned, Owns
<1>19. FreeOwned'
  <2>1. \A m \in Alive(heap) : heap'.span[m].free # {} =>
          \/ \E d \in Classes : m \in central[d]
          \/ \E u \in Threads : at'[u].pc = "push" /\ at'[u].span = m
    <3>1. SUFFICES ASSUME NEW m \in Alive(heap), heap'.span[m].free # {}, m # s
                   PROVE \/ \E d \in Classes : m \in central[d]
                         \/ \E u \in Threads : at'[u].pc = "push" /\ at'[u].span = m
      BY <1>10
    <3>2. heap'.span[m] = heap.span[m]
      BY <1>7, <3>1 DEF Alive
    <3>3. \/ \E d \in Classes : m \in central[d]
          \/ \E u \in Threads : at[u].pc = "push" /\ at[u].span = m
      BY <1>3, <3>1, <3>2 DEF Kept, FreeOwned
    <3> QED BY <1>1, <1>14, <3>3
  <2>2. \A u \in Threads : at'[u].pc = "push" =>
          LET k == heap'.span[at'[u].span]
          IN  k.class = at'[u].class /\ k.count = 0 /\ k.free = Carved(k, at'[u].class)
    <3>1. SUFFICES ASSUME NEW u \in Threads, at'[u].pc = "push"
                   PROVE LET k == heap'.span[at'[u].span]
                         IN  k.class = at'[u].class /\ k.count = 0 /\ k.free = Carved(k, at'[u].class)
      OBVIOUS
    <3>2. CASE u = t
      BY <1>6, <1>10, <3>2
    <3>3. CASE u # t
      <4>1. at[u].pc = "push" /\ Owns(u)
        BY <1>14, <3>1, <3>3 DEF Owns
      <4>2. heap'.span[at[u].span] = heap.span[at[u].span]
        BY <1>9, <1>17, <3>3, <4>1
      <4> QED BY <1>3, <1>14, <4>1, <4>2 DEF Kept, FreeOwned
    <3> QED BY <3>2, <3>3
  <2> QED BY <1>2, <1>13, <2>1, <2>2 DEF FreeOwned
<1>20. OutUsed'
  <2>1. config.lib = "Pool" => \A m \in Out(heap) : heap'.span[m].used
    BY <1>3, <1>6, <1>9 DEF Kept, OutUsed
  <2> QED BY <1>2, <1>13, <2>1 DEF OutUsed
<1>21. InHand'
  <2>1. SUFFICES ASSUME NEW u \in Threads
                 PROVE /\ at'[u].pc \in {"fetch", "newspan", "carve", "push", "release"} => at'[u].class \in Classes
                       /\ at'[u].blocks # {} => at'[u].pc \in {"release", "return"} /\ at'[u].class \in Classes
                       /\ at'[u].pc \in {"fetch", "newspan", "carve", "push"} =>
                            cache[u][at'[u].class] = {} /\ at'[u].n <= maxSize[u][at'[u].class]
    BY <1>2 DEF InHand
  <2>2. CASE u = t
    BY <1>1, <1>3, <1>4, <1>10, <2>2 DEF Kept, InHand, c
  <2>3. CASE u # t
    BY <1>3, <1>10, <2>3 DEF Kept, InHand
  <2> QED BY <2>2, <2>3
<1>22. \A d \in Classes : \A m \in central[d] : m # s /\ heap'.span[m] = heap.span[m]
  BY <1>3, <1>5, <1>9 DEF Kept, SpansOwned
<1>23. \A d \in Classes : \A b : TakenFrom(central[d], heap.span, d, b) => TakenFrom(central[d], heap'.span, d, b)
  BY <1>22 DEF TakenFrom
<1>24. \A b : Large(Out(heap) \ Owned, heap.span, b) => Large(Out(heap) \ Owned, heap'.span, b)
  <2>1. s \in Owned
    BY <1>4 DEF Owned, s
  <2>2. \A m \in Out(heap) \ Owned : heap'.span[m] = heap.span[m]
    BY <1>9, <2>1
  <2> QED BY <2>2 DEF Large
<1>25. BlocksTaken'
  <2>1. \A u \in Threads, d \in Classes : \A b \in cache[u][d] : TakenFrom(central[d], heap'.span, d, b)
    BY <1>3, <1>23 DEF Kept, BlocksTaken
  <2>2. \A u \in Threads : \A b \in at'[u].blocks : TakenFrom(central[at'[u].class], heap'.span, at'[u].class, b)
    BY <1>3, <1>14, <1>23 DEF Kept, BlocksTaken, InHand
  <2>3. \A q \in held :
         \/ \E d \in Classes : q.size = BlockWords[d] /\ TakenFrom(central[d], heap'.span, d, q.at)
         \/ Large(Out(heap) \ Owned, heap'.span, q.at)
    BY <1>3, <1>23, <1>24 DEF Kept, BlocksTaken
  <2> QED BY <1>2, <1>13, <1>16, <2>1, <2>2, <2>3 DEF BlocksTaken
<1>26. BlocksOnce'
  BY <1>2, <1>3, <1>14 DEF Kept, BlocksOnce
<1>27. BlocksCounted'
  <2>1. \A d \in Classes : \A x : Outside(cache, at, held, d, x) => Outside(cache, at', held, d, x)
    BY <1>14 DEF Outside
  <2> QED BY <1>2, <1>3, <1>22, <2>1 DEF Kept, BlocksCounted
<1> QED BY <1>7, <1>11, <1>12, <1>13, <1>18, <1>19, <1>20, <1>21, <1>25, <1>26, <1>27 DEF Sound, Kept

\* What the page cache gives for a block of more than MAX_BYTES.
LEMMA MallocPagesGives ==
  ASSUME Sound, NEW t \in Threads, NEW k \in config.large, MallocPages(t, k)
  PROVE \E s : /\ GivesOut(heap, heap', s, k)
               /\ heap'.span[s].class = "large" /\ heap'.span[s].used
               /\ held' = held \cup {Block(FirstWord(heap'.span[s].page), k * PageSize)}
<1>1. PICK r \in NewSpan(heap, k) :
       /\ heap' = [r[1] EXCEPT !.span[r[2]].class = "large", !.span[r[2]].count = 1,
                               !.span[r[2]].used = TRUE]
       /\ held' = held \cup {Block(FirstWord(r[1].span[r[2]].page), k * PageSize)}
  BY DEF MallocPages
<1> DEFINE g == r[1]
           s == r[2]
<1>2. Kept /\ config \in Scenarios /\ heap \in PageCache
  BY DEF Sound, AllocTypeOK
<1>3. k \in Nat \ {0}
  BY <1>2, ConfigType
<1>4. GivesOut(heap, g, s, k)
  BY <1>2, <1>3, NewSpanGives DEF Kept
<1> HIDE DEF g, s
<1>5. g \in PageCache /\ s \in Alive(g)
  BY <1>4 DEF GivesOut, Out
<1>6. heap' = [g EXCEPT !.span[s].class = "large", !.span[s].count = 1, !.span[s].used = TRUE]
  BY <1>1 DEF g, s
<1>7. /\ Refilled(g, heap', s) /\ heap'.span[s].free = g.span[s].free
      /\ heap'.span[s].class = "large" /\ heap'.span[s].used
  BY <1>5, <1>6, MadeLargeIs
<1>8. heap'.span[s].page = g.span[s].page
  BY <1>7 DEF Refilled
<1>9. held' = held \cup {Block(FirstWord(heap'.span[s].page), k * PageSize)}
  BY <1>1, <1>8 DEF g, s
<1>10. GivesOut(heap, heap', s, k)
  BY <1>4, <1>7, GivesOutRefilled
<1> QED BY <1>7, <1>9, <1>10

\* The program gets a block of more than MAX_BYTES.
LEMMA MallocPagesKeeps ==
  ASSUME Sound, NEW t \in Threads, NEW k \in config.large, MallocPages(t, k)
  PROVE Sound' /\ heap'.wild = heap.wild
<1>1. PICK s : /\ GivesOut(heap, heap', s, k)
               /\ heap'.span[s].class = "large" /\ heap'.span[s].used
               /\ held' = held \cup {Block(FirstWord(heap'.span[s].page), k * PageSize)}
  BY MallocPagesGives
<1> DEFINE o == Block(FirstWord(heap'.span[s].page), k * PageSize)
<1>2. /\ config' = config /\ central' = central /\ lock' = lock
      /\ cache' = cache /\ maxSize' = maxSize /\ at' = at
  BY DEF MallocPages
<1>3. Kept /\ config \in Scenarios /\ heap \in PageCache
  BY DEF Sound, AllocTypeOK
<1>4. k \in Nat \ {0}
  BY <1>3, ConfigType
<1>6. held' = held \cup {o}
  BY <1>1
<1>7. GivesOut(heap, heap', s, k) /\ heap'.span[s].class = "large" /\ heap'.span[s].used
  BY <1>1
<1>8. heap'.wild = heap.wild
  BY <1>7 DEF GivesOut
<1>9. /\ s \in Spans /\ s \in Out(heap') /\ heap' \in PageCache /\ PagesKept(heap', {})
      /\ \A d \in Classes : \A m \in central[d] :
           m \in Out(heap') /\ heap'.span[m] = heap.span[m] /\ m # s
      /\ \A u \in Threads : Owns(u) =>
           /\ at[u].span \in Out(heap') /\ heap'.span[at[u].span] = heap.span[at[u].span]
           /\ at[u].span # s
      /\ \A d \in Classes : \A b : TakenFrom(central[d], heap.span, d, b) =>
           TakenFrom(central[d], heap'.span, d, b)
      /\ \A b : Large(Out(heap) \ Owned, heap.span, b) =>
           Large(Out(heap') \ (Owned \cup {s}), heap'.span, b)
      /\ \A m \in Alive(heap') : heap'.span[m].free # {} =>
           m \in Alive(heap) /\ heap'.span[m] = heap.span[m] /\ m # s
      /\ \A m \in Out(heap') : m # s => m \in Out(heap) /\ heap'.span[m] = heap.span[m]
  <2>1. OthersStay(s)
    BY <1>7, GivesOutKeeps
  <2> QED BY <2>1, Zenon DEF OthersStay
<1>10. /\ o \in [at : Nat, size : Nat] /\ o.at = FirstWord(heap'.span[s].page)
       /\ heap'.map[PageOf(o.at)] = s
  <2>1. FirstWord(heap'.span[s].page) \in Nat /\ heap'.map[PageOf(FirstWord(heap'.span[s].page))] = s
    BY <1>9, HomeIs
  <2>2. k * PageSize \in Nat
    <3>1. PageSize \in Nat
      BY SizesAssumption
    <3> QED BY <1>4, <3>1
  <2> DEFINE N == k * PageSize
             A == FirstWord(heap'.span[s].page)
  <2>3. o = [at |-> A, size |-> N] /\ A \in Nat /\ N \in Nat /\ A = FirstWord(heap'.span[s].page)
    BY <2>1, <2>2 DEF Block
  <2> HIDE DEF o, N, A
  <2> QED BY <2>1, <2>3
<1> HIDE DEF o
\* Its home is a new one.
<1>11. /\ \A d \in Classes : \A b : TakenFrom(central[d], heap.span, d, b) => b # o.at
       /\ \A b : Large(Out(heap) \ Owned, heap.span, b) => b # o.at
  <2>1. ASSUME NEW d \in Classes, NEW b, TakenFrom(central[d], heap.span, d, b) PROVE b # o.at
    <3>1. PICK m \in central[d] : b \in Carved(heap'.span[m], d)
      BY <1>9, <2>1 DEF TakenFrom
    <3>2. m \in Out(heap') /\ m # s
      BY <1>9
    <3>3. heap'.map[PageOf(b)] = m
      BY <1>9, <3>1, <3>2, HomeIs
    <3> QED BY <1>10, <3>2, <3>3
  <2>2. ASSUME NEW b, Large(Out(heap) \ Owned, heap.span, b) PROVE b # o.at
    <3>1. PICK m \in Out(heap') \ (Owned \cup {s}) : b = FirstWord(heap'.span[m].page)
      BY <1>9, <2>2 DEF Large
    <3>2. heap'.map[PageOf(b)] = m
      BY <1>9, <3>1, HomeIs
    <3> QED BY <1>10, <3>1, <3>2
  <2> QED BY <2>1, <2>2
<1>12. AllocTypeOK'
  BY <1>2, <1>6, <1>9, <1>10, SameConfig DEF Sound, AllocTypeOK
<1>13. CachesSized'
  BY <1>2 DEF Sound, CachesSized
<1>14. PagesKept(heap, {})' /\ Out(heap)' = Out(heap') /\ Alive(heap)' = Alive(heap') /\ Owned' = Owned
  BY <1>2, <1>9, SameConfig DEF Owned, Owns
<1>15. SpansOwned'
  <2>1. \A d \in Classes : \A m \in central[d] : m \in Out(heap') /\ heap'.span[m].class = d
    BY <1>3, <1>9 DEF Kept, SpansOwned
  <2>2. \A u \in Threads : Owns(u) =>
           at[u].span \in Out(heap') /\ \A d \in Classes : at[u].span \notin central[d]
    BY <1>3, <1>9 DEF Kept, SpansOwned
  <2> QED BY <1>2, <1>3, <1>14, <2>1, <2>2 DEF Kept, SpansOwned, Owns
<1>16. FreeOwned'
  <2>1. \A m \in Alive(heap') : heap'.span[m].free # {} =>
          \/ \E d \in Classes : m \in central[d]
          \/ \E u \in Threads : at[u].pc = "push" /\ at[u].span = m
    BY <1>3, <1>9 DEF Kept, FreeOwned
  <2>2. \A u \in Threads : at[u].pc = "push" =>
          LET j == heap'.span[at[u].span]
          IN  j.class = at[u].class /\ j.count = 0 /\ j.free = Carved(j, at[u].class)
    BY <1>3, <1>9 DEF Kept, FreeOwned, Owns
  <2> QED BY <1>2, <1>14, <2>1, <2>2 DEF FreeOwned
<1>17. OutUsed'
  <2>1. config.lib = "Pool" => \A m \in Out(heap') : heap'.span[m].used
    BY <1>3, <1>7, <1>9 DEF Kept, OutUsed
  <2> QED BY <1>2, <1>14, <2>1 DEF OutUsed
<1>18. InHand'
  BY <1>2, <1>3 DEF Kept, InHand
<1>19. BlocksTaken'
  <2>1. \A u \in Threads, d \in Classes : \A b \in cache[u][d] : TakenFrom(central[d], heap'.span, d, b)
    BY <1>3, <1>9 DEF Kept, BlocksTaken
  <2>2. \A u \in Threads : \A b \in at[u].blocks : TakenFrom(central[at[u].class], heap'.span, at[u].class, b)
    BY <1>3, <1>9 DEF Kept, BlocksTaken, InHand
  <2>3. \A b : Large(Out(heap) \ Owned, heap.span, b) => Large(Out(heap') \ Owned, heap'.span, b)
    <3>1. \A b : Large(Out(heap') \ (Owned \cup {s}), heap'.span, b) => Large(Out(heap') \ Owned, heap'.span, b)
      BY DEF Large
    <3> QED BY <1>9, <3>1
  <2>4. Large(Out(heap') \ Owned, heap'.span, o.at)
    <3>1. s \notin Owned
      BY <1>9 DEF Owned
    <3> QED BY <1>7, <1>9, <1>10, <3>1 DEF Large
  <2>5. \A q \in held' :
         \/ \E d \in Classes : q.size = BlockWords[d] /\ TakenFrom(central[d], heap'.span, d, q.at)
         \/ Large(Out(heap') \ Owned, heap'.span, q.at)
    <3>1. SUFFICES ASSUME NEW q \in held
                   PROVE \/ \E d \in Classes : q.size = BlockWords[d] /\ TakenFrom(central[d], heap'.span, d, q.at)
                         \/ Large(Out(heap') \ Owned, heap'.span, q.at)
      BY <1>6, <2>4
    <3> QED BY <1>3, <1>9, <2>3 DEF Kept, BlocksTaken
  <2> QED BY <1>2, <1>14, <2>1, <2>2, <2>5 DEF BlocksTaken
<1>20. BlocksOnce'
  <2>1. BlocksOnce /\ BlocksTaken
    BY <1>3 DEF Kept
  <2>2. \A q \in held : q.at # o.at
    BY <1>11, <2>1 DEF BlocksTaken
  <2>3. \A u \in Threads : o.at \notin at[u].blocks /\ \A d \in Classes : o.at \notin cache[u][d]
    BY <1>3, <1>11, <2>1 DEF BlocksTaken, Kept, InHand
  <2>4. \A q \in held' : \A u \in Threads : q.at \notin at[u].blocks /\ \A d \in Classes : q.at \notin cache[u][d]
    BY <1>6, <2>1, <2>3 DEF BlocksOnce
  <2>5. \A p, q \in held' : p.at = q.at => p = q
    BY <1>6, <2>1, <2>2 DEF BlocksOnce
  <2> QED BY <1>2, <2>1, <2>4, <2>5 DEF BlocksOnce
<1>21. BlocksCounted'
  <2>1. \A d \in Classes : \A x : Outside(cache, at, held, d, x) => Outside(cache, at, held', d, x)
    BY <1>6 DEF Outside
  <2>2. ASSUME NEW d \in Classes, NEW m \in central[d]
        PROVE LET j == heap'.span[m]
              IN  /\ j.free \subseteq Carved(j, d)
                  /\ j.count = Cardinality(Carved(j, d) \ j.free)
                  /\ \A x \in Carved(j, d) \ j.free : Outside(cache, at, held', d, x)
    <3>1. heap'.span[m] = heap.span[m]
      BY <1>9
    <3> QED BY <1>3, <2>1, <3>1 DEF Kept, BlocksCounted
  <2> QED BY <1>2, <2>2 DEF BlocksCounted
<1> QED BY <1>8, <1>12, <1>13, <1>14, <1>15, <1>16, <1>17, <1>18, <1>19, <1>20, <1>21 DEF Sound, Kept

-----------------------------------------------------------------------------
(* The steps of FetchRangeObj. *)

\* Blocks of a span, in its list from now on, go to the program and the thread's list.
LEMMA TakeKeeps ==
  ASSUME Sound, NEW t \in Threads, NEW c \in Classes, NEW s \in Out(heap),
         at[t].pc \in {"fetch", "push"}, at[t].class = c, at[t].pc = "push" => at[t].span = s,
         heap.span[s].class = c, heap.span[s].free \subseteq Carved(heap.span[s], c),
         heap.span[s].count = Cardinality(Carved(heap.span[s], c) \ heap.span[s].free),
         \A x \in Carved(heap.span[s], c) \ heap.span[s].free : Outside(cache, at, held, c, x),
         \A u \in Threads : Owns(u) /\ at[u].span = s => u = t,
         Take(t, s), central' = [central EXCEPT ![c] = @ \cup {s}],
         config' = config, lock' = lock, maxSize' = maxSize
  PROVE Sound' /\ heap'.wild = heap.wild
<1> DEFINE k == heap.span[s]
           free == k.free
           n == at[t].n
           C == Carved(k, c)
<1>1. PICK taken \in SUBSET free :
        /\ Cardinality(taken) = Min({n, Cardinality(free)})
        /\ heap' = [heap EXCEPT !.span[s].free = @ \ taken, !.span[s].count = @ + Cardinality(taken)]
        /\ \E b \in taken : /\ cache' = [cache EXCEPT ![t][c] = @ \cup (taken \ {b})]
                            /\ held' = held \cup {Block(b, BlockWords[c])}
        /\ at' = [at EXCEPT ![t] = Idle]
  BY DEF Take, kSubset
<1>2. PICK b \in taken : /\ cache' = [cache EXCEPT ![t][c] = @ \cup (taken \ {b})]
                         /\ held' = held \cup {Block(b, BlockWords[c])}
  BY <1>1
<1>3. Kept /\ config \in Scenarios /\ heap \in PageCache /\ PagesKept(heap, {}) /\ AllocTypeOK
  BY DEF Sound, AllocTypeOK, Kept
<1>4. /\ s \in Spans /\ s \in Alive(heap) /\ k.page \in Nat /\ k.npage \in Nat
      /\ free \subseteq Nat /\ k.count \in Nat
  BY <1>3, SpanType DEF Out
<1>5. cache[t][c] = {} /\ n <= maxSize[t][c] /\ at[t].blocks = {} /\ n \in Nat /\ maxSize[t][c] \in Nat
  BY <1>3, StateType DEF Kept, InHand, Sound
<1> HIDE DEF k, free
<1>6. IsFiniteSet(C) /\ C \subseteq Nat
  BY <1>4, CarvedFinite
<1> HIDE DEF n, C
<1>7. free \subseteq C /\ IsFiniteSet(free) /\ taken \subseteq C /\ taken \subseteq Nat
  <2>1. free \subseteq C
    BY DEF free, k, C
  <2> QED BY <1>1, <1>6, <2>1, FS_Subset
<1>8. /\ IsFiniteSet(taken) /\ Cardinality(taken) \in Nat
      /\ Cardinality(taken) <= n /\ IsFiniteSet(taken \ {b}) /\ Cardinality(taken \ {b}) <= n
  <2>1. IsFiniteSet(taken) /\ Cardinality(taken) \in Nat
    BY <1>7, FS_Subset, FS_CardinalityType
  <2>2. Cardinality(taken) <= n
    <3>1. n \in Nat /\ Cardinality(free) \in Nat
      BY <1>5, <1>7, FS_CardinalityType
    <3> QED BY <1>1, <3>1, MinOfTwo
  <2>3. IsFiniteSet(taken \ {b}) /\ Cardinality(taken \ {b}) = Cardinality(taken) - 1
    BY <2>1, FS_RemoveElement
  <2> QED BY <1>5, <2>1, <2>2, <2>3
\* The page cache.
<1>9. /\ Refilled(heap, heap', s) /\ heap'.span[s].free = free \ taken
      /\ heap'.span[s].count = k.count + Cardinality(taken)
      /\ heap'.span[s].class = c /\ (heap'.span[s].used <=> k.used)
  <2> DEFINE F == free \ taken
             N == k.count + Cardinality(taken)
             g == [heap EXCEPT !.span[s].free = F, !.span[s].count = N]
  <2>1. F \in SUBSET Nat /\ N \in Nat
    <3>1. F \in SUBSET Nat
      BY <1>4
    <3>2. N \in Nat
      <4> HIDE DEF g, F
      <4> QED BY <1>4, <1>8
    <3> QED BY <3>1, <3>2
  <2>2. heap' = g
    BY <1>1 DEF free, k
  <2> HIDE DEF F, N
  <2>3. /\ Refilled(heap, g, s) /\ g.span[s].free = F /\ g.span[s].count = N
        /\ g.span[s].class = heap.span[s].class /\ (g.span[s].used <=> heap.span[s].used)
    BY <1>3, <1>4, <2>1, RefilledIs
  <2> HIDE DEF g
  <2> QED BY <2>2, <2>3 DEF F, N, k
<1>10. /\ heap' \in PageCache /\ heap'.wild = heap.wild
       /\ heap'.span[s].page = k.page /\ heap'.span[s].npage = k.npage
       /\ \A m \in Spans : m # s => heap'.span[m] = heap.span[m]
  BY <1>9 DEF Refilled, k
<1>11. PagesKept(heap', {}) /\ Alive(heap') = Alive(heap) /\ Out(heap') = Out(heap)
  BY <1>3, <1>9, RefilledKept
<1>12. Carved(heap'.span[s], c) = C
  BY <1>10 DEF Carved, C
<1>13. \A m \in Out(heap) : m \in Spans /\ (m # s => heap'.span[m] = heap.span[m])
  BY <1>10 DEF Out, Alive
<1>14. \A d \in Classes : \A m \in central[d] : m \in Out(heap) /\ heap.span[m].class = d
  BY <1>3 DEF Kept, SpansOwned
<1>15. /\ central' \in [Classes -> SUBSET Spans]
       /\ \A d \in Classes : \A m : m \in central'[d] <=> m \in central[d] \/ (d = c /\ m = s)
  BY <1>3, <1>4 DEF AllocTypeOK
\* What was taken was nowhere else.
<1>16. \A x \in taken : x \in Nat /\ heap.map[PageOf(x)] = s
  <2>1. \A x \in taken : x \in Carved(heap.span[s], c)
    BY <1>7 DEF C, k
  <2> QED BY <1>3, <2>1, HomeIs
<1>17. \A x \in taken : /\ \A d \in Classes : ~TakenFrom(central[d], heap.span, d, x)
                        /\ ~Large(Out(heap) \ Owned, heap.span, x)
  <2>1. SUFFICES ASSUME NEW x \in taken
                 PROVE /\ \A d \in Classes : ~TakenFrom(central[d], heap.span, d, x)
                       /\ ~Large(Out(heap) \ Owned, heap.span, x)
    OBVIOUS
  <2>2. PageToSpan(x) = s /\ x \in heap.span[s].free
    BY <1>1, <1>16 DEF PageToSpan, free, k
  <2>3. \A d \in Classes : ~TakenFrom(central[d], heap.span, d, x)
    BY <2>2, TakenHome
  <2>4. ~Large(Out(heap) \ Owned, heap.span, x)
    BY <2>2, LargeHome, NoneAssumption
  <2> QED BY <2>3, <2>4
<1>18. \A x \in taken : /\ \A u \in Threads : x \notin at[u].blocks /\ \A d \in Classes : x \notin cache[u][d]
                        /\ \A q \in held : q.at # x
  <2>1. BlocksTaken /\ InHand
    BY <1>3 DEF Kept
  <2>2. SUFFICES ASSUME NEW x \in taken
                 PROVE /\ \A u \in Threads : x \notin at[u].blocks /\ \A d \in Classes : x \notin cache[u][d]
                       /\ \A q \in held : q.at # x
    OBVIOUS
  <2>3. ASSUME NEW u \in Threads PROVE x \notin at[u].blocks
    BY <1>17, <2>1 DEF BlocksTaken, InHand
  <2>4. ASSUME NEW u \in Threads, NEW d \in Classes PROVE x \notin cache[u][d]
    BY <1>17, <2>1 DEF BlocksTaken
  <2>5. ASSUME NEW q \in held, q.at = x PROVE FALSE
    <3>1. \/ \E d \in Classes : TakenFrom(central[d], heap.span, d, x)
          \/ Large(Out(heap) \ Owned, heap.span, x)
      BY <2>1, <2>5 DEF BlocksTaken
    <3> QED BY <1>17, <3>1
  <2> QED BY <2>3, <2>4, <2>5
<1> DEFINE o == Block(b, BlockWords[c])
<1>19. b \in Nat /\ o \in [at : Nat, size : Nat] /\ o.at = b /\ o.size = BlockWords[c]
  BY <1>7, SizesAssumption DEF Block
<1>20. held' = held \cup {o}
  BY <1>2
<1> HIDE DEF o
<1>21. /\ cache' \in [Threads -> [Classes -> SUBSET Nat]]
       /\ cache'[t][c] = taken \ {b}
       /\ \A u \in Threads, d \in Classes : u # t \/ d # c => cache'[u][d] = cache[u][d]
  <2> DEFINE X == cache[t][c] \cup (taken \ {b})
  <2>1. X \in SUBSET Nat /\ X = taken \ {b} /\ cache' = [cache EXCEPT ![t][c] = X]
    BY <1>2, <1>5, <1>7
  <2> HIDE DEF X
  <2> QED BY <1>3, <2>1 DEF AllocTypeOK
<1>22. /\ at' \in [Threads -> [pc : Places, class : Classes \cup {None}, n : Nat,
                               span : Spans \cup {None}, blocks : SUBSET Nat]]
       /\ at'[t].pc = "idle" /\ at'[t].blocks = {}
       /\ \A u \in Threads : u # t => at'[u] = at[u]
  BY <1>1, <1>3, IdleIs
<1>23. AllocTypeOK'
  BY <1>3, <1>10, <1>15, <1>19, <1>20, <1>21, <1>22, SameConfig DEF AllocTypeOK
<1>24. CachesSized'
  <2>1. SUFFICES ASSUME NEW u \in Threads, NEW d \in Classes
                 PROVE IsFiniteSet(cache'[u][d]) /\ Cardinality(cache'[u][d]) <= maxSize[u][d]
    BY DEF CachesSized
  <2>2. CASE u = t /\ d = c
    <3>1. Cardinality(taken \ {b}) \in Nat
      BY <1>8, FS_CardinalityType
    <3>2. Cardinality(taken \ {b}) <= maxSize[t][c]
      BY <1>5, <1>8, <3>1
    <3> QED BY <1>8, <1>21, <2>2, <3>2
  <2>3. CASE u # t \/ d # c
    BY <1>21, <2>3 DEF Sound, CachesSized
  <2> QED BY <2>2, <2>3
<1>25. PagesKept(heap, {})' /\ Out(heap)' = Out(heap) /\ Alive(heap)' = Alive(heap)
  BY <1>11, SameConfig
<1>26. \A u \in Threads : (Owns(u))' <=> Owns(u) /\ u # t
  BY <1>22 DEF Owns
<1>27. Owned' \subseteq Owned
  BY <1>22, <1>26 DEF Owned
<1>28. SpansOwned'
  <2>1. \A d \in Classes : \A m \in central'[d] : m \in Out(heap) /\ heap'.span[m].class = d
    BY <1>9, <1>13, <1>14, <1>15
  <2>2. ASSUME NEW u \in Threads, (Owns(u))'
        PROVE at'[u].span \in Out(heap) /\ \A d \in Classes : at'[u].span \notin central'[d]
    <3>1. Owns(u) /\ u # t /\ at'[u].span = at[u].span
      BY <1>22, <1>26, <2>2
    <3>2. at[u].span \in Out(heap) /\ at[u].span # s /\ \A d \in Classes : at[u].span \notin central[d]
      BY <1>3, <3>1 DEF Kept, SpansOwned
    <3> QED BY <1>15, <3>1, <3>2
  <2>3. \A u, v \in Threads : (Owns(u))' /\ (Owns(v))' /\ at'[u].span = at'[v].span => u = v
    BY <1>3, <1>22, <1>26 DEF Kept, SpansOwned
  <2> QED BY <1>25, <2>1, <2>2, <2>3 DEF SpansOwned, Owns
<1>29. FreeOwned'
  <2>1. ASSUME NEW m \in Alive(heap), heap'.span[m].free # {}
        PROVE \/ \E d \in Classes : m \in central'[d]
              \/ \E u \in Threads : at'[u].pc = "push" /\ at'[u].span = m
    <3>1. CASE m = s
      BY <1>15, <3>1
    <3>2. CASE m # s
      <4>1. heap'.span[m] = heap.span[m]
        BY <1>10, <3>2 DEF Alive
      <4>2. \/ \E d \in Classes : m \in central[d]
            \/ \E u \in Threads : at[u].pc = "push" /\ at[u].span = m
        BY <1>3, <2>1, <4>1 DEF Kept, FreeOwned
      <4>3. \A u \in Threads : at[u].pc = "push" /\ at[u].span = m => at'[u] = at[u]
        BY <1>22, <3>2
      <4> QED BY <1>15, <4>2, <4>3
    <3> QED BY <3>1, <3>2
  <2>2. ASSUME NEW u \in Threads, at'[u].pc = "push"
        PROVE LET j == heap'.span[at'[u].span]
              IN  j.class = at'[u].class /\ j.count = 0 /\ j.free = Carved(j, at'[u].class)
    <3>1. u # t /\ at'[u] = at[u] /\ Owns(u)
      BY <1>22, <2>2 DEF Owns
    <3>2. at[u].span \in Out(heap) /\ at[u].span # s
      BY <1>3, <3>1 DEF Kept, SpansOwned
    <3>3. heap'.span[at[u].span] = heap.span[at[u].span]
      BY <1>13, <3>2
    <3> QED BY <1>3, <2>2, <3>1, <3>3 DEF Kept, FreeOwned
  <2> QED BY <1>25, <2>1, <2>2 DEF FreeOwned
<1>30. OutUsed'
  <2>1. config.lib = "Pool" => \A m \in Out(heap) : heap'.span[m].used
    BY <1>3, <1>9, <1>13 DEF Kept, OutUsed, k
  <2> QED BY <1>25, <2>1 DEF OutUsed
<1>31. InHand'
  <2>1. SUFFICES ASSUME NEW u \in Threads
                 PROVE /\ at'[u].pc \in {"fetch", "newspan", "carve", "push", "release"} => at'[u].class \in Classes
                       /\ at'[u].blocks # {} => at'[u].pc \in {"release", "return"} /\ at'[u].class \in Classes
                       /\ at'[u].pc \in {"fetch", "newspan", "carve", "push"} =>
                            cache'[u][at'[u].class] = {} /\ at'[u].n <= maxSize[u][at'[u].class]
    BY DEF InHand
  <2>2. CASE u = t
    BY <1>22, <2>2
  <2>3. CASE u # t
    <3>1. at'[u] = at[u] /\ \A d \in Classes : cache'[u][d] = cache[u][d]
      BY <1>21, <1>22, <2>3
    <3>2. /\ at[u].pc \in {"fetch", "newspan", "carve", "push", "release"} => at[u].class \in Classes
          /\ at[u].blocks # {} => at[u].pc \in {"release", "return"} /\ at[u].class \in Classes
          /\ at[u].pc \in {"fetch", "newspan", "carve", "push"} =>
               cache[u][at[u].class] = {} /\ at[u].n <= maxSize[u][at[u].class]
      BY <1>3 DEF Kept, InHand
    <3> QED BY <3>1, <3>2
  <2> QED BY <2>2, <2>3
<1>32. \A d \in Classes : \A x : TakenFrom(central[d], heap.span, d, x) => TakenFrom(central'[d], heap'.span, d, x)
  <2>1. SUFFICES ASSUME NEW d \in Classes, NEW x, TakenFrom(central[d], heap.span, d, x)
                 PROVE TakenFrom(central'[d], heap'.span, d, x)
    OBVIOUS
  <2>2. PICK m \in central[d] : x \in Carved(heap.span[m], d) /\ x \notin heap.span[m].free
    BY <2>1 DEF TakenFrom
  <2>3. m \in central'[d]
    BY <1>15, <2>2
  <2>4. CASE m = s
    <3>1. d = c
      BY <1>14, <2>2, <2>4
    <3>2. x \in Carved(heap'.span[m], d) /\ x \notin heap'.span[m].free
      BY <1>9, <1>12, <2>2, <2>4, <3>1 DEF C, k, free
    <3> QED BY <2>3, <3>2 DEF TakenFrom
  <2>5. CASE m # s
    <3>1. heap'.span[m] = heap.span[m]
      BY <1>13, <1>14, <2>2, <2>5
    <3> QED BY <2>2, <2>3, <3>1 DEF TakenFrom
  <2> QED BY <2>4, <2>5
<1>33. \A x \in taken : TakenFrom(central'[c], heap'.span, c, x)
  <2>1. s \in central'[c]
    BY <1>15
  <2> QED BY <1>7, <1>9, <1>12, <2>1 DEF TakenFrom
<1>34. \A x : Large(Out(heap) \ Owned, heap.span, x) => Large(Out(heap) \ Owned', heap'.span, x)
  <2>1. SUFFICES ASSUME NEW x, Large(Out(heap) \ Owned, heap.span, x)
                 PROVE Large(Out(heap) \ Owned', heap'.span, x)
    OBVIOUS
  <2>2. PICK m \in Out(heap) \ Owned : heap.span[m].class = "large" /\ x = FirstWord(heap.span[m].page)
    BY <2>1 DEF Large
  <2>3. m # s
    BY <2>2, NoneAssumption
  <2>4. heap'.span[m] = heap.span[m] /\ m \in Out(heap) \ Owned'
    BY <1>13, <1>27, <2>2, <2>3
  <2> QED BY <2>2, <2>4 DEF Large
<1>35. BlocksTaken'
  <2>1. BlocksTaken
    BY <1>3 DEF Kept
  <2>2. \A u \in Threads, d \in Classes : \A x \in cache'[u][d] : TakenFrom(central'[d], heap'.span, d, x)
    <3>1. SUFFICES ASSUME NEW u \in Threads, NEW d \in Classes, NEW x \in cache'[u][d]
                   PROVE TakenFrom(central'[d], heap'.span, d, x)
      OBVIOUS
    <3>2. CASE u = t /\ d = c
      BY <1>21, <1>33, <3>2
    <3>3. CASE u # t \/ d # c
      <4>1. x \in cache[u][d]
        BY <1>21, <3>3
      <4>2. TakenFrom(central[d], heap.span, d, x)
        BY <2>1, <4>1 DEF BlocksTaken
      <4> QED BY <1>32, <4>2
    <3> QED BY <3>2, <3>3
  <2>3. \A u \in Threads : \A x \in at'[u].blocks : TakenFrom(central'[at'[u].class], heap'.span, at'[u].class, x)
    <3>1. SUFFICES ASSUME NEW u \in Threads, NEW x \in at'[u].blocks
                   PROVE TakenFrom(central'[at'[u].class], heap'.span, at'[u].class, x)
      OBVIOUS
    <3>2. at'[u] = at[u]
      BY <1>22, <3>1
    <3>3. at[u].class \in Classes /\ TakenFrom(central[at[u].class], heap.span, at[u].class, x)
      BY <1>3, <2>1, <3>1, <3>2 DEF BlocksTaken, Kept, InHand
    <3> QED BY <1>32, <3>2, <3>3
  <2>4. \A q \in held' :
         \/ \E d \in Classes : q.size = BlockWords[d] /\ TakenFrom(central'[d], heap'.span, d, q.at)
         \/ Large(Out(heap) \ Owned', heap'.span, q.at)
    <3>1. SUFFICES ASSUME NEW q \in held
                   PROVE \/ \E d \in Classes : q.size = BlockWords[d] /\ TakenFrom(central'[d], heap'.span, d, q.at)
                         \/ Large(Out(heap) \ Owned', heap'.span, q.at)
      BY <1>19, <1>20, <1>33
    <3>2. \/ \E d \in Classes : q.size = BlockWords[d] /\ TakenFrom(central[d], heap.span, d, q.at)
          \/ Large(Out(heap) \ Owned, heap.span, q.at)
      BY <2>1 DEF BlocksTaken
    <3> QED BY <1>32, <1>34, <3>2
  <2> QED BY <1>25, <2>2, <2>3, <2>4 DEF BlocksTaken
<1>36. BlocksOnce'
  <2>1. BlocksOnce
    BY <1>3 DEF Kept
  <2>2. \A u \in Threads, d \in Classes : \A x \in cache'[u][d] :
          \/ u = t /\ d = c /\ x \in taken /\ x # b
          \/ x \in cache[u][d] /\ x \notin taken
    <3>1. SUFFICES ASSUME NEW u \in Threads, NEW d \in Classes, NEW x \in cache'[u][d], u # t \/ d # c
                   PROVE x \in cache[u][d] /\ x \notin taken
      BY <1>21
    <3>2. x \in cache[u][d]
      BY <1>21, <3>1
    <3> QED BY <1>18, <3>2
  <2>3. \A u \in Threads : \A x \in at'[u].blocks : x \in at[u].blocks /\ x \notin taken
    BY <1>18, <1>22
  <2>4. \A u, v \in Threads, d, e \in Classes : \A x \in cache'[u][d] : x \in cache'[v][e] => u = v /\ d = e
    BY <2>1, <2>2 DEF BlocksOnce
  <2>5. \A u, v \in Threads, d \in Classes : \A x \in cache'[u][d] : x \notin at'[v].blocks
    BY <2>1, <2>2, <2>3 DEF BlocksOnce
  <2>6. \A u, v \in Threads : \A x \in at'[u].blocks : x \in at'[v].blocks => u = v
    BY <2>1, <2>3 DEF BlocksOnce
  <2>7. \A q \in held' : \A u \in Threads : q.at \notin at'[u].blocks /\ \A d \in Classes : q.at \notin cache'[u][d]
    <3>1. SUFFICES ASSUME NEW q \in held', NEW u \in Threads
                   PROVE q.at \notin at'[u].blocks /\ \A d \in Classes : q.at \notin cache'[u][d]
      OBVIOUS
    <3>2. CASE q = o
      BY <1>19, <2>2, <2>3, <3>2
    <3>3. CASE q \in held
      BY <1>18, <2>1, <2>2, <2>3, <3>3 DEF BlocksOnce
    <3> QED BY <1>20, <3>2, <3>3
  <2>8. \A p, q \in held' : p.at = q.at => p = q
    BY <1>18, <1>19, <1>20, <2>1 DEF BlocksOnce
  <2> QED BY <2>4, <2>5, <2>6, <2>7, <2>8 DEF BlocksOnce
<1>37. BlocksCounted'
  <2>1. \A d \in Classes : \A x : Outside(cache, at, held, d, x) => Outside(cache', at', held', d, x)
    <3>1. \A u \in Threads, d \in Classes : \A x \in cache[u][d] : x \in cache'[u][d]
      BY <1>5, <1>21
    <3>2. \A u \in Threads : \A x \in at[u].blocks : x \in at'[u].blocks
      BY <1>5, <1>22
    <3> QED BY <1>20, <3>1, <3>2 DEF Outside
  <2>2. \A x \in taken : Outside(cache', at', held', c, x)
    BY <1>19, <1>20, <1>21 DEF Outside
  <2>3. ASSUME NEW d \in Classes, NEW m \in central'[d]
        PROVE LET j == heap'.span[m]
              IN  /\ j.free \subseteq Carved(j, d)
                  /\ j.count = Cardinality(Carved(j, d) \ j.free)
                  /\ \A x \in Carved(j, d) \ j.free : Outside(cache', at', held', d, x)
    <3>1. CASE m = s
      <4>1. d = c
        BY <1>14, <1>15, <2>3, <3>1
      <4>2. C \ (free \ taken) = (C \ free) \cup taken /\ (C \ free) \cap taken = {}
        BY <1>1, <1>7
      <4>3. k.count + Cardinality(taken) = Cardinality(C \ (free \ taken))
        <5>1. k.count = Cardinality(C \ free)
          BY DEF C, k, free
        <5>2. IsFiniteSet(C \ free)
          BY <1>6, FS_Difference
        <5>3. Cardinality((C \ free) \cup taken) =
                Cardinality(C \ free) + Cardinality(taken) - Cardinality((C \ free) \cap taken)
          BY <1>8, <5>2, FS_Union
        <5>4. Cardinality((C \ free) \cap taken) = 0
          BY <4>2, FS_EmptySet
        <5>5. Cardinality(C \ (free \ taken)) = Cardinality((C \ free) \cup taken)
          BY <4>2, Zenon
        <5>6. Cardinality(C \ free) \in Nat
          BY <5>2, FS_CardinalityType
        <5> QED BY <1>8, <5>1, <5>3, <5>4, <5>5, <5>6
      <4>4. \A x \in C \ (free \ taken) : Outside(cache', at', held', c, x)
        <5>1. \A x \in C \ free : Outside(cache, at, held, c, x)
          BY DEF C, k, free
        <5> QED BY <2>1, <2>2, <4>2, <5>1
      <4> QED BY <1>7, <1>9, <1>12, <3>1, <4>1, <4>3, <4>4
    <3>2. CASE m # s
      <4>1. m \in central[d]
        BY <1>15, <2>3, <3>2
      <4>2. heap'.span[m] = heap.span[m]
        BY <1>13, <1>14, <3>2, <4>1
      <4> QED BY <1>3, <2>1, <4>1, <4>2 DEF Kept, BlocksCounted
    <3> QED BY <3>1, <3>2
  <2> QED BY <2>3 DEF BlocksCounted
<1> QED BY <1>10, <1>23, <1>24, <1>25, <1>28, <1>29, <1>30, <1>31, <1>35, <1>36, <1>37 DEF Sound, Kept

\* A thread takes blocks of a span of the list, or goes on to the page cache.
LEMMA FetchRangeObjKeeps ==
  ASSUME Sound, NEW t \in Threads, FetchRangeObj(t)
  PROVE Sound' /\ heap'.wild = heap.wild
<1> DEFINE c == at[t].class
<1>1. at[t].pc = "fetch" /\ config' = config /\ central' = central /\ lock' = lock /\ maxSize' = maxSize
  BY DEF FetchRangeObj
<1>2. \/ \E s \in FetchOneSpan(c) : Take(t, s)
      \/ /\ at' = [at EXCEPT ![t] = [pc |-> "newspan", class |-> c, n |-> at[t].n, span |-> None, blocks |-> {}]]
         /\ heap' = heap /\ cache' = cache /\ held' = held
  BY DEF FetchRangeObj, Goto
<1>3. Kept /\ AllocTypeOK
  BY DEF Sound
<1>4. c \in Classes /\ at[t].blocks = {}
  BY <1>1, <1>3 DEF Kept, InHand
<1>5. CASE \E s \in FetchOneSpan(c) : Take(t, s)
  <2>1. PICK s \in FetchOneSpan(c) : Take(t, s)
    BY <1>5
  <2> HIDE DEF c
  <2>2. s \in central[c]
    BY DEF FetchOneSpan
  <2>3. /\ s \in Out(heap) /\ heap.span[s].class = c
        /\ \A u \in Threads : Owns(u) => at[u].span # s
    BY <1>3, <1>4, <2>2 DEF Kept, SpansOwned
  <2>4. /\ heap.span[s].free \subseteq Carved(heap.span[s], c)
        /\ heap.span[s].count = Cardinality(Carved(heap.span[s], c) \ heap.span[s].free)
        /\ \A x \in Carved(heap.span[s], c) \ heap.span[s].free : Outside(cache, at, held, c, x)
    BY <1>3, <1>4, <2>2 DEF Kept, BlocksCounted
  <2>5. central' = [central EXCEPT ![c] = @ \cup {s}]
    <3>1. central[c] \cup {s} = central[c]
      BY <2>2
    <3>2. [central EXCEPT ![c] = central[c]] = central
      BY <1>3, <1>4 DEF AllocTypeOK
    <3> QED BY <1>1, <3>1, <3>2
  <2>6. at[t].class = c /\ at[t].pc \in {"fetch", "push"} /\ (at[t].pc = "push" => at[t].span = s)
    BY <1>1 DEF c
  <2>7. \A u \in Threads : Owns(u) /\ at[u].span = s => u = t
    BY <2>3
  <2> QED BY <1>1, <1>4, <2>1, <2>3, <2>4, <2>5, <2>6, <2>7, TakeKeeps
<1>6. CASE /\ at' = [at EXCEPT ![t] = [pc |-> "newspan", class |-> c, n |-> at[t].n, span |-> None, blocks |-> {}]]
           /\ heap' = heap /\ cache' = cache /\ held' = held
  <2>1. /\ at' \in [Threads -> [pc : Places, class : Classes \cup {None}, n : Nat,
                                span : Spans \cup {None}, blocks : SUBSET Nat]]
        /\ at'[t].pc = "newspan" /\ at'[t].class = c /\ at'[t].n = at[t].n /\ at'[t].blocks = {}
        /\ \A u \in Threads : u # t => at'[u] = at[u]
    <3> DEFINE n == at[t].n
    <3>1. n \in Nat
      BY <1>3, StateType
    <3> HIDE DEF c, n
    <3>2. at' = [at EXCEPT ![t] = [pc |-> "newspan", class |-> c, n |-> n, span |-> None, blocks |-> {}]]
      BY <1>6 DEF n
    <3>3. /\ at' \in [Threads -> [pc : Places, class : Classes \cup {None}, n : Nat,
                                  span : Spans \cup {None}, blocks : SUBSET Nat]]
          /\ at'[t].pc = "newspan" /\ at'[t].class = c /\ at'[t].n = n /\ at'[t].blocks = {}
          /\ \A u \in Threads : u # t => at'[u] = at[u]
      BY <1>3, <1>4, <3>1, <3>2 DEF AllocTypeOK, Places
    <3> QED BY <3>3 DEF n
  <2>2. AllocTypeOK'
    BY <1>1, <1>6, <2>1, SameConfig DEF Sound, AllocTypeOK
  <2>3. CachesSized'
    BY <1>1, <1>6 DEF Sound, CachesSized
  <2>4. \A u \in Threads : (Owns(u))' <=> Owns(u)
    BY <1>1, <2>1 DEF Owns
  <2>5. Out(heap)' = Out(heap) /\ Alive(heap)' = Alive(heap) /\ PagesKept(heap, {})'
    BY <1>1, <1>3, <1>6, SameConfig DEF Kept
  <2>6. Owned' = Owned
    <3>1. \A u \in Threads : Owns(u) => at'[u].span = at[u].span
      BY <1>1, <2>1 DEF Owns
    <3> QED BY <2>4, <3>1 DEF Owned
  <2>7. SpansOwned'
    <3>1. \A u \in Threads : at'[u].pc \in {"carve", "push", "return"} =>
            at[u].pc \in {"carve", "push", "return"} /\ at'[u].span = at[u].span
      BY <1>1, <2>1
    <3> QED BY <1>1, <1>3, <1>6, <2>5, <3>1 DEF Kept, SpansOwned, Owns
  <2>8. FreeOwned' /\ OutUsed'
    <3>1. \A u \in Threads : at'[u].pc = "push" <=> at[u].pc = "push"
      BY <1>1, <2>1
    <3>2. \A u \in Threads : at[u].pc = "push" => at'[u].span = at[u].span /\ at'[u].class = at[u].class
      BY <1>1, <2>1
    <3>3. FreeOwned'
      BY <1>1, <1>3, <1>6, <2>5, <3>1, <3>2 DEF Kept, FreeOwned
    <3> QED BY <1>1, <1>3, <1>6, <2>5, <3>3 DEF Kept, OutUsed
  <2>9. InHand'
    <3>1. SUFFICES ASSUME NEW u \in Threads
                   PROVE /\ at'[u].pc \in {"fetch", "newspan", "carve", "push", "release"} => at'[u].class \in Classes
                         /\ at'[u].blocks # {} => at'[u].pc \in {"release", "return"} /\ at'[u].class \in Classes
                         /\ at'[u].pc \in {"fetch", "newspan", "carve", "push"} =>
                              cache[u][at'[u].class] = {} /\ at'[u].n <= maxSize[u][at'[u].class]
      BY <1>1, <1>6 DEF InHand
    <3>2. CASE u = t
      <4>1. cache[t][c] = {} /\ at[t].n <= maxSize[t][c]
        BY <1>1, <1>3 DEF Kept, InHand
      <4> QED BY <1>4, <2>1, <3>2, <4>1
    <3>3. CASE u # t
      BY <1>3, <2>1, <3>3 DEF Kept, InHand
    <3> QED BY <3>2, <3>3
  <2>10. \A u \in Threads : at'[u].blocks = at[u].blocks /\ (at[u].blocks # {} => at'[u] = at[u])
    BY <1>4, <2>1
  <2>11. BlocksTaken'
    BY <1>1, <1>3, <1>6, <2>5, <2>6, <2>10 DEF Kept, BlocksTaken
  <2>12. BlocksOnce'
    BY <1>6, <1>3, <2>10 DEF Kept, BlocksOnce
  <2>13. BlocksCounted'
    <3>1. \A d \in Classes : \A x : Outside(cache, at, held, d, x) => Outside(cache, at', held, d, x)
      BY <2>10 DEF Outside
    <3> QED BY <1>1, <1>3, <1>6, <3>1 DEF Kept, BlocksCounted
  <2> QED BY <1>6, <2>2, <2>3, <2>5, <2>7, <2>8, <2>9, <2>11, <2>12, <2>13 DEF Sound, Kept
<1> QED BY <1>2, <1>5, <1>6

\* A span comes into the list of its class, and the thread takes blocks of it.
LEMMA PushSpanKeeps ==
  ASSUME Sound, NEW t \in Threads, PushSpan(t)
  PROVE Sound' /\ heap'.wild = heap.wild
<1> DEFINE c == at[t].class
           s == at[t].span
<1>1. /\ at[t].pc = "push" /\ config' = config /\ lock' = lock /\ maxSize' = maxSize
      /\ central' = [central EXCEPT ![c] = @ \cup {s}] /\ Take(t, s)
  BY DEF PushSpan
<1>2. Kept /\ Owns(t)
  BY <1>1 DEF Sound, Owns
<1>3. c \in Classes /\ s \in Out(heap)
  BY <1>1, <1>2 DEF Kept, InHand, SpansOwned
<1>4. \A u \in Threads : Owns(u) /\ at[u].span = s => u = t
  BY <1>2 DEF Kept, SpansOwned
<1>5. /\ heap.span[s].class = c /\ heap.span[s].count = 0
      /\ heap.span[s].free = Carved(heap.span[s], c)
  BY <1>1, <1>2 DEF Kept, FreeOwned
<1>6. at[t].class = c /\ at[t].pc \in {"fetch", "push"} /\ (at[t].pc = "push" => at[t].span = s)
  BY <1>1
<1> HIDE DEF c, s
<1>7. Carved(heap.span[s], c) \ heap.span[s].free = {}
  BY <1>5
<1>8. /\ heap.span[s].free \subseteq Carved(heap.span[s], c)
      /\ heap.span[s].count = Cardinality(Carved(heap.span[s], c) \ heap.span[s].free)
      /\ \A x \in Carved(heap.span[s], c) \ heap.span[s].free : Outside(cache, at, held, c, x)
  BY <1>5, <1>7, FS_EmptySet
<1> QED BY <1>1, <1>3, <1>4, <1>5, <1>6, <1>8, TakeKeeps

-----------------------------------------------------------------------------
(* The steps that give blocks and spans back. *)

\* A block comes back to its span; with the last one the span leaves its list.
LEMMA ReturnBlockKeeps ==
  ASSUME Sound, NEW t \in Threads, NEW b \in at[t].blocks, ReturnBlock(t, b)
  PROVE Sound' /\ heap'.wild = heap.wild
<1> DEFINE c == at[t].class
           s == PageToSpan(b)
           k == heap.span[s]
           rest == at[t].blocks \ {b}
           last == k.count = 1
           C == Carved(k, c)
           F == IF last THEN {} ELSE k.free \cup {b}
           N == k.count - 1
<1>1. /\ at[t].pc = "release" /\ config' = config /\ cache' = cache /\ maxSize' = maxSize /\ held' = held
      /\ heap' = [heap EXCEPT !.span[s].free = IF last THEN {} ELSE @ \cup {b}, !.span[s].count = @ - 1]
      /\ central' = [central EXCEPT ![c] = IF last THEN @ \ {s} ELSE @]
      /\ lock' = [lock EXCEPT ![c] = IF last \/ rest = {} THEN None ELSE @]
  BY DEF ReturnBlock
<1>2. /\ last => at' = [at EXCEPT ![t] = [pc |-> "return", class |-> c, n |-> 0, span |-> s, blocks |-> rest]]
      /\ ~last /\ rest = {} => at' = [at EXCEPT ![t] = Idle]
      /\ ~last /\ rest # {} =>
           at' = [at EXCEPT ![t] = [pc |-> "release", class |-> c, n |-> 0, span |-> None, blocks |-> rest]]
  BY DEF ReturnBlock, Goto
<1>3. Kept /\ AllocTypeOK /\ CachesSized /\ config \in Scenarios /\ heap \in PageCache /\ PagesKept(heap, {})
  BY DEF Sound, AllocTypeOK, Kept
<1>4. c \in Classes /\ TakenFrom(central[c], heap.span, c, b) /\ rest \subseteq Nat /\ ~Owns(t)
  BY <1>1, <1>3, StateType DEF Kept, InHand, BlocksTaken, Owns
<1>5. /\ b \in Nat /\ s \in central[c] /\ s \in Out(heap) /\ k.class = c
      /\ b \in C /\ b \notin k.free
  BY <1>4, TakenHome
<1>6. /\ s \in Spans /\ s \in Alive(heap) /\ k.page \in Nat /\ k.npage \in Nat
      /\ k.free \subseteq Nat /\ k.count \in Nat
  BY <1>3, <1>5, SpanType DEF Out
<1>7. /\ k.free \subseteq C /\ k.count = Cardinality(C \ k.free)
      /\ \A x \in C \ k.free : Outside(cache, at, held, c, x)
  BY <1>3, <1>4, <1>5 DEF Kept, BlocksCounted
<1>8. IsFiniteSet(C)
  <2> HIDE DEF k, c
  <2> QED BY <1>6, CarvedFinite
<1> HIDE DEF c, s
<1>9. /\ heap' = [heap EXCEPT !.span[s].free = F, !.span[s].count = N]
  BY <1>1
<1> HIDE DEF k, C, rest, F, N
<1>10. N \in Nat /\ N = Cardinality((C \ k.free) \ {b}) /\ (last => C \ k.free = {b})
  <2> DEFINE X == C \ k.free
  <2>1. IsFiniteSet(X) /\ b \in X
    BY <1>5, <1>8, FS_Difference
  <2> HIDE DEF X
  <2>2. /\ IsFiniteSet(X \ {b}) /\ Cardinality(X \ {b}) = Cardinality(X) - 1
    BY <2>1, FS_RemoveElement
  <2>3. Cardinality(X \ {b}) \in Nat
    BY <2>2, FS_CardinalityType
  <2>4. k.count = Cardinality(X)
    BY <1>7 DEF X
  <2>5. N = Cardinality(X \ {b})
    BY <2>2, <2>4 DEF N
  <2>6. last => X = {b}
    <3>1. SUFFICES ASSUME last PROVE X \ {b} = {}
      BY <2>1
    <3>2. Cardinality(X \ {b}) = 0
      BY <2>2, <2>4, <3>1
    <3> QED BY <2>2, <3>2, FS_EmptySet
  <2> QED BY <2>3, <2>5, <2>6 DEF X
<1>11. F \in SUBSET Nat
  BY <1>5, <1>6 DEF F
\* The page cache.
<1>12. /\ Refilled(heap, heap', s) /\ heap'.span[s].free = F /\ heap'.span[s].count = N
       /\ heap'.span[s].class = c /\ (heap'.span[s].used <=> k.used)
  <2> DEFINE g == [heap EXCEPT !.span[s].free = F, !.span[s].count = N]
  <2>1. /\ Refilled(heap, g, s) /\ g.span[s].free = F /\ g.span[s].count = N
        /\ g.span[s].class = heap.span[s].class /\ (g.span[s].used <=> heap.span[s].used)
    <3>1. heap \in PageCache /\ s \in Alive(heap) /\ F \in SUBSET Nat /\ N \in Nat
      BY <1>3, <1>6, <1>10, <1>11
    <3> QED BY <3>1, RefilledIs
  <2>2. heap' = g
    BY <1>9
  <2> HIDE DEF g
  <2> QED BY <1>5, <2>1, <2>2 DEF k
<1>13. /\ heap' \in PageCache /\ heap'.wild = heap.wild
       /\ heap'.span[s].page = k.page /\ heap'.span[s].npage = k.npage
       /\ \A m \in Spans : m # s => heap'.span[m] = heap.span[m]
  BY <1>12 DEF Refilled, k
<1>14. PagesKept(heap', {}) /\ Alive(heap') = Alive(heap) /\ Out(heap') = Out(heap)
  BY <1>3, <1>5, <1>12, RefilledKept
<1>15. Carved(heap'.span[s], c) = C
  BY <1>13 DEF Carved, C
<1>16. \A m \in Out(heap) : m \in Spans /\ (m # s => heap'.span[m] = heap.span[m])
  BY <1>13 DEF Out, Alive
<1>17. \A d \in Classes : \A m \in central[d] : m \in Out(heap) /\ heap.span[m].class = d
  BY <1>3 DEF Kept, SpansOwned
<1>18. /\ central' \in [Classes -> SUBSET Spans]
       /\ \A d \in Classes : \A m : m \in central'[d] <=> m \in central[d] /\ ~(last /\ m = s)
  <2> DEFINE L == IF last THEN central[c] \ {s} ELSE central[c]
  <2>1. central' = [central EXCEPT ![c] = L]
    BY <1>1
  <2>2. central[c] \subseteq Spans
    BY <1>3, <1>4, StateType
  <2>3. L \in SUBSET Spans /\ \A m : m \in L <=> m \in central[c] /\ ~(last /\ m = s)
    BY <2>2
  <2> HIDE DEF L, last
  <2>4. \A d \in Classes : d # c => s \notin central[d]
    BY <1>5, <1>17 DEF k
  <2> QED BY <1>3, <1>4, <2>1, <2>3, <2>4 DEF AllocTypeOK
<1>19. lock' \in [Classes -> Threads \cup {None}]
  <2> DEFINE w == IF last \/ rest = {} THEN None ELSE lock[c]
  <2>1. lock' = [lock EXCEPT ![c] = w]
    BY <1>1
  <2>2. w \in Threads \cup {None}
    BY <1>3, <1>4 DEF AllocTypeOK
  <2> HIDE DEF w
  <2> QED BY <1>3, <2>1, <2>2 DEF AllocTypeOK
<1>20. /\ at' \in [Threads -> [pc : Places, class : Classes \cup {None}, n : Nat,
                               span : Spans \cup {None}, blocks : SUBSET Nat]]
       /\ at'[t].pc \in {"idle", "release", "return"}
       /\ at'[t].pc = "return" <=> last
       /\ at'[t].pc = "return" => at'[t].span = s /\ at'[t].class = c
       /\ at'[t].pc = "release" => at'[t].class = c
       /\ at'[t].pc = "idle" => rest = {}
       /\ at'[t].blocks = rest
       /\ \A u \in Threads : u # t => at'[u] = at[u]
  <2> HIDE DEF last
  <2>1. "return" \in Places /\ "release" \in Places
    BY DEF Places
  <2>2. CASE last
    BY <1>2, <1>3, <1>4, <1>6, <2>1, <2>2 DEF AllocTypeOK
  <2>3. CASE ~last /\ rest = {}
    BY <1>2, <1>3, <2>3, IdleIs
  <2>4. CASE ~last /\ rest # {}
    <3>1. at' = [at EXCEPT ![t] = [pc |-> "release", class |-> c, n |-> 0, span |-> None, blocks |-> rest]]
      BY <1>2, <2>4
    <3> QED BY <1>3, <1>4, <2>1, <2>4, <3>1 DEF AllocTypeOK
  <2> QED BY <2>2, <2>3, <2>4
<1>21. AllocTypeOK'
  BY <1>1, <1>3, <1>13, <1>18, <1>19, <1>20, SameConfig DEF AllocTypeOK
<1>22. CachesSized'
  BY <1>1, <1>3 DEF CachesSized
<1>23. PagesKept(heap, {})' /\ Out(heap)' = Out(heap) /\ Alive(heap)' = Alive(heap)
  BY <1>1, <1>14, SameConfig
<1>24. \A u \in Threads : (Owns(u))' <=> Owns(u) \/ (u = t /\ last)
  BY <1>4, <1>20 DEF Owns
<1>25. \A u \in Threads : Owns(u) =>
         u # t /\ at'[u] = at[u] /\ at[u].span \in Out(heap) /\ at[u].span # s
         /\ \A d \in Classes : at[u].span \notin central[d]
  BY <1>3, <1>4, <1>5, <1>20 DEF Kept, SpansOwned
<1> HIDE DEF last
<1>26. Owned' \subseteq Owned \cup {s}
  BY <1>20, <1>24, <1>25 DEF Owned
<1>27. SpansOwned'
  <2>1. \A d \in Classes : \A m \in central'[d] : m \in Out(heap) /\ heap'.span[m].class = d
    <3>1. SUFFICES ASSUME NEW d \in Classes, NEW m \in central'[d]
                   PROVE m \in Out(heap) /\ heap'.span[m].class = d
      OBVIOUS
    <3>2. m \in central[d] /\ m \in Out(heap) /\ heap.span[m].class = d
      BY <1>17, <1>18, <3>1
    <3>3. CASE m = s
      BY <1>5, <1>12, <3>2, <3>3 DEF k
    <3>4. CASE m # s
      BY <1>16, <3>2, <3>4
    <3> QED BY <3>3, <3>4
  <2>2. ASSUME NEW u \in Threads, (Owns(u))'
        PROVE at'[u].span \in Out(heap) /\ \A d \in Classes : at'[u].span \notin central'[d]
    <3>1. CASE Owns(u)
      BY <1>18, <1>25, <3>1
    <3>2. CASE u = t /\ last
      BY <1>5, <1>18, <1>20, <3>2
    <3> QED BY <1>24, <2>2, <3>1, <3>2
  <2>3. ASSUME NEW u \in Threads, NEW v \in Threads, (Owns(u))', (Owns(v))', at'[u].span = at'[v].span
        PROVE u = v
    <3>1. \A x, y \in Threads : Owns(x) /\ Owns(y) /\ at[x].span = at[y].span => x = y
      BY <1>3 DEF Kept, SpansOwned
    <3>2. last => at'[t].span = s
      BY <1>20
    <3> QED BY <1>24, <1>25, <2>3, <3>1, <3>2
  <2> QED BY <1>23, <2>1, <2>2, <2>3 DEF SpansOwned, Owns
<1>28. FreeOwned'
  <2>1. ASSUME NEW m \in Alive(heap), heap'.span[m].free # {}
        PROVE \/ \E d \in Classes : m \in central'[d]
              \/ \E u \in Threads : at'[u].pc = "push" /\ at'[u].span = m
    <3>1. CASE m = s
      BY <1>4, <1>5, <1>12, <1>18, <2>1, <3>1 DEF F
    <3>2. CASE m # s
      <4>1. heap'.span[m] = heap.span[m]
        BY <1>13, <3>2 DEF Alive
      <4>2. \/ \E d \in Classes : m \in central[d]
            \/ \E u \in Threads : at[u].pc = "push" /\ at[u].span = m
        BY <1>3, <2>1, <4>1 DEF Kept, FreeOwned
      <4>3. \A u \in Threads : at[u].pc = "push" => at'[u] = at[u]
        BY <1>1, <1>20
      <4> QED BY <1>18, <3>2, <4>2, <4>3
    <3> QED BY <3>1, <3>2
  <2>2. ASSUME NEW u \in Threads, at'[u].pc = "push"
        PROVE LET j == heap'.span[at'[u].span]
              IN  j.class = at'[u].class /\ j.count = 0 /\ j.free = Carved(j, at'[u].class)
    <3>1. u # t /\ at'[u] = at[u] /\ Owns(u)
      BY <1>20, <2>2 DEF Owns
    <3>2. heap'.span[at[u].span] = heap.span[at[u].span]
      BY <1>16, <1>25, <3>1
    <3> QED BY <1>3, <2>2, <3>1, <3>2 DEF Kept, FreeOwned
  <2> QED BY <1>23, <2>1, <2>2 DEF FreeOwned
<1>29. OutUsed'
  <2>1. config.lib = "Pool" => \A m \in Out(heap) : heap'.span[m].used
    BY <1>3, <1>12, <1>16 DEF Kept, OutUsed, k
  <2> QED BY <1>1, <1>23, <2>1 DEF OutUsed
<1>30. InHand'
  <2>1. SUFFICES ASSUME NEW u \in Threads
                 PROVE /\ at'[u].pc \in {"fetch", "newspan", "carve", "push", "release"} => at'[u].class \in Classes
                       /\ at'[u].blocks # {} => at'[u].pc \in {"release", "return"} /\ at'[u].class \in Classes
                       /\ at'[u].pc \in {"fetch", "newspan", "carve", "push"} =>
                            cache[u][at'[u].class] = {} /\ at'[u].n <= maxSize[u][at'[u].class]
    BY <1>1 DEF InHand
  <2>2. CASE u = t
    BY <1>4, <1>20, <2>2
  <2>3. CASE u # t
    BY <1>3, <1>20, <2>3 DEF Kept, InHand
  <2> QED BY <2>2, <2>3
\* The other blocks stay where they are.
<1>31. /\ \A u \in Threads : \A x \in at'[u].blocks : x \in at[u].blocks /\ x # b
       /\ \A u \in Threads : \A x \in at[u].blocks : x # b => x \in at'[u].blocks
       /\ \A u \in Threads : \A x \in at'[u].blocks : at'[u].class = at[u].class
  <2>1. \A u \in Threads : u # t => b \notin at[u].blocks
    BY <1>3 DEF Kept, BlocksOnce
  <2>2. rest # {} => at'[t].class = at[t].class
    BY <1>20 DEF c
  <2> QED BY <1>20, <2>1, <2>2 DEF rest
<1>32. ASSUME NEW d \in Classes, NEW x, x # b, TakenFrom(central[d], heap.span, d, x)
       PROVE TakenFrom(central'[d], heap'.span, d, x)
  <2>1. PICK m \in central[d] : x \in Carved(heap.span[m], d) /\ x \notin heap.span[m].free
    BY <1>32 DEF TakenFrom
  <2>2. CASE m = s
    <3>1. d = c
      BY <1>5, <1>17, <2>1, <2>2 DEF k
    <3>2. x \in C \ k.free
      BY <2>1, <2>2, <3>1 DEF C, k
    <3>3. ~last
      BY <1>10, <1>32, <3>2
    <3>4. m \in central'[d] /\ x \in Carved(heap'.span[m], d) /\ x \notin heap'.span[m].free
      BY <1>12, <1>15, <1>18, <1>32, <2>1, <2>2, <3>1, <3>2, <3>3 DEF F
    <3> QED BY <3>4 DEF TakenFrom
  <2>3. CASE m # s
    <3>1. heap'.span[m] = heap.span[m] /\ m \in central'[d]
      BY <1>16, <1>17, <1>18, <2>1, <2>3
    <3> QED BY <2>1, <3>1 DEF TakenFrom
  <2> QED BY <2>2, <2>3
<1>33. ASSUME NEW x, Large(Out(heap) \ Owned, heap.span, x)
       PROVE Large(Out(heap) \ Owned', heap'.span, x)
  <2>1. PICK m \in Out(heap) \ Owned : heap.span[m].class = "large" /\ x = FirstWord(heap.span[m].page)
    BY <1>33 DEF Large
  <2>2. m # s
    BY <1>4, <1>5, <2>1, NoneAssumption DEF k
  <2>3. heap'.span[m] = heap.span[m] /\ m \in Out(heap) \ Owned'
    BY <1>16, <1>26, <2>1, <2>2
  <2> QED BY <2>1, <2>3 DEF Large
<1>34. BlocksTaken /\ BlocksOnce /\ InHand
  BY <1>3 DEF Kept
<1>35. BlocksTaken'
  <2>1. ASSUME NEW u \in Threads, NEW d \in Classes, NEW x \in cache[u][d]
        PROVE TakenFrom(central'[d], heap'.span, d, x)
    <3>1. x # b /\ TakenFrom(central[d], heap.span, d, x)
      BY <1>34 DEF BlocksTaken, BlocksOnce
    <3> QED BY <1>32, <3>1
  <2>2. ASSUME NEW u \in Threads, NEW x \in at'[u].blocks
        PROVE TakenFrom(central'[at'[u].class], heap'.span, at'[u].class, x)
    <3>1. x # b /\ x \in at[u].blocks /\ at'[u].class = at[u].class
      BY <1>31
    <3>2. at[u].class \in Classes /\ TakenFrom(central[at[u].class], heap.span, at[u].class, x)
      BY <1>34, <3>1 DEF BlocksTaken, InHand
    <3> QED BY <1>32, <3>1, <3>2
  <2>3. ASSUME NEW q \in held
        PROVE \/ \E d \in Classes : q.size = BlockWords[d] /\ TakenFrom(central'[d], heap'.span, d, q.at)
              \/ Large(Out(heap) \ Owned', heap'.span, q.at)
    <3>1. \/ \E d \in Classes : q.size = BlockWords[d] /\ TakenFrom(central[d], heap.span, d, q.at)
          \/ Large(Out(heap) \ Owned, heap.span, q.at)
      BY <1>34 DEF BlocksTaken
    <3>2. q.at # b
      BY <1>34 DEF BlocksOnce
    <3> QED BY <1>32, <1>33, <3>1, <3>2
  <2> QED BY <1>1, <1>23, <2>1, <2>2, <2>3 DEF BlocksTaken
<1>36. BlocksOnce'
  BY <1>1, <1>31, <1>34 DEF BlocksOnce
<1>37. BlocksCounted'
  <2>1. ASSUME NEW d \in Classes, NEW x, x # b, Outside(cache, at, held, d, x)
        PROVE Outside(cache, at', held, d, x)
    BY <1>31, <2>1 DEF Outside
  <2>2. ASSUME NEW d \in Classes, NEW m \in central'[d]
        PROVE LET j == heap'.span[m]
              IN  /\ j.free \subseteq Carved(j, d)
                  /\ j.count = Cardinality(Carved(j, d) \ j.free)
                  /\ \A x \in Carved(j, d) \ j.free : Outside(cache, at', held, d, x)
    <3>1. m \in central[d] /\ ~(last /\ m = s)
      BY <1>18, <2>2
    <3>2. CASE m = s
      <4>1. d = c /\ F = k.free \cup {b}
        BY <1>5, <1>17, <3>1, <3>2 DEF k, F
      <4>2. C \ F = (C \ k.free) \ {b} /\ F \subseteq C
        BY <1>5, <1>7, <4>1
      <4>3. N = Cardinality(C \ F)
        BY <1>10, <4>2, Zenon
      <4>4. \A x \in C \ F : Outside(cache, at', held, c, x)
        BY <1>4, <1>7, <2>1, <4>2
      <4> QED BY <1>12, <1>15, <3>2, <4>1, <4>2, <4>3, <4>4
    <3>3. CASE m # s
      <4>1. heap'.span[m] = heap.span[m] /\ m \in Out(heap)
        BY <1>16, <1>17, <3>1, <3>3
      <4>2. b \notin Carved(heap.span[m], d)
        <5>1. heap.map[PageOf(b)] = s
          BY DEF s, PageToSpan
        <5> QED BY <1>3, <3>3, <4>1, <5>1, HomeIs
      <4>3. /\ heap.span[m].free \subseteq Carved(heap.span[m], d)
            /\ heap.span[m].count = Cardinality(Carved(heap.span[m], d) \ heap.span[m].free)
            /\ \A x \in Carved(heap.span[m], d) \ heap.span[m].free : Outside(cache, at, held, d, x)
        BY <1>3, <3>1 DEF Kept, BlocksCounted
      <4>4. \A x \in Carved(heap.span[m], d) \ heap.span[m].free : Outside(cache, at', held, d, x)
        BY <2>1, <4>2, <4>3
      <4> QED BY <4>1, <4>3, <4>4
    <3> QED BY <3>2, <3>3
  <2> QED BY <1>1, <2>2 DEF BlocksCounted
<1> QED BY <1>13, <1>21, <1>22, <1>23, <1>27, <1>28, <1>29, <1>30, <1>35, <1>36, <1>37 DEF Sound, Kept

\* What it is given back it takes.
LEMMA ReturnTakesBack ==
  ASSUME Sound, ~heap.wild, NEW t \in Threads, ReturnSpan(t)
  PROVE TakesBack(heap, heap', at[t].span)
<1> DEFINE s == at[t].span
<1>1. at[t].pc = "return" /\ heap' = ReleaseSpanToPageCache(heap, s)
  BY DEF ReturnSpan
<1>2. Kept /\ heap \in PageCache /\ PagesKept(heap, {}) /\ Owns(t)
  BY <1>1 DEF Sound, AllocTypeOK, Kept, Owns
<1>3. /\ s \in Out(heap) /\ s \in Spans
      /\ \A d \in Classes : s \notin central[d]
      /\ \A u \in Threads : Owns(u) /\ at[u].span = s => u = t
  BY <1>2 DEF Kept, SpansOwned, Out, Alive
<1> HIDE DEF s
<1>4. heap.span[s].free = {}
  <2>1. SUFFICES ASSUME heap.span[s].free # {}
                 PROVE FALSE
    OBVIOUS
  <2>2. s \in Alive(heap)
    BY <1>3 DEF Out
  <2>3. PICK u \in Threads : at[u].pc = "push" /\ at[u].span = s
    BY <1>2, <1>3, <2>1, <2>2 DEF Kept, FreeOwned
  <2> QED BY <1>1, <1>3, <2>3 DEF Owns
<1>5. TakesBack(heap, heap', s)
  BY <1>1, <1>2, <1>3, <1>4, Released
<1> QED BY <1>5 DEF s

\* A span goes back to the page cache.
LEMMA ReturnSpanKeeps ==
  ASSUME Sound, ~heap.wild, NEW t \in Threads, ReturnSpan(t)
  PROVE /\ AllocTypeOK' /\ CachesSized' /\ (~heap'.wild => Kept')
        /\ heap'.wild => config.lib # "Pool"
<1> DEFINE c == at[t].class
           s == at[t].span
           blocks == at[t].blocks
<1>1. /\ at[t].pc = "return" /\ heap' = ReleaseSpanToPageCache(heap, s)
      /\ config' = config /\ central' = central /\ lock' = lock
      /\ cache' = cache /\ maxSize' = maxSize /\ held' = held
      /\ blocks = {} => at' = [at EXCEPT ![t] = Idle]
      /\ blocks # {} =>
           at' = [at EXCEPT ![t] = [pc |-> "release", class |-> c, n |-> 0, span |-> None, blocks |-> blocks]]
  BY DEF ReturnSpan, Goto
<1>2. Kept /\ AllocTypeOK /\ CachesSized /\ heap \in PageCache /\ PagesKept(heap, {}) /\ Owns(t)
  BY <1>1 DEF Sound, AllocTypeOK, Kept, Owns
<1>3. /\ c \in Classes \cup {None} /\ blocks \in SUBSET Nat /\ (blocks # {} => c \in Classes)
      /\ s \in Out(heap) /\ s \in Spans
      /\ \A d \in Classes : s \notin central[d]
      /\ \A u \in Threads : Owns(u) /\ at[u].span = s => u = t
  BY <1>2, StateType DEF Kept, InHand, SpansOwned, Out, Alive
<1>4. s \in Owned
  BY <1>2 DEF Owned
<1> HIDE DEF c, s, blocks
<1>6. TakesBack(heap, heap', s)
  BY ReturnTakesBack DEF s
<1>7. heap' \in PageCache
  BY <1>6 DEF TakesBack
<1>8. ASSUME heap'.wild PROVE config.lib # "Pool"
  BY <1>2, <1>6, <1>8 DEF TakesBack, Kept, OutUsed
<1>9. /\ at' \in [Threads -> [pc : Places, class : Classes \cup {None}, n : Nat,
                              span : Spans \cup {None}, blocks : SUBSET Nat]]
      /\ at'[t].pc \in {"idle", "release"} /\ at'[t].blocks = blocks
      /\ at'[t].pc = "release" => at'[t].class = c
      /\ at'[t].pc = "idle" <=> blocks = {}
      /\ \A u \in Threads : u # t => at'[u] = at[u]
  <2>1. CASE blocks = {}
    BY <1>1, <1>2, <2>1, IdleIs
  <2>2. CASE blocks # {}
    <3>1. at' = [at EXCEPT ![t] = [pc |-> "release", class |-> c, n |-> 0, span |-> None, blocks |-> blocks]]
      BY <1>1, <2>2
    <3>2. "release" \in Places
      BY DEF Places
    <3> QED BY <1>2, <1>3, <2>2, <3>1, <3>2 DEF AllocTypeOK
  <2> QED BY <2>1, <2>2
<1>10. AllocTypeOK'
  BY <1>1, <1>2, <1>7, <1>9, SameConfig DEF AllocTypeOK
<1>11. CachesSized'
  BY <1>1, <1>2 DEF CachesSized
<1>12. ASSUME ~heap'.wild PROVE Kept'
  <2>1. /\ PagesKept(heap', {})
        /\ \A m \in Spans : m \in Out(heap') <=> m \in Out(heap) /\ m # s
        /\ \A m \in Out(heap') : heap'.span[m] = heap.span[m]
    BY <1>6, <1>12 DEF TakesBack
  <2>2. PagesKept(heap, {})' /\ Out(heap)' = Out(heap') /\ Alive(heap)' = Alive(heap')
    BY <1>1, <2>1, SameConfig
  <2>3. /\ \A m \in Out(heap) : m # s => m \in Out(heap') /\ heap'.span[m] = heap.span[m]
        /\ \A m \in Out(heap') : m \in Out(heap) /\ m # s
    BY <2>1 DEF Out, Alive
  <2>4. \A d \in Classes : \A m \in central[d] :
          m \in Out(heap') /\ heap'.span[m] = heap.span[m] /\ heap.span[m].class = d
    BY <1>2, <1>3, <2>3 DEF Kept, SpansOwned
  <2>5. \A u \in Threads : (Owns(u))' <=> Owns(u) /\ u # t
    BY <1>9 DEF Owns
  <2>6. \A u \in Threads : Owns(u) /\ u # t =>
          /\ at'[u] = at[u] /\ at[u].span \in Out(heap')
          /\ heap'.span[at[u].span] = heap.span[at[u].span]
    BY <1>2, <1>3, <1>9, <2>3 DEF Kept, SpansOwned
  <2>7. Owned' \subseteq Owned
    BY <2>5, <2>6 DEF Owned
  <2>8. SpansOwned'
    <3>1. ASSUME NEW u \in Threads, (Owns(u))'
          PROVE at'[u].span \in Out(heap') /\ \A d \in Classes : at'[u].span \notin central[d]
      BY <1>2, <2>5, <2>6, <3>1 DEF Kept, SpansOwned
    <3>2. \A u, v \in Threads : (Owns(u))' /\ (Owns(v))' /\ at'[u].span = at'[v].span => u = v
      BY <1>2, <2>5, <2>6 DEF Kept, SpansOwned
    <3> QED BY <1>1, <2>2, <2>4, <3>1, <3>2 DEF SpansOwned, Owns
  <2>9. FreeOwned'
    <3>1. ASSUME NEW m \in Alive(heap'), heap'.span[m].free # {}
          PROVE \/ \E d \in Classes : m \in central[d]
                \/ \E u \in Threads : at'[u].pc = "push" /\ at'[u].span = m
      <4>1. m \in Out(heap')
        BY <2>1, <3>1 DEF PagesKept, ListsKept, Out
      <4>2. heap'.span[m] = heap.span[m] /\ m \in Alive(heap)
        BY <2>1, <2>3, <4>1 DEF Out
      <4>3. \/ \E d \in Classes : m \in central[d]
            \/ \E u \in Threads : at[u].pc = "push" /\ at[u].span = m
        BY <1>2, <3>1, <4>2 DEF Kept, FreeOwned
      <4>4. \A u \in Threads : at[u].pc = "push" => at'[u] = at[u]
        BY <1>1, <1>9
      <4> QED BY <4>3, <4>4
    <3>2. ASSUME NEW u \in Threads, at'[u].pc = "push"
          PROVE LET j == heap'.span[at'[u].span]
                IN  j.class = at'[u].class /\ j.count = 0 /\ j.free = Carved(j, at'[u].class)
      <4>1. u # t /\ at'[u] = at[u] /\ Owns(u)
        BY <1>9, <3>2 DEF Owns
      <4>2. heap'.span[at[u].span] = heap.span[at[u].span]
        BY <2>6, <4>1
      <4> QED BY <1>2, <3>2, <4>1, <4>2 DEF Kept, FreeOwned
    <3> QED BY <1>1, <2>2, <3>1, <3>2 DEF FreeOwned
  <2>10. OutUsed'
    <3>1. config.lib = "Pool" => \A m \in Out(heap') : heap'.span[m].used
      BY <1>2, <2>1, <2>3 DEF Kept, OutUsed
    <3> QED BY <1>1, <2>2, <3>1 DEF OutUsed
  <2>11. InHand'
    <3>1. SUFFICES ASSUME NEW u \in Threads
                   PROVE /\ at'[u].pc \in {"fetch", "newspan", "carve", "push", "release"} => at'[u].class \in Classes
                         /\ at'[u].blocks # {} => at'[u].pc \in {"release", "return"} /\ at'[u].class \in Classes
                         /\ at'[u].pc \in {"fetch", "newspan", "carve", "push"} =>
                              cache[u][at'[u].class] = {} /\ at'[u].n <= maxSize[u][at'[u].class]
      BY <1>1 DEF InHand
    <3>2. CASE u = t
      BY <1>3, <1>9, <3>2
    <3>3. CASE u # t
      BY <1>2, <1>9, <3>3 DEF Kept, InHand
    <3> QED BY <3>2, <3>3
  <2>12. \A u \in Threads : /\ at'[u].blocks = at[u].blocks
                            /\ at[u].blocks # {} => at'[u].class = at[u].class /\ at[u].class \in Classes
    <3>1. at'[t].blocks = at[t].blocks /\ (at[t].blocks # {} => at'[t].class = at[t].class)
      BY <1>9 DEF blocks, c
    <3>2. \A u \in Threads : at[u].blocks # {} => at[u].class \in Classes
      BY <1>2 DEF Kept, InHand
    <3> QED BY <1>9, <3>1, <3>2
  <2>13. \A d \in Classes : \A x : TakenFrom(central[d], heap.span, d, x) => TakenFrom(central[d], heap'.span, d, x)
    BY <2>4 DEF TakenFrom
  <2>14. \A x : Large(Out(heap) \ Owned, heap.span, x) => Large(Out(heap') \ Owned', heap'.span, x)
    <3>1. SUFFICES ASSUME NEW x, Large(Out(heap) \ Owned, heap.span, x)
                   PROVE Large(Out(heap') \ Owned', heap'.span, x)
      OBVIOUS
    <3>2. PICK m \in Out(heap) \ Owned : heap.span[m].class = "large" /\ x = FirstWord(heap.span[m].page)
      BY <3>1 DEF Large
    <3>3. heap'.span[m] = heap.span[m] /\ m \in Out(heap') \ Owned'
      BY <1>4, <2>3, <2>7, <3>2
    <3> QED BY <3>2, <3>3 DEF Large
  <2>15. BlocksTaken /\ BlocksOnce
    BY <1>2 DEF Kept
  <2>16. BlocksTaken'
    <3>1. \A u \in Threads, d \in Classes : \A x \in cache[u][d] : TakenFrom(central[d], heap'.span, d, x)
      BY <2>13, <2>15 DEF BlocksTaken
    <3>2. ASSUME NEW u \in Threads, NEW x \in at'[u].blocks
          PROVE TakenFrom(central[at'[u].class], heap'.span, at'[u].class, x)
      <4>1. x \in at[u].blocks /\ at'[u].class = at[u].class /\ at[u].class \in Classes
        BY <2>12, <3>2
      <4>2. TakenFrom(central[at[u].class], heap.span, at[u].class, x)
        BY <2>15, <4>1 DEF BlocksTaken
      <4> QED BY <2>13, <4>1, <4>2
    <3>3. \A q \in held :
            \/ \E d \in Classes : q.size = BlockWords[d] /\ TakenFrom(central[d], heap'.span, d, q.at)
            \/ Large(Out(heap') \ Owned', heap'.span, q.at)
      BY <2>13, <2>14, <2>15 DEF BlocksTaken
    <3> QED BY <1>1, <2>2, <3>1, <3>2, <3>3 DEF BlocksTaken
  <2>17. BlocksOnce'
    BY <1>1, <2>12, <2>15 DEF BlocksOnce
  <2>18. BlocksCounted'
    <3>1. \A d \in Classes : \A x : Outside(cache, at, held, d, x) => Outside(cache, at', held, d, x)
      BY <2>12 DEF Outside
    <3>2. ASSUME NEW d \in Classes, NEW m \in central[d]
          PROVE LET k == heap'.span[m]
                IN  /\ k.free \subseteq Carved(k, d)
                    /\ k.count = Cardinality(Carved(k, d) \ k.free)
                    /\ \A x \in Carved(k, d) \ k.free : Outside(cache, at', held, d, x)
      <4>1. /\ heap.span[m].free \subseteq Carved(heap.span[m], d)
            /\ heap.span[m].count = Cardinality(Carved(heap.span[m], d) \ heap.span[m].free)
            /\ \A x \in Carved(heap.span[m], d) \ heap.span[m].free : Outside(cache, at, held, d, x)
        BY <1>2 DEF Kept, BlocksCounted
      <4>2. heap'.span[m] = heap.span[m]
        BY <2>4
      <4> QED BY <3>1, <4>1, <4>2
    <3> QED BY <1>1, <3>2 DEF BlocksCounted
  <2> QED BY <2>2, <2>8, <2>9, <2>10, <2>11, <2>16, <2>17, <2>18 DEF Kept
<1> QED BY <1>8, <1>10, <1>11, <1>12

-----------------------------------------------------------------------------
(* The invariant. *)

\* Nothing was allocated at first.
LEMMA AllocInitInv ==
  ASSUME AllocInit
  PROVE AllocInv
<1>1. /\ config \in Scenarios /\ central = [c \in Classes |-> {}]
      /\ lock = [c \in Classes |-> None]
      /\ cache = [t \in Threads |-> [c \in Classes |-> {}]]
      /\ maxSize = [t \in Threads |-> [c \in Classes |-> 1]]
      /\ at = [t \in Threads |-> Idle] /\ held = {}
  BY DEF AllocInit
<1>2. /\ heap \in PageCache /\ heap.listed = {} /\ heap.mem = {} /\ heap.brk = 1 /\ ~heap.wild
      /\ \A s \in Spans : heap.span[s] = None
      /\ \A p \in Pages : heap.map[p] = None
  <2> DEFINE U == FALSE
             f == [s \in Spans |-> None]
             m == [p \in Pages |-> None]
  <2>1. heap = [span |-> f, listed |-> {}, map |-> m, mem |-> {}, brk |-> 1, wild |-> U]
    BY DEF AllocInit
  <2>2. f \in [Spans -> Span \cup {None}] /\ m \in [Pages -> Spans \cup {None}] /\ U \in BOOLEAN
    OBVIOUS
  <2>3. (\A s \in Spans : f[s] = None) /\ (\A p \in Pages : m[p] = None) /\ ~U
    OBVIOUS
  <2> HIDE DEF f, m, U
  <2>4. heap \in PageCache /\ heap.listed = {} /\ heap.mem = {} /\ heap.brk = 1
    BY <2>1, <2>2 DEF PageCache
  <2>5. heap.span = f /\ heap.map = m /\ heap.wild = U
    BY <2>1
  <2> QED BY <2>3, <2>4, <2>5
<1>3. \A t \in Threads : at[t].pc = "idle" /\ at[t].blocks = {} /\ ~Owns(t)
  BY <1>1 DEF Idle, Owns
<1>4. Alive(heap) = {} /\ Out(heap) = {}
  BY <1>2 DEF Alive, Out
<1>5. AllocTypeOK
  <2>1. at \in [Threads -> [pc : Places, class : Classes \cup {None}, n : Nat,
                            span : Spans \cup {None}, blocks : SUBSET Nat]]
    <3>1. Idle \in [pc : Places, class : Classes \cup {None}, n : Nat,
                    span : Spans \cup {None}, blocks : SUBSET Nat]
      BY DEF Idle, Places
    <3> QED BY <1>1, <3>1
  <2>2. \A t \in Threads, c \in Classes : maxSize[t][c] \in 1 .. MoveSize[c] + 1
    <3>1. \A c \in Classes : MoveSize[c] \in Nat /\ MoveSize[c] >= 1
      BY SizesAssumption
    <3> QED BY <1>1, <3>1
  <2>3. maxSize \in [Threads -> [Classes -> Nat]] /\ cache \in [Threads -> [Classes -> SUBSET Nat]]
    BY <1>1
  <2>4. central \in [Classes -> SUBSET Spans] /\ lock \in [Classes -> Threads \cup {None}]
    BY <1>1
  <2> QED BY <1>1, <1>2, <2>1, <2>2, <2>3, <2>4 DEF AllocTypeOK
<1>6. CachesSized
  <2>1. IsFiniteSet({}) /\ Cardinality({}) = 0
    BY FS_EmptySet
  <2>2. \A t \in Threads, c \in Classes : cache[t][c] = {} /\ maxSize[t][c] = 1
    BY <1>1
  <2>3. \A t \in Threads, c \in Classes :
          IsFiniteSet(cache[t][c]) /\ Cardinality(cache[t][c]) = 0 /\ maxSize[t][c] = 1
    BY <2>1, <2>2, Zenon
  <2>4. \A t \in Threads, c \in Classes : Cardinality(cache[t][c]) <= maxSize[t][c]
    BY <2>3
  <2> QED BY <2>3, <2>4, Zenon DEF CachesSized
<1>7. PagesKept(heap, {})
  <2>1. Tiled(heap)
    BY <1>2, <1>4 DEF Tiled
  <2>2. ListsKept(heap)
    BY <1>2 DEF ListsKept
  <2>3. MapTrue(heap, {})
    <3>1. None \notin Spans
      BY <1>1, ConfigType, NoneAssumption DEF Spans, Pages
    <3> QED BY <1>2, <1>4, <3>1 DEF MapTrue
  <2> QED BY <2>1, <2>2, <2>3 DEF PagesKept
<1>8. SpansOwned /\ FreeOwned /\ OutUsed
  BY <1>1, <1>3, <1>4 DEF SpansOwned, FreeOwned, OutUsed
<1>9. InHand /\ BlocksTaken /\ BlocksOnce
  BY <1>1, <1>3 DEF InHand, BlocksTaken, BlocksOnce
<1>10. BlocksCounted
  BY <1>1 DEF BlocksCounted
<1> QED BY <1>2, <1>5, <1>6, <1>7, <1>8, <1>9, <1>10 DEF AllocInv, Kept, PoolMergesOnlyReturned

\* Each step keeps the invariant.
LEMMA AllocStepInv ==
  ASSUME AllocInv, [AllocNext]_allocVars
  PROVE AllocInv'
<1>1. CASE UNCHANGED allocVars
  <2>1. /\ config' = config /\ heap' = heap /\ central' = central /\ lock' = lock
        /\ cache' = cache /\ maxSize' = maxSize /\ at' = at /\ held' = held
    BY <1>1 DEF allocVars
  <2>2. AllocTypeOK' <=> AllocTypeOK
    BY <2>1, SameConfig DEF AllocTypeOK
  <2>3. CachesSized' <=> CachesSized
    BY <2>1 DEF CachesSized
  <2>4. ASSUME Kept PROVE Kept'
    <3>1. PagesKept(heap, {})' /\ Out(heap)' = Out(heap) /\ Alive(heap)' = Alive(heap) /\ Owned' = Owned
      BY <2>1, <2>4, SameConfig DEF Kept, Owned, Owns
    <3>2. SpansOwned' /\ FreeOwned' /\ OutUsed'
      BY <2>1, <2>4, <3>1 DEF Kept, SpansOwned, FreeOwned, OutUsed, Owns
    <3>3. InHand' /\ BlocksOnce' /\ BlocksCounted'
      BY <2>1, <2>4 DEF Kept, InHand, BlocksOnce, BlocksCounted
    <3>4. BlocksTaken'
      BY <2>1, <2>4, <3>1 DEF Kept, BlocksTaken
    <3> QED BY <3>1, <3>2, <3>3, <3>4 DEF Kept
  <2> QED BY <2>1, <2>2, <2>3, <2>4 DEF AllocInv, PoolMergesOnlyReturned
<1>2. CASE AllocNext
  <2>1. ~heap.wild /\ Sound
    BY <1>2 DEF AllocNext, AllocInv, Sound
  <2>2. PICK t \in Threads :
          \/ \E c \in Classes : AllocateCached(t, c) \/ FetchFromCentralCache(t, c)
          \/ FetchRangeObj(t) \/ GetSpan(t) \/ Carve(t) \/ PushSpan(t)
          \/ \E k \in config.large : MallocPages(t, k)
          \/ \E b \in held : DeletePages(t, b) \/ DeAllocate(t, b)
          \/ LockList(t) \/ ReturnSpan(t)
          \/ \E b \in at[t].blocks : ReturnBlock(t, b)
    BY <1>2 DEF AllocNext
  <2>3. ASSUME Sound', heap'.wild = heap.wild PROVE AllocInv'
    <3>1. ~heap'.wild
      BY <2>1, <2>3
    <3> QED BY <2>3, <3>1 DEF Sound, AllocInv, PoolMergesOnlyReturned
  <2>4. ASSUME NEW c \in Classes, AllocateCached(t, c) PROVE AllocInv'
    <3>1. heap' = heap
      BY <2>4 DEF AllocateCached
    <3> QED BY <2>1, <2>3, <2>4, <3>1, AllocateCachedKeeps
  <2>5. ASSUME NEW c \in Classes, FetchFromCentralCache(t, c) PROVE AllocInv'
    <3>1. heap' = heap
      BY <2>5 DEF FetchFromCentralCache
    <3> QED BY <2>1, <2>3, <2>5, <3>1, FetchFromCentralCacheKeeps
  <2>6. CASE FetchRangeObj(t)
    BY <2>1, <2>3, <2>6, FetchRangeObjKeeps
  <2>7. CASE GetSpan(t)
    BY <2>1, <2>3, <2>7, GetSpanKeeps
  <2>8. CASE Carve(t)
    BY <2>1, <2>3, <2>8, CarveKeeps
  <2>9. CASE PushSpan(t)
    BY <2>1, <2>3, <2>9, PushSpanKeeps
  <2>10. ASSUME NEW k \in config.large, MallocPages(t, k) PROVE AllocInv'
    BY <2>1, <2>3, <2>10, MallocPagesKeeps
  <2>11. ASSUME NEW b \in held, DeletePages(t, b) PROVE AllocInv'
    <3>1. heap' = heap
      BY <2>11 DEF DeletePages
    <3> QED BY <2>1, <2>3, <2>11, <3>1, DeletePagesKeeps
  <2>12. ASSUME NEW b \in held, DeAllocate(t, b) PROVE AllocInv'
    <3>1. heap' = heap
      BY <2>12 DEF DeAllocate
    <3> QED BY <2>1, <2>3, <2>12, <3>1, DeAllocateKeeps
  <2>13. CASE LockList(t)
    <3>1. heap' = heap
      BY <2>13 DEF LockList
    <3> QED BY <2>1, <2>3, <2>13, <3>1, LockListKeeps
  <2>14. CASE ReturnSpan(t)
    <3>1. /\ AllocTypeOK' /\ CachesSized' /\ (~heap'.wild => Kept')
          /\ heap'.wild => config.lib # "Pool"
      BY <2>1, <2>14, ReturnSpanKeeps
    <3>2. config' = config
      BY <2>14 DEF ReturnSpan
    <3> QED BY <3>1, <3>2 DEF AllocInv, PoolMergesOnlyReturned
  <2>15. ASSUME NEW b \in at[t].blocks, ReturnBlock(t, b) PROVE AllocInv'
    BY <2>1, <2>3, <2>15, ReturnBlockKeeps
  <2> QED BY <2>2, <2>4, <2>5, <2>6, <2>7, <2>8, <2>9, <2>10, <2>11, <2>12, <2>13, <2>14, <2>15
<1> QED BY <1>1, <1>2

\* Every state of the allocators satisfies the invariant.
THEOREM AllocInvHolds == AllocSpec => []AllocInv
<1>1. AllocInit => AllocInv
  BY AllocInitInv
<1>2. AllocInv /\ [AllocNext]_allocVars => AllocInv'
  BY AllocStepInv
<1> QED BY <1>1, <1>2, PTL DEF AllocSpec

-----------------------------------------------------------------------------
(* What it says of the pages, the blocks and the merging. *)

\* The spans share out the memory, and the map knows them.
LEMMA AllocInvPages ==
  ASSUME AllocInv
  PROVE PagesSound
<1>1. AllocTypeOK /\ heap \in PageCache /\ Live = Alive(heap)
  BY DEF AllocInv, AllocTypeOK, Live, Alive
<1>2. SpansTile
  <2>1. SUFFICES ASSUME ~heap.wild
                 PROVE /\ UNION {PagesOf(heap.span[s]) : s \in Alive(heap)} = heap.mem
                       /\ \A r, s \in Alive(heap) : r # s => PagesOf(heap.span[r]) \cap PagesOf(heap.span[s]) = {}
    BY <1>1 DEF SpansTile
  <2>2. Tiled(heap)
    BY <2>1 DEF AllocInv, Kept, PagesKept
  <2>3. UNION {PagesOf(heap.span[s]) : s \in Alive(heap)} = heap.mem
    BY <2>2 DEF Tiled
  <2>4. ASSUME NEW r \in Alive(heap), NEW s \in Alive(heap), r # s
        PROVE PagesOf(heap.span[r]) \cap PagesOf(heap.span[s]) = {}
    <3>1. Apart(heap.span[r], heap.span[s])
      BY <2>2, <2>4 DEF Tiled
    <3>2. /\ heap.span[r].page \in Nat /\ heap.span[r].npage \in Nat
          /\ heap.span[s].page \in Nat /\ heap.span[s].npage \in Nat
      BY <1>1, SpanType
    <3> QED BY <3>1, <3>2 DEF Apart, PagesOf
  <2> QED BY <2>3, <2>4
<1>3. MapSound
  <2>1. SUFFICES ASSUME ~heap.wild, NEW s \in Alive(heap)
                 PROVE {p \in Pages : heap.map[p] = s} =
                         IF s \in heap.listed
                         THEN {heap.span[s].page, heap.span[s].page + heap.span[s].npage - 1}
                         ELSE PagesOf(heap.span[s])
    BY <1>1 DEF MapSound
  <2>2. Tiled(heap) /\ MapTrue(heap, {})
    BY <2>1 DEF AllocInv, Kept, PagesKept
  <2>3. s \in Spans /\ heap.span[s].page \in Nat /\ heap.span[s].npage \in Nat /\ heap.span[s].npage >= 1
    BY <1>1, <2>2, SpanType DEF Tiled
  <2>4. Named(heap, s) \subseteq PagesOf(heap.span[s])
    BY <2>3 DEF Named, Ends, PagesOf
  <2>5. PagesOf(heap.span[s]) \subseteq Pages
    BY <1>1, <2>2, PageCacheType DEF Tiled
  <2>6. {p \in Pages : heap.map[p] = s} = Named(heap, s)
    BY <2>2, <2>3, <2>4, <2>5 DEF MapTrue
  <2> QED BY <2>6 DEF Named, Ends
<1> QED BY <1>1, <1>2, <1>3 DEF PagesSound

\* A block is where PlacesOf says.
LEMMA PlacesAre ==
  ASSUME NEW b, NEW x \in PlacesOf(b)
  PROVE \/ \E r \in Live : x = <<"span", r>> /\ b \in heap.span[r].free
        \/ \E u \in Threads, d \in Classes : x = <<"cache", u, d>> /\ b \in cache[u][d]
        \/ \E u \in Threads : x = <<"back", u>> /\ b \in at[u].blocks
        \/ \E o \in held : x = <<"held", o>> /\ o.at = b
<1>1. CASE x \in {y \in {"span"} \X Live : b \in heap.span[y[2]].free}
  BY <1>1
<1>2. CASE x \in {y \in {"cache"} \X Threads \X Classes : b \in cache[y[2]][y[3]]}
  BY <1>2
<1>3. CASE x \in {y \in {"back"} \X Threads : b \in at[y[2]].blocks}
  BY <1>3
<1>4. CASE x \in {y \in {"held"} \X held : y[2].at = b}
  BY <1>4
<1> QED BY <1>1, <1>2, <1>3, <1>4 DEF PlacesOf

\* And the other way round.
LEMMA PlacesHave ==
  ASSUME NEW b
  PROVE /\ \A r \in Live : b \in heap.span[r].free => <<"span", r>> \in PlacesOf(b)
        /\ \A u \in Threads, d \in Classes : b \in cache[u][d] => <<"cache", u, d>> \in PlacesOf(b)
        /\ \A u \in Threads : b \in at[u].blocks => <<"back", u>> \in PlacesOf(b)
        /\ \A o \in held : o.at = b => <<"held", o>> \in PlacesOf(b)
<1>1. ASSUME NEW r \in Live, b \in heap.span[r].free PROVE <<"span", r>> \in PlacesOf(b)
  <2>1. <<"span", r>> \in {y \in {"span"} \X Live : b \in heap.span[y[2]].free}
    BY <1>1
  <2> QED BY <2>1 DEF PlacesOf
<1>2. ASSUME NEW u \in Threads, NEW d \in Classes, b \in cache[u][d]
      PROVE <<"cache", u, d>> \in PlacesOf(b)
  <2>1. <<"cache", u, d>> \in {y \in {"cache"} \X Threads \X Classes : b \in cache[y[2]][y[3]]}
    BY <1>2
  <2> QED BY <2>1 DEF PlacesOf
<1>3. ASSUME NEW u \in Threads, b \in at[u].blocks PROVE <<"back", u>> \in PlacesOf(b)
  <2>1. <<"back", u>> \in {y \in {"back"} \X Threads : b \in at[y[2]].blocks}
    BY <1>3
  <2> QED BY <2>1 DEF PlacesOf
<1>4. ASSUME NEW o \in held, o.at = b PROVE <<"held", o>> \in PlacesOf(b)
  <2>1. <<"held", o>> \in {y \in {"held"} \X held : y[2].at = b}
    BY <1>4
  <2> QED BY <2>1 DEF PlacesOf
<1> QED BY <1>1, <1>2, <1>3, <1>4

\* A block that is free in a span is at home there.
LEMMA FreeHome ==
  ASSUME Sound, NEW r \in Alive(heap), NEW b \in heap.span[r].free
  PROVE heap.map[PageOf(b)] = r
<1>1. Kept /\ heap \in PageCache /\ PagesKept(heap, {})
  BY DEF Sound, AllocTypeOK, Kept
<1>2. \/ \E d \in Classes : r \in central[d]
      \/ \E u \in Threads : at[u].pc = "push" /\ at[u].span = r
  BY <1>1 DEF Kept, FreeOwned
<1>3. r \in Out(heap) /\ \E d \in Classes : heap.span[r].free \subseteq Carved(heap.span[r], d)
  <2>1. CASE \E d \in Classes : r \in central[d]
    BY <1>1, <2>1 DEF Kept, SpansOwned, BlocksCounted
  <2>2. CASE \E u \in Threads : at[u].pc = "push" /\ at[u].span = r
    <3>1. PICK u \in Threads : at[u].pc = "push" /\ at[u].span = r
      BY <2>2
    <3>2. Owns(u) /\ at[u].class \in Classes
      BY <1>1, <3>1 DEF Kept, InHand, Owns
    <3> QED BY <1>1, <3>1, <3>2 DEF Kept, SpansOwned, FreeOwned
  <2> QED BY <1>2, <2>1, <2>2
<1> QED BY <1>1, <1>3, HomeIs

\* A block of a span in the central cache is in one place.
LEMMA OnePlace ==
  ASSUME Sound, NEW c \in Classes, NEW s \in central[c], NEW b \in Carved(heap.span[s], c)
  PROVE Cardinality(PlacesOf(b)) = 1
<1>1. Kept /\ heap \in PageCache /\ PagesKept(heap, {}) /\ Live = Alive(heap)
  BY DEF Sound, AllocTypeOK, Kept, Live, Alive
<1>2. s \in Out(heap) /\ heap.span[s].class = c /\ s \in Live
  BY <1>1 DEF Kept, SpansOwned, Out
<1>3. PageToSpan(b) = s
  BY <1>1, <1>2, HomeIs DEF PageToSpan
<1>4. \A r \in Live : b \in heap.span[r].free => r = s
  BY <1>1, <1>3, FreeHome DEF PageToSpan
<1>5. \A d \in Classes : TakenFrom(central[d], heap.span, d, b) => b \notin heap.span[s].free
  BY <1>3, TakenHome
<1>6. ~Large(Out(heap) \ Owned, heap.span, b)
  BY <1>2, <1>3, LargeHome, NoneAssumption
<1>7. BlocksTaken /\ BlocksOnce /\ InHand
  BY <1>1 DEF Kept
<1>8. \E x : PlacesOf(b) = {x}
  <2>1. CASE b \in heap.span[s].free
    <3>1. <<"span", s>> \in PlacesOf(b)
      BY <1>2, <2>1, PlacesHave
    <3>2. ASSUME NEW x \in PlacesOf(b) PROVE x = <<"span", s>>
      <4>1. \A u \in Threads, d \in Classes : b \notin cache[u][d]
        BY <1>5, <1>7, <2>1 DEF BlocksTaken
      <4>2. \A u \in Threads : b \notin at[u].blocks
        BY <1>5, <1>7, <2>1 DEF BlocksTaken, InHand
      <4>3. \A o \in held : o.at # b
        BY <1>5, <1>6, <1>7, <2>1 DEF BlocksTaken
      <4> QED BY <1>4, <4>1, <4>2, <4>3, PlacesAre
    <3> QED BY <3>1, <3>2
  <2>2. CASE b \notin heap.span[s].free
    <3>1. Outside(cache, at, held, c, b)
      BY <1>1, <2>2 DEF Kept, BlocksCounted
    <3>2. \A r \in Live : b \notin heap.span[r].free
      BY <1>4, <2>2
    <3>3. CASE \E u \in Threads : b \in cache[u][c]
      <4>1. PICK u \in Threads : b \in cache[u][c]
        BY <3>3
      <4>2. <<"cache", u, c>> \in PlacesOf(b)
        BY <4>1, PlacesHave
      <4>3. ASSUME NEW x \in PlacesOf(b) PROVE x = <<"cache", u, c>>
        <5>1. \A v \in Threads, d \in Classes : b \in cache[v][d] => v = u /\ d = c
          BY <1>7, <4>1 DEF BlocksOnce
        <5>2. (\A v \in Threads : b \notin at[v].blocks) /\ \A o \in held : o.at # b
          BY <1>7, <4>1 DEF BlocksOnce
        <5> QED BY <3>2, <5>1, <5>2, PlacesAre
      <4> QED BY <4>2, <4>3
    <3>4. CASE \E u \in Threads : b \in at[u].blocks
      <4>1. PICK u \in Threads : b \in at[u].blocks
        BY <3>4
      <4>2. <<"back", u>> \in PlacesOf(b)
        BY <4>1, PlacesHave
      <4>3. ASSUME NEW x \in PlacesOf(b) PROVE x = <<"back", u>>
        <5>1. \A v \in Threads : b \in at[v].blocks => v = u
          BY <1>7, <4>1 DEF BlocksOnce
        <5>2. (\A v \in Threads, d \in Classes : b \notin cache[v][d]) /\ \A o \in held : o.at # b
          BY <1>7, <4>1 DEF BlocksOnce
        <5> QED BY <3>2, <5>1, <5>2, PlacesAre
      <4> QED BY <4>2, <4>3
    <3>5. CASE \E o \in held : o.at = b
      <4>1. PICK o \in held : o.at = b
        BY <3>5
      <4>2. <<"held", o>> \in PlacesOf(b)
        BY <4>1, PlacesHave
      <4>3. ASSUME NEW x \in PlacesOf(b) PROVE x = <<"held", o>>
        <5>1. \A q \in held : q.at = b => q = o
          BY <1>7, <4>1 DEF BlocksOnce
        <5>2. (\A v \in Threads, d \in Classes : b \notin cache[v][d]) /\ \A v \in Threads : b \notin at[v].blocks
          BY <1>7, <4>1 DEF BlocksOnce
        <5> QED BY <3>2, <5>1, <5>2, PlacesAre
      <4> QED BY <4>2, <4>3
    <3> QED BY <3>1, <3>3, <3>4, <3>5 DEF Outside
  <2> QED BY <2>1, <2>2
<1> QED BY <1>8, FS_Singleton

\* Each block is in one place, and the counts and the caches are right.
LEMMA AllocInvBlocks ==
  ASSUME AllocInv
  PROVE BlocksSound
<1>1. CachesBounded
  BY DEF AllocInv, CachesSized, CachesBounded
<1>2. BlocksAccounted
  <2>1. SUFFICES ASSUME ~heap.wild, NEW c \in Classes, NEW s \in central[c]
                 PROVE /\ \A b \in Carved(heap.span[s], c) : Cardinality(PlacesOf(b)) = 1
                       /\ heap.span[s].count = Cardinality(Carved(heap.span[s], c) \ heap.span[s].free)
    BY DEF BlocksAccounted
  <2>2. Sound
    BY <2>1 DEF AllocInv, Sound
  <2>3. heap.span[s].count = Cardinality(Carved(heap.span[s], c) \ heap.span[s].free)
    BY <2>2 DEF Sound, Kept, BlocksCounted
  <2> QED BY <2>2, <2>3, OnePlace
<1> QED BY <1>1, <1>2 DEF BlocksSound

(***************************************************************************)
(* However many threads allocate and return blocks of whatever sizes:      *)
(* NewSpan and ReleaseSpan neither lose a page nor give it to two spans,   *)
(* and the page map names the span of each page it knows.                  *)
(***************************************************************************)
THEOREM AllocPagesSound == AllocSpec => []PagesSound
<1>1. AllocInv => PagesSound
  BY AllocInvPages
<1> QED BY <1>1, AllocInvHolds, PTL

(***************************************************************************)
(* No block of a span in the central cache is in two lists, in a list and  *)
(* in use, or nowhere; _use_count counts those that are not in the span;   *)
(* and no free list of a thread outgrows its _max_size.                    *)
(***************************************************************************)
THEOREM AllocBlocksSound == AllocSpec => []BlocksSound
<1>1. AllocInv => BlocksSound
  BY AllocInvBlocks
<1> QED BY <1>1, AllocInvHolds, PTL

(***************************************************************************)
(* The page cache of Pool never merges a span that is not in its lists.    *)
(***************************************************************************)
THEOREM AllocMergesReturned == AllocSpec => []PoolMergesOnlyReturned
<1>1. AllocInv => PoolMergesOnlyReturned
  BY DEF AllocInv
<1> QED BY <1>1, AllocInvHolds, PTL

-----------------------------------------------------------------------------
(* The blocks in use share no word, where the blocks of a class divide its spans. *)

DividesSpans == \A c \in Classes : (MovePages[c] * PageSize) % BlockWords[c] = 0

\* A span of a class is as long as those of its class, and a large block fills its own.
Fit ==
  /\ \A c \in Classes : \A s \in central[c] : heap.span[s].npage = MovePages[c]
  /\ \A t \in Threads : at[t].pc \in {"carve", "push"} =>
       heap.span[at[t].span].npage = MovePages[at[t].class]
  /\ \A o \in held : \A s \in Out(heap) :
       heap.span[s].class = "large" /\ o.at = FirstWord(heap.span[s].page) =>
         o.size = heap.span[s].npage * PageSize

\* A step that hands out no span keeps that: spans keep their length, and the blocks the
\* program gets are those of a class.
LEMMA FitStep ==
  ASSUME Sound, Sound', Fit, config' = config,
         \A s \in Out(heap') :
           /\ s \in Out(heap) /\ heap'.span[s].page = heap.span[s].page
           /\ heap'.span[s].npage = heap.span[s].npage
           /\ heap'.span[s].class = "large" => heap.span[s].class = "large",
         \A c \in Classes : \A s \in central'[c] :
           \/ s \in central[c]
           \/ \E t \in Threads : at[t].pc = "push" /\ at[t].class = c /\ at[t].span = s,
         \A t \in Threads : at'[t].pc \in {"carve", "push"} =>
           /\ at[t].pc \in {"carve", "push"}
           /\ at'[t].span = at[t].span /\ at'[t].class = at[t].class,
         \A o \in held' : \/ o \in held
                          \/ \E s \in Out(heap) : /\ heap.span[s].class \in Classes
                                                  /\ o.at \in Carved(heap.span[s], heap.span[s].class)
  PROVE Fit'
<1>1. Out(heap)' = Out(heap') /\ heap \in PageCache /\ PagesKept(heap, {})
  BY SameConfig DEF Sound, Kept, AllocTypeOK
<1>2. ASSUME NEW c \in Classes, NEW s \in central'[c] PROVE heap'.span[s].npage = MovePages[c]
  <2>1. s \in Out(heap')
    BY <1>1 DEF Sound, Kept, SpansOwned
  <2> QED BY <2>1 DEF Fit
<1>3. ASSUME NEW t \in Threads, at'[t].pc \in {"carve", "push"}
      PROVE heap'.span[at'[t].span].npage = MovePages[at'[t].class]
  <2>1. at'[t].span \in Out(heap')
    BY <1>1, <1>3 DEF Sound, Kept, SpansOwned, Owns
  <2> QED BY <1>3, <2>1 DEF Fit
<1>4. ASSUME NEW o \in held', NEW s \in Out(heap'),
             heap'.span[s].class = "large", o.at = FirstWord(heap'.span[s].page)
      PROVE o.size = heap'.span[s].npage * PageSize
  <2>1. /\ s \in Out(heap) /\ heap.span[s].class = "large"
        /\ o.at = FirstWord(heap.span[s].page) /\ heap'.span[s].npage = heap.span[s].npage
    BY <1>4
  <2>2. CASE o \in held
    BY <2>1, <2>2 DEF Fit
  <2>3. CASE o \notin held
    <3>1. PICK r \in Out(heap) : /\ heap.span[r].class \in Classes
                                 /\ o.at \in Carved(heap.span[r], heap.span[r].class)
      BY <2>3
    <3>2. heap.map[PageOf(o.at)] = r
      <4>1. \A b, c : b \in Carved(heap.span[r], c) => heap.map[PageOf(b)] = r
        BY <1>1, HomeIs
      <4> QED BY <3>1, <4>1
    <3>3. heap.map[PageOf(o.at)] = s
      <4>1. heap.map[PageOf(FirstWord(heap.span[s].page))] = s
        BY <1>1, <2>1, HomeIs
      <4> QED BY <2>1, <4>1
    <3> QED BY <2>1, <3>1, <3>2, <3>3, NoneAssumption
  <2> QED BY <2>2, <2>3
<1> QED BY <1>1, <1>2, <1>3, <1>4 DEF Fit

\* The spans of g are spans of h, as long as those and where they are.
SameSpans(h, g) ==
  /\ Out(g) \subseteq Out(h)
  /\ \A m \in Out(g) :
       /\ g.span[m].page = h.span[m].page /\ g.span[m].npage = h.span[m].npage
       /\ g.span[m].class = h.span[m].class

\* Writing which blocks a span has changes nothing of that.
LEMMA CountsOnly ==
  ASSUME NEW h \in PageCache, NEW s \in Alive(h), NEW F, NEW N
  PROVE SameSpans(h, [h EXCEPT !.span[s].free = F, !.span[s].count = N])
<1> DEFINE g == [h EXCEPT !.span[s].free = F, !.span[s].count = N]
<1>1. s \in Spans /\ h.span[s] \in Span /\ h.span \in [Spans -> Span \cup {None}]
  BY SpanType, PageCacheType DEF Alive
<1> DEFINE v == [h.span[s] EXCEPT !.free = F, !.count = N]
<1>2. g.listed = h.listed /\ g.span = [h.span EXCEPT ![s] = v]
  BY <1>1 DEF PageCache
<1>3. v.page = h.span[s].page /\ v.npage = h.span[s].npage /\ v.class = h.span[s].class
  BY <1>1 DEF Span
<1> HIDE DEF v, g
<1>4. g.span[s] = v /\ \A m \in Spans : m # s => g.span[m] = h.span[m]
  BY <1>1, <1>2
<1>5. \A m \in Out(g) : m \in Out(h)
  BY <1>2, <1>4 DEF Out, Alive
<1>6. \A m \in Out(g) : m \in Spans
  BY DEF Out, Alive
<1>7. SameSpans(h, g)
  BY <1>3, <1>4, <1>5, <1>6 DEF SameSpans
<1> QED BY <1>7 DEF g

\* The steps that change no span.
LEMMA FitSameHeap ==
  ASSUME Sound, Sound', Fit, config' = config, heap' = heap, central' = central,
         \A t \in Threads : at'[t].pc \in {"carve", "push"} => at'[t] = at[t],
         \A o \in held' : o \in held \/ \E t \in Threads, c \in Classes : o.at \in cache[t][c]
  PROVE Fit'
<1>1. ASSUME NEW o \in held', o \notin held
      PROVE \E s \in Out(heap) : /\ heap.span[s].class \in Classes
                                 /\ o.at \in Carved(heap.span[s], heap.span[s].class)
  <2>1. PICK t \in Threads, c \in Classes : o.at \in cache[t][c]
    BY <1>1
  <2>2. TakenFrom(central[c], heap.span, c, o.at)
    BY <2>1 DEF Sound, Kept, BlocksTaken
  <2>3. /\ PageToSpan(o.at) \in Out(heap) /\ heap.span[PageToSpan(o.at)].class = c
        /\ o.at \in Carved(heap.span[PageToSpan(o.at)], c)
    BY <2>2, TakenHome
  <2> QED BY <2>3
<1> QED BY <1>1, FitStep

\* AllocateCached, FetchFromCentralCache, DeletePages, DeAllocate and LockList.
LEMMA FitInCaches ==
  ASSUME Sound, Sound', Fit, NEW t \in Threads,
         \/ \E c \in Classes : AllocateCached(t, c) \/ FetchFromCentralCache(t, c)
         \/ \E b \in held : DeletePages(t, b) \/ DeAllocate(t, b)
         \/ LockList(t)
  PROVE Fit'
<1>1. config' = config /\ heap' = heap /\ central' = central
  BY DEF AllocateCached, FetchFromCentralCache, DeletePages, DeAllocate, LockList
<1>2. \A u \in Threads : at'[u].pc \in {"carve", "push"} => at'[u] = at[u]
  <2>1. at' = at \/ \E pc \in {"fetch", "return", "release"} : \E c, n, s, blocks : Goto(t, pc, c, n, s, blocks)
    BY DEF AllocateCached, FetchFromCentralCache, DeletePages, DeAllocate, LockList
  <2> QED BY <2>1 DEF Goto, Sound, AllocTypeOK
<1>3. \A o \in held' : o \in held \/ \E u \in Threads, c \in Classes : o.at \in cache[u][c]
  <2>1. ASSUME NEW c \in Classes, AllocateCached(t, c)
        PROVE \A o \in held' : o \in held \/ \E u \in Threads, d \in Classes : o.at \in cache[u][d]
    BY <2>1 DEF AllocateCached, Block
  <2>2. ASSUME \/ \E c \in Classes : FetchFromCentralCache(t, c)
               \/ \E b \in held : DeletePages(t, b) \/ DeAllocate(t, b)
               \/ LockList(t)
        PROVE held' \subseteq held
    BY <2>2 DEF FetchFromCentralCache, DeletePages, DeAllocate, LockList
  <2> QED BY <2>1, <2>2
<1> QED BY <1>1, <1>2, <1>3, FitSameHeap

\* The end of FetchRangeObj.
LEMMA FitTake ==
  ASSUME Sound, Sound', Fit, NEW t \in Threads, NEW s \in Out(heap), Take(t, s), config' = config,
         heap.span[s].class \in Classes,
         heap.span[s].free \subseteq Carved(heap.span[s], heap.span[s].class),
         \A c \in Classes : \A r \in central'[c] :
           \/ r \in central[c]
           \/ \E u \in Threads : at[u].pc = "push" /\ at[u].class = c /\ at[u].span = r
  PROVE Fit'
<1>1. PICK taken \in SUBSET heap.span[s].free :
        /\ heap' = [heap EXCEPT !.span[s].free = @ \ taken, !.span[s].count = @ + Cardinality(taken)]
        /\ \E b \in taken : held' = held \cup {Block(b, BlockWords[at[t].class])}
        /\ at' = [at EXCEPT ![t] = Idle]
  BY DEF Take, kSubset
<1>2. heap \in PageCache /\ s \in Alive(heap)
  BY DEF Sound, AllocTypeOK, Out
<1>3. SameSpans(heap, heap')
  <2> DEFINE F == heap.span[s].free \ taken
             N == heap.span[s].count + Cardinality(taken)
             g == [heap EXCEPT !.span[s].free = F, !.span[s].count = N]
  <2>1. heap' = g
    BY <1>1
  <2> HIDE DEF F, N
  <2>2. SameSpans(heap, g)
    BY <1>2, CountsOnly
  <2> HIDE DEF g
  <2> QED BY <2>1, <2>2
<1>4. \A u \in Threads : at'[u].pc \in {"carve", "push"} => at'[u] = at[u]
  BY <1>1, IdleIs DEF Sound
<1>5. \A o \in held' : o \in held \/ o.at \in Carved(heap.span[s], heap.span[s].class)
  BY <1>1 DEF Block
<1> QED BY <1>3, <1>4, <1>5, FitStep DEF SameSpans

\* A thread takes blocks of a span of the list, or goes on to the page cache.
LEMMA FitFetchRangeObj ==
  ASSUME Sound, Sound', Fit, NEW t \in Threads, FetchRangeObj(t)
  PROVE Fit'
<1> DEFINE c == at[t].class
<1>1. config' = config /\ central' = central /\ at[t].pc = "fetch"
  BY DEF FetchRangeObj
<1>2. c \in Classes
  BY <1>1 DEF Sound, Kept, InHand
<1>3. ASSUME NEW s \in FetchOneSpan(c), Take(t, s) PROVE Fit'
  <2>1. s \in central[c]
    BY DEF FetchOneSpan
  <2>2. /\ s \in Out(heap) /\ heap.span[s].class = c
        /\ heap.span[s].free \subseteq Carved(heap.span[s], c)
    BY <1>2, <2>1 DEF Sound, Kept, SpansOwned, BlocksCounted
  <2> HIDE DEF c
  <2> QED BY <1>1, <1>2, <1>3, <2>2, FitTake
<1>4. CASE Goto(t, "newspan", c, at[t].n, None, {}) /\ UNCHANGED <<heap, cache, held>>
  <2>1. \A u \in Threads : at'[u].pc \in {"carve", "push"} => at'[u] = at[u]
    BY <1>4 DEF Goto, Sound, AllocTypeOK
  <2> QED BY <1>1, <1>4, <2>1, FitSameHeap
<1> QED BY <1>3, <1>4 DEF FetchRangeObj

\* The span that was carved comes into the list, as long as it was.
LEMMA FitPushSpan ==
  ASSUME Sound, Sound', Fit, NEW t \in Threads, PushSpan(t)
  PROVE Fit'
<1> DEFINE c == at[t].class
           s == at[t].span
<1>1. /\ config' = config /\ at[t].pc = "push" /\ Take(t, s)
      /\ central' = [central EXCEPT ![c] = @ \cup {s}]
  BY DEF PushSpan
<1>2. /\ c \in Classes /\ s \in Out(heap) /\ heap.span[s].class = c
      /\ heap.span[s].free \subseteq Carved(heap.span[s], c)
  BY <1>1 DEF Sound, Kept, InHand, SpansOwned, Owns, FreeOwned
<1>3. \A d \in Classes : \A r \in central'[d] : r \in central[d] \/ (d = c /\ r = s)
  BY <1>1, <1>2 DEF Sound, AllocTypeOK
<1>4. \A d \in Classes : \A r \in central'[d] :
        \/ r \in central[d]
        \/ \E u \in Threads : at[u].pc = "push" /\ at[u].class = d /\ at[u].span = r
  BY <1>1, <1>3
<1> HIDE DEF c, s
<1> QED BY <1>1, <1>2, <1>4, FitTake

\* A block that comes back changes no length; its span leaves the list with the last.
LEMMA FitReturnBlock ==
  ASSUME Sound, Sound', Fit, NEW t \in Threads, NEW b \in at[t].blocks, ReturnBlock(t, b)
  PROVE Fit'
<1> DEFINE c == at[t].class
           s == PageToSpan(b)
           rest == at[t].blocks \ {b}
           last == heap.span[s].count = 1
<1>1. /\ config' = config /\ held' = held /\ at[t].pc = "release"
      /\ heap' = [heap EXCEPT !.span[s].free = IF last THEN {} ELSE @ \cup {b}, !.span[s].count = @ - 1]
      /\ central' = [central EXCEPT ![c] = IF last THEN @ \ {s} ELSE @]
      /\ \/ Goto(t, "return", c, 0, s, rest) \/ Goto(t, "release", c, 0, None, rest)
         \/ at' = [at EXCEPT ![t] = Idle]
  BY DEF ReturnBlock
<1>2. c \in Classes /\ TakenFrom(central[c], heap.span, c, b)
  BY <1>1 DEF Sound, Kept, InHand, BlocksTaken
<1>3. heap \in PageCache /\ s \in Alive(heap)
  BY <1>2, TakenHome DEF Sound, AllocTypeOK, Out
<1>4. \A d \in Classes : central'[d] \subseteq central[d]
  BY <1>1, <1>2 DEF Sound, AllocTypeOK
<1>5. \A u \in Threads : at'[u].pc \in {"carve", "push"} => at'[u] = at[u]
  <2>1. CASE at' = [at EXCEPT ![t] = Idle]
    BY <2>1, IdleIs DEF Sound
  <2>2. CASE Goto(t, "return", c, 0, s, rest) \/ Goto(t, "release", c, 0, None, rest)
    <3> HIDE DEF c, s, rest
    <3> QED BY <2>2 DEF Goto, Sound, AllocTypeOK
  <2> QED BY <1>1, <2>1, <2>2
<1>6. SameSpans(heap, heap')
  <2> DEFINE F == IF last THEN {} ELSE heap.span[s].free \cup {b}
             N == heap.span[s].count - 1
             g == [heap EXCEPT !.span[s].free = F, !.span[s].count = N]
  <2>1. heap' = g
    BY <1>1
  <2> HIDE DEF F, N, s
  <2>2. SameSpans(heap, g)
    BY <1>3, CountsOnly
  <2> HIDE DEF g
  <2> QED BY <2>1, <2>2
<1> HIDE DEF c, s, rest, last
<1> QED BY <1>1, <1>4, <1>5, <1>6, FitStep DEF SameSpans

\* The span a thread carves is of its class from then on.
LEMMA FitCarve ==
  ASSUME Sound, Sound', Fit, NEW t \in Threads, Carve(t)
  PROVE Fit'
<1> DEFINE c == at[t].class
           s == at[t].span
<1>1. /\ heap' = [heap EXCEPT !.span[s] = CarveSpan(@, c)] /\ at' = [at EXCEPT ![t].pc = "push"]
      /\ at[t].pc = "carve" /\ config' = config /\ central' = central /\ held' = held
  BY DEF Carve
<1>2. c \in Classes /\ s \in Out(heap) /\ heap \in PageCache /\ PagesKept(heap, {})
  BY <1>1 DEF Sound, AllocTypeOK, Kept, InHand, SpansOwned, Owns
<1>3. \A u \in Threads : at'[u].pc \in {"carve", "push"} =>
        at[u].pc \in {"carve", "push"} /\ at'[u].span = at[u].span /\ at'[u].class = at[u].class
  BY <1>1 DEF Sound, AllocTypeOK
<1> HIDE DEF c, s
<1>4. s \in Alive(heap)
  BY <1>2 DEF Out
<1>5. Refilled(heap, heap', s) /\ heap'.span[s].class = c
  BY <1>1, <1>2, <1>4, CarvedIs
<1>6. Out(heap') = Out(heap)
  BY <1>2, <1>5, RefilledKept
<1>7. \A m \in Out(heap') :
        /\ m \in Out(heap) /\ heap'.span[m].page = heap.span[m].page
        /\ heap'.span[m].npage = heap.span[m].npage
        /\ heap'.span[m].class = "large" => heap.span[m].class = "large"
  <2>1. \A m \in Out(heap') : m \in Spans
    BY DEF Out, Alive
  <2>2. c # "large"
    BY <1>2, NoneAssumption
  <2> QED BY <1>5, <1>6, <2>1, <2>2 DEF Refilled
<1> QED BY <1>1, <1>3, <1>7, FitStep

\* A span goes back to the page cache, and no span starts where it was.
LEMMA FitReturnSpan ==
  ASSUME Sound, Sound', Fit, ~heap.wild, ~heap'.wild, NEW t \in Threads, ReturnSpan(t)
  PROVE Fit'
<1>1. config' = config /\ central' = central /\ held' = held /\ at[t].pc = "return"
  BY DEF ReturnSpan
<1>2. \A u \in Threads : at'[u].pc \in {"carve", "push"} => at'[u] = at[u]
  <2>1. CASE at' = [at EXCEPT ![t] = Idle]
    BY <2>1, IdleIs DEF Sound
  <2>2. CASE Goto(t, "release", at[t].class, 0, None, at[t].blocks)
    BY <2>2 DEF Goto, Sound, AllocTypeOK
  <2> QED BY <2>1, <2>2 DEF ReturnSpan
<1>3. TakesBack(heap, heap', at[t].span)
  BY ReturnTakesBack
<1>4. \A m \in Out(heap') : m \in Out(heap) /\ heap'.span[m] = heap.span[m]
  BY <1>3 DEF TakesBack, Out, Alive
<1> QED BY <1>1, <1>2, <1>4, FitStep

\* No block in use starts where the span starts that is handed out.
LEMMA GivesOutApart ==
  ASSUME Sound, NEW s, NEW k, GivesOut(heap, heap', s, k), NEW o \in held
  PROVE o.at # FirstWord(heap'.span[s].page)
<1>1. /\ s \in Out(heap') /\ heap' \in PageCache /\ PagesKept(heap', {})
      /\ \A c \in Classes : \A r \in central[c] : r \in Out(heap') /\ r # s
      /\ \A c \in Classes : \A b : TakenFrom(central[c], heap.span, c, b) =>
           TakenFrom(central[c], heap'.span, c, b)
      /\ \A b : Large(Out(heap) \ Owned, heap.span, b) =>
           Large(Out(heap') \ (Owned \cup {s}), heap'.span, b)
  <2>1. OthersStay(s)
    BY GivesOutKeeps
  <2> QED BY <2>1 DEF OthersStay
<1>2. heap'.map[PageOf(FirstWord(heap'.span[s].page))] = s
  BY <1>1, HomeIs
<1>3. ASSUME NEW c \in Classes, TakenFrom(central[c], heap.span, c, o.at)
      PROVE heap'.map[PageOf(o.at)] # s
  <2>1. PICK r \in central[c] : o.at \in Carved(heap'.span[r], c)
    BY <1>1, <1>3 DEF TakenFrom
  <2> QED BY <1>1, <2>1, HomeIs
<1>4. ASSUME Large(Out(heap) \ Owned, heap.span, o.at)
      PROVE heap'.map[PageOf(o.at)] # s
  <2>1. PICK r \in Out(heap') \ (Owned \cup {s}) : o.at = FirstWord(heap'.span[r].page)
    BY <1>1, <1>4 DEF Large
  <2> QED BY <1>1, <2>1, HomeIs
<1>5. heap'.map[PageOf(o.at)] # s
  BY <1>3, <1>4 DEF Sound, Kept, BlocksTaken
<1> QED BY <1>2, <1>5

\* And where a span is handed out it is of the length asked for.
LEMMA FitGetSpan ==
  ASSUME Sound, Sound', Fit, NEW t \in Threads, GetSpan(t)
  PROVE Fit'
<1> DEFINE c == at[t].class
<1>1. PICK s : /\ GivesOut(heap, heap', s, MovePages[c])
               /\ at' = [at EXCEPT ![t] = [pc |-> "carve", class |-> c, n |-> at[t].n,
                                           span |-> s, blocks |-> {}]]
  BY GetSpanGives
<1>2. config' = config /\ central' = central /\ held' = held
  BY DEF GetSpan
<1>3. Out(heap)' = Out(heap')
  BY <1>2, SameConfig
<1>4. \A u \in Threads : at'[u].pc \in {"carve", "push"} =>
        \/ at'[u] = at[u] /\ Owns(u)
        \/ at'[u].span = s /\ at'[u].class = c
  BY <1>1 DEF Sound, AllocTypeOK, Owns
<1> HIDE DEF c
<1>5. /\ heap'.span[s].npage = MovePages[c]
      /\ \A d \in Classes : \A r \in central[d] : heap'.span[r] = heap.span[r]
      /\ \A u \in Threads : Owns(u) => heap'.span[at[u].span] = heap.span[at[u].span]
      /\ \A m \in Out(heap') : m # s => m \in Out(heap) /\ heap'.span[m] = heap.span[m]
  <2>1. OthersStay(s)
    BY <1>1, GivesOutKeeps
  <2> QED BY <1>1, <2>1 DEF GivesOut, OthersStay
<1>6. ASSUME NEW o \in held, NEW m \in Out(heap'),
             heap'.span[m].class = "large", o.at = FirstWord(heap'.span[m].page)
      PROVE o.size = heap'.span[m].npage * PageSize
  <2>1. m # s
    BY <1>1, <1>6, GivesOutApart
  <2> QED BY <1>5, <1>6, <2>1 DEF Fit
<1> QED BY <1>2, <1>3, <1>4, <1>5, <1>6 DEF Fit

\* The program gets a large block of the length of its span.
LEMMA FitMallocPages ==
  ASSUME Sound, Sound', Fit, NEW t \in Threads, NEW k \in config.large, MallocPages(t, k)
  PROVE Fit'
<1>1. PICK s : /\ GivesOut(heap, heap', s, k)
               /\ held' = held \cup {Block(FirstWord(heap'.span[s].page), k * PageSize)}
  BY MallocPagesGives
<1> DEFINE o == Block(FirstWord(heap'.span[s].page), k * PageSize)
<1>2. config' = config /\ central' = central /\ at' = at
  BY DEF MallocPages
<1>3. Out(heap)' = Out(heap')
  BY <1>2, SameConfig
<1>4. o.at = FirstWord(heap'.span[s].page) /\ o.size = k * PageSize /\ held' = held \cup {o}
  BY <1>1 DEF Block
<1> HIDE DEF o
<1>5. /\ heap'.span[s].npage = k /\ s \in Out(heap') /\ heap' \in PageCache /\ PagesKept(heap', {})
      /\ \A d \in Classes : \A r \in central[d] : heap'.span[r] = heap.span[r]
      /\ \A u \in Threads : Owns(u) => heap'.span[at[u].span] = heap.span[at[u].span]
      /\ \A m \in Out(heap') : m # s => m \in Out(heap) /\ heap'.span[m] = heap.span[m]
  <2>1. OthersStay(s)
    BY <1>1, GivesOutKeeps
  <2> QED BY <1>1, <2>1 DEF GivesOut, OthersStay
<1>6. ASSUME NEW q \in held', NEW m \in Out(heap'),
             heap'.span[m].class = "large", q.at = FirstWord(heap'.span[m].page)
      PROVE q.size = heap'.span[m].npage * PageSize
  <2>1. CASE m = s
    <3>1. q.at = o.at
      BY <1>4, <1>6, <2>1
    <3>2. q = o
      BY <1>4, <3>1 DEF Sound, Kept, BlocksOnce
    <3> QED BY <1>4, <1>5, <2>1, <3>2
  <2>2. CASE m # s
    <3>1. m \in Out(heap) /\ heap'.span[m] = heap.span[m]
      BY <1>5, <2>2
    <3>2. q # o
      <4>1. heap'.map[PageOf(FirstWord(heap'.span[m].page))] = m
        BY <1>5, HomeIs
      <4>2. heap'.map[PageOf(FirstWord(heap'.span[s].page))] = s
        BY <1>5, HomeIs
      <4> QED BY <1>4, <1>6, <2>2, <4>1, <4>2
    <3> QED BY <1>4, <1>6, <3>1, <3>2 DEF Fit
  <2> QED BY <2>1, <2>2
<1>7. \A u \in Threads : at[u].pc \in {"carve", "push"} => Owns(u)
  BY DEF Owns
<1> QED BY <1>2, <1>3, <1>5, <1>6, <1>7 DEF Fit

\* At first there is nothing to be too short.
LEMMA FitInit ==
  ASSUME AllocInit
  PROVE Fit
BY DEF AllocInit, Fit, Idle

\* As long as no merge goes wrong, every step keeps the lengths.
LEMMA FitNext ==
  ASSUME AllocInv, AllocInv', ~heap.wild => Fit, [AllocNext]_allocVars, ~heap'.wild
  PROVE Fit'
<1>1. CASE UNCHANGED allocVars
  <2>1. config' = config /\ heap' = heap /\ central' = central /\ at' = at /\ held' = held
    BY <1>1 DEF allocVars
  <2>2. Out(heap)' = Out(heap)
    BY <2>1, SameConfig
  <2> QED BY <2>1, <2>2 DEF Fit
<1>2. CASE AllocNext
  <2>1. Sound /\ Sound' /\ Fit /\ ~heap.wild
    BY <1>2 DEF AllocNext, AllocInv, Sound
  <2>2. PICK t \in Threads :
          \/ \E c \in Classes : AllocateCached(t, c) \/ FetchFromCentralCache(t, c)
          \/ FetchRangeObj(t) \/ GetSpan(t) \/ Carve(t) \/ PushSpan(t)
          \/ \E k \in config.large : MallocPages(t, k)
          \/ \E b \in held : DeletePages(t, b) \/ DeAllocate(t, b)
          \/ LockList(t) \/ ReturnSpan(t)
          \/ \E b \in at[t].blocks : ReturnBlock(t, b)
    BY <1>2 DEF AllocNext
  <2> QED BY <2>1, <2>2, FitInCaches, FitFetchRangeObj, FitGetSpan, FitCarve, FitPushSpan,
             FitMallocPages, FitReturnSpan, FitReturnBlock
<1> QED BY <1>1, <1>2

\* Multiples of a number are that number apart.
LEMMA MultiplesApart ==
  ASSUME NEW n \in Nat \ {0}, NEW x \in Nat, NEW y \in Nat, x % n = 0, y % n = 0, x < y
  PROVE x + n <= y
<1> DEFINE p == x \div n
           q == y \div n
<1>1. p \in Nat /\ q \in Nat /\ x = n * p /\ y = n * q
  <2>1. p \in Nat /\ q \in Nat /\ x = n * p + (x % n) /\ y = n * q + (y % n)
    OBVIOUS
  <2>2. n * p \in Nat /\ n * q \in Nat
    BY <2>1, SMTT(30)
  <2> HIDE DEF p, q
  <2> QED BY <2>1, <2>2
<1> HIDE DEF p, q
<1>2. p + 1 <= q
  <2>1. SUFFICES ASSUME q <= p PROVE FALSE
    BY <1>1
  <2>2. n * q <= n * p
    BY <1>1, <2>1, SMTT(30)
  <2>3. n * p \in Nat /\ n * q \in Nat
    BY <1>1, SMTT(30)
  <2> QED BY <1>1, <2>2, <2>3
<1>3. n * (p + 1) <= n * q /\ n * (p + 1) = n * p + n /\ n * p \in Nat /\ n * q \in Nat
  <2>1. n * (p + 1) <= n * q
    BY <1>1, <1>2, SMTT(30)
  <2>2. n * (p + 1) = n * p + n /\ n * p \in Nat /\ n * q \in Nat
    BY <1>1, SMTT(30)
  <2> QED BY <2>1, <2>2
<1> QED BY <1>1, <1>3

\* The words of a span of pages.
WordsOf(k) == FirstWord(k.page) .. FirstWord(k.page + k.npage) - 1

\* Where the pages end, and that spans apart share no word.
LEMMA WordsOfSpan ==
  ASSUME NEW k, k.page \in Nat, k.npage \in Nat
  PROVE /\ FirstWord(k.page) \in Nat /\ k.npage * PageSize \in Nat
        /\ FirstWord(k.page + k.npage) = FirstWord(k.page) + k.npage * PageSize
<1> DEFINE p == k.page
           n == k.npage
<1>1. PageSize \in Nat /\ p \in Nat /\ n \in Nat
  BY SizesAssumption
<1> HIDE DEF p, n
<1>2. p * PageSize \in Nat /\ n * PageSize \in Nat /\ (p + n) * PageSize = p * PageSize + n * PageSize
  BY <1>1, SMTT(30)
<1> QED BY <1>2 DEF p, n, FirstWord

\* Two spans apart share no word.
LEMMA WordsApart ==
  ASSUME NEW k, NEW l, k.page \in Nat, k.npage \in Nat, l.page \in Nat, l.npage \in Nat, Apart(k, l)
  PROVE WordsOf(k) \cap WordsOf(l) = {}
<1>1. ASSUME NEW p \in Nat, NEW q \in Nat, p <= q
      PROVE FirstWord(p) \in Nat /\ FirstWord(q) \in Nat /\ FirstWord(p) <= FirstWord(q)
  <2>1. PageSize \in Nat
    BY SizesAssumption
  <2>2. p * PageSize \in Nat /\ q * PageSize \in Nat
    BY <2>1, SMTT(30)
  <2>3. p * PageSize <= q * PageSize
    BY <1>1, <2>1, SMTT(30)
  <2> QED BY <2>2, <2>3 DEF FirstWord
<1> DEFINE a == FirstWord(k.page)
           b == FirstWord(k.page + k.npage)
           c == FirstWord(l.page)
           d == FirstWord(l.page + l.npage)
<1>2. a \in Nat /\ b \in Nat /\ c \in Nat /\ d \in Nat
  BY <1>1
<1>3. b <= c \/ d <= a
  BY <1>1 DEF Apart
<1> HIDE DEF a, b, c, d
<1>4. (a .. b - 1) \cap (c .. d - 1) = {}
  BY <1>2, <1>3
<1> QED BY <1>4 DEF WordsOf, a, b, c, d

\* A block carved from a span ends in it, if the blocks divide it.
LEMMA CarvedFits ==
  ASSUME NEW k, k.page \in Nat, k.npage \in Nat, NEW c \in Classes, NEW b \in Carved(k, c),
         (k.npage * PageSize) % BlockWords[c] = 0
  PROVE /\ b \in Nat /\ b + BlockWords[c] <= FirstWord(k.page) + k.npage * PageSize
        /\ FirstWord(k.page) <= b /\ BlockWords[c] \in Nat \ {0}
<1> DEFINE F == FirstWord(k.page)
           L == k.npage * PageSize
           n == BlockWords[c]
<1>1. F \in Nat /\ L \in Nat /\ FirstWord(k.page + k.npage) = F + L /\ n \in Nat \ {0}
  BY WordsOfSpan, SizesAssumption
<1>2. b \in F .. F + L - 1 /\ (b - F) % n = 0 /\ L % n = 0
  BY <1>1 DEF Carved
<1> HIDE DEF F, L, n
<1>3. b \in Nat /\ F <= b /\ b - F \in Nat /\ b - F < L
  BY <1>1, <1>2
<1>4. (b - F) + n <= L
  BY <1>1, <1>2, <1>3, MultiplesApart
<1>5. b + n <= F + L
  BY <1>1, <1>3, <1>4
<1> QED BY <1>1, <1>3, <1>5 DEF F, L, n

\* Two blocks carved from one span are a block apart.
LEMMA CarvedApart ==
  ASSUME NEW k, k.page \in Nat, NEW c \in Classes, NEW x \in Carved(k, c), NEW y \in Carved(k, c),
         x \in Nat, y \in Nat, x < y
  PROVE x + BlockWords[c] <= y
<1> DEFINE F == FirstWord(k.page)
           n == BlockWords[c]
<1>1. F \in Nat /\ n \in Nat \ {0}
  BY PageOfFirst, SizesAssumption
<1>2. F <= x /\ F <= y /\ (x - F) % n = 0 /\ (y - F) % n = 0
  BY <1>1 DEF Carved
<1> HIDE DEF F, n
<1>3. x - F \in Nat /\ y - F \in Nat /\ x - F < y - F
  BY <1>1, <1>2
<1>4. (x - F) + n <= y - F
  BY <1>1, <1>2, <1>3, MultiplesApart
<1> QED BY <1>1, <1>3, <1>4 DEF n

\* Each block in use lies in a span: it fills one, or was carved from one.
LEMMA HeldInSpan ==
  ASSUME Sound, Fit, DividesSpans, NEW o \in held
  PROVE \E s \in Out(heap) :
          /\ PromisedHeap!Words(o) \subseteq WordsOf(heap.span[s])
          /\ \/ /\ heap.span[s].class \in Classes /\ o.size = BlockWords[heap.span[s].class]
                /\ o.at \in Carved(heap.span[s], heap.span[s].class)
             \/ heap.span[s].class = "large" /\ o.at = FirstWord(heap.span[s].page)
<1>1. heap \in PageCache /\ SpansOwned /\ o.at \in Nat /\ o.size \in Nat
  BY StateType DEF Sound, Kept
<1>2. \A s \in Out(heap) : heap.span[s].page \in Nat /\ heap.span[s].npage \in Nat
  BY <1>1, SpanType DEF Out
<1>3. PromisedHeap!Words(o) = o.at .. o.at + o.size - 1
  BY DEF PromisedHeap!Words
<1>4. ASSUME NEW s \in Out(heap),
             FirstWord(heap.span[s].page) <= o.at,
             o.at + o.size <= FirstWord(heap.span[s].page) + heap.span[s].npage * PageSize
      PROVE PromisedHeap!Words(o) \subseteq WordsOf(heap.span[s])
  <2> DEFINE k == heap.span[s]
             F == FirstWord(k.page)
             L == k.npage * PageSize
  <2>1. F \in Nat /\ L \in Nat /\ FirstWord(k.page + k.npage) = F + L
    BY <1>2, WordsOfSpan
  <2>2. F <= o.at /\ o.at + o.size <= F + L
    BY <1>4
  <2>3. WordsOf(k) = F .. F + L - 1
    BY <2>1 DEF WordsOf
  <2> HIDE DEF F, L, k
  <2>4. o.at .. o.at + o.size - 1 \subseteq F .. F + L - 1
    BY <1>1, <2>1, <2>2
  <2> QED BY <1>3, <2>3, <2>4 DEF k
<1>5. ASSUME NEW c \in Classes, o.size = BlockWords[c], TakenFrom(central[c], heap.span, c, o.at)
      PROVE \E s \in Out(heap) :
              /\ PromisedHeap!Words(o) \subseteq WordsOf(heap.span[s])
              /\ heap.span[s].class = c /\ o.at \in Carved(heap.span[s], c)
  <2>1. PICK s \in central[c] : o.at \in Carved(heap.span[s], c)
    BY <1>5 DEF TakenFrom
  <2>2. s \in Out(heap) /\ heap.span[s].class = c /\ heap.span[s].npage = MovePages[c]
    BY <1>1, <2>1 DEF SpansOwned, Fit
  <2>3. (heap.span[s].npage * PageSize) % BlockWords[c] = 0
    BY <2>2 DEF DividesSpans
  <2>4. /\ o.at + BlockWords[c] <= FirstWord(heap.span[s].page) + heap.span[s].npage * PageSize
        /\ FirstWord(heap.span[s].page) <= o.at
    BY <1>2, <2>1, <2>2, <2>3, CarvedFits
  <2> QED BY <1>4, <1>5, <2>1, <2>2, <2>4
<1>6. ASSUME Large(Out(heap) \ Owned, heap.span, o.at)
      PROVE \E s \in Out(heap) :
              /\ PromisedHeap!Words(o) \subseteq WordsOf(heap.span[s])
              /\ heap.span[s].class = "large" /\ o.at = FirstWord(heap.span[s].page)
  <2>1. PICK s \in Out(heap) : heap.span[s].class = "large" /\ o.at = FirstWord(heap.span[s].page)
    BY <1>6 DEF Large
  <2>2. o.size = heap.span[s].npage * PageSize
    BY <2>1 DEF Fit
  <2>3. FirstWord(heap.span[s].page) <= o.at
    BY <1>1, <2>1
  <2>4. o.at + o.size <= FirstWord(heap.span[s].page) + heap.span[s].npage * PageSize
    BY <1>1, <2>1, <2>2
  <2> QED BY <1>4, <2>1, <2>3, <2>4
<1>7. \/ \E c \in Classes : o.size = BlockWords[c] /\ TakenFrom(central[c], heap.span, c, o.at)
      \/ Large(Out(heap) \ Owned, heap.span, o.at)
  BY DEF Sound, Kept, BlocksTaken
<1>8. CASE \E c \in Classes : o.size = BlockWords[c] /\ TakenFrom(central[c], heap.span, c, o.at)
  BY <1>5, <1>8
<1>9. CASE Large(Out(heap) \ Owned, heap.span, o.at)
  BY <1>6, <1>9
<1> QED BY <1>7, <1>8, <1>9

\* So no two share a word.
LEMMA BlocksApart ==
  ASSUME Sound, Fit, DividesSpans
  PROVE BlocksDisjoint
<1>1. SUFFICES ASSUME NEW o \in held, NEW b \in held, o # b
               PROVE PromisedHeap!Words(o) \cap PromisedHeap!Words(b) = {}
  BY DEF BlocksDisjoint
<1>2. PICK s \in Out(heap) :
        /\ PromisedHeap!Words(o) \subseteq WordsOf(heap.span[s])
        /\ \/ /\ heap.span[s].class \in Classes /\ o.size = BlockWords[heap.span[s].class]
              /\ o.at \in Carved(heap.span[s], heap.span[s].class)
           \/ heap.span[s].class = "large" /\ o.at = FirstWord(heap.span[s].page)
  BY HeldInSpan
<1>3. PICK r \in Out(heap) :
        /\ PromisedHeap!Words(b) \subseteq WordsOf(heap.span[r])
        /\ \/ /\ heap.span[r].class \in Classes /\ b.size = BlockWords[heap.span[r].class]
              /\ b.at \in Carved(heap.span[r], heap.span[r].class)
           \/ heap.span[r].class = "large" /\ b.at = FirstWord(heap.span[r].page)
  BY HeldInSpan
<1>4. /\ heap \in PageCache /\ o.at \in Nat /\ o.size \in Nat /\ b.at \in Nat /\ b.size \in Nat
      /\ o.at # b.at
  BY <1>1, StateType DEF Sound, Kept, BlocksOnce
<1>5. \A m \in Out(heap) : heap.span[m].page \in Nat /\ heap.span[m].npage \in Nat
  BY <1>4, SpanType DEF Out
<1>6. CASE r # s
  <2>1. Apart(heap.span[s], heap.span[r])
    BY <1>6 DEF Sound, Kept, PagesKept, Tiled, Out
  <2>2. WordsOf(heap.span[s]) \cap WordsOf(heap.span[r]) = {}
    BY <1>5, <2>1, WordsApart
  <2> QED BY <1>2, <1>3, <2>2
<1>7. CASE r = s
  <2> DEFINE k == heap.span[s]
             c == k.class
             n == BlockWords[c]
  <2>1. /\ c \in Classes /\ o.size = n /\ b.size = n
        /\ o.at \in Carved(k, c) /\ b.at \in Carved(k, c)
    BY <1>2, <1>3, <1>4, <1>7, NoneAssumption
  <2>2. n \in Nat \ {0} /\ k.page \in Nat
    BY <1>5, <2>1, SizesAssumption
  <2> HIDE DEF k, c
  <2>3. o.at < b.at => o.at + n <= b.at
    BY <1>4, <2>1, <2>2, CarvedApart
  <2>4. b.at < o.at => b.at + n <= o.at
    BY <1>4, <2>1, <2>2, CarvedApart
  <2> HIDE DEF n
  <2>5. (o.at .. o.at + o.size - 1) \cap (b.at .. b.at + b.size - 1) = {}
    BY <1>4, <2>1, <2>2, <2>3, <2>4
  <2> QED BY <2>5 DEF PromisedHeap!Words
<1> QED BY <1>6, <1>7

\* What a step does to the blocks in use.
LEMMA HeldStep ==
  ASSUME AllocInv, [AllocNext]_allocVars
  PROVE \/ held' = held
        \/ \E b \in held : held' = held \ {b}
        \/ ~heap'.wild /\ \E b : held' = held \cup {b}
<1>1. CASE UNCHANGED allocVars
  BY <1>1 DEF allocVars
<1>2. CASE AllocNext
  <2>1. ~heap.wild /\ Sound
    BY <1>2 DEF AllocNext, AllocInv, Sound
  <2>2. PICK t \in Threads :
          \/ \E c \in Classes : AllocateCached(t, c) \/ FetchFromCentralCache(t, c)
          \/ FetchRangeObj(t) \/ GetSpan(t) \/ Carve(t) \/ PushSpan(t)
          \/ \E k \in config.large : MallocPages(t, k)
          \/ \E b \in held : DeletePages(t, b) \/ DeAllocate(t, b)
          \/ LockList(t) \/ ReturnSpan(t)
          \/ \E b \in at[t].blocks : ReturnBlock(t, b)
    BY <1>2 DEF AllocNext
  <2>3. ASSUME NEW c \in Classes, AllocateCached(t, c)
        PROVE ~heap'.wild /\ \E b : held' = held \cup {b}
    BY <2>1, <2>3 DEF AllocateCached
  <2>4. ASSUME \/ \E c \in Classes : FetchFromCentralCache(t, c)
               \/ GetSpan(t) \/ Carve(t) \/ LockList(t) \/ ReturnSpan(t)
               \/ \E b \in at[t].blocks : ReturnBlock(t, b)
        PROVE held' = held
    BY <2>4 DEF FetchFromCentralCache, GetSpan, Carve, LockList, ReturnSpan, ReturnBlock
  <2>5. ASSUME \E b \in held : DeletePages(t, b) \/ DeAllocate(t, b)
        PROVE \E b \in held : held' = held \ {b}
    BY <2>5 DEF DeletePages, DeAllocate
  <2>6. ASSUME FetchRangeObj(t)
        PROVE held' = held \/ (~heap'.wild /\ \E b : held' = held \cup {b})
    <3>1. ~heap'.wild
      BY <2>1, <2>6, FetchRangeObjKeeps
    <3> QED BY <2>6, <3>1 DEF FetchRangeObj, Take
  <2>7. ASSUME PushSpan(t)
        PROVE ~heap'.wild /\ \E b : held' = held \cup {b}
    <3>1. ~heap'.wild
      BY <2>1, <2>7, PushSpanKeeps
    <3> QED BY <2>7, <3>1 DEF PushSpan, Take
  <2>8. ASSUME NEW k \in config.large, MallocPages(t, k)
        PROVE ~heap'.wild /\ \E b : held' = held \cup {b}
    <3>1. ~heap'.wild
      BY <2>1, <2>8, MallocPagesKeeps
    <3> QED BY <2>8, <3>1 DEF MallocPages
  <2> QED BY <2>2, <2>3, <2>4, <2>5, <2>6, <2>7, <2>8
<1> QED BY <1>1, <1>2

\* Blocks that share no word before a step do so behind it.
LEMMA DisjointStep ==
  ASSUME AllocInv, BlocksDisjoint, (~heap.wild => BlocksDisjoint)', [AllocNext]_allocVars
  PROVE BlocksDisjoint' /\ [PromisedHeap!Next]_held
<1>1. CASE held' = held
  BY <1>1 DEF BlocksDisjoint
<1>2. ASSUME NEW b \in held, held' = held \ {b}
      PROVE BlocksDisjoint' /\ PromisedHeap!Next
  BY <1>2 DEF BlocksDisjoint, PromisedHeap!Next, PromisedHeap!Free
<1>3. ASSUME ~heap'.wild, NEW b, held' = held \cup {b}
      PROVE BlocksDisjoint' /\ [PromisedHeap!Next]_held
  <2>1. BlocksDisjoint'
    BY <1>3
  <2>2. CASE b \in held
    BY <1>3, <2>1, <2>2
  <2>3. CASE b \notin held
    <3>1. b \in held' \ held /\ \A o \in held : o \in held' /\ o # b
      BY <1>3, <2>3
    <3>2. \A o \in held : PromisedHeap!Words(o) \cap PromisedHeap!Words(b) = {}
      BY <2>1, <3>1 DEF BlocksDisjoint
    <3> QED BY <1>3, <2>1, <3>1, <3>2 DEF PromisedHeap!Next, PromisedHeap!Malloc
  <2> QED BY <2>2, <2>3
<1> QED BY <1>1, <1>2, <1>3, HeldStep

(***************************************************************************)
(* In either allocator no block in use reaches into another, whatever the  *)
(* threads do, where each size divides the spans of its class ("返回值是我   *)
(* 实际给你的空间大小", ConcurrentMemoryPool/Common.h:160).                      *)
(***************************************************************************)
THEOREM AllocBlocksApart == DividesSpans => (AllocSpec => []BlocksDisjoint)
<1> SUFFICES ASSUME DividesSpans PROVE AllocSpec => []BlocksDisjoint
  OBVIOUS
<1>1. AllocSpec => []AllocInv
  BY AllocInvHolds
<1>2. AllocInit => Fit /\ BlocksDisjoint
  BY FitInit DEF AllocInit, BlocksDisjoint
<1>3. AllocInv /\ AllocInv' /\ (~heap.wild => Fit) /\ [AllocNext]_allocVars => (~heap.wild => Fit)'
  BY FitNext
<1>4. AllocInv /\ (~heap.wild => Fit) => (~heap.wild => BlocksDisjoint)
  BY BlocksApart DEF AllocInv, Sound
<1>5. AllocInv /\ BlocksDisjoint /\ (~heap.wild => BlocksDisjoint)' /\ [AllocNext]_allocVars => BlocksDisjoint'
  BY DisjointStep
<1> QED BY <1>1, <1>2, <1>3, <1>4, <1>5, PTL DEF AllocSpec

(***************************************************************************)
(* ConcurrentMalloc and ConcurrentFree, and those of Pool, implement a     *)
(* heap, where each size divides the spans of its class.                   *)
(***************************************************************************)
THEOREM AllocRefinesHeap == DividesSpans => (AllocSpec => AllocImplementsHeap)
<1> SUFFICES ASSUME DividesSpans PROVE AllocSpec => AllocImplementsHeap
  OBVIOUS
<1>1. AllocSpec => []AllocInv
  BY AllocInvHolds
<1>2. AllocSpec => []BlocksDisjoint
  BY AllocBlocksApart
<1>3. AllocInit => PromisedHeap!Init
  BY DEF AllocInit, PromisedHeap!Init
<1>4. AllocInv /\ BlocksDisjoint /\ BlocksDisjoint' /\ [AllocNext]_allocVars => [PromisedHeap!Next]_held
  BY DisjointStep
<1> QED BY <1>1, <1>2, <1>3, <1>4, PTL DEF AllocSpec, AllocImplementsHeap, PromisedHeap!Spec
=============================================================================
