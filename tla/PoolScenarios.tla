--------------------------- MODULE PoolScenarios ---------------------------
(* Size classes for MemoryPool, and the scenarios of each run. *)
EXTENDS TLC

CONSTANTS t1, t2

\* With pages of two words: a class of one-word blocks, two to a span of one page,
\* and one of two-word blocks, two to a span of two pages.
MCClasses == {"one", "two"}
MCBlockWords == [one |-> 1, two |-> 2]
MCMoveSize == [one |-> 2, two |-> 2]
MCMovePages == [one |-> 1, two |-> 2]

\* Three words to a block of two pages of four words.
OddClasses == {"odd"}
OddBlockWords == [odd |-> 3]
OddMoveSize == [odd |-> 2]
OddMovePages == [odd |-> 2]

ScenarioOf(lib, uses1, uses2, large, heldMax, pages) ==
  [lib |-> lib, uses |-> (t1 :> uses1 @@ t2 :> uses2), large |-> large,
   held |-> heldMax, pages |-> pages]

\* Of Pool: two threads in one region of memory, and one thread that spreads over two.
\* Of ConcurrentMemoryPool: two threads with blocks of one class and large ones, and
\* one thread with a block longer than any span that is kept.
MCScenarios ==
  {ScenarioOf("Pool", {"one", "two"}, {"one"}, {}, 2, 3),
   ScenarioOf("Pool", {"one"}, {}, {}, 5, 6),
   ScenarioOf("Pool", {"two"}, {}, {}, 4, 6),
   ScenarioOf("ConcurrentMemoryPool", {"one"}, {"one"}, {2}, 2, 4),
   ScenarioOf("ConcurrentMemoryPool", {"one"}, {}, {1, 4}, 2, 8)}

\* Two threads that free what they allocate.
SharedScenarios == {ScenarioOf("ConcurrentMemoryPool", {"one"}, {"one"}, {}, 2, 4)}

\* One thread.
OddScenarios == {ScenarioOf("ConcurrentMemoryPool", {"odd"}, {}, {}, 4, 5)}
=============================================================================
