----------------------------- MODULE MCReactor -----------------------------
(* Reactor with at most two sub loops, and the scenarios of each run. *)
EXTENDS Reactor

CONSTANTS s1, s2

MCSubLoops == <<s1, s2>>

AllFaults == {"fin", "rst", "slow"}

ScenarioOf(app, threads, timeout, sends, faults, calls) ==
  [app |-> app, threads |-> threads, timeout |-> timeout, sends |-> sends,
   faults |-> faults, calls |-> calls]

\* EchoServer with two sub loops and clients that do everything; HttpServer without
\* sub loops, with inactivity timers and a second sender.
EchoAndHttp ==
  {ScenarioOf("echo", 2, 0, 2, AllFaults, {}), ScenarioOf("http", 0, 1, 1, {"fin"}, {"Send"})}

\* Without and with inactivity timers; another thread shuts the connection down.
EchoAndEchoTimed ==
  {ScenarioOf("echo", 1, timeout, 1, AllFaults, {"ShutDown"}) : timeout \in {0, 2}}

\* A client that sends a byte and closes its side, resets, or stays.
EchoClosed == {ScenarioOf("echo", 1, 0, 1, {"fin"}, {})}
EchoReset == {ScenarioOf("echo", 1, 0, 1, {"rst"}, {})}
EchoTimed == {ScenarioOf("echo", 1, 1, 1, {}, {})}

ConnSymmetry == Permutations(Conns)
=============================================================================
