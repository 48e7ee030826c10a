---------------------------- MODULE HttpRoutes ----------------------------
(***************************************************************************)
(* Who answers a request: HttpServer::Route of src/muduo/http/             *)
(* httpserver.hpp with what it calls, as functions of the request.         *)
(*                                                                         *)
(* A path is a sequence of slashes and names.  Two names side by side are  *)
(* one longer name.                                                        *)
(***************************************************************************)
EXTENDS Integers, Sequences, SequencesExt, FiniteSetsExt

CONSTANTS
  Methods,    \* the methods and paths of the requests that clients send
  Paths,
  Params,     \* the names that begin with ':' and are longer than that
  Base,       \* _base_dir, a path without a slash at its end
  FileTree,   \* the regular files of the system, each the names on the way to it
  DirTree,    \* its directories, written likewise; the root is << >>
  Routes      \* the four RouteTables: per method a sequence of patterns

Slash == "/"
Index == "index.html"

\* Util::Split at slashes: what follows the last one counts unless it is empty.
Split(path) ==
  LET slashes == {i \in DOMAIN path : path[i] = Slash}
      ends == IF path = <<>> \/ Last(path) = Slash THEN slashes
              ELSE slashes \cup {Len(path) + 1}
      end == [k \in 1 .. Cardinality(ends) |->
                CHOOSE e \in ends : Cardinality({f \in ends : f < e}) = k - 1]
  IN  [k \in DOMAIN end |-> SubSeq(path, IF k = 1 THEN 1 ELSE end[k-1] + 1, end[k] - 1)]

\* Where stat() gets to from the root: a set of at most one file or directory.
Stat(path) ==
  LET Enter(d, name) ==
        IF d \notin DirTree THEN {}
        ELSE IF name \in {<<>>, <<".">>} THEN {d}
        ELSE IF name = <<"..">> THEN {IF d = <<>> THEN d ELSE Front(d)}
        ELSE {Append(d, name)} \cap (FileTree \cup DirTree)
  IN  FoldLeft(LAMBDA at, name : UNION {Enter(d, name) : d \in at}, {<<>>}, Split(path))

IsDirectory(path) == Stat(path) \cap DirTree # {}

IsRegular(path) == Stat(path) \cap FileTree # {}

\* How deep the first k names of the path lead, below where it starts.
Level(names, k) ==
  Cardinality({i \in 1 .. k : names[i] \notin {<<>>, <<".">>, <<"..">>}})
    - Cardinality({i \in 1 .. k : names[i] = <<"..">>})

\* Mutant of IsValidPath: only the end of the path is looked at.
IsValidAtEnd(path) ==
  LET names == Split(path) IN 0 <= Level(names, Len(names))

IsValidPath(path) ==
  LET names == Split(path) IN \A k \in DOMAIN names : 0 <= Level(names, k)

BuildFilePath(path) ==
  Base \o (IF path = <<>> THEN <<Slash, Index>>
           ELSE IF Last(path) = Slash THEN Append(path, Index)
           ELSE path)

\* The file behind the request's path; of a directory, its index.
RealPath(path) ==
  LET built == BuildFilePath(path)
  IN  IF IsDirectory(built) THEN built \o <<Slash, Index>> ELSE built

IsFileHandler(req) ==
  /\ req.method \in {"GET", "HEAD"}
  /\ req.path # <<>>
  /\ IsValidPath(req.path)
  /\ IsRegular(RealPath(req.path))

Answer(code, by, what) == [code |-> code, by |-> by, what |-> what]
Error(code) == Answer(code, "error", <<>>)

\* The file system may change after IsFileHandler: no file is left, or it cannot be read.
FileHandler(req) ==
  IF ~IsValidPath(req.path) THEN {Error(403)}
  ELSE {Error(404), Error(500)}
       \cup {Answer(200, "file", f) : f \in Stat(RealPath(req.path)) \cap FileTree}

\* Mutant of MatchRoute: a shorter path matches, too.
MatchPrefix(pattern, path) ==
  LET ps == Split(pattern)  ss == Split(path)
  IN  /\ Len(ps) >= Len(ss)
      /\ \A i \in DOMAIN ss : Head(Append(ps[i], "")) \in Params \/ ps[i] = ss[i]

MatchRoute(pattern, path) ==
  LET ps == Split(pattern)  ss == Split(path)
  IN  /\ Len(ps) = Len(ss)
      /\ \A i \in DOMAIN ss : Head(Append(ps[i], "")) \in Params \/ ps[i] = ss[i]

HasParam(pattern) == \E i \in DOMAIN pattern : pattern[i] \in Params

\* The first equal pattern, otherwise the first one with parameters that matches.
Dispatcher(req, routes) ==
  LET equal == {i \in DOMAIN routes : routes[i] = req.path}
      fits == {i \in DOMAIN routes : HasParam(routes[i]) /\ MatchRoute(routes[i], req.path)}
      found == IF equal # {} THEN equal ELSE fits
  IN  IF found = {} THEN {Error(404)} ELSE {Answer(200, "route", routes[Min(found)])}

\* The answers a request may get.
Route(req) ==
  IF req.path = <<>> THEN {Error(400)}
  ELSE IF IsFileHandler(req) THEN FileHandler(req)
  ELSE IF req.method \in {"GET", "HEAD"} THEN Dispatcher(req, Routes["GET"])
  ELSE IF req.method \in {"POST", "PUT", "DELETE"} THEN Dispatcher(req, Routes[req.method])
  ELSE {Error(405)}

\* The same as a set, which TLC evaluates once.
Replies == UNION {{<<req, r>> : r \in Route(req)} : req \in [method : Methods, path : Paths]}
Routed(req) == {x[2] : x \in {y \in Replies : y[1] = req}}
=============================================================================
