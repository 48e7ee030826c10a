------------------------------- MODULE MCHttp -------------------------------
(* Http with a small file system, two tables of routes, and streams of requests. *)
EXTENDS Http, TLC

\* The base directory /srv/www, with a file f, a directory d and their index files; and
\* outside of it the files /f and /srv/f and the directory /srv/wwwd, whose name begins
\* like the base's.
MCBase == <<Slash, "srv", Slash, "www">>
MCSrv == <<"srv">>
MCWww == <<"www">>
MCSibling == <<"www", "d">>
MCDirTree == {<<>>, <<MCSrv>>, <<MCSrv, MCWww>>, <<MCSrv, MCWww, <<"d">>>>, <<MCSrv, MCSibling>>}
MCFileTree == {<<<<"f">>>>, <<MCSrv, <<"f">>>>,
               <<MCSrv, MCWww, <<"f">>>>, <<MCSrv, MCWww, <<"index.html">>>>,
               <<MCSrv, MCWww, <<"d">>, <<"index.html">>>>,
               <<MCSrv, MCSibling, <<"f">>>>, <<MCSrv, MCSibling, <<"index.html">>>>}
MCParams == {":id"}
MCRoutes == ("GET" :> << <<Slash, ":id", Slash, "f">>, <<Slash, "d", Slash, ":id">>,
                         <<Slash, "d", Slash, "f">> >>)
            @@ ("POST" :> << <<Slash, "a">> >>) @@ ("PUT" :> <<>>) @@ ("DELETE" :> <<>>)

MCNumbers == ("1" :> 1) @@ ("2" :> 2) @@ ("0" :> 0) @@ ("-1" :> -1)

RequestTo(method, path, version) == <<"request", method, path, version>>
Post(version) == RequestTo("POST", <<Slash, "a">>, version)
Lines(texts) == FlattenSeq([i \in DOMAIN texts |-> <<texts[i], NL>>])
Header(name, value) == <<"header", name, value>>
Length(value) == Header("Content-Length", value)
Text == <<"text">>

\* Requests with and without a body, kept alive or not.
Good ==
  {Lines(<<Post("HTTP/1.1")>>) \o <<NL>>,
   Lines(<<Post("HTTP/1.0")>>) \o <<NL>>,
   Lines(<<Post("HTTP/1.1"), Header("Connection", "close")>>) \o <<NL>>,
   Lines(<<Post("HTTP/1.0"), Header("Connection", "keep-alive"), Length("1")>>) \o <<NL, NL>>}

\* A body like a request, lengths that are none, and what is not a request.
Odd ==
  {Lines(<<Post("HTTP/1.1"), Length("1"), Length("2")>>) \o <<NL, NL, Post("HTTP/1.1")>>,
   Lines(<<Post("HTTP/1.1"), Length("-1")>>) \o <<NL>>,
   Lines(<<Post("HTTP/1.1"), Length("many")>>) \o <<NL>>,
   Lines(<<Post("HTTP/1.1"), Text>>), Lines(<<Post("HTTP/1.1")>>) \o <<Text, Text, NL>>,
   <<Text>>, <<Text, Text, Text>>,
   <<NL>>}

Pipelined ==
  {p \o q : p, q \in Good \cup Odd} \cup {p \o q \o r : p, q, r \in Good}

MCMethods == {"GET", "POST", "PATCH"}

\* One request for every path of up to four slashes and names, and longer ones.
PathTokens == {Slash, "d", "f", ".."}
MCPaths == {<<Slash, "a">>} \cup UNION {[1 .. n -> PathTokens] : n \in 0 .. 4}
         \cup {<<Slash>> \o p \o <<Slash, "f">> : p \in [1 .. 3 -> {Slash, "www", ".."}]}
         \cup {<<"d", Slash>> \o p \o <<"f">> : p \in {<<"..", Slash>>, <<"..", Slash, "..", Slash>>}}
Single == {Lines(<<RequestTo(m, p, "HTTP/1.1")>>) \o <<NL>> :
             m \in MCMethods, p \in MCPaths}

MCStreams == Pipelined \cup Single
=============================================================================
