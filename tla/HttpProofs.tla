----------------------------- MODULE HttpProofs -----------------------------
(* One connection of HttpServer, for all streams, numbers, routes and file systems: the  *)
(* lines and requests that the context finds, piece by piece and call by call, are those *)
(* of the text.                                                                          *)
EXTENDS Http, SequenceTheorems, WellFoundedInduction, TLAPS

\* Min chooses the least of some numbers. (GetLine)
LEMMA LeastOfLines ==
  ASSUME NEW S, S \subseteq Nat, S # {}
  PROVE Min(S) \in S /\ \A y \in S : Min(S) <= y
<1> DEFINE R == OpToRel(<, Nat)
<1>1. IsWellFoundedOn(R, Nat)
  BY NatLessThanWellFounded
<1>2. \A x, y \in Nat : <<x, y>> \in R <=> x < y
  BY DEF OpToRel
<1> HIDE DEF R
<1>3. \E x \in S : \A y \in S : ~(<<y, x>> \in R)
  BY <1>1, WFMin, Zenon
<1>4. PICK x \in S : \A y \in S : ~(<<y, x>> \in R)
  BY <1>3
<1>5. \A y \in S : ~(y < x) /\ y \in Nat /\ x \in Nat
  BY <1>2, <1>4
<1>6. \A y \in S : x <= y
  BY <1>5
<1> QED BY <1>4, <1>6 DEF Min

-----------------------------------------------------------------------------
(* Lines of a text. *)

Starts(s) == Exchange!Starts(s)
EndOf(s, a) == Exchange!EndOf(s, a)
Taken(s, a) == Exchange!Taken(s, a)
IsHead(s, h) == Exchange!IsHead(s, h)

\* A line has one end.
LEMMA OneEnd ==
  ASSUME NEW T, NEW s \in Seq(T), NEW a \in Nat \ {0}, NEW b \in EndOf(s, a)
  PROVE /\ EndOf(s, a) = {b} /\ b \in a .. Len(s) /\ b \in Nat \ {0}
        /\ s[b] = NL /\ \A i \in a .. b - 1 : s[i] # NL
<1>1. b \in a .. Len(s) /\ s[b] = NL /\ \A i \in a .. b - 1 : s[i] # NL
  BY DEF EndOf, Exchange!EndOf, Exchange!NL, NL
<1>2. ASSUME NEW c \in EndOf(s, a) PROVE c = b
  <2>1. c \in a .. Len(s) /\ s[c] = NL /\ \A i \in a .. c - 1 : s[i] # NL
    BY DEF EndOf, Exchange!EndOf, Exchange!NL, NL
  <2>2. a \in Nat /\ Len(s) \in Nat
    OBVIOUS
  <2>3. ~(c < b) /\ ~(b < c)
    BY <1>1, <2>1, <2>2
  <2> QED BY <1>1, <2>1, <2>2, <2>3
<1>3. b \in Nat \ {0}
  BY <1>1
<1> QED BY <1>1, <1>2, <1>3

\* The next line starts behind it, and there is none without an end.
LEMMA NextStart ==
  ASSUME NEW T, NEW s \in Seq(T), NEW a \in Nat \ {0}
  PROVE /\ \A b \in EndOf(s, a) : b + 1 \in Starts(s) /\ \A x \in Starts(s) : a < x => b + 1 <= x
        /\ EndOf(s, a) = {} => \A x \in Starts(s) : x <= a
<1>1. DOMAIN s = 1 .. Len(s) /\ Len(s) \in Nat
  OBVIOUS
<1>2. Starts(s) = {1} \cup {i + 1 : i \in {j \in 1 .. Len(s) : s[j] = NL}}
  BY <1>1 DEF Starts, Exchange!Starts, Exchange!NL, NL
<1>3. ASSUME NEW b \in EndOf(s, a)
      PROVE b + 1 \in Starts(s) /\ \A x \in Starts(s) : a < x => b + 1 <= x
  <2>1. b \in a .. Len(s) /\ s[b] = NL /\ \A i \in a .. b - 1 : s[i] # NL
    BY OneEnd
  <2>2. ASSUME NEW x \in Starts(s), a < x PROVE b + 1 <= x
    <3>1. PICK j \in 1 .. Len(s) : s[j] = NL /\ x = j + 1
      BY <1>2, <2>2
    <3> QED BY <1>1, <2>1, <2>2, <3>1
  <2>3. b \in 1 .. Len(s)
    BY <1>1, <2>1
  <2> QED BY <1>2, <2>1, <2>2, <2>3
<1>4. ASSUME EndOf(s, a) = {}, NEW x \in Starts(s), a < x PROVE FALSE
  <2>1. PICK j \in 1 .. Len(s) : s[j] = NL /\ x = j + 1
    BY <1>2, <1>4
  <2> DEFINE S == {i \in 1 .. Len(s) : a <= i /\ s[i] = NL}
  <2>2. S \subseteq Nat /\ j \in S
    BY <1>1, <1>4, <2>1
  <2>3. Min(S) \in S /\ \A y \in S : Min(S) <= y
    <3> HIDE DEF S
    <3> QED BY <2>2, LeastOfLines
  <2> DEFINE b == Min(S)
  <2>4. b \in S /\ \A y \in S : b <= y
    BY <2>3
  <2> HIDE DEF b
  <2>5. b \in a .. Len(s) /\ s[b] = NL /\ \A i \in a .. b - 1 : s[i] # NL
    BY <1>1, <2>4
  <2>6. b \in EndOf(s, a)
    BY <2>5 DEF EndOf, Exchange!EndOf, Exchange!NL, NL
  <2> QED BY <1>4, <2>6
<1>5. \A x \in Starts(s) : x \in Nat
  BY <1>1, <1>2
<1> QED BY <1>1, <1>3, <1>4, <1>5

\* What comes behind a text changes none of its lines.
LEMMA LinesStay ==
  ASSUME NEW T, NEW s \in Seq(T), NEW t \in Seq(T)
  PROVE LET u == s \o t
        IN  /\ \A a \in Nat \ {0} : EndOf(s, a) \subseteq EndOf(u, a)
            /\ \A a \in Nat \ {0} : Taken(s, a) => Taken(u, a)
            /\ Starts(s) \subseteq Starts(u)
            /\ \A x \in Starts(u) : x <= Len(s) + 1 => x \in Starts(s)
            /\ \A h \in 1 .. Len(s) : IsHead(s, h) => IsHead(u, h)
<1> DEFINE u == s \o t
<1>1. /\ u \in Seq(T) /\ Len(u) = Len(s) + Len(t) /\ Len(s) \in Nat /\ Len(t) \in Nat
      /\ \A i \in 1 .. Len(s) : u[i] = s[i]
      /\ DOMAIN s = 1 .. Len(s) /\ DOMAIN u = 1 .. Len(u)
  <2>1. /\ u \in Seq(T) /\ Len(u) = Len(s) + Len(t) /\ Len(s) \in Nat /\ Len(t) \in Nat
        /\ \A i \in 1 .. Len(s) + Len(t) : u[i] = IF i <= Len(s) THEN s[i] ELSE t[i - Len(s)]
    BY ConcatProperties, LenProperties
  <2> HIDE DEF u
  <2> QED BY <2>1, LenProperties
<1> HIDE DEF u
<1>2. ASSUME NEW a \in Nat \ {0}, NEW b \in EndOf(s, a) PROVE b \in EndOf(u, a)
  <2>1. b \in a .. Len(s) /\ s[b] = NL /\ \A i \in a .. b - 1 : s[i] # NL
    BY OneEnd
  <2>2. b \in a .. Len(u) /\ u[b] = NL /\ \A i \in a .. b - 1 : u[i] # NL
    BY <1>1, <2>1
  <2> QED BY <2>2 DEF EndOf, Exchange!EndOf, Exchange!NL, NL
<1>3. ASSUME NEW a \in Nat \ {0}, Taken(s, a) PROVE Taken(u, a)
  <2>1. PICK b \in EndOf(s, a) :
          LET line == SubSeq(s, a, b)
          IN  /\ Len(line) <= MaxLine
              /\ IF a = 1 THEN Exchange!IsRequestLine(line) ELSE Exchange!IsHeaderLine(line)
    BY <1>3 DEF Taken, Exchange!Taken, EndOf
  <2>2. b \in a .. Len(s)
    BY OneEnd
  <2>3. SubSeq(u, a, b) = SubSeq(s, a, b)
    <3>1. \A i \in a .. b : s[i] \in T /\ u[i] = s[i]
      BY <1>1, <2>2, ElementOfSeq
    <3>2. /\ SubSeq(s, a, b) \in Seq(T) /\ SubSeq(u, a, b) \in Seq(T)
          /\ Len(SubSeq(s, a, b)) = Len(SubSeq(u, a, b))
          /\ Len(SubSeq(s, a, b)) = b - a + 1
          /\ \A i \in 1 .. b - a + 1 : SubSeq(s, a, b)[i] = s[a + i - 1] /\ SubSeq(u, a, b)[i] = u[a + i - 1]
      BY <2>2, <3>1, SubSeqProperties
    <3>3. \A i \in 1 .. b - a + 1 : a + i - 1 \in a .. b
      BY <2>2
    <3>4. \A i \in 1 .. Len(SubSeq(s, a, b)) : SubSeq(u, a, b)[i] = SubSeq(s, a, b)[i]
      BY <3>1, <3>2, <3>3
    <3> QED BY <3>2, <3>4, SeqEqual
  <2>4. b \in EndOf(u, a)
    BY <1>2
  <2> QED BY <2>1, <2>3, <2>4 DEF Taken, Exchange!Taken, EndOf
<1>4. /\ Starts(s) = {1} \cup {i + 1 : i \in {j \in 1 .. Len(s) : s[j] = NL}}
      /\ Starts(u) = {1} \cup {i + 1 : i \in {j \in 1 .. Len(u) : u[j] = NL}}
  BY <1>1 DEF Starts, Exchange!Starts, Exchange!NL, NL
<1>5. Starts(s) \subseteq Starts(u)
  <2>1. \A j \in 1 .. Len(s) : j \in 1 .. Len(u)
    BY <1>1
  <2> QED BY <1>1, <1>4, <2>1
<1>6. ASSUME NEW x \in Starts(u), x <= Len(s) + 1 PROVE x \in Starts(s)
  <2>1. CASE x = 1
    BY <1>4, <2>1
  <2>2. CASE x # 1
    <3>1. PICK j \in 1 .. Len(u) : u[j] = NL /\ x = j + 1
      BY <1>4, <2>2
    <3>2. j \in 1 .. Len(s)
      BY <1>1, <1>6, <3>1
    <3> QED BY <1>1, <1>4, <3>1, <3>2
  <2> QED BY <2>1, <2>2
<1>7. ASSUME NEW h \in 1 .. Len(s), IsHead(s, h) PROVE IsHead(u, h)
  <2>1. /\ h \in Starts(s) \ {1} /\ EndOf(s, h) = {h} /\ h \in Nat \ {0}
        /\ \A a \in Starts(s) : a < h => Taken(s, a)
    BY <1>1, <1>7 DEF IsHead, Exchange!IsHead, Exchange!Blank, Starts, EndOf, Taken
  <2>2. EndOf(u, h) = {h}
    <3>1. h \in EndOf(u, h)
      BY <1>2, <2>1
    <3> QED BY <1>1, <2>1, <3>1, OneEnd
  <2>3. ASSUME NEW a \in Starts(u), a < h PROVE Taken(u, a)
    <3>1. a \in Nat \ {0}
      BY <1>1, <1>4
    <3>2. a \in Starts(s)
      BY <1>1, <1>6, <2>1, <2>3, <3>1
    <3> QED BY <1>3, <2>1, <2>3, <3>1, <3>2
  <2> QED BY <1>5, <2>1, <2>2, <2>3 DEF IsHead, Exchange!IsHead, Exchange!Blank, Starts, EndOf, Taken
<1> QED BY <1>2, <1>3, <1>5, <1>6, <1>7 DEF u

\* The lines of s[1..c] are whole, and the server takes them.
LinesTaken(s, c) ==
  c + 1 \in Starts(s) /\ \A a \in Starts(s) : a <= c => Taken(s, a)

\* A line that is taken is a text and its newline.
LEMMA TakenLine ==
  ASSUME NEW T, NEW s \in Seq(T), NEW a \in Nat \ {0}, NEW b \in EndOf(s, a)
  PROVE /\ Len(SubSeq(s, a, b)) = b - a + 1 /\ SubSeq(s, a, b)[1] = s[a]
        /\ Taken(s, a) => b - a + 1 <= MaxLine /\ b = a + 1
        /\ a = 1 => (Taken(s, a) <=> b - a + 1 <= MaxLine /\ s[a][1] = "request")
        /\ a # 1 => (Taken(s, a) <=> b - a + 1 <= MaxLine /\ s[a][1] = "header")
<1> DEFINE line == SubSeq(s, a, b)
<1>1. /\ EndOf(s, a) = {b} /\ b \in a .. Len(s) /\ b \in Nat \ {0}
      /\ s[b] = NL /\ \A i \in a .. b - 1 : s[i] # NL
  BY OneEnd
<1>2. Len(line) = b - a + 1 /\ line[1] = s[a]
  <2>1. \A i \in a .. b : s[i] \in T
    BY <1>1, ElementOfSeq
  <2>2. /\ Len(line) = b - a + 1
        /\ \A i \in 1 .. b - a + 1 : line[i] = s[a + i - 1]
    BY <1>1, <2>1, SubSeqProperties
  <2> QED BY <1>1, <2>2
<1> HIDE DEF line
<1>3. Taken(s, a) <=> /\ Len(line) <= MaxLine
                      /\ Len(line) = 2 /\ line[1][1] = IF a = 1 THEN "request" ELSE "header"
  BY <1>1 DEF Taken, Exchange!Taken, EndOf, Exchange!IsRequestLine, Exchange!IsHeaderLine, line
<1>4. ASSUME Len(line) <= MaxLine, s[a][1] = IF a = 1 THEN "request" ELSE "header"
      PROVE Len(line) = 2
  <2>1. Len(line) # 1
    <3>1. SUFFICES ASSUME b = a PROVE FALSE
      BY <1>1, <1>2
    <3>2. s[a] = <<"newline">>
      BY <1>1, <3>1 DEF NL
    <3> QED BY <1>4, <3>2
  <2> QED BY <1>1, <1>2, <1>4, <2>1, HttpAssumption
<1>5. /\ a = 1 => (Taken(s, a) <=> Len(line) <= MaxLine /\ s[a][1] = "request")
      /\ a # 1 => (Taken(s, a) <=> Len(line) <= MaxLine /\ s[a][1] = "header")
  BY <1>2, <1>3, <1>4
<1>6. Taken(s, a) => Len(line) <= MaxLine /\ b = a + 1
  BY <1>1, <1>2, <1>3
<1> QED BY <1>2, <1>5, <1>6 DEF line

\* With one more line taken, there is a line more.
LEMMA Advance ==
  ASSUME NEW T, NEW s \in Seq(T), NEW c \in Nat, LinesTaken(s, c), Taken(s, c + 1),
         NEW b \in EndOf(s, c + 1)
  PROVE LinesTaken(s, b)
<1>1. c + 1 \in Nat \ {0}
  OBVIOUS
<1>2. b + 1 \in Starts(s) /\ \A x \in Starts(s) : c + 1 < x => b + 1 <= x
  BY <1>1, NextStart
<1>3. b \in Nat /\ \A x \in Starts(s) : x \in Nat
  BY <1>1, OneEnd DEF Starts, Exchange!Starts
<1>4. ASSUME NEW x \in Starts(s), x <= b PROVE Taken(s, x)
  <2>1. x <= c + 1
    BY <1>2, <1>3, <1>4
  <2> QED BY <1>3, <2>1 DEF LinesTaken
<1> QED BY <1>2, <1>4 DEF LinesTaken

\* A blank line behind the first ends the head.
LEMMA HeadEnds ==
  ASSUME NEW T, NEW s \in Seq(T), NEW h \in Nat \ {0, 1}
  PROVE IsHead(s, h) <=> LinesTaken(s, h - 1) /\ h \in EndOf(s, h)
<1>1. h \in EndOf(s, h) <=> EndOf(s, h) = {h}
  BY OneEnd
<1>2. \A x \in Starts(s) : x \in Nat
  BY DEF Starts, Exchange!Starts
<1>3. \A x \in Starts(s) : x < h <=> x <= h - 1
  BY <1>2
<1>4. (h - 1) + 1 = h
  OBVIOUS
<1> QED BY <1>1, <1>3, <1>4 DEF IsHead, Exchange!IsHead, Exchange!Blank, LinesTaken, Starts, EndOf, Taken

\* A blank line is not taken.
LEMMA BlankNotTaken ==
  ASSUME NEW T, NEW s \in Seq(T), NEW a \in Nat \ {0}, a \in EndOf(s, a)
  PROVE ~Taken(s, a)
BY TakenLine

\* A text has one head at most.
LEMMA OneHead ==
  ASSUME NEW T, NEW s \in Seq(T), NEW h, NEW x, IsHead(s, h), IsHead(s, x)
  PROVE x = h
<1>1. /\ h \in Starts(s) /\ h \in EndOf(s, h) /\ x \in Starts(s) /\ x \in EndOf(s, x)
      /\ \A a \in Starts(s) : a < h => Taken(s, a)
      /\ \A a \in Starts(s) : a < x => Taken(s, a)
  BY DEF IsHead, Exchange!IsHead, Exchange!Blank, Starts, EndOf, Taken
<1>2. \A y \in Starts(s) : y \in Nat \ {0}
  BY DEF Starts, Exchange!Starts
<1>3. ~Taken(s, h) /\ ~Taken(s, x)
  BY <1>1, <1>2, BlankNotTaken
<1> QED BY <1>1, <1>2, <1>3

\* What the server refuses.
RefusedAt(s) ==
  UNION {Exchange!RefusalOf(s, a) : a \in {c \in Starts(s) : \A b \in Starts(s) :
                                        b < c => Taken(s, b)}}

\* What the server says of one line.
LEMMA RefusalIs ==
  ASSUME NEW T, NEW s \in Seq(T), NEW a \in Nat \ {0}
  PROVE /\ EndOf(s, a) = {} =>
             Exchange!RefusalOf(s, a) = IF Len(s) - a + 1 > MaxLine THEN {414} ELSE {}
        /\ \A b \in EndOf(s, a) :
             Exchange!RefusalOf(s, a) =
               IF b - a + 1 > MaxLine THEN {414}
               ELSE IF Taken(s, a) \/ (a # 1 /\ b = a) THEN {} ELSE {400}
<1>1. ASSUME EndOf(s, a) = {}
      PROVE Exchange!RefusalOf(s, a) = IF Len(s) - a + 1 > MaxLine THEN {414} ELSE {}
  BY <1>1 DEF Exchange!RefusalOf, EndOf
<1>2. ASSUME NEW b \in EndOf(s, a)
      PROVE Exchange!RefusalOf(s, a) =
               IF b - a + 1 > MaxLine THEN {414}
               ELSE IF Taken(s, a) \/ (a # 1 /\ b = a) THEN {} ELSE {400}
  <2>1. EndOf(s, a) = {b} /\ Len(SubSeq(s, a, b)) = b - a + 1
    BY OneEnd, TakenLine
  <2>2. (CHOOSE x \in Exchange!EndOf(s, a) : TRUE) = b
    BY <2>1 DEF EndOf
  <2>3. Exchange!Blank(s, a) <=> b = a
    BY <2>1 DEF EndOf, Exchange!Blank
  <2>4. Exchange!EndOf(s, a) # {}
    BY <2>1 DEF EndOf
  <2>5. Exchange!RefusalOf(s, a) =
          LET line == SubSeq(s, a, b)
          IN  IF Len(line) > MaxLine THEN {414}
              ELSE IF Exchange!Taken(s, a) \/ (a # 1 /\ Exchange!Blank(s, a)) THEN {} ELSE {400}
    BY <2>2, <2>4, Zenon DEF Exchange!RefusalOf
  <2> QED BY <2>1, <2>3, <2>5 DEF Taken
<1> QED BY <1>1, <1>2

\* As long as the line is not whole, nor too long, there is neither a head nor a refusal.
LEMMA NothingYet ==
  ASSUME NEW T, NEW s \in Seq(T), NEW c \in 0 .. Len(s), LinesTaken(s, c),
         EndOf(s, c + 1) = {}, Len(s) - c <= MaxLine
  PROVE (\A h \in DOMAIN s : ~IsHead(s, h)) /\ RefusedAt(s) = {}
<1>1. /\ c + 1 \in Nat \ {0} /\ c + 1 \in Starts(s) /\ Len(s) \in Nat
      /\ \A x \in Starts(s) : x \in Nat \ {0} /\ x <= c + 1 /\ (x <= c => Taken(s, x))
  <2>1. \A x \in Starts(s) : x \in Nat \ {0}
    BY DEF Starts, Exchange!Starts
  <2>2. \A x \in Starts(s) : x <= c + 1
    BY NextStart
  <2> QED BY <2>1, <2>2 DEF LinesTaken
<1>2. ASSUME NEW h \in DOMAIN s, IsHead(s, h) PROVE FALSE
  <2>1. h \in Starts(s) /\ h \in EndOf(s, h)
    BY <1>2 DEF IsHead, Exchange!IsHead, Exchange!Blank, Starts, EndOf
  <2>2. ~Taken(s, h)
    BY <1>1, <2>1, BlankNotTaken
  <2>3. h = c + 1
    BY <1>1, <2>1, <2>2
  <2> QED BY <2>1, <2>3
<1>3. ASSUME NEW a \in Starts(s) PROVE Exchange!RefusalOf(s, a) = {}
  <2>1. CASE a = c + 1
    <3>1. Len(s) - (c + 1) + 1 = Len(s) - c /\ MaxLine \in Nat
      BY <1>1, HttpAssumption
    <3>2. ~(Len(s) - (c + 1) + 1 > MaxLine)
      BY <1>1, <3>1
    <3> QED BY <1>1, <2>1, <3>2, RefusalIs
  <2>2. CASE a # c + 1
    <3>1. Taken(s, a)
      BY <1>1, <2>2
    <3>2. PICK b \in EndOf(s, a) : TRUE
      BY <3>1 DEF Taken, Exchange!Taken, EndOf
    <3>3. a \in Nat \ {0} /\ b = a + 1 /\ b - a + 1 <= MaxLine
      BY <1>1, <3>1, <3>2, TakenLine
    <3>4. ~(b - a + 1 > MaxLine)
      BY <3>3, HttpAssumption
    <3> QED BY <3>1, <3>2, <3>3, <3>4, RefusalIs
  <2> QED BY <2>1, <2>2
<1> QED BY <1>2, <1>3 DEF RefusedAt

\* Nor is there a refusal once there is a head.
LEMMA HeadNotRefused ==
  ASSUME NEW T, NEW s \in Seq(T), NEW h, IsHead(s, h)
  PROVE RefusedAt(s) = {}
<1>1. /\ h \in Starts(s) \ {1} /\ EndOf(s, h) = {h}
      /\ \A a \in Starts(s) : a \in Nat \ {0} /\ (a < h => Taken(s, a))
  BY DEF IsHead, Exchange!IsHead, Exchange!Blank, Starts, EndOf, Taken, Exchange!Starts
<1>2. ASSUME NEW a \in Starts(s), \A b \in Starts(s) : b < a => Taken(s, b)
      PROVE Exchange!RefusalOf(s, a) = {}
  <2>1. ~(h < a)
    BY <1>1, <1>2, BlankNotTaken
  <2>2. CASE a = h
    <3>1. h \in EndOf(s, h) /\ h \in Nat \ {0} /\ h # 1 /\ ~(h - h + 1 > MaxLine)
      BY <1>1, HttpAssumption
    <3> QED BY <2>2, <3>1, RefusalIs
  <2>3. CASE a # h
    <3>1. Taken(s, a)
      BY <1>1, <2>1, <2>3
    <3>2. PICK b \in EndOf(s, a) : TRUE
      BY <3>1 DEF Taken, Exchange!Taken, EndOf
    <3>3. a \in Nat \ {0} /\ b = a + 1 /\ b - a + 1 <= MaxLine
      BY <1>1, <3>1, <3>2, TakenLine
    <3>4. ~(b - a + 1 > MaxLine)
      BY <3>3, HttpAssumption
    <3> QED BY <3>1, <3>2, <3>3, <3>4, RefusalIs
  <2> QED BY <2>2, <2>3
<1> QED BY <1>2 DEF RefusedAt

\* A line that is too long, whole or not, is refused; and a whole one that is neither
\* taken nor blank.
LEMMA LineRefused ==
  ASSUME NEW T, NEW s \in Seq(T), NEW c \in 0 .. Len(s), LinesTaken(s, c)
  PROVE /\ EndOf(s, c + 1) = {} /\ Len(s) - c > MaxLine => 414 \in RefusedAt(s)
        /\ \A b \in EndOf(s, c + 1) :
             /\ b - c > MaxLine => 414 \in RefusedAt(s)
             /\ b - c <= MaxLine /\ ~Taken(s, c + 1) /\ (c = 0 \/ b # c + 1) => 400 \in RefusedAt(s)
<1>1. /\ c + 1 \in Nat \ {0} /\ c + 1 \in Starts(s) /\ Len(s) \in Nat /\ MaxLine \in Nat
      /\ \A x \in Starts(s) : x \in Nat \ {0} /\ (x < c + 1 => Taken(s, x))
  <2>1. \A x \in Starts(s) : x \in Nat \ {0}
    BY DEF Starts, Exchange!Starts
  <2> QED BY <2>1, HttpAssumption DEF LinesTaken
<1>2. Exchange!RefusalOf(s, c + 1) \subseteq RefusedAt(s)
  BY <1>1 DEF RefusedAt
<1>3. ASSUME EndOf(s, c + 1) = {}, Len(s) - c > MaxLine PROVE 414 \in Exchange!RefusalOf(s, c + 1)
  <2>1. Len(s) - (c + 1) + 1 > MaxLine
    BY <1>1, <1>3
  <2> QED BY <1>1, <1>3, <2>1, RefusalIs
<1>4. ASSUME NEW b \in EndOf(s, c + 1)
      PROVE /\ b - c > MaxLine => 414 \in Exchange!RefusalOf(s, c + 1)
            /\ b - c <= MaxLine /\ ~Taken(s, c + 1) /\ (c = 0 \/ b # c + 1) =>
                 400 \in Exchange!RefusalOf(s, c + 1)
  <2>1. b - (c + 1) + 1 = b - c /\ b - c \in Int
    BY <1>1, OneEnd
  <2>2. Exchange!RefusalOf(s, c + 1) =
          IF b - (c + 1) + 1 > MaxLine THEN {414}
          ELSE IF Taken(s, c + 1) \/ (c + 1 # 1 /\ b = c + 1) THEN {} ELSE {400}
    <3> DEFINE a == c + 1
    <3>1. a \in Nat \ {0} /\ b \in EndOf(s, a)
      BY <1>1
    <3> HIDE DEF a
    <3>2. Exchange!RefusalOf(s, a) = IF b - a + 1 > MaxLine THEN {414}
                                     ELSE IF Taken(s, a) \/ (a # 1 /\ b = a) THEN {} ELSE {400}
      BY <3>1, RefusalIs
    <3> QED BY <3>2 DEF a
  <2>3. c \in Nat /\ (c + 1 # 1 <=> c # 0)
    OBVIOUS
  <2>4. CASE b - c > MaxLine
    BY <1>1, <2>1, <2>2, <2>4
  <2>5. CASE ~(b - c > MaxLine)
    BY <1>1, <2>1, <2>2, <2>3, <2>5
  <2> QED BY <2>4, <2>5, <1>1, <2>1
<1> QED BY <1>2, <1>3, <1>4

-----------------------------------------------------------------------------
(* The buffer holds the end of a text. *)

\* A piece of a text.
LEMMA Piece ==
  ASSUME NEW T, NEW s \in Seq(T), NEW m \in 1 .. Len(s) + 1, NEW n \in m - 1 .. Len(s)
  PROVE /\ SubSeq(s, m, n) \in Seq(T) /\ Len(SubSeq(s, m, n)) = n - m + 1
        /\ \A i \in 1 .. n - m + 1 : SubSeq(s, m, n)[i] = s[m + i - 1]
<1>1. m \in Int /\ n \in Int /\ m - 1 <= n
  OBVIOUS
<1>2. \A i \in m .. n : s[i] \in T
  BY ElementOfSeq
<1> QED BY <1>1, <1>2, SubSeqProperties

\* A piece of a piece.
LEMMA PieceOfPiece ==
  ASSUME NEW T, NEW s \in Seq(T), NEW m \in 1 .. Len(s) + 1, NEW n \in m - 1 .. Len(s),
         NEW i \in 1 .. n - m + 2, NEW j \in i - 1 .. n - m + 1
  PROVE SubSeq(SubSeq(s, m, n), i, j) = SubSeq(s, m + i - 1, m + j - 1)
<1> DEFINE u == SubSeq(s, m, n)
           v == SubSeq(u, i, j)
           w == SubSeq(s, m + i - 1, m + j - 1)
<1>1. u \in Seq(T) /\ Len(u) = n - m + 1 /\ \A x \in 1 .. n - m + 1 : u[x] = s[m + x - 1]
  BY Piece
<1> HIDE DEF u
<1>2. i \in 1 .. Len(u) + 1 /\ j \in i - 1 .. Len(u)
  BY <1>1
<1>3. v \in Seq(T) /\ Len(v) = j - i + 1 /\ \A x \in 1 .. j - i + 1 : v[x] = u[i + x - 1]
  BY <1>1, <1>2, Piece
<1>4. m + i - 1 \in 1 .. Len(s) + 1 /\ m + j - 1 \in (m + i - 1) - 1 .. Len(s)
      /\ (m + j - 1) - (m + i - 1) + 1 = j - i + 1
  OBVIOUS
<1>5. /\ w \in Seq(T) /\ Len(w) = (m + j - 1) - (m + i - 1) + 1
      /\ \A x \in 1 .. (m + j - 1) - (m + i - 1) + 1 : w[x] = s[(m + i - 1) + x - 1]
  BY <1>4, Piece
<1> HIDE DEF v, w
<1>6. \A x \in 1 .. j - i + 1 :
        i + x - 1 \in 1 .. n - m + 1 /\ m + (i + x - 1) - 1 = (m + i - 1) + x - 1
  OBVIOUS
<1>7. \A x \in 1 .. j - i + 1 : v[x] = w[x]
  BY <1>1, <1>3, <1>4, <1>5, <1>6
<1>8. v = w
  BY <1>3, <1>4, <1>5, <1>7, SeqEqual
<1> QED BY <1>8 DEF u, v, w

\* A piece of a text that goes on.
LEMMA PieceOfMore ==
  ASSUME NEW T, NEW s \in Seq(T), NEW t \in Seq(T),
         NEW m \in 1 .. Len(s) + 1, NEW n \in m - 1 .. Len(s)
  PROVE /\ SubSeq(s \o t, m, n) = SubSeq(s, m, n)
        /\ SubSeq(s \o t, m, Len(s \o t)) = SubSeq(s, m, Len(s)) \o t
<1> DEFINE u == s \o t
<1>1. /\ u \in Seq(T) /\ Len(u) = Len(s) + Len(t) /\ Len(s) \in Nat /\ Len(t) \in Nat
      /\ \A i \in 1 .. Len(s) + Len(t) : u[i] = IF i <= Len(s) THEN s[i] ELSE t[i - Len(s)]
  BY ConcatProperties, LenProperties
<1> HIDE DEF u
<1>2. m \in 1 .. Len(u) + 1 /\ n \in m - 1 .. Len(u) /\ Len(u) \in m - 1 .. Len(u) /\ Len(s) \in m - 1 .. Len(s)
  BY <1>1
<1>3. SubSeq(u, m, n) = SubSeq(s, m, n)
  <2> DEFINE v == SubSeq(u, m, n)
             w == SubSeq(s, m, n)
  <2>1. /\ v \in Seq(T) /\ Len(v) = n - m + 1 /\ \A i \in 1 .. n - m + 1 : v[i] = u[m + i - 1]
        /\ w \in Seq(T) /\ Len(w) = n - m + 1 /\ \A i \in 1 .. n - m + 1 : w[i] = s[m + i - 1]
    BY <1>1, <1>2, Piece
  <2> HIDE DEF v, w
  <2>2. \A i \in 1 .. n - m + 1 : m + i - 1 \in 1 .. Len(s) + Len(t) /\ m + i - 1 <= Len(s)
    BY <1>1
  <2>3. \A i \in 1 .. Len(v) : v[i] = w[i]
    BY <1>1, <2>1, <2>2
  <2>4. v = w
    BY <2>1, <2>3, SeqEqual
  <2> QED BY <2>4 DEF v, w
<1>4. SubSeq(u, m, Len(u)) = SubSeq(s, m, Len(s)) \o t
  <2> DEFINE v == SubSeq(u, m, Len(u))
             x == SubSeq(s, m, Len(s))
             w == x \o t
  <2>1. /\ v \in Seq(T) /\ Len(v) = Len(u) - m + 1
        /\ \A i \in 1 .. Len(u) - m + 1 : v[i] = u[m + i - 1]
        /\ x \in Seq(T) /\ Len(x) = Len(s) - m + 1
        /\ \A i \in 1 .. Len(s) - m + 1 : x[i] = s[m + i - 1]
    <3>1. /\ v \in Seq(T) /\ Len(v) = Len(u) - m + 1
          /\ \A i \in 1 .. Len(u) - m + 1 : v[i] = u[m + i - 1]
      <4> HIDE DEF x
      <4> QED BY <1>1, <1>2, Piece
    <3>2. /\ x \in Seq(T) /\ Len(x) = Len(s) - m + 1
          /\ \A i \in 1 .. Len(s) - m + 1 : x[i] = s[m + i - 1]
      <4> HIDE DEF v
      <4> QED BY <1>2, Piece
    <3> QED BY <3>1, <3>2
  <2> HIDE DEF v, x
  <2>2. /\ w \in Seq(T) /\ Len(w) = Len(x) + Len(t)
        /\ \A i \in 1 .. Len(x) + Len(t) : w[i] = IF i <= Len(x) THEN x[i] ELSE t[i - Len(x)]
    BY <2>1, ConcatProperties
  <2> HIDE DEF w
  <2>3. Len(v) = Len(w)
    BY <1>1, <2>1, <2>2
  <2>4. ASSUME NEW i \in 1 .. Len(v) PROVE v[i] = w[i]
    <3>1. m + i - 1 \in 1 .. Len(s) + Len(t)
      BY <1>1, <2>1, <2>2, <2>3
    <3>2. v[i] = u[m + i - 1]
      BY <1>1, <2>1
    <3>3. CASE i <= Len(x)
      <4>1. m + i - 1 <= Len(s) /\ i \in 1 .. Len(s) - m + 1 /\ i \in 1 .. Len(x) + Len(t)
        BY SMTT(30), <1>1, <2>1, <3>3
      <4> QED BY <1>1, <2>1, <2>2, <3>1, <3>2, <3>3, <4>1
    <3>4. CASE ~(i <= Len(x))
      <4>1. ~(m + i - 1 <= Len(s)) /\ (m + i - 1) - Len(s) = i - Len(x) /\ i \in 1 .. Len(x) + Len(t)
        BY <1>1, <2>1, <2>2, <2>3, <3>4
      <4>2. w[i] = t[i - Len(x)] /\ u[m + i - 1] = t[(m + i - 1) - Len(s)]
        BY <1>1, <2>2, <3>1, <3>4, <4>1
      <4> QED BY <3>2, <4>1, <4>2
    <3> QED BY <3>3, <3>4
  <2>5. v = w
    BY <2>1, <2>2, <2>3, <2>4, SeqEqual
  <2> QED BY <2>5 DEF v, w, x
<1> QED BY <1>3, <1>4 DEF u

Cut(s, m, n) == SubSeq(s, m, n)

\* A piece of a piece, once more.
LEMMA CutOfCut ==
  ASSUME NEW T, NEW s \in Seq(T), NEW m \in 1 .. Len(s) + 1, NEW n \in m - 1 .. Len(s),
         NEW i \in 1 .. n - m + 2, NEW j \in i - 1 .. n - m + 1
  PROVE Cut(Cut(s, m, n), i, j) = Cut(s, m + i - 1, m + j - 1)
BY PieceOfPiece DEF Cut

\* Of the text s, p is taken, and q is in the buffer.
InBuffer(s, p, q) == p \in 0 .. Len(s) /\ q = SubSeq(s, p + 1, Len(s))

\* Reading from the socket, and taking from the buffer.
LEMMA BufferMoves ==
  ASSUME NEW T, NEW s \in Seq(T), NEW p, NEW q, InBuffer(s, p, q)
  PROVE /\ q \in Seq(T) /\ Len(q) = Len(s) - p /\ p \in Nat
        /\ \A i \in 1 .. Len(q) : q[i] = s[p + i]
        /\ \A t \in Seq(T) : InBuffer(s \o t, p, q \o t)
        /\ \A n \in 0 .. Len(q) : /\ InBuffer(s, p + n, SubSeq(q, n + 1, Len(q)))
                                  /\ Cut(q, 1, n) = Cut(s, p + 1, p + n)
<1>1. /\ p \in 0 .. Len(s) /\ q = SubSeq(s, p + 1, Len(s)) /\ Len(s) \in Nat /\ p \in Nat
      /\ p + 1 \in 1 .. Len(s) + 1 /\ Len(s) \in (p + 1) - 1 .. Len(s)
  BY LenProperties DEF InBuffer
<1>2. /\ q \in Seq(T) /\ Len(q) = Len(s) - (p + 1) + 1
      /\ \A i \in 1 .. Len(s) - (p + 1) + 1 : q[i] = s[(p + 1) + i - 1]
  BY <1>1, Piece
<1>3. Len(q) = Len(s) - p /\ \A i \in 1 .. Len(q) : (p + 1) + i - 1 = p + i
  BY <1>1, <1>2
<1>4. \A i \in 1 .. Len(q) : q[i] = s[p + i]
  BY <1>1, <1>2, <1>3
<1>5. ASSUME NEW t \in Seq(T) PROVE InBuffer(s \o t, p, q \o t)
  <2>1. SubSeq(s \o t, p + 1, Len(s \o t)) = SubSeq(s, p + 1, Len(s)) \o t
    BY <1>1, PieceOfMore
  <2>2. Len(s \o t) = Len(s) + Len(t) /\ Len(t) \in Nat
    BY ConcatProperties, LenProperties
  <2>3. p \in 0 .. Len(s \o t)
    BY <1>1, <2>2
  <2> QED BY <1>1, <2>1, <2>3 DEF InBuffer
<1>6. ASSUME NEW n \in 0 .. Len(q)
      PROVE /\ InBuffer(s, p + n, SubSeq(q, n + 1, Len(q)))
            /\ Cut(q, 1, n) = Cut(s, p + 1, p + n)
  <2> DEFINE m == p + 1
             e == Len(s)
  <2>1. m \in 1 .. Len(s) + 1 /\ e \in m - 1 .. Len(s) /\ q = SubSeq(s, m, e) /\ Len(q) = e - m + 1
        /\ m \in Int /\ e \in Int
    BY <1>1, <1>3
  <2>2. (p + 1) + (n + 1) - 1 = p + n + 1 /\ (p + 1) + (Len(s) - (p + 1) + 1) - 1 = Len(s)
        /\ (p + 1) + 1 - 1 = p + 1 /\ (p + 1) + n - 1 = p + n
    BY <1>1
  <2>3. p + n \in 0 .. Len(s)
    BY <1>1, <1>3
  <2> HIDE DEF m, e
  <2>4. /\ n + 1 \in 1 .. e - m + 2 /\ e - m + 1 \in (n + 1) - 1 .. e - m + 1
        /\ 1 \in 1 .. e - m + 2 /\ n \in 1 - 1 .. e - m + 1
    BY <2>1
  <2>5. SubSeq(q, n + 1, e - m + 1) = SubSeq(s, m + (n + 1) - 1, m + (e - m + 1) - 1)
    BY <2>1, <2>4, PieceOfPiece
  <2>6. SubSeq(q, 1, n) = SubSeq(s, m + 1 - 1, m + n - 1)
    BY <2>1, <2>4, PieceOfPiece
  <2> QED BY <2>1, <2>2, <2>3, <2>5, <2>6 DEF InBuffer, Cut, m, e
<1> QED BY <1>1, <1>2, <1>3, <1>4, <1>5, <1>6


\* The line in the buffer is the next one of the text.
LEMMA BufferLine ==
  ASSUME NEW T, NEW s \in Seq(T), NEW p, InBuffer(s, p, inb)
  PROVE /\ HasLine <=> EndOf(s, p + 1) # {}
        /\ HasLine => /\ LineLength \in 1 .. Len(inb)
                      /\ p + LineLength \in EndOf(s, p + 1)
                      /\ Len(GetLine) = LineLength /\ GetLine[1] = s[p + 1]
                      /\ GetLine = <<NL>> <=> LineLength = 1
                      /\ InBuffer(s, p + LineLength, PopLine)
<1>1. /\ inb \in Seq(T) /\ Len(inb) = Len(s) - p /\ p \in Nat /\ Len(s) \in Nat /\ Len(inb) \in Nat
      /\ \A i \in 1 .. Len(inb) : inb[i] = s[p + i]
      /\ DOMAIN inb = 1 .. Len(inb) /\ p + 1 \in Nat \ {0}
  BY BufferMoves, LenProperties
<1>2. ASSUME NEW b \in EndOf(s, p + 1) PROVE HasLine
  <2>1. b \in p + 1 .. Len(s) /\ s[b] = NL
    BY <1>1, OneEnd
  <2>2. b - p \in 1 .. Len(inb) /\ p + (b - p) = b
    BY <1>1, <2>1
  <2> QED BY <1>1, <2>1, <2>2 DEF HasLine
<1>3. ASSUME HasLine
      PROVE /\ LineLength \in 1 .. Len(inb)
            /\ p + LineLength \in EndOf(s, p + 1)
            /\ Len(GetLine) = LineLength /\ GetLine[1] = s[p + 1]
            /\ GetLine = <<NL>> <=> LineLength = 1
            /\ InBuffer(s, p + LineLength, PopLine)
  <2> DEFINE S == {i \in DOMAIN inb : inb[i] = NL}
             n == LineLength
  <2>1. S \subseteq Nat /\ S # {}
    BY <1>1, <1>3 DEF HasLine
  <2>2. Min(S) \in S /\ \A y \in S : Min(S) <= y
    <3> HIDE DEF S
    <3> QED BY <2>1, LeastOfLines
  <2>3. n \in S /\ \A y \in S : n <= y
    BY <2>2 DEF LineLength
  <2> HIDE DEF n
  <2>4. n \in 1 .. Len(inb) /\ inb[n] = NL /\ \A i \in 1 .. n - 1 : inb[i] # NL
    BY <1>1, <2>3
  <2>5. p + n \in p + 1 .. Len(s) /\ s[p + n] = NL
    BY <1>1, <2>4
  <2>6. ASSUME NEW i \in p + 1 .. (p + n) - 1 PROVE s[i] # NL
    <3>1. i - p \in 1 .. n - 1 /\ i - p \in 1 .. Len(inb) /\ p + (i - p) = i
      BY <1>1, <2>4
    <3> QED BY <1>1, <2>4, <3>1
  <2>7. p + n \in EndOf(s, p + 1)
    BY <2>5, <2>6 DEF EndOf, Exchange!EndOf, Exchange!NL, NL
  <2> DEFINE line == SubSeq(inb, 1, n)
  <2>8. line = GetLine
    BY DEF GetLine, n
  <2>9. line \in Seq(T) /\ Len(line) = n /\ \A i \in 1 .. n : line[i] = inb[i]
    <3>1. 1 \in 1 .. Len(inb) + 1 /\ n \in 1 - 1 .. Len(inb)
      BY <1>1, <2>4
    <3>2. line \in Seq(T) /\ Len(line) = n - 1 + 1 /\ \A i \in 1 .. n - 1 + 1 : line[i] = inb[1 + i - 1]
      BY <1>1, <3>1, Piece
    <3>3. n - 1 + 1 = n /\ \A i \in 1 .. n : 1 + i - 1 = i
      BY <2>4
    <3> HIDE DEF line
    <3> QED BY <3>2, <3>3
  <2> HIDE DEF line
  <2>10. line[1] = s[p + 1]
    BY <1>1, <2>4, <2>9
  <2>11. line = <<NL>> <=> n = 1
    <3>1. ASSUME n = 1 PROVE line = <<NL>>
      <4>1. line[1] = inb[1] /\ inb[1] = NL /\ Len(line) = 1
        BY <2>4, <2>9, <3>1
      <4>2. <<NL>> \in Seq({NL} \cup T) /\ line \in Seq({NL} \cup T)
        BY <2>9, SeqMonotonic
      <4>3. Len(<<NL>>) = 1 /\ <<NL>>[1] = NL
        OBVIOUS
      <4>4. \A i \in 1 .. Len(line) : line[i] = <<NL>>[i]
        BY <4>1, <4>3
      <4> QED BY <4>1, <4>2, <4>3, <4>4, SeqEqual
    <3>2. ASSUME line = <<NL>> PROVE n = 1
      <4>1. Len(<<NL>>) = 1
        OBVIOUS
      <4> QED BY <2>9, <3>2, <4>1
    <3> QED BY <3>1, <3>2
  <2>12. InBuffer(s, p + n, PopLine)
    <3>1. n \in 0 .. Len(inb)
      BY <2>4
    <3>2. InBuffer(s, p + n, SubSeq(inb, n + 1, Len(inb)))
      BY <3>1, BufferMoves
    <3> QED BY <3>2 DEF PopLine, n
  <2> QED BY <2>4, <2>7, <2>8, <2>9, <2>10, <2>11, <2>12 DEF n
<1> QED BY <1>2, <1>3

-----------------------------------------------------------------------------
(* The headers of a text. *)

\* Max chooses the greatest of some numbers up to k.
LEMMA GreatestPlace ==
  ASSUME NEW k \in Nat, NEW S, S \subseteq 1 .. k, S # {}
  PROVE Max(S) \in S /\ \A y \in S : Max(S) >= y
<1> DEFINE R == {x \in 0 .. k : k - x \in S}
<1>1. R \subseteq Nat /\ R # {}
  <2>1. PICK y \in S : y \in 1 .. k
    OBVIOUS
  <2>2. k - y \in 0 .. k /\ k - (k - y) = y
    BY <2>1
  <2>3. k - y \in R
    BY <2>1, <2>2
  <2>4. R \subseteq Nat
    OBVIOUS
  <2> HIDE DEF R
  <2> QED BY <2>3, <2>4
<1>2. Min(R) \in R /\ \A x \in R : Min(R) <= x
  <2> HIDE DEF R
  <2> QED BY <1>1, LeastOfLines
<1> DEFINE m == Min(R)
<1>3. m \in R /\ \A x \in R : m <= x
  BY <1>2
<1> HIDE DEF m
<1>4. k - m \in S /\ m \in 0 .. k
  BY <1>3
<1>5. ASSUME NEW y \in S PROVE k - m >= y
  <2>1. k - y \in 0 .. k /\ k - (k - y) = y /\ y \in 1 .. k
    OBVIOUS
  <2>2. k - y \in R
    BY <2>1
  <2>3. m <= k - y
    <3> HIDE DEF R
    <3> QED BY <1>3, <2>2
  <2> QED BY <1>4, <2>1, <2>3
<1>6. \E x \in S : \A y \in S : x >= y
  BY <1>4, <1>5
<1> QED BY <1>6 DEF Max

Named(s, k, name) == {i \in 1 .. k : s[i][1] = "header" /\ s[i][2] = name}

\* What the last header of a name says, among the first k texts.
LEMMA ValuesAre ==
  ASSUME NEW s, NEW k \in Nat, NEW name
  PROVE /\ Named(s, k, name) = {} => Exchange!ValuesOf(s, k, name) = {}
        /\ \A i \in Named(s, k, name) :
             (\A j \in Named(s, k, name) : j <= i) => Exchange!ValuesOf(s, k, name) = {s[i][3]}
<1> DEFINE S == Named(s, k, name)
<1>1. Exchange!ValuesOf(s, k, name) = IF S = {} THEN {} ELSE {s[Max(S)][3]}
  <2>1. Exchange!ValuesOf(s, k, name) = IF S = {} THEN {} ELSE {s[Exchange!Max(S)][3]}
    BY DEF Exchange!ValuesOf, Named
  <2>2. Exchange!Max(S) = Max(S)
    BY DEF Exchange!Max, Max
  <2> QED BY <2>1, <2>2
<1>2. S \subseteq 1 .. k
  BY DEF Named
<1> HIDE DEF S
<1>3. ASSUME NEW i \in S, \A j \in S : j <= i PROVE Max(S) = i
  <2>1. Max(S) \in S /\ Max(S) >= i
    BY <1>2, <1>3, GreatestPlace
  <2> DEFINE m == Max(S)
  <2>2. m \in S /\ m >= i
    BY <2>1
  <2> HIDE DEF m
  <2>3. m \in 1 .. k /\ i \in 1 .. k /\ m <= i
    BY <1>2, <1>3, <2>2
  <2>4. m = i
    BY <2>2, <2>3
  <2> QED BY <2>4 DEF m
<1>4. ASSUME S = {} PROVE Exchange!ValuesOf(s, k, name) = {}
  BY <1>1, <1>4
<1>5. ASSUME NEW i \in S, \A j \in S : j <= i PROVE Exchange!ValuesOf(s, k, name) = {s[i][3]}
  <2>1. Max(S) = i /\ S # {}
    BY <1>3, <1>5
  <2> QED BY <1>1, <2>1
<1> QED BY <1>4, <1>5 DEF S

\* A header replaces those of its name; any other text adds none.
LEMMA ValuesStep ==
  ASSUME NEW s, NEW k \in Nat, NEW name
  PROVE Exchange!ValuesOf(s, k + 1, name) =
          IF s[k + 1][1] = "header" /\ s[k + 1][2] = name THEN {s[k + 1][3]}
          ELSE Exchange!ValuesOf(s, k, name)
<1>1. CASE s[k + 1][1] = "header" /\ s[k + 1][2] = name
  <2>1. k + 1 \in Named(s, k + 1, name) /\ \A j \in Named(s, k + 1, name) : j <= k + 1
    BY <1>1 DEF Named
  <2>2. k + 1 \in Nat
    OBVIOUS
  <2>3. Exchange!ValuesOf(s, k + 1, name) = {s[k + 1][3]}
    BY <2>1, <2>2, ValuesAre
  <2> QED BY <1>1, <2>3
<1>2. CASE ~(s[k + 1][1] = "header" /\ s[k + 1][2] = name)
  <2>1. Named(s, k + 1, name) = Named(s, k, name)
    <3>1. \A i \in 1 .. k + 1 : i = k + 1 \/ i \in 1 .. k
      OBVIOUS
    <3>2. \A i \in 1 .. k : i \in 1 .. k + 1
      OBVIOUS
    <3> QED BY <1>2, <3>1, <3>2 DEF Named
  <2>2. Exchange!ValuesOf(s, k + 1, name) = Exchange!ValuesOf(s, k, name)
    BY <2>1 DEF Exchange!ValuesOf, Named
  <2> QED BY <1>2, <2>2
<1> QED BY <1>1, <1>2

\* What comes behind changes none of them.
LEMMA ValuesStay ==
  ASSUME NEW T, NEW s \in Seq(T), NEW t \in Seq(T), NEW k \in 0 .. Len(s), NEW name
  PROVE Exchange!ValuesOf(s \o t, k, name) = Exchange!ValuesOf(s, k, name)
<1> DEFINE u == s \o t
<1>1. \A i \in 1 .. k : u[i] = s[i]
  <2>1. \A i \in 1 .. Len(s) + Len(t) : u[i] = IF i <= Len(s) THEN s[i] ELSE t[i - Len(s)]
    BY ConcatProperties
  <2>2. \A i \in 1 .. k : i \in 1 .. Len(s) + Len(t) /\ i <= Len(s)
    BY LenProperties
  <2> HIDE DEF u
  <2> QED BY <2>1, <2>2
<1> HIDE DEF u
<1>2. Named(u, k, name) = Named(s, k, name) /\ Named(s, k, name) \subseteq 1 .. k /\ k \in Nat
  BY <1>1 DEF Named
<1>3. CASE Named(s, k, name) = {}
  <2>1. Exchange!ValuesOf(s, k, name) = {}
    BY <1>2, <1>3, ValuesAre
  <2>2. Named(u, k, name) = {}
    BY <1>2, <1>3
  <2>3. Exchange!ValuesOf(u, k, name) = {}
    BY <1>2, <2>2, ValuesAre
  <2> QED BY <2>1, <2>3 DEF u
<1>4. CASE Named(s, k, name) # {}
  <2> DEFINE i == Max(Named(s, k, name))
  <2>1. i \in Named(s, k, name) /\ \A j \in Named(s, k, name) : i >= j
    BY <1>2, <1>4, GreatestPlace
  <2> HIDE DEF i
  <2>2. i \in 1 .. k /\ \A j \in Named(s, k, name) : j <= i
    BY <1>2, <2>1
  <2>3. Exchange!ValuesOf(s, k, name) = {s[i][3]} /\ Exchange!ValuesOf(u, k, name) = {u[i][3]}
    BY <1>2, <2>1, <2>2, ValuesAre
  <2> QED BY <1>1, <2>2, <2>3 DEF u
<1> QED BY <1>3, <1>4

\* The headers hd are those of the first k texts.
HeadersAre(s, k, hd) ==
  \A name : Exchange!ValuesOf(s, k, name) = IF name \in DOMAIN hd THEN {hd[name]} ELSE {}

\* A text that is no header leaves them.
LEMMA HeadersKept ==
  ASSUME NEW s, NEW k \in Nat, NEW hd, HeadersAre(s, k, hd), s[k + 1][1] # "header"
  PROVE HeadersAre(s, k + 1, hd)
BY ValuesStep DEF HeadersAre

\* A header replaces the one of its name, or is one more.
LEMMA HeaderAdded ==
  ASSUME NEW s, NEW k \in Nat, NEW hd, HeadersAre(s, k, hd), s[k + 1][1] = "header",
         NEW more, DOMAIN more = DOMAIN hd \cup {s[k + 1][2]},
         \A n \in DOMAIN more : more[n] = IF n = s[k + 1][2] THEN s[k + 1][3] ELSE hd[n]
  PROVE HeadersAre(s, k + 1, more)
<1> DEFINE t == s[k + 1]
<1>1. ASSUME NEW name
      PROVE /\ Exchange!ValuesOf(s, k, name) = IF name \in DOMAIN hd THEN {hd[name]} ELSE {}
            /\ Exchange!ValuesOf(s, k + 1, name) =
                 IF t[1] = "header" /\ t[2] = name THEN {t[3]} ELSE Exchange!ValuesOf(s, k, name)
  BY ValuesStep DEF HeadersAre
<1>2. /\ t[1] = "header" /\ DOMAIN more = DOMAIN hd \cup {t[2]}
      /\ \A n \in DOMAIN more : more[n] = IF n = t[2] THEN t[3] ELSE hd[n]
  OBVIOUS
<1> HIDE DEF t
<1>3. ASSUME NEW name
      PROVE Exchange!ValuesOf(s, k + 1, name) = IF name \in DOMAIN more THEN {more[name]} ELSE {}
  <2>1. CASE name = t[2]
    <3>1. Exchange!ValuesOf(s, k + 1, name) = {t[3]}
      BY <1>1, <1>2, <2>1
    <3>2. name \in DOMAIN more /\ more[name] = t[3]
      BY <1>2, <2>1
    <3> QED BY <3>1, <3>2
  <2>2. CASE name # t[2]
    <3>1. Exchange!ValuesOf(s, k + 1, name) = IF name \in DOMAIN hd THEN {hd[name]} ELSE {}
      BY <1>1, <2>2
    <3>2. CASE name \in DOMAIN hd
      <4>1. name \in DOMAIN more /\ more[name] = hd[name]
        BY <1>2, <2>2, <3>2
      <4> QED BY <3>1, <3>2, <4>1
    <3>3. CASE name \notin DOMAIN hd
      <4>1. name \notin DOMAIN more
        BY <1>2, <2>2, <3>3
      <4> QED BY <3>1, <3>3, <4>1
    <3> QED BY <3>2, <3>3
  <2> QED BY <2>1, <2>2
<1> QED BY <1>3 DEF HeadersAre

\* With no text there is no header.
LEMMA NoHeaders ==
  ASSUME NEW s, NEW hd, DOMAIN hd = {}
  PROVE HeadersAre(s, 0, hd)
<1>1. ASSUME NEW name PROVE Exchange!ValuesOf(s, 0, name) = {}
  <2>1. Named(s, 0, name) = {}
    BY DEF Named
  <2> QED BY <2>1, ValuesAre
<1> QED BY <1>1 DEF HeadersAre

\* The context reads Content-Length and Connection as the text says.
LEMMA HeadersSay ==
  ASSUME NEW s, NEW h, HeadersAre(s, h, ctx.headers)
  PROVE /\ ContentLengthThrows <=> Exchange!NumberFails(s, h)
        /\ ~ContentLengthThrows =>
             /\ ContentLength \in Int
             /\ Exchange!BodyLength(s, h) = IF ContentLength > 0 THEN ContentLength ELSE 0
        /\ ctx.line = <<s[1]>> => (IsKeepAlive <=> Exchange!KeepsAlive(s, h))
<1> DEFINE hd == ctx.headers
           cl == "Content-Length"
           v == Exchange!ValuesOf(s, h, cl)
           w == Exchange!ValuesOf(s, h, "Connection")
<1>1. /\ v = IF cl \in DOMAIN hd THEN {hd[cl]} ELSE {}
      /\ w = IF "Connection" \in DOMAIN hd THEN {hd["Connection"]} ELSE {}
  BY DEF HeadersAre
<1>2. /\ HasHeaders(cl) <=> cl \in DOMAIN hd
      /\ GetHeaders(cl) = hd[cl]
      /\ HasHeaders("Connection") <=> "Connection" \in DOMAIN hd
      /\ GetHeaders("Connection") = hd["Connection"]
  BY DEF HasHeaders, GetHeaders
<1>3. /\ Exchange!NumberFails(s, h) <=> \E x \in v : x \notin DOMAIN Numbers
      /\ Exchange!BodyLength(s, h) =
           IF v = {} THEN 0 ELSE Exchange!Max({0, Numbers[CHOOSE x \in v : TRUE]})
      /\ Exchange!KeepsAlive(s, h) <=> IF w = {} THEN s[1][4] = "HTTP/1.1" ELSE w = {"keep-alive"}
  BY DEF Exchange!NumberFails, Exchange!BodyLength, Exchange!KeepsAlive
<1> HIDE DEF v, w
<1>4. ContentLengthThrows <=> Exchange!NumberFails(s, h)
  BY <1>1, <1>2, <1>3 DEF ContentLengthThrows
<1>5. ASSUME ~ContentLengthThrows
      PROVE /\ ContentLength \in Int
            /\ Exchange!BodyLength(s, h) = IF ContentLength > 0 THEN ContentLength ELSE 0
  <2>1. CASE cl \in DOMAIN hd
    <3> DEFINE n == Numbers[hd[cl]]
    <3>1. n \in Int /\ ContentLength = n
      BY <1>2, <1>5, <2>1, HttpAssumption DEF ContentLengthThrows, ContentLength
    <3>2. (CHOOSE x \in v : TRUE) = hd[cl] /\ v # {}
      BY <1>1, <2>1
    <3>3. Exchange!BodyLength(s, h) = Exchange!Max({0, n})
      BY <1>3, <3>2
    <3> HIDE DEF n
    <3>4. Exchange!Max({0, n}) = IF n > 0 THEN n ELSE 0
      BY <3>1 DEF Exchange!Max
    <3> QED BY <3>1, <3>3, <3>4
  <2>2. CASE cl \notin DOMAIN hd
    <3>1. ContentLength = 0 /\ v = {}
      BY <1>1, <1>2, <2>2 DEF ContentLength
    <3> QED BY <1>3, <3>1
  <2> QED BY <2>1, <2>2
<1>6. ASSUME ctx.line = <<s[1]>> PROVE IsKeepAlive <=> Exchange!KeepsAlive(s, h)
  <2>1. ctx.line # <<>> /\ ctx.line[1] = s[1]
    BY <1>6
  <2>2. CASE "Connection" \in DOMAIN hd
    BY <1>1, <1>2, <1>3, <2>2 DEF IsKeepAlive
  <2>3. CASE "Connection" \notin DOMAIN hd
    BY <1>1, <1>2, <1>3, <2>1, <2>3 DEF IsKeepAlive
  <2> QED BY <2>2, <2>3
<1> QED BY <1>4, <1>5, <1>6

\* The length of a body.
LEMMA LengthIsNat ==
  ASSUME NEW s, NEW h, ~Exchange!NumberFails(s, h)
  PROVE Exchange!BodyLength(s, h) \in Nat
<1> DEFINE v == Exchange!ValuesOf(s, h, "Content-Length")
           n == Numbers[CHOOSE x \in v : TRUE]
<1>1. Exchange!BodyLength(s, h) = IF v = {} THEN 0 ELSE Exchange!Max({0, n})
  BY DEF Exchange!BodyLength
<1>2. \A x \in v : x \in DOMAIN Numbers
  BY DEF Exchange!NumberFails
<1> HIDE DEF v
<1>3. v # {} => n \in Int
  BY <1>2, HttpAssumption
<1> HIDE DEF n
<1>4. n \in Int => Exchange!Max({0, n}) \in Nat
  BY DEF Exchange!Max
<1> QED BY <1>1, <1>3, <1>4

-----------------------------------------------------------------------------
(* What the context c says of a text s of which p is taken. *)

IsContext(c) == DOMAIN c = {"status", "code", "line", "headers", "body"}

Begun(s, p, c) == c = FreshContext /\ p = 0

InHead(s, p, c) ==
  /\ c.status = "RECV_REQ_HEAD" /\ c.code = 200 /\ c.line = <<s[1]>> /\ c.body = <<>>
  /\ p # 0 /\ LinesTaken(s, p) /\ HeadersAre(s, p, c.headers)

\* The head ends at h, and the body up to p.
Headed(s, h, p, c) ==
  /\ c.code = 200 /\ c.line = <<s[1]>>
  /\ h \in 1 .. p /\ IsHead(s, h) /\ HeadersAre(s, h, c.headers)
  /\ c.body = SubSeq(s, h + 1, p)

Lacks(s, h, n) == ~Exchange!NumberFails(s, h) /\ n < h + Exchange!BodyLength(s, h)

InBody(s, p, c) ==
  /\ c.status = "RECV_REQ_BODY"
  /\ \E h \in 1 .. p : Headed(s, h, p, c) /\ (p = h \/ Lacks(s, h, p))

Reading(s, p, c) == Begun(s, p, c) \/ InHead(s, p, c) \/ InBody(s, p, c)

\* Nothing can be done before more is received.
Waiting(s, p, c) ==
  /\ Reading(s, p, c)
  /\ c.status # "RECV_REQ_BODY" => EndOf(s, p + 1) = {} /\ Len(s) - p <= MaxLine
  /\ c.status = "RECV_REQ_BODY" => \A h : IsHead(s, h) => Lacks(s, h, Len(s))

Over(s, p, c) ==
  /\ c.status = "RECV_REQ_OVER"
  /\ \E h \in 1 .. p : /\ Headed(s, h, p, c) /\ ~Exchange!NumberFails(s, h)
                       /\ p = h + Exchange!BodyLength(s, h)

Failing(s, c) ==
  c.status = "RECV_REQ_ERROR" /\ c.code \in RefusedAt(s) /\ c.code \in {400, 414}

\* More text changes nothing of what has been read.
LEMMA ReadingGoesOn ==
  ASSUME NEW T, NEW s \in Seq(T), NEW t \in Seq(T), NEW p \in 0 .. Len(s), NEW c,
         Reading(s, p, c)
  PROVE Reading(s \o t, p, c)
<1> DEFINE u == s \o t
<1>1. /\ \A a \in Nat \ {0} : Taken(s, a) => Taken(u, a)
      /\ Starts(s) \subseteq Starts(u)
      /\ \A x \in Starts(u) : x <= Len(s) + 1 => x \in Starts(s)
      /\ \A h \in 1 .. Len(s) : IsHead(s, h) => IsHead(u, h)
  BY LinesStay
<1>2. /\ \A k \in 0 .. Len(s) : \A name : Exchange!ValuesOf(u, k, name) = Exchange!ValuesOf(s, k, name)
      /\ Len(s) \in Nat /\ u \in Seq(T)
      /\ p # 0 => u[1] = s[1]
  <2>1. Len(s) \in Nat /\ Len(t) \in Nat
    BY LenProperties
  <2>2. p # 0 => 1 \in 1 .. Len(s) + Len(t) /\ 1 <= Len(s)
    BY <2>1
  <2> QED BY <2>1, <2>2, ConcatProperties, ValuesStay
<1> HIDE DEF u
<1>3. CASE Begun(s, p, c)
  BY <1>3 DEF Begun, Reading, u
<1>4. CASE InHead(s, p, c)
  <2>1. LinesTaken(u, p)
    <3>1. p + 1 \in Starts(s) /\ \A a \in Starts(s) : a <= p => Taken(s, a)
      BY <1>4 DEF InHead, LinesTaken
    <3>2. ASSUME NEW a \in Starts(u), a <= p PROVE Taken(u, a)
      <4>1. a \in Nat \ {0}
        BY <1>2 DEF Starts, Exchange!Starts
      <4>2. a <= Len(s) + 1
        BY <1>2, <3>2, <4>1
      <4> QED BY <1>1, <3>1, <3>2, <4>1, <4>2
    <3> QED BY <1>1, <3>1, <3>2 DEF LinesTaken
  <2>2. HeadersAre(u, p, c.headers)
    BY <1>2, <1>4 DEF InHead, HeadersAre
  <2>3. InHead(u, p, c)
    BY <1>2, <1>4, <2>1, <2>2 DEF InHead
  <2> QED BY <2>3 DEF Reading, u
<1>5. CASE InBody(s, p, c)
  <2>1. PICK h \in 1 .. p : Headed(s, h, p, c) /\ (p = h \/ Lacks(s, h, p))
    BY <1>5 DEF InBody
  <2>2. h \in 0 .. Len(s) /\ h \in 1 .. Len(s) /\ p # 0
        /\ h + 1 \in 1 .. Len(s) + 1 /\ p \in (h + 1) - 1 .. Len(s)
    BY <1>2
  <2>3. SubSeq(u, h + 1, p) = SubSeq(s, h + 1, p)
    BY <2>2, PieceOfMore DEF u
  <2>4. HeadersAre(u, h, c.headers)
    BY <1>2, <2>1, <2>2 DEF Headed, HeadersAre
  <2>5. IsHead(u, h)
    BY <1>1, <2>1, <2>2 DEF Headed
  <2>6. Headed(u, h, p, c)
    BY <1>2, <2>1, <2>2, <2>3, <2>4, <2>5 DEF Headed
  <2>7. Lacks(s, h, p) => Lacks(u, h, p)
    BY <1>2, <2>2 DEF Lacks, Exchange!NumberFails, Exchange!BodyLength
  <2>8. InBody(u, p, c)
    BY <1>5, <2>1, <2>6, <2>7 DEF InBody
  <2> QED BY <2>8 DEF Reading, u
<1> QED BY <1>3, <1>4, <1>5 DEF Reading

\* Who waits has nothing to answer.
LEMMA WaitingHasNothing ==
  ASSUME NEW T, NEW s \in Seq(T), NEW p \in 0 .. Len(s), NEW c, Waiting(s, p, c)
  PROVE /\ RefusedAt(s) = {}
        /\ \A h \in DOMAIN s : IsHead(s, h) => Lacks(s, h, Len(s))
<1>1. CASE c.status # "RECV_REQ_BODY"
  <2>1. EndOf(s, p + 1) = {} /\ Len(s) - p <= MaxLine
    BY <1>1 DEF Waiting
  <2>2. LinesTaken(s, p)
    <3>1. CASE InHead(s, p, c)
      BY <3>1 DEF InHead
    <3>2. CASE Begun(s, p, c)
      <4>1. p + 1 = 1 /\ \A a \in Starts(s) : a \in Nat \ {0} /\ ~(a <= p)
        BY <3>2 DEF Begun, Starts, Exchange!Starts
      <4>2. 1 \in Starts(s)
        BY DEF Starts, Exchange!Starts
      <4> QED BY <4>1, <4>2 DEF LinesTaken
    <3> QED BY <1>1, <3>1, <3>2 DEF Waiting, Reading, InBody
  <2> QED BY <2>1, <2>2, NothingYet
<1>2. CASE c.status = "RECV_REQ_BODY"
  <2>1. InBody(s, p, c)
    BY <1>2 DEF Waiting, Reading, Begun, InHead, FreshContext
  <2>2. PICK h \in 1 .. p : IsHead(s, h)
    BY <2>1 DEF InBody, Headed
  <2> QED BY <1>2, <2>2, HeadNotRefused DEF Waiting
<1> QED BY <1>1, <1>2

-----------------------------------------------------------------------------
(* The steps of RecvHttpRequest, on a text s of which p is taken. *)

\* What a step leaves: it goes on with the text, or OnMessage decides.
Left(s, p, b, c, a) ==
  /\ InBuffer(s, p, b) /\ IsContext(c)
  /\ \/ a = "receive" /\ Reading(s, p, c)
     \/ a = "received" /\ (Waiting(s, p, c) \/ Over(s, p, c) \/ Failing(s, c))

\* An error is one of the text.
LEMMA FailedIs ==
  ASSUME IsContext(ctx), NEW s, NEW code \in {400, 414}, code \in RefusedAt(s)
  PROVE IsContext(Failed(code)) /\ Failing(s, Failed(code))
<1> DEFINE c == Failed(code)
<1>1. IsContext(c) /\ c.status = "RECV_REQ_ERROR" /\ c.code = code
  BY DEF Failed, IsContext
<1> HIDE DEF c
<1>2. IsContext(c) /\ Failing(s, c)
  BY <1>1 DEF Failing
<1> QED BY <1>2 DEF c

\* Where a line is read, all lines before have been taken.
LEMMA LinesBefore ==
  ASSUME NEW T, NEW s \in Seq(T), NEW p \in 0 .. Len(s), NEW c, Reading(s, p, c),
         c.status \in {"RECV_REQ_LINE", "RECV_REQ_HEAD"}
  PROVE /\ LinesTaken(s, p)
        /\ c.status = "RECV_REQ_LINE" => p = 0 /\ c = FreshContext
        /\ c.status = "RECV_REQ_HEAD" => p # 0 /\ InHead(s, p, c)
<1>1. CASE InHead(s, p, c)
  BY <1>1 DEF InHead
<1>2. CASE Begun(s, p, c)
  <2>1. p + 1 = 1 /\ \A a \in Starts(s) : a \in Nat \ {0} /\ ~(a <= p)
    BY <1>2 DEF Begun, Starts, Exchange!Starts
  <2>2. 1 \in Starts(s)
    BY DEF Starts, Exchange!Starts
  <2> QED BY <1>2, <2>1, <2>2 DEF LinesTaken, Begun, FreshContext
<1> QED BY <1>1, <1>2 DEF Reading, InBody

\* A line that is not whole: wait, or refuse it.
LEMMA IncompleteStep ==
  ASSUME NEW T, NEW s \in Seq(T), NEW p, InBuffer(s, p, inb), IsContext(ctx),
         Reading(s, p, ctx), ctx.status \in {"RECV_REQ_LINE", "RECV_REQ_HEAD"},
         LineIncomplete
  PROVE Left(s, p, inb', ctx', at')
<1>1. /\ p \in 0 .. Len(s) /\ p \in Nat /\ Len(s) \in Nat /\ Len(inb) = Len(s) - p
      /\ EndOf(s, p + 1) = {} /\ inb' = inb /\ at' = "received" /\ MaxLine \in Nat
  <2>1. ~HasLine /\ inb' = inb /\ at' = "received"
    BY DEF LineIncomplete
  <2>2. EndOf(s, p + 1) = {}
    BY <2>1, BufferLine
  <2>3. Len(inb) = Len(s) - p /\ p \in Nat
    BY BufferMoves
  <2>4. p \in 0 .. Len(s) /\ Len(s) \in Nat /\ MaxLine \in Nat
    BY LenProperties, HttpAssumption DEF InBuffer
  <2> QED BY <2>1, <2>2, <2>3, <2>4
<1>2. LinesTaken(s, p)
  BY <1>1, LinesBefore
<1>3. CASE Len(inb) > MaxLine
  <2>1. ctx' = Failed(414)
    BY <1>3 DEF LineIncomplete
  <2>2. 414 \in RefusedAt(s)
    BY <1>1, <1>2, <1>3, LineRefused
  <2>3. IsContext(Failed(414)) /\ Failing(s, Failed(414))
    BY <2>2, FailedIs
  <2> QED BY <1>1, <2>1, <2>3 DEF Left
<1>4. CASE ~(Len(inb) > MaxLine)
  <2>1. ctx' = ctx
    BY <1>4 DEF LineIncomplete
  <2>2. Len(s) - p <= MaxLine
    BY <1>1, <1>4
  <2>3. Waiting(s, p, ctx)
    BY <1>1, <2>2 DEF Waiting
  <2> QED BY <1>1, <2>1, <2>3 DEF Left
<1> QED BY <1>3, <1>4

\* The request line.
LEMMA LineStep ==
  ASSUME NEW T, NEW s \in Seq(T), NEW p, InBuffer(s, p, inb), IsContext(ctx),
         Reading(s, p, ctx), RecvReqLine
  PROVE \E q : Left(s, q, inb', ctx', at')
<1>1. ctx.status = "RECV_REQ_LINE" /\ p \in 0 .. Len(s) /\ Len(s) \in Nat /\ MaxLine \in Nat
  BY LenProperties, HttpAssumption DEF RecvReqLine, InBuffer
<1>2. LinesTaken(s, p) /\ p = 0 /\ ctx = FreshContext
  BY <1>1, LinesBefore
<1>3. CASE LineIncomplete
  BY <1>1, <1>3, IncompleteStep
<1>4. CASE ~LineIncomplete
  <2>1. /\ HasLine /\ inb' = PopLine
        /\ IF Len(GetLine) > MaxLine THEN ctx' = Failed(414) /\ at' = "received"
           ELSE IF ParseReqLine(GetLine)
           THEN /\ ctx' = [ctx EXCEPT !.line = <<GetLine[1]>>, !.status = "RECV_REQ_HEAD"]
                /\ at' = "receive"
           ELSE ctx' = Failed(400) /\ at' = "received"
    BY <1>4 DEF RecvReqLine
  <2> DEFINE b == p + LineLength
  <2>2. /\ LineLength \in Nat \ {0} /\ b \in EndOf(s, p + 1)
        /\ Len(GetLine) = LineLength /\ GetLine[1] = s[p + 1]
        /\ InBuffer(s, b, PopLine)
    BY <2>1, BufferLine
  <2>3. b = LineLength /\ p + 1 = 1 /\ b - p = LineLength
    BY <1>2, <2>2
  <2> HIDE DEF b
  <2>4. /\ b \in EndOf(s, 1) /\ b \in Nat \ {0} /\ s[b] = NL
    BY <2>2, <2>3, OneEnd
  <2>5. Taken(s, 1) <=> b <= MaxLine /\ s[1][1] = "request"
    <3>1. Taken(s, 1) <=> b - 1 + 1 <= MaxLine /\ s[1][1] = "request"
      BY <2>4, TakenLine
    <3> QED BY <2>4, <3>1
  <2>6. CASE Len(GetLine) > MaxLine
    <3>1. 414 \in RefusedAt(s)
      BY <1>1, <1>2, <2>2, <2>3, <2>6, LineRefused
    <3>2. IsContext(Failed(414)) /\ Failing(s, Failed(414))
      BY <3>1, FailedIs
    <3> QED BY <2>1, <2>2, <2>6, <3>2 DEF Left
  <2>7. CASE ~(Len(GetLine) > MaxLine) /\ ~ParseReqLine(GetLine)
    <3>1. ~Taken(s, 1)
      BY <2>2, <2>3, <2>5, <2>7 DEF ParseReqLine
    <3>2. 400 \in RefusedAt(s)
      BY <1>1, <1>2, <2>2, <2>3, <2>7, <3>1, LineRefused
    <3>3. IsContext(Failed(400)) /\ Failing(s, Failed(400))
      BY <3>2, FailedIs
    <3> QED BY <2>1, <2>2, <2>7, <3>3 DEF Left
  <2>8. CASE ~(Len(GetLine) > MaxLine) /\ ParseReqLine(GetLine)
    <3>1. Taken(s, 1) /\ s[1][1] = "request"
      BY <1>1, <2>2, <2>3, <2>5, <2>8 DEF ParseReqLine
    <3>2. b = 2 /\ LinesTaken(s, b)
      <4>1. b = 1 + 1
        BY <2>4, <3>1, TakenLine
      <4>2. LinesTaken(s, b)
        BY <1>2, <2>2, <2>3, <3>1, Advance
      <4> QED BY <4>1, <4>2
    <3> DEFINE c == [ctx EXCEPT !.line = <<GetLine[1]>>, !.status = "RECV_REQ_HEAD"]
    <3>3. ctx' = c /\ at' = "receive"
      BY <2>1, <2>8
    <3>4. /\ IsContext(c) /\ c.status = "RECV_REQ_HEAD" /\ c.code = 200 /\ c.line = <<s[1]>>
          /\ c.headers = ctx.headers /\ c.body = <<>>
      <4>1. ctx.code = 200 /\ ctx.body = <<>> /\ GetLine[1] = s[1]
        BY <1>2, <2>2, <2>3 DEF FreshContext
      <4> QED BY <4>1 DEF IsContext
    <3> HIDE DEF c
    <3>5. HeadersAre(s, 2, ctx.headers)
      <4>1. DOMAIN ctx.headers = {}
        BY <1>2 DEF FreshContext
      <4>2. HeadersAre(s, 0, ctx.headers)
        BY <4>1, NoHeaders
      <4>3. s[0 + 1][1] # "header" /\ 0 + 1 = 1 /\ s[1 + 1][1] # "header" /\ 1 + 1 = 2
        BY <2>4, <3>1, <3>2 DEF NL
      <4>4. HeadersAre(s, 0 + 1, ctx.headers)
        BY <4>2, <4>3, HeadersKept
      <4>5. HeadersAre(s, 1 + 1, ctx.headers)
        BY <4>3, <4>4, HeadersKept
      <4> QED BY <4>3, <4>5
    <3>6. InHead(s, b, c) /\ IsContext(c)
      BY <3>2, <3>4, <3>5 DEF InHead
    <3> QED BY <2>1, <2>2, <3>3, <3>6 DEF Left, Reading
  <2> QED BY <2>6, <2>7, <2>8
<1> QED BY <1>3, <1>4

\* A header, or the blank line.
LEMMA HeadStep ==
  ASSUME NEW T, NEW s \in Seq(T), NEW p, InBuffer(s, p, inb), IsContext(ctx),
         Reading(s, p, ctx), RecvReqHead
  PROVE \E q : Left(s, q, inb', ctx', at')
<1>1. /\ ctx.status = "RECV_REQ_HEAD" /\ p \in 0 .. Len(s) /\ Len(s) \in Nat /\ MaxLine \in Nat
      /\ at = "receive"
  BY LenProperties, HttpAssumption DEF RecvReqHead, InBuffer
<1>2. /\ LinesTaken(s, p) /\ p # 0 /\ ctx.code = 200 /\ ctx.line = <<s[1]>> /\ ctx.body = <<>>
      /\ HeadersAre(s, p, ctx.headers)
  BY <1>1, LinesBefore DEF InHead
<1>3. CASE LineIncomplete
  BY <1>1, <1>3, IncompleteStep
<1>4. CASE ~LineIncomplete
  <2>1. /\ HasLine /\ inb' = PopLine
        /\ IF Len(GetLine) > MaxLine THEN ctx' = Failed(414) /\ at' = "received"
           ELSE IF GetLine = <<NL>> THEN ctx' = [ctx EXCEPT !.status = "RECV_REQ_BODY"] /\ at' = at
           ELSE IF ParseHttpHead(GetLine)
           THEN /\ ctx' = [ctx EXCEPT !.headers =
                             [n \in DOMAIN ctx.headers \cup {GetLine[1][2]} |->
                                IF n = GetLine[1][2] THEN GetLine[1][3] ELSE ctx.headers[n]]]
                /\ at' = at
           ELSE ctx' = Failed(400) /\ at' = "received"
    BY <1>4 DEF RecvReqHead
  <2> DEFINE b == p + LineLength
             a == p + 1
  <2>2. /\ LineLength \in Nat \ {0} /\ b \in EndOf(s, a)
        /\ Len(GetLine) = LineLength /\ GetLine[1] = s[a]
        /\ GetLine = <<NL>> <=> LineLength = 1
        /\ InBuffer(s, b, PopLine)
    BY <2>1, BufferLine
  <2>3. b - p = LineLength /\ a \in Nat \ {0, 1} /\ a - 1 = p /\ (LineLength = 1 <=> b = a)
        /\ b - a + 1 = LineLength
    BY <1>1, <1>2, <2>2
  <2>4. a = p + 1
    OBVIOUS
  <2> HIDE DEF b, a
  <2>5. /\ EndOf(s, a) = {b} /\ b \in Nat \ {0} /\ s[b] = NL
    BY <2>2, <2>3, OneEnd
  <2>6. /\ Taken(s, a) <=> b - a + 1 <= MaxLine /\ s[a][1] = "header"
        /\ Taken(s, a) => b = a + 1
    <3>1. a \in Nat \ {0} /\ a # 1 /\ b \in EndOf(s, a)
      BY <2>2, <2>3
    <3> QED BY <3>1, TakenLine
  <2>7. CASE Len(GetLine) > MaxLine
    <3>1. 414 \in RefusedAt(s)
      BY <1>1, <1>2, <2>2, <2>3, <2>4, <2>7, LineRefused
    <3>2. IsContext(Failed(414)) /\ Failing(s, Failed(414))
      BY <3>1, FailedIs
    <3> QED BY <2>1, <2>2, <2>7, <3>2 DEF Left
  <2>8. CASE ~(Len(GetLine) > MaxLine) /\ GetLine # <<NL>> /\ ~ParseHttpHead(GetLine)
    <3>1. ~Taken(s, a) /\ b # a
      BY <2>2, <2>3, <2>6, <2>8 DEF ParseHttpHead
    <3>2. 400 \in RefusedAt(s)
      BY <1>1, <1>2, <2>2, <2>3, <2>4, <2>8, <3>1, LineRefused
    <3>3. IsContext(Failed(400)) /\ Failing(s, Failed(400))
      BY <3>2, FailedIs
    <3> QED BY <2>1, <2>2, <2>8, <3>3 DEF Left
  <2>9. CASE ~(Len(GetLine) > MaxLine) /\ GetLine = <<NL>>
    <3> DEFINE c == [ctx EXCEPT !.status = "RECV_REQ_BODY"]
    <3>1. ctx' = c /\ at' = "receive"
      BY <1>1, <2>1, <2>9
    <3>2. /\ IsContext(c) /\ c.status = "RECV_REQ_BODY" /\ c.code = 200 /\ c.line = <<s[1]>>
          /\ c.headers = ctx.headers /\ c.body = <<>>
      BY <1>2 DEF IsContext
    <3> HIDE DEF c
    <3>3. b = a
      BY <2>2, <2>3, <2>9
    <3>4. IsHead(s, a)
      BY SMTT(30), <1>2, <2>3, <2>5, <3>3, HeadEnds
    <3>5. HeadersAre(s, a, ctx.headers)
      <4>1. p \in Nat /\ s[p + 1][1] # "header"
        BY <1>1, <2>4, <2>5, <3>3 DEF NL
      <4>2. HeadersAre(s, p + 1, ctx.headers)
        BY <1>2, <4>1, HeadersKept
      <4> QED BY <2>4, <4>2
    <3>6. SubSeq(s, a + 1, a) = <<>>
      BY <2>3, SubSeqEmpty
    <3>7. Headed(s, a, a, c) /\ a \in 1 .. a
      BY <2>3, <3>2, <3>4, <3>5, <3>6 DEF Headed
    <3>8. InBody(s, a, c)
      BY <3>2, <3>7 DEF InBody
    <3> QED BY <2>1, <2>2, <3>1, <3>2, <3>3, <3>8 DEF Left, Reading
  <2>10. CASE ~(Len(GetLine) > MaxLine) /\ GetLine # <<NL>> /\ ParseHttpHead(GetLine)
    <3> DEFINE hd == [n \in DOMAIN ctx.headers \cup {s[a][2]} |->
                        IF n = s[a][2] THEN s[a][3] ELSE ctx.headers[n]]
               c == [ctx EXCEPT !.headers = hd]
    <3>1. ctx' = c /\ at' = "receive"
      BY <1>1, <2>1, <2>2, <2>10
    <3>2. Taken(s, a) /\ s[a][1] = "header"
      BY <1>1, <2>2, <2>3, <2>6, <2>10 DEF ParseHttpHead
    <3>3. b = a + 1 /\ LinesTaken(s, b)
      <4>1. b = a + 1
        BY <2>6, <3>2
      <4>2. p \in Nat
        BY <1>1
      <4>3. LinesTaken(s, b)
        BY <1>2, <2>2, <2>4, <3>2, <4>2, Advance
      <4> QED BY <4>1, <4>3
    <3>4. HeadersAre(s, a, hd)
      <4>1. p \in Nat /\ s[p + 1][1] = "header"
        BY <1>1, <2>4, <3>2
      <4>2. /\ DOMAIN hd = DOMAIN ctx.headers \cup {s[p + 1][2]}
            /\ \A n \in DOMAIN hd : hd[n] = IF n = s[p + 1][2] THEN s[p + 1][3] ELSE ctx.headers[n]
        BY <2>4
      <4> HIDE DEF hd
      <4>3. HeadersAre(s, p + 1, hd)
        <5>1. HeadersAre(s, p, ctx.headers)
          BY <1>2
        <5> QED BY <4>1, <4>2, <5>1, HeaderAdded, Zenon
      <4> QED BY <2>4, <4>3
    <3> HIDE DEF hd
    <3>5. /\ IsContext(c) /\ c.status = "RECV_REQ_HEAD" /\ c.code = 200 /\ c.line = <<s[1]>>
          /\ c.headers = hd /\ c.body = <<>>
      BY <1>1, <1>2 DEF IsContext
    <3> HIDE DEF c
    <3>6. HeadersAre(s, b, hd)
      <4>1. a \in Nat /\ s[a + 1][1] # "header"
        BY <2>3, <2>5, <3>3 DEF NL
      <4> QED BY <3>3, <3>4, <4>1, HeadersKept
    <3>7. InHead(s, b, c)
      BY <2>5, <3>3, <3>5, <3>6 DEF InHead
    <3> QED BY <2>1, <2>2, <3>1, <3>5, <3>7 DEF Left, Reading
  <2> QED BY <2>7, <2>8, <2>9, <2>10
<1> QED BY <1>3, <1>4

\* The length of the body that a context has got.
LEMMA BodySoFar ==
  ASSUME NEW T, NEW s \in Seq(T), NEW p \in 0 .. Len(s), NEW h \in 1 .. p
  PROVE LET body == SubSeq(s, h + 1, p) IN body \in Seq(T) /\ Len(body) = p - h
<1>1. Len(s) \in Nat /\ h + 1 \in 1 .. Len(s) + 1 /\ p \in (h + 1) - 1 .. Len(s)
  BY LenProperties
<1>2. SubSeq(s, h + 1, p) \in Seq(T) /\ Len(SubSeq(s, h + 1, p)) = p - (h + 1) + 1
  BY <1>1, Piece
<1>3. p - (h + 1) + 1 = p - h
  BY <1>1
<1> QED BY <1>2, <1>3

\* The body, or a part of it, or a length that is none.
LEMMA BodyStep ==
  ASSUME NEW T, NEW s \in Seq(T), NEW p, InBuffer(s, p, inb), IsContext(ctx),
         Reading(s, p, ctx), RecvHttpBody
  PROVE \/ aborted' = TRUE /\ \E h \in DOMAIN s : IsHead(s, h) /\ Exchange!NumberFails(s, h)
        \/ aborted' = aborted /\ \E q : Left(s, q, inb', ctx', at')
<1>1. /\ ctx.status = "RECV_REQ_BODY" /\ p \in 0 .. Len(s) /\ Len(s) \in Nat /\ p \in Nat
      /\ Len(inb) = Len(s) - p
  <2>1. Len(inb) = Len(s) - p /\ p \in Nat
    BY BufferMoves
  <2> QED BY <2>1, LenProperties DEF RecvHttpBody, InBuffer
<1>2. InBody(s, p, ctx)
  BY <1>1 DEF Reading, Begun, InHead, FreshContext
<1>3. PICK h \in 1 .. p : Headed(s, h, p, ctx) /\ (p = h \/ Lacks(s, h, p))
  BY <1>2 DEF InBody
<1>4. /\ ctx.code = 200 /\ ctx.line = <<s[1]>> /\ IsHead(s, h) /\ HeadersAre(s, h, ctx.headers)
      /\ ctx.body = SubSeq(s, h + 1, p) /\ h \in Nat \ {0} /\ h <= p /\ h \in DOMAIN s
  BY <1>1, <1>3 DEF Headed
<1>5. Len(ctx.body) = p - h
  BY <1>1, <1>4, BodySoFar
<1>6. CASE ContentLengthThrows
  <2>1. aborted' = TRUE
    BY <1>6 DEF RecvHttpBody
  <2>2. Exchange!NumberFails(s, h)
    BY <1>4, <1>6, HeadersSay
  <2> QED BY <1>4, <2>1, <2>2
<1>7. CASE ~ContentLengthThrows
  <2> DEFINE l == ContentLength
  <2>1. /\ at' = "received" /\ aborted' = aborted
        /\ IF l = 0 \/ Needed <= 0
           THEN ctx' = [ctx EXCEPT !.status = "RECV_REQ_OVER"] /\ UNCHANGED inb
           ELSE /\ ctx' = [ctx EXCEPT !.body = ctx.body \o SubSeq(inb, 1, BodyNow),
                                      !.status = IF Needed <= Len(inb) THEN "RECV_REQ_OVER" ELSE ctx.status]
                /\ inb' = SubSeq(inb, BodyNow + 1, Len(inb))
    BY <1>7 DEF RecvHttpBody
  <2>2. /\ l \in Int /\ ~Exchange!NumberFails(s, h)
        /\ Exchange!BodyLength(s, h) = IF l > 0 THEN l ELSE 0
    BY <1>4, <1>7, HeadersSay
  <2>3. Needed = l - (p - h)
    BY <1>5 DEF Needed
  <2> HIDE DEF l
  <2>4. CASE l = 0 \/ Needed <= 0
    <3> DEFINE c == [ctx EXCEPT !.status = "RECV_REQ_OVER"]
    <3>1. ctx' = c /\ inb' = inb
      BY <2>1, <2>4
    <3>2. /\ IsContext(c) /\ c.status = "RECV_REQ_OVER" /\ c.code = ctx.code /\ c.line = ctx.line
          /\ c.headers = ctx.headers /\ c.body = ctx.body
      BY DEF IsContext
    <3> HIDE DEF c
    <3>3. p = h \/ p < h + Exchange!BodyLength(s, h)
      BY <1>3 DEF Lacks
    <3>4. p = h + Exchange!BodyLength(s, h)
      <4>1. CASE l > 0
        BY SMTT(30), <1>1, <1>4, <2>2, <2>3, <2>4, <3>3, <4>1
      <4>2. CASE ~(l > 0)
        BY <1>1, <1>4, <2>2, <3>3, <4>2
      <4> QED BY <4>1, <4>2
    <3>5. Headed(s, h, p, c)
      BY <1>3, <3>2 DEF Headed
    <3>6. Over(s, p, c)
      BY <2>2, <3>2, <3>4, <3>5 DEF Over
    <3> QED BY <2>1, <3>1, <3>2, <3>6 DEF Left
  <2>5. CASE ~(l = 0 \/ Needed <= 0)
    <3> DEFINE n == BodyNow
               st == IF Needed <= Len(inb) THEN "RECV_REQ_OVER" ELSE ctx.status
               more == SubSeq(inb, 1, n)
               c == [ctx EXCEPT !.body = ctx.body \o more, !.status = st]
               q == p + n
    <3>1. ctx' = c /\ inb' = SubSeq(inb, n + 1, Len(inb))
      BY <2>1, <2>5
    <3>2. n = IF Needed <= Len(inb) THEN Needed ELSE Len(inb)
      <4>1. Needed \in Int /\ Len(inb) \in Int
        BY <1>1, <1>4, <2>2, <2>3
      <4> QED BY <4>1 DEF BodyNow, Min
    <3> HIDE DEF n
    <3>3. n \in 0 .. Len(inb) /\ l > 0
      BY <1>1, <1>4, <2>2, <2>3, <2>5, <3>2
    <3>4. InBuffer(s, q, SubSeq(inb, n + 1, Len(inb))) /\ more = SubSeq(s, p + 1, q)
      <4>1. n \in 0 .. Len(inb)
        BY <3>3
      <4>2. InBuffer(s, p + n, SubSeq(inb, n + 1, Len(inb)))
        BY <4>1, BufferMoves
      <4>3. Cut(inb, 1, n) = Cut(s, p + 1, p + n)
        BY <4>1, BufferMoves
      <4> QED BY <4>2, <4>3 DEF Cut
    <3>5. q \in 0 .. Len(s) /\ h \in 1 .. q /\ p <= q
      BY <1>1, <1>4, <3>3
    <3>6. ctx.body \o more = SubSeq(s, h + 1, q)
      <4>1. h + 1 \in 1 .. Len(s) + 1 /\ p \in (h + 1) - 1 .. Len(s) /\ q \in p .. Len(s)
        BY <1>1, <1>4, <3>5
      <4>2. SubSeq(s, h + 1, p) \o SubSeq(s, p + 1, q) = SubSeq(s, h + 1, q)
        BY <4>1, ConcatAdjacentSubSeq
      <4> QED BY <1>4, <3>4, <4>2
    <3> HIDE DEF more
    <3>7. /\ IsContext(c) /\ c.status = st /\ c.code = ctx.code /\ c.line = ctx.line
          /\ c.headers = ctx.headers /\ c.body = ctx.body \o more
      BY DEF IsContext
    <3> HIDE DEF c
    <3>8. Headed(s, h, q, c)
      BY <1>4, <3>5, <3>6, <3>7 DEF Headed
    <3>9. Exchange!BodyLength(s, h) = l
      BY <2>2, <3>3
    <3>10. CASE Needed <= Len(inb)
      <4>1. q = h + Exchange!BodyLength(s, h)
        BY <1>1, <1>4, <2>2, <2>3, <3>2, <3>9, <3>10
      <4>2. Over(s, q, c)
        BY <2>2, <3>5, <3>7, <3>8, <3>10, <4>1 DEF Over
      <4> QED BY <2>1, <3>1, <3>4, <3>7, <4>2 DEF Left
    <3>11. CASE ~(Needed <= Len(inb))
      <4>1. q = Len(s) /\ Len(s) < h + Exchange!BodyLength(s, h)
        <5>1. n = Len(inb) /\ q = Len(s)
          BY <1>1, <3>2, <3>11
        <5>2. ~(l - (p - h) <= Len(s) - p)
          BY <1>1, <2>3, <3>11
        <5>3. Len(s) < h + l
          BY <1>1, <1>4, <2>2, <5>2
        <5> QED BY <3>9, <5>1, <5>3
      <4>2. Lacks(s, h, Len(s))
        BY <2>2, <4>1 DEF Lacks
      <4>3. InBody(s, q, c)
        BY <1>1, <3>5, <3>7, <3>8, <3>11, <4>1, <4>2 DEF InBody
      <4>4. \A x : IsHead(s, x) => Lacks(s, x, Len(s))
        BY <1>4, <4>2, OneHead
      <4>5. Waiting(s, q, c)
        BY <1>1, <3>7, <3>11, <4>3, <4>4 DEF Waiting, Reading
      <4> QED BY <2>1, <3>1, <3>4, <3>7, <4>5 DEF Left
    <3> QED BY <3>10, <3>11
  <2> QED BY <2>4, <2>5
<1> QED BY <1>6, <1>7

-----------------------------------------------------------------------------
(* The invariant. *)

Refuses(ans) == ans # <<>> /\ Last(ans).refused
UpTo(ans) == IF ans = <<>> THEN 0 ELSE Last(ans).upTo

\* Without a refusal the context says how far the text is read.
Serving(s, p, c, a) ==
  \/ a = "receive" /\ Reading(s, p, c)
  \/ a = "received" /\ (Waiting(s, p, c) \/ Over(s, p, c) \/ Failing(s, c))
  \/ a \in {"idle", "return"} /\ Waiting(s, p, c)

\* Behind a refusal what arrives is refused with the same code.
Silent(s, p, c, a, ans) ==
  /\ c.status = "RECV_REQ_ERROR" /\ c.code \in {400, 414} /\ c.code = Last(ans).answer.code
  /\ p = 0
  /\ \/ a \in {"receive", "received"} /\ s # <<>>
     \/ a \in {"idle", "return"} /\ s = <<>>

Unanswered(s, p, b, c, a, ans) ==
  /\ InBuffer(s, p, b) /\ IsContext(c)
  /\ Refuses(ans) => Silent(s, p, c, a, ans)
  /\ ~Refuses(ans) => Serving(s, p, c, a)

TextInv ==
  /\ stream \in Seq(Texts) /\ received \in 0 .. Len(stream)
  /\ \E S : answers \in Seq(S)
  /\ UpTo(answers) \in 0 .. received

HttpInv ==
  /\ TextInv
  /\ ~aborted => \E p : Unanswered(Cut(stream, UpTo(answers) + 1, received), p, inb, ctx, at, answers)
  /\ status = "DISCONNECTED" => unsent = 0

\* What the exchange says in these terms.
LEMMA ExchangeSays ==
  /\ Exchange!Done = UpTo(answers)
  /\ Exchange!Rest = Cut(stream, UpTo(answers) + 1, received)
  /\ Exchange!Refused <=> Refuses(answers)
  /\ Exchange!Refusals = RefusedAt(Exchange!Rest)
  /\ Exchange!vars = <<stream, received, answers, status # "CONNECTED", aborted>>
<1>1. \A x : Exchange!Last(x) = Last(x)
  BY DEF Exchange!Last, Last
<1>2. Exchange!Done = UpTo(answers) /\ (Exchange!Refused <=> Refuses(answers))
  BY <1>1 DEF Exchange!Done, Exchange!Refused, UpTo, Refuses
<1>3. Exchange!Rest = Cut(stream, UpTo(answers) + 1, received)
  BY <1>2 DEF Exchange!Rest, Cut
<1>4. Exchange!Refusals = RefusedAt(Exchange!Rest)
  BY DEF Exchange!Refusals, RefusedAt, Starts, Taken
<1> QED BY <1>2, <1>3, <1>4 DEF Exchange!vars

\* The text that is not answered yet.
LEMMA RestIs ==
  ASSUME TextInv
  PROVE LET s == Cut(stream, UpTo(answers) + 1, received)
        IN s \in Seq(Texts) /\ Len(s) = received - UpTo(answers)
<1>1. /\ UpTo(answers) + 1 \in 1 .. Len(stream) + 1 /\ received \in (UpTo(answers) + 1) - 1 .. Len(stream)
      /\ received - (UpTo(answers) + 1) + 1 = received - UpTo(answers) /\ stream \in Seq(Texts)
  BY LenProperties DEF TextInv
<1>2. /\ SubSeq(stream, UpTo(answers) + 1, received) \in Seq(Texts)
      /\ Len(SubSeq(stream, UpTo(answers) + 1, received)) = received - (UpTo(answers) + 1) + 1
  BY <1>1, Piece
<1> QED BY <1>1, <1>2 DEF Cut

\* A step that neither receives nor answers leaves the text.
LEMMA TextStays ==
  ASSUME TextInv, UNCHANGED <<stream, received, answers>>
  PROVE TextInv' /\ Cut(stream, UpTo(answers) + 1, received)' = Cut(stream, UpTo(answers) + 1, received)
BY DEF TextInv, UpTo, Cut

\* RecvHttpRequest shows nothing, unless it ends the process.
LEMMA ReceiveSteps ==
  ASSUME HttpInv, ~aborted, RecvHttpRequest
  PROVE HttpInv' /\ [Exchange!Next]_Exchange!vars
<1>1. PICK s, p : /\ s = Cut(stream, UpTo(answers) + 1, received)
                  /\ Unanswered(s, p, inb, ctx, at, answers)
  BY DEF HttpInv
<1>2. /\ s \in Seq(Texts) /\ InBuffer(s, p, inb) /\ IsContext(ctx) /\ at = "receive"
  BY <1>1, RestIs DEF HttpInv, Unanswered, RecvHttpRequest, RecvReqLine, RecvReqHead, RecvHttpBody, RecvNothing
<1>3. UNCHANGED <<stream, received, answers, unsent, status>>
  BY DEF RecvHttpRequest, RecvReqLine, RecvReqHead, RecvHttpBody, RecvNothing
<1>4. /\ TextInv' /\ Cut(stream, UpTo(answers) + 1, received)' = s
      /\ (status = "DISCONNECTED" => unsent = 0)'
  <2>1. TextInv' /\ Cut(stream, UpTo(answers) + 1, received)' = Cut(stream, UpTo(answers) + 1, received)
    BY <1>3, TextStays DEF HttpInv
  <2> QED BY <1>1, <1>3, <2>1 DEF HttpInv
<1>5. CASE aborted' = aborted /\ \E q : Unanswered(s, q, inb', ctx', at', answers')
  <2>1. HttpInv'
    BY <1>4, <1>5 DEF HttpInv
  <2>2. Exchange!vars' = Exchange!vars
    BY <1>3, <1>5 DEF Exchange!vars
  <2> QED BY <2>1, <2>2
<1>6. CASE Refuses(answers)
  <2>1. Silent(s, p, ctx, at, answers)
    BY <1>1, <1>6 DEF Unanswered
  <2>2. RecvNothing
    BY <2>1 DEF Silent, RecvHttpRequest, RecvReqLine, RecvReqHead, RecvHttpBody
  <2>3. inb' = inb /\ ctx' = ctx /\ at' = "received" /\ aborted' = aborted /\ answers' = answers
    BY <2>2 DEF RecvNothing
  <2>4. Silent(s, p, ctx, "received", answers)
    BY <1>2, <2>1 DEF Silent
  <2>5. Unanswered(s, p, inb', ctx', at', answers')
    BY <1>2, <1>6, <2>3, <2>4 DEF Unanswered
  <2> QED BY <1>5, <2>3, <2>5
<1>7. CASE ~Refuses(answers)
  <2>1. Reading(s, p, ctx)
    BY <1>1, <1>2, <1>7 DEF Unanswered, Serving
  <2>2. ASSUME NEW q, Left(s, q, inb', ctx', at'), aborted' = aborted
        PROVE HttpInv' /\ [Exchange!Next]_Exchange!vars
    <3>1. Unanswered(s, q, inb', ctx', at', answers')
      BY <1>3, <1>7, <2>2 DEF Left, Unanswered, Serving
    <3> QED BY <1>5, <2>2, <3>1
  <2>3. CASE RecvReqLine
    <3>1. \E q : Left(s, q, inb', ctx', at')
      BY <1>2, <2>1, <2>3, LineStep
    <3> QED BY <2>2, <2>3, <3>1 DEF RecvReqLine
  <2>4. CASE RecvReqHead
    <3>1. \E q : Left(s, q, inb', ctx', at')
      BY <1>2, <2>1, <2>4, HeadStep
    <3> QED BY <2>2, <2>4, <3>1 DEF RecvReqHead
  <2>5. CASE RecvHttpBody
    <3>1. \/ aborted' = TRUE /\ \E h \in DOMAIN s : IsHead(s, h) /\ Exchange!NumberFails(s, h)
          \/ aborted' = aborted /\ \E q : Left(s, q, inb', ctx', at')
      BY <1>2, <2>1, <2>5, BodyStep
    <3>2. CASE aborted' = TRUE /\ \E h \in DOMAIN s : IsHead(s, h) /\ Exchange!NumberFails(s, h)
      <4>1. Exchange!Rest = s /\ ~Exchange!Refused
        BY <1>1, <1>7, ExchangeSays
      <4>2. \E h \in Exchange!Heads : Exchange!NumberFails(Exchange!Rest, h)
        BY <3>2, <4>1 DEF Exchange!Heads, IsHead
      <4>3. Exchange!Abort
        BY <1>3, <3>2, <4>1, <4>2 DEF Exchange!Abort
      <4>4. HttpInv'
        BY <1>4, <3>2 DEF HttpInv
      <4> QED BY <4>3, <4>4 DEF Exchange!Next
    <3> QED BY <2>2, <3>1, <3>2
  <2>6. CASE RecvNothing
    BY <2>1, <2>6 DEF RecvNothing, Reading, Begun, InHead, InBody, FreshContext
  <2> QED BY <2>3, <2>4, <2>5, <2>6 DEF RecvHttpRequest
<1> QED BY <1>6, <1>7

-----------------------------------------------------------------------------
(* The steps of OnMessage that answer. *)

\* An answer more, for the text up to a place.
LEMMA AnswerAdded ==
  ASSUME TextInv, NEW x, answers' = Append(answers, x), UNCHANGED <<stream, received>>,
         x.upTo \in 0 .. received
  PROVE /\ TextInv' /\ UpTo(answers') = x.upTo
        /\ Last(answers') = x /\ (Refuses(answers') <=> x.refused)
<1>1. PICK S : answers \in Seq(S)
  BY DEF TextInv
<1> DEFINE R == S \cup {x}
<1>2. answers \in Seq(R) /\ x \in R
  BY <1>1, SeqMonotonic
<1> HIDE DEF R
<1>3. /\ answers' \in Seq(R) /\ answers' # <<>> /\ Len(answers') = Len(answers) + 1
      /\ answers'[Len(answers) + 1] = x
  BY <1>2, AppendProperties
<1>4. Last(answers') = x
  BY <1>3 DEF Last
<1>5. UpTo(answers') = x.upTo /\ (Refuses(answers') <=> x.refused)
  BY <1>3, <1>4 DEF UpTo, Refuses
<1>6. TextInv'
  BY <1>3, <1>5 DEF TextInv
<1> QED BY <1>4, <1>5, <1>6

\* With an empty buffer, a new context waits.
LEMMA FreshWaits ==
  Waiting(<<>>, 0, FreshContext) /\ InBuffer(<<>>, 0, <<>>)
<1>1. EndOf(<<>>, 0 + 1) = {}
  BY DEF EndOf, Exchange!EndOf
<1>2. Len(<<>>) - 0 <= MaxLine
  BY HttpAssumption
<1>3. FreshContext.status # "RECV_REQ_BODY"
  BY DEF FreshContext
<1>4. SubSeq(<<>>, 0 + 1, Len(<<>>)) = <<>>
  BY SubSeqEmpty
<1> QED BY <1>1, <1>2, <1>3, <1>4 DEF Waiting, Reading, Begun, InBuffer

\* HandleError refuses.
LEMMA ErrorSteps ==
  ASSUME HttpInv, ~aborted, HandleError
  PROVE HttpInv' /\ Exchange!Next
<1>1. PICK s, p : /\ s = Cut(stream, UpTo(answers) + 1, received)
                  /\ Unanswered(s, p, inb, ctx, at, answers)
  BY DEF HttpInv
<1>2. /\ IsContext(ctx) /\ at = "received" /\ ctx.code >= 400 /\ ctx' = ctx
      /\ inb' = <<>> /\ status' = "DISCONNECTING" /\ at' = "return"
      /\ answers' = Append(answers, Refusal) /\ UNCHANGED <<stream, received, aborted>>
  BY <1>1 DEF Unanswered, HandleError, MakeResponse, ShutDown
<1>3. /\ ctx.status = "RECV_REQ_ERROR" /\ ctx.code \in {400, 414}
      /\ Refuses(answers) => ctx.code = Last(answers).answer.code /\ s # <<>>
      /\ ~Refuses(answers) => ctx.code \in RefusedAt(s)
  <2>1. CASE Refuses(answers)
    BY <1>1, <1>2, <2>1 DEF Unanswered, Silent
  <2>2. CASE ~Refuses(answers)
    <3>1. Waiting(s, p, ctx) \/ Over(s, p, ctx) => ctx.code = 200
      BY DEF Waiting, Reading, Begun, InHead, InBody, Headed, Over, FreshContext
    <3>2. Failing(s, ctx)
      BY <1>1, <1>2, <2>2, <3>1 DEF Unanswered, Serving
    <3> QED BY <2>2, <3>2 DEF Failing
  <2> QED BY <2>1, <2>2
<1> DEFINE x == Refusal
<1>4. /\ x.refused = TRUE /\ x.upTo = received /\ x.answer.code = ctx.code
      /\ x = [refused |-> TRUE, to |-> <<>>, answer |-> Error(ctx.code), body |-> <<>>, upTo |-> received]
  BY DEF Refusal, Error, Answer
<1> HIDE DEF x
<1>5. /\ TextInv' /\ UpTo(answers') = received /\ Last(answers') = x /\ Refuses(answers')
      /\ received \in Nat
  <2>1. TextInv /\ received \in Nat /\ x.upTo \in 0 .. received
    BY <1>4, LenProperties DEF HttpInv, TextInv
  <2>2. answers' = Append(answers, x) /\ UNCHANGED <<stream, received>>
    BY <1>2 DEF x
  <2>3. /\ TextInv' /\ UpTo(answers') = x.upTo
        /\ Last(answers') = x /\ (Refuses(answers') <=> x.refused)
    BY <2>1, <2>2, AnswerAdded
  <2> QED BY <1>4, <2>1, <2>3
<1>6. Exchange!Refuse
  <2>1. Exchange!Rest = s /\ (Exchange!Refused <=> Refuses(answers)) /\ Exchange!Refusals = RefusedAt(s)
    BY <1>1, ExchangeSays
  <2>2. Exchange!Last(answers) = Last(answers)
    BY DEF Exchange!Last, Last
  <2>3. ctx.code \in IF ~Exchange!Refused THEN Exchange!Refusals
                     ELSE IF Exchange!Rest = <<>> THEN {} ELSE {Exchange!Last(answers).answer.code}
    BY <1>3, <2>1, <2>2
  <2>4. answers' = Append(answers, [refused |-> TRUE, to |-> <<>>, answer |-> Error(ctx.code),
                                    body |-> <<>>, upTo |-> received])
    BY <1>2, <1>4 DEF x
  <2> QED BY <1>2, <2>3, <2>4 DEF Exchange!Refuse
<1>7. HttpInv'
  <2>1. Cut(stream, UpTo(answers) + 1, received)' = <<>>
    BY <1>2, <1>5, SubSeqEmpty DEF Cut
  <2>2. Silent(<<>>, 0, ctx', at', answers')
    BY <1>2, <1>3, <1>4, <1>5 DEF Silent
  <2>3. Unanswered(<<>>, 0, inb', ctx', at', answers')
    BY <1>2, <1>5, <2>2, FreshWaits DEF Unanswered
  <2> QED BY <1>2, <1>5, <2>1, <2>3 DEF HttpInv
<1> QED BY <1>6, <1>7 DEF Exchange!Next

\* HandleRequest answers the request that the text begins with.
LEMMA RequestSteps ==
  ASSUME HttpInv, ~aborted, HandleRequest
  PROVE HttpInv' /\ Exchange!Next
<1>1. PICK s, p : /\ s = Cut(stream, UpTo(answers) + 1, received)
                  /\ Unanswered(s, p, inb, ctx, at, answers)
  BY DEF HttpInv
<1>2. PICK r \in Routed([method |-> ctx.line[1][2], path |-> ctx.line[1][3]]) : MakeResponse(AnswerOf(r))
  BY DEF HandleRequest
<1>3. /\ at = "received" /\ ctx.code < 400 /\ ctx.status = "RECV_REQ_OVER"
      /\ ctx' = FreshContext /\ answers' = Append(answers, AnswerOf(r))
      /\ unsent' = IF status = "DISCONNECTED" THEN unsent ELSE unsent + 1
      /\ IF ~IsKeepAlive THEN ShutDown(inb)
         ELSE at' = NextInBuffer /\ UNCHANGED <<status, calls>>
      /\ UNCHANGED <<stream, received, inb, aborted>>
  BY <1>2 DEF HandleRequest, NextContext, MakeResponse
<1>4. /\ ~Refuses(answers) /\ Over(s, p, ctx) /\ InBuffer(s, p, inb)
  <2>1. ~Refuses(answers)
    BY <1>1, <1>3 DEF Unanswered, Silent
  <2>2. ctx.status \notin {"RECV_REQ_LINE", "RECV_REQ_HEAD", "RECV_REQ_BODY", "RECV_REQ_ERROR"}
    BY <1>3
  <2>3. ~Waiting(s, p, ctx) /\ ~Failing(s, ctx)
    BY <2>2 DEF Waiting, Reading, Begun, InHead, InBody, Failing, FreshContext
  <2> QED BY <1>1, <1>3, <2>1, <2>3 DEF Unanswered, Serving
<1>5. PICK h \in 1 .. p : /\ Headed(s, h, p, ctx) /\ ~Exchange!NumberFails(s, h)
                          /\ p = h + Exchange!BodyLength(s, h)
  BY <1>4 DEF Over
<1>6. /\ s \in Seq(Texts) /\ p \in 0 .. Len(s) /\ p \in Nat /\ Len(s) \in Nat /\ h \in DOMAIN s
      /\ Len(inb) = Len(s) - p /\ inb \in Seq(Texts) /\ Len(s) = received - UpTo(answers)
      /\ UpTo(answers) \in 0 .. received /\ received \in Nat /\ h \in 1 .. p
  <2>1. s \in Seq(Texts) /\ Len(s) = received - UpTo(answers)
    BY <1>1, RestIs DEF HttpInv
  <2>2. Len(inb) = Len(s) - p /\ inb \in Seq(Texts) /\ p \in Nat
    BY <1>4, <2>1, BufferMoves
  <2>3. received \in Nat /\ UpTo(answers) \in 0 .. received
    BY LenProperties DEF HttpInv, TextInv
  <2>4. p \in 0 .. Len(s) /\ Len(s) \in Nat /\ DOMAIN s = 1 .. Len(s)
    BY <1>4, <2>1, LenProperties DEF InBuffer
  <2> QED BY <2>1, <2>2, <2>3, <2>4
<1> DEFINE x == AnswerOf(r)
<1>7. /\ x = [refused |-> FALSE, to |-> ctx.line, answer |-> r, body |-> ctx.body, upTo |-> received - Len(inb)]
      /\ x.refused = FALSE /\ x.upTo = received - Len(inb)
  BY DEF AnswerOf
<1> HIDE DEF x
<1>8. /\ TextInv' /\ UpTo(answers') = received - Len(inb) /\ ~Refuses(answers')
  <2>1. TextInv /\ x.upTo \in 0 .. received
    BY SMTT(30), <1>6, <1>7 DEF HttpInv
  <2>2. answers' = Append(answers, x) /\ UNCHANGED <<stream, received>>
    BY <1>3 DEF x
  <2>3. TextInv' /\ UpTo(answers') = x.upTo /\ (Refuses(answers') <=> x.refused)
    BY <2>1, <2>2, AnswerAdded
  <2> QED BY <1>7, <2>3
<1>9. Exchange!AnswerRequest
  <2>1. Exchange!Rest = s /\ ~Exchange!Refused /\ Exchange!Done = UpTo(answers)
    BY <1>1, <1>4, ExchangeSays
  <2>2. h \in Exchange!Complete
    BY <1>5, <1>6, <2>1 DEF Exchange!Complete, Exchange!Heads, Headed, IsHead
  <2>3. /\ ctx.line = <<s[1]>> /\ HeadersAre(s, h, ctx.headers) /\ ctx.body = SubSeq(s, h + 1, p)
    BY <1>5 DEF Headed
  <2> DEFINE body == SubSeq(Exchange!Rest, h + 1, h + Exchange!BodyLength(Exchange!Rest, h))
             req == [method |-> Exchange!Rest[1][2], path |-> Exchange!Rest[1][3]]
  <2>4. body = ctx.body
    BY <1>5, <2>1, <2>3
  <2>5. Len(ctx.body) = p - h
    BY <1>6, <2>3, BodySoFar
  <2>6. received - Len(inb) = UpTo(answers) + h + (p - h)
    BY <1>6
  <2>7. r \in Routed(req) /\ ctx.line = <<Exchange!Rest[1]>>
    <3>1. ctx.line[1] = Exchange!Rest[1]
      BY <2>1, <2>3
    <3> QED BY <1>2, <2>1, <2>3, <3>1
  <2>8. x = [refused |-> FALSE, to |-> <<Exchange!Rest[1]>>, answer |-> r, body |-> body,
             upTo |-> Exchange!Done + h + Len(body)]
    <3> HIDE DEF body
    <3> QED BY <1>7, <2>1, <2>4, <2>5, <2>6, <2>7
  <2>9. (status' # "CONNECTED") = (status # "CONNECTED" \/ ~Exchange!KeepsAlive(Exchange!Rest, h))
    <3>1. IsKeepAlive <=> Exchange!KeepsAlive(Exchange!Rest, h)
      BY <2>1, <2>3, HeadersSay
    <3> QED BY <1>3, <3>1 DEF ShutDown
  <2>10. answers' = Append(answers, x)
    BY <1>3 DEF x
  <2> HIDE DEF body, req
  <2>11. \E y \in Routed(req) :
           answers' = Append(answers, [refused |-> FALSE, to |-> <<Exchange!Rest[1]>>, answer |-> y,
                                       body |-> body, upTo |-> Exchange!Done + h + Len(body)])
    BY <2>7, <2>8, <2>10
  <2> QED BY <1>3, <2>1, <2>2, <2>9, <2>11 DEF Exchange!AnswerRequest, body, req
<1>10. Cut(stream, UpTo(answers) + 1, received)' = inb
  <2> DEFINE m == UpTo(answers) + 1
             n == received
  <2>1. m \in 1 .. Len(stream) + 1 /\ n \in m - 1 .. Len(stream) /\ stream \in Seq(Texts) /\ m \in Int /\ n \in Int
    <3>1. received \in 0 .. Len(stream) /\ stream \in Seq(Texts)
      BY DEF HttpInv, TextInv
    <3>2. Len(stream) \in Nat
      BY <3>1, LenProperties
    <3> QED BY <1>6, <3>1, <3>2
  <2>2. s = SubSeq(stream, m, n) /\ Len(s) = n - m + 1
    BY <1>1, <1>6 DEF Cut
  <2>3. m + (p + 1) - 1 = received - Len(inb) + 1
    BY SMTT(30), <1>6
  <2> HIDE DEF m, n
  <2>4. p + 1 \in 1 .. n - m + 2 /\ n - m + 1 \in (p + 1) - 1 .. n - m + 1 /\ m + (n - m + 1) - 1 = n
    <3>1. p \in 0 .. n - m + 1 /\ m \in Int /\ n \in Int
      BY <1>6, <2>1, <2>2
    <3>2. p \in Int /\ 0 <= p /\ p <= n - m + 1
      BY <3>1
    <3> QED BY <3>1, <3>2
  <2>5. Cut(Cut(stream, m, n), p + 1, n - m + 1) = Cut(stream, m + (p + 1) - 1, m + (n - m + 1) - 1)
    BY SMTT(30), <2>1, <2>4, CutOfCut
  <2>6. inb = Cut(s, p + 1, Len(s)) /\ s = Cut(stream, m, n)
    BY <1>4, <2>2 DEF InBuffer, Cut
  <2>7. inb = Cut(stream, received - Len(inb) + 1, n)
    BY <2>2, <2>3, <2>4, <2>5, <2>6
  <2>8. Cut(stream, UpTo(answers) + 1, received)' = Cut(stream, received - Len(inb) + 1, n)
    BY <1>3, <1>8 DEF Cut, n
  <2> QED BY <2>7, <2>8
<1>11. HttpInv'
  <2>1. InBuffer(inb, 0, inb)
    <3>1. SubSeq(inb, 1, Len(inb)) = inb
      BY <1>6, SubSeqFull
    <3> QED BY <1>6, <3>1, LenProperties DEF InBuffer
  <2>2. IsContext(FreshContext)
    BY DEF IsContext, FreshContext
  <2>3. at' = "receive" \/ (at' = "return" /\ inb = <<>>)
    BY <1>3 DEF ShutDown, NextInBuffer
  <2>4. Serving(inb, 0, FreshContext, at')
    BY <2>3, FreshWaits DEF Serving, Reading, Begun
  <2>5. Unanswered(inb, 0, inb', ctx', at', answers')
    BY <1>3, <1>8, <2>1, <2>2, <2>4 DEF Unanswered
  <2>6. (status = "DISCONNECTED" => unsent = 0)'
    BY <1>3 DEF ShutDown, HttpInv
  <2> QED BY <1>8, <1>10, <2>5, <2>6 DEF HttpInv
<1> QED BY <1>9, <1>11 DEF Exchange!Next

-----------------------------------------------------------------------------
(* The other steps. *)

\* NotOver, Return, and the steps of Connection that do not receive.
LEMMA QuietSteps ==
  ASSUME HttpInv, ~aborted,
         NotOver \/ Return \/ PeerCloses \/ HandleEof \/ HandleWrite
  PROVE HttpInv' /\ [Exchange!Next]_Exchange!vars
<1>1. PICK s, p : /\ s = Cut(stream, UpTo(answers) + 1, received)
                  /\ Unanswered(s, p, inb, ctx, at, answers)
  BY DEF HttpInv
<1>2. UNCHANGED <<stream, received, inb, answers, ctx, aborted>>
  BY DEF NotOver, Return, PeerCloses, HandleEof, HandleWrite
<1>3. TextInv' /\ Cut(stream, UpTo(answers) + 1, received)' = s
  <2>1. TextInv' /\ Cut(stream, UpTo(answers) + 1, received)' = Cut(stream, UpTo(answers) + 1, received)
    BY <1>2, TextStays DEF HttpInv
  <2> QED BY <1>1, <2>1
<1>4. (status = "DISCONNECTED" => unsent = 0)'
  BY DEF HttpInv, NotOver, Return, PeerCloses, HandleEof, HandleWrite, FlushOrRelease
<1>5. \/ UNCHANGED (status # "CONNECTED")
      \/ status' # "CONNECTED"
  BY DEF NotOver, Return, PeerCloses, HandleEof, HandleWrite, FlushOrRelease
<1>6. [Exchange!Next]_Exchange!vars
  <2>1. CASE (status # "CONNECTED")' = (status # "CONNECTED")
    BY <1>2, <2>1 DEF Exchange!vars
  <2>2. CASE status' # "CONNECTED"
    BY <1>2, <2>2 DEF Exchange!Next, Exchange!HangUp
  <2> QED BY <1>5, <2>1, <2>2
<1>7. Unanswered(s, p, inb, ctx, at', answers)
  <2>1. CASE NotOver
    <3>1. at = "received" /\ ctx.code < 400 /\ ctx.status # "RECV_REQ_OVER" /\ at' = "return"
      BY <2>1 DEF NotOver
    <3>2. ~Refuses(answers)
      BY <1>1, <3>1 DEF Unanswered, Silent
    <3>3. Waiting(s, p, ctx)
      BY <1>1, <3>1, <3>2 DEF Unanswered, Serving, Over, Failing
    <3> QED BY <1>1, <3>1, <3>2, <3>3 DEF Unanswered, Serving
  <2>2. CASE Return
    <3>1. at = "return" /\ at' \in {"idle", "return"}
      BY <2>2 DEF Return
    <3>2. Refuses(answers) => Silent(s, p, ctx, at', answers)
      BY <1>1, <3>1 DEF Unanswered, Silent
    <3>3. ~Refuses(answers) => Serving(s, p, ctx, at')
      BY <1>1, <3>1 DEF Unanswered, Serving
    <3> QED BY <1>1, <3>2, <3>3 DEF Unanswered
  <2>3. CASE PeerCloses \/ HandleWrite
    BY <1>1, <2>3 DEF PeerCloses, HandleWrite
  <2>4. CASE HandleEof
    <3>1. CASE inb = <<>>
      BY <1>1, <2>4, <3>1 DEF HandleEof
    <3>2. CASE inb # <<>>
      <4>1. at = "idle" /\ at' = "receive"
        BY <2>4, <3>2 DEF HandleEof, Idle
      <4>2. ASSUME Refuses(answers) PROVE FALSE
        <5>1. s = <<>> /\ p = 0 /\ InBuffer(s, p, inb)
          BY <1>1, <4>1, <4>2 DEF Unanswered, Silent
        <5> QED BY <3>2, <5>1, FreshWaits DEF InBuffer
      <4>3. ~Refuses(answers) => Serving(s, p, ctx, at')
        BY <1>1, <4>1 DEF Unanswered, Serving, Waiting
      <4> QED BY <1>1, <4>2, <4>3 DEF Unanswered
    <3> QED BY <3>1, <3>2
  <2> QED BY <2>1, <2>2, <2>3, <2>4
<1>8. HttpInv'
  BY <1>2, <1>3, <1>4, <1>7 DEF HttpInv
<1> QED BY <1>6, <1>8

\* HandleRead receives.
LEMMA ReadSteps ==
  ASSUME HttpInv, HandleRead
  PROVE HttpInv' /\ Exchange!Next
<1>1. PICK s, p : /\ s = Cut(stream, UpTo(answers) + 1, received)
                  /\ Unanswered(s, p, inb, ctx, at, answers)
  BY DEF HttpInv, HandleRead, Idle
<1>2. PICK n \in 1 .. Len(stream) - received :
        received' = received + n /\ inb' = inb \o SubSeq(stream, received + 1, received + n)
  BY DEF HandleRead
<1>3. at = "idle" /\ at' = "receive" /\ ~aborted /\ UNCHANGED <<stream, unsent, answers, status, ctx, aborted>>
  BY DEF HandleRead, Idle
<1>4. /\ stream \in Seq(Texts) /\ received \in 0 .. Len(stream) /\ Len(stream) \in Nat
      /\ UpTo(answers) \in 0 .. received /\ s \in Seq(Texts) /\ Len(s) = received - UpTo(answers)
  BY <1>1, RestIs, LenProperties DEF HttpInv, TextInv
<1> DEFINE t == SubSeq(stream, received + 1, received + n)
<1>5. t \in Seq(Texts) /\ Len(t) = n
  <2>1. received + 1 \in 1 .. Len(stream) + 1 /\ received + n \in (received + 1) - 1 .. Len(stream)
        /\ (received + n) - (received + 1) + 1 = n
    BY <1>4
  <2> QED BY <1>4, <2>1, Piece
<1>6. Cut(stream, UpTo(answers) + 1, received)' = s \o t
  <2>1. /\ UpTo(answers) + 1 \in 1 .. Len(stream) + 1 /\ received \in (UpTo(answers) + 1) - 1 .. Len(stream)
        /\ received + n \in received .. Len(stream)
    BY <1>4
  <2>2. SubSeq(stream, UpTo(answers) + 1, received) \o SubSeq(stream, received + 1, received + n)
          = SubSeq(stream, UpTo(answers) + 1, received + n)
    BY <1>4, <2>1, ConcatAdjacentSubSeq
  <2>3. Cut(stream, UpTo(answers) + 1, received)' = Cut(stream, UpTo(answers) + 1, received + n)
    BY <1>2, <1>3 DEF Cut
  <2> QED BY <1>1, <2>2, <2>3 DEF Cut
<1>7. inb' = inb \o t
  BY <1>2
<1> HIDE DEF t
<1>8. TextInv'
  BY <1>2, <1>3, <1>4 DEF HttpInv, TextInv
<1>9. InBuffer(s, p, inb) /\ p \in 0 .. Len(s) /\ IsContext(ctx)
  BY <1>1 DEF Unanswered, InBuffer
<1>10. InBuffer(s \o t, p, inb')
  BY <1>4, <1>5, <1>7, <1>9, BufferMoves
<1>11. Refuses(answers) => Silent(s \o t, p, ctx, "receive", answers)
  <2>1. SUFFICES ASSUME Refuses(answers) PROVE Silent(s \o t, p, ctx, "receive", answers)
    OBVIOUS
  <2>2. Silent(s, p, ctx, "idle", answers)
    BY <1>1, <1>3, <2>1 DEF Unanswered
  <2>3. s \o t # <<>>
    <3>1. t # <<>>
      BY <1>5, EmptySeq
    <3> QED BY <1>4, <1>5, <3>1, ConcatEqualIffEmpty
  <2> QED BY <2>2, <2>3 DEF Silent
<1>12. ~Refuses(answers) => Serving(s \o t, p, ctx, "receive")
  <2>1. ~Refuses(answers) => Reading(s, p, ctx)
    BY <1>1, <1>3 DEF Unanswered, Serving, Waiting
  <2>2. ~Refuses(answers) => Reading(s \o t, p, ctx)
    BY <1>4, <1>5, <1>9, <2>1, ReadingGoesOn
  <2> QED BY <2>2 DEF Serving
<1>13. Unanswered(s \o t, p, inb', ctx', at', answers')
  BY <1>3, <1>9, <1>10, <1>11, <1>12 DEF Unanswered
<1>14. HttpInv'
  BY <1>3, <1>6, <1>8, <1>13 DEF HttpInv
<1>15. Exchange!Receive
  BY <1>2, <1>3 DEF Exchange!Receive
<1> QED BY <1>3, <1>14, <1>15 DEF Exchange!Next

\* A new connection.
LEMMA HttpStarts ==
  ASSUME Init
  PROVE HttpInv /\ Exchange!Init
<1>1. /\ stream \in Seq(Texts) /\ received = 0 /\ inb = <<>> /\ answers = <<>> /\ at = "idle"
      /\ ctx = FreshContext /\ status = "CONNECTED" /\ stream \in Streams /\ aborted = FALSE
  BY HttpAssumption DEF Init
<1>2. UpTo(answers) = 0 /\ ~Refuses(answers)
  BY <1>1 DEF UpTo, Refuses
<1>3. TextInv
  BY <1>1, <1>2, LenProperties, EmptySeq DEF TextInv
<1>4. Cut(stream, UpTo(answers) + 1, received) = <<>>
  BY <1>1, <1>2, SubSeqEmpty DEF Cut
<1>5. Unanswered(<<>>, 0, inb, ctx, at, answers)
  BY <1>1, <1>2, FreshWaits DEF Unanswered, Serving, IsContext, FreshContext
<1>6. HttpInv
  BY <1>1, <1>3, <1>4, <1>5 DEF HttpInv
<1> QED BY <1>1, <1>6 DEF Exchange!Init

\* Every step keeps the invariant, and is one of the exchange or shows nothing.
LEMMA HttpSteps ==
  ASSUME HttpInv, [Next]_vars
  PROVE HttpInv' /\ [Exchange!Next]_Exchange!vars
<1>1. CASE HandleRead
  BY <1>1, ReadSteps
<1>2. CASE PeerCloses \/ HandleEof \/ HandleWrite
  BY <1>2, QuietSteps DEF PeerCloses, HandleEof, HandleWrite, Idle
<1>3. CASE OnMessage
  <2>1. ~aborted
    BY <1>3 DEF OnMessage
  <2>2. CASE RecvHttpRequest
    BY <2>1, <2>2, ReceiveSteps
  <2>3. CASE HandleError
    BY <2>1, <2>3, ErrorSteps
  <2>4. CASE HandleRequest
    BY <2>1, <2>4, RequestSteps
  <2>5. CASE NotOver \/ Return
    BY <2>1, <2>5, QuietSteps
  <2> QED BY <1>3, <2>2, <2>3, <2>4, <2>5 DEF OnMessage
<1>4. CASE UNCHANGED vars
  <2>1. UNCHANGED <<stream, received, inb, unsent, answers, status, ctx, at, aborted>>
    BY <1>4 DEF vars
  <2>2. TextInv' /\ Cut(stream, UpTo(answers) + 1, received)' = Cut(stream, UpTo(answers) + 1, received)
    BY <2>1, TextStays DEF HttpInv
  <2>3. HttpInv'
    BY <2>1, <2>2 DEF HttpInv
  <2>4. Exchange!vars' = Exchange!vars
    BY <2>1 DEF Exchange!vars
  <2> QED BY <2>3, <2>4
<1> QED BY <1>1, <1>2, <1>3, <1>4 DEF Next

\* When OnMessage has returned, there is nothing in the text to answer.
LEMMA IdleHasNothing ==
  HttpInv => NothingLeftUnanswered
<1>1. SUFFICES ASSUME HttpInv PROVE NothingLeftUnanswered
  OBVIOUS
<1>2. ASSUME at = "idle", ~aborted
      PROVE /\ Exchange!Complete = {}
            /\ ~Exchange!Refused => Exchange!Refusals = {}
            /\ Exchange!Refused => Exchange!Rest = <<>>
  <2>1. PICK s, p : /\ s = Cut(stream, UpTo(answers) + 1, received)
                    /\ Unanswered(s, p, inb, ctx, at, answers)
    BY <1>1, <1>2 DEF HttpInv
  <2>2. /\ Exchange!Rest = s /\ (Exchange!Refused <=> Refuses(answers)) /\ Exchange!Refusals = RefusedAt(s)
        /\ s \in Seq(Texts) /\ p \in 0 .. Len(s)
    BY <1>1, <2>1, ExchangeSays, RestIs DEF HttpInv, Unanswered, InBuffer
  <2>3. CASE Refuses(answers)
    <3>1. s = <<>>
      BY <1>2, <2>1, <2>3 DEF Unanswered, Silent
    <3>2. Exchange!Complete = {}
      BY <2>2, <3>1 DEF Exchange!Complete, Exchange!Heads
    <3> QED BY <2>2, <2>3, <3>1, <3>2
  <2>4. CASE ~Refuses(answers)
    <3>1. Waiting(s, p, ctx)
      BY <1>2, <2>1, <2>4 DEF Unanswered, Serving
    <3>2. RefusedAt(s) = {} /\ \A h \in DOMAIN s : IsHead(s, h) => Lacks(s, h, Len(s))
      BY <2>2, <3>1, WaitingHasNothing
    <3>3. \A h \in Exchange!Complete : h \in DOMAIN s /\ Lacks(s, h, Len(s))
                                       /\ Len(s) >= h + Exchange!BodyLength(s, h)
      BY <2>2, <3>2 DEF Exchange!Complete, Exchange!Heads, IsHead
    <3>4. ASSUME NEW h \in Exchange!Complete PROVE FALSE
      <4>1. Len(s) < h + Exchange!BodyLength(s, h) /\ Len(s) >= h + Exchange!BodyLength(s, h)
        BY <3>3 DEF Lacks
      <4> DEFINE e == h + Exchange!BodyLength(s, h)
      <4>2. e \in Int /\ Len(s) \in Int
        <5>1. h \in 1 .. Len(s) /\ Len(s) \in Nat
          BY <2>2, <3>3, LenProperties
        <5>2. Exchange!BodyLength(s, h) \in Nat
          BY <3>3, LengthIsNat DEF Lacks
        <5> QED BY <5>1, <5>2
      <4> HIDE DEF e
      <4> QED BY <4>1, <4>2 DEF e
    <3> QED BY <2>2, <2>4, <3>2, <3>4
  <2> QED BY <2>3, <2>4
<1> QED BY <1>1, <1>2 DEF NothingLeftUnanswered, HttpInv

-----------------------------------------------------------------------------
(* The results. *)

\* One connection of HttpServer does what its client sees as the exchange, for all
\* streams, pieces, routes and file systems.  (HandleRead, OnMessage, RecvHttpRequest,
\* ShutDownInLoop)
THEOREM HttpImplementsExchange == Spec => ImplementsExchange
<1>1. Init => HttpInv /\ Exchange!Init
  BY HttpStarts
<1>2. HttpInv /\ [Next]_vars => HttpInv' /\ [Exchange!Next]_Exchange!vars
  BY HttpSteps
<1> QED BY <1>1, <1>2, PTL DEF Spec, ImplementsExchange, Exchange!Spec

\* When OnMessage has returned, nothing that can be answered is left in the buffer, and
\* a connection is released with all its answers sent.
THEOREM HttpAnswersAll == Spec => []NothingLeftUnanswered
<1>1. Init => HttpInv
  BY HttpStarts
<1>2. HttpInv /\ [Next]_vars => HttpInv'
  BY HttpSteps
<1>3. HttpInv => NothingLeftUnanswered
  BY IdleHasNothing
<1> QED BY <1>1, <1>2, <1>3, PTL DEF Spec
=============================================================================
