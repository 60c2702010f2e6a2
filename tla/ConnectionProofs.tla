-------------------------- MODULE ConnectionProofs --------------------------
(***************************************************************************)
(* Safety of a connection for all files and contents, all sizes of the     *)
(* buffers, and any way the streams are cut into reads and writes.         *)
(***************************************************************************)
EXTENDS Connection, Counting, SequenceTheorems

(* What p has still to read.                                               *)
Rest(p) == line[p] \o (rio[p] \o (stream[p] \o out[Peer(p)]))

(* The text from the n-th word on.                                         *)
From(text, n) == SubSeq(text, n, Len(text))

(* The reply that is due, and what its header and body say.                *)
Page(status) == <<<<"html", status>>>>
Due == IF request.method = "GET" THEN Sent(request.file) ELSE Error(501)
Readily == request.method = "GET" /\ request.file \in Readable
Status == IF request.method # "GET" THEN 501 ELSE IF Readily THEN 200 ELSE 404
Emptied == request.method = "GET" /\ request.file \in CachedEmpty
Told == IF Readily THEN Content[request.file] ELSE IF Emptied THEN <<>> ELSE Page(Status)
DueBody == From(Due, 9)

Alive == cpc # "rest"

SocketShape ==
    /\ closed["client"] <=> cpc = "rest"
    /\ closed["server"] <=> spc \in {"accept", "exit"}
    /\ spc = "accept" => out["server"] = <<>>
    /\ Alive => spc # "exit" /\ (reset => spc = "accept" /\ request.method # "GET")

LineShape ==
    \A p \in Sides : \A k \in 1 .. (Len(line[p]) - 1) : line[p][k] # NL /\ k # MaxLine

RequestFlow ==
    /\ spc = "line" => Rest("server") = Text(request) /\ buf["server"] = <<>>
    /\ spc = "headers" => file \in Files
    /\ Alive /\ spc = "headers" =>
         /\ request.method = "GET" /\ file = request.file
         /\ \E n \in {3, 5} : Rest("server") = From(Text(request), n)
    /\ Alive /\ spc \in {"reply", "accept"} /\ request.method = "GET" => Rest("server") = <<>>

HeaderFlow ==
    \E n \in {1, 3, 5, 7} :
        /\ Rest("client") = From(Due, n)
        /\ n >= 5 => length = Len(Told)
        /\ n >= 7 => csum = Sum(Told)

ReplyFlow ==
    /\ Alive /\ spc \in {"line", "headers"} => Rest("client") = <<>> /\ cpc # "body"
    /\ Alive /\ cpc # "body" => received = <<>>
    /\ Alive /\ spc \in {"reply", "accept"} /\ cpc # "body" => HeaderFlow
    /\ Alive /\ spc \in {"reply", "accept"} /\ cpc = "body" =>
         received \o Rest("client") = DueBody /\ length = Len(Told) /\ csum = Sum(Told)

IInv == TypeOK /\ SocketShape /\ LineShape /\ RequestFlow /\ ReplyFlow

-----------------------------------------------------------------------------
(* Sequences.                                                              *)

LEMMA FromFacts ==
    ASSUME NEW S, NEW text \in Seq(S), NEW n \in 1 .. (Len(text) + 1)
    PROVE  /\ Len(text) \in Nat /\ From(text, n) \in Seq(S)
           /\ Len(From(text, n)) = Len(text) - n + 1
           /\ \A i \in 1 .. (Len(text) - n + 1) : From(text, n)[i] = text[n + i - 1]
<1>1. Len(text) \in Nat /\ \A i \in n .. Len(text) : text[i] \in S
  BY LenProperties
<1>2. n \in Int /\ Len(text) \in Int
  BY <1>1
<1>3. /\ From(text, n) \in Seq(S)
      /\ Len(From(text, n)) = IF n <= Len(text) THEN Len(text) - n + 1 ELSE 0
      /\ \A i \in 1 .. (Len(text) - n + 1) : From(text, n)[i] = text[n + i - 1]
  BY <1>1, <1>2, SubSeqProperties DEF From
<1>. QED
  BY <1>1, <1>3

(* Two words are taken off the front.                                      *)
LEMMA TakeTwo ==
    ASSUME NEW S, NEW text \in Seq(S), NEW n \in 1 .. (Len(text) - 1),
           NEW a \in Seq(S), NEW b \in Seq(S), a \o b = From(text, n), Len(a) = 2
    PROVE  b = From(text, n + 2) /\ a = <<text[n], text[n + 1]>>
<1>1. Len(text) \in Nat /\ Len(b) \in Nat /\ n \in 1 .. (Len(text) + 1) /\ n + 2 \in 1 .. (Len(text) + 1)
  BY LenProperties
<1>2. /\ Len(a \o b) = 2 + Len(b)
      /\ \A i \in 1 .. (2 + Len(b)) : (a \o b)[i] = IF i <= 2 THEN a[i] ELSE b[i - 2]
  <2>1. /\ Len(a \o b) = Len(a) + Len(b)
        /\ \A i \in 1 .. (Len(a) + Len(b)) :
              (a \o b)[i] = IF i <= Len(a) THEN a[i] ELSE b[i - Len(a)]
    BY ConcatProperties, Zenon
  <2>. QED
    BY <2>1, Zenon
<1>3. /\ Len(From(text, n)) = Len(text) - n + 1
      /\ \A i \in 1 .. (Len(text) - n + 1) : From(text, n)[i] = text[n + i - 1]
  BY <1>1, FromFacts
<1>4. /\ From(text, n + 2) \in Seq(S)
      /\ Len(From(text, n + 2)) = Len(text) - (n + 2) + 1
      /\ \A i \in 1 .. (Len(text) - (n + 2) + 1) : From(text, n + 2)[i] = text[(n + 2) + i - 1]
  BY <1>1, FromFacts
<1>5. Len(b) = Len(text) - n - 1
  BY <1>1, <1>2, <1>3
<1>6. \A i \in 1 .. Len(b) : b[i] = text[n + i + 1]
  <2>. SUFFICES ASSUME NEW i \in 1 .. Len(b) PROVE b[i] = text[n + i + 1]
    OBVIOUS
  <2>. DEFINE ab == a \o b
  <2>0. Len(ab) = 2 + Len(b) /\ \A k \in 1 .. (2 + Len(b)) : ab[k] = IF k <= 2 THEN a[k] ELSE b[k - 2]
    BY <1>2
  <2>. HIDE DEF ab
  <2>1. ab[i + 2] = b[(i + 2) - 2] /\ (i + 2) - 2 = i
    BY <1>1, <2>0
  <2>2. From(text, n)[i + 2] = text[n + (i + 2) - 1] /\ n + (i + 2) - 1 = n + i + 1
    <3>1. i + 2 \in 1 .. (Len(text) - n + 1) /\ n + (i + 2) - 1 = n + i + 1
      BY <1>1, <1>5
    <3>. QED
      BY <1>3, <3>1, Zenon
  <2>. QED
    BY <2>1, <2>2 DEF ab
<1>7. b = From(text, n + 2)
  <2>1. \A i \in 1 .. Len(b) : b[i] = From(text, n + 2)[i]
    <3>. SUFFICES ASSUME NEW i \in 1 .. Len(b) PROVE b[i] = From(text, n + 2)[i]
      OBVIOUS
    <3>1. From(text, n + 2)[i] = text[(n + 2) + i - 1] /\ (n + 2) + i - 1 = n + i + 1
      BY <1>1, <1>4, <1>5
    <3>. QED
      BY <1>6, <3>1
  <2>. QED
    <3>1. Len(b) = Len(From(text, n + 2))
      BY <1>1, <1>4, <1>5
    <3>. QED
      BY <1>4, <2>1, <3>1, SeqEqual, Zenon
<1>8. a[1] = text[n] /\ a[2] = text[n + 1]
  <2>. DEFINE ab == a \o b
  <2>0. Len(b) \in Nat /\ \A k \in 1 .. (2 + Len(b)) : ab[k] = IF k <= 2 THEN a[k] ELSE b[k - 2]
    BY <1>1, <1>2
  <2>. HIDE DEF ab
  <2>1. ab[1] = a[1] /\ ab[2] = a[2]
    BY <2>0
  <2>2. From(text, n)[1] = text[n + 1 - 1] /\ From(text, n)[2] = text[n + 2 - 1]
    BY <1>1, <1>3
  <2>3. n + 1 - 1 = n /\ n + 2 - 1 = n + 1
    OBVIOUS
  <2>. QED
    BY <2>1, <2>2, <2>3 DEF ab
<1>9. a = <<a[1], a[2]>>
  OBVIOUS
<1>. QED
  BY <1>7, <1>8, <1>9

-----------------------------------------------------------------------------
(* The words.  No backend knows that a string is an element of STRING, so  *)
(* the tags in use are named beside it.                                    *)

Tag  == STRING \cup {"GET", "PUT", "host", "nl", "cr", "html", "HTTP/1.0",
                     "Content-Length", "Content-Csum"}
Word == Tag \X Nat

(* Sum adds up the numbers of a text, each by one step of the fold.         *)
Adding(g, text) == [s \in SUBSET (DOMAIN text) |->
                      IF s = {} THEN 0
                      ELSE LET x == CHOOSE x \in s : TRUE IN text[x][2] + g[s \ {x}]]

LEMMA SumNat ==
    ASSUME NEW text \in Seq(Word)
    PROVE  Sum(text) \in Nat
<1>. DEFINE P == DOMAIN text
            w == [i \in P |-> text[i][2]]
            h == [s \in SUBSET P |-> Total(w, s)]
            g == CHOOSE f : f = Adding(f, text)
<1>1. w \in [P -> Nat] /\ IsFiniteSet(P)
  <2>1. Len(text) \in Nat /\ P = 1 .. Len(text) /\ \A i \in P : text[i] \in Word
    BY LenProperties
  <2>2. IsFiniteSet(1 .. Len(text))
    <3>. DEFINE n == Len(text)
    <3>. HIDE DEF n
    <3>1. n \in Nat => IsFiniteSet(1 .. n)
      BY FS_Interval
    <3>. QED
      BY <2>1, <3>1 DEF n
  <2>. QED
    BY <2>1, <2>2 DEF Word
<1>2. \A f : Adding(f, text) = Summing(f, w, P)
  <2>. SUFFICES ASSUME NEW f, NEW s \in SUBSET P
                PROVE  Adding(f, text)[s] = Summing(f, w, P)[s]
    BY DEF Adding, Summing
  <2>1. s # {} => (CHOOSE x \in s : TRUE) \in P
    OBVIOUS
  <2>. QED
    BY <2>1 DEF Adding, Summing
<1>3. h = Adding(h, text)
  <2>. HIDE DEF P, w, h
  <2>1. h = [s \in SUBSET P |-> Total(w, s)]
    BY DEF h
  <2>2. h = Summing(h, w, P)
    BY <1>1, <2>1, TotalSums
  <2>. QED
    BY <1>2, <2>2
<1>4. g = Adding(g, text)
  BY <1>3, Zenon
<1>5. Sum(text) = g[P]
  BY Zenon DEF Sum, FoldSeq, FoldFunction, FoldFunctionOnSet, MapThenFoldSet, Adding
<1>. HIDE DEF P, w, g
<1>6. g[P] = Total(w, P)
  BY <1>1, <1>2, <1>4, SumsTotal
<1>7. P \in SUBSET P
  OBVIOUS
<1>8. Total(w, P) \in Nat
  BY <1>1, <1>7, TotalFinite
<1>. QED
  BY <1>5, <1>6, <1>8

LEMMA WordFacts ==
    /\ \A s \in Tag, n \in Nat : <<s, n>> \in Word
    /\ \A n \in Nat : /\ <<"host", n>> \in Word /\ <<"html", n>> \in Word
                      /\ <<"HTTP/1.0", n>> \in Word /\ <<"Content-Length", n>> \in Word
                      /\ <<"Content-Csum", n>> \in Word
    /\ NL \in Word /\ CR \in Word /\ NL # CR
    /\ \A w \in Word : w[2] \in Nat
<1>1. \A s \in Tag, n \in Nat : <<s, n>> \in Word
  BY DEF Word
<1>2. "nl" \in Tag /\ "cr" \in Tag /\ "host" \in Tag /\ "html" \in Tag /\ "HTTP/1.0" \in Tag
      /\ "Content-Length" \in Tag /\ "Content-Csum" \in Tag
  BY DEF Tag
<1>3. 10 \in Nat /\ 13 \in Nat
  OBVIOUS
<1>4. NL \in Word /\ CR \in Word
  BY <1>1, <1>2, <1>3, Zenon DEF NL, CR
<1>5. NL # CR
  BY DEF NL, CR
<1>6. \A w \in Word : w[2] \in Nat
  BY DEF Word
<1>. QED
  BY <1>1, <1>2, <1>4, <1>5, <1>6, Zenon

LEMMA Tuples ==
    /\ \A a \in Word : <<a>> \in Seq(Word)
    /\ \A a, b \in Word : <<a, b>> \in Seq(Word)
    /\ \A a, b, c, d \in Word : <<a, b, c, d>> \in Seq(Word)
    /\ \A a, b, c, d, e, f \in Word : <<a, b, c, d, e, f>> \in Seq(Word)
OBVIOUS

LEMMA TextShape ==
    ASSUME NEW r \in Requests
    PROVE  /\ Text(r) \in Seq(Word) /\ Len(Text(r)) = 6
           /\ Text(r)[1] = <<r.method, r.file>> /\ Text(r)[2] = NL
           /\ Text(r)[3] = <<"host", 0>> /\ Text(r)[4] = NL
           /\ Text(r)[5] = CR /\ Text(r)[6] = NL
<1>. DEFINE a == <<<<r.method, r.file>>, NL, <<"host", 0>>, NL>>
            e == EmptyLine
<1>1. r.method \in Tag /\ r.file \in Nat
  <2>1. r.method \in {"GET", "PUT"} /\ r.file \in Files
    BY DEF Requests
  <2>2. Files \subseteq Nat
    BY ConnectionAssumption, Zenon
  <2>. QED
    BY <2>1, <2>2 DEF Tag
<1>2. a \in Seq(Word) /\ Len(a) = 4 /\ a[1] = <<r.method, r.file>> /\ a[2] = NL
      /\ a[3] = <<"host", 0>> /\ a[4] = NL
  <2>1. <<r.method, r.file>> \in Word /\ <<"host", 0>> \in Word
    <3>1. 0 \in Nat
      OBVIOUS
    <3>. QED
      BY <1>1, <3>1, WordFacts, Zenon
  <2>2. a \in Seq(Word)
    BY <2>1, WordFacts, Tuples
  <2>. QED
    BY <2>2
<1>3. e \in Seq(Word) /\ Len(e) = 2 /\ e[1] = CR /\ e[2] = NL
  BY WordFacts, Tuples DEF EmptyLine
<1>4. Text(r) = a \o e
  BY DEF Text
<1>. HIDE DEF a, e
<1>5. /\ a \o e \in Seq(Word) /\ Len(a \o e) = Len(a) + Len(e)
      /\ \A i \in 1 .. (Len(a) + Len(e)) :
            (a \o e)[i] = IF i <= Len(a) THEN a[i] ELSE e[i - Len(a)]
  BY <1>2, <1>3, ConcatProperties, Zenon
<1>. DEFINE t == Text(r)
<1>6. t \in Seq(Word) /\ Len(t) = 6 /\ \A i \in 1 .. 6 : t[i] = IF i <= 4 THEN a[i] ELSE e[i - 4]
  BY <1>2, <1>3, <1>4, <1>5
<1>. HIDE DEF t
<1>7. t[1] = a[1] /\ t[2] = a[2] /\ t[3] = a[3] /\ t[4] = a[4] /\ t[5] = e[1] /\ t[6] = e[2]
  BY <1>6
<1>. QED
  BY <1>2, <1>3, <1>6, <1>7 DEF t

LEMMA PageWord == ASSUME NEW n \in Nat
                  PROVE  Page(n) \in Seq(Word) /\ Len(Page(n)) = 1
<1>1. <<"html", n>> \in Word
  BY WordFacts, Zenon
<1>. QED
  BY <1>1, Tuples DEF Page

(* The eight words of a reply's header, and the body behind it.            *)
HeaderSays(text, n, sum) ==
    /\ \E status \in Nat : text[1] = <<"HTTP/1.0", status>>
    /\ text[2] = NL /\ text[3] = <<"Content-Length", n>> /\ text[4] = NL
    /\ text[5] = <<"Content-Csum", sum>> /\ text[6] = NL
    /\ text[7] = CR /\ text[8] = NL

LEMMA ReplyShape ==
    ASSUME NEW status \in Nat, NEW body \in Seq(Word)
    PROVE  /\ Reply(status, body) \in Seq(Word) /\ Len(Reply(status, body)) = 8 + Len(body)
           /\ HeaderSays(Reply(status, body), Len(body), Sum(body))
           /\ From(Reply(status, body), 9) = body
<1>. DEFINE a == <<<<"HTTP/1.0", status>>, NL, <<"Content-Length", Len(body)>>, NL,
                   <<"Content-Csum", Sum(body)>>, NL>>
            e == EmptyLine
            t == Reply(status, body)
<1>1. Len(body) \in Nat /\ Sum(body) \in Nat
  BY SumNat, LenProperties
<1>2. a \in Seq(Word) /\ Len(a) = 6 /\ a[1] = <<"HTTP/1.0", status>> /\ a[2] = NL
      /\ a[3] = <<"Content-Length", Len(body)>> /\ a[4] = NL
      /\ a[5] = <<"Content-Csum", Sum(body)>> /\ a[6] = NL
  <2>1. /\ <<"HTTP/1.0", status>> \in Word /\ <<"Content-Length", Len(body)>> \in Word
        /\ <<"Content-Csum", Sum(body)>> \in Word
    BY <1>1, WordFacts, Zenon
  <2>2. a \in Seq(Word)
    BY <2>1, WordFacts, Tuples
  <2>. QED
    BY <2>2
<1>3. e \in Seq(Word) /\ Len(e) = 2 /\ e[1] = CR /\ e[2] = NL
  BY WordFacts, Tuples DEF EmptyLine
<1>4. t = (a \o e) \o body
  BY DEF Reply
<1>. DEFINE h == a \o e
<1>. HIDE DEF a, e
<1>5. /\ h \in Seq(Word) /\ Len(h) = Len(a) + Len(e)
      /\ \A i \in 1 .. (Len(a) + Len(e)) :
            h[i] = IF i <= Len(a) THEN a[i] ELSE e[i - Len(a)]
  BY <1>2, <1>3, ConcatProperties, Zenon
<1>. HIDE DEF h
<1>6. h \in Seq(Word) /\ Len(h) = 8 /\ h[1] = a[1] /\ h[2] = a[2] /\ h[3] = a[3]
      /\ h[4] = a[4] /\ h[5] = a[5] /\ h[6] = a[6] /\ h[7] = e[1] /\ h[8] = e[2]
  BY <1>2, <1>3, <1>5
<1>. HIDE DEF t
<1>7. t = h \o body
  BY <1>4 DEF h
<1>8. /\ h \o body \in Seq(Word) /\ Len(h \o body) = Len(h) + Len(body)
      /\ \A i \in 1 .. (Len(h) + Len(body)) :
            (h \o body)[i] = IF i <= Len(h) THEN h[i] ELSE body[i - Len(h)]
  BY <1>6, ConcatProperties, Zenon
<1>9. t \in Seq(Word) /\ Len(t) = 8 + Len(body)
      /\ \A i \in 1 .. (8 + Len(body)) : t[i] = IF i <= 8 THEN h[i] ELSE body[i - 8]
  BY <1>6, <1>7, <1>8, Zenon
<1>10. t[1] = h[1] /\ t[2] = h[2] /\ t[3] = h[3] /\ t[4] = h[4] /\ t[5] = h[5]
       /\ t[6] = h[6] /\ t[7] = h[7] /\ t[8] = h[8]
  BY <1>1, <1>9
<1>11. From(t, 9) = body
  <2>1. /\ From(t, 9) \in Seq(Word) /\ Len(From(t, 9)) = Len(t) - 9 + 1
        /\ \A i \in 1 .. (Len(t) - 9 + 1) : From(t, 9)[i] = t[9 + i - 1]
    <3>1. 9 \in 1 .. (Len(t) + 1) /\ t \in Seq(Word)
      BY <1>1, <1>9
    <3>. QED
      BY <3>1, FromFacts, Zenon
  <2>2. \A i \in 1 .. Len(body) : From(t, 9)[i] = body[i]
    <3>. SUFFICES ASSUME NEW i \in 1 .. Len(body) PROVE From(t, 9)[i] = body[i]
      OBVIOUS
    <3>1. i \in 1 .. (Len(t) - 9 + 1) /\ 9 + i - 1 = 8 + i /\ 8 + i \in 1 .. (8 + Len(body))
          /\ ~(8 + i <= 8) /\ 8 + i - 8 = i
      BY <1>1, <1>9
    <3>2. From(t, 9)[i] = t[9 + i - 1]
      BY <2>1, <3>1, Zenon
    <3>3. t[8 + i] = body[8 + i - 8]
      <4>1. t[8 + i] = IF 8 + i <= 8 THEN h[8 + i] ELSE body[8 + i - 8]
        BY <1>9, <3>1
      <4>. QED
        BY <3>1, <4>1
    <3>. QED
      BY <3>1, <3>2, <3>3, Zenon
  <2>3. Len(From(t, 9)) = Len(body)
    BY <1>1, <1>9, <2>1
  <2>4. \A i \in 1 .. Len(From(t, 9)) : From(t, 9)[i] = body[i]
    BY <2>2, <2>3
  <2>. QED
    BY <2>1, <2>3, <2>4, SeqEqual, Zenon
<1>12. HeaderSays(t, Len(body), Sum(body))
  BY <1>2, <1>3, <1>6, <1>10 DEF HeaderSays
<1>. QED
  BY <1>9, <1>11, <1>12 DEF t

(* What is due for a request.                                              *)
DueShape(r) ==
    /\ Due \in Seq(Word) /\ Len(Due) >= 8
    /\ Told \in Seq(Word) /\ HeaderSays(Due, Len(Told), Sum(Told))
    /\ Readily => DueBody = Told
    /\ r.method # "GET" => DueBody = Told
    /\ Emptied => ~Readily /\ Told = <<>> /\ DueBody = <<>>
    /\ ~Readily /\ ~Emptied => Len(Told) = 1
    /\ r.method = "GET" /\ ~Readily /\ ~Emptied => Len(DueBody) = 9

LEMMA DueFacts ==
    ASSUME request \in Requests
    PROVE  DueShape(request)
<1>0. request.file \in Files /\ request.file \in Nat
  <2>1. request.file \in Files
    BY DEF Requests
  <2>2. Files \subseteq Nat
    BY ConnectionAssumption, Zenon
  <2>. QED
    BY <2>1, <2>2
<1>1. CASE request.method # "GET"
  <2>. DEFINE n == 501
  <2>0. n \in Nat
    OBVIOUS
  <2>1. Due = Reply(n, Page(n)) /\ Told = Page(n) /\ ~Readily /\ ~Emptied
    BY <1>1 DEF Due, Error, Told, Readily, Emptied, Status, Page
  <2>. HIDE DEF n
  <2>2. Page(n) \in Seq(Word) /\ Len(Page(n)) = 1
    BY <2>0, PageWord
  <2>3. /\ Reply(n, Page(n)) \in Seq(Word)
        /\ Len(Reply(n, Page(n))) = 8 + Len(Page(n))
        /\ HeaderSays(Reply(n, Page(n)), Len(Page(n)), Sum(Page(n)))
        /\ From(Reply(n, Page(n)), 9) = Page(n)
    BY <2>0, <2>2, ReplyShape, Zenon
  <2>4. Len(Due) >= 8
    BY <2>1, <2>2, <2>3
  <2>. QED
    BY <1>1, <2>1, <2>2, <2>3, <2>4, Zenon DEF DueShape, DueBody
<1>2. CASE Readily
  <2>. DEFINE n == 200
  <2>0. n \in Nat
    OBVIOUS
  <2>1. Due = Reply(n, Told) /\ Told = Content[request.file] /\ request.method = "GET"
    BY <1>2 DEF Due, Told, Readily, Sent
  <2>a. ~Emptied
    BY <1>2, ConnectionAssumption DEF Readily, Emptied
  <2>2. Told \in Seq(Word)
    <3>1. Content \in [Files -> Seq(STRING \X Nat)]
      BY ConnectionAssumption, Zenon
    <3>2. STRING \X Nat \subseteq Word
      BY DEF Word, Tag
    <3>3. Told \in Seq(STRING \X Nat)
      BY <1>0, <2>1, <3>1
    <3>. QED
      BY <3>2, <3>3, SeqMonotonic
  <2>. HIDE DEF Told, n
  <2>3. /\ Reply(n, Told) \in Seq(Word) /\ Len(Reply(n, Told)) = 8 + Len(Told)
        /\ HeaderSays(Reply(n, Told), Len(Told), Sum(Told))
        /\ From(Reply(n, Told), 9) = Told
    BY <2>0, <2>2, ReplyShape, Zenon
  <2>4. Len(Due) >= 8
    <3>1. Len(Told) \in Nat
      BY <2>2, LenProperties
    <3>. QED
      BY <2>1, <2>3, <3>1
  <2>. QED
    BY <1>2, <2>1, <2>2, <2>3, <2>4, <2>a, Zenon DEF DueShape, DueBody
<1>3. CASE request.method = "GET" /\ ~Readily /\ ~Emptied
  <2>. DEFINE n == 404
              m == 200
              a == Reply(n, Page(n))
              b == Reply(m, <<>>)
  <2>0. n \in Nat /\ m \in Nat
    OBVIOUS
  <2>1. Due = a \o b /\ Told = Page(n) /\ request.method = "GET"
    BY <1>3 DEF Due, Error, Told, Readily, Emptied, Status, Page, Sent
  <2>. HIDE DEF n, m
  <2>2. Page(n) \in Seq(Word) /\ Len(Page(n)) = 1 /\ <<>> \in Seq(Word) /\ Len(<<>>) = 0
    BY <2>0, PageWord, EmptySeq
  <2>3. /\ a \in Seq(Word) /\ Len(a) = 8 + Len(Page(n))
        /\ HeaderSays(a, Len(Page(n)), Sum(Page(n)))
    BY <2>0, <2>2, ReplyShape, Zenon
  <2>4. b \in Seq(Word) /\ Len(b) = 8 + Len(<<>>)
    BY <2>0, <2>2, ReplyShape, Zenon
  <2>. HIDE DEF a, b
  <2>5. /\ a \o b \in Seq(Word) /\ Len(a \o b) = Len(a) + Len(b)
        /\ \A i \in 1 .. (Len(a) + Len(b)) :
              (a \o b)[i] = IF i <= Len(a) THEN a[i] ELSE b[i - Len(a)]
    <3>1. a \in Seq(Word) /\ b \in Seq(Word)
      BY <2>3, <2>4
    <3>. QED
      BY <3>1, ConcatProperties, Zenon
  <2>6. Due \in Seq(Word) /\ Len(Due) = 17 /\ \A i \in 1 .. 9 : Due[i] = a[i]
    <3>. DEFINE d == Due
    <3>1. d \in Seq(Word) /\ Len(d) = Len(a) + Len(b)
          /\ \A i \in 1 .. (Len(a) + Len(b)) : d[i] = IF i <= Len(a) THEN a[i] ELSE b[i - Len(a)]
      BY <2>1, <2>5, Zenon
    <3>. HIDE DEF d
    <3>2. d \in Seq(Word) /\ Len(d) = 17 /\ \A i \in 1 .. 9 : d[i] = a[i]
      BY <2>2, <2>3, <2>4, <3>1
    <3>. QED
      BY <3>2 DEF d
  <2>7. HeaderSays(Due, Len(Told), Sum(Told))
    <3>1. Due[1] = a[1] /\ Due[2] = a[2] /\ Due[3] = a[3] /\ Due[4] = a[4] /\ Due[5] = a[5]
          /\ Due[6] = a[6] /\ Due[7] = a[7] /\ Due[8] = a[8]
      BY <2>6
    <3>. QED
      BY <2>1, <2>3, <3>1, Zenon DEF HeaderSays
  <2>8. Len(DueBody) = 9
    <3>1. 9 \in 1 .. (Len(Due) + 1)
      BY <2>6
    <3>2. Len(From(Due, 9)) = Len(Due) - 9 + 1
      BY <2>6, <3>1, FromFacts, Zenon
    <3>. QED
      BY <2>6, <3>2 DEF DueBody
  <2>9. Len(Due) >= 8
    BY <2>6
  <2>. QED
    BY <1>3, <2>1, <2>2, <2>6, <2>7, <2>8, <2>9, Zenon DEF DueShape
<1>4. CASE Emptied
  <2>. DEFINE n == 200
              e == <<>>
  <2>0. n \in Nat /\ e \in Seq(Word) /\ Len(e) = 0
    BY EmptySeq
  <2>1. ~Readily /\ Told = e
    BY <1>4, ConnectionAssumption DEF Readily, Emptied, Told
  <2>2. Due = e \o Reply(n, e)
    BY <1>4, <2>1 DEF Due, Readily, Emptied, Sent
  <2>. HIDE DEF n
  <2>3. /\ Reply(n, e) \in Seq(Word) /\ Len(Reply(n, e)) = 8 + Len(e)
        /\ HeaderSays(Reply(n, e), Len(e), Sum(e))
        /\ From(Reply(n, e), 9) = e
    BY <2>0, ReplyShape, Zenon
  <2>4. Due = Reply(n, e)
    BY <2>2, <2>3, ConcatEmptySeq
  <2>5. Len(Due) >= 8
    <3>. DEFINE d == Len(Due)
    <3>1. d = 8 + Len(e) /\ Len(e) = 0
      BY <2>0, <2>3, <2>4, Zenon
    <3>. HIDE DEF d, e
    <3>2. d >= 8
      BY ONLY <3>1
    <3>. QED
      BY <3>2 DEF d
  <2>6. request.method = "GET"
    BY <1>4 DEF Emptied
  <2>. QED
    BY <1>4, <2>0, <2>1, <2>3, <2>4, <2>5, <2>6, Zenon DEF DueShape, DueBody
<1>. QED
  BY <1>1, <1>2, <1>3, <1>4 DEF Readily

LEMMA OwnWords == ASSUME NEW text, NEW S, text \in Seq(S) PROVE text \in Seq(ToSet(text))
BY DEF ToSet

LEMMA SentWords ==
    /\ \A f \in Files : Sent(f) \in Seq(Word)
    /\ Error(501) \in Seq(Word)
<1>. DEFINE refused == 501
            found == 200
            missing == 404
<1>0. refused \in Nat /\ found \in Nat /\ missing \in Nat /\ <<>> \in Seq(Word)
  BY EmptySeq
<1>1. /\ \A n : Error(n) = Reply(n, Page(n))
      /\ \A f : Sent(f) = IF f \in Readable THEN Reply(found, Content[f])
                        ELSE (IF f \in CachedEmpty THEN <<>> ELSE Error(missing))
                             \o Reply(found, <<>>)
  BY DEF Error, Sent, Page
<1>. HIDE DEF refused, found, missing
<1>2. /\ \A n \in Nat : Error(n) \in Seq(Word)
      /\ Reply(found, <<>>) \in Seq(Word)
  BY <1>0, <1>1, PageWord, ReplyShape, Zenon
<1>3. \A f \in Files : Content[f] \in Seq(Word)
  <2>1. \A f \in Files : Content[f] \in Seq(STRING \X Nat)
    BY ConnectionAssumption, Zenon
  <2>2. STRING \X Nat \subseteq Word
    BY DEF Word, Tag
  <2>. QED
    BY <2>1, <2>2, SeqMonotonic
<1>4. \A f \in Files : Reply(found, Content[f]) \in Seq(Word)
  BY <1>0, <1>3, ReplyShape, Zenon
<1>5. /\ Error(missing) \o Reply(found, <<>>) \in Seq(Word)
      /\ <<>> \o Reply(found, <<>>) \in Seq(Word)
  BY <1>0, <1>2, ConcatProperties, Zenon
<1>6. \A f \in Files : Sent(f) \in Seq(Word)
  BY <1>1, <1>4, <1>5, Zenon
<1>7. Error(refused) \in Seq(Word)
  BY <1>0, <1>2, Zenon
<1>. QED
  BY <1>6, <1>7 DEF refused

LEMMA TextTypes ==
    /\ Words \subseteq Word /\ \A t \in Texts : t \in Seq(Word)
    /\ \A r \in Requests : Text(r) \in Texts
    /\ \A f \in Files : Sent(f) \in Texts
    /\ Error(501) \in Texts /\ <<>> \in Texts
<1>1. \A t : t \in Seq(Word) => t \in Seq(ToSet(t)) /\ ToSet(t) \subseteq Word
  BY OwnWords, LenProperties DEF ToSet
<1>2. /\ \A r \in Requests : Text(r) \in Seq(Word)
      /\ \A f \in Files : Sent(f) \in Seq(Word)
      /\ Error(501) \in Seq(Word)
  BY TextShape, SentWords
<1>3. Words \subseteq Word
  BY <1>1, <1>2 DEF Words
<1>4. \A t \in Texts : t \in Seq(Word)
  BY <1>3, SeqMonotonic DEF Texts
<1>5. /\ \A r \in Requests : ToSet(Text(r)) \subseteq Words
      /\ \A f \in Files : ToSet(Sent(f)) \subseteq Words
      /\ ToSet(Error(501)) \subseteq Words
  BY DEF Words
<1>6. /\ \A r \in Requests : Text(r) \in Texts
      /\ \A f \in Files : Sent(f) \in Texts
      /\ Error(501) \in Texts
  BY <1>1, <1>2, <1>5, SeqMonotonic DEF Texts
<1>. QED
  BY <1>3, <1>4, <1>6, EmptySeq DEF Texts

-----------------------------------------------------------------------------
(* What the calls below the lines do to the streams.                       *)

LEMMA JoinAssociative == \A s, t, u \in Texts : (s \o t) \o u = s \o (t \o u)
<1>. SUFFICES ASSUME NEW s \in Texts, NEW t \in Texts, NEW u \in Texts
              PROVE  (s \o t) \o u = s \o (t \o u)
  OBVIOUS
<1>. QED
  BY ConcatAssociative DEF Texts

LEMMA Joining ==
    /\ \A s, t \in Texts : s \o t \in Texts /\ Len(s \o t) = Len(s) + Len(t)
    /\ \A s \in Texts : s \o <<>> = s /\ <<>> \o s = s /\ Len(s) \in Nat
    /\ \A s, t \in Texts : s \o t = <<>> <=> s = <<>> /\ t = <<>>
    /\ <<>> \in Texts
<1>1. \A s, t \in Texts : s \o t \in Texts /\ Len(s \o t) = Len(s) + Len(t)
  BY ConcatProperties DEF Texts
<1>2. \A s \in Texts : s \o <<>> = s /\ <<>> \o s = s /\ Len(s) \in Nat
  BY ConcatEmptySeq, LenProperties DEF Texts
<1>3. \A s, t \in Texts : s \o t = <<>> <=> s = <<>> /\ t = <<>>
  <2>. SUFFICES ASSUME NEW s \in Texts, NEW t \in Texts
                PROVE  s \o t = <<>> <=> s = <<>> /\ t = <<>>
    OBVIOUS
  <2>. QED
    BY ConcatEqualIffEmpty DEF Texts
<1>. QED
  BY <1>1, <1>2, <1>3, EmptySeq DEF Texts

LEMMA PeerFacts ==
    /\ Peer("client") = "server" /\ Peer("server") = "client"
    /\ Sides = {"client", "server"}
    /\ \A p \in Sides : Peer(p) \in Sides /\ Peer(p) # p /\ Peer(Peer(p)) = p
BY DEF Peer, Sides

LEMMA SplitAt ==
    ASSUME NEW S, NEW s \in Seq(S), NEW k \in 0 .. Len(s)
    PROVE  /\ SubSeq(s, 1, k) \in Seq(S) /\ Len(SubSeq(s, 1, k)) = k
           /\ SubSeq(s, k + 1, Len(s)) \in Seq(S) /\ Len(SubSeq(s, k + 1, Len(s))) = Len(s) - k
           /\ SubSeq(s, 1, k) \o SubSeq(s, k + 1, Len(s)) = s
<1>1. Len(s) \in Nat /\ \A i \in 1 .. Len(s) : s[i] \in S
  BY LenProperties
<1>2. SubSeq(s, 1, k) \in Seq(S) /\ Len(SubSeq(s, 1, k)) = IF 1 <= k THEN k - 1 + 1 ELSE 0
  <2>1. 1 \in Int /\ k \in Int /\ \A i \in 1 .. k : s[i] \in S
    BY <1>1
  <2>. QED
    BY <2>1, SubSeqProperties
<1>3. /\ SubSeq(s, k + 1, Len(s)) \in Seq(S)
      /\ Len(SubSeq(s, k + 1, Len(s))) = IF k + 1 <= Len(s) THEN Len(s) - (k + 1) + 1 ELSE 0
  <2>1. k + 1 \in Int /\ Len(s) \in Int /\ \A i \in (k + 1) .. Len(s) : s[i] \in S
    BY <1>1
  <2>. QED
    BY <2>1, SubSeqProperties
<1>4. SubSeq(s, 1, k) \o SubSeq(s, k + 1, Len(s)) = SubSeq(s, 1, Len(s))
  <2>1. 1 \in 1 .. (Len(s) + 1) /\ k \in (1 - 1) .. Len(s) /\ Len(s) \in k .. Len(s)
    BY <1>1
  <2>. QED
    BY <2>1, ConcatAdjacentSubSeq, Zenon
<1>5. SubSeq(s, 1, Len(s)) = s
  BY SubSeqFull, Zenon
<1>6. Len(SubSeq(s, 1, k)) = k
  BY <1>2
<1>7. Len(SubSeq(s, k + 1, Len(s))) = Len(s) - k
  BY <1>1, <1>3
<1>. QED
  BY <1>2, <1>3, <1>4, <1>5, <1>6, <1>7, Zenon

LEMMA WriteFacts ==
    ASSUME TypeOK, NEW p \in Sides, Write(p)
    PROVE  /\ out' \in [Sides -> Texts] /\ stream' \in [Sides -> Texts] /\ reset' \in BOOLEAN
           /\ \A q \in Sides : Len(stream'[q]) <= SocketSize
           /\ out'[Peer(p)] = out[Peer(p)] /\ stream'[p] = stream[p]
           /\ closed[Peer(p)] => stream' = stream /\ reset'
           /\ ~closed[Peer(p)] => /\ reset' = reset
                                 /\ stream'[Peer(p)] \o out'[p] = stream[Peer(p)] \o out[p]
<1>. DEFINE q == Peer(p)
<1>0. q \in Sides /\ q # p /\ Sides = {p, q}
  BY PeerFacts
<1>. HIDE DEF q
<1>1. PICK k \in 1 .. Len(out[p]) :
         Takes(p, k) /\ out' = [out EXCEPT ![p] = SubSeq(@, k + 1, Len(@))]
  BY DEF Write
<1>2. /\ out \in [Sides -> Seq(Words)] /\ stream \in [Sides -> Seq(Words)]
      /\ \A x \in Sides : Len(stream[x]) <= SocketSize
  BY DEF TypeOK, Texts
<1>. DEFINE a == SubSeq(out[p], 1, k)
            b == SubSeq(out[p], k + 1, Len(out[p]))
<1>3. a \in Seq(Words) /\ b \in Seq(Words) /\ Len(a) = k /\ a \o b = out[p]
  <2>1. k \in 0 .. Len(out[p]) /\ out[p] \in Seq(Words)
    BY <1>2
  <2>. QED
    BY <2>1, SplitAt, Zenon
<1>4. out' = [out EXCEPT ![p] = b]
  BY <1>1, <1>2
<1>5. IF closed[q] THEN reset' = TRUE /\ stream' = stream
      ELSE /\ Len(stream[q]) + k <= SocketSize
           /\ stream' = [stream EXCEPT ![q] = stream[q] \o a]
           /\ reset' = reset
  BY <1>0, <1>1, <1>2 DEF Takes, q
<1>. HIDE DEF a, b
<1>6. out' \in [Sides -> Seq(Words)] /\ out'[q] = out[q] /\ out'[p] = b
  BY <1>0, <1>2, <1>3, <1>4
<1>7. CASE closed[q]
  BY <1>0, <1>2, <1>5, <1>6, <1>7 DEF Texts, q
<1>8. CASE ~closed[q]
  <2>0. stream[q] \in Seq(Words) /\ a \in Seq(Words) /\ b \in Seq(Words)
    BY <1>0, <1>2, <1>3
  <2>1. stream[q] \o a \in Seq(Words) /\ Len(stream[q] \o a) = Len(stream[q]) + Len(a)
    BY <2>0, ConcatProperties, Zenon
  <2>2. /\ stream' \in [Sides -> Seq(Words)] /\ stream'[p] = stream[p]
        /\ stream'[q] = stream[q] \o a
    BY <1>0, <1>2, <1>5, <1>8, <2>1
  <2>3. (stream[q] \o a) \o b = stream[q] \o (a \o b)
    <3>1. stream[q] \in Texts /\ a \in Texts /\ b \in Texts
      BY <2>0 DEF Texts
    <3>. DEFINE c == stream[q]
    <3>. HIDE DEF c
    <3>2. (c \o a) \o b = c \o (a \o b)
      BY <3>1, JoinAssociative, Zenon DEF c
    <3>. QED
      BY <3>2 DEF c
  <2>4. \A x \in Sides : Len(stream'[x]) <= SocketSize
    BY <1>0, <1>2, <1>3, <1>5, <1>8, <2>1, <2>2
  <2>5. reset' = reset /\ reset \in BOOLEAN
    BY <1>5, <1>8 DEF TypeOK
  <2>. QED
    BY <1>3, <1>6, <1>8, <2>2, <2>3, <2>4, <2>5, Zenon DEF Texts, q
<1>. QED
  BY <1>7, <1>8

(* Fill brings bytes into rio_buf.                                         *)
LEMMA FillFacts ==
    ASSUME TypeOK, NEW p \in Sides, Fill(p)
    PROVE  /\ rio' \in [Sides -> Texts] /\ stream' \in [Sides -> Texts]
           /\ \A q \in Sides : Len(stream'[q]) <= SocketSize /\ Len(rio'[q]) <= RioSize
           /\ \A q \in Sides \ {p} : rio'[q] = rio[q] /\ stream'[q] = stream[q]
           /\ rio'[p] \o stream'[p] = rio[p] \o stream[p]
<1>1. PICK k \in 1 .. RioSize :
         /\ k <= Len(stream[p])
         /\ rio' = [rio EXCEPT ![p] = SubSeq(stream[p], 1, k)]
         /\ stream' = [stream EXCEPT ![p] = SubSeq(@, k + 1, Len(@))]
  BY DEF Fill
<1>2. /\ rio \in [Sides -> Texts] /\ stream \in [Sides -> Texts] /\ rio[p] = <<>>
      /\ \A q \in Sides : Len(stream[q]) <= SocketSize /\ Len(rio[q]) <= RioSize
      /\ stream[p] \in Texts /\ Len(stream[p]) \in Nat
      /\ RioSize \in Nat /\ SocketSize \in Nat
  <2>1. RioSize \in Nat /\ SocketSize \in Nat
    BY ConnectionAssumption
  <2>. QED
    BY <2>1, Joining DEF TypeOK, Fill
<1>. DEFINE a == SubSeq(stream[p], 1, k)
            b == SubSeq(stream[p], k + 1, Len(stream[p]))
<1>3. /\ a \in Texts /\ b \in Texts /\ Len(a) = k /\ Len(b) = Len(stream[p]) - k
      /\ a \o b = stream[p]
  <2>1. k \in 0 .. Len(stream[p]) /\ stream[p] \in Seq(Words)
    BY <1>1, <1>2 DEF Texts
  <2>. QED
    BY <2>1, SplitAt, Zenon DEF Texts
<1>4. rio' = [rio EXCEPT ![p] = a] /\ stream' = [stream EXCEPT ![p] = b]
  BY <1>1, <1>2
<1>. HIDE DEF a, b
<1>5. rio[p] \o stream[p] = stream[p]
  BY <1>2, Joining, Zenon
<1>6. /\ rio' \in [Sides -> Texts] /\ stream' \in [Sides -> Texts]
      /\ \A q \in Sides \ {p} : rio'[q] = rio[q] /\ stream'[q] = stream[q]
      /\ rio'[p] = a /\ stream'[p] = b
  BY <1>2, <1>3, <1>4
<1>7. Len(a) <= RioSize /\ Len(b) <= SocketSize
  BY <1>1, <1>2, <1>3
<1>8. \A q \in Sides : Len(stream'[q]) <= SocketSize /\ Len(rio'[q]) <= RioSize
  BY <1>2, <1>6, <1>7
<1>. QED
  BY <1>3, <1>5, <1>6, <1>8, Zenon

(* Collect takes as many bytes as there are, or up to the end of the line. *)
LEMMA CollectTakes ==
    ASSUME TypeOK, NEW p \in Sides, Collect(p)
    PROVE  \E n \in 1 .. Len(rio[p]) :
              /\ line' = [line EXCEPT ![p] = line[p] \o SubSeq(rio[p], 1, n)]
              /\ rio' = [rio EXCEPT ![p] = SubSeq(rio[p], n + 1, Len(rio[p]))]
              /\ \A k \in 1 .. (n - 1) : rio[p][k] # NL /\ Len(line[p]) + k # MaxLine
<1>1. /\ rio \in [Sides -> Texts] /\ line \in [Sides -> Texts]
      /\ rio[p] \in Seq(Words) /\ line[p] \in Seq(Words) /\ rio[p] # <<>>
  BY DEF TypeOK, Texts, Collect
<1>2. Len(rio[p]) \in Nat \ {0} /\ DOMAIN rio[p] = 1 .. Len(rio[p]) /\ Len(line[p]) \in Nat
  BY <1>1, LenProperties, EmptySeq
<1>. DEFINE upto(k) == line[p] \o SubSeq(rio[p], 1, k)
            Q == {k \in DOMAIN rio[p] : Ended(upto(k)) \/ k = Len(rio[p])}
            n == Min(Q)
<1>3. n \in Q /\ \A k \in Q : n <= k
  <2>1. Q \in SUBSET Nat /\ Q # {}
    BY <1>2
  <2>. HIDE DEF Q
  <2>2. \E m \in Q : \A k \in Q : m <= k
    BY <2>1, LeastNat
  <2>. QED
    BY <2>2 DEF Min
<1>4. n \in 1 .. Len(rio[p]) /\ \A k \in 1 .. (n - 1) : ~Ended(upto(k))
  <2>1. n \in 1 .. Len(rio[p])
    BY <1>2, <1>3
  <2>2. \A k \in 1 .. (n - 1) : k \in DOMAIN rio[p] /\ k \notin Q
    <3>. HIDE DEF n
    <3>. QED
      BY <1>2, <1>3, <2>1
  <2>. HIDE DEF n
  <2>. QED
    BY <2>1, <2>2
<1>5. /\ line' = [line EXCEPT ![p] = upto(n)]
      /\ rio' = [rio EXCEPT ![p] = SubSeq(rio[p], n + 1, Len(rio[p]))]
  BY <1>1 DEF Collect
<1>. HIDE DEF n
<1>6. \A k \in 1 .. (n - 1) : rio[p][k] # NL /\ Len(line[p]) + k # MaxLine
  <2>. SUFFICES ASSUME NEW k \in 1 .. (n - 1)
                PROVE  rio[p][k] # NL /\ Len(line[p]) + k # MaxLine
    OBVIOUS
  <2>. DEFINE a == SubSeq(rio[p], 1, k)
              t == line[p] \o a
  <2>1. k \in Nat \ {0} /\ k <= Len(rio[p]) /\ 1 <= k
    BY <1>2, <1>4
  <2>2. a \in Seq(Words) /\ Len(a) = k /\ a[k] = rio[p][k]
    <3>1. 1 \in Int /\ k \in Int /\ \A i \in 1 .. k : rio[p][i] \in Words
      BY <1>1, <1>2, <2>1, LenProperties
    <3>2. /\ a \in Seq(Words) /\ Len(a) = IF 1 <= k THEN k - 1 + 1 ELSE 0
          /\ \A i \in 1 .. (k - 1 + 1) : a[i] = rio[p][1 + i - 1]
      BY <3>1, SubSeqProperties
    <3>3. k \in 1 .. (k - 1 + 1) /\ 1 + k - 1 = k
      BY <2>1
    <3>. HIDE DEF a
    <3>. QED
      BY <2>1, <3>2, <3>3
  <2>. HIDE DEF a
  <2>3. /\ Len(t) = Len(line[p]) + Len(a)
        /\ \A i \in 1 .. (Len(line[p]) + Len(a)) :
               t[i] = IF i <= Len(line[p]) THEN line[p][i] ELSE a[i - Len(line[p])]
    BY <1>1, <2>2, ConcatProperties, Zenon
  <2>4. ~Ended(t)
    BY <1>4 DEF a
  <2>. HIDE DEF t
  <2>5. t[Len(t)] = rio[p][k]
    <3>1. /\ Len(t) \in 1 .. (Len(line[p]) + Len(a)) /\ ~(Len(t) <= Len(line[p]))
          /\ Len(t) - Len(line[p]) = k
      BY <1>2, <2>1, <2>2, <2>3
    <3>2. t[Len(t)] = a[Len(t) - Len(line[p])]
      BY <2>3, <3>1
    <3>. QED
      BY <2>2, <3>1, <3>2
  <2>. QED
    BY <2>2, <2>3, <2>4, <2>5 DEF Ended, Last
<1>. QED
  BY <1>4, <1>5, <1>6

LEMMA CollectFacts ==
    ASSUME TypeOK, LineShape, NEW p \in Sides, Collect(p), ~LineRead(p)
    PROVE  /\ rio' \in [Sides -> Texts] /\ line' \in [Sides -> Texts]
           /\ \A q \in Sides : Len(rio'[q]) <= RioSize /\ Len(line'[q]) <= MaxLine
           /\ \A q \in Sides \ {p} : rio'[q] = rio[q] /\ line'[q] = line[q]
           /\ line'[p] \o rio'[p] = line[p] \o rio[p]
           /\ LineShape'
<1>1. PICK n \in 1 .. Len(rio[p]) :
         /\ line' = [line EXCEPT ![p] = line[p] \o SubSeq(rio[p], 1, n)]
         /\ rio' = [rio EXCEPT ![p] = SubSeq(rio[p], n + 1, Len(rio[p]))]
         /\ \A k \in 1 .. (n - 1) : rio[p][k] # NL /\ Len(line[p]) + k # MaxLine
  BY CollectTakes
<1>. DEFINE old == line[p]
            a == SubSeq(rio[p], 1, n)
            b == SubSeq(rio[p], n + 1, Len(rio[p]))
<1>2. /\ rio \in [Sides -> Texts] /\ line \in [Sides -> Texts]
      /\ \A q \in Sides : Len(rio[q]) <= RioSize /\ Len(line[q]) <= MaxLine
      /\ rio[p] \in Texts /\ Len(rio[p]) \in Nat /\ old \in Texts /\ Len(old) \in Nat
      /\ RioSize \in Nat /\ MaxLine \in Nat /\ MaxLine >= 2
  <2>1. RioSize \in Nat /\ MaxLine \in Nat /\ MaxLine >= 2
    BY ConnectionAssumption
  <2>. QED
    BY <2>1, Joining DEF TypeOK
<1>3. /\ a \in Texts /\ b \in Texts /\ Len(a) = n /\ Len(b) = Len(rio[p]) - n
      /\ a \o b = rio[p]
  <2>1. n \in 0 .. Len(rio[p]) /\ rio[p] \in Seq(Words)
    BY <1>2 DEF Texts
  <2>. QED
    BY <2>1, SplitAt, Zenon DEF Texts
<1>4. \A k \in 1 .. (n - 1) : a[k] # NL /\ Len(old) + k # MaxLine
  <2>1. \A k \in 1 .. n : a[k] = rio[p][k]
    <3>1. 1 \in Int /\ n \in Int /\ \A i \in 1 .. n : rio[p][i] \in Words
      BY <1>2, LenProperties DEF Texts
    <3>2. \A i \in 1 .. (n - 1 + 1) : a[i] = rio[p][1 + i - 1]
      BY <3>1, SubSeqProperties
    <3>. HIDE DEF a
    <3>. QED
      BY <3>2
  <2>. HIDE DEF a
  <2>. QED
    BY <1>1, <2>1
<1>5. old = <<>> \/ (old[Len(old)] # NL /\ Len(old) # MaxLine)
  BY DEF LineRead, Ended, Last
<1>. DEFINE new == old \o a
<1>6. rio' = [rio EXCEPT ![p] = b] /\ line' = [line EXCEPT ![p] = new]
  BY <1>1
<1>7. new \o b = old \o rio[p]
  <2>. HIDE DEF a, b, old
  <2>1. (old \o a) \o b = old \o (a \o b)
    <3>1. old \in Texts /\ a \in Texts /\ b \in Texts
      BY <1>2, <1>3
    <3>. QED
      BY <3>1, JoinAssociative, Zenon
  <2>. QED
    BY <1>3, <2>1
<1>. HIDE DEF a, b
<1>8. /\ new \in Texts /\ Len(new) = Len(old) + n
      /\ \A i \in 1 .. (Len(old) + n) : new[i] = IF i <= Len(old) THEN old[i] ELSE a[i - Len(old)]
  <2>1. old \in Seq(Words) /\ a \in Seq(Words)
    BY <1>2, <1>3 DEF Texts
  <2>2. /\ new \in Seq(Words) /\ Len(new) = Len(old) + Len(a)
        /\ \A i \in 1 .. (Len(old) + Len(a)) :
              new[i] = IF i <= Len(old) THEN old[i] ELSE a[i - Len(old)]
    BY <2>1, ConcatProperties, Zenon
  <2>. QED
    BY <1>3, <2>2, Zenon DEF Texts
<1>. HIDE DEF new
<1>9. \A k \in 1 .. (Len(new) - 1) : new[k] # NL /\ k # MaxLine
  <2>. SUFFICES ASSUME NEW k \in 1 .. (Len(new) - 1)
                PROVE  new[k] # NL /\ k # MaxLine
    OBVIOUS
  <2>1. CASE k <= Len(old) - 1
    <3>1. old[k] # NL /\ k # MaxLine
      BY <1>2, <2>1 DEF LineShape
    <3>. HIDE DEF old
    <3>. QED
      BY <1>2, <1>8, <2>1, <3>1
  <2>2. CASE k = Len(old)
    <3>1. old # <<>>
      BY <2>2, EmptySeq
    <3>. HIDE DEF old
    <3>. QED
      BY <1>2, <1>5, <1>8, <2>2, <3>1
  <2>3. CASE k > Len(old)
    <3>. HIDE DEF old
    <3>1. k - Len(old) \in 1 .. (n - 1) /\ k \in 1 .. (Len(old) + n) /\ ~(k <= Len(old))
          /\ Len(old) + (k - Len(old)) = k
      <4>. DEFINE m == Len(old)
      <4>. HIDE DEF m
      <4>1. n \in Nat /\ m \in Nat /\ k \in 1 .. (m + n - 1) /\ k > m
        BY <1>2, <1>8, <2>3 DEF m
      <4>2. k - m \in 1 .. (n - 1) /\ k \in 1 .. (m + n) /\ ~(k <= m) /\ m + (k - m) = k
        BY <4>1
      <4>. QED
        BY <4>2 DEF m
    <3>2. new[k] = a[k - Len(old)]
      BY <1>8, <3>1
    <3>. QED
      BY <1>4, <3>1, <3>2
  <2>. QED
    BY <1>2, <2>1, <2>2, <2>3
<1>10. Len(new) <= MaxLine
  <2>1. MaxLine \notin 1 .. (Len(new) - 1)
    BY <1>9
  <2>. HIDE DEF old
  <2>. QED
    BY <1>2, <1>8, <2>1
<1>11. /\ rio' \in [Sides -> Texts] /\ line' \in [Sides -> Texts]
       /\ \A q \in Sides \ {p} : rio'[q] = rio[q] /\ line'[q] = line[q]
       /\ rio'[p] = b /\ line'[p] = new
  BY <1>2, <1>3, <1>6, <1>8
<1>12. Len(b) <= RioSize
  BY <1>1, <1>2, <1>3
<1>13. LineShape'
  <2>. SUFFICES ASSUME NEW q \in Sides, NEW k \in 1 .. (Len(line'[q]) - 1)
                PROVE  line'[q][k] # NL /\ k # MaxLine
    BY DEF LineShape
  <2>1. CASE q = p
    BY <1>9, <1>11, <2>1
  <2>2. CASE q # p
    BY <1>11, <2>2 DEF LineShape
  <2>. QED
    BY <2>1, <2>2
<1>14. \A q \in Sides : Len(rio'[q]) <= RioSize /\ Len(line'[q]) <= MaxLine
  <2>. HIDE DEF old
  <2>. QED
    BY <1>2, <1>10, <1>11, <1>12
<1>. QED
  BY <1>7, <1>11, <1>13, <1>14, Zenon

LEMMA RestFacts ==
    ASSUME TypeOK, NEW p \in Sides
    PROVE  /\ line[p] \in Texts /\ rio[p] \in Texts /\ stream[p] \in Texts
           /\ out[Peer(p)] \in Texts /\ Rest(p) \in Texts
           /\ Rest(p) = <<>> <=> /\ line[p] = <<>> /\ rio[p] = <<>>
                                /\ stream[p] = <<>> /\ out[Peer(p)] = <<>>
<1>1. /\ line[p] \in Texts /\ rio[p] \in Texts /\ stream[p] \in Texts
      /\ out[Peer(p)] \in Texts
  BY PeerFacts DEF TypeOK
<1>2. \A s, t \in Texts : s \o t \in Texts /\ (s \o t = <<>> <=> s = <<>> /\ t = <<>>)
  BY Joining, Zenon
<1>. QED
  BY <1>1, <1>2, Zenon DEF Rest

LEMMA ReadKeeps ==
    ASSUME TypeOK, LineShape, NEW p \in Sides, rio_readlineb(p)
    PROVE  /\ rio' \in [Sides -> Texts] /\ line' \in [Sides -> Texts]
           /\ stream' \in [Sides -> Texts]
           /\ \A q \in Sides : /\ Len(rio'[q]) <= RioSize /\ Len(line'[q]) <= MaxLine
                               /\ Len(stream'[q]) <= SocketSize
           /\ LineShape'
           /\ \A q \in Sides : Rest(q)' = Rest(q)
<1>0. out' = out /\ \A q \in Sides : /\ Len(rio[q]) <= RioSize /\ Len(line[q]) <= MaxLine
                                      /\ Len(stream[q]) <= SocketSize
  BY DEF rio_readlineb, TypeOK
<1>. DEFINE o == out[Peer(p)]
            sp == stream[p]
            rp == rio[p]
            lp == line[p]
<1>1. o \in Texts /\ sp \in Texts /\ rp \in Texts /\ lp \in Texts
  BY RestFacts
<1>2. CASE Fill(p) /\ UNCHANGED line
  <2>1. /\ rio' \in [Sides -> Texts] /\ stream' \in [Sides -> Texts]
        /\ \A q \in Sides : Len(stream'[q]) <= SocketSize /\ Len(rio'[q]) <= RioSize
        /\ \A q \in Sides \ {p} : rio'[q] = rio[q] /\ stream'[q] = stream[q]
        /\ rio'[p] \o stream'[p] = rio[p] \o stream[p]
    BY <1>2, FillFacts
  <2>2. line' = line /\ line \in [Sides -> Texts] /\ LineShape'
    BY <1>2 DEF TypeOK, LineShape
  <2>3. Rest(p)' = Rest(p)
    <3>. DEFINE nr == rio'[p]
                ns == stream'[p]
    <3>1. nr \in Texts /\ ns \in Texts /\ nr \o ns = rp \o sp
      BY <2>1
    <3>2. Rest(p)' = lp \o (nr \o (ns \o o))
      BY <1>0, <2>2 DEF Rest
    <3>3. Rest(p) = lp \o (rp \o (sp \o o))
      BY DEF Rest
    <3>. HIDE DEF o, sp, rp, lp, nr, ns
    <3>4. o \in Texts /\ sp \in Texts /\ rp \in Texts /\ nr \in Texts /\ ns \in Texts
      BY <1>1, <3>1
    <3>5. (nr \o ns) \o o = nr \o (ns \o o)
      BY <3>4, JoinAssociative, Zenon
    <3>6. (rp \o sp) \o o = rp \o (sp \o o)
      BY <3>4, JoinAssociative, Zenon
    <3>. QED
      BY <3>1, <3>2, <3>3, <3>5, <3>6
  <2>4. \A q \in Sides \ {p} : Rest(q)' = Rest(q)
    BY <1>0, <2>1, <2>2 DEF Rest
  <2>. QED
    BY <1>0, <2>1, <2>2, <2>3, <2>4
<1>3. CASE Collect(p) /\ UNCHANGED stream
  <2>0. ~LineRead(p)
    BY DEF rio_readlineb
  <2>1. /\ rio' \in [Sides -> Texts] /\ line' \in [Sides -> Texts]
        /\ \A q \in Sides : Len(rio'[q]) <= RioSize /\ Len(line'[q]) <= MaxLine
        /\ \A q \in Sides \ {p} : rio'[q] = rio[q] /\ line'[q] = line[q]
        /\ line'[p] \o rio'[p] = line[p] \o rio[p]
        /\ LineShape'
    BY <1>3, <2>0, CollectFacts
  <2>2. stream' = stream /\ stream \in [Sides -> Texts]
    BY <1>3 DEF TypeOK
  <2>3. Rest(p)' = Rest(p)
    <3>. DEFINE nr == rio'[p]
                nl == line'[p]
                x == sp \o o
    <3>1. nr \in Texts /\ nl \in Texts /\ nl \o nr = lp \o rp
      BY <2>1
    <3>2. Rest(p)' = nl \o (nr \o x)
      BY <1>0, <2>2 DEF Rest
    <3>3. Rest(p) = lp \o (rp \o x)
      BY DEF Rest
    <3>4. x \in Texts
      BY <1>1, Joining
    <3>. HIDE DEF o, sp, rp, lp, nr, nl, x
    <3>5. x \in Texts /\ lp \in Texts /\ rp \in Texts /\ nr \in Texts /\ nl \in Texts
      BY <1>1, <3>1, <3>4
    <3>6. (nl \o nr) \o x = nl \o (nr \o x)
      BY <3>5, JoinAssociative, Zenon
    <3>7. (lp \o rp) \o x = lp \o (rp \o x)
      BY <3>5, JoinAssociative, Zenon
    <3>. QED
      BY <3>1, <3>2, <3>3, <3>6, <3>7
  <2>4. \A q \in Sides \ {p} : Rest(q)' = Rest(q)
    BY <1>0, <2>1, <2>2 DEF Rest
  <2>. QED
    BY <1>0, <2>1, <2>2, <2>3, <2>4
<1>. QED
  BY <1>2, <1>3 DEF rio_readlineb

LEMMA WriteKeeps ==
    ASSUME TypeOK, NEW p \in Sides, rio_write(p)
    PROVE  /\ Rest(p)' = Rest(p)
           /\ ~closed[Peer(p)] => \A q \in Sides : Rest(q)' = Rest(q)
<1>1. /\ line' = line /\ rio' = rio
      /\ out'[Peer(p)] = out[Peer(p)] /\ stream'[p] = stream[p]
      /\ ~closed[Peer(p)] => stream'[Peer(p)] \o out'[p] = stream[Peer(p)] \o out[p]
  BY WriteFacts DEF rio_write
<1>2. Rest(p)' = Rest(p)
  BY <1>1 DEF Rest
<1>3. ~closed[Peer(p)] => Rest(Peer(p))' = Rest(Peer(p))
  BY <1>1, PeerFacts DEF Rest
<1>. QED
  BY <1>2, <1>3, PeerFacts

-----------------------------------------------------------------------------
(* Lines.                                                                  *)

Behind(p) == rio[p] \o (stream[p] \o out[Peer(p)])

LEMMA Numbers ==
    /\ \A m \in Nat : m # 0 /\ m # 1 => m >= 2
    /\ \A m \in Nat : m >= 2 /\ ~(m > 2) => m = 2
    /\ \A m \in Nat : m >= 2 => m # 1
    /\ 1 \in 1 .. 1
OBVIOUS

(* A line that starts with a word and a newline is read as these two.      *)
LEMMA LineOfTwo ==
    ASSUME TypeOK, LineShape, NEW p \in Sides, LineRead(p),
           closed[Peer(p)] => out[Peer(p)] = <<>>,
           NEW text \in Seq(Word), NEW n \in 1 .. (Len(text) - 1),
           Rest(p) = From(text, n), text[n] # NL, text[n + 1] = NL
    PROVE  line[p] = <<text[n], text[n + 1]>> /\ Behind(p) = From(text, n + 2)
<1>. DEFINE a == line[p]
            b == Behind(p)
            t == From(text, n)
<1>1. /\ a \in Texts /\ b \in Texts /\ a \o b = t
      /\ rio[p] \in Texts /\ stream[p] \in Texts /\ out[Peer(p)] \in Texts
  BY RestFacts, Joining DEF Rest, Behind
<1>2. a \in Seq(Word) /\ b \in Seq(Word)
  BY <1>1, TextTypes
<1>3. /\ Len(text) \in Nat /\ Len(t) = Len(text) - n + 1
      /\ \A i \in 1 .. (Len(text) - n + 1) : t[i] = text[n + i - 1]
  <2>1. n \in 1 .. (Len(text) + 1)
    BY LenProperties
  <2>. QED
    BY <2>1, FromFacts
<1>4. Len(t) >= 2 /\ t[1] # NL /\ t[2] = NL
  <2>1. /\ 1 \in 1 .. (Len(text) - n + 1) /\ n + 1 - 1 = n
        /\ 2 \in 1 .. (Len(text) - n + 1) /\ n + 2 - 1 = n + 1
    BY <1>3
  <2>2. t[1] = text[n] /\ t[2] = text[n + 1]
    <3>. HIDE DEF t
    <3>1. t[1] = text[n + 1 - 1] /\ t[2] = text[n + 2 - 1]
      BY <1>3, <2>1
    <3>. QED
      BY <2>1, <3>1
  <2>. QED
    BY <1>3, <2>1, <2>2
<1>. HIDE DEF t
<1>5. /\ Len(a) \in Nat /\ Len(b) \in Nat /\ Len(t) = Len(a) + Len(b)
      /\ \A i \in 1 .. Len(a) : t[i] = a[i]
  <2>. HIDE DEF a, b
  <2>1. /\ Len(a \o b) = Len(a) + Len(b) /\ Len(a) \in Nat /\ Len(b) \in Nat
        /\ \A i \in 1 .. (Len(a) + Len(b)) :
              (a \o b)[i] = IF i <= Len(a) THEN a[i] ELSE b[i - Len(a)]
    BY <1>2, ConcatProperties, LenProperties
  <2>2. /\ Len(t) = Len(a) + Len(b)
        /\ \A i \in 1 .. (Len(a) + Len(b)) : t[i] = IF i <= Len(a) THEN a[i] ELSE b[i - Len(a)]
    BY <1>1, <2>1, Zenon
  <2>. QED
    BY <2>1, <2>2
<1>6. MaxLine \in Nat /\ MaxLine >= 2
  BY ConnectionAssumption
<1>7. Len(a) >= 2
  <2>1. CASE rio[p] = <<>> /\ stream[p] = <<>> /\ closed[Peer(p)]
    <3>1. b = <<>>
      BY <1>1, <2>1, Joining DEF Behind
    <3>2. Len(b) = 0
      BY <3>1, EmptySeq
    <3>. HIDE DEF a, b
    <3>. QED
      BY <1>4, <1>5, <3>2
  <2>2. CASE a # <<>> /\ Ended(a)
    <3>1. a[Len(a)] = NL \/ Len(a) = MaxLine
      BY <2>2 DEF Ended, Last
    <3>2. Len(a) # 0
      BY <1>2, <2>2, EmptySeq
    <3>. HIDE DEF a, b
    <3>3. Len(a) # 1
      <4>. SUFFICES ASSUME Len(a) = 1 PROVE FALSE
        OBVIOUS
      <4>1. t[1] = a[1]
        BY <1>5, Numbers, Zenon
      <4>2. MaxLine # 1
        BY <1>6, Numbers, Zenon
      <4>. QED
        BY <1>4, <3>1, <4>1, <4>2, Zenon
    <3>. QED
      BY <1>5, <3>2, <3>3, Numbers, Zenon
  <2>. QED
    BY <2>1, <2>2 DEF LineRead
<1>8. ~(Len(a) > 2)
  <2>. SUFFICES ASSUME Len(a) > 2 PROVE FALSE
    OBVIOUS
  <2>1. 2 \in 1 .. (Len(a) - 1)
    BY <1>5
  <2>2. a[2] # NL
    BY <2>1 DEF LineShape
  <2>. HIDE DEF a, b
  <2>. QED
    BY <1>4, <1>5, <2>2
<1>9. Len(a) = 2
  BY <1>5, <1>7, <1>8, Numbers, Zenon
<1>10. a \o b = From(text, n)
  BY <1>1 DEF t
<1>. HIDE DEF a, b
<1>11. b = From(text, n + 2) /\ a = <<text[n], text[n + 1]>>
  BY <1>2, <1>9, <1>10, TakeTwo, Zenon
<1>. QED
  BY <1>11 DEF a, b

(* What sscanf finds in the first line, also if the client is gone.        *)
LEMMA RequestParsed ==
    ASSUME TypeOK, RequestFlow, spc = "line"
    PROVE  \A r \in Parsed(Held("server")) : r \in Requests
<1>1. /\ Rest("server") = Text(request) /\ buf["server"] = <<>> /\ request \in Requests
      /\ "server" \in Sides
  BY DEF RequestFlow, TypeOK, Sides
<1>2. CASE line["server"] = <<>>
  BY <1>1, <1>2 DEF Held, Parsed
<1>3. CASE line["server"] # <<>>
  <2>. DEFINE a == line["server"]
              b == Behind("server")
  <2>1. a \in Texts /\ b \in Texts /\ a \o b = Text(request)
    BY <1>1, RestFacts, Joining DEF Rest, Behind
  <2>2. a \in Seq(Word) /\ b \in Seq(Word)
    BY <2>1, TextTypes
  <2>3. Len(a) \in Nat \ {0} /\ Len(b) \in Nat
    BY <1>3, <2>2, EmptySeq, LenProperties
  <2>. HIDE DEF b
  <2>4. a[1] = <<request.method, request.file>>
    <3>. HIDE DEF a
    <3>1. /\ \A i \in 1 .. (Len(a) + Len(b)) :
                (a \o b)[i] = IF i <= Len(a) THEN a[i] ELSE b[i - Len(a)]
      BY <2>2, ConcatProperties, Zenon
    <3>2. \A i \in 1 .. (Len(a) + Len(b)) :
                Text(request)[i] = IF i <= Len(a) THEN a[i] ELSE b[i - Len(a)]
      BY <2>1, <3>1, Zenon
    <3>3. Text(request)[1] = a[1]
      BY <2>3, <3>2
    <3>. QED
      BY <1>1, <3>3, TextShape
  <2>5. Parsed(Held("server")) = {[method |-> request.method, file |-> request.file]}
    BY <1>3, <2>4 DEF Parsed, Held
  <2>. QED
    BY <1>1, <2>5 DEF Requests
<1>. QED
  BY <1>2, <1>3

-----------------------------------------------------------------------------
(* Types.                                                                  *)

(* The parts of TypeOK that most steps leave alone.                        *)
Places == /\ cpc \in {"rest", "send", "header", "body"}
          /\ spc \in {"accept", "line", "headers", "reply", "exit"}
          /\ closed \in [Sides -> BOOLEAN] /\ reset \in BOOLEAN
          /\ result \in {"none", "ok", "failed"}
Reads  == request \in Requests /\ file \in Files \cup {0}
          /\ length \in Nat /\ csum \in Nat /\ received \in Texts
          /\ buf \in [Sides -> Texts]
Flows  == /\ stream \in [Sides -> Texts] /\ rio \in [Sides -> Texts]
          /\ \A p \in Sides : Len(rio[p]) <= RioSize /\ Len(stream[p]) <= SocketSize
Lines  == line \in [Sides -> Texts] /\ \A p \in Sides : Len(line[p]) <= MaxLine

LEMMA TypeParts == TypeOK <=> Places /\ Reads /\ Flows /\ Lines /\ out \in [Sides -> Texts]
BY DEF TypeOK, Places, Reads, Flows, Lines

(* A line that is returned leaves an empty one.                            *)
LEMMA ReturnedTypes ==
    ASSUME TypeOK, NEW p \in Sides, Returned(p)
    PROVE  Lines' /\ Held(p) \in Texts /\ line[p] \in Texts /\ line'[p] = <<>>
           /\ \A q \in Sides \ {p} : line'[q] = line[q]
<1>1. MaxLine \in Nat
  BY ConnectionAssumption
<1>2. Len(<<>>) = 0 /\ <<>> \in Texts
  BY Joining
<1>. QED
  BY <1>1, <1>2 DEF TypeOK, Lines, Held, Returned

LEMMA TypeStep ==
    TypeOK /\ LineShape /\ RequestFlow /\ [Next]_vars => TypeOK'
<1>. SUFFICES ASSUME TypeOK, LineShape, RequestFlow, [Next]_vars
              PROVE  Places' /\ Reads' /\ Flows' /\ Lines' /\ out' \in [Sides -> Texts]
  BY DEF TypeOK, Places, Reads, Flows, Lines
<1>0. /\ Places /\ Reads /\ Flows /\ Lines /\ out \in [Sides -> Texts]
      /\ "server" \in Sides /\ "client" \in Sides
      /\ <<>> \in Texts /\ Len(<<>>) = 0
      /\ MaxLine \in Nat /\ RioSize \in Nat /\ SocketSize \in Nat
  BY TypeParts, Joining, ConnectionAssumption DEF Sides
<1>1. ASSUME NEW r \in Requests, connect(r)
      PROVE  Places' /\ Reads' /\ Flows' /\ Lines' /\ out' \in [Sides -> Texts]
  <2>1. Text(r) \in Texts
    BY TextTypes
  <2>2. out' \in [Sides -> Texts]
    BY <1>0, <1>1, <2>1 DEF connect, Sides
  <2>3. Flows' /\ Lines'
    BY <1>0, <1>1 DEF connect, Flows, Lines
  <2>4. Places' /\ Reads'
    BY <1>0, <1>1 DEF connect, Places, Reads
  <2>. QED
    BY <2>2, <2>3, <2>4
<1>2. ASSUME NEW p \in Sides, rio_write(p)
      PROVE  Places' /\ Reads' /\ Flows' /\ Lines' /\ out' \in [Sides -> Texts]
  <2>1. /\ out' \in [Sides -> Texts] /\ stream' \in [Sides -> Texts] /\ reset' \in BOOLEAN
        /\ \A q \in Sides : Len(stream'[q]) <= SocketSize
    BY <1>2, WriteFacts DEF rio_write
  <2>. QED
    BY <1>0, <1>2, <2>1 DEF rio_write, Places, Reads, Flows, Lines, clientVars
<1>3. ASSUME NEW p \in Sides, rio_readlineb(p)
      PROVE  Places' /\ Reads' /\ Flows' /\ Lines' /\ out' \in [Sides -> Texts]
  <2>1. Flows' /\ Lines'
    BY <1>3, ReadKeeps DEF Flows, Lines
  <2>. QED
    BY <1>0, <1>3, <2>1 DEF rio_readlineb, Places, Reads, clientVars
<1>4. ASSUME NEW p \in Sides, Close(p)
      PROVE  closed' \in [Sides -> BOOLEAN] /\ reset' \in BOOLEAN
  BY <1>0, <1>4 DEF Close, Places
<1>5. CASE ServerFails
  BY <1>0, <1>4, <1>5 DEF ServerFails, Places, Reads, Flows, Lines, clientVars
<1>6. CASE request_init
  <2>1. PICK r \in Parsed(Held("server")) :
          \/ r.method = "GET" /\ spc' = "headers" /\ file' = r.file /\ UNCHANGED out
          \/ /\ r.method # "GET" /\ spc' = "reply" /\ UNCHANGED file
             /\ out' = [out EXCEPT !["server"] = Error(501)]
    BY <1>6 DEF request_init
  <2>2. r \in Requests
    BY <1>6, RequestParsed DEF request_init
  <2>3. r.file \in Files
    BY <2>2 DEF Requests
  <2>4. Lines'
    BY <1>0, <1>6, ReturnedTypes DEF request_init
  <2>5. out' \in [Sides -> Texts]
    <3>1. Error(501) \in Texts
      BY TextTypes, Zenon
    <3>. QED
      BY <1>0, <2>1, <3>1
  <2>6. buf' \in [Sides -> Texts]
    BY <1>0, <1>6 DEF request_init, Reads
  <2>7. Places' /\ Reads' /\ Flows'
    BY <1>0, <1>6, <2>1, <2>3, <2>6 DEF request_init, Places, Reads, Flows, clientVars
  <2>. QED
    BY <2>4, <2>5, <2>7
<1>7. CASE request_read_headers
  <2>1. \/ spc' = spc /\ UNCHANGED out
        \/ spc' = "reply" /\ out' = [out EXCEPT !["server"] = Sent(file)]
    BY <1>7 DEF request_read_headers, HeadersEnd
  <2>2. file \in Files
    BY <1>7 DEF request_read_headers, RequestFlow
  <2>3. Lines' /\ Held("server") \in Texts
    BY <1>0, <1>7, ReturnedTypes DEF request_read_headers
  <2>4. out' \in [Sides -> Texts]
    BY <1>0, <2>1, <2>2, TextTypes
  <2>5. buf' \in [Sides -> Texts]
    BY <1>0, <1>7, <2>3 DEF request_read_headers, Reads
  <2>6. Places' /\ Reads' /\ Flows'
    BY <1>0, <1>7, <2>1, <2>5 DEF request_read_headers, Places, Reads, Flows, clientVars
  <2>. QED
    BY <2>3, <2>4, <2>6
<1>8. CASE request_destroy
  BY <1>0, <1>4, <1>8 DEF request_destroy, Places, Reads, Flows, Lines, clientVars
<1>9. CASE ClientFails
  BY <1>0, <1>4, <1>9 DEF ClientFails, ClientEnds, Places, Reads, Flows, Lines, clientVars
<1>10. CASE ClientKilled
  BY <1>0, <1>4, <1>10 DEF ClientKilled, ClientEnds, Places, Reads, Flows, Lines, clientVars
<1>11. CASE client_sent
  BY <1>0, <1>11 DEF client_sent, Places, Reads, Flows, Lines, clientVars
<1>12. CASE client_header
  <2>1. Lines' /\ Held("client") \in Texts /\ line["client"] \in Texts
    BY <1>0, <1>12, ReturnedTypes DEF client_header
  <2>2. buf' \in [Sides -> Texts]
    BY <1>0, <1>12, <2>1 DEF client_header, Reads
  <2>3. length' \in Nat /\ csum' \in Nat
    <3>1. CASE line["client"] = <<>>
      BY <1>0, <1>12, <3>1 DEF client_header, Reads
    <3>2. CASE line["client"] # <<>>
      <4>1. line["client"][1] \in Word
        <5>1. line["client"] \in Seq(Word)
          BY <2>1, TextTypes
        <5>2. 1 \in 1 .. Len(line["client"])
          BY <3>2, <5>1, EmptySeq
        <5>. QED
          BY <5>1, <5>2, ElementOfSeq, Zenon
      <4>2. line["client"][1][2] \in Nat
        BY <4>1, WordFacts
      <4>. QED
        BY <1>0, <1>12, <3>2, <4>2 DEF client_header, Says, Reads
    <3>. QED
      BY <3>1, <3>2
  <2>4. Reads'
    BY <1>0, <1>12, <2>2, <2>3 DEF client_header, Reads
  <2>5. Places' /\ Flows' /\ out' \in [Sides -> Texts]
    BY <1>0, <1>12 DEF client_header, Places, Flows
  <2>. QED
    BY <2>1, <2>4, <2>5
<1>13. CASE client_body
  <2>1. Lines' /\ Held("client") \in Texts /\ line["client"] \in Texts
    BY <1>0, <1>13, ReturnedTypes DEF client_body
  <2>2. buf' \in [Sides -> Texts]
    BY <1>0, <1>13, <2>1 DEF client_body, Reads
  <2>3. received' \in Texts
    <3>1. received \in Texts
      BY <1>0 DEF Reads
    <3>. QED
      BY <1>13, <2>1, <3>1, Joining DEF client_body
  <2>4. Reads'
    BY <1>0, <1>13, <2>2, <2>3 DEF client_body, Reads
  <2>5. Places'
    BY <1>0, <1>4, <1>13 DEF client_body, ClientEnds, Places
  <2>6. Flows' /\ out' \in [Sides -> Texts]
    BY <1>0, <1>13 DEF client_body, Flows
  <2>. QED
    BY <2>1, <2>4, <2>5, <2>6
<1>14. CASE UNCHANGED vars
  BY <1>0, <1>14 DEF vars, clientVars, Places, Reads, Flows, Lines
<1>. QED
  BY <1>0, <1>1, <1>2, <1>3, <1>5, <1>6, <1>7, <1>8, <1>9, <1>10, <1>11, <1>12, <1>13, <1>14
  DEF Next, Server, Client

-----------------------------------------------------------------------------
(* The steps.                                                              *)

(* A step that moves characters and nothing else.                          *)
LEMMA FlowFrame ==
    ASSUME RequestFlow, ReplyFlow,
           UNCHANGED <<request, cpc, spc, buf, file, length, csum, received>>,
           spc = "line" \/ Alive => Rest("server")' = Rest("server"),
           Alive => Rest("client")' = Rest("client")
    PROVE  RequestFlow' /\ ReplyFlow'
<1>1. /\ Due' = Due /\ Told' = Told /\ DueBody' = DueBody /\ Alive' = Alive
      /\ (\A r : Text(r)' = Text(r))
  BY DEF Due, Told, DueBody, Readily, Emptied, Status, Alive
<1>2. RequestFlow'
  BY <1>1 DEF RequestFlow
<1>3. Alive /\ HeaderFlow => HeaderFlow'
  BY <1>1 DEF HeaderFlow
<1>4. ReplyFlow'
  BY <1>1, <1>3 DEF ReplyFlow
<1>. QED
  BY <1>2, <1>4

(* The client comes to an end.                                             *)
LEMMA ClientGone ==
    ASSUME SocketShape, RequestFlow, cpc' = "rest", Close("client"),
           UNCHANGED <<spc, request, stream, rio, file, out>>,
           line'["server"] = line["server"], buf'["server"] = buf["server"],
           closed \in [Sides -> BOOLEAN]
    PROVE  SocketShape' /\ RequestFlow' /\ ReplyFlow'
<1>1. ~Alive'
  BY DEF Alive
<1>2. Rest("server")' = Rest("server")
  BY DEF Rest
<1>3. closed' = [closed EXCEPT !["client"] = TRUE] /\ "client" \in Sides /\ "server" \in Sides
  BY DEF Close, Sides
<1>4. SocketShape'
  BY <1>1, <1>3 DEF SocketShape
<1>5. RequestFlow'
  BY <1>1, <1>2 DEF RequestFlow
<1>. QED
  BY <1>1, <1>4, <1>5 DEF ReplyFlow

LEMMA connectKeeps ==
    ASSUME IInv, NEW r \in Requests, connect(r)
    PROVE  SocketShape' /\ LineShape' /\ RequestFlow' /\ ReplyFlow'
<1>0. "server" \in Sides /\ "client" \in Sides /\ Len(<<>>) = 0 /\ Text(r) \in Texts
  BY Joining, TextTypes DEF Sides
<1>1. Rest("server")' = Text(r) /\ Rest("client")' = <<>>
  <2>1. /\ line'["server"] = <<>> /\ rio'["server"] = <<>> /\ stream'["server"] = <<>>
        /\ line'["client"] = <<>> /\ rio'["client"] = <<>> /\ stream'["client"] = <<>>
        /\ out'["client"] = Text(r) /\ out'["server"] = <<>>
    BY <1>0 DEF connect
  <2>2. <<>> \o Text(r) = Text(r) /\ <<>> \o <<>> = <<>>
    BY <1>0, Joining, Zenon
  <2>3. /\ Rest("server")' = <<>> \o (<<>> \o (<<>> \o Text(r)))
        /\ Rest("client")' = <<>> \o (<<>> \o (<<>> \o <<>>))
    BY <2>1, PeerFacts DEF Rest
  <2>. QED
    BY <2>2, <2>3, Zenon
<1>2. SocketShape'
  BY <1>0 DEF connect, SocketShape, Alive
<1>3. LineShape'
  BY <1>0 DEF connect, LineShape
<1>4. RequestFlow'
  BY <1>0, <1>1 DEF connect, RequestFlow
<1>5. ReplyFlow'
  BY <1>0, <1>1 DEF connect, ReplyFlow
<1>. QED
  BY <1>2, <1>3, <1>4, <1>5

LEMMA writeKeeps ==
    ASSUME IInv, NEW p \in Sides, rio_write(p)
    PROVE  SocketShape' /\ LineShape' /\ RequestFlow' /\ ReplyFlow'
<1>0. "server" \in Sides /\ "client" \in Sides /\ TypeOK /\ SocketShape
      /\ RequestFlow /\ ReplyFlow /\ LineShape
  BY DEF IInv, Sides
<1>1. /\ out'[Peer(p)] = out[Peer(p)]
      /\ ~closed[Peer(p)] => reset' = reset
      /\ out[p] # <<>>
      /\ ~closed[p]
      /\ UNCHANGED <<request, cpc, spc, closed, line, buf, file, length, csum, received>>
  BY <1>0, WriteFacts DEF rio_write, Write, clientVars
<1>r. /\ Rest(p)' = Rest(p)
      /\ ~closed[Peer(p)] => Rest("server")' = Rest("server") /\ Rest("client")' = Rest("client")
  <2>1. /\ Rest(p)' = Rest(p)
        /\ ~closed[Peer(p)] => \A q \in Sides : Rest(q)' = Rest(q)
    BY <1>0, WriteKeeps
  <2>. QED
    BY <1>0, <2>1 DEF Rest
<1>2. LineShape'
  BY <1>0, <1>1 DEF LineShape
<1>3. CASE ~closed[Peer(p)]
  <2>1. RequestFlow' /\ ReplyFlow'
    BY <1>0, <1>1, <1>r, <1>3, FlowFrame
  <2>2. SocketShape'
    <3>1. spc = "accept" => out'["server"] = out["server"]
      BY <1>0, <1>1, PeerFacts DEF SocketShape
    <3>. QED
      BY <1>0, <1>1, <1>3, <3>1 DEF SocketShape, Alive
  <2>. QED
    BY <1>2, <2>1, <2>2
<1>4. CASE p = "client" /\ closed["server"]
  <2>1. Alive /\ spc = "accept"
    BY <1>0, <1>1, <1>4 DEF SocketShape, Alive
  <2>2. request.method # "GET"
    <3>. SUFFICES ASSUME request.method = "GET" PROVE FALSE
      OBVIOUS
    <3>1. Rest("server") = <<>>
      BY <1>0, <2>1 DEF RequestFlow
    <3>2. out["client"] = <<>>
      BY <1>0, <3>1, RestFacts, PeerFacts
    <3>. QED
      BY <1>1, <1>4, <3>2
  <2>3. /\ Due' = Due /\ Told' = Told /\ DueBody' = DueBody /\ Alive' = Alive
        /\ Rest("client")' = Rest("client")
    BY <1>1, <1>r, <1>4 DEF Due, Told, DueBody, Readily, Emptied, Status, Alive
  <2>4. SocketShape'
    BY <1>0, <1>1, <1>4, <2>1, <2>2, PeerFacts DEF SocketShape, Alive
  <2>5. RequestFlow'
    BY <1>1, <2>1, <2>2 DEF RequestFlow
  <2>6. HeaderFlow => HeaderFlow'
    BY <1>1, <2>3 DEF HeaderFlow
  <2>7. ReplyFlow'
    BY <1>0, <1>1, <2>3, <2>6 DEF ReplyFlow
  <2>. QED
    BY <1>2, <2>4, <2>5, <2>7
<1>5. CASE p = "server" /\ closed["client"]
  <2>1. ~Alive /\ spc \notin {"accept", "exit"}
    BY <1>0, <1>1, <1>5 DEF SocketShape, Alive
  <2>2. SocketShape'
    BY <1>0, <1>1, <2>1 DEF SocketShape, Alive
  <2>3. RequestFlow' /\ ReplyFlow'
    BY <1>0, <1>1, <1>r, <1>5, <2>1, FlowFrame
  <2>. QED
    BY <1>2, <2>2, <2>3
<1>. QED
  BY <1>3, <1>4, <1>5, PeerFacts

LEMMA readKeeps ==
    ASSUME IInv, NEW p \in Sides, rio_readlineb(p)
    PROVE  SocketShape' /\ LineShape' /\ RequestFlow' /\ ReplyFlow'
<1>1. LineShape' /\ Rest("server")' = Rest("server") /\ Rest("client")' = Rest("client")
  <2>1. LineShape' /\ \A q \in Sides : Rest(q)' = Rest(q)
    BY ReadKeeps DEF IInv
  <2>. QED
    BY <2>1 DEF Rest, Sides
<1>2. UNCHANGED <<request, cpc, spc, out, closed, reset, buf, file, length, csum, received>>
  BY DEF rio_readlineb, clientVars
<1>3. SocketShape'
  BY <1>2 DEF IInv, SocketShape, Alive
<1>4. RequestFlow' /\ ReplyFlow'
  BY <1>1, <1>2, FlowFrame DEF IInv
<1>. QED
  BY <1>1, <1>3, <1>4

(* The parts of the invariant that every step below starts from.           *)
LEMMA Start ==
    ASSUME IInv
    PROVE  /\ "server" \in Sides /\ "client" \in Sides
           /\ Peer("server") = "client" /\ Peer("client") = "server"
           /\ TypeOK /\ SocketShape /\ LineShape /\ RequestFlow /\ ReplyFlow
           /\ closed \in [Sides -> BOOLEAN] /\ request \in Requests
BY PeerFacts DEF IInv, Sides, TypeOK

(* A line is returned: what is behind it is still to be read.              *)
LEMMA ReturnedShape ==
    ASSUME IInv, NEW p \in Sides, Returned(p), UNCHANGED <<rio, stream, out[Peer(p)]>>
    PROVE  LineShape' /\ Rest(p)' = Behind(p) /\ Behind(p) \in Texts /\ line'[p] = <<>>
           /\ \A q \in Sides \ {p} : line'[q] = line[q]
<1>1. line'[p] = <<>> /\ line[p] \in Texts /\ \A q \in Sides \ {p} : line'[q] = line[q]
  BY ReturnedTypes DEF IInv
<1>2. LineShape'
  <2>. SUFFICES ASSUME NEW q \in Sides, NEW k \in 1 .. (Len(line'[q]) - 1)
                PROVE  line'[q][k] # NL /\ k # MaxLine
    BY DEF LineShape, NL
  <2>1. CASE q = p
    <3>1. Len(line'[q]) = 0
      BY <1>1, <2>1, Joining
    <3>. QED
      BY <3>1
  <2>2. CASE q # p
    BY <1>1, <2>2 DEF IInv, LineShape
  <2>. QED
    BY <2>1, <2>2
<1>3. Behind(p) \in Texts
  <2>1. rio[p] \in Texts /\ stream[p] \in Texts /\ out[Peer(p)] \in Texts
    BY RestFacts DEF IInv
  <2>. QED
    BY <2>1, Joining, Zenon DEF Behind
<1>4. Rest(p)' = <<>> \o Behind(p)
  BY <1>1 DEF Rest, Behind
<1>5. <<>> \o Behind(p) = Behind(p)
  BY <1>3, Joining, Zenon
<1>. QED
  BY <1>1, <1>2, <1>3, <1>4, <1>5, Zenon

LEMMA ServerFailsKeeps ==
    ASSUME IInv, ServerFails
    PROVE  SocketShape' /\ LineShape' /\ RequestFlow' /\ ReplyFlow'
<1>1. ~Alive
  BY Start DEF ServerFails, SocketShape, Reading
<1>2. /\ spc' = "exit" /\ closed' = [closed EXCEPT !["server"] = TRUE]
      /\ UNCHANGED <<cpc, line>>
  BY DEF ServerFails, Close
<1>3. SocketShape' /\ ~Alive'
  BY <1>1, <1>2, Start DEF SocketShape, Alive
<1>4. LineShape'
  BY <1>2, Start DEF LineShape
<1>. QED
  BY <1>2, <1>3, <1>4 DEF RequestFlow, ReplyFlow

LEMMA request_destroyKeeps ==
    ASSUME IInv, request_destroy
    PROVE  SocketShape' /\ LineShape' /\ RequestFlow' /\ ReplyFlow'
<1>1. /\ spc = "reply" /\ spc' = "accept" /\ out["server"] = <<>>
      /\ closed' = [closed EXCEPT !["server"] = TRUE]
      /\ reset' = (reset \/ stream["server"] # <<>>)
      /\ UNCHANGED <<request, cpc, out, stream, rio, line, buf, file, length, csum, received>>
  BY DEF request_destroy, Close, clientVars
<1>2. /\ Due' = Due /\ Told' = Told /\ DueBody' = DueBody /\ Alive' = Alive
      /\ Rest("server")' = Rest("server") /\ Rest("client")' = Rest("client")
  BY <1>1 DEF Due, Told, DueBody, Readily, Emptied, Status, Alive, Rest
<1>3. Alive /\ request.method = "GET" => Rest("server") = <<>>
  BY <1>1, Start DEF RequestFlow
<1>4. Alive /\ request.method = "GET" => stream["server"] = <<>>
  BY <1>3, Start, RestFacts
<1>5. Alive => ~reset
  BY <1>1, Start DEF SocketShape
<1>6. SocketShape'
  BY <1>1, <1>2, <1>4, <1>5, Start DEF SocketShape, Alive
<1>7. LineShape'
  BY <1>1, Start DEF LineShape
<1>8. RequestFlow'
  BY <1>1, <1>2, <1>3 DEF RequestFlow
<1>9. HeaderFlow => HeaderFlow'
  BY <1>1, <1>2 DEF HeaderFlow
<1>10. ReplyFlow'
  BY <1>1, <1>2, <1>9, Start DEF ReplyFlow
<1>. QED
  BY <1>6, <1>7, <1>8, <1>10

(* The request line of a client that is there.                             *)
LEMMA RequestLine ==
    ASSUME IInv, Alive, spc = "line", LineRead("server")
    PROVE  /\ line["server"] = <<<<request.method, request.file>>, NL>>
           /\ Behind("server") = From(Text(request), 3)
<1>. DEFINE t == Text(request)
<1>1. /\ t \in Seq(Word) /\ Len(t) = 6 /\ t[2] = NL
      /\ t[1] = <<request.method, request.file>>
  BY Start, TextShape
<1>2. t[1] # NL
  <2>1. request.method # "nl"
    BY Start DEF Requests
  <2>. QED
    BY <1>1, <2>1 DEF NL
<1>3. Rest("server") = From(t, 1)
  <2>1. Rest("server") = t
    BY Start DEF RequestFlow
  <2>. HIDE DEF t
  <2>2. From(t, 1) = t
    BY <1>1, SubSeqFull, Zenon DEF From
  <2>. QED
    BY <2>1, <2>2
<1>4. closed["client"] => out["client"] = <<>>
  BY Start DEF SocketShape, Alive
<1>. DEFINE n == 1
<1>5. n \in 1 .. (Len(t) - 1) /\ n + 1 = 2 /\ n + 2 = 3 /\ n = 1
  BY <1>1
<1>. HIDE DEF t, n
<1>6. t[n] # NL /\ t[n + 1] = NL /\ Rest("server") = From(t, n)
  BY <1>1, <1>2, <1>3, <1>5
<1>7. line["server"] = <<t[n], t[n + 1]>> /\ Behind("server") = From(t, n + 2)
  BY <1>1, <1>4, <1>5, <1>6, LineOfTwo, Start
<1>8. line["server"] = <<t[1], t[2]>> /\ Behind("server") = From(t, 3)
  BY <1>5, <1>7
<1>. QED
  BY <1>1, <1>8 DEF t

(* The reply is put out at a side that has read everything else.           *)
LEMMA ReplyDue ==
    ASSUME IInv, Alive, spc \in {"line", "headers"},
           UNCHANGED <<stream, rio>>, line'["client"] = line["client"],
           out'["server"] = Due, UNCHANGED request
    PROVE  HeaderFlow'
<1>1. Rest("client") = <<>>
  BY Start DEF ReplyFlow
<1>2. line["client"] = <<>> /\ rio["client"] = <<>> /\ stream["client"] = <<>>
  BY <1>1, Start, RestFacts
<1>3. Due \in Texts /\ Due \in Seq(Word)
  <2>1. request.file \in Files
    BY Start DEF Requests
  <2>. QED
    BY <2>1, TextTypes DEF Due
<1>4. Due' = Due
  BY DEF Due
<1>5. Rest("client")' = <<>> \o (<<>> \o (<<>> \o Due))
  BY <1>2, Start DEF Rest
<1>6. <<>> \o Due = Due
  BY <1>3, Joining, Zenon
<1>7. Due = From(Due, 1)
  BY <1>3, SubSeqFull, Zenon DEF From
<1>8. Rest("client")' = From(Due', 1)
  BY <1>4, <1>5, <1>6, <1>7, Zenon
<1>. QED
  BY <1>8 DEF HeaderFlow

LEMMA request_initKeeps ==
    ASSUME IInv, request_init
    PROVE  SocketShape' /\ LineShape' /\ RequestFlow' /\ ReplyFlow'
<1>1. /\ spc = "line" /\ Returned("server") /\ LineRead("server")
      /\ buf' = [buf EXCEPT !["server"] = <<>>]
      /\ UNCHANGED <<request, cpc, stream, closed, reset, rio, length, csum, received>>
  BY DEF request_init, clientVars, Returned
<1>2. PICK r \in Parsed(Held("server")) :
        \/ r.method = "GET" /\ spc' = "headers" /\ file' = r.file /\ UNCHANGED out
        \/ /\ r.method # "GET" /\ spc' = "reply" /\ UNCHANGED file
           /\ out' = [out EXCEPT !["server"] = Error(501)]
  BY DEF request_init
<1>3. r \in Requests /\ r.file \in Files
  <2>1. r \in Requests
    BY <1>1, <1>2, RequestParsed, Start
  <2>. QED
    BY <2>1 DEF Requests
<1>4. out'["client"] = out["client"]
  BY <1>2, Start DEF TypeOK
<1>5. LineShape' /\ Rest("server")' = Behind("server") /\ line'["client"] = line["client"]
  <2>1. UNCHANGED <<rio, stream, out[Peer("server")]>>
    BY <1>1, <1>4, Start
  <2>. QED
    BY <1>1, <2>1, Start, ReturnedShape, PeerFacts
<1>6. SocketShape' /\ (Alive' <=> Alive)
  BY <1>1, <1>2, Start DEF SocketShape, Alive
<1>7. CASE ~Alive
  <2>1. RequestFlow'
    BY <1>2, <1>3, <1>6, <1>7 DEF RequestFlow
  <2>. QED
    BY <1>5, <1>6, <1>7, <2>1 DEF ReplyFlow
<1>8. CASE Alive
  <2>1. /\ line["server"] = <<<<request.method, request.file>>, NL>>
        /\ Behind("server") = From(Text(request), 3)
    BY <1>1, <1>8, RequestLine
  <2>2. r.method = request.method /\ r.file = request.file
    <3>1. line["server"] # <<>> /\ line["server"][1] = <<request.method, request.file>>
      BY <2>1
    <3>. QED
      BY <1>2, <3>1 DEF Held, Parsed
  <2>3. received = <<>> /\ cpc # "body" /\ Rest("client") = <<>>
    BY <1>1, <1>8, Start DEF ReplyFlow
  <2>4. CASE request.method = "GET"
    <3>1. spc' = "headers" /\ file' = request.file /\ out' = out
      BY <1>2, <2>2, <2>4
    <3>2. Rest("server")' = From(Text(request), 3)
      BY <1>5, <2>1
    <3>3. RequestFlow'
      BY <1>1, <1>3, <2>2, <2>4, <3>1, <3>2 DEF RequestFlow
    <3>4. Rest("client")' = Rest("client")
      BY <1>1, <1>5, <3>1 DEF Rest
    <3>5. ReplyFlow'
      BY <1>1, <2>3, <3>1, <3>4 DEF ReplyFlow
    <3>. QED
      BY <1>5, <1>6, <3>3, <3>5
  <2>5. CASE request.method # "GET"
    <3>1. spc' = "reply" /\ out'["server"] = Due
      BY <1>2, <2>2, <2>5, Start DEF Due, TypeOK
    <3>2. HeaderFlow'
      BY <1>1, <1>5, <1>8, <3>1, ReplyDue
    <3>3. RequestFlow'
      BY <1>1, <2>5, <3>1 DEF RequestFlow
    <3>4. ReplyFlow'
      BY <1>1, <2>3, <3>1, <3>2 DEF ReplyFlow
    <3>. QED
      BY <1>5, <1>6, <3>3, <3>4
  <2>. QED
    BY <2>4, <2>5
<1>. QED
  BY <1>7, <1>8

(* A header line of the request of a client that is there.                 *)
LEMMA RequestHeader ==
    ASSUME IInv, Alive, spc = "headers", LineRead("server")
    PROVE  \/ line["server"] = <<<<"host", 0>>, NL>> /\ Behind("server") = From(Text(request), 5)
           \/ line["server"] = EmptyLine /\ Behind("server") = <<>>
<1>. DEFINE t == Text(request)
<1>1. /\ t \in Seq(Word) /\ Len(t) = 6 /\ t[3] = <<"host", 0>> /\ t[4] = NL
      /\ t[5] = CR /\ t[6] = NL
  BY Start, TextShape
<1>2. t[3] # NL /\ t[5] # NL
  BY <1>1, WordFacts DEF NL
<1>3. PICK n \in {3, 5} : Rest("server") = From(t, n)
  BY Start DEF RequestFlow
<1>4. closed["client"] => out["client"] = <<>>
  BY Start DEF SocketShape, Alive
<1>. HIDE DEF t
<1>5. n \in 1 .. (Len(t) - 1) /\ t[n] # NL /\ t[n + 1] = NL
  <2>1. n \in 1 .. 5 /\ (n = 3 => n + 1 = 4) /\ (n = 5 => n + 1 = 6)
    OBVIOUS
  <2>2. n \in 1 .. (Len(t) - 1)
    BY <1>1, <2>1
  <2>3. n = 3 \/ n = 5
    OBVIOUS
  <2>. QED
    BY <1>1, <1>2, <2>1, <2>2, <2>3, Zenon
<1>6. line["server"] = <<t[n], t[n + 1]>> /\ Behind("server") = From(t, n + 2)
  BY <1>1, <1>3, <1>4, <1>5, LineOfTwo, Start
<1>7. CASE n = 3
  <2>1. n + 1 = 4 /\ n + 2 = 5
    BY <1>7
  <2>. QED
    BY <1>1, <1>6, <1>7, <2>1 DEF t
<1>8. CASE n = 5
  <2>1. n + 1 = 6 /\ n + 2 = 7
    BY <1>8
  <2>2. From(t, 7) = <<>>
    <3>1. From(t, 7) \in Seq(Word) /\ Len(From(t, 7)) = Len(t) - 7 + 1
      <4>1. 7 \in 1 .. (Len(t) + 1)
        BY <1>1
      <4>. QED
        BY <1>1, <4>1, FromFacts
    <3>2. Len(From(t, 7)) = 0
      BY <1>1, <3>1
    <3>. QED
      BY <3>1, <3>2, EmptySeq
  <2>. QED
    BY <1>1, <1>6, <1>8, <2>1, <2>2 DEF EmptyLine
<1>. QED
  BY <1>3, <1>7, <1>8

LEMMA request_read_headersKeeps ==
    ASSUME IInv, request_read_headers
    PROVE  SocketShape' /\ LineShape' /\ RequestFlow' /\ ReplyFlow'
<1>1. /\ spc = "headers" /\ Returned("server") /\ LineRead("server")
      /\ UNCHANGED <<request, cpc, stream, closed, reset, rio, file, length, csum, received>>
  BY DEF request_read_headers, clientVars, Returned
<1>2. PICK empty \in IsEmptyLine(Held("server")) : HeadersEnd(empty)
  BY DEF request_read_headers
<1>3. \/ ~empty /\ spc' = spc /\ out' = out
      \/ spc' = "reply" /\ out' = [out EXCEPT !["server"] = Sent(file)]
  BY <1>2 DEF HeadersEnd
<1>4. out'["client"] = out["client"]
  BY <1>3, Start DEF TypeOK
<1>5. LineShape' /\ Rest("server")' = Behind("server") /\ line'["client"] = line["client"]
  <2>1. UNCHANGED <<rio, stream, out[Peer("server")]>>
    BY <1>1, <1>4, Start
  <2>. QED
    BY <1>1, <2>1, Start, ReturnedShape, PeerFacts
<1>6. SocketShape' /\ (Alive' <=> Alive)
  BY <1>1, <1>3, Start DEF SocketShape, Alive
<1>7. CASE ~Alive
  <2>1. RequestFlow'
    BY <1>1, <1>3, <1>6, <1>7, Start DEF RequestFlow
  <2>. QED
    BY <1>5, <1>6, <1>7, <2>1 DEF ReplyFlow
<1>8. CASE Alive
  <2>1. request.method = "GET" /\ file = request.file
    BY <1>1, <1>8, Start DEF RequestFlow
  <2>2. received = <<>> /\ cpc # "body" /\ Rest("client") = <<>>
    BY <1>1, <1>8, Start DEF ReplyFlow
  <2>3. CASE line["server"] = <<<<"host", 0>>, NL>> /\ Behind("server") = From(Text(request), 5)
    <3>1. line["server"] # <<>> /\ line["server"] # EmptyLine
      BY <2>3 DEF EmptyLine, CR
    <3>2. ~empty
      BY <1>2, <3>1 DEF IsEmptyLine, Held
    <3>3. spc' = "headers" /\ out' = out
      BY <1>1, <1>2, <3>2 DEF HeadersEnd
    <3>4. RequestFlow'
      BY <1>1, <1>5, <2>1, <2>3, <3>3, Start DEF RequestFlow
    <3>5. Rest("client")' = Rest("client")
      BY <1>1, <1>5, <3>3 DEF Rest
    <3>6. ReplyFlow'
      BY <1>1, <2>2, <3>3, <3>5 DEF ReplyFlow
    <3>. QED
      BY <1>5, <1>6, <3>4, <3>6
  <2>4. CASE line["server"] = EmptyLine /\ Behind("server") = <<>>
    <3>1. line["server"] # <<>>
      BY <2>4 DEF EmptyLine
    <3>2. empty
      BY <1>2, <2>4, <3>1 DEF IsEmptyLine, Held
    <3>3. spc' = "reply" /\ out' = [out EXCEPT !["server"] = Sent(file)]
      BY <1>3, <3>2
    <3>4. out'["server"] = Due
      BY <2>1, <3>3, Start DEF Due, TypeOK
    <3>5. HeaderFlow'
      BY <1>1, <1>5, <1>8, <3>4, ReplyDue
    <3>6. RequestFlow'
      BY <1>1, <1>5, <2>4, <3>3 DEF RequestFlow
    <3>7. ReplyFlow'
      BY <1>1, <2>2, <3>3, <3>5 DEF ReplyFlow
    <3>. QED
      BY <1>5, <1>6, <3>6, <3>7
  <2>. QED
    BY <1>1, <1>8, <2>3, <2>4, RequestHeader
<1>. QED
  BY <1>7, <1>8

LEMMA client_sentKeeps ==
    ASSUME IInv, client_sent
    PROVE  SocketShape' /\ LineShape' /\ RequestFlow' /\ ReplyFlow'
<1>1. /\ cpc = "send" /\ cpc' = "header"
      /\ UNCHANGED <<request, spc, out, stream, closed, reset, rio, line, buf, file,
                     length, csum, received>>
  BY DEF client_sent, clientVars
<1>2. /\ Due' = Due /\ Told' = Told /\ DueBody' = DueBody /\ Alive /\ Alive'
      /\ Rest("server")' = Rest("server") /\ Rest("client")' = Rest("client")
  BY <1>1 DEF Due, Told, DueBody, Readily, Emptied, Status, Alive, Rest
<1>3. SocketShape' /\ LineShape'
  BY <1>1, <1>2, Start DEF SocketShape, LineShape
<1>4. RequestFlow'
  BY <1>1, <1>2, Start DEF RequestFlow
<1>5. HeaderFlow => HeaderFlow'
  BY <1>1, <1>2 DEF HeaderFlow
<1>6. ReplyFlow'
  BY <1>1, <1>2, <1>5, Start DEF ReplyFlow
<1>. QED
  BY <1>3, <1>4, <1>6

(* A line of the reply's header.                                           *)
LEMMA ReplyHeader ==
    ASSUME IInv, cpc = "header", LineRead("client")
    PROVE  /\ spc \in {"reply", "accept"} /\ received = <<>>
           /\ \E n \in {1, 3, 5, 7} :
                 /\ line["client"] = <<Due[n], NL>> /\ Behind("client") = From(Due, n + 2)
                 /\ n >= 5 => length = Len(Told)
                 /\ n >= 7 => csum = Sum(Told)
<1>1. Alive /\ cpc # "body" /\ spc # "exit"
  BY Start DEF Alive, SocketShape
<1>2. spc \notin {"line", "headers"}
  <2>. SUFFICES ASSUME spc \in {"line", "headers"} PROVE FALSE
    OBVIOUS
  <2>1. Rest("client") = <<>>
    BY <1>1, Start DEF ReplyFlow
  <2>2. line["client"] = <<>>
    BY <2>1, Start, RestFacts
  <2>3. closed["server"]
    BY <2>2, Start DEF LineRead
  <2>. QED
    BY <2>3, Start DEF SocketShape
<1>3. spc \in {"reply", "accept"}
  BY <1>1, <1>2, Start DEF TypeOK
<1>4. received = <<>> /\ HeaderFlow
  BY <1>1, <1>3, Start DEF ReplyFlow
<1>5. closed["server"] => out["server"] = <<>>
  BY <1>3, Start DEF SocketShape
<1>6. PICK n \in {1, 3, 5, 7} :
        /\ Rest("client") = From(Due, n)
        /\ n >= 5 => length = Len(Told)
        /\ n >= 7 => csum = Sum(Told)
  BY <1>4 DEF HeaderFlow
<1>. DEFINE t == Due
<1>7. t \in Seq(Word) /\ Len(t) >= 8 /\ HeaderSays(t, Len(Told), Sum(Told))
  BY Start, DueFacts DEF DueShape
<1>. HIDE DEF t
<1>8. /\ t[1] # NL /\ t[3] # NL /\ t[5] # NL /\ t[7] # NL
      /\ t[2] = NL /\ t[4] = NL /\ t[6] = NL /\ t[8] = NL
  BY <1>7 DEF HeaderSays, NL, CR
<1>9. n \in 1 .. (Len(t) - 1) /\ t[n] # NL /\ t[n + 1] = NL
  <2>1. /\ n \in 1 .. 7 /\ (n = 1 => n + 1 = 2) /\ (n = 3 => n + 1 = 4)
        /\ (n = 5 => n + 1 = 6) /\ (n = 7 => n + 1 = 8)
    OBVIOUS
  <2>2. n \in 1 .. (Len(t) - 1)
    <3>1. Len(t) \in Nat
      BY <1>7, LenProperties
    <3>. QED
      BY <1>7, <2>1, <3>1
  <2>3. n = 1 \/ n = 3 \/ n = 5 \/ n = 7
    OBVIOUS
  <2>. QED
    BY <1>8, <2>1, <2>2, <2>3, Zenon
<1>10. Rest("client") = From(t, n)
  BY <1>6 DEF t
<1>11. line["client"] = <<t[n], t[n + 1]>> /\ Behind("client") = From(t, n + 2)
  BY <1>5, <1>7, <1>9, <1>10, LineOfTwo, Start
<1>12. line["client"] = <<t[n], NL>>
  BY <1>9, <1>11
<1>. QED
  BY <1>3, <1>4, <1>6, <1>11, <1>12 DEF t

LEMMA client_headerKeeps ==
    ASSUME IInv, client_header
    PROVE  SocketShape' /\ LineShape' /\ RequestFlow' /\ ReplyFlow'
<1>1. /\ cpc = "header" /\ Returned("client") /\ LineRead("client")
      /\ buf'["server"] = buf["server"]
      /\ UNCHANGED <<request, spc, out, stream, closed, reset, rio, file, received>>
  BY Start DEF client_header, Returned, TypeOK
<1>2. /\ spc \in {"reply", "accept"} /\ received = <<>>
      /\ \E n \in {1, 3, 5, 7} :
            /\ line["client"] = <<Due[n], NL>> /\ Behind("client") = From(Due, n + 2)
            /\ n >= 5 => length = Len(Told)
            /\ n >= 7 => csum = Sum(Told)
  BY <1>1, ReplyHeader
<1>3. PICK n \in {1, 3, 5, 7} :
        /\ line["client"] = <<Due[n], NL>> /\ Behind("client") = From(Due, n + 2)
        /\ n >= 5 => length = Len(Told)
        /\ n >= 7 => csum = Sum(Told)
  BY <1>2
<1>4. LineShape' /\ Rest("client")' = Behind("client") /\ line'["server"] = line["server"]
  BY <1>1, Start, ReturnedShape, PeerFacts
<1>5. HeaderSays(Due, Len(Told), Sum(Told))
  BY Start, DueFacts DEF DueShape
<1>6. line["client"] # <<>> /\ line["client"][1] = Due[n]
  BY <1>3
<1>7. /\ cpc' = IF line["client"] = EmptyLine THEN "body" ELSE "header"
      /\ length' = IF Due[n][1] = "Content-Length" THEN Due[n][2] ELSE length
      /\ csum' = IF Due[n][1] = "Content-Csum" THEN Due[n][2] ELSE csum
  BY <1>6 DEF client_header, Says
<1>8. line["client"] = EmptyLine <=> Due[n] = CR
  BY <1>3 DEF EmptyLine
<1>9. /\ Due' = Due /\ Told' = Told /\ DueBody' = DueBody /\ Alive /\ Alive'
      /\ Rest("server")' = Rest("server")
  BY <1>1, <1>4, <1>7 DEF Due, Told, DueBody, Readily, Emptied, Status, Alive, Rest
<1>10. SocketShape'
  BY <1>1, <1>9, Start DEF SocketShape, Alive
<1>11. RequestFlow'
  BY <1>1, <1>2, <1>9, Start DEF RequestFlow
<1>12. CASE n \in {1, 3, 5}
  <2>1. /\ n = 1 => Due[n] # CR /\ Due[n][1] # "Content-Length" /\ Due[n][1] # "Content-Csum"
        /\ n = 3 => Due[n] # CR /\ Due[n][1] = "Content-Length" /\ Due[n][2] = Len(Told)
        /\ n = 5 => Due[n] # CR /\ Due[n][1] = "Content-Csum" /\ Due[n][2] = Sum(Told)
    BY <1>5 DEF HeaderSays, CR
  <2>2. cpc' = "header"
    BY <1>7, <1>8, <1>12, <2>1
  <2>3. Rest("client")' = From(Due', n + 2) /\ n + 2 \in {1, 3, 5, 7}
    BY <1>3, <1>4, <1>9, <1>12
  <2>4. n + 2 >= 5 => length' = Len(Told')
    BY <1>3, <1>7, <1>9, <1>12, <2>1
  <2>5. n + 2 >= 7 => csum' = Sum(Told')
    BY <1>3, <1>7, <1>9, <1>12, <2>1
  <2>6. HeaderFlow'
    BY <2>3, <2>4, <2>5 DEF HeaderFlow
  <2>7. ReplyFlow'
    BY <1>1, <1>2, <2>2, <2>6 DEF ReplyFlow
  <2>. QED
    BY <1>4, <1>10, <1>11, <2>7
<1>13. CASE n = 7
  <2>1. Due[n] = CR /\ Due[n][1] # "Content-Length" /\ Due[n][1] # "Content-Csum"
    BY <1>5, <1>13 DEF HeaderSays, CR
  <2>2. cpc' = "body" /\ length' = Len(Told') /\ csum' = Sum(Told')
    BY <1>3, <1>7, <1>8, <1>9, <1>13, <2>1
  <2>3. received' \o Rest("client")' = DueBody'
    <3>1. Behind("client") = DueBody
      <4>1. n + 2 = 9
        BY <1>13
      <4>. QED
        BY <1>3, <4>1 DEF DueBody
    <3>2. Behind("client") \in Texts
      BY <1>1, Start, ReturnedShape, PeerFacts
    <3>3. <<>> \o DueBody = DueBody
      BY <3>1, <3>2, Joining, Zenon
    <3>4. received' = <<>> /\ Rest("client")' = DueBody /\ DueBody' = DueBody
      BY <1>1, <1>2, <1>4, <1>9, <3>1
    <3>. QED
      BY <3>3, <3>4, Zenon
  <2>4. ReplyFlow'
    BY <1>1, <1>2, <2>2, <2>3 DEF ReplyFlow
  <2>. QED
    BY <1>4, <1>10, <1>11, <2>4
<1>. QED
  BY <1>12, <1>13

LEMMA client_bodyKeeps ==
    ASSUME IInv, client_body
    PROVE  SocketShape' /\ LineShape' /\ RequestFlow' /\ ReplyFlow'
<1>1. /\ cpc = "body" /\ Returned("client") /\ LineRead("client") /\ Alive
      /\ buf'["server"] = buf["server"] /\ received' = received \o line["client"]
      /\ UNCHANGED <<request, spc, out, stream, rio, file, length, csum>>
  BY Start DEF client_body, Returned, TypeOK, Alive
<1>2. LineShape' /\ Rest("client")' = Behind("client") /\ line'["server"] = line["server"]
      /\ Behind("client") \in Texts
  BY <1>1, Start, ReturnedShape, PeerFacts
<1>3. CASE line["client"] = <<>>
  <2>1. cpc' = "rest" /\ Close("client")
    BY <1>3 DEF client_body, ClientEnds
  <2>. QED
    BY <1>1, <1>2, <2>1, Start, ClientGone
<1>4. CASE line["client"] # <<>>
  <2>1. UNCHANGED <<cpc, closed, reset>>
    BY <1>4 DEF client_body
  <2>2. spc \in {"reply", "accept"}
    BY <1>1, Start DEF ReplyFlow, SocketShape, TypeOK
  <2>3. /\ Due' = Due /\ Told' = Told /\ DueBody' = DueBody /\ Alive'
        /\ Rest("server")' = Rest("server")
    BY <1>1, <1>2, <2>1 DEF Due, Told, DueBody, Readily, Emptied, Status, Alive, Rest
  <2>4. SocketShape'
    BY <1>1, <2>1, <2>3, Start DEF SocketShape, Alive
  <2>5. RequestFlow'
    BY <1>1, <2>1, <2>2, <2>3, Start DEF RequestFlow
  <2>6. received' \o Rest("client")' = DueBody
    <3>1. received \o Rest("client") = DueBody
      BY <1>1, <2>2, Start DEF ReplyFlow
    <3>2. Rest("client") = line["client"] \o Behind("client")
      BY DEF Rest, Behind
    <3>3. received \in Texts /\ line["client"] \in Texts
      BY Start DEF TypeOK
    <3>4. (received \o line["client"]) \o Behind("client")
            = received \o (line["client"] \o Behind("client"))
      BY <1>2, <3>3, JoinAssociative
    <3>. QED
      BY <1>1, <1>2, <3>1, <3>2, <3>4, Zenon
  <2>7. ReplyFlow'
    BY <1>1, <2>1, <2>2, <2>3, <2>6, Start DEF ReplyFlow
  <2>. QED
    BY <1>2, <2>4, <2>5, <2>7
<1>. QED
  BY <1>3, <1>4

LEMMA ClientGoesKeeps ==
    ASSUME IInv, ClientFails \/ ClientKilled
    PROVE  SocketShape' /\ LineShape' /\ RequestFlow' /\ ReplyFlow'
<1>1. /\ cpc' = "rest" /\ Close("client")
      /\ UNCHANGED <<request, spc, out, stream, rio, line, buf, file>>
  BY DEF ClientFails, ClientKilled, ClientEnds
<1>2. LineShape'
  BY <1>1, Start DEF LineShape
<1>. QED
  BY <1>1, <1>2, Start, ClientGone

-----------------------------------------------------------------------------
(* The invariant.                                                          *)

LEMMA Beginning == Init => IInv
<1>. SUFFICES ASSUME Init PROVE IInv
  OBVIOUS
<1>0. /\ <<>> \in Texts /\ Len(<<>>) = 0 /\ MaxLine \in Nat /\ RioSize \in Nat
      /\ SocketSize \in Nat /\ Sides = {"client", "server"}
  BY Joining, ConnectionAssumption DEF Sides
<1>1. TypeOK
  <2>1. Places /\ Reads
    BY <1>0 DEF Init, Places, Reads
  <2>2. Flows /\ Lines /\ out \in [Sides -> Texts]
    BY <1>0 DEF Init, Flows, Lines
  <2>. QED
    BY <2>1, <2>2, TypeParts
<1>2. SocketShape /\ LineShape
  BY <1>0 DEF Init, SocketShape, LineShape, Alive
<1>3. RequestFlow /\ ReplyFlow
  BY DEF Init, RequestFlow, ReplyFlow, Alive
<1>. QED
  BY <1>1, <1>2, <1>3 DEF IInv

LEMMA Inductive == IInv /\ [Next]_vars => IInv'
<1>. SUFFICES ASSUME IInv, [Next]_vars
              PROVE  SocketShape' /\ LineShape' /\ RequestFlow' /\ ReplyFlow'
  BY TypeStep DEF IInv
<1>1. ASSUME NEW r \in Requests, connect(r)
      PROVE  SocketShape' /\ LineShape' /\ RequestFlow' /\ ReplyFlow'
  BY <1>1, connectKeeps
<1>2. ASSUME NEW p \in Sides, rio_write(p)
      PROVE  SocketShape' /\ LineShape' /\ RequestFlow' /\ ReplyFlow'
  BY <1>2, writeKeeps
<1>3. ASSUME NEW p \in Sides, rio_readlineb(p)
      PROVE  SocketShape' /\ LineShape' /\ RequestFlow' /\ ReplyFlow'
  BY <1>3, readKeeps
<1>4. CASE ServerFails \/ request_init \/ request_read_headers \/ request_destroy
  BY <1>4, ServerFailsKeeps, request_initKeeps, request_read_headersKeeps, request_destroyKeeps
<1>5. CASE ClientFails \/ client_sent \/ client_header \/ client_body \/ ClientKilled
  BY <1>5, ClientGoesKeeps, client_sentKeeps, client_headerKeeps, client_bodyKeeps
<1>6. CASE UNCHANGED vars
  <2>1. UNCHANGED <<request, cpc, spc, out, stream, closed, reset, rio, line, buf, file,
                    length, csum, received>>
    BY <1>6 DEF vars, clientVars
  <2>2. Rest("server")' = Rest("server") /\ Rest("client")' = Rest("client")
    BY <2>1 DEF Rest
  <2>3. RequestFlow' /\ ReplyFlow'
    BY <2>1, <2>2, Start, FlowFrame
  <2>. QED
    BY <2>1, <2>3, Start DEF SocketShape, LineShape, Alive
<1>. QED
  BY <1>1, <1>2, <1>3, <1>4, <1>5, <1>6, PeerFacts DEF Next, Server, Client

(* What the stages of a request and its reply leave to be read is kept by  *)
(* every step of the two sides.                                            *)
THEOREM Invariance == Spec => []IInv
BY Beginning, Inductive, PTL DEF Spec

(* All variables keep their types; a line stays within MAXLINE, what is    *)
(* left in rio_buf within RIO_BUFSIZE, what a socket holds within its size. *)
THEOREM TypeCorrect == Spec => []TypeOK
<1>1. IInv => TypeOK
  BY DEF IInv
<1>. QED
  BY <1>1, Invariance, PTL

-----------------------------------------------------------------------------
(* The exchange.                                                           *)

(* The client has nothing but a length and a checksum to see that it got   *)
(* the page that refuses a method and not the file.                        *)
NoFileLikePage ==
    \A f \in Files : Len(Content[f]) = 1 => Sum(Content[f]) # Sum(Page(501))

(* A file that could not be read and is in the cache comes as an empty     *)
(* one, which the client takes for the file if that is what it expects.    *)
NoneExpectedEmpty == \A f \in CachedEmpty : Content[f] # <<>>

(* The assertions of client_print tell, at the end of the input, whether   *)
(* there was a file to get, and then it is that file.                      *)
LEMMA BodyRead ==
    ASSUME IInv, NoFileLikePage, NoneExpectedEmpty, cpc = "body", LineRead("client"), line["client"] = <<>>
    PROVE  /\ Readily => Checks /\ received = Content[request.file]
           /\ ~Readily => ~Checks
<1>1. spc \in {"reply", "accept"} /\ Alive
  BY Start DEF ReplyFlow, SocketShape, TypeOK, Alive
<1>2. received \o Rest("client") = DueBody /\ length = Len(Told) /\ csum = Sum(Told)
  BY <1>1, Start DEF ReplyFlow
<1>3. Rest("client") = <<>>
  <2>1. rio["client"] = <<>> /\ stream["client"] = <<>> /\ closed["server"]
    BY Start DEF LineRead
  <2>2. out["server"] = <<>>
    BY <1>1, <2>1, Start DEF SocketShape
  <2>. QED
    BY <2>1, <2>2, Start, RestFacts
<1>4. received = DueBody
  <2>1. received \in Texts
    BY Start DEF TypeOK
  <2>. QED
    BY <1>2, <1>3, <2>1, Joining
<1>5. DueShape(request) /\ request.file \in Files
  BY Start, DueFacts DEF Requests
<1>6. CASE Readily
  <2>1. Told = Content[request.file] /\ DueBody = Told
    BY <1>5, <1>6 DEF Told, DueShape
  <2>. QED
    BY <1>2, <1>4, <1>6, <2>1 DEF Checks
<1>7. CASE ~Readily /\ ~Emptied /\ request.method = "GET"
  <2>1. Len(Told) = 1 /\ Len(DueBody) = 9
    BY <1>5, <1>7 DEF DueShape
  <2>. QED
    BY <1>2, <1>4, <1>7, <2>1 DEF Checks
<1>8. CASE request.method # "GET"
  <2>1. ~Readily /\ Len(Told) = 1 /\ Told = Page(501)
    BY <1>5, <1>8 DEF DueShape, Readily, Emptied, Told, Status
  <2>2. Len(Content[request.file]) = 1 => Sum(Content[request.file]) # Sum(Told)
    BY <1>5, <2>1, Zenon DEF NoFileLikePage
  <2>. QED
    BY <1>2, <2>1, <2>2 DEF Checks
<1>9. CASE Emptied
  <2>1. ~Readily /\ Told = <<>>
    BY <1>5, <1>9 DEF DueShape
  <2>2. Content[request.file] # <<>>
    BY <1>9 DEF Emptied, NoneExpectedEmpty
  <2>3. Content[request.file] \in Seq(STRING \X Nat)
    BY <1>5, ConnectionAssumption, Zenon
  <2>4. Len(Content[request.file]) # Len(Told)
    BY <2>1, <2>2, <2>3, EmptySeq
  <2>. QED
    BY <1>2, <2>1, <2>4 DEF Checks
<1>. QED
  BY <1>6, <1>7, <1>8, <1>9

(* Every step is one of the exchange, or none.                             *)
Asked == IF cpc = "rest" THEN {} ELSE {request}
Got   == IF cpc # "rest" \/ result = "none" THEN {}
         ELSE {IF result = "ok" THEN received ELSE <<"refused">>}
Wanted(r) == IF r.method = "GET" /\ r.file \in Readable THEN Content[r.file] ELSE <<"refused">>

LEMMA ExchangeSteps ==
    ASSUME IInv, NoFileLikePage, NoneExpectedEmpty, [Next]_vars
    PROVE  \/ Asked = {} /\ Asked' \in {{r} : r \in Requests} /\ Got' = {}
           \/ Asked # {} /\ Got' = {Wanted(request)} /\ Asked = {request} /\ Asked' = {}
           \/ Asked # {} /\ Asked' = {} /\ Got' = Got
           \/ Asked' = Asked /\ Got' = Got
<1>1. ASSUME NEW r \in Requests, connect(r)
      PROVE  Asked = {} /\ Asked' \in {{q} : q \in Requests} /\ Got' = {}
  BY <1>1 DEF connect, Asked, Got
<1>2. ASSUME UNCHANGED <<cpc, request, result, received>>
      PROVE  Asked' = Asked /\ Got' = Got
  BY <1>2 DEF Asked, Got
<1>3. CASE client_sent \/ client_header
  BY <1>3 DEF client_sent, client_header, Asked, Got
<1>4. CASE client_body /\ line["client"] # <<>>
  BY <1>4 DEF client_body, Asked, Got
<1>5. CASE client_body /\ line["client"] = <<>>
  <2>1. /\ cpc = "body" /\ LineRead("client") /\ cpc' = "rest"
        /\ received' = received \o <<>>
        /\ result' = IF Checks THEN "ok" ELSE "failed"
    BY <1>5 DEF client_body, Returned, ClientEnds
  <2>2. received \o <<>> = received
    <3>1. received \in Texts
      BY Start DEF TypeOK
    <3>. QED
      BY <3>1, Joining
  <2>3. /\ Readily => Checks /\ received = Content[request.file]
        /\ ~Readily => ~Checks
    BY <1>5, <2>1, BodyRead
  <2>4. Asked = {request} /\ Asked' = {}
    BY <2>1 DEF Asked
  <2>5. Got' = {Wanted(request)}
    <3>1. CASE Readily
      BY <2>1, <2>2, <2>3, <3>1 DEF Got, Wanted, Readily
    <3>2. CASE ~Readily
      BY <2>1, <2>3, <3>2 DEF Got, Wanted, Readily
    <3>. QED
      BY <3>1, <3>2
  <2>. QED
    BY <2>4, <2>5
<1>6. CASE ClientFails
  <2>1. cpc # "rest" /\ cpc' = "rest" /\ result' = "failed" /\ reset
    BY <1>6 DEF ClientFails, ClientEnds
  <2>2. request.method # "GET"
    BY <2>1, Start DEF SocketShape, Alive
  <2>. QED
    BY <2>1, <2>2 DEF Asked, Got, Wanted
<1>7. CASE ClientKilled
  BY <1>7 DEF ClientKilled, ClientEnds, Asked, Got
<1>8. ASSUME NEW p \in Sides, rio_write(p) \/ rio_readlineb(p)
      PROVE  Asked' = Asked /\ Got' = Got
  BY <1>2, <1>8 DEF rio_write, rio_readlineb, clientVars
<1>9. CASE ServerFails \/ request_init \/ request_read_headers \/ request_destroy
  BY <1>2, <1>9 DEF ServerFails, request_init, request_read_headers, request_destroy, clientVars
<1>10. CASE UNCHANGED vars
  BY <1>2, <1>10 DEF vars, clientVars
<1>. QED
  BY <1>1, <1>3, <1>4, <1>5, <1>6, <1>7, <1>8, <1>9, <1>10, PeerFacts DEF Next, Server, Client

(* However the streams are cut, a client that is not killed ends with the  *)
(* file it asked for, and one that asked for none that can be read ends    *)
(* with a failure: the safety of Exchange.                                 *)
THEOREM ConnectionIsExchange ==
    ASSUME NoFileLikePage, NoneExpectedEmpty
    PROVE  Spec => Ex!Safety
<1>1. Init => Ex!Init
  BY DEF Init, Ex!Init
<1>2. IInv /\ [Next]_vars => [Ex!Next]_(Ex!vars)
  <2>. SUFFICES ASSUME IInv, [Next]_vars PROVE [Ex!Next]_(Ex!vars)
    OBVIOUS
  <2>. QED
    BY ExchangeSteps
    DEF Asked, Got, Wanted, Ex!Next, Ex!Ask, Ex!Conclude, Ex!GoAway, Ex!vars
<1>. QED
  BY <1>1, <1>2, Invariance, PTL DEF Spec, Ex!Safety
=============================================================================
