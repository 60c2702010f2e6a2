----------------------------- MODULE Connection -----------------------------
(***************************************************************************)
(* One connection between webserver/client.c and a worker of the server:   *)
(* the request a client sends and how request.c reads it, the reply and    *)
(* how the client reads and checks it, and below both the Rio functions of *)
(* common.c, which make whole lines and whole buffers of the pieces that   *)
(* read and write move.                                                    *)
(*                                                                         *)
(* A socket is two streams of characters, one to each side; a pair of a    *)
(* name and a number stands for a word of the text, and the number is what *)
(* the word says or adds to the checksum.  No step moves a part of a word, *)
(* and any number of words may come at once.  A call that a signal         *)
(* interrupts is made again, which changes nothing here.  Closing a socket *)
(* with unread input, or writing to a closed one, resets the connection:   *)
(* the next call of the other side, or of the writer, may fail, and then   *)
(* ends its process (unix_error, SIGPIPE).                                 *)
(*                                                                         *)
(*   cpc  "rest"    no client, or one that has come to its end             *)
(*        "send"    in client_send       "header", "body"  in client_print *)
(*   spc  "accept"  the worker has no connection                           *)
(*        "line"    in request_init, reading the request line              *)
(*        "headers" in request_read_headers                                *)
(*        "reply"   writing the reply    "exit"  the process has ended     *)
(***************************************************************************)
EXTENDS Integers, Sequences, SequencesExt, FiniteSetsExt

CONSTANTS
    Files,         \* the files of the file set, numbered
    Content,       \* what the file set says is in each
    Readable,      \* the files request_readfile can read
    CachedEmpty,   \* files it cannot read that are in the cache, as empty ones
    MaxLine,       \* MAXLINE and MAXBUF
    RioSize,       \* RIO_BUFSIZE
    SocketSize     \* how much a socket takes before write blocks

ASSUME ConnectionAssumption ==
    /\ Files \subseteq Nat /\ Readable \subseteq Files /\ CachedEmpty \subseteq Files \ Readable
    /\ Content \in [Files -> Seq(STRING \X Nat)]
    /\ MaxLine \in Nat /\ MaxLine >= 2       \* no header line is longer
    /\ RioSize \in Nat \ {0}
    /\ SocketSize \in Nat /\ SocketSize >= 6       \* a request fits

VARIABLES
    request,       \* what the client asks for
    cpc, spc,
    out,           \* what each side has still to write
    stream,        \* what is on its way to each side
    closed,        \* the side has closed its socket
    reset,         \* the connection is reset
    rio,           \* the unread bytes of each side's rio_buf
    line,          \* what rio_readlineb has collected
    buf,           \* the buffer of the caller of rio_readlineb, <<>> as long
                   \* as nothing has been written to it
    file,          \* data->file_name: the file the worker is to send
    length, csum,  \* what the header of the reply says
    received,      \* the body the client has read, that is length_received
                   \* characters that add up to csum_received
    result         \* how the last client ended: "none", "ok" or "failed"

clientVars == <<length, csum, received>>
vars == <<request, cpc, spc, out, stream, closed, reset, rio, line, buf, file,
          clientVars, result>>

Sides == {"client", "server"}
Peer(p) == IF p = "client" THEN "server" ELSE "client"

Requests == [method : {"GET", "PUT"}, file : Files]

-----------------------------------------------------------------------------
(* The text of requests and replies. *)

CR == <<"cr", 13>>
NL == <<"nl", 10>>
EmptyLine == <<CR, NL>>
Text(r) == <<<<r.method, r.file>>, NL, <<"host", 0>>, NL>> \o EmptyLine

Sum(text) == FoldSeq(LAMBDA c, n : c[2] + n, 0, text)
Reply(status, body) ==
    <<<<"HTTP/1.0", status>>, NL, <<"Content-Length", Len(body)>>, NL,
      <<"Content-Csum", Sum(body)>>, NL>> \o EmptyLine \o body

(* request_error *)
Error(status) == Reply(status, <<<<"html", status>>>>)

(* What do_server_request sends.  When request_readfile fails it has sent   *)
(* an error, and the file is sent nevertheless: an empty one.  That is then *)
(* cached, and who finds it in the cache gets it without the error.        *)
Sent(f) ==
    IF f \in Readable THEN Reply(200, Content[f])
    ELSE (IF f \in CachedEmpty THEN <<>> ELSE Error(404)) \o Reply(200, <<>>)

-----------------------------------------------------------------------------
Init ==
    /\ request \in Requests
    /\ cpc = "rest" /\ spc = "accept" /\ result = "none"
    /\ out = [p \in Sides |-> <<>>] /\ stream = [p \in Sides |-> <<>>]
    /\ closed = [p \in Sides |-> TRUE] /\ reset = FALSE
    /\ rio = [p \in Sides |-> <<>>] /\ line = [p \in Sides |-> <<>>]
    /\ buf = [p \in Sides |-> <<>>]
    /\ file = 0
    /\ length = 0 /\ csum = 0 /\ received = <<>>

(* A client connects, and the worker takes the connection. *)
connect(r) ==
    /\ cpc = "rest" /\ spc = "accept"
    /\ request' = r
    /\ cpc' = "send" /\ spc' = "line" /\ result' = "none"
    /\ out' = [client |-> Text(r), server |-> <<>>]
    /\ stream' = [p \in Sides |-> <<>>]
    /\ closed' = [p \in Sides |-> FALSE] /\ reset' = FALSE
    /\ rio' = [p \in Sides |-> <<>>] /\ line' = [p \in Sides |-> <<>>]
    /\ buf' = [p \in Sides |-> <<>>]
    /\ length' = 0 /\ csum' = 0 /\ received' = <<>>
    /\ UNCHANGED file

(* The socket of p is closed. *)
Close(p) ==
    /\ closed' = [closed EXCEPT ![p] = TRUE]
    /\ reset' = (reset \/ stream[p] # <<>>)

-----------------------------------------------------------------------------
(* Rio. *)

(* A call of write takes k characters, or finds the other side gone. *)
Takes(p, k) ==
    IF closed[Peer(p)]
    THEN ~reset /\ reset' = TRUE /\ UNCHANGED stream
    ELSE /\ Len(stream[Peer(p)]) + k <= SocketSize
         /\ stream' = [stream EXCEPT ![Peer(p)] = @ \o SubSeq(out[p], 1, k)]
         /\ UNCHANGED reset

(* Faulty variant of Write: the first call is trusted to take everything. *)
WriteOnce(p) ==
    /\ out[p] # <<>> /\ ~closed[p]
    /\ \E k \in 1 .. Len(out[p]) : Takes(p, k)
    /\ out' = [out EXCEPT ![p] = <<>>]

Write(p) ==
    /\ out[p] # <<>> /\ ~closed[p]
    /\ \E k \in 1 .. Len(out[p]) :
          /\ Takes(p, k)
          /\ out' = [out EXCEPT ![p] = SubSeq(@, k + 1, Len(@))]

(* rio_write: one call of write. *)
rio_write(p) ==
    /\ Write(p)
    /\ UNCHANGED <<request, cpc, spc, closed, rio, line, buf, file, clientVars, result>>

Fill(p) ==
    /\ rio[p] = <<>> /\ stream[p] # <<>>
    /\ \E k \in 1 .. RioSize :
          /\ k <= Len(stream[p])
          /\ rio' = [rio EXCEPT ![p] = SubSeq(stream[p], 1, k)]
          /\ stream' = [stream EXCEPT ![p] = SubSeq(@, k + 1, Len(@))]

(* A line ends behind a newline, or at MaxLine characters (where the        *)
(* terminator then goes is not modelled); rio_readlineb returns with it,   *)
(* or with what there is at the end of the input.                          *)
Ended(text) == Last(text) = NL \/ Len(text) = MaxLine
LineRead(p) ==
    \/ line[p] # <<>> /\ Ended(line[p])
    \/ rio[p] = <<>> /\ stream[p] = <<>> /\ closed[Peer(p)]

(* Faulty variant of Collect: the limit is not looked at. *)
CollectOn(p) ==
    LET upto(k) == line[p] \o SubSeq(rio[p], 1, k)
        n == Min({k \in DOMAIN rio[p] : Last(upto(k)) = NL \/ k = Len(rio[p])})
    IN  /\ rio[p] # <<>>
        /\ line' = [line EXCEPT ![p] = upto(n)]
        /\ rio' = [rio EXCEPT ![p] = SubSeq(@, n + 1, Len(@))]

(* The loop of rio_readlineb over the characters in the buffer. *)
Collect(p) ==
    LET upto(k) == line[p] \o SubSeq(rio[p], 1, k)
        n == Min({k \in DOMAIN rio[p] : Ended(upto(k)) \/ k = Len(rio[p])})
    IN  /\ rio[p] # <<>>
        /\ line' = [line EXCEPT ![p] = upto(n)]
        /\ rio' = [rio EXCEPT ![p] = SubSeq(@, n + 1, Len(@))]

Reading(p) == IF p = "client" THEN cpc \in {"header", "body"} ELSE spc \in {"line", "headers"}

(* On the way to a line: read if the buffer is empty, or take from it. *)
rio_readlineb(p) ==
    /\ Reading(p) /\ ~LineRead(p)
    /\ \/ Fill(p) /\ UNCHANGED line
       \/ Collect(p) /\ UNCHANGED stream
    /\ UNCHANGED <<request, cpc, spc, out, closed, reset, buf, file, clientVars, result>>

(* It returns.  Without a character it does not touch the caller's buffer. *)
Held(p) == IF line[p] = <<>> THEN buf[p] ELSE line[p]
Returned(p) ==
    /\ Reading(p) /\ LineRead(p)
    /\ line' = [line EXCEPT ![p] = <<>>]

-----------------------------------------------------------------------------
(* The worker. *)

(* What sscanf makes of the first line, and strcmp of a header line.       *)
(* Without a line they look at a buffer with anything in it.               *)
IsEmptyLine(text) == IF text = <<>> THEN BOOLEAN ELSE {text = EmptyLine}
Parsed(text) ==
    IF text = <<>> THEN Requests ELSE {[method |-> text[1][1], file |-> text[1][2]]}

(* request_init up to the headers, which have a buffer of their own.       *)
(* Another method is answered at once.                                     *)
request_init ==
    /\ spc = "line" /\ Returned("server")
    /\ buf' = [buf EXCEPT !["server"] = <<>>]
    /\ \E r \in Parsed(Held("server")) :
          \/ /\ r.method = "GET"
             /\ spc' = "headers"
             /\ file' = r.file
             /\ UNCHANGED out
          \/ /\ r.method # "GET"
             /\ spc' = "reply"
             /\ out' = [out EXCEPT !["server"] = Error(501)]
             /\ UNCHANGED file
    /\ UNCHANGED <<request, cpc, stream, closed, reset, rio, clientVars, result>>

HeadersEnd(empty) ==
    IF ~empty THEN UNCHANGED <<spc, out>>
    ELSE /\ spc' = "reply"
         /\ out' = [out EXCEPT !["server"] = Sent(file)]

(* Faulty variant: one line more is read behind the empty one. *)
HeadersReadOn ==
    /\ spc = "headers" /\ Returned("server")
    /\ buf' = [buf EXCEPT !["server"] = Held("server")]
    /\ \E empty \in IsEmptyLine(buf["server"]) : HeadersEnd(empty)
    /\ UNCHANGED <<request, cpc, stream, closed, reset, rio, file, clientVars, result>>

(* request_read_headers; then the file is read and sent.  At the end of    *)
(* the input it goes round for ever on the last line, and the step changes *)
(* nothing.                                                                *)
request_read_headers ==
    /\ spc = "headers" /\ Returned("server")
    /\ buf' = [buf EXCEPT !["server"] = Held("server")]
    /\ \E empty \in IsEmptyLine(Held("server")) : HeadersEnd(empty)
    /\ UNCHANGED <<request, cpc, stream, closed, reset, rio, file, clientVars, result>>

request_destroy ==
    /\ spc = "reply" /\ out["server"] = <<>>
    /\ spc' = "accept"
    /\ Close("server")
    /\ UNCHANGED <<request, cpc, out, stream, rio, line, buf, file, clientVars, result>>

(* unix_error or SIGPIPE ends the server with all its workers. *)
ServerFails ==
    /\ reset /\ (Reading("server") \/ out["server"] # <<>>)
    /\ spc' = "exit"
    /\ Close("server")
    /\ UNCHANGED <<request, cpc, out, stream, rio, line, buf, file, clientVars, result>>

-----------------------------------------------------------------------------
(* The client. *)

(* client_send returns, and client_print begins. *)
client_sent ==
    /\ cpc = "send" /\ out["client"] = <<>>
    /\ cpc' = "header"
    /\ UNCHANGED <<request, spc, out, stream, closed, reset, rio, line, buf, file,
                   clientVars, result>>

Says(tag, other) == IF line["client"][1][1] = tag THEN line["client"][1][2] ELSE other

(* client_print, the header: its numbers, up to the empty line. *)
client_header ==
    /\ cpc = "header" /\ Returned("client")
    /\ buf' = [buf EXCEPT !["client"] = Held("client")]
    /\ IF line["client"] = <<>> THEN cpc' = "body" /\ UNCHANGED <<length, csum>>
       ELSE /\ cpc' = IF line["client"] = EmptyLine THEN "body" ELSE "header"
            /\ length' = Says("Content-Length", length)
            /\ csum' = Says("Content-Csum", csum)
    /\ UNCHANGED <<request, spc, out, stream, closed, reset, rio, file, received, result>>

(* The end of a client: it has returned, or an assertion or a call failed. *)
ClientEnds(how) ==
    /\ cpc' = "rest"
    /\ result' = how
    /\ Close("client")

(* The assertions of client_print. *)
Checks ==
    /\ Sum(Content[request.file]) = csum /\ Len(Content[request.file]) = length
    /\ length = Len(received) /\ csum = Sum(received)

(* client_print, the body, up to the end of the input. *)
client_body ==
    /\ cpc = "body" /\ Returned("client")
    /\ buf' = [buf EXCEPT !["client"] = Held("client")]
    /\ received' = received \o line["client"]
    /\ IF line["client"] # <<>> THEN UNCHANGED <<cpc, result, closed, reset>>
       ELSE ClientEnds(IF Checks THEN "ok" ELSE "failed")
    /\ UNCHANGED <<request, spc, out, stream, rio, file, length, csum>>

ClientFails ==
    /\ reset /\ (Reading("client") \/ out["client"] # <<>>)
    /\ cpc # "rest"
    /\ ClientEnds("failed")
    /\ UNCHANGED <<request, spc, out, stream, rio, line, buf, file, clientVars>>

(* The client is killed, at any time. *)
ClientKilled ==
    /\ cpc # "rest"
    /\ ClientEnds("none")
    /\ UNCHANGED <<request, spc, out, stream, rio, line, buf, file, clientVars>>

-----------------------------------------------------------------------------
Server == \/ rio_write("server") \/ rio_readlineb("server") \/ ServerFails
          \/ request_init \/ request_read_headers \/ request_destroy
Client == \/ rio_write("client") \/ rio_readlineb("client") \/ ClientFails
          \/ client_sent \/ client_header \/ client_body

Next ==
    \/ \E r \in Requests : connect(r)
    \/ Server
    \/ Client
    \/ ClientKilled
    \/ spc = "exit" /\ cpc = "rest" /\ UNCHANGED vars

Spec == Init /\ [][Next]_vars

(* Both sides go on as long as they can. *)
FairSpec == Spec /\ WF_vars(Server) /\ WF_vars(Client)

-----------------------------------------------------------------------------
(* Properties. *)

Words == UNION ({ToSet(Text(r)) : r \in Requests} \cup {ToSet(Sent(f)) : f \in Files}
                \cup {ToSet(Error(501))})
Texts == Seq(Words)

TypeOK ==
    /\ request \in Requests /\ file \in Files \cup {0}
    /\ cpc \in {"rest", "send", "header", "body"}
    /\ spc \in {"accept", "line", "headers", "reply", "exit"}
    /\ out \in [Sides -> Texts] /\ stream \in [Sides -> Texts]
    /\ rio \in [Sides -> Texts] /\ line \in [Sides -> Texts] /\ buf \in [Sides -> Texts]
    /\ closed \in [Sides -> BOOLEAN] /\ reset \in BOOLEAN
    /\ length \in Nat /\ csum \in Nat /\ received \in Texts
    /\ result \in {"none", "ok", "failed"}
    /\ \A p \in Sides : Len(rio[p]) <= RioSize /\ Len(stream[p]) <= SocketSize
                        /\ Len(line[p]) <= MaxLine

Ex == INSTANCE Exchange WITH
         Requests <- Requests,
         Answer   <- LAMBDA r : IF r.method = "GET" /\ r.file \in Readable
                                THEN Content[r.file] ELSE <<"refused">>,
         asked    <- IF cpc = "rest" THEN {} ELSE {request},
         answer   <- IF cpc # "rest" \/ result = "none" THEN {}
                     ELSE {IF result = "ok" THEN received ELSE <<"refused">>}

(* However the two streams are cut into reads and writes, and whatever     *)
(* lines the file has, a client that is not killed gets the file it asked  *)
(* for, or fails if there is none to get.                                  *)
ImplementsExchange == Ex!Spec

(* request.c:57 "reads and discards everything up to an empty text line":  *)
(* a worker whose client has sent its request comes back for the next      *)
(* connection, also when the client has gone in the meantime, unless the   *)
(* whole server ends.                                                      *)
WorkerReturns ==
    spc # "accept" /\ out["client"] = <<>> ~> spc \in {"accept", "exit"}
=============================================================================
