------------------------------ MODULE Requests ------------------------------
(***************************************************************************)
(* How http_route() reads one request from a connection and what           *)
(* parse_http_request() makes of it, for every way the network may cut the *)
(* client's bytes into reads and every place where the client may pause or *)
(* go away.                                                                *)
(*                                                                         *)
(* What a client sends is a sequence of units: the text of the request     *)
(* line, its line end, header lines, the blank line and pieces of body. A  *)
(* read returns any number of them; the buffer holds HeadRoom.             *)
(***************************************************************************)
EXTENDS Integers, Sequences, FiniteSets

CONSTANTS HeadRoom, \* RAW_REQUEST_SIZE - 1
          MaxHeads, \* bound on the header lines sent
          BodyCap,  \* MAX_BODY_SIZE
          MaxBody   \* bound on the body sent

ASSUME RequestsAssumption ==
    /\ HeadRoom \in Nat /\ HeadRoom >= 3
    /\ MaxHeads \in Nat /\ BodyCap \in Nat /\ MaxBody \in Nat

NoLength == -1

\* What clients send: a request line with a version ("http"), without one
\* ("simple"), with something else in its place or of one word, headers, a
\* blank line with or without carriage returns or, from Cello, none, and a
\* body, which may be longer than its Content-Length (NCSA Mosaic 2, IE 2)
\* and whose first line may look like a header (a multipart one does).
Messages ==
    {m \in [line : {"http", "simple", "other", "word"}, heads : 0 .. MaxHeads, ends : {"crlf", "lf", "never"},
            length : NoLength .. BodyCap + 1, body : 0 .. MaxBody, lines : BOOLEAN] :
        /\ m.length > NoLength => m.heads > 0
        /\ m.ends = "never" \/ m.line = "simple" => m.body = 0 /\ m.length = NoLength
        /\ m.lines => m.body > 0}

\* The three fields of the sscanf() of the line.
Versioned(m) == m.line \in {"http", "other"}

Repeat(unit, n) == [i \in 1 .. n |-> unit]

Stream(m) ==
    <<"text", "eol">> \o Repeat("head", m.heads)
        \o (IF m.ends = "never" THEN <<>> ELSE <<"blank">>) \o Repeat("body", m.body)

HeadSize(m) == 3 + m.heads

VARIABLES
    message, \* what this client sends
    secure,  \* the connection is TLS
    read,    \* bytes_read
    stage,   \* where http_route() is
    answer,  \* what it did: a status, or "routed" with what was parsed
    paused   \* history: the poll() of 400 ms ended with more to come

reqVars == <<message, secure, read, stage, answer, paused>>

Pending == [status |-> "none", heads |-> 0, strays |-> 0, body |-> 0]
Status(s) == [Pending EXCEPT !.status = s]

ReqInit ==
    /\ message \in Messages
    /\ secure \in BOOLEAN
    /\ read = 0 /\ stage = "head" /\ answer = Pending /\ paused = FALSE

Sees(unit, n) == \E i \in 1 .. n : Stream(message)[i] = unit

-----------------------------------------------------------------------------
(* The header block.                                                       *)

\* What the loop decides once n units are in.
AfterRead(n) ==
    IF Sees("blank", n) \/ (Sees("eol", n) /\ message.line = "simple") THEN "length"
    ELSE IF Sees("eol", n) /\ Versioned(message) /\ ~secure THEN "poll"
    ELSE IF n >= HeadRoom THEN "431"
    ELSE "head"

\* One read_func() of the header loop.
ReadHead ==
    /\ stage = "head"
    /\ read < HeadRoom
    /\ \E n \in read + 1 .. HeadRoom :
        /\ n <= Len(Stream(message))
        /\ read' = n
        /\ stage' = IF AfterRead(n) = "431" THEN "end" ELSE AfterRead(n)
        /\ answer' = IF AfterRead(n) = "431" THEN Status("431") ELSE answer
    /\ UNCHANGED <<message, secure, paused>>

\* The poll() for what may still arrive; nothing did for 400 ms.
PollIdle ==
    /\ stage = "poll"
    /\ stage' = "length"
    /\ paused' = (paused \/ read < Len(Stream(message)))
    /\ UNCHANGED <<message, secure, read, answer>>

\* Something did, and the loop goes on while there is room.
PollMore ==
    /\ stage = "poll"
    /\ read < Len(Stream(message))
    /\ stage' = IF read < HeadRoom THEN "head" ELSE "length"
    /\ UNCHANGED <<message, secure, read, answer, paused>>

\* read_func() fails, by the peer's close or by the socket's timeout.
ReadFails ==
    /\ stage \in {"head", "body"}
    /\ stage' = "end"
    /\ answer' = Status("closed")
    /\ UNCHANGED <<message, secure, read, paused>>

-----------------------------------------------------------------------------
(* The body.                                                               *)

\* "\r\n\r\n" is in what was read.
HasHeadEnd == message.ends = "crlf" /\ Sees("blank", read)

\* Mutant: what follows the body is kept.
KeptWhole == read

\* Bytes past Content-Length are not part of the body.
Kept ==
    IF message.length > NoLength /\ read - HeadSize(message) > message.length
    THEN HeadSize(message) + message.length ELSE read

TakeLength ==
    /\ stage = "length"
    /\ IF ~HasHeadEnd THEN stage' = "parse" /\ UNCHANGED <<read, answer>>
       ELSE /\ read' = Kept
            /\ IF message.length > BodyCap
               THEN stage' = "end" /\ answer' = Status("413")
               ELSE /\ stage' = IF message.length > 0 /\ message.length > read - HeadSize(message)
                                THEN "body" ELSE "parse"
                    /\ UNCHANGED answer
    /\ UNCHANGED <<message, secure, paused>>

ReadBody ==
    /\ stage = "body"
    /\ \E n \in read + 1 .. HeadSize(message) + message.length :
        /\ n <= Len(Stream(message))
        /\ read' = n
        /\ stage' = IF n = HeadSize(message) + message.length THEN "parse" ELSE "body"
    /\ UNCHANGED <<message, secure, answer, paused>>

-----------------------------------------------------------------------------
(* parse_http_request().                                                   *)

\* strtok_r() never returns the empty line, so its loop goes on into the
\* body: a line there that has a colon is one more header, behind those of
\* the head, where get_header_value() finds it only for a name they lack.
HeadersIn(unit) == Cardinality({i \in 1 .. read : Stream(message)[i] = unit})

Parsed ==
    [status |-> IF message.line \in {"http", "simple"} THEN "routed" ELSE "400",
     heads  |-> HeadersIn("head"),
     strays |-> IF message.lines /\ HeadersIn("body") > 0 THEN 1 ELSE 0,
     body   |-> IF HasHeadEnd THEN read - HeadSize(message) ELSE 0]

Parse ==
    /\ stage = "parse"
    /\ stage' = "end"
    /\ answer' = IF Parsed.status = "400" THEN Status("400") ELSE Parsed
    /\ UNCHANGED <<message, secure, read, paused>>

ReqNext == ReadHead \/ PollIdle \/ PollMore \/ ReadFails \/ TakeLength \/ ReadBody \/ Parse

ReqSpec == ReqInit /\ [][ReqNext]_reqVars

-----------------------------------------------------------------------------
(* Properties.                                                             *)

\* The requests whose reading ends, or whose body is delimited, by what one
\* read happens to bring: a version-less line with headers behind it, a body
\* of no declared length, and one behind a blank line of bare line feeds.
CutByTheNetwork(m) ==
    \/ m.line = "simple" /\ m.heads > 0
    \/ m.body > 0 /\ (m.length = NoLength \/ m.ends = "lf")

\* What a client's message amounts to, however it is cut.
Meaning(m, tls) ==
    IF HeadSize(m) > HeadRoom /\ (m.line = "word" \/ (Versioned(m) /\ tls)) THEN Status("431")
    ELSE IF HeadSize(m) <= HeadRoom /\ m.ends = "crlf" /\ m.length > BodyCap THEN Status("413")
    ELSE IF m.line \in {"other", "word"} THEN Status("400")
    ELSE IF HeadSize(m) > HeadRoom /\ m.line = "http" THEN [Status("routed") EXCEPT !.heads = HeadRoom - 2]
    ELSE IF m.ends # "crlf" THEN [Status("routed") EXCEPT !.heads = m.heads]
    ELSE [Status("routed") EXCEPT !.heads = m.heads,
                                  !.body = IF m.length > 0 THEN m.length ELSE 0,
                                  !.strays = IF m.lines /\ m.length > 0 THEN 1 ELSE 0]

\* However the network cuts a request into reads, http_route() takes the same
\* headers and exactly Content-Length bytes of body from it, and answers
\* nothing to one that breaks off: what follows the body, or a body that
\* comes in many pieces, changes nothing. Excepted are the plain request that
\* pauses for 400 ms within its headers, and CutByTheNetwork.
SplitIndependent ==
    /\ stage \in {"head", "poll", "length", "body", "parse", "end"}
    /\ answer.status \in {"routed", "400", "413", "431"} /\ ~paused /\ ~CutByTheNetwork(message)
           => answer = Meaning(message, secure)

=============================================================================
