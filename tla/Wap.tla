-------------------------------- MODULE Wap ---------------------------------
(***************************************************************************)
(* The WAP gateway (wap_gateway/wap_gateway.c): one thread that polls UDP  *)
(* sockets, answers a datagram with one datagram, and fetches every page   *)
(* over HTTP, following redirects.  Phones are outside: a datagram may     *)
(* reach a socket any number of times, in any order, or never, and a phone *)
(* that gets no answer sends it again.                                     *)
(*                                                                         *)
(* A request is limited per source address by a small table the thread     *)
(* alone touches.  A page is a name; an address is a host (NoHost when the *)
(* URI names none) and a page.                                             *)
(***************************************************************************)
EXTENDS Integers, Sequences, FiniteSets, FiniteSetsExt

CONSTANTS
    Phones,         \* source addresses of phones
    Hosts,          \* hosts a URI may name
    PageNames,      \* pages a path may name
    TableSize,      \* RATE_TABLE_SIZE
    RateLimit,      \* wap_gateway_rate_limit; 0 is no limit
    Window,         \* RATE_WINDOW_SEC, in ticks
    MaxRedirects,   \* MAX_REDIRECTS
    MaxReceived,    \* bound: datagrams that reach a socket
    MaxClock,       \* bound: the clock
    NoHost, NoSource

ASSUME WapAssumption ==
    /\ {TableSize, RateLimit, Window, MaxRedirects, MaxReceived, MaxClock} \subseteq Nat
    /\ TableSize > 0 /\ Window > 0 /\ NoSource \notin Phones

VARIABLES
    received,   \* how many datagrams have reached a socket
    reply,      \* the datagram sent back last
    rate,       \* rate_table: slot -> [ip, start, count]
    clock,      \* time(NULL), from 1
    granted,    \* history: source -> the times rate_allow() let it through
    crowded,    \* history: sources that lost their slot within their window
    gw,         \* the gateway thread
    sockets,    \* whether the sockets are open
    stopping    \* wap_gateway_stop() was called

wapVars == <<received, reply, rate, clock, granted, crowded, gw, sockets, stopping>>

Free == [ip |-> NoSource, start |-> 0, count |-> 0]
Uri == [host : Hosts \cup {NoHost}, page : PageNames]

\* What a phone may send, at any time and as often as it likes.
Datagram == [from : Phones, kind : {"get", "post", "malformed post", "other"}, uri : Uri]
NoDatagram == [from |-> NoSource, kind |-> "other",
               uri |-> [host |-> NoHost, page |-> CHOOSE p \in PageNames : TRUE]]
NoReply == [to |-> NoDatagram, what |-> "none", came |-> NoDatagram.uri, links |-> NoDatagram.uri]

\* The thread between two datagrams; posted counts, up to two, how often the
\* form of the one it serves has gone upstream.
Polling == [pc |-> "poll", dg |-> NoDatagram, hop |-> 0, at |-> NoDatagram.uri, posted |-> 0]

WapInit ==
    /\ received = 0 /\ reply = NoReply
    /\ rate = [i \in 1 .. TableSize |-> Free]
    /\ clock = 1
    /\ granted = [s \in Phones |-> << >>] /\ crowded = {}
    /\ gw = Polling /\ sockets = TRUE /\ stopping = FALSE

Tick ==
    /\ clock < MaxClock
    /\ clock' = clock + 1
    /\ UNCHANGED <<received, reply, rate, granted, crowded, gw, sockets, stopping>>

-----------------------------------------------------------------------------
(* The per-source limit.                                                   *)

\* The slot whose window began first (a free one has start 0), the first of several.
Victim == CHOOSE i \in 1 .. TableSize :
              /\ \A j \in 1 .. TableSize : rate[i].start <= rate[j].start
              /\ \A j \in 1 .. i - 1 : rate[j].start > rate[i].start

SlotOf(s) ==
    IF \E i \in 1 .. TableSize : rate[i].ip = s
    THEN CHOOSE i \in 1 .. TableSize : rate[i].ip = s
    ELSE Victim

\* The entry as rate_allow() leaves it: taken over, begun again or counted.
Entry(s) ==
    LET e == rate[SlotOf(s)]
    IN IF e.ip # s THEN [ip |-> s, start |-> clock, count |-> 1]
       ELSE IF clock - e.start >= Window THEN [ip |-> s, start |-> clock, count |-> 1]
       ELSE [e EXCEPT !.count = @ + 1]

Allowed(s) == RateLimit = 0 \/ Entry(s).count <= RateLimit

Counted(s) ==
    IF RateLimit = 0 THEN UNCHANGED <<rate, crowded>>
    ELSE /\ rate' = [rate EXCEPT ![SlotOf(s)] = Entry(s)]
         /\ LET e == rate[SlotOf(s)]
            IN crowded' = IF e.ip \notin {s, NoSource} /\ clock - e.start < Window
                          THEN crowded \cup {e.ip} ELSE crowded

-----------------------------------------------------------------------------
(* The gateway thread.                                                     *)

\* handle_datagram(): what is no request in the expected framing is ignored
\* before it is counted; what is over the limit is dropped without an answer.
Receive ==
    /\ gw.pc = "poll" /\ ~stopping
    /\ received < MaxReceived /\ received' = received + 1
    /\ \E d \in Datagram :
        \/ /\ d.kind \in {"malformed post", "other"}
           /\ UNCHANGED <<rate, crowded, granted, gw>>
        \/ /\ d.kind \in {"get", "post"} /\ Counted(d.from)
           /\ IF Allowed(d.from)
              THEN /\ granted' = [granted EXCEPT ![d.from] = Append(@, clock)]
                   /\ gw' = [Polling EXCEPT !.pc = "fetch", !.dg = d, !.at = d.uri]
              ELSE UNCHANGED <<granted, gw>>
    /\ UNCHANGED <<reply, clock, sockets, stopping>>

\* Mutant: the form is sent again on every hop.
PostsOnEvery(hop) == gw.dg.kind = "post"

\* fetch_following() posts on the first hop only.
PostsOn(hop) == gw.dg.kind = "post" /\ hop = 0

\* An absolute Location names the site the rest of the chain is on.
Moved(at, to) == [host |-> IF to.host = NoHost THEN at.host ELSE to.host, page |-> to.page]

\* The address the reply's links are built from: after a post, that of the
\* page it led to.
Shown(g) == IF g.dg.kind = "post" /\ g.at.host # NoHost THEN g.at ELSE g.dg.uri

SendReply(what) ==
    /\ reply' = [to |-> gw.dg, what |-> what, came |-> gw.at, links |-> Shown(gw)]
    /\ gw' = Polling

\* One fetch_page(): the form goes upstream, and the answer is a page or what
\* stands for one, nothing within FETCH_TIMEOUT_SEC, or a redirect.
Fetch ==
    /\ gw.pc = "fetch" /\ gw.hop <= MaxRedirects
    /\ \/ \E what \in {"content", "message"} : SendReply(what)
       \/ /\ UNCHANGED reply
          /\ \E to \in Uri :
              gw' = [gw EXCEPT !.hop = @ + 1, !.at = Moved(@, to),
                               !.posted = IF PostsOn(gw.hop) /\ @ < 2 THEN @ + 1 ELSE @]
    /\ UNCHANGED <<received, rate, clock, granted, crowded, sockets, stopping>>

\* A redirect past the last hop is answered as content that is not available.
GiveUp ==
    /\ gw.pc = "fetch" /\ gw.hop > MaxRedirects
    /\ SendReply("message")
    /\ UNCHANGED <<received, rate, clock, granted, crowded, sockets, stopping>>

-----------------------------------------------------------------------------
(* Stopping.                                                               *)

Stop ==
    /\ ~stopping /\ stopping' = TRUE
    /\ UNCHANGED <<received, reply, rate, clock, granted, crowded, gw, sockets>>

\* The loop sees the flag between two datagrams, at the latest when poll()
\* times out.
ThreadEnds ==
    /\ gw.pc = "poll" /\ stopping
    /\ gw' = [gw EXCEPT !.pc = "ended"]
    /\ UNCHANGED <<received, reply, rate, clock, granted, crowded, sockets, stopping>>

\* pthread_join() has returned.
Joined == stopping /\ gw.pc = "ended"

CloseSockets ==
    /\ sockets /\ Joined
    /\ sockets' = FALSE
    /\ UNCHANGED <<received, reply, rate, clock, granted, crowded, gw, stopping>>

WapNext == Tick \/ Receive \/ Fetch \/ GiveUp \/ Stop \/ ThreadEnds \/ CloseSockets

WapSpec == WapInit /\ [][WapNext]_wapVars

-----------------------------------------------------------------------------
WapTypeOK ==
    /\ received \in 0 .. MaxReceived /\ gw.dg \in Datagram \cup {NoDatagram}
    /\ \A i, j \in 1 .. TableSize : rate[i].ip = rate[j].ip => i = j \/ rate[i].ip = NoSource
    /\ \A i \in 1 .. TableSize : rate[i].ip \in Phones \cup {NoSource} /\ rate[i].start \in 0 .. clock
    /\ gw.pc \in {"poll", "fetch", "ended"} /\ gw.hop \in 0 .. MaxRedirects + 1

\* rate_allow(): in any Window consecutive ticks a source is answered at most
\* twice the limit (the end of one window and the start of the next), unless
\* other sources crowded it out of the table within its window.
RateBound ==
    RateLimit > 0 =>
        \A s \in Phones \ crowded : \A t \in 1 .. clock :
            Cardinality({i \in DOMAIN granted[s] : granted[s][i] \in t .. t + Window - 1})
                <= 2 * RateLimit

\* A form is posted upstream at most once for each time its datagram arrives,
\* however many redirects follow, and nothing but a form is.
PostOnce == gw.posted <= 1 /\ (gw.posted = 1 => gw.dg.kind = "post")

\* After a post the reply's Prev, Next and site-relative links are those of
\* the page it led to, on whatever site the redirects ended.
LandingShown == reply.to.kind = "post" /\ reply.came.host # NoHost => reply.links = reply.came

\* wap_gateway_stop() closes the sockets only when the thread that polls and
\* writes them has ended.
SocketsOutlive == ~sockets => gw.pc = "ended"

\* Together: what the gateway answers a phone, sends upstream and holds, with
\* datagrams repeated, redirects followed and a stop at any moment.
WapInv == WapTypeOK /\ RateBound /\ PostOnce /\ LandingShown /\ SocketsOutlive
=============================================================================
