------------------------------ MODULE MCServer ------------------------------
(* The web server: its listeners and connection threads (Server), the       *)
(* reading of one request (Requests) and the pages a visitor is shown       *)
(* (Pages).  They share no state, so a behaviour of this specification is   *)
(* one of exactly one of them.                                              *)
EXTENDS Server, Requests, Pages

\* A front, a stranger and a local client of the plain listener, sending what
\* they may, beside a direct client of the TLS one.
Direct == [tls |-> TRUE, trusted |-> FALSE, loopback |-> FALSE, header |-> "none"]
Plain ==
    {k \in Kind : /\ ~k.tls /\ ~(k.trusted /\ k.loopback)
                  /\ k.header \in IF k.trusted THEN {"source", "local", "invalid"}
                                  ELSE IF k.loopback THEN {"none"} ELSE {"source"}}
MCKinds == Plain \cup {Direct}
Visitor == CHOOSE c \in Conns : TRUE

-----------------------------------------------------------------------------
VARIABLE side
allVars == <<vars, reqVars, pageVars, side>>

AMessage == CHOOSE m \in Messages : TRUE

MCInit ==
    /\ side \in {"server", "request", "pages"}
    /\ Init /\ ReqInit /\ PageInit
    /\ side # "request" => message = AMessage /\ secure
    /\ ~ready \/ browser = "wap" => account = "admin"
    /\ side # "pages" => browser = "old" /\ ready /\ account = "admin" /\ ~closedSite

MCNext ==
    /\ UNCHANGED side
    /\ \/ /\ side = "server" /\ Next /\ UNCHANGED <<reqVars, pageVars>>
          /\ thread'[Visitor] # "away" => kind'[Visitor] = Direct
       \/ side = "request" /\ ReqNext /\ UNCHANGED <<vars, pageVars>>
       \/ side = "pages" /\ PageNext /\ UNCHANGED <<vars, reqVars>>

\* The fairness of FairSpec and of PageFairSpec, each on its own side.
MCFair ==
    /\ WF_vars(side = "server" /\ AcceptThread)
    /\ WF_vars(side = "server" /\ CleanerThread)
    /\ WF_vars(side = "server" /\ Stopping)
    /\ \A c \in Conns : WF_vars(side = "server" /\ ConnThread(c))
    /\ WF_pageVars(side = "pages" /\ Answer)

MCSpec == MCInit /\ [][MCNext]_allVars /\ MCFair
=============================================================================
