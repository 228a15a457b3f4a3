----------------------------- MODULE WebSurface -----------------------------
(***************************************************************************)
(* The HTTP surfaces of the system and the helpers they share (netauth,    *)
(* _web): how a service decides to start, who is let in, and what a        *)
(* request is answered.  Each service is started with a host and a token   *)
(* and asked once.                                                         *)
(*                                                                         *)
(* A string is its text and whether there is whitespace around it; None    *)
(* and "" are the same to every caller.  Bodies are abstracted to whether  *)
(* they parse.                                                             *)
(***************************************************************************)
EXTENDS Naturals

VARIABLE wsQuery   \* a service, how it was started, and one request

Services == {"llm", "ui", "station", "health", "commander"}
Strings == [text : {"", "secret", "other"}, padded : BOOLEAN]
Headers == [scheme : {"none"}, value : {[text |-> "", padded |-> FALSE]}]
               \cup [scheme : {"bearer", "basic"}, value : Strings]

Queries ==
    [service : Services, host : {"loopback", "network"}, token : Strings, wired : BOOLEAN,
     route : {"healthz", "page", "data", "panel"}, header : Headers,
     body : {"object", "other", "malformed"}, source : {"ok", "raises"}]

Init == wsQuery \in Queries

Given(s) == s.text # "" \/ s.padded
Strip(s) == [s EXCEPT !.padded = FALSE]

-----------------------------------------------------------------------------
(* netauth.py *)

\* authorize: anyone if there is no token, else the bearer of the token, stripped.
Authorize(token, header) ==
    \/ ~Given(token)
    \/ /\ header.scheme = "bearer"
       /\ Given(header.value)
       /\ Strip(header.value) = token

\* validate_bind
Refused(host, token) == host # "loopback" /\ ~Given(token)

-----------------------------------------------------------------------------
(* The services *)

\* The token a service authorizes with.  The assistant, the console and the commander strip
\* the one they are given; the station and the health listener take it as it is.
LlmToken(token) == Strip(token)
UiToken(token) == Strip(token)
CommanderToken(token) == Strip(token)
StationToken(token) == token
HealthToken(token) == token

Effective(service, token) ==
    [llm |-> LlmToken(token), ui |-> UiToken(token), commander |-> CommanderToken(token),
     station |-> StationToken(token), health |-> HealthToken(token)][service]

Starts(q) == ~Refused(q.host, Effective(q.service, q.token))

\* Their routes, and how each is guarded: not at all, by the Authorization header, by a token
\* in the query (a browser that opens a page sends no header), or it is not there.  A panel
\* of the console, and /metrics, are there if they are wired.
LlmRoutes == [healthz |-> "open", page |-> "open", data |-> "bearer", panel |-> "absent"]
UiRoutes(wired) == [healthz |-> "open", page |-> "query", data |-> "bearer",
                    panel |-> IF wired THEN "bearer" ELSE "absent"]
StationRoutes == [healthz |-> "open", page |-> "query", data |-> "bearer", panel |-> "absent"]
HealthRoutes(wired) == [healthz |-> "open", page |-> "absent", data |-> "absent",
                        panel |-> IF wired THEN "bearer" ELSE "absent"]
CommanderRoutes == [healthz |-> "open", page |-> "absent", data |-> "bearer",
                    panel |-> "absent"]

Guard(q) ==
    [llm |-> LlmRoutes, ui |-> UiRoutes(q.wired), station |-> StationRoutes,
     health |-> HealthRoutes(q.wired), commander |-> CommanderRoutes][q.service][q.route]

\* A query carries no scheme; the gate checks it like a bearer.
Presented(q) == IF Guard(q) = "query" THEN [q.header EXCEPT !.scheme = "bearer"] ELSE q.header

Admitted(q) ==
    \/ Guard(q) = "open"
    \/ Guard(q) \in {"query", "bearer"} /\ Authorize(Effective(q.service, q.token), Presented(q))

\* Which routes may read a body: the chats, the triage of the station and the commands.
ReadsBody(q) ==
    \/ q.route = "data" /\ q.service \in {"llm", "station", "commander"}
    \/ q.route = "panel" /\ q.service = "ui"

\* The commander looks into a body that is no object before it checks it.
BadBody(q) == IF q.service = "commander" /\ q.body = "other" THEN 500 ELSE 400

\* The console and the assistant turn a source that raises into a 502; elsewhere the
\* exception reaches the framework.
Raised(q) == IF q.service \in {"ui", "llm"} THEN 502 ELSE 500

ReadsSource(q) == q.route \in {"data", "panel"} \/ q.service = "health"

Status(q) ==
    IF Guard(q) = "absent" THEN 404
    ELSE IF ~Admitted(q) THEN 401
    ELSE IF ReadsBody(q) /\ q.body # "object" THEN BadBody(q)
    ELSE IF ReadsSource(q) /\ q.source = "raises" THEN Raised(q)
    ELSE 200

-----------------------------------------------------------------------------
(* Properties *)

\* Fail closed on every surface, however its token was written and whatever is presented: a
\* service that starts answers a guarded route only for the token it was configured with, but
\* for whitespace around it, or when it has none and is reached on the loopback only.
FailClosed ==
    Starts(wsQuery) /\ Guard(wsQuery) \in {"query", "bearer"} /\ Status(wsQuery) # 401 =>
        \/ wsQuery.host = "loopback" /\ wsQuery.token.text = ""
        \/ /\ wsQuery.token.text # ""
           /\ wsQuery.header.value.text = wsQuery.token.text

\* And not shut for good: the token as it was configured lets its bearer in, unless the
\* service takes it as it is and there is whitespace around it.
BearerAdmitted ==
    (/\ Guard(wsQuery) \in {"query", "bearer"}
     /\ wsQuery.header.scheme = "bearer"
     /\ wsQuery.header.value = wsQuery.token
     /\ Effective(wsQuery.service, wsQuery.token) = Strip(wsQuery.token)) =>
        Status(wsQuery) # 401
=============================================================================
