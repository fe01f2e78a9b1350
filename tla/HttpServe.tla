------------------------------- MODULE HttpServe -------------------------------
(***************************************************************************)
(* One of the two API processes from its start to its exit: run of         *)
(* cmd/dashboard or cmd/rollout, Run of internal/httpserve/serve.go with   *)
(* its listener goroutine, its select and the drain of net/http, and the   *)
(* requests that the guard of Access turns away or lets pass.  The         *)
(* handlers are the other modules' subject: here one may take any time.    *)
(*                                                                         *)
(* Flags, the fleet file, the release key, the CDN's address and           *)
(* certificates are good or stop the start.  Of time this is kept: the     *)
(* timer of the drain may fire, and does if the drain does not end.        *)
(***************************************************************************)
EXTENDS Access

CONSTANTS
    Files,      \* what a credentials file may hold when a process starts
    Requests,   \* one connection with one request each
    Calls,      \* what a request may be: a header and a route
    MaxStarts   \* bound of the model

ASSUME HttpAssumption ==
    /\ Files \subseteq Seq(Entries)
    /\ \A call \in Calls : call.header.token \in Texts
    /\ MaxStarts \in Nat

VARIABLES
    stage,      \* "down", "loading", "starting", "serving", "draining"
    exit,       \* how the last process ended: "none", "ok", "error", "killed"
    starts,     \* processes started so far
    file,       \* the credentials file as this process read it
    loaded,     \* entries of it that are in the store
    tokens,     \* the store
    ctxDone,    \* a signal has cancelled the context
    listener,   \* the listener goroutine: "off", "starting", "open"
    errc,       \* what it has sent: "none", "failed", "closed"
    req,        \* "new", "dialled", "read", "handling", "answered", "dropped", "cut"
    call,       \* what each request is, once it has been read
    caller,     \* the identity its handler is told
    status      \* what it was answered: 0 for none

processVars == <<stage, exit, starts, file, loaded, tokens, ctxDone, listener, errc>>
requestVars == <<req, call, caller, status>>
vars        == <<processVars, requestVars>>

HttpInit ==
    /\ stage = "down" /\ exit = "none" /\ starts = 0
    /\ file = <<>> /\ loaded = 0 /\ tokens = EmptyStore
    /\ ctxDone = FALSE /\ listener = "off" /\ errc = "none"
    /\ req = [r \in Requests |-> "new"]
    /\ call = [r \in Requests |-> Nobody]
    /\ caller = [r \in Requests |-> Nobody]
    /\ status = [r \in Requests |-> 0]

Up == stage # "down"

\* The process ends, and with it whatever is under way.
Exit(how) ==
    /\ stage' = "down"
    /\ exit' = how
    /\ ctxDone' = FALSE
    /\ listener' = "off"
    /\ errc' = "none"
    /\ req' = [r \in Requests |->
                  CASE req[r] = "dialled" -> "dropped"
                    [] req[r] \in {"read", "handling"} -> "cut"
                    [] OTHER -> req[r]]
    /\ UNCHANGED <<starts, file, loaded, tokens, call, caller, status>>

-----------------------------------------------------------------------------
(* run, up to httpserve.Run. *)

Start ==
    /\ ~Up
    /\ starts < MaxStarts
    /\ stage' = "loading"
    /\ starts' = starts + 1
    /\ file' \in Files
    /\ loaded' = 0
    /\ tokens' = EmptyStore
    /\ UNCHANGED <<exit, ctxDone, listener, errc, requestVars>>

\* NewStore, one entry after the other.
LoadEntry ==
    /\ stage = "loading"
    /\ loaded < Len(file)
    /\ Takes(tokens, file[loaded + 1])
    /\ tokens' = With(tokens, file[loaded + 1])
    /\ loaded' = loaded + 1
    /\ UNCHANGED <<stage, exit, starts, file, ctxDone, listener, errc, requestVars>>

RefuseFile ==
    /\ stage = "loading"
    /\ IF loaded < Len(file) THEN ~Takes(tokens, file[loaded + 1]) ELSE file = <<>>
    /\ Exit("error")

\* signal.NotifyContext: from here on a signal cancels the context.
Notify ==
    /\ stage = "loading"
    /\ loaded = Len(file) /\ file # <<>>
    /\ stage' = "starting"
    /\ UNCHANGED <<exit, starts, file, loaded, tokens, ctxDone, listener, errc, requestVars>>

\* Another of the files or flags is missing or bad; in "starting", Run has
\* neither a certificate nor leave to serve plaintext.
StartFails == stage \in {"loading", "starting"} /\ Exit("error")

-----------------------------------------------------------------------------
(* Run. *)

Serve ==
    /\ stage = "starting"
    /\ stage' = "serving"
    /\ listener' = "starting"
    /\ UNCHANGED <<exit, starts, file, loaded, tokens, ctxDone, errc, requestVars>>

Listen ==
    /\ stage = "serving"
    /\ listener = "starting"
    /\ listener' = "open"
    /\ UNCHANGED <<stage, exit, starts, file, loaded, tokens, ctxDone, errc, requestVars>>

\* The address is taken, the certificate unreadable, or Accept fails for good.
ListenFails ==
    /\ stage = "serving"
    /\ listener \in {"starting", "open"}
    /\ listener' = "off"
    /\ errc' = "failed"
    /\ UNCHANGED <<stage, exit, starts, file, loaded, tokens, ctxDone, requestVars>>

Signal ==
    \/ stage = "loading" /\ Exit("killed")
    \/ /\ stage \in {"starting", "serving", "draining"}
       /\ ctxDone' = TRUE
       /\ UNCHANGED <<stage, exit, starts, file, loaded, tokens, listener, errc, requestVars>>

\* The two arms of the select; when both are ready, either is taken.
SelectError ==
    /\ stage = "serving"
    /\ errc # "none"
    /\ Exit(IF errc = "closed" THEN "ok" ELSE "error")

\* Shutdown closes the listener, whose goroutine has its ErrServerClosed to send.
SelectDone ==
    /\ stage = "serving"
    /\ ctxDone
    /\ stage' = "draining"
    /\ listener' = "off"
    /\ errc' = IF listener = "off" THEN errc ELSE "closed"
    /\ UNCHANGED <<exit, starts, file, loaded, tokens, ctxDone, requestVars>>

Connected == {r \in Requests : req[r] \in {"dialled", "read", "handling"}}

\* Mutant: Close instead of Shutdown.
DrainNothing == stage = "draining" /\ Exit("ok")

DrainEnds == stage = "draining" /\ Connected = {} /\ Exit("ok")

\* Mutant: Shutdown without a deadline.
DrainWithoutDeadline == stage = "draining" /\ Connected = {} /\ Exit("error")

\* The 15 seconds are over; the last connection may have closed since Shutdown
\* looked.
DrainExpires == stage = "draining" /\ Exit("error")

-----------------------------------------------------------------------------
(* Connections and requests (net/http is external), and the guard. *)

Dial(r) ==
    /\ listener = "open"
    /\ req[r] = "new"
    /\ req' = [req EXCEPT ![r] = "dialled"]
    /\ UNCHANGED <<processVars, call, caller, status>>

\* The client leaves, or is too slow: ReadHeaderTimeout, or idle in the drain.
Drop(r) ==
    /\ req[r] = "dialled"
    /\ req' = [req EXCEPT ![r] = "dropped"]
    /\ UNCHANGED <<processVars, call, caller, status>>

\* A connection that was accepted in time is read in the drain, too.
Read(r, c) ==
    /\ req[r] = "dialled"
    /\ req' = [req EXCEPT ![r] = "read"]
    /\ call' = [call EXCEPT ![r] = c]
    /\ UNCHANGED <<processVars, caller, status>>

TurnAway(r) ==
    /\ req[r] = "read"
    /\ Turned(tokens, call[r]) # 0
    /\ req' = [req EXCEPT ![r] = "answered"]
    /\ status' = [status EXCEPT ![r] = Turned(tokens, call[r])]
    /\ UNCHANGED <<processVars, call, caller>>

Admit(r) ==
    /\ req[r] = "read"
    /\ Turned(tokens, call[r]) = 0
    /\ req' = [req EXCEPT ![r] = "handling"]
    /\ caller' = [caller EXCEPT ![r] = CallerOf(tokens, call[r])]
    /\ UNCHANGED <<processVars, call, status>>

\* The handler returns, with whatever answer.
Answer(r) ==
    /\ req[r] = "handling"
    /\ req' = [req EXCEPT ![r] = "answered"]
    /\ status' = [status EXCEPT ![r] = 200]
    /\ UNCHANGED <<processVars, call, caller>>

-----------------------------------------------------------------------------

StartUp == LoadEntry \/ RefuseFile \/ Notify \/ StartFails \/ Serve
Select  == SelectError \/ SelectDone
Drain   == DrainEnds \/ DrainExpires

HttpNext ==
    \/ Start \/ StartUp \/ Listen \/ ListenFails \/ Signal \/ Select \/ Drain
    \/ \E r \in Requests :
          \/ Dial(r) \/ Drop(r) \/ TurnAway(r) \/ Admit(r) \/ Answer(r)
          \/ \E c \in Calls : Read(r, c)

\* run goes on, the select takes an arm that is ready, and the drain's timer
\* fires; clients, handlers and the listener do what they like.
HttpSpec ==
    /\ HttpInit /\ [][HttpNext]_vars
    /\ WF_vars(StartUp) /\ WF_vars(Select) /\ WF_vars(Drain)

-----------------------------------------------------------------------------
(* Properties. *)

\* Every variable keeps its type; nothing is connected to a process that is down.
HttpTypeOK ==
    /\ stage \in {"down", "loading", "starting", "serving", "draining"}
    /\ exit \in {"none", "ok", "error", "killed"}
    /\ starts \in 0..MaxStarts
    /\ file \in Seq(Entries)
    /\ loaded \in 0..Len(file)
    /\ tokens \in [Texts -> Identities \union {Nobody}]
    /\ ctxDone \in BOOLEAN
    /\ listener \in {"off", "starting", "open"}
    /\ errc \in {"none", "failed", "closed"}
    /\ req \in [Requests ->
                  {"new", "dialled", "read", "handling", "answered", "dropped", "cut"}]
    /\ call \in [Requests -> Calls \union {Nobody}]
    /\ caller \in [Requests -> Identities \union {Nobody}]
    /\ status \in [Requests -> {0, 200, 401, 403, 404}]
    /\ stage \in {"down", "loading", "starting"} => listener = "off" /\ Connected = {}

\* A process that takes requests has a file in which nothing was passed over:
\* each of its credentials, whatever their order, is its owner's and gives the
\* identity it was filed with, but one for the empty token, which is never honoured.
EveryCredentialWorks ==
    stage \in {"serving", "draining"} =>
        /\ file # <<>>
        /\ \A i \in 1..Len(file) : Lookup(tokens, file[i].token) =
              IF file[i].token = Blank THEN Nobody ELSE IdentityOf(file[i])

\* A handler of a guarded route runs for a call only if it has a token and the
\* token is filed, and as every entry for that token says: under that identity,
\* with a role that the route grants.
AdmittedAsFiled ==
    \A r \in Requests : req[r] = "handling" /\ call[r].route \notin Public =>
        LET filed == {i \in 1..Len(file) : file[i].token = BearerToken(call[r].header)}
        IN  /\ filed # {}
            /\ BearerToken(call[r].header) # Blank
            /\ \A i \in filed :
                  caller[r] = IdentityOf(file[i]) /\ file[i].role \in Grants[call[r].route]

\* A process that reports success was told to stop and has answered all it had
\* read, even if its listener failed at the same time.
OkMeansDrained ==
    [][stage # "down" /\ stage' = "down" /\ exit' = "ok" =>
          ctxDone /\ \A r \in Requests : req[r] \notin {"read", "handling"}]_vars

\* A signal, and a listener that fails, end the process, however long handlers
\* take and whatever else happens.
ProcessEnds == (ctxDone \/ errc = "failed") ~> stage = "down"
=============================================================================
