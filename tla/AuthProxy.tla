------------------------------ MODULE AuthProxy ------------------------------
(***************************************************************************)
(* The auth proxy (src/internal/service/auth_proxy.go) as the command runs *)
(* it (src/cmd/codex-a2a/main.go): one handler goroutine per request, a    *)
(* Codex helper process behind a codexClient, the goroutine that drains    *)
(* the helper's notifications, and main, which starts, serves until a      *)
(* signal, shuts down within a deadline and closes the helper.             *)
(*                                                                         *)
(* The client is what ClientContract says of it: up, call and its actions  *)
(* are instantiated from there, with two calls of request per handler.     *)
(***************************************************************************)
EXTENDS Integers, Sequences, FiniteSets

CONSTANTS
  Requests,
  Backlog,   \* notifications that fit between the helper and the drainer
  MaxGen     \* bound on the tokens ever issued

ASSUME ProxyAssumption == Backlog \in Nat \ {0} /\ MaxGen \in Nat

Rounds == {"first", "again"}
Calls == Requests \X Rounds

VARIABLES
  up, call,   \* the client of the helper
  login,      \* the credentials the helper's auth file holds
  revoked,    \* tokens the upstreams no longer accept
  given,      \* what getAuthStatus answered to each call
  backlog,    \* undrained notifications
  drainer,    \* drainNotifications: "running", "ended"
  closing,    \* Close: "open", "canceled", "waited", "closed"
  main,       \* where main is
  pc,         \* where each handler is
  tried,      \* what the upstreams have seen of each request
  status,     \* what each client has been told
  gone        \* clients that have hung up on their handler: req.Context() is done

helperVars == <<login, revoked, given>>
drainVars == <<backlog, drainer>>
mainVars == <<closing, main>>
handlerVars == <<pc, tried, status, gone>>
clientVars == <<up, call>>
vars == <<clientVars, helperVars, drainVars, mainVars, handlerVars>>

Client == INSTANCE ClientContract WITH Callers <- Calls

(* "chatgpt" stands for chatgptAuthTokens too: no function tells them      *)
(* apart.                                                                  *)
Methods == {"apikey", "chatgpt"}
NeedsAccount(m) == m = "chatgpt"
RetriesUnauthorized(m) == m = "chatgpt"
Tokens == [method : Methods, gen : 0 .. MaxGen]
Unusable == [method |-> "none", gen |-> 0]
Token(m, g) == [method |-> m, gen |-> g]
NoStatus == "none"

Running == main \notin {"exited", "fatal"}
Asking == {"asking first", "asking again"}
Forwarding == {"forwarding first", "forwarding again"}
Serving(r) == pc[r] \notin {"away", "done"}

Init ==
  /\ Client!Init
  /\ login \in {Token(m, 0) : m \in Methods} /\ revoked = {}
  /\ given = [k \in Calls |-> Unusable]
  /\ backlog = 0 /\ drainer = "running"
  /\ closing = "open" /\ main = "configuring"
  /\ pc = [r \in Requests |-> "away"]
  /\ tried = [r \in Requests |-> <<>>]
  /\ status = [r \in Requests |-> NoStatus]
  /\ gone = {}

----------------------------------------------------------------------------
(* The helper and its user.                                                *)

(* Mutant: the retry asks like the first attempt.                          *)
NeverRefreshes(k) == FALSE

Refreshes(k) == k[2] = "again"

(* A refresh issues a new token, except for an API key.                    *)
NewToken(k) ==
  IF Refreshes(k) /\ RetriesUnauthorized(login.method) THEN Token(login.method, login.gen + 1) ELSE login

(* Room for the response behind the notifications before it.               *)
HelperAnswers(k) ==
  /\ Running /\ backlog < Backlog
  /\ Client!Answer(k, "ok")
  /\ NewToken(k).gen <= MaxGen
  /\ login' = NewToken(k)
  /\ given' = [given EXCEPT ![k] = NewToken(k)]
  /\ UNCHANGED <<revoked, drainVars, mainVars, handlerVars>>

(* An error response; or no method, no token, an unknown method, auth not  *)
(* required, a token without an account: CurrentAuth makes an error of it. *)
HelperRefuses(k) ==
  /\ Running /\ backlog < Backlog
  /\ \E v \in Client!Verdicts : Client!Answer(k, v)
  /\ given' = [given EXCEPT ![k] = Unusable]
  /\ UNCHANGED <<login, revoked, drainVars, mainVars, handlerVars>>

HelperNotifies ==
  /\ Running /\ up /\ backlog < Backlog
  /\ backlog' = backlog + 1
  /\ UNCHANGED <<clientVars, helperVars, drainer, mainVars, handlerVars>>

HelperDies ==
  /\ Running
  /\ \E lost \in SUBSET Calls : Client!GoDown(lost)
  /\ UNCHANGED <<helperVars, drainVars, mainVars, handlerVars>>

LogIn(m) ==
  /\ Running /\ login.gen < MaxGen
  /\ login' = Token(m, login.gen + 1)
  /\ UNCHANGED <<clientVars, revoked, given, drainVars, mainVars, handlerVars>>

Revoke ==
  /\ Running
  /\ revoked' = revoked \cup {login.gen} /\ revoked' # revoked
  /\ UNCHANGED <<clientVars, login, given, drainVars, mainVars, handlerVars>>

----------------------------------------------------------------------------
(* drainNotifications: next until its first error, which is the end of the *)
(* client or of drainCtx.                                                  *)

(* Mutant: one notification is enough.                                     *)
DrainOne ==
  /\ Running /\ drainer = "running" /\ backlog > 0
  /\ backlog' = backlog - 1 /\ drainer' = "ended"
  /\ UNCHANGED <<clientVars, helperVars, mainVars, handlerVars>>

Drain ==
  /\ Running /\ drainer = "running" /\ backlog > 0
  /\ backlog' = backlog - 1
  /\ UNCHANGED <<clientVars, helperVars, drainer, mainVars, handlerVars>>

DrainEnds ==
  /\ Running /\ drainer = "running"
  /\ ~ up \/ closing = "canceled"
  /\ drainer' = "ended"
  /\ UNCHANGED <<clientVars, helperVars, backlog, mainVars, handlerVars>>

----------------------------------------------------------------------------
(* A request.                                                              *)

Goto(r, where) == pc' = [pc EXCEPT ![r] = where]
Return(r) == Goto(r, "done") /\ gone' = gone \ {r}
Reply(r, code) == Return(r) /\ status' = [status EXCEPT ![r] = code]

Arrive(r) ==
  /\ main = "serving" /\ pc[r] = "away"
  /\ \/ Reply(r, "403")
     \/ Goto(r, "reading") /\ UNCHANGED <<status, gone>>
  /\ UNCHANGED <<clientVars, helperVars, drainVars, mainVars, tried>>

HangUp(r) ==
  /\ Running /\ Serving(r) /\ r \notin gone
  /\ gone' = gone \cup {r}
  /\ UNCHANGED <<clientVars, helperVars, drainVars, mainVars, pc, tried, status>>

ReadBody(r) ==
  /\ Running /\ pc[r] = "reading"
  /\ Goto(r, "asking first")
  /\ Client!Ask(<<r, "first">>)
  /\ UNCHANGED <<helperVars, drainVars, mainVars, tried, status, gone>>

ReadBodyFails(r) ==
  /\ Running /\ pc[r] = "reading" /\ r \in gone
  /\ Reply(r, "400")
  /\ UNCHANGED <<clientVars, helperVars, drainVars, mainVars, tried>>

ForwardingOf(round) == IF round = "first" THEN "forwarding first" ELSE "forwarding again"
Round(r) == IF pc[r] \in {"asking first", "forwarding first"} THEN "first" ELSE "again"

(* request returns by itself: with an error, without anything, or because  *)
(* the client of the proxy has hung up.                                    *)
CallEnds(r) ==
  LET k == <<r, Round(r)>> IN
    /\ Running /\ pc[r] \in Asking
    /\ Client!Fail(k) \/ Client!ReturnEmpty(k) \/ (r \in gone /\ Client!GiveUp(k))
    /\ UNCHANGED <<helperVars, drainVars, mainVars, handlerVars>>

(* CurrentAuth returns.                                                    *)
AuthReturns(r) ==
  LET k == <<r, Round(r)>> IN
    /\ Running /\ pc[r] \in Asking /\ call[k] \in Client!Ends
    /\ IF call[k] = "ok" /\ given[k] # Unusable
         THEN Goto(r, ForwardingOf(Round(r))) /\ UNCHANGED <<status, gone>>
         ELSE Reply(r, "502")
    /\ UNCHANGED <<clientVars, helperVars, drainVars, mainVars, tried>>

Upstreams == {"api.openai.com", "chatgpt.com"}
Attempts == [auth : Tokens, upstream : Upstreams, account : BOOLEAN]
UpstreamFor(auth) == IF auth.method = "apikey" THEN "api.openai.com" ELSE "chatgpt.com"

(* Mutant: the second call's answer is assigned to a shadowing variable.   *)
AttemptShadowed(r) ==
  LET auth == given[<<r, "first">>] IN
    [auth |-> auth, upstream |-> UpstreamFor(auth), account |-> NeedsAccount(auth.method)]

Attempt(r) ==
  LET auth == given[<<r, Round(r)>>] IN
    [auth |-> auth, upstream |-> UpstreamFor(auth), account |-> NeedsAccount(auth.method)]

(* The request is sent and its response's header read.                     *)
Unauthorized(r) ==
  /\ Running /\ pc[r] \in Forwarding
  /\ Attempt(r).auth.gen \in revoked
  /\ tried' = [tried EXCEPT ![r] = Append(@, Attempt(r))]
  /\ IF Round(r) = "first" /\ RetriesUnauthorized(Attempt(r).auth.method)
       THEN Goto(r, "asking again") /\ Client!Ask(<<r, "again">>) /\ UNCHANGED status
       ELSE Goto(r, "copying") /\ status' = [status EXCEPT ![r] = "401"] /\ UNCHANGED clientVars
  /\ UNCHANGED <<helperVars, drainVars, mainVars, gone>>

(* Any other response goes to the client as it is.                         *)
Accepted(r) ==
  /\ Running /\ pc[r] \in Forwarding
  /\ Attempt(r).auth.gen \notin revoked
  /\ tried' = [tried EXCEPT ![r] = Append(@, Attempt(r))]
  /\ Goto(r, "copying") /\ status' = [status EXCEPT ![r] = "answered"]
  /\ UNCHANGED <<clientVars, helperVars, drainVars, mainVars, gone>>

ForwardFails(r) ==
  /\ Running /\ pc[r] \in Forwarding
  /\ Reply(r, "502")
  /\ UNCHANGED <<clientVars, helperVars, drainVars, mainVars, tried>>

(* The copy ends with the body, or with the client.                        *)
CopyEnds(r) ==
  /\ Running /\ pc[r] = "copying"
  /\ Return(r)
  /\ UNCHANGED <<clientVars, helperVars, drainVars, mainVars, tried, status>>

----------------------------------------------------------------------------
(* main.                                                                   *)

MainGoes(from, to) ==
  /\ main = from /\ main' = to
  /\ UNCHANGED <<clientVars, helperVars, drainVars, closing, handlerVars>>

(* newCodexAuthTokenProvider has succeeded; a bad URL closes it again.     *)
Configure == MainGoes("configuring", "listening") \/ MainGoes("configuring", "giving up")

(* log.Fatalf skips the deferred Close.                                    *)
Listen == MainGoes("listening", "serving") \/ MainGoes("listening", "fatal")
ServeFails == MainGoes("serving", "fatal")
Signal == MainGoes("serving", "shutting down")

Shutdown ==
  /\ \A r \in Requests : ~ Serving(r)
  /\ MainGoes("shutting down", "closing")
ShutdownTimesOut ==
  /\ \E r \in Requests : Serving(r)
  /\ MainGoes("shutting down", "fatal")

(* codexAuthTokenProvider.Close.                                           *)
CloseGoes(from, to) ==
  /\ main \in {"closing", "giving up"}
  /\ closing = from /\ closing' = to
  /\ UNCHANGED <<helperVars, drainVars, handlerVars>>

(* Mutant: the drainer is not told.                                        *)
CloseWithoutCancel == CloseGoes("open", "waiting") /\ UNCHANGED <<clientVars, main>>

CloseCancels == CloseGoes("open", "canceled") /\ UNCHANGED <<clientVars, main>>

(* Mutant: nor waited for.                                                 *)
CloseDoesNotWait ==
  /\ closing = "canceled"
  /\ CloseGoes("canceled", "waited")
  /\ UNCHANGED <<clientVars, main>>

CloseWaits ==
  /\ drainer = "ended"
  /\ closing \in {"canceled", "waiting"}
  /\ CloseGoes(closing, "waited")
  /\ UNCHANGED <<clientVars, main>>

CloseKills ==
  /\ CloseGoes("waited", "closed")
  /\ IF up THEN \E lost \in SUBSET Calls : Client!GoDown(lost) ELSE UNCHANGED clientVars
  /\ main' = IF main = "closing" THEN "exited" ELSE "fatal"

----------------------------------------------------------------------------
HandlerStep(r) == CallEnds(r) \/ AuthReturns(r) \/ Unauthorized(r) \/ Accepted(r) \/ ForwardFails(r)
Handler(r) ==
  Arrive(r) \/ HangUp(r) \/ ReadBody(r) \/ ReadBodyFails(r) \/ HandlerStep(r) \/ CopyEnds(r)
Close == CloseCancels \/ CloseWaits \/ CloseKills

Next ==
  \/ \E k \in Calls : HelperAnswers(k) \/ HelperRefuses(k)
  \/ HelperNotifies \/ HelperDies \/ Revoke \/ \E m \in Methods : LogIn(m)
  \/ Drain \/ DrainEnds
  \/ \E r \in Requests : Handler(r)
  \/ Configure \/ Listen \/ ServeFails \/ Signal \/ Shutdown \/ ShutdownTimesOut \/ Close

Spec == Init /\ [][Next]_vars

(* Goroutines run when they can; the helper's output is a queue, so what   *)
(* it has answered is not overtaken for ever; the upstreams answer, in     *)
(* some way, what they are sent.  No client has to send its body or read   *)
(* its response, and nobody has to send a signal.                          *)
FairSpec ==
  /\ Spec
  /\ \A r \in Requests : WF_vars(HandlerStep(r))
  /\ \A k \in Calls : SF_vars(HelperAnswers(k) \/ HelperRefuses(k))
  /\ WF_vars(Drain) /\ WF_vars(DrainEnds)
  /\ WF_vars(Shutdown \/ ShutdownTimesOut) /\ WF_vars(Close)

----------------------------------------------------------------------------
(* Properties.                                                             *)

TriedAsGiven(r) ==
  /\ Len(tried[r]) <= 2
  /\ \A i \in DOMAIN tried[r] : tried[r][i].auth = given[<<r, IF i = 1 THEN "first" ELSE "again">>]

(* At most two attempts per request, the second with the answer to the     *)
(* second call (auth_proxy.go:253-274).                                    *)
ProxyTypeOK ==
  /\ up \in BOOLEAN /\ call \in [Calls -> {"idle", "asked", "hopeless"} \cup Client!Ends]
  /\ login \in Tokens /\ revoked \subseteq 0 .. MaxGen
  /\ given \in [Calls -> Tokens \cup {Unusable}] /\ \A k \in Calls : given[k].gen <= login.gen
  /\ backlog \in 0 .. Backlog /\ drainer \in {"running", "ended"}
  /\ closing \in {"open", "canceled", "waited", "closed"}
  /\ main \in {"configuring", "listening", "serving", "shutting down", "giving up",
               "closing", "exited", "fatal"}
  /\ pc \in [Requests -> {"away", "reading", "copying", "done"} \cup Asking \cup Forwarding]
  /\ tried \in [Requests -> Seq(Attempts)]
  /\ \A r \in Requests : TriedAsGiven(r)
  /\ status \in [Requests -> {NoStatus, "403", "400", "502", "401", "answered"}]
  /\ gone \subseteq Requests

SecondOpinion(r) ==
  status[r] = "401" =>
    LET last == tried[r][Len(tried[r])].auth IN
      \/ last.method = "apikey"
      \/ Len(tried[r]) = 2 /\ tried[r][1].auth.gen < last.gen

(* A client is told 401 only when its API key was rejected, or two tokens  *)
(* were, the second issued after the first one's rejection, whatever other *)
(* requests refresh at the same time and however the login changes         *)
(* (auth_proxy.go:263-273).                                                *)
UnauthorizedIsSecondOpinion == \A r \in Requests : SecondOpinion(r)

(* The helper is not closed under a handler that may still ask it, and a   *)
(* process that exits cleanly has answered whatever it accepted, stopped   *)
(* its drainer and killed its helper (main.go:127-133, 160-164,            *)
(* auth_proxy.go:158-166).                                                 *)
ShutdownIsOrderly ==
  /\ Running /\ (\E r \in Requests : Serving(r)) => closing = "open"
  /\ main = "exited" =>
       /\ ~ up /\ drainer = "ended"
       /\ \A r \in Requests : pc[r] # "away" => pc[r] = "done" /\ status[r] # NoStatus

(* A request whose body has been read gets a response, whatever the helper *)
(* sends beside the answer and also when it dies: the notifications are    *)
(* drained for as long as the client is up (auth_proxy.go:105-112,         *)
(* codex_client.go:171-177).                                               *)
RequestsGetResponses ==
  \A r \in Requests : pc[r] \in Asking ~> status[r] # NoStatus \/ ~ Running

(* A signal ends the process: Close does not wait for a drainer that waits *)
(* for a helper (main.go:156-164, auth_proxy.go:158-166).                  *)
ShutdownEnds == main = "shutting down" ~> ~ Running
=============================================================================
