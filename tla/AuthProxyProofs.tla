-------------------------- MODULE AuthProxyProofs --------------------------
(* Theorems about the auth proxy, for any number of requests.  ProxyInv is   *)
(* inductive in two parts: what each handler has asked, been given and       *)
(* tried, which no other handler touches; and how far main and Close are.    *)
EXTENDS AuthProxy, SequenceTheorems, TLAPS

USE ProxyAssumption

First(r) == <<r, "first">>
Again(r) == <<r, "again">>
CallOf(r, i) == IF i = 1 THEN First(r) ELSE Again(r)

----------------------------------------------------------------------------
(* The handlers.  A call is pending only while its handler waits for it; its *)
(* answer is usable only if it was answered, and that of the second call is  *)
(* newer than that of the first (auth_proxy.go:245-274).                     *)
Early == {"away", "reading", "asking first", "forwarding first"}
Replied == {"copying", "done"}
Pending == {"asked", "hopeless"}

CallsHaveHandler(r) ==
  /\ call[First(r)] \in Pending => pc[r] = "asking first"
  /\ call[Again(r)] \in Pending => pc[r] = "asking again"
  /\ pc[r] \in {"away", "reading"} => call[First(r)] = "idle"
  /\ pc[r] \in Early => call[Again(r)] = "idle"

AnswersAreFresh ==
  /\ \A k \in Calls : given[k] # Unusable => call[k] = "ok"
  /\ \A r \in Requests :
       given[Again(r)] # Unusable =>
         \/ given[Again(r)].method = "apikey"
         \/ given[First(r)].gen < given[Again(r)].gen

AttemptsFollowAnswers(r) ==
  /\ pc[r] \in Early => tried[r] = <<>>
  /\ pc[r] \in {"asking again", "forwarding again"} => Len(tried[r]) = 1
  /\ pc[r] = "forwarding first" => given[First(r)] # Unusable
  /\ pc[r] = "forwarding again" => given[Again(r)] # Unusable
  /\ status[r] # NoStatus <=> pc[r] \in Replied

HandlerInv ==
  /\ ProxyTypeOK
  /\ AnswersAreFresh
  /\ \A r \in Requests : CallsHaveHandler(r) /\ AttemptsFollowAnswers(r) /\ SecondOpinion(r)

(* main and Close, step by step (main.go:119-164, auth_proxy.go:158-166).    *)
MainInv ==
  /\ main \in {"configuring", "listening", "giving up"} => \A r \in Requests : pc[r] = "away"
  /\ main \in {"closing", "exited"} => \A r \in Requests : ~ Serving(r)
  /\ closing # "open" => main \in {"closing", "giving up", "exited", "fatal"}
  /\ closing \in {"waited", "closed"} => drainer = "ended"
  /\ closing = "closed" => ~ up
  /\ main = "exited" => closing = "closed"

ProxyInv == HandlerInv /\ MainInv

----------------------------------------------------------------------------
(* Calls.                                                                    *)

LEMMA CallNames ==
  /\ \A r \in Requests : First(r) \in Calls /\ Again(r) \in Calls
  /\ \A k \in Calls : \E r \in Requests : k = First(r) \/ k = Again(r)
  /\ \A r, s : First(r) # Again(s)
  /\ \A r, s : (First(r) = First(s) => r = s) /\ (Again(r) = Again(s) => r = s)
BY DEF Calls, Rounds, First, Again

LEMMA TokenFields == \A t \in Tokens : t.method \in Methods /\ t.gen \in Nat
BY DEF Tokens

(* What the types say of tokens and attempts.                                *)
LEMMA TokenTypes ==
  ASSUME ProxyTypeOK
  PROVE  /\ login \in Tokens /\ login.method \in Methods /\ login.gen \in Nat
         /\ \A k \in Calls :
              /\ given[k] # Unusable => given[k] \in Tokens /\ given[k].method \in Methods
              /\ given[k].gen \in Nat /\ given[k].gen <= login.gen
<1>1. \A t \in Tokens : t.method \in Methods /\ t.gen \in Nat
  BY TokenFields
<1>2. login \in Tokens
  BY DEF ProxyTypeOK
<1>3. \A k \in Calls : given[k] \in Tokens \cup {Unusable} /\ given[k].gen <= login.gen
  BY DEF ProxyTypeOK
<1>4. Unusable.gen \in Nat
  BY DEF Unusable
<1>5. QED
  BY <1>1, <1>2, <1>3, <1>4

LEMMA TriedTypes ==
  ASSUME ProxyTypeOK, NEW r \in Requests
  PROVE  /\ tried[r] \in Seq(Attempts) /\ DOMAIN tried[r] = 1 .. Len(tried[r]) /\ Len(tried[r]) \in Nat
<1>1. tried[r] \in Seq(Attempts)
  BY DEF ProxyTypeOK
<1>2. QED
  BY <1>1

CallStates == {"idle"} \cup Pending \cup Client!Ends

(* What a step of the client does to the calls it does not end.              *)
LEMMA ClientSteps ==
  ASSUME ProxyTypeOK, NEW k \in Calls
  PROVE  /\ Client!Ask(k) =>
              /\ call[k] = "idle" /\ up' = up
              /\ \E v \in Pending : call' = [call EXCEPT ![k] = v]
         /\ \A v : Client!Answer(k, v) =>
              /\ call[k] = "asked" /\ up' = up /\ call' = [call EXCEPT ![k] = v]
         /\ Client!Fail(k) \/ Client!ReturnEmpty(k) \/ Client!GiveUp(k) =>
              /\ call[k] \in Pending /\ up' = up
              /\ \E v \in Client!Ends \ Client!Verdicts : call' = [call EXCEPT ![k] = v]
BY DEF Client!Ask, Client!Answer, Client!Fail, Client!ReturnEmpty, Client!GiveUp, Client!Ends,
       Client!Verdicts, Pending

LEMMA ClientDies ==
  ASSUME ProxyTypeOK, NEW lost \in SUBSET Calls, Client!GoDown(lost)
  PROVE  /\ up' = FALSE /\ call' \in [Calls -> CallStates]
         /\ \A k \in Calls : call'[k] = call[k] \/ (call[k] = "asked" /\ call'[k] = "hopeless")
BY DEF Client!GoDown, Client!Lose, ProxyTypeOK, CallStates, Pending

(* No attempt has been made with the answer to a pending call.               *)
LEMMA PendingIsUntried ==
  ASSUME HandlerInv, NEW k \in Calls, call[k] \in Pending,
         NEW r \in Requests, NEW i \in DOMAIN tried[r]
  PROVE  k # CallOf(r, i)
<1>1. tried[r] \in Seq(Attempts) /\ i \in 1 .. Len(tried[r])
  BY TriedTypes DEF HandlerInv
<1>2. ASSUME i = 1, k = First(r) PROVE FALSE
  <2>1. pc[r] = "asking first"
    BY <1>2 DEF HandlerInv, CallsHaveHandler, Pending
  <2>2. tried[r] = <<>>
    BY <2>1 DEF HandlerInv, AttemptsFollowAnswers, Early
  <2>3. QED
    BY <1>1, <2>2
<1>3. ASSUME i # 1, k = Again(r) PROVE FALSE
  <2>1. pc[r] = "asking again"
    BY <1>3 DEF HandlerInv, CallsHaveHandler, Pending
  <2>2. Len(tried[r]) = 1
    BY <2>1 DEF HandlerInv, AttemptsFollowAnswers
  <2>3. QED
    BY <1>1, <1>3, <2>2
<1>4. QED
  BY <1>2, <1>3 DEF CallOf

----------------------------------------------------------------------------
(* The helper.                                                               *)

LEMMA HelperDiesInv ==
  ASSUME HandlerInv, NEW lost \in SUBSET Calls, Client!GoDown(lost),
         UNCHANGED <<helperVars, drainVars, handlerVars>>, main' \in {main, "exited", "fatal"},
         closing' \in {closing, "closed"}
  PROVE  HandlerInv'
<1>1. /\ up' = FALSE /\ call' \in [Calls -> CallStates]
      /\ \A k \in Calls : call'[k] = call[k] \/ (call[k] = "asked" /\ call'[k] = "hopeless")
  BY ClientDies DEF HandlerInv
<1>2. /\ UNCHANGED <<login, revoked, given, backlog, drainer, pc, tried, status, gone>>
  BY DEF helperVars, drainVars, handlerVars
<1>3. ProxyTypeOK'
  <2>1. call' \in [Calls -> {"idle", "asked", "hopeless"} \cup Client!Ends] /\ up' \in BOOLEAN
    BY <1>1 DEF CallStates, Pending
  <2>2. \A r \in Requests : TriedAsGiven(r)'
    BY <1>2 DEF HandlerInv, ProxyTypeOK, TriedAsGiven
  <2>3. QED
    BY <1>2, <2>1, <2>2 DEF HandlerInv, ProxyTypeOK
<1>4. AnswersAreFresh'
  BY <1>1, <1>2 DEF HandlerInv, AnswersAreFresh
<1>5. ASSUME NEW r \in Requests PROVE CallsHaveHandler(r)'
  <2>1. ASSUME NEW k \in {First(r), Again(r)}
        PROVE  call'[k] = call[k] \/ (call[k] = "asked" /\ call'[k] = "hopeless")
    BY <1>1, CallNames
  <2>2. QED
    BY <1>2, <2>1 DEF HandlerInv, CallsHaveHandler, Pending
<1>6. \A r \in Requests : AttemptsFollowAnswers(r)' /\ SecondOpinion(r)'
  BY <1>2 DEF HandlerInv, AttemptsFollowAnswers, SecondOpinion
<1>7. QED
  BY <1>3, <1>4, <1>5, <1>6 DEF HandlerInv

(* The helper answers a call with t, and becomes logged in with l.            *)
LEMMA GivenInv ==
  ASSUME HandlerInv, NEW k \in Calls, call[k] = "asked",
         NEW v \in Client!Verdicts, NEW t \in Tokens \cup {Unusable}, NEW l \in Tokens,
         login.gen <= l.gen, t.gen <= l.gen,
         t # Unusable => v = "ok",
         t # Unusable /\ k[2] = "again" => t.method = "apikey" \/ login.gen < t.gen,
         call' = [call EXCEPT ![k] = v], given' = [given EXCEPT ![k] = t], login' = l,
         UNCHANGED <<up, revoked, backlog, drainer, closing, main, pc, tried, status, gone>>
  PROVE  HandlerInv'
<1>1. v \in {"ok", "refused"} /\ l.gen \in Nat /\ t.gen \in Nat /\ login.gen \in Nat
  BY TokenTypes DEF Client!Verdicts, Tokens, Unusable, HandlerInv
<1>2. \A j \in Calls : given[j].gen \in Nat /\ given[j].gen <= login.gen
  BY TokenTypes DEF HandlerInv
<1>3. \A j \in Calls : given'[j] = IF j = k THEN t ELSE given[j]
  BY DEF HandlerInv, ProxyTypeOK
<1>4. \A j \in Calls : call'[j] = IF j = k THEN v ELSE call[j]
  BY DEF HandlerInv, ProxyTypeOK
<1>5. ProxyTypeOK'
  <2>1. call' \in [Calls -> {"idle", "asked", "hopeless"} \cup Client!Ends] /\ up' \in BOOLEAN
    BY DEF HandlerInv, ProxyTypeOK, Client!Ends
  <2>2. login' \in Tokens /\ given' \in [Calls -> Tokens \cup {Unusable}]
    BY DEF HandlerInv, ProxyTypeOK
  <2>3. \A j \in Calls : given'[j].gen <= login'.gen
    BY <1>1, <1>2, <1>3
  <2>4. \A r \in Requests : \A i \in DOMAIN tried[r] : given'[CallOf(r, i)] = given[CallOf(r, i)]
    BY <1>3, PendingIsUntried, CallNames DEF CallOf, Pending
  <2>5. ASSUME NEW r \in Requests PROVE TriedAsGiven(r)'
    <3>1. TriedAsGiven(r)
      BY DEF HandlerInv, ProxyTypeOK
    <3>2. tried' = tried
      OBVIOUS
    <3>3. \A i \in DOMAIN tried[r] : given'[CallOf(r, i)] = given[CallOf(r, i)]
      BY <2>4
    <3>4. QED
      BY ONLY <3>1, <3>2, <3>3 DEF TriedAsGiven, CallOf, First, Again
  <2>6. QED
    BY <2>1, <2>2, <2>3, <2>5 DEF HandlerInv, ProxyTypeOK
<1>6. AnswersAreFresh'
  <2>1. \A j \in Calls : given'[j] # Unusable => call'[j] = "ok"
    BY <1>3, <1>4 DEF HandlerInv, AnswersAreFresh
  <2>2. ASSUME NEW r \in Requests, given'[Again(r)] # Unusable
        PROVE  given'[Again(r)].method = "apikey" \/ given'[First(r)].gen < given'[Again(r)].gen
    <3>1. given[First(r)].gen \in Nat /\ given[First(r)].gen <= login.gen
      BY <1>2, CallNames
    <3>2. CASE k = Again(r)
      <4>1. given'[Again(r)] = t /\ given'[First(r)] = given[First(r)] /\ k[2] = "again"
        BY <1>3, <3>2, CallNames DEF Again
      <4>2. QED
        BY <1>1, <2>2, <3>1, <4>1
    <3>3. CASE k = First(r)
      <4>1. call[First(r)] = "asked" /\ Again(r) # k /\ Again(r) \in Calls
        BY <3>3, CallNames
      <4>2. pc[r] = "asking first"
        BY <4>1 DEF HandlerInv, CallsHaveHandler, Pending
      <4>3. call[Again(r)] = "idle"
        BY <4>2 DEF HandlerInv, CallsHaveHandler, Early
      <4>4. given[Again(r)] # Unusable
        BY <1>3, <2>2, <4>1
      <4>5. QED
        BY <4>1, <4>3, <4>4 DEF HandlerInv, AnswersAreFresh
    <3>4. CASE k # Again(r) /\ k # First(r)
      BY <1>3, <2>2, <3>4, CallNames DEF HandlerInv, AnswersAreFresh
    <3>5. QED
      BY <3>2, <3>3, <3>4
  <2>3. QED
    BY <2>1, <2>2 DEF AnswersAreFresh
<1>7. ASSUME NEW r \in Requests PROVE CallsHaveHandler(r)'
  <2>1. ASSUME NEW j \in {First(r), Again(r)}
        PROVE  call'[j] = call[j] \/ (call[j] = "asked" /\ call'[j] \in {"ok", "refused"})
    BY <1>1, <1>4, CallNames
  <2>2. QED
    BY <2>1 DEF HandlerInv, CallsHaveHandler, Pending, Early
<1>8. ASSUME NEW r \in Requests PROVE AttemptsFollowAnswers(r)' /\ SecondOpinion(r)'
  <2>1. pc[r] \in Forwarding => given'[First(r)] = given[First(r)] /\ given'[Again(r)] = given[Again(r)]
    BY <1>3, CallNames DEF HandlerInv, CallsHaveHandler, Pending, Forwarding
  <2>2. QED
    BY <2>1 DEF HandlerInv, AttemptsFollowAnswers, SecondOpinion, Forwarding
<1>9. QED
  BY <1>5, <1>6, <1>7, <1>8 DEF HandlerInv

LEMMA HelperAnswersInv ==
  ASSUME HandlerInv, NEW k \in Calls, HelperAnswers(k)
  PROVE  HandlerInv'
<1> DEFINE t == NewToken(k)
<1>1. /\ call[k] = "asked" /\ call' = [call EXCEPT ![k] = "ok"] /\ given' = [given EXCEPT ![k] = t]
      /\ login' = t /\ t.gen <= MaxGen
      /\ UNCHANGED <<up, revoked, backlog, drainer, closing, main, pc, tried, status, gone>>
  BY ClientSteps DEF HandlerInv, HelperAnswers, drainVars, mainVars, handlerVars
<1>2. /\ t \in Tokens /\ login.gen <= t.gen /\ t.gen \in Nat
      /\ k[2] = "again" => t.method = "apikey" \/ login.gen < t.gen
  <2>1. login \in Tokens /\ login.gen \in Nat /\ login.method \in Methods
    BY TokenTypes DEF HandlerInv
  <2>2. CASE t = login
    BY <2>1, <2>2 DEF NewToken, Refreshes, RetriesUnauthorized, Token, Methods
  <2>3. CASE t # login
    <3>1. t = [method |-> login.method, gen |-> login.gen + 1]
      BY <2>3 DEF NewToken, Token
    <3>2. QED
      BY <1>1, <2>1, <3>1 DEF Tokens
  <2>4. QED
    BY <2>2, <2>3
<1> HIDE DEF t
<1>3. "ok" \in Client!Verdicts /\ t \in Tokens \cup {Unusable} /\ t.gen <= t.gen
  BY <1>2 DEF Client!Verdicts
<1>4. QED
  BY <1>1, <1>2, <1>3, GivenInv

LEMMA HelperRefusesInv ==
  ASSUME HandlerInv, NEW k \in Calls, HelperRefuses(k)
  PROVE  HandlerInv'
<1>1. /\ call[k] = "asked" /\ given' = [given EXCEPT ![k] = Unusable]
      /\ \E v \in Client!Verdicts : call' = [call EXCEPT ![k] = v]
      /\ UNCHANGED <<up, login, revoked, backlog, drainer, closing, main, pc, tried, status, gone>>
  BY ClientSteps DEF HandlerInv, HelperRefuses, drainVars, mainVars, handlerVars
<1>2. PICK v \in Client!Verdicts : call' = [call EXCEPT ![k] = v]
  BY <1>1
<1>3. /\ login \in Tokens /\ login.gen <= login.gen /\ Unusable.gen <= login.gen
      /\ Unusable \in Tokens \cup {Unusable} /\ login' = login
  BY <1>1, TokenTypes DEF HandlerInv, Unusable
<1>4. QED
  BY <1>1, <1>2, <1>3, GivenInv

----------------------------------------------------------------------------
(* The handlers.                                                             *)

Places == {"away", "reading", "copying", "done"} \cup Asking \cup Forwarding
Codes == {NoStatus, "403", "400", "502", "401", "answered"}

(* What every step of the handler of r leaves alone.                         *)
OnlyHandler(r) ==
  /\ UNCHANGED <<up, login, revoked, given, backlog, drainer, closing, main>>
  /\ gone' \subseteq Requests
  /\ call' \in [Calls -> CallStates] /\ pc' \in [Requests -> Places]
  /\ tried' \in [Requests -> Seq(Attempts)] /\ status' \in [Requests -> Codes]
  /\ \A k \in Calls : k \notin {First(r), Again(r)} \/ call[k] = "ok" => call'[k] = call[k]
  /\ \A s \in Requests \ {r} : pc'[s] = pc[s] /\ tried'[s] = tried[s] /\ status'[s] = status[s]

LEMMA HandlerMoves ==
  ASSUME HandlerInv, NEW r \in Requests, OnlyHandler(r),
         TriedAsGiven(r)', CallsHaveHandler(r)', AttemptsFollowAnswers(r)', SecondOpinion(r)'
  PROVE  HandlerInv'
<1>1. ASSUME NEW s \in Requests \ {r}
      PROVE  TriedAsGiven(s)' /\ CallsHaveHandler(s)' /\ AttemptsFollowAnswers(s)' /\ SecondOpinion(s)'
  <2>1. call'[First(s)] = call[First(s)] /\ call'[Again(s)] = call[Again(s)]
    BY CallNames DEF OnlyHandler
  <2>2. /\ pc'[s] = pc[s] /\ tried'[s] = tried[s] /\ status'[s] = status[s] /\ given' = given
    BY DEF OnlyHandler
  <2>3. TriedAsGiven(s)'
    <3>1. TriedAsGiven(s)
      BY DEF HandlerInv, ProxyTypeOK
    <3>2. QED
      BY <2>2, <3>1 DEF TriedAsGiven
  <2>4. CallsHaveHandler(s)'
    BY <2>1, <2>2 DEF CallsHaveHandler, HandlerInv
  <2>5. AttemptsFollowAnswers(s)' /\ SecondOpinion(s)'
    BY <2>2 DEF AttemptsFollowAnswers, SecondOpinion, HandlerInv
  <2>6. QED
    BY <2>3, <2>4, <2>5
<1>2. AnswersAreFresh'
  <2>1. \A k \in Calls : call[k] = "ok" => call'[k] = "ok"
    BY DEF OnlyHandler
  <2>2. QED
    BY <2>1 DEF HandlerInv, AnswersAreFresh, OnlyHandler
<1>3. ProxyTypeOK'
  <2>1. call' \in [Calls -> {"idle", "asked", "hopeless"} \cup Client!Ends]
    BY DEF OnlyHandler, CallStates, Pending
  <2>2. \A s \in Requests : TriedAsGiven(s)'
    BY <1>1
  <2>3. QED
    BY <2>1, <2>2 DEF HandlerInv, ProxyTypeOK, OnlyHandler, Places, Codes
<1>4. QED
  BY <1>1, <1>2, <1>3 DEF HandlerInv

(* A step that sends nothing upstream.                                       *)
LEMMA HandlerMovesQuietly ==
  ASSUME HandlerInv, NEW r \in Requests,
         UNCHANGED <<up, login, revoked, given, backlog, drainer, closing, main, tried>>,
         gone' \subseteq Requests, call' \in [Calls -> CallStates],
         \A k \in Calls : k \notin {First(r), Again(r)} \/ call[k] = "ok" => call'[k] = call[k],
         NEW x \in Places, pc' = [pc EXCEPT ![r] = x],
         \/ status' = status
         \/ \E code \in {"403", "400", "502"} : status' = [status EXCEPT ![r] = code],
         CallsHaveHandler(r)', AttemptsFollowAnswers(r)'
  PROVE  HandlerInv'
<1>1. pc \in [Requests -> Places] /\ status \in [Requests -> Codes] /\ tried \in [Requests -> Seq(Attempts)]
  BY DEF HandlerInv, ProxyTypeOK, Places, Codes
<1>2. status' \in [Requests -> Codes] /\ \A s \in Requests \ {r} : status'[s] = status[s]
  BY <1>1 DEF Codes
<1>3. OnlyHandler(r)
  BY <1>1, <1>2 DEF OnlyHandler
<1>4. TriedAsGiven(r)'
  <2>1. TriedAsGiven(r)
    BY DEF HandlerInv, ProxyTypeOK
  <2>2. QED
    BY <2>1 DEF TriedAsGiven
<1>5. SecondOpinion(r)'
  <2>1. status'[r] = "401" => status[r] = "401"
    BY <1>1
  <2>2. QED
    BY <2>1 DEF HandlerInv, SecondOpinion
<1>6. QED
  BY <1>3, <1>4, <1>5, HandlerMoves

LEMMA HandlerPlaces ==
  ASSUME HandlerInv
  PROVE  /\ pc \in [Requests -> Places] /\ status \in [Requests -> Codes]
         /\ call \in [Calls -> CallStates] /\ gone \subseteq Requests
         /\ \A r \in Requests : tried[r] \in Seq(Attempts) /\ Len(tried[r]) \in Nat
<1>1. call \in [Calls -> CallStates]
  BY DEF HandlerInv, ProxyTypeOK, CallStates, Pending
<1>2. \A r \in Requests : tried[r] \in Seq(Attempts) /\ Len(tried[r]) \in Nat
  BY TriedTypes DEF HandlerInv
<1>3. QED
  BY <1>1, <1>2 DEF HandlerInv, ProxyTypeOK, Places, Codes

(* Steps that neither ask the helper nor answer for it.                      *)
LEMMA CallsStand ==
  ASSUME HandlerInv, NEW r \in Requests, call' = call, UNCHANGED <<given, tried>>,
         pc[r] \notin {"asking first", "asking again"} \/ \A k \in {First(r), Again(r)} : call[k] \notin Pending,
         NEW x \in Places, pc' = [pc EXCEPT ![r] = x],
         x \in Replied
           \/ (pc[r] = "away" /\ x = "reading")
           \/ (pc[r] = "asking first" /\ x = "forwarding first" /\ given[First(r)] # Unusable)
           \/ (pc[r] = "asking again" /\ x = "forwarding again" /\ given[Again(r)] # Unusable)
  PROVE  /\ call' \in [Calls -> CallStates] /\ \A k \in Calls : call'[k] = call[k]
         /\ CallsHaveHandler(r)'
         /\ (status'[r] # NoStatus <=> x \in Replied) => AttemptsFollowAnswers(r)'
<1>1. pc'[r] = x /\ pc[r] \in Places /\ call \in [Calls -> CallStates]
  BY HandlerPlaces
<1>2. \A k \in {First(r), Again(r)} : call[k] \notin Pending
  BY DEF HandlerInv, CallsHaveHandler
<1>3. CallsHaveHandler(r)'
  BY <1>1, <1>2 DEF HandlerInv, CallsHaveHandler, Early, Replied
<1>4. (status'[r] # NoStatus <=> x \in Replied) => AttemptsFollowAnswers(r)'
  BY <1>1 DEF HandlerInv, AttemptsFollowAnswers, Early, Replied
<1>5. QED
  BY <1>1, <1>3, <1>4

LEMMA ArriveInv ==
  ASSUME HandlerInv, NEW r \in Requests, Arrive(r) \/ ReadBodyFails(r) \/ CopyEnds(r) \/ ForwardFails(r)
  PROVE  HandlerInv'
<1>1. /\ UNCHANGED <<up, login, revoked, given, backlog, drainer, closing, main, tried, call>>
      /\ pc[r] \in {"away", "reading", "copying"} \cup Forwarding
  BY DEF Arrive, ReadBodyFails, CopyEnds, ForwardFails, helperVars, drainVars, mainVars, clientVars
<1>2. CASE Arrive(r) /\ pc' = [pc EXCEPT ![r] = "reading"]
  <2>1. pc[r] = "away" /\ UNCHANGED <<status, gone>>
    BY <1>2, HandlerPlaces DEF Arrive, Goto, Reply, Return
  <2>2. "reading" \in Places /\ (status'[r] # NoStatus <=> "reading" \in Replied)
    BY <2>1 DEF Places, Replied, HandlerInv, AttemptsFollowAnswers
  <2>3. QED
    BY <1>1, <1>2, <2>1, <2>2, CallsStand, HandlerMovesQuietly, HandlerPlaces
<1>3. CASE /\ Return(r)
           /\ \/ pc[r] = "copying" /\ status' = status
              \/ \E code \in {"403", "400", "502"} : status' = [status EXCEPT ![r] = code]
  <2>1. pc' = [pc EXCEPT ![r] = "done"] /\ gone' \subseteq Requests
    BY <1>3, HandlerPlaces DEF Return, Goto
  <2>2. "done" \in Places /\ "done" \in Replied /\ status'[r] # NoStatus
    BY <1>3, HandlerPlaces DEF Places, Replied, HandlerInv, AttemptsFollowAnswers, NoStatus
  <2>3. QED
    BY <1>1, <1>3, <2>1, <2>2, CallsStand, HandlerMovesQuietly DEF Forwarding
<1>4. QED
  BY <1>2, <1>3 DEF Arrive, ReadBodyFails, CopyEnds, ForwardFails, Reply, Goto

LEMMA ReadBodyInv ==
  ASSUME HandlerInv, NEW r \in Requests, ReadBody(r)
  PROVE  HandlerInv'
<1>1. /\ UNCHANGED <<login, revoked, given, backlog, drainer, closing, main, tried, status, gone>>
      /\ pc[r] = "reading" /\ pc' = [pc EXCEPT ![r] = "asking first"] /\ Client!Ask(First(r))
  BY DEF ReadBody, Goto, helperVars, drainVars, mainVars, First
<1>2. PICK v \in Pending : call' = [call EXCEPT ![First(r)] = v]
  BY <1>1, ClientSteps, CallNames DEF HandlerInv
<1>3. up' = up /\ call[First(r)] = "idle"
  BY <1>1, ClientSteps, CallNames DEF HandlerInv
<1>4. /\ call' \in [Calls -> CallStates] /\ call'[First(r)] = v /\ call'[Again(r)] = call[Again(r)]
      /\ \A k \in Calls : k \notin {First(r), Again(r)} \/ call[k] = "ok" => call'[k] = call[k]
  BY <1>2, <1>3, HandlerPlaces, CallNames DEF CallStates
<1>5. "asking first" \in Places /\ pc'[r] = "asking first"
  BY <1>1, HandlerPlaces DEF Places, Asking
<1>6. CallsHaveHandler(r)'
  BY <1>1, <1>4, <1>5 DEF HandlerInv, CallsHaveHandler, Early
<1>7. AttemptsFollowAnswers(r)'
  BY <1>1, <1>5 DEF HandlerInv, AttemptsFollowAnswers, Early, Replied
<1>8. QED
  BY <1>1, <1>3, <1>4, <1>5, <1>6, <1>7, HandlerPlaces, HandlerMovesQuietly

LEMMA CallEndsInv ==
  ASSUME HandlerInv, NEW r \in Requests, CallEnds(r)
  PROVE  HandlerInv'
<1> DEFINE k == <<r, Round(r)>>
<1>1. /\ UNCHANGED <<login, revoked, given, backlog, drainer, closing, main, pc, tried, status, gone>>
      /\ Client!Fail(k) \/ Client!ReturnEmpty(k) \/ Client!GiveUp(k)
  BY DEF CallEnds, helperVars, drainVars, mainVars, handlerVars
<1>2. k \in {First(r), Again(r)} /\ k \in Calls
  BY CallNames DEF Round, First, Again
<1> HIDE DEF k
<1>3. PICK v \in Client!Ends \ Client!Verdicts : call' = [call EXCEPT ![k] = v]
  BY <1>1, <1>2, ClientSteps DEF HandlerInv
<1>4. up' = up /\ call[k] \in Pending /\ v \in CallStates \ Pending /\ v # "idle"
  BY <1>1, <1>2, <1>3, ClientSteps DEF HandlerInv, CallStates, Client!Ends, Client!Verdicts, Pending
<1>5. /\ call' \in [Calls -> CallStates]
      /\ \A j \in Calls : j \notin {First(r), Again(r)} \/ call[j] = "ok" => call'[j] = call[j]
      /\ \A j \in {First(r), Again(r)} : call'[j] = call[j] \/ (call[j] \in Pending /\ call'[j] \notin Pending)
  BY <1>2, <1>3, <1>4, HandlerPlaces, CallNames DEF CallStates, Pending
<1>6. pc' = [pc EXCEPT ![r] = pc[r]] /\ pc[r] \in Places
  BY <1>1, HandlerPlaces
<1>7. CallsHaveHandler(r)'
  BY <1>1, <1>5 DEF HandlerInv, CallsHaveHandler, Early, Pending
<1>8. AttemptsFollowAnswers(r)'
  BY <1>1 DEF HandlerInv, AttemptsFollowAnswers
<1>9. QED
  BY <1>1, <1>4, <1>5, <1>6, <1>7, <1>8, HandlerPlaces, HandlerMovesQuietly

LEMMA AuthReturnsInv ==
  ASSUME HandlerInv, NEW r \in Requests, AuthReturns(r)
  PROVE  HandlerInv'
<1> DEFINE k == <<r, Round(r)>>
<1>1. /\ UNCHANGED <<up, call, login, revoked, given, backlog, drainer, closing, main, tried>>
      /\ pc[r] \in Asking /\ call[k] \in Client!Ends
  BY DEF AuthReturns, helperVars, drainVars, mainVars, clientVars
<1>2. \/ pc[r] = "asking first" /\ Round(r) = "first" /\ k = First(r) /\ ForwardingOf(Round(r)) = "forwarding first"
      \/ pc[r] = "asking again" /\ Round(r) = "again" /\ k = Again(r) /\ ForwardingOf(Round(r)) = "forwarding again"
  BY <1>1 DEF Asking, Round, ForwardingOf, First, Again
<1>3. \A j \in {First(r), Again(r)} : call[j] \notin Pending
  <2>1. call[k] \notin Pending
    BY <1>1 DEF Client!Ends, Client!Verdicts, Pending
  <2>2. QED
    BY <1>2, <2>1 DEF HandlerInv, CallsHaveHandler
<1>4. CASE given[k] # Unusable /\ Goto(r, ForwardingOf(Round(r))) /\ UNCHANGED <<status, gone>>
  <2>1. PICK x \in Forwarding :
          /\ pc' = [pc EXCEPT ![r] = x]
          /\ \/ (pc[r] = "asking first" /\ x = "forwarding first" /\ given[First(r)] # Unusable)
             \/ (pc[r] = "asking again" /\ x = "forwarding again" /\ given[Again(r)] # Unusable)
    BY <1>2, <1>4 DEF Goto, Forwarding
  <2>2. x \in Places /\ ~ (x \in Replied) /\ status[r] = NoStatus
    BY <1>1 DEF Places, Replied, Forwarding, HandlerInv, AttemptsFollowAnswers, Asking
  <2>3. QED
    BY <1>1, <1>3, <1>4, <2>1, <2>2, CallsStand, HandlerMovesQuietly, HandlerPlaces
<1>5. CASE Reply(r, "502")
  <2>1. pc' = [pc EXCEPT ![r] = "done"] /\ gone' \subseteq Requests /\ status' = [status EXCEPT ![r] = "502"]
    BY <1>5, HandlerPlaces DEF Reply, Return, Goto
  <2>2. "done" \in Places /\ "done" \in Replied /\ status'[r] # NoStatus
    BY <2>1, HandlerPlaces DEF Places, Replied, NoStatus
  <2>3. QED
    BY <1>1, <1>3, <2>1, <2>2, CallsStand, HandlerMovesQuietly
<1>6. QED
  BY <1>4, <1>5 DEF AuthReturns

(* A response from an upstream.                                              *)
LEMMA AttemptMade ==
  ASSUME HandlerInv, NEW r \in Requests, pc[r] \in Forwarding
  PROVE  LET a == Attempt(r) IN
         /\ a \in Attempts /\ a.auth.method \in Methods /\ a.auth.gen \in Nat
         /\ Append(tried[r], a) \in Seq(Attempts) /\ Append(tried[r], a)[Len(Append(tried[r], a))] = a
         /\ pc[r] = "forwarding first" =>
              /\ Round(r) = "first" /\ a.auth = given[First(r)]
              /\ Len(Append(tried[r], a)) = 1
         /\ pc[r] = "forwarding again" =>
              /\ Round(r) = "again" /\ a.auth = given[Again(r)] /\ Len(tried[r]) = 1
              /\ Len(Append(tried[r], a)) = 2 /\ Append(tried[r], a)[1] = tried[r][1]
              /\ tried[r][1].auth = given[First(r)]
              /\ a.auth.method = "apikey" \/ tried[r][1].auth.gen < a.auth.gen
<1> DEFINE a == Attempt(r)
           auth == given[<<r, Round(r)>>]
<1>1. a = [auth |-> auth, upstream |-> UpstreamFor(auth), account |-> NeedsAccount(auth.method)]
  BY DEF Attempt
<1>2. \/ pc[r] = "forwarding first" /\ Round(r) = "first" /\ auth = given[First(r)]
      \/ pc[r] = "forwarding again" /\ Round(r) = "again" /\ auth = given[Again(r)]
  BY DEF Forwarding, Round, First, Again
<1>3. auth # Unusable
  BY <1>2 DEF HandlerInv, AttemptsFollowAnswers
<1>4. auth \in Tokens /\ auth.method \in Methods /\ auth.gen \in Nat
  BY <1>2, <1>3, TokenTypes, CallNames DEF HandlerInv
<1>5. UpstreamFor(auth) \in Upstreams /\ NeedsAccount(auth.method) \in BOOLEAN
  BY DEF UpstreamFor, Upstreams, NeedsAccount
<1> HIDE DEF auth
<1>6. a \in Attempts /\ a.auth = auth
  BY <1>1, <1>4, <1>5 DEF Attempts
<1> HIDE DEF a
<1>7. tried[r] \in Seq(Attempts) /\ Len(tried[r]) \in Nat /\ DOMAIN tried[r] = 1 .. Len(tried[r])
  BY TriedTypes DEF HandlerInv
<1>8. Append(tried[r], a) \in Seq(Attempts) /\ Append(tried[r], a)[Len(Append(tried[r], a))] = a
  BY <1>6, <1>7
<1>9. ASSUME pc[r] = "forwarding first" PROVE Len(Append(tried[r], a)) = 1
  <2>1. tried[r] = <<>>
    BY <1>9 DEF HandlerInv, AttemptsFollowAnswers, Early
  <2>2. Len(tried[r]) = 0
    BY <2>1
  <2>3. QED
    BY <1>6, <1>7, <2>2
<1>10. ASSUME pc[r] = "forwarding again"
       PROVE  /\ Len(tried[r]) = 1 /\ Len(Append(tried[r], a)) = 2 /\ Append(tried[r], a)[1] = tried[r][1]
              /\ tried[r][1].auth = given[First(r)]
              /\ auth.method = "apikey" \/ given[First(r)].gen < auth.gen
  <2>1. Len(tried[r]) = 1
    BY <1>10 DEF HandlerInv, AttemptsFollowAnswers
  <2>2. tried[r][1].auth = given[First(r)]
    <3>1. TriedAsGiven(r)
      BY DEF HandlerInv, ProxyTypeOK
    <3>2. 1 \in DOMAIN tried[r]
      BY <1>7, <2>1
    <3>3. QED
      BY <3>1, <3>2 DEF TriedAsGiven, First
  <2>3. auth.method = "apikey" \/ given[First(r)].gen < auth.gen
    BY <1>2, <1>3, <1>10 DEF HandlerInv, AnswersAreFresh
  <2>4. Len(Append(tried[r], a)) = 2 /\ Append(tried[r], a)[1] = tried[r][1]
    <3>1. /\ Len(Append(tried[r], a)) = Len(tried[r]) + 1
          /\ \A i \in 1 .. Len(tried[r]) : Append(tried[r], a)[i] = tried[r][i]
      BY <1>6, <1>7, AppendProperties
    <3>2. QED
      BY <2>1, <3>1
  <2>5. QED
    BY <2>1, <2>2, <2>3, <2>4
<1>11. QED
  BY <1>2, <1>4, <1>6, <1>8, <1>9, <1>10 DEF a

InOrder(q, f, g) ==
  \/ Len(q) = 1 /\ q[1].auth = f
  \/ Len(q) = 2 /\ q[1].auth = f /\ q[2].auth = g
LEMMA AttemptsInOrder ==
  \A q, f, g : q \in Seq(Attempts) /\ InOrder(q, f, g) => Len(q) <= 2 /\ \A i \in DOMAIN q : q[i].auth = IF i = 1 THEN f ELSE g
<1> SUFFICES ASSUME NEW q \in Seq(Attempts), NEW f, NEW g, InOrder(q, f, g)
             PROVE  Len(q) <= 2 /\ \A i \in DOMAIN q : q[i].auth = IF i = 1 THEN f ELSE g
  OBVIOUS
<1>1. DOMAIN q = 1 .. Len(q)
  OBVIOUS
<1>2. CASE Len(q) = 1 /\ q[1].auth = f
  BY <1>1, <1>2
<1>3. CASE Len(q) = 2 /\ q[1].auth = f /\ q[2].auth = g
  <2>1. \A i \in DOMAIN q : i = 1 \/ i = 2
    BY <1>1, <1>3
  <2>2. QED
    BY <1>3, <2>1
<1>4. QED
  BY <1>2, <1>3 DEF InOrder

(* The handler has the response to attempt a, has now made the attempts q,   *)
(* and goes on to x.                                                         *)
LEMMA AttemptInv ==
  ASSUME HandlerInv, NEW r \in Requests, pc[r] \in Forwarding,
         UNCHANGED <<up, login, revoked, given, backlog, drainer, closing, main, gone>>,
         NEW q \in Seq(Attempts), NEW a, tried' = [tried EXCEPT ![r] = q], q[Len(q)] = a,
         \/ pc[r] = "forwarding first" /\ Len(q) = 1 /\ a.auth = given[First(r)]
         \/ /\ pc[r] = "forwarding again" /\ Len(q) = 2 /\ a.auth = given[Again(r)]
            /\ q[1].auth = given[First(r)]
            /\ a.auth.method = "apikey" \/ q[1].auth.gen < a.auth.gen,
         call' \in [Calls -> CallStates],
         \A k \in Calls : k # Again(r) \/ call[k] = "ok" => call'[k] = call[k],
         NEW x, NEW code,
         pc' = [pc EXCEPT ![r] = x], status' = [status EXCEPT ![r] = code],
         \/ /\ x = "copying" /\ call' = call
            /\ \/ code = "answered"
               \/ code = "401" /\ (pc[r] = "forwarding again" \/ a.auth.method = "apikey")
         \/ x = "asking again" /\ code = NoStatus /\ pc[r] = "forwarding first"
  PROVE  HandlerInv'
<1>1. /\ pc'[r] = x /\ tried'[r] = q /\ status'[r] = code
      /\ \A s \in Requests \ {r} : pc'[s] = pc[s] /\ tried'[s] = tried[s] /\ status'[s] = status[s]
  BY HandlerPlaces DEF HandlerInv, ProxyTypeOK
<1>2. OnlyHandler(r)
  <2>1. pc' \in [Requests -> Places] /\ status' \in [Requests -> Codes]
    BY HandlerPlaces DEF Places, Asking, Codes
  <2>2. tried' \in [Requests -> Seq(Attempts)]
    BY DEF HandlerInv, ProxyTypeOK
  <2>3. QED
    BY <1>1, <2>1, <2>2, HandlerPlaces DEF OnlyHandler
<1>3. TriedAsGiven(r)'
  <2>0. q \in Seq(Attempts)
    OBVIOUS
  <2>1. InOrder(q, given[First(r)], given[Again(r)])
    BY DEF InOrder
  <2>2. Len(q) <= 2 /\ \A i \in DOMAIN q : q[i].auth = IF i = 1 THEN given[First(r)] ELSE given[Again(r)]
    BY ONLY <2>0, <2>1, AttemptsInOrder
  <2>3. given' = given
    OBVIOUS
  <2>4. tried'[r] = q
    BY <1>1
  <2>5. QED
    BY ONLY <2>2, <2>3, <2>4 DEF TriedAsGiven, First, Again
<1>4. CallsHaveHandler(r)'
  <2>1. First(r) \in Calls /\ First(r) # Again(r)
    BY CallNames
  <2>2. call[First(r)] \notin Pending /\ call[Again(r)] \notin Pending
    BY DEF HandlerInv, CallsHaveHandler, Forwarding
  <2>3. call'[First(r)] = call[First(r)]
    BY <2>1
  <2>4. QED
    BY <1>1, <2>2, <2>3 DEF CallsHaveHandler, Early
<1>5. AttemptsFollowAnswers(r)'
  BY <1>1 DEF AttemptsFollowAnswers, Early, Replied, NoStatus
<1>6. SecondOpinion(r)'
  BY <1>1 DEF SecondOpinion, NoStatus
<1>7. QED
  BY <1>2, <1>3, <1>4, <1>5, <1>6, HandlerMoves

LEMMA UnauthorizedInv ==
  ASSUME HandlerInv, NEW r \in Requests, Unauthorized(r)
  PROVE  HandlerInv'
<1> DEFINE a == Attempt(r)
           q == Append(tried[r], a)
<1>1. /\ UNCHANGED <<login, revoked, given, backlog, drainer, closing, main, gone>> /\ pc[r] \in Forwarding
      /\ tried' = [tried EXCEPT ![r] = q]
  BY DEF Unauthorized, helperVars, drainVars, mainVars
<1>2. /\ a.auth.method \in Methods /\ (Round(r) = "first" <=> pc[r] = "forwarding first")
      /\ q \in Seq(Attempts) /\ q[Len(q)] = a
      /\ \/ pc[r] = "forwarding first" /\ Len(q) = 1 /\ a.auth = given[First(r)]
         \/ /\ pc[r] = "forwarding again" /\ Len(q) = 2 /\ a.auth = given[Again(r)]
            /\ q[1].auth = given[First(r)]
            /\ a.auth.method = "apikey" \/ q[1].auth.gen < a.auth.gen
  BY <1>1, AttemptMade DEF Forwarding
<1>3. CASE /\ Round(r) = "first" /\ Goto(r, "asking again") /\ Client!Ask(<<r, "again">>) /\ UNCHANGED status
  <2>1. up' = up /\ call[Again(r)] = "idle" /\ \E v \in Pending : call' = [call EXCEPT ![Again(r)] = v]
    BY <1>3, ClientSteps, CallNames DEF HandlerInv, Again
  <2>2. /\ call' \in [Calls -> CallStates]
        /\ \A k \in Calls : k # Again(r) \/ call[k] = "ok" => call'[k] = call[k]
    BY <2>1, HandlerPlaces DEF CallStates
  <2>3. status' = [status EXCEPT ![r] = NoStatus] /\ pc' = [pc EXCEPT ![r] = "asking again"]
    <3>1. status[r] = NoStatus
      BY <1>1 DEF HandlerInv, AttemptsFollowAnswers, Forwarding, Replied
    <3>2. QED
      BY <1>3, <3>1, HandlerPlaces DEF Goto
  <2>4. pc[r] = "forwarding first"
    BY <1>2, <1>3
  <2> HIDE DEF a, q
  <2>5. QED
    BY <1>1, <1>2, <2>1, <2>2, <2>3, <2>4, AttemptInv
<1>4. CASE /\ ~ (Round(r) = "first" /\ RetriesUnauthorized(Attempt(r).auth.method))
           /\ Goto(r, "copying") /\ status' = [status EXCEPT ![r] = "401"] /\ UNCHANGED clientVars
  <2>1. pc[r] = "forwarding again" \/ a.auth.method = "apikey"
    BY <1>2, <1>4 DEF RetriesUnauthorized, Methods
  <2>2. UNCHANGED <<up, call>> /\ call' \in [Calls -> CallStates]
    BY <1>4, HandlerPlaces DEF clientVars
  <2>3. pc' = [pc EXCEPT ![r] = "copying"] /\ status' = [status EXCEPT ![r] = "401"]
    BY <1>4 DEF Goto
  <2> HIDE DEF a, q
  <2>4. QED
    BY <1>1, <1>2, <2>1, <2>2, <2>3, AttemptInv
<1>5. QED
  BY <1>3, <1>4 DEF Unauthorized

LEMMA AcceptedInv ==
  ASSUME HandlerInv, NEW r \in Requests, Accepted(r)
  PROVE  HandlerInv'
<1> DEFINE a == Attempt(r)
           q == Append(tried[r], a)
<1>1. /\ UNCHANGED <<up, call, login, revoked, given, backlog, drainer, closing, main, gone>> /\ pc[r] \in Forwarding
      /\ tried' = [tried EXCEPT ![r] = q] /\ pc' = [pc EXCEPT ![r] = "copying"]
      /\ status' = [status EXCEPT ![r] = "answered"]
  BY DEF Accepted, helperVars, drainVars, mainVars, clientVars, Goto
<1>2. call' \in [Calls -> CallStates]
  BY <1>1, HandlerPlaces
<1>3. /\ q \in Seq(Attempts) /\ q[Len(q)] = a
      /\ \/ pc[r] = "forwarding first" /\ Len(q) = 1 /\ a.auth = given[First(r)]
         \/ /\ pc[r] = "forwarding again" /\ Len(q) = 2 /\ a.auth = given[Again(r)]
            /\ q[1].auth = given[First(r)]
            /\ a.auth.method = "apikey" \/ q[1].auth.gen < a.auth.gen
  BY <1>1, AttemptMade DEF Forwarding
<1> HIDE DEF a, q
<1>4. QED
  BY <1>1, <1>2, <1>3, AttemptInv

----------------------------------------------------------------------------
(* Everybody else.                                                           *)

(* Steps that leave the handlers and what they were given.                   *)
LEMMA OthersInv ==
  ASSUME HandlerInv, UNCHANGED <<up, call, given, pc, tried, status>>,
         login' \in Tokens, login.gen <= login'.gen, revoked' \subseteq 0 .. MaxGen,
         backlog' \in 0 .. Backlog, drainer' \in {"running", "ended"},
         closing' \in {"open", "canceled", "waited", "closed"},
         main' \in {"configuring", "listening", "serving", "shutting down", "giving up",
                    "closing", "exited", "fatal"},
         gone' \subseteq Requests
  PROVE  HandlerInv'
<1>1. \A r \in Requests : TriedAsGiven(r) /\ TriedAsGiven(r)'
  <2>1. \A r \in Requests : TriedAsGiven(r)
    BY DEF HandlerInv, ProxyTypeOK
  <2>2. QED
    BY <2>1 DEF TriedAsGiven
<1>2. \A k \in Calls : given[k].gen <= login'.gen
  <2>1. login.gen \in Nat /\ login'.gen \in Nat /\ \A k \in Calls : given[k].gen \in Nat /\ given[k].gen <= login.gen
    <3>1. login'.gen \in Nat
      <4>1. login' \in Tokens
        OBVIOUS
      <4>2. QED
        BY ONLY <4>1, TokenFields
    <3>2. ProxyTypeOK
      BY DEF HandlerInv
    <3>3. QED
      BY ONLY <3>1, <3>2, TokenTypes
  <2>2. login.gen <= login'.gen
    OBVIOUS
  <2>3. QED
    BY ONLY <2>1, <2>2
<1>3. ProxyTypeOK'
  BY <1>1, <1>2 DEF HandlerInv, ProxyTypeOK
<1>4. AnswersAreFresh'
  BY DEF HandlerInv, AnswersAreFresh
<1>5. \A r \in Requests : CallsHaveHandler(r)' /\ AttemptsFollowAnswers(r)' /\ SecondOpinion(r)'
  BY DEF HandlerInv, CallsHaveHandler, AttemptsFollowAnswers, SecondOpinion
<1>6. QED
  BY <1>3, <1>4, <1>5 DEF HandlerInv

LEMMA MainTypes ==
  ASSUME HandlerInv
  PROVE  /\ login \in Tokens /\ login.gen <= login.gen /\ revoked \subseteq 0 .. MaxGen
         /\ backlog \in 0 .. Backlog /\ drainer \in {"running", "ended"}
         /\ closing \in {"open", "canceled", "waited", "closed"}
         /\ main \in {"configuring", "listening", "serving", "shutting down", "giving up",
                      "closing", "exited", "fatal"}
         /\ gone \subseteq Requests
<1>1. login.gen <= login.gen
  BY TokenTypes DEF HandlerInv
<1>2. QED
  BY <1>1 DEF HandlerInv, ProxyTypeOK

LEMMA UserInv ==
  ASSUME HandlerInv, Revoke \/ \E m \in Methods : LogIn(m)
  PROVE  HandlerInv'
<1>1. /\ UNCHANGED <<up, call, given, pc, tried, status, backlog, drainer, closing, main, gone>>
  BY DEF Revoke, LogIn, drainVars, mainVars, handlerVars, clientVars
<1>2. login.gen \in Nat /\ login.gen \in 0 .. MaxGen
  BY MainTypes, TokenTypes DEF HandlerInv, Tokens
<1>3. login' \in Tokens /\ login.gen <= login'.gen /\ revoked' \subseteq 0 .. MaxGen
  <2>1. CASE Revoke
    BY <1>2, <2>1, MainTypes DEF Revoke
  <2>2. CASE \E m \in Methods : LogIn(m)
    <3>1. PICK m \in Methods : login.gen < MaxGen /\ login' = Token(m, login.gen + 1) /\ revoked' = revoked
      BY <2>2 DEF LogIn
    <3>2. login' = [method |-> m, gen |-> login.gen + 1] /\ login.gen + 1 \in 0 .. MaxGen
      BY <1>2, <3>1 DEF Token
    <3>3. QED
      <4>1. login' \in Tokens
        BY ONLY <3>2 DEF Tokens
      <4>2. login.gen <= login'.gen
        BY ONLY <1>2, <3>2
      <4>3. QED
        BY <3>1, <4>1, <4>2, MainTypes
  <2>3. QED
    BY <2>1, <2>2
<1>4. QED
  BY <1>1, <1>3, MainTypes, OthersInv

LEMMA NotificationsInv ==
  ASSUME HandlerInv, HelperNotifies \/ Drain \/ DrainEnds
  PROVE  HandlerInv'
<1>1. UNCHANGED <<up, call, login, revoked, given, pc, tried, status, closing, main, gone>>
  BY DEF HelperNotifies, Drain, DrainEnds, helperVars, mainVars, handlerVars, clientVars
<1>2. backlog' \in 0 .. Backlog /\ drainer' \in {"running", "ended"}
  <2>1. backlog \in 0 .. Backlog /\ drainer \in {"running", "ended"}
    BY MainTypes
  <2>2. CASE HelperNotifies
    BY <2>1, <2>2, ProxyAssumption DEF HelperNotifies
  <2>3. CASE Drain
    BY <2>1, <2>3, ProxyAssumption DEF Drain
  <2>4. CASE DrainEnds
    BY <2>1, <2>4 DEF DrainEnds
  <2>5. QED
    BY <2>2, <2>3, <2>4
<1>3. QED
  BY <1>1, <1>2, MainTypes, OthersInv

LEMMA HangUpInv ==
  ASSUME HandlerInv, NEW r \in Requests, HangUp(r)
  PROVE  HandlerInv'
<1>1. UNCHANGED <<up, call, login, revoked, given, pc, tried, status, backlog, drainer, closing, main>>
  BY DEF HangUp, helperVars, drainVars, mainVars, clientVars
<1>2. gone' \subseteq Requests
  BY MainTypes DEF HangUp
<1>3. QED
  BY <1>1, <1>2, MainTypes, OthersInv

(* main and Close, but for the last step.                                    *)
MainStep ==
  Configure \/ Listen \/ ServeFails \/ Signal \/ Shutdown \/ ShutdownTimesOut \/ CloseCancels \/ CloseWaits

LEMMA MainStepInv == ASSUME HandlerInv, MainStep PROVE HandlerInv'
<1>1. CASE CloseCancels \/ CloseWaits
  <2>1. UNCHANGED <<up, call, login, revoked, given, pc, tried, status, backlog, drainer, main, gone>>
    BY <1>1 DEF CloseCancels, CloseWaits, CloseGoes, helperVars, drainVars, handlerVars, clientVars
  <2>2. closing' \in {"open", "canceled", "waited", "closed"}
    BY <1>1 DEF CloseCancels, CloseWaits, CloseGoes
  <2>3. QED
    BY <2>1, <2>2, MainTypes, OthersInv
<1>2. CASE ~ (CloseCancels \/ CloseWaits)
  <2>1. PICK from, to \in {"configuring", "listening", "serving", "shutting down", "giving up",
                           "closing", "exited", "fatal"} : MainGoes(from, to)
    BY <1>2 DEF MainStep, Configure, Listen, ServeFails, Signal, Shutdown, ShutdownTimesOut
  <2>2. /\ UNCHANGED <<up, call, login, revoked, given, pc, tried, status, backlog, drainer, closing, gone>>
        /\ main' = to
    BY <2>1 DEF MainGoes, helperVars, drainVars, handlerVars, clientVars
  <2>3. QED
    BY <2>2, MainTypes, OthersInv
<1>3. QED
  BY <1>1, <1>2

LEMMA HelperEndsInv ==
  ASSUME HandlerInv, HelperDies \/ CloseKills
  PROVE  HandlerInv'
<1>1. UNCHANGED <<helperVars, drainVars, handlerVars>> /\ main' \in {main, "exited", "fatal"}
      /\ closing' \in {closing, "closed"}
  BY DEF HelperDies, CloseKills, CloseGoes, mainVars
<1>2. CASE \E lost \in SUBSET Calls : Client!GoDown(lost)
  BY <1>1, <1>2, HelperDiesInv
<1>3. CASE UNCHANGED clientVars
  <2>1. UNCHANGED <<up, call, login, revoked, given, pc, tried, status, backlog, drainer, gone>>
    BY <1>1, <1>3 DEF helperVars, drainVars, handlerVars, clientVars
  <2>2. closing' \in {"open", "canceled", "waited", "closed"}
        /\ main' \in {"configuring", "listening", "serving", "shutting down", "giving up",
                       "closing", "exited", "fatal"}
    BY <1>1, MainTypes
  <2>3. QED
    BY <2>1, <2>2, MainTypes, OthersInv
<1>4. QED
  BY <1>2, <1>3 DEF HelperDies, CloseKills

----------------------------------------------------------------------------
(* main and Close against the rest.                                          *)

LEMMA HandlerRunsWhileServing ==
  ASSUME HandlerInv, MainInv, NEW r \in Requests, Handler(r)
  PROVE  /\ main \in {"serving", "shutting down"}
         /\ UNCHANGED <<main, closing, drainer>> /\ (~ up => ~ up')
<1>1. UNCHANGED <<main, closing, drainer>>
  BY DEF Handler, HandlerStep, Arrive, HangUp, ReadBody, ReadBodyFails, CallEnds, AuthReturns, Unauthorized,
         Accepted, ForwardFails, CopyEnds, drainVars, mainVars
<1>2. main = "serving" \/ (Running /\ Serving(r))
  BY DEF Handler, HandlerStep, Arrive, HangUp, ReadBody, ReadBodyFails, CallEnds, AuthReturns, Unauthorized,
         Accepted, ForwardFails, CopyEnds, Serving, Asking, Forwarding
<1>3. main \in {"serving", "shutting down"}
  BY <1>2, MainTypes DEF MainInv, Running, Serving
<1>4. up' = up
  BY DEF Handler, HandlerStep, Arrive, HangUp, ReadBody, ReadBodyFails, CallEnds, AuthReturns, Unauthorized,
         Accepted, ForwardFails, CopyEnds, clientVars, Client!Ask, Client!Fail, Client!ReturnEmpty, Client!GiveUp
<1>5. QED
  BY <1>1, <1>3, <1>4

LEMMA HandlerMain ==
  ASSUME HandlerInv, MainInv, NEW r \in Requests, Handler(r)
  PROVE  MainInv'
<1>1. /\ main' \in {"serving", "shutting down"} /\ closing' = closing /\ closing = "open"
  BY HandlerRunsWhileServing DEF MainInv
<1>2. QED
  BY <1>1 DEF MainInv

LEMMA OthersMain ==
  ASSUME HandlerInv, MainInv,
         \/ \E k \in Calls : HelperAnswers(k) \/ HelperRefuses(k)
         \/ HelperNotifies \/ HelperDies \/ Revoke \/ \E m \in Methods : LogIn(m)
         \/ Drain \/ DrainEnds
  PROVE  MainInv'
<1>1. UNCHANGED <<main, closing, pc>>
  BY DEF HelperAnswers, HelperRefuses, HelperNotifies, HelperDies, Revoke, LogIn, Drain, DrainEnds, mainVars,
         handlerVars
<1>2. drainer' \in {drainer, "ended"}
  BY DEF HelperAnswers, HelperRefuses, HelperNotifies, HelperDies, Revoke, LogIn, Drain, DrainEnds, drainVars
<1>3. ~ up => ~ up'
  BY DEF HelperAnswers, HelperRefuses, HelperNotifies, HelperDies, Revoke, LogIn, Drain, DrainEnds, clientVars,
         Client!Answer, Client!GoDown
<1>4. QED
  BY <1>1, <1>2, <1>3 DEF MainInv, Serving

LEMMA MainStepMain == ASSUME HandlerInv, MainInv, MainStep PROVE MainInv'
<1>1. UNCHANGED <<pc, drainer, up>>
  BY DEF MainStep, Configure, Listen, ServeFails, Signal, Shutdown, ShutdownTimesOut, CloseCancels, CloseWaits,
         MainGoes, CloseGoes, drainVars, handlerVars, clientVars
<1>2. CASE CloseCancels \/ CloseWaits
  <2>1. /\ main' = main /\ main \in {"closing", "giving up"} /\ closing # "closed" /\ closing' # "closed"
        /\ closing' = "waited" => drainer = "ended"
    BY <1>2 DEF CloseCancels, CloseWaits, CloseGoes
  <2>2. QED
    BY <1>1, <2>1 DEF MainInv, Serving
<1>3. CASE ~ (CloseCancels \/ CloseWaits)
  <2>1. /\ closing' = closing /\ main \in {"configuring", "listening", "serving", "shutting down"}
        /\ main' \in {"listening", "giving up", "serving", "fatal", "shutting down", "closing"}
        /\ main' = "closing" => \A r \in Requests : ~ Serving(r)
        /\ main' \in {"listening", "giving up"} => main = "configuring"
    BY <1>3 DEF MainStep, Configure, Listen, ServeFails, Signal, Shutdown, ShutdownTimesOut, MainGoes
  <2>2. closing = "open"
    BY <2>1 DEF MainInv
  <2>3. QED
    BY <1>1, <2>1, <2>2 DEF MainInv, Serving
<1>4. QED
  BY <1>2, <1>3

LEMMA CloseKillsMain == ASSUME HandlerInv, MainInv, CloseKills PROVE MainInv'
<1>1. /\ UNCHANGED <<pc, drainer>> /\ closing = "waited" /\ closing' = "closed"
      /\ main' = IF main = "closing" THEN "exited" ELSE "fatal"
  BY DEF CloseKills, CloseGoes, drainVars, handlerVars
<1>2. up' = FALSE
  BY DEF CloseKills, Client!GoDown, clientVars, HandlerInv, ProxyTypeOK
<1>3. QED
  BY <1>1, <1>2 DEF MainInv, Serving

----------------------------------------------------------------------------
(* The invariant, and what it says.                                          *)

LEMMA ProxyInitInv == Init => ProxyInv
<1> SUFFICES ASSUME Init PROVE ProxyInv
  OBVIOUS
<1>1. /\ up = TRUE /\ call = [k \in Calls |-> "idle"] /\ revoked = {} /\ given = [k \in Calls |-> Unusable]
      /\ backlog = 0 /\ drainer = "running" /\ closing = "open" /\ main = "configuring"
      /\ pc = [r \in Requests |-> "away"] /\ tried = [r \in Requests |-> <<>>]
      /\ status = [r \in Requests |-> NoStatus] /\ gone = {}
  BY DEF Init, Client!Init
<1>2. login \in Tokens /\ login.gen = 0
  BY DEF Init, Token, Tokens
<1>3. \A k \in Calls : given[k] = Unusable /\ given[k].gen = 0 /\ given[k].gen <= login.gen
  BY <1>1, <1>2 DEF Unusable
<1>4. \A r \in Requests : TriedAsGiven(r)
  <2>1. Len(<<>>) = 0 /\ DOMAIN <<>> = {}
    OBVIOUS
  <2>2. QED
    BY <1>1, <2>1 DEF TriedAsGiven
<1>5. ProxyTypeOK
  <2>1. call \in [Calls -> {"idle", "asked", "hopeless"} \cup Client!Ends] /\ up \in BOOLEAN
    BY <1>1
  <2>2. backlog \in 0 .. Backlog
    BY <1>1
  <2>3. tried \in [Requests -> Seq(Attempts)]
    BY <1>1
  <2>4. QED
    BY <1>1, <1>2, <1>3, <1>4, <2>1, <2>2, <2>3 DEF ProxyTypeOK
<1>6. AnswersAreFresh
  BY <1>1, CallNames DEF AnswersAreFresh
<1>7. \A r \in Requests : CallsHaveHandler(r) /\ AttemptsFollowAnswers(r) /\ SecondOpinion(r)
  BY <1>1, CallNames DEF CallsHaveHandler, AttemptsFollowAnswers, SecondOpinion, Early, Replied, Pending, NoStatus
<1>8. MainInv
  BY <1>1 DEF MainInv
<1>9. QED
  BY <1>5, <1>6, <1>7, <1>8 DEF ProxyInv, HandlerInv

LEMMA ProxyNextInv == ProxyInv /\ [Next]_vars => ProxyInv'
<1> SUFFICES ASSUME HandlerInv, MainInv, [Next]_vars PROVE HandlerInv' /\ MainInv'
  BY DEF ProxyInv
<1>1. CASE \/ \E k \in Calls : HelperAnswers(k) \/ HelperRefuses(k)
           \/ HelperNotifies \/ HelperDies \/ Revoke \/ \E m \in Methods : LogIn(m)
           \/ Drain \/ DrainEnds
  <2>1. MainInv'
    BY <1>1, OthersMain
  <2>2. HandlerInv'
    BY <1>1, HelperAnswersInv, HelperRefusesInv, NotificationsInv, HelperEndsInv, UserInv
  <2>3. QED
    BY <2>1, <2>2
<1>2. ASSUME NEW r \in Requests, Handler(r) PROVE HandlerInv' /\ MainInv'
  <2>1. MainInv'
    BY <1>2, HandlerMain
  <2>2. HandlerInv'
    BY <1>2, ArriveInv, HangUpInv, ReadBodyInv, CallEndsInv, AuthReturnsInv, UnauthorizedInv, AcceptedInv
       DEF Handler, HandlerStep
  <2>3. QED
    BY <2>1, <2>2
<1>3. CASE MainStep
  BY <1>3, MainStepInv, MainStepMain
<1>4. CASE CloseKills
  BY <1>4, HelperEndsInv, CloseKillsMain
<1>5. CASE UNCHANGED vars
  <2>1. UNCHANGED <<up, call, login, revoked, given, backlog, drainer, closing, main, pc, tried, status, gone>>
    BY <1>5 DEF vars, clientVars, helperVars, drainVars, mainVars, handlerVars
  <2>2. MainInv'
    BY <2>1 DEF MainInv, Serving
  <2>3. QED
    BY <2>1, <2>2, MainTypes, OthersInv
<1>6. QED
  BY <1>1, <1>2, <1>3, <1>4, <1>5 DEF Next, Close, MainStep

LEMMA ProxyInvariant == Spec => []ProxyInv
  BY ProxyInitInv, ProxyNextInv, PTL DEF Spec

(* The proxy keeps its types, and what it has tried is what it was given:    *)
(* the second attempt is made with the second call's answer                  *)
(* (auth_proxy.go:253-274).                                                  *)
THEOREM ProxyTypeCorrect == Spec => []ProxyTypeOK
<1>1. ProxyInv => ProxyTypeOK
  BY DEF ProxyInv, HandlerInv
<1>2. QED
  BY <1>1, ProxyInvariant, PTL

(* Whatever other requests, logins and revocations come between, a client is *)
(* told 401 for an API key, or for two tokens of which the second was issued *)
(* after the first was rejected (auth_proxy.go:263-273).                     *)
THEOREM RejectionsAreSecondOpinions == Spec => []UnauthorizedIsSecondOpinion
<1>1. ProxyInv => UnauthorizedIsSecondOpinion
  BY DEF ProxyInv, HandlerInv, UnauthorizedIsSecondOpinion
<1>2. QED
  BY <1>1, ProxyInvariant, PTL

(* The helper is not closed under a handler, and a clean exit has answered   *)
(* what it accepted (main.go:127-133, 160-164, auth_proxy.go:158-166).       *)
THEOREM ShutdownsAreOrderly == Spec => []ShutdownIsOrderly
<1>1. ProxyInv => ShutdownIsOrderly
  <2> SUFFICES ASSUME HandlerInv, MainInv PROVE ShutdownIsOrderly
    BY DEF ProxyInv
  <2>1. ASSUME Running, NEW r \in Requests, Serving(r) PROVE closing = "open"
    BY <2>1 DEF MainInv, Running, Serving
  <2>2. ASSUME main = "exited"
        PROVE  /\ ~ up /\ drainer = "ended"
               /\ \A r \in Requests : pc[r] # "away" => pc[r] = "done" /\ status[r] # NoStatus
    BY <2>2 DEF MainInv, Serving, HandlerInv, AttemptsFollowAnswers, Replied
  <2>3. QED
    BY <2>1, <2>2 DEF ShutdownIsOrderly
<1>2. QED
  BY <1>1, ProxyInvariant, PTL

----------------------------------------------------------------------------
(* The proxy uses its client as the contract allows.                         *)

LEMMA HandlerOnClient ==
  ASSUME NEW r \in Requests, Handler(r)
  PROVE  [Client!Next]_(Client!vars)
<1>1. CASE \/ Arrive(r) \/ HangUp(r) \/ ReadBodyFails(r) \/ AuthReturns(r) \/ Accepted(r)
           \/ ForwardFails(r) \/ CopyEnds(r)
  BY <1>1 DEF Arrive, HangUp, ReadBodyFails, AuthReturns, Accepted, ForwardFails, CopyEnds, clientVars, Client!vars
<1>2. CASE ReadBody(r) \/ Unauthorized(r)
  <2>1. Client!Ask(First(r)) \/ Client!Ask(Again(r)) \/ UNCHANGED clientVars
    BY <1>2 DEF ReadBody, Unauthorized, First, Again
  <2>2. QED
    BY <2>1, CallNames DEF Client!Next, clientVars, Client!vars
<1>3. CASE CallEnds(r)
  <2>1. PICK k \in Calls : Client!Fail(k) \/ Client!ReturnEmpty(k) \/ Client!GiveUp(k)
    BY <1>3, CallNames DEF CallEnds, Round, First, Again
  <2>2. QED
    BY <2>1 DEF Client!Next
<1>4. QED
  BY <1>1, <1>2, <1>3 DEF Handler, HandlerStep

LEMMA ProxyStepOnClient == [Next]_vars => [Client!Next]_(Client!vars)
<1> SUFFICES ASSUME [Next]_vars PROVE [Client!Next]_(Client!vars)
  OBVIOUS
<1>1. ASSUME NEW k \in Calls, HelperAnswers(k) \/ HelperRefuses(k) PROVE Client!Next
  <2>1. \E v \in Client!Verdicts : Client!Answer(k, v)
    BY <1>1 DEF HelperAnswers, HelperRefuses, Client!Verdicts
  <2>2. QED
    BY <2>1 DEF Client!Next
<1>2. ASSUME HelperDies \/ CloseKills PROVE [Client!Next]_(Client!vars)
  <2>1. (\E lost \in SUBSET Calls : Client!GoDown(lost)) \/ UNCHANGED clientVars
    BY <1>2 DEF HelperDies, CloseKills
  <2>2. QED
    BY <2>1 DEF Client!Next, clientVars, Client!vars
<1>3. CASE HelperNotifies \/ Revoke \/ (\E m \in Methods : LogIn(m)) \/ Drain \/ DrainEnds
  BY <1>3 DEF HelperNotifies, Revoke, LogIn, Drain, DrainEnds, clientVars, Client!vars
<1>4. CASE MainStep \/ UNCHANGED vars
  BY <1>4 DEF MainStep, Configure, Listen, ServeFails, Signal, Shutdown, ShutdownTimesOut, CloseCancels, CloseWaits,
              MainGoes, CloseGoes, vars, clientVars, Client!vars
<1>5. QED
  BY <1>1, <1>2, <1>3, <1>4, HandlerOnClient DEF Next, Close, MainStep

(* A handler's two calls, the helper's answers and death, and Close are what *)
(* the contract of a client allows: what holds of the contract's callers     *)
(* holds of the handlers (auth_proxy.go:114-132, 158-166, 253-273).          *)
THEOREM ProxyUsesContract == Spec => Client!Spec
<1>1. Init => Client!Init
  BY DEF Init
<1>2. QED
  BY <1>1, ProxyStepOnClient, PTL DEF Spec, Client!Spec
----------------------------------------------------------------------------
(* Nobody waits for a helper that nobody serves.                             *)

(* A handler that waits for CurrentAuth has its answer, or will be told that *)
(* the helper is gone, or waits for a helper whose notifications are being   *)
(* drained and which Close leaves alone.                                     *)
AwaitedCallsAreServed ==
  \A r \in Requests : Running /\ pc[r] \in Asking =>
    LET k == <<r, Round(r)>> IN
      \/ call[k] \in Client!Ends
      \/ ~ up
      \/ call[k] = "asked" /\ drainer = "running" /\ closing = "open"

(* The drainer ends only with the helper or for Close, a call is hopeless    *)
(* only once the helper is gone, and a handler waits for a call it has made. *)
AskedInv(r) ==
  /\ pc[r] = "asking first" => call[First(r)] # "idle"
  /\ pc[r] = "asking again" => call[Again(r)] # "idle"
ServedInv ==
  /\ drainer = "ended" => ~ up \/ closing # "open"
  /\ \A k \in Calls : call[k] = "hopeless" => ~ up
  /\ \A r \in Requests : AskedInv(r)

(* The client of the contract stays down, calls stay made, and only those    *)
(* begun or lost while it is down have no hope.                              *)
LEMMA CallsStayMade ==
  ASSUME ProxyTypeOK, [Client!Next]_(Client!vars)
  PROVE  /\ ~ up => ~ up'
         /\ \A k \in Calls : call[k] # "idle" => call'[k] # "idle"
         /\ \A k \in Calls : call'[k] = "hopeless" => call[k] = "hopeless" \/ ~ up'
<1>1. call \in [Calls -> CallStates] /\ up \in BOOLEAN
  BY DEF ProxyTypeOK, CallStates, Pending
<1>2. ASSUME NEW k \in Calls,
             \/ Client!Ask(k) \/ Client!Fail(k) \/ Client!ReturnEmpty(k) \/ Client!GiveUp(k)
             \/ \E v \in Client!Verdicts : Client!Answer(k, v)
      PROVE  /\ up' = up
             /\ \E v \in CallStates \ {"idle"} :
                  call' = [call EXCEPT ![k] = v] /\ (v = "hopeless" => ~ up)
  <2>1. CASE Client!Ask(k)
    <3> DEFINE v == IF up THEN "asked" ELSE "hopeless"
    <3>1. up' = up /\ call' = [call EXCEPT ![k] = v]
      BY <2>1 DEF Client!Ask
    <3>2. v \in CallStates \ {"idle"} /\ (v = "hopeless" => ~ up)
      BY DEF CallStates, Pending
    <3> HIDE DEF v
    <3>3. QED
      BY <3>1, <3>2
  <2>2. CASE Client!Fail(k) \/ Client!ReturnEmpty(k) \/ Client!GiveUp(k)
    BY <2>2 DEF Client!Fail, Client!ReturnEmpty, Client!GiveUp, CallStates, Client!Ends
  <2>3. CASE \E v \in Client!Verdicts : Client!Answer(k, v)
    BY <2>3 DEF Client!Answer, CallStates, Client!Ends, Client!Verdicts
  <2>4. QED
    BY <1>2, <2>1, <2>2, <2>3
<1>3. CASE \E lost \in SUBSET Calls : Client!GoDown(lost) \/ Client!LoseMore(lost)
  <2>1. /\ ~ up'
        /\ \A k \in Calls : call'[k] = call[k] \/ call'[k] = "hopeless"
    BY <1>3 DEF Client!GoDown, Client!LoseMore, Client!Lose
  <2>2. QED
    BY <2>1
<1>4. CASE UNCHANGED <<up, call>>
  BY <1>4
<1>5. CASE \E k \in Calls :
             \/ Client!Ask(k) \/ Client!Fail(k) \/ Client!ReturnEmpty(k) \/ Client!GiveUp(k)
             \/ \E v \in Client!Verdicts : Client!Answer(k, v)
  <2>1. PICK k \in Calls, v \in CallStates \ {"idle"} :
          up' = up /\ call' = [call EXCEPT ![k] = v] /\ (v = "hopeless" => ~ up)
    BY <1>2, <1>5
  <2>2. QED
    BY <1>1, <2>1
<1>6. QED
  BY <1>3, <1>4, <1>5 DEF Client!Next, Client!vars

(* A handler comes to wait for a call by making it.                          *)
LEMMA WaitersHaveAsked ==
  ASSUME ProxyInv, ServedInv, [Next]_vars, NEW r \in Requests
  PROVE  AskedInv(r)'
<1>1. /\ call[First(r)] # "idle" => call'[First(r)] # "idle"
      /\ call[Again(r)] # "idle" => call'[Again(r)] # "idle"
  BY ProxyStepOnClient, CallsStayMade, CallNames DEF ProxyInv, HandlerInv
<1>2. CASE pc'[r] = pc[r]
  BY <1>1, <1>2 DEF ServedInv, AskedInv
<1>3. CASE ReadBody(r)
  <2>1. Client!Ask(First(r)) /\ pc' = [pc EXCEPT ![r] = "asking first"]
    BY <1>3 DEF ReadBody, Goto, First
  <2>2. PICK v \in Pending : call' = [call EXCEPT ![First(r)] = v]
    BY <2>1, ClientSteps, CallNames DEF ProxyInv, HandlerInv
  <2>3. pc'[r] = "asking first" /\ call'[First(r)] = v
    BY <2>1, <2>2, HandlerPlaces, CallNames DEF ProxyInv
  <2>4. QED
    BY <2>3 DEF AskedInv, Pending
<1>4. CASE Unauthorized(r) /\ Client!Ask(Again(r)) /\ Goto(r, "asking again")
  <2>1. PICK v \in Pending : call' = [call EXCEPT ![Again(r)] = v]
    BY <1>4, ClientSteps, CallNames DEF ProxyInv, HandlerInv
  <2>2. pc'[r] = "asking again" /\ call'[Again(r)] = v
    BY <1>4, <2>1, HandlerPlaces, CallNames DEF ProxyInv, Goto
  <2>3. QED
    BY <2>2 DEF AskedInv, Pending
<1>5. ASSUME \E x \in Forwarding \cup {"reading", "copying", "done"} : pc' = [pc EXCEPT ![r] = x]
      PROVE  AskedInv(r)'
  BY <1>5, HandlerPlaces DEF ProxyInv, AskedInv, Forwarding
<1>6. ASSUME NEW s \in Requests, Handler(s), s # r
      PROVE  pc'[r] = pc[r]
  <2>1. pc' = pc \/ \E x : pc' = [pc EXCEPT ![s] = x]
    BY <1>6 DEF Handler, HandlerStep, Arrive, HangUp, ReadBody, ReadBodyFails, CallEnds, AuthReturns, Unauthorized,
       Accepted, ForwardFails, CopyEnds, Reply, Return, Goto, handlerVars
  <2>2. QED
    BY <1>6, <2>1, HandlerPlaces DEF ProxyInv
<1>7. CASE Handler(r)
  <2>1. CASE Arrive(r) \/ ReadBodyFails(r) \/ Accepted(r) \/ ForwardFails(r) \/ CopyEnds(r) \/ AuthReturns(r)
    BY <1>5, <2>1 DEF Arrive, ReadBodyFails, Accepted, ForwardFails, CopyEnds, AuthReturns, Reply, Return, Goto,
       Forwarding, ForwardingOf
  <2>2. CASE HangUp(r) \/ CallEnds(r)
    BY <1>2, <2>2 DEF HangUp, CallEnds, handlerVars
  <2>3. CASE Unauthorized(r)
    BY <1>4, <1>5, <2>3 DEF Unauthorized, Goto, Again
  <2>4. QED
    BY <1>3, <1>7, <2>1, <2>2, <2>3 DEF Handler, HandlerStep
<1>8. CASE ~ \E s \in Requests : Handler(s)
  <2>1. pc' = pc
    BY <1>8 DEF Next, HelperAnswers, HelperRefuses, HelperNotifies, HelperDies, Revoke, LogIn, Drain, DrainEnds,
       Configure, Listen, ServeFails, Signal, Shutdown, ShutdownTimesOut, Close, CloseCancels, CloseWaits,
       CloseKills, MainGoes, CloseGoes, handlerVars, vars
  <2>2. QED
    BY <1>2, <2>1
<1>9. QED
  BY <1>2, <1>6, <1>7, <1>8

LEMMA StepServed == ProxyInv /\ ServedInv /\ [Next]_vars => ServedInv'
<1> SUFFICES ASSUME ProxyInv, ServedInv, [Next]_vars PROVE ServedInv'
  OBVIOUS
<1>1. /\ ~ up => ~ up'
      /\ \A k \in Calls : call'[k] = "hopeless" => call[k] = "hopeless" \/ ~ up'
  BY ProxyStepOnClient, CallsStayMade DEF ProxyInv, HandlerInv
<1>2. \A k \in Calls : call'[k] = "hopeless" => ~ up'
  BY <1>1 DEF ServedInv
<1>3. closing # "open" => closing' # "open"
  BY DEF Next, HelperAnswers, HelperRefuses, HelperNotifies, HelperDies, Revoke, LogIn, Drain, DrainEnds,
     Handler, HandlerStep, Arrive, HangUp, ReadBody, ReadBodyFails, CallEnds, AuthReturns, Unauthorized,
     Accepted, ForwardFails, CopyEnds,
     Configure, Listen, ServeFails, Signal, Shutdown, ShutdownTimesOut, Close, CloseCancels, CloseWaits,
     CloseKills, MainGoes, CloseGoes, mainVars, vars
<1>4. drainer' = drainer \/ DrainEnds
  BY DEF Next, HelperAnswers, HelperRefuses, HelperNotifies, HelperDies, Revoke, LogIn, Drain,
     Handler, HandlerStep, Arrive, HangUp, ReadBody, ReadBodyFails, CallEnds, AuthReturns, Unauthorized,
     Accepted, ForwardFails, CopyEnds,
     Configure, Listen, ServeFails, Signal, Shutdown, ShutdownTimesOut, Close, CloseCancels, CloseWaits,
     CloseKills, MainGoes, CloseGoes, drainVars, vars
<1>5. DrainEnds => ~ up' \/ closing' # "open"
  BY DEF DrainEnds, clientVars, mainVars
<1>6. drainer' = "ended" => ~ up' \/ closing' # "open"
  BY <1>1, <1>3, <1>4, <1>5 DEF ServedInv
<1>7. QED
  BY <1>2, <1>6, WaitersHaveAsked DEF ServedInv

(* While a handler is in CurrentAuth, an answer is there, or the client      *)
(* reports its end, or the helper is up with somebody draining what it sends *)
(* beside the answer; Close comes after the handlers, whatever signal,       *)
(* failure or death of the helper comes first (auth_proxy.go:105-132,        *)
(* 158-166, main.go:127-164).                                                *)
THEOREM WaitingHandlersAreServed == Spec => []AwaitedCallsAreServed
<1>1. Init => ServedInv
  BY CallNames DEF Init, Client!Init, ServedInv, AskedInv
<1>2. ProxyInv /\ ServedInv => AwaitedCallsAreServed
  <2> SUFFICES ASSUME ProxyInv, ServedInv, NEW r \in Requests, Running, pc[r] \in Asking
               PROVE  \/ call[<<r, Round(r)>>] \in Client!Ends
                      \/ ~ up
                      \/ call[<<r, Round(r)>>] = "asked" /\ drainer = "running" /\ closing = "open"
    BY DEF AwaitedCallsAreServed
  <2>1. /\ <<r, Round(r)>> \in Calls
        /\ call[<<r, Round(r)>>] # "idle"
    BY CallNames DEF Asking, Round, ServedInv, AskedInv, First, Again
  <2>2. call[<<r, Round(r)>>] \in CallStates
    BY <2>1, HandlerPlaces DEF ProxyInv
  <2>3. closing = "open"
    BY MainTypes DEF ProxyInv, MainInv, Running, Serving, Asking
  <2>4. drainer \in {"running", "ended"}
    BY DEF ProxyInv, HandlerInv, ProxyTypeOK
  <2>5. QED
    BY <2>1, <2>2, <2>3, <2>4 DEF ServedInv, CallStates, Pending
<1>3. QED
  BY <1>1, <1>2, StepServed, ProxyInvariant, PTL DEF Spec
=============================================================================
