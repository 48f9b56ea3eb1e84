------------------------------ MODULE IGClient ------------------------------
(***************************************************************************)
(* The REST client of blive/adapters/ig/client.py and the session at IG    *)
(* that it holds.  All calls share one pair of tokens (CST and             *)
(* X-SECURITY-TOKEN, here one number, 0 for none).  A call is a loop of    *)
(* exchanges: it sends; on "session expired" it refreshes the tokens and   *)
(* sends again; on a second expiry, or when the refresh is refused, it     *)
(* drops the tokens, logs in and sends a last time.                        *)
(*                                                                         *)
(* Every exchange is suspended twice, in the rate limiter and on the wire, *)
(* and other calls run meanwhile, over the same tokens.  What the calls    *)
(* are for, and what follows them, is the business of the module that      *)
(* extends this one.                                                       *)
(***************************************************************************)
EXTENDS Integers, FiniteSets

CONSTANTS
  Callers,     \* coroutines that may be inside a call together
  MaxTokens    \* bound: tokens the venue issues

ASSUME IGClientAssumption == MaxTokens \in Nat

VARIABLES
  tokens,      \* _cst and _security_token
  closed,      \* aclose() was called on the HTTP client
  req,         \* the request of each caller
  issued,      \* venue: number of tokens issued
  valid,       \* venue: tokens it honours
  session,     \* venue: the session of each token, named by its first token
  account      \* venue: the active account of each session

clientVars == <<tokens, closed, req, issued, valid, session, account>>
venueSession == <<issued, valid, session, account>>

Tokens == 1..MaxTokens
What   == {"login", "switch", "logout", "market", "search", "found", "deal", "confirm", "read"}
Leg    == {"send", "refresh", "login", "logout"}
Answer == {"ok", "expired", "invalid", "error"}

(* tried: refresh_attempted and reauth_attempted.                          *)
Request ==
  [what: What, leg: Leg, at: {"limiter", "wire", "answered"},
   token: 0..MaxTokens, tried: SUBSET {"refresh", "login"}, answer: Answer \cup {"none"}]

NoRequest == [what |-> "none"]

Ask(what) ==
  [what |-> what, leg |-> IF what \in {"login", "logout"} THEN what ELSE "send", at |-> "limiter",
   token |-> 0, tried |-> {}, answer |-> "none"]

Busy(c) == req[c] # NoRequest
At(c, place) == Busy(c) /\ req[c].at = place
Answered(c, leg, answer) == At(c, "answered") /\ req[c].leg = leg /\ req[c].answer = answer

(* The next exchange of a call.                                            *)
Again(c, leg) ==
  req' = [req EXCEPT ![c].leg = leg, ![c].at = "limiter", ![c].answer = "none",
                     ![c].tried = @ \cup ({leg} \ {"send"})]
-----------------------------------------------------------------------------
(* The limiter lets an exchange go: its headers are read only now.         *)
HasHeaders(c) == tokens # 0 \/ req[c].leg = "login"

Send(c) ==
  /\ At(c, "limiter") /\ HasHeaders(c) /\ ~closed
  /\ req' = [req EXCEPT ![c].at = "wire", ![c].token = tokens]
  /\ UNCHANGED <<tokens, closed, venueSession>>

Unsendable(c) == At(c, "limiter") /\ (closed \/ ~HasHeaders(c))

(* What the venue may answer: it acts on no request whose token it does    *)
(* not honour, but may grant a refresh for one.  "invalid" is a request it *)
(* calls malformed or unknown, told apart from "error", which is every     *)
(* other exception (5xx, allowance, refusal, bad credentials, network,     *)
(* timeout), in the calls that catch it.                                   *)
Invalid(r) == IF r.what \in {"market", "confirm"} THEN {"invalid"} ELSE {}
NewTokens == IF issued < MaxTokens THEN {"ok"} ELSE {}

Answers(r) ==
  {"error"} \cup
  CASE r.leg = "login"   -> NewTokens \cup Invalid(r)
    [] r.leg = "refresh" -> NewTokens \cup Invalid(r) \cup {"expired"}
    [] OTHER -> IF r.token \in valid THEN {"ok"} \cup Invalid(r) ELSE {"expired"}

Serve(c, a) ==
  /\ At(c, "wire") /\ a \in Answers(req[c])
  /\ LET r == req[c]
         new == issued + 1
         opens == a = "ok" /\ r.leg \in {"refresh", "login"}
     IN
     /\ req' = [req EXCEPT ![c].at = "answered", ![c].answer = a,
                           ![c].token = IF opens THEN new ELSE @]
     /\ issued' = IF opens THEN new ELSE issued
     /\ valid' = IF opens THEN valid \cup {new}
                 ELSE IF a = "ok" /\ r.leg = "logout" THEN valid \ {r.token} ELSE valid
     /\ session' =
          IF opens
          THEN [session EXCEPT ![new] = IF r.leg = "login" THEN new ELSE session[r.token]]
          ELSE session
     /\ account' =
          IF a = "ok" /\ r.leg = "send" /\ r.what = "switch"
          THEN [account EXCEPT ![session[r.token]] = "own"] ELSE account
  /\ UNCHANGED <<tokens, closed>>

(* The venue stops honouring a token.                                      *)
Expire(t) ==
  /\ t \in valid /\ valid' = valid \ {t}
  /\ UNCHANGED <<tokens, closed, req, issued, session, account>>
-----------------------------------------------------------------------------
(* IGSessionExpired, from the request itself and from the refresh.         *)
ExpiredOrFailed(c) ==    \* mutant: an error is retried like an expiry
  Answered(c, "send", "expired") \/ Answered(c, "send", "error")

Expired(c) == Answered(c, "send", "expired")
RefreshRefused(c) == Answered(c, "refresh", "expired")

RefreshDropping(c) ==    \* mutant: the tokens are dropped before the refresh
  /\ Expired(c) /\ "refresh" \notin req[c].tried
  /\ tokens' = 0
  /\ Again(c, "refresh")
  /\ UNCHANGED <<closed, venueSession>>

Refresh(c) ==
  /\ Expired(c) /\ "refresh" \notin req[c].tried
  /\ Again(c, "refresh")
  /\ UNCHANGED <<tokens, closed, venueSession>>

(* Tokens are dropped for every caller, then this one logs in.             *)
Reauthenticate(c) ==
  /\ \/ RefreshRefused(c)
     \/ Expired(c) /\ "refresh" \in req[c].tried
  /\ "login" \notin req[c].tried
  /\ tokens' = 0
  /\ Again(c, "login")
  /\ UNCHANGED <<closed, venueSession>>

(* New tokens arrived, from either exchange: send the request again.       *)
Retry(c) ==
  /\ \/ Answered(c, "refresh", "ok")
     \/ Answered(c, "login", "ok") /\ req[c].what # "login"
  /\ tokens' = req[c].token
  /\ Again(c, "send")
  /\ UNCHANGED <<closed, venueSession>>

(* The steps that stay inside a call.                                      *)
Recover(c) == Refresh(c) \/ Reauthenticate(c) \/ Retry(c)

(* A call ends: with its answer, or with the exception it raises; "auth"   *)
(* is the IGAuthError that the client raises of its own.  What the caller  *)
(* does with req[c] next happens in the same step.                         *)
Ends(c, outcome) ==
  /\ Busy(c) /\ req[c].leg # "logout"
  /\ \/ /\ Unsendable(c)
        /\ outcome = IF HasHeaders(c) THEN "error" ELSE "auth"
        /\ tokens' = tokens
     \/ /\ At(c, "answered") /\ req[c].leg = "send" /\ ~Expired(c)
        /\ outcome = req[c].answer
        /\ tokens' = tokens
     \/ /\ Expired(c) /\ "login" \in req[c].tried
        /\ outcome = "auth"
        /\ tokens' = tokens
     \/ /\ outcome \in {"invalid", "error"}
        /\ \E leg \in {"refresh", "login"} : Answered(c, leg, outcome)
        /\ tokens' = tokens
     \/ /\ Answered(c, "login", "ok") /\ req[c].what = "login"
        /\ outcome = "ok"
        /\ tokens' = req[c].token
  /\ UNCHANGED <<closed, venueSession>>

(* disconnect: whatever became of the DELETE, the client is closed.        *)
LogoutEnds(c) ==
  /\ Busy(c) /\ req[c].leg = "logout" /\ (Unsendable(c) \/ At(c, "answered"))
  /\ tokens' = 0 /\ closed' = TRUE
  /\ UNCHANGED <<venueSession>>

(* Sessions opened so far. *)
Logins == Cardinality({t \in 1..issued : session[t] = t})

ClientInit ==
  /\ tokens = 0 /\ closed = FALSE
  /\ req = [c \in Callers |-> NoRequest]
  /\ issued = 0 /\ valid = {}
  /\ session = [t \in Tokens |-> t]
  /\ account = [t \in Tokens |-> "default"]

ClientTypeOK ==
  /\ tokens \in 0..MaxTokens /\ closed \in BOOLEAN
  /\ req \in [Callers -> Request \cup {NoRequest}]
  /\ issued \in 0..MaxTokens /\ valid \subseteq Tokens
  /\ session \in [Tokens -> Tokens]
  /\ account \in [Tokens -> {"default", "own"}]
=============================================================================
