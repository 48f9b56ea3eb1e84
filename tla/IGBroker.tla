------------------------------ MODULE IGBroker ------------------------------
(***************************************************************************)
(* The IG broker of blive/adapters/ig/broker.py over the shared session of *)
(* IGClient: connect, which also selects the account; disconnect; submit   *)
(* with its poll for the confirmation; and the read calls, which are one   *)
(* request each.  Calls of different coroutines interleave at every await. *)
(***************************************************************************)
EXTENDS IGClient, Sequences, Functions

CONSTANTS
  Orders,      \* client order ids; the engine submits each once
  MaxPolls,    \* confirm_poll_max_attempts
  MaxCalls     \* bound: connects, disconnects and reads the engine makes

ASSUME IGBrokerAssumption == MaxPolls \in Nat \ {0} /\ MaxCalls \in Nat

VARIABLES
  connected,   \* _connected
  resolved,    \* the resolver has the epic of the instrument traded
  op,          \* the broker call each coroutine is in
  emitted,     \* order events put, per order
  outcome,     \* what became of the submit of an order
  deal,        \* venue: each order's deal
  placed,      \* venue: deals opened for an order
  dealAccount, \* venue: the account they were opened on
  calls,       \* history: calls made besides submits
  reauthFailed \* history: the last login of a call that lost its session failed

brokerVars ==
  <<connected, resolved, op, emitted, outcome, deal, placed, dealAccount, calls,
    reauthFailed>>
vars == <<clientVars, brokerVars>>
venueVars == <<deal, placed, dealAccount>>

(* polls: confirms asked for so far; saw: dealStatus in the last payload.  *)
NoOp == [kind |-> "none"]
Plain(kind) == [kind |-> kind]
Submission(o) == [kind |-> "submit", order |-> o, polls |-> 0, saw |-> "none"]

Status == {"none", "open", "ACCEPTED", "REJECTED"}
Ops ==
  {NoOp} \cup {Plain(kind) : kind \in {"connect", "disconnect", "read"}}
  \cup [kind: {"submit"}, order: Orders, polls: 0..(MaxPolls - 1), saw: Status]

Idle(c) == op[c] = NoOp
-----------------------------------------------------------------------------
(* A call goes on with its next request, unless the client has no tokens,  *)
(* or it ends.                                                             *)
Finish(c) ==
  /\ req' = [req EXCEPT ![c] = NoRequest]
  /\ op' = [op EXCEPT ![c] = NoOp]

Result(c, r) ==
  outcome' = IF op[c].kind = "submit" THEN [outcome EXCEPT ![op[c].order] = r] ELSE outcome

Raise(c) == Finish(c) /\ Result(c, "raised")
Return(c) == Finish(c) /\ Result(c, "returned")

Continue(c, what, next) ==
  IF tokens' = 0 THEN Raise(c)
  ELSE /\ req' = [req EXCEPT ![c] = Ask(what)]
       /\ op' = [op EXCEPT ![c] = next]
       /\ UNCHANGED outcome

(* The first step of a call, of an idle coroutine.                         *)
Starts(c) ==
  /\ Idle(c) /\ calls < MaxCalls /\ calls' = calls + 1
  /\ UNCHANGED <<venueSession, resolved, emitted, reauthFailed, venueVars>>
-----------------------------------------------------------------------------
(* connect: the login is skipped when the client still has tokens.         *)
Connect(c) ==
  /\ Starts(c) /\ ~connected
  /\ req' = [req EXCEPT ![c] = Ask(IF tokens = 0 THEN "login" ELSE "switch")]
  /\ op' = [op EXCEPT ![c] = Plain("connect")]
  /\ UNCHANGED <<tokens, closed, connected, outcome>>

Disconnect(c) ==
  /\ Starts(c) /\ connected
  /\ IF tokens = 0
     THEN /\ closed' = TRUE /\ connected' = FALSE
          /\ UNCHANGED <<req, op>>
     ELSE /\ req' = [req EXCEPT ![c] = Ask("logout")]
          /\ op' = [op EXCEPT ![c] = Plain("disconnect")]
          /\ UNCHANGED <<closed, connected>>
  /\ UNCHANGED <<tokens, outcome>>

(* positions, account_snapshot, open_orders: without tokens they raise.    *)
Read(c) ==
  /\ Starts(c) /\ connected /\ tokens # 0
  /\ req' = [req EXCEPT ![c] = Ask("read")]
  /\ op' = [op EXCEPT ![c] = Plain("read")]
  /\ UNCHANGED <<tokens, closed, connected, outcome>>

(* submit up to its first request: the metadata of the market, or the deal *)
(* when the resolver knows the epic.                                       *)
Submit(c, o) ==
  /\ Idle(c) /\ connected /\ outcome[o] = "none"
  /\ IF tokens = 0
     THEN outcome' = [outcome EXCEPT ![o] = "raised"] /\ UNCHANGED <<req, op>>
     ELSE /\ outcome' = [outcome EXCEPT ![o] = "pending"]
          /\ req' = [req EXCEPT ![c] = Ask(IF resolved THEN "deal" ELSE "market")]
          /\ op' = [op EXCEPT ![c] = Submission(o)]
  /\ UNCHANGED <<tokens, closed, venueSession, connected, resolved, emitted, calls,
                 reauthFailed, venueVars>>
-----------------------------------------------------------------------------
(* The venue answers; the body of a confirm is the status at this moment.  *)
(* A deal may be opened although the answer is lost.                       *)
Opens(o, c) ==
  /\ deal' = [deal EXCEPT ![o] = "open"]
  /\ placed' = [placed EXCEPT ![o] = @ + 1]
  /\ dealAccount' = [dealAccount EXCEPT ![o] = account[session[req[c].token]]]

Respond(c, a) ==
  /\ Serve(c, a)
  /\ LET r == req[c] IN
     /\ IF r.what = "deal" /\ r.leg = "send" /\ a \in {"ok", "error"} /\ r.token \in valid
        THEN Opens(op[c].order, c) \/ (a = "error" /\ UNCHANGED venueVars)
        ELSE UNCHANGED venueVars
     /\ op' = IF r.what = "confirm" /\ r.leg = "send" /\ a = "ok"
              THEN [op EXCEPT ![c].saw = deal[op[c].order]] ELSE op
  /\ UNCHANGED <<connected, resolved, emitted, outcome, calls, reauthFailed>>

VenueResolves(o, status) ==
  /\ deal[o] = "open" /\ deal' = [deal EXCEPT ![o] = status]
  /\ UNCHANGED <<clientVars, connected, resolved, op, emitted, outcome, placed, dealAccount,
                 calls, reauthFailed>>
-----------------------------------------------------------------------------
(* What follows the end of a request.                                      *)
ConnectedAtLogin(c, out) ==    \* mutant: connected before the account is selected
  /\ req[c].what \in {"login", "switch"}
  /\ IF out # "ok" THEN Raise(c) /\ UNCHANGED connected
     ELSE IF req[c].what = "login"
     THEN Continue(c, "switch", op[c]) /\ connected' = TRUE
     ELSE Return(c) /\ connected' = TRUE
  /\ UNCHANGED <<resolved, emitted>>

ConnectEnds(c, out) ==
  /\ req[c].what \in {"login", "switch"}
  /\ IF out # "ok" THEN Raise(c) /\ UNCHANGED connected
     ELSE IF req[c].what = "login"
     THEN Continue(c, "switch", op[c]) /\ UNCHANGED connected
     ELSE Return(c) /\ connected' = TRUE
  /\ UNCHANGED <<resolved, emitted>>

ReadEnds(c, out) ==
  /\ req[c].what = "read" /\ Finish(c)
  /\ UNCHANGED <<connected, resolved, emitted, outcome>>

(* The resolver guesses the epic; an unknown one sends it to the search,   *)
(* and a single candidate back to the market.  Everything else raises: no  *)
(* candidate or several, metadata that cannot be read, an error.           *)
ResolveEnds(c, out) ==
  /\ req[c].what \in {"market", "search", "found"}
  /\ \/ /\ req[c].what # "search" /\ out = "ok"
        /\ resolved' = TRUE
        /\ Continue(c, "deal", op[c])
     \/ /\ req[c].what = "market" /\ out = "invalid" /\ Continue(c, "search", op[c])
        /\ UNCHANGED resolved
     \/ /\ req[c].what = "search" /\ out = "ok" /\ Continue(c, "found", op[c])
        /\ UNCHANGED resolved
     \/ Raise(c) /\ UNCHANGED resolved
  /\ UNCHANGED <<connected, emitted>>

Put(o, kinds) == emitted' = [emitted EXCEPT ![o] = @ \o kinds]

(* POST /positions/otc answered: SUBMITTED, then the first poll.  A body   *)
(* without a deal reference raises.                                        *)
DealEnds(c, out) ==
  /\ req[c].what = "deal"
  /\ \/ out = "ok" /\ Put(op[c].order, <<"SUBMITTED">>) /\ Continue(c, "confirm", op[c])
     \/ Raise(c) /\ UNCHANGED emitted
  /\ UNCHANGED <<connected, resolved>>

(* A final status ends the poll.  An accepted deal whose size or level     *)
(* cannot be read is not reported filled.                                  *)
FinalAny(status) == status # "none"    \* mutant: any status ends the poll
Final(status) == status \in {"ACCEPTED", "REJECTED"}
FilledFirst(status) ==    \* mutant: FILLED before ACCEPTED
  IF status = "REJECTED" THEN {<<"REJECTED">>} ELSE {<<"FILLED", "ACCEPTED">>, <<"ACCEPTED">>}
EventsOf(status) ==
  IF status = "REJECTED" THEN {<<"REJECTED">>} ELSE {<<"ACCEPTED", "FILLED">>, <<"ACCEPTED">>}

(* The attempt found nothing final: sleep before the next, if there is one. *)
LastPoll(c) == op[c].polls + 1 = MaxPolls

PollUncounted(c) ==    \* mutant: attempts are not counted
  /\ req' = [req EXCEPT ![c] = NoRequest]
  /\ UNCHANGED <<op, outcome>>

PollAgain(c) ==
  /\ req' = [req EXCEPT ![c] = NoRequest]
  /\ op' = [op EXCEPT ![c].polls = @ + 1]
  /\ UNCHANGED outcome

ConfirmEnds(c, out) ==
  /\ req[c].what = "confirm"
  /\ \/ /\ out = "ok" /\ Final(op[c].saw)
        /\ \E kinds \in EventsOf(op[c].saw) : Put(op[c].order, kinds)
        /\ Return(c)
     \/ /\ out = "invalid" \/ (out = "ok" /\ ~Final(op[c].saw))
        /\ IF LastPoll(c) THEN Raise(c) ELSE PollAgain(c)
        /\ UNCHANGED emitted
     \/ /\ out \in {"error", "auth"} /\ Raise(c) /\ UNCHANGED emitted
  /\ UNCHANGED <<connected, resolved>>

Asleep(c) == op[c].kind = "submit" /\ ~Busy(c)

PollWakes(c) ==
  /\ Asleep(c)
  /\ UNCHANGED <<tokens, closed, venueSession, connected, resolved, emitted, calls,
                 reauthFailed, venueVars>>
  /\ Continue(c, "confirm", op[c])

LoginFails(c) == \E a \in {"invalid", "error"} : Answered(c, "login", a)

RequestEnds(c) ==
  /\ \E out \in {"ok", "invalid", "error", "auth"} :
       /\ Ends(c, out)
       /\ \/ ConnectEnds(c, out) \/ ReadEnds(c, out) \/ ResolveEnds(c, out)
          \/ DealEnds(c, out) \/ ConfirmEnds(c, out)
  /\ reauthFailed' = (tokens' = 0 /\ (reauthFailed \/ LoginFails(c)))
  /\ UNCHANGED <<calls, venueVars>>

DisconnectEnds(c) ==
  /\ LogoutEnds(c)
  /\ Finish(c) /\ connected' = FALSE
  /\ UNCHANGED <<resolved, emitted, outcome, calls, reauthFailed, venueVars>>

(* The client's steps inside a request.                                    *)
Inside(c) ==
  /\ Send(c) \/ Recover(c)
  /\ reauthFailed' = (reauthFailed /\ tokens' = 0)
  /\ UNCHANGED <<connected, resolved, op, emitted, outcome, calls, venueVars>>
-----------------------------------------------------------------------------
Init ==
  /\ ClientInit
  /\ connected = FALSE /\ resolved = FALSE
  /\ op = [c \in Callers |-> NoOp]
  /\ emitted = [o \in Orders |-> <<>>]
  /\ outcome = [o \in Orders |-> "none"]
  /\ deal = [o \in Orders |-> "none"]
  /\ placed = [o \in Orders |-> 0]
  /\ dealAccount = [o \in Orders |-> "none"]
  /\ calls = 0 /\ reauthFailed = FALSE

(* The steps of a call that is under way.                                  *)
Step(c) ==
  \/ Inside(c) \/ RequestEnds(c) \/ DisconnectEnds(c) \/ PollWakes(c)
  \/ \E a \in Answer : Respond(c, a)

Next ==
  \/ \E c \in Callers :
       \/ Connect(c) \/ Disconnect(c) \/ Read(c)
       \/ \E o \in Orders : Submit(c, o)
       \/ Step(c)
  \/ \E t \in Tokens : Expire(t) /\ UNCHANGED brokerVars
  \/ \E o \in Orders, status \in {"ACCEPTED", "REJECTED"} : VenueResolves(o, status)

(* The limiter grants, sleeps end, and httpx answers or times out.         *)
Fairness == \A c \in Callers : WF_vars(Step(c))

Spec == Init /\ [][Next]_vars
FairSpec == Spec /\ Fairness
-----------------------------------------------------------------------------
(* Properties.                                                             *)

(* Type invariant of the session, the broker and the venue.                *)
TypeOK ==
  /\ ClientTypeOK
  /\ connected \in BOOLEAN /\ resolved \in BOOLEAN
  /\ op \in [Callers -> Ops]
  /\ emitted \in [Orders -> Seq({"SUBMITTED", "ACCEPTED", "FILLED", "REJECTED"})]
  /\ outcome \in [Orders -> {"none", "pending", "returned", "raised"}]
  /\ deal \in [Orders -> Status] /\ placed \in [Orders -> Nat]
  /\ dealAccount \in [Orders -> {"none", "default", "own"}]
  /\ calls \in 0..MaxCalls /\ reauthFailed \in BOOLEAN

(* However often its session expires, is refreshed or lost, one submit     *)
(* opens at most one deal: only what the venue refused is sent again.      *)
PlacedOnce == \A o \in Orders : placed[o] <= 1

(* The stream of an order says what the venue decided and nothing else;    *)
(* and a submit that returned has said it.                                 *)
StreamTruthful ==
  \A o \in Orders :
    /\ "SUBMITTED" \in Range(emitted[o]) => placed[o] = 1
    /\ "ACCEPTED" \in Range(emitted[o]) => deal[o] = "ACCEPTED"
    /\ "REJECTED" \in Range(emitted[o]) => deal[o] = "REJECTED"
    /\ outcome[o] = "returned" => deal[o] \in Range(emitted[o])

FSM == INSTANCE OrderFSM WITH state <- [o \in Orders |-> "SUBMIT_PENDING"]

(* The events of an order walk the table of the order FSM.                 *)
WalksFSM ==
  \A o \in Orders : \A i \in DOMAIN emitted[o] :
    (IF i = 1 THEN "SUBMIT_PENDING" ELSE emitted[o][i - 1]) \in FSM!LegalBefore(emitted[o][i])

(* A connected broker has no tokens only while some call is logging in;    *)
(* or after such a login failed, and then it stays without until           *)
(* disconnect; or when a disconnect overtook a connect.                    *)
SessionLossHasCause ==
  connected /\ tokens = 0 =>
    \/ reauthFailed \/ closed
    \/ \E c \in Callers : Busy(c) /\ req[c].leg = "login"

(* Orders go to the account the broker selected at connect, unless a       *)
(* second session was opened since (and nothing selects its account).      *)
StrayNeedsRelogin == \A o \in Orders : dealAccount[o] = "default" => Logins > 1

(* A broker that is connected has a session, and its orders the account it *)
(* chose, unless one of the causes above took them away.                   *)
SessionInv == TypeOK /\ SessionLossHasCause /\ StrayNeedsRelogin

(* Every call ends: no expiry, refusal or silence keeps it polling,        *)
(* refreshing or logging in for ever.                                      *)
CallsEnd == \A c \in Callers : op[c].kind # "none" ~> Idle(c)
-----------------------------------------------------------------------------
(* What the docstring of _request says (client.py:293-294): persistent     *)
(* auth failure bubbles as IGAuthError.  A call that finds the tokens      *)
(* dropped by another call, which is still logging in, raises it as well.  *)
AuthErrorIsPersistent ==
  [][\A c, d \in Callers :
       /\ {op[c].kind, op[d].kind} \subseteq {"submit", "read"}
       /\ At(c, "limiter") /\ ~HasHeaders(c) /\ ~Busy(c)'
       => ~(Busy(d) /\ req[d].leg = "login")]_vars
=============================================================================
