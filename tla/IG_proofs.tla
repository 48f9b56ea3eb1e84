------------------------------ MODULE IG_proofs ------------------------------
(***************************************************************************)
(* Proofs about the IG broker over its session, for any callers, orders,   *)
(* tokens and polls: one submit opens at most one deal; the stream of an   *)
(* order tells what became of its deal and walks the order FSM; and why    *)
(* the shared session may be missing or a stray one.  Each of these three  *)
(* parts adds to the invariant of the part before.  The last part is about *)
(* the subscriptions, for any coroutines, instruments and slots: every     *)
(* slot and every stream is accounted for.                                 *)
(***************************************************************************)
EXTENDS IGBroker, IGMarketData, FiniteSetTheorems, SequenceTheorems, TLAPS

(* The types the argument needs.                                           *)
CallTypes ==
  /\ tokens \in 0..MaxTokens /\ issued \in 0..MaxTokens
  /\ req \in [Callers -> Request \cup {NoRequest}]
  /\ op \in [Callers -> Ops]
  /\ outcome \in [Orders -> {"none", "pending", "returned", "raised"}]
  /\ deal \in [Orders -> Status] /\ placed \in [Orders -> Nat]

(* The requests only a submit makes.                                       *)
Ordering == {"market", "search", "found", "deal", "confirm"}

Submitting(c) == op[c].kind = "submit"

(* The venue has not had the deal of this call yet: it is still resolving, *)
(* or the POST has not been answered but by an expiry.                     *)
BeforeDeal(r) ==
  \/ r.what \in {"market", "search", "found"}
  \/ /\ r.what = "deal"
     /\ ~(r.leg = "send" /\ r.at = "answered" /\ r.answer \in {"ok", "error"})

(* What makes PlacedOnce inductive.                                        *)
OneDeal ==
  /\ \A c \in Callers : req[c].what \in Ordering => Submitting(c)
  /\ \A c \in Callers : Submitting(c) /\ BeforeDeal(req[c]) => placed[op[c].order] = 0
  /\ \A c, d \in Callers :
       c # d /\ Submitting(c) /\ Submitting(d) => op[c].order # op[d].order
  /\ \A c \in Callers : Submitting(c) => outcome[op[c].order] # "none"
  /\ \A o \in Orders : outcome[o] = "none" => placed[o] = 0
  /\ PlacedOnce

DealInv == CallTypes /\ OneDeal

(* Calls and requests, told apart by what they are.                        *)
LEMMA OpFacts ==
  ASSUME NEW p \in Ops
  PROVE  /\ p.kind \in {"none", "connect", "disconnect", "read", "submit"}
         /\ p.kind = "none" <=> p = NoOp
         /\ p.kind = "submit" =>
              /\ p \in [kind: {"submit"}, order: Orders, polls: 0..(MaxPolls - 1), saw: Status]
              /\ p.order \in Orders
  BY DEF Ops, NoOp, Plain

LEMMA RequestFacts ==
  /\ NoRequest.what = "none" /\ ~BeforeDeal(NoRequest)
  /\ \A r \in Request : r.what \in What /\ r # NoRequest /\ r.token \in 0..MaxTokens
<1>1. NoRequest.what = "none" /\ "none" \notin What
  BY DEF NoRequest, What
<1>2. \A r \in Request : r.what \in What /\ r.token \in 0..MaxTokens
  BY DEF Request
<1>3. QED
  BY <1>1, <1>2 DEF BeforeDeal

(* The first exchange of a request.                                        *)
LEMMA AskFacts ==
  ASSUME NEW what \in What
  PROVE  /\ Ask(what) \in Request /\ Ask(what).what = what
         /\ Ask(what).at = "limiter" /\ Ask(what).token = 0 /\ Ask(what).answer = "none"
         /\ what = "login" => Ask(what).leg = "login"
<1>1. 0 \in 0..MaxTokens /\ {} \in SUBSET {"refresh", "login"} /\ what \in What
  BY IGClientAssumption
<1> DEFINE leg == IF what \in {"login", "logout"} THEN what ELSE "send"
<1>2. leg \in Leg
  BY DEF Leg
<1>3. Ask(what) = [what |-> what, leg |-> leg, at |-> "limiter", token |-> 0,
                   tried |-> {}, answer |-> "none"]
  BY DEF Ask
<1>4. what = "login" => leg = "login"
  OBVIOUS
<1> HIDE DEF leg
<1>5. QED
  BY <1>1, <1>2, <1>3, <1>4 DEF Request

(* A step of one call that opens no deal.                                  *)
LEMMA CallStep ==
  ASSUME DealInv, NEW c \in Callers, CallTypes',
         \A d \in Callers \ {c} : req'[d] = req[d] /\ op'[d] = op[d],
         placed' = placed,
         \A o \in Orders : outcome'[o] = "none" => outcome[o] = "none",
         Submitting(c)' => Submitting(c) /\ op'[c].order = op[c].order,
         req'[c].what \in Ordering => Submitting(c)',
         Submitting(c)' /\ BeforeDeal(req'[c]) => BeforeDeal(req[c])
  PROVE  DealInv'
<1>1. \A d \in Callers \ {c} : Submitting(d)' = Submitting(d)
  BY DEF Submitting
<1>2. \A d \in Callers : Submitting(d) => op[d].order \in Orders
  BY OpFacts DEF DealInv, CallTypes, Submitting
<1>3. \A d \in Callers : req'[d].what \in Ordering => Submitting(d)'
  BY <1>1 DEF DealInv, OneDeal
<1>4. \A d \in Callers : Submitting(d)' => Submitting(d) /\ op'[d].order = op[d].order
  BY <1>1
<1>5. \A d \in Callers : Submitting(d)' /\ BeforeDeal(req'[d]) => placed[op'[d].order] = 0
  BY <1>1, <1>4 DEF DealInv, OneDeal
<1>6. \A d, e \in Callers :
        d # e /\ Submitting(d)' /\ Submitting(e)' => op'[d].order # op'[e].order
  BY <1>4 DEF DealInv, OneDeal
<1>7. \A d \in Callers : Submitting(d)' => outcome'[op'[d].order] # "none"
  BY <1>2, <1>4 DEF DealInv, OneDeal
<1>8. OneDeal'
  <2>1. PlacedOnce' /\ \A o \in Orders : outcome'[o] = "none" => placed'[o] = 0
    BY DEF DealInv, OneDeal, PlacedOnce
  <2>2. \A r : BeforeDeal(r)' = BeforeDeal(r)
    BY DEF BeforeDeal
  <2>3. QED
    BY <1>3, <1>5, <1>6, <1>7, <2>1 DEF OneDeal, BeforeDeal
<1>9. QED
  BY <1>8 DEF DealInv

(* A request goes on to its next exchange.                                 *)
LEMMA AgainFacts ==
  ASSUME CallTypes, NEW c \in Callers, Busy(c), NEW leg \in Leg \ {"logout"}, Again(c, leg)
  PROVE  /\ req' \in [Callers -> Request \cup {NoRequest}]
         /\ \A d \in Callers \ {c} : req'[d] = req[d]
         /\ req[c] \in Request /\ req'[c] \in Request
         /\ req'[c].what = req[c].what /\ req'[c].at = "limiter"
         /\ req'[c].leg = leg /\ req'[c].answer = "none" /\ req'[c].token = req[c].token
<1> DEFINE r == [req[c] EXCEPT !.leg = leg, !.at = "limiter", !.answer = "none",
                    !.tried = @ \cup ({leg} \ {"send"})]
<1>1. req[c] \in Request
  BY DEF CallTypes, Busy
<1>2. req[c].tried \cup ({leg} \ {"send"}) \in SUBSET {"refresh", "login"}
  BY <1>1 DEF Request, Leg
<1>3. /\ r \in Request /\ r.what = req[c].what /\ r.at = "limiter"
      /\ r.leg = leg /\ r.answer = "none" /\ r.token = req[c].token
  BY <1>1, <1>2 DEF Request, Leg
<1>4. req' = [req EXCEPT ![c] = r]
  BY <1>1 DEF Again, CallTypes
<1> HIDE DEF r
<1>5. QED
  BY <1>1, <1>3, <1>4 DEF CallTypes

(* A call ends or goes on to its next request: it stays the submit it was. *)
LEMMA ContinueFacts ==
  ASSUME CallTypes, NEW c \in Callers, NEW what \in What, NEW p \in Ops,
         Continue(c, what, p) \/ Raise(c) \/ Return(c) \/ (Finish(c) /\ outcome' = outcome)
  PROVE  /\ req' \in [Callers -> Request \cup {NoRequest}] /\ op' \in [Callers -> Ops]
         /\ outcome' \in [Orders -> {"none", "pending", "returned", "raised"}]
         /\ \A d \in Callers \ {c} : req'[d] = req[d] /\ op'[d] = op[d]
         /\ \A o \in Orders : outcome'[o] = "none" => outcome[o] = "none"
         /\ \/ req'[c] = NoRequest /\ op'[c] = NoOp
            \/ req'[c] = Ask(what) /\ op'[c] = p
<1>1. CASE Finish(c)
  <2>1. NoOp \in Ops
    BY DEF Ops
  <2>2. req' = [req EXCEPT ![c] = NoRequest] /\ op' = [op EXCEPT ![c] = NoOp]
    BY <1>1 DEF Finish
  <2>3. outcome' = outcome \/ \E x \in {"returned", "raised"} : Result(c, x)
    BY <1>1 DEF Continue, Raise, Return
  <2>4. \/ outcome' = outcome
        \/ \E x \in {"returned", "raised"} : outcome' = [outcome EXCEPT ![op[c].order] = x]
    BY <2>3 DEF Result
  <2>5. /\ outcome' \in [Orders -> {"none", "pending", "returned", "raised"}]
        /\ \A o \in Orders : outcome'[o] = "none" => outcome[o] = "none"
    BY <2>4 DEF CallTypes
  <2>6. QED
    BY <2>1, <2>2, <2>5 DEF CallTypes
<1>2. CASE Continue(c, what, p) /\ ~Finish(c)
  <2>1. /\ req' = [req EXCEPT ![c] = Ask(what)] /\ op' = [op EXCEPT ![c] = p]
        /\ outcome' = outcome
    BY <1>2 DEF Continue, Raise
  <2>2. QED
    BY <2>1, AskFacts DEF CallTypes
<1>3. QED
  BY <1>1, <1>2 DEF Raise, Return

(* What BeforeDeal says of a call that ends or asks something harmless.    *)
LEMMA NotBeforeDeal ==
  ASSUME NEW what \in What \ {"market", "search", "found", "deal"}
  PROVE  ~BeforeDeal(Ask(what)) /\ ~BeforeDeal(NoRequest)
  BY AskFacts, RequestFacts DEF BeforeDeal

(* connect, disconnect and the reads begin.                                *)
LEMMA StartStep ==
  ASSUME DealInv, NEW c \in Callers, Connect(c) \/ Disconnect(c) \/ Read(c)
  PROVE  DealInv'
<1>1. /\ op[c] = NoOp /\ UNCHANGED <<tokens, issued, outcome, deal, placed>>
  BY DEF Connect, Disconnect, Read, Starts, Idle, venueSession, venueVars
<1>2. \/ UNCHANGED <<req, op>>
      \/ \E what \in {"login", "switch", "logout", "read"},
            kind \in {"connect", "disconnect", "read"} :
           req' = [req EXCEPT ![c] = Ask(what)] /\ op' = [op EXCEPT ![c] = Plain(kind)]
  BY DEF Connect, Disconnect, Read
<1>3. CASE UNCHANGED <<req, op>>
  <2>1. CallTypes'
    BY <1>1, <1>3 DEF DealInv, CallTypes
  <2>2. QED
    BY <1>1, <1>3, <2>1, CallStep DEF Submitting, DealInv, OneDeal, BeforeDeal
<1>4. ASSUME NEW what \in {"login", "switch", "logout", "read"},
             NEW kind \in {"connect", "disconnect", "read"},
             req' = [req EXCEPT ![c] = Ask(what)], op' = [op EXCEPT ![c] = Plain(kind)]
      PROVE  DealInv'
  <2>1. /\ what \in What /\ what \notin Ordering /\ Ask(what) \in Request
        /\ Ask(what).what = what
    BY AskFacts DEF What, Ordering
  <2>2. Plain(kind) \in Ops /\ Plain(kind).kind # "submit"
    BY DEF Ops, Plain
  <2>3. /\ req'[c] = Ask(what) /\ op'[c] = Plain(kind) /\ CallTypes'
        /\ \A d \in Callers \ {c} : req'[d] = req[d] /\ op'[d] = op[d]
    BY <1>1, <1>4, <2>1, <2>2 DEF DealInv, CallTypes
  <2>4. ~Submitting(c)'
    BY <2>2, <2>3 DEF Submitting
  <2>5. QED
    BY <1>1, <2>1, <2>3, <2>4, CallStep
<1>5. QED
  BY <1>2, <1>3, <1>4

(* A submit begins: of an order that was not submitted before.             *)
LEMMA SubmitStep ==
  ASSUME DealInv, NEW c \in Callers, NEW o \in Orders, Submit(c, o)
  PROVE  DealInv'
<1>1. /\ op[c] = NoOp /\ outcome[o] = "none"
      /\ UNCHANGED <<tokens, issued, deal, placed>>
      /\ \/ outcome' = [outcome EXCEPT ![o] = "raised"] /\ UNCHANGED <<req, op>>
         \/ /\ outcome' = [outcome EXCEPT ![o] = "pending"]
            /\ req' = [req EXCEPT ![c] = Ask(IF resolved THEN "deal" ELSE "market")]
            /\ op' = [op EXCEPT ![c] = Submission(o)]
  BY DEF Submit, Idle, venueSession, venueVars
<1>2. /\ outcome' \in [Orders -> {"none", "pending", "returned", "raised"}]
      /\ outcome'[o] # "none" /\ \A p \in Orders : p # o => outcome'[p] = outcome[p]
  BY <1>1 DEF DealInv, CallTypes
<1>3. CASE UNCHANGED <<req, op>>
  <2>1. CallTypes'
    BY <1>1, <1>2, <1>3 DEF DealInv, CallTypes
  <2>2. \A p \in Orders : outcome'[p] = "none" => outcome[p] = "none"
    BY <1>2
  <2>3. QED
    BY <1>1, <1>3, <2>1, <2>2, CallStep DEF Submitting, DealInv, OneDeal, BeforeDeal
<1>4. CASE /\ req' = [req EXCEPT ![c] = Ask(IF resolved THEN "deal" ELSE "market")]
           /\ op' = [op EXCEPT ![c] = Submission(o)]
  <2> DEFINE what == IF resolved THEN "deal" ELSE "market"
  <2>1. what \in What /\ what \in Ordering
    BY DEF What, Ordering
  <2> HIDE DEF what
  <2>2. Ask(what) \in Request /\ Ask(what).what = what
    BY <2>1, AskFacts
  <2>3. Submission(o) \in Ops /\ Submission(o).kind = "submit" /\ Submission(o).order = o
    BY IGBrokerAssumption DEF Ops, Submission, Status
  <2>4. /\ req'[c] = Ask(what) /\ op'[c] = Submission(o) /\ CallTypes'
        /\ \A d \in Callers \ {c} : req'[d] = req[d] /\ op'[d] = op[d]
    BY <1>1, <1>2, <1>4, <2>2, <2>3 DEF DealInv, CallTypes, what
  <2>5. \A d \in Callers \ {c} : Submitting(d)' = Submitting(d)
    BY <2>4 DEF Submitting
  <2>6. \A d \in Callers \ {c} :
          Submitting(d) => op[d].order # o /\ op[d].order \in Orders
    BY <1>1, OpFacts DEF DealInv, OneDeal, CallTypes, Submitting
  <2>7. placed[o] = 0
    BY <1>1 DEF DealInv, OneDeal
  <2>8. OneDeal'
    <3>1. \A d \in Callers : req'[d].what \in Ordering => Submitting(d)'
      BY <2>3, <2>4, <2>5 DEF DealInv, OneDeal, Submitting
    <3>2. \A d \in Callers :
            Submitting(d)' /\ BeforeDeal(req'[d]) => placed[op'[d].order] = 0
      BY <2>3, <2>4, <2>5, <2>7 DEF DealInv, OneDeal
    <3>3. \A d, e \in Callers :
            d # e /\ Submitting(d)' /\ Submitting(e)' => op'[d].order # op'[e].order
      BY <2>3, <2>4, <2>5, <2>6 DEF DealInv, OneDeal
    <3>4. \A d \in Callers : Submitting(d)' => outcome'[op'[d].order] # "none"
      BY <1>2, <2>3, <2>4, <2>5, <2>6 DEF DealInv, OneDeal
    <3>5. \A p \in Orders : outcome'[p] = "none" => placed'[p] = 0
      BY <1>1, <1>2 DEF DealInv, OneDeal
    <3>6. PlacedOnce'
      BY <1>1 DEF DealInv, OneDeal, PlacedOnce
    <3>7. QED
      BY <1>1, <3>1, <3>2, <3>3, <3>4, <3>5, <3>6 DEF OneDeal, BeforeDeal
  <2>9. QED
    BY <2>4, <2>8 DEF DealInv
<1>5. QED
  BY <1>1, <1>3, <1>4

(* The client sends an exchange, and recovers from an expiry: it repeats   *)
(* only what the venue has refused.                                        *)
LEMMA InsideStep ==
  ASSUME DealInv, NEW c \in Callers, Inside(c)
  PROVE  DealInv'
<1>1. /\ UNCHANGED <<op, outcome, deal, placed, issued>> /\ (Send(c) \/ Recover(c))
  BY DEF Inside, venueVars, venueSession, Send, Recover, Refresh, Reauthenticate, Retry
<1>2. Busy(c)
  BY <1>1 DEF Send, Recover, Refresh, Reauthenticate, Retry, Expired, RefreshRefused,
              Answered, At
<1>3. req[c] \in Request /\ req[c].token \in 0..MaxTokens
  BY <1>2 DEF DealInv, CallTypes, Busy, Request
<1>4. /\ req' \in [Callers -> Request \cup {NoRequest}]
      /\ \A d \in Callers \ {c} : req'[d] = req[d]
      /\ req'[c].what = req[c].what /\ req'[c].at \in {"limiter", "wire"}
      /\ tokens' \in 0..MaxTokens
  <2>1. CASE Send(c)
    <3> DEFINE r == [req[c] EXCEPT !.at = "wire", !.token = tokens]
    <3>1. req' = [req EXCEPT ![c] = r] /\ tokens' = tokens
      BY <2>1, <1>3 DEF Send, DealInv, CallTypes
    <3>2. r \in Request /\ r.what = req[c].what /\ r.at = "wire"
      BY <1>3 DEF Request, DealInv, CallTypes
    <3> HIDE DEF r
    <3>3. QED
      BY <3>1, <3>2 DEF DealInv, CallTypes
  <2>2. CASE Recover(c)
    <3>1. PICK leg \in {"refresh", "login", "send"} : Again(c, leg)
      BY <2>2 DEF Recover, Refresh, Reauthenticate, Retry
    <3>2. tokens' \in 0..MaxTokens
      BY <2>2, <1>3, IGClientAssumption
         DEF Recover, Refresh, Reauthenticate, Retry, DealInv, CallTypes
    <3>3. leg \in Leg \ {"logout"}
      BY DEF Leg
    <3>4. QED
      BY <1>2, <3>1, <3>2, <3>3, AgainFacts DEF DealInv
  <2>3. QED
    BY <1>1, <2>1, <2>2
<1>5. BeforeDeal(req'[c]) => BeforeDeal(req[c])
  <2>1. CASE Send(c)
    BY <1>4, <2>1 DEF Send, At, BeforeDeal
  <2>2. CASE Recover(c)
    BY <1>4, <2>2
       DEF Recover, Refresh, Reauthenticate, Retry, Expired, RefreshRefused, Answered, BeforeDeal
  <2>3. QED
    BY <1>1, <2>1, <2>2
<1>6. CallTypes'
  BY <1>1, <1>4 DEF DealInv, CallTypes
<1>7. req'[c].what \in Ordering => Submitting(c)'
  BY <1>1, <1>4 DEF DealInv, OneDeal, Submitting
<1>8. QED
  BY <1>1, <1>4, <1>5, <1>6, <1>7, CallStep DEF Submitting

(* A request ends, and the call with it or by going on to the next one.    *)
LEMMA EndStep ==
  ASSUME DealInv, NEW c \in Callers, tokens' \in 0..MaxTokens,
         UNCHANGED <<issued, deal, placed>>,
         NEW what \in What, NEW p \in Ops,
         p = op[c] \/ (p.kind = "submit" /\ Submitting(c) /\ p.order = op[c].order),
         what \in Ordering => Submitting(c),
         what \in {"market", "search", "found", "deal"} => BeforeDeal(req[c]),
         Continue(c, what, p) \/ Raise(c) \/ Return(c) \/ (Finish(c) /\ outcome' = outcome)
  PROVE  DealInv'
<1>1. /\ req' \in [Callers -> Request \cup {NoRequest}] /\ op' \in [Callers -> Ops]
      /\ outcome' \in [Orders -> {"none", "pending", "returned", "raised"}]
      /\ \A d \in Callers \ {c} : req'[d] = req[d] /\ op'[d] = op[d]
      /\ \A o \in Orders : outcome'[o] = "none" => outcome[o] = "none"
      /\ \/ req'[c] = NoRequest /\ op'[c] = NoOp
         \/ req'[c] = Ask(what) /\ op'[c] = p
  BY ContinueFacts DEF DealInv
<1>2. CallTypes'
  BY <1>1 DEF DealInv, CallTypes
<1>3. CASE req'[c] = NoRequest /\ op'[c] = NoOp
  <2>1. ~Submitting(c)' /\ req'[c].what \notin Ordering
    BY <1>3, RequestFacts DEF Submitting, NoOp, Ordering
  <2>2. QED
    BY <1>1, <1>2, <2>1, CallStep
<1>4. CASE req'[c] = Ask(what) /\ op'[c] = p
  <2>1. req'[c].what = what
    BY <1>4, AskFacts
  <2>2. Submitting(c)' => Submitting(c) /\ op'[c].order = op[c].order
    BY <1>4 DEF Submitting
  <2>3. what \in Ordering => Submitting(c)'
    BY <1>4 DEF Submitting
  <2>4. BeforeDeal(req'[c]) => BeforeDeal(req[c])
    BY <1>4, NotBeforeDeal
  <2>5. QED
    BY <1>1, <1>2, <2>1, <2>2, <2>3, <2>4, CallStep
<1>5. QED
  BY <1>1, <1>3, <1>4

(* The poll of a submit: its deal has been sent.                           *)
LEMMA PollStep ==
  ASSUME DealInv, NEW c \in Callers, tokens' \in 0..MaxTokens,
         UNCHANGED <<issued, deal, placed>>, Submitting(c), ~LastPoll(c), PollAgain(c)
  PROVE  DealInv'
<1> DEFINE p == [op[c] EXCEPT !.polls = @ + 1]
<1>1. op[c] \in [kind: {"submit"}, order: Orders, polls: 0..(MaxPolls - 1), saw: Status]
  BY OpFacts DEF DealInv, CallTypes, Submitting
<1>2. op[c].polls + 1 \in 0..(MaxPolls - 1)
  BY <1>1, IGBrokerAssumption DEF LastPoll
<1>3. p \in Ops /\ p.kind = "submit" /\ p.order = op[c].order
  BY <1>1, <1>2 DEF Ops
<1>4. req' = [req EXCEPT ![c] = NoRequest] /\ op' = [op EXCEPT ![c] = p] /\ outcome' = outcome
  BY DEF PollAgain, DealInv, CallTypes
<1> HIDE DEF p
<1>5. /\ CallTypes' /\ req'[c] = NoRequest /\ op'[c] = p
      /\ \A d \in Callers \ {c} : req'[d] = req[d] /\ op'[d] = op[d]
  BY <1>3, <1>4 DEF DealInv, CallTypes
<1>6. req'[c].what \notin Ordering /\ ~BeforeDeal(req'[c])
  BY <1>5, RequestFacts DEF Ordering
<1>7. Submitting(c)' => Submitting(c) /\ op'[c].order = op[c].order
  BY <1>3, <1>5
<1>8. QED
  BY <1>4, <1>5, <1>6, <1>7, CallStep

(* What follows the end of a request, in each kind of call.                *)
LEMMA RequestEndStep ==
  ASSUME DealInv, NEW c \in Callers, RequestEnds(c)
  PROVE  DealInv'
<1>1. PICK out \in {"ok", "invalid", "error", "auth"} :
        /\ Ends(c, out)
        /\ \/ ConnectEnds(c, out) \/ ReadEnds(c, out) \/ ResolveEnds(c, out)
           \/ DealEnds(c, out) \/ ConfirmEnds(c, out)
  BY DEF RequestEnds
<1>2. req[c] \in Request /\ op[c] \in Ops
  BY <1>1 DEF Ends, Busy, DealInv, CallTypes
<1>3. tokens' \in 0..MaxTokens /\ UNCHANGED <<issued, deal, placed>>
  <2>1. tokens' = tokens \/ tokens' = req[c].token
    BY <1>1 DEF Ends
  <2>2. req[c].token \in 0..MaxTokens
    BY <1>2 DEF Request
  <2>3. UNCHANGED <<issued, deal, placed>>
    BY <1>1 DEF Ends, RequestEnds, venueSession, venueVars
  <2>4. QED
    BY <2>1, <2>2, <2>3 DEF DealInv, CallTypes
<1>4. {"switch", "read", "deal", "search", "found", "confirm"} \subseteq What
  BY DEF What
<1>5. CASE ConnectEnds(c, out)
  <2>1. Continue(c, "switch", op[c]) \/ Raise(c) \/ Return(c)
    BY <1>5 DEF ConnectEnds
  <2>2. QED
    BY <1>2, <1>3, <1>4, <2>1, EndStep DEF Ordering
<1>6. CASE ReadEnds(c, out)
  <2>1. Finish(c) /\ outcome' = outcome
    BY <1>6 DEF ReadEnds
  <2>2. QED
    BY <1>2, <1>3, <1>4, <2>1, EndStep DEF Ordering
<1>7. CASE ResolveEnds(c, out)
  <2>1. Submitting(c) /\ BeforeDeal(req[c])
    BY <1>7 DEF ResolveEnds, DealInv, OneDeal, Ordering, BeforeDeal
  <2>2. \E what \in {"deal", "search", "found"} : Continue(c, what, op[c]) \/ Raise(c)
    BY <1>7 DEF ResolveEnds
  <2>3. QED
    BY <1>2, <1>3, <1>4, <2>1, <2>2, EndStep
<1>8. CASE DealEnds(c, out)
  <2>1. Submitting(c)
    BY <1>8 DEF DealEnds, DealInv, OneDeal, Ordering
  <2>2. Continue(c, "confirm", op[c]) \/ Raise(c)
    BY <1>8 DEF DealEnds
  <2>3. QED
    BY <1>2, <1>3, <1>4, <2>1, <2>2, EndStep
<1>9. CASE ConfirmEnds(c, out)
  <2>1. Submitting(c)
    BY <1>9 DEF ConfirmEnds, DealInv, OneDeal, Ordering
  <2>2. Return(c) \/ Raise(c) \/ (~LastPoll(c) /\ PollAgain(c))
    BY <1>9 DEF ConfirmEnds
  <2>3. CASE Return(c) \/ Raise(c)
    BY <1>2, <1>3, <1>4, <2>1, <2>3, EndStep
  <2>4. CASE ~LastPoll(c) /\ PollAgain(c)
    BY <1>3, <2>1, <2>4, PollStep
  <2>5. QED
    BY <2>2, <2>3, <2>4
<1>10. QED
  BY <1>1, <1>5, <1>6, <1>7, <1>8, <1>9

(* A disconnect ends, a poll wakes up.                                     *)
LEMMA WakeStep ==
  ASSUME DealInv, NEW c \in Callers, DisconnectEnds(c) \/ PollWakes(c)
  PROVE  DealInv'
<1>1. op[c] \in Ops /\ {"read", "confirm"} \subseteq What
  BY DEF DealInv, CallTypes, What
<1>2. CASE DisconnectEnds(c)
  <2>1. /\ Finish(c) /\ outcome' = outcome /\ tokens' = 0
        /\ UNCHANGED <<issued, deal, placed>>
    BY <1>2 DEF DisconnectEnds, LogoutEnds, venueSession, venueVars
  <2>2. tokens' \in 0..MaxTokens
    BY <2>1, IGClientAssumption
  <2>3. QED
    BY <1>1, <2>1, <2>2, EndStep DEF Ordering
<1>3. CASE PollWakes(c)
  <2>1. /\ Submitting(c) /\ Continue(c, "confirm", op[c])
        /\ UNCHANGED <<tokens, issued, deal, placed>>
    BY <1>3 DEF PollWakes, Asleep, Submitting, venueSession, venueVars
  <2>2. tokens' \in 0..MaxTokens
    BY <2>1 DEF DealInv, CallTypes
  <2>3. QED
    BY <1>1, <2>1, <2>2, EndStep
<1>4. QED
  BY <1>2, <1>3

(* The answer of the venue to an exchange of a caller.                     *)
LEMMA ServeFacts ==
  ASSUME CallTypes, NEW c \in Callers, NEW a \in Answer, Serve(c, a)
  PROVE  /\ req' \in [Callers -> Request \cup {NoRequest}] /\ req[c] \in Request
         /\ req[c].at = "wire" /\ tokens' = tokens /\ issued' \in 0..MaxTokens
         /\ \A d \in Callers \ {c} : req'[d] = req[d]
         /\ req'[c].what = req[c].what /\ req'[c].leg = req[c].leg
         /\ req'[c].at = "answered" /\ req'[c].answer = a
<1>1. req[c] \in Request /\ req[c].at = "wire" /\ a \in Answers(req[c]) /\ tokens' = tokens
  BY DEF Serve, At, Busy, CallTypes
<1> DEFINE opens == a = "ok" /\ req[c].leg \in {"refresh", "login"}
           new == issued + 1
           r == [req[c] EXCEPT !.at = "answered", !.answer = a,
                               !.token = IF opens THEN new ELSE @]
<1>2. req' = [req EXCEPT ![c] = r] /\ issued' = IF opens THEN new ELSE issued
  BY DEF Serve, CallTypes
<1>3. opens => issued < MaxTokens
  BY <1>1 DEF Answers, NewTokens, Invalid
<1>4. opens => new \in 0..MaxTokens
  BY <1>3, IGClientAssumption DEF CallTypes
<1>5. /\ r \in Request /\ r.what = req[c].what /\ r.leg = req[c].leg
      /\ r.at = "answered" /\ r.answer = a
  BY <1>1, <1>4 DEF Request
<1>6. issued' \in 0..MaxTokens
  BY <1>2, <1>4 DEF CallTypes
<1> HIDE DEF r, new, opens
<1>7. QED
  BY <1>1, <1>2, <1>5, <1>6 DEF CallTypes

(* The venue's answer opens the deal of one submit, or opens none.         *)
LEMMA OpenStep ==
  ASSUME DealInv, NEW c \in Callers, NEW a \in {"ok", "error"}, Serve(c, a),
         req[c].what = "deal", req[c].leg = "send", Opens(op[c].order, c),
         UNCHANGED <<op, outcome>>
  PROVE  DealInv'
<1> DEFINE o == op[c].order
<1>1. Submitting(c) /\ o \in Orders /\ placed[o] = 0
  BY ServeFacts, OpFacts DEF DealInv, OneDeal, CallTypes, Ordering, Submitting, BeforeDeal, Answer
<1>2. /\ req' \in [Callers -> Request \cup {NoRequest}]
      /\ \A d \in Callers \ {c} : req'[d] = req[d]
      /\ req'[c].what = "deal" /\ ~BeforeDeal(req'[c])
      /\ tokens' = tokens /\ issued' \in 0..MaxTokens
  BY ServeFacts DEF DealInv, BeforeDeal, Answer
<1>3. /\ deal' = [deal EXCEPT ![o] = "open"] /\ placed' = [placed EXCEPT ![o] = @ + 1]
  BY DEF Opens
<1>4. CallTypes'
  BY <1>1, <1>2, <1>3 DEF DealInv, CallTypes, Status
<1>5. \A p \in Orders : placed'[p] = IF p = o THEN 1 ELSE placed[p]
  BY <1>1, <1>3 DEF DealInv, CallTypes
<1>6. \A d \in Callers : Submitting(d) => op[d].order \in Orders
  BY OpFacts DEF DealInv, CallTypes, Submitting
<1>7. \A d \in Callers \ {c} : Submitting(d) => op[d].order # o
  BY <1>1 DEF DealInv, OneDeal
<1> HIDE DEF o
<1>8. OneDeal'
  <2>1. \A d \in Callers : req'[d].what \in Ordering => Submitting(d)
    BY <1>1, <1>2 DEF DealInv, OneDeal
  <2>2. \A d \in Callers : Submitting(d) /\ BeforeDeal(req'[d]) => placed'[op[d].order] = 0
    BY <1>2, <1>5, <1>6, <1>7 DEF DealInv, OneDeal
  <2>3. \A p \in Orders : outcome[p] = "none" => placed'[p] = 0
    BY <1>1, <1>5 DEF DealInv, OneDeal, o
  <2>4. PlacedOnce'
    BY <1>5 DEF DealInv, OneDeal, PlacedOnce
  <2>5. QED
    BY <2>1, <2>2, <2>3, <2>4 DEF DealInv, OneDeal, Submitting, BeforeDeal
<1>9. QED
  BY <1>4, <1>8 DEF DealInv

LEMMA RespondStep ==
  ASSUME DealInv, NEW c \in Callers, NEW a \in Answer, Respond(c, a)
  PROVE  DealInv'
<1>1. Serve(c, a) /\ outcome' = outcome
  BY DEF Respond
<1>2. /\ req' \in [Callers -> Request \cup {NoRequest}] /\ req[c] \in Request
      /\ req[c].at = "wire" /\ tokens' = tokens /\ issued' \in 0..MaxTokens
      /\ \A d \in Callers \ {c} : req'[d] = req[d]
      /\ req'[c].what = req[c].what
  BY <1>1, ServeFacts DEF DealInv
<1>3. CASE UNCHANGED <<deal, placed>>
  <2>1. \/ op' = op
        \/ req[c].what = "confirm" /\ op' = [op EXCEPT ![c].saw = deal[op[c].order]]
    BY DEF Respond
  <2>2. req[c].what = "confirm" => Submitting(c)
    BY DEF DealInv, OneDeal, Ordering
  <2>3. /\ op' \in [Callers -> Ops] /\ \A d \in Callers \ {c} : op'[d] = op[d]
        /\ Submitting(c)' = Submitting(c)
        /\ Submitting(c) => op'[c].order = op[c].order
    <3>1. CASE op' = op
      BY <3>1 DEF DealInv, CallTypes, Submitting
    <3>2. CASE req[c].what = "confirm" /\ op' = [op EXCEPT ![c].saw = deal[op[c].order]]
      <4> DEFINE p == [op[c] EXCEPT !.saw = deal[op[c].order]]
      <4>1. Submitting(c) /\ op[c].order \in Orders
        BY <2>2, <3>2, OpFacts DEF DealInv, CallTypes, Submitting
      <4>2. op[c] \in [kind: {"submit"}, order: Orders, polls: 0..(MaxPolls - 1), saw: Status]
        BY <4>1, OpFacts DEF DealInv, CallTypes, Submitting
      <4>3. deal[op[c].order] \in Status
        BY <4>1 DEF DealInv, CallTypes
      <4>4. p \in Ops /\ p.kind = "submit" /\ p.order = op[c].order
        BY <4>2, <4>3 DEF Ops
      <4>5. op' = [op EXCEPT ![c] = p]
        BY <3>2 DEF DealInv, CallTypes
      <4> HIDE DEF p
      <4>6. QED
        BY <4>1, <4>4, <4>5 DEF DealInv, CallTypes, Submitting
    <3>3. QED
      BY <2>1, <3>1, <3>2
  <2>4. CallTypes'
    BY <1>1, <1>2, <1>3, <2>3 DEF DealInv, CallTypes
  <2>5. BeforeDeal(req'[c]) => BeforeDeal(req[c])
    BY <1>2 DEF BeforeDeal
  <2>6. req'[c].what \in Ordering => Submitting(c)'
    BY <1>2, <2>3 DEF DealInv, OneDeal
  <2>7. QED
    BY <1>1, <1>2, <1>3, <2>3, <2>4, <2>5, <2>6, CallStep
<1>4. CASE /\ req[c].what = "deal" /\ req[c].leg = "send" /\ a \in {"ok", "error"}
           /\ Opens(op[c].order, c)
  <2>1. op' = op
    BY <1>4 DEF Respond
  <2>2. QED
    BY <1>1, <1>4, <2>1, OpenStep
<1>5. QED
  BY <1>3, <1>4 DEF Respond, venueVars

(* A session expires; the venue decides a deal.                            *)
LEMMA VenueStep ==
  ASSUME DealInv,
         \/ \E t \in Tokens : Expire(t) /\ UNCHANGED brokerVars
         \/ \E o \in Orders, status \in {"ACCEPTED", "REJECTED"} : VenueResolves(o, status)
  PROVE  DealInv'
<1>1. UNCHANGED <<tokens, issued, req, op, outcome, placed>>
  BY DEF Expire, brokerVars, VenueResolves, clientVars, venueSession
<1>2. deal' \in [Orders -> Status]
  BY DEF DealInv, CallTypes, Status, Expire, brokerVars, VenueResolves
<1>3. CallTypes'
  BY <1>1, <1>2 DEF DealInv, CallTypes
<1>4. OneDeal'
  BY <1>1 DEF DealInv, OneDeal, Submitting, BeforeDeal, PlacedOnce
<1>5. QED
  BY <1>3, <1>4 DEF DealInv

LEMMA InitDeal == Init => DealInv
<1> SUFFICES ASSUME Init PROVE DealInv
  OBVIOUS
<1>1. CallTypes
  BY IGClientAssumption DEF Init, ClientInit, CallTypes, Ops, Status
<1>2. \A c \in Callers : ~Submitting(c) /\ req[c].what \notin Ordering
  BY RequestFacts DEF Init, ClientInit, Submitting, NoOp, Ordering
<1>3. OneDeal
  BY <1>2 DEF OneDeal, PlacedOnce, Init
<1>4. QED
  BY <1>1, <1>3 DEF DealInv

LEMMA DealStep == DealInv /\ [Next]_vars => DealInv'
<1> SUFFICES ASSUME DealInv, [Next]_vars PROVE DealInv'
  OBVIOUS
<1>1. CASE \E c \in Callers : Connect(c) \/ Disconnect(c) \/ Read(c)
  BY <1>1, StartStep
<1>2. CASE \E c \in Callers, o \in Orders : Submit(c, o)
  BY <1>2, SubmitStep
<1>3. CASE \E c \in Callers : Step(c)
  BY <1>3, InsideStep, RequestEndStep, WakeStep, RespondStep DEF Step
<1>4. CASE \/ \E t \in Tokens : Expire(t) /\ UNCHANGED brokerVars
           \/ \E o \in Orders, status \in {"ACCEPTED", "REJECTED"} : VenueResolves(o, status)
  BY <1>4, VenueStep
<1>5. CASE UNCHANGED vars
  BY <1>5 DEF vars, clientVars, brokerVars, venueSession, DealInv, CallTypes, OneDeal,
              Submitting, BeforeDeal, PlacedOnce
<1>6. QED
  BY <1>1, <1>2, <1>3, <1>4, <1>5 DEF Next

(* submit (broker.py) POSTs the order through _request (client.py), which  *)
(* repeats an exchange only when the venue answered that the session was   *)
(* not valid: however many callers share the session, and however often it *)
(* expires, is refreshed or lost, a submit opens at most one deal.         *)
THEOREM SubmitOpensOneDeal == Spec => []PlacedOnce
<1>1. DealInv => PlacedOnce
  BY DEF DealInv, OneDeal
<1>2. QED
  BY <1>1, InitDeal, DealStep, PTL DEF Spec
-----------------------------------------------------------------------------
(* The stream of an order, against what the venue decided.                 *)
Resolving(r) == r.what \in {"market", "search", "found", "deal"}

(* The venue has opened the deal and said so.                              *)
DealKnown(r) == r.what = "deal" /\ r.leg = "send" /\ r.at = "answered" /\ r.answer = "ok"

Finals == {"ACCEPTED", "REJECTED"}

(* The streams that end with what the venue decided.                       *)
Reports(status) ==
  IF status = "ACCEPTED"
    THEN {<<"SUBMITTED", "ACCEPTED">>, <<"SUBMITTED", "ACCEPTED", "FILLED">>}
  ELSE IF status = "REJECTED" THEN {<<"SUBMITTED", "REJECTED">>} ELSE {}

OrderStream(o) ==
  /\ emitted[o] \in {<<>>, <<"SUBMITTED">>} \cup Reports(deal[o])
  /\ emitted[o] # <<>> => placed[o] = 1
  /\ deal[o] # "none" => placed[o] = 1
  /\ outcome[o] = "none" => emitted[o] = <<>>
  /\ outcome[o] = "returned" => emitted[o] \in Reports(deal[o])

(* A submit has put SUBMITTED when its deal is sent and answered; what its *)
(* poll saw is final only if the deal is.                                  *)
CallStream(c) ==
  Submitting(c) =>
    /\ req[c] = NoRequest \/ req[c].what \in Ordering
    /\ emitted[op[c].order] = IF Resolving(req[c]) THEN <<>> ELSE <<"SUBMITTED">>
    /\ DealKnown(req[c]) => placed[op[c].order] = 1
    /\ op[c].saw \in Finals => deal[op[c].order] = op[c].saw

Kinds == {"SUBMITTED", "ACCEPTED", "FILLED", "REJECTED"}

EventTypes ==
  emitted \in [Orders -> Seq(Kinds)]

StreamInv ==
  EventTypes /\ (\A o \in Orders : OrderStream(o)) /\ (\A c \in Callers : CallStream(c))

(* A step of one call leaves the orders of the others alone.               *)
LEMMA StreamStep ==
  ASSUME StreamInv, NEW c \in Callers,
         \A d \in Callers \ {c} : req'[d] = req[d] /\ op'[d] = op[d],
         \A d \in Callers \ {c} : Submitting(d) =>
           /\ emitted'[op[d].order] = emitted[op[d].order]
           /\ deal'[op[d].order] = deal[op[d].order]
           /\ placed'[op[d].order] = placed[op[d].order],
         EventTypes', CallStream(c)', \A o \in Orders : OrderStream(o)'
  PROVE  StreamInv'
<1>1. ASSUME NEW d \in Callers \ {c} PROVE CallStream(d)'
  BY <1>1 DEF StreamInv, CallStream, Submitting, Resolving, DealKnown
<1>2. QED
  BY <1>1 DEF StreamInv

(* A step that puts no event and moves no deal.                            *)
LEMMA QuietStep ==
  ASSUME StreamInv, NEW c \in Callers,
         \A d \in Callers \ {c} : req'[d] = req[d] /\ op'[d] = op[d],
         UNCHANGED <<emitted, deal, placed>>,
         \A o \in Orders : outcome'[o] = outcome[o] \/ outcome'[o] = "raised",
         Submitting(c)' =>
           /\ Submitting(c) /\ op'[c].order = op[c].order /\ op'[c].saw = op[c].saw
           /\ req'[c] = NoRequest \/ req'[c].what \in Ordering
           /\ Resolving(req'[c]) <=> Resolving(req[c])
           /\ DealKnown(req'[c]) => DealKnown(req[c])
  PROVE  StreamInv'
<1>1. ASSUME NEW o \in Orders PROVE OrderStream(o)'
  BY <1>1 DEF StreamInv, OrderStream, Reports
<1>2. CallStream(c)'
  BY DEF StreamInv, CallStream, Submitting, Resolving, DealKnown
<1>3. EventTypes'
  BY DEF StreamInv, EventTypes
<1>4. QED
  BY <1>1, <1>2, <1>3, StreamStep

LEMMA RaiseFacts ==
  ASSUME CallTypes, NEW c \in Callers, NEW what \in What, NEW p \in Ops,
         Continue(c, what, p) \/ Raise(c)
  PROVE  \A o \in Orders : outcome'[o] = outcome[o] \/ outcome'[o] = "raised"
<1>1. outcome' = outcome \/ outcome' = [outcome EXCEPT ![op[c].order] = "raised"]
  BY DEF Continue, Raise, Result
<1>2. QED
  BY <1>1 DEF CallTypes

LEMMA WhatFacts ==
  /\ \A r : Resolving(r) \/ r.what = "confirm" <=> r.what \in Ordering
  /\ \A what \in What : ~DealKnown(Ask(what)) /\ Ask(what) # NoRequest
  /\ ~Resolving(NoRequest) /\ ~DealKnown(NoRequest)
<1>1. \A what \in What : ~DealKnown(Ask(what)) /\ Ask(what) # NoRequest
  BY AskFacts, RequestFacts DEF DealKnown
<1>2. QED
  BY <1>1, RequestFacts DEF Resolving, Ordering, DealKnown

(* A call ends with an exception, or goes on with a request of its kind.   *)
LEMMA RaiseStream ==
  ASSUME DealInv, StreamInv, NEW c \in Callers, NEW what \in What,
         Continue(c, what, op[c]) \/ Raise(c) \/ (Finish(c) /\ outcome' = outcome),
         UNCHANGED <<emitted, deal, placed>>,
         Submitting(c) =>
           what \in Ordering /\ (what = "confirm" <=> ~Resolving(req[c]))
  PROVE  StreamInv'
<1>1. op[c] \in Ops
  BY DEF DealInv, CallTypes
<1>2. /\ \A d \in Callers \ {c} : req'[d] = req[d] /\ op'[d] = op[d]
      /\ \/ req'[c] = NoRequest /\ op'[c] = NoOp
         \/ req'[c] = Ask(what) /\ op'[c] = op[c]
  BY <1>1, ContinueFacts DEF DealInv
<1>3. \A o \in Orders : outcome'[o] = outcome[o] \/ outcome'[o] = "raised"
  BY <1>1, RaiseFacts DEF DealInv
<1>4. CASE req'[c] = NoRequest /\ op'[c] = NoOp
  <2>1. ~Submitting(c)'
    BY <1>4 DEF Submitting, NoOp
  <2>2. QED
    BY <1>2, <1>3, <2>1, QuietStep
<1>5. CASE req'[c] = Ask(what) /\ op'[c] = op[c]
  <2>1. Submitting(c)' = Submitting(c) /\ req'[c].what = what /\ ~DealKnown(req'[c])
    BY <1>5, AskFacts, WhatFacts DEF Submitting
  <2>2. Submitting(c) => (Resolving(req'[c]) <=> Resolving(req[c]))
    BY <2>1 DEF Resolving, Ordering
  <2>3. QED
    BY <1>2, <1>3, <1>5, <2>1, <2>2, QuietStep
<1>6. QED
  BY <1>2, <1>4, <1>5

LEMMA StartStream ==
  ASSUME DealInv, StreamInv, NEW c \in Callers, Connect(c) \/ Disconnect(c) \/ Read(c)
  PROVE  StreamInv'
<1>1. UNCHANGED <<outcome, emitted, deal, placed>> /\ op[c] = NoOp
  BY DEF Connect, Disconnect, Read, Starts, Idle, venueVars
<1>2. \/ UNCHANGED <<req, op>>
      \/ \E what \in {"login", "switch", "logout", "read"},
            kind \in {"connect", "disconnect", "read"} :
           req' = [req EXCEPT ![c] = Ask(what)] /\ op' = [op EXCEPT ![c] = Plain(kind)]
  BY DEF Connect, Disconnect, Read
<1>3. ~Submitting(c)' /\ \A d \in Callers \ {c} : req'[d] = req[d] /\ op'[d] = op[d]
  BY <1>1, <1>2 DEF Submitting, NoOp, Plain, DealInv, CallTypes
<1>4. QED
  BY <1>1, <1>3, QuietStep

LEMMA SubmitStream ==
  ASSUME DealInv, StreamInv, NEW c \in Callers, NEW o \in Orders, Submit(c, o)
  PROVE  StreamInv'
<1>1. /\ outcome[o] = "none" /\ UNCHANGED <<emitted, deal, placed>>
      /\ \/ outcome' = [outcome EXCEPT ![o] = "raised"] /\ UNCHANGED <<req, op>>
         \/ /\ outcome' = [outcome EXCEPT ![o] = "pending"]
            /\ req' = [req EXCEPT ![c] = Ask(IF resolved THEN "deal" ELSE "market")]
            /\ op' = [op EXCEPT ![c] = Submission(o)]
  BY DEF Submit, venueVars
<1>2. /\ outcome'[o] \in {"raised", "pending"}
      /\ \A p \in Orders : p # o => outcome'[p] = outcome[p]
  BY <1>1 DEF DealInv, CallTypes
<1>3. emitted[o] = <<>> /\ placed[o] = 0 /\ deal[o] = "none"
  BY <1>1 DEF StreamInv, OrderStream, DealInv, OneDeal
<1>4. ASSUME NEW p \in Orders PROVE OrderStream(p)'
  BY <1>1, <1>2 DEF StreamInv, OrderStream, Reports
<1>8. EventTypes'
  BY <1>1 DEF StreamInv, EventTypes
<1>5. CASE UNCHANGED <<req, op>>
  BY <1>1, <1>4, <1>5, <1>8, StreamStep DEF StreamInv, CallStream, Submitting, Resolving, DealKnown
<1>6. CASE /\ req' = [req EXCEPT ![c] = Ask(IF resolved THEN "deal" ELSE "market")]
           /\ op' = [op EXCEPT ![c] = Submission(o)]
  <2> DEFINE what == IF resolved THEN "deal" ELSE "market"
  <2>1. what \in What /\ what \in Ordering /\ what \in {"deal", "market"}
    BY DEF What, Ordering
  <2> HIDE DEF what
  <2>2. Ask(what).what = what /\ ~DealKnown(Ask(what))
    BY <2>1, AskFacts, WhatFacts
  <2>3. /\ req'[c] = Ask(what) /\ op'[c] = Submission(o)
        /\ \A d \in Callers \ {c} : req'[d] = req[d] /\ op'[d] = op[d]
    BY <1>6 DEF DealInv, CallTypes, what
  <2>4. op'[c].order = o /\ op'[c].saw = "none"
    BY <2>3 DEF Submission
  <2>5. CallStream(c)'
    BY <1>1, <1>3, <2>1, <2>2, <2>3, <2>4 DEF CallStream, Resolving, Finals
  <2>6. QED
    BY <1>1, <1>4, <1>8, <2>3, <2>5, StreamStep
<1>7. QED
  BY <1>1, <1>5, <1>6

LEMMA InsideStream ==
  ASSUME DealInv, StreamInv, NEW c \in Callers, Inside(c)
  PROVE  StreamInv'
<1>1. Send(c) \/ Recover(c)
  BY DEF Inside
<1>6. Busy(c) /\ UNCHANGED <<op, outcome, emitted, deal, placed>>
  <2>1. UNCHANGED <<op, outcome, emitted, deal, placed>>
    BY DEF Inside, venueVars
  <2>2. CASE Send(c)
    BY <2>1, <2>2 DEF Send, At
  <2>3. CASE Recover(c)
    BY <2>1, <2>3 DEF Recover, Refresh, Reauthenticate, Retry, Expired, RefreshRefused,
                      Answered, At
  <2>4. QED
    BY <1>1, <2>2, <2>3
<1>2. /\ \A d \in Callers \ {c} : req'[d] = req[d]
      /\ req'[c].what = req[c].what /\ req'[c].at # "answered"
  <2>1. CASE Send(c)
    <3>1. req[c] \in Request /\ req' = [req EXCEPT ![c].at = "wire", ![c].token = tokens]
      BY <2>1 DEF Send, At, Busy, DealInv, CallTypes
    <3>2. QED
      BY <3>1 DEF DealInv, CallTypes, Request
  <2>2. CASE Recover(c)
    <3>1. PICK leg \in {"refresh", "login", "send"} : Again(c, leg)
      BY <2>2 DEF Recover, Refresh, Reauthenticate, Retry
    <3>2. leg \in Leg \ {"logout"}
      BY DEF Leg
    <3>3. QED
      BY <1>6, <3>1, <3>2, AgainFacts DEF DealInv
  <2>3. QED
    BY <1>1, <2>1, <2>2
<1>3. ~DealKnown(req'[c]) /\ (Resolving(req'[c]) <=> Resolving(req[c]))
  BY <1>2 DEF DealKnown, Resolving
<1>4. Submitting(c) => req'[c].what \in Ordering
  <2>1. req[c] # NoRequest
    BY <1>6 DEF Busy
  <2>2. QED
    BY <1>2, <2>1 DEF StreamInv, CallStream
<1>7. QED
  BY <1>6, <1>2, <1>3, <1>4, QuietStep DEF Submitting

(* The sequences of events a submit puts, one after the other.             *)
LEMMA ShortEqual ==
  ASSUME NEW s \in Seq(Kinds), NEW t \in Seq(Kinds), Len(s) = Len(t), Len(s) <= 3,
         s[1] = t[1], s[2] = t[2], Len(s) = 3 => s[3] = t[3]
  PROVE  s = t
<1>1. ASSUME NEW i \in 1..Len(s) PROVE s[i] = t[i]
  <2>1. i = 1 \/ i = 2 \/ (i = 3 /\ Len(s) = 3)
    BY LenProperties
  <2>2. QED
    BY <2>1
<1>2. QED
  BY <1>1, SeqEqual

LEMMA PairConcat ==
  ASSUME NEW s \in Seq(Kinds), NEW t \in Seq(Kinds), Len(s) = 1, Len(t) \in {1, 2}
  PROVE  /\ s \o t \in Seq(Kinds) /\ Len(s \o t) = 1 + Len(t)
         /\ (s \o t)[1] = s[1] /\ (s \o t)[2] = t[1]
         /\ Len(t) = 2 => (s \o t)[3] = t[2]
<1>1. /\ s \o t \in Seq(Kinds) /\ Len(s \o t) = 1 + Len(t)
      /\ \A i \in 1..(1 + Len(t)) : (s \o t)[i] = IF i <= 1 THEN s[1] ELSE t[i - 1]
  <2>1. \A i \in 1..(1 + Len(t)) : i <= 1 => i = 1
    OBVIOUS
  <2>2. QED
    BY <2>1, ConcatProperties
<1>2. 1 \in 1..(1 + Len(t)) /\ 2 \in 1..(1 + Len(t)) /\ (Len(t) = 2 => 3 \in 1..(1 + Len(t)))
  OBVIOUS
<1>3. QED
  BY <1>1, <1>2

LEMMA SeqFacts ==
  ASSUME NEW a \in Kinds, NEW b \in Kinds
  PROVE  /\ <<a>> \in Seq(Kinds) /\ <<a, b>> \in Seq(Kinds)
         /\ <<"SUBMITTED">> \o <<a>> = <<"SUBMITTED", a>>
         /\ <<"SUBMITTED">> \o <<a, b>> = <<"SUBMITTED", a, b>>
<1> DEFINE s == <<"SUBMITTED">>
           t == <<a>>
           u == <<a, b>>
           v == <<"SUBMITTED", a>>
           w == <<"SUBMITTED", a, b>>
<1>1. "SUBMITTED" \in Kinds
  BY DEF Kinds
<1>2. /\ s \in Seq(Kinds) /\ Len(s) = 1 /\ s[1] = "SUBMITTED"
      /\ t \in Seq(Kinds) /\ Len(t) = 1 /\ t[1] = a
      /\ u \in Seq(Kinds) /\ Len(u) = 2 /\ u[1] = a /\ u[2] = b
  BY <1>1
<1>3. /\ v \in Seq(Kinds) /\ Len(v) = 2 /\ v[1] = "SUBMITTED" /\ v[2] = a
      /\ w \in Seq(Kinds) /\ Len(w) = 3 /\ w[1] = "SUBMITTED" /\ w[2] = a /\ w[3] = b
  BY <1>1
<1> HIDE DEF s, t, u, v, w
<1>4. s \o t = v
  <2>1. /\ s \o t \in Seq(Kinds) /\ Len(s \o t) = 2
        /\ (s \o t)[1] = "SUBMITTED" /\ (s \o t)[2] = a
    BY <1>2, PairConcat
  <2>2. Len(s \o t) = Len(v) /\ Len(s \o t) <= 3 /\ (s \o t)[1] = v[1] /\ (s \o t)[2] = v[2]
        /\ ~(Len(s \o t) = 3)
    BY <1>3, <2>1
  <2>3. s \o t \in Seq(Kinds) /\ v \in Seq(Kinds)
    BY <1>3, <2>1
  <2>4. QED
    BY <2>2, <2>3, ShortEqual
<1>5. s \o u = w
  <2>1. /\ s \o u \in Seq(Kinds) /\ Len(s \o u) = 3
        /\ (s \o u)[1] = "SUBMITTED" /\ (s \o u)[2] = a /\ (s \o u)[3] = b
    <3>1. Len(s) = 1 /\ Len(u) \in {1, 2}
      BY <1>2
    <3>2. /\ s \o u \in Seq(Kinds) /\ Len(s \o u) = 1 + Len(u)
          /\ (s \o u)[1] = s[1] /\ (s \o u)[2] = u[1]
          /\ Len(u) = 2 => (s \o u)[3] = u[2]
      BY <1>2, <3>1, PairConcat
    <3>3. Len(s \o u) = 3 /\ (s \o u)[1] = s[1] /\ (s \o u)[2] = u[1] /\ (s \o u)[3] = u[2]
      BY <1>2, <3>2
    <3>4. QED
      BY <1>2, <3>2, <3>3
  <2>2. Len(s \o u) = Len(w) /\ Len(s \o u) <= 3 /\ (s \o u)[1] = w[1]
        /\ (s \o u)[2] = w[2] /\ (s \o u)[3] = w[3]
    BY <1>3, <2>1
  <2>3. s \o u \in Seq(Kinds) /\ w \in Seq(Kinds)
    BY <1>3, <2>1
  <2>4. QED
    BY <2>2, <2>3, ShortEqual
<1>6. QED
  BY <1>2, <1>4, <1>5 DEF s, t, u, v, w

(* A submit puts events of its order.                                      *)
LEMMA PutStream ==
  ASSUME DealInv, StreamInv, NEW c \in Callers, Submitting(c),
         NEW o \in Orders, o = op[c].order,
         NEW kinds \in Seq(Kinds),
         Put(o, kinds), UNCHANGED <<deal, placed>>,
         \A d \in Callers \ {c} : req'[d] = req[d] /\ op'[d] = op[d],
         \A p \in Orders \ {o} : outcome'[p] = outcome[p],
         OrderStream(o)', CallStream(c)'
  PROVE  StreamInv'
<1>2. emitted[o] \o kinds \in Seq(Kinds)
  BY DEF StreamInv, EventTypes
<1>3. EventTypes' /\ \A p \in Orders \ {o} : emitted'[p] = emitted[p]
  BY <1>2 DEF Put, StreamInv, EventTypes
<1>4. ASSUME NEW p \in Orders \ {o} PROVE OrderStream(p)'
  BY <1>3, <1>4 DEF StreamInv, OrderStream, Reports
<1>5. \A d \in Callers \ {c} : Submitting(d) => op[d].order \in Orders \ {o}
  BY OpFacts DEF DealInv, CallTypes, OneDeal, Submitting
<1>6. \A p \in Orders : OrderStream(p)'
  BY <1>4
<1>7. \A d \in Callers \ {c} : Submitting(d) => emitted'[op[d].order] = emitted[op[d].order]
  BY <1>3, <1>5
<1>8. QED
  BY <1>3, <1>6, <1>7, StreamStep

(* The deal is answered, SUBMITTED is put.                                 *)
LEMMA DealStream ==
  ASSUME DealInv, StreamInv, NEW c \in Callers, NEW out, Ends(c, out), DealEnds(c, out),
         UNCHANGED <<deal, placed>>
  PROVE  StreamInv'
<1>1. req[c].what = "deal" /\ Submitting(c)
  BY DEF DealEnds, DealInv, OneDeal, Ordering
<1>2. "confirm" \in What /\ op[c] \in Ops /\ op[c].order \in Orders
  BY <1>1, OpFacts DEF What, DealInv, CallTypes, Submitting
<1>3. CASE out = "ok" /\ Put(op[c].order, <<"SUBMITTED">>) /\ Continue(c, "confirm", op[c])
  <2> PICK o \in Orders : o = op[c].order
    BY <1>2
  <2>1. DealKnown(req[c])
    BY <1>1, <1>3 DEF Ends, DealKnown, Answered, At
  <2>2. placed[o] = 1 /\ emitted[o] = <<>> /\ (op[c].saw \in Finals => deal[o] = op[c].saw)
    BY <1>1, <2>1 DEF StreamInv, CallStream, Resolving
  <2>3. /\ \A d \in Callers \ {c} : req'[d] = req[d] /\ op'[d] = op[d]
        /\ \/ req'[c] = NoRequest /\ op'[c] = NoOp
           \/ req'[c] = Ask("confirm") /\ op'[c] = op[c]
    BY <1>2, <1>3, ContinueFacts DEF DealInv
  <2>4. \/ outcome' = outcome
        \/ outcome' = [outcome EXCEPT ![o] = "raised"]
    BY <1>3 DEF Continue, Raise, Result
  <2>5. emitted' = [emitted EXCEPT ![o] = <<"SUBMITTED">>]
    BY <1>2, <1>3, <2>2 DEF Put, StreamInv, EventTypes
  <2>6. emitted'[o] = <<"SUBMITTED">>
    BY <1>2, <2>5 DEF StreamInv, EventTypes
  <2>7. outcome[o] # "none" /\ outcome[o] # "returned"
    BY <1>1, <1>2, <2>2 DEF DealInv, OneDeal, StreamInv, OrderStream, Reports
  <2>8. outcome'[o] # "none" /\ outcome'[o] # "returned"
    BY <1>2, <2>4, <2>7 DEF DealInv, CallTypes
  <2>9. OrderStream(o)'
    BY <2>2, <2>6, <2>8 DEF OrderStream
  <2>12. CallStream(c)'
    <3>1. CASE req'[c] = NoRequest /\ op'[c] = NoOp
      BY <3>1 DEF CallStream, Submitting, NoOp
    <3>2. CASE req'[c] = Ask("confirm") /\ op'[c] = op[c]
      <4>1. req'[c].what = "confirm" /\ ~DealKnown(req'[c])
        BY <1>2, <3>2, AskFacts, WhatFacts
      <4>2. op'[c].order = o /\ op'[c].saw = op[c].saw
        BY <3>2
      <4>3. QED
        BY <2>2, <2>6, <4>1, <4>2 DEF CallStream, Resolving, Ordering, DealKnown
    <3>3. QED
      BY <2>3, <3>1, <3>2
  <2>13. \A p \in Orders \ {o} : outcome'[p] = outcome[p]
    BY <2>4 DEF DealInv, CallTypes
  <2>14. <<"SUBMITTED">> \in Seq(Kinds)
    BY SeqFacts DEF Kinds
  <2>15. QED
    BY <1>1, <1>3, <2>3, <2>9, <2>12, <2>13, <2>14, PutStream
<1>4. CASE Raise(c) /\ UNCHANGED emitted
  <2>1. "deal" \in What
    BY DEF What
  <2>2. QED
    BY <1>1, <1>4, <2>1, RaiseStream DEF Ordering, Resolving
<1>5. QED
  BY <1>3, <1>4 DEF DealEnds

(* A confirm ends: the stream says what it saw, or nothing yet.            *)
LEMMA FinalReports ==
  ASSUME NEW status \in Finals, NEW kinds \in EventsOf(status)
  PROVE  kinds \in Seq(Kinds) /\ <<"SUBMITTED">> \o kinds \in Reports(status)
<1>1. {"SUBMITTED", "ACCEPTED", "FILLED", "REJECTED"} \subseteq Kinds
  BY DEF Kinds
<1>2. CASE status = "REJECTED" /\ kinds = <<"REJECTED">>
  BY <1>1, <1>2, SeqFacts DEF Reports
<1>3. CASE status = "ACCEPTED" /\ kinds = <<"ACCEPTED">>
  BY <1>1, <1>3, SeqFacts DEF Reports
<1>4. CASE status = "ACCEPTED" /\ kinds = <<"ACCEPTED", "FILLED">>
  BY <1>1, <1>4, SeqFacts DEF Reports
<1>5. QED
  BY <1>2, <1>3, <1>4 DEF EventsOf, Finals

LEMMA ConfirmStream ==
  ASSUME DealInv, StreamInv, NEW c \in Callers, NEW out, ConfirmEnds(c, out),
         UNCHANGED <<deal, placed>>
  PROVE  StreamInv'
<1>1. req[c].what = "confirm" /\ Submitting(c)
  BY DEF ConfirmEnds, DealInv, OneDeal, Ordering
<1>2. op[c] \in Ops /\ op[c].order \in Orders /\ "confirm" \in What
  BY <1>1, OpFacts DEF DealInv, CallTypes, Submitting, What
<1>3. CASE /\ Final(op[c].saw) /\ Return(c)
           /\ \E kinds \in EventsOf(op[c].saw) : Put(op[c].order, kinds)
  <2> PICK o \in Orders : o = op[c].order
    BY <1>2
  <2>1. /\ op[c].saw \in Finals /\ deal[o] = op[c].saw /\ emitted[o] = <<"SUBMITTED">>
    BY <1>1, <1>3 DEF StreamInv, CallStream, Resolving, Final, Finals
  <2>2. PICK kinds \in EventsOf(op[c].saw) : Put(o, kinds)
    BY <1>3
  <2>3. /\ kinds \in Seq(Kinds)
        /\ <<"SUBMITTED">> \o kinds \in Reports(deal[o])
    BY <2>1, <2>2, FinalReports
  <2>4. emitted'[o] = <<"SUBMITTED">> \o kinds
    BY <2>1, <2>2 DEF Put, StreamInv, EventTypes
  <2>5. placed[o] = 1
    <3>1. <<"SUBMITTED">> # <<>>
      OBVIOUS
    <3>2. QED
      BY <2>1, <3>1 DEF StreamInv, OrderStream
  <2>6. outcome' = [outcome EXCEPT ![o] = "returned"]
    BY <1>1, <1>3 DEF Return, Result, Submitting
  <2>7. outcome'[o] = "returned" /\ \A p \in Orders \ {o} : outcome'[p] = outcome[p]
    BY <2>6 DEF DealInv, CallTypes
  <2>8. OrderStream(o)'
    BY <2>3, <2>4, <2>5, <2>7 DEF OrderStream, Reports
  <2>9. op'[c] = NoOp /\ \A d \in Callers \ {c} : req'[d] = req[d] /\ op'[d] = op[d]
    BY <1>3 DEF Return, Finish, DealInv, CallTypes
  <2>10. CallStream(c)'
    BY <2>9 DEF CallStream, Submitting, NoOp
  <2>11. QED
    BY <1>1, <2>2, <2>3, <2>7, <2>8, <2>9, <2>10, PutStream
<1>4. CASE Raise(c) /\ UNCHANGED emitted
  BY <1>1, <1>2, <1>4, RaiseStream DEF Ordering, Resolving
<1>5. CASE PollAgain(c) /\ UNCHANGED emitted
  <2>1. op[c] \in [kind: {"submit"}, order: Orders, polls: 0..(MaxPolls - 1), saw: Status]
    BY <1>1, OpFacts DEF DealInv, CallTypes, Submitting
  <2>2. /\ op' = [op EXCEPT ![c].polls = @ + 1] /\ req' = [req EXCEPT ![c] = NoRequest]
        /\ outcome' = outcome
    BY <1>5 DEF PollAgain
  <2>3. /\ req'[c] = NoRequest /\ op'[c].order = op[c].order /\ op'[c].saw = op[c].saw
        /\ \A d \in Callers \ {c} : req'[d] = req[d] /\ op'[d] = op[d]
    BY <2>1, <2>2 DEF DealInv, CallTypes
  <2>4. ~Resolving(req[c]) /\ ~Resolving(req'[c]) /\ ~DealKnown(req'[c])
    BY <1>1, <2>3, WhatFacts DEF Resolving
  <2>5. QED
    BY <1>1, <1>5, <2>2, <2>3, <2>4, QuietStep
<1>6. QED
  BY <1>3, <1>4, <1>5 DEF ConfirmEnds

LEMMA RequestEndStream ==
  ASSUME DealInv, StreamInv, NEW c \in Callers, RequestEnds(c)
  PROVE  StreamInv'
<1>1. PICK out \in {"ok", "invalid", "error", "auth"} :
        /\ Ends(c, out)
        /\ \/ ConnectEnds(c, out) \/ ReadEnds(c, out) \/ ResolveEnds(c, out)
           \/ DealEnds(c, out) \/ ConfirmEnds(c, out)
  BY DEF RequestEnds
<1>2. Busy(c) /\ UNCHANGED <<deal, placed>>
  BY <1>1 DEF Ends, RequestEnds, venueVars
<1>3. {"switch", "read", "deal", "search", "found", "confirm"} \subseteq What
  BY DEF What
<1>4. CASE ConnectEnds(c, out)
  <2>1. ~Submitting(c) /\ UNCHANGED emitted
    BY <1>2, <1>4 DEF ConnectEnds, StreamInv, CallStream, Ordering, Busy
  <2>2. Continue(c, "switch", op[c]) \/ Raise(c) \/ Return(c)
    BY <1>4 DEF ConnectEnds
  <2>3. CASE Continue(c, "switch", op[c]) \/ Raise(c)
    BY <1>2, <1>3, <2>1, <2>3, RaiseStream
  <2>4. CASE Return(c)
    <3>1. Finish(c) /\ outcome' = outcome
      BY <2>1, <2>4 DEF Return, Result, Submitting
    <3>2. QED
      BY <1>2, <1>3, <2>1, <3>1, RaiseStream
  <2>5. QED
    BY <2>2, <2>3, <2>4
<1>5. CASE ReadEnds(c, out)
  <2>1. ~Submitting(c)
    BY <1>2, <1>5 DEF ReadEnds, StreamInv, CallStream, Ordering, Busy
  <2>2. Finish(c) /\ outcome' = outcome /\ UNCHANGED emitted
    BY <1>5 DEF ReadEnds
  <2>3. QED
    BY <1>2, <1>3, <2>1, <2>2, RaiseStream
<1>6. CASE ResolveEnds(c, out)
  <2>1. Resolving(req[c]) /\ UNCHANGED emitted
    BY <1>6 DEF ResolveEnds, Resolving
  <2>2. \E what \in {"deal", "search", "found"} : Continue(c, what, op[c]) \/ Raise(c)
    BY <1>6 DEF ResolveEnds
  <2>3. {"deal", "search", "found"} \subseteq Ordering /\ "confirm" \notin {"deal", "search", "found"}
    BY DEF Ordering
  <2>4. QED
    BY <1>2, <1>3, <2>1, <2>2, <2>3, RaiseStream
<1>7. CASE DealEnds(c, out)
  BY <1>1, <1>2, <1>7, DealStream
<1>8. CASE ConfirmEnds(c, out)
  BY <1>2, <1>8, ConfirmStream
<1>9. QED
  BY <1>1, <1>4, <1>5, <1>6, <1>7, <1>8

LEMMA WakeStream ==
  ASSUME DealInv, StreamInv, NEW c \in Callers, DisconnectEnds(c) \/ PollWakes(c)
  PROVE  StreamInv'
<1>1. {"read", "confirm"} \subseteq What
  BY DEF What
<1>2. CASE DisconnectEnds(c)
  <2>1. /\ Finish(c) /\ outcome' = outcome /\ UNCHANGED <<emitted, deal, placed>>
        /\ Busy(c) /\ req[c].leg = "logout"
    BY <1>2 DEF DisconnectEnds, LogoutEnds, venueVars
  <2>2. /\ \A d \in Callers \ {c} : req'[d] = req[d] /\ op'[d] = op[d]
        /\ op'[c] = NoOp
    BY <2>1 DEF Finish, DealInv, CallTypes
  <2>3. ~Submitting(c)'
    BY <2>2 DEF Submitting, NoOp
  <2>4. QED
    BY <2>1, <2>2, <2>3, QuietStep
<1>3. CASE PollWakes(c)
  <2>1. /\ Continue(c, "confirm", op[c]) /\ UNCHANGED <<emitted, deal, placed>>
        /\ req[c] = NoRequest
    BY <1>3 DEF PollWakes, Asleep, venueVars, Busy
  <2>2. ~Resolving(req[c])
    BY <2>1, WhatFacts
  <2>3. QED
    BY <1>1, <2>1, <2>2, RaiseStream DEF Ordering
<1>4. QED
  BY <1>2, <1>3

(* The venue answers: a confirm with the status, a deal by opening it.     *)
LEMMA RespondStream ==
  ASSUME DealInv, StreamInv, NEW c \in Callers, NEW a \in Answer, Respond(c, a)
  PROVE  StreamInv'
<1>1. Serve(c, a) /\ UNCHANGED <<outcome, emitted>>
  BY DEF Respond
<1>2. /\ req[c] \in Request /\ req[c].at = "wire" /\ a \in Answers(req[c])
      /\ \A d \in Callers \ {c} : req'[d] = req[d]
      /\ req'[c].what = req[c].what /\ req'[c].leg = req[c].leg
      /\ req'[c].at = "answered" /\ req'[c].answer = a
  <2>1. a \in Answers(req[c]) BY <1>1 DEF Serve
  <2>2. CallTypes BY DEF DealInv
  <2> QED BY <1>1, <2>1, <2>2, ServeFacts
<1>3. Resolving(req'[c]) <=> Resolving(req[c])
  BY <1>2 DEF Resolving
<1>4. Submitting(c) => req'[c].what \in Ordering
  BY <1>2, RequestFacts DEF StreamInv, CallStream
<1>5. EventTypes'
  BY <1>1 DEF StreamInv, EventTypes
<1>6. CASE req[c].what = "confirm" /\ UNCHANGED venueVars
  <2>1. Submitting(c)
    BY <1>6 DEF DealInv, OneDeal, Ordering
  <2>2. op[c] \in [kind: {"submit"}, order: Orders, polls: 0..(MaxPolls - 1), saw: Status]
    BY <2>1, OpFacts DEF DealInv, CallTypes, Submitting
  <2>3. op' = op \/ op' = [op EXCEPT ![c].saw = deal[op[c].order]]
    BY DEF Respond
  <2>4. /\ \A d \in Callers \ {c} : op'[d] = op[d]
        /\ op'[c].order = op[c].order /\ op'[c].saw \in {op[c].saw, deal[op[c].order]}
    BY <2>2, <2>3 DEF DealInv, CallTypes
  <2>5. UNCHANGED <<deal, placed>>
    BY <1>6 DEF venueVars
  <2>6. ~DealKnown(req'[c]) /\ ~Resolving(req[c])
    BY <1>2, <1>6 DEF DealKnown, Resolving
  <2>7. CallStream(c)'
    BY <1>1, <1>3, <1>4, <2>1, <2>4, <2>5, <2>6 DEF StreamInv, CallStream, DealKnown, Resolving
  <2>8. ASSUME NEW o \in Orders PROVE OrderStream(o)'
    BY <1>1, <2>5, <2>8 DEF StreamInv, OrderStream, Reports
  <2>9. QED
    BY <1>1, <1>2, <1>5, <2>4, <2>5, <2>7, <2>8, StreamStep
<1>7. CASE /\ req[c].what = "deal" /\ req[c].leg = "send" /\ a \in {"ok", "error"}
           /\ Opens(op[c].order, c)
  <2>1. op' = op
    BY <1>7 DEF Respond
  <2>2. Submitting(c) /\ op[c].order \in Orders /\ placed[op[c].order] = 0
    BY <1>2, <1>7, OpFacts DEF DealInv, OneDeal, CallTypes, Ordering, Submitting, BeforeDeal
  <2> PICK o \in Orders : o = op[c].order
    BY <2>2
  <2>3. /\ deal[o] = "none" /\ emitted[o] = <<>> /\ outcome[o] # "returned"
        /\ op[c].saw \notin Finals
    BY <1>7, <2>2 DEF StreamInv, OrderStream, CallStream, Resolving, Reports, Finals
  <2>4. /\ deal' = [deal EXCEPT ![o] = "open"] /\ placed' = [placed EXCEPT ![o] = @ + 1]
    BY <1>7 DEF Opens
  <2>5. /\ deal'[o] = "open" /\ placed'[o] = 1
        /\ \A p \in Orders \ {o} : deal'[p] = deal[p] /\ placed'[p] = placed[p]
    BY <2>2, <2>4 DEF DealInv, CallTypes
  <2>6. ASSUME NEW p \in Orders PROVE OrderStream(p)'
    <3>1. CASE p = o
      BY <1>1, <2>3, <2>5, <3>1 DEF OrderStream
    <3>2. CASE p # o
      <4>1. p \in Orders \ {o}
        BY <3>2
      <4>2. deal'[p] = deal[p] /\ placed'[p] = placed[p]
        BY <2>5, <4>1
      <4>3. QED
        BY <1>1, <4>2 DEF StreamInv, OrderStream, Reports
    <3>3. QED
      BY <3>1, <3>2
  <2>7. CallStream(c)'
    BY <1>1, <1>3, <1>4, <1>7, <2>1, <2>2, <2>3, <2>5 DEF CallStream, Resolving, DealKnown, Submitting
  <2>8. \A d \in Callers \ {c} : Submitting(d) => op[d].order \in Orders \ {o}
    BY <2>2, OpFacts DEF DealInv, CallTypes, OneDeal, Submitting
  <2>9. QED
    BY <1>1, <1>2, <1>5, <2>1, <2>5, <2>6, <2>7, <2>8, StreamStep
<1>8. CASE req[c].what # "confirm" /\ UNCHANGED venueVars
           /\ ~(/\ req[c].what = "deal" /\ req[c].leg = "send" /\ a = "ok"
                /\ req[c].token \in valid)
  <2>1. op' = op /\ UNCHANGED <<deal, placed>>
    BY <1>8 DEF Respond, venueVars
  <2>2. ~DealKnown(req'[c])
    BY <1>2, <1>8 DEF DealKnown, Answers
  <2>3. QED
    BY <1>1, <1>2, <1>3, <1>4, <2>1, <2>2, QuietStep DEF Submitting
<1>9. QED
  BY <1>6, <1>7, <1>8 DEF Respond

(* A session expires; the venue decides a deal.                            *)
LEMMA VenueStream ==
  ASSUME DealInv, StreamInv,
         \/ \E t \in Tokens : Expire(t) /\ UNCHANGED brokerVars
         \/ \E o \in Orders, status \in {"ACCEPTED", "REJECTED"} : VenueResolves(o, status)
  PROVE  StreamInv'
<1>1. UNCHANGED <<req, op, emitted, outcome, placed>>
  BY DEF Expire, brokerVars, VenueResolves, clientVars
<1>2. \A p \in Orders : deal'[p] = deal[p] \/ deal[p] = "open"
  BY DEF Expire, brokerVars, VenueResolves, DealInv, CallTypes
<1>3. ASSUME NEW p \in Orders PROVE OrderStream(p)'
  BY <1>1, <1>2 DEF StreamInv, OrderStream, Reports, DealInv, OneDeal
<1>4. ASSUME NEW c \in Callers PROVE CallStream(c)'
  <2>1. SUFFICES ASSUME Submitting(c) PROVE CallStream(c)'
    BY <1>1 DEF CallStream, Submitting
  <2>2. op[c].order \in Orders
    BY <2>1, OpFacts DEF DealInv, CallTypes, Submitting
  <2>3. op[c].saw \in Finals => deal'[op[c].order] = op[c].saw
    BY <1>2, <2>1, <2>2 DEF StreamInv, CallStream, Finals
  <2>4. QED
    BY <1>1, <2>1, <2>3 DEF StreamInv, CallStream, Submitting, Resolving, DealKnown
<1>5. EventTypes'
  BY <1>1 DEF StreamInv, EventTypes
<1>6. QED
  BY <1>3, <1>4, <1>5 DEF StreamInv

LEMMA InitStream == Init => StreamInv
<1> SUFFICES ASSUME Init PROVE StreamInv
  OBVIOUS
<1>1. EventTypes
  BY DEF Init, EventTypes
<1>2. ASSUME NEW o \in Orders PROVE OrderStream(o)
  BY <1>2 DEF Init, OrderStream
<1>3. ASSUME NEW c \in Callers PROVE CallStream(c)
  BY <1>3 DEF Init, CallStream, Submitting, NoOp
<1>4. QED
  BY <1>1, <1>2, <1>3 DEF StreamInv

LEMMA StreamNext == DealInv /\ StreamInv /\ [Next]_vars => StreamInv'
<1> SUFFICES ASSUME DealInv, StreamInv, [Next]_vars PROVE StreamInv'
  OBVIOUS
<1>1. CASE \E c \in Callers : Connect(c) \/ Disconnect(c) \/ Read(c)
  BY <1>1, StartStream
<1>2. CASE \E c \in Callers, o \in Orders : Submit(c, o)
  BY <1>2, SubmitStream
<1>3. CASE \E c \in Callers : Step(c)
  BY <1>3, InsideStream, RequestEndStream, WakeStream, RespondStream DEF Step
<1>4. CASE \/ \E t \in Tokens : Expire(t) /\ UNCHANGED brokerVars
           \/ \E o \in Orders, status \in {"ACCEPTED", "REJECTED"} : VenueResolves(o, status)
  BY <1>4, VenueStream
<1>5. CASE UNCHANGED vars
  <2>1. UNCHANGED <<req, op, emitted, outcome, deal, placed>>
    BY <1>5 DEF vars, clientVars, brokerVars
  <2>2. QED
    BY <2>1 DEF StreamInv, EventTypes, OrderStream, Reports, CallStream, Submitting,
                Resolving, DealKnown
<1>6. QED
  BY <1>1, <1>2, <1>3, <1>4, <1>5 DEF Next

LEMMA StreamAlways == Spec => [](DealInv /\ StreamInv)
  BY InitDeal, InitStream, DealStep, StreamNext, PTL DEF Spec

(* submit (broker.py) puts SUBMITTED once IG has answered the POST, and    *)
(* what a confirm says of the deal before it returns: for any callers over *)
(* the session, each stream says what the venue decided and nothing else.  *)
THEOREM StreamsTellTheDeal == Spec => []StreamTruthful
<1>1. StreamInv => StreamTruthful
  <2> SUFFICES ASSUME StreamInv, NEW o \in Orders
               PROVE  /\ "SUBMITTED" \in Range(emitted[o]) => placed[o] = 1
                      /\ "ACCEPTED" \in Range(emitted[o]) => deal[o] = "ACCEPTED"
                      /\ "REJECTED" \in Range(emitted[o]) => deal[o] = "REJECTED"
                      /\ outcome[o] = "returned" => deal[o] \in Range(emitted[o])
    BY DEF StreamTruthful
  <2>1. /\ emitted[o] # <<>> => placed[o] = 1
        /\ outcome[o] = "returned" => emitted[o] \in Reports(deal[o])
    BY DEF StreamInv, OrderStream
  <2>2. CASE emitted[o] = <<>>
    <3>1. Range(emitted[o]) = {}
      BY <2>2 DEF Range
    <3>2. <<>> \notin Reports(deal[o])
      BY DEF Reports
    <3>3. QED
      BY <2>1, <2>2, <3>1, <3>2
  <2>3. CASE emitted[o] = <<"SUBMITTED">>
    <3>1. Range(emitted[o]) = {"SUBMITTED"}
      BY <2>3 DEF Range
    <3>2. <<"SUBMITTED">> \notin Reports(deal[o]) /\ <<"SUBMITTED">> # <<>>
      BY DEF Reports
    <3>3. QED
      BY <2>1, <2>3, <3>1, <3>2
  <2>4. CASE /\ deal[o] = "ACCEPTED" /\ emitted[o] # <<>>
             /\ Range(emitted[o]) \in {{"SUBMITTED", "ACCEPTED"}, {"SUBMITTED", "ACCEPTED", "FILLED"}}
    BY <2>1, <2>4
  <2>5. CASE /\ deal[o] = "REJECTED" /\ emitted[o] # <<>>
             /\ Range(emitted[o]) = {"SUBMITTED", "REJECTED"}
    BY <2>1, <2>5
  <2>6. emitted[o] \in {<<>>, <<"SUBMITTED">>} \cup Reports(deal[o])
    BY DEF StreamInv, OrderStream
  <2>7. CASE emitted[o] \in Reports(deal[o])
    <3>1. CASE deal[o] = "ACCEPTED" /\ emitted[o] = <<"SUBMITTED", "ACCEPTED">>
      <4>1. Range(emitted[o]) = {"SUBMITTED", "ACCEPTED"} /\ emitted[o] # <<>>
        BY <3>1 DEF Range
      <4>2. QED
        BY <3>1, <4>1, <2>4
    <3>2. CASE deal[o] = "ACCEPTED" /\ emitted[o] = <<"SUBMITTED", "ACCEPTED", "FILLED">>
      <4>1. Range(emitted[o]) = {"SUBMITTED", "ACCEPTED", "FILLED"} /\ emitted[o] # <<>>
        BY <3>2 DEF Range
      <4>2. QED
        BY <3>2, <4>1, <2>4
    <3>3. CASE deal[o] = "REJECTED" /\ emitted[o] = <<"SUBMITTED", "REJECTED">>
      <4>1. Range(emitted[o]) = {"SUBMITTED", "REJECTED"} /\ emitted[o] # <<>>
        BY <3>3 DEF Range
      <4>2. QED
        BY <3>3, <4>1, <2>5
    <3>4. QED
      BY <2>7, <3>1, <3>2, <3>3 DEF Reports
  <2>8. QED
    BY <2>2, <2>3, <2>6, <2>7
<1>2. QED
  BY <1>1, StreamAlways, PTL

(* The events of an IG order walk the fourteen transitions of              *)
(* order_fsm.py, from the submit on.                                       *)
THEOREM StreamsWalkTheTable == Spec => []WalksFSM
<1>1. /\ "SUBMIT_PENDING" \in FSM!LegalBefore("SUBMITTED")
      /\ "SUBMITTED" \in FSM!LegalBefore("ACCEPTED")
      /\ "SUBMITTED" \in FSM!LegalBefore("REJECTED")
      /\ "ACCEPTED" \in FSM!LegalBefore("FILLED")
  <2>1. ASSUME NEW t \in FSM!Transitions PROVE t.from \in FSM!LegalBefore(t.event)
    BY <2>1 DEF FSM!LegalBefore
  <2>2. {FSM!T("SUBMIT_PENDING", "wire_ack", "SUBMITTED", "SUBMITTED"),
         FSM!T("SUBMITTED", "accept", "ACCEPTED", "ACCEPTED"),
         FSM!T("SUBMITTED", "reject", "REJECTED", "REJECTED"),
         FSM!T("ACCEPTED", "fill", "FILLED", "FILLED")} \subseteq FSM!Transitions
    BY DEF FSM!Transitions
  <2>3. \A from, trigger, to, event :
          /\ FSM!T(from, trigger, to, event).from = from
          /\ FSM!T(from, trigger, to, event).event = event
    BY DEF FSM!T
  <2> HIDE DEF FSM!T
  <2>4. QED
    BY <2>1, <2>2, <2>3
<1>2. ASSUME NEW s \in {<<>>, <<"SUBMITTED">>, <<"SUBMITTED", "ACCEPTED">>,
                        <<"SUBMITTED", "ACCEPTED", "FILLED">>, <<"SUBMITTED", "REJECTED">>},
             NEW i \in DOMAIN s
      PROVE  (IF i = 1 THEN "SUBMIT_PENDING" ELSE s[i - 1]) \in FSM!LegalBefore(s[i])
  <2>1. CASE s = <<>>
    BY <1>2, <2>1
  <2>2. CASE s = <<"SUBMITTED">>
    BY <1>1, <1>2, <2>2
  <2>3. CASE s = <<"SUBMITTED", "ACCEPTED">>
    BY <1>1, <1>2, <2>3
  <2>4. CASE s = <<"SUBMITTED", "ACCEPTED", "FILLED">>
    BY <1>1, <1>2, <2>4
  <2>5. CASE s = <<"SUBMITTED", "REJECTED">>
    BY <1>1, <1>2, <2>5
  <2>6. QED
    BY <1>2, <2>1, <2>2, <2>3, <2>4, <2>5
<1>3. StreamInv => WalksFSM
  <2> SUFFICES ASSUME StreamInv, NEW o \in Orders, NEW i \in DOMAIN emitted[o]
               PROVE  (IF i = 1 THEN "SUBMIT_PENDING" ELSE emitted[o][i - 1])
                        \in FSM!LegalBefore(emitted[o][i])
    BY DEF WalksFSM
  <2>1. emitted[o] \in {<<>>, <<"SUBMITTED">>, <<"SUBMITTED", "ACCEPTED">>,
                        <<"SUBMITTED", "ACCEPTED", "FILLED">>, <<"SUBMITTED", "REJECTED">>}
    BY DEF StreamInv, OrderStream, Reports
  <2>2. QED
    BY <1>2, <2>1
<1>4. QED
  BY <1>3, StreamAlways, PTL
-----------------------------------------------------------------------------
(* The session, and what became of it.                                     *)
SessionTypes ==
  /\ closed \in BOOLEAN /\ connected \in BOOLEAN /\ resolved \in BOOLEAN
  /\ reauthFailed \in BOOLEAN
  /\ valid \subseteq Tokens /\ session \in [Tokens -> Tokens]
  /\ account \in [Tokens -> {"default", "own"}]
  /\ dealAccount \in [Orders -> {"none", "default", "own"}]
  /\ calls \in 0..MaxCalls

(* A request holds a token the venue has issued, and holds one wherever it *)
(* needs one.                                                              *)
Held(r) ==
  /\ r.token <= issued
  /\ r.at # "answered" => r.answer = "none"
  /\ r.at = "wire" /\ r.leg # "login" => r.token # 0
  /\ r.answer = "ok" /\ r.leg \in {"refresh", "login"} => r.token # 0

TokensIssued ==
  /\ tokens <= issued /\ valid \subseteq 1..issued
  /\ \A c \in Callers : Busy(c) => Held(req[c])

(* A session is named by its first token.                                  *)
SessionsRooted ==
  \A t \in 1..issued : session[t] \in 1..t /\ session[session[t]] = session[t]

OneSession == \A t \in 1..issued : session[t] = 1

SwitchKnown(r) == r.what = "switch" /\ r.leg = "send" /\ r.at = "answered" /\ r.answer = "ok"

(* In the only session there was, the account is selected before the       *)
(* broker is connected, and so before any submit.                          *)
Choosing == connected \/ \E c \in Callers : Submitting(c) \/ SwitchKnown(req[c])

AccountChosen ==
  OneSession =>
    /\ Choosing => issued >= 1 /\ account[1] = "own"
    /\ \A o \in Orders : dealAccount[o] # "default"

(* Without tokens there is a cause, or nothing has been called yet.        *)
LoggingIn(c) == Busy(c) /\ req[c].leg = "login"
LossCause == reauthFailed \/ closed \/ \E c \in Callers : LoggingIn(c)
NothingYet == ~connected /\ \A c \in Callers : Idle(c) /\ ~Busy(c)
LossInv == tokens = 0 => LossCause \/ NothingYet

HolderInv == SessionTypes /\ TokensIssued /\ SessionsRooted /\ AccountChosen /\ LossInv

(* A step at which the venue opens no session and chooses no account.      *)
LEMMA HolderStep ==
  ASSUME HolderInv, NEW c \in Callers,
         \A d \in Callers \ {c} : req'[d] = req[d] /\ op'[d] = op[d],
         UNCHANGED <<venueSession, dealAccount>>,
         SessionTypes', LossInv', tokens' <= issued,
         Busy(c)' => Held(req'[c]),
         connected' => connected \/ SwitchKnown(req[c]),
         Submitting(c)' => Submitting(c) \/ connected,
         SwitchKnown(req'[c]) => SwitchKnown(req[c])
  PROVE  HolderInv'
<1>1. UNCHANGED <<issued, valid, session, account>>
  BY DEF venueSession
<1>2. \A d \in Callers : Busy(d)' => Held(req'[d])
  BY DEF HolderInv, TokensIssued, Busy
<1>3. TokensIssued'
  BY <1>1, <1>2 DEF HolderInv, TokensIssued, Held
<1>4. SessionsRooted'
  BY <1>1 DEF HolderInv, SessionsRooted
<1>5. Choosing' => Choosing
  BY DEF Choosing, Submitting, SwitchKnown
<1>6. AccountChosen'
  BY <1>1, <1>5 DEF HolderInv, AccountChosen, OneSession
<1>7. QED
  BY <1>3, <1>4, <1>6 DEF HolderInv

(* A step of one call keeps the cause of a loss, or makes one.             *)
LEMMA LossStep ==
  ASSUME LossInv, NEW c \in Callers,
         \A d \in Callers \ {c} : req'[d] = req[d],
         tokens' = 0 =>
           \/ closed' \/ reauthFailed' \/ LoggingIn(c)'
           \/ /\ tokens = 0 /\ (reauthFailed => reauthFailed') /\ (closed => closed')
              /\ ~LoggingIn(c) /\ ~NothingYet
  PROVE  LossInv'
<1>1. SUFFICES ASSUME tokens' = 0 PROVE LossCause'
  BY DEF LossInv
<1>2. CASE closed' \/ reauthFailed' \/ LoggingIn(c)'
  BY <1>2 DEF LossCause
<1>3. CASE /\ tokens = 0 /\ (reauthFailed => reauthFailed') /\ (closed => closed')
           /\ ~LoggingIn(c) /\ ~NothingYet
  <2>1. reauthFailed \/ closed \/ \E d \in Callers \ {c} : LoggingIn(d)
    BY <1>3 DEF LossInv, LossCause
  <2>2. QED
    BY <1>3, <2>1 DEF LossCause, LoggingIn, Busy
<1>4. QED
  BY <1>1, <1>2, <1>3

(* What a new request holds.                                               *)
LEMMA AskHeld ==
  ASSUME issued \in Nat, NEW what \in What
  PROVE  Held(Ask(what)) /\ ~SwitchKnown(Ask(what)) /\ ~SwitchKnown(NoRequest)
<1>1. Held(Ask(what)) /\ ~SwitchKnown(Ask(what))
  BY AskFacts DEF Held, SwitchKnown
<1>2. QED
  BY <1>1, RequestFacts DEF SwitchKnown

LEMMA StartHolder ==
  ASSUME DealInv, HolderInv, NEW c \in Callers, Connect(c) \/ Disconnect(c) \/ Read(c)
  PROVE  HolderInv'
<1>1. /\ UNCHANGED <<resolved, reauthFailed, tokens, venueSession, dealAccount>>
      /\ op[c] = NoOp /\ calls < MaxCalls /\ calls' = calls + 1
  BY DEF Connect, Disconnect, Read, Starts, Idle, venueVars
<1>2. \/ UNCHANGED <<req, op>>
      \/ \E what \in {"login", "switch", "logout", "read"},
            kind \in {"connect", "disconnect", "read"} :
           req' = [req EXCEPT ![c] = Ask(what)] /\ op' = [op EXCEPT ![c] = Plain(kind)]
  BY DEF Connect, Disconnect, Read
<1>3. ~Submitting(c)' /\ \A d \in Callers \ {c} : req'[d] = req[d] /\ op'[d] = op[d]
  BY <1>1, <1>2 DEF Submitting, NoOp, Plain, DealInv, CallTypes
<1>4. connected' \in {connected, FALSE} /\ closed' \in {closed, TRUE}
  BY DEF Connect, Disconnect, Read
<1>5. SessionTypes'
  <2>1. connected' \in BOOLEAN /\ closed' \in BOOLEAN
    BY <1>4 DEF HolderInv, SessionTypes
  <2>2. calls' \in 0..MaxCalls
    BY <1>1, IGBrokerAssumption DEF HolderInv, SessionTypes
  <2>3. QED
    BY <1>1, <2>1, <2>2 DEF HolderInv, SessionTypes, venueSession
<1>6. tokens' <= issued
  BY <1>1 DEF HolderInv, TokensIssued
<1>7. tokens' = 0 => closed' \/ LoggingIn(c)'
  <2>1. SUFFICES ASSUME tokens = 0 PROVE closed' \/ LoggingIn(c)'
    BY <1>1
  <2>2. CASE Connect(c)
    <3>1. req' = [req EXCEPT ![c] = Ask("login")] /\ "login" \in What
      BY <2>1, <2>2 DEF Connect, What
    <3>2. req'[c] = Ask("login")
      BY <3>1 DEF DealInv, CallTypes
    <3>3. QED
      BY <3>1, <3>2, AskFacts, WhatFacts DEF LoggingIn, Busy
  <2>3. CASE Disconnect(c) \/ Read(c)
    BY <2>1, <2>3 DEF Disconnect, Read
  <2>4. QED
    BY <2>2, <2>3
<1>8. LossInv'
  BY <1>3, <1>7, LossStep DEF HolderInv
<1>9. (Busy(c)' => Held(req'[c])) /\ (SwitchKnown(req'[c]) => SwitchKnown(req[c]))
  <2>1. issued \in Nat
    BY IGClientAssumption DEF DealInv, CallTypes
  <2>2. CASE UNCHANGED <<req, op>>
    BY <2>2 DEF HolderInv, TokensIssued, Busy
  <2>3. CASE \E what \in {"login", "switch", "logout", "read"} : req' = [req EXCEPT ![c] = Ask(what)]
    <3>1. PICK what \in {"login", "switch", "logout", "read"} : req' = [req EXCEPT ![c] = Ask(what)]
      BY <2>3
    <3>2. what \in What /\ req'[c] = Ask(what)
      BY <3>1 DEF What, DealInv, CallTypes
    <3>3. QED
      BY <2>1, <3>2, AskHeld
  <2>4. QED
    BY <1>2, <2>2, <2>3
<1>10. connected' => connected
  BY <1>4
<1>11. QED
  BY <1>1, <1>3, <1>5, <1>6, <1>8, <1>9, <1>10, HolderStep

LEMMA SubmitHolder ==
  ASSUME DealInv, HolderInv, NEW c \in Callers, NEW o \in Orders, Submit(c, o)
  PROVE  HolderInv'
<1>1. /\ UNCHANGED <<tokens, closed, connected, resolved, reauthFailed, calls, venueSession,
                     dealAccount>>
      /\ op[c] = NoOp /\ connected
  BY DEF Submit, Idle, venueVars
<1>2. \/ tokens = 0 /\ UNCHANGED <<req, op>>
      \/ /\ tokens # 0 /\ op' = [op EXCEPT ![c] = Submission(o)]
         /\ \E what \in {"deal", "market"} : req' = [req EXCEPT ![c] = Ask(what)]
  BY DEF Submit
<1>3. SessionTypes'
  BY <1>1 DEF HolderInv, SessionTypes, venueSession
<1>4. tokens' <= issued /\ issued \in Nat
  BY <1>1, IGClientAssumption DEF HolderInv, TokensIssued, DealInv, CallTypes
<1>5. CASE tokens = 0 /\ UNCHANGED <<req, op>>
  <2>1. LossInv'
    BY <1>1, <1>5 DEF HolderInv, LossInv, LossCause, LoggingIn, NothingYet, Idle, Busy
  <2>2. Busy(c)' => Held(req'[c])
    BY <1>5 DEF HolderInv, TokensIssued, Busy
  <2>3. QED
    BY <1>1, <1>3, <1>4, <1>5, <2>1, <2>2, HolderStep
<1>6. CASE tokens # 0 /\ \E what \in {"deal", "market"} : req' = [req EXCEPT ![c] = Ask(what)]
  <2>1. PICK what \in {"deal", "market"} : req' = [req EXCEPT ![c] = Ask(what)]
    BY <1>6
  <2>2. what \in What /\ req'[c] = Ask(what)
    BY <2>1 DEF What, DealInv, CallTypes
  <2>3. \A d \in Callers \ {c} : req'[d] = req[d] /\ op'[d] = op[d]
    BY <1>2, <2>1 DEF DealInv, CallTypes
  <2>4. Held(req'[c]) /\ ~SwitchKnown(req'[c])
    BY <1>4, <2>2, AskHeld
  <2>5. LossInv'
    BY <1>1, <1>6 DEF LossInv
  <2>6. QED
    BY <1>1, <1>3, <1>4, <2>3, <2>4, <2>5, HolderStep
<1>7. QED
  BY <1>2, <1>5, <1>6

(* Inside a request: the tokens dropped are those a login is to replace.   *)
LEMMA InsideHolder ==
  ASSUME DealInv, HolderInv, NEW c \in Callers, Inside(c)
  PROVE  HolderInv'
<1>1. /\ UNCHANGED <<closed, connected, resolved, calls, venueSession, dealAccount, op>>
      /\ reauthFailed' = (reauthFailed /\ tokens' = 0)
      /\ Send(c) \/ Recover(c)
  BY DEF Inside, Send, Recover, Refresh, Reauthenticate, Retry, venueVars
<1>2. Busy(c)
  <2>1. CASE Send(c)
    BY <2>1 DEF Send, At
  <2>2. CASE Recover(c)
    BY <2>2 DEF Recover, Refresh, Reauthenticate, Retry, Expired, RefreshRefused, Answered, At
  <2>3. QED
    BY <1>1, <2>1, <2>2
<1>3. /\ req[c] \in Request /\ Held(req[c]) /\ tokens \in Nat /\ issued \in Nat
      /\ tokens <= issued /\ req[c].token \in Nat
  BY <1>2, RequestFacts, IGClientAssumption
     DEF DealInv, CallTypes, HolderInv, TokensIssued, Busy
<1>4. SessionTypes'
  <2>1. reauthFailed' \in BOOLEAN
    BY <1>1
  <2>2. QED
    BY <1>1, <2>1 DEF HolderInv, SessionTypes, venueSession
<1>5. CASE Send(c)
  <2>1. req' = [req EXCEPT ![c].at = "wire", ![c].token = tokens] /\ tokens' = tokens
    BY <1>5 DEF Send
  <2>2. /\ \A d \in Callers \ {c} : req'[d] = req[d]
        /\ req'[c].at = "wire" /\ req'[c].token = tokens /\ req'[c].leg = req[c].leg
        /\ req'[c].answer = req[c].answer
    BY <1>3, <2>1 DEF DealInv, CallTypes, Request
  <2>3. (tokens # 0 \/ req[c].leg = "login") /\ req[c].at = "limiter"
    BY <1>5 DEF Send, HasHeaders, At
  <2>4. Held(req'[c]) /\ ~SwitchKnown(req'[c])
    BY <1>3, <2>2, <2>3 DEF Held, SwitchKnown
  <2>5. LossInv'
    <3>1. SUFFICES ASSUME tokens' = 0 PROVE LoggingIn(c)'
      BY <2>2, LossStep DEF HolderInv
    <3>2. req'[c].leg = "login" /\ req[c].leg = "login"
      BY <2>1, <2>2, <2>3, <3>1
    <3>3. req'[c] # NoRequest
      <4>1. req'[c] = [req[c] EXCEPT !.at = "wire", !.token = tokens]
        BY <2>1 DEF DealInv, CallTypes
      <4>2. req'[c].what \in What
        BY <1>3, <4>1 DEF Request
      <4>3. QED
        BY <4>2, RequestFacts DEF What
    <3>4. QED
      BY <3>2, <3>3 DEF LoggingIn, Busy
  <2>6. QED
    BY <1>1, <1>3, <1>4, <2>1, <2>2, <2>4, <2>5, HolderStep DEF Submitting
<1>6. CASE Recover(c)
  <2>1. PICK leg \in {"refresh", "login", "send"} :
          /\ Again(c, leg)
          /\ \/ leg = "refresh" /\ Refresh(c)
             \/ leg = "login" /\ Reauthenticate(c)
             \/ leg = "send" /\ Retry(c)
    BY <1>6 DEF Recover, Refresh, Reauthenticate, Retry
  <2>2. leg \in Leg \ {"logout"}
    BY DEF Leg
  <2>3. /\ \A d \in Callers \ {c} : req'[d] = req[d]
        /\ req'[c] \in Request /\ req'[c].at = "limiter" /\ req'[c].answer = "none"
        /\ req'[c].leg = leg /\ req'[c].token = req[c].token
    BY <1>2, <2>1, <2>2, AgainFacts DEF DealInv
  <2>4. Held(req'[c]) /\ ~SwitchKnown(req'[c]) /\ Busy(c)'
    BY <1>3, <2>3, RequestFacts DEF Held, SwitchKnown, Busy
  <2>5. /\ tokens' <= issued
        /\ leg = "send" => tokens' # 0
        /\ leg = "refresh" => tokens' = tokens /\ req[c].leg # "login"
    BY <1>3, <2>1 DEF Refresh, Reauthenticate, Retry, Held, Expired, Answered
  <2>6. LossInv'
    <3>1. CASE leg = "send"
      BY <2>5, <3>1 DEF LossInv
    <3>2. CASE leg = "login"
      <4>1. LoggingIn(c)'
        BY <2>3, <2>4, <3>2 DEF LoggingIn
      <4>2. QED
        BY <2>3, <4>1, LossStep DEF HolderInv
    <3>3. CASE leg = "refresh"
      <4>1. ~LoggingIn(c) /\ ~NothingYet
        BY <1>2, <2>5, <3>3 DEF LoggingIn, NothingYet
      <4>2. tokens' = 0 => (reauthFailed => reauthFailed')
        BY <1>1
      <4>3. QED
        BY <1>1, <2>3, <2>5, <3>3, <4>1, <4>2, LossStep DEF HolderInv
    <3>4. QED
      BY <3>1, <3>2, <3>3
  <2>7. QED
    BY <1>1, <1>4, <2>3, <2>4, <2>5, <2>6, HolderStep DEF Submitting
<1>7. QED
  BY <1>1, <1>5, <1>6

(* A request ends: with the tokens it brought, or those there are.         *)
LEMMA EndFacts ==
  ASSUME DealInv, NEW c \in Callers, RequestEnds(c)
  PROVE  /\ \A d \in Callers \ {c} : req'[d] = req[d] /\ op'[d] = op[d]
         /\ req'[c] = NoRequest \/ \E what \in What : req'[c] = Ask(what)
         /\ Submitting(c)' => Submitting(c)
         /\ connected' = connected \/ (connected' = TRUE /\ SwitchKnown(req[c]))
         /\ resolved' \in {resolved, TRUE}
<1>1. PICK out \in {"ok", "invalid", "error", "auth"} :
        /\ Ends(c, out)
        /\ \/ ConnectEnds(c, out) \/ ReadEnds(c, out) \/ ResolveEnds(c, out)
           \/ DealEnds(c, out) \/ ConfirmEnds(c, out)
  BY DEF RequestEnds
<1>2. CASE ~ConfirmEnds(c, out)
  <2>1. op[c] \in Ops /\ {"switch", "read", "deal", "search", "found", "confirm"} \subseteq What
    BY DEF DealInv, CallTypes, What
  <2>2. \E what \in {"switch", "read", "deal", "search", "found", "confirm"} :
           Continue(c, what, op[c]) \/ Raise(c) \/ Return(c) \/ (Finish(c) /\ outcome' = outcome)
    BY <1>1, <1>2 DEF ConnectEnds, ReadEnds, ResolveEnds, DealEnds
  <2>3. PICK what \in What :
           Continue(c, what, op[c]) \/ Raise(c) \/ Return(c) \/ (Finish(c) /\ outcome' = outcome)
    BY <2>1, <2>2
  <2>4. /\ \A d \in Callers \ {c} : req'[d] = req[d] /\ op'[d] = op[d]
        /\ \/ req'[c] = NoRequest /\ op'[c] = NoOp
           \/ req'[c] = Ask(what) /\ op'[c] = op[c]
    BY <2>1, <2>3, ContinueFacts DEF DealInv
  <2>5. connected' = connected \/ (connected' = TRUE /\ SwitchKnown(req[c]))
    <3>1. CASE ConnectEnds(c, out)
      <4>1. connected' = connected \/ (connected' = TRUE /\ out = "ok" /\ req[c].what = "switch")
        BY <3>1 DEF ConnectEnds
      <4>2. out = "ok" /\ req[c].what = "switch" => SwitchKnown(req[c])
        BY <1>1 DEF Ends, SwitchKnown, At, Answered
      <4>3. QED
        BY <4>1, <4>2
    <3>2. CASE ~ConnectEnds(c, out)
      BY <1>1, <1>2, <3>2 DEF ReadEnds, ResolveEnds, DealEnds
    <3>3. QED
      BY <3>1, <3>2
  <2>6. resolved' \in {resolved, TRUE}
    BY <1>1, <1>2 DEF ConnectEnds, ReadEnds, ResolveEnds, DealEnds
  <2>7. Submitting(c)' => Submitting(c)
    BY <2>4 DEF Submitting, NoOp
  <2>8. QED
    BY <2>4, <2>5, <2>6, <2>7
<1>3. CASE ConfirmEnds(c, out)
  <2>1. Submitting(c)
    BY <1>3 DEF ConfirmEnds, DealInv, OneDeal, Ordering
  <2>2. connected' = connected /\ resolved' = resolved
    BY <1>3 DEF ConfirmEnds
  <2>3. req' = [req EXCEPT ![c] = NoRequest]
    BY <1>3 DEF ConfirmEnds, Return, Raise, Finish, PollAgain
  <2>4. \A d \in Callers \ {c} : op'[d] = op[d]
    BY <1>3 DEF ConfirmEnds, Return, Raise, Finish, PollAgain, DealInv, CallTypes
  <2>5. QED
    BY <2>1, <2>2, <2>3, <2>4 DEF DealInv, CallTypes
<1>4. QED
  BY <1>2, <1>3

LEMMA EndHolder ==
  ASSUME DealInv, HolderInv, NEW c \in Callers, RequestEnds(c)
  PROVE  HolderInv'
<1>1. PICK out : Ends(c, out)
  BY DEF RequestEnds
<1>2. /\ UNCHANGED <<closed, calls, venueSession, dealAccount>>
      /\ Busy(c) /\ tokens' \in {tokens, req[c].token}
      /\ reauthFailed' = (tokens' = 0 /\ (reauthFailed \/ LoginFails(c)))
  BY <1>1 DEF RequestEnds, Ends, venueVars
<1>3. /\ req[c] \in Request /\ Held(req[c]) /\ tokens <= issued /\ issued \in Nat
  BY <1>2, IGClientAssumption DEF DealInv, CallTypes, HolderInv, TokensIssued, Busy
<1>4. SessionTypes'
  <2>1. reauthFailed' \in BOOLEAN
    BY <1>2
  <2>2. resolved' \in BOOLEAN
    BY EndFacts DEF HolderInv, SessionTypes
  <2>3. connected' \in BOOLEAN
    BY EndFacts DEF HolderInv, SessionTypes
  <2>4. QED
    BY <1>2, <2>1, <2>2, <2>3 DEF HolderInv, SessionTypes, venueSession
<1>5. tokens' <= issued
  BY <1>2, <1>3 DEF Held
<1>6. Busy(c)' => Held(req'[c]) /\ ~SwitchKnown(req'[c])
  BY <1>3, EndFacts, AskHeld DEF Busy
<1>7. ~SwitchKnown(NoRequest)
  BY RequestFacts DEF SwitchKnown
<1>8. LossInv'
  <2>1. SUFFICES ASSUME tokens' = 0, ~closed', ~reauthFailed'
                 PROVE  tokens = 0 /\ ~LoggingIn(c) /\ ~reauthFailed
    BY <1>2, EndFacts, LossStep DEF HolderInv, NothingYet
  <2>2. ~reauthFailed /\ ~LoginFails(c)
    BY <1>2, <2>1
  <2>3. ~(Answered(c, "login", "ok") /\ tokens' = req[c].token)
    BY <1>3, <2>1 DEF Answered, Held
  <2>4. tokens = 0
    BY <1>1, <2>1, <2>3 DEF Ends
  <2>5. ~LoggingIn(c)
    <3>1. SUFFICES ASSUME req[c].leg = "login" PROVE FALSE
      BY DEF LoggingIn
    <3>2. ~Unsendable(c)
      BY <1>2, <2>1, <3>1 DEF Unsendable, HasHeaders
    <3>3. ~(Answered(c, "login", "invalid") \/ Answered(c, "login", "error"))
      BY <2>2 DEF LoginFails
    <3>4. QED
      BY <1>1, <2>3, <3>1, <3>2, <3>3 DEF Ends, Answered, Expired
  <2>6. QED
    BY <2>2, <2>4, <2>5
<1>9. connected' => connected \/ SwitchKnown(req[c])
  BY EndFacts
<1>10. SwitchKnown(req'[c]) => SwitchKnown(req[c])
  BY <1>6, <1>7 DEF Busy
<1>11. QED
  BY <1>2, <1>4, <1>5, <1>6, <1>8, <1>9, <1>10, EndFacts, HolderStep

LEMMA WakeHolder ==
  ASSUME DealInv, HolderInv, NEW c \in Callers, DisconnectEnds(c) \/ PollWakes(c)
  PROVE  HolderInv'
<1>1. /\ UNCHANGED <<resolved, calls, venueSession, dealAccount, reauthFailed>>
      /\ issued \in Nat /\ op[c] \in Ops /\ "confirm" \in What
  BY IGClientAssumption DEF DisconnectEnds, PollWakes, venueVars, LogoutEnds, DealInv, CallTypes, What
<1>2. CASE DisconnectEnds(c)
  <2>1. closed' = TRUE /\ connected' = FALSE /\ tokens' = 0 /\ Finish(c)
    BY <1>2 DEF DisconnectEnds, LogoutEnds
  <2>2. /\ \A d \in Callers \ {c} : req'[d] = req[d] /\ op'[d] = op[d]
        /\ req'[c] = NoRequest /\ op'[c] = NoOp
    BY <2>1 DEF Finish, DealInv, CallTypes
  <2>3. SessionTypes'
    BY <1>1, <2>1 DEF HolderInv, SessionTypes, venueSession
  <2>4. LossInv'
    BY <2>1 DEF LossInv, LossCause
  <2>5. ~SwitchKnown(req'[c]) /\ ~Submitting(c)' /\ ~Busy(c)'
    BY <2>2, RequestFacts DEF SwitchKnown, Submitting, NoOp, Busy
  <2>6. tokens' <= issued
    BY <1>1, <2>1
  <2>7. QED
    BY <1>1, <2>1, <2>2, <2>3, <2>4, <2>5, <2>6, HolderStep
<1>3. CASE PollWakes(c)
  <2>1. /\ UNCHANGED <<closed, connected, tokens>> /\ Continue(c, "confirm", op[c])
        /\ Submitting(c) /\ ~Busy(c)
    BY <1>3 DEF PollWakes, Asleep, Submitting
  <2>2. /\ \A d \in Callers \ {c} : req'[d] = req[d] /\ op'[d] = op[d]
        /\ req'[c] = NoRequest \/ req'[c] = Ask("confirm")
    BY <1>1, <2>1, ContinueFacts DEF DealInv
  <2>3. SessionTypes'
    BY <1>1, <2>1 DEF HolderInv, SessionTypes, venueSession
  <2>4. (Busy(c)' => Held(req'[c])) /\ ~SwitchKnown(req'[c])
    BY <1>1, <2>2, AskHeld DEF Busy
  <2>5. LossInv'
    <3>1. ~NothingYet /\ ~LoggingIn(c)
      BY <2>1 DEF NothingYet, Idle, Submitting, NoOp, LoggingIn
    <3>2. QED
      BY <1>1, <2>1, <2>2, <3>1, LossStep DEF HolderInv
  <2>6. tokens' <= issued
    BY <2>1 DEF HolderInv, TokensIssued
  <2>7. QED
    BY <1>1, <2>1, <2>2, <2>3, <2>4, <2>5, <2>6, HolderStep
<1>4. QED
  BY <1>2, <1>3

(* The venue's answer to an exchange, and what it does to its sessions.    *)
LEMMA VenueFacts ==
  ASSUME DealInv, HolderInv, NEW c \in Callers, NEW a \in Answer, Serve(c, a)
  PROVE  /\ req[c] \in Request /\ Held(req[c]) /\ issued \in Nat
         /\ req[c].at = "wire" /\ a \in Answers(req[c])
         /\ a = "ok" /\ req[c].leg \in {"send", "logout"} => req[c].token \in 1..issued
         /\ req[c].leg # "login" => req[c].token \in 1..issued
<1>1. req[c] \in Request /\ Held(req[c]) /\ issued \in Nat
  <2>1. req[c] \in Request /\ issued \in Nat
    BY ServeFacts, IGClientAssumption DEF DealInv, CallTypes
  <2>2. Busy(c)
    BY DEF Serve, At
  <2>3. QED
    BY <2>1, <2>2 DEF HolderInv, TokensIssued
<1>2. req[c].at = "wire" /\ a \in Answers(req[c])
  BY DEF Serve, At
<1>3. req[c].leg # "login" => req[c].token \in 1..issued
  BY <1>1, <1>2, RequestFacts, IGClientAssumption DEF Held
<1>4. QED
  BY <1>1, <1>2, <1>3

(* A login opens a session, a refresh adds a token to one: either way the  *)
(* sessions stay rooted.                                                   *)
LEMMA OpensFacts ==
  ASSUME DealInv, HolderInv, NEW c \in Callers, NEW a \in Answer, Serve(c, a),
         a = "ok", req[c].leg \in {"refresh", "login"}
  PROVE  /\ issued' = issued + 1 /\ issued + 1 \in Tokens
         /\ session' \in [Tokens -> Tokens]
         /\ \A t \in 1..issued : session'[t] = session[t]
         /\ session'[issued + 1] =
              IF req[c].leg = "login" THEN issued + 1 ELSE session[req[c].token]
         /\ valid' = valid \cup {issued + 1} /\ account' = account
         /\ req'[c].token = issued + 1
<1>1. /\ req[c] \in Request /\ issued \in Nat /\ a \in Answers(req[c])
      /\ req[c].leg # "login" => req[c].token \in 1..issued
  BY VenueFacts
<1>2. issued + 1 \in Tokens
  <2>1. issued < MaxTokens
    BY <1>1 DEF Answers, NewTokens, Invalid
  <2>2. QED
    BY <1>1, <2>1, IGClientAssumption DEF Tokens
<1> DEFINE root == IF req[c].leg = "login" THEN issued + 1 ELSE session[req[c].token]
<1>3. req[c].token \in 1..issued => session[req[c].token] \in Tokens
  BY <1>1, <1>2, IGClientAssumption DEF HolderInv, SessionTypes, Tokens
<1>4. root \in Tokens
  BY <1>1, <1>2, <1>3
<1>5. /\ issued' = issued + 1 /\ valid' = valid \cup {issued + 1} /\ account' = account
      /\ session' = [session EXCEPT ![issued + 1] = root]
  BY DEF Serve
<1>6. req'[c].token = issued + 1
  <2>1. req' = [req EXCEPT ![c].at = "answered", ![c].answer = a, ![c].token = issued + 1]
    BY DEF Serve
  <2>2. QED
    BY <1>1, <2>1 DEF DealInv, CallTypes, Request
<1> HIDE DEF root
<1>7. /\ session' \in [Tokens -> Tokens] /\ session'[issued + 1] = root
      /\ \A t \in 1..issued : session'[t] = session[t]
  <2>1. \A t \in 1..issued : t # issued + 1 /\ t \in Tokens
    BY <1>1, <1>2, IGClientAssumption DEF Tokens
  <2>2. QED
    BY <1>2, <1>4, <1>5, <2>1 DEF HolderInv, SessionTypes
<1>8. QED
  BY <1>2, <1>5, <1>6, <1>7 DEF root

(* What any answer does.                                                   *)
LEMMA ServeHolder ==
  ASSUME DealInv, HolderInv, NEW c \in Callers, NEW a \in Answer, Serve(c, a)
  PROVE  /\ TokensIssued' /\ SessionsRooted'
         /\ issued <= issued' /\ issued' \in Nat
         /\ \A t \in 1..issued : session'[t] = session[t]
         /\ valid' \subseteq Tokens /\ session' \in [Tokens -> Tokens]
         /\ account' \in [Tokens -> {"default", "own"}]
         /\ issued >= 1 /\ account[1] = "own" => account'[1] = "own"
         /\ SwitchKnown(req'[c]) => req[c].token \in 1..issued /\ account'[session[req[c].token]] = "own"
<1>1. /\ req[c] \in Request /\ Held(req[c]) /\ issued \in Nat
      /\ req[c].at = "wire" /\ a \in Answers(req[c])
      /\ req[c].leg # "login" => req[c].token \in 1..issued
      /\ issued \in 0..MaxTokens
  BY VenueFacts DEF DealInv, CallTypes
<1>2. /\ \A d \in Callers \ {c} : req'[d] = req[d]
      /\ req'[c].what = req[c].what /\ req'[c].leg = req[c].leg
      /\ req'[c].at = "answered" /\ req'[c].answer = a /\ tokens' = tokens
  BY ServeFacts DEF DealInv
<1>3. \A d \in Callers \ {c} : Busy(d)' => Held(req[d])
  BY <1>2 DEF HolderInv, TokensIssued, Busy
<1>4. CASE a = "ok" /\ req[c].leg \in {"refresh", "login"}
  <2>1. /\ issued' = issued + 1 /\ issued + 1 \in Tokens
        /\ session' \in [Tokens -> Tokens]
        /\ \A t \in 1..issued : session'[t] = session[t]
        /\ session'[issued + 1] =
             IF req[c].leg = "login" THEN issued + 1 ELSE session[req[c].token]
        /\ valid' = valid \cup {issued + 1} /\ account' = account
        /\ req'[c].token = issued + 1
    BY <1>4, OpensFacts
  <2>2. TokensIssued'
    <3>1. Held(req[c])'
      BY <1>1, <1>2, <2>1 DEF Held
    <3>2. \A d \in Callers \ {c} : Busy(d)' => Held(req[d])'
      <4>1. SUFFICES ASSUME NEW d \in Callers \ {c}, Busy(d)' PROVE Held(req[d])'
        OBVIOUS
      <4>2. req[d] \in Request /\ req'[d] = req[d] /\ Held(req[d])
        BY <1>2, <1>3, <4>1 DEF DealInv, CallTypes, Busy
      <4>3. req[d].token \in Nat
        BY <4>2, RequestFacts, IGClientAssumption
      <4>4. req[d].token <= issued + 1
        BY <1>1, <4>2, <4>3 DEF Held
      <4>5. QED
        BY <2>1, <4>2, <4>4 DEF Held
    <3>3. tokens' <= issued'
      BY <1>1, <1>2, <2>1 DEF HolderInv, TokensIssued, DealInv, CallTypes
    <3>4. valid' \subseteq 1..issued'
      BY <1>1, <2>1 DEF HolderInv, TokensIssued
    <3>5. QED
      BY <3>1, <3>2, <3>3, <3>4 DEF TokensIssued
  <2>3. SessionsRooted'
    <3>1. ASSUME NEW t \in 1..issued
          PROVE  session'[t] \in 1..t /\ session'[session'[t]] = session'[t]
      <4>1. session[t] \in 1..t /\ session[session[t]] = session[t]
        BY DEF HolderInv, SessionsRooted
      <4>2. session[t] \in 1..issued
        BY <1>1, <4>1
      <4>3. QED
        BY <2>1, <4>1, <4>2
    <3>2. /\ session'[issued + 1] \in 1..(issued + 1)
          /\ session'[session'[issued + 1]] = session'[issued + 1]
      <4>1. CASE req[c].leg = "login"
        BY <1>1, <2>1, <4>1
      <4>2. CASE req[c].leg # "login"
        <5> DEFINE root == session[req[c].token]
        <5>1. req[c].token \in 1..issued
          BY <1>1, <4>2
        <5>2. root \in 1..req[c].token /\ session[root] = root
          BY <5>1 DEF HolderInv, SessionsRooted
        <5>3. root \in 1..issued
          BY <1>1, <5>1, <5>2
        <5>4. session'[issued + 1] = root /\ session'[root] = root
          BY <2>1, <4>2, <5>2, <5>3
        <5> HIDE DEF root
        <5>5. QED
          BY <1>1, <5>3, <5>4
      <4>3. QED
        BY <4>1, <4>2
    <3>3. \A t \in 1..issued' : t \in 1..issued \/ t = issued + 1
      BY <1>1, <2>1
    <3>4. QED
      BY <3>1, <3>2, <3>3 DEF SessionsRooted
  <2>4. ~SwitchKnown(req'[c])
    BY <1>2, <1>4 DEF SwitchKnown
  <2>5. valid' \subseteq Tokens
    BY <2>1 DEF HolderInv, SessionTypes
  <2>6. QED
    BY <1>1, <2>1, <2>2, <2>3, <2>4, <2>5 DEF HolderInv, SessionTypes
<1>5. CASE ~(a = "ok" /\ req[c].leg \in {"refresh", "login"})
  <2>1. /\ issued' = issued /\ session' = session /\ valid' \subseteq valid
        /\ account' = IF a = "ok" /\ req[c].leg = "send" /\ req[c].what = "switch"
                      THEN [account EXCEPT ![session[req[c].token]] = "own"] ELSE account
    BY <1>5 DEF Serve
  <2>2. req'[c].token = req[c].token
    <3>1. req' = [req EXCEPT ![c].at = "answered", ![c].answer = a, ![c].token = @]
      BY <1>5 DEF Serve
    <3>2. QED
      BY <1>1, <3>1 DEF DealInv, CallTypes, Request
  <2>3. TokensIssued'
    <3>1. Held(req[c])'
      BY <1>1, <1>2, <1>5, <2>1, <2>2 DEF Held
    <3>2. \A d \in Callers \ {c} : Busy(d)' => Held(req[d])'
      BY <1>2, <1>3, <2>1 DEF Held
    <3>3. QED
      BY <1>2, <2>1, <3>1, <3>2 DEF TokensIssued, HolderInv
  <2>4. SessionsRooted'
    BY <2>1 DEF HolderInv, SessionsRooted
  <2>5. /\ account' \in [Tokens -> {"default", "own"}]
        /\ account[1] = "own" /\ issued >= 1 => account'[1] = "own"
        /\ SwitchKnown(req'[c]) =>
             req[c].token \in 1..issued /\ account'[session[req[c].token]] = "own"
    <3>1. CASE a = "ok" /\ req[c].leg = "send" /\ req[c].what = "switch"
      <4>1. req[c].token \in 1..issued
        BY <1>1, <3>1
      <4>2. session[req[c].token] \in Tokens
        BY <1>1, <4>1, IGClientAssumption DEF HolderInv, SessionTypes, Tokens
      <4>3. issued >= 1 => 1 \in Tokens
        BY <1>1, IGClientAssumption DEF Tokens
      <4>4. QED
        BY <2>1, <3>1, <4>1, <4>2, <4>3 DEF HolderInv, SessionTypes
    <3>2. CASE ~(a = "ok" /\ req[c].leg = "send" /\ req[c].what = "switch")
      <4>1. account' = account /\ ~SwitchKnown(req'[c])
        BY <1>2, <2>1, <3>2 DEF SwitchKnown
      <4>2. QED
        BY <4>1 DEF HolderInv, SessionTypes
    <3>3. QED
      BY <3>1, <3>2
  <2>6. QED
    BY <1>1, <2>1, <2>3, <2>4, <2>5 DEF HolderInv, SessionTypes
<1>6. QED
  BY <1>4, <1>5

LEMMA RespondHolder ==
  ASSUME DealInv, HolderInv, NEW c \in Callers, NEW a \in Answer, Respond(c, a)
  PROVE  HolderInv'
<1>1. Serve(c, a) /\ UNCHANGED <<connected, resolved, calls, reauthFailed, tokens, closed>>
  BY DEF Respond, Serve
<1>2. /\ TokensIssued' /\ SessionsRooted'
      /\ issued <= issued' /\ issued' \in Nat
      /\ \A t \in 1..issued : session'[t] = session[t]
      /\ valid' \subseteq Tokens /\ session' \in [Tokens -> Tokens]
      /\ account' \in [Tokens -> {"default", "own"}]
      /\ issued >= 1 /\ account[1] = "own" => account'[1] = "own"
      /\ SwitchKnown(req'[c]) => req[c].token \in 1..issued /\ account'[session[req[c].token]] = "own"
  BY <1>1, ServeHolder
<1>3. /\ req[c] \in Request /\ issued \in Nat
      /\ req[c].leg # "login" => req[c].token \in 1..issued
      /\ \A d \in Callers \ {c} : req'[d] = req[d]
      /\ req'[c].leg = req[c].leg /\ req'[c].what = req[c].what
  BY <1>1, VenueFacts, ServeFacts DEF DealInv
<1>4. \A d \in Callers : Submitting(d)' = Submitting(d)
  <2>1. \/ op' = op
        \/ req[c].what = "confirm" /\ op' = [op EXCEPT ![c].saw = deal[op[c].order]]
    BY DEF Respond
  <2>2. CASE op' = op
    BY <2>2 DEF Submitting
  <2>3. CASE req[c].what = "confirm" /\ op' = [op EXCEPT ![c].saw = deal[op[c].order]]
    <3>1. op[c] \in [kind: {"submit"}, order: Orders, polls: 0..(MaxPolls - 1), saw: Status]
      BY <2>3, OpFacts DEF DealInv, OneDeal, CallTypes, Ordering, Submitting
    <3>2. op'[c].kind = op[c].kind /\ \A d \in Callers \ {c} : op'[d] = op[d]
      BY <2>3, <3>1 DEF DealInv, CallTypes
    <3>3. QED
      BY <3>2 DEF Submitting
  <2>4. QED
    BY <2>1, <2>2, <2>3
<1>5. \/ dealAccount' = dealAccount
      \/ /\ Submitting(c) /\ op[c].order \in Orders /\ req[c].token \in 1..issued
         /\ dealAccount' = [dealAccount EXCEPT ![op[c].order] = account[session[req[c].token]]]
  <2>1. CASE UNCHANGED venueVars
    BY <2>1 DEF venueVars
  <2>2. CASE req[c].what = "deal" /\ req[c].leg = "send" /\ Opens(op[c].order, c)
    <3>1. Submitting(c) /\ op[c].order \in Orders
      BY <2>2, OpFacts DEF DealInv, OneDeal, CallTypes, Ordering, Submitting
    <3>2. QED
      BY <1>3, <2>2, <3>1 DEF Opens
  <2>3. QED
    BY <2>1, <2>2 DEF Respond
<1>6. \A t \in 1..issued : t \in Tokens
  BY IGClientAssumption DEF Tokens, DealInv, CallTypes
<1>7. SessionTypes'
  <2>1. req[c].token \in 1..issued => account[session[req[c].token]] \in {"default", "own"}
    BY <1>6 DEF HolderInv, SessionTypes
  <2>2. dealAccount' \in [Orders -> {"none", "default", "own"}]
    BY <1>5, <2>1 DEF HolderInv, SessionTypes
  <2>3. QED
    BY <1>1, <1>2, <2>2 DEF HolderInv, SessionTypes
<1>8. LossInv'
  <2>1. Busy(c) /\ Busy(c)'
    <3>1. req'[c].what = req[c].what /\ req[c].what \in What
      BY <1>3, RequestFacts
    <3>2. QED
      BY <1>3, <3>1, RequestFacts DEF Busy, What
  <2>2. SUFFICES ASSUME tokens = 0 PROVE LossCause'
    BY <1>1 DEF LossInv
  <2>3. LossCause
    BY <2>1, <2>2 DEF HolderInv, LossInv, NothingYet
  <2>4. \A d \in Callers : LoggingIn(d) => LoggingIn(d)'
    BY <1>3, <2>1 DEF LoggingIn, Busy
  <2>5. QED
    BY <1>1, <2>3, <2>4 DEF LossCause
<1>9. AccountChosen'
  <2>1. SUFFICES ASSUME OneSession'
                 PROVE  /\ Choosing' => issued' >= 1 /\ account'[1] = "own"
                        /\ \A o \in Orders : dealAccount'[o] # "default"
    BY DEF AccountChosen
  <2>2. OneSession
    <3>1. \A t \in 1..issued : t \in 1..issued'
      BY <1>2, <1>3
    <3>2. QED
      BY <1>2, <2>1, <3>1 DEF OneSession
  <2>3. /\ Choosing => issued >= 1 /\ account[1] = "own"
        /\ \A o \in Orders : dealAccount[o] # "default"
    BY <2>2 DEF HolderInv, AccountChosen
  <2>4. req[c].token \in 1..issued => session[req[c].token] = 1 /\ issued >= 1
    BY <1>3, <2>2 DEF OneSession
  <2>5. Choosing' => Choosing \/ SwitchKnown(req'[c])
    BY <1>1, <1>3, <1>4 DEF Choosing, SwitchKnown
  <2>6. issued >= 1 => issued' >= 1
    BY <1>2, <1>3
  <2>7. Choosing' => issued' >= 1 /\ account'[1] = "own"
    BY <1>2, <2>3, <2>4, <2>5, <2>6
  <2>8. \A o \in Orders : dealAccount'[o] # "default"
    <3>1. CASE dealAccount' = dealAccount
      BY <2>3, <3>1
    <3>2. CASE /\ Submitting(c) /\ req[c].token \in 1..issued
               /\ dealAccount' = [dealAccount EXCEPT ![op[c].order] = account[session[req[c].token]]]
      <4>1. account[session[req[c].token]] = "own"
        BY <2>3, <2>4, <3>2 DEF Choosing
      <4>2. QED
        BY <2>3, <3>2, <4>1 DEF HolderInv, SessionTypes
    <3>3. QED
      BY <1>5, <3>1, <3>2
  <2>9. QED
    BY <2>7, <2>8
<1>10. QED
  BY <1>2, <1>7, <1>8, <1>9 DEF HolderInv

LEMMA VenueHolder ==
  ASSUME DealInv, HolderInv,
         \/ \E t \in Tokens : Expire(t) /\ UNCHANGED brokerVars
         \/ \E o \in Orders, status \in {"ACCEPTED", "REJECTED"} : VenueResolves(o, status)
         \/ UNCHANGED vars
  PROVE  HolderInv'
<1>1. /\ UNCHANGED <<tokens, closed, req, issued, session, account, connected, resolved, op,
                     dealAccount, calls, reauthFailed>>
      /\ valid' \subseteq valid
  BY DEF Expire, brokerVars, VenueResolves, clientVars, vars
<1>2. SessionTypes'
  BY <1>1 DEF HolderInv, SessionTypes
<1>3. TokensIssued' /\ SessionsRooted'
  BY <1>1 DEF HolderInv, TokensIssued, SessionsRooted, Held, Busy
<1>4. AccountChosen'
  BY <1>1 DEF HolderInv, AccountChosen, OneSession, Choosing, Submitting, SwitchKnown
<1>5. LossInv'
  BY <1>1 DEF HolderInv, LossInv, LossCause, LoggingIn, NothingYet, Idle, Busy
<1>6. QED
  BY <1>2, <1>3, <1>4, <1>5 DEF HolderInv

LEMMA InitHolder == Init => HolderInv
<1> SUFFICES ASSUME Init PROVE HolderInv
  OBVIOUS
<1>1. SessionTypes
  <2>1. closed \in BOOLEAN /\ connected \in BOOLEAN /\ resolved \in BOOLEAN /\ reauthFailed \in BOOLEAN
    BY DEF Init, ClientInit
  <2>2. session \in [Tokens -> Tokens] /\ account \in [Tokens -> {"default", "own"}]
    BY DEF Init, ClientInit
  <2>3. /\ valid \subseteq Tokens /\ dealAccount \in [Orders -> {"none", "default", "own"}]
        /\ calls \in 0..MaxCalls
    BY IGBrokerAssumption DEF Init, ClientInit
  <2>4. QED
    BY <2>1, <2>2, <2>3 DEF SessionTypes
<1>2. \A c \in Callers : Idle(c) /\ ~Busy(c) /\ ~Submitting(c) /\ ~SwitchKnown(req[c])
  BY RequestFacts DEF Init, ClientInit, Idle, Busy, Submitting, NoOp, SwitchKnown
<1>3. TokensIssued
  BY <1>2 DEF Init, ClientInit, TokensIssued
<1>4. SessionsRooted
  BY DEF Init, ClientInit, SessionsRooted
<1>5. AccountChosen
  BY <1>2 DEF Init, AccountChosen, Choosing
<1>6. LossInv
  BY <1>2 DEF Init, LossInv, NothingYet
<1>7. QED
  BY <1>1, <1>3, <1>4, <1>5, <1>6 DEF HolderInv

LEMMA HolderNext == DealInv /\ HolderInv /\ [Next]_vars => HolderInv'
<1> SUFFICES ASSUME DealInv, HolderInv, [Next]_vars PROVE HolderInv'
  OBVIOUS
<1>1. CASE \E c \in Callers : Connect(c) \/ Disconnect(c) \/ Read(c)
  BY <1>1, StartHolder
<1>2. CASE \E c \in Callers, o \in Orders : Submit(c, o)
  BY <1>2, SubmitHolder
<1>3. CASE \E c \in Callers : Step(c)
  BY <1>3, InsideHolder, EndHolder, WakeHolder, RespondHolder DEF Step
<1>4. CASE \/ \E t \in Tokens : Expire(t) /\ UNCHANGED brokerVars
           \/ \E o \in Orders, status \in {"ACCEPTED", "REJECTED"} : VenueResolves(o, status)
           \/ UNCHANGED vars
  BY <1>4, VenueHolder
<1>5. QED
  BY <1>1, <1>2, <1>3, <1>4 DEF Next

(* A second session has a first token of its own.                          *)
LEMMA TwoLogins ==
  ASSUME issued \in Nat, SessionsRooted, ~OneSession
  PROVE  Logins > 1
<1> DEFINE roots == {t \in 1..issued : session[t] = t}
<1>1. PICK t \in 1..issued : session[t] # 1
  BY DEF OneSession
<1>2. session[t] \in 1..t /\ session[session[t]] = session[t]
  BY DEF SessionsRooted
<1>3. 1 \in roots
  <2>1. 1 \in 1..issued
    BY <1>1
  <2>2. session[1] \in 1..1
    BY <2>1 DEF SessionsRooted
  <2>3. QED
    BY <2>1, <2>2
<1>4. session[t] \in roots
  BY <1>1, <1>2
<1>5. IsFiniteSet(1..issued) /\ roots \subseteq 1..issued
  BY FS_Interval
<1>6. IsFiniteSet(roots)
  BY <1>5, FS_Subset
<1> HIDE DEF roots
<1>7. IsFiniteSet({1, session[t]}) /\ Cardinality({1, session[t]}) = 2
  <2>1. IsFiniteSet({1}) /\ Cardinality({1}) = 1
    BY FS_Singleton
  <2>2. session[t] \notin {1}
    BY <1>1
  <2>3. IsFiniteSet({1} \cup {session[t]}) /\ Cardinality({1} \cup {session[t]}) = 1 + 1
    BY <2>1, <2>2, FS_AddElement
  <2>4. {1, session[t]} = {1} \cup {session[t]}
    OBVIOUS
  <2>5. QED
    BY <2>3, <2>4
<1>8. {1, session[t]} \subseteq roots
  BY <1>3, <1>4
<1>9. Cardinality(roots) >= 2 /\ Cardinality(roots) \in Nat
  BY <1>6, <1>7, <1>8, FS_Subset, FS_CardinalityType
<1>10. QED
  BY <1>9 DEF Logins, roots

(* connect, disconnect and _request (client.py) share one pair of tokens:  *)
(* for any callers over it, a connected broker is without only for a       *)
(* cause, and its orders go to the account it chose unless the session is  *)
(* a second one; and every variable keeps its type.                        *)
THEOREM SessionHasItsAccount == Spec => []SessionInv
<1>1. DealInv /\ StreamInv /\ HolderInv => SessionInv
  <2> SUFFICES ASSUME DealInv, StreamInv, HolderInv PROVE SessionInv
    OBVIOUS
  <2>1. TypeOK
    BY DEF DealInv, CallTypes, StreamInv, EventTypes, Kinds, HolderInv, SessionTypes, TypeOK,
           ClientTypeOK
  <2>2. SessionLossHasCause
    BY DEF HolderInv, LossInv, LossCause, NothingYet, LoggingIn, SessionLossHasCause
  <2>3. StrayNeedsRelogin
    <3>1. issued \in Nat /\ SessionsRooted
      BY IGClientAssumption DEF DealInv, CallTypes, HolderInv
    <3>2. OneSession => \A o \in Orders : dealAccount[o] # "default"
      BY DEF HolderInv, AccountChosen
    <3>3. QED
      BY <3>1, <3>2, TwoLogins DEF StrayNeedsRelogin
  <2>4. QED
    BY <2>1, <2>2, <2>3 DEF SessionInv
<1>2. QED
  BY <1>1, InitDeal, InitStream, InitHolder, DealStep, StreamNext, HolderNext, PTL DEF Spec
-----------------------------------------------------------------------------
(***************************************************************************)
(* The subscriptions.                                                      *)
(***************************************************************************)

(* What a coroutine inside a call holds; n is the number of streams made.  *)
CallStates(n) ==
  {NoCall} \cup
  [at: Points \cup {"unsubscribe"}, instrument: Instruments, stream: 0..n]

MarketTypes ==
  /\ free \in Nat /\ made \in Nat /\ cancelled \in Nat
  /\ active \in [Instruments -> 0..made]
  /\ task \in [Tasks -> CallStates(made)]
  /\ open \subseteq 1..made /\ replaced \subseteq 1..made /\ stray \subseteq 1..made

(* The stream a call that holds a slot has, 0 for none.                    *)
StreamOf(t) == IF HoldsSlot(t) THEN task[t].stream ELSE 0

(* A call has a stream only once the source made it one; an unsubscribe    *)
(* always has one.                                                         *)
StreamsWhenMade ==
  \A t \in Tasks :
    /\ task[t].at \in {"acquire", "resolve", "connect"} => task[t].stream = 0
    /\ task[t].at = "unsubscribe" => task[t].stream # 0

(* No stream is with two owners, and one that was replaced is with none.   *)
OneOwner ==
  /\ \A i, j \in Live : active[i] = active[j] => i = j
  /\ \A t \in Tasks, i \in Live : StreamOf(t) # active[i]
  /\ \A t, u \in Tasks : StreamOf(t) = StreamOf(u) /\ StreamOf(t) # 0 => t = u
  /\ \A i \in Live : active[i] \notin replaced
  /\ \A t \in Tasks : StreamOf(t) \notin replaced

OpenOwned ==
  \A s \in open :
    \/ \E i \in Instruments : s = active[i]
    \/ \E t \in Tasks : s = StreamOf(t)
    \/ s \in replaced \cup stray

SlotsIInv == MarketTypes /\ StreamsWhenMade /\ OneOwner /\ OpenOwned /\ SlotsAccounted

-----------------------------------------------------------------------------
LEMMA SlotsStart == SubscriptionsInit => SlotsIInv
<1> SUFFICES ASSUME SubscriptionsInit PROVE SlotsIInv
  OBVIOUS
<1> USE SubscriptionsAssumption
<1>1. /\ \A i \in Instruments : active[i] = 0
      /\ \A t \in Tasks : task[t] = NoCall /\ task[t].at = "idle" /\ StreamOf(t) = 0
  BY DEF SubscriptionsInit, NoCall, StreamOf, HoldsSlot
<1>2. Calls = {} /\ Live = {}
  BY <1>1 DEF Calls, Live, HoldsSlot
<1>3. MarketTypes
  BY DEF SubscriptionsInit, MarketTypes, CallStates
<1>4. StreamsWhenMade
  BY <1>1 DEF StreamsWhenMade
<1>5. OneOwner
  BY <1>1, <1>2 DEF OneOwner, SubscriptionsInit
<1>6. OpenOwned
  BY DEF OpenOwned, SubscriptionsInit
<1>7. SlotsAccounted
  BY <1>2, FS_EmptySet DEF SlotsAccounted, SubscriptionsInit
<1>8. QED
  BY <1>3, <1>4, <1>5, <1>6, <1>7 DEF SlotsIInv

(* A coroutine in a call has an instrument and perhaps a stream.           *)
LEMMA InCall ==
  ASSUME MarketTypes, NEW t \in Tasks, task[t].at \in Points \cup {"unsubscribe"}
  PROVE  /\ task[t] \in [at: Points \cup {"unsubscribe"}, instrument: Instruments,
                         stream: 0..made]
         /\ task[t].instrument \in Instruments /\ task[t].stream \in 0..made
<1>1. task[t] # NoCall
  BY DEF NoCall, Points
<1>2. QED
  BY <1>1 DEF MarketTypes, CallStates

(* One coroutine moves.                                                    *)
Moves(t) == \A u \in Tasks \ {t} : task'[u] = task[u]

LEMMA OthersStay ==
  ASSUME NEW t \in Tasks, Moves(t), NEW u \in Tasks \ {t}
  PROVE  StreamOf(u)' = StreamOf(u) /\ (HoldsSlot(u)' <=> HoldsSlot(u))
BY DEF Moves, StreamOf, HoldsSlot

(* It is left at `at' with stream s, or outside any call.                  *)
LEMMA MovesTo ==
  ASSUME MarketTypes, NEW t \in Tasks, NEW n \in Nat, made <= n, NEW r \in CallStates(n),
         task' = [task EXCEPT ![t] = r]
  PROVE  task' \in [Tasks -> CallStates(n)] /\ task'[t] = r /\ Moves(t)
<1>1. CallStates(made) \subseteq CallStates(n)
  BY DEF CallStates, MarketTypes
<1>2. task \in [Tasks -> CallStates(n)]
  BY <1>1 DEF MarketTypes
<1>3. QED
  BY <1>2 DEF Moves

LEMMA LeavesTo ==
  ASSUME MarketTypes, NEW t \in Tasks, Leave(t)
  PROVE  /\ task' \in [Tasks -> CallStates(made)] /\ task'[t] = NoCall /\ Moves(t)
         /\ ~HoldsSlot(t)' /\ StreamOf(t)' = 0
<1>1. NoCall \in CallStates(made) /\ made \in Nat /\ made <= made
  BY DEF CallStates, MarketTypes
<1>2. task' \in [Tasks -> CallStates(made)] /\ task'[t] = NoCall /\ Moves(t)
  BY <1>1, MovesTo DEF Leave
<1>3. task'[t].at = "idle"
  BY <1>2 DEF NoCall
<1>4. QED
  BY <1>2, <1>3 DEF HoldsSlot, StreamOf

LEMMA GoesTo ==
  ASSUME MarketTypes, NEW t \in Tasks, task[t].at \in Points,
         NEW at \in Points, Goto(t, at)
  PROVE  /\ task' \in [Tasks -> CallStates(made)] /\ Moves(t)
         /\ task'[t].at = at /\ task'[t].stream = task[t].stream
<1> DEFINE r == [task[t] EXCEPT !.at = at]
<1>1. /\ task[t] \in [at: Points \cup {"unsubscribe"}, instrument: Instruments,
                      stream: 0..made]
  BY InCall
<1>2. r \in CallStates(made) /\ r.at = at /\ r.stream = task[t].stream
  BY <1>1 DEF CallStates
<1>3. task' = [task EXCEPT ![t] = r] /\ made \in Nat /\ made <= made
  BY DEF Goto, MarketTypes
<1> HIDE DEF r
<1>4. task' \in [Tasks -> CallStates(made)] /\ task'[t] = r /\ Moves(t)
  BY <1>2, <1>3, MovesTo
<1>5. QED
  BY <1>2, <1>4
-----------------------------------------------------------------------------
(* The size of a union is at most the sum of the sizes.                    *)
LEMMA UnionSize ==
  ASSUME NEW S, NEW T, IsFiniteSet(S), IsFiniteSet(T)
  PROVE  /\ IsFiniteSet(S \cup T) /\ Cardinality(S \cup T) \in Nat
         /\ Cardinality(S \cup T) <= Cardinality(S) + Cardinality(T)
<1>1. /\ Cardinality(S \cap T) \in Nat /\ Cardinality(S) \in Nat /\ Cardinality(T) \in Nat
  <2>1. IsFiniteSet(S \cap T)
    BY FS_Intersection
  <2>2. QED
    BY <2>1, FS_CardinalityType
<1>2. IsFiniteSet(S \cup T) /\ Cardinality(S \cup T) \in Nat
  BY FS_Union, FS_CardinalityType
<1>3. Cardinality(S \cup T) = Cardinality(S) + Cardinality(T) - Cardinality(S \cap T)
  BY FS_Union
<1>4. QED
  BY <1>1, <1>2, <1>3

(* How many calls hold a slot, and how many instruments have a stream.     *)
Holds(t) == IF HoldsSlot(t) THEN 1 ELSE 0

LEMMA CallsFinite ==
  /\ IsFiniteSet(Calls) /\ Cardinality(Calls) \in Nat
  /\ IsFiniteSet(Calls') /\ Cardinality(Calls') \in Nat
<1>1. Calls \in SUBSET Tasks /\ Calls' \in SUBSET Tasks
  BY DEF Calls
<1>2. QED
  BY <1>1, SubscriptionsAssumption, FS_Subset, FS_CardinalityType

LEMMA CallsCounted ==
  ASSUME NEW t \in Tasks, Moves(t)
  PROVE  Cardinality(Calls') = Cardinality(Calls) + Holds(t)' - Holds(t)
<1>1. \A u \in Tasks \ {t} : u \in Calls' <=> u \in Calls
  BY OthersStay DEF Calls
<1>2. (t \in Calls <=> HoldsSlot(t)) /\ (t \in Calls' <=> HoldsSlot(t)')
  BY DEF Calls
<1>3. Calls \subseteq Tasks /\ Calls' \subseteq Tasks
  BY DEF Calls
<1>4. CASE HoldsSlot(t)'
  <2>1. Calls' = Calls \cup {t}
    BY <1>1, <1>2, <1>3, <1>4
  <2>2. Cardinality(Calls') = IF t \in Calls THEN Cardinality(Calls) ELSE Cardinality(Calls) + 1
    BY <2>1, CallsFinite, FS_AddElement
  <2>3. QED
    BY <1>2, <1>4, <2>2, CallsFinite DEF Holds
<1>5. CASE ~HoldsSlot(t)'
  <2>1. Calls' = Calls \ {t}
    BY <1>1, <1>2, <1>3, <1>5
  <2>2. Cardinality(Calls') = IF t \in Calls THEN Cardinality(Calls) - 1 ELSE Cardinality(Calls)
    BY <2>1, CallsFinite, FS_RemoveElement
  <2>3. QED
    BY <1>2, <1>5, <2>2, CallsFinite DEF Holds
<1>6. QED
  BY <1>4, <1>5

LEMMA LiveFinite ==
  /\ IsFiniteSet(Live) /\ Cardinality(Live) \in Nat
<1>1. Live \in SUBSET Instruments
  BY DEF Live
<1>2. QED
  BY <1>1, SubscriptionsAssumption, FS_Subset, FS_CardinalityType

LEMMA ReplacedFinite ==
  ASSUME MarketTypes
  PROVE  IsFiniteSet(replaced) /\ Cardinality(replaced) \in Nat
<1>1. replaced \in SUBSET (1..made) /\ made \in Int /\ 1 \in Int
  BY DEF MarketTypes
<1>2. IsFiniteSet(1..made)
  BY <1>1, FS_Interval
<1>3. QED
  BY <1>1, <1>2, FS_Subset, FS_CardinalityType
-----------------------------------------------------------------------------
(* A step inside a call that touches no entry: it keeps its stream, or     *)
(* leaves it to nobody but the strays, or closes it.                       *)
LEMMA UnstoredStep ==
  ASSUME SlotsIInv, NEW t \in Tasks, Moves(t), UNCHANGED <<active, replaced>>,
         StreamOf(t)' \in {0, StreamOf(t)},
         open' \subseteq open, stray \subseteq stray',
         \/ StreamOf(t)' = StreamOf(t)
         \/ StreamOf(t) = 0
         \/ StreamOf(t) \in stray'
         \/ StreamOf(t) \notin open',
         free' \in Nat, cancelled' \in Nat,
         free' + cancelled' + Holds(t)' = free + cancelled + Holds(t)
  PROVE  OneOwner' /\ OpenOwned' /\ SlotsAccounted'
<1>1. Live' = Live
  BY DEF Live
<1>2. \A u \in Tasks \ {t} : StreamOf(u)' = StreamOf(u)
  BY OthersStay
<1>3. 0 \notin replaced /\ 0 \notin open /\ \A i \in Live : active[i] # 0
  BY DEF SlotsIInv, MarketTypes, Live
<1>4. OneOwner'
  <2>1. \A i, j \in Live' : active'[i] = active'[j] => i = j
    BY <1>1 DEF SlotsIInv, OneOwner
  <2>2. ASSUME NEW u \in Tasks, NEW i \in Live' PROVE StreamOf(u)' # active'[i]
    BY <1>1, <1>2, <1>3 DEF SlotsIInv, OneOwner
  <2>3. ASSUME NEW u \in Tasks, NEW v \in Tasks,
               StreamOf(u)' = StreamOf(v)' /\ StreamOf(u)' # 0
        PROVE  u = v
    <3>1. StreamOf(u)' = StreamOf(u) /\ StreamOf(v)' = StreamOf(v)
      BY <1>2, <2>3
    <3>2. QED
      BY <2>3, <3>1 DEF SlotsIInv, OneOwner
  <2>4. \A i \in Live' : active'[i] \notin replaced'
    BY <1>1 DEF SlotsIInv, OneOwner
  <2>5. \A u \in Tasks : StreamOf(u)' \notin replaced'
    BY <1>2, <1>3 DEF SlotsIInv, OneOwner
  <2>6. QED
    BY <2>1, <2>2, <2>3, <2>4, <2>5 DEF OneOwner
<1>5. OpenOwned'
  <2> SUFFICES ASSUME NEW s \in open'
               PROVE  \/ \E i \in Instruments : s = active'[i]
                      \/ \E u \in Tasks : s = StreamOf(u)'
                      \/ s \in replaced' \cup stray'
    BY DEF OpenOwned
  <2>1. CASE \E i \in Instruments : s = active[i]
    BY <2>1
  <2>2. CASE \E u \in Tasks : s = StreamOf(u)
    <3>1. PICK u \in Tasks : s = StreamOf(u)
      BY <2>2
    <3>2. CASE u # t
      BY <1>2, <3>1, <3>2
    <3>3. CASE u = t
      BY <1>3, <3>1, <3>3
    <3>4. QED
      BY <3>2, <3>3
  <2>3. CASE s \in replaced \cup stray
    BY <2>3
  <2>4. QED
    BY <2>1, <2>2, <2>3 DEF SlotsIInv, OpenOwned
<1>6. SlotsAccounted'
  <2>1. Cardinality(Calls') = Cardinality(Calls) + Holds(t)' - Holds(t)
    BY CallsCounted
  <2>2. Cardinality(Live') = Cardinality(Live) /\ Cardinality(replaced') = Cardinality(replaced)
    BY <1>1
  <2>3. /\ Cardinality(Calls) \in Nat /\ Cardinality(Live) \in Nat /\ Cardinality(replaced) \in Nat
        /\ free \in Nat /\ cancelled \in Nat /\ Holds(t) \in Nat /\ Holds(t)' \in Nat
    BY CallsFinite, LiveFinite, ReplacedFinite DEF SlotsIInv, MarketTypes, Holds
  <2>4. free + Cardinality(Calls) + Cardinality(Live) + cancelled + Cardinality(replaced) = Slots
    BY DEF SlotsIInv, SlotsAccounted
  <2>5. free' + Cardinality(Calls') + Cardinality(Live') + cancelled' + Cardinality(replaced')
          = Slots
    BY <2>1, <2>2, <2>3, <2>4, SubscriptionsAssumption
  <2>6. QED
    BY <2>5 DEF SlotsAccounted
<1>7. QED
  BY <1>4, <1>5, <1>6

-----------------------------------------------------------------------------
(* One lemma per action.                                                   *)
LEMMA SubscribeBarsStep ==
  ASSUME SlotsIInv, NEW t \in Tasks, NEW i \in Instruments, SubscribeBars(t, i)
  PROVE  SlotsIInv'
<1> DEFINE r == Subscribing(i, "acquire", 0)
<1>1. made \in Nat /\ made <= made /\ free \in Nat /\ cancelled \in Nat /\ task[t].at = "idle"
  BY DEF SlotsIInv, MarketTypes, SubscribeBars, NoCall
<1>2. r \in CallStates(made) /\ r.at = "acquire" /\ r.stream = 0
  BY <1>1 DEF Subscribing, CallStates, Points
<1>3. task' = [task EXCEPT ![t] = r] /\ UNCHANGED <<free, active, sourceVars, cancelled, replaced, stray>>
  BY DEF SubscribeBars
<1> HIDE DEF r
<1>4. task' \in [Tasks -> CallStates(made)] /\ task'[t] = r /\ Moves(t)
  BY <1>1, <1>2, <1>3, MovesTo DEF SlotsIInv
<1>5. MarketTypes'
  BY <1>3, <1>4 DEF SlotsIInv, MarketTypes, sourceVars
<1>6. StreamsWhenMade'
  BY <1>2, <1>4 DEF SlotsIInv, StreamsWhenMade, Moves
<1>7. ~HoldsSlot(t) /\ ~HoldsSlot(t)' /\ StreamOf(t) = 0 /\ StreamOf(t)' = 0
  BY <1>1, <1>2, <1>4 DEF HoldsSlot, StreamOf
<1>8. OneOwner' /\ OpenOwned' /\ SlotsAccounted'
  <2>1. free' + cancelled' + Holds(t)' = free + cancelled + Holds(t)
    BY <1>3, <1>7 DEF Holds
  <2>2. QED
    BY <1>1, <1>3, <1>4, <1>7, <2>1, UnstoredStep DEF sourceVars
<1>9. QED
  BY <1>5, <1>6, <1>8 DEF SlotsIInv

LEMMA AcquireStep ==
  ASSUME SlotsIInv, NEW t \in Tasks, Acquire(t)
  PROVE  SlotsIInv'
<1>1. /\ made \in Nat /\ free \in Nat /\ cancelled \in Nat /\ free' = free - 1 /\ free > 0
      /\ task[t].at = "acquire" /\ Goto(t, "resolve")
      /\ UNCHANGED <<active, sourceVars, cancelled, replaced, stray>>
  BY DEF SlotsIInv, MarketTypes, Acquire, IsAt
<1>2. /\ task' \in [Tasks -> CallStates(made)] /\ Moves(t)
      /\ task'[t].at = "resolve" /\ task'[t].stream = task[t].stream
  BY <1>1, GoesTo DEF SlotsIInv, Points
<1>3. task[t].stream = 0
  BY <1>1 DEF SlotsIInv, StreamsWhenMade
<1>4. MarketTypes'
  BY <1>1, <1>2 DEF SlotsIInv, MarketTypes, sourceVars
<1>5. StreamsWhenMade'
  BY <1>2, <1>3 DEF SlotsIInv, StreamsWhenMade, Moves
<1>6. ~HoldsSlot(t) /\ HoldsSlot(t)' /\ StreamOf(t) = 0 /\ StreamOf(t)' = 0
  BY <1>1, <1>2, <1>3 DEF HoldsSlot, StreamOf
<1>7. OneOwner' /\ OpenOwned' /\ SlotsAccounted'
  <2>1. free' \in Nat /\ free' + cancelled' + Holds(t)' = free + cancelled + Holds(t)
    BY <1>1, <1>6 DEF Holds
  <2>2. QED
    BY <1>1, <1>2, <1>6, <2>1, UnstoredStep DEF sourceVars
<1>8. QED
  BY <1>4, <1>5, <1>7 DEF SlotsIInv

(* resolve and connect return.                                             *)
LEMMA ReturnStep ==
  ASSUME SlotsIInv, NEW t \in Tasks, Resolve(t) \/ ConnectSource(t)
  PROVE  SlotsIInv'
<1>1. /\ made \in Nat /\ free \in Nat /\ cancelled \in Nat
      /\ UNCHANGED <<free, active, open, made, cancelled, replaced, stray>>
  BY DEF SlotsIInv, MarketTypes, Resolve, ConnectSource, sourceVars
<1>2. PICK at \in {"connect", "subscribe"} :
        task[t].at \in {"resolve", "connect"} /\ Goto(t, at)
  BY DEF Resolve, ConnectSource, IsAt
<1>3. /\ task' \in [Tasks -> CallStates(made)] /\ Moves(t)
      /\ task'[t].at = at /\ task'[t].stream = task[t].stream
  BY <1>1, <1>2, GoesTo DEF SlotsIInv, Points
<1>4. task[t].stream = 0
  BY <1>2 DEF SlotsIInv, StreamsWhenMade
<1>5. MarketTypes'
  BY <1>1, <1>3 DEF SlotsIInv, MarketTypes
<1>6. StreamsWhenMade'
  BY <1>2, <1>3, <1>4 DEF SlotsIInv, StreamsWhenMade, Moves
<1>7. HoldsSlot(t) /\ HoldsSlot(t)' /\ StreamOf(t) = 0 /\ StreamOf(t)' = 0
  BY <1>2, <1>3, <1>4 DEF HoldsSlot, StreamOf
<1>8. OneOwner' /\ OpenOwned' /\ SlotsAccounted'
  <2>1. free' + cancelled' + Holds(t)' = free + cancelled + Holds(t)
    BY <1>1, <1>7 DEF Holds
  <2>2. QED
    BY <1>1, <1>3, <1>7, <2>1, UnstoredStep
<1>9. QED
  BY <1>5, <1>6, <1>8 DEF SlotsIInv

(* A call ends by a failure or a cancellation, before its stream is        *)
(* stored; or an unsubscribe ends.                                         *)
LEMMA LeaveStep ==
  ASSUME SlotsIInv, NEW t \in Tasks, Leave(t),
         UNCHANGED <<active, online, made, replaced>>,
         open' \subseteq open, stray \subseteq stray', stray' \subseteq 1..made,
         free' \in Nat, cancelled' \in Nat,
         free' + cancelled' = free + cancelled + Holds(t),
         \/ StreamOf(t) = 0 \/ StreamOf(t) \in stray' \/ StreamOf(t) \notin open'
  PROVE  SlotsIInv'
<1>1. /\ task' \in [Tasks -> CallStates(made)] /\ task'[t] = NoCall /\ Moves(t)
      /\ ~HoldsSlot(t)' /\ StreamOf(t)' = 0
  BY LeavesTo DEF SlotsIInv
<1>2. MarketTypes'
  BY <1>1 DEF SlotsIInv, MarketTypes
<1>3. StreamsWhenMade'
  BY <1>1 DEF SlotsIInv, StreamsWhenMade, Moves, NoCall
<1>4. OneOwner' /\ OpenOwned' /\ SlotsAccounted'
  <2>1. free \in Nat /\ cancelled \in Nat /\ Holds(t) \in Nat /\ Holds(t)' = 0
    BY <1>1 DEF SlotsIInv, MarketTypes, Holds
  <2>2. free' + cancelled' + Holds(t)' = free + cancelled + Holds(t)
    BY <2>1
  <2>3. QED
    BY <1>1, <2>2, UnstoredStep
<1>5. QED
  BY <1>2, <1>3, <1>4 DEF SlotsIInv

LEMMA EndSteps ==
  ASSUME SlotsIInv, NEW t \in Tasks,
         SubscribeFails(t) \/ SubscribeCancelled(t) \/ Unsubscribed(t) \/ UnsubscribeFails(t)
  PROVE  SlotsIInv'
<1>1. /\ made \in Nat /\ free \in Nat /\ cancelled \in Nat
      /\ open \subseteq 1..made /\ stray \subseteq 1..made
  BY DEF SlotsIInv, MarketTypes
<1>2. CASE SubscribeFails(t)
  <2>1. HoldsSlot(t) /\ StreamOf(t) = 0 /\ Holds(t) = 1
    BY <1>2 DEF SubscribeFails, HoldsSlot, StreamOf, Points, Holds
  <2>2. /\ Leave(t) /\ free' = free + 1
        /\ UNCHANGED <<active, online, open, made, cancelled, replaced, stray>>
    BY <1>2 DEF SubscribeFails, sourceVars
  <2>3. free' \in Nat /\ cancelled' \in Nat /\ free' + cancelled' = free + cancelled + Holds(t)
    BY <1>1, <2>1, <2>2
  <2>4. QED
    BY <1>1, <2>1, <2>2, <2>3, LeaveStep
<1>3. CASE SubscribeCancelled(t)
  <2>1. /\ Leave(t) /\ cancelled' = (IF HoldsSlot(t) THEN cancelled + 1 ELSE cancelled)
        /\ UNCHANGED <<free, active, online, open, made, replaced>>
        /\ stray' = stray \cup ({task[t].stream} \ {0}) /\ task[t].at \in Points
    BY <1>3 DEF SubscribeCancelled, sourceVars
  <2>2. task[t].stream \in 0..made
    BY <2>1, InCall DEF SlotsIInv
  <2>3. stray \subseteq stray' /\ stray' \subseteq 1..made
    <3>1. {task[t].stream} \ {0} \subseteq 1..made
      BY <1>1, <2>2
    <3>2. QED
      BY <1>1, <2>1, <3>1
  <2>4. StreamOf(t) = 0 \/ StreamOf(t) \in stray'
    BY <2>1 DEF StreamOf
  <2>5. free' \in Nat /\ cancelled' \in Nat /\ free' + cancelled' = free + cancelled + Holds(t)
    BY <1>1, <2>1 DEF Holds
  <2>6. QED
    BY <2>1, <2>3, <2>4, <2>5, LeaveStep
<1>4. CASE Unsubscribed(t)
  <2>1. /\ Leave(t) /\ free' = free + 1 /\ open' = open \ {task[t].stream}
        /\ UNCHANGED <<active, online, made, cancelled, replaced, stray>>
        /\ task[t].at = "unsubscribe"
    BY <1>4 DEF Unsubscribed, IsAt
  <2>2. Holds(t) = 1 /\ StreamOf(t) = task[t].stream
    BY <2>1 DEF HoldsSlot, Holds, StreamOf
  <2>3. free' \in Nat /\ cancelled' \in Nat /\ free' + cancelled' = free + cancelled + Holds(t)
    BY <1>1, <2>1, <2>2
  <2>4. StreamOf(t) \notin open' /\ open' \subseteq open /\ stray \subseteq stray'
        /\ stray' \subseteq 1..made
    BY <1>1, <2>1, <2>2
  <2>5. QED
    BY <2>1, <2>3, <2>4, LeaveStep
<1>5. CASE UnsubscribeFails(t)
  <2>1. /\ Leave(t) /\ free' = free + 1
        /\ UNCHANGED <<active, online, open, made, cancelled, replaced>>
        /\ stray' = stray \cup {task[t].stream} /\ task[t].at = "unsubscribe"
    BY <1>5 DEF UnsubscribeFails, sourceVars, IsAt
  <2>2. task[t].stream \in 0..made /\ task[t].stream # 0
    BY <2>1, InCall DEF SlotsIInv, StreamsWhenMade
  <2>3. Holds(t) = 1 /\ StreamOf(t) \in stray'
    BY <2>1 DEF HoldsSlot, Holds, StreamOf
  <2>4. free' \in Nat /\ cancelled' \in Nat /\ free' + cancelled' = free + cancelled + Holds(t)
    BY <1>1, <2>1, <2>3
  <2>5. stray \subseteq stray' /\ stray' \subseteq 1..made /\ open' \subseteq open
    <3>1. task[t].stream \in 1..made
      BY <1>1, <2>2
    <3>2. QED
      BY <1>1, <2>1, <3>1
  <2>6. QED
    BY <2>1, <2>3, <2>4, <2>5, LeaveStep
<1>6. QED
  BY <1>2, <1>3, <1>4, <1>5

(* The source makes a stream that nobody has yet.                          *)
LEMMA SourceSubscribesStep ==
  ASSUME SlotsIInv, NEW t \in Tasks, SourceSubscribes(t)
  PROVE  SlotsIInv'
<1> DEFINE r == [task[t] EXCEPT !.stream = made']
<1>1. /\ made \in Nat /\ free \in Nat /\ cancelled \in Nat /\ made' = made + 1
      /\ open' = open \cup {made'} /\ task[t].at = "subscribe" /\ task[t].stream = 0
      /\ UNCHANGED <<free, active, online, cancelled, replaced, stray>>
  BY DEF SlotsIInv, MarketTypes, SourceSubscribes, IsAt
<1>2. made' \in Nat /\ made <= made' /\ made' # 0 /\ made' \notin 0..made /\ 1..made \subseteq 1..made'
      /\ 0..made \subseteq 0..made'
  BY <1>1
<1>3. task[t] \in [at: Points \cup {"unsubscribe"}, instrument: Instruments, stream: 0..made]
  BY <1>1, InCall DEF SlotsIInv, Points
<1>4. r \in CallStates(made') /\ r.at = "subscribe" /\ r.stream = made'
  BY <1>1, <1>2, <1>3 DEF CallStates
<1>5. task' = [task EXCEPT ![t] = r]
  BY DEF SourceSubscribes
<1> HIDE DEF r
<1>6. task' \in [Tasks -> CallStates(made')] /\ task'[t] = r /\ Moves(t)
  BY <1>2, <1>4, <1>5, MovesTo DEF SlotsIInv
<1>7. HoldsSlot(t) /\ HoldsSlot(t)' /\ StreamOf(t) = 0 /\ StreamOf(t)' = made'
  BY <1>1, <1>4, <1>6 DEF HoldsSlot, StreamOf
<1>8. \A u \in Tasks \ {t} : StreamOf(u)' = StreamOf(u)
  BY <1>6, OthersStay
<1>9. \A u \in Tasks : StreamOf(u) \in 0..made
  <2>1. ASSUME NEW u \in Tasks PROVE StreamOf(u) \in 0..made
    <3>1. HoldsSlot(u) => task[u].at \in Points \cup {"unsubscribe"}
      BY DEF HoldsSlot, Points
    <3>2. QED
      BY <1>1, <3>1, InCall DEF StreamOf, SlotsIInv
  <2>2. QED
    BY <2>1
<1>10. Live' = Live /\ \A i \in Live : active[i] \in 0..made
  BY <1>1 DEF Live, SlotsIInv, MarketTypes
<1>11. MarketTypes'
  <2>1. active' \in [Instruments -> 0..made']
    BY <1>1, <1>2 DEF SlotsIInv, MarketTypes
  <2>2. open' \subseteq 1..made' /\ replaced' \subseteq 1..made' /\ stray' \subseteq 1..made'
    <3>1. made' \in 1..made'
      BY <1>1
    <3>2. QED
      BY <1>1, <1>2, <3>1 DEF SlotsIInv, MarketTypes
  <2>3. QED
    BY <1>1, <1>2, <1>6, <2>1, <2>2 DEF MarketTypes
<1>12. StreamsWhenMade'
  BY <1>4, <1>6 DEF SlotsIInv, StreamsWhenMade, Moves
<1>13. OneOwner'
  <2>1. \A i, j \in Live' : active'[i] = active'[j] => i = j
    BY <1>1, <1>10 DEF SlotsIInv, OneOwner
  <2>2. ASSUME NEW u \in Tasks, NEW i \in Live' PROVE StreamOf(u)' # active'[i]
    BY <1>1, <1>2, <1>7, <1>8, <1>10 DEF SlotsIInv, OneOwner
  <2>3. ASSUME NEW u \in Tasks, NEW v \in Tasks,
               StreamOf(u)' = StreamOf(v)' /\ StreamOf(u)' # 0
        PROVE  u = v
    <3>1. CASE u # t /\ v # t
      BY <1>8, <2>3, <3>1 DEF SlotsIInv, OneOwner
    <3>2. CASE u = t /\ v # t
      BY <1>2, <1>7, <1>8, <1>9, <2>3, <3>2
    <3>3. CASE u # t /\ v = t
      BY <1>2, <1>7, <1>8, <1>9, <2>3, <3>3
    <3>4. QED
      BY <3>1, <3>2, <3>3
  <2>4. \A i \in Live' : active'[i] \notin replaced'
    BY <1>1, <1>10 DEF SlotsIInv, OneOwner
  <2>5. ASSUME NEW u \in Tasks PROVE StreamOf(u)' \notin replaced'
    <3>1. made' \notin replaced
      BY <1>1, <1>2 DEF SlotsIInv, MarketTypes
    <3>2. QED
      BY <1>1, <1>7, <1>8, <3>1 DEF SlotsIInv, OneOwner
  <2>6. QED
    BY <2>1, <2>2, <2>3, <2>4, <2>5 DEF OneOwner
<1>14. OpenOwned'
  <2> SUFFICES ASSUME NEW s \in open'
               PROVE  \/ \E i \in Instruments : s = active'[i]
                      \/ \E u \in Tasks : s = StreamOf(u)'
                      \/ s \in replaced' \cup stray'
    BY DEF OpenOwned
  <2>1. CASE s = made'
    BY <1>7, <2>1
  <2>2. CASE s # made'
    <3>1. s \in open /\ s # 0
      BY <1>1, <2>2 DEF SlotsIInv, MarketTypes
    <3>2. CASE \E u \in Tasks : s = StreamOf(u)
      BY <1>7, <1>8, <3>1, <3>2
    <3>3. QED
      BY <1>1, <3>1, <3>2 DEF SlotsIInv, OpenOwned
  <2>3. QED
    BY <2>1, <2>2
<1>15. SlotsAccounted'
  <2>1. Cardinality(Calls') = Cardinality(Calls)
    <3>1. Cardinality(Calls') = Cardinality(Calls) + 1 - 1
      BY <1>6, <1>7, CallsCounted DEF Holds
    <3>2. QED
      BY <3>1, CallsFinite
  <2>2. QED
    BY <1>1, <1>10, <2>1 DEF SlotsIInv, SlotsAccounted
<1>16. QED
  BY <1>11, <1>12, <1>13, <1>14, <1>15 DEF SlotsIInv

(* The stream goes from the call to the instrument, and the one that was   *)
(* there from the instrument to the replaced.                              *)
LEMMA SubscribedStep ==
  ASSUME SlotsIInv, NEW t \in Tasks, Subscribed(t)
  PROVE  SlotsIInv'
<1> DEFINE i == task[t].instrument
           s == task[t].stream
<1>1. /\ made \in Nat /\ free \in Nat /\ cancelled \in Nat
      /\ task[t].at = "subscribe" /\ s # 0 /\ Leave(t)
      /\ active' = [active EXCEPT ![i] = s] /\ replaced' = replaced \cup ({active[i]} \ {0})
      /\ UNCHANGED <<free, online, open, made, cancelled, stray>>
  BY DEF SlotsIInv, MarketTypes, Subscribed, IsAt, sourceVars
<1>2. i \in Instruments /\ s \in 0..made
  BY <1>1, InCall DEF SlotsIInv, Points
<1>3. /\ task' \in [Tasks -> CallStates(made)] /\ task'[t] = NoCall /\ Moves(t)
      /\ ~HoldsSlot(t)' /\ StreamOf(t)' = 0
  BY <1>1, LeavesTo DEF SlotsIInv
<1>4. HoldsSlot(t) /\ StreamOf(t) = s
  BY <1>1 DEF HoldsSlot, StreamOf
<1> HIDE DEF i, s
<1>5. \A u \in Tasks \ {t} : StreamOf(u)' = StreamOf(u)
  BY <1>3, OthersStay
<1>6. /\ active \in [Instruments -> 0..made] /\ active[i] \in 0..made
      /\ active'[i] = s /\ \A j \in Instruments \ {i} : active'[j] = active[j]
  BY <1>1, <1>2 DEF SlotsIInv, MarketTypes
<1>7. Live' = Live \cup {i} /\ Live \subseteq Instruments /\ (i \in Live <=> active[i] # 0)
  BY <1>1, <1>2, <1>6 DEF Live
<1>8. MarketTypes'
  <2>1. active' \in [Instruments -> 0..made]
    BY <1>1, <1>2, <1>6
  <2>2. {active[i]} \ {0} \subseteq 1..made
    BY <1>1, <1>6
  <2>3. QED
    BY <1>1, <1>3, <2>1, <2>2 DEF SlotsIInv, MarketTypes
<1>9. StreamsWhenMade'
  BY <1>3 DEF SlotsIInv, StreamsWhenMade, Moves, NoCall
<1>10. s \notin replaced /\ \A j \in Live : active[j] # s
  BY <1>4 DEF SlotsIInv, OneOwner
<1>11. OneOwner'
  <2>1. ASSUME NEW j \in Live', NEW k \in Live', active'[j] = active'[k] PROVE j = k
    <3>1. CASE j = i \/ k = i
      BY <1>6, <1>7, <1>10, <2>1, <3>1
    <3>2. CASE j # i /\ k # i
      BY <1>6, <1>7, <2>1, <3>2 DEF SlotsIInv, OneOwner
    <3>3. QED
      BY <3>1, <3>2
  <2>2. ASSUME NEW u \in Tasks, NEW j \in Live' PROVE StreamOf(u)' # active'[j]
    <3>1. active'[j] # 0
      BY <1>1, <1>6, <1>7 DEF Live
    <3>2. CASE u = t
      BY <1>3, <3>1, <3>2
    <3>3. CASE u # t /\ j = i
      BY <1>1, <1>4, <1>5, <1>6, <3>3 DEF SlotsIInv, OneOwner
    <3>4. CASE u # t /\ j # i
      BY <1>5, <1>6, <1>7, <3>4 DEF SlotsIInv, OneOwner
    <3>5. QED
      BY <3>2, <3>3, <3>4
  <2>3. ASSUME NEW u \in Tasks, NEW v \in Tasks,
               StreamOf(u)' = StreamOf(v)' /\ StreamOf(u)' # 0
        PROVE  u = v
    BY <1>3, <1>5, <2>3 DEF SlotsIInv, OneOwner
  <2>4. ASSUME NEW j \in Live' PROVE active'[j] \notin replaced'
    <3>1. CASE j = i
      <4>1. active[i] = 0 \/ active[i] # s
        BY <1>7, <1>10
      <4>2. QED
        BY <1>1, <1>6, <1>10, <3>1, <4>1
    <3>2. CASE j # i
      <4>1. j \in Live /\ active'[j] = active[j] /\ active[j] # 0
        BY <1>6, <1>7, <3>2 DEF Live
      <4>2. active[i] = 0 \/ active[i] # active[j]
        BY <1>7, <3>2, <4>1 DEF SlotsIInv, OneOwner
      <4>3. QED
        BY <1>1, <4>1, <4>2 DEF SlotsIInv, OneOwner
    <3>3. QED
      BY <3>1, <3>2
  <2>5. ASSUME NEW u \in Tasks PROVE StreamOf(u)' \notin replaced'
    <3>1. CASE u = t
      BY <1>1, <1>3, <3>1 DEF SlotsIInv, MarketTypes
    <3>2. CASE u # t
      <4>1. StreamOf(u)' = StreamOf(u) /\ StreamOf(u) \notin replaced
        BY <1>5, <3>2 DEF SlotsIInv, OneOwner
      <4>2. active[i] = 0 \/ StreamOf(u) # active[i]
        BY <1>7 DEF SlotsIInv, OneOwner
      <4>3. QED
        BY <1>1, <4>1, <4>2
    <3>3. QED
      BY <3>1, <3>2
  <2>6. QED
    BY <2>1, <2>2, <2>3, <2>4, <2>5 DEF OneOwner
<1>12. OpenOwned'
  <2> SUFFICES ASSUME NEW x \in open'
               PROVE  \/ \E j \in Instruments : x = active'[j]
                      \/ \E u \in Tasks : x = StreamOf(u)'
                      \/ x \in replaced' \cup stray'
    BY DEF OpenOwned
  <2>1. x \in open /\ x # 0
    BY <1>1 DEF SlotsIInv, MarketTypes
  <2>2. CASE \E j \in Instruments : x = active[j]
    BY <1>1, <1>6, <2>1, <2>2
  <2>3. CASE \E u \in Tasks : x = StreamOf(u)
    BY <1>2, <1>4, <1>5, <1>6, <2>3
  <2>4. CASE x \in replaced \cup stray
    BY <1>1, <2>4
  <2>5. QED
    BY <2>1, <2>2, <2>3, <2>4 DEF SlotsIInv, OpenOwned
<1>13. SlotsAccounted'
  <2>1. Cardinality(Calls') = Cardinality(Calls) + 0 - 1
    BY <1>3, <1>4, CallsCounted DEF Holds
  <2>2. /\ Cardinality(Live') \in Nat /\ Cardinality(replaced') \in Nat
        /\ Cardinality(Live') + Cardinality(replaced')
             = Cardinality(Live) + Cardinality(replaced) + 1
    <3>1. CASE active[i] = 0
      <4>1. replaced' = replaced /\ i \notin Live
        BY <1>1, <1>7, <3>1
      <4>2. Cardinality(Live') = Cardinality(Live) + 1
        BY <1>7, <4>1, LiveFinite, FS_AddElement
      <4>3. QED
        BY <4>1, <4>2, LiveFinite, ReplacedFinite DEF SlotsIInv
    <3>2. CASE active[i] # 0
      <4>1. Live' = Live /\ i \in Live /\ replaced' = replaced \cup {active[i]}
        BY <1>1, <1>7, <3>2
      <4>2. active[i] \notin replaced
        BY <4>1 DEF SlotsIInv, OneOwner
      <4>3. Cardinality(replaced') = Cardinality(replaced) + 1
        BY <4>1, <4>2, ReplacedFinite, FS_AddElement DEF SlotsIInv
      <4>4. QED
        BY <4>1, <4>3, LiveFinite, ReplacedFinite DEF SlotsIInv
    <3>3. QED
      BY <3>1, <3>2
  <2>3. free' = free /\ cancelled' = cancelled /\ free \in Nat /\ cancelled \in Nat
    BY <1>1
  <2>4. /\ Cardinality(Calls) \in Nat /\ Cardinality(Live) \in Nat /\ Cardinality(replaced) \in Nat
    BY CallsFinite, LiveFinite, ReplacedFinite DEF SlotsIInv
  <2>5. free + Cardinality(Calls) + Cardinality(Live) + cancelled + Cardinality(replaced) = Slots
    BY DEF SlotsIInv, SlotsAccounted
  <2>6. free' + Cardinality(Calls') + Cardinality(Live') + cancelled' + Cardinality(replaced')
          = Slots
    BY <2>1, <2>2, <2>3, <2>4, <2>5, SubscriptionsAssumption
  <2>7. QED
    BY <2>6 DEF SlotsAccounted
<1>14. QED
  BY <1>8, <1>9, <1>11, <1>12, <1>13 DEF SlotsIInv

(* The entry is popped and its stream is with the call.                    *)
LEMMA UnsubscribeStep ==
  ASSUME SlotsIInv, NEW t \in Tasks, NEW i \in Instruments, Unsubscribe(t, i)
  PROVE  SlotsIInv'
<1> DEFINE s == active[i]
           r == Subscribing(i, "unsubscribe", s)
<1>1. /\ made \in Nat /\ made <= made /\ task[t].at = "idle" /\ s # 0
      /\ active' = [active EXCEPT ![i] = 0] /\ task' = [task EXCEPT ![t] = r]
      /\ UNCHANGED <<free, online, open, made, cancelled, replaced, stray>>
  BY DEF SlotsIInv, MarketTypes, Unsubscribe, sourceVars, NoCall
<1>2. /\ active \in [Instruments -> 0..made] /\ s \in 0..made
      /\ active'[i] = 0 /\ \A j \in Instruments \ {i} : active'[j] = active[j]
  BY <1>1 DEF SlotsIInv, MarketTypes
<1>3. r \in CallStates(made) /\ r.at = "unsubscribe" /\ r.stream = s
  BY <1>2 DEF Subscribing, CallStates
<1> HIDE DEF r
<1>4. task' \in [Tasks -> CallStates(made)] /\ task'[t] = r /\ Moves(t)
  BY <1>1, <1>3, MovesTo DEF SlotsIInv
<1>5. ~HoldsSlot(t) /\ HoldsSlot(t)' /\ StreamOf(t) = 0 /\ StreamOf(t)' = s
  BY <1>1, <1>3, <1>4 DEF HoldsSlot, StreamOf
<1>6. \A u \in Tasks \ {t} : StreamOf(u)' = StreamOf(u)
  BY <1>4, OthersStay
<1>7. i \in Live /\ Live' = Live \ {i} /\ Live \subseteq Instruments
  BY <1>1, <1>2 DEF Live
<1>8. MarketTypes'
  <2>1. active' \in [Instruments -> 0..made]
    BY <1>1, <1>2
  <2>2. QED
    BY <1>1, <1>4, <2>1 DEF SlotsIInv, MarketTypes
<1>9. StreamsWhenMade'
  BY <1>1, <1>3, <1>4 DEF SlotsIInv, StreamsWhenMade, Moves
<1> HIDE DEF s
<1>10. s \notin replaced /\ \A j \in Live \ {i} : active[j] # s
  BY <1>7 DEF SlotsIInv, OneOwner, s
<1>11. \A u \in Tasks : StreamOf(u) # s
  BY <1>7 DEF SlotsIInv, OneOwner, s
<1>12. OneOwner'
  <2>1. \A j, k \in Live' : active'[j] = active'[k] => j = k
    BY <1>2, <1>7 DEF SlotsIInv, OneOwner
  <2>2. ASSUME NEW u \in Tasks, NEW j \in Live' PROVE StreamOf(u)' # active'[j]
    <3>1. active'[j] = active[j] /\ j \in Live \ {i}
      BY <1>2, <1>7
    <3>2. CASE u = t
      BY <1>5, <1>10, <3>1, <3>2
    <3>3. CASE u # t
      BY <1>6, <3>1, <3>3 DEF SlotsIInv, OneOwner
    <3>4. QED
      BY <3>2, <3>3
  <2>3. ASSUME NEW u \in Tasks, NEW v \in Tasks,
               StreamOf(u)' = StreamOf(v)' /\ StreamOf(u)' # 0
        PROVE  u = v
    <3>1. CASE u # t /\ v # t
      BY <1>6, <2>3, <3>1 DEF SlotsIInv, OneOwner
    <3>2. CASE u = t \/ v = t
      BY <1>5, <1>6, <1>11, <2>3, <3>2
    <3>3. QED
      BY <3>1, <3>2
  <2>4. \A j \in Live' : active'[j] \notin replaced'
    BY <1>1, <1>2, <1>7 DEF SlotsIInv, OneOwner
  <2>5. \A u \in Tasks : StreamOf(u)' \notin replaced'
    BY <1>1, <1>5, <1>6, <1>10 DEF SlotsIInv, OneOwner
  <2>6. QED
    BY <2>1, <2>2, <2>3, <2>4, <2>5 DEF OneOwner
<1>13. OpenOwned'
  <2> SUFFICES ASSUME NEW x \in open'
               PROVE  \/ \E j \in Instruments : x = active'[j]
                      \/ \E u \in Tasks : x = StreamOf(u)'
                      \/ x \in replaced' \cup stray'
    BY DEF OpenOwned
  <2>1. x \in open /\ x # 0
    BY <1>1 DEF SlotsIInv, MarketTypes
  <2>2. CASE \E j \in Instruments : x = active[j]
    BY <1>2, <1>5, <2>2 DEF s
  <2>3. CASE \E u \in Tasks : x = StreamOf(u)
    BY <1>5, <1>6, <2>1, <2>3
  <2>4. CASE x \in replaced \cup stray
    BY <1>1, <2>4
  <2>5. QED
    BY <2>1, <2>2, <2>3, <2>4 DEF SlotsIInv, OpenOwned
<1>14. SlotsAccounted'
  <2>1. Cardinality(Calls') = Cardinality(Calls) + 1 - 0
    BY <1>4, <1>5, CallsCounted DEF Holds
  <2>2. Cardinality(Live') = Cardinality(Live) - 1
    BY <1>7, LiveFinite, FS_RemoveElement
  <2>3. /\ Cardinality(Calls) \in Nat /\ Cardinality(Live) \in Nat /\ Cardinality(replaced) \in Nat
        /\ free \in Nat /\ cancelled \in Nat /\ UNCHANGED <<free, cancelled, replaced>>
    BY <1>1, CallsFinite, LiveFinite, ReplacedFinite DEF SlotsIInv, MarketTypes
  <2>4. free + Cardinality(Calls) + Cardinality(Live) + cancelled + Cardinality(replaced) = Slots
    BY DEF SlotsIInv, SlotsAccounted
  <2>5. free' + Cardinality(Calls') + Cardinality(Live') + cancelled' + Cardinality(replaced')
          = Slots
    BY <2>1, <2>2, <2>3, <2>4, SubscriptionsAssumption
  <2>6. QED
    BY <2>5 DEF SlotsAccounted
<1>15. QED
  BY <1>8, <1>9, <1>12, <1>13, <1>14 DEF SlotsIInv

LEMMA SourceStep ==
  ASSUME SlotsIInv, SourceDisconnects \/ UNCHANGED subscriptionVars
  PROVE  SlotsIInv'
<1>1. /\ UNCHANGED <<free, active, task, made, cancelled, replaced, stray>>
      /\ open' \subseteq open
  BY DEF SourceDisconnects, subscriptionVars, sourceVars
<1>2. Live' = Live /\ Calls' = Calls /\ \A t \in Tasks : StreamOf(t)' = StreamOf(t)
  BY <1>1 DEF Live, Calls, HoldsSlot, StreamOf
<1>3. MarketTypes' /\ StreamsWhenMade'
  BY <1>1 DEF SlotsIInv, MarketTypes, StreamsWhenMade
<1>4. OneOwner'
  BY <1>1, <1>2 DEF SlotsIInv, OneOwner
<1>5. OpenOwned'
  BY <1>1, <1>2 DEF SlotsIInv, OpenOwned
<1>6. SlotsAccounted'
  BY <1>1, <1>2 DEF SlotsIInv, SlotsAccounted
<1>7. QED
  BY <1>3, <1>4, <1>5, <1>6 DEF SlotsIInv

LEMMA SlotsNext == SlotsIInv /\ [SubscriptionsNext]_subscriptionVars => SlotsIInv'
<1> SUFFICES ASSUME SlotsIInv, [SubscriptionsNext]_subscriptionVars PROVE SlotsIInv'
  OBVIOUS
<1>1. ASSUME NEW t \in Tasks, NEW i \in Instruments, SubscribeBars(t, i) \/ Unsubscribe(t, i)
      PROVE  SlotsIInv'
  BY <1>1, SubscribeBarsStep, UnsubscribeStep
<1>2. ASSUME NEW t \in Tasks,
             \/ Acquire(t) \/ Resolve(t) \/ ConnectSource(t) \/ SourceSubscribes(t)
             \/ Subscribed(t) \/ SubscribeFails(t) \/ SubscribeCancelled(t)
             \/ Unsubscribed(t) \/ UnsubscribeFails(t)
      PROVE  SlotsIInv'
  BY <1>2, AcquireStep, ReturnStep, SourceSubscribesStep, SubscribedStep, EndSteps
<1>3. CASE SourceDisconnects \/ UNCHANGED subscriptionVars
  BY <1>3, SourceStep
<1>4. QED
  BY <1>1, <1>2, <1>3 DEF SubscriptionsNext

(* Streams that are open have an owner who holds a slot, so there are no   *)
(* more of them than slots.                                                *)
LEMMA BudgetKept ==
  ASSUME SlotsIInv
  PROVE  WithinBudget
<1> DEFINE Owned == {active[i] : i \in Live}
           Called == {StreamOf(t) : t \in Calls}
           f == [i \in Live |-> active[i]]
           g == [t \in Calls |-> StreamOf(t)]
           S == (Owned \cup Called) \cup replaced
<1>1. IsFiniteSet(Owned) /\ Cardinality(Owned) <= Cardinality(Live) /\ Cardinality(Owned) \in Nat
  <2>1. f \in Surjection(Live, Owned)
    BY DEF Surjection
  <2>2. QED
    BY <2>1, LiveFinite, FS_Surjection, FS_CardinalityType
<1>2. IsFiniteSet(Called) /\ Cardinality(Called) <= Cardinality(Calls) /\ Cardinality(Called) \in Nat
  <2>1. g \in Surjection(Calls, Called)
    BY DEF Surjection
  <2>2. QED
    BY <2>1, CallsFinite, FS_Surjection, FS_CardinalityType
<1>3. IsFiniteSet(replaced) /\ Cardinality(replaced) \in Nat
  BY ReplacedFinite DEF SlotsIInv
<1>4. open \ stray \subseteq S
  <2> SUFFICES ASSUME NEW s \in open, s \notin stray PROVE s \in S
    OBVIOUS
  <2>1. s # 0
    BY DEF SlotsIInv, MarketTypes
  <2>2. CASE \E i \in Instruments : s = active[i]
    BY <2>1, <2>2 DEF Live
  <2>3. CASE \E t \in Tasks : s = StreamOf(t)
    BY <2>1, <2>3 DEF StreamOf, Calls
  <2>4. QED
    BY <2>2, <2>3 DEF SlotsIInv, OpenOwned
<1> HIDE DEF Owned, Called
<1>5. /\ IsFiniteSet(Owned \cup Called)
      /\ Cardinality(Owned \cup Called) <= Cardinality(Owned) + Cardinality(Called)
      /\ Cardinality(Owned \cup Called) \in Nat
  BY <1>1, <1>2, UnionSize
<1>6. /\ IsFiniteSet(S) /\ Cardinality(S) \in Nat
      /\ Cardinality(S) <= Cardinality(Owned \cup Called) + Cardinality(replaced)
  BY <1>3, <1>5, UnionSize
<1>7. Cardinality(open \ stray) \in Nat /\ Cardinality(open \ stray) <= Cardinality(S)
  BY <1>4, <1>6, FS_Subset, FS_CardinalityType
<1>8. /\ free + Cardinality(Calls) + Cardinality(Live) + cancelled + Cardinality(replaced) = Slots
      /\ free \in Nat /\ cancelled \in Nat
      /\ Cardinality(Calls) \in Nat /\ Cardinality(Live) \in Nat
  BY CallsFinite, LiveFinite DEF SlotsIInv, SlotsAccounted, MarketTypes
<1>9. Cardinality(open \ stray) <= Slots
  BY <1>1, <1>2, <1>3, <1>5, <1>6, <1>7, <1>8, SubscriptionsAssumption
<1>10. QED
  BY <1>9 DEF WithinBudget

LEMMA SlotsImply == SlotsIInv => SubscriptionsInv
<1> SUFFICES ASSUME SlotsIInv PROVE SubscriptionsInv
  OBVIOUS
<1>1. \A s \in open :
        \/ s \in {active[i] : i \in Instruments}
        \/ s \in {task[t].stream : t \in Calls}
        \/ s \in replaced \cup stray
  <2> SUFFICES ASSUME NEW s \in open, \E t \in Tasks : s = StreamOf(t)
               PROVE  s \in {task[t].stream : t \in Calls}
    BY DEF SlotsIInv, OpenOwned
  <2>1. s # 0
    BY DEF SlotsIInv, MarketTypes
  <2>2. QED
    BY <2>1 DEF StreamOf, Calls
<1>2. \A t \in Calls : t \in Tasks /\ StreamOf(t) = task[t].stream
  BY DEF Calls, StreamOf
<1>3. OwnedOnce
  BY <1>1, <1>2 DEF SlotsIInv, OneOwner, OwnedOnce
<1>4. QED
  BY <1>3, BudgetKept DEF SubscriptionsInv, StreamsInv, SlotsIInv

(* Every slot of the IG subscriptions is free, held by a call or by an     *)
(* active instrument, but for those a cancelled subscribe kept and those   *)
(* of a stream that was replaced; so no more streams are open than there   *)
(* are slots, and none has two owners: subscribe_bars, unsubscribe.        *)
THEOREM SubscriptionsSafe == SubscriptionsSpec => []SubscriptionsInv
<1>1. SubscriptionsInit => SlotsIInv
  BY SlotsStart
<1>2. SlotsIInv /\ [SubscriptionsNext]_subscriptionVars => SlotsIInv'
  BY SlotsNext
<1>3. SlotsIInv => SubscriptionsInv
  BY SlotsImply
<1>4. QED
  BY <1>1, <1>2, <1>3, PTL DEF SubscriptionsSpec
=============================================================================
