---------------------------- MODULE WebhookGate ----------------------------
(***************************************************************************)
(* What a request meets before Store: the refusals of serverLogWebhook, in *)
(* the order it makes them, and the token bucket between them.  A request  *)
(* is its instant and its flaws; the instants are those of the bucket's    *)
(* clock, and the bucket counts in parts of a token, one for each instant. *)
(***************************************************************************)
EXTENDS Integers, Sequences, FiniteSets, FiniteSetsExt, Folds, SequencesExt

CONSTANTS
  Token,  \* parts of a token: the instants it takes to earn one
  Burst,  \* tokens a bucket holds
  Second  \* the shortest wait a refused sender is told

ASSUME GateAssumption == {Token, Burst, Second} \subseteq Nat \ {0}

-----------------------------------------------------------------------------
\* Fault: time that earned a token is counted again by the next request.
RefillOnly(bucket, at) ==
  IF at > bucket.last
  THEN [bucket EXCEPT !.tokens = Min({Burst * Token, @ + (at - bucket.last)})]
  ELSE bucket

Refilled(bucket, at) ==
  IF at > bucket.last
  THEN [tokens |-> Min({Burst * Token, bucket.tokens + (at - bucket.last)}), last |-> at]
  ELSE bucket

\* The bucket of the first request is full.
Full(at) == [tokens |-> Burst * Token, last |-> at]

\* allow: the bucket afterwards, and the time to wait, 0 when admitted.
Allow(bucket, at) ==
  LET refilled == Refilled(bucket, at)
  IN  IF refilled.tokens >= Token
      THEN [wait |-> 0, bucket |-> [refilled EXCEPT !.tokens = @ - Token]]
      ELSE [wait |-> Max({Second, Token - refilled.tokens}), bucket |-> refilled]

-----------------------------------------------------------------------------
\* Checked before the body is read, and after the bucket let the request by.
Unread == <<"media type", "secret">>
Body == <<"too large", "not an event", "version", "invalid", "expired", "blacklisted">>

FirstFlaw(checks, flaws) ==
  IF \E n \in DOMAIN checks : checks[n] \in flaws
  THEN SelectInSeq(checks, LAMBDA c : c \in flaws) ELSE 0

Outcome(checks, flaws) ==
  IF FirstFlaw(checks, flaws) = 0 THEN "store" ELSE checks[FirstFlaw(checks, flaws)]

\* The outcome of a request: what it is refused (or, blacklisted, ignored) for.
Serve(bucket, request) ==
  LET allowed == Allow(bucket, request.at)
  IN  IF Outcome(Unread, request.flaws) # "store"
      THEN [outcome |-> Outcome(Unread, request.flaws), wait |-> 0, bucket |-> bucket]
      ELSE [outcome |-> IF allowed.wait > 0 THEN "rate" ELSE Outcome(Body, request.flaws),
            wait |-> allowed.wait, bucket |-> allowed.bucket]

\* Authenticator.Fresh.
Fresh(at, now, skew) == at \in (now - skew)..(now + skew)

-----------------------------------------------------------------------------
\* A sequence of requests served in order, the first from a full bucket.
Buckets(requests) ==
  LET before[n \in DOMAIN requests] ==
        IF n = 1 THEN Full(requests[1].at) ELSE Serve(before[n - 1], requests[n - 1]).bucket
  IN  before

ServeAll(requests) == [n \in DOMAIN requests |-> Serve(Buckets(requests)[n], requests[n])]

\* The published limit: at most Burst, and one more for every Token instants,
\* in whichever window, of the requests that come as far as the bucket.
WithinLimit(requests, took, n) ==
  \A k \in took \cup {n} :
    k <= n => (Cardinality({i \in took : k <= i /\ i < n}) + 1) * Token
                <= Burst * Token + (requests[n].at - requests[k].at)

KeepsLimit(requests) ==
  LET served == ServeAll(requests)
      senders == {n \in DOMAIN requests : Outcome(Unread, requests[n].flaws) = "store"}
      took == {n \in senders : served[n].outcome # "rate"}
  IN  \A n \in senders :
        /\ n \in took <=> WithinLimit(requests, took, n)
        /\ n \notin took =>
             Allow(served[n].bucket, requests[n].at + served[n].wait).wait = 0
=============================================================================
