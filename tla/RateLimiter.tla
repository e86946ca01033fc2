----------------------------- MODULE RateLimiter -----------------------------
(***************************************************************************)
(* The REST requests to Binance: http_request_with_limiter with a          *)
(* DynamicBucket.  A task holds the limiter's lock from the look at the    *)
(* bucket, over the wait it asks for, to the answer.  The venue counts     *)
(* weights per calendar period and says in each answer what it has         *)
(* counted; the bucket goes by that, and by a fixed window of its own as   *)
(* long as it has heard nothing lately.                                    *)
(*                                                                         *)
(* A tick is a second.  The half second added to a wait, and the share of  *)
(* the limit held back, are left out.                                      *)
(***************************************************************************)
EXTENDS Integers, FiniteSets

CONSTANTS
  Tasks,      \* those that make requests
  Weights,    \* of requests
  Limit,      \* max_weight
  Period,     \* refill_rate
  MaxTime,    \* bound: the clock
  MaxCounted  \* bound: weights in a period, above the limit

ASSUME RateLimiterAssumption ==
  /\ Weights \subseteq 1 .. Limit
  /\ Limit \in Nat \ {0} /\ Period \in Nat \ {0} /\ MaxTime \in Nat
  /\ MaxCounted \in Nat

VARIABLES
  clock,    \* time, 0 at the start of a calendar period
  bucket,   \* DynamicBucket with its fallback bucket
  task,     \* what each task does
  counted,  \* external: the weight the venue counted this period
  unheard   \* history: the part of it whose answer was an error or never came

limiterVars == <<clock, bucket, task, counted, unheard>>

Idle == [phase |-> "idle", weight |-> 0, until |-> 0, header |-> 0]

TypeOKLimiter ==
  /\ clock \in 0 .. MaxTime
  /\ bucket.tokens \in 0 .. Limit /\ bucket.refilled \in 0 .. MaxTime
  /\ bucket.used \in Nat /\ bucket.updated \in 0 .. MaxTime
  /\ \A t \in Tasks : /\ task[t].phase \in {"idle", "waiting", "sent"}
                      /\ task[t].weight \in Weights \cup {0}
  /\ counted \in Nat /\ unheard \in Nat /\ unheard <= counted

-----------------------------------------------------------------------------
(* http_request_with_limiter: one task at a time.                          *)
FreeOnceSent == \A t \in Tasks : task[t].phase # "waiting"     \* mutant of LockFree
LockFree     == \A t \in Tasks : task[t].phase = "idle"

(* The venue counts a request when it is sent.                             *)
Sent(t, w) ==
  /\ counted + w <= MaxCounted
  /\ counted' = counted + w
  /\ task' = [task EXCEPT ![t] = [phase |-> "sent", weight |-> w, until |-> clock,
                                  header |-> counted']]
  /\ UNCHANGED <<clock, unheard>>

Waits(t, w, until) ==
  /\ task' = [task EXCEPT ![t] = [Idle EXCEPT !.phase = "waiting", !.weight = w, !.until = until]]
  /\ UNCHANGED <<clock, counted, unheard>>

(* prepare_with_header_data                                                *)
KnowsUsage  == clock - bucket.updated <= Period /\ bucket.used > 0
Fits(w)     == bucket.used + w <= Limit
NextPeriod  == clock - (clock % Period) + Period

RequestByHeader(t, w) ==
  /\ LockFree /\ KnowsUsage
  /\ IF Fits(w) THEN Sent(t, w) ELSE Waits(t, w, NextPeriod)
  /\ UNCHANGED bucket

(* prepare_with_fallback: calculate_wait_time.  The window is refilled     *)
(* when it has passed, and by every look in the first second of a calendar *)
(* period; a request that waits takes no tokens.                           *)
Refilled ==
  IF clock - bucket.refilled >= Period \/ clock % Period = 0
  THEN [bucket EXCEPT !.tokens = Limit, !.refilled = clock] ELSE bucket

RequestByWindow(t, w) ==
  /\ LockFree /\ ~KnowsUsage
  /\ IF Refilled.tokens >= w
     THEN /\ bucket' = [Refilled EXCEPT !.tokens = @ - w]
          /\ Sent(t, w)
     ELSE /\ bucket' = Refilled
          /\ Waits(t, w, Refilled.refilled + Period)

WaitIsOver(t) ==
  /\ task[t].phase = "waiting" /\ clock >= task[t].until
  /\ Sent(t, task[t].weight)
  /\ UNCHANGED bucket

(* update_from_response                                                    *)
Answered(t) ==
  /\ task[t].phase = "sent"
  /\ bucket' = [bucket EXCEPT !.used = task[t].header, !.updated = clock]
  /\ task' = [task EXCEPT ![t] = Idle]
  /\ UNCHANGED <<clock, counted, unheard>>

(* An error, a timeout, or a status the limiter gives up on: the bucket    *)
(* does not learn of the request.                                          *)
InThisPeriod(at) == at \div Period = clock \div Period

RequestFails(t) ==
  /\ task[t].phase = "sent"
  /\ unheard' = IF InThisPeriod(task[t].until) THEN unheard + task[t].weight ELSE unheard
  /\ task' = [task EXCEPT ![t] = Idle]
  /\ UNCHANGED <<clock, counted, bucket>>

SecondPasses ==
  /\ clock < MaxTime /\ clock' = clock + 1
  /\ IF clock' % Period = 0 THEN counted' = 0 /\ unheard' = 0
                            ELSE UNCHANGED <<counted, unheard>>
  /\ UNCHANGED <<bucket, task>>

(* DynamicBucket::new at any second of a period; nobody else uses the      *)
(* venue's allowance.                                                      *)
LimiterInit ==
  /\ clock \in 0 .. Period - 1 /\ clock <= MaxTime
  /\ bucket = [tokens |-> Limit, refilled |-> clock, used |-> 0, updated |-> clock]
  /\ task = [t \in Tasks |-> Idle]
  /\ counted = 0 /\ unheard = 0

LimiterNext ==
  \/ \E t \in Tasks :
       \/ \E w \in Weights : RequestByHeader(t, w) \/ RequestByWindow(t, w)
       \/ WaitIsOver(t) \/ Answered(t) \/ RequestFails(t)
  \/ SecondPasses

LimiterSpec == LimiterInit /\ [][LimiterNext]_limiterVars

-----------------------------------------------------------------------------
(* What the venue counts in a period stays within the limit, but for the   *)
(* requests whose answers were lost: over waits that end in the next       *)
(* period, answers that come in it, headers of an earlier period, and the  *)
(* fallback's generous first second.                                       *)
LimitIsKept == counted - unheard <= Limit
=============================================================================
