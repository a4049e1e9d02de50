------------------------------ MODULE Decision ------------------------------
(***************************************************************************)
(* The answer of RateLimiter::check (src/limiter.rs).  `limit' is the same *)
(* for every answer of a limiter and `reason' is wording: both are left    *)
(* out.  `verdict' tells the two ways a request is denied apart, which the *)
(* code does in `reason' only, and `stamp' is the version of the key the   *)
(* answer was given at; no caller sees it.                                 *)
(***************************************************************************)
EXTENDS Integers

Verdicts == {"none", "allowed", "denied", "contended"}

Reply(verdict, remaining, wait, stamp) ==
  [verdict |-> verdict, remaining |-> remaining, wait |-> wait, stamp |-> stamp]

Replies == [verdict : Verdicts, remaining : Int, wait : Int, stamp : Nat]

\* A request that is not answered yet, or was dropped.
NoReply == Reply("none", 0, 0, 0)

\* The answer of a check that lost every round of its loop.
Contended(v) == Reply("contended", 0, 100, v)

\* Deviation of Answer: the caller may proceed only if something remains.
AnswerByRemaining(out, v) ==
  Reply(IF out.remaining > 0 THEN "allowed" ELSE "denied", out.remaining, out.wait, v)

\* The answer of a check whose evaluation `out' was written as version v.
Answer(out, v) ==
  Reply(IF out.allowed THEN "allowed" ELSE "denied", out.remaining, out.wait, v)
=============================================================================
