----------------------------- MODULE HttpServer -----------------------------
(***************************************************************************)
(* The HTTP server (src/http_server.rs): a request is one handler future,  *)
(* which hyper drops when its caller disconnects.  Status, headers and     *)
(* signature are functions of the decision; a header that is absent is the *)
(* empty set.  The verification of the signature by its receiver           *)
(* (clients/python, hmac_utils.py) is here too, the probes are in Pod.     *)
(***************************************************************************)
EXTENDS Messages

CONSTANT Callers   \* HTTP callers, each with one request at a time

VARIABLES
  call,      \* call[h]: "none", or "checking" while check_handler awaits check()
  response   \* response[h]: what h last received

http == <<call, response>>

NoResponse == [status |-> 0, body |-> Shown(NoReply), reset |-> 0, retry_after |-> {}, mac |-> {}]

\* Deviation of WholeSeconds: without the minimum.
WholeSecondsOrNone(ms) == ms \div 1000

\* l.149: whole seconds, the rest cut off, one at least.
WholeSeconds(ms) == IF ms < 2000 THEN 1 ELSE ms \div 1000

Status(d) == IF d.verdict = "allowed" THEN 200 ELSE 429

ResetSecs(d) == IF d.verdict = "allowed" THEN 0 ELSE WholeSeconds(d.wait)

\* l.162-167
RetryAfter(d) == IF d.verdict # "allowed" /\ d.wait > 0 THEN {ResetSecs(d)} ELSE {}

\* The digest is as good as what was digested: key, text of the flag, and the rest.
Hmac(key, flag, shown, ts) == <<key, flag, shown.remaining, shown.retry_after_ms, ts>>

\* The Display of a Rust bool, and the str of a Python bool.
RustText(b) == IF b THEN "true" ELSE "false"
PythonText(b) == IF b THEN "True" ELSE "False"

\* l.170-181; secrets has the secret, if there is one.
Mac(secrets, d, ts) ==
  {[t |-> ts, v |-> Hmac(s, RustText(Shown(d).allowed), Shown(d), ts)] : s \in secrets}

\* hmac_utils.py l.67-78; the age is at most max_age_ms.
VerifyRateHmac(mac, secret, shown, now, maxAge) ==
  /\ now - mac.t \in -maxAge..maxAge
  /\ mac.v = Hmac(secret, PythonText(shown.allowed), shown, mac.t)

\* l.127-190
Response(d, secrets, ts) ==
  [status |-> Status(d), body |-> Shown(d), reset |-> ResetSecs(d),
   retry_after |-> RetryAfter(d), mac |-> Mac(secrets, d, ts)]

\* l.123-127: the request arrives and its check begins.
Arrive(h) ==
  /\ call[h] = "none"
  /\ call' = [call EXCEPT ![h] = "checking"]
  /\ response' = [response EXCEPT ![h] = NoResponse]

Respond(h, d, secrets, ts) ==
  /\ call[h] = "checking"
  /\ call' = [call EXCEPT ![h] = "none"]
  /\ response' = [response EXCEPT ![h] = Response(d, secrets, ts)]

\* The caller disconnects.
Disconnect(h) ==
  /\ call[h] = "checking"
  /\ call' = [call EXCEPT ![h] = "none"]
  /\ UNCHANGED response

HttpInit ==
  /\ call = [h \in Callers |-> "none"]
  /\ response = [h \in Callers |-> NoResponse]
=============================================================================
