---------------------------- MODULE ApiErrors ----------------------------
(***************************************************************************)
(* How the management client reads an answer it was refused with, and how  *)
(* the command line reads the refusal in turn.  No state: the operators    *)
(* are used by ApiSession (api/http.ts), Sync (sync/apply.ts) and          *)
(* Onboarding (cli/signup.ts, cli/init.ts).                                *)
(***************************************************************************)
EXTENDS Integers

\* A route is "signup", "channel-test" or one read like all the rest.

SignupErrorFor(status) ==
  CASE status = 403 -> "forbidden"
    [] status = 410 -> "signup-expired"
    [] status = 429 -> "rate-limit"
    [] OTHER        -> "none"

ErrorForStatus(status, route) ==
  IF route = "signup" /\ SignupErrorFor(status) # "none"
    THEN SignupErrorFor(status)
    ELSE CASE status = 401 -> "authentication"
           [] status = 402 -> "plan-restriction"
           [] status = 403 -> "forbidden"
           [] status = 404 -> "not-found"
           [] status = 409 -> "conflict"
           [] status = 422 -> "validation"
           [] status = 429 -> "rate-limit"
           [] status = 502 /\ route = "channel-test" -> "channel-delivery"
           [] OTHER -> "unexpected-response"

\* A refusal of the whole account, after which no other request is worth making.
RefusesEverything(error) == error \in {"authentication", "plan-restriction", "rate-limit"}

\* A refusal of anything new: the account is full, or its address unverified.
RefusesEveryCreate(error) == error = "forbidden"
=============================================================================
