----------------------------- MODULE HttpClient -----------------------------
(***************************************************************************)
(* One call of SafeAsyncHttpClient.request: the loop that sends a request, *)
(* retries transport failures and retryable statuses, follows redirects    *)
(* and ends with a response or with one classified error.                  *)
(*                                                                         *)
(* The peer is the environment: after each Send it may answer with any     *)
(* class of status, with any Location, fail the transport or break the     *)
(* protocol.  Statuses are kept as the four classes the loop tells apart.  *)
(***************************************************************************)
EXTENDS Naturals

CONSTANTS
    Hosts,        \* host names that occur in URLs
    MaxRetries,   \* settings.http_max_retries
    RedirectCap   \* largest HttpRequest.max_redirects (10 in the code)

ASSUME ClientAssumption == MaxRetries \in Nat /\ RedirectCap \in Nat

VARIABLES
    allowNetwork,  \* settings.allow_network
    req,           \* the immutable HttpRequest
    pc,            \* "send": top of the loop; "await": request on the wire; "done"
    host,          \* host of current_url
    method,        \* current_method
    params,        \* current_params is not None
    body,          \* current_json or current_data is not None
    attempt,       \* attempt
    redirects,     \* redirect_count
    outcome,       \* what the caller got
    wire,          \* history: every message put on the wire
    sends,         \* history: how many messages were put on the wire
    seenOther      \* history: a 303 was followed

vars == <<allowNetwork, req, pc, host, method, params, body, attempt,
          redirects, outcome, wire, sends, seenOther>>

current == <<host, method, params, body>>
history == <<wire, sends, seenOther>>

-----------------------------------------------------------------------------
Methods == {"GET", "POST"}

Requests ==
    [method: Methods, host: Hosts, params: BOOLEAN, body: BOOLEAN,
     follow: BOOLEAN, maxRedirects: 0..RedirectCap,
     allowedHosts: SUBSET Hosts, allowSensitive: BOOLEAN]

Retryable == "retryable"       \* 429, 500, 502, 503, 504
SeeOther  == "see_other"       \* 303
Redirects == {"redirect", SeeOther}   \* 301, 302, 307, 308 and 303
Statuses  == {"final", Retryable} \cup Redirects

\* A Location header: absent, not an http(s) URL with a host, carrying
\* user info, or a URL whose query may hold a sensitive key.
Locations ==
    [form: {"missing", "unsupported", "userinfo", "url"}, host: Hosts, sensitive: BOOLEAN]

TransportErrors == {"timeout", "network_error"}

Messages ==
    [host: Hosts, method: Methods, params: BOOLEAN, body: BOOLEAN,
     hop: Nat, afterSeeOther: BOOLEAN]

Outcomes ==
    [kind: {"none", "network_disabled", "redirect_limit", "redirect_rejected",
            "unclassified", "response"} \cup TransportErrors,
     status: Statuses \cup {"none"}]

Pending == [kind |-> "none", status |-> "none"]

MaxAttempts == 1 + MaxRetries

\* Bound of the history counter: more messages than any call can send.
SendCap == MaxAttempts + RedirectCap + 1

-----------------------------------------------------------------------------
\* Mutant: an empty allow-list allows every host.
MutSafeRedirectOpenList(loc) ==
    /\ loc.form = "url"
    /\ loc.host = host \/ loc.host \in req.allowedHosts \/ req.allowedHosts = {}
    /\ req.allowSensitive \/ ~loc.sensitive

\* _safe_redirect_url: the checks a Location passes before it is followed.
\* A host other than the current one must be in the request's allow-list.
SafeRedirect(loc) ==
    /\ loc.form = "url"
    /\ loc.host = host \/ loc.host \in req.allowedHosts
    /\ req.allowSensitive \/ ~loc.sensitive

IsRedirect(status) == req.follow /\ status \in Redirects

\* Mutant: one redirect too many.
MutRedirectsLeftOffByOne == redirects <= req.maxRedirects

RedirectsLeft == redirects < req.maxRedirects

Finish(kind, status) ==
    /\ pc' = "done"
    /\ outcome' = [kind |-> kind, status |-> status]
    /\ UNCHANGED <<current, attempt, redirects, history>>

\* Mutant: the attempt is not counted.
MutRetryUncounted ==
    /\ pc' = "send"
    /\ UNCHANGED <<current, attempt, redirects, outcome, history>>

\* _schedule_retry and the increment after it: same URL, method and body.
Retry ==
    /\ attempt' = attempt + 1
    /\ pc' = "send"
    /\ UNCHANGED <<current, redirects, outcome, history>>

\* Mutant: a redirect starts a new series of attempts.
MutRedirectedResetsAttempts(status, loc) ==
    /\ host' = loc.host
    /\ redirects' = redirects + 1
    /\ params' = FALSE
    /\ method' = IF status = SeeOther THEN "GET" ELSE method
    /\ body' = (body /\ status # SeeOther)
    /\ seenOther' = (seenOther \/ status = SeeOther)
    /\ attempt' = 1

\* Mutant: a 303 changes the method and keeps the body.
MutRedirectedKeepsBody(status, loc) ==
    /\ host' = loc.host
    /\ redirects' = redirects + 1
    /\ params' = FALSE
    /\ method' = IF status = SeeOther THEN "GET" ELSE method
    /\ seenOther' = (seenOther \/ status = SeeOther)
    /\ UNCHANGED <<body, attempt>>

\* The request that is sent next: headers stay, params are dropped, a 303
\* turns it into a GET without a body; attempt is not reset.
Redirected(status, loc) ==
    /\ host' = loc.host
    /\ redirects' = redirects + 1
    /\ params' = FALSE
    /\ method' = IF status = SeeOther THEN "GET" ELSE method
    /\ body' = (body /\ status # SeeOther)
    /\ seenOther' = (seenOther \/ status = SeeOther)
    /\ UNCHANGED attempt

-----------------------------------------------------------------------------
Init ==
    /\ allowNetwork \in BOOLEAN
    /\ req \in Requests
    /\ pc = "send"
    /\ host = req.host
    /\ method = req.method
    /\ params = req.params
    /\ body = req.body
    /\ attempt = 1
    /\ redirects = 0
    /\ outcome = Pending
    /\ wire = {}
    /\ sends = 0
    /\ seenOther = FALSE

RefuseOffline ==
    /\ pc = "send"
    /\ ~allowNetwork
    /\ Finish("network_disabled", "none")

Send ==
    /\ pc = "send"
    /\ allowNetwork
    /\ wire' = wire \cup {[host |-> host, method |-> method, params |-> params,
                           body |-> body, hop |-> redirects,
                           afterSeeOther |-> seenOther]}
    /\ sends' = IF sends < SendCap THEN sends + 1 ELSE sends
    /\ pc' = "await"
    /\ UNCHANGED <<current, attempt, redirects, outcome, seenOther>>

\* httpx.TimeoutException or httpx.NetworkError.
RetryTransport ==
    /\ pc = "await"
    /\ attempt < MaxAttempts
    /\ Retry

\* Mutant: max_retries taken for the number of attempts.
MutGiveUpTransportEarly ==
    /\ pc = "await"
    /\ attempt >= MaxRetries
    /\ \E error \in TransportErrors: Finish(error, "none")

GiveUpTransport ==
    /\ pc = "await"
    /\ attempt >= MaxAttempts
    /\ \E error \in TransportErrors: Finish(error, "none")

\* Any other httpx exception is not caught by the loop.
EscapeUnclassified ==
    /\ pc = "await"
    /\ Finish("unclassified", "none")

RedirectLimit ==
    /\ pc = "await"
    /\ ~RedirectsLeft
    /\ \E status \in Redirects:
          IsRedirect(status) /\ Finish("redirect_limit", status)

RejectRedirect ==
    /\ pc = "await"
    /\ RedirectsLeft
    /\ \E status \in Redirects, loc \in Locations:
          /\ IsRedirect(status)
          /\ ~SafeRedirect(loc)
          /\ Finish("redirect_rejected", status)

FollowRedirect ==
    /\ pc = "await"
    /\ RedirectsLeft
    /\ \E status \in Redirects, loc \in Locations:
          /\ IsRedirect(status)
          /\ SafeRedirect(loc)
          /\ Redirected(status, loc)
    /\ pc' = "send"
    /\ UNCHANGED <<outcome, wire, sends>>

RetryStatus ==
    /\ pc = "await"
    /\ attempt < MaxAttempts
    /\ Retry

\* Every answer that is not redirected or retried is the response, the last
\* retryable status included.
ReturnResponse ==
    /\ pc = "await"
    /\ \E status \in Statuses:
          /\ ~IsRedirect(status)
          /\ status = Retryable => attempt >= MaxAttempts
          /\ Finish("response", status)

\* The call has returned or raised: nothing more happens.
Returned ==
    /\ pc = "done"
    /\ UNCHANGED vars

Next ==
    /\ \/ RefuseOffline
       \/ Send
       \/ RetryTransport
       \/ GiveUpTransport
       \/ EscapeUnclassified
       \/ RedirectLimit
       \/ RejectRedirect
       \/ FollowRedirect
       \/ RetryStatus
       \/ ReturnResponse
       \/ Returned
    /\ UNCHANGED <<allowNetwork, req>>

\* httpx answers or times out, and the event loop resumes the coroutine.
Spec == Init /\ [][Next]_vars /\ WF_vars(Next)

-----------------------------------------------------------------------------
\* Every variable has its type, the counters within the configured limits.
TypeOK ==
    /\ allowNetwork \in BOOLEAN
    /\ req \in Requests
    /\ pc \in {"send", "await", "done"}
    /\ host \in Hosts
    /\ method \in Methods
    /\ params \in BOOLEAN
    /\ body \in BOOLEAN
    /\ attempt \in 1..MaxAttempts
    /\ redirects \in 0..req.maxRedirects
    /\ outcome \in Outcomes
    /\ wire \in SUBSET Messages
    /\ sends \in Nat
    /\ seenOther \in BOOLEAN

\* Retries and redirects share one loop, and a retry after a redirect starts
\* at the redirect target with the same attempt counter: however they
\* alternate, one call never puts more messages on the wire than one attempt,
\* the retries and the redirects of the request allow.
SendBudget == sends <= MaxAttempts + req.maxRedirects

\* Whatever chain of redirects the peer builds, every message goes to the
\* host of the request or to a host of its allow-list (the check compares a
\* hop with the host before it, not with the first one).
HostConfinement ==
    \A m \in wire: m.host = req.host \/ m.host \in req.allowedHosts

\* Query parameters leave only with the URL they were given for, and once a
\* 303 was followed neither a retry nor a later redirect sends the body or
\* the original method again.
RedirectStripsRequest ==
    \A m \in wire:
        /\ m.params => m.hop = 0
        /\ m.afterSeeOther => m.method = "GET" /\ ~m.body
        /\ m.body => req.body

\* A caller is told of a transient failure (a timeout, a network error or a
\* retryable status) only after the last attempt was really made.
RetriesSpentBeforeFailure ==
    (outcome.kind \in TransportErrors \/ outcome.status = Retryable)
        => attempt = MaxAttempts /\ sends >= MaxAttempts

\* The steps of the loop that are left at most: what a call still sends is
\* its remaining attempts and its remaining redirects, whichever come first.
StepsLeft ==
    LET more == (MaxAttempts - attempt) + (req.maxRedirects - redirects)
    IN  [send |-> 2 * more + 2, await |-> 2 * more + 1, done |-> 0][pc]

\* The loop has one counter for attempts and one for redirects, and neither
\* is ever taken back by the other kind of answer: each turn of the loop,
\* whatever the peer answers, leaves the call fewer steps than before.
CallAdvances == [][StepsLeft' \in 0..(StepsLeft - 1)]_vars

\* Every call returns or raises: no sequence of redirects and transient
\* failures keeps the loop going.
EventuallyReturns == <>(pc = "done")

-----------------------------------------------------------------------------
\* The inductive invariant behind SendBudget, HostConfinement,
\* RedirectStripsRequest and RetriesSpentBeforeFailure.
SendsAccounted ==
    /\ pc = "send"  => sends = (attempt - 1) + redirects
    /\ pc = "await" => sends = attempt + redirects
    /\ pc = "done" /\ sends # 0 => sends = attempt + redirects
    /\ pc = "done" /\ sends = 0 => outcome.kind = "network_disabled"
    /\ outcome.kind = "network_disabled" => outcome.status = "none"
    /\ pc # "done" => outcome = Pending
    /\ ~allowNetwork => sends = 0 /\ pc # "await"

CurrentConfined ==
    /\ host = req.host \/ host \in req.allowedHosts
    /\ params => redirects = 0
    /\ seenOther => method = "GET" /\ ~body
    /\ body => req.body

ClientInv ==
    /\ TypeOK
    /\ SendsAccounted
    /\ CurrentConfined
    /\ HostConfinement
    /\ RedirectStripsRequest
    /\ RetriesSpentBeforeFailure
=============================================================================
